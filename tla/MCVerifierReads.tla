--------------------------- MODULE MCVerifierReads ---------------------------
(* Small instances of VerifierReads for TLC. *)
EXTENDS VerifierReads, MCVerifier

CONSTANT noRead
=============================================================================
