--------------------------- MODULE MCVerifyClient ---------------------------
(* Small instances of VerifyClient for TLC. *)
EXTENDS VerifyClient, MCVerifier

CONSTANTS r1, r2, noTx

\* A vector whose proof expires at ledger 1, and one without an expiry.
AboutToExpire == {<<1, 1>>, <<1>>}

Asks(method, items, bundle) ==
  [caller |-> c1, method |-> method, items |-> items, bundle |-> bundle]
Calldata == <<[proof |-> good, inputs |-> <<1, 1>>]>>
BundleOf(network, signals) == [proof |-> good, inputs |-> signals, network |-> network]

\* A bundle whose signals end in a ledger, a batch of one, an estimate, and options
\* that are refused: none, a proof with a part too short, and calldata beside
\* another network's bundle.
OneOfEach ==
  {Asks("verify_proof", <<>>, BundleOf("test", <<1, 1>>)),
   Asks("verify_batch", Calldata, NoBundle), Asks("estimate", Calldata, NoBundle),
   Asks("verify_proof", <<>>, NoBundle),
   Asks("verify_proof", <<[proof |-> short, inputs |-> <<1, 1>>]>>, NoBundle),
   Asks("verify_proof", Calldata, BundleOf("main", <<1>>))}

\* The demo's bundle, alone and beside calldata.
WithBundle ==
  {Asks("verify_proof", items, BundleOf("test", <<1>>)) : items \in {<<>>, Calldata}}
=============================================================================
