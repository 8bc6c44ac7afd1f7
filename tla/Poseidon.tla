------------------------------ MODULE Poseidon ------------------------------
(***************************************************************************)
(* poseidon() of sdk/src/poseidon.ts: the hash that the SDK computes where *)
(* the circuits constrain it.                                              *)
(*                                                                         *)
(* The code runs the optimised schedule of circomlib, whose constants C, S *)
(* and P fold the linear parts of neighbouring rounds into one another and *)
(* whose partial rounds multiply by a sparse matrix.  The model runs that  *)
(* schedule over a small field, round by round, beside the permutation it  *)
(* has to equal, every round of which adds its constants, applies the      *)
(* S-box and multiplies by M.  The constants of each width are parameters. *)
(***************************************************************************)
EXTENDS Integers, Sequences

CONSTANTS
  Modulus,        \* BN254_SCALAR_MODULUS
  FullRounds,     \* N_ROUNDS_F
  PartialRounds,  \* N_ROUNDS_P, for each width: one more than the arity
  C, S, M, P,     \* the file of constants, for each width
  RoundConstants, \* the round constants that C was computed from, for each width
  Values,         \* integers a caller passes
  NotLoaded       \* constantsCache before the first call

Widths == DOMAIN PartialRounds
ASSUME FieldAssumption == Modulus \in Nat \ {0} /\ Values \subseteq Int
ASSUME RoundsAssumption ==
  /\ FullRounds \in Nat /\ FullRounds % 2 = 0 /\ FullRounds >= 2
  /\ 2 \in Widths /\ Widths \subseteq Nat \ {0, 1}
  /\ \A width \in Widths : PartialRounds[width] \in Nat
ASSUME ConstantsAssumption ==
  \A width \in Widths :
    /\ C[width] \in [1..FullRounds * width + PartialRounds[width] -> Int]
    /\ S[width] \in [1..(2 * width - 1) * PartialRounds[width] -> Int]
    /\ {M[width], P[width]} \subseteq [1..width -> [1..width -> Int]]
    /\ RoundConstants[width] \in [1..FullRounds + PartialRounds[width] -> [1..width -> Int]]

VARIABLES
  constantsCache,  \* the constants of every width, or NotLoaded
  values,          \* the inputs of the present call, or of the last
  round,           \* how many rounds it has run
  state,           \* the state of the code, indexed from 0
  ideal            \* the state of the permutation as it is defined

poseidonVars == <<constantsCache, values, round, state, ideal>>

Width == Len(values) + 1
Half == FullRounds \div 2

----------------------------------------------------------------------------
\* The remainder of bigints has the sign of the value.
Remainder(value) == IF value >= 0 THEN value % Modulus ELSE -((-value) % Modulus)

Mod(value) ==
  LET reduced == Remainder(value)
  IN  IF reduced >= 0 THEN reduced ELSE reduced + Modulus

Pow5(value) == Mod(value * Mod(Mod(value * value) * Mod(value * value)))

AddConstants(s, c, from) == [i \in DOMAIN s |-> Mod(s[i] + c[from + i + 1])]

SBox(s) == [i \in DOMAIN s |-> Pow5(s[i])]

\* state.reduce: what the first n terms add up to.
Reduce(term, n) ==
  LET sum[k \in 0..n] == IF k = 0 THEN 0 ELSE sum[k - 1] + term[k - 1]
  IN  sum[n]

Mix(s, matrix) ==
  [column \in DOMAIN s |->
     Mod(Reduce([row \in DOMAIN s |-> matrix[row + 1][column + 1] * s[row]], Width))]

GetConstants ==
  IF constantsCache = NotLoaded THEN [C |-> C, S |-> S, M |-> M, P |-> P] ELSE constantsCache

----------------------------------------------------------------------------
\* A call with inputs of an arity the hash has; any other is refused before the
\* cache is loaded.
PoseidonCall(inputs) ==
  LET width == Len(inputs) + 1
      prepared == [i \in 0..Len(inputs) |-> IF i = 0 THEN 0 ELSE Mod(inputs[i])]
  IN
  /\ round = 0 \/ round > FullRounds + PartialRounds[Width]
  /\ width \in Widths
  /\ values' = inputs
  /\ constantsCache' = GetConstants
  /\ state' = AddConstants(prepared, GetConstants.C[width], 0)
  /\ ideal' = [i \in 0..Len(inputs) |-> IF i = 0 THEN 0 ELSE inputs[i] % Modulus]
  /\ round' = 1

\* The permutation as it is defined makes its own round r, counted from 1.
IdealRound ==
  LET full == round <= Half \/ round > Half + PartialRounds[Width]
      added == AddConstants(ideal, RoundConstants[Width][round], 0)
  IN  ideal' = Mix(IF full THEN SBox(added) ELSE [added EXCEPT ![0] = Pow5(@)], M[Width])

\* What every round keeps and counts.
Advances ==
  /\ round' = round + 1
  /\ IdealRound
  /\ UNCHANGED <<constantsCache, values>>

\* The rounds of the first loop.
FirstFullRound ==
  /\ round \in 1..Half - 1
  /\ state' = Mix(AddConstants(SBox(state), GetConstants.C[Width], round * Width), GetConstants.M[Width])
  /\ Advances

\* The round that turns from M to P.
TurningRound ==
  /\ round = Half
  /\ state' = Mix(AddConstants(SBox(state), GetConstants.C[Width], Half * Width), GetConstants.P[Width])
  /\ Advances

\* Fault: the sparse matrix is read transposed.
SparseTransposed(boxed, s, from) ==
  [k \in DOMAIN boxed |->
     IF k = 0 THEN Mod(Reduce([i \in DOMAIN boxed |->
                                 s[from + (IF i = 0 THEN 1 ELSE Width + i)] * boxed[i]], Width))
     ELSE Mod(boxed[k] + boxed[0] * s[from + k + 1])]

\* The sparse matrix of a partial round: the numbers of its first row, then the
\* others of its first column.
Sparse(boxed, s, from) ==
  [k \in DOMAIN boxed |->
     IF k = 0 THEN Mod(Reduce([i \in DOMAIN boxed |-> s[from + i + 1] * boxed[i]], Width))
     ELSE Mod(boxed[k] + boxed[0] * s[from + Width + k])]

PartialRound ==
  LET r == round - Half - 1
      boxed == [state EXCEPT ![0] = Mod(Pow5(@) + GetConstants.C[Width][(Half + 1) * Width + r + 1])]
  IN
  /\ r \in 0..PartialRounds[Width] - 1
  /\ state' = Sparse(boxed, GetConstants.S[Width], (2 * Width - 1) * r)
  /\ Advances

LastFullRound ==
  LET r == round - Half - PartialRounds[Width] - 1
  IN
  /\ r \in 0..Half - 2
  /\ state' = Mix(AddConstants(SBox(state), GetConstants.C[Width],
                               (Half + 1) * Width + PartialRounds[Width] + r * Width), GetConstants.M[Width])
  /\ Advances

\* The last round adds nothing, and the call returns state[0].
FinalRound ==
  /\ round = FullRounds + PartialRounds[Width]
  /\ state' = Mix(SBox(state), GetConstants.M[Width])
  /\ Advances

PoseidonInit ==
  /\ constantsCache = NotLoaded /\ values = <<0>>
  /\ round = 0 /\ state = [i \in {0} |-> 0] /\ ideal = state

PoseidonNext ==
  \/ \E width \in Widths : \E inputs \in [1..width - 1 -> Values] : PoseidonCall(inputs)
  \/ FirstFullRound \/ TurningRound \/ PartialRound \/ LastFullRound \/ FinalRound

PoseidonSpec == PoseidonInit /\ [][PoseidonNext]_poseidonVars

----------------------------------------------------------------------------
(* What it takes of the file of constants that the two agree.  Vectors are     *)
(* indexed from 0, as in the code, and the lists of the file from 1.           *)

Indices(width) == 0..width - 1
Congruent(u, v, width) == \A i \in Indices(width) : Mod(u[i]) = Mod(v[i])
Piece(list, from, width) == [i \in Indices(width) |-> list[from + i + 1]]

\* Products with a matrix by rows, and with the transposed one, as in the rounds.
RowsTimes(matrix, v, width) ==
  [i \in Indices(width) |->
     Reduce([l \in Indices(width) |-> matrix[i + 1][l + 1] * v[l]], width)]
ColumnsTimes(matrix, v, width) ==
  [i \in Indices(width) |->
     Reduce([l \in Indices(width) |-> matrix[l + 1][i + 1] * v[l]], width)]

\* The product with the sparse matrix of the partial round j, counted from 0.
SparseTimes(j, v, width) ==
  LET from == (2 * width - 1) * j
  IN  [k \in Indices(width) |->
         IF k = 0 THEN Reduce([i \in Indices(width) |-> S[width][from + i + 1] * v[i]], width)
         ELSE v[k] + v[0] * S[width][from + width + k]]

\* The full rounds add what M makes the next round constants of; the partial ones
\* run on the state of the permutation, shifted and turned by a matrix that leaves
\* the first element alone: turn[width][j + 1] and shift[width][j + 1] before the
\* partial round j.
ScheduleFolds(turn, shift) ==
  \A width \in Widths :
    LET partial == PartialRounds[width]
        rc(r) == Piece(RoundConstants[width][r], 0, width)
        c(from) == Piece(C[width], from, width)
        T(j) == turn[width][j + 1]
        K(j) == Piece(shift[width][j + 1], 0, width)
        rowOf(matrix, l) == Piece(matrix[l + 1], 0, width)
        columnOf(matrix, l) == [i \in Indices(width) |-> matrix[i + 1][l + 1]]
        only(x) == [i \in Indices(width) |-> IF i = 0 THEN x ELSE 0]
    IN
    /\ \A j \in 0..partial :
         /\ T(j) \in [1..width -> [1..width -> Int]] /\ shift[width][j + 1] \in [1..width -> Int]
         /\ \A i \in Indices(width) : T(j)[1][i + 1] = only(1)[i] /\ T(j)[i + 1][1] = only(1)[i]
         /\ Mod(K(j)[0]) = Mod(rc(Half + 1 + j)[0])
    /\ Congruent(c(0), rc(1), width)
    /\ \A r \in 1..Half - 1 : Congruent(ColumnsTimes(M[width], c(r * width), width), rc(r + 1), width)
    /\ \A l \in Indices(width) :
         Congruent(RowsTimes(T(0), rowOf(M[width], l), width), rowOf(P[width], l), width)
    /\ Congruent(ColumnsTimes(P[width], c(Half * width), width), RowsTimes(T(0), K(0), width), width)
    /\ \A j \in 0..partial - 1 :
         /\ \A l \in Indices(width) :
              Congruent(SparseTimes(j, columnOf(T(j), l), width),
                        RowsTimes(T(j + 1), rowOf(M[width], l), width), width)
         /\ LET moved == [i \in Indices(width) |-> rc(Half + 1 + j)[i] - K(j)[i]]
                added == C[width][(Half + 1) * width + j + 1]
            IN  Congruent(SparseTimes(j, only(added), width),
                          RowsTimes(T(j + 1),
                                    [i \in Indices(width) |->
                                       ColumnsTimes(M[width], moved, width)[i] + K(j + 1)[i]], width),
                          width)
    /\ \A i, l \in Indices(width) : T(partial)[i + 1][l + 1] = IF i = l THEN 1 ELSE 0
    /\ Congruent(K(partial), rc(Half + partial + 1), width)
    /\ \A r \in 0..Half - 2 :
         Congruent(ColumnsTimes(M[width], c((Half + 1) * width + partial + r * width), width),
                   rc(Half + partial + r + 2), width)

----------------------------------------------------------------------------
\* Whatever was hashed before and at whatever width, a call returns what the
\* permutation as it is defined makes of the field elements its inputs stand for:
\* negative inputs and inputs past the modulus are their residues, as in a circuit,
\* and every index into C, S, M and P is the one the schedule needs
\* (poseidon.ts:119-166; mod at 28-31).
DigestIsReference ==
  round > FullRounds + PartialRounds[Width] => state[0] = ideal[0]

=============================================================================
