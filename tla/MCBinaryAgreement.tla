-------------------------- MODULE MCBinaryAgreement --------------------------
(* Small instances of BinaryAgreement for TLC. *)
EXTENDS BinaryAgreement, TLC

\* The correct nodes are alike.
Alike == Permutations(Correct)

MCZeroThenOne == [r \in Epochs |-> IF r = 0 THEN {0} ELSE {1}]
MCCoinOne == [r \in Epochs |-> {1}]

MCOneZero == [v \in Bits |-> IF v = 0 THEN 1 ELSE 2]
MCOneZeroAtMost == [v \in Bits |-> IF v = 0 THEN 1 ELSE 3]
=============================================================================
