------------------------------- MODULE Agreement -------------------------------
(***************************************************************************)
(* What one binary agreement promises the correct nodes: nobody decides     *)
(* before a correct node put in the value decided, and all decide the same. *)
(* BinaryAgreement implements this specification; CommonSubset uses it.     *)
(***************************************************************************)
CONSTANTS
  Correct,   \* the parties that follow the protocol
  None       \* no value yet

VARIABLES
  vi,        \* vi[p]: the input of p, or None
  decided    \* decided[p]: what p decided, or None

Bits == {0, 1}

AgreementInit ==
  /\ vi = [p \in Correct |-> None]
  /\ decided = [p \in Correct |-> None]

Input(p, v) ==
  /\ vi[p] = None
  /\ vi' = [vi EXCEPT ![p] = v]
  /\ UNCHANGED decided

\* p decides; whoever takes its decision may put the missing input in at once.
Decide(p, v) ==
  /\ decided[p] = None
  /\ \E q \in Correct : vi[q] = v
  /\ \A q \in Correct : decided[q] \in {None, v}
  /\ decided' = [decided EXCEPT ![p] = v]
  /\ vi' = vi \/ (vi[p] = None /\ \E w \in Bits : vi' = [vi EXCEPT ![p] = w])

AgreementNext == \E p \in Correct, v \in Bits : Input(p, v) \/ Decide(p, v)

AgreementSafety == AgreementInit /\ [][AgreementNext]_<<vi, decided>>
=============================================================================
