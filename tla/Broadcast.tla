------------------------------- MODULE Broadcast -------------------------------
(***************************************************************************)
(* What one reliable broadcast promises the correct nodes: every value      *)
(* returned is the same one, it is the leader's input when the leader is    *)
(* correct, and it is returned by all of them or by none.                   *)
(* ReliableBroadcast implements this specification; CommonSubset uses it.   *)
(***************************************************************************)
CONSTANTS
  Nodes,     \* the N parties
  Faulty,    \* the parties that do not follow the protocol
  Leader,    \* the party that broadcasts
  Values,    \* the values that may be returned
  Input,     \* the value a correct leader broadcasts
  None       \* no value yet

VARIABLES
  chosen,    \* the value the broadcast is bound to, or None
  out        \* out[p]: what the correct node p returned, or None

Correct == Nodes \ Faulty

BroadcastInit == chosen = None /\ out = [p \in Correct |-> None]

\* The broadcast is bound to a value before anybody returns one.
Bind(v) ==
  /\ chosen = None
  /\ Leader \in Correct => v = Input
  /\ chosen' = v
  /\ UNCHANGED out

Return(p) ==
  /\ chosen # None /\ out[p] = None
  /\ out' = [out EXCEPT ![p] = chosen]
  /\ UNCHANGED chosen

BroadcastNext == (\E v \in Values : Bind(v)) \/ (\E p \in Correct : Return(p))

BroadcastSafety == BroadcastInit /\ [][BroadcastNext]_<<chosen, out>>

\* One correct node returns a value only if all of them will.
Totality == (\E p \in Correct : out[p] # None) ~> (\A p \in Correct : out[p] # None)

BroadcastSpec == BroadcastSafety /\ Totality
=============================================================================
