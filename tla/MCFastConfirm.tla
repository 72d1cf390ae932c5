---------------------------- MODULE MCFastConfirm ----------------------------
(* Small instances of FastConfirm for TLC.  Nodes are 0..N-1 as in the code. *)
EXTENDS FastConfirm

\* Everyone is in every committee; the best proposer rotates with the round.
MCAllSelected ==
  [r \in Rounds |-> [s \in Steps |-> [n \in Nodes |->
     1 + ((n + r + s) % Cardinality(Nodes))]]]

\* In each step one node is left out, another one each time.
MCOneLeftOut ==
  [r \in Rounds |-> [s \in Steps |-> [n \in Nodes |->
     (n + r + s) % Cardinality(Nodes)]]]

\* The same for the proposals; every other committee has all nodes.
MCTwoPropose ==
  [r \in Rounds |-> [s \in Steps |->
     IF s = Propose THEN MCOneLeftOut[r][s] ELSE MCAllSelected[r][s]]]
=============================================================================
