------------------------- MODULE MCFastConfirmQueues -------------------------
(* Small instances of FastConfirmQueues for TLC. *)
EXTENDS FastConfirmQueues

MCAllSelected ==
  [r \in Rounds |-> [s \in Steps |-> [n \in Nodes |->
     1 + ((n + r + s) % Cardinality(Nodes))]]]

\* Everyone votes, precommits and commits in the first round; later committees
\* have one member, another one for each step.  Node 0 proposes in every round
\* and node 1 in the last one only.
MCFewSelected ==
  [r \in Rounds |-> [s \in Steps |-> [n \in Nodes |->
     IF s = Propose THEN IF n = 0 \/ r = Slots THEN 1 + n ELSE 0
     ELSE IF r = 1 THEN 1 + ((n + s) % Cardinality(Nodes))
     ELSE IF (n + r + s) % Cardinality(Nodes) = 0 THEN 1 ELSE 0]]]
=============================================================================
