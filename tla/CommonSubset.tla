----------------------------- MODULE CommonSubset -----------------------------
(***************************************************************************)
(* One commonsubset: every node proposes by a reliable broadcast of its own *)
(* and N binary agreements settle which proposals are in.  A node puts 1    *)
(* into the agreement of a proposal it has got, and 0 into those left once  *)
(* N - f proposals are in.                                                  *)
(*                                                                          *)
(* Each broadcast and each agreement is what its abstract specification     *)
(* (Broadcast, Agreement) promises; the variables chosen, rbc and aba are   *)
(* theirs, and AgreementsAreFaithful checks that the use of each agreement  *)
(* is one that Agreement knows.                                             *)
(* Nothing here rests on N >= 3f + 1, which they do.                        *)
(***************************************************************************)
EXTENDS Naturals, FiniteSets

CONSTANTS
  Nodes,    \* the N parties, each the leader of one broadcast
  Faulty,   \* the parties that do not follow the protocol
  F,        \* f
  Value,    \* what the broadcast of a leader returns
  Failed,   \* it raised instead: the stripes were not those of a value
  None      \* Python's None

N == Cardinality(Nodes)
Correct == Nodes \ Faulty
Bits == {0, 1}

\* Assumed of the constants.
NodesAssumption == IsFiniteSet(Nodes) /\ Faulty \subseteq Nodes
ResilienceAssumption == F \in Nat /\ F < N /\ Cardinality(Faulty) <= F
NoneAssumption ==
  /\ None # Value /\ None # Failed /\ Value # Failed /\ None \notin Bits
  /\ \A S \in SUBSET Nodes : S # None /\ S # Failed

VARIABLES
  chosen,   \* chosen[j]: the value broadcast j is bound to, or None
  rbc,      \* rbc[p][j]: what broadcast j returned to p, or None
  input,    \* input[p][j]: the bit p put into agreement j, None if none yet
  aba,      \* aba[p][j]: what agreement j returned to p, or None
  result    \* result[p]: the proposals p returns, None while it waits, Failed

vars == <<chosen, rbc, input, aba, result>>

Unset == [p \in Correct |-> [j \in Nodes |-> None]]

Init ==
  /\ chosen = [j \in Nodes |-> None]
  /\ rbc = Unset /\ input = Unset /\ aba = Unset
  /\ result = [p \in Correct |-> None]

-----------------------------------------------------------------------------
(* The broadcasts and the agreements *)

BindBroadcast(j, v) ==
  /\ chosen[j] = None /\ (j \in Correct => v = Value)
  /\ chosen' = [chosen EXCEPT ![j] = v]
  /\ UNCHANGED <<rbc, input, aba, result>>

\* The bit agreement j may return to p now.
MayDecide(p, j, b) ==
  /\ \E q \in Correct : input[q][j] = b
  /\ \A q \in Correct : aba[q][j] \in {None, b}

-----------------------------------------------------------------------------
(* The greenlets of p *)

\* Mutants of Ones and Enough: agreements that ended count, or one 1 too few.
Ended(returned) == {j \in Nodes : returned[j] # None}
EnoughLessOne(returned) == Cardinality({j \in Nodes : returned[j] = 1}) + 1 >= N - F

\* sum(aba_values), of the agreements that are in.
Ones(returned) == {j \in Nodes : returned[j] = 1}
Enough(returned) == Cardinality(Ones(returned)) >= N - F

\* Mutants of Inputs: 0 also goes into agreements that have an input, into none
\* at all, or the sum of aba_values goes in.
InputsAgain(put, returned) ==
  [j \in Nodes |-> IF put[j] # None /\ returned[j] = 1 THEN put[j] ELSE 0]
InputsNever(put, returned) == put
InputsSum(put, returned) ==
  [j \in Nodes |-> IF put[j] = None THEN Cardinality(Ones(returned)) ELSE put[j]]

\* aba_in[k](0) for every k that has no input.
Inputs(put, returned) == [j \in Nodes |-> IF put[j] = None THEN 0 ELSE put[j]]

\* _recv_rbc(j): the value gives the agreement its 1; an exception ends the
\* greenlet and the agreement gets no input from it.
ReceiveBroadcast(p, j) ==
  /\ chosen[j] # None /\ rbc[p][j] = None /\ result[p] = None
  /\ rbc' = [rbc EXCEPT ![p][j] = chosen[j]]
  /\ input' = IF chosen[j] = Value /\ input[p][j] = None
                THEN [input EXCEPT ![p][j] = 1] ELSE input
  /\ UNCHANGED <<chosen, aba, result>>

\* _recv_aba(j): with N - f proposals in, the other agreements get a 0.
ReceiveAgreement(p, j, b) ==
  /\ aba[p][j] = None /\ MayDecide(p, j, b)
  /\ aba' = [aba EXCEPT ![p][j] = b]
  /\ input' = IF Enough(aba'[p]) THEN [input EXCEPT ![p] = Inputs(@, aba'[p])] ELSE input
  /\ UNCHANGED <<chosen, rbc, result>>

\* The main greenlet: all agreements ended, then the broadcasts that are in are
\* joined and the others killed.  Either assertion ends it with an exception.
Finish(p) ==
  LET in == Ones(aba[p]) IN
  /\ result[p] = None
  /\ \A j \in Nodes : aba[p][j] # None
  /\ \A j \in in : rbc[p][j] # None
  /\ result' = [result EXCEPT ![p] =
       IF Enough(aba[p]) /\ \A j \in in : rbc[p][j] = Value THEN in ELSE Failed]
  /\ UNCHANGED <<chosen, rbc, input, aba>>

-----------------------------------------------------------------------------
Terminating == (\A p \in Correct : result[p] # None) /\ UNCHANGED vars

Next ==
  \/ \E j \in Nodes, v \in {Value, Failed} : BindBroadcast(j, v)
  \/ \E p \in Correct :
       \/ \E j \in Nodes : ReceiveBroadcast(p, j)
       \/ \E j \in Nodes, b \in Bits : ReceiveAgreement(p, j, b)
       \/ Finish(p)
  \/ Terminating

Spec == Init /\ [][Next]_vars

\* What the two protocols promise: a correct leader's broadcast is returned to
\* everyone, a faulty one's to all or none, and an agreement ends when all the
\* correct nodes have put something in.
Fairness ==
  /\ \A j \in Correct : WF_vars(BindBroadcast(j, Value))
  /\ \A p \in Correct, j \in Nodes :
       /\ WF_vars((j \in Correct \/ \E q \in Correct : rbc[q][j] # None) /\ ReceiveBroadcast(p, j))
       /\ WF_vars((\A q \in Correct : input[q][j] # None)
                  /\ \E b \in Bits : ReceiveAgreement(p, j, b))
  /\ \A p \in Correct : WF_vars(Finish(p))

FairSpec == Spec /\ Fairness

-----------------------------------------------------------------------------
(* Properties *)

TypeOK ==
  /\ chosen \in [Nodes -> {None, Value, Failed}]
  /\ rbc \in [Correct -> [Nodes -> {None, Value, Failed}]]
  /\ input \in [Correct -> [Nodes -> Bits \cup {None}]]
  /\ aba \in [Correct -> [Nodes -> Bits \cup {None}]]
  /\ result \in [Correct -> {None, Failed} \cup SUBSET Nodes]

\* All the nodes that return return the same proposals, N - f of them at least.
SameSubset ==
  \A p, q \in Correct :
    result[p] \notin {None, Failed} /\ result[q] \notin {None, Failed} =>
      result[p] = result[q] /\ Cardinality(result[p]) >= N - F

\* No assertion of the code fails: N - f agreements are in, and every proposal
\* that is in can be had, even when a faulty leader's broadcast raises.
NoAssertionFails == \A p \in Correct : result[p] # Failed

Agree(j) == INSTANCE Agreement
  WITH vi <- [p \in Correct |-> input[p][j]], decided <- [p \in Correct |-> aba[p][j]]

\* Each agreement gets one input of a node and no second one, and answers as
\* Agreement says.
AgreementsAreFaithful ==
  [][\A j \in Nodes : [Agree(j)!AgreementNext]_<<[p \in Correct |-> input[p][j]], [p \in Correct |-> aba[p][j]]>>]_vars

\* Every correct node returns.
Termination == <>(\A p \in Correct : result[p] # None)
=============================================================================
