------------------------ MODULE ReliableBroadcast_proofs ------------------------
(***************************************************************************)
(* Theorems about ReliableBroadcast for any number of nodes, any roots and  *)
(* any behaviour of at most F < N/3 faulty ones, the leader included.       *)
(***************************************************************************)
EXTENDS ReliableBroadcast, CountingLemmas

-----------------------------------------------------------------------------
(* Quorums *)

\* The parties are as the protocol assumes.
LEMMA PartiesResilient == Resilient(Nodes, Faulty, F)
  BY NodesAssumption, ResilienceAssumption DEF Resilient, N

\* A set of nodes has at most F faulty ones.
LEMMA MostCount ==
  ASSUME NEW S \in SUBSET Nodes
  PROVE  /\ IsFiniteSet(S) /\ Cardinality(S) \in Nat
         /\ Cardinality(S \cap Correct) \in Nat
         /\ Cardinality(S \cap Correct) >= Cardinality(S) - F
<1>1. S \cap Correct = S \ Faulty
  BY DEF Correct
<1> QED
  BY <1>1, PartiesResilient, MostAreCorrect, CountsAreNat

\* More than F nodes have a correct one among them.
LEMMA OneCounts ==
  ASSUME NEW S \in SUBSET Nodes, Cardinality(S) >= F + 1
  PROVE  \E q \in Correct : q \in S
  BY PartiesResilient, OneIsCorrect DEF Correct

\* Two sets of N - F nodes have a correct one in common.
LEMMA EchoQuorumsMeet ==
  ASSUME NEW S \in SUBSET Nodes, NEW T \in SUBSET Nodes,
         Cardinality(S) >= N - F, Cardinality(T) >= N - F
  PROVE  \E q \in Correct : q \in S /\ q \in T
  BY PartiesResilient, QuorumsMeet DEF Correct, N

-----------------------------------------------------------------------------
(* Types *)

RootOrNone == Roots \cup {None}

\* TypeOK holds at the start.
LEMMA InitType == Init => TypeOK
  BY DEF Init, TypeOK, Nothing

\* A counter with one more sender is one.
LEMMA CountedType ==
  ASSUME TypeOK, NEW p \in Correct, NEW q \in Nodes, NEW r \in Roots
  PROVE  /\ [echoes[p] EXCEPT ![q] = r] \in [Nodes -> RootOrNone]
         /\ [readies[p] EXCEPT ![q] = r] \in [Nodes -> RootOrNone]
  BY DEF TypeOK, RootOrNone

\* The end of the ECHO and READY branches keeps the types.
LEMMA ReturnOrStayType ==
  ASSUME TypeOK, NEW p \in Correct, NEW r \in Roots, out[p] = None,
         NEW echoed \in [Nodes -> RootOrNone], NEW readied \in [Nodes -> RootOrNone],
         ReturnOrStay(p, echoed, readied, r)
  PROVE  /\ echoes' \in [Correct -> [Nodes -> RootOrNone]]
         /\ readies' \in [Correct -> [Nodes -> RootOrNone]]
         /\ out' \in [Correct -> RootOrNone \cup {Failed}]
         /\ \A u \in Correct : out'[u] # None => echoes'[u] = Nothing /\ readies'[u] = Nothing
<1>1. Nothing \in [Nodes -> RootOrNone]
  BY DEF Nothing, RootOrNone
<1>2. DecodeOutput(echoed, r) \in Roots \cup {Failed}
  BY DEF DecodeOutput, Rebuilt
<1>3. CASE Outputs(echoed, readied, r)
  BY <1>1, <1>2, <1>3, ZenonT(60) DEF TypeOK, ReturnOrStay, RootOrNone
<1>4. CASE ~Outputs(echoed, readied, r)
  BY <1>4 DEF TypeOK, ReturnOrStay, RootOrNone
<1> QED
  BY <1>3, <1>4

\* Every step keeps the types.
LEMMA StepType == TypeOK /\ [Next]_vars => TypeOK'
<1> SUFFICES ASSUME TypeOK, [Next]_vars PROVE TypeOK'
  OBVIOUS
<1>1. CASE UNCHANGED vars
  BY <1>1 DEF TypeOK, vars
<1>2. ASSUME NEW p \in Correct, NEW r \in Roots, ReceiveVal(p, r) PROVE TypeOK'
  BY <1>2 DEF TypeOK, ReceiveVal
<1>3. ASSUME NEW p \in Correct, NEW r \in Roots, NEW q \in Nodes, ReceiveEcho(p, q, r)
      PROVE  TypeOK'
  <2>1. out[p] = None /\ readies[p] \in [Nodes -> RootOrNone]
    BY <1>3 DEF ReceiveEcho, Receiving, TypeOK, RootOrNone
  <2>2. ReturnOrStay(p, [echoes[p] EXCEPT ![q] = r], readies[p], r)
    BY <1>3 DEF ReceiveEcho
  <2>3. readySent' \in [Correct -> RootOrNone]
    BY <1>3 DEF ReceiveEcho, MaybeSendReady, TypeOK, RootOrNone
  <2>4. fromLeader' \in [Correct -> RootOrNone]
    BY <1>3 DEF ReceiveEcho, TypeOK, RootOrNone
  <2> QED
    BY <2>1, <2>2, <2>3, <2>4, CountedType, ReturnOrStayType DEF TypeOK, RootOrNone
<1>4. ASSUME NEW p \in Correct, NEW r \in Roots, NEW q \in Nodes, ReceiveReady(p, q, r)
      PROVE  TypeOK'
  <2>1. out[p] = None /\ echoes[p] \in [Nodes -> RootOrNone]
    BY <1>4 DEF ReceiveReady, Receiving, TypeOK, RootOrNone
  <2>2. ReturnOrStay(p, echoes[p], [readies[p] EXCEPT ![q] = r], r)
    BY <1>4 DEF ReceiveReady
  <2>3. readySent' \in [Correct -> RootOrNone]
    BY <1>4 DEF ReceiveReady, MaybeSendReady, TypeOK, RootOrNone
  <2>4. fromLeader' \in [Correct -> RootOrNone]
    BY <1>4 DEF ReceiveReady, TypeOK, RootOrNone
  <2> QED
    BY <2>1, <2>2, <2>3, <2>4, CountedType, ReturnOrStayType DEF TypeOK, RootOrNone
<1> QED
  BY <1>1, <1>2, <1>3, <1>4 DEF Next

\* The variables have their types in every execution, and a node that returned
\* has dropped its counters.
THEOREM TypeCorrect == Spec => []TypeOK
<1> QED
  BY InitType, StepType, PTL DEF Spec

-----------------------------------------------------------------------------
(* The inductive invariant *)

\* What is counted for a correct node it has sent.
CountedWereSent ==
  \A p, q \in Correct :
    /\ echoes[p][q] # None => fromLeader[q] = echoes[p][q]
    /\ readies[p][q] # None => readySent[q] = readies[p][q]

\* Behind a READY there are N - F nodes of which the correct ones sent ECHO for
\* the same root, whether its sender has seen them or not.
EchoQuorum ==
  \A p \in Correct : readySent[p] # None =>
    \E S \in SUBSET Nodes :
      /\ Cardinality(S) >= N - F
      /\ \A q \in S \cap Correct : fromLeader[q] = readySent[p]

IInv == TypeOK /\ CountedWereSent /\ EchoQuorum

\* A correct node sends one ECHO and one READY: what is sent stays.
LEMMA SentStays ==
  ASSUME TypeOK, [Next]_vars, NEW u \in Correct
  PROVE  /\ fromLeader[u] # None => fromLeader'[u] = fromLeader[u]
         /\ readySent[u] # None => readySent'[u] = readySent[u]
<1>1. CASE UNCHANGED vars
  BY <1>1 DEF vars
<1>2. ASSUME NEW p \in Correct, NEW r \in Roots, ReceiveVal(p, r)
      PROVE  /\ fromLeader[u] # None => fromLeader'[u] = fromLeader[u]
             /\ readySent[u] # None => readySent'[u] = readySent[u]
  BY <1>2 DEF TypeOK, ReceiveVal
<1>3. ASSUME NEW p \in Correct, NEW r \in Roots, NEW q \in Nodes,
             ReceiveEcho(p, q, r) \/ ReceiveReady(p, q, r)
      PROVE  /\ fromLeader[u] # None => fromLeader'[u] = fromLeader[u]
             /\ readySent[u] # None => readySent'[u] = readySent[u]
  BY <1>3 DEF TypeOK, ReceiveEcho, ReceiveReady, MaybeSendReady
<1> QED
  BY <1>1, <1>2, <1>3 DEF Next

\* What a step newly counts for a correct node that node has sent.
LEMMA NewlyCounted ==
  ASSUME TypeOK, [Next]_vars, NEW p \in Correct, NEW q \in Correct
  PROVE  /\ echoes'[p][q] \in {None, echoes[p][q], fromLeader[q]}
         /\ readies'[p][q] \in {None, readies[p][q], readySent[q]}
<1> DEFINE Goal == /\ echoes'[p][q] \in {None, echoes[p][q], fromLeader[q]}
                   /\ readies'[p][q] \in {None, readies[p][q], readySent[q]}
<1>0. q \in Nodes /\ Nothing[q] = None
  BY DEF Correct, Nothing
<1>1. CASE UNCHANGED vars
  BY <1>1 DEF vars
<1>2. ASSUME NEW u \in Correct, NEW r \in Roots, ReceiveVal(u, r) PROVE Goal
  BY <1>2 DEF ReceiveVal
<1>3. ASSUME NEW u \in Correct, NEW v \in Nodes, NEW r \in Roots, ReceiveEcho(u, v, r)
      PROVE  Goal
  <2>1. ReturnOrStay(u, [echoes[u] EXCEPT ![v] = r], readies[u], r)
    BY <1>3 DEF ReceiveEcho
  <2>2. v \in Correct => fromLeader[v] = r
    BY <1>3 DEF ReceiveEcho, MaySend
  <2>3. CASE Outputs([echoes[u] EXCEPT ![v] = r], readies[u], r)
    BY <1>0, <2>1, <2>3 DEF ReturnOrStay, TypeOK
  <2>4. CASE ~Outputs([echoes[u] EXCEPT ![v] = r], readies[u], r)
    <3>1. /\ echoes' = [echoes EXCEPT ![u] = [echoes[u] EXCEPT ![v] = r]]
          /\ readies' = [readies EXCEPT ![u] = readies[u]]
      BY <2>1, <2>4 DEF ReturnOrStay
    <3>2. /\ echoes'[p][q] = (IF u = p /\ v = q THEN r ELSE echoes[p][q])
          /\ readies'[p][q] = readies[p][q]
      <4>1. CASE u = p
        BY <1>0, <3>1, <4>1 DEF TypeOK
      <4>2. CASE u # p
        BY <1>0, <3>1, <4>2 DEF TypeOK
      <4> QED
        BY <4>1, <4>2
    <3>3. CASE u = p /\ v = q
      <4>1. r = fromLeader[q] /\ echoes'[p][q] = r
        BY <2>2, <3>2, <3>3
      <4> QED
        BY <3>2, <4>1
    <3>4. CASE ~(u = p /\ v = q)
      <4>1. echoes'[p][q] = echoes[p][q]
        BY <3>2, <3>4
      <4> QED
        BY <3>2, <4>1
    <3> QED
      BY <3>3, <3>4
  <2> QED
    BY <2>3, <2>4
<1>4. ASSUME NEW u \in Correct, NEW v \in Nodes, NEW r \in Roots, ReceiveReady(u, v, r)
      PROVE  Goal
  <2>1. ReturnOrStay(u, echoes[u], [readies[u] EXCEPT ![v] = r], r)
    BY <1>4 DEF ReceiveReady
  <2>2. v \in Correct => readySent[v] = r
    BY <1>4 DEF ReceiveReady, MaySend
  <2>3. CASE Outputs(echoes[u], [readies[u] EXCEPT ![v] = r], r)
    BY <1>0, <2>1, <2>3 DEF ReturnOrStay, TypeOK
  <2>4. CASE ~Outputs(echoes[u], [readies[u] EXCEPT ![v] = r], r)
    <3>1. /\ echoes' = [echoes EXCEPT ![u] = echoes[u]]
          /\ readies' = [readies EXCEPT ![u] = [readies[u] EXCEPT ![v] = r]]
      BY <2>1, <2>4 DEF ReturnOrStay
    <3>2. /\ readies'[p][q] = (IF u = p /\ v = q THEN r ELSE readies[p][q])
          /\ echoes'[p][q] = echoes[p][q]
      <4>1. CASE u = p
        BY <1>0, <3>1, <4>1 DEF TypeOK
      <4>2. CASE u # p
        BY <1>0, <3>1, <4>2 DEF TypeOK
      <4> QED
        BY <4>1, <4>2
    <3>3. CASE u = p /\ v = q
      <4>1. r = readySent[q] /\ readies'[p][q] = r
        BY <2>2, <3>2, <3>3
      <4> QED
        BY <3>2, <4>1
    <3>4. CASE ~(u = p /\ v = q)
      <4>1. readies'[p][q] = readies[p][q]
        BY <3>2, <3>4
      <4> QED
        BY <3>2, <4>1
    <3> QED
      BY <3>3, <3>4
  <2> QED
    BY <2>3, <2>4
<1> QED
  BY <1>1, <1>2, <1>3, <1>4 DEF Next

\* A step keeps what is counted true.
LEMMA CountedStep == IInv /\ [Next]_vars => CountedWereSent'
<1> SUFFICES ASSUME IInv, [Next]_vars, NEW p \in Correct, NEW q \in Correct
             PROVE  /\ echoes'[p][q] # None => fromLeader'[q] = echoes'[p][q]
                    /\ readies'[p][q] # None => readySent'[q] = readies'[p][q]
  BY DEF CountedWereSent
<1>1. /\ echoes'[p][q] \in {None, echoes[p][q], fromLeader[q]}
      /\ readies'[p][q] \in {None, readies[p][q], readySent[q]}
  BY NewlyCounted DEF IInv
<1>2. /\ fromLeader[q] # None => fromLeader'[q] = fromLeader[q]
      /\ readySent[q] # None => readySent'[q] = readySent[q]
  BY SentStays DEF IInv
<1> QED
  BY <1>1, <1>2 DEF IInv, CountedWereSent

\* A node that sends READY in a step has its quorum: its own ECHOs, or that of
\* a correct node whose READY it passes on.
LEMMA NewReady ==
  ASSUME IInv, NEW p \in Correct, NEW q \in Nodes, NEW r \in Roots,
         \/ /\ ReceiveEcho(p, q, r)
            /\ Support([echoes[p] EXCEPT ![q] = r], r) >= EchoThreshold
         \/ /\ ReceiveReady(p, q, r)
            /\ Support([readies[p] EXCEPT ![q] = r], r) >= ReadyThreshold
  PROVE  \E S \in SUBSET Nodes :
           /\ Cardinality(S) >= N - F
           /\ \A u \in S \cap Correct : fromLeader[u] = r
<1>0. r # None /\ Correct \subseteq Nodes
  BY RootsAssumption DEF Correct
<1>1. ASSUME ReceiveEcho(p, q, r), Support([echoes[p] EXCEPT ![q] = r], r) >= EchoThreshold
      PROVE  \E S \in SUBSET Nodes :
               /\ Cardinality(S) >= N - F
               /\ \A u \in S \cap Correct : fromLeader[u] = r
  <2> DEFINE echoed == [echoes[p] EXCEPT ![q] = r]
             S == {u \in Nodes : echoed[u] = r}
  <2>1. Cardinality(S) >= N - F
    BY <1>1 DEF Support, EchoThreshold
  <2>2. ASSUME NEW u \in S \cap Correct PROVE fromLeader[u] = r
    <3>1. CASE u = q
      BY <1>1, <3>1 DEF ReceiveEcho, MaySend
    <3>2. CASE u # q
      <4>1. echoes[p][u] = r
        BY <2>2, <3>2 DEF IInv, TypeOK
      <4> QED
        BY <1>0, <2>2, <4>1 DEF IInv, CountedWereSent
    <3> QED
      BY <3>1, <3>2
  <2> QED
    BY <2>1, <2>2
<1>2. ASSUME ReceiveReady(p, q, r), Support([readies[p] EXCEPT ![q] = r], r) >= ReadyThreshold
      PROVE  \E S \in SUBSET Nodes :
               /\ Cardinality(S) >= N - F
               /\ \A u \in S \cap Correct : fromLeader[u] = r
  <2> DEFINE readied == [readies[p] EXCEPT ![q] = r]
             T == {u \in Nodes : readied[u] = r}
  <2>1. T \in SUBSET Nodes /\ Cardinality(T) >= F + 1
    BY <1>2 DEF Support, ReadyThreshold
  <2>2. PICK u \in Correct : u \in T
    BY <2>1, OneCounts
  <2>3. readySent[u] = r
    <3>1. CASE u = q
      BY <1>2, <3>1 DEF ReceiveReady, MaySend
    <3>2. CASE u # q
      <4>1. readies[p][u] = r
        BY <2>2, <3>2 DEF IInv, TypeOK
      <4> QED
        BY <1>0, <2>2, <4>1 DEF IInv, CountedWereSent
    <3> QED
      BY <3>1, <3>2
  <2> QED
    BY <1>0, <2>3 DEF IInv, EchoQuorum
<1> QED
  BY <1>1, <1>2

\* A step keeps a quorum behind every READY.
LEMMA EchoQuorumStep == IInv /\ [Next]_vars => EchoQuorum'
<1> SUFFICES ASSUME IInv, [Next]_vars, NEW u \in Correct, readySent'[u] # None
             PROVE  \E S \in SUBSET Nodes :
                      /\ Cardinality(S) >= N - F
                      /\ \A v \in S \cap Correct : fromLeader'[v] = readySent'[u]
  BY DEF EchoQuorum
<1>1. \E S \in SUBSET Nodes :
        /\ Cardinality(S) >= N - F
        /\ \A v \in S \cap Correct : fromLeader[v] = readySent'[u]
  <2>1. CASE readySent[u] # None
    <3>1. readySent'[u] = readySent[u]
      BY <2>1, SentStays DEF IInv
    <3> QED
      BY <2>1, <3>1 DEF IInv, EchoQuorum
  <2>2. CASE readySent[u] = None
    <3>1. PICK p \in Correct, q \in Nodes, r \in Roots :
            ReceiveEcho(p, q, r) \/ ReceiveReady(p, q, r)
      BY <2>2 DEF Next, vars, ReceiveVal
    <3>2. /\ p = u /\ readySent'[u] = r
          /\ \/ /\ ReceiveEcho(p, q, r)
                /\ Support([echoes[p] EXCEPT ![q] = r], r) >= EchoThreshold
             \/ /\ ReceiveReady(p, q, r)
                /\ Support([readies[p] EXCEPT ![q] = r], r) >= ReadyThreshold
      BY <2>2, <3>1 DEF ReceiveEcho, ReceiveReady, MaybeSendReady, IInv, TypeOK
    <3> QED
      BY <3>2, NewReady
  <2> QED
    BY <2>1, <2>2
<1>2. readySent'[u] \in Roots
  <2>1. readySent' \in [Correct -> Roots \cup {None}]
    BY StepType DEF IInv, TypeOK
  <2> QED
    BY <2>1
<1>3. \A v \in Correct : fromLeader[v] # None => fromLeader'[v] = fromLeader[v]
  BY SentStays DEF IInv
<1> QED
  BY <1>1, <1>2, <1>3, RootsAssumption

\* The invariant holds in every execution.
LEMMA InvHolds == Spec => []IInv
<1>1. Init => IInv
  BY InitType DEF Init, IInv, CountedWereSent, EchoQuorum, Nothing, Correct
<1>2. IInv /\ [Next]_vars => IInv'
  BY StepType, CountedStep, EchoQuorumStep DEF IInv
<1> QED
  BY <1>1, <1>2, PTL DEF Spec

-----------------------------------------------------------------------------
(* Agreement *)

\* Two quorums of ECHOs share a correct node, which sent one ECHO.
LEMMA AgreementOfInv == IInv => ReadyAgreement
<1> SUFFICES ASSUME IInv, NEW p \in Correct, NEW q \in Correct,
                    readySent[p] # None, readySent[q] # None
             PROVE  readySent[p] = readySent[q]
  BY DEF ReadyAgreement
<1>1. PICK S \in SUBSET Nodes :
        /\ Cardinality(S) >= N - F
        /\ \A u \in S \cap Correct : fromLeader[u] = readySent[p]
  BY DEF IInv, EchoQuorum
<1>2. PICK T \in SUBSET Nodes :
        /\ Cardinality(T) >= N - F
        /\ \A u \in T \cap Correct : fromLeader[u] = readySent[q]
  BY DEF IInv, EchoQuorum
<1>3. PICK u \in Correct : u \in S /\ u \in T
  BY <1>1, <1>2, EchoQuorumsMeet
<1> QED
  BY <1>1, <1>2, <1>3

\* No two correct nodes send READY for different roots, in any execution.
THEOREM Agreement == Spec => []ReadyAgreement
<1> QED
  BY AgreementOfInv, InvHolds, PTL

\* In every execution N - 2F correct nodes have sent everyone the stripe of a
\* root a correct node sends READY for, so that its value can be rebuilt.
THEOREM Recoverable == Spec => []ReadyIsRecoverable
<1>1. IInv => ReadyIsRecoverable
  <2> SUFFICES ASSUME IInv, NEW p \in Correct, readySent[p] # None
               PROVE  Cardinality({q \in Correct : fromLeader[q] = readySent[p]}) >= K
    BY DEF ReadyIsRecoverable
  <2> DEFINE E == {q \in Correct : fromLeader[q] = readySent[p]}
  <2>1. PICK S \in SUBSET Nodes :
          /\ Cardinality(S) >= N - F
          /\ \A u \in S \cap Correct : fromLeader[u] = readySent[p]
    BY DEF IInv, EchoQuorum
  <2>2. /\ Cardinality(S \cap Correct) >= Cardinality(S) - F
        /\ Cardinality(S) \in Nat /\ Cardinality(S \cap Correct) \in Nat
    BY MostCount
  <2>3. S \cap Correct \in SUBSET E /\ E \in SUBSET Nodes
    BY <2>1 DEF Correct
  <2> HIDE DEF E
  <2>4. Cardinality(S \cap Correct) <= Cardinality(E) /\ Cardinality(E) \in Nat
    BY <2>3, MostCount, FS_Subset
  <2>5. N \in Nat
    BY NodesAssumption, FS_CardinalityType DEF N
  <2> QED
    BY <2>1, <2>2, <2>4, <2>5, ResilienceAssumption DEF K, E
<1> QED
  BY <1>1, InvHolds, PTL
-----------------------------------------------------------------------------
(* Refinement *)

\* A correct leader hands out the stripes of its input only.
InputOnly == Leader \in Correct => \A p \in Correct : fromLeader[p] \in {None, Input}

\* What is bound is what any READY sent stands for.
BoundByAll == \A p \in Correct : readySent[p] # None => Bound = Rebuilt(readySent[p])

\* The READYs are for one root, so any of them tells what is bound.
LEMMA BoundIs == IInv => BoundByAll
<1> SUFFICES ASSUME IInv, NEW p \in Correct, readySent[p] # None
             PROVE  Bound = Rebuilt(readySent[p])
  BY DEF BoundByAll
<1>1. PICK q \in Correct : q = (CHOOSE u \in Correct : readySent[u] # None)
  OBVIOUS
<1>2. readySent[q] # None /\ Bound = Rebuilt(readySent[q])
  BY <1>1 DEF Bound
<1>3. ReadyAgreement
  BY AgreementOfInv
<1> QED
  BY <1>2, <1>3 DEF ReadyAgreement

\* A root that is bound rebuilds to a value or a failure.
LEMMA RebuiltType ==
  ASSUME NEW r \in Roots
  PROVE  Rebuilt(r) \in Encodings \cup {Failed} /\ Rebuilt(r) # None
  BY RootsAssumption DEF Rebuilt

\* What is bound stays.
LEMMA BoundStays ==
  ASSUME IInv, IInv', [Next]_vars, NEW p \in Correct, readySent[p] # None
  PROVE  Bound' = Bound /\ Bound # None
<1>1. readySent'[p] = readySent[p]
  BY SentStays DEF IInv
<1>2. BoundByAll'
  BY BoundIs, PTL
<1>3. Bound = Rebuilt(readySent[p]) /\ Bound' = Rebuilt(readySent[p])
  BY <1>1, <1>2, BoundIs DEF BoundByAll
<1>4. readySent[p] \in Roots
  BY DEF IInv, TypeOK
<1> QED
  BY <1>3, <1>4, RebuiltType

\* With a correct leader only its input is bound.
LEMMA BoundInput ==
  IInv /\ InputOnly =>
    /\ Bound \in Encodings \cup {Failed, None}
    /\ Leader \in Correct => Bound \in {Input, None}
<1> SUFFICES ASSUME IInv, InputOnly, Bound # None
             PROVE  /\ Bound \in Encodings \cup {Failed}
                    /\ Leader \in Correct => Bound = Input
  OBVIOUS
<1>1. PICK p \in Correct : readySent[p] # None
  BY DEF Bound
<1>2. Bound = Rebuilt(readySent[p]) /\ readySent[p] \in Roots
  BY <1>1, BoundIs DEF BoundByAll, IInv, TypeOK
<1>3. ASSUME Leader \in Correct PROVE readySent[p] = Input
  <2>1. PICK S \in SUBSET Nodes :
          /\ Cardinality(S) >= N - F
          /\ \A u \in S \cap Correct : fromLeader[u] = readySent[p]
    BY <1>1 DEF IInv, EchoQuorum
  <2>2. PICK u \in Correct : u \in S
    BY <2>1, EchoQuorumsMeet
  <2> QED
    BY <1>1, <1>3, <2>1, <2>2 DEF InputOnly
<1> QED
  BY <1>2, <1>3, RebuiltType, RootsAssumption DEF Rebuilt

\* A node that counts 2F + 1 READYs for a root counts that of a correct node.
LEMMA ReturnIsBound ==
  ASSUME IInv, NEW p \in Correct, NEW r \in Roots,
         NEW readied \in [Nodes -> RootOrNone], Support(readied, r) >= OutputThreshold,
         \A u \in Correct : readied[u] = r => readySent[u] = r
  PROVE  \E u \in Correct : readySent[u] = r
<1> DEFINE T == {u \in Nodes : readied[u] = r}
<1>1. T \in SUBSET Nodes /\ Cardinality(T) >= F + 1
  <2>1. Cardinality(T) \in Nat
    BY MostCount
  <2> QED
    BY <2>1, ResilienceAssumption DEF Support, OutputThreshold
<1>2. PICK u \in Correct : u \in T
  BY <1>1, OneCounts
<1> QED
  BY <1>2

\* A node returns what a correct node's READY, sent before, stands for.
LEMMA CountedInStep ==
  ASSUME IInv, NEW p \in Correct, NEW q \in Nodes, NEW r \in Roots,
         ReceiveEcho(p, q, r) \/ ReceiveReady(p, q, r), out' # out
  PROVE  /\ \E u \in Correct : readySent[u] = r
         /\ out[p] = None /\ out' = [out EXCEPT ![p] = Rebuilt(r)]
<1>0. r # None /\ Correct \subseteq Nodes
  BY RootsAssumption DEF Correct
<1>1. PICK echoed \in [Nodes -> RootOrNone], readied \in [Nodes -> RootOrNone] :
        /\ ReturnOrStay(p, echoed, readied, r)
        /\ \A u \in Correct : readied[u] = r => readySent[u] = r
  <2>1. CASE ReceiveEcho(p, q, r)
    <3>1. \A u \in Correct : readies[p][u] = r => readySent[u] = r
      BY <1>0 DEF IInv, CountedWereSent
    <3>2. ReturnOrStay(p, [echoes[p] EXCEPT ![q] = r], readies[p], r)
      BY <2>1 DEF ReceiveEcho
    <3>3. readies[p] \in [Nodes -> RootOrNone]
      BY DEF IInv, TypeOK, RootOrNone
    <3> QED
      BY <3>1, <3>2, <3>3, CountedType DEF IInv
  <2>2. CASE ReceiveReady(p, q, r)
    <3>1. ASSUME NEW u \in Correct, [readies[p] EXCEPT ![q] = r][u] = r
          PROVE  readySent[u] = r
      <4>1. CASE u = q
        BY <2>2, <4>1 DEF ReceiveReady, MaySend
      <4>2. CASE u # q
        <5>1. readies[p][u] = r
          BY <1>0, <3>1, <4>2 DEF IInv, TypeOK
        <5> QED
          BY <1>0, <5>1 DEF IInv, CountedWereSent
      <4> QED
        BY <4>1, <4>2
    <3>2. ReturnOrStay(p, echoes[p], [readies[p] EXCEPT ![q] = r], r)
      BY <2>2 DEF ReceiveReady
    <3>3. echoes[p] \in [Nodes -> RootOrNone]
      BY DEF IInv, TypeOK, RootOrNone
    <3> QED
      BY <3>1, <3>2, <3>3, CountedType DEF IInv
  <2> QED
    BY <2>1, <2>2
<1>2. Outputs(echoed, readied, r)
  BY <1>1 DEF ReturnOrStay
<1>3. out' = [out EXCEPT ![p] = Rebuilt(r)]
  BY <1>1, <1>2 DEF ReturnOrStay, DecodeOutput, Outputs
<1>4. out[p] = None
  BY DEF ReceiveEcho, ReceiveReady, Receiving
<1> QED
  BY <1>1, <1>2, <1>3, <1>4, ReturnIsBound DEF Outputs

\* Every step is one of the broadcast's, or changes nothing it speaks of.
LEMMA StepRefines ==
  IInv /\ IInv' /\ InputOnly /\ InputOnly' /\ [Next]_vars
    => [Abstract!BroadcastNext]_<<Bound, out>>
<1> SUFFICES ASSUME IInv, IInv', InputOnly, InputOnly', [Next]_vars
             PROVE  Abstract!BroadcastNext \/ UNCHANGED <<Bound, out>>
  OBVIOUS
<1>1. CASE UNCHANGED readySent /\ UNCHANGED out
  BY <1>1 DEF Bound
<1>2. ASSUME NEW p \in Correct, NEW q \in Nodes, NEW r \in Roots,
             ReceiveEcho(p, q, r) \/ ReceiveReady(p, q, r), out' # out
      PROVE  Abstract!BroadcastNext
  <2>1. /\ \E u \in Correct : readySent[u] = r
        /\ out[p] = None /\ out' = [out EXCEPT ![p] = Rebuilt(r)]
    BY <1>2, CountedInStep
  <2>2. PICK u \in Correct : readySent[u] = r /\ readySent[u] # None
    BY <2>1, RootsAssumption
  <2>3. Bound = Rebuilt(r) /\ Bound' = Bound /\ Bound # None
    BY <2>2, BoundIs, BoundStays DEF BoundByAll
  <2>4. Abstract!Return(p)
    BY <2>1, <2>3 DEF Abstract!Return
  <2> QED
    BY <2>4 DEF Abstract!BroadcastNext, Abstract!Correct, Correct
<1>3. CASE UNCHANGED out
  <2>1. CASE \E u \in Correct : readySent[u] # None
    BY <1>3, <2>1, BoundStays
  <2>2. CASE \A u \in Correct : readySent[u] = None
    <3>1. Bound = None
      BY <2>2 DEF Bound
    <3>2. CASE Bound' = None
      BY <1>3, <3>1, <3>2
    <3>3. CASE Bound' # None
      <4>1. (IInv /\ InputOnly =>
               /\ Bound \in Encodings \cup {Failed, None}
               /\ Leader \in Correct => Bound \in {Input, None})'
        BY BoundInput, PTL
      <4>2. /\ Bound' \in Encodings \cup {Failed}
            /\ Leader \in Correct => Bound' = Input
        BY <3>3, <4>1
      <4>3. Abstract!Bind(Bound')
        BY <1>3, <3>1, <4>2 DEF Abstract!Bind, Abstract!Correct, Correct
      <4> QED
        BY <4>2, <4>3 DEF Abstract!BroadcastNext
    <3> QED
      BY <3>2, <3>3
  <2> QED
    BY <2>1, <2>2
<1> QED
  BY <1>1, <1>2, <1>3 DEF Next, vars, ReceiveVal

\* The protocol implements a reliable broadcast (its safety part): one value or
\* one failure for all the correct nodes, a correct leader's input.
THEOREM Implements == Spec => BroadcastSafety
<1>1. Init => Abstract!BroadcastInit
  BY DEF Init, Abstract!BroadcastInit, Bound, Abstract!Correct, Correct
<1>2. Init => InputOnly
  BY DEF Init, InputOnly
<1>3. IInv /\ InputOnly /\ [Next]_vars => InputOnly'
  BY ZenonT(60) DEF IInv, TypeOK, InputOnly, Next, vars, ReceiveVal, VALFromLeader, ReceiveEcho, ReceiveReady
<1> QED
  BY <1>1, <1>2, <1>3, InvHolds, StepRefines, PTL
     DEF Spec, BroadcastSafety, Abstract!BroadcastSafety

=============================================================================
