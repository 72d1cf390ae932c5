-------------------------- MODULE FastConfirm_proofs --------------------------
(***************************************************************************)
(* Proofs about FastConfirm and FastConfirmQueues, for every number of      *)
(* nodes, rounds and messages, in three parts: the rounds, whatever is lost *)
(* or late; the rounds when the network keeps its promise; and the queues,  *)
(* which implement the rounds.                                              *)
(***************************************************************************)
EXTENDS FastConfirmQueues, FiniteSetTheorems, SequenceTheorems, WellFoundedInduction, TLAPS

-----------------------------------------------------------------------------
(* Type correctness *)

\* The hashes over the threshold are hashes of counted messages.
LEMMA OverThresholdOfMembers ==
  ASSUME NEW M PROVE OverThreshold(M) \subseteq {m.hB : m \in M}
  BY DEF OverThreshold

\* A drain yields messages that were sent.
LEMMA DrainOfSent ==
  ASSUME NEW p, NEW M, NEW w \in Drains(p, M)
  PROVE  w \subseteq M /\ \A m \in w : m.r = round[p]
  BY DEF Drains

\* The initial state is well typed.
LEMMA TypeInit == Init => TypeOK
<1> SUFFICES ASSUME Init PROVE TypeOK
  OBVIOUS
<1> QED
  BY NumbersAssumption DEF Init, TypeOK, GradeStates, Stopped

\* A quorum is not empty, and more messages than a quorum are a quorum.
LEMMA EnoughFacts ==
  /\ ~Enough(0)
  /\ \A m, n \in Int : Enough(m) /\ m <= n => Enough(n)
  BY NumbersAssumption DEF Enough

\* What is counted is finite: the messages sent are.
PoolsFinite ==
  /\ IsFiniteSet(props) /\ IsFiniteSet(votes)
  /\ IsFiniteSet(precommits) /\ IsFiniteSet(commits)

\* Counting in a subset of finitely many messages gives a number.
LEMMA CountIsNat ==
  ASSUME NEW M, IsFiniteSet(M), NEW w \in SUBSET M, NEW h
  PROVE  Count(h, w) \in Nat
  BY FS_Subset, FS_CardinalityType DEF Count

\* Every step of a node, and every crash, keeps the types.
LEMMA TypeStep ==
  ASSUME TypeOK, PoolsFinite, NEW p \in Nodes, Step(p) \/ Crash(p)
  PROVE  TypeOK'
<1> USE NumbersAssumption DEF TypeOK, Stopped, Goto
<1>1. round[p] <= Slots => round[p] \in Rounds
  BY DEF Rounds
<1>2. pc[p] \notin Stopped => round[p] \in Rounds
  BY DEF Rounds
<1>3. CASE ProposeBlock(p)
  <2>1. Proposal(p) \in ProposalMsgs
    BY <1>2, <1>3 DEF Proposal, ProposalMsgs, ProposeBlock, GradeStates
  <2> QED
    BY <1>3, <2>1 DEF ProposeBlock, nodeVars, roundVars
<1>4. CASE SitOut(p)
  BY <1>4 DEF SitOut, nodeVars, roundVars, msgs
<1>5. CASE Starve(p)
  BY <1>5 DEF Starve, nodeVars, roundVars, msgs
<1>6. CASE ElectAndVote(p)
  <2>0. PICK w \in Drains(p, props) : \E elected \in Leaders(p, w) :
          /\ got' = [got EXCEPT ![p] = w]
          /\ votes' = votes \cup VoteOf(p, HashOf(elected))
    BY <1>6 DEF ElectAndVote
  <2>1. PICK elected \in Leaders(p, w) :
          /\ got' = [got EXCEPT ![p] = w]
          /\ votes' = votes \cup VoteOf(p, HashOf(elected))
    BY <2>0
  <2>2. w \subseteq props /\ elected \in props
    BY <2>1, DrainOfSent DEF Leaders
  <2>3. HashOf(elected) \in Blocks
    BY <2>2 DEF HashOf, Blocks, ProposalMsgs
  <2>4. votes' \in SUBSET VoteMsgs
    BY <1>2, <1>6, <2>1, <2>3 DEF VoteMsgs, ElectAndVote, VoteOf
  <2> QED
    BY <1>6, <2>1, <2>2, <2>4 DEF ElectAndVote, nodeVars
<1>7. CASE NoLeader(p)
  BY <1>7 DEF NoLeader, nodeVars, roundVars, msgs
<1>8. CASE CountVotes(p)
  <2>0. PICK w \in Drains(p, votes) :
          \E h \in (IF OverThreshold(w) = {} THEN {NoHash} ELSE OverThreshold(w)) :
            /\ pchB' = [pchB EXCEPT ![p] = h]
            /\ voteTag' = [voteTag EXCEPT ![p] = IF h = NoHash THEN 0 ELSE 1]
            /\ precommits' = precommits \cup PrecommitOf(p, h, w)
    BY <1>8 DEF CountVotes
  <2>1. PICK h \in (IF OverThreshold(w) = {} THEN {NoHash} ELSE OverThreshold(w)) :
          /\ pchB' = [pchB EXCEPT ![p] = h]
          /\ voteTag' = [voteTag EXCEPT ![p] = IF h = NoHash THEN 0 ELSE 1]
          /\ precommits' = precommits \cup PrecommitOf(p, h, w)
    BY <2>0
  <2>2. h \in Blocks \cup {NoHash}
    BY <2>1, DrainOfSent, OverThresholdOfMembers DEF VoteMsgs
  <2>3. h # NoHash => Count(h, w) \in Nat
    BY <2>2, CountIsNat, DrainOfSent DEF PoolsFinite
  <2>4. precommits' \in SUBSET PrecommitMsgs
    BY <1>2, <1>8, <2>1, <2>2, <2>3 DEF PrecommitMsgs, CountVotes, PrecommitOf
  <2> QED
    BY <1>8, <2>1, <2>2, <2>4 DEF CountVotes, nodeVars
<1>9. CASE CountPrecommits(p)
  <2>0. PICK w \in Drains(p, precommits) :
          \E last \in (IF w = {} THEN {pchB[p]} ELSE {m.hB : m \in w}) :
            \E h \in ({NoHash} \cup OverThreshold({m \in w : Enough(m.len)})) :
              /\ pchB' = [pchB EXCEPT ![p] = last]
              /\ chB' = [chB EXCEPT ![p] = h]
              /\ commits' = commits \cup CommitOf(p, h)
    BY <1>9 DEF CountPrecommits
  <2>1. PICK last \in (IF w = {} THEN {pchB[p]} ELSE {m.hB : m \in w}),
             h \in ({NoHash} \cup OverThreshold({m \in w : Enough(m.len)})) :
            /\ pchB' = [pchB EXCEPT ![p] = last]
            /\ chB' = [chB EXCEPT ![p] = h]
            /\ commits' = commits \cup CommitOf(p, h)
    BY <2>0
  <2>2. w \subseteq precommits
    BY <2>1, DrainOfSent
  <2>3. last \in Blocks \cup {NoHash, None}
    BY <2>1, <2>2 DEF PrecommitMsgs
  <2>4. h \in Blocks \cup {NoHash}
    <3> SUFFICES ASSUME h # NoHash PROVE h \in Blocks
      OBVIOUS
    <3>1. h \in {m.hB : m \in {n \in w : Enough(n.len)}}
      BY <2>1, OverThresholdOfMembers
    <3>2. PICK m \in precommits : Enough(m.len) /\ h = m.hB
      BY <2>2, <3>1
    <3>3. m.len # 0
      BY <3>2, EnoughFacts
    <3> QED
      BY <3>2, <3>3 DEF PrecommitMsgs
  <2>5. commits' \in SUBSET CommitMsgs
    BY <1>2, <1>9, <2>1, <2>4 DEF CommitMsgs, CountPrecommits, CommitOf
  <2> QED
    BY <1>9, <2>1, <2>3, <2>4, <2>5 DEF CountPrecommits, nodeVars
<1>10. JudgeCommits(p) => state' \in [Nodes -> GradeStates]
  <2> SUFFICES ASSUME JudgeCommits(p) PROVE state' \in [Nodes -> GradeStates]
    OBVIOUS
  <2>0. PICK w \in Drains(p, commits) : \E g \in Certified(w) :
          state' = [state EXCEPT ![p] = Grade(p, g)]
    BY DEF JudgeCommits
  <2>1. PICK g \in Certified(w) : state' = [state EXCEPT ![p] = Grade(p, g)]
    BY <2>0
  <2>2. g \in Blocks \cup {NoQuorum}
    BY <2>1, DrainOfSent, OverThresholdOfMembers DEF Certified, CommitMsgs, Verifies
  <2>3. round[p] \in 0..Slots
    BY <1>2 DEF JudgeCommits, Rounds
  <2>4. Grade(p, g) \in GradeStates
    BY <2>2, <2>3, SentinelAssumption DEF Grade, GradeStates
  <2> QED
    BY <2>1, <2>4
<1>11. ASSUME NextRound(p), pc[p] = "commit"
       PROVE  /\ pc' \in [Nodes -> {"idle", "bp", "vote", "pc", "commit"} \cup Stopped]
              /\ round' \in [Nodes -> 1..Slots+1]
              /\ \A q \in Nodes : pc'[q] = "done" <=> round'[q] = Slots + 1
              /\ txbuf' \in [Nodes -> 0..TxInit]
              /\ got' \in [Nodes -> SUBSET props']
              /\ voteTag' \in [Nodes -> {0, 1}]
              /\ pchB' \in [Nodes -> Blocks \cup {NoHash, None}]
              /\ chB' \in [Nodes -> Blocks \cup {NoHash}]
              /\ props' \in SUBSET ProposalMsgs
              /\ votes' \in SUBSET VoteMsgs
              /\ precommits' \in SUBSET PrecommitMsgs
              /\ commits' \in SUBSET CommitMsgs
  BY <1>11, SMTT(30) DEF NextRound, DropLocals, msgs
<1>12. \A m \in got[p] : HashOf(m) \in Blocks
  BY DEF HashOf, Blocks, ProposalMsgs
<1>13. CASE FinishFirstRound(p)
  <2>1. pc[p] = "commit" /\ NextRound(p) /\ JudgeCommits(p)
    BY <1>13 DEF FinishFirstRound, JudgeCommits
  <2>2. lB' \in [Nodes -> Blocks \cup {None}] /\ log' \in [Nodes -> Seq(Blocks)]
    <3>1. CASE voteTag[p] = 1
      <4>1. PICK block \in got[p] : lB' = [lB EXCEPT ![p] = HashOf(block)]
        BY <1>13, <3>1 DEF FinishFirstRound
      <4>2. pchB[p] \in Blocks /\ log' = [log EXCEPT ![p] = Append(@, pchB[p])]
        BY <1>13, <1>12, <3>1 DEF FinishFirstRound
      <4> QED
        BY <1>12, <4>1, <4>2
    <3> QED
      BY <1>13, <3>1 DEF FinishFirstRound
  <2> QED
    BY <1>10, <1>11, <1>13, <2>1, <2>2 DEF FinishFirstRound
<1>14. CASE UnknownBlock(p)
  <2>1. pc[p] = "commit" /\ JudgeCommits(p)
    BY <1>14 DEF UnknownBlock, JudgeCommits
  <2> QED
    BY <1>10, <1>14, <2>1 DEF UnknownBlock, roundVars, msgs
<1>15. CASE FinishRound(p)
  <2>1. pc[p] = "commit" /\ NextRound(p) /\ JudgeCommits(p)
    BY <1>15 DEF FinishRound, JudgeCommits
  <2>2. PICK block \in got[p] : Output(p, block) \/ Defer(p, block)
    BY <1>15 DEF FinishRound
  <2>3. /\ lB' \in [Nodes -> Blocks \cup {None}]
        /\ log' \in [Nodes -> Seq(Blocks)]
        /\ tobe' \in [Nodes -> Seq(Blocks)]
        /\ lastcommit' \in [Nodes -> {0, 1}]
    <3>1. HashOf(block) \in Blocks
      BY <1>12, <2>2
    <3>2. CASE Output(p, block)
      BY <3>1, <3>2 DEF Output, Remaining
    <3>3. CASE Defer(p, block)
      BY <3>1, <3>3 DEF Defer
    <3> QED
      BY <2>2, <3>2, <3>3
  <2> QED
    BY <1>10, <1>11, <2>1, <2>3
<1>16. CASE KeysExhausted(p)
  BY <1>16 DEF KeysExhausted, KeyMissing, nodeVars, roundVars, msgs
<1>17. CASE Crash(p)
  BY <1>17 DEF Crash, Live, nodeVars, roundVars, msgs
<1> QED
  BY <1>3, <1>4, <1>5, <1>6, <1>7, <1>8, <1>9, <1>13, <1>14, <1>15, <1>16, <1>17 DEF Step

\* A step adds at most one message.
LEMMA FiniteStep ==
  ASSUME PoolsFinite, NEW p \in Nodes, Step(p) \/ Crash(p)
  PROVE  PoolsFinite'
<1> DEFINE Grows(M, N) == \E m : N = M \/ N = M \cup {m}
<1>1. \A M, N : IsFiniteSet(M) /\ Grows(M, N) => IsFiniteSet(N)
  BY FS_AddElement
<1>2. /\ Grows(props, props') /\ Grows(votes, votes')
      /\ Grows(precommits, precommits') /\ Grows(commits, commits')
  <2>1. CASE ProposeBlock(p)
    BY <2>1 DEF ProposeBlock
  <2>2. CASE ElectAndVote(p)
    BY <2>2 DEF ElectAndVote, VoteOf
  <2>3. CASE CountVotes(p)
    BY <2>3 DEF CountVotes, PrecommitOf
  <2>4. CASE CountPrecommits(p)
    BY <2>4 DEF CountPrecommits, CommitOf
  <2>5. CASE SitOut(p) \/ Starve(p) \/ NoLeader(p) \/ KeysExhausted(p) \/ Crash(p)
    BY <2>5 DEF SitOut, Starve, NoLeader, KeysExhausted, Crash, msgs
  <2>6. CASE FinishFirstRound(p) \/ UnknownBlock(p) \/ FinishRound(p)
    BY <2>6 DEF FinishFirstRound, UnknownBlock, FinishRound, NextRound, DropLocals, msgs
  <2> QED
    BY <2>1, <2>2, <2>3, <2>4, <2>5, <2>6 DEF Step
<1> QED
  BY <1>1, <1>2 DEF PoolsFinite

\* Every state of the protocol is well typed: no step leaves the ranges of the
\* variables, and a node stops exactly after its last slot.
THEOREM TypeCorrect == Spec => []TypeOK
<1>1. Init => TypeOK /\ PoolsFinite
  BY TypeInit, FS_EmptySet DEF Init, PoolsFinite
<1>2. TypeOK /\ PoolsFinite /\ [Next]_vars => (TypeOK /\ PoolsFinite)'
  <2> SUFFICES ASSUME TypeOK, PoolsFinite, [Next]_vars
               PROVE  (TypeOK /\ PoolsFinite)'
    OBVIOUS
  <2>1. CASE \E p \in Nodes : Step(p) \/ Crash(p)
    BY <2>1, TypeStep, FiniteStep
  <2>2. CASE UNCHANGED vars
    BY <2>2 DEF vars, nodeVars, roundVars, msgs, TypeOK, PoolsFinite
  <2> QED
    BY <2>1, <2>2 DEF Next, Terminating
<1> QED
  BY <1>1, <1>2, PTL DEF Spec

-----------------------------------------------------------------------------
(* One message of each step and round *)

\* The messages of step k a node has sent are of rounds before its own, or of
\* its own when its wait is past sending k.
Before(m, k) ==
  \/ m.r < round[m.from]
  \/ m.r = round[m.from] /\ StageOf(pc[m.from]) >= k

SentBefore(M, k) == \A m \in M : Before(m, k)

Unique(M) == \A m, n \in M : m.r = n.r /\ m.from = n.from => m = n

SendOrder ==
  /\ SentBefore(props, Propose) /\ SentBefore(votes, Vote)
  /\ SentBefore(precommits, Precommit) /\ SentBefore(commits, Commit)

SendInv == SendOrder /\ Unique(props) /\ Unique(votes) /\ Unique(precommits) /\ Unique(commits)

\* A step moves its node forward, in its round or to the next one, and it
\* moves no other node.
LEMMA Forward ==
  ASSUME TypeOK, NEW p \in Nodes, Step(p) \/ Crash(p)
  PROVE  /\ \A q \in Nodes \ {p} : pc'[q] = pc[q] /\ round'[q] = round[q]
         /\ \/ round'[p] = round[p] + 1
            \/ round'[p] = round[p] /\ StageOf(pc'[p]) > StageOf(pc[p])
<1> USE DEF TypeOK, Goto, Stopped, StageOf
<1>1. CASE ProposeBlock(p) \/ SitOut(p) \/ Starve(p)
  BY <1>1 DEF ProposeBlock, SitOut, Starve
<1>2. CASE ElectAndVote(p) \/ NoLeader(p)
  BY <1>2 DEF ElectAndVote, NoLeader
<1>3. CASE CountVotes(p)
  BY <1>3 DEF CountVotes
<1>4. CASE CountPrecommits(p)
  BY <1>4 DEF CountPrecommits
<1>5. CASE FinishFirstRound(p) \/ FinishRound(p)
  BY <1>5 DEF FinishFirstRound, FinishRound, NextRound
<1>6. CASE UnknownBlock(p)
  BY <1>6 DEF UnknownBlock, JudgeCommits
<1>7. CASE KeysExhausted(p)
  BY <1>7 DEF KeysExhausted, KeyMissing
<1>8. CASE Crash(p)
  BY <1>8 DEF Crash, Live
<1> QED
  BY <1>1, <1>2, <1>3, <1>4, <1>5, <1>6, <1>7, <1>8 DEF Step

\* What a step adds to the messages sent.
Adds(M, N, p, k) ==
  \/ N = M
  \/ \E m : /\ N = M \cup {m} /\ m.r = round[p] /\ m.from = p
            /\ StageOf(pc[p]) < k
            /\ round'[p] = round[p] /\ StageOf(pc'[p]) >= k

\* A step adds at most one message, of its own round, to the set of one step.
LEMMA StepAdds ==
  ASSUME TypeOK, NEW p \in Nodes, Step(p) \/ Crash(p)
  PROVE  /\ Adds(props, props', p, Propose) /\ Adds(votes, votes', p, Vote)
         /\ Adds(precommits, precommits', p, Precommit)
         /\ Adds(commits, commits', p, Commit)
<1> USE DEF Adds, Goto, StageOf
<1>0. pc \in [Nodes -> {"idle", "bp", "vote", "pc", "commit"} \cup Stopped]
  BY DEF TypeOK
<1>1. CASE ProposeBlock(p)
  BY <1>0, <1>1 DEF ProposeBlock, Proposal, Propose
<1>2. CASE ElectAndVote(p)
  BY <1>0, <1>2 DEF ElectAndVote, Vote, VoteOf
<1>3. CASE CountVotes(p)
  BY <1>0, <1>3 DEF CountVotes, Precommit, PrecommitOf
<1>4. CASE CountPrecommits(p)
  BY <1>0, <1>4 DEF CountPrecommits, Commit, CommitOf
<1>5. CASE SitOut(p) \/ Starve(p) \/ NoLeader(p) \/ KeysExhausted(p) \/ Crash(p)
  BY <1>5 DEF SitOut, Starve, NoLeader, KeysExhausted, Crash, msgs
<1>6. CASE FinishFirstRound(p) \/ UnknownBlock(p) \/ FinishRound(p)
  BY <1>6 DEF FinishFirstRound, UnknownBlock, FinishRound, NextRound, DropLocals, msgs
<1> QED
  BY <1>1, <1>2, <1>3, <1>4, <1>5, <1>6 DEF Step

\* One growing set of messages keeps its order and its uniqueness.
LEMMA PoolStep ==
  ASSUME TypeOK, NEW p \in Nodes, Step(p) \/ Crash(p),
         NEW M, NEW N, NEW k \in Steps, Adds(M, N, p, k),
         \A m \in M : m.from \in Nodes /\ m.r \in Rounds,
         \A m \in M : Before(m, k),
         Unique(M)
  PROVE  /\ \A m \in N : Before(m, k)'
         /\ Unique(N)
<1>1. \A q \in Nodes : round[q] \in Nat /\ StageOf(pc[q]) \in Nat /\ StageOf(pc'[q]) \in Nat
  BY DEF TypeOK, StageOf
<1>2. k \in Nat /\ \A m \in M : m.r \in Nat
  BY DEF Steps, Rounds
<1>3. \A m \in M : Before(m, k)'
  <2> SUFFICES ASSUME NEW m \in M
               PROVE  Before(m, k)'
    OBVIOUS
  <2>1. CASE m.from = p
    BY <1>1, <1>2, <2>1, Forward DEF Before
  <2>2. CASE m.from # p
    BY <2>2, Forward DEF Before
  <2> QED
    BY <2>1, <2>2
<1>4. CASE N = M
  BY <1>3, <1>4
<1>5. ASSUME NEW x, N = M \cup {x}, x.r = round[p], x.from = p, StageOf(pc[p]) < k,
             round'[p] = round[p], StageOf(pc'[p]) >= k
      PROVE  /\ \A m \in N : Before(m, k)'
             /\ Unique(N)
  <2>1. \A m \in M : ~(m.r = x.r /\ m.from = x.from)
    BY <1>1, <1>2, <1>5 DEF Before
  <2> QED
    BY <1>1, <1>3, <1>5, <2>1 DEF Unique, Before
<1> QED
  BY <1>4, <1>5 DEF Adds

\* Every step keeps the order of what each node sends and its uniqueness.
LEMMA SendStep ==
  ASSUME TypeOK, SendInv, NEW p \in Nodes, Step(p) \/ Crash(p)
  PROVE  SendInv'
<1>1. /\ \A m \in props \cup votes \cup precommits \cup commits :
           m.from \in Nodes /\ m.r \in Rounds
  BY DEF TypeOK, ProposalMsgs, VoteMsgs, PrecommitMsgs, CommitMsgs
<1>2. Propose \in Steps /\ Vote \in Steps /\ Precommit \in Steps /\ Commit \in Steps
  BY DEF Propose, Vote, Precommit, Commit, Steps
<1>3. SentBefore(props, Propose)' /\ Unique(props)'
  BY <1>1, <1>2, StepAdds, PoolStep DEF SendInv, SendOrder, SentBefore, Unique
<1>4. SentBefore(votes, Vote)' /\ Unique(votes)'
  BY <1>1, <1>2, StepAdds, PoolStep DEF SendInv, SendOrder, SentBefore, Unique
<1>5. SentBefore(precommits, Precommit)' /\ Unique(precommits)'
  BY <1>1, <1>2, StepAdds, PoolStep DEF SendInv, SendOrder, SentBefore, Unique
<1>6. SentBefore(commits, Commit)' /\ Unique(commits)'
  BY <1>1, <1>2, StepAdds, PoolStep DEF SendInv, SendOrder, SentBefore, Unique
<1> QED
  BY <1>3, <1>4, <1>5, <1>6 DEF SendInv, SendOrder

-----------------------------------------------------------------------------
(* Certificates *)

\* Messages over the threshold in what a drain yields are a quorum of those sent.
LEMMA QuorumSent ==
  ASSUME NEW M, IsFiniteSet(M), NEW w \in SUBSET M, NEW r, \A m \in w : m.r = r,
         NEW h \in OverThreshold(w)
  PROVE  Enough(Cardinality(OfRound(M, r, h)))
<1> DEFINE S == {m \in w : m.hB = h}
<1>1. Enough(Cardinality(S))
  BY DEF OverThreshold, Count
<1>2. S \subseteq OfRound(M, r, h) /\ OfRound(M, r, h) \subseteq M
  BY DEF OfRound
<1>3. IsFiniteSet(OfRound(M, r, h))
  BY <1>2, FS_Subset
<1>4. /\ Cardinality(S) \in Int /\ Cardinality(OfRound(M, r, h)) \in Int
      /\ Cardinality(S) <= Cardinality(OfRound(M, r, h))
  BY <1>2, <1>3, FS_Subset, FS_CardinalityType
<1> QED
  BY <1>1, <1>4, EnoughFacts

\* A quorum stays one while messages are added.
LEMMA QuorumStays ==
  ASSUME NEW M, NEW N, IsFiniteSet(N), M \subseteq N, NEW r, NEW h,
         Enough(Cardinality(OfRound(M, r, h)))
  PROVE  Enough(Cardinality(OfRound(N, r, h)))
<1>1. /\ OfRound(M, r, h) \subseteq OfRound(N, r, h)
      /\ IsFiniteSet(OfRound(N, r, h))
  BY FS_Subset DEF OfRound
<1>2. /\ Cardinality(OfRound(M, r, h)) \in Int /\ Cardinality(OfRound(N, r, h)) \in Int
      /\ Cardinality(OfRound(M, r, h)) <= Cardinality(OfRound(N, r, h))
  BY <1>1, FS_Subset, FS_CardinalityType
<1> QED
  BY <1>2, EnoughFacts

\* No step takes a message back.
LEMMA PoolsGrow ==
  ASSUME NEW p \in Nodes, Step(p) \/ Crash(p)
  PROVE  /\ props \subseteq props' /\ votes \subseteq votes'
         /\ precommits \subseteq precommits' /\ commits \subseteq commits'
<1>1. CASE ProposeBlock(p)
  BY <1>1 DEF ProposeBlock
<1>2. CASE ElectAndVote(p)
  BY <1>2 DEF ElectAndVote
<1>3. CASE CountVotes(p)
  BY <1>3 DEF CountVotes
<1>4. CASE CountPrecommits(p)
  BY <1>4 DEF CountPrecommits
<1>5. CASE SitOut(p) \/ Starve(p) \/ NoLeader(p) \/ KeysExhausted(p) \/ Crash(p)
  BY <1>5 DEF SitOut, Starve, NoLeader, KeysExhausted, Crash, msgs
<1>6. CASE FinishFirstRound(p) \/ UnknownBlock(p) \/ FinishRound(p)
  BY <1>6 DEF FinishFirstRound, UnknownBlock, FinishRound, NextRound, DropLocals, msgs
<1> QED
  BY <1>1, <1>2, <1>3, <1>4, <1>5, <1>6 DEF Step

\* The four links of the chain of certificates.
VotesCertified == \A m \in votes : \E b \in props : b.r = m.r /\ HashOf(b) = m.hB
PrecommitsCertified ==
  \A m \in precommits : m.hB # None => Enough(Cardinality(OfRound(votes, m.r, m.hB)))
CommitsCertified ==
  \A m \in commits :
    m.hB # NoHash => Enough(Cardinality(OfRound(precommits, m.r, m.hB)))
GradesCertified ==
  \A p \in Nodes :
    state[p].g > 0 => /\ state[p].b # NoHash
                      /\ Enough(Cardinality(OfRound(commits, state[p].r, state[p].b)))

\* CertificateChain is its four links.
LEMMA ChainLinks ==
  CertificateChain <=> /\ VotesCertified /\ PrecommitsCertified
                       /\ CommitsCertified /\ GradesCertified
  BY DEF CertificateChain, VotesCertified, PrecommitsCertified, CommitsCertified, GradesCertified

\* A vote is for a proposal the voter drained in its round.
LEMMA VotesStep ==
  ASSUME TypeOK, VotesCertified, NEW p \in Nodes, Step(p) \/ Crash(p)
  PROVE  VotesCertified'
<1>1. CASE votes' = votes
  BY <1>1, PoolsGrow DEF VotesCertified, HashOf
<1>2. CASE ElectAndVote(p)
  <2>1. PICK w \in Drains(p, props) : \E elected \in Leaders(p, w) :
          votes' = votes \cup VoteOf(p, HashOf(elected))
    BY <1>2 DEF ElectAndVote
  <2>2. PICK elected \in Leaders(p, w) :
          votes' = votes \cup VoteOf(p, HashOf(elected))
    BY <2>1
  <2>3. elected \in props /\ elected.r = round[p]
    BY <2>1, <2>2, DrainOfSent DEF Leaders
  <2>4. props' = props
    BY <1>2 DEF ElectAndVote
  <2> QED
    BY <2>2, <2>3, <2>4 DEF VotesCertified, HashOf, VoteOf
<1>3. votes' = votes \/ ElectAndVote(p)
  BY DEF Step, ProposeBlock, SitOut, Starve, NoLeader, CountVotes, CountPrecommits,
         FinishFirstRound, UnknownBlock, FinishRound, NextRound, DropLocals,
         KeysExhausted, Crash, msgs
<1> QED
  BY <1>1, <1>2, <1>3

\* A precommit for a block follows a drain with a quorum of votes for it.
LEMMA PrecommitsStep ==
  ASSUME TypeOK, PoolsFinite, PoolsFinite', PrecommitsCertified,
         NEW p \in Nodes, Step(p) \/ Crash(p)
  PROVE  PrecommitsCertified'
<1>1. \A m \in precommits :
        m.hB # None => Enough(Cardinality(OfRound(votes', m.r, m.hB)))
  BY PoolsGrow, QuorumStays DEF PrecommitsCertified, PoolsFinite
<1>2. CASE precommits' = precommits
  BY <1>1, <1>2 DEF PrecommitsCertified
<1>3. CASE CountVotes(p)
  <2>1. PICK w \in Drains(p, votes) :
          \E h \in (IF OverThreshold(w) = {} THEN {NoHash} ELSE OverThreshold(w)) :
            precommits' = precommits \cup PrecommitOf(p, h, w)
    BY <1>3 DEF CountVotes
  <2>2. PICK h \in (IF OverThreshold(w) = {} THEN {NoHash} ELSE OverThreshold(w)) :
          precommits' = precommits \cup PrecommitOf(p, h, w)
    BY <2>1
  <2>3. h # NoHash => Enough(Cardinality(OfRound(votes, round[p], h)))
    BY <2>2, DrainOfSent, QuorumSent DEF PoolsFinite
  <2>4. votes' = votes
    BY <1>3 DEF CountVotes
  <2> QED
    BY <1>1, <2>2, <2>3, <2>4 DEF PrecommitsCertified, PrecommitOf
<1>4. precommits' = precommits \/ CountVotes(p)
  BY DEF Step, ProposeBlock, SitOut, Starve, ElectAndVote, NoLeader, CountPrecommits,
         FinishFirstRound, UnknownBlock, FinishRound, NextRound, DropLocals,
         KeysExhausted, Crash, msgs
<1> QED
  BY <1>2, <1>3, <1>4

\* A commit for a block follows a drain with a quorum of precommits for it.
LEMMA CommitsStep ==
  ASSUME TypeOK, PoolsFinite, PoolsFinite', CommitsCertified,
         NEW p \in Nodes, Step(p) \/ Crash(p)
  PROVE  CommitsCertified'
<1>1. \A m \in commits :
        m.hB # NoHash => Enough(Cardinality(OfRound(precommits', m.r, m.hB)))
  BY PoolsGrow, QuorumStays DEF CommitsCertified, PoolsFinite
<1>2. CASE commits' = commits
  BY <1>1, <1>2 DEF CommitsCertified
<1>3. CASE CountPrecommits(p)
  <2>1. PICK w \in Drains(p, precommits) :
          \E last \in (IF w = {} THEN {pchB[p]} ELSE {m.hB : m \in w}) :
            \E h \in ({NoHash} \cup OverThreshold({m \in w : Enough(m.len)})) :
              commits' = commits \cup CommitOf(p, h)
    BY <1>3 DEF CountPrecommits
  <2>2. PICK h \in ({NoHash} \cup OverThreshold({m \in w : Enough(m.len)})) :
          commits' = commits \cup CommitOf(p, h)
    BY <2>1
  <2>3. h # NoHash => Enough(Cardinality(OfRound(precommits, round[p], h)))
    <3>1. /\ {m \in w : Enough(m.len)} \in SUBSET precommits
          /\ \A m \in {n \in w : Enough(n.len)} : m.r = round[p]
      BY <2>1, DrainOfSent
    <3> QED
      BY <2>2, <3>1, QuorumSent DEF PoolsFinite
  <2>4. precommits' = precommits
    BY <1>3 DEF CountPrecommits
  <2> QED
    BY <1>1, <2>2, <2>3, <2>4 DEF CommitsCertified, CommitOf
<1>4. commits' = commits \/ CountPrecommits(p)
  BY DEF Step, ProposeBlock, SitOut, Starve, ElectAndVote, NoLeader, CountVotes,
         FinishFirstRound, UnknownBlock, FinishRound, NextRound, DropLocals,
         KeysExhausted, Crash, msgs
<1> QED
  BY <1>2, <1>3, <1>4

\* The grade of a node changes when it judges the commits of its round; the
\* branch that keeps the grade keeps its quorum.
LEMMA GradesStep ==
  ASSUME TypeOK, PoolsFinite, PoolsFinite', GradesCertified,
         NEW p \in Nodes, Step(p) \/ Crash(p)
  PROVE  GradesCertified'
<1>1. \A q \in Nodes : state[q].g > 0 =>
        /\ state[q].b # NoHash
        /\ Enough(Cardinality(OfRound(commits', state[q].r, state[q].b)))
  BY PoolsGrow, QuorumStays DEF GradesCertified, PoolsFinite
<1>2. CASE state' = state
  BY <1>1, <1>2 DEF GradesCertified
<1>3. CASE JudgeCommits(p) /\ commits' = commits
  <2>1. PICK w \in Drains(p, commits) : \E g \in Certified(w) :
          state' = [state EXCEPT ![p] = Grade(p, g)]
    BY <1>3 DEF JudgeCommits
  <2>2. PICK g \in Certified(w) : state' = [state EXCEPT ![p] = Grade(p, g)]
    BY <2>1
  <2>3. CASE g = NoQuorum
    <3>1. chB[p] # g
      BY <2>3, SentinelAssumption DEF TypeOK
    <3>2. Grade(p, g) = state[p] \/ Grade(p, g).g = 0
      BY <2>3, <3>1 DEF Grade
    <3> QED
      BY <1>1, <2>2, <3>2 DEF GradesCertified, TypeOK
  <2>4. CASE g # NoQuorum
    <3> DEFINE v == {m \in w : Verifies(m)}
    <3>1. v \in SUBSET commits /\ \A m \in v : m.r = round[p]
      BY <2>1, DrainOfSent
    <3>2. g \in OverThreshold(v)
      BY <2>2, <2>4 DEF Certified
    <3>3. g # NoHash /\ Enough(Cardinality(OfRound(commits, round[p], g)))
      BY <3>1, <3>2, QuorumSent, OverThresholdOfMembers DEF PoolsFinite, Verifies
    <3>4. Grade(p, g).b = g /\ Grade(p, g).r = round[p]
      BY <2>4 DEF Grade
    <3> QED
      BY <1>1, <1>3, <2>2, <3>3, <3>4 DEF GradesCertified, TypeOK
  <2> QED
    BY <2>3, <2>4
<1>4. state' = state \/ (JudgeCommits(p) /\ commits' = commits)
  BY DEF Step, ProposeBlock, SitOut, Starve, ElectAndVote, NoLeader, CountVotes,
         CountPrecommits, FinishFirstRound, UnknownBlock, FinishRound, NextRound,
         DropLocals, KeysExhausted, Crash, nodeVars, msgs
<1> QED
  BY <1>2, <1>3, <1>4

-----------------------------------------------------------------------------
(* The inductive invariant and what follows from it *)

\* A state is well typed, its messages finitely many and at most one for each
\* sender, step and round, and every decision has its quorum.
IInv == TypeOK /\ PoolsFinite /\ SendInv /\ CertificateChain

\* The invariant holds before the first round.
LEMMA InvInit == Init => IInv
<1> SUFFICES ASSUME Init PROVE IInv
  OBVIOUS
<1>1. TypeOK /\ PoolsFinite
  BY TypeInit, FS_EmptySet DEF Init, PoolsFinite
<1>2. SendInv
  BY DEF Init, SendInv, SendOrder, SentBefore, Unique
<1>3. CertificateChain
  BY DEF Init, CertificateChain
<1> QED
  BY <1>1, <1>2, <1>3 DEF IInv

\* Every step, crash or stutter keeps the invariant.
LEMMA InvStep == IInv /\ [Next]_vars => IInv'
<1> SUFFICES ASSUME IInv, [Next]_vars PROVE IInv'
  OBVIOUS
<1> USE DEF IInv
<1>1. ASSUME NEW p \in Nodes, Step(p) \/ Crash(p) PROVE IInv'
  <2>1. TypeOK' /\ PoolsFinite'
    BY <1>1, TypeStep, FiniteStep
  <2>2. SendInv'
    BY <1>1, SendStep
  <2>3. CertificateChain'
    <3>1. VotesCertified /\ PrecommitsCertified /\ CommitsCertified /\ GradesCertified
      BY ChainLinks
    <3>2. VotesCertified' /\ PrecommitsCertified' /\ CommitsCertified' /\ GradesCertified'
      BY <1>1, <2>1, <3>1, VotesStep, PrecommitsStep, CommitsStep, GradesStep
    <3> QED
      BY <3>2 DEF CertificateChain, VotesCertified, PrecommitsCertified,
                  CommitsCertified, GradesCertified
  <2> QED
    BY <2>1, <2>2, <2>3
<1>2. CASE UNCHANGED vars
  <2>1. TypeOK' /\ PoolsFinite'
    BY <1>2 DEF vars, nodeVars, roundVars, msgs, TypeOK, PoolsFinite
  <2>2. SendInv'
    BY <1>2 DEF vars, msgs, SendInv, SendOrder, SentBefore, Before, Unique
  <2>3. CertificateChain'
    BY <1>2 DEF vars, nodeVars, msgs, CertificateChain
  <2> QED
    BY <2>1, <2>2, <2>3
<1> QED
  BY <1>1, <1>2 DEF Next, Terminating

\* The invariant holds in every state of every execution.
LEMMA InvHolds == Spec => []IInv
  BY InvInit, InvStep, PTL DEF Spec

\* No round key signs two messages: each node sends at most one message of
\* each step in each round.
THEOREM SentOnce == Spec => []OneMessagePerStep
<1>1. IInv => OneMessagePerStep
  BY DEF IInv, SendInv, Unique, OneMessagePerStep
<1> QED
  BY <1>1, InvHolds, PTL

\* Every vote, precommit, commit and grade rests on a quorum of the step
\* before, whatever drains miss and whichever nodes stop.
THEOREM Certificates == Spec => []CertificateChain
<1>1. IInv => CertificateChain
  BY DEF IInv
<1> QED
  BY <1>1, InvHolds, PTL

\* Two quorums of one pool and round have a sender in common, and a sender
\* has one message there, so they are quorums for the same hash.
LEMMA QuorumsMeet ==
  ASSUME QuorumsIntersect, NEW M, IsFiniteSet(M), Unique(M),
         \A m \in M : m.from \in Nodes, NEW r, NEW h1, NEW h2,
         Enough(Cardinality(OfRound(M, r, h1))), Enough(Cardinality(OfRound(M, r, h2)))
  PROVE  h1 = h2
<1> SUFFICES ASSUME h1 # h2 PROVE FALSE
  OBVIOUS
<1> DEFINE A == OfRound(M, r, h1)
           C == OfRound(M, r, h2)
           sender == [m \in A \cup C |-> m.from]
<1>1. A \subseteq M /\ C \subseteq M /\ A \cap C = {}
  BY DEF OfRound
<1>2. IsFiniteSet(A) /\ IsFiniteSet(C) /\ IsFiniteSet(A \cup C) /\ IsFiniteSet(Nodes)
  BY <1>1, FS_Subset, FS_Union, NodesAssumption
<1>3. Cardinality(A \cup C) = Cardinality(A) + Cardinality(C)
  <2>1. Cardinality(A \cup C) = Cardinality(A) + Cardinality(C) - Cardinality(A \cap C)
    BY <1>2, FS_Union
  <2>2. Cardinality(A \cap C) = 0
    BY <1>1, FS_EmptySet
  <2>3. Cardinality(A) \in Nat /\ Cardinality(C) \in Nat
    BY <1>2, FS_CardinalityType
  <2> QED
    BY <2>1, <2>2, <2>3
<1>4. Cardinality(A \cup C) > Cardinality(Nodes)
  <2>1. Cardinality(A) \in Nat /\ Cardinality(C) \in Nat /\ Cardinality(Nodes) \in Nat
    BY <1>2, FS_CardinalityType
  <2>2. 5 * Cardinality(A) >= 4 * F + 5 /\ 5 * Cardinality(C) >= 4 * F + 5
    BY DEF Enough
  <2>3. 8 * F + 10 > 5 * Cardinality(Nodes)
    BY DEF QuorumsIntersect
  <2> QED
    BY <1>3, <2>1, <2>2, <2>3, NumbersAssumption
<1>5. sender \in [A \cup C -> Nodes]
  BY <1>1
<1>6. PICK m \in A \cup C, n \in A \cup C : m # n /\ sender[m] = sender[n]
  <2>1. ASSUME NEW S, NEW f \in [S -> Nodes], IsFiniteSet(S),
               Cardinality(S) > Cardinality(Nodes)
        PROVE  \E m, n \in S : m # n /\ f[m] = f[n]
    <3>1. Cardinality(S) \in Nat /\ Cardinality(Nodes) \in Nat
      BY <1>2, <2>1, FS_CardinalityType
    <3>2. Cardinality(Nodes) < Cardinality(S)
      BY <2>1, <3>1
    <3> QED
      BY <1>2, <2>1, <3>2, FS_PigeonHole
  <2> HIDE DEF A, C, sender
  <2> QED
    BY <1>2, <1>4, <1>5, <2>1
<1>7. m.from = n.from /\ m.r = n.r /\ m \in M /\ n \in M
  BY <1>1, <1>6 DEF OfRound
<1> QED
  BY <1>6, <1>7 DEF Unique

\* Where quorums intersect, no two nodes hold a grade above 0 for different
\* blocks of one round, in any execution.
THEOREM Agreement == Spec => []GradedAgreement
<1>1. IInv => GradedAgreement
  <2> SUFFICES ASSUME IInv, QuorumsIntersect, NEW p \in Nodes, NEW q \in Nodes,
                      state[p].g > 0, state[q].g > 0, state[p].r = state[q].r
               PROVE  state[p].b = state[q].b
    BY DEF GradedAgreement
  <2> USE DEF IInv
  <2>1. ASSUME NEW u \in Nodes, state[u].g > 0
        PROVE  Enough(Cardinality(OfRound(precommits, state[u].r, state[u].b)))
    <3>1. /\ state[u].b # NoHash
          /\ Enough(Cardinality(OfRound(commits, state[u].r, state[u].b)))
      BY <2>1 DEF CertificateChain
    <3>2. OfRound(commits, state[u].r, state[u].b) # {}
      BY <3>1, EnoughFacts, FS_EmptySet
    <3>3. PICK m \in commits : m.r = state[u].r /\ m.hB = state[u].b
      BY <3>2 DEF OfRound
    <3> QED
      BY <3>1, <3>3 DEF CertificateChain
  <2>2. \A m \in precommits : m.from \in Nodes
    BY DEF TypeOK, PrecommitMsgs
  <2> QED
    BY <2>1, <2>2, QuorumsMeet DEF PoolsFinite, SendInv
<1> QED
  BY <1>1, InvHolds, PTL

-----------------------------------------------------------------------------
(* The output *)

Distinct(blocks) == \A i, j \in DOMAIN blocks : blocks[i][1] = blocks[j][1] => i = j
Increasing(blocks) == \A i, j \in DOMAIN blocks : i < j => blocks[i][1] < blocks[j][1]

\* The block the sequence ends with.
LastOf(blocks) == blocks[Len(blocks)]

\* The rounds of two sequences of blocks joined are those of both.
LEMMA RoundsOfBoth ==
  ASSUME NEW s \in Seq(Blocks), NEW t \in Seq(Blocks)
  PROVE  /\ RoundsOf(s \o t) = RoundsOf(s) \cup RoundsOf(t)
         /\ Distinct(s) /\ Distinct(t) /\ RoundsOf(s) \cap RoundsOf(t) = {} => Distinct(s \o t)
<1>1. /\ Len(s) \in Nat /\ Len(t) \in Nat /\ Len(s \o t) = Len(s) + Len(t)
      /\ DOMAIN s = 1..Len(s) /\ DOMAIN t = 1..Len(t) /\ DOMAIN (s \o t) = 1..(Len(s) + Len(t))
  BY ConcatProperties, LenProperties
<1>2. \A i \in 1..(Len(s) + Len(t)) : (s \o t)[i] = IF i <= Len(s) THEN s[i] ELSE t[i - Len(s)]
  BY ConcatProperties
<1>3. RoundsOf(s \o t) \subseteq RoundsOf(s) \cup RoundsOf(t)
  BY <1>1, <1>2 DEF RoundsOf
<1>4. RoundsOf(s) \subseteq RoundsOf(s \o t)
  BY <1>1, <1>2 DEF RoundsOf
<1>5. RoundsOf(t) \subseteq RoundsOf(s \o t)
  <2> SUFFICES ASSUME NEW j \in DOMAIN t PROVE \E i \in DOMAIN (s \o t) : (s \o t)[i][1] = t[j][1]
    BY SMTT(30) DEF RoundsOf
  <2>1. /\ j + Len(s) \in DOMAIN (s \o t) /\ ~(j + Len(s) <= Len(s))
        /\ (j + Len(s)) - Len(s) = j
    BY <1>1
  <2>2. (s \o t)[j + Len(s)] = t[j]
    BY <1>1, <1>2, <2>1
  <2> QED
    BY <2>1, <2>2
<1>6. ASSUME Distinct(s), Distinct(t), RoundsOf(s) \cap RoundsOf(t) = {}
      PROVE  Distinct(s \o t)
  <2> SUFFICES ASSUME NEW i \in DOMAIN (s \o t), NEW j \in DOMAIN (s \o t),
                      (s \o t)[i][1] = (s \o t)[j][1]
               PROVE  i = j
    BY DEF Distinct
  <2>1. \A k \in DOMAIN (s \o t) :
          \/ k \in DOMAIN s /\ (s \o t)[k] = s[k]
          \/ k > Len(s) /\ k - Len(s) \in DOMAIN t /\ (s \o t)[k] = t[k - Len(s)]
    BY <1>1, <1>2
  <2>2. \A k \in DOMAIN s, l \in DOMAIN t : s[k][1] # t[l][1]
    BY <1>6 DEF RoundsOf
  <2>3. CASE i \in DOMAIN s /\ (s \o t)[i] = s[i]
    BY <1>6, <2>1, <2>2, <2>3 DEF Distinct
  <2>4. CASE i > Len(s) /\ i - Len(s) \in DOMAIN t /\ (s \o t)[i] = t[i - Len(s)]
    <3>1. j > Len(s) /\ j - Len(s) \in DOMAIN t /\ (s \o t)[j] = t[j - Len(s)]
      BY <2>1, <2>2, <2>4
    <3>2. i - Len(s) = j - Len(s)
      BY <1>6, <2>4, <3>1 DEF Distinct
    <3> QED
      BY <1>1, <3>2
  <2> QED
    BY <2>1, <2>3, <2>4
<1> QED
  BY <1>3, <1>4, <1>5, <1>6

\* One block more.
LEMMA RoundsOfOneMore ==
  ASSUME NEW s \in Seq(Blocks), NEW h \in Blocks
  PROVE  /\ s \o <<h>> = Append(s, h) /\ RoundsOf(Append(s, h)) = RoundsOf(s) \cup {h[1]}
         /\ Distinct(s) /\ h[1] \notin RoundsOf(s) => Distinct(Append(s, h))
         /\ Increasing(s) /\ (\A r \in RoundsOf(s) : r < h[1]) => Increasing(Append(s, h))
         /\ LastOf(Append(s, h)) = h /\ Append(s, h) # <<>>
<1>1. /\ Len(s) \in Nat /\ DOMAIN s = 1..Len(s) /\ DOMAIN Append(s, h) = 1..(Len(s) + 1)
      /\ Len(Append(s, h)) = Len(s) + 1
  BY AppendProperties, LenProperties
<1>2. /\ \A i \in 1..Len(s) : Append(s, h)[i] = s[i]
      /\ Append(s, h)[Len(s) + 1] = h
  BY AppendProperties
<1>3. s \o <<h>> = Append(s, h)
  BY AppendIsConcat
<1>4. LastOf(Append(s, h)) = h /\ Append(s, h) # <<>>
  BY <1>1, <1>2 DEF LastOf
<1>5. RoundsOf(Append(s, h)) = RoundsOf(s) \cup {h[1]}
  BY <1>1, <1>2 DEF RoundsOf
<1>6. Distinct(s) /\ h[1] \notin RoundsOf(s) => Distinct(Append(s, h))
  BY <1>1, <1>2 DEF RoundsOf, Distinct
<1>7. Increasing(s) /\ (\A r \in RoundsOf(s) : r < h[1]) => Increasing(Append(s, h))
  BY <1>1, <1>2 DEF RoundsOf, Increasing
<1> QED
  BY <1>3, <1>4, <1>5, <1>6, <1>7

\* What a node drained in a round are proposals of that round.
GotThisRound == \A p \in Nodes : \A m \in got[p] : m.r = round[p]

\* Every finished round from the second on has its block in the log or in tobe,
\* in one of them and once; the first one may have one.
Accounted(p) ==
  /\ RoundsOf(log[p]) \cap RoundsOf(tobe[p]) = {}
  /\ RoundsOf(log[p]) \cup RoundsOf(tobe[p]) \subseteq 1..(round[p] - 1)
  /\ 2..(round[p] - 1) \subseteq RoundsOf(log[p]) \cup RoundsOf(tobe[p])
  /\ Distinct(log[p]) /\ Increasing(tobe[p])

TipKept(p) ==
  /\ RoundsOf(log[p]) \ {1} # {} => lB[p] = LastOf(log[p])
  /\ lastcommit[p] = 1 => log[p] # <<>> /\ lB[p][1] = round[p] - 1

LogInv == GotThisRound /\ \A p \in Nodes : Accounted(p) /\ TipKept(p)

\* The steps that end a round change the output; no other does.
LEMMA OutputSteps ==
  ASSUME NEW p \in Nodes, Step(p) \/ Crash(p), ~FinishFirstRound(p), ~FinishRound(p)
  PROVE  UNCHANGED <<round, lastcommit, lB, tobe, log>>
  BY DEF Step, ProposeBlock, SitOut, Starve, ElectAndVote, NoLeader, CountVotes,
         CountPrecommits, UnknownBlock, KeysExhausted, Crash, nodeVars

\* A node drains proposals of its round and drops them with the round.
LEMMA GotStep ==
  ASSUME TypeOK, GotThisRound, NEW p \in Nodes, Step(p) \/ Crash(p)
  PROVE  GotThisRound'
<1>1. CASE FinishFirstRound(p) \/ FinishRound(p)
  <2>1. got' = [got EXCEPT ![p] = {}] /\ round' = [round EXCEPT ![p] = @ + 1]
    BY <1>1 DEF FinishFirstRound, FinishRound, NextRound, DropLocals
  <2> QED
    BY <2>1 DEF GotThisRound, TypeOK
<1>2. CASE ElectAndVote(p)
  <2>1. PICK w \in Drains(p, props) : got' = [got EXCEPT ![p] = w]
    BY <1>2 DEF ElectAndVote
  <2>2. (\A m \in w : m.r = round[p]) /\ round' = round
    BY <1>2, <2>1, DrainOfSent DEF ElectAndVote
  <2> QED
    BY <2>1, <2>2 DEF GotThisRound, TypeOK
<1>3. CASE ~FinishFirstRound(p) /\ ~FinishRound(p) /\ ~ElectAndVote(p)
  <2>1. got' = got /\ round' = round
    BY <1>3 DEF Step, ProposeBlock, SitOut, Starve, NoLeader, CountVotes, CountPrecommits,
       UnknownBlock, KeysExhausted, Crash, roundVars
  <2> QED
    BY <2>1 DEF GotThisRound
<1> QED
  BY <1>1, <1>2, <1>3

\* Before the first round ends nothing is logged and nothing waits.
LEMMA NothingYet ==
  ASSUME TypeOK, NEW p \in Nodes, Accounted(p), round[p] = 1
  PROVE  log[p] = <<>> /\ tobe[p] = <<>>
<1>1. RoundsOf(log[p]) = {} /\ RoundsOf(tobe[p]) = {}
  BY DEF Accounted
<1>2. log[p] \in Seq(Blocks) /\ tobe[p] \in Seq(Blocks)
  BY DEF TypeOK
<1>3. ASSUME NEW s \in Seq(Blocks), RoundsOf(s) = {} PROVE s = <<>>
  <2>1. DOMAIN s = {}
    BY <1>3 DEF RoundsOf
  <2>2. DOMAIN s = 1..Len(s) /\ Len(s) \in Nat
    BY LenProperties
  <2>3. Len(s) = 0
    BY <2>1, <2>2
  <2> QED
    BY <2>3, EmptySeq
<1> QED
  BY <1>1, <1>2, <1>3

\* No two blocks that wait are of one round.
LEMMA TobeDistinct ==
  ASSUME TypeOK, NEW p \in Nodes, Accounted(p)
  PROVE  Distinct(tobe[p])
<1>1. DOMAIN tobe[p] = 1..Len(tobe[p]) /\ Len(tobe[p]) \in Nat
  BY LenProperties DEF TypeOK
<1>2. \A i \in DOMAIN tobe[p] : tobe[p][i][1] \in RoundsOf(tobe[p])
  BY DEF RoundsOf
<1>3. \A i \in DOMAIN tobe[p] : tobe[p][i][1] \in Nat
  BY <1>2 DEF Accounted, TypeOK
<1> QED
  BY <1>1, <1>3 DEF Accounted, Increasing, Distinct

\* Round 1 logs a block of round 1 or nothing.
LEMMA FirstRoundOutput ==
  ASSUME TypeOK, GotThisRound, NEW p \in Nodes, Accounted(p), TipKept(p), FinishFirstRound(p)
  PROVE  Accounted(p)' /\ TipKept(p)'
<1>1. /\ round[p] = 1 /\ round'[p] = 2 /\ tobe' = tobe /\ lastcommit' = lastcommit
      /\ log[p] = <<>> /\ tobe[p] = <<>>
  BY NothingYet DEF FinishFirstRound, NextRound, TypeOK
<1>2. lastcommit[p] # 1
  BY <1>1 DEF TipKept
<1>3. RoundsOf(<<>>) = {} /\ Increasing(<<>>) /\ Distinct(<<>>)
  BY DEF RoundsOf, Increasing, Distinct
<1>4. RoundsOf(log'[p]) \subseteq {1} /\ Distinct(log'[p])
  <2>1. CASE voteTag[p] = 1
    <3>1. PICK m \in got[p] : pchB[p] = HashOf(m) /\ log' = [log EXCEPT ![p] = Append(@, pchB[p])]
      BY <2>1 DEF FinishFirstRound
    <3>2. HashOf(m) \in Blocks /\ HashOf(m)[1] = 1
      BY <1>1, <3>1 DEF TypeOK, GotThisRound, HashOf, Blocks, ProposalMsgs
    <3>3. log'[p] = Append(<<>>, HashOf(m)) /\ <<>> \in Seq(Blocks)
      BY <1>1, <3>1, EmptySeq DEF TypeOK
    <3> QED
      BY <1>3, <3>2, <3>3, RoundsOfOneMore
  <2>2. CASE voteTag[p] # 1
    BY <1>1, <1>3, <2>2 DEF FinishFirstRound
  <2> QED
    BY <2>1, <2>2
<1>5. Accounted(p)'
  <2>1. 2..(round'[p] - 1) = {} /\ 1 \in 1..(round'[p] - 1)
    BY <1>1
  <2> QED
    BY <1>1, <1>3, <1>4, <2>1 DEF Accounted
<1>6. TipKept(p)'
  BY <1>1, <1>2, <1>4 DEF TipKept
<1> QED
  BY <1>5, <1>6

\* A later round outputs its block, with those that wait or without, or adds
\* it to them.
LEMMA LaterRoundOutput ==
  ASSUME TypeOK, GotThisRound, NEW p \in Nodes, Accounted(p), TipKept(p), FinishRound(p)
  PROVE  Accounted(p)' /\ TipKept(p)'
<1> DEFINE r == round[p]
<1>1. PICK block \in got[p] : Output(p, block) \/ Defer(p, block)
  BY DEF FinishRound
<1> DEFINE h == HashOf(block)
<1>2. h \in Blocks /\ h[1] = r
  BY <1>1 DEF TypeOK, GotThisRound, HashOf, Blocks, ProposalMsgs
<1>3. r \in Nat /\ r > 1 /\ round'[p] = r + 1
  BY DEF FinishRound, NextRound, TypeOK
<1>4. log[p] \in Seq(Blocks) /\ tobe[p] \in Seq(Blocks) /\ <<>> \in Seq(Blocks)
  BY EmptySeq DEF TypeOK
<1>5. /\ r \notin RoundsOf(log[p]) /\ r \notin RoundsOf(tobe[p])
      /\ \A x \in RoundsOf(tobe[p]) : x < r
  BY <1>3 DEF Accounted
<1>6. ASSUME NEW S, S = RoundsOf(log[p]) \cup RoundsOf(tobe[p]) \cup {r}
      PROVE  S \subseteq 1..(round'[p] - 1) /\ 2..(round'[p] - 1) \subseteq S
  BY <1>3, <1>6 DEF Accounted
<1>7. RoundsOf(<<>>) = {} /\ Increasing(<<>>) /\ Distinct(<<>>)
  BY DEF RoundsOf, Increasing, Distinct
<1>8. CASE Defer(p, block)
  <2>1. /\ log'[p] = log[p] /\ lB'[p] = lB[p] /\ lastcommit'[p] = 0
        /\ tobe'[p] = Append(tobe[p], h)
    BY <1>8 DEF Defer, TypeOK
  <2>2. RoundsOf(tobe'[p]) = RoundsOf(tobe[p]) \cup {r} /\ Increasing(tobe'[p])
    BY <1>2, <1>4, <1>5, <2>1, RoundsOfOneMore DEF Accounted
  <2>3. Accounted(p)'
    <3>1. /\ RoundsOf(log'[p]) \cap RoundsOf(tobe'[p]) = {} /\ Distinct(log'[p])
          /\ RoundsOf(log'[p]) \cup RoundsOf(tobe'[p]) = RoundsOf(log[p]) \cup RoundsOf(tobe[p]) \cup {r}
      BY <1>5, <2>1, <2>2 DEF Accounted
    <3> QED
      BY <1>6, <2>2, <3>1 DEF Accounted
  <2> QED
    BY <2>1, <2>3 DEF TipKept
<1>9. CASE Output(p, block)
  <2> DEFINE before == IF Extends(p, block) THEN log[p] ELSE log[p] \o tobe[p]
  <2>1. /\ log'[p] = before \o <<h>> /\ lB'[p] = h /\ lastcommit'[p] = 1
        /\ tobe'[p] = IF Extends(p, block) THEN tobe[p] ELSE <<>>
    BY <1>9 DEF Output, Remaining, TypeOK
  <2>2. Distinct(tobe[p])
    BY TobeDistinct
  <2>3. /\ before \in Seq(Blocks) /\ Distinct(before)
        /\ RoundsOf(before) \cup RoundsOf(tobe'[p]) = RoundsOf(log[p]) \cup RoundsOf(tobe[p])
        /\ RoundsOf(before) \cap RoundsOf(tobe'[p]) = {}
        /\ Increasing(tobe'[p])
    <3>1. CASE Extends(p, block)
      BY <1>4, <2>1, <3>1 DEF Accounted
    <3>2. CASE ~Extends(p, block)
      <4>1. before = log[p] \o tobe[p] /\ tobe'[p] = <<>>
        BY <2>1, <3>2
      <4>2. before \in Seq(Blocks)
        BY <1>4, <4>1, ConcatProperties
      <4>3. /\ RoundsOf(before) = RoundsOf(log[p]) \cup RoundsOf(tobe[p])
            /\ Distinct(before)
        BY <1>4, <2>2, <4>1, RoundsOfBoth DEF Accounted
      <4> QED
        BY <1>7, <4>1, <4>2, <4>3
    <3> QED
      BY <3>1, <3>2
  <2> HIDE DEF before
  <2>4. /\ log'[p] = Append(before, h) /\ RoundsOf(log'[p]) = RoundsOf(before) \cup {r}
        /\ Distinct(log'[p]) /\ LastOf(log'[p]) = h /\ log'[p] # <<>>
    <3>1. r \notin RoundsOf(before)
      BY <1>5, <2>3
    <3>2. log'[p] = Append(before, h)
      BY <1>2, <2>1, <2>3, RoundsOfOneMore
    <3> QED
      BY <1>2, <2>3, <3>1, <3>2, RoundsOfOneMore
  <2>5. Accounted(p)'
    <3>1. r \notin RoundsOf(tobe'[p])
      BY <1>5, <2>3
    <3>2. RoundsOf(log'[p]) \cup RoundsOf(tobe'[p]) = RoundsOf(log[p]) \cup RoundsOf(tobe[p]) \cup {r}
      BY <2>3, <2>4
    <3> QED
      BY <1>6, <2>3, <2>4, <3>1, <3>2, ZenonT(60) DEF Accounted
  <2>6. TipKept(p)'
    BY <1>2, <1>3, <2>1, <2>4 DEF TipKept
  <2> QED
    BY <2>5, <2>6
<1> QED
  BY <1>1, <1>8, <1>9

\* Every step keeps what is said of the output.
LEMMA LogStep == TypeOK /\ LogInv /\ [Next]_vars => LogInv'
<1> SUFFICES ASSUME TypeOK, LogInv, [Next]_vars PROVE LogInv'
  OBVIOUS
<1>1. ASSUME NEW p \in Nodes, Step(p) \/ Crash(p) PROVE LogInv'
  <2>1. GotThisRound'
    BY <1>1, GotStep DEF LogInv
  <2>2. CASE FinishFirstRound(p) \/ FinishRound(p)
    <3>1. Accounted(p)' /\ TipKept(p)'
      BY <2>2, FirstRoundOutput, LaterRoundOutput DEF LogInv
    <3>2. ASSUME NEW q \in Nodes, q # p
          PROVE  /\ round'[q] = round[q] /\ lastcommit'[q] = lastcommit[q] /\ lB'[q] = lB[q]
                 /\ tobe'[q] = tobe[q] /\ log'[q] = log[q]
      <4>1. CASE FinishFirstRound(p)
        BY <3>2, <4>1 DEF FinishFirstRound, NextRound, TypeOK
      <4>2. CASE FinishRound(p)
        BY <3>2, <4>2 DEF FinishRound, Output, Defer, NextRound, TypeOK
      <4> QED
        BY <2>2, <4>1, <4>2
    <3>3. ASSUME NEW q \in Nodes, q # p PROVE Accounted(q)' /\ TipKept(q)'
      BY <3>2, <3>3 DEF LogInv, Accounted, TipKept
    <3> QED
      BY <2>1, <3>1, <3>3 DEF LogInv
  <2>3. CASE ~FinishFirstRound(p) /\ ~FinishRound(p)
    <3>1. UNCHANGED <<round, lastcommit, lB, tobe, log>>
      BY <1>1, <2>3, OutputSteps
    <3> QED
      BY <2>1, <3>1 DEF LogInv, Accounted, TipKept
  <2> QED
    BY <2>2, <2>3
<1>2. CASE UNCHANGED vars
  BY <1>2 DEF vars, nodeVars, roundVars, LogInv, GotThisRound, Accounted, TipKept
<1> QED
  BY <1>1, <1>2 DEF Next, Terminating

LEMMA LogInvHolds == Spec => []LogInv
<1>1. Init => LogInv
  <2> SUFFICES ASSUME Init PROVE LogInv
    OBVIOUS
  <2>1. RoundsOf(<<>>) = {} /\ Increasing(<<>>) /\ Distinct(<<>>)
    BY DEF RoundsOf, Increasing, Distinct
  <2> QED
    BY <2>1 DEF Init, LogInv, GotThisRound, Accounted, TipKept
<1> QED
  BY <1>1, LogStep, TypeCorrect, PTL DEF Spec

\* As many rounds as blocks, when no two blocks are of one round.
LEMMA DistinctCount ==
  ASSUME NEW s \in Seq(Blocks), Distinct(s)
  PROVE  Cardinality(RoundsOf(s)) = Len(s)
<1> DEFINE f == [i \in 1..Len(s) |-> s[i][1]]
<1>1. Len(s) \in Nat /\ DOMAIN s = 1..Len(s)
  BY LenProperties
<1>2. f \in Bijection(1..Len(s), RoundsOf(s))
  <2>1. f \in [1..Len(s) -> RoundsOf(s)]
    BY <1>1 DEF RoundsOf
  <2>2. \A i, j \in 1..Len(s) : f[i] = f[j] => i = j
    BY <1>1 DEF Distinct
  <2>3. \A r \in RoundsOf(s) : \E i \in 1..Len(s) : f[i] = r
    BY <1>1 DEF RoundsOf
  <2> HIDE DEF f
  <2>4. f \in Injection(1..Len(s), RoundsOf(s))
    BY <2>1, <2>2 DEF Injection, IsInjective
  <2>5. f \in Surjection(1..Len(s), RoundsOf(s))
    BY <2>1, <2>3 DEF Surjection
  <2> QED
    BY <2>4, <2>5 DEF Bijection
<1>3. IsFiniteSet(1..Len(s)) /\ Cardinality(1..Len(s)) = Len(s)
  BY <1>1, FS_Interval, SMTT(30)
<1> QED
  BY <1>2, <1>3, FS_Bijection DEF ExistsBijection

\* Through every mix of grades the flush neither drops a waiting block nor
\* outputs one twice.
THEOREM Accounting == Spec => []RoundAccounting
<1>1. TypeOK /\ LogInv => RoundAccounting
  <2> SUFFICES ASSUME TypeOK, LogInv, NEW p \in Nodes
               PROVE  /\ RoundsOf(log[p] \o tobe[p]) \ {1} = 2..(round[p] - 1)
                      /\ Cardinality(RoundsOf(log[p] \o tobe[p])) = Len(log[p] \o tobe[p])
                      /\ Increasing(tobe[p])
    BY DEF RoundAccounting, Increasing
  <2>1. /\ log[p] \in Seq(Blocks) /\ tobe[p] \in Seq(Blocks) /\ Accounted(p)
        /\ round[p] \in Nat
    BY DEF TypeOK, LogInv
  <2>2. Distinct(tobe[p])
    BY <2>1, TobeDistinct
  <2>3. RoundsOf(log[p] \o tobe[p]) = RoundsOf(log[p]) \cup RoundsOf(tobe[p])
    BY <2>1, RoundsOfBoth
  <2>4. RoundsOf(log[p] \o tobe[p]) \ {1} = 2..(round[p] - 1)
    BY <2>1, <2>3 DEF Accounted
  <2>5. log[p] \o tobe[p] \in Seq(Blocks) /\ Distinct(log[p] \o tobe[p])
    BY <2>1, <2>2, RoundsOfBoth, ConcatProperties DEF Accounted
  <2> QED
    BY <2>1, <2>4, <2>5, DistinctCount DEF Accounted
<1> QED
  BY <1>1, TypeCorrect, LogInvHolds, PTL

\* The tip is the block output last, and that of the last round when lastcommit says so.
THEOREM Tip == Spec => []TipIsLastOutput
<1>1. LogInv => TipIsLastOutput
  BY DEF LogInv, TipKept, TipIsLastOutput, LastOf
<1> QED
  BY <1>1, LogInvHolds, PTL

-----------------------------------------------------------------------------
(***************************************************************************)
(* The synchronous runs, those in which the wait of delta seconds covers    *)
(* every delay: what the waits order, that a certified block is graded by   *)
(* everyone, and that a well provisioned run without losses gives every     *)
(* node grade 2 on one block in every round.                                *)
(***************************************************************************)

-----------------------------------------------------------------------------
(* Grades propagate *)

\* While some node is a round ahead, the nodes it left behind count commits.
Lockstep ==
  Synchronous =>
    \A p \in Nodes, q \in Live :
      round[q] < round[p] => round[p] = round[q] + 1 /\ pc[q] = "commit"

\* A round ends at the end of the wait for its commits.
LEMMA RoundEnds ==
  ASSUME TypeOK, NEW p \in Nodes, Step(p) \/ Crash(p), round'[p] # round[p]
  PROVE  FinishFirstRound(p) \/ FinishRound(p)
<1>1. CASE ProposeBlock(p) \/ SitOut(p) \/ Starve(p)
  BY <1>1 DEF ProposeBlock, SitOut, Starve
<1>2. CASE ElectAndVote(p) \/ NoLeader(p) \/ CountVotes(p) \/ CountPrecommits(p)
  BY <1>2 DEF ElectAndVote, NoLeader, CountVotes, CountPrecommits
<1>3. CASE UnknownBlock(p) \/ KeysExhausted(p) \/ Crash(p)
  BY <1>3 DEF UnknownBlock, KeysExhausted, Crash
<1> QED
  BY <1>1, <1>2, <1>3 DEF Step

\* What the end of a round is: the commits are judged, after a wait.
LEMMA FinishFacts ==
  ASSUME TypeOK, NEW p \in Nodes, FinishFirstRound(p) \/ FinishRound(p)
  PROVE  /\ JudgeCommits(p) /\ pc[p] = "commit" /\ TimeUp(p)
         /\ round'[p] = round[p] + 1
         /\ pc'[p] = (IF round[p] = Slots THEN "done" ELSE "idle")
         /\ UNCHANGED msgs
<1>1. JudgeCommits(p) /\ NextRound(p)
  BY DEF FinishFirstRound, FinishRound
<1>2. pc[p] = "commit" /\ TimeUp(p)
  BY <1>1 DEF JudgeCommits
<1> QED
  BY <1>1, <1>2 DEF NextRound, DropLocals, Goto, TypeOK

\* Only a live node takes a step, and no stopped node comes back.
LEMMA LiveStep ==
  ASSUME TypeOK, NEW p \in Nodes, Step(p) \/ Crash(p)
  PROVE  p \in Live /\ Live' \subseteq Live
<1>1. p \in Live
  BY DEF Step, ProposeBlock, SitOut, Starve, ElectAndVote, NoLeader, CountVotes,
         CountPrecommits, FinishFirstRound, UnknownBlock, FinishRound, JudgeCommits,
         KeysExhausted, KeyMissing, Crash, Live, Stopped
<1>2. \A q \in Nodes \ {p} : pc'[q] = pc[q]
  BY Forward
<1> QED
  BY <1>1, <1>2 DEF Live

\* The stages of a live node.
LEMMA LiveStages ==
  ASSUME TypeOK, NEW q \in Live
  PROVE  /\ q \in Nodes /\ StageOf(pc[q]) \in 0..4
         /\ StageOf(pc[q]) >= 4 <=> pc[q] = "commit"
  BY DEF TypeOK, Live, Stopped, StageOf

\* Rounds and stages are numbers.
LEMMA RoundAndStage ==
  ASSUME TypeOK PROVE \A x \in Nodes : round[x] \in Nat /\ StageOf(pc[x]) \in 0..5
<1> SUFFICES ASSUME NEW x \in Nodes PROVE round[x] \in Nat /\ StageOf(pc[x]) \in 0..5
  OBVIOUS
<1>1. round[x] \in Nat
  BY NumbersAssumption DEF TypeOK
<1>2. StageOf(pc[x]) \in 0..5
  BY DEF TypeOK, StageOf, Stopped
<1> QED
  BY <1>1, <1>2

\* The stage of a node that took a step is a number too.
LEMMA StageType ==
  ASSUME TypeOK, NEW p \in Nodes, Step(p) \/ Crash(p)
  PROVE  StageOf(pc'[p]) \in Int
  BY DEF StageOf

\* A step keeps the nodes within a round of each other.
LEMMA LockstepStep ==
  ASSUME TypeOK, TypeOK', Lockstep, NEW p \in Nodes, Step(p) \/ Crash(p)
  PROVE  Lockstep'
<1> SUFFICES ASSUME Synchronous, NEW a \in Nodes, NEW q \in Live', round'[q] < round'[a]
             PROVE  round'[a] = round'[q] + 1 /\ pc'[q] = "commit"
  BY DEF Lockstep
<1>1. q \in Live /\ q \in Nodes
  BY LiveStep DEF Live
<1>2. \A x \in Nodes : round[x] \in Nat /\ StageOf(pc[x]) \in 0..5
  BY RoundAndStage
<1>3. \A x \in Nodes \ {p} : pc'[x] = pc[x] /\ round'[x] = round[x]
  BY Forward
<1>4. CASE round'[p] = round[p]
  <2>1. round[q] < round[a]
    BY <1>1, <1>3, <1>4
  <2>2. round[a] = round[q] + 1 /\ pc[q] = "commit"
    BY <1>1, <2>1 DEF Lockstep
  <2>3. CASE q # p
    BY <1>1, <1>3, <1>4, <2>2, <2>3
  <2>4. CASE q = p
    <3>1. StageOf(pc'[p]) > 4
      BY <1>2, <1>4, <2>2, <2>4, Forward DEF StageOf
    <3>2. StageOf(pc'[p]) \in 0..4
      BY <2>4 DEF TypeOK, Live, Stopped, StageOf
    <3> QED
      BY <3>1, <3>2
  <2> QED
    BY <2>3, <2>4
<1>5. CASE round'[p] # round[p]
  <2>1. FinishFirstRound(p) \/ FinishRound(p)
    BY <1>5, RoundEnds
  <2>2. /\ pc[p] = "commit" /\ TimeUp(p)
        /\ round'[p] = round[p] + 1
    BY <2>1, FinishFacts
  <2>3. HasReached(q, p)
    BY <1>1, <2>2 DEF TimeUp
  <2>4. round[q] > round[p] \/ (round[q] = round[p] /\ pc[q] = "commit")
    BY <1>1, <2>2, <2>3, LiveStages DEF HasReached, StageOf
  <2>5. CASE q = p
    <3>1. round[p] < round[a] /\ a # p
      BY <1>2, <1>3, <2>2, <2>5
    <3>2. round[a] = round[p] + 1
      BY <1>1, <2>5, <3>1 DEF Lockstep
    <3> QED
      BY <1>2, <1>3, <2>2, <2>5, <3>1, <3>2
  <2>6. CASE q # p /\ a = p
    BY <1>1, <1>2, <1>3, <2>2, <2>4, <2>6
  <2>7. CASE q # p /\ a # p
    BY <1>1, <1>3, <2>7 DEF Lockstep
  <2> QED
    BY <2>5, <2>6, <2>7
<1> QED
  BY <1>4, <1>5

\* A drain of the commits of round r leaves a block over the threshold when
\* the block has MaxMiss commits to spare.
LEMMA SpareQuorum ==
  ASSUME IInv, NEW p \in Nodes, NEW w \in Drains(p, commits), NEW h, h # NoHash,
         Enough(Cardinality(OfRound(commits, round[p], h)) - MaxMiss)
  PROVE  h \in OverThreshold({m \in w : Verifies(m)})
<1> DEFINE C == OfRound(commits, round[p], h)
           S == {m \in w : Verifies(m) /\ m.hB = h}
           sent == {m \in commits : m.r = round[p]}
<1>1. IsFiniteSet(commits) /\ C \subseteq commits /\ sent \subseteq commits
  BY DEF IInv, PoolsFinite, OfRound
<1>2. w \subseteq sent /\ Cardinality(sent \ w) <= MaxMiss
  BY DEF Drains
<1>3. S = C \cap w /\ C \ w \subseteq sent \ w
  BY <1>2 DEF OfRound, Verifies
<1>4. /\ IsFiniteSet(C) /\ IsFiniteSet(sent) /\ IsFiniteSet(sent \ w)
      /\ IsFiniteSet(C \ w) /\ IsFiniteSet(S)
  BY <1>1, <1>3, FS_Subset, FS_Difference
<1>5. Cardinality(C \ w) = Cardinality(C) - Cardinality(S)
  <2>1. Cardinality(C \ w) = Cardinality(C) - Cardinality(C \cap w)
    BY <1>4, FS_Difference
  <2> QED
    BY <1>3, <2>1
<1>6. Cardinality(C \ w) <= Cardinality(sent \ w)
  BY <1>3, <1>4, FS_Subset
<1>7. /\ Cardinality(C) \in Nat /\ Cardinality(S) \in Nat
      /\ Cardinality(C \ w) \in Nat /\ Cardinality(sent \ w) \in Nat
  BY <1>4, FS_CardinalityType
<1>8. Enough(Cardinality(S))
  <2> HIDE DEF C, S, sent
  <2>1. Cardinality(S) >= Cardinality(C) - MaxMiss
    BY <1>2, <1>5, <1>6, <1>7, NumbersAssumption
  <2>2. Enough(Cardinality(C) - MaxMiss)
    BY DEF C
  <2> QED
    BY <1>7, <2>1, <2>2, EnoughFacts, NumbersAssumption
<1>9. {m \in {n \in w : Verifies(n)} : m.hB = h} = S
  OBVIOUS
<1>10. S # {}
  BY <1>8, EnoughFacts, FS_EmptySet
<1> QED
  BY <1>8, <1>9, <1>10 DEF OverThreshold, Count

\* A node that ends a round in which a block has commits to spare is left with
\* a grade of that round.
LEMMA SpareIsGraded ==
  ASSUME IInv, NEW p \in Nodes, JudgeCommits(p), NEW h, h # NoHash,
         Enough(Cardinality(OfRound(commits, round[p], h)) - MaxMiss)
  PROVE  state'[p].r = round[p] /\ state'[p].g > 0
<1>1. PICK w \in Drains(p, commits) : \E g \in Certified(w) :
        state' = [state EXCEPT ![p] = Grade(p, g)]
  BY DEF JudgeCommits
<1>2. PICK g \in Certified(w) : state' = [state EXCEPT ![p] = Grade(p, g)]
  BY <1>1
<1>3. h \in OverThreshold({m \in w : Verifies(m)})
  BY <1>1, SpareQuorum
<1>4. g \in OverThreshold({m \in w : Verifies(m)})
  BY <1>2, <1>3 DEF Certified
<1>5. g \in Blocks
  BY <1>1, <1>4, DrainOfSent, OverThresholdOfMembers
     DEF IInv, TypeOK, CommitMsgs, Verifies
<1>6. g # NoQuorum
  BY <1>5, SentinelAssumption
<1> QED
  BY <1>2, <1>6 DEF Grade, IInv, TypeOK

SpreadInv == IInv /\ Lockstep /\ GradePropagation

\* A step keeps the propagation of grades: no commit of a round is sent any
\* more once some node has ended it.
LEMMA SpreadStep ==
  ASSUME IInv, IInv', Lockstep, GradePropagation, NEW p \in Nodes, Step(p) \/ Crash(p)
  PROVE  GradePropagation'
<1> SUFFICES ASSUME Synchronous, NEW a \in Nodes, NEW c \in commits',
                    round'[a] = c.r + 1, c.hB # NoHash,
                    Enough(Cardinality(OfRound(commits', c.r, c.hB)) - MaxMiss)
             PROVE  state'[a].r = c.r /\ state'[a].g > 0
  BY DEF GradePropagation
<1>0. TypeOK /\ TypeOK'
  BY DEF IInv
<1>1. /\ \A x \in Nodes \ {p} : pc'[x] = pc[x] /\ round'[x] = round[x]
      /\ \A x \in Nodes : round[x] \in Nat
      /\ c.r \in Rounds /\ c.r \in Nat
  <2>1. \A x \in Nodes \ {p} : pc'[x] = pc[x] /\ round'[x] = round[x]
    BY <1>0, Forward
  <2>2. c.r \in Rounds
    BY <1>0 DEF TypeOK, CommitMsgs
  <2>3. c.r \in Nat
    BY <2>2, NumbersAssumption DEF Rounds
  <2> QED
    BY <1>0, <2>1, <2>2, <2>3, RoundAndStage
<1>2. CASE round'[a] # round[a]
  <2>1. a = p
    BY <1>1, <1>2
  <2>2. FinishFirstRound(p) \/ FinishRound(p)
    BY <1>0, <1>2, <2>1, RoundEnds
  <2>3. JudgeCommits(p) /\ round'[p] = round[p] + 1 /\ commits' = commits
    BY <1>0, <2>2, FinishFacts DEF msgs
  <2>4. c.r = round[p]
    BY <1>1, <2>1, <2>3
  <2> QED
    BY <2>1, <2>3, <2>4, SpareIsGraded
<1>3. CASE round'[a] = round[a]
  <2>1. state'[a] = state[a]
    <3>1. CASE a = p
      <4>1. ~FinishFirstRound(p) /\ ~FinishRound(p)
        BY <1>0, <1>1, <1>3, <3>1, FinishFacts
      <4>2. ~UnknownBlock(p)
        BY <1>1, <1>3, <3>1 DEF UnknownBlock, Rounds
      <4> QED
        BY <3>1, <4>1, <4>2 DEF Step, ProposeBlock, SitOut, Starve, ElectAndVote, NoLeader,
           CountVotes, CountPrecommits, KeysExhausted, Crash, nodeVars
    <3>2. CASE a # p
      BY <1>0, <3>2 DEF TypeOK, Step, ProposeBlock, SitOut, Starve, ElectAndVote, NoLeader,
         CountVotes, CountPrecommits, FinishFirstRound, UnknownBlock, FinishRound,
         JudgeCommits, KeysExhausted, Crash, nodeVars
    <3> QED
      BY <3>1, <3>2
  <2>2. \A m \in commits' \ commits : m.r # c.r
    <3> SUFFICES ASSUME NEW m \in commits' \ commits, m.r = c.r PROVE FALSE
      OBVIOUS
    <3>1. m.r = round[p] /\ StageOf(pc[p]) < 4
      BY <1>0, StepAdds DEF Adds, Commit
    <3>2. p \in Live /\ round[p] < round[a]
      BY <1>0, <1>1, <1>3, <3>1, LiveStep
    <3> QED
      BY <3>1, <3>2 DEF Lockstep, StageOf
  <2>3. c \in commits
    BY <2>2
  <2>4. commits \subseteq commits'
    BY PoolsGrow
  <2>5. OfRound(commits', c.r, c.hB) = OfRound(commits, c.r, c.hB)
    BY <2>2, <2>4 DEF OfRound
  <2> QED
    BY <1>3, <2>1, <2>3, <2>5 DEF GradePropagation
<1> QED
  BY <1>2, <1>3

\* A block with a quorum of commits to spare is seen graded by every node that
\* finishes the round, whatever each drain misses, for every MaxMiss.
THEOREM Propagation == Spec => []GradePropagation
<1>1. Init => SpreadInv
  <2> SUFFICES ASSUME Init PROVE SpreadInv
    OBVIOUS
  <2>1. Lockstep /\ GradePropagation
    BY DEF Init, Lockstep, GradePropagation, Live
  <2> QED
    BY <2>1, InvInit DEF SpreadInv
<1>2. SpreadInv /\ [Next]_vars => SpreadInv'
  <2> SUFFICES ASSUME SpreadInv, [Next]_vars PROVE SpreadInv'
    OBVIOUS
  <2>1. IInv /\ IInv' /\ TypeOK /\ TypeOK'
    BY InvStep DEF SpreadInv, IInv
  <2>2. ASSUME NEW p \in Nodes, Step(p) \/ Crash(p) PROVE SpreadInv'
    BY <2>1, <2>2, LockstepStep, SpreadStep DEF SpreadInv
  <2>3. CASE UNCHANGED vars
    <3>1. Lockstep'
      BY <2>3 DEF SpreadInv, Lockstep, Live, vars
    <3>2. GradePropagation'
      BY <2>3 DEF SpreadInv, GradePropagation, vars, nodeVars, msgs
    <3> QED
      BY <2>1, <3>1, <3>2 DEF SpreadInv
  <2> QED
    BY <2>2, <2>3 DEF Next, Terminating
<1>3. SpreadInv => GradePropagation
  BY DEF SpreadInv
<1> QED
  BY <1>1, <1>2, <1>3, PTL DEF Spec

-----------------------------------------------------------------------------
(* A synchronous run that loses nothing *)

\* What SynchronousAgreement asks of the constants.
Favourable == Synchronous /\ MaxMiss = 0 /\ WellProvisioned /\ NoTies

\* q has sent what it has to send of step k in round r.
Reached(q, r, k) == round[q] > r \/ (round[q] = r /\ StageOf(pc[q]) >= k)

\* The messages of step k and round r are all sent: no live node has one to add.
AllSent(r, k) == \A q \in Live : Reached(q, r, k)

\* Whoever reached a step, did not die and is in its committee sent the message.
SentBy(M, k) ==
  \A q \in Nodes, r \in Rounds :
    pc[q] # "crashed" /\ Reached(q, r, k) /\ q \in Committee(r, k) =>
      \E m \in M : m.r = r /\ m.from = q

EachSent ==
  /\ SentBy(props, Propose) /\ SentBy(votes, Vote)
  /\ SentBy(precommits, Precommit) /\ SentBy(commits, Commit)

\* Only the nodes that were killed are dead.
FewCrashed ==
  /\ Cardinality({p \in Nodes : pc[p] = "crashed"}) <= MaxCrash
  /\ \A p \in Nodes : pc[p] # "starved"

\* A batch of transactions is left for each round to come.
Funded ==
  \A p \in Live :
    txbuf[p] >= (Slots - round[p] + (IF pc[p] = "idle" THEN 1 ELSE 0)) * Batch

\* Proposals come from the committee and, after round 1, carry grade 2, so
\* that every node may elect every proposal.
PropsInv ==
  \A m \in props : Selected(m.from, m.r, Propose) /\ (m.r > 1 => m.g = 2)

VrfValue(m) == VrfHash[m.r][Propose][m.from]

\* Votes are cast once all proposals are there, for the one of greatest rank.
OneLeader ==
  \A m \in votes :
    /\ AllSent(m.r, Propose)
    /\ \E b \in props : /\ b.r = m.r /\ HashOf(b) = m.hB
                        /\ \A n \in props : n.r = m.r => VrfValue(n) <= VrfValue(b)

\* No precommit is null or short of votes, and no commit is empty.
PrecommitsFollow ==
  \A m \in precommits : Enough(m.len) /\ \E v \in votes : v.r = m.r /\ v.hB = m.hB
CommitsFollow == \A m \in commits : \E c \in precommits : c.r = m.r /\ c.hB = m.hB

\* A node drained every proposal of its round, and enters the wait for the
\* commits with the precommitted block in both of its hashes.
Locals ==
  \A p \in Live :
    /\ pc[p] \in {"vote", "pc", "commit"} =>
         AllSent(round[p], Propose) /\ got[p] = {m \in props : m.r = round[p]}
    /\ pc[p] = "commit" =>
         pchB[p] = chB[p] /\ \E c \in precommits : c.r = round[p] /\ c.hB = chB[p]

\* Every node has grade 2 of the round it ended last, on a committed block.
Graded ==
  \A p \in Nodes :
    IF round[p] = 1 THEN state[p].g = 0 /\ state[p].b = NoHash
    ELSE /\ state[p].g = 2 /\ state[p].r = round[p] - 1
         /\ \E c \in commits : c.r = state[p].r /\ c.hB = state[p].b

SyncInv ==
  /\ FewCrashed /\ EachSent /\ Funded /\ PropsInv /\ OneLeader
  /\ PrecommitsFollow /\ CommitsFollow /\ Locals /\ Graded

-----------------------------------------------------------------------------
(* What a wait and a drain guarantee *)

\* A node that reached a step stays past it.
LEMMA ReachedStays ==
  ASSUME TypeOK, NEW p \in Nodes, Step(p) \/ Crash(p),
         NEW q \in Nodes, NEW r \in Int, NEW k \in Int, Reached(q, r, k)
  PROVE  Reached(q, r, k)'
<1>1. round[q] \in Nat /\ StageOf(pc[q]) \in 0..5
  BY RoundAndStage
<1>2. CASE q = p
  <2>1. CASE round'[p] = round[p] + 1
    BY <1>1, <1>2, <2>1 DEF Reached
  <2>2. CASE round'[p] = round[p] /\ StageOf(pc'[p]) > StageOf(pc[p])
    <3>1. StageOf(pc'[p]) \in Int
      BY <1>2, StageType
    <3> QED
      BY <1>1, <1>2, <2>2, <3>1 DEF Reached
  <2> QED
    BY <2>1, <2>2, Forward
<1>3. CASE q # p
  BY <1>3, Forward DEF Reached
<1> QED
  BY <1>2, <1>3

\* What is all sent stays so.
LEMMA AllSentStays ==
  ASSUME TypeOK, NEW p \in Nodes, Step(p) \/ Crash(p),
         NEW r \in Int, NEW k \in Int, AllSent(r, k)
  PROVE  AllSent(r, k)'
  BY LiveStep, ReachedStays DEF AllSent, Live

\* Nothing is added to what is all sent.
LEMMA Frozen ==
  ASSUME TypeOK, NEW p \in Nodes, Step(p) \/ Crash(p),
         NEW M, NEW N, NEW k \in Int, Adds(M, N, p, k), NEW r \in Int, AllSent(r, k)
  PROVE  {m \in N : m.r = r} = {m \in M : m.r = r}
<1> SUFFICES ASSUME NEW m, N = M \cup {m}, m.r = r, m.r = round[p], StageOf(pc[p]) < k
             PROVE  FALSE
  BY DEF Adds
<1>1. Reached(p, r, k)
  BY LiveStep DEF AllSent
<1> QED
  BY <1>1, RoundAndStage DEF Reached

\* After the wait of step k everything of that step is sent.
LEMMA WaitCovers ==
  ASSUME Synchronous, NEW p \in Nodes, TimeUp(p), NEW k, StageOf(pc[p]) = k
  PROVE  AllSent(round[p], k)
  BY DEF TimeUp, HasReached, AllSent, Reached

\* A drain that misses nothing yields the messages of the round.
LEMMA FullDrain ==
  ASSUME MaxMiss = 0, NEW p, NEW M, IsFiniteSet(M), NEW w \in Drains(p, M)
  PROVE  w = {m \in M : m.r = round[p]}
<1> DEFINE sent == {m \in M : m.r = round[p]}
<1>1. w \subseteq sent /\ Cardinality(sent \ w) <= 0
  BY DEF Drains
<1>2. IsFiniteSet(sent \ w)
  BY FS_Subset
<1>3. Cardinality(sent \ w) = 0
  BY <1>1, <1>2, FS_CardinalityType
<1>4. sent \ w = {}
  BY <1>2, <1>3, FS_EmptySet
<1> QED
  BY <1>1, <1>4

\* When a step is all sent, at most MaxCrash of its committee is missing.
LEMMA FullCommittee ==
  ASSUME TypeOK, FewCrashed, NEW M, IsFiniteSet(M), NEW r \in Rounds, NEW k,
         SentBy(M, k), AllSent(r, k)
  PROVE  /\ Cardinality({m \in M : m.r = r}) \in Nat
         /\ Cardinality(Committee(r, k)) \in Nat
         /\ Cardinality({m \in M : m.r = r}) >= Cardinality(Committee(r, k)) - MaxCrash
<1> DEFINE S == {m \in M : m.r = r}
           senders == {m.from : m \in S}
           dead == {p \in Nodes : pc[p] = "crashed"}
           C == Committee(r, k)
<1>1. IsFiniteSet(S) /\ IsFiniteSet(dead) /\ IsFiniteSet(C) /\ IsFiniteSet(C \cup dead)
  BY NodesAssumption, FS_Subset DEF Committee
<1>2. C \ dead \subseteq senders
  <2> SUFFICES ASSUME NEW q \in Nodes, q \in C, pc[q] # "crashed"
               PROVE  q \in senders
    BY DEF Committee
  <2>1. Reached(q, r, k)
    <3>1. CASE q \in Live
      BY <3>1 DEF AllSent
    <3>2. CASE q \notin Live
      <4>1. pc[q] = "done"
        BY <3>2 DEF Live, Stopped, FewCrashed
      <4>2. round[q] = Slots + 1
        BY <4>1 DEF TypeOK
      <4> QED
        BY <4>2, NumbersAssumption DEF Reached, Rounds
    <3> QED
      BY <3>1, <3>2
  <2> QED
    BY <2>1 DEF SentBy
<1>3. IsFiniteSet(senders) /\ Cardinality(senders) <= Cardinality(S)
  <2> DEFINE sender == [m \in S |-> m.from]
  <2>1. sender \in Surjection(S, senders)
    BY DEF Surjection
  <2> HIDE DEF S, senders, sender
  <2> QED
    BY <1>1, <2>1, FS_Surjection
<1>4. IsFiniteSet(C \ dead) /\ Cardinality(C \ dead) <= Cardinality(senders)
  BY <1>2, <1>3, FS_Subset
<1>5. /\ Cardinality(S) \in Nat /\ Cardinality(dead) \in Nat /\ Cardinality(C) \in Nat
      /\ Cardinality(C \ dead) \in Nat /\ Cardinality(senders) \in Nat
      /\ Cardinality(C \cap dead) \in Nat
  <2>1. IsFiniteSet(C \cap dead)
    BY <1>1, FS_Subset
  <2> QED
    BY <1>1, <1>3, <1>4, <2>1, FS_CardinalityType
<1>6. Cardinality(C \ dead) = Cardinality(C) - Cardinality(C \cap dead)
  BY <1>1, FS_Difference
<1>7. Cardinality(C \cap dead) <= Cardinality(dead)
  BY <1>1, FS_Subset
<1>8. Cardinality(dead) <= MaxCrash
  BY DEF FewCrashed
<1> HIDE DEF S, senders, dead, C
<1>9. Cardinality(S) >= Cardinality(C) - MaxCrash
  BY <1>3, <1>4, <1>5, <1>6, <1>7, <1>8, NumbersAssumption
<1> QED
  BY <1>5, <1>9 DEF S, C

\* Messages that are a quorum and all for one hash put this hash, and no
\* other, over the threshold.
LEMMA OneHash ==
  ASSUME NEW S, NEW h, \A m \in S : m.hB = h, Enough(Cardinality(S))
  PROVE  OverThreshold(S) = {h} /\ Count(h, S) = Cardinality(S)
<1>1. {m \in S : m.hB = h} = S
  OBVIOUS
<1>2. S # {}
  BY EnoughFacts, FS_EmptySet
<1> QED
  BY <1>1, <1>2 DEF OverThreshold, Count

\* A function from a nonempty finite set to numbers has a greatest value.
LEMMA HasGreatest ==
  ASSUME NEW S, IsFiniteSet(S), S # {}, NEW f \in [S -> Nat]
  PROVE  \E m \in S : \A n \in S : f[n] <= f[m]
<1> DEFINE Up(m) == {n \in S : f[n] > f[m]}
           T == {Up(m) : m \in S}
<1>1. T \subseteq FiniteSubsetsOf(S) /\ T # {}
  <2>1. \A m \in S : Up(m) \subseteq S
    OBVIOUS
  <2>2. \A m \in S : IsFiniteSet(Up(m))
    BY <2>1, FS_Subset
  <2>3. \A m \in S : Up(m) \in FiniteSubsetsOf(S)
    BY <2>1, <2>2 DEF FiniteSubsetsOf
  <2> HIDE DEF Up
  <2> QED
    BY <2>3
<1>2. PICK x \in T : \A y \in T : <<y, x>> \notin StrictSubsetOrdering(S)
  <2> HIDE DEF T
  <2>1. \E x \in T : \A y \in T : ~ (<<y, x>> \in StrictSubsetOrdering(S))
    BY <1>1, FS_StrictSubsetOrderingWellFounded, WFMin
  <2> QED
    BY <2>1
<1>3. PICK m \in S : x = Up(m)
  BY <1>2
<1>4. ASSUME NEW n \in S, f[n] > f[m] PROVE FALSE
  <2>1. Up(n) \subseteq Up(m) /\ n \in Up(m) /\ n \notin Up(n)
    BY <1>4
  <2>2. <<Up(n), Up(m)>> \in StrictSubsetOrdering(S)
    BY <2>1 DEF StrictSubsetOrdering
  <2> QED
    BY <1>2, <1>3, <2>2
<1> QED
  BY <1>4

-----------------------------------------------------------------------------
(* What each step does in such a run *)

\* Numbers of the committees in a favourable setting.
LEMMA Provisioned ==
  ASSUME Favourable, NEW r \in Rounds
  PROVE  /\ Cardinality(Committee(r, Propose)) > MaxCrash
         /\ \A s \in {Vote, Precommit, Commit} :
              Enough(Cardinality(Committee(r, s)) - MaxCrash)
  BY DEF Favourable, WellProvisioned

\* A full drain of a step's messages is a quorum of them.
LEMMA FullQuorum ==
  ASSUME Favourable, TypeOK, FewCrashed, NEW p \in Nodes, round[p] \in Rounds, TimeUp(p),
         NEW k \in {Vote, Precommit, Commit}, StageOf(pc[p]) = k,
         NEW M, IsFiniteSet(M), SentBy(M, k), NEW w \in Drains(p, M)
  PROVE  w = {m \in M : m.r = round[p]} /\ Enough(Cardinality(w))
<1>1. AllSent(round[p], k)
  BY WaitCovers DEF Favourable
<1>2. w = {m \in M : m.r = round[p]}
  BY FullDrain DEF Favourable
<1>3. /\ Cardinality(w) \in Nat /\ Cardinality(Committee(round[p], k)) \in Nat
      /\ Cardinality(w) >= Cardinality(Committee(round[p], k)) - MaxCrash
  BY <1>1, <1>2, FullCommittee
<1>4. Enough(Cardinality(Committee(round[p], k)) - MaxCrash)
  BY Provisioned
<1> QED
  BY <1>2, <1>3, <1>4, EnoughFacts, NumbersAssumption

\* All votes of a round are for one block, the same for all voters.
LEMMA SameHash ==
  ASSUME TypeOK, NoTies, PropsInv, OneLeader,
         NEW v1 \in votes, NEW v2 \in votes, v1.r = v2.r
  PROVE  v1.hB = v2.hB
<1>1. PICK b1 \in props : /\ b1.r = v1.r /\ HashOf(b1) = v1.hB
                          /\ \A n \in props : n.r = v1.r => VrfValue(n) <= VrfValue(b1)
  BY DEF OneLeader
<1>2. PICK b2 \in props : /\ b2.r = v2.r /\ HashOf(b2) = v2.hB
                          /\ \A n \in props : n.r = v2.r => VrfValue(n) <= VrfValue(b2)
  BY DEF OneLeader
<1>3. /\ b1.r \in Rounds /\ b1.from \in Nodes /\ b2.from \in Nodes
      /\ b1.from \in Committee(b1.r, Propose) /\ b2.from \in Committee(b1.r, Propose)
  BY <1>1, <1>2 DEF TypeOK, ProposalMsgs, PropsInv, Committee
<1>4. VrfValue(b1) \in Nat /\ VrfValue(b2) \in Nat
  BY <1>1, <1>2, <1>3, VrfAssumption DEF VrfValue, Propose, Steps
<1>5. VrfValue(b1) = VrfValue(b2)
  <2>1. VrfValue(b1) <= VrfValue(b2) /\ VrfValue(b2) <= VrfValue(b1)
    BY <1>1, <1>2
  <2> QED
    BY <1>4, <2>1
<1>6. b1.from = b2.from
  BY <1>1, <1>2, <1>3, <1>5 DEF NoTies, VrfValue
<1> QED
  BY <1>1, <1>2, <1>6 DEF HashOf

\* The elected leader is the proposal of greatest rank of all those sent, and
\* there is one.
LEMMA LeadersAre ==
  ASSUME Favourable, IInv, SyncInv, NEW p \in Nodes, pc[p] = "bp", TimeUp(p),
         NEW w \in Drains(p, props)
  PROVE  /\ AllSent(round[p], Propose)
         /\ w = {m \in props : m.r = round[p]}
         /\ Leaders(p, w) # {}
         /\ \A b \in Leaders(p, w) :
              b \in w /\ \A n \in w : VrfValue(n) <= VrfValue(b)
<1>0. TypeOK /\ PoolsFinite /\ round[p] \in Rounds
  BY NumbersAssumption DEF IInv, TypeOK, Rounds
<1>1. AllSent(round[p], Propose)
  BY WaitCovers DEF Favourable, StageOf, Propose
<1>2. w = {m \in props : m.r = round[p]}
  BY <1>0, FullDrain DEF Favourable, PoolsFinite
<1>3. ASSUME NEW m \in w PROVE VrfValue(m) \in Nat /\ VrfValue(m) > 0
  <2>1. m \in props /\ m \in ProposalMsgs
    BY <1>0, <1>2 DEF TypeOK
  <2>2. m.r \in Rounds /\ m.from \in Nodes /\ Propose \in Steps
    BY <2>1 DEF ProposalMsgs, Propose, Steps
  <2>3. Selected(m.from, m.r, Propose)
    BY <2>1 DEF SyncInv, PropsInv
  <2> QED
    BY <2>2, <2>3, VrfAssumption DEF Selected, VrfValue
<1>4. \A m \in w : Electable(p, m)
  <2>1. CASE round[p] = 1
    BY <2>1 DEF SyncInv, Graded, Electable
  <2>2. CASE round[p] # 1
    BY <1>0, <1>2, <2>2, NumbersAssumption DEF SyncInv, PropsInv, Electable, Rounds
  <2> QED
    BY <2>1, <2>2
<1>5. Leaders(p, w) = {m \in w : \A n \in w : VrfValue(n) <= VrfValue(m)}
  BY <1>3, <1>4 DEF Leaders, VrfValue
<1>6. IsFiniteSet(w) /\ w # {}
  <2>1. IsFiniteSet(w)
    BY <1>0, <1>2, FS_Subset DEF PoolsFinite
  <2>2. /\ Cardinality(w) \in Nat /\ Cardinality(Committee(round[p], Propose)) \in Nat
        /\ Cardinality(w) >= Cardinality(Committee(round[p], Propose)) - MaxCrash
    BY <1>0, <1>1, <1>2, FullCommittee DEF PoolsFinite, SyncInv, EachSent
  <2>3. Cardinality(w) > 0
    BY <1>0, <2>2, Provisioned, NumbersAssumption
  <2> QED
    BY <2>1, <2>3, FS_EmptySet
<1>7. \E m \in w : \A n \in w : VrfValue(n) <= VrfValue(m)
  <2> DEFINE f == [m \in w |-> VrfValue(m)]
  <2>1. f \in [w -> Nat]
    BY <1>3
  <2>2. \E m \in w : \A n \in w : f[n] <= f[m]
    <3> HIDE DEF f
    <3> QED
      BY <1>6, <2>1, HasGreatest
  <2> QED
    BY <2>2
<1> QED
  BY <1>1, <1>2, <1>5, <1>7

\* The vote of a node is for the best proposal, which it has drained.
LEMMA ElectFacts ==
  ASSUME Favourable, IInv, SyncInv, NEW p \in Nodes, ElectAndVote(p)
  PROVE  /\ AllSent(round[p], Propose)
         /\ got' = [got EXCEPT ![p] = {m \in props : m.r = round[p]}]
         /\ \E b \in props :
              /\ b.r = round[p]
              /\ \A n \in props : n.r = round[p] => VrfValue(n) <= VrfValue(b)
              /\ votes' = votes \cup VoteOf(p, HashOf(b))
<1>1. pc[p] = "bp" /\ TimeUp(p)
  BY DEF ElectAndVote
<1>2. PICK w \in Drains(p, props) : \E elected \in Leaders(p, w) :
        /\ got' = [got EXCEPT ![p] = w]
        /\ votes' = votes \cup VoteOf(p, HashOf(elected))
  BY DEF ElectAndVote
<1> QED
  BY <1>1, <1>2, LeadersAre

\* The precommit of a node is for the block all votes are for, with a quorum of them.
LEMMA CountVotesFacts ==
  ASSUME Favourable, IInv, SyncInv, NEW p \in Nodes, CountVotes(p)
  PROVE  \E w \in SUBSET votes, v \in votes :
           /\ v.r = round[p] /\ v.hB # NoHash /\ Enough(Count(v.hB, w))
           /\ precommits' = precommits \cup PrecommitOf(p, v.hB, w)
<1>0. TypeOK /\ PoolsFinite
  BY DEF IInv
<1>1. /\ pc[p] = "vote" /\ TimeUp(p) /\ StageOf(pc[p]) = Vote /\ round[p] \in Rounds
      /\ SentBy(votes, Vote) /\ FewCrashed
  BY <1>0, NumbersAssumption DEF CountVotes, StageOf, Vote, TypeOK, Rounds, SyncInv, EachSent
<1>2. PICK w \in Drains(p, votes) :
        \E h \in (IF OverThreshold(w) = {} THEN {NoHash} ELSE OverThreshold(w)) :
          precommits' = precommits \cup PrecommitOf(p, h, w)
  BY DEF CountVotes
<1>3. w = {m \in votes : m.r = round[p]} /\ Enough(Cardinality(w))
  BY <1>0, <1>1, <1>2, FullQuorum DEF PoolsFinite
<1>4. PICK v \in w : TRUE
  BY <1>3, EnoughFacts, FS_EmptySet
<1>5. \A m \in w : m.hB = v.hB
  BY <1>0, <1>3, <1>4, SameHash DEF SyncInv, Favourable
<1>6. OverThreshold(w) = {v.hB} /\ Enough(Count(v.hB, w))
  BY <1>3, <1>5, OneHash
<1>7. v.hB # NoHash
  BY <1>0, <1>3, <1>4, SentinelAssumption DEF TypeOK, VoteMsgs
<1> QED
  BY <1>2, <1>3, <1>4, <1>6, <1>7

\* Precommits of one round are for one block.
LEMMA SamePrecommit ==
  ASSUME TypeOK, NoTies, SyncInv, NEW c1 \in precommits, NEW c2 \in precommits, c1.r = c2.r
  PROVE  c1.hB = c2.hB
  BY SameHash DEF SyncInv, PrecommitsFollow

\* Commits of one round are for one block.
LEMMA SameCommit ==
  ASSUME TypeOK, NoTies, SyncInv, NEW c1 \in commits, NEW c2 \in commits, c1.r = c2.r
  PROVE  c1.hB = c2.hB
  BY SamePrecommit DEF SyncInv, CommitsFollow

\* A precommitted hash is a block.
LEMMA PrecommitIsBlock ==
  ASSUME TypeOK, SyncInv, NEW c \in precommits
  PROVE  c.hB \in Blocks /\ Enough(c.len)
  BY DEF TypeOK, VoteMsgs, SyncInv, PrecommitsFollow

\* The commit of a node is for the precommitted block, also left in pc_hB.
LEMMA CountPrecommitsFacts ==
  ASSUME Favourable, IInv, SyncInv, NEW p \in Nodes, CountPrecommits(p)
  PROVE  \E c \in precommits :
           /\ c.r = round[p]
           /\ pchB' = [pchB EXCEPT ![p] = c.hB]
           /\ chB' = [chB EXCEPT ![p] = c.hB]
           /\ commits' = commits \cup CommitOf(p, c.hB)
<1>0. TypeOK /\ PoolsFinite
  BY DEF IInv
<1>1. /\ pc[p] = "pc" /\ TimeUp(p) /\ StageOf(pc[p]) = Precommit /\ round[p] \in Rounds
      /\ SentBy(precommits, Precommit) /\ FewCrashed
  BY <1>0, NumbersAssumption
     DEF CountPrecommits, StageOf, Precommit, TypeOK, Rounds, SyncInv, EachSent
<1>2. PICK w \in Drains(p, precommits) :
        LET over == OverThreshold({m \in w : Enough(m.len)})
            lasts == IF w = {} THEN {pchB[p]} ELSE {m.hB : m \in w}
        IN \E last \in lasts :
             \E h \in (IF over = {} THEN {NoHash}
                       ELSE IF w # {} /\ last \in over THEN {last} ELSE over) :
               /\ pchB' = [pchB EXCEPT ![p] = last]
               /\ chB' = [chB EXCEPT ![p] = h]
               /\ commits' = commits \cup CommitOf(p, h)
  BY DEF CountPrecommits
<1>3. w = {m \in precommits : m.r = round[p]} /\ Enough(Cardinality(w))
  BY <1>0, <1>1, <1>2, FullQuorum DEF PoolsFinite
<1>4. PICK c \in w : TRUE
  BY <1>3, EnoughFacts, FS_EmptySet
<1>5. \A m \in w : m.hB = c.hB
  BY <1>0, <1>3, <1>4, SamePrecommit DEF Favourable
<1>6. {m \in w : Enough(m.len)} = w
  BY <1>0, <1>3, PrecommitIsBlock
<1>7. OverThreshold(w) = {c.hB} /\ {m.hB : m \in w} = {c.hB} /\ w # {}
  BY <1>3, <1>4, <1>5, OneHash
<1>8. /\ pchB' = [pchB EXCEPT ![p] = c.hB]
      /\ chB' = [chB EXCEPT ![p] = c.hB]
      /\ commits' = commits \cup CommitOf(p, c.hB)
  BY <1>2, <1>6, <1>7
<1> QED
  BY <1>3, <1>4, <1>8

\* A round ends with grade 2 for the committed block.
LEMMA JudgeFacts ==
  ASSUME Favourable, IInv, SyncInv, NEW p \in Nodes, JudgeCommits(p)
  PROVE  \E c \in commits :
           /\ c.r = round[p] /\ c.hB = chB[p]
           /\ state' = [state EXCEPT ![p] = [b |-> c.hB, r |-> round[p], g |-> 2]]
<1>0. TypeOK /\ PoolsFinite
  BY DEF IInv
<1>1. /\ pc[p] = "commit" /\ TimeUp(p) /\ StageOf(pc[p]) = Commit /\ round[p] \in Rounds
      /\ SentBy(commits, Commit) /\ FewCrashed
  BY <1>0, NumbersAssumption, SMTT(30)
     DEF JudgeCommits, StageOf, Commit, TypeOK, Rounds, SyncInv, EachSent
<1>2. PICK w \in Drains(p, commits) :
        \E g \in Certified(w) : state' = [state EXCEPT ![p] = Grade(p, g)]
  BY DEF JudgeCommits
<1>3. w = {m \in commits : m.r = round[p]} /\ Enough(Cardinality(w))
  BY <1>0, <1>1, <1>2, FullQuorum DEF PoolsFinite
<1>4. PICK c \in w : TRUE
  BY <1>3, EnoughFacts, FS_EmptySet
<1>5. \A m \in w : m.hB = c.hB
  BY <1>0, <1>3, <1>4, SameCommit DEF Favourable
<1>6. c.hB \in Blocks
  BY <1>0, <1>3, <1>4, PrecommitIsBlock DEF SyncInv, CommitsFollow
<1>7. {m \in w : Verifies(m)} = w
  BY <1>5, <1>6, SentinelAssumption DEF Verifies
<1>8. Certified(w) = {c.hB}
  BY <1>3, <1>5, <1>7, OneHash, SMTT(30) DEF Certified
<1>9. chB[p] = c.hB
  <2>1. PICK d \in precommits : d.r = round[p] /\ d.hB = chB[p]
    BY <1>1 DEF SyncInv, Locals, Live, Stopped, TypeOK
  <2>2. PICK e \in precommits : e.r = c.r /\ e.hB = c.hB
    BY <1>3, <1>4 DEF SyncInv, CommitsFollow
  <2> QED
    BY <1>0, <1>3, <1>4, <2>1, <2>2, SamePrecommit DEF Favourable
<1>10. Grade(p, c.hB) = [b |-> c.hB, r |-> round[p], g |-> 2]
  BY <1>9 DEF Grade
<1> QED
  BY <1>2, <1>3, <1>4, <1>8, <1>9, <1>10

-----------------------------------------------------------------------------
(* What does not happen in such a run *)

\* Every step of every round has its key.
LEMMA KeysLast ==
  ASSUME Favourable, NEW r \in Rounds, NEW s \in 1..4
  PROVE  HasKey(r, s)
<1>1. 4 * Slots <= KeyNum
  BY DEF Favourable, WellProvisioned
<1> QED
  BY <1>1, NumbersAssumption DEF HasKey, Rounds

\* A node with a round to run has a batch for it.
LEMMA BatchLeft ==
  ASSUME TypeOK, SyncInv, NEW p \in Nodes, pc[p] = "idle"
  PROVE  txbuf[p] >= Batch
<1>1. txbuf[p] >= (Slots - round[p] + 1) * Batch
  BY DEF SyncInv, Funded, Live, Stopped
<1>2. round[p] \in 1..Slots+1 /\ round[p] # Slots + 1
  BY DEF TypeOK
<1>3. PICK n \in Nat : n = Slots - round[p]
  BY <1>2, NumbersAssumption
<1>4. (n + 1) * Batch = n * Batch + Batch /\ n * Batch >= 0
  BY NumbersAssumption
<1>5. txbuf[p] \in Nat
  BY NumbersAssumption DEF TypeOK
<1> QED
  BY <1>1, <1>3, <1>4, <1>5, NumbersAssumption

\* The exceptions of the code, and running out of transactions.
LEMMA NoFailure ==
  ASSUME Favourable, IInv, SyncInv, NEW p \in Nodes
  PROVE  /\ ~Starve(p) /\ ~NoLeader(p) /\ ~UnknownBlock(p) /\ ~KeysExhausted(p)
<1>0. TypeOK
  BY DEF IInv
<1>1. ~Starve(p)
  <2>1. pc[p] = "idle" => txbuf[p] >= Batch /\ txbuf[p] \in Nat
    BY <1>0, BatchLeft, NumbersAssumption DEF TypeOK
  <2> QED
    BY <2>1, NumbersAssumption DEF Starve
<1>2. ~NoLeader(p)
  BY LeadersAre DEF NoLeader
<1>3. ~UnknownBlock(p)
  <2> SUFFICES ASSUME UnknownBlock(p) PROVE FALSE
    OBVIOUS
  <2>1. p \in Live /\ pc[p] = "commit" /\ pchB[p] \notin {HashOf(m) : m \in got[p]}
    BY DEF UnknownBlock, JudgeCommits, Live, Stopped
  <2>2. PICK c \in precommits : c.r = round[p] /\ c.hB = pchB[p]
    BY <2>1 DEF SyncInv, Locals
  <2>3. PICK v \in votes : v.r = c.r /\ v.hB = c.hB
    BY DEF SyncInv, PrecommitsFollow
  <2>4. PICK b \in props : b.r = v.r /\ HashOf(b) = v.hB
    BY DEF SyncInv, OneLeader
  <2>5. b \in got[p]
    BY <2>1, <2>2, <2>3, <2>4 DEF SyncInv, Locals
  <2> QED
    BY <2>1, <2>2, <2>3, <2>4, <2>5
<1>4. ~KeysExhausted(p)
  <2> SUFFICES ASSUME KeyMissing(p) PROVE FALSE
    BY DEF KeysExhausted
  <2>1. StageOf(pc[p]) + 1 \in 1..4 /\ ~HasKey(round[p], StageOf(pc[p]) + 1)
    BY DEF KeyMissing, StageOf
  <2>2. round[p] \in Rounds
    BY <1>0, NumbersAssumption DEF KeyMissing, TypeOK, Rounds
  <2> QED
    BY <2>1, <2>2, KeysLast
<1> QED
  BY <1>1, <1>2, <1>3, <1>4

\* The steps that remain.
LEMMA StepsLeft ==
  ASSUME Favourable, IInv, SyncInv, NEW p \in Nodes, Step(p) \/ Crash(p)
  PROVE  \/ ProposeBlock(p) \/ SitOut(p) \/ ElectAndVote(p) \/ CountVotes(p)
         \/ CountPrecommits(p) \/ FinishFirstRound(p) \/ FinishRound(p) \/ Crash(p)
  BY NoFailure DEF Step

-----------------------------------------------------------------------------
(* Every step keeps the invariant *)

\* What a step of p's own greenlet changes of pc and round: it goes on to the
\* next wait of its round, or ends the round.
LEMMA OneStage ==
  ASSUME Favourable, IInv, SyncInv, NEW p \in Nodes, Step(p), ~Crash(p)
  PROVE  \/ /\ round'[p] = round[p]
            /\ pc'[p] \in {"bp", "vote", "pc", "commit"}
            /\ StageOf(pc'[p]) = StageOf(pc[p]) + 1
         \/ /\ round'[p] = round[p] + 1 /\ pc[p] = "commit"
            /\ pc'[p] = (IF round[p] = Slots THEN "done" ELSE "idle")
<1>0. TypeOK
  BY DEF IInv
<1>1. CASE ProposeBlock(p) \/ SitOut(p)
  BY <1>0, <1>1 DEF ProposeBlock, SitOut, Goto, StageOf, TypeOK
<1>2. CASE ElectAndVote(p)
  BY <1>0, <1>2 DEF ElectAndVote, Goto, StageOf, TypeOK
<1>3. CASE CountVotes(p)
  BY <1>0, <1>3 DEF CountVotes, Goto, StageOf, TypeOK
<1>4. CASE CountPrecommits(p)
  BY <1>0, <1>4 DEF CountPrecommits, Goto, StageOf, TypeOK
<1>5. CASE FinishFirstRound(p) \/ FinishRound(p)
  BY <1>0, <1>5, FinishFacts
<1> QED
  BY <1>1, <1>2, <1>3, <1>4, <1>5, StepsLeft

\* Nobody but the killed dies.
LEMMA FewCrashedStep ==
  ASSUME Favourable, IInv, SyncInv, NEW p \in Nodes, Step(p) \/ Crash(p)
  PROVE  FewCrashed'
<1> DEFINE dead == {q \in Nodes : pc[q] = "crashed"}
<1>0. TypeOK /\ FewCrashed /\ p \in Live
  BY LiveStep DEF IInv, SyncInv
<1>1. \A q \in Nodes \ {p} : pc'[q] = pc[q]
  BY <1>0, Forward
<1>2. CASE Crash(p)
  <2>1. pc'[p] = "crashed" /\ Cardinality(dead) < MaxCrash
    BY <1>0, <1>2 DEF Crash, Goto, TypeOK
  <2>2. {q \in Nodes : pc'[q] = "crashed"} = dead \cup {p} /\ p \notin dead
    BY <1>0, <1>1, <2>1 DEF Live, Stopped
  <2>3. IsFiniteSet(dead)
    BY NodesAssumption, FS_Subset
  <2>4. Cardinality(dead \cup {p}) = Cardinality(dead) + 1 /\ Cardinality(dead) \in Nat
    BY <2>2, <2>3, FS_AddElement, FS_CardinalityType
  <2>5. Cardinality(dead \cup {p}) <= MaxCrash
    <3> HIDE DEF dead
    <3> QED
      BY <2>1, <2>4, NumbersAssumption
  <2> QED
    BY <1>0, <1>1, <2>1, <2>2, <2>5 DEF FewCrashed
<1>3. CASE Step(p) /\ ~Crash(p)
  <2>1. pc'[p] # "crashed" /\ pc'[p] # "starved"
    BY <1>3, OneStage
  <2>2. {q \in Nodes : pc'[q] = "crashed"} = dead
    BY <1>0, <1>1, <2>1 DEF Live, Stopped
  <2> QED
    BY <1>0, <1>1, <2>1, <2>2 DEF FewCrashed
<1> QED
  BY <1>2, <1>3

\* The step with which a node gets past sending k sends what there is to send.
LEMMA Crossing ==
  ASSUME Favourable, IInv, SyncInv, NEW p \in Nodes, Step(p), ~Crash(p),
         NEW r \in Rounds, NEW k \in 1..4, ~Reached(p, r, k), Reached(p, r, k)'
  PROVE  r = round[p] /\ StageOf(pc[p]) = k - 1
<1>1. round[p] \in Nat /\ StageOf(pc[p]) \in 0..5 /\ r \in 1..Slots
  BY RoundAndStage DEF IInv, Rounds
<1>2. CASE round'[p] = round[p] /\ StageOf(pc'[p]) = StageOf(pc[p]) + 1
  BY <1>1, <1>2 DEF Reached
<1>3. CASE /\ round'[p] = round[p] + 1 /\ pc[p] = "commit"
           /\ pc'[p] = (IF round[p] = Slots THEN "done" ELSE "idle")
  <2>1. StageOf(pc[p]) = 4
    BY <1>3 DEF StageOf
  <2>2. r > round[p]
    BY <1>1, <2>1 DEF Reached
  <2>3. r = round[p] + 1 /\ StageOf(pc'[p]) >= k
    BY <1>1, <1>3, <2>2 DEF Reached
  <2>4. pc'[p] = "idle"
    BY <1>1, <1>3, <2>3, NumbersAssumption
  <2>5. StageOf(pc'[p]) = 0
    BY <2>4 DEF StageOf
  <2> QED
    BY <2>3, <2>5
<1> QED
  BY <1>2, <1>3, OneStage

\* A node past sending k after a step was past it before, or just took it.
LEMMA WhoReached ==
  ASSUME Favourable, IInv, SyncInv, NEW p \in Nodes, Step(p) \/ Crash(p),
         NEW k \in 1..4, NEW q \in Nodes, NEW r \in Rounds,
         pc'[q] # "crashed", Reached(q, r, k)'
  PROVE  \/ pc[q] # "crashed" /\ Reached(q, r, k)
         \/ /\ q = p /\ r = round[p] /\ StageOf(pc[p]) = k - 1
            /\ Step(p) /\ ~Crash(p)
<1>0. TypeOK /\ p \in Live
  BY LiveStep DEF IInv
<1>1. CASE q # p
  BY <1>0, <1>1, Forward DEF Reached
<1>2. CASE q = p
  <2>1. Step(p) /\ ~Crash(p)
    BY <1>0, <1>2 DEF Crash, Goto, TypeOK
  <2>2. pc[p] # "crashed"
    BY <1>0 DEF Live, Stopped
  <2>3. ~Reached(p, r, k) => r = round[p] /\ StageOf(pc[p]) = k - 1
    BY <1>2, <2>1, Crossing
  <2> QED
    BY <1>2, <2>1, <2>2, <2>3
<1> QED
  BY <1>1, <1>2

\* The node at a wait takes the step out of this wait.
LEMMA StepOfStage ==
  ASSUME Favourable, IInv, SyncInv, NEW p \in Nodes, Step(p), ~Crash(p)
  PROVE  /\ StageOf(pc[p]) = 0 => ProposeBlock(p) \/ SitOut(p)
         /\ StageOf(pc[p]) = 1 => ElectAndVote(p)
         /\ StageOf(pc[p]) = 2 => CountVotes(p)
         /\ StageOf(pc[p]) = 3 => CountPrecommits(p)
<1>1. CASE ProposeBlock(p) \/ SitOut(p)
  <2>1. StageOf(pc[p]) = 0
    BY <1>1 DEF ProposeBlock, SitOut, StageOf
  <2> QED
    BY <1>1, <2>1
<1>2. CASE ElectAndVote(p)
  <2>1. StageOf(pc[p]) = 1
    BY <1>2 DEF ElectAndVote, StageOf
  <2> QED
    BY <1>2, <2>1
<1>3. CASE CountVotes(p)
  <2>1. StageOf(pc[p]) = 2
    BY <1>3 DEF CountVotes, StageOf
  <2> QED
    BY <1>3, <2>1
<1>4. CASE CountPrecommits(p)
  <2>1. StageOf(pc[p]) = 3
    BY <1>4 DEF CountPrecommits, StageOf
  <2> QED
    BY <1>4, <2>1
<1>5. CASE FinishFirstRound(p) \/ FinishRound(p)
  <2>1. StageOf(pc[p]) = 4
    BY <1>5, FinishFacts DEF IInv, StageOf
  <2> QED
    BY <2>1
<1> QED
  BY <1>1, <1>2, <1>3, <1>4, <1>5, StepsLeft

\* Every step sends what its node has to send with it.
LEMMA EachSentStep ==
  ASSUME Favourable, IInv, SyncInv, NEW p \in Nodes, Step(p) \/ Crash(p)
  PROVE  EachSent'
<1>0. EachSent
  BY DEF SyncInv
<1>1. SentBy(props, Propose)'
  <2> SUFFICES ASSUME NEW q \in Nodes, NEW r \in Rounds,
                      pc'[q] # "crashed", Reached(q, r, 1)', q \in Committee(r, 1)
               PROVE  \E m \in props' : m.r = r /\ m.from = q
    BY DEF SentBy, Propose, Committee
  <2>1. SentBy(props, 1)
    BY <1>0 DEF EachSent, Propose
  <2>2. props \subseteq props'
    BY PoolsGrow
  <2>3. /\ Step(p) /\ StageOf(pc[p]) = 0 /\ ~Crash(p) /\ p \in Committee(round[p], 1)
        => \E m \in props' : m.r = round[p] /\ m.from = p
    <3> SUFFICES ASSUME Step(p), StageOf(pc[p]) = 0, ~Crash(p),
                        p \in Committee(round[p], 1)
                 PROVE  \E m \in props' : m.r = round[p] /\ m.from = p
      OBVIOUS
    <3> USE DEF Propose
    <3>1. ProposeBlock(p)
      BY StepOfStage DEF SitOut, Committee
    <3>2. Proposal(p) \in props'
      BY <3>1 DEF ProposeBlock
    <3> QED
      BY <3>2 DEF Proposal
  <2>4. \/ pc[q] # "crashed" /\ Reached(q, r, 1)
        \/ /\ q = p /\ r = round[p] /\ StageOf(pc[p]) = 0
           /\ Step(p) /\ ~Crash(p)
    BY WhoReached
  <2> QED
    BY <2>1, <2>2, <2>3, <2>4 DEF SentBy
<1>2. SentBy(votes, Vote)'
  <2> SUFFICES ASSUME NEW q \in Nodes, NEW r \in Rounds,
                      pc'[q] # "crashed", Reached(q, r, 2)', q \in Committee(r, 2)
               PROVE  \E m \in votes' : m.r = r /\ m.from = q
    BY DEF SentBy, Vote, Committee
  <2>1. SentBy(votes, 2)
    BY <1>0 DEF EachSent, Vote
  <2>2. votes \subseteq votes'
    BY PoolsGrow
  <2>3. /\ Step(p) /\ StageOf(pc[p]) = 1 /\ ~Crash(p) /\ p \in Committee(round[p], 2)
        => \E m \in votes' : m.r = round[p] /\ m.from = p
    <3> SUFFICES ASSUME Step(p), StageOf(pc[p]) = 1, ~Crash(p),
                        p \in Committee(round[p], 2)
                 PROVE  \E m \in votes' : m.r = round[p] /\ m.from = p
      OBVIOUS
    <3> USE DEF Vote
    <3>1. ElectAndVote(p) /\ Selected(p, round[p], Vote)
      BY StepOfStage DEF Committee
    <3>2. PICK b \in props : votes' = votes \cup VoteOf(p, HashOf(b))
      BY <3>1, ElectFacts
    <3>3. [r |-> round[p], from |-> p, hB |-> HashOf(b)] \in votes'
      BY <3>1, <3>2 DEF VoteOf
    <3> QED
      BY <3>3
  <2>4. \/ pc[q] # "crashed" /\ Reached(q, r, 2)
        \/ /\ q = p /\ r = round[p] /\ StageOf(pc[p]) = 1
           /\ Step(p) /\ ~Crash(p)
    BY WhoReached
  <2> QED
    BY <2>1, <2>2, <2>3, <2>4 DEF SentBy
<1>3. SentBy(precommits, Precommit)'
  <2> SUFFICES ASSUME NEW q \in Nodes, NEW r \in Rounds,
                      pc'[q] # "crashed", Reached(q, r, 3)', q \in Committee(r, 3)
               PROVE  \E m \in precommits' : m.r = r /\ m.from = q
    BY DEF SentBy, Precommit, Committee
  <2>1. SentBy(precommits, 3)
    BY <1>0 DEF EachSent, Precommit
  <2>2. precommits \subseteq precommits'
    BY PoolsGrow
  <2>3. /\ Step(p) /\ StageOf(pc[p]) = 2 /\ ~Crash(p) /\ p \in Committee(round[p], 3)
        => \E m \in precommits' : m.r = round[p] /\ m.from = p
    <3> SUFFICES ASSUME Step(p), StageOf(pc[p]) = 2, ~Crash(p),
                        p \in Committee(round[p], 3)
                 PROVE  \E m \in precommits' : m.r = round[p] /\ m.from = p
      OBVIOUS
    <3> USE DEF Precommit
    <3>1. CountVotes(p) /\ Selected(p, round[p], Precommit)
      BY StepOfStage DEF Committee
    <3>2. PICK w \in SUBSET votes, v \in votes :
            precommits' = precommits \cup PrecommitOf(p, v.hB, w)
      BY <3>1, CountVotesFacts
    <3>3. \E h, l : [r |-> round[p], from |-> p, hB |-> h, len |-> l] \in precommits'
      BY <3>1, <3>2 DEF PrecommitOf
    <3> QED
      BY <3>3
  <2>4. \/ pc[q] # "crashed" /\ Reached(q, r, 3)
        \/ /\ q = p /\ r = round[p] /\ StageOf(pc[p]) = 2
           /\ Step(p) /\ ~Crash(p)
    BY WhoReached
  <2> QED
    BY <2>1, <2>2, <2>3, <2>4 DEF SentBy
<1>4. SentBy(commits, Commit)'
  <2> SUFFICES ASSUME NEW q \in Nodes, NEW r \in Rounds,
                      pc'[q] # "crashed", Reached(q, r, 4)', q \in Committee(r, 4)
               PROVE  \E m \in commits' : m.r = r /\ m.from = q
    BY DEF SentBy, Commit, Committee
  <2>1. SentBy(commits, 4)
    BY <1>0 DEF EachSent, Commit
  <2>2. commits \subseteq commits'
    BY PoolsGrow
  <2>3. /\ Step(p) /\ StageOf(pc[p]) = 3 /\ ~Crash(p) /\ p \in Committee(round[p], 4)
        => \E m \in commits' : m.r = round[p] /\ m.from = p
    <3> SUFFICES ASSUME Step(p), StageOf(pc[p]) = 3, ~Crash(p),
                        p \in Committee(round[p], 4)
                 PROVE  \E m \in commits' : m.r = round[p] /\ m.from = p
      OBVIOUS
    <3> USE DEF Commit
    <3>1. CountPrecommits(p) /\ Selected(p, round[p], Commit)
      BY StepOfStage DEF Committee
    <3>2. PICK c \in precommits : commits' = commits \cup CommitOf(p, c.hB)
      BY <3>1, CountPrecommitsFacts
    <3>3. [r |-> round[p], from |-> p, hB |-> c.hB] \in commits'
      BY <3>1, <3>2 DEF CommitOf
    <3> QED
      BY <3>3
  <2>4. \/ pc[q] # "crashed" /\ Reached(q, r, 4)
        \/ /\ q = p /\ r = round[p] /\ StageOf(pc[p]) = 3
           /\ Step(p) /\ ~Crash(p)
    BY WhoReached
  <2> QED
    BY <2>1, <2>2, <2>3, <2>4 DEF SentBy
<1> QED
  BY <1>1, <1>2, <1>3, <1>4 DEF EachSent

\* A proposal takes one batch, and the round it is for is one less to come.
LEMMA FundedStep ==
  ASSUME Favourable, IInv, IInv', SyncInv, NEW p \in Nodes, Step(p) \/ Crash(p)
  PROVE  Funded'
<1>0. TypeOK /\ TypeOK' /\ Funded
  BY DEF IInv, SyncInv
<1> SUFFICES ASSUME NEW q \in Live'
             PROVE  txbuf'[q] >= (Slots - round'[q] + (IF pc'[q] = "idle" THEN 1 ELSE 0)) * Batch
  BY DEF Funded
<1>1. q \in Live /\ p \in Live /\ q \in Nodes
  BY <1>0, LiveStep DEF Live
<1>2. CASE q # p
  <2>1. pc'[q] = pc[q] /\ round'[q] = round[q]
    BY <1>0, <1>1, <1>2, Forward
  <2>2. txbuf'[q] = txbuf[q]
    BY <1>0, <1>1, <1>2, StepsLeft
       DEF TypeOK, ProposeBlock, SitOut, ElectAndVote, CountVotes, CountPrecommits,
           FinishFirstRound, FinishRound, NextRound, DropLocals, Crash
  <2> QED
    BY <1>0, <1>1, <2>1, <2>2 DEF Funded
<1>3. CASE q = p
  <2>1. ~Crash(p) /\ Step(p)
    BY <1>0, <1>3 DEF Crash, Goto, TypeOK, Live, Stopped
  <2>2. /\ txbuf[p] \in Nat /\ round[p] \in Nat /\ Batch \in Nat /\ Slots \in Nat
        /\ txbuf[p] >= (Slots - round[p] + (IF pc[p] = "idle" THEN 1 ELSE 0)) * Batch
    <3>1. txbuf[p] \in Nat /\ Batch \in Nat /\ Slots \in Nat
      BY <1>0, NumbersAssumption DEF TypeOK
    <3>2. round[p] \in Nat
      BY <1>0, RoundAndStage
    <3>3. txbuf[p] >= (Slots - round[p] + (IF pc[p] = "idle" THEN 1 ELSE 0)) * Batch
      BY <1>0, <1>1 DEF Funded
    <3> QED
      BY <3>1, <3>2, <3>3
  <2>3. (Slots - round[p] + 1) * Batch = (Slots - round[p]) * Batch + Batch
    <3>1. PICK n \in Int : n = Slots - round[p]
      BY <2>2
    <3>2. (n + 1) * Batch = n * Batch + Batch
      BY <2>2
    <3> QED
      BY <3>1, <3>2
  <2>4. PICK x \in Int : x = (Slots - round[p]) * Batch
    BY <2>2
  <2>5. CASE ProposeBlock(p) \/ SitOut(p)
    <3>1. /\ pc[p] = "idle" /\ pc'[p] = "bp" /\ round'[p] = round[p]
          /\ txbuf'[p] \in {txbuf[p], txbuf[p] - Batch}
      BY <1>0, <2>5 DEF ProposeBlock, SitOut, Goto, TypeOK
    <3>2. txbuf[p] >= x + Batch
      BY <2>2, <2>3, <2>4, <3>1
    <3>3. txbuf'[p] >= x
      BY <2>2, <3>1, <3>2
    <3>4. Slots - round'[p] + (IF pc'[p] = "idle" THEN 1 ELSE 0) = Slots - round[p]
      BY <2>2, <3>1
    <3> QED
      BY <1>3, <2>4, <3>3, <3>4
  <2>6. CASE ~ProposeBlock(p) /\ ~SitOut(p)
    <3>1. txbuf'[p] = txbuf[p] /\ pc[p] # "idle"
      BY <1>0, <2>1, <2>6, StepsLeft
         DEF TypeOK, ElectAndVote, CountVotes, CountPrecommits, JudgeCommits,
             FinishFirstRound, FinishRound, NextRound, DropLocals
    <3>2. txbuf[p] >= x
      BY <2>2, <2>4, <3>1
    <3>3. Slots - round'[p] + (IF pc'[p] = "idle" THEN 1 ELSE 0) = Slots - round[p]
      <4>1. CASE round'[p] = round[p] /\ pc'[p] \in {"bp", "vote", "pc", "commit"}
        BY <2>2, <4>1
      <4>2. CASE /\ round'[p] = round[p] + 1
                 /\ pc'[p] = (IF round[p] = Slots THEN "done" ELSE "idle")
        <5>1. pc'[p] = "idle"
          BY <1>3, <4>2 DEF Live, Stopped
        <5> QED
          BY <2>2, <4>2, <5>1
      <4> QED
        BY <2>1, <4>1, <4>2, OneStage
    <3> QED
      BY <1>3, <2>4, <3>1, <3>2, <3>3
  <2> QED
    BY <2>5, <2>6
<1> QED
  BY <1>2, <1>3

\* A new proposal is of the committee and carries the grade of its proposer.
LEMMA PropsStep ==
  ASSUME Favourable, IInv, SyncInv, NEW p \in Nodes, Step(p) \/ Crash(p)
  PROVE  PropsInv'
<1>1. PropsInv /\ Graded
  BY DEF SyncInv
<1>2. CASE ProposeBlock(p)
  <2>1. props' = props \cup {Proposal(p)} /\ Selected(p, round[p], Propose)
    BY <1>2 DEF ProposeBlock
  <2>2. round[p] # 1 => state[p].g = 2
    BY <1>1 DEF Graded
  <2> QED
    BY <1>1, <2>1, <2>2 DEF PropsInv, Proposal
<1>3. CASE ~ProposeBlock(p)
  <2>1. props' = props
    BY <1>3, StepsLeft DEF SitOut, ElectAndVote, CountVotes, CountPrecommits,
       FinishFirstRound, FinishRound, NextRound, DropLocals, Crash, msgs
  <2> QED
    BY <1>1, <2>1 DEF PropsInv
<1> QED
  BY <1>2, <1>3

\* Once all proposals of a round are sent the round's proposals do not change.
LEMMA PropsFrozen ==
  ASSUME TypeOK, NEW p \in Nodes, Step(p) \/ Crash(p), NEW r \in Int, AllSent(r, Propose)
  PROVE  {m \in props' : m.r = r} = {m \in props : m.r = r} /\ AllSent(r, Propose)'
<1>1. Adds(props, props', p, Propose) /\ Propose \in Int
  BY StepAdds DEF Propose
<1>2. AllSent(r, Propose)'
  BY <1>1, AllSentStays DEF Propose
<1> QED
  BY <1>1, <1>2, Frozen

\* Votes are for the best of all proposals, and no better one comes later.
LEMMA OneLeaderStep ==
  ASSUME Favourable, IInv, SyncInv, NEW p \in Nodes, Step(p) \/ Crash(p)
  PROVE  OneLeader'
<1>0. TypeOK /\ OneLeader
  BY DEF IInv, SyncInv
<1> DEFINE Best(b, r) == b.r = r /\ \A n \in props : n.r = r => VrfValue(n) <= VrfValue(b)
<1> SUFFICES ASSUME NEW m \in votes'
             PROVE  /\ AllSent(m.r, Propose)'
                    /\ \E b \in props' : /\ b.r = m.r /\ HashOf(b) = m.hB
                         /\ \A n \in props' : n.r = m.r => VrfValue(n) <= VrfValue(b)
  BY DEF OneLeader, VrfValue, HashOf
<1>1. AllSent(m.r, Propose) /\ m.r \in Int /\ \E b \in props : Best(b, m.r) /\ HashOf(b) = m.hB
  <2>1. CASE m \in votes
    BY <1>0, <2>1, NumbersAssumption DEF OneLeader, TypeOK, VoteMsgs, Rounds
  <2>2. CASE m \notin votes
    <3>1. ElectAndVote(p)
      BY <2>2, StepsLeft DEF ProposeBlock, SitOut, CountVotes, CountPrecommits,
         FinishFirstRound, FinishRound, NextRound, DropLocals, Crash, msgs
    <3>2. PICK b \in props :
            /\ b.r = round[p]
            /\ \A n \in props : n.r = round[p] => VrfValue(n) <= VrfValue(b)
            /\ votes' = votes \cup VoteOf(p, HashOf(b))
      BY <3>1, ElectFacts
    <3>3. m.r = round[p] /\ m.hB = HashOf(b)
      BY <2>2, <3>2 DEF VoteOf
    <3>4. AllSent(round[p], Propose) /\ round[p] \in Int
      BY <1>0, <3>1, ElectFacts, RoundAndStage
    <3> QED
      BY <3>2, <3>3, <3>4
  <2> QED
    BY <2>1, <2>2
<1>2. {n \in props' : n.r = m.r} = {n \in props : n.r = m.r} /\ AllSent(m.r, Propose)'
  BY <1>0, <1>1, PropsFrozen
<1>3. PICK b \in props : Best(b, m.r) /\ HashOf(b) = m.hB
  BY <1>1
<1>4. b \in props'
  BY PoolsGrow
<1>5. \A n \in props' : n.r = m.r => n \in props
  BY <1>2
<1> QED
  BY <1>2, <1>3, <1>4, <1>5

\* Precommits follow the votes, and commits the precommits.
LEMMA FollowStep ==
  ASSUME Favourable, IInv, SyncInv, NEW p \in Nodes, Step(p) \/ Crash(p)
  PROVE  PrecommitsFollow' /\ CommitsFollow'
<1>0. PrecommitsFollow /\ CommitsFollow /\ votes \subseteq votes' /\ precommits \subseteq precommits'
  BY PoolsGrow DEF SyncInv
<1>1. PrecommitsFollow'
  <2> SUFFICES ASSUME NEW m \in precommits'
               PROVE  Enough(m.len) /\ \E v \in votes : v.r = m.r /\ v.hB = m.hB
    BY <1>0 DEF PrecommitsFollow
  <2>1. CASE m \in precommits
    BY <1>0, <2>1 DEF PrecommitsFollow
  <2>2. CASE m \notin precommits
    <3>1. CountVotes(p)
      BY <2>2, StepsLeft DEF ProposeBlock, SitOut, ElectAndVote, CountPrecommits,
         FinishFirstRound, FinishRound, NextRound, DropLocals, Crash, msgs
    <3>2. PICK w \in SUBSET votes, v \in votes :
            /\ v.r = round[p] /\ v.hB # NoHash /\ Enough(Count(v.hB, w))
            /\ precommits' = precommits \cup PrecommitOf(p, v.hB, w)
      BY <3>1, CountVotesFacts
    <3>3. m.r = round[p] /\ m.hB = v.hB /\ m.len = Count(v.hB, w)
      BY <2>2, <3>2 DEF PrecommitOf
    <3> QED
      BY <3>2, <3>3
  <2> QED
    BY <2>1, <2>2
<1>2. CommitsFollow'
  <2> SUFFICES ASSUME NEW m \in commits'
               PROVE  \E c \in precommits : c.r = m.r /\ c.hB = m.hB
    BY <1>0 DEF CommitsFollow
  <2>1. CASE m \in commits
    BY <1>0, <2>1 DEF CommitsFollow
  <2>2. CASE m \notin commits
    <3>1. CountPrecommits(p)
      BY <2>2, StepsLeft DEF ProposeBlock, SitOut, ElectAndVote, CountVotes,
         FinishFirstRound, FinishRound, NextRound, DropLocals, Crash, msgs
    <3>2. PICK c \in precommits :
            c.r = round[p] /\ commits' = commits \cup CommitOf(p, c.hB)
      BY <3>1, CountPrecommitsFacts
    <3>3. m.r = round[p] /\ m.hB = c.hB
      BY <2>2, <3>2 DEF CommitOf
    <3> QED
      BY <3>2, <3>3
  <2> QED
    BY <2>1, <2>2
<1> QED
  BY <1>1, <1>2

\* The locals of p, stated for one node.
LocalsOf(p) ==
  /\ pc[p] \in {"vote", "pc", "commit"} =>
       AllSent(round[p], Propose) /\ got[p] = {m \in props : m.r = round[p]}
  /\ pc[p] = "commit" =>
       pchB[p] = chB[p] /\ \E c \in precommits : c.r = round[p] /\ c.hB = chB[p]

\* A step of another node, or one that keeps the drained proposals, keeps them complete.
LEMMA LocalsKept ==
  ASSUME Favourable, IInv, SyncInv, NEW p \in Nodes, Step(p) \/ Crash(p), NEW q \in Nodes,
         pc[q] \in {"vote", "pc", "commit"}, LocalsOf(q),
         round'[q] = round[q], got'[q] = got[q]
  PROVE  AllSent(round[q], Propose)' /\ got'[q] = {m \in props' : m.r = round'[q]}
<1>1. TypeOK /\ round[q] \in Int
  BY RoundAndStage DEF IInv
<1>2. AllSent(round[q], Propose) /\ got[q] = {m \in props : m.r = round[q]}
  BY DEF LocalsOf
<1>3. PICK r \in Int : r = round[q]
  BY <1>1
<1>4. {m \in props' : m.r = r} = {m \in props : m.r = r} /\ AllSent(r, Propose)'
  BY <1>1, <1>2, <1>3, PropsFrozen
<1> QED
  BY <1>2, <1>3, <1>4 DEF AllSent, Reached

\* A node that votes has drained all proposals; later waits keep them, and the
\* commit wait is entered with the precommitted block.
LEMMA LocalsStep ==
  ASSUME Favourable, IInv, SyncInv, NEW p \in Nodes, Step(p) \/ Crash(p)
  PROVE  Locals'
<1>0. TypeOK /\ precommits \subseteq precommits'
  BY PoolsGrow DEF IInv
<1> SUFFICES ASSUME NEW q \in Live' PROVE LocalsOf(q)'
  BY DEF Locals, LocalsOf
<1>1. q \in Live /\ p \in Live /\ q \in Nodes
  BY <1>0, LiveStep DEF Live
<1>2. LocalsOf(q)
  BY <1>1 DEF SyncInv, Locals, LocalsOf
<1>3. CASE q # p
  <2>1. pc'[q] = pc[q] /\ round'[q] = round[q]
    BY <1>0, <1>1, <1>3, Forward
  <2>2. got'[q] = got[q] /\ pchB'[q] = pchB[q] /\ chB'[q] = chB[q]
    BY <1>0, <1>1, <1>3, StepsLeft, ZenonT(60)
       DEF TypeOK, ProposeBlock, SitOut, ElectAndVote, CountVotes, CountPrecommits,
           FinishFirstRound, FinishRound, NextRound, DropLocals, Crash, roundVars
  <2>3. pc[q] \in {"vote", "pc", "commit"} =>
          AllSent(round[q], Propose)' /\ got'[q] = {m \in props' : m.r = round'[q]}
    BY <1>1, <1>2, <2>1, <2>2, LocalsKept
  <2> QED
    BY <1>0, <1>2, <2>1, <2>2, <2>3 DEF LocalsOf
<1>4. CASE q = p
  <2>1. ~Crash(p) /\ Step(p)
    BY <1>0, <1>4 DEF Crash, Goto, TypeOK, Live, Stopped
  <2>2. CASE ProposeBlock(p) \/ SitOut(p)
    <3>1. pc'[p] = "bp"
      BY <1>0, <2>2 DEF ProposeBlock, SitOut, Goto, TypeOK
    <3> QED
      BY <1>4, <3>1 DEF LocalsOf
  <2>3. CASE ElectAndVote(p)
    <3>1. pc'[p] = "vote" /\ round'[p] = round[p] /\ props' = props
      BY <1>0, <2>3 DEF ElectAndVote, Goto, TypeOK
    <3>2. /\ AllSent(round[p], Propose)
          /\ got'[p] = {m \in props : m.r = round[p]}
      BY <1>0, <2>3, ElectFacts DEF TypeOK
    <3>3. PICK r \in Int : r = round[p]
      BY <1>0, RoundAndStage
    <3>4. AllSent(r, Propose)'
      BY <1>0, <3>2, <3>3, PropsFrozen
    <3>5. AllSent(round[p], Propose)'
      BY <3>1, <3>3, <3>4 DEF AllSent, Reached
    <3> QED
      BY <1>4, <3>1, <3>2, <3>5 DEF LocalsOf
  <2>4. CASE CountVotes(p)
    <3>1. /\ pc[p] = "vote" /\ pc'[p] = "pc" /\ round'[p] = round[p]
          /\ got'[p] = got[p]
      BY <1>0, <2>4 DEF CountVotes, Goto, TypeOK
    <3>2. AllSent(round[p], Propose)' /\ got'[p] = {m \in props' : m.r = round'[p]}
      BY <1>2, <1>4, <3>1, LocalsKept
    <3> QED
      BY <1>4, <3>1, <3>2 DEF LocalsOf
  <2>5. CASE CountPrecommits(p)
    <3>1. /\ pc[p] = "pc" /\ pc'[p] = "commit" /\ round'[p] = round[p]
          /\ got'[p] = got[p]
      BY <1>0, <2>5 DEF CountPrecommits, Goto, TypeOK
    <3>2. AllSent(round[p], Propose)' /\ got'[p] = {m \in props' : m.r = round'[p]}
      BY <1>2, <1>4, <3>1, LocalsKept
    <3>3. \E c \in precommits : c.r = round[p] /\ pchB'[p] = c.hB /\ chB'[p] = c.hB
      BY <1>0, <2>5, CountPrecommitsFacts, ZenonT(60) DEF TypeOK
    <3> QED
      BY <1>0, <1>4, <3>1, <3>2, <3>3 DEF LocalsOf
  <2>6. CASE FinishFirstRound(p) \/ FinishRound(p)
    <3>1. pc'[p] \in {"done", "idle"}
      BY <1>0, <2>6, FinishFacts
    <3> QED
      BY <1>4, <3>1 DEF LocalsOf
  <2> QED
    BY <2>1, <2>2, <2>3, <2>4, <2>5, <2>6, StepsLeft
<1> QED
  BY <1>3, <1>4

\* The end of a round leaves grade 2 on the committed block of that round.
LEMMA GradedStep ==
  ASSUME Favourable, IInv, SyncInv, NEW p \in Nodes, Step(p) \/ Crash(p)
  PROVE  Graded'
<1>0. TypeOK /\ Graded /\ commits \subseteq commits'
  BY PoolsGrow DEF IInv, SyncInv
<1>1. CASE FinishFirstRound(p) \/ FinishRound(p)
  <2>1. JudgeCommits(p) /\ round'[p] = round[p] + 1
    BY <1>0, <1>1, FinishFacts
  <2>2. PICK c \in commits :
          /\ c.r = round[p] /\ c.hB = chB[p]
          /\ state' = [state EXCEPT ![p] = [b |-> c.hB, r |-> round[p], g |-> 2]]
    BY <2>1, JudgeFacts
  <2>3. \A q \in Nodes \ {p} : round'[q] = round[q] /\ state'[q] = state[q]
    BY <1>0, <2>2, Forward
  <2>4. /\ state'[p].g = 2 /\ state'[p].r = round'[p] - 1 /\ round'[p] # 1
        /\ c.r = state'[p].r /\ c.hB = state'[p].b
    <3>1. state'[p] = [b |-> c.hB, r |-> round[p], g |-> 2]
      BY <1>0, <2>2 DEF TypeOK
    <3>2. round[p] \in Nat /\ round[p] # 0
      BY <1>0, NumbersAssumption DEF TypeOK
    <3> QED
      BY <2>1, <2>2, <3>1, <3>2
  <2> QED
    BY <1>0, <2>3, <2>4 DEF Graded
<1>2. CASE ~FinishFirstRound(p) /\ ~FinishRound(p)
  <2>1. state' = state /\ round' = round
    BY <1>2, StepsLeft DEF ProposeBlock, SitOut, ElectAndVote, CountVotes,
       CountPrecommits, Crash, nodeVars
  <2> QED
    BY <1>0, <2>1 DEF Graded
<1> QED
  BY <1>1, <1>2

\* The invariant holds before the first round.
LEMMA SyncInit == Favourable /\ Init => SyncInv
<1> SUFFICES ASSUME Favourable, Init PROVE SyncInv
  OBVIOUS
<1>1. FewCrashed
  <2>1. {p \in Nodes : pc[p] = "crashed"} = {}
    BY DEF Init
  <2>2. Cardinality({p \in Nodes : pc[p] = "crashed"}) = 0
    BY <2>1, FS_EmptySet
  <2>3. \A p \in Nodes : pc[p] # "starved"
    BY DEF Init
  <2> QED
    BY <2>2, <2>3, NumbersAssumption DEF FewCrashed
<1>2. \A q \in Nodes, r \in Rounds, k \in 1..4 : ~Reached(q, r, k)
  BY NumbersAssumption DEF Init, Reached, StageOf, Rounds
<1>3. EachSent
  BY <1>2 DEF EachSent, SentBy, Propose, Vote, Precommit, Commit
<1>4. Funded
  <2>1. Slots - 1 + 1 = Slots
    BY NumbersAssumption
  <2> QED
    BY <2>1 DEF Init, Funded, Live, Favourable, WellProvisioned
<1> QED
  BY <1>1, <1>3, <1>4 DEF Init, SyncInv, PropsInv, OneLeader, PrecommitsFollow,
     CommitsFollow, Locals, Graded, Live

\* Every step keeps it, whoever is killed.
LEMMA SyncStep == Favourable /\ IInv /\ SyncInv /\ [Next]_vars => SyncInv'
<1> SUFFICES ASSUME Favourable, IInv, SyncInv, [Next]_vars PROVE SyncInv'
  OBVIOUS
<1>1. ASSUME NEW p \in Nodes, Step(p) \/ Crash(p) PROVE SyncInv'
  <2>1. IInv'
    BY InvStep
  <2> QED
    BY <1>1, <2>1, FewCrashedStep, EachSentStep, FundedStep, PropsStep, OneLeaderStep,
       FollowStep, LocalsStep, GradedStep DEF SyncInv
<1>2. CASE UNCHANGED vars
  <2> USE <1>2 DEF vars, nodeVars, roundVars, msgs, SyncInv
  <2>1. FewCrashed'
    BY DEF FewCrashed
  <2>2. EachSent'
    BY DEF EachSent, SentBy, Reached
  <2>3. Funded'
    BY DEF Funded, Live
  <2>4. PropsInv' /\ PrecommitsFollow' /\ CommitsFollow'
    BY DEF PropsInv, PrecommitsFollow, CommitsFollow
  <2>5. OneLeader'
    BY DEF OneLeader, AllSent, Reached, Live
  <2>6. Locals'
    BY DEF Locals, AllSent, Reached, Live
  <2>7. Graded'
    BY DEF Graded
  <2> QED
    BY <2>1, <2>2, <2>3, <2>4, <2>5, <2>6, <2>7
<1> QED
  BY <1>1, <1>2 DEF Next, Terminating

\* A synchronous, well provisioned run without losses or ties gives every node
\* grade 2 of every round it ends, on one block, and nobody dies unless killed.
THEOREM SyncAgreement == Spec => []SynchronousAgreement
<1>1. CASE Favourable
  <2>1. IInv /\ SyncInv => SynchronousAgreement
    <3> SUFFICES ASSUME IInv, SyncInv
                 PROVE  /\ \A p \in Nodes :
                             round[p] > 1 => state[p].g = 2 /\ state[p].r = round[p] - 1
                        /\ \A p, q \in Nodes :
                             round[p] = round[q] => state[p].b = state[q].b
                        /\ Cardinality({p \in Nodes : pc[p] = "crashed"}) <= MaxCrash
      BY DEF SynchronousAgreement
    <3>1. \A p \in Nodes : round[p] > 1 => state[p].g = 2 /\ state[p].r = round[p] - 1
      BY DEF SyncInv, Graded
    <3>2. ASSUME NEW p \in Nodes, NEW q \in Nodes, round[p] = round[q]
          PROVE  state[p].b = state[q].b
      <4>1. CASE round[p] = 1
        BY <3>2, <4>1 DEF SyncInv, Graded
      <4>2. CASE round[p] # 1
        <5>1. PICK c \in commits : c.r = state[p].r /\ c.hB = state[p].b
          BY <4>2 DEF SyncInv, Graded
        <5>2. PICK d \in commits : d.r = state[q].r /\ d.hB = state[q].b
          BY <3>2, <4>2 DEF SyncInv, Graded
        <5>3. state[p].r = state[q].r
          BY <3>2, <4>2 DEF SyncInv, Graded
        <5> QED
          BY <1>1, <5>1, <5>2, <5>3, SameCommit DEF IInv, Favourable
      <4> QED
        BY <4>1, <4>2
    <3>3. Cardinality({p \in Nodes : pc[p] = "crashed"}) <= MaxCrash
      BY DEF SyncInv, FewCrashed
    <3> QED
      BY <3>1, <3>2, <3>3
  <2>2. Init => SyncInv
    BY <1>1, SyncInit
  <2>3. IInv /\ SyncInv /\ [Next]_vars => SyncInv'
    BY <1>1, SyncStep
  <2> QED
    BY <2>1, <2>2, <2>3, InvHolds, PTL DEF Spec
<1>2. CASE ~Favourable
  <2>1. SynchronousAgreement
    BY <1>2 DEF Favourable, SynchronousAgreement
  <2> QED
    BY <2>1, PTL
<1> QED
  BY <1>1, <1>2

-----------------------------------------------------------------------------
(***************************************************************************)
(* FastConfirmQueues: the queues, drained a message at a time, implement    *)
(* the rounds of FastConfirm, and no message is filed or counted twice.     *)
(***************************************************************************)

-----------------------------------------------------------------------------
(* Queues as sequences *)

Elems(s) == {s[i] : i \in DOMAIN s}
NoRepeat(s) == \A i, j \in DOMAIN s : i # j => s[i] # s[j]

\* put(m)
LEMMA AppendFacts ==
  ASSUME NEW S, NEW s \in Seq(S), NEW m \in S
  PROVE  /\ Append(s, m) \in Seq(S)
         /\ Elems(Append(s, m)) = Elems(s) \cup {m}
         /\ NoRepeat(s) /\ m \notin Elems(s) => NoRepeat(Append(s, m))
<1>1. /\ Append(s, m) \in Seq(S) /\ Len(s) \in Nat
      /\ DOMAIN s = 1..Len(s) /\ DOMAIN Append(s, m) = 1..Len(s) + 1
      /\ \A i \in 1..Len(s) : Append(s, m)[i] = s[i]
      /\ Append(s, m)[Len(s) + 1] = m
  BY AppendProperties, LenProperties
<1>2. 1..Len(s) + 1 = 1..Len(s) \cup {Len(s) + 1}
  BY <1>1
<1>3. Elems(Append(s, m)) = Elems(s) \cup {m}
  BY <1>1, <1>2 DEF Elems
<1>4. ASSUME NoRepeat(s), m \notin Elems(s) PROVE NoRepeat(Append(s, m))
  BY <1>1, <1>2, <1>4 DEF NoRepeat, Elems
<1> QED
  BY <1>1, <1>3, <1>4

\* get()
LEMMA TailFacts ==
  ASSUME NEW S, NEW s \in Seq(S), s # <<>>
  PROVE  /\ Tail(s) \in Seq(S) /\ Head(s) \in Elems(s)
         /\ Elems(Tail(s)) \subseteq Elems(s)
         /\ NoRepeat(s) => NoRepeat(Tail(s)) /\ Head(s) \notin Elems(Tail(s))
<1>1. /\ Tail(s) \in Seq(S) /\ Len(s) \in Nat /\ Len(s) > 0 /\ Len(Tail(s)) = Len(s) - 1
      /\ DOMAIN s = 1..Len(s) /\ DOMAIN Tail(s) = 1..Len(Tail(s))
      /\ Head(s) = s[1]
  BY HeadTailProperties, LenProperties, EmptySeq
<1>2. \A i \in DOMAIN Tail(s) : i + 1 \in DOMAIN s /\ i + 1 # 1 /\ Tail(s)[i] = s[i + 1]
  BY <1>1, HeadTailProperties
<1>3. Head(s) \in Elems(s) /\ Elems(Tail(s)) \subseteq Elems(s)
  <2>1. 1 \in DOMAIN s
    BY <1>1
  <2> QED
    BY <1>1, <1>2, <2>1 DEF Elems
<1>4. ASSUME NoRepeat(s) PROVE NoRepeat(Tail(s)) /\ Head(s) \notin Elems(Tail(s))
  <2>1. \A i, j \in DOMAIN Tail(s) : i # j => i + 1 # j + 1
    BY <1>1
  <2>2. NoRepeat(Tail(s))
    BY <1>2, <1>4, <2>1 DEF NoRepeat
  <2>3. 1 \in DOMAIN s
    BY <1>1
  <2>4. \A i \in DOMAIN Tail(s) : Tail(s)[i] # Head(s)
    BY <1>1, <1>2, <1>4, <2>3 DEF NoRepeat
  <2> QED
    BY <2>2, <2>4 DEF Elems
<1> QED
  BY <1>1, <1>3, <1>4

-----------------------------------------------------------------------------
(* The invariant *)

AllMsgs == ProposalMsgs \cup VoteMsgs \cup PrecommitMsgs \cup CommitMsgs
Hashes == Blocks \cup {None, NoHash, NoQuorum}

\* The messages sent with a tag.
Pool(t) == CASE t = "F_BP" -> props [] t = "F_VOTE" -> votes
             [] t = "F_PC" -> precommits [] t = "F_COMMIT" -> commits

QTypes ==
  /\ net \subseteq [to : Nodes, tag : Tags, m : AllMsgs]
  /\ box \in [Nodes -> [Tags -> [Rounds -> Seq(AllMsgs)]]]
  /\ seen \in [Nodes -> SUBSET AllMsgs]
  /\ leader \in [Nodes -> ProposalMsgs \cup {None}]
  /\ B \in [Nodes -> AllMsgs \cup {None}]
  /\ hit \in [Nodes -> Hashes] /\ pcNow \in [Nodes -> Hashes]

\* What is under way or filed was sent, with its tag, and is filed under its round.
NetSent == \A e \in net : e.m \in Pool(e.tag)
BoxSent ==
  \A p \in Nodes, t \in Tags, r \in Rounds :
    \A m \in Elems(box[p][t][r]) : m \in Pool(t) /\ m.r = r

OfThisRound(p, M) == {m \in M : m.r = round[p]}
Draining(p) == pc[p] \notin Stopped \cup {"idle"}
Candidates(p, w) == {m \in w : Electable(p, m) /\ Rank(m) > 0}
LastHit(h, M, none) == IF OverThreshold(M) = {} THEN h = none ELSE h \in OverThreshold(M)

\* What the running drain of p has computed from the messages it has seen, in
\* terms of what FastConfirm chooses from them at the end of the drain.
DrainOf(p) ==
  /\ pc[p] = "idle" => seen[p] = {} /\ leader[p] = None /\ hit[p] = NoHash
  /\ pc[p] = "bp" =>
       /\ seen[p] \subseteq OfThisRound(p, props) /\ hit[p] = NoHash
       /\ IF leader[p] = None THEN Candidates(p, seen[p]) = {}
          ELSE leader[p] \in Leaders(p, seen[p])
       /\ seen[p] # {} => B[p] \in seen[p]
  /\ pc[p] \in {"vote", "pc", "commit"} => leader[p] = None /\ B[p] \in got[p]
  /\ pc[p] = "vote" =>
       seen[p] \subseteq OfThisRound(p, votes) /\ LastHit(hit[p], seen[p], NoHash)
  /\ pc[p] = "pc" =>
       /\ seen[p] \subseteq {m \in OfThisRound(p, precommits) : Enough(m.len)}
       /\ LastHit(hit[p], seen[p], NoHash)
       /\ pcNow[p] \in OverThreshold(seen[p]) => hit[p] = pcNow[p]
       /\ \/ seen[p] = {} /\ pcNow[p] = pchB[p]
          \/ \E m \in OfThisRound(p, precommits) :
               m.hB = pcNow[p] /\ (m \in seen[p] \/ ~Enough(m.len))
  /\ pc[p] = "commit" =>
       /\ seen[p] \subseteq {m \in OfThisRound(p, commits) : Verifies(m)}
       /\ LastHit(hit[p], seen[p], NoQuorum)

DrainInv == \A p \in Nodes : DrainOf(p)

\* A precommit for a block carries enough votes to be counted.
PrecommitsFull == \A m \in precommits : m.hB # None => Enough(m.len)

\* A message for p is at most once under way, filed or counted.
Flying(p, t, m) == [to |-> p, tag |-> t, m |-> m] \in net
Once ==
  \A p \in Nodes, t \in Tags :
    /\ \A r \in Rounds :
         NoRepeat(box[p][t][r]) /\ \A m \in Elems(box[p][t][r]) : ~Flying(p, t, m)
    /\ Draining(p) /\ TagAt(pc[p]) = t =>
         \A m \in seen[p] : /\ ~Flying(p, t, m)
                            /\ \A r \in Rounds : m \notin Elems(box[p][t][r])

QInv == QTypes /\ NetSent /\ BoxSent /\ DrainInv /\ PrecommitsFull /\ Once

\* FastConfirm as the module of queues implements it: nothing is known of the
\* network, and a drain may miss every message.
Unbounded == ~Synchronous /\ Cardinality(Nodes) <= MaxMiss

-----------------------------------------------------------------------------
(* What the drained messages may be *)

\* Any part of the messages of the round is one a drain may yield: there are
\* no more of them than nodes.
LEMMA AnyDrain ==
  ASSUME Unbounded, NEW p, NEW M, IsFiniteSet(M), Unique(M), \A m \in M : m.from \in Nodes,
         NEW w \in SUBSET OfThisRound(p, M)
  PROVE  w \in Drains(p, M)
<1> DEFINE sent == {m \in M : m.r = round[p]}
           sender == [m \in sent |-> m.from]
<1>1. IsFiniteSet(sent) /\ IsFiniteSet(sent \ w) /\ w \in SUBSET sent
  BY FS_Subset DEF OfThisRound
<1>2. sender \in Injection(sent, Nodes)
  <2>1. sender \in [sent -> Nodes]
    OBVIOUS
  <2>2. \A m, n \in sent : sender[m] = sender[n] => m = n
    BY DEF Unique
  <2> HIDE DEF sender
  <2> QED
    BY <2>1, <2>2 DEF Injection, IsInjective
<1>3. Cardinality(sent) <= Cardinality(Nodes)
  <2> HIDE DEF sender, sent
  <2> QED
    BY <1>2, NodesAssumption, FS_Injection
<1>4. Cardinality(sent \ w) <= Cardinality(sent)
  BY <1>1, FS_Subset
<1>5. /\ Cardinality(sent) \in Nat /\ Cardinality(sent \ w) \in Nat
      /\ Cardinality(Nodes) \in Nat
  BY <1>1, NodesAssumption, FS_CardinalityType
<1>6. Cardinality(sent \ w) <= MaxMiss
  <2> HIDE DEF sent
  <2> QED
    BY <1>3, <1>4, <1>5, NumbersAssumption DEF Unbounded
<1> QED
  BY <1>1, <1>6 DEF Drains

\* Counting one more message puts no hash over the threshold but its own.
LEMMA CountOneMore ==
  ASSUME NEW M, IsFiniteSet(M), NEW w \in SUBSET M, NEW m \in M
  PROVE  OverThreshold(w \cup {m}) =
           OverThreshold(w) \cup (IF Enough(Count(m.hB, w \cup {m})) THEN {m.hB} ELSE {})
<1> DEFINE v == w \cup {m}
<1>1. v \in SUBSET M
  OBVIOUS
<1>2. \A h : Count(h, w) \in Nat /\ Count(h, v) \in Nat /\ Count(h, w) <= Count(h, v)
  <2> SUFFICES ASSUME NEW h
               PROVE Count(h, w) \in Nat /\ Count(h, v) \in Nat /\ Count(h, w) <= Count(h, v)
    OBVIOUS
  <2>1. Count(h, w) \in Nat /\ Count(h, v) \in Nat
    BY <1>1, CountIsNat
  <2>2. {n \in w : n.hB = h} \subseteq {n \in v : n.hB = h}
    OBVIOUS
  <2>3. IsFiniteSet({n \in v : n.hB = h})
    BY <1>1, FS_Subset
  <2>4. Count(h, w) <= Count(h, v)
    BY <2>2, <2>3, FS_Subset DEF Count
  <2> QED
    BY <2>1, <2>4
<1>3. \A h : h # m.hB => Count(h, v) = Count(h, w)
  <2> SUFFICES ASSUME NEW h, h # m.hB PROVE Count(h, v) = Count(h, w)
    OBVIOUS
  <2>1. {n \in v : n.hB = h} = {n \in w : n.hB = h}
    OBVIOUS
  <2> QED
    BY <2>1 DEF Count
<1>4. \A h : Enough(Count(h, w)) => Enough(Count(h, v))
  BY <1>2, EnoughFacts
<1>5. ASSUME NEW h \in OverThreshold(v)
      PROVE  h \in OverThreshold(w) \/ (h = m.hB /\ Enough(Count(m.hB, v)))
  <2>1. Enough(Count(h, v)) /\ \E n \in v : h = n.hB
    BY DEF OverThreshold
  <2>2. CASE h # m.hB
    BY <1>3, <2>1, <2>2 DEF OverThreshold
  <2> QED
    BY <2>1, <2>2
<1>6. ASSUME NEW h \in OverThreshold(w) PROVE h \in OverThreshold(v)
  BY <1>4 DEF OverThreshold
<1>7. Enough(Count(m.hB, v)) => m.hB \in OverThreshold(v)
  BY DEF OverThreshold
<1> HIDE DEF v
<1>8. OverThreshold(v) =
        OverThreshold(w) \cup (IF Enough(Count(m.hB, v)) THEN {m.hB} ELSE {})
  BY <1>5, <1>6, <1>7
<1> QED
  BY <1>8 DEF v

\* hit stays the last hash that came over the threshold.
LEMMA HitKept ==
  ASSUME NEW M, IsFiniteSet(M), NEW w \in SUBSET M, NEW m \in M, NEW h, NEW none,
         LastHit(h, w, none), NEW p
  PROVE  LastHit(IF Quorum(p, m.hB, w \cup {m}) THEN m.hB ELSE h, w \cup {m}, none)
<1>1. OverThreshold(w \cup {m}) =
        OverThreshold(w) \cup (IF Quorum(p, m.hB, w \cup {m}) THEN {m.hB} ELSE {})
  BY CountOneMore DEF Quorum
<1> QED
  BY <1>1 DEF LastHit

-----------------------------------------------------------------------------
(* Every step is a step of FastConfirm, or changes nothing of it *)

\* The messages of each step have senders among the nodes, one for each.
LEMMA PoolFacts ==
  ASSUME IInv
  PROVE  /\ \A M \in {props, votes, precommits, commits} :
              IsFiniteSet(M) /\ Unique(M) /\ \A m \in M : m.from \in Nodes
         /\ TypeOK
<1>1. TypeOK
  BY DEF IInv
<1>2. /\ IsFiniteSet(props) /\ IsFiniteSet(votes)
      /\ IsFiniteSet(precommits) /\ IsFiniteSet(commits)
  BY DEF IInv, PoolsFinite
<1>3. Unique(props) /\ Unique(votes) /\ Unique(precommits) /\ Unique(commits)
  BY DEF IInv, SendInv
<1>4. \A m \in props : m.from \in Nodes
  BY <1>1 DEF TypeOK, ProposalMsgs
<1>5. \A m \in votes : m.from \in Nodes
  BY <1>1 DEF TypeOK, VoteMsgs
<1>6. \A m \in precommits : m.from \in Nodes
  BY <1>1 DEF TypeOK, PrecommitMsgs
<1>7. \A m \in commits : m.from \in Nodes
  BY <1>1 DEF TypeOK, CommitMsgs
<1> QED
  BY <1>1, <1>2, <1>3, <1>4, <1>5, <1>6, <1>7

\* The leader kept while proposals are drained is one FastConfirm may choose.
LEMMA VoteMaps ==
  ASSUME IInv, QInv, Unbounded, NEW p \in Nodes, VoteForLeader(p)
  PROVE  ElectAndVote(p)
<1>1. pc[p] = "bp" /\ leader[p] # None
  BY DEF VoteForLeader, Drained
<1>2. seen[p] \subseteq OfThisRound(p, props) /\ leader[p] \in Leaders(p, seen[p])
  BY <1>1 DEF QInv, DrainInv, DrainOf
<1>3. seen[p] \in Drains(p, props)
  BY <1>2, PoolFacts, AnyDrain
<1> QED
  BY <1>1, <1>2, <1>3 DEF VoteForLeader, ElectAndVote, TimeUp, Unbounded

\* Without a leader there was none to choose.
LEMMA NoLeaderMaps ==
  ASSUME IInv, QInv, Unbounded, NEW p \in Nodes, DieWithoutLeader(p)
  PROVE  NoLeader(p)
<1>1. pc[p] = "bp" /\ leader[p] = None
  BY DEF DieWithoutLeader, Drained
<1>2. seen[p] \subseteq OfThisRound(p, props) /\ Candidates(p, seen[p]) = {}
  BY <1>1 DEF QInv, DrainInv, DrainOf
<1>3. seen[p] \in Drains(p, props)
  BY <1>2, PoolFacts, AnyDrain
<1>4. \A m \in seen[p] : m # None
  BY <1>2, LeaderAssumption, PoolFacts DEF OfThisRound, TypeOK
<1>5. Leaders(p, seen[p]) = {}
  BY <1>2, <1>4 DEF Candidates, Leaders, Rank
<1> QED
  BY <1>1, <1>3, <1>5 DEF DieWithoutLeader, NoLeader, TimeUp, Unbounded

\* The hash kept while votes are drained is one FastConfirm may choose.
LEMMA PrecommitMaps ==
  ASSUME IInv, QInv, Unbounded, NEW p \in Nodes, SendPrecommit(p)
  PROVE  CountVotes(p)
<1>1. pc[p] = "vote"
  BY DEF SendPrecommit, Drained
<1>2. /\ seen[p] \subseteq OfThisRound(p, votes)
      /\ hit[p] \in (IF OverThreshold(seen[p]) = {} THEN {NoHash}
                     ELSE OverThreshold(seen[p]))
  BY <1>1 DEF QInv, DrainInv, DrainOf, LastHit
<1>3. seen[p] \in Drains(p, votes)
  BY <1>2, PoolFacts, AnyDrain
<1> QED
  BY <1>1, <1>2, <1>3 DEF SendPrecommit, CountVotes, TimeUp, Unbounded

\* A hash over the threshold of the counted precommits is a block.
LEMMA CountedIsBlock ==
  ASSUME TypeOK, NEW w \in SUBSET precommits, \A m \in w : Enough(m.len)
  PROVE  OverThreshold(w) \subseteq Blocks
<1> SUFFICES ASSUME NEW h \in OverThreshold(w) PROVE h \in Blocks
  OBVIOUS
<1>1. PICK m \in w : h = m.hB
  BY OverThresholdOfMembers
<1>2. m \in PrecommitMsgs /\ m.len # 0
  BY EnoughFacts DEF TypeOK
<1> QED
  BY <1>1, <1>2 DEF PrecommitMsgs

\* The precommit drained last, counted or not, and the hash kept are what
\* FastConfirm may choose from what was drained.
LEMMA CommitMaps ==
  ASSUME IInv, QInv, Unbounded, NEW p \in Nodes, SendCommit(p)
  PROVE  CountPrecommits(p)
<1>0. TypeOK
  BY PoolFacts
<1>1. pc[p] = "pc"
  BY DEF SendCommit, Drained
<1>2. /\ seen[p] \subseteq {m \in OfThisRound(p, precommits) : Enough(m.len)}
      /\ LastHit(hit[p], seen[p], NoHash)
      /\ pcNow[p] \in OverThreshold(seen[p]) => hit[p] = pcNow[p]
  BY <1>1 DEF QInv, DrainInv, DrainOf
<1>3. PICK w \in SUBSET OfThisRound(p, precommits) :
        /\ {m \in w : Enough(m.len)} = seen[p]
        /\ pcNow[p] \in (IF w = {} THEN {pchB[p]} ELSE {m.hB : m \in w})
  <2>1. CASE seen[p] = {} /\ pcNow[p] = pchB[p]
    <3>1. {m \in {} : Enough(m.len)} = seen[p] /\ pcNow[p] \in {pchB[p]}
      BY <2>1
    <3> QED
      BY <3>1
  <2>2. CASE \E m \in OfThisRound(p, precommits) :
               m.hB = pcNow[p] /\ (m \in seen[p] \/ ~Enough(m.len))
    <3>1. PICK m \in OfThisRound(p, precommits) :
            m.hB = pcNow[p] /\ (m \in seen[p] \/ ~Enough(m.len))
      BY <2>2
    <3> DEFINE w == seen[p] \cup {m}
    <3>2. w \in SUBSET OfThisRound(p, precommits)
      BY <1>2, <3>1
    <3>3. {n \in w : Enough(n.len)} = seen[p]
      BY <1>2, <3>1
    <3>4. pcNow[p] \in {n.hB : n \in w} /\ w # {}
      BY <3>1
    <3> HIDE DEF w
    <3> QED
      BY <3>2, <3>3, <3>4
  <2> QED
    BY <1>1, <2>1, <2>2 DEF QInv, DrainInv, DrainOf
<1>4. w \in Drains(p, precommits)
  BY <1>3, PoolFacts, AnyDrain
<1> DEFINE over == OverThreshold(seen[p])
<1>5. hit[p] \in (IF over = {} THEN {NoHash}
                  ELSE IF w # {} /\ pcNow[p] \in over THEN {pcNow[p]} ELSE over)
  BY <1>2 DEF LastHit
<1> HIDE DEF over
<1>6. /\ over = OverThreshold({m \in w : Enough(m.len)})
      /\ HasKey(round[p], Commit) /\ Goto(p, "commit") /\ TimeUp(p)
      /\ pchB' = [pchB EXCEPT ![p] = pcNow[p]]
      /\ chB' = [chB EXCEPT ![p] = hit[p]]
      /\ commits' = commits \cup CommitOf(p, hit[p])
      /\ UNCHANGED <<round, nodeVars, txbuf, got, voteTag, props, votes, precommits>>
  BY <1>3 DEF over, SendCommit, TimeUp, Unbounded
<1> QED
  BY <1>1, <1>3, <1>4, <1>5, <1>6 DEF CountPrecommits

\* The end of the commit window grades as FastConfirm may.
LEMMA JudgeMaps ==
  ASSUME IInv, QInv, Unbounded, NEW p \in Nodes, EndRound(p)
  PROVE  JudgeCommits(p) /\ B[p] \in got[p]
<1>1. pc[p] = "commit" /\ state' = [state EXCEPT ![p] = Grade(p, hit[p])]
  BY DEF EndRound
<1>2. /\ seen[p] \subseteq OfThisRound(p, commits) /\ {m \in seen[p] : Verifies(m)} = seen[p]
      /\ LastHit(hit[p], seen[p], NoQuorum) /\ B[p] \in got[p]
  BY <1>1 DEF QInv, DrainInv, DrainOf
<1>3. seen[p] \in Drains(p, commits)
  BY <1>2, PoolFacts, AnyDrain
<1>4. hit[p] \in Certified(seen[p])
  BY <1>2 DEF Certified, LastHit
<1> QED
  BY <1>1, <1>2, <1>3, <1>4 DEF JudgeCommits, TimeUp, Unbounded

\* The end of a round is one of FastConfirm's.
LEMMA EndMaps ==
  ASSUME IInv, QInv, Unbounded, NEW p \in Nodes, EndRound(p)
  PROVE  FinishFirstRound(p) \/ UnknownBlock(p) \/ FinishRound(p)
<1>1. JudgeCommits(p) /\ B[p] \in got[p]
  BY JudgeMaps
<1>2. round[p] \in Nat /\ round[p] >= 1 /\ voteTag[p] \in {0, 1}
  BY NumbersAssumption DEF IInv, TypeOK
<1>3. CASE round[p] > 1
  <2>1. FinishRound(p)
    BY <1>1, <1>3 DEF EndRound, FinishRound
  <2> QED
    BY <2>1
<1>4. CASE ~(round[p] > 1)
  <2>1. round[p] = 1
    BY <1>2, <1>4
  <2>2. CASE voteTag[p] = 0
    <3>1. FinishFirstRound(p)
      BY <1>1, <1>4, <2>1, <2>2 DEF EndRound, FinishFirstRound
    <3> QED
      BY <3>1
  <2>3. CASE voteTag[p] = 1 /\ pchB[p] \in {HashOf(m) : m \in got[p]}
    <3>1. FinishFirstRound(p)
      BY <1>1, <1>4, <2>1, <2>3 DEF EndRound, FinishFirstRound
    <3> QED
      BY <3>1
  <2>4. CASE voteTag[p] = 1 /\ pchB[p] \notin {HashOf(m) : m \in got[p]}
    <3>1. UnknownBlock(p)
      BY <1>1, <1>4, <2>1, <2>4 DEF EndRound, UnknownBlock
    <3> QED
      BY <3>1
  <2> QED
    BY <1>2, <2>2, <2>3, <2>4
<1> QED
  BY <1>3, <1>4

\* Taking a message is a step of p's queues alone.
Take(p) == TakeProposal(p) \/ TakeVote(p) \/ TakePrecommit(p) \/ TakeCommit(p)

\* A step that sends or moves on: it is p's step of FastConfirm.
Turn(p) ==
  \/ EnterRound(p) \/ VoteForLeader(p) \/ DieWithoutLeader(p) \/ SendPrecommit(p)
  \/ SendCommit(p) \/ EndRound(p) \/ DieWithoutKey(p) \/ QCrash(p)

LEMMA TurnMaps ==
  ASSUME IInv, QInv, Unbounded, NEW p \in Nodes, Turn(p)
  PROVE  Step(p) \/ Crash(p)
<1>1. CASE EnterRound(p)
  BY <1>1 DEF EnterRound, Step
<1>2. CASE DieWithoutKey(p) \/ QCrash(p)
  BY <1>2 DEF DieWithoutKey, QCrash, Step
<1>3. CASE VoteForLeader(p) \/ DieWithoutLeader(p)
  BY <1>3, VoteMaps, NoLeaderMaps DEF Step
<1>4. CASE SendPrecommit(p) \/ SendCommit(p)
  BY <1>4, PrecommitMaps, CommitMaps DEF Step
<1>5. CASE EndRound(p)
  BY <1>5, EndMaps DEF Step
<1> QED
  BY <1>1, <1>2, <1>3, <1>4, <1>5 DEF Turn

LEMMA TakeMaps ==
  ASSUME NEW p \in Nodes, Take(p) PROVE UNCHANGED vars
  BY DEF Take, TakeProposal, TakeVote, TakePrecommit, TakeCommit

\* The steps of the queues.
LEMMA QSteps ==
  ASSUME [QNext]_qvars
  PROVE  \/ \E p \in Nodes : Turn(p) \/ Take(p)
         \/ \E e \in net : Receive(e)
         \/ UNCHANGED qvars
  BY DEF QNext, QStep, Turn, Take

LEMMA StepMaps ==
  ASSUME IInv, QInv, Unbounded, [QNext]_qvars
  PROVE  [Next]_vars
<1>1. CASE \E p \in Nodes : Turn(p)
  BY <1>1, TurnMaps DEF Next
<1>2. CASE \E p \in Nodes : Take(p)
  BY <1>2, TakeMaps
<1>3. CASE \E e \in net : Receive(e)
  BY <1>3 DEF Receive
<1>4. CASE UNCHANGED qvars
  BY <1>4 DEF qvars
<1> QED
  BY <1>1, <1>2, <1>3, <1>4, QSteps

-----------------------------------------------------------------------------
(* What a step does to the queues and to the messages under way *)

BoxType == box \in [Nodes -> [Tags -> [Rounds -> Seq(AllMsgs)]]]

LEMMA Nothing ==
  /\ Elems(<<>>) = {} /\ NoRepeat(<<>>) /\ <<>> \in Seq(AllMsgs)
  /\ OverThreshold({}) = {}
<1>1. DOMAIN <<>> = {}
  BY EmptySeq
<1>2. <<>> \in Seq(AllMsgs)
  BY EmptySeq
<1> QED
  BY <1>1, <1>2 DEF Elems, NoRepeat, OverThreshold

\* A node waits in a step of a round that it runs.
LEMMA Waits ==
  ASSUME TypeOK, NEW p \in Nodes, Draining(p)
  PROVE  /\ TagAt(pc[p]) \in Tags /\ round[p] \in Rounds
         /\ pc[p] \in {"bp", "vote", "pc", "commit"}
<1>1. pc[p] \in {"bp", "vote", "pc", "commit"}
  BY DEF TypeOK, Draining, Stopped
<1>2. round[p] \in Rounds
  BY <1>1, NumbersAssumption DEF TypeOK, Rounds
<1>3. TagAt(pc[p]) \in Tags
  BY <1>1 DEF TagAt, Tags
<1> QED
  BY <1>1, <1>2, <1>3

LEMMA FreshBox ==
  ASSUME BoxType, NEW p \in Nodes, round[p] \in Rounds, FreshQueues(p)
  PROVE  /\ BoxType'
         /\ \A q \in Nodes, t \in Tags, r \in Rounds :
              box'[q][t][r] = IF q = p /\ r = round[p] THEN <<>> ELSE box[q][t][r]
<1> DEFINE new == [t \in Tags |-> [box[p][t] EXCEPT ![round[p]] = <<>>]]
<1>1. box' = [box EXCEPT ![p] = new]
  BY DEF FreshQueues
<1>2. \A t \in Tags : box[p][t] \in [Rounds -> Seq(AllMsgs)]
  BY DEF BoxType
<1>3. new \in [Tags -> [Rounds -> Seq(AllMsgs)]]
  BY <1>2, Nothing
<1>4. \A t \in Tags, r \in Rounds : new[t][r] = IF r = round[p] THEN <<>> ELSE box[p][t][r]
  BY <1>2
<1> HIDE DEF new
<1> QED
  BY <1>1, <1>3, <1>4 DEF BoxType

LEMMA TakenBox ==
  ASSUME TypeOK, BoxType, NEW p \in Nodes, Draining(p), Pop(p), Inbox(p) # <<>>
  PROVE  /\ BoxType'
         /\ \A q \in Nodes, t \in Tags, r \in Rounds :
              box'[q][t][r] = IF q = p /\ t = TagAt(pc[p]) /\ r = round[p]
                              THEN Tail(Inbox(p)) ELSE box[q][t][r]
         /\ Inbox(p) \in Seq(AllMsgs)
<1>1. TagAt(pc[p]) \in Tags /\ round[p] \in Rounds
  BY Waits
<1>2. Inbox(p) \in Seq(AllMsgs) /\ Tail(Inbox(p)) \in Seq(AllMsgs)
  BY <1>1, TailFacts DEF BoxType, Inbox
<1>3. box' = [box EXCEPT ![p][TagAt(pc[p])][round[p]] = Tail(Inbox(p))]
  BY DEF Pop, Inbox
<1> QED
  BY <1>1, <1>2, <1>3 DEF BoxType

LEMMA FiledBox ==
  ASSUME TypeOK, QTypes, NEW e \in net, Receive(e)
  PROVE  /\ BoxType' /\ e.to \in Nodes /\ e.tag \in Tags /\ e.m.r \in Rounds /\ e.m \in AllMsgs
         /\ e = [to |-> e.to, tag |-> e.tag, m |-> e.m]
         /\ \A q \in Nodes, t \in Tags, r \in Rounds :
              box'[q][t][r] = IF q = e.to /\ t = e.tag /\ r = e.m.r
                              THEN Append(box[q][t][r], e.m) ELSE box[q][t][r]
<1>1. /\ e.to \in Nodes /\ e.tag \in Tags /\ e.m \in AllMsgs
      /\ e = [to |-> e.to, tag |-> e.tag, m |-> e.m]
  BY DEF QTypes
<1>2. e.m.r \in Rounds
  BY <1>1 DEF AllMsgs, ProposalMsgs, VoteMsgs, PrecommitMsgs, CommitMsgs
<1>3. box \in [Nodes -> [Tags -> [Rounds -> Seq(AllMsgs)]]]
  BY DEF QTypes
<1>4. Append(box[e.to][e.tag][e.m.r], e.m) \in Seq(AllMsgs)
  BY <1>1, <1>2, <1>3, AppendFacts
<1>5. box' = [box EXCEPT ![e.to][e.tag][e.m.r] = Append(box[e.to][e.tag][e.m.r], e.m)]
  BY DEF Receive
<1> QED
  BY <1>1, <1>2, <1>3, <1>4, <1>5 DEF BoxType

\* A broadcast puts under way what the step sends and was not sent before.
LEMMA Sent ==
  ASSUME Broadcast, NEW e \in net'
  PROVE  \/ e \in net
         \/ /\ e.to \in Nodes /\ e.tag \in Tags
            /\ e.m \in Pool(e.tag)' /\ e.m \notin Pool(e.tag)
            /\ e = [to |-> e.to, tag |-> e.tag, m |-> e.m]
<1> DEFINE new == [F_BP |-> props' \ props, F_VOTE |-> votes' \ votes,
                   F_PC |-> precommits' \ precommits, F_COMMIT |-> commits' \ commits]
<1>1. e \in net \/ \E t \in Tags : e \in [to : Nodes, tag : {t}, m : new[t]]
  BY DEF Broadcast
<1>2. \A t \in Tags : new[t] = Pool(t)' \ Pool(t)
  <2> SUFFICES ASSUME NEW t \in Tags PROVE new[t] = Pool(t)' \ Pool(t)
    OBVIOUS
  <2>1. t = "F_BP" \/ t = "F_VOTE" \/ t = "F_PC" \/ t = "F_COMMIT"
    BY DEF Tags
  <2> QED
    BY <2>1 DEF Pool
<1> HIDE DEF new
<1>3. CASE e \notin net
  <2>1. PICK t \in Tags : e \in [to : Nodes, tag : {t}, m : new[t]]
    BY <1>1, <1>3
  <2>2. e.tag = t /\ e.to \in Nodes /\ e.m \in new[t] /\ e = [to |-> e.to, tag |-> e.tag, m |-> e.m]
    BY <2>1
  <2> QED
    BY <2>2, <1>2
<1> QED
  BY <1>3

-----------------------------------------------------------------------------
(* What the steps keep *)

\* Where p's drain stands.
Local(p) ==
  <<pc[p], round[p], state[p], lastcommit[p], got[p], pchB[p],
    seen[p], leader[p], B[p], hit[p], pcNow[p]>>

PoolsKept ==
  /\ props \subseteq props' /\ votes \subseteq votes'
  /\ precommits \subseteq precommits' /\ commits \subseteq commits'

LEMMA PoolKept ==
  ASSUME PoolsKept, NEW t \in Tags PROVE Pool(t) \subseteq Pool(t)'
<1>1. t = "F_BP" \/ t = "F_VOTE" \/ t = "F_PC" \/ t = "F_COMMIT"
  BY DEF Tags
<1> QED
  BY <1>1 DEF Pool, PoolsKept

\* A message sent is a message of its step.
LEMMA PoolTyped ==
  ASSUME TypeOK, NEW t \in Tags PROVE Pool(t) \subseteq AllMsgs
<1>1. t = "F_BP" \/ t = "F_VOTE" \/ t = "F_PC" \/ t = "F_COMMIT"
  BY DEF Tags
<1> QED
  BY <1>1 DEF Pool, TypeOK, AllMsgs

\* A hash that is counted or looked at is one of the values of hit.
LEMMA HashTyped ==
  ASSUME TypeOK, NEW m \in votes \cup precommits \cup commits PROVE m.hB \in Hashes
<1>1. CASE m \in votes
  BY <1>1 DEF TypeOK, VoteMsgs, Hashes
<1>2. CASE m \in precommits
  BY <1>2 DEF TypeOK, PrecommitMsgs, Hashes
<1>3. CASE m \in commits
  BY <1>3 DEF TypeOK, CommitMsgs, Hashes
<1> QED
  BY <1>1, <1>2, <1>3

\* What was counted was sent.
LEMMA SeenSent ==
  ASSUME TypeOK, NEW p \in Nodes, DrainOf(p), Draining(p)
  PROVE  seen[p] \subseteq Pool(TagAt(pc[p]))
<1>1. pc[p] \in {"bp", "vote", "pc", "commit"}
  BY Waits
<1> QED
  BY <1>1 DEF DrainOf, OfThisRound, Pool, TagAt

\* The drain of a node that does not move stands as it stood.
LEMMA DrainKept ==
  ASSUME PoolsKept, NEW p, DrainOf(p), UNCHANGED Local(p)
  PROVE  DrainOf(p)'
<1> USE DEF DrainOf, Local
<1>1. /\ OfThisRound(p, props) \subseteq OfThisRound(p, props)'
      /\ OfThisRound(p, votes) \subseteq OfThisRound(p, votes)'
      /\ OfThisRound(p, precommits) \subseteq OfThisRound(p, precommits)'
      /\ OfThisRound(p, commits) \subseteq OfThisRound(p, commits)'
  BY DEF OfThisRound, PoolsKept
<1>2. (pc[p] = "idle" => seen[p] = {} /\ leader[p] = None /\ hit[p] = NoHash)'
  OBVIOUS
<1>3. (pc[p] = "bp" =>
         /\ seen[p] \subseteq OfThisRound(p, props) /\ hit[p] = NoHash
         /\ IF leader[p] = None THEN Candidates(p, seen[p]) = {}
            ELSE leader[p] \in Leaders(p, seen[p])
         /\ seen[p] # {} => B[p] \in seen[p])'
  <2> SUFFICES ASSUME pc[p]' = "bp"
               PROVE  (/\ seen[p] \subseteq OfThisRound(p, props) /\ hit[p] = NoHash
                       /\ IF leader[p] = None THEN Candidates(p, seen[p]) = {}
                          ELSE leader[p] \in Leaders(p, seen[p])
                       /\ seen[p] # {} => B[p] \in seen[p])'
    OBVIOUS
  <2>1. /\ seen[p] \subseteq OfThisRound(p, props) /\ hit[p] = NoHash
        /\ IF leader[p] = None THEN Candidates(p, seen[p]) = {}
           ELSE leader[p] \in Leaders(p, seen[p])
        /\ seen[p] # {} => B[p] \in seen[p]
    OBVIOUS
  <2>2. Candidates(p, seen[p])' = Candidates(p, seen[p]) /\ Leaders(p, seen[p])' = Leaders(p, seen[p])
    BY DEF Candidates, Leaders, Electable, Rank
  <2> HIDE DEF DrainOf
  <2> QED
    BY <2>1, <2>2, <1>1
<1>4. (pc[p] \in {"vote", "pc", "commit"} => leader[p] = None /\ B[p] \in got[p])'
  OBVIOUS
<1>5. (pc[p] = "vote" =>
         seen[p] \subseteq OfThisRound(p, votes) /\ LastHit(hit[p], seen[p], NoHash))'
  BY <1>1 DEF LastHit, OverThreshold
<1>6. (pc[p] = "pc" =>
         /\ seen[p] \subseteq {m \in OfThisRound(p, precommits) : Enough(m.len)}
         /\ LastHit(hit[p], seen[p], NoHash)
         /\ pcNow[p] \in OverThreshold(seen[p]) => hit[p] = pcNow[p]
         /\ \/ seen[p] = {} /\ pcNow[p] = pchB[p]
            \/ \E m \in OfThisRound(p, precommits) :
                 m.hB = pcNow[p] /\ (m \in seen[p] \/ ~Enough(m.len)))'
  <2> SUFFICES ASSUME pc[p]' = "pc"
               PROVE  (/\ seen[p] \subseteq {m \in OfThisRound(p, precommits) : Enough(m.len)}
                       /\ LastHit(hit[p], seen[p], NoHash)
                       /\ pcNow[p] \in OverThreshold(seen[p]) => hit[p] = pcNow[p]
                       /\ \/ seen[p] = {} /\ pcNow[p] = pchB[p]
                          \/ \E m \in OfThisRound(p, precommits) :
                               m.hB = pcNow[p] /\ (m \in seen[p] \/ ~Enough(m.len)))'
    OBVIOUS
  <2>1. (seen[p] \subseteq {m \in OfThisRound(p, precommits) : Enough(m.len)})'
    BY <1>1
  <2>2. (LastHit(hit[p], seen[p], NoHash) /\ (pcNow[p] \in OverThreshold(seen[p]) => hit[p] = pcNow[p]))'
    BY DEF LastHit, OverThreshold
  <2>3. (\/ seen[p] = {} /\ pcNow[p] = pchB[p]
         \/ \E m \in OfThisRound(p, precommits) :
              m.hB = pcNow[p] /\ (m \in seen[p] \/ ~Enough(m.len)))'
    BY <1>1
  <2> QED
    BY <2>1, <2>2, <2>3
<1>7. (pc[p] = "commit" =>
         /\ seen[p] \subseteq {m \in OfThisRound(p, commits) : Verifies(m)}
         /\ LastHit(hit[p], seen[p], NoQuorum))'
  BY <1>1 DEF LastHit, OverThreshold
<1> QED
  BY <1>2, <1>3, <1>4, <1>5, <1>6, <1>7

\* A step that sends or moves on is p's own.
LEMMA TurnOthers ==
  ASSUME TypeOK, QTypes, NEW p \in Nodes, Turn(p), NEW q \in Nodes \ {p}
  PROVE  UNCHANGED Local(q)
<1> USE DEF TypeOK, QTypes, Goto, Local
<1>1. CASE EnterRound(p)
  BY <1>1 DEF EnterRound, ProposeBlock, SitOut, Starve, nodeVars, roundVars, drainVars
<1>2. CASE VoteForLeader(p) \/ DieWithoutLeader(p)
  BY <1>2 DEF VoteForLeader, DieWithoutLeader, nodeVars, roundVars, drainVars
<1>3. CASE SendPrecommit(p)
  BY <1>3 DEF SendPrecommit, nodeVars
<1>4. CASE SendCommit(p)
  BY <1>4 DEF SendCommit, nodeVars
<1>5. CASE DieWithoutKey(p) \/ QCrash(p)
  BY <1>5 DEF DieWithoutKey, QCrash, KeysExhausted, Crash, nodeVars, roundVars, drainVars
<1>6. CASE EndRound(p)
  <2>1. /\ UNCHANGED <<state[q], seen[q], leader[q], B[q], hit[q], pcNow[q]>>
    BY <1>6 DEF EndRound
  <2>2. UNCHANGED <<pc[q], round[q], got[q], pchB[q], lastcommit[q]>>
    BY <1>6 DEF EndRound, NextRound, DropLocals, Output, Defer, roundVars
  <2> QED
    BY <2>1, <2>2
<1> QED
  BY <1>1, <1>2, <1>3, <1>4, <1>5, <1>6 DEF Turn

\* It empties the queues of the round, or leaves them; and it broadcasts.
LEMMA TurnBox ==
  ASSUME TypeOK, QTypes, NEW p \in Nodes, Turn(p)
  PROVE  /\ Broadcast /\ BoxType'
         /\ \A q \in Nodes, t \in Tags, r \in Rounds :
              box'[q][t][r] = box[q][t][r] \/ box'[q][t][r] = <<>>
<1>1. CASE EnterRound(p) \/ EndRound(p)
  <2>1. FreshQueues(p) /\ Broadcast
    BY <1>1 DEF EnterRound, EndRound
  <2>2. pc[p] \in {"idle", "commit"}
    BY <1>1 DEF EnterRound, EndRound, ProposeBlock, SitOut, Starve
  <2>3. round[p] \in Rounds
    BY <2>2, NumbersAssumption DEF TypeOK, Rounds
  <2>4. BoxType
    BY DEF QTypes, BoxType
  <2> QED
    BY <2>1, <2>3, <2>4, FreshBox
<1>2. CASE ~(EnterRound(p) \/ EndRound(p))
  <2>1. box' = box /\ Broadcast
    BY <1>2 DEF Turn, VoteForLeader, DieWithoutLeader, SendPrecommit, SendCommit,
                DieWithoutKey, QCrash
  <2> QED
    BY <2>1 DEF QTypes, BoxType
<1> QED
  BY <1>1, <1>2

\* No hash of a precommit that is for a block is short of its votes.
LEMMA TurnPrecommits ==
  ASSUME IInv, QInv, NEW p \in Nodes, Turn(p)
  PROVE  PrecommitsFull'
<1>0. PrecommitsFull /\ TypeOK /\ QTypes
  BY DEF IInv, QInv
<1>1. CASE SendPrecommit(p)
  <2>1. /\ pc[p] = "vote"
        /\ precommits' = precommits \cup PrecommitOf(p, hit[p], seen[p])
    BY <1>1 DEF SendPrecommit, Drained
  <2>2. LastHit(hit[p], seen[p], NoHash)
    BY <2>1 DEF QInv, DrainInv, DrainOf
  <2> SUFFICES ASSUME NEW m \in PrecommitOf(p, hit[p], seen[p]), m.hB # None
               PROVE  Enough(m.len)
    BY <1>0, <2>1 DEF PrecommitsFull
  <2>3. hit[p] # NoHash /\ m.len = Count(hit[p], seen[p])
    BY DEF PrecommitOf
  <2>4. hit[p] \in OverThreshold(seen[p])
    BY <2>2, <2>3 DEF LastHit
  <2> QED
    BY <2>3, <2>4 DEF OverThreshold
<1>2. CASE ~SendPrecommit(p)
  <2>1. CASE EnterRound(p)
    BY <1>0, <2>1 DEF PrecommitsFull, EnterRound, ProposeBlock, SitOut, Starve, msgs
  <2>2. CASE EndRound(p)
    BY <1>0, <2>2 DEF PrecommitsFull, EndRound, NextRound, DropLocals, msgs
  <2>3. CASE ~EnterRound(p) /\ ~EndRound(p)
    BY <1>0, <1>2, <2>3 DEF PrecommitsFull, Turn, VoteForLeader, DieWithoutLeader, SendCommit,
         DieWithoutKey, QCrash, KeysExhausted, Crash, msgs
  <2> QED
    BY <2>1, <2>2, <2>3
<1> QED
  BY <1>1, <1>2

DrainTypes ==
  /\ seen \in [Nodes -> SUBSET AllMsgs]
  /\ leader \in [Nodes -> ProposalMsgs \cup {None}]
  /\ B \in [Nodes -> AllMsgs \cup {None}]
  /\ hit \in [Nodes -> Hashes] /\ pcNow \in [Nodes -> Hashes]

LEMMA TurnTypes ==
  ASSUME TypeOK, QTypes, NEW p \in Nodes, Turn(p)
  PROVE  DrainTypes'
<1>0. DrainTypes /\ hit[p] \in Hashes /\ NoHash \in Hashes /\ NoQuorum \in Hashes
  BY DEF QTypes, DrainTypes, Hashes
<1>1. CASE EndRound(p)
  <2>1. /\ seen' = [seen EXCEPT ![p] = {}] /\ B' = [B EXCEPT ![p] = None]
        /\ hit' = [hit EXCEPT ![p] = NoHash] /\ UNCHANGED <<leader, pcNow>>
    BY <1>1 DEF EndRound
  <2> QED
    BY <2>1, <1>0 DEF DrainTypes
<1>2. CASE VoteForLeader(p)
  BY <1>0, <1>2 DEF VoteForLeader, DrainTypes
<1>3. CASE SendPrecommit(p)
  BY <1>0, <1>3 DEF SendPrecommit, DrainTypes
<1>4. CASE SendCommit(p)
  BY <1>0, <1>4 DEF SendCommit, DrainTypes
<1>5. CASE EnterRound(p) \/ DieWithoutLeader(p) \/ DieWithoutKey(p) \/ QCrash(p)
  BY <1>0, <1>5 DEF EnterRound, DieWithoutLeader, DieWithoutKey, QCrash, DrainTypes, drainVars
<1> QED
  BY <1>1, <1>2, <1>3, <1>4, <1>5 DEF Turn

\* A drain starts with nothing counted, and what p knew when the drain before
\* it ended is what the next one needs.
LEMMA TurnDrain ==
  ASSUME TypeOK, QTypes, NEW p \in Nodes, DrainOf(p), Turn(p)
  PROVE  DrainOf(p)' /\ (Draining(p)' => seen'[p] = {})
<1> USE DEF TypeOK, QTypes, Goto
<1>0. OverThreshold({}) = {} /\ Stopped = {"done", "starved", "crashed"}
  BY Nothing DEF Stopped
<1>1. CASE EnterRound(p)
  <2>1. pc[p] = "idle" /\ pc'[p] \in {"bp", "starved"}
    BY <1>1 DEF EnterRound, ProposeBlock, SitOut, Starve
  <2>2. seen'[p] = {} /\ leader'[p] = None /\ hit'[p] = NoHash
    BY <1>1, <2>1 DEF EnterRound, DrainOf, drainVars
  <2> QED
    BY <2>1, <2>2 DEF DrainOf, Candidates
<1>2. CASE VoteForLeader(p)
  <2>1. /\ pc[p] = "bp" /\ leader[p] # None /\ pc'[p] = "vote"
        /\ seen'[p] = {} /\ leader'[p] = None /\ got'[p] = seen[p]
        /\ B'[p] = B[p] /\ hit'[p] = hit[p]
    BY <1>2 DEF VoteForLeader, Drained
  <2>2. hit[p] = NoHash /\ leader[p] \in Leaders(p, seen[p]) /\ (seen[p] # {} => B[p] \in seen[p])
    BY <2>1 DEF DrainOf
  <2>3. B[p] \in seen[p]
    BY <2>2 DEF Leaders
  <2>4. LastHit(hit'[p], seen'[p], NoHash)
    BY <1>0, <2>1, <2>2 DEF LastHit
  <2>5. LastHit(hit[p], seen[p], NoHash)'
    BY <2>4 DEF LastHit, OverThreshold
  <2> QED
    BY <2>1, <2>2, <2>3, <2>5 DEF DrainOf
<1>3. CASE SendPrecommit(p)
  <2>1. /\ pc[p] = "vote" /\ pc'[p] = "pc" /\ seen'[p] = {} /\ hit'[p] = NoHash
        /\ UNCHANGED <<leader, B, got>> /\ pcNow'[p] = hit[p] /\ pchB'[p] = hit[p]
    BY <1>3 DEF SendPrecommit, Drained
  <2>2. leader[p] = None /\ B[p] \in got[p]
    BY <2>1 DEF DrainOf
  <2>3. LastHit(hit[p], seen[p], NoHash)' /\ (pcNow[p] \notin OverThreshold(seen[p]))'
    BY <1>0, <2>1 DEF LastHit, OverThreshold
  <2> QED
    BY <2>1, <2>2, <2>3 DEF DrainOf
<1>4. CASE SendCommit(p)
  <2>1. /\ pc[p] = "pc" /\ pc'[p] = "commit" /\ seen'[p] = {} /\ hit'[p] = NoQuorum
        /\ UNCHANGED <<leader, B, got>>
    BY <1>4 DEF SendCommit, Drained
  <2>2. leader[p] = None /\ B[p] \in got[p]
    BY <2>1 DEF DrainOf
  <2>3. LastHit(hit[p], seen[p], NoQuorum)'
    BY <1>0, <2>1 DEF LastHit, OverThreshold
  <2> QED
    BY <2>1, <2>2, <2>3 DEF DrainOf
<1>5. CASE EndRound(p)
  <2>1. pc[p] = "commit" /\ seen'[p] = {} /\ hit'[p] = NoHash /\ leader' = leader
    BY <1>5 DEF EndRound
  <2>2. leader[p] = None
    BY <2>1 DEF DrainOf
  <2>3. pc'[p] \in {"idle", "done", "crashed"}
    BY <1>5 DEF EndRound, NextRound
  <2> QED
    BY <2>1, <2>2, <2>3 DEF DrainOf
<1>6. CASE DieWithoutLeader(p) \/ DieWithoutKey(p) \/ QCrash(p)
  <2>1. pc'[p] = "crashed"
    BY <1>6 DEF DieWithoutLeader, DieWithoutKey, QCrash, KeysExhausted, Crash
  <2> QED
    BY <2>1, <1>0 DEF DrainOf, Draining
<1> QED
  BY <1>1, <1>2, <1>3, <1>4, <1>5, <1>6 DEF Turn

-----------------------------------------------------------------------------
(* Taking a message *)

\* The leader is kept as long as no electable proposal has a greater hash.
LEMMA LeaderKept ==
  ASSUME TypeOK, NEW p \in Nodes, NEW w \in SUBSET props, NEW m \in props, NEW l,
         IF l = None THEN Candidates(p, w) = {} ELSE l \in Leaders(p, w),
         NEW k, k = IF Electable(p, m) /\ Rank(m) > Rank(l) THEN m ELSE l
  PROVE  IF k = None THEN Candidates(p, w \cup {m}) = {} ELSE k \in Leaders(p, w \cup {m})
<1> DEFINE v == w \cup {m}
           best(x) == \A n \in Candidates(p, x) : Rank(n) <= Rank(k)
<1>1. \A n \in props : n # None /\ Rank(n) \in Nat /\ Rank(n) = VrfHash[n.r][Propose][n.from]
  <2> SUFFICES ASSUME NEW n \in props
               PROVE n # None /\ Rank(n) \in Nat /\ Rank(n) = VrfHash[n.r][Propose][n.from]
    OBVIOUS
  <2>1. n \in ProposalMsgs
    BY DEF TypeOK
  <2>2. n # None /\ n.r \in Rounds /\ n.from \in Nodes
    BY <2>1, LeaderAssumption DEF ProposalMsgs
  <2>3. Propose \in Steps
    BY DEF Propose, Steps
  <2>4. VrfHash[n.r][Propose][n.from] \in Nat
    BY <2>2, <2>3, VrfAssumption
  <2> QED
    BY <2>2, <2>4 DEF Rank
<1>2. \A x \in SUBSET props :
        Leaders(p, x) = {n \in Candidates(p, x) : \A o \in Candidates(p, x) : Rank(o) <= Rank(n)}
  <2> SUFFICES ASSUME NEW x \in SUBSET props
               PROVE Leaders(p, x)
                     = {n \in Candidates(p, x) : \A o \in Candidates(p, x) : Rank(o) <= Rank(n)}
    OBVIOUS
  <2>1. Candidates(p, x) = {n \in x : Electable(p, n) /\ VrfHash[n.r][Propose][n.from] > 0}
    BY <1>1 DEF Candidates
  <2>2. \A n \in Candidates(p, x) : Rank(n) = VrfHash[n.r][Propose][n.from]
    BY <1>1, <2>1
  <2> QED
    BY <2>1, <2>2 DEF Leaders
<1>3. v \in SUBSET props /\ m # None
  BY <1>1
<1>4. \A n : n \in Candidates(p, v) <=> n \in Candidates(p, w) \/ (n = m /\ Electable(p, m) /\ Rank(m) > 0)
  BY DEF Candidates
<1>5. Rank(None) = 0
  BY DEF Rank
<1> HIDE DEF v
<1>6. CASE l = None
  <2>1. Candidates(p, w) = {}
    BY <1>6
  <2>2. CASE Electable(p, m) /\ Rank(m) > 0
    <3>1. k = m /\ Candidates(p, v) = {m}
      BY <2>1, <2>2, <1>4, <1>5, <1>6
    <3>2. m \in Leaders(p, v)
      BY <3>1, <1>1, <1>2, <1>3
    <3> QED
      BY <3>1, <3>2, <1>3 DEF v
  <2>3. CASE ~(Electable(p, m) /\ Rank(m) > 0)
    <3>1. k = None /\ Candidates(p, v) = {}
      BY <2>1, <2>3, <1>4, <1>5, <1>6
    <3> QED
      BY <3>1 DEF v
  <2> QED
    BY <2>2, <2>3
<1>7. CASE l # None
  <2>1. l \in Candidates(p, w) /\ \A n \in Candidates(p, w) : Rank(n) <= Rank(l)
    BY <1>7, <1>2
  <2>2. l \in props /\ Rank(l) > 0 /\ Rank(l) \in Nat /\ Rank(m) \in Nat
    BY <2>1, <1>1 DEF Candidates
  <2>3. \A n \in Candidates(p, w) : Rank(n) \in Nat
    BY <1>1 DEF Candidates
  <2>4. CASE Electable(p, m) /\ Rank(m) > Rank(l)
    <3>1. k = m /\ m \in Candidates(p, v)
      BY <2>2, <2>4, <1>4
    <3>2. \A n \in Candidates(p, v) : Rank(n) <= Rank(m)
      BY <2>1, <2>2, <2>3, <2>4, <1>4
    <3> QED
      BY <3>1, <3>2, <1>2, <1>3 DEF v
  <2>5. CASE ~(Electable(p, m) /\ Rank(m) > Rank(l))
    <3>1. k = l /\ l \in Candidates(p, v)
      BY <2>1, <2>5, <1>4
    <3>2. \A n \in Candidates(p, v) : Rank(n) <= Rank(l)
      BY <2>1, <2>2, <2>3, <2>5, <1>4
    <3> QED
      BY <1>7, <3>1, <3>2, <1>2, <1>3 DEF v
  <2> QED
    BY <2>4, <2>5
<1> QED
  BY <1>6, <1>7

\* What every step that takes a message does.
LEMMA TakeEffect ==
  ASSUME TypeOK, QTypes, BoxSent, NEW p \in Nodes, Take(p)
  PROVE  /\ Draining(p) /\ Inbox(p) # <<>> /\ Pop(p) /\ net' = net /\ UNCHANGED vars
         /\ Head(Inbox(p)) \in Pool(TagAt(pc[p])) /\ Head(Inbox(p)).r = round[p]
         /\ seen'[p] \subseteq seen[p] \cup {Head(Inbox(p))}
         /\ \A q \in Nodes \ {p} : UNCHANGED Local(q)
         /\ DrainTypes'
<1>1. /\ pc[p] \in {"bp", "vote", "pc", "commit"} /\ Inbox(p) # <<>> /\ Pop(p) /\ net' = net
      /\ UNCHANGED vars
      /\ TakeProposal(p) => pc[p] = "bp"
      /\ TakeVote(p) => pc[p] = "vote"
      /\ TakePrecommit(p) => pc[p] = "pc"
      /\ TakeCommit(p) => pc[p] = "commit"
  BY DEF Take, TakeProposal, TakeVote, TakePrecommit, TakeCommit, Waiting
<1>2. Draining(p)
  BY <1>1 DEF Draining, Stopped
<1> DEFINE m == Head(Inbox(p))
<1>3. TagAt(pc[p]) \in Tags /\ round[p] \in Rounds
  BY <1>2, Waits
<1>4. m \in Elems(Inbox(p))
  <2>1. Inbox(p) \in Seq(AllMsgs)
    BY <1>3 DEF QTypes, Inbox
  <2> QED
    BY <1>1, <2>1, TailFacts
<1>5. m \in Pool(TagAt(pc[p])) /\ m.r = round[p]
  BY <1>3, <1>4 DEF BoxSent, Inbox
<1>6. m \in AllMsgs
  BY <1>3, <1>5, PoolTyped
<1> HIDE DEF m
<1>7. CASE TakeProposal(p)
  <2>1. /\ seen' = [seen EXCEPT ![p] = @ \cup {m}] /\ B' = [B EXCEPT ![p] = m]
        /\ leader' = [leader EXCEPT ![p] =
             IF Electable(p, m) /\ Rank(m) > Rank(@) THEN m ELSE @]
        /\ UNCHANGED <<hit, pcNow>>
    BY <1>7 DEF TakeProposal, m
  <2>2. m \in ProposalMsgs
    BY <1>1, <1>5, <1>7 DEF Pool, TagAt, TypeOK
  <2>3. DrainTypes'
    <3>1. (seen \in [Nodes -> SUBSET AllMsgs] /\ B \in [Nodes -> AllMsgs \cup {None}])'
      BY <2>1, <1>6 DEF QTypes
    <3>2. (leader \in [Nodes -> ProposalMsgs \cup {None}])'
      BY <2>1, <2>2 DEF QTypes
    <3> QED
      BY <2>1, <3>1, <3>2 DEF QTypes, DrainTypes
  <2>4. seen'[p] \subseteq seen[p] \cup {m}
    BY <2>1 DEF QTypes
  <2>5. \A q \in Nodes \ {p} : UNCHANGED Local(q)
    BY <2>1, <1>1 DEF QTypes, Local, vars, nodeVars, roundVars
  <2> QED
    BY <1>1, <1>2, <1>5, <2>3, <2>4, <2>5 DEF m
<1>8. CASE TakeVote(p) \/ TakePrecommit(p) \/ TakeCommit(p)
  <2>0. m.hB \in Hashes
    <3>1. m \in votes \cup precommits \cup commits
      BY <1>1, <1>5, <1>8 DEF Pool, TagAt
    <3> QED
      BY <3>1, HashTyped
  <2>1. CountIn(p, m) \/ UNCHANGED <<seen, hit>>
    BY <1>8 DEF TakeVote, TakePrecommit, TakeCommit, m
  <2>2. /\ pcNow' = pcNow \/ pcNow' = [pcNow EXCEPT ![p] = m.hB]
        /\ UNCHANGED <<leader, B>>
    BY <1>8 DEF TakeVote, TakePrecommit, TakeCommit, m
  <2>3. DrainTypes'
    <3>1. (seen \in [Nodes -> SUBSET AllMsgs])'
      <4>1. seen' = seen \/ seen' = [seen EXCEPT ![p] = seen[p] \cup {m}]
        BY <2>1 DEF CountIn
      <4>2. seen[p] \cup {m} \in SUBSET AllMsgs
        BY <1>6 DEF QTypes
      <4> QED
        BY <4>1, <4>2 DEF QTypes
    <3>2. (hit \in [Nodes -> Hashes])'
      BY <2>0, <2>1 DEF QTypes, CountIn
    <3>3. (pcNow \in [Nodes -> Hashes])'
      BY <2>0, <2>2 DEF QTypes
    <3> QED
      BY <2>2, <3>1, <3>2, <3>3 DEF QTypes, DrainTypes
  <2>4. seen'[p] \subseteq seen[p] \cup {m}
    BY <2>1 DEF QTypes, CountIn
  <2>5. \A q \in Nodes \ {p} : UNCHANGED Local(q)
    <3> SUFFICES ASSUME NEW q \in Nodes \ {p} PROVE UNCHANGED Local(q)
      OBVIOUS
    <3>1. UNCHANGED <<pc[q], round[q], state[q], lastcommit[q], got[q], pchB[q]>>
      BY <1>1 DEF vars, nodeVars, roundVars
    <3>2. UNCHANGED <<seen[q], hit[q]>>
      BY <2>1 DEF QTypes, CountIn
    <3>3. UNCHANGED <<leader[q], B[q], pcNow[q]>>
      BY <2>2 DEF QTypes
    <3> QED
      BY <3>1, <3>2, <3>3 DEF Local
  <2> QED
    BY <1>1, <1>2, <1>5, <2>3, <2>4, <2>5 DEF m
<1> QED
  BY <1>7, <1>8 DEF Take

\* The node's own drain goes on as FastConfirm's choice at its end allows.
LEMMA TakeDrain ==
  ASSUME IInv, QInv, NEW p \in Nodes, Take(p)
  PROVE  DrainOf(p)'
<1> DEFINE m == Head(Inbox(p))
           w == seen[p] \cup {m}
<1>1. TypeOK /\ QTypes /\ BoxSent /\ DrainOf(p) /\ PrecommitsFull /\ IsFiniteSet(votes)
      /\ IsFiniteSet(precommits) /\ IsFiniteSet(commits)
  BY DEF IInv, QInv, DrainInv, PoolsFinite
<1>2. m \in Pool(TagAt(pc[p])) /\ m.r = round[p]
  BY <1>1, TakeEffect
<1>3. UNCHANGED vars
  BY <1>1, TakeEffect
<1> HIDE DEF m
<1>4. CASE TakeProposal(p)
  <2>1. /\ pc[p] = "bp" /\ seen' = [seen EXCEPT ![p] = w] /\ B' = [B EXCEPT ![p] = m]
        /\ leader' = [leader EXCEPT ![p] =
             IF Electable(p, m) /\ Rank(m) > Rank(leader[p]) THEN m ELSE leader[p]]
        /\ UNCHANGED <<hit, pcNow>>
    BY <1>4 DEF TakeProposal, Waiting, m
  <2>2. m \in props /\ seen[p] \subseteq OfThisRound(p, props) /\ hit[p] = NoHash
        /\ IF leader[p] = None THEN Candidates(p, seen[p]) = {}
           ELSE leader[p] \in Leaders(p, seen[p])
    BY <1>1, <1>2, <2>1 DEF DrainOf, Pool, TagAt
  <2>3. seen[p] \in SUBSET props
    BY <2>2 DEF OfThisRound
  <2>4. /\ seen'[p] = w /\ B'[p] = m /\ hit'[p] = NoHash
        /\ leader'[p] = IF Electable(p, m) /\ Rank(m) > Rank(leader[p]) THEN m ELSE leader[p]
    BY <1>1, <2>1, <2>2 DEF QTypes
  <2>5. IF leader'[p] = None THEN Candidates(p, w) = {} ELSE leader'[p] \in Leaders(p, w)
    BY <1>1, <2>2, <2>3, <2>4, LeaderKept
  <2> HIDE DEF w
  <2>6. Candidates(p, seen[p])' = Candidates(p, w) /\ Leaders(p, seen[p])' = Leaders(p, w)
    BY <1>3, <2>4 DEF Candidates, Leaders, Electable, Rank, vars, nodeVars
  <2>7. OfThisRound(p, props)' = OfThisRound(p, props)
    BY <1>3 DEF OfThisRound, vars, msgs
  <2>8. (seen[p] \subseteq OfThisRound(p, props) /\ hit[p] = NoHash
         /\ (seen[p] # {} => B[p] \in seen[p]))'
    BY <1>2, <2>2, <2>4, <2>7 DEF w, OfThisRound
  <2>9. (IF leader[p] = None THEN Candidates(p, seen[p]) = {} ELSE leader[p] \in Leaders(p, seen[p]))'
    BY <2>5, <2>6
  <2>10. pc'[p] = "bp"
    BY <1>3, <2>1 DEF vars
  <2> QED
    BY <2>8, <2>9, <2>10 DEF DrainOf
<1>5. CASE TakeVote(p)
  <2>1. /\ pc[p] = "vote" /\ seen' = [seen EXCEPT ![p] = w]
        /\ hit' = [hit EXCEPT ![p] = IF Quorum(p, m.hB, w) THEN m.hB ELSE hit[p]]
        /\ UNCHANGED <<leader, B, pcNow>>
    BY <1>5 DEF TakeVote, Waiting, CountIn, m
  <2>2. m \in votes /\ seen[p] \subseteq OfThisRound(p, votes) /\ LastHit(hit[p], seen[p], NoHash)
        /\ leader[p] = None /\ B[p] \in got[p]
    BY <1>1, <1>2, <2>1 DEF DrainOf, Pool, TagAt
  <2>3. seen[p] \in SUBSET votes
    BY <2>2 DEF OfThisRound
  <2>4. seen'[p] = w /\ hit'[p] = IF Quorum(p, m.hB, w) THEN m.hB ELSE hit[p]
    BY <1>1, <2>1 DEF QTypes
  <2>5. LastHit(hit'[p], w, NoHash)
    BY <1>1, <2>2, <2>3, <2>4, HitKept
  <2>6. LastHit(hit[p], seen[p], NoHash)'
    BY <2>4, <2>5 DEF LastHit, OverThreshold
  <2>7. (seen[p] \subseteq OfThisRound(p, votes))'
    BY <1>2, <1>3, <2>2, <2>4 DEF OfThisRound, vars, msgs
  <2>8. pc'[p] = "vote" /\ leader'[p] = None /\ B'[p] \in got'[p]
    BY <1>3, <2>1, <2>2 DEF vars, roundVars
  <2> QED
    BY <2>6, <2>7, <2>8 DEF DrainOf
<1>6. CASE TakePrecommit(p)
  <2>1. /\ pc[p] = "pc" /\ pcNow' = [pcNow EXCEPT ![p] = m.hB]
        /\ IF Enough(m.len)
             THEN /\ seen' = [seen EXCEPT ![p] = w]
                  /\ hit' = [hit EXCEPT ![p] = IF Quorum(p, m.hB, w) THEN m.hB ELSE hit[p]]
             ELSE UNCHANGED <<seen, hit>>
        /\ UNCHANGED <<leader, B>>
    BY <1>6 DEF TakePrecommit, Waiting, CountIn, m
  <2>2. /\ m \in precommits /\ m \in OfThisRound(p, precommits)
        /\ seen[p] \subseteq {n \in OfThisRound(p, precommits) : Enough(n.len)}
        /\ LastHit(hit[p], seen[p], NoHash) /\ leader[p] = None /\ B[p] \in got[p]
    BY <1>1, <1>2, <2>1 DEF DrainOf, Pool, TagAt, OfThisRound
  <2>3. seen[p] \in SUBSET precommits
    BY <2>2 DEF OfThisRound
  <2>4. pc'[p] = "pc" /\ leader'[p] = None /\ B'[p] \in got'[p] /\ pcNow'[p] = m.hB
        /\ OfThisRound(p, precommits)' = OfThisRound(p, precommits)
    BY <1>1, <1>3, <2>1, <2>2 DEF vars, roundVars, msgs, OfThisRound, QTypes
  <2>5. CASE Enough(m.len)
    <3>1. seen'[p] = w /\ hit'[p] = IF Quorum(p, m.hB, w) THEN m.hB ELSE hit[p]
      BY <1>1, <2>1, <2>5 DEF QTypes
    <3>2. LastHit(hit'[p], w, NoHash)
      BY <1>1, <2>2, <2>3, <3>1, HitKept
    <3>3. m.hB \in OverThreshold(w) => hit'[p] = m.hB
      BY <3>1 DEF OverThreshold, Quorum
    <3>4. w \subseteq {n \in OfThisRound(p, precommits) : Enough(n.len)} /\ m \in w
      BY <2>2, <2>5
    <3> HIDE DEF w
    <3>5. (LastHit(hit[p], seen[p], NoHash) /\ (pcNow[p] \in OverThreshold(seen[p]) => hit[p] = pcNow[p]))'
      BY <2>4, <3>1, <3>2, <3>3 DEF LastHit, OverThreshold
    <3>6. (seen[p] \subseteq {n \in OfThisRound(p, precommits) : Enough(n.len)})'
      BY <2>4, <3>1, <3>4
    <3>7. (\E n \in OfThisRound(p, precommits) :
             n.hB = pcNow[p] /\ (n \in seen[p] \/ ~Enough(n.len)))'
      BY <2>2, <2>4, <3>1, <3>4
    <3> QED
      BY <2>4, <3>5, <3>6, <3>7 DEF DrainOf
  <2>6. CASE ~Enough(m.len)
    <3>1. UNCHANGED <<seen, hit>>
      BY <2>1, <2>6
    <3>2. m.hB = None
      BY <1>1, <2>2, <2>6 DEF PrecommitsFull
    <3>3. OverThreshold(seen[p]) \subseteq Blocks
      BY <1>1, <2>2, <2>3, CountedIsBlock
    <3>4. m.hB \notin OverThreshold(seen[p])
      BY <3>2, <3>3, SentinelAssumption
    <3>5. (LastHit(hit[p], seen[p], NoHash) /\ pcNow[p] \notin OverThreshold(seen[p]))'
      BY <2>2, <2>4, <3>1, <3>4 DEF LastHit, OverThreshold
    <3>6. (seen[p] \subseteq {n \in OfThisRound(p, precommits) : Enough(n.len)})'
      BY <2>2, <2>4, <3>1
    <3>7. (\E n \in OfThisRound(p, precommits) :
             n.hB = pcNow[p] /\ (n \in seen[p] \/ ~Enough(n.len)))'
      BY <2>2, <2>4, <2>6
    <3> QED
      BY <2>4, <3>5, <3>6, <3>7 DEF DrainOf
  <2> QED
    BY <2>5, <2>6
<1>7. CASE TakeCommit(p)
  <2>1. /\ pc[p] = "commit"
        /\ IF Verifies(m)
             THEN /\ seen' = [seen EXCEPT ![p] = w]
                  /\ hit' = [hit EXCEPT ![p] = IF Quorum(p, m.hB, w) THEN m.hB ELSE hit[p]]
             ELSE UNCHANGED <<seen, hit>>
        /\ UNCHANGED <<leader, B>>
    BY <1>7 DEF TakeCommit, Waiting, CountIn, m
  <2>2. /\ m \in commits /\ m \in OfThisRound(p, commits)
        /\ seen[p] \subseteq {n \in OfThisRound(p, commits) : Verifies(n)}
        /\ LastHit(hit[p], seen[p], NoQuorum) /\ leader[p] = None /\ B[p] \in got[p]
    BY <1>1, <1>2, <2>1 DEF DrainOf, Pool, TagAt, OfThisRound
  <2>3. seen[p] \in SUBSET commits
    BY <2>2 DEF OfThisRound
  <2>4. pc'[p] = "commit" /\ leader'[p] = None /\ B'[p] \in got'[p]
        /\ OfThisRound(p, commits)' = OfThisRound(p, commits)
    BY <1>3, <2>1, <2>2 DEF vars, roundVars, msgs, OfThisRound
  <2>5. CASE Verifies(m)
    <3>1. seen'[p] = w /\ hit'[p] = IF Quorum(p, m.hB, w) THEN m.hB ELSE hit[p]
      BY <1>1, <2>1, <2>5 DEF QTypes
    <3>2. LastHit(hit'[p], w, NoQuorum)
      BY <1>1, <2>2, <2>3, <3>1, HitKept
    <3>3. w \subseteq {n \in OfThisRound(p, commits) : Verifies(n)}
      BY <2>2, <2>5
    <3> HIDE DEF w
    <3>4. LastHit(hit[p], seen[p], NoQuorum)'
      BY <3>1, <3>2 DEF LastHit, OverThreshold
    <3> QED
      BY <2>4, <3>1, <3>3, <3>4 DEF DrainOf
  <2>6. CASE ~Verifies(m)
    <3>1. UNCHANGED <<seen, hit>>
      BY <2>1, <2>6
    <3>2. LastHit(hit[p], seen[p], NoQuorum)'
      BY <2>2, <3>1 DEF LastHit, OverThreshold
    <3> QED
      BY <2>2, <2>4, <3>1, <3>2 DEF DrainOf
  <2> QED
    BY <2>5, <2>6
<1> QED
  BY <1>4, <1>5, <1>6, <1>7 DEF Take

-----------------------------------------------------------------------------
(* The invariant is kept *)

LEMMA TurnKeeps ==
  ASSUME IInv, IInv', QInv, Unbounded, NEW p \in Nodes, Turn(p)
  PROVE  QInv'
<1>1. TypeOK /\ TypeOK' /\ QTypes /\ NetSent /\ BoxSent /\ DrainInv /\ Once
  BY DEF IInv, QInv
<1>2. PoolsKept
  BY TurnMaps, PoolsGrow DEF PoolsKept
<1>3. /\ Broadcast /\ BoxType'
      /\ \A q \in Nodes, t \in Tags, r \in Rounds :
           box'[q][t][r] = box[q][t][r] \/ box'[q][t][r] = <<>>
  BY <1>1, TurnBox
<1>4. \A q \in Nodes, t \in Tags, r \in Rounds :
        /\ Elems(box'[q][t][r]) \subseteq Elems(box[q][t][r])
        /\ NoRepeat(box[q][t][r]) => NoRepeat(box'[q][t][r])
  BY <1>3, Nothing
<1>5. \A e \in net' : e \in net \/ (e.to \in Nodes /\ e.tag \in Tags /\ e.m \in Pool(e.tag)'
                                    /\ e.m \notin Pool(e.tag)
                                    /\ e = [to |-> e.to, tag |-> e.tag, m |-> e.m])
  BY <1>3, Sent
<1>6. QTypes'
  <2>1. \A e \in net' : e \in [to : Nodes, tag : Tags, m : AllMsgs]
    <3> SUFFICES ASSUME NEW e \in net' PROVE e \in [to : Nodes, tag : Tags, m : AllMsgs]
      OBVIOUS
    <3>1. CASE e \in net
      BY <1>1, <3>1 DEF QTypes
    <3>2. CASE e \notin net
      <4>1. e.to \in Nodes /\ e.tag \in Tags /\ e.m \in Pool(e.tag)'
            /\ e = [to |-> e.to, tag |-> e.tag, m |-> e.m]
        BY <1>5, <3>2
      <4>2. e.m \in AllMsgs
        <5>1. PICK t \in Tags : t = e.tag
          BY <4>1
        <5>2. t = "F_BP" \/ t = "F_VOTE" \/ t = "F_PC" \/ t = "F_COMMIT"
          BY DEF Tags
        <5>3. e.m \in Pool(t)'
          BY <4>1, <5>1
        <5> QED
          BY <1>1, <5>2, <5>3 DEF Pool, TypeOK, AllMsgs
      <4> QED
        BY <4>1, <4>2
    <3> QED
      BY <3>1, <3>2
  <2>2. DrainTypes'
    BY <1>1, TurnTypes
  <2> QED
    BY <2>1, <2>2, <1>3 DEF QTypes, DrainTypes, BoxType
<1>7. NetSent'
  <2> SUFFICES ASSUME NEW e \in net' PROVE e.m \in Pool(e.tag)'
    BY DEF NetSent
  <2>1. CASE e \in net
    <3>1. e.tag \in Tags /\ e.m \in Pool(e.tag)
      BY <1>1, <2>1 DEF QTypes, NetSent
    <3> QED
      BY <1>2, <3>1, PoolKept
  <2> QED
    BY <2>1, <1>5
<1>8. BoxSent'
  <2> SUFFICES ASSUME NEW q \in Nodes, NEW t \in Tags, NEW r \in Rounds,
                      NEW m \in Elems(box'[q][t][r])
               PROVE  m \in Pool(t)' /\ m.r = r
    BY DEF BoxSent
  <2>1. m \in Pool(t) /\ m.r = r
    BY <1>1, <1>4 DEF BoxSent
  <2> QED
    BY <1>2, <2>1, PoolKept
<1>9. DrainInv' /\ (Draining(p)' => seen'[p] = {})
  <2>1. DrainOf(p)' /\ (Draining(p)' => seen'[p] = {})
    BY <1>1, TurnDrain DEF DrainInv
  <2>2. \A q \in Nodes \ {p} : DrainOf(q)'
    BY <1>1, <1>2, TurnOthers, DrainKept DEF DrainInv
  <2> QED
    BY <2>1, <2>2 DEF DrainInv
<1>10. PrecommitsFull'
  BY TurnPrecommits
<1>11. \A q \in Nodes, t \in Tags : \A m \in Pool(t) : Flying(q, t, m)' => Flying(q, t, m)
  BY <1>5 DEF Flying
<1>12. Once'
  <2> SUFFICES ASSUME NEW q \in Nodes, NEW t \in Tags
               PROVE  /\ \A r \in Rounds :
                           /\ NoRepeat(box'[q][t][r])
                           /\ \A m \in Elems(box'[q][t][r]) : ~Flying(q, t, m)'
                      /\ Draining(q)' /\ TagAt(pc'[q]) = t =>
                           \A m \in seen'[q] :
                             /\ ~Flying(q, t, m)'
                             /\ \A r \in Rounds : m \notin Elems(box'[q][t][r])
    BY DEF Once
  <2>1. ASSUME NEW r \in Rounds
        PROVE  /\ NoRepeat(box'[q][t][r])
               /\ \A m \in Elems(box'[q][t][r]) : ~Flying(q, t, m)'
    <3>1. NoRepeat(box[q][t][r]) /\ \A m \in Elems(box[q][t][r]) : ~Flying(q, t, m) /\ m \in Pool(t)
      BY <1>1 DEF Once, BoxSent
    <3> QED
      BY <3>1, <1>4, <1>11
  <2>2. ASSUME Draining(q)', TagAt(pc'[q]) = t, NEW m \in seen'[q]
        PROVE  ~Flying(q, t, m)' /\ \A r \in Rounds : m \notin Elems(box'[q][t][r])
    <3>1. q # p
      BY <1>9, <2>2
    <3>2. pc'[q] = pc[q] /\ seen'[q] = seen[q]
      BY <1>1, <3>1, TurnOthers DEF Local
    <3>3. Draining(q) /\ TagAt(pc[q]) = t /\ m \in seen[q]
      BY <2>2, <3>2 DEF Draining
    <3>4. ~Flying(q, t, m) /\ \A r \in Rounds : m \notin Elems(box[q][t][r])
      BY <1>1, <3>3 DEF Once
    <3>5. m \in Pool(t)
      BY <1>1, <3>3, SeenSent DEF DrainInv
    <3> QED
      BY <3>4, <3>5, <1>4, <1>11
  <2> QED
    BY <2>1, <2>2
<1> QED
  BY <1>6, <1>7, <1>8, <1>9, <1>10, <1>12 DEF QInv

LEMMA TakeKeeps ==
  ASSUME IInv, QInv, NEW p \in Nodes, Take(p)
  PROVE  QInv'
<1> DEFINE head == Head(Inbox(p))
           T == TagAt(pc[p])
<1>1. TypeOK /\ QTypes /\ NetSent /\ BoxSent /\ DrainInv /\ PrecommitsFull /\ Once
  BY DEF IInv, QInv
<1>2. /\ Draining(p) /\ Inbox(p) # <<>> /\ Pop(p) /\ net' = net /\ UNCHANGED vars
      /\ head \in Pool(T) /\ head.r = round[p]
      /\ seen'[p] \subseteq seen[p] \cup {head}
      /\ \A q \in Nodes \ {p} : UNCHANGED Local(q)
      /\ DrainTypes'
  BY <1>1, TakeEffect
<1>3. T \in Tags /\ round[p] \in Rounds
  BY <1>1, <1>2, Waits
<1>4. /\ BoxType'
      /\ \A q \in Nodes, t \in Tags, r \in Rounds :
           box'[q][t][r] = IF q = p /\ t = T /\ r = round[p]
                           THEN Tail(Inbox(p)) ELSE box[q][t][r]
      /\ Inbox(p) \in Seq(AllMsgs) /\ Inbox(p) = box[p][T][round[p]]
  BY <1>1, <1>2, TakenBox DEF QTypes, BoxType, Inbox
<1>5. /\ head \in Elems(Inbox(p)) /\ Elems(Tail(Inbox(p))) \subseteq Elems(Inbox(p))
      /\ NoRepeat(Inbox(p)) => NoRepeat(Tail(Inbox(p))) /\ head \notin Elems(Tail(Inbox(p)))
  BY <1>2, <1>4, TailFacts
<1>6. \A q \in Nodes, t \in Tags, r \in Rounds :
        /\ Elems(box'[q][t][r]) \subseteq Elems(box[q][t][r])
        /\ NoRepeat(box[q][t][r]) => NoRepeat(box'[q][t][r])
  BY <1>4, <1>5
<1>7. NoRepeat(Inbox(p)) /\ \A m \in Elems(Inbox(p)) : ~Flying(p, T, m)
  BY <1>1, <1>3, <1>4 DEF Once
<1>8. \A r \in Rounds : head \notin Elems(box'[p][T][r])
  <2> SUFFICES ASSUME NEW r \in Rounds, head \in Elems(box'[p][T][r]) PROVE FALSE
    OBVIOUS
  <2>1. CASE r = round[p]
    BY <1>3, <1>4, <1>5, <1>7, <2>1
  <2>2. CASE r # round[p]
    <3>1. head \in Elems(box[p][T][r])
      BY <1>3, <1>6
    <3>2. head.r = r
      BY <1>1, <1>3, <3>1 DEF BoxSent
    <3> QED
      BY <1>2, <2>2, <3>2
  <2> QED
    BY <2>1, <2>2
<1>9. \A q \in Nodes, t \in Tags : \A m : Flying(q, t, m)' = Flying(q, t, m)
  BY <1>2 DEF Flying
<1>10. \A t \in Tags : Pool(t)' = Pool(t)
  BY <1>2 DEF Pool, vars, msgs
<1>11. pc' = pc /\ precommits' = precommits
  BY <1>2 DEF vars, msgs
<1>12. QTypes'
  BY <1>1, <1>2, <1>4 DEF QTypes, DrainTypes, BoxType
<1>13. NetSent'
  <2> SUFFICES ASSUME NEW e \in net' PROVE e.m \in Pool(e.tag)'
    BY DEF NetSent
  <2>1. e \in net /\ e.tag \in Tags /\ e.m \in Pool(e.tag)
    BY <1>1, <1>2 DEF NetSent, QTypes
  <2> QED
    BY <2>1, <1>10
<1>14. BoxSent'
  <2> SUFFICES ASSUME NEW q \in Nodes, NEW t \in Tags, NEW r \in Rounds,
                      NEW m \in Elems(box'[q][t][r])
               PROVE  m \in Pool(t)' /\ m.r = r
    BY DEF BoxSent
  <2>1. m \in Pool(t) /\ m.r = r
    BY <1>1, <1>6 DEF BoxSent
  <2> QED
    BY <1>10, <2>1
<1>15. DrainInv'
  <2>1. DrainOf(p)'
    BY TakeDrain
  <2>2. PoolsKept
    BY <1>2 DEF PoolsKept, vars, msgs
  <2>3. \A q \in Nodes \ {p} : DrainOf(q)'
    BY <1>1, <1>2, <2>2, DrainKept DEF DrainInv
  <2> QED
    BY <2>1, <2>3 DEF DrainInv
<1>16. PrecommitsFull'
  BY <1>1, <1>11 DEF PrecommitsFull
<1> HIDE DEF head, T
<1>17. Once'
  <2> SUFFICES ASSUME NEW q \in Nodes, NEW t \in Tags
               PROVE  /\ \A r \in Rounds :
                           /\ NoRepeat(box'[q][t][r])
                           /\ \A m \in Elems(box'[q][t][r]) : ~Flying(q, t, m)'
                      /\ Draining(q)' /\ TagAt(pc'[q]) = t =>
                           \A m \in seen'[q] :
                             /\ ~Flying(q, t, m)'
                             /\ \A r \in Rounds : m \notin Elems(box'[q][t][r])
    BY DEF Once
  <2>1. ASSUME NEW r \in Rounds
        PROVE  /\ NoRepeat(box'[q][t][r])
               /\ \A m \in Elems(box'[q][t][r]) : ~Flying(q, t, m)'
    <3>1. NoRepeat(box[q][t][r]) /\ \A m \in Elems(box[q][t][r]) : ~Flying(q, t, m)
      BY <1>1 DEF Once
    <3> QED
      BY <3>1, <1>6, <1>9
  <2>2. ASSUME Draining(q)', TagAt(pc'[q]) = t, NEW m \in seen'[q]
        PROVE  ~Flying(q, t, m)' /\ \A r \in Rounds : m \notin Elems(box'[q][t][r])
    <3>1. Draining(q) /\ TagAt(pc[q]) = t
      BY <1>11, <2>2 DEF Draining
    <3>2. CASE m \in seen[q]
      <4>1. ~Flying(q, t, m) /\ \A r \in Rounds : m \notin Elems(box[q][t][r])
        BY <1>1, <3>1, <3>2 DEF Once
      <4> QED
        BY <4>1, <1>6, <1>9
    <3>3. CASE m \notin seen[q]
      <4>1. q = p
        <5> SUFFICES ASSUME q # p PROVE FALSE
          OBVIOUS
        <5>1. seen'[q] = seen[q]
          BY <1>2 DEF Local
        <5> QED
          BY <5>1, <2>2, <3>3
      <4>2. m = head /\ t = T
        BY <1>2, <2>2, <3>1, <3>3, <4>1 DEF T
      <4> QED
        BY <4>1, <4>2, <1>3, <1>5, <1>7, <1>8, <1>9
    <3> QED
      BY <3>2, <3>3
  <2> QED
    BY <2>1, <2>2
<1> QED
  BY <1>12, <1>13, <1>14, <1>15, <1>16, <1>17 DEF QInv

LEMMA ReceiveKeeps ==
  ASSUME IInv, QInv, NEW e \in net, Receive(e)
  PROVE  QInv'
<1>1. TypeOK /\ QTypes /\ NetSent /\ BoxSent /\ DrainInv /\ PrecommitsFull /\ Once
  BY DEF IInv, QInv
<1>2. UNCHANGED vars /\ UNCHANGED drainVars /\ net' = net \ {e}
  BY DEF Receive
<1>3. /\ BoxType' /\ e.to \in Nodes /\ e.tag \in Tags /\ e.m.r \in Rounds /\ e.m \in AllMsgs
      /\ e = [to |-> e.to, tag |-> e.tag, m |-> e.m]
      /\ \A q \in Nodes, t \in Tags, r \in Rounds :
           box'[q][t][r] = IF q = e.to /\ t = e.tag /\ r = e.m.r
                           THEN Append(box[q][t][r], e.m) ELSE box[q][t][r]
  BY <1>1, FiledBox
<1>4. Flying(e.to, e.tag, e.m) /\ ~Flying(e.to, e.tag, e.m)'
  BY <1>2, <1>3 DEF Flying
<1>5. \A q \in Nodes, t \in Tags : \A m : Flying(q, t, m)' => Flying(q, t, m)
  BY <1>2 DEF Flying
<1>6. \A q \in Nodes, t \in Tags, r \in Rounds :
        \/ box'[q][t][r] = box[q][t][r]
        \/ /\ q = e.to /\ t = e.tag /\ r = e.m.r
           /\ Elems(box'[q][t][r]) = Elems(box[q][t][r]) \cup {e.m}
           /\ NoRepeat(box[q][t][r]) /\ e.m \notin Elems(box[q][t][r]) => NoRepeat(box'[q][t][r])
  <2> SUFFICES ASSUME NEW q \in Nodes, NEW t \in Tags, NEW r \in Rounds,
                      q = e.to /\ t = e.tag /\ r = e.m.r
               PROVE  /\ Elems(box'[q][t][r]) = Elems(box[q][t][r]) \cup {e.m}
                      /\ NoRepeat(box[q][t][r]) /\ e.m \notin Elems(box[q][t][r])
                           => NoRepeat(box'[q][t][r])
    BY <1>3
  <2>1. PICK s : s = box[q][t][r]
    OBVIOUS
  <2>2. s \in Seq(AllMsgs)
    BY <1>1, <2>1 DEF QTypes
  <2>3. box'[q][t][r] = Append(s, e.m)
    BY <1>3, <2>1
  <2>4. /\ Elems(Append(s, e.m)) = Elems(s) \cup {e.m}
        /\ NoRepeat(s) /\ e.m \notin Elems(s) => NoRepeat(Append(s, e.m))
    BY <1>3, <2>2, AppendFacts
  <2> QED
    BY <2>1, <2>3, <2>4
<1>7. \A t \in Tags : Pool(t)' = Pool(t)
  BY <1>2 DEF Pool, vars, msgs
<1>8. pc' = pc /\ precommits' = precommits /\ seen' = seen
  BY <1>2 DEF vars, msgs, drainVars
<1>9. QTypes'
  BY <1>1, <1>2, <1>3 DEF QTypes, BoxType, drainVars
<1>10. NetSent'
  <2> SUFFICES ASSUME NEW d \in net' PROVE d.m \in Pool(d.tag)'
    BY DEF NetSent
  <2>1. d \in net /\ d.tag \in Tags /\ d.m \in Pool(d.tag)
    BY <1>1, <1>2 DEF NetSent, QTypes
  <2> QED
    BY <2>1, <1>7
<1>11. BoxSent'
  <2> SUFFICES ASSUME NEW q \in Nodes, NEW t \in Tags, NEW r \in Rounds,
                      NEW m \in Elems(box'[q][t][r])
               PROVE  m \in Pool(t)' /\ m.r = r
    BY DEF BoxSent
  <2>1. CASE m \in Elems(box[q][t][r])
    BY <1>1, <1>7, <2>1 DEF BoxSent
  <2>2. CASE m \notin Elems(box[q][t][r])
    <3>1. m = e.m /\ t = e.tag /\ r = e.m.r
      BY <1>6, <2>2
    <3> QED
      BY <1>1, <1>7, <3>1 DEF NetSent
  <2> QED
    BY <2>1, <2>2
<1>12. DrainInv'
  <2>1. PoolsKept
    BY <1>2 DEF PoolsKept, vars, msgs
  <2>2. \A q \in Nodes : UNCHANGED Local(q)
    BY <1>2 DEF Local, vars, nodeVars, roundVars, drainVars
  <2> QED
    BY <1>1, <2>1, <2>2, DrainKept DEF DrainInv
<1>13. PrecommitsFull'
  BY <1>1, <1>8 DEF PrecommitsFull
<1>14. Once'
  <2> SUFFICES ASSUME NEW q \in Nodes, NEW t \in Tags
               PROVE  /\ \A r \in Rounds :
                           /\ NoRepeat(box'[q][t][r])
                           /\ \A m \in Elems(box'[q][t][r]) : ~Flying(q, t, m)'
                      /\ Draining(q)' /\ TagAt(pc'[q]) = t =>
                           \A m \in seen'[q] :
                             /\ ~Flying(q, t, m)'
                             /\ \A r \in Rounds : m \notin Elems(box'[q][t][r])
    BY DEF Once
  <2>1. ASSUME NEW r \in Rounds
        PROVE  /\ NoRepeat(box'[q][t][r])
               /\ \A m \in Elems(box'[q][t][r]) : ~Flying(q, t, m)'
    <3>1. NoRepeat(box[q][t][r]) /\ \A m \in Elems(box[q][t][r]) : ~Flying(q, t, m)
      BY <1>1 DEF Once
    <3> QED
      BY <3>1, <1>4, <1>5, <1>6
  <2>2. ASSUME Draining(q)', TagAt(pc'[q]) = t, NEW m \in seen'[q]
        PROVE  ~Flying(q, t, m)' /\ \A r \in Rounds : m \notin Elems(box'[q][t][r])
    <3>1. Draining(q) /\ TagAt(pc[q]) = t /\ m \in seen[q]
      BY <1>8, <2>2 DEF Draining
    <3>2. ~Flying(q, t, m) /\ \A r \in Rounds : m \notin Elems(box[q][t][r])
      BY <1>1, <3>1 DEF Once
    <3>3. ~(q = e.to /\ t = e.tag /\ m = e.m)
      BY <1>4, <3>2
    <3> QED
      BY <3>2, <3>3, <1>5, <1>6
  <2> QED
    BY <2>1, <2>2
<1> QED
  BY <1>9, <1>10, <1>11, <1>12, <1>13, <1>14 DEF QInv

-----------------------------------------------------------------------------
(* Theorems *)

LEMMA QInvInit == QInit => IInv /\ QInv
<1> SUFFICES ASSUME QInit PROVE IInv /\ QInv
  OBVIOUS
<1>1. Init
  BY DEF QInit
<1>2. IInv
  BY <1>1, InvInit
<1>3. \A p \in Nodes, t \in Tags, r \in Rounds : box[p][t][r] = <<>>
  BY DEF QInit
<1>4. QTypes
  BY Nothing DEF QInit, QTypes, Hashes
<1>5. NetSent /\ PrecommitsFull
  BY <1>1 DEF QInit, NetSent, PrecommitsFull, Init
<1>6. BoxSent
  BY <1>3, Nothing DEF BoxSent
<1>7. DrainInv
  BY <1>1 DEF QInit, DrainInv, DrainOf, Init
<1>8. Once
  BY <1>1, <1>3, Nothing DEF QInit, Once, Init, Draining
<1> QED
  BY <1>2, <1>4, <1>5, <1>6, <1>7, <1>8 DEF QInv

LEMMA QInvStep ==
  ASSUME Unbounded PROVE IInv /\ QInv /\ [QNext]_qvars => (IInv /\ QInv)'
<1> SUFFICES ASSUME IInv, QInv, [QNext]_qvars PROVE IInv' /\ QInv'
  OBVIOUS
<1>1. IInv'
  BY StepMaps, InvStep
<1>2. CASE \E p \in Nodes : Turn(p) \/ Take(p)
  <2>1. PICK p \in Nodes : Turn(p) \/ Take(p)
    BY <1>2
  <2>2. CASE Turn(p)
    BY <1>1, <2>2, TurnKeeps
  <2>3. CASE Take(p)
    BY <1>1, <2>3, TakeKeeps
  <2> QED
    BY <2>1, <2>2, <2>3
<1>3. CASE \E e \in net : Receive(e)
  BY <1>1, <1>3, ReceiveKeeps
<1>4. CASE UNCHANGED qvars
  <2> USE <1>4 DEF qvars, drainVars, vars, nodeVars, roundVars, msgs
  <2>1. QTypes'
    BY DEF QInv, QTypes
  <2>2. NetSent' /\ BoxSent'
    <3>1. \A t : Pool(t)' = Pool(t)
      BY DEF Pool
    <3>2. NetSent /\ BoxSent /\ net' = net /\ box' = box
      BY DEF QInv
    <3> QED
      BY <3>1, <3>2 DEF NetSent, BoxSent
  <2>3. DrainInv'
    <3>1. PoolsKept /\ \A q \in Nodes : UNCHANGED Local(q)
      BY DEF PoolsKept, Local
    <3> QED
      BY <3>1, DrainKept DEF QInv, DrainInv
  <2>4. PrecommitsFull'
    BY DEF QInv, PrecommitsFull
  <2>5. Once'
    BY DEF QInv, Once, Flying, Draining
  <2> QED
    BY <1>1, <2>1, <2>2, <2>3, <2>4, <2>5 DEF QInv
<1> QED
  BY <1>1, <1>2, <1>3, <1>4, QSteps

\* In every run of the queues what a drain has computed is what FastConfirm may
\* choose at its end, and no message is twice on its way to a node.
THEOREM QInvariance ==
  ASSUME Unbounded PROVE QSpec => [](IInv /\ QInv)
<1>1. QInit => IInv /\ QInv
  BY QInvInit
<1>2. IInv /\ QInv /\ [QNext]_qvars => (IInv /\ QInv)'
  BY QInvStep
<1> QED
  BY <1>1, <1>2, PTL DEF QSpec

\* The receive loop, its queues and the drains that take a message at a time
\* implement the rounds of FastConfirm, in which a drain picks any of the
\* messages sent: whatever order they arrive in, and when.
THEOREM QueuesImplementRounds ==
  ASSUME Unbounded PROVE QSpec => Spec
<1>1. QInit => Init
  BY DEF QInit
<1>2. QSpec => [](IInv /\ QInv)
  BY QInvariance
<1>3. IInv /\ QInv /\ [QNext]_qvars => [Next]_vars
  BY StepMaps
<1> QED
  BY <1>1, <1>2, <1>3, PTL DEF QSpec, Spec

\* No message is delivered, filed or counted twice by a node, and each is filed
\* under its own round, however the receive loop and the drains interleave.
THEOREM NoneTwice ==
  ASSUME Unbounded PROVE QSpec => []ExactlyOnce
<1>1. IInv /\ QInv => ExactlyOnce
  <2> SUFFICES ASSUME IInv, QInv, NEW p \in Nodes, NEW t \in Tags, NEW r \in Rounds,
                      NEW i \in DOMAIN box[p][t][r]
               PROVE  LET m == box[p][t][r][i] IN
                      /\ m.r = r
                      /\ \A j \in DOMAIN box[p][t][r] : i # j => box[p][t][r][j] # m
                      /\ [to |-> p, tag |-> t, m |-> m] \notin net
                      /\ pc[p] \notin Stopped \cup {"idle"} /\ TagAt(pc[p]) = t => m \notin seen[p]
    BY DEF ExactlyOnce
  <2>1. box[p][t][r][i] \in Elems(box[p][t][r])
    BY DEF Elems
  <2>2. BoxSent /\ Once
    BY DEF QInv
  <2>3. box[p][t][r][i].r = r
    BY <2>1, <2>2 DEF BoxSent
  <2>4. NoRepeat(box[p][t][r]) /\ ~Flying(p, t, box[p][t][r][i])
    BY <2>1, <2>2 DEF Once
  <2>5. Draining(p) /\ TagAt(pc[p]) = t => box[p][t][r][i] \notin seen[p]
    BY <2>1, <2>2 DEF Once
  <2> QED
    BY <2>3, <2>4, <2>5 DEF NoRepeat, Flying, Draining
<1>2. QSpec => [](IInv /\ QInv)
  BY QInvariance
<1> QED
  BY <1>1, <1>2, PTL
=============================================================================
