----------------------------- MODULE FastConfirm -----------------------------
(***************************************************************************)
(* The FastConfirm round protocol: src/fastconfirm/core/fastconfirm.py and  *)
(* the step functions it calls (blockproposal, vote, precommit, commit,     *)
(* memselect, roundkey).                                                    *)
(*                                                                          *)
(* A round has four timed steps.  In each a node waits for delta seconds,   *)
(* drains the queue of that step's messages and broadcasts its own message  *)
(* of the next step.  Messages are tagged with the step and the round and   *)
(* filed in one queue per tag and round, so a step reads some subset of     *)
(* what was sent for its tag and round: a message is left out when it is    *)
(* lost, arrives after the drain, or arrives before the receiver created    *)
(* the queues of the round (which discards what was filed before).  The     *)
(* sent messages are kept in four growing sets; FastConfirmQueues has the   *)
(* queues themselves and is checked to implement this module.               *)
(*                                                                          *)
(* Abstracted: signatures and Merkle paths (only whether a message verifies *)
(* is kept), the transactions of a block (only how many are left), `height' *)
(* (it counts the outputs of rounds >= 2 and is never compared), logging.   *)
(***************************************************************************)
EXTENDS Integers, Sequences, FiniteSets

CONSTANTS
  Nodes,        \* the nodes; a node is its pid
  F,            \* the parameter f, the number of faulty nodes
  Slots,        \* SLOTS_NUM, the number of rounds to run
  KeyNum,       \* the number of one-time round keys (1024 in the code)
  TxInit,       \* the transactions in the buffer at the start (4000)
  Batch,        \* B, the transactions of one proposal
  VrfHash,      \* the VRF output of a node in a step of a round, as a number
  Synchronous,  \* TRUE: delta covers every delay and the skew of the nodes
  MaxMiss,      \* bound: messages one drain may miss of those sent so far
  MaxCrash,     \* bound: crashed nodes after which no further node is killed
  None,         \* python's None (no block, and the hash of no block)
  NoHash,       \* the initial 0 of pc_hB and c_hB
  NoQuorum      \* the initial -1 of g_hB

Rounds == 1..Slots

\* The four steps as the VRF and the round keys number them.
Propose == 1
Vote == 2
Precommit == 3
Commit == 4
Steps == 1..4

\* A block is known by the round and the proposer it comes from; hash(Block)
\* is then the block itself.
Blocks == Rounds \X Nodes

ASSUME NodesAssumption == IsFiniteSet(Nodes) /\ Nodes # {}
ASSUME NumbersAssumption ==
  /\ F \in Nat /\ Slots \in Nat \ {0} /\ KeyNum \in Nat
  /\ TxInit \in Nat /\ Batch \in Nat
  /\ MaxMiss \in Nat /\ MaxCrash \in Nat
  /\ Synchronous \in BOOLEAN
ASSUME VrfAssumption == VrfHash \in [Rounds -> [Steps -> [Nodes -> Nat]]]
ASSUME SentinelAssumption ==
  /\ {None, NoHash, NoQuorum} \cap Blocks = {}
  /\ None # NoHash /\ None # NoQuorum /\ NoHash # NoQuorum

VARIABLES
  pc,          \* pc[p]: the step whose queue p waits to drain
  round,       \* self.round
  state,       \* self.state, the triple (b, r, g) that grades the last round
  lastcommit,  \* self.lastcommit
  lB,          \* self.lB, the tip new proposals extend
  tobe,        \* self._tobe_commit
  log,         \* the blocks logged as committed, in order
  txbuf,       \* the length of self.transaction_buffer
  got,         \* the proposals drained this round (block_dic)
  voteTag,     \* vote_tag
  pchB,        \* pc_hB
  chB,         \* c_hB
  props, votes, precommits, commits   \* every F_BP, F_VOTE, F_PC, F_COMMIT sent

nodeVars == <<state, lastcommit, lB, tobe, log>>
roundVars == <<got, voteTag, pchB, chB>>
msgs == <<props, votes, precommits, commits>>
vars == <<pc, round, nodeVars, txbuf, roundVars, msgs>>

-----------------------------------------------------------------------------
(* Thresholds, committees, round keys *)

\* Mutant of Enough: the quorum 2*self.f.
EnoughLessOne(n) == n > 0 /\ 5 * n >= 4 * F

\* self.f = f*0.4, and a quorum is  qsize() >= 2*self.f + 1.
Enough(n) == 5 * n >= 4 * F + 5

\* memselection with T = 1: the threshold is 0 and the hash must exceed it.
Selected(p, r, s) == VrfHash[r][s][p] > 0

\* The one-time key of a step: rsk[(round-1)*4 + s-1], an IndexError past the end.
HasKey(r, s) == 4 * (r - 1) + (s - 1) < KeyNum

Count(h, M) == Cardinality({m \in M : m.hB = h})

\* The hashes some prefix of the drained messages M puts over the threshold.
OverThreshold(M) == {h \in {m.hB : m \in M} : Enough(Count(h, M))}

-----------------------------------------------------------------------------
(* What a drain can see *)

Stopped == {"done", "starved", "crashed"}
Live == {p \in Nodes : pc[p] \notin Stopped}

StageOf(s) == CASE s = "idle" -> 0
                [] s = "bp" -> 1
                [] s = "vote" -> 2
                [] s = "pc" -> 3
                [] s = "commit" -> 4
                [] OTHER -> 5

\* q has sent what it sends before waiting in p's step of p's round.
HasReached(q, p) == \/ round[q] > round[p]
                    \/ round[q] = round[p] /\ StageOf(pc[q]) >= StageOf(pc[p])

\* Mutant of TimeUp: wait for the message of every node, dead ones too.
WaitForAll(p) == Synchronous => \A q \in Nodes : HasReached(q, p)

\* The wait of delta seconds is over.  In synchronous runs everything the live
\* nodes send in the step is sent by then.
TimeUp(p) == Synchronous => \A q \in Live : HasReached(q, p)

\* The subsets of the messages M of p's round that its drain may yield.
Drains(p, M) ==
  LET sent == {m \in M : m.r = round[p]} IN
  {w \in SUBSET sent : Cardinality(sent \ w) <= MaxMiss}

-----------------------------------------------------------------------------
Init ==
  /\ pc = [p \in Nodes |-> "idle"]
  /\ round = [p \in Nodes |-> 1]
  /\ state = [p \in Nodes |-> [b |-> NoHash, r |-> 0, g |-> 0]]
  /\ lastcommit = [p \in Nodes |-> 0]
  /\ lB = [p \in Nodes |-> None]
  /\ tobe = [p \in Nodes |-> <<>>]
  /\ log = [p \in Nodes |-> <<>>]
  /\ txbuf = [p \in Nodes |-> TxInit]
  /\ got = [p \in Nodes |-> {}]
  /\ voteTag = [p \in Nodes |-> 0]
  /\ pchB = [p \in Nodes |-> NoHash]
  /\ chB = [p \in Nodes |-> NoHash]
  /\ props = {} /\ votes = {} /\ precommits = {} /\ commits = {}

Goto(p, s) == pc' = [pc EXCEPT ![p] = s]

-----------------------------------------------------------------------------
(* Block proposal *)

\* The proposal of p: it extends lB unless p's state has grade 0, in which
\* case it carries hconfirm, the hash of None computed once in __init__.
Proposal(p) ==
  [r |-> round[p], from |-> p, g |-> state[p].g,
   parent |-> IF state[p].g = 0 THEN None ELSE lB[p]]

\* The hash a proposal is known by (its hB).
HashOf(m) == <<m.r, m.from>>

\* blockproposal: a selected node takes a batch, signs and broadcasts.
ProposeBlock(p) ==
  /\ pc[p] = "idle"
  /\ Selected(p, round[p], Propose) /\ HasKey(round[p], Propose)
  /\ txbuf[p] >= Batch
  /\ txbuf' = [txbuf EXCEPT ![p] = @ - Batch]
  /\ props' = props \cup {Proposal(p)}
  /\ Goto(p, "bp")
  /\ UNCHANGED <<round, nodeVars, roundVars, votes, precommits, commits>>

\* blockproposal of a node that is not selected.
SitOut(p) ==
  /\ pc[p] = "idle"
  /\ ~Selected(p, round[p], Propose)
  /\ Goto(p, "bp")
  /\ UNCHANGED <<round, nodeVars, txbuf, roundVars, msgs>>

\* takeout_tx empties the buffer and waits for a transaction nobody puts there.
Starve(p) ==
  /\ pc[p] = "idle"
  /\ Selected(p, round[p], Propose)
  /\ txbuf[p] < Batch
  /\ txbuf' = [txbuf EXCEPT ![p] = 0]
  /\ Goto(p, "starved")
  /\ UNCHANGED <<round, nodeVars, roundVars, msgs>>

-----------------------------------------------------------------------------
(* Leader election and vote *)

\* A node that holds a grade ignores the proposals of grade 0.
Electable(p, m) ==
  (state[p].g = 2 \/ (state[p].g = 1 /\ lastcommit[p] = 1)) => m.g # 0

\* The proposals with the greatest VRF hash; the first one drained is kept.
Leaders(p, w) ==
  LET rank(m) == VrfHash[m.r][Propose][m.from]
      cand == {m \in w : Electable(p, m) /\ rank(m) > 0}
  IN {m \in cand : \A n \in cand : rank(n) <= rank(m)}

\* vote: a selected node signs and broadcasts the hash of its leader.
VoteOf(p, h) ==
  IF Selected(p, round[p], Vote) THEN {[r |-> round[p], from |-> p, hB |-> h]} ELSE {}

\* The end of the proposal wait: elect a leader and, if selected, vote for it.
ElectAndVote(p) ==
  /\ pc[p] = "bp" /\ TimeUp(p)
  /\ Selected(p, round[p], Vote) => HasKey(round[p], Vote)
  /\ \E w \in Drains(p, props) : \E leader \in Leaders(p, w) :
       /\ got' = [got EXCEPT ![p] = w]
       /\ votes' = votes \cup VoteOf(p, HashOf(leader))
  /\ Goto(p, "vote")
  /\ UNCHANGED <<round, nodeVars, txbuf, voteTag, pchB, chB, props, precommits, commits>>

\* No electable proposal was drained: leader_msg is None or unbound, and the
\* exception ends the node's greenlet.
NoLeader(p) ==
  /\ pc[p] = "bp" /\ TimeUp(p)
  /\ \E w \in Drains(p, props) : Leaders(p, w) = {}
  /\ Goto(p, "crashed")
  /\ UNCHANGED <<round, nodeVars, txbuf, roundVars, msgs>>

-----------------------------------------------------------------------------
(* Counting votes, precommit *)

\* precommit: a selected node broadcasts the hash h with the list of the votes
\* counted for it, or None with an empty list.
PrecommitOf(p, h, M) ==
  IF ~Selected(p, round[p], Precommit) THEN {}
  ELSE {[r |-> round[p], from |-> p,
         hB |-> IF h = NoHash THEN None ELSE h,
         len |-> IF h = NoHash THEN 0 ELSE Count(h, M)]}

\* The end of the vote wait: the last hash that reached the threshold is
\* precommitted with the list of its votes; without one a null precommit goes out.
CountVotes(p) ==
  /\ pc[p] = "vote" /\ TimeUp(p)
  /\ Selected(p, round[p], Precommit) => HasKey(round[p], Precommit)
  /\ \E w \in Drains(p, votes) :
       \E h \in (IF OverThreshold(w) = {} THEN {NoHash} ELSE OverThreshold(w)) :
         /\ pchB' = [pchB EXCEPT ![p] = h]
         /\ voteTag' = [voteTag EXCEPT ![p] = IF h = NoHash THEN 0 ELSE 1]
         /\ precommits' = precommits \cup PrecommitOf(p, h, w)
  /\ Goto(p, "pc")
  /\ UNCHANGED <<round, nodeVars, txbuf, got, chB, props, votes, commits>>

-----------------------------------------------------------------------------
(* Counting precommits, commit *)

\* commit: a selected node broadcasts c_hB, which is 0 when it found none.
CommitOf(p, h) ==
  IF Selected(p, round[p], Commit) THEN {[r |-> round[p], from |-> p, hB |-> h]} ELSE {}

\* The end of the precommit wait.  Every drained precommit overwrites pc_hB,
\* whether or not it is counted; c_hB is the last hash that reached the
\* threshold.  A node without a c_hB broadcasts one too, with o = 0.
CountPrecommits(p) ==
  /\ pc[p] = "pc" /\ TimeUp(p)
  /\ HasKey(round[p], Commit)
  /\ \E w \in Drains(p, precommits) :
       LET over == OverThreshold({m \in w : Enough(m.len)})
           lasts == IF w = {} THEN {pchB[p]} ELSE {m.hB : m \in w}
       IN \E last \in lasts :
          \E h \in (IF over = {} THEN {NoHash}
                    ELSE IF w # {} /\ last \in over THEN {last} ELSE over) :
            /\ pchB' = [pchB EXCEPT ![p] = last]
            /\ chB' = [chB EXCEPT ![p] = h]
            /\ commits' = commits \cup CommitOf(p, h)
  /\ Goto(p, "commit")
  /\ UNCHANGED <<round, nodeVars, txbuf, got, voteTag, props, votes, precommits>>

-----------------------------------------------------------------------------
(* Counting commits, grading, output *)

\* Mutant of Certified: the commits signed over "null" are counted too.
CertifiedUnverified(w) == IF OverThreshold(w) = {} THEN {NoQuorum} ELSE OverThreshold(w)

\* Mutant of Certified: `>' in place of `>=' in the threshold.
CertifiedStrict(w) ==
  LET over == {h \in Blocks : Enough(Count(h, w) - 1)}
  IN IF over = {} THEN {NoQuorum} ELSE over

\* vrify: a commit with o = 0 was signed over "null" and does not verify.
Verifies(m) == m.hB # NoHash

\* The g_hB values of a window of commits.
Certified(w) ==
  LET over == OverThreshold({m \in w : Verifies(m)})
  IN IF over = {} THEN {NoQuorum} ELSE over

\* Mutant of Grade: the grade 1 branch is tried before the grade 2 branch.
GradeOneFirst(p, g) ==
  IF g # NoQuorum THEN [b |-> g, r |-> round[p], g |-> 1]
  ELSE IF chB[p] = NoHash THEN [b |-> NoHash, r |-> round[p], g |-> 0]
  ELSE state[p]

\* self.state after the window, g_hB being g: kept as it is when the node has
\* a c_hB (o = 1) and no g_hB (pc = 0).
Grade(p, g) ==
  IF chB[p] = g THEN [b |-> g, r |-> round[p], g |-> 2]
  ELSE IF g # NoQuorum THEN [b |-> g, r |-> round[p], g |-> 1]
  ELSE IF chB[p] = NoHash THEN [b |-> NoHash, r |-> round[p], g |-> 0]
  ELSE state[p]

\* The local variables of fastconfirm_round go.
DropLocals(p) ==
  /\ got' = [got EXCEPT ![p] = {}]
  /\ voteTag' = [voteTag EXCEPT ![p] = 0]
  /\ pchB' = [pchB EXCEPT ![p] = NoHash]
  /\ chB' = [chB EXCEPT ![p] = NoHash]
  /\ UNCHANGED <<txbuf, msgs>>

\* Mutant of NextRound: one slot too many.
NextRoundTooLong(p) ==
  /\ round' = [round EXCEPT ![p] = @ + 1]
  /\ Goto(p, IF round[p] > Slots THEN "done" ELSE "idle")
  /\ DropLocals(p)

\* Mutant of NextRound: the round is not counted.
SameRoundAgain(p) ==
  /\ Goto(p, IF round[p] = Slots THEN "done" ELSE "idle")
  /\ DropLocals(p)
  /\ UNCHANGED round

\* self.round += 1, and the loop ends after the last slot.
NextRound(p) ==
  /\ round' = [round EXCEPT ![p] = @ + 1]
  /\ Goto(p, IF round[p] = Slots THEN "done" ELSE "idle")
  /\ DropLocals(p)

\* g_hB and the new state at the end of the commit window.
JudgeCommits(p) ==
  /\ pc[p] = "commit" /\ TimeUp(p)
  /\ \E w \in Drains(p, commits) : \E g \in Certified(w) :
       state' = [state EXCEPT ![p] = Grade(p, g)]

\* The block of m extends the tip of p.  A grade 1 proposal is the pair
\* (Block, lB), whose first element is a block and equals no hash.
Extends(p, m) == m.g # 1 /\ m.parent = lB[p]

\* Round 1 logs the block pc_hB stands for and takes B, the proposal drained
\* last, as its tip.
FinishFirstRound(p) ==
  /\ round[p] = 1
  /\ JudgeCommits(p)
  /\ IF voteTag[p] = 1
       THEN /\ pchB[p] \in {HashOf(m) : m \in got[p]}
            /\ log' = [log EXCEPT ![p] = Append(@, pchB[p])]
            /\ \E B \in got[p] : lB' = [lB EXCEPT ![p] = HashOf(B)]
       ELSE UNCHANGED <<log, lB>>
  /\ NextRound(p)
  /\ UNCHANGED <<lastcommit, tobe>>

\* block_dic[pc_hB] raises KeyError: pc_hB is the hash of the last precommit
\* drained, perhaps None or of a proposal p never drained.
UnknownBlock(p) ==
  /\ round[p] = 1 /\ voteTag[p] = 1
  /\ JudgeCommits(p)
  /\ pchB[p] \notin {HashOf(m) : m \in got[p]}
  /\ Goto(p, "crashed")
  /\ UNCHANGED <<round, lastcommit, lB, tobe, log, txbuf, roundVars, msgs>>

\* Mutant of Remaining: the flush reads the waiting blocks and leaves them.
RemainingAll(p, B) == tobe[p]

\* tobe after B was output: flushed unless B extends the tip.
Remaining(p, B) == IF Extends(p, B) THEN tobe[p] ELSE <<>>

\* Grade 2: B is output, after the waiting blocks unless it extends the tip.
Output(p, B) ==
  /\ log' = [log EXCEPT ![p] =
       (IF Extends(p, B) THEN @ ELSE @ \o tobe[p]) \o <<HashOf(B)>>]
  /\ tobe' = [tobe EXCEPT ![p] = Remaining(p, B)]
  /\ lB' = [lB EXCEPT ![p] = HashOf(B)]
  /\ lastcommit' = [lastcommit EXCEPT ![p] = 1]

\* Mutant of Defer: lastcommit is not reset.
DeferKeepingFlag(p, B) ==
  /\ tobe' = [tobe EXCEPT ![p] = Append(@, HashOf(B))]
  /\ UNCHANGED <<log, lB, lastcommit>>

\* Any other grade: B waits.
Defer(p, B) ==
  /\ tobe' = [tobe EXCEPT ![p] = Append(@, HashOf(B))]
  /\ lastcommit' = [lastcommit EXCEPT ![p] = 0]
  /\ UNCHANGED <<log, lB>>

\* From round 2 on, the grade decides what becomes of B, the last proposal drained.
FinishRound(p) ==
  /\ round[p] > 1
  /\ JudgeCommits(p)
  /\ \E B \in got[p] : IF state'[p].g = 2 THEN Output(p, B) ELSE Defer(p, B)
  /\ NextRound(p)

-----------------------------------------------------------------------------
(* Failures *)

\* p would sign its next message and has no round key left for it: the commit
\* is signed by everyone, before the committee is drawn.
KeyMissing(p) ==
  LET s == StageOf(pc[p]) + 1 IN
  /\ pc[p] \in {"idle", "bp", "vote", "pc"}
  /\ pc[p] = "idle" => txbuf[p] >= Batch
  /\ pc[p] # "idle" => TimeUp(p)
  /\ s = Commit \/ Selected(p, round[p], s)
  /\ ~HasKey(round[p], s)

\* Mutant of KeysExhausted: the exception is swallowed and the step retried.
RetryWithoutKey(p) == KeyMissing(p) /\ UNCHANGED vars

\* rsk[position] raises IndexError.
KeysExhausted(p) ==
  /\ KeyMissing(p)
  /\ txbuf' = [txbuf EXCEPT ![p] = IF pc[p] = "idle" THEN @ - Batch ELSE @]
  /\ Goto(p, "crashed")
  /\ UNCHANGED <<round, nodeVars, roundVars, msgs>>

\* The process of p is killed.  A broadcast it does not complete is one that
\* some drains miss.
Crash(p) ==
  /\ p \in Live
  /\ Cardinality({q \in Nodes : pc[q] = "crashed"}) < MaxCrash
  /\ Goto(p, "crashed")
  /\ UNCHANGED <<round, nodeVars, txbuf, roundVars, msgs>>

-----------------------------------------------------------------------------
\* A step of p's own greenlet.
Step(p) ==
  \/ ProposeBlock(p) \/ SitOut(p) \/ Starve(p)
  \/ ElectAndVote(p) \/ NoLeader(p)
  \/ CountVotes(p)
  \/ CountPrecommits(p)
  \/ FinishFirstRound(p) \/ UnknownBlock(p) \/ FinishRound(p)
  \/ KeysExhausted(p)

\* Every process has ended, or waits for transactions for ever.
Terminating == Live = {} /\ UNCHANGED vars

Next == (\E p \in Nodes : Step(p) \/ Crash(p)) \/ Terminating

Spec == Init /\ [][Next]_vars

\* A greenlet whose wait is over is scheduled: every wait is a loop of
\* gevent.sleep and the drains take what is there.
Fairness == \A p \in Nodes : WF_vars(Step(p))
FairSpec == Spec /\ Fairness
-----------------------------------------------------------------------------
(* Properties *)

GradeStates == [b : Blocks \cup {NoHash}, r : 0..Slots, g : 0..2]
ProposalMsgs == [r : Rounds, from : Nodes, g : 0..2, parent : Blocks \cup {None}]
VoteMsgs == [r : Rounds, from : Nodes, hB : Blocks]
PrecommitMsgs == [r : Rounds, from : Nodes, hB : Blocks, len : Nat]
                   \cup [r : Rounds, from : Nodes, hB : {None}, len : {0}]
CommitMsgs == [r : Rounds, from : Nodes, hB : Blocks \cup {NoHash}]

\* Every variable has its type, and the round loop ends with the last slot
\* (run_fast: while self.round <= self.SLOTS_NUM).
TypeOK ==
  /\ pc \in [Nodes -> {"idle", "bp", "vote", "pc", "commit"} \cup Stopped]
  /\ round \in [Nodes -> 1..Slots+1]
  /\ \A p \in Nodes : pc[p] = "done" <=> round[p] = Slots + 1
  /\ state \in [Nodes -> GradeStates]
  /\ lastcommit \in [Nodes -> {0, 1}]
  /\ lB \in [Nodes -> Blocks \cup {None}]
  /\ tobe \in [Nodes -> Seq(Blocks)]
  /\ log \in [Nodes -> Seq(Blocks)]
  /\ txbuf \in [Nodes -> 0..TxInit]
  /\ got \in [Nodes -> SUBSET props]
  /\ voteTag \in [Nodes -> {0, 1}]
  /\ pchB \in [Nodes -> Blocks \cup {NoHash, None}]
  /\ chB \in [Nodes -> Blocks \cup {NoHash}]
  /\ props \in SUBSET ProposalMsgs
  /\ votes \in SUBSET VoteMsgs
  /\ precommits \in SUBSET PrecommitMsgs
  /\ commits \in SUBSET CommitMsgs

OfRound(M, r, h) == {m \in M : m.r = r /\ m.hB = h}

\* Each decision rests on a quorum of the step before it, whatever is lost,
\* late or killed: a graded block has a quorum of verifiable commits, a commit
\* a quorum of precommits, a precommit a quorum of votes, a vote a proposal.
CertificateChain ==
  /\ \A m \in votes : \E b \in props : b.r = m.r /\ HashOf(b) = m.hB
  /\ \A m \in precommits :
       m.hB # None => Enough(Cardinality(OfRound(votes, m.r, m.hB)))
  /\ \A m \in commits :
       m.hB # NoHash => Enough(Cardinality(OfRound(precommits, m.r, m.hB)))
  /\ \A p \in Nodes :
       state[p].g > 0 =>
         /\ state[p].b # NoHash
         /\ Enough(Cardinality(OfRound(commits, state[p].r, state[p].b)))

\* Twice the threshold 0.8 f + 1 exceeds N, so two quorums share a node (a
\* relation the code nowhere asks for, and that fails when N >= 3f+1, f > 0).
QuorumsIntersect == 8 * F + 10 > 5 * Cardinality(Nodes)

\* Where quorums intersect, no two nodes grade different blocks of one round
\* above 0, even though each counts a different subset of the messages and
\* c_hB and g_hB depend on the order of arrival.
GradedAgreement ==
  QuorumsIntersect =>
    \A p, q \in Nodes :
      /\ state[p].g > 0 /\ state[q].g > 0
      /\ state[p].r = state[q].r
      => state[p].b = state[q].b

\* A node broadcasts at most one message of each step in a round, so no round
\* key signs two messages and the counts of messages are counts of nodes.
OneMessagePerStep ==
  \A M \in {props, votes, precommits, commits} :
    \A m, n \in M : m.r = n.r /\ m.from = n.from => m = n

RoundsOf(blocks) == {blocks[i][1] : i \in DOMAIN blocks}

\* Every finished round from the second on leaves exactly one block, which is
\* either logged or waiting in tobe: the flush neither drops a waiting block
\* nor outputs one twice, through every mix of grades; tobe keeps round order.
RoundAccounting ==
  \A p \in Nodes :
    LET all == log[p] \o tobe[p] IN
    /\ RoundsOf(all) \ {1} = 2..(round[p] - 1)
    /\ Cardinality(RoundsOf(all)) = Len(all)
    /\ \A i, j \in DOMAIN tobe[p] : i < j => tobe[p][i][1] < tobe[p][j][1]

\* The tip is the block output last, once a round from the second on has
\* output, and it is the last finished round's block while lastcommit is 1,
\* however many rounds without output went by.
TipIsLastOutput ==
  \A p \in Nodes :
    /\ RoundsOf(log[p]) \ {1} # {} => lB[p] = log[p][Len(log[p])]
    /\ lastcommit[p] = 1 => log[p] # <<>> /\ lB[p][1] = round[p] - 1

\* With delta above every delay, a drain misses at most MaxMiss messages: a
\* block with a quorum of commits to spare is seen graded by every node that
\* finishes the round, so no node goes on with the state of an earlier round.
GradePropagation ==
  Synchronous =>
    \A p \in Nodes, c \in commits :
      /\ round[p] = c.r + 1
      /\ c.hB # NoHash
      /\ Enough(Cardinality(OfRound(commits, c.r, c.hB)) - MaxMiss)
      => state[p].r = c.r /\ state[p].g > 0

Committee(r, s) == {p \in Nodes : Selected(p, r, s)}

\* Enough committee members, transactions and round keys for every round,
\* MaxCrash crashes allowed for.
WellProvisioned ==
  /\ \A r \in Rounds : Cardinality(Committee(r, Propose)) > MaxCrash
  /\ \A r \in Rounds : \A s \in {Vote, Precommit, Commit} :
       Enough(Cardinality(Committee(r, s)) - MaxCrash)
  /\ Slots * Batch <= TxInit /\ 4 * Slots <= KeyNum

\* The VRF outputs of the proposers of a round differ, as hashes do; of two
\* proposals that tie, each node would keep the one it drained first.
NoTies ==
  \A r \in Rounds : \A p, q \in Committee(r, Propose) :
    VrfHash[r][Propose][p] = VrfHash[r][Propose][q] => p = q

\* When delta covers all delays and nothing is lost (on the way, by arriving
\* before its receiver's round, or by a kill in the middle of a broadcast),
\* every node that finishes a round holds grade 2 of that very round on the
\* same block, and no node dies of an exception, whenever up to MaxCrash of the
\* others are killed.
SynchronousAgreement ==
  Synchronous /\ MaxMiss = 0 /\ WellProvisioned /\ NoTies =>
    /\ \A p \in Nodes : round[p] > 1 => state[p].g = 2 /\ state[p].r = round[p] - 1
    /\ \A p, q \in Nodes : round[p] = round[q] => state[p].b = state[q].b
    /\ Cardinality({p \in Nodes : pc[p] = "crashed"}) <= MaxCrash

\* Every node ends: it runs all its rounds, or dies, or is out of transactions.
\* No crashed or starved node makes another wait for ever.
Termination == <>(Live = {})

-----------------------------------------------------------------------------
(* What the comments and tests of the code say, and the code does not do *)

\* confirm_test/fc_c_test.py:89 "Consistency check": the nodes that ran all
\* the rounds have the same output.
SameOutput ==
  \A p, q \in Nodes : pc[p] = "done" /\ pc[q] = "done" => log[p] = log[q]
=============================================================================
