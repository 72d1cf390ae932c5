-------------------------- MODULE FastConfirmQueues --------------------------
(***************************************************************************)
(* FastConfirm with its receive loop: the messages in flight, the queue per *)
(* tag and round that _recv_loop files them in, the new queues each round   *)
(* starts with, and the drains that take one message at a time and yield    *)
(* (gevent.sleep(0)) to the receive loop in between, so that more messages  *)
(* may arrive in the middle of a drain.  What the module FastConfirm chooses *)
(* at the end of a drain (a subset of the messages, the last proposal, the  *)
(* last hash over the threshold) is here computed message by message in the *)
(* order of arrival.  Taking a message is local to the node, so the wait of *)
(* delta before a drain is not a step of its own.                           *)
(*                                                                          *)
(* The module adds to FastConfirm's variables and replaces its steps; its   *)
(* behaviours are behaviours of FastConfirm (with Synchronous = FALSE and   *)
(* no bound on what a drain misses), checked as the property Spec.          *)
(***************************************************************************)
EXTENDS FastConfirm

\* leader_msg is None until a proposal is elected.
ASSUME LeaderAssumption == \A m \in ProposalMsgs : m # None

VARIABLES
  net,      \* the messages sent and not yet received, with tag and receiver
  box,      \* box[p][tag][r]: _per_bp, _per_vote, _per_pc and _per_commit
  seen,     \* the messages the running drain of p has counted
  leader,   \* leader_msg
  B,        \* B: the proposal drained last
  hit,      \* pc_hB, c_hB or g_hB while the drain that finds it runs
  pcNow     \* pc_hB while the precommits are drained

drainVars == <<seen, leader, B, hit, pcNow>>
qvars == <<vars, net, box, drainVars>>

Tags == {"F_BP", "F_VOTE", "F_PC", "F_COMMIT"}

\* The tag of the queue p waits to drain, or is draining.
TagAt(s) == CASE s = "bp" -> "F_BP" [] s = "vote" -> "F_VOTE"
              [] s = "pc" -> "F_PC" [] s = "commit" -> "F_COMMIT"
StageOfTag(t) == CASE t = "F_BP" -> 1 [] t = "F_VOTE" -> 2
                   [] t = "F_PC" -> 3 [] t = "F_COMMIT" -> 4

QInit ==
  /\ Init
  /\ net = {}
  /\ box = [p \in Nodes |-> [t \in Tags |-> [r \in Rounds |-> <<>>]]]
  /\ seen = [p \in Nodes |-> {}]
  /\ leader = [p \in Nodes |-> None]
  /\ B = [p \in Nodes |-> None]
  /\ hit = [p \in Nodes |-> NoHash]
  /\ pcNow = [p \in Nodes |-> NoHash]

-----------------------------------------------------------------------------
(* The network and the receive loop *)

\* e is for a drain that is over, or for a node that has stopped.  Such a
\* message may still be filed and is never read, so the model forgets it.
TooLate(e) ==
  \/ e.m.r < round[e.to]
  \/ e.m.r = round[e.to] /\ StageOfTag(e.tag) < StageOf(pc[e.to])
  \/ pc[e.to] \in Stopped

\* send(i, o) for i in range(N): what this step adds to the messages sent is
\* under way to every node, the sender included.
Broadcast ==
  LET new == [F_BP |-> props' \ props, F_VOTE |-> votes' \ votes,
              F_PC |-> precommits' \ precommits, F_COMMIT |-> commits' \ commits]
      under == net \cup UNION {[to : Nodes, tag : {t}, m : new[t]] : t \in Tags}
  IN net' = {e \in under : ~TooLate(e)'}

\* _recv_loop files the message by tag and round.  The loop first runs when
\* the main greenlet first yields, which is after it made round 1's queues.
Receive(e) ==
  /\ e \in net
  /\ pc[e.to] = "idle" => round[e.to] > 1
  /\ net' = net \ {e}
  /\ box' = [box EXCEPT ![e.to][e.tag][e.m.r] = Append(@, e.m)]
  /\ UNCHANGED <<vars, drainVars>>

\* run_fast makes the queues of a round when the round starts, since
\* _per_round_recv never holds the round: what was filed early is dropped.
FreshQueues(p) ==
  box' = [box EXCEPT ![p] = [t \in Tags |-> [@[t] EXCEPT ![round[p]] = <<>>]]]

EnterRound(p) ==
  /\ ProposeBlock(p) \/ SitOut(p) \/ Starve(p)
  /\ FreshQueues(p)
  /\ Broadcast
  /\ UNCHANGED drainVars

-----------------------------------------------------------------------------
(* Draining *)

Inbox(p) == box[p][TagAt(pc[p])][round[p]]

\* Mutant of Pop: the message is looked at and left in the queue.
Peek(p) == UNCHANGED box

\* get(): the head of the queue is removed.
Pop(p) == box' = [box EXCEPT ![p][TagAt(pc[p])][round[p]] = Tail(@)]

Waiting(p, s) == pc[p] = s /\ Inbox(p) # <<>>
Drained(p, s) == pc[p] = s /\ Inbox(p) = <<>>

\* Mutant of Quorum: one message short of the threshold.
QuorumLessOne(p, h, M) == Enough(Count(h, M) + 1)

\* qsize() >= 2*self.f+1 for the hash h, M being the messages counted.
Quorum(p, h, M) == Enough(Count(h, M))

\* hit after p counted m: voteset[hB].put(sig) and the check of its size.
CountIn(p, m) ==
  /\ seen' = [seen EXCEPT ![p] = @ \cup {m}]
  /\ hit' = [hit EXCEPT ![p] = IF Quorum(p, m.hB, seen[p] \cup {m}) THEN m.hB ELSE @]

Rank(m) == IF m = None THEN 0 ELSE VrfHash[m.r][Propose][m.from]

\* One pass of the proposal loop: B is overwritten, the leader only by an
\* electable proposal with a greater hash.
TakeProposal(p) ==
  /\ Waiting(p, "bp")
  /\ LET m == Head(Inbox(p)) IN
       /\ seen' = [seen EXCEPT ![p] = @ \cup {m}]
       /\ B' = [B EXCEPT ![p] = m]
       /\ leader' = [leader EXCEPT ![p] =
            IF Electable(p, m) /\ Rank(m) > Rank(@) THEN m ELSE @]
  /\ Pop(p)
  /\ UNCHANGED <<vars, net, hit, pcNow>>

\* The proposal queue is empty: vote for the leader, if selected.
VoteForLeader(p) ==
  /\ Drained(p, "bp") /\ leader[p] # None
  /\ Selected(p, round[p], Vote) => HasKey(round[p], Vote)
  /\ got' = [got EXCEPT ![p] = seen[p]]
  /\ votes' = votes \cup VoteOf(p, HashOf(leader[p]))
  /\ Goto(p, "vote")
  /\ seen' = [seen EXCEPT ![p] = {}]
  /\ leader' = [leader EXCEPT ![p] = None]
  /\ UNCHANGED <<round, nodeVars, txbuf, voteTag, pchB, chB, props, precommits, commits>>
  /\ Broadcast
  /\ UNCHANGED <<box, B, hit, pcNow>>

\* Mutant of DieWithoutLeader: the node waits for an electable proposal.
KeepWaiting(p) == Drained(p, "bp") /\ leader[p] = None /\ UNCHANGED qvars

\* The proposal queue is empty and there is no leader: leader_msg[4] raises.
DieWithoutLeader(p) ==
  /\ Drained(p, "bp") /\ leader[p] = None
  /\ Goto(p, "crashed")
  /\ UNCHANGED <<round, nodeVars, txbuf, roundVars, msgs>>
  /\ Broadcast
  /\ UNCHANGED <<box, drainVars>>

TakeVote(p) ==
  /\ Waiting(p, "vote")
  /\ CountIn(p, Head(Inbox(p)))
  /\ Pop(p)
  /\ UNCHANGED <<vars, net, leader, B, pcNow>>

\* The vote queue is empty: precommit, if selected.
SendPrecommit(p) ==
  /\ Drained(p, "vote")
  /\ Selected(p, round[p], Precommit) => HasKey(round[p], Precommit)
  /\ pchB' = [pchB EXCEPT ![p] = hit[p]]
  /\ pcNow' = [pcNow EXCEPT ![p] = hit[p]]
  /\ voteTag' = [voteTag EXCEPT ![p] = IF hit[p] = NoHash THEN 0 ELSE 1]
  /\ precommits' = precommits \cup PrecommitOf(p, hit[p], seen[p])
  /\ Goto(p, "pc")
  /\ seen' = [seen EXCEPT ![p] = {}]
  /\ hit' = [hit EXCEPT ![p] = NoHash]
  /\ UNCHANGED <<round, nodeVars, txbuf, got, chB, props, votes, commits>>
  /\ Broadcast
  /\ UNCHANGED <<box, leader, B>>

\* One pass of the precommit loop: pc_hB is overwritten before the check.
TakePrecommit(p) ==
  /\ Waiting(p, "pc")
  /\ LET m == Head(Inbox(p)) IN
       /\ pcNow' = [pcNow EXCEPT ![p] = m.hB]
       /\ IF Enough(m.len) THEN CountIn(p, m) ELSE UNCHANGED <<seen, hit>>
  /\ Pop(p)
  /\ UNCHANGED <<vars, net, leader, B>>

\* The precommit queue is empty: commit, if selected.
SendCommit(p) ==
  /\ Drained(p, "pc")
  /\ HasKey(round[p], Commit)
  /\ pchB' = [pchB EXCEPT ![p] = pcNow[p]]
  /\ chB' = [chB EXCEPT ![p] = hit[p]]
  /\ commits' = commits \cup CommitOf(p, hit[p])
  /\ Goto(p, "commit")
  /\ seen' = [seen EXCEPT ![p] = {}]
  /\ hit' = [hit EXCEPT ![p] = NoQuorum]
  /\ pcNow' = [pcNow EXCEPT ![p] = NoHash]
  /\ UNCHANGED <<round, nodeVars, txbuf, got, voteTag, props, votes, precommits>>
  /\ Broadcast
  /\ UNCHANGED <<box, leader, B>>

\* Mutant of TakeCommit: a commit signed over "null" is counted.
TakeCommitUnverified(p) ==
  /\ Waiting(p, "commit")
  /\ CountIn(p, Head(Inbox(p)))
  /\ Pop(p)
  /\ UNCHANGED <<vars, net, leader, B, pcNow>>

\* One commit, taken with get_nowait before the time is over.
TakeCommit(p) ==
  /\ Waiting(p, "commit")
  /\ LET m == Head(Inbox(p)) IN
       IF Verifies(m) THEN CountIn(p, m) ELSE UNCHANGED <<seen, hit>>
  /\ Pop(p)
  /\ UNCHANGED <<vars, net, leader, B, pcNow>>

\* The time for commits is over.  What is left in the queues of the round is
\* not read again; the model empties them.
EndRound(p) ==
  /\ pc[p] = "commit"
  /\ state' = [state EXCEPT ![p] = Grade(p, hit[p])]
  /\ IF round[p] > 1
       THEN /\ IF state'[p].g = 2 THEN Output(p, B[p]) ELSE Defer(p, B[p])
            /\ NextRound(p)
       ELSE /\ IF voteTag[p] = 0 THEN NextRound(p) /\ UNCHANGED <<log, lB>>
               ELSE IF pchB[p] \in {HashOf(m) : m \in got[p]}
                 THEN /\ log' = [log EXCEPT ![p] = Append(@, pchB[p])]
                      /\ lB' = [lB EXCEPT ![p] = HashOf(B[p])]
                      /\ NextRound(p)
                 ELSE /\ Goto(p, "crashed")
                      /\ UNCHANGED <<log, lB, round, txbuf, roundVars, msgs>>
            /\ UNCHANGED <<lastcommit, tobe>>
  /\ seen' = [seen EXCEPT ![p] = {}]
  /\ B' = [B EXCEPT ![p] = None]
  /\ hit' = [hit EXCEPT ![p] = NoHash]
  /\ FreshQueues(p)
  /\ Broadcast
  /\ UNCHANGED <<leader, pcNow>>

-----------------------------------------------------------------------------
\* An exception at a missing key; the queues play no part.
DieWithoutKey(p) ==
  /\ KeysExhausted(p)
  /\ pc[p] # "idle" => Inbox(p) = <<>>
  /\ Broadcast
  /\ UNCHANGED <<box, drainVars>>

QCrash(p) == Crash(p) /\ Broadcast /\ UNCHANGED <<box, drainVars>>

QStep(p) ==
  \/ EnterRound(p)
  \/ TakeProposal(p) \/ VoteForLeader(p) \/ DieWithoutLeader(p)
  \/ TakeVote(p) \/ SendPrecommit(p)
  \/ TakePrecommit(p) \/ SendCommit(p)
  \/ TakeCommit(p) \/ EndRound(p)
  \/ DieWithoutKey(p)

QNext ==
  \/ \E p \in Nodes : QStep(p) \/ QCrash(p)
  \/ \E e \in net : Receive(e)
  \/ Live = {} /\ UNCHANGED qvars

QSpec == QInit /\ [][QNext]_qvars

\* The main greenlet of a node goes on; nothing is assumed of the network.
QFairSpec == QSpec /\ \A p \in Nodes : WF_qvars(QStep(p))

-----------------------------------------------------------------------------
(* Properties; that the queues implement the rounds is the property Spec *)

\* No message is delivered, filed or counted twice, and none is filed under
\* another round than its own, although the receive loop files messages while
\* a drain is under way and messages of later steps and rounds come early.
ExactlyOnce ==
  \A p \in Nodes, t \in Tags, r \in Rounds :
    \A i \in DOMAIN box[p][t][r] :
      LET m == box[p][t][r][i] IN
      /\ m.r = r
      /\ \A j \in DOMAIN box[p][t][r] : i # j => box[p][t][r][j] # m
      /\ [to |-> p, tag |-> t, m |-> m] \notin net
      /\ pc[p] \notin Stopped \cup {"idle"} /\ TagAt(pc[p]) = t => m \notin seen[p]

\* A node ends whatever the network does: no wait is for a message.
QTermination == <>(Live = {})

\* fastconfirm.py:604 "Maintain an *unbounded* recv queue for each epoch": what
\* was filed for a round is still there when the node starts the round.
EarlyMessagesKept ==
  [][\A p \in Nodes, t \in Tags :
       pc[p] = "idle" /\ pc'[p] # "crashed"
         => Len(box'[p][t][round[p]]) >= Len(box[p][t][round[p]])]_qvars
=============================================================================
