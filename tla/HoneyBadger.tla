------------------------------ MODULE HoneyBadger ------------------------------
(***************************************************************************)
(* The rounds of HoneyBadgerBFT: each node takes B transactions from its    *)
(* buffer and proposes them encrypted; the common subset of the round fixes *)
(* whose proposals are in; only then does a node send its decryption        *)
(* shares; the shares of f + 1 nodes give the block, and what the block     *)
(* does not hold goes back to the buffer.                                   *)
(*                                                                          *)
(* The common subset of a round is what CommonSubset shows it to be: one    *)
(* set of N - f nodes or more, the same for all.  Messages are queued by    *)
(* round without bound, so that one sent early waits: what was sent is kept *)
(* here and received at any time.                                           *)
(*                                                                          *)
(* _run_round passes honeybadger_block the keywords acs_in and acs_out,     *)
(* which it does not have: the call raises TypeError.  CallMatches = FALSE  *)
(* is the code as it is; CallMatches = TRUE has the parameter names and the *)
(* proposal the callee asks for, and shows what the rest of the code does.  *)
(***************************************************************************)
EXTENDS Integers, FiniteSets, Sequences, SequencesExt

CONSTANTS
  Nodes,         \* the N parties
  Faulty,        \* the parties that do not follow the protocol
  F,             \* f
  B,             \* B: the transactions of a proposal
  RoundsToRun,   \* K: the rounds a node runs
  Tx,            \* the transactions
  Submitted,     \* Submitted[p]: what is submitted to p, in order
  FaultyBatch,   \* the transactions in a proposal of a faulty node
  CallMatches,   \* whether the call of honeybadger_block names its parameters
  None           \* Python's None

Correct == Nodes \ Faulty
N == Cardinality(Nodes)
Rounds == 0 .. RoundsToRun - 1

\* Assumed of the constants.
NodesAssumption == IsFiniteSet(Nodes) /\ Faulty \subseteq Nodes
ResilienceAssumption == F \in Nat /\ F < N /\ Cardinality(Faulty) <= F
BatchAssumption == B \in Nat \ {0} /\ RoundsToRun \in Nat \ {0}
TxAssumption == Submitted \in [Correct -> Seq(Tx)] /\ FaultyBatch \subseteq Tx
NoneAssumption == (\A S \in SUBSET Nodes : None # S) /\ (\A S \in SUBSET Tx : None # S)

VARIABLES
  pc,         \* what the main greenlet waits for, or the exception that ended it
  round,      \* round
  pending,    \* pending[p]: what is still to be submitted to p
  buffer,     \* transaction_buffer
  batch,      \* batch[p]: tx_to_send
  proposed,   \* proposed[r][p]: the transactions p proposed in round r, or None
  subset,     \* subset[r]: the nodes whose proposals of round r are in, or None
  shares,     \* shares[r]: the nodes that sent their decryption shares of r
  received,   \* received[p]: the nodes of shares_received, with "all are good"
  blocks      \* blocks[p]: the blocks p delivered, in order

vars == <<pc, round, pending, buffer, batch, proposed, subset, shares, received, blocks>>

Init ==
  /\ pc = [p \in Correct |-> "start"]
  /\ round = [p \in Correct |-> 0]
  /\ pending = Submitted
  /\ buffer = [p \in Correct |-> <<>>]
  /\ batch = [p \in Correct |-> <<>>]
  /\ proposed = [r \in Rounds |-> [p \in Correct |-> None]]
  /\ subset = [r \in Rounds |-> None]
  /\ shares = [r \in Rounds |-> {}]
  /\ received = [p \in Correct |-> {}]
  /\ blocks = [p \in Correct |-> <<>>]

-----------------------------------------------------------------------------
\* submit_tx, at any time.
SubmitTx(p) ==
  /\ pending[p] # <<>>
  /\ buffer' = [buffer EXCEPT ![p] = Append(@, Head(pending[p]))]
  /\ pending' = [pending EXCEPT ![p] = Tail(@)]
  /\ UNCHANGED <<pc, round, batch, proposed, subset, shares, received, blocks>>

\* The start of a round: B times popleft, then the call of honeybadger_block,
\* which hands the proposal to the node's own broadcast.  popleft on an empty
\* buffer raises after what was there is popped.
StartRound(p) ==
  /\ pc[p] = "start"
  /\ IF Len(buffer[p]) < B
       THEN /\ pc' = [pc EXCEPT ![p] = "IndexError"]
            /\ buffer' = [buffer EXCEPT ![p] = <<>>]
            /\ UNCHANGED <<batch, proposed>>
       ELSE /\ batch' = [batch EXCEPT ![p] = SubSeq(buffer[p], 1, B)]
            /\ buffer' = [buffer EXCEPT ![p] = SubSeq(@, B + 1, Len(@))]
            /\ IF CallMatches
                 THEN /\ proposed' = [proposed EXCEPT ![round[p]][p] = ToSet(batch'[p])]
                      /\ pc' = [pc EXCEPT ![p] = "acs"]
                 ELSE /\ pc' = [pc EXCEPT ![p] = "TypeError"]
                      /\ UNCHANGED proposed
  /\ UNCHANGED <<round, pending, subset, shares, received, blocks>>

InSubset(r, S) ==
  /\ S \subseteq Faulty \cup {p \in Correct : proposed[r][p] # None}
  /\ Cardinality(S) >= N - F

\* The N broadcasts, the N agreements and the common subset over them.
FixSubset(r, S) ==
  /\ subset[r] = None /\ InSubset(r, S)
  /\ subset' = [subset EXCEPT ![r] = S]
  /\ UNCHANGED <<pc, round, pending, buffer, batch, proposed, shares, received, blocks>>

\* acs_get_out returns: the shares for the proposals that are in go to all.
SendShares(p) ==
  /\ pc[p] = "acs" /\ subset[round[p]] # None
  /\ shares' = [shares EXCEPT ![round[p]] = @ \cup {p}]
  /\ pc' = [pc EXCEPT ![p] = "shares"]
  /\ UNCHANGED <<round, pending, buffer, batch, proposed, subset, received, blocks>>

\* Mutant of Block: what the proposers have taken out by now.
BlockOfBatches(r) ==
  UNION {IF q \in Faulty THEN FaultyBatch ELSE ToSet(batch[q]) : q \in subset[r]}

\* The block: the transactions of the proposals that are in.
Block(r) ==
  UNION {IF q \in Faulty THEN FaultyBatch ELSE proposed[r][q] : q \in subset[r]}

\* Mutants of PutBack: the whole batch goes back, or nothing does.
PutBackAll(p, block) == Reverse(batch[p]) \o buffer[p]
PutBackNothing(p, block) == buffer[p]

\* appendleft of the transactions of the batch that are not in the block, one
\* after the other: the last one comes first.
PutBack(p, block) ==
  LET back[i \in 0 .. Len(batch[p])] ==
        IF i = 0 THEN buffer[p]
        ELSE IF batch[p][i] \in block THEN back[i - 1]
        ELSE <<batch[p][i]>> \o back[i - 1]
  IN back[Len(batch[p])]

\* combine_shares verifies every share and raises when one is bad; else the
\* block is delivered and the next round starts.
Decrypt(p, allGood) ==
  LET r == round[p] IN
  IF ~allGood
    THEN /\ pc' = [pc EXCEPT ![p] = "AssertionError"]
         /\ UNCHANGED <<round, buffer, batch, blocks>>
    ELSE /\ blocks' = [blocks EXCEPT ![p] = Append(@, Block(r))]
         /\ buffer' = [buffer EXCEPT ![p] = PutBack(p, Block(r))]
         /\ batch' = [batch EXCEPT ![p] = <<>>]
         /\ round' = [round EXCEPT ![p] = r + 1]
         /\ pc' = [pc EXCEPT ![p] = IF r + 1 >= RoundsToRun THEN "done" ELSE "start"]

Needed == F + 1

\* tpke_recv: the shares of q, its second ones are ignored.  With f + 1 nodes'
\* shares the wait ends.  Those of a faulty node may be bad.
ReceiveShares(p, q, good) ==
  LET now == received[p] \cup {<<q, good>>} IN
  /\ pc[p] = "shares" /\ \A x \in received[p] : x[1] # q
  /\ q \in shares[round[p]] \cup Faulty /\ (q \in Correct => good)
  /\ IF Cardinality(now) < Needed
       THEN /\ received' = [received EXCEPT ![p] = now]
            /\ UNCHANGED <<pc, round, buffer, batch, blocks>>
       ELSE /\ received' = [received EXCEPT ![p] = {}]
            /\ Decrypt(p, \A x \in now : x[2])
  /\ UNCHANGED <<pending, proposed, subset, shares>>

-----------------------------------------------------------------------------
\* Nothing is left to do, or a node waits for others that have ended.
Next ==
  \/ \E p \in Correct :
       \/ SubmitTx(p) \/ StartRound(p) \/ SendShares(p)
       \/ \E q \in Nodes, good \in BOOLEAN : ReceiveShares(p, q, good)
  \/ \E r \in Rounds, S \in SUBSET Nodes : FixSubset(r, S)

Spec == Init /\ [][Next]_vars

\* Submitted transactions arrive, gevent runs what can run, CommonSubset
\* terminates once every correct node has proposed, and shares that were sent
\* arrive.  Nothing faulty is needed.
Fairness ==
  /\ \A p \in Correct : WF_vars(SubmitTx(p)) /\ WF_vars(StartRound(p)) /\ WF_vars(SendShares(p))
  /\ \A p \in Correct : WF_vars(\E q \in Correct : ReceiveShares(p, q, TRUE))
  /\ \A r \in Rounds : WF_vars(
       (\A p \in Correct : proposed[r][p] # None) /\ \E S \in SUBSET Nodes : FixSubset(r, S))

FairSpec == Spec /\ Fairness

-----------------------------------------------------------------------------
(* Properties *)

TypeOK ==
  /\ pc \in [Correct -> {"start", "acs", "shares", "done",
                         "IndexError", "TypeError", "AssertionError"}]
  /\ round \in [Correct -> 0 .. RoundsToRun]
  /\ \A p \in Correct :
       /\ ToSet(pending[p]) \cup ToSet(buffer[p]) \cup ToSet(batch[p]) \subseteq Tx
       /\ received[p] \subseteq Nodes \X BOOLEAN /\ Cardinality(received[p]) <= F
       /\ Len(blocks[p]) = round[p] /\ \A i \in 1 .. round[p] : blocks[p][i] \subseteq Tx
  /\ proposed \in [Rounds -> [Correct -> (SUBSET Tx) \cup {None}]]
  /\ subset \in [Rounds -> (SUBSET Nodes) \cup {None}]
  /\ shares \in [Rounds -> SUBSET Correct]

\* Two nodes deliver the same blocks in the same order, whoever is ahead and
\* whichever f + 1 nodes' shares each of them used.
SameBlocks ==
  \A p, q \in Correct : IsPrefix(blocks[p], blocks[q]) \/ IsPrefix(blocks[q], blocks[p])

\* While a node runs, what was submitted to it is still to be proposed, is
\* being proposed or has been delivered: a proposal that did not get in is
\* not lost.
NothingLost ==
  \A p \in Correct : pc[p] \in {"start", "acs", "shares", "done"} =>
    ToSet(Submitted[p]) \subseteq
      ToSet(pending[p] \o buffer[p] \o batch[p]) \cup UNION ToSet(blocks[p])

\* A transaction submitted to one node is delivered once.
DeliveredOnce ==
  \A p \in Correct : \A i, j \in DOMAIN blocks[p] :
    i # j => blocks[p][i] \cap blocks[p][j] \subseteq FaultyBatch

\* Every node runs all its rounds, however few of the proposals get in, unless
\* a buffer runs dry or a faulty node's shares are bad.
Termination ==
  <>(\/ \A p \in Correct : pc[p] = "done"
     \/ \E p \in Correct : pc[p] \in {"IndexError", "AssertionError"})

\* "Run one protocol round.": a block comes of it, unless a buffer is dry or
\* shares are bad.
OneRoundRuns ==
  <>(\E p \in Correct : blocks[p] # <<>> \/ pc[p] \in {"IndexError", "AssertionError"})
=============================================================================
