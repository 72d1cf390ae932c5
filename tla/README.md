# A verification of fastconfirm

TLA+ modules that model the consensus code of this repository: the FastConfirm
rounds and their queues, the socket and gossip networks, and the HoneyBadger
stack (broadcast, agreement, coin, common subset, blocks) with the Merkle tree,
the primality test and the threshold keys under it; TLC configurations that
check them on small instances; and TLAPS proofs of what matters most for every
number of nodes and rounds.

Run everything inside this directory:

    tlc -workers 2 -config fc_rounds.cfg MCFastConfirm.tla
    tlapm FastConfirm_proofs.tla

`PROJECT.json` lists the runs, the source lines behind each definition, the
hazards with the properties that watch them, and for every property a mutant of
the code that violates it (kept beside the definition it replaces).

## 1. The system

A node is three processes (`run_socket_node.py`): a socket server, a socket
client and the consensus process, joined by two multiprocessing queues and by
the shared flags `client_ready`, `server_ready`, `net_ready`, `stop`. Inside the
consensus process run two gevent greenlets: the round loop of
`Fastconfirm.run_fast` and its receive loop `_recv_loop`. They share the
dictionaries of queues `_per_bp`, `_per_vote`, `_per_pc`, `_per_commit`, one
queue for each round. `honeybadgerbft/` holds a second consensus, the
HoneyBadger stack FastConfirm was derived from; of it the running program uses
the Merkle tree only.

| Component | State | Operations | What makes it correct |
|---|---|---|---|
| Round protocol, `fastconfirm.py`, `blockproposal.py`, `vote.py`, `precommit.py`, `commit.py` | `round`, `state` (block, round, grade), `lastcommit`, `lB`, `_tobe_commit`, `transaction_buffer`; in a round `block_dic`, `B`, `leader_msg`, `vote_tag`, `pc_hB`, `c_hB`, `g_hB` | propose, elect and vote, count votes and precommit, count precommits and commit, count commits and grade, output | every decision has a quorum of the step before; no two nodes grade different blocks; a block leaves the node once; a node always ends |
| Receive loop and queues, `fastconfirm.py:553-650` | one queue per tag and round, messages in flight | receive and file, make the queues of a round, take one message, find the queue empty | a message is counted once, under its own round and step; what the drains yield is what the protocol assumes of them |
| Committee and round keys, `memselect.py`, `roundkey.py` | 1024 one-time keys and their Merkle tree | select, verify a member, sign, verify | a key signs once; a key is there when it is needed; a branch proves one key |
| Node and start-up, `fc_node.py`, `run_socket_node.py` | the four flags, the processes | wait for the network, run, stop, terminate | the protocol starts connected; a node that ends harms no other |
| Sockets, `socket_client.py`, `socket_server.py` | sockets and a queue per peer, the stream buffers | connect, queue, send, fail, receive, split | each message once, whole and in order, while its connection lives |
| Gossip, `gossip_client.py`, `gossip_server.py` | links of a tree, hashes received and sent | connect, receive, hand over, forward | every node is reached; a message is handed over once; forwarding ends |
| Reliable broadcast, `reliablebroadcast.py` | `fromLeader`, stripes, `echoCounter`, `ready`, `readySent` | VAL, ECHO, READY, decode | agreement, totality, validity |
| Merkle tree, `reliablebroadcast.py:84-131` | none | build, branch, verify | a branch verifies exactly for its leaf and index |
| Binary agreement, `binaryagreement.py` | EST, AUX, CONF senders, `bin_values`, `est`, `already_decided` | receive loop, the waits of the epoch loop, the coin | agreement, validity, termination with a coin |
| Common coin, `commoncoin.py` | shares received, output queues | ask, receive, return | the same coin everywhere, once, not before it is asked for |
| Common subset, `commonsubset.py` | `aba_inputted`, `aba_values`, `rbc_values` | broadcast output, agreement output, join | one input each; N-f values; the same for all |
| HoneyBadger block and rounds, `honeybadger_block.py`, `honeybadger.py` | buffer, decryption shares, per-round queues | run a round, send shares, decrypt, put back | same blocks; no transaction lost or delivered twice |
| Threshold cryptography, `crypto/threshsig`, `crypto/threshenc` | keys | deal, sign, encrypt, verify, combine; primality test | any k combine to one result; fewer know nothing |
| `Client/`, `first.py`, `ip_tool.py`, key generation, VRF and ecdsa | | | not modelled, see section 5 |

Hard behaviours: the waits of FastConfirm are by the clock and nothing is asked
for twice, so a late message is a lost one; two greenlets interleave at every
`gevent.sleep`; the outcome of a drain depends on the order of arrival; a
message of the next round may come before its receiver gets there; an exception
ends a node in the middle of a round, after part of its messages went out;
state of earlier rounds is kept on some paths and read in later ones. In the
network a connection fails in the middle of a message and a server spins on an
ended one. In the HoneyBadger stack faulty parties send different things to
different nodes, messages of all phases and epochs interleave, a node leaves
while others still need it, and a dozen greenlets race for one input.

## 2. The modules

| Module | What it is |
|---|---|
| `FastConfirm` | the round protocol of all nodes, with loss, delay, kills and exceptions |
| `FastConfirmQueues` | the same protocol with the receive loop, the queues and the drains message by message; implements `FastConfirm` |
| `FastConfirm_proofs` | theorems about `FastConfirm`, about its synchronous runs, and the refinement by the queues |
| `Broadcast` | what one reliable broadcast promises |
| `ReliableBroadcast` | one instance of `reliablebroadcast` with faulty parties; implements `Broadcast` |
| `ReliableBroadcast_proofs` | theorems about `ReliableBroadcast`, the refinement among them |
| `Agreement` | what one binary agreement promises |
| `BinaryAgreement` | one instance of `binaryagreement` with faulty parties; implements `Agreement` |
| `BinaryAgreement_proofs` | theorems about `BinaryAgreement`, the refinement among them, and about the coin it takes |
| `CommonSubset` | one `commonsubset` over N abstract broadcasts and N abstract agreements |
| `CommonSubset_proofs` | theorems about `CommonSubset` |
| `HoneyBadger` | the rounds of `HoneyBadgerBFT` over an abstract common subset |
| `HoneyBadger_proofs` | theorems about `HoneyBadger` |
| `ThresholdKeys` | the algebra of threshold signatures and encryption: operators |
| `ThresholdSharing` | a dealer, a signature and a ciphertext, and someone who collects shares |
| `CommonCoin` | `shared_coin` over the algebra of `ThresholdKeys` |
| `MerkleTree` | build, branch and verify: operators, and what they owe |
| `MillerRabin` | `is_probable_prime`, one action per loop turn |
| `SocketNetwork` | clients, servers, streams and the life of the three processes |
| `SocketNetwork_proofs` | theorems about `SocketNetwork` |
| `GossipLinks`, `GossipSpread`, `Gossip` | the links the constructors compute; a message along them, for many sizes; forwarding with duplicate suppression |
| `Gossip_proofs` | theorems about all three |
| `CountingLemmas` | what the proofs share: the quorums of N parties, at most F of them faulty, and induction over the numbers |
| `MCFastConfirm`, `MCFastConfirmQueues`, `MCBinaryAgreement`, `MCHoneyBadger` | instances for TLC |
| `MCStack`, `MCAlgorithms` | the protocols of the HoneyBadger stack and the algorithms under them in one run |
| `MCNetwork` | the sockets, two gossips and the gossip links in one run |

### FastConfirm

One action stands for what a node does from the end of one wait to the start of
the next. `pc[p]` is the queue `p` waits to drain: "idle" before the proposal,
then "bp", "vote", "pc", "commit"; "done" after the last slot; "starved" in
`takeout_tx`; "crashed" after an exception or a kill.

| Action | Code |
|---|---|
| `ProposeBlock`, `SitOut`, `Starve` | `blockproposal`, with `takeout_tx` |
| `ElectAndVote`, `NoLeader` | drain of `_per_bp`, leader election, `vote`; the exception without a leader |
| `CountVotes` | drain of `_per_vote`, `precommit` |
| `CountPrecommits` | drain of `_per_pc`, `commit` |
| `FinishFirstRound`, `UnknownBlock`, `FinishRound` | drain of `_per_commit`, grade, output or defer, `self.round += 1`; the KeyError of round 1 |
| `KeysExhausted` | the IndexError of `rsk[position]` |
| `Crash` | the process is killed |

The sent messages are four growing sets. A drain yields a subset `w` of the
messages of its tag and round sent so far (`Drains`): what is left out was
lost, late, or dropped by the new queues of the round. Where the code keeps the
last of something (last hash over the threshold, last precommit, last proposal)
the action chooses any value some order of arrival makes last. The leader is an
electable proposal with the greatest hash.

A round's `delta` is not a number. With `Synchronous = FALSE` a wait may end at
any moment and miss anything sent (up to `MaxMiss` messages, when it is small).
With `Synchronous = TRUE` a wait ends only when every live node has sent what
it sends in the step (`TimeUp`): that is what a delta above the message delays
and the skew of the nodes means. `MaxMiss` is then the number of messages one
drain may still miss: lost on the way, dropped because it came before its
receiver made the queues of the round (which a greater delta does not prevent),
or never sent because a kill cut the broadcast short. `MaxMiss = 0` excludes all
three, and `SynchronousAgreement` speaks of that case only. It also asks that the
VRF values of a round's proposers differ (`NoTies`): of two proposals with one
value a node keeps the one it drained first, so with a tie, which a hash does
not give, two nodes elect different leaders.

A block is the pair of its round and its proposer, and is its own hash, so a
proposal is what it names: no two blocks share a hash. A proposal of grade 1
carries the pair `(Block, lB)`, whose first element equals no hash; `Extends`
keeps that.

### FastConfirmQueues

Adds the messages in flight (`net`), the queues (`box`), and the locals of a
running drain. `Receive` is a pass of `_recv_loop`; `TakeProposal`, `TakeVote`,
`TakePrecommit`, `TakeCommit` take one message; `VoteForLeader`,
`SendPrecommit`, `SendCommit`, `EndRound` are what follows an empty queue (or
the end of the time); `FreshQueues` is what `run_fast` does at the start of a
round. Between any two of them other nodes and the receive loop may run. The
module shares the variables of `FastConfirm`, so the refinement mapping is the
identity, and `Spec` of `FastConfirm` is a property of its runs: this is what
justifies the subsets and the choices of the coarse module.

The main greenlet reads no queue while it waits, so messages are taken at any
moment between the start of the wait and the empty queue; the clock is left
out, the end of the wait being the moment the queue was found empty. Messages
that can no longer be read are forgotten (`TooLate`), and the queues of a
finished round are emptied.

### The HoneyBadger stack

Faulty parties are part of these models: `Faulty` holds at most F nodes that may
send anything the protocol would look at, at any time, to any node. What the
code refuses or ignores (a bad branch, a sender that is not the leader, a
message it calls redundant) changes no state and is left out. A message of a
correct node is derived from what the node did and is received at any later
time, in any order, which is what an asynchronous network without loss does.

- **ReliableBroadcast**: `ReceiveVal`, `ReceiveEcho`, `ReceiveReady` are the
  branches of the receive loop, each with the trailing READY and the return
  (`MaybeSendReady`, `ReturnOrStay`: lines 271-293, the two paths to the same
  output). A value is named by its Merkle root; a root of stripes that do not
  come from `encode` makes `decode_output` raise (`Rebuilt`). `MaxFaulty` bounds
  how many messages of faulty nodes are counted in all. The refinement mapping
  gives `chosen` of `Broadcast` the root of the first READY, rebuilt.
- **BinaryAgreement**: `RelayEst`, `AddBinValue` are the receive loop;
  `TakeInput`, `SendAux`, `SendConf`, `TakeConf`, `TakeCoin` the main greenlet
  from one wait to the next. Each wait looks at some of the messages under way,
  so it may end as soon as enough were sent; `B` is the set of faulty nodes that
  helped. A sender of two ESTs counts for both; the sum over `bin_values` counts
  a faulty AUX twice (`AuxCount`), as the code does. What no one can read again is
  forgotten. `vi` and `decided` are the variables of `Agreement`, so the mapping
  is the identity.
- **CommonSubset**: `ReceiveBroadcast` and `ReceiveAgreement` are the bodies of
  the 2N greenlets, `Finish` the main one. `BindBroadcast` and `MayDecide` are
  what `Broadcast` and `Agreement` promise; `AgreementsAreFaithful` checks that
  each agreement, as it is used here, takes steps of `Agreement` only.
- **HoneyBadger**: `SubmitTx`, `StartRound`, `SendShares`, `ReceiveShares` (with
  `Decrypt` and `PutBack`) over `FixSubset`, one set for all. `_run_round` calls
  `honeybadger_block` with keywords it does not have: `CallMatches = FALSE` is
  the code as it is, and no round gives a block (`hb_call`). `CallMatches = TRUE`
  has the callee's names, and `stack` checks the rest of the code with it: what
  it shows of `SameBlocks` and `NothingLost` is about the code once that call is
  repaired.
- **ThresholdKeys** writes the groups in the exponent over a small field: g^x is
  x, a pairing is a product. `dealer`, `lagrange`, `sign`, `verify_share`,
  `combine_shares`, `encrypt`, `decrypt_share` are what they are in that field.
  **ThresholdSharing** collects true and false shares in any order; **CommonCoin**
  uses the same operators for `GetCoin`, `ReceiveShare`, `ReturnCoin`, with the
  output queue of length one and the exceptions that would end the receive loop.
- **MerkleTree** hashes sequences of atoms without collisions. A receiver is shown
  any value of the list or none, inner nodes, and all branches of digests of the
  tree, of the right length or one short. **MillerRabin** draws its bases.

### The networks

- **SocketNetwork**: `Listen`, `Connect`, `ClientReady`, `StartNode`, `Finish`,
  `Terminate` are the start and the end of a node's processes; `Put`, `Dispatch`,
  `SendMsg`, `SendFails` the way of a message to the wire; `Receive`,
  `ReceiveNothing`, `ReceiveRaises` the handler of a server. A message is a body
  and a separator on the wire, `recv` returns any part of what is there and a
  failing `sendall` may have written part of a message. A server whose handler
  reads an ended connection gets nothing at once, for ever, and never yields
  (`spin`). `asked` is a history variable.
- **Gossip**: `Broadcast`, `Dispatch`, `Arrive`; the client and the server of a
  node draw the random part of their links apart (`clientLink`, `serverLink`),
  so that a forward may go to a node without a link and be dropped.
  `GossipLinks` computes the other links as the constructors do; `GossipSpread`
  lets a message run along those.

### MCStack and MCNetwork

Each of these modules holds several small systems and draws one of them at the
start (`protocol`, `network`); only that one takes steps, and the variables of the
others keep their initial values. Every property speaks of the one that runs (or
holds of an initial state, when another runs). This checks each of them on all
its behaviours, exactly as a run of its own would. `MCStack` extends
`HoneyBadger`, whose constants `stack.cfg` gives, and instantiates the others.

## 3. What the runs check

| Run | Instance | Shows |
|---|---|---|
| `fc_rounds` | `FastConfirm`, 2 nodes, f=1, 3 timed rounds, every drain may miss a message | types, one message of each step, certificates; every mix of grades leaves the output, the waiting blocks, the tip and `lastcommit` consistent |
| `fc_delta` | `FastConfirm`, 3 nodes, f=1, 2 timed rounds, enough of everything, nothing lost, one kill | the live nodes finish every round with grade 2 on one block (`SynchronousAgreement`) |
| `fc_scarce` | `FastConfirm`, 3 nodes, f=1, two of them proposing in a round, 1 transaction and 6 keys each, every drain may miss a message, one kill, fair | no two nodes grade different blocks; one with a commit to spare is graded by all; every node ends, by its last round, an exception or starvation, and nobody waits for it |
| `q_rounds` | `FastConfirmQueues`, 2 nodes, 2 rounds, committees of one after the first, 1 transaction, 7 keys, one kill, any message late, early or lost, fair | a message is counted once (`ExactlyOnce`); the queues implement `FastConfirm` (`Spec`); every node ends (`QTermination`) though nothing may be delivered |
| `rbc` | `ReliableBroadcast`, N=4, F=1, the faulty node leads, two roots, one of them no encoding, fair | READYs agree and can be served; one value or one failure for all or for none (`ImplementsBroadcast`) |
| `aba` | `BinaryAgreement`, N=4, F=1, inputs 0, 1, 1 or 1, 1, 1, two epochs, coins 0 then 1 | sure values agree; equal inputs stay (`NoWavering`); a decision binds the later epochs; `Agreement` is implemented |
| `stack` | RBC: N=4, correct leader; ABA: N=4, inputs 1, any coins, two epochs; ACS: N=3, one faulty; coins of two rounds, 3 players, one faulty, field of 5; HB: N=3, one faulty, 2 rounds of 2 transactions; trees of 1 to 5 leaves; primality of 2 to 600, two bases each; keys: 4 players, threshold 3, all polynomials over the field of 5; all fair | what each protocol promises (one line each in the module), and that no call waits for ever (`CallsReturn`) |
| `network` | sockets of 2 nodes, 2 messages to one or all, one connection that may break, one node that may finish first; gossip of 4 nodes; gossip of 3 nodes with two equal texts; links of 2 to 24 nodes with 1 to 5 links; all fair | no gap and no half message (`GapFree`), no loss while a connection lives (`NothingLost`, `SocketsDeliver`); the protocol starts connected (`RunsConnected`); gossip hands a text over once (`HandedOnce`), reaches everyone and ends (`EveryoneReached`); the links are a tree with a way back to its top (`LinksAreTree`) |

Four runs show where the code disagrees with its own comments and tests:

- `fc_output` (`SameOutput`): from round 2 on the node outputs `B`, the proposal
  drained last, and not the graded block, so nodes that lost nothing have
  different outputs, where a test compares them. What they agree on is the
  grade and its block (`SynchronousAgreement`), which is not output.
- `q_early` (`EarlyMessagesKept`): the queues of a round are made when it starts,
  whether or not they exist: `_per_round_recv` is tested and never holds the
  round, and what came early is dropped.
- `aba_abandoned` (`FewAbandoned`): with N=4, f=1 one correct node may leave while
  the two others, which decided later, wait for a third: two are abandoned where
  a comment says at most t. They have decided, so agreement is not touched, but
  their loops do not end.
- `hb_call` (`OneRoundRuns`): `_run_round` passes `acs_in` and `acs_out`, and every
  round ends in a TypeError after its transactions were taken.

Met while modelling, part of the models where they matter, without a run: the
comment of fastconfirm.py:449 speaks of a 2f+1 set where `self.f = f*0.4` makes
the quorum `0.8f+1`; round 1 logs the block of `pc_hB` as committed and makes `B`
the tip (fastconfirm.py:515 and 519); waiting blocks are not flushed on the
`hash(lB)==B[0]` path, so the output is not in the order of rounds; the comment of
honeybadger.py:187 is "Remove output transactions from the backlog buffer", and
the code puts those that were not output back, in reverse order;
`-2`, to be "except myself", compares a node's number with a process
number and leaves out nobody (socket_client.py:129, gossip_client.py:189).

### Bounds

FastConfirm: `Slots` bounds the rounds, `MaxMiss` what one drain misses,
`MaxCrash` the kills, `KeyNum` and `TxInit` keys and transactions. Two rounds are
the least in which kept state is read, three the least in which a block deferred
in one round meets an output in a later one. One round suffices for certificates
and agreement, since a round reads no message of another. With f=1 a quorum is 2
of 3, the least in which quorums intersect without being everything; in
`fc_scarce` and `q_rounds` the keys and transactions run out in the middle of the
rounds and committees leave nodes out, each in some behaviour.

The HoneyBadger stack: N=4, F=1 is the least with a fault and N >= 3F+1, and its
quorums (3 of 4, 2 of 4) intersect in more than a faulty node but not in
everything. `CommonSubset` and `HoneyBadger` rest on F < N only, so three nodes
do. Two epochs are the least in which a decision meets an undecided node and a
node leaves; coins 0 then 1 and inputs 0, 1, 1 give sure values that the coin
contradicts (inputs 1, 1, 1 too), epochs of two minds and estimates taken from the coin. The last
epoch cuts a node off ("cut"), which the properties take into account.
`MaxFaulty` = 1 counted message of the faulty leader beside its stripes is what it
takes to tip one threshold at one node; the proofs have no such bound. Five
leaves are the first length after a power of two with a blank subtree; 600 holds
the first Carmichael numbers (561 among them); with a field of 5 all dealers'
polynomials are drawn. Sizes up to 24 with up to 5 links give gossip trees of three
levels and more, full and not.

### Fairness

The fairness of `FastConfirm` is weak fairness on the steps of each node's round
loop: the waits are loops of `gevent.sleep` that end by the clock, the drains take
what is there. Nothing is assumed of the network, of kills, or of another node.
It rests on gevent running the main greenlet: `_recv_loop` has no sleep of its
own and gives way inside the patched poll of the queue it reads.

In the stack a greenlet that can run runs, and what a correct node sends another
correct node arrives. Each fairness condition is on steps that need no faulty
node: faulty nodes may stay silent for ever. An agreement's inputs, the asking
for a coin and the broadcasts of a faulty leader are not fair. Processes and
greenlets of the network are fair, except a handler over an ended connection,
which is never given up; nothing makes the protocol send or a connection break.

`MCStack` and `MCNetwork` state, for each system, weak fairness of the disjunction
of its fair steps instead of one condition for each process. This is enough, as
every step uses something up (a message counted, an epoch passed, a queue
emptied), so that behaviours are finite: where none of the fair steps is enabled
in the end, all the single conditions hold too, and the other way round.
Deadlock is not checked where the systems stop: every node has ended, waits for
peers that are gone, or has nothing left to do. `fc_rounds` checks it, with a
self-loop for the state in which every node has ended (`Terminating`).

### Refinements

`FastConfirmQueues` implements `FastConfirm` (property `Spec` of `q_rounds`, the
mapping is the identity on shared variables); `ReliableBroadcast` implements
`Broadcast` with `chosen <- Bound` (`ImplementsBroadcast`, and its safety part is
proved); `BinaryAgreement` implements `Agreement` (`ImplementsAgreement`);
`CommonSubset` uses both abstractly and keeps to `Agreement`
(`AgreementsAreFaithful`). All of these are proved too, as far as they are safety;
`HoneyBadger` uses what `SameSubset` shows of `CommonSubset`.

## 4. What is proved

Each theorem holds for all values of the constants that satisfy the named
assumptions of its module; TLC evaluates those on the instances it runs.

| Theorem | States | Module checked on |
|---|---|---|
| `FastConfirm_proofs`: `TypeCorrect`, `SentOnce`, `Certificates`, `Agreement`, `Accounting`, `Tip` | `TypeOK`, `OneMessagePerStep`, `CertificateChain`, `GradedAgreement`, `RoundAccounting`, `TipIsLastOutput` | `fc_rounds`, `fc_scarce` |
| the same, synchronous runs: `Propagation`, `SyncAgreement` | `GradePropagation`, `SynchronousAgreement` | `fc_scarce`, `fc_delta` |
| the same, queues: `QueuesImplementRounds`, `NoneTwice` | `QSpec => Spec`, `ExactlyOnce` | `q_rounds` |
| `ReliableBroadcast_proofs`: `TypeCorrect`, `Agreement`, `Recoverable`, `Implements` | `TypeOK`, `ReadyAgreement`, `ReadyIsRecoverable`, `BroadcastSafety` | `rbc`, `stack` |
| `BinaryAgreement_proofs`: `TypeCorrect`, `SureAgree`, `Locked`, `Unanimous`, `Implements` | `TypeOK`, `SureValuesAgree`, `DecisionIsLocked`, `NoWavering`, `ImplementsAgreement` | `aba`, `stack` |
| the same, coin: `CoinUnknownBeforeAsked`, `OneCoinForAll`, `CoinLoopsRun` | `NotBeforeAsked`, `SameCoin`, `NoLoopCrashes` of `CommonCoin` | `stack` |
| `CommonSubset_proofs`: `TypeCorrect`, `SameForAll`, `AssertionsHold`, `Faithful` | `TypeOK`, `SameSubset`, `NoAssertionFails`, `AgreementsAreFaithful` | `stack` |
| `HoneyBadger_proofs`: `TypeCorrect`, `BlocksAreTheSame`, `KeepsAll`, `NoneAgain` | `TypeOK`, `SameBlocks`, `NothingLost`, `DeliveredOnce` | `stack` |
| `SocketNetwork_proofs`: `SocketTypes`, `NoneLost`, `NoGap`, `StartsConnected` | `TypeOK`, `NothingLost`, `GapFree`, `RunsConnected` | `network` |
| `Gossip_proofs`: `LinksOfAllSizes` | `LinksAreTree` of `GossipSpread` | `network` |
| the same, forwarding: `GossipTypes`, `TextsHandedOnce`, `TextsSourced` | `TypeOK`, `HandedOnce`, `Sourced` of `Gossip` | `network` |

`MCStack` and `MCNetwork` have names of their own for what they check of a
module: `SameSubset` there is `SameSubset` and `NoAssertionFails` of `CommonSubset`,
`SameCoin` all three invariants of `CommonCoin`, `HandedOnce` is `HandedOnce` and
`Sourced` of both gossips, with their types.

### FastConfirm

Assumed: finitely many nodes, at least one round, numbers where numbers are meant
(`NumbersAssumption`), a VRF value for each node, step and round
(`VrfAssumption`), and sentinels that are no blocks (`SentinelAssumption`; in
python `None`, `0` and `-1` against digests).

The inductive invariant `IInv` is types, finitely many messages (`PoolsFinite`),
the order of what a node sends (`SendInv`) and the chain of certificates.
`PoolsFinite` is needed because cardinalities of infinite sets are unspecified.
`OneMessagePerStep` is not inductive: a state could hold a vote of a node that
still has to vote in that round. `SendOrder` excludes it: the messages of step k
of a node are of earlier rounds, or of its round when it is past step k.
`Forward` (a step moves its node forward and no other) and `StepAdds` (a step
adds at most one message, of its node, round and step) then give `PoolStep`,
cited once for each of the four sets.

The chain of certificates has four links, each with a lemma. A link is made when
a drain counts a quorum: the counted messages were sent (`QuorumSent`). It is
kept since messages are only added (`PoolsGrow`, `QuorumStays`). For the grade
the case that keeps the state of an earlier round keeps the quorum of that
round.

Agreement: a grade above 0 has a quorum of commits, hence a commit, hence a
quorum of precommits for its block. If two blocks of one round had quorums of
precommits these would be disjoint sets of more than N messages in total when
8f+10 > 5N; by the pigeonhole principle two of them have one sender, which sent
one message (`QuorumsMeet`). The condition is the weakest for the code's quorum.
The code does not state it, and it fails for N >= 3f+1 with f > 0: of four nodes
with f=1 two may each have a quorum of their own, and the theorem says nothing.

Output: `LogInv` says of every node what its output, its waiting blocks, its tip
and `lastcommit` have to do with the rounds it has ended. `Accounted` is stronger
than `RoundAccounting`: without the rounds of the drained proposals
(`GotThisRound`) a block of an old round could be drained and enter the output a
second time.

Synchronous runs: a wait ends when every live node has sent what it sends in the
step, so no node is more than a round ahead of another (`Lockstep`): when a node
ends a round, no commit of that round is still to come, and what one node sees
with `MaxMiss` to spare every node sees. For `SynchronousAgreement`
the invariant is a conjunction `SyncInv` over the steps of a round: who has been
killed (`FewCrashed`), that whoever reached a step has sent its message
(`EachSent`), that nobody runs out (`Funded`), one electable leader
(`OneLeader`), precommits and commits for its block only, and what each node's
locals hold in each wait (`Locals`). `EachSent` and `FewCrashed` give that a drain
that misses nothing holds a quorum (`WellProvisioned` allows for the killed).

### FastConfirmQueues

The refinement is proved for the case in which nothing is promised of the network
(`Unbounded`: not synchronous, a drain may miss everything), which is what the
queues model describes; the leader a drain starts from is no message
(`LeaderAssumption`). `QInv` relates what a drain has computed message by message
(`leader`, counters, last hash over the threshold) to what the coarse action may
choose from the set `seen` of messages taken (`DrainInv`), and says that
everything in flight and in a queue was sent, to its own round and tag
(`NetSent`, `BoxSent`). Every step of a drain but its last changes nothing
`FastConfirm` speaks of; the last one is the coarse step with `seen` for the
subset. `Once` carries `ExactlyOnce`: a message is in flight, in one queue or
seen, and in one of them only.

### ReliableBroadcast, BinaryAgreement

Assumed: N >= 3F+1, at most F faulty nodes (`ResilienceAssumption`), sentinels that
are no values. What faulty nodes send is not bounded. `CountingLemmas` has the
counting: of F+1 parties one is correct (`OneIsCorrect`), of N - F parties at
least N - 2F are (`MostAreCorrect`), two sets of N - F share a correct one
(`QuorumsMeet`).

For the broadcast `IInv` is `TypeOK`, `CountedWereSent` (what is counted for a
correct node it has sent) and `EchoQuorum` (behind every READY there are N - F
nodes whose correct ones sent ECHO for its root). The agreement of READYs is not
inductive: a state could hold f+1 READYs nobody had a reason to send.
`EchoQuorum` speaks of what was sent and not of what the sender of the READY has
seen, since a READY passed on after f+1 others rests on the ECHOs another node
counted: among f+1 senders one is correct and has such a quorum already
(`NewReady`). Two quorums of N - F nodes share a correct one, and it sent one
ECHO (`SentStays`). For the refinement, the 2F+1 READYs of a node that returns
hold one of a correct node sent before (`CountedInStep`), so the value is bound
when it is returned; with a correct leader only its input is (`BoundInput`). The
mapping covers values and failures alike: when the stripes of a faulty leader are
no encoding, every correct node that gets so far fails.

For the agreement the difficulty is what a decision says about other epochs. A
node that ends the CONF wait on one value has a quorum of CONFs for it
(`Phases`), two such quorums share a correct node, and it sent one CONF: this is
`SureAgree`. Between the epochs `CoinBinds` says that what is sent beyond an epoch
is its coin, unless N - F nodes were sure of the other value, and `DecisionBinds`
that beyond the epoch of a decision only the decided value is sent;
`DecisionIsLocked` follows and is not inductive without them. Because the model
forgets what everyone has left (`Over`), both say so only of epochs still open.
`EstIsInput` gives validity and `NoWavering`: a value has an input of a correct
node behind it, as F+1 ESTs have a correct one among them (`EstHasCorrect`).

### CommonSubset, HoneyBadger

`CommonSubset` rests on F < N and on what `Broadcast` and `Agreement` promise, which
are its inputs: `IInv` says that a node put 1 into an agreement only with the
proposal in hand and 0 only when N - F agreements had returned 1 to it, and that
a result is the set of agreements that returned 1. The assertions hold because an
agreement that returns 1 has an input 1 behind it, so its proposal was delivered
to someone and `Broadcast` delivers it to all.

`HoneyBadger` rests on F < N and on one subset for each round, the same for all.
`IInv` is `Types`, `Course` (what a node has proposed, and when), `Fixed` (a subset
holds proposals only, and a node past its wait knows it), `Delivered` (what a
node delivered is the block of each round it left) and `Somewhere` (every
transaction is in one of the places). A block stays what it is once its subset
is fixed (`BlockStays`), since nobody proposes twice in a round. `NothingLost`
needs what `appendleft`, run over a batch of any length, puts back: `PutBack` is a
recursive function, and `BackTurns` is its loop invariant. `NoneAgain` asks that
no transaction is submitted twice (`Apart`), and its invariant `Once` says of every
proposal that got in that the node has none of it left and never proposes it
again. All this is about the rounds with the call of honeybadger_block repaired;
with `CallMatches = FALSE` the theorems hold of a system that delivers nothing.

### CommonCoin

Assumed: at most F faulty players, a threshold of F + 1, numbers and sentinels
(`CoinAssumption`). `SharesInv` says that the shares a node keeps are the true ones
of their senders, that each sender is faulty or has asked, and that nothing was
put into the queue of a round or returned before F + 1 of them were kept. As
more than F senders are not all faulty (`OneAsked`), nobody has a coin before a
correct node asks. That all get one bit and that no receive loop raises rests on
one fact more, the hypothesis `SharesCombine`: the shares of any KT players combine
to the signature of the secret. This is the theorem behind Shamir's sharing, about
polynomials over a field; TLC finds it for every polynomial over the field of 5
(`SameSignature`, part of `ThresholdCounts`). With it `BitsInv` says that what is
queued or returned is the bit of the round: a share is kept once for each sender,
so the count passes F + 1 once, when the queue is still empty.

### SocketNetwork

Assumed: at least one node, and a process number that is no node's number
(`SocketAssumption`, line 129 of socket_client.py compares the two). `IInv` is `TypeOK`,
`Connected` (a ready client has its connections, a node that has left the wait has
a ready client), `NothingLost` and `Ahead`: what a server handed on and what is
whole behind it, in its buffer and on the wire, is the beginning of what was put
for it, whatever became of the connection. `GapFree` follows from `Ahead` and is
not inductive without it: when a connection breaks, `NothingLost` says no more of
it, yet its buffer and wire are still received. `Ahead` in turn needs
`NothingLost` while the connection is open, since a message joins the wire from
the queue of the peer. The proof takes one pair of nodes at a time (`Flow`). Each
action is first described by its effect on the sequences of a pair (`PutEffect`,
`DispatchEffect`, `SendEffect`, `ReceiveEffect`), then one lemma for each shows that
both parts of `Flow` survive it. A `sendall` that fails may leave half a message,
which is never whole since nothing is sent after it. `Chosen`, what of a sequence
is meant for a peer, is a recursive function; `ChosenExists` and `ChosenConcat` say
that it exists and splits over the parts of a sequence.

### The gossip links, Gossip

`LinksOfAllSizes` is about the arithmetic of the constructors, for every number of
nodes and every `link_size` from 1. `Power` and `First`, their loops, are positive
and growing, so that each node is in one level; the children of a node lie in the
level below, those of two nodes do not meet, and every node of that level is a
child of one: its place in the level divided by `link_size` (`Quotient`, and
`MultiplesApart` for uniqueness). This is `Tree`. That a message has been everywhere
after twice the depth and one hop is an invariant on where it may be: after some
hops it still goes down, one level a hop (`GoneDown`), or some of them took it to
node 0 and all levels the others lead to are reached (`CameBack`). The
way down ends at a node without children, which links to node 0.

For the forwarding the assumption is `GossipAssumption`: the texts come from nodes.
`GossipInv` says that what a client has to announce or has on the wire is known to
its node (`Known`: it is the source and has begun, or was handed the text), that
what a node was handed has texts that differ and are exactly the set `received`,
and that each came from a neighbour that has it. `HandedOnce` by itself is not
inductive: a state could have handed a text that is not in the set the server
tests.

### Induction over data

A theorem of induction with an operator parameter cannot be used by the installed
provers. `SetInduction` of `CountingLemmas` states induction over the numbers with a
set for the parameter, and follows from the well-foundedness of the strict
subsets of finite sets. With it a recursive function is shown to exist and to do
what it should: `PutBack` of `HoneyBadger` (`BackExists`, `BackTurns`), `Chosen` of
`SocketNetwork` (`ChosenExists`, `ChosenConcat`), `Power` and `First` of `GossipLinks`
(`PowExists` and what follows). Folds over sets, as in `Interpolate` and `Lagrange` of
`ThresholdKeys`, are not reached in this way, and neither are RECURSIVE operators.

### Only model-checked

The algebra of the threshold keys, the Merkle tree and the primality test, whose
theorems are about fields, trees and numbers; all liveness properties
(`Termination`, `QTermination`, `CallsReturn`, `SocketsDeliver`, `EveryoneReached`) and
the second half of `Broadcast` (`Totality`), which are out of reach of the prover.

## 5. Not modelled

- Cryptographic primitives: VRF, ECDSA, RSA, hashing to groups, pairings,
  serialization and AES. `FastConfirm` uses their contract (a value per node,
  step and round that verifies or not), the threshold schemes their algebra.
  `boldyreva_gipc.py` and `boldyreva_pool.py` are experiments with worker
  processes that nothing imports. `generateLargePrime` is a loop of draws around
  `is_probable_prime`.
- Faulty nodes in `FastConfirm`: the code verifies no signature of a proposal, a
  vote or a precommit (the assertions are commented out), so nothing could be
  shown about a node that lies. Nodes follow the code; they stop or are killed.
- Restart: nothing is persisted; a node starts anew with new keys.
- A second AUX or CONF of one sender raises `RedundantMessageError` in the receive
  loop of `binaryagreement` (binaryagreement.py:144) and ends it. With it one
  faulty node stops every other and no property of the agreement is left, so
  faulty nodes send each message once in the model. A proposal of a faulty node
  that does not parse is left out of `HoneyBadger` in the same way.
- How an address names a node (the port arithmetic of socket_client.py:80), host
  files, arguments, key files, logging, and the batch of transactions put in
  advance.
- The branches of FastConfirm for gossip are dead code: `_send_mode` is always
  'broadcast'. `height` and `input` decide nothing. The gossip network itself is
  modelled, although `run_socket_node.py` has it commented out. A link drawn
  twice is one link.
- `Client/` and the web page: the nodes no longer read what the client sends
  (fastconfirm.py:613-631 is commented out). `first.py` is an earlier version of
  the round that no module imports. `ip_tool.py` and the key generation scripts
  are sequential and write files.

## 6. What could follow

1. `Complete` and `Binding` of `MerkleTree`, by induction over the depth of the tree.
2. `SharesCombine`, from the uniqueness of a polynomial through KT points; it needs
   products and sums over finite sets as recursive functions first.
3. `FalseIsComposite` of `MillerRabin`: a witness of a composite number, from the
   factors of a^(n-1) - 1.
