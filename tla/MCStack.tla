------------------------------- MODULE MCStack -------------------------------
(***************************************************************************)
(* The protocols of the HoneyBadger stack for TLC, each on a small instance *)
(* of its own with fair scheduling: the broadcast of a correct leader, an   *)
(* agreement, the common subset, the coins of two rounds and the rounds of  *)
(* HoneyBadger; and the algorithms under them.  Which one runs is drawn at  *)
(* the start; the variables of the others stay as they are.                 *)
(***************************************************************************)
EXTENDS HoneyBadger, MCAlgorithms, TLC

CONSTANTS a, b, c, d,      \* the nodes; the last one of an instance is faulty
          R1, R2,          \* the roots of a broadcast
          Value, Failed    \* what a broadcast returns

Three == {a, b, c}
Four == {a, b, c, d}

VARIABLES
  protocol,   \* the one that runs
  fromLeader, echoes, readies, readySent, out,
  waits, epoch, vi, values, decided, estSent, binValues, auxSent, confSent, coin,
  chosen, rbc, input, aba, result,
  asked, gotShares, outputQueue, crashed, coins

rbcVars == <<fromLeader, echoes, readies, readySent, out>>
abaVars == <<waits, epoch, vi, values, decided, estSent, binValues, auxSent, confSent, coin>>
acsVars == <<chosen, rbc, input, aba, result>>
coinVars == <<asked, gotShares, outputQueue, crashed, coins>>
protocolVars == <<rbcVars, abaVars, acsVars, coinVars, vars>>
stackVars == <<protocol, protocolVars, treeVars, primeVars, keyVars>>

RBC == INSTANCE ReliableBroadcast WITH
  Nodes <- Four, Faulty <- {d}, Leader <- a, F <- 1, Roots <- {R1, R2},
  Encodings <- {R1}, Input <- R1, MaxFaulty <- 0

AnyCoins == [r \in 0 .. 1 |-> {0, 1}]
AllOne == [v \in {0, 1} |-> IF v = 1 THEN 4 ELSE 0]
ABA == INSTANCE BinaryAgreement WITH
  Nodes <- Four, Faulty <- {d}, F <- 1, MaxEpoch <- 1, Coins <- AnyCoins, MaxInputs <- AllOne,
  pc <- waits

ACS == INSTANCE CommonSubset WITH Nodes <- Three, Faulty <- {c}, F <- 1

Polynomial == (0 :> 2) @@ (1 :> 3)   \* 2 + 3x: the secret is 2
HashOf == [r \in {0, 1} |-> r + 1]
BitOf == [x \in 0 .. 4 |-> x % 2]
Coin == INSTANCE CommonCoin WITH
  Q <- 5, L <- 3, KT <- 2, Faulty <- {2}, F <- 1, Rounds <- {0, 1},
  a <- Polynomial, coin <- coins, received <- gotShares

\* What is submitted to the nodes of HoneyBadger.
MCApart == (a :> <<1, 2, 3, 4>>) @@ (b :> <<5, 6, 7, 8>>)

ASSUME InstancesAssumption ==
  /\ AlgorithmsAssumption
  /\ RBC!NodesAssumption /\ RBC!ResilienceAssumption /\ RBC!RootsAssumption
  /\ ABA!NodesAssumption /\ ABA!ResilienceAssumption /\ ABA!NoneAssumption
  /\ ACS!NodesAssumption /\ ACS!ResilienceAssumption /\ ACS!NoneAssumption
  /\ Coin!FieldAssumption /\ Coin!ShareAssumption /\ Coin!KeysAssumption
  /\ Coin!FaultyAssumption /\ Coin!RoundsAssumption
  /\ NodesAssumption /\ ResilienceAssumption /\ BatchAssumption /\ TxAssumption /\ NoneAssumption

StackInit ==
  /\ protocol \in {"RBC", "ABA", "ACS", "Coin", "HB", "Tree", "Prime", "Keys"}
  /\ leaves \in IF protocol = "Tree" THEN 1 .. 5 ELSE {0}
  /\ IF protocol = "Prime" THEN Prime!Init ELSE PrimeIdle
  /\ IF protocol = "Keys" THEN Keys!Init ELSE KeysIdle
  /\ RBC!Init /\ ABA!Init /\ ACS!Init /\ Coin!Init /\ Init

ProtocolNext ==
  \/ protocol = "RBC" /\ RBC!Next /\ UNCHANGED <<abaVars, acsVars, coinVars, vars>>
  \/ protocol = "ABA" /\ ABA!Next /\ UNCHANGED <<rbcVars, acsVars, coinVars, vars>>
  \/ protocol = "ACS" /\ ACS!Next /\ UNCHANGED <<rbcVars, abaVars, coinVars, vars>>
  \/ protocol = "Coin" /\ Coin!Next /\ UNCHANGED <<rbcVars, abaVars, acsVars, vars>>
  \/ protocol = "HB" /\ Next /\ UNCHANGED <<rbcVars, abaVars, acsVars, coinVars>>

AlgorithmNext ==
  \/ protocol = "Prime" /\ Prime!Next /\ UNCHANGED <<treeVars, keyVars>>
  \/ protocol = "Keys" /\ Keys!Next /\ UNCHANGED <<treeVars, primeVars>>

StackNext ==
  \/ ProtocolNext /\ UNCHANGED <<protocol, treeVars, primeVars, keyVars>>
  \/ AlgorithmNext /\ UNCHANGED <<protocol, protocolVars>>

\* What the fairness of the modules speaks of: steps that need no faulty node.
RBCStep ==
  \E p, q \in RBC!Correct, r \in {R1, R2} :
    RBC!ReceiveVal(p, r) \/ RBC!ReceiveEcho(p, q, r) \/ RBC!ReceiveReady(p, q, r)
ABAStep == \E p \in ABA!Correct : ABA!ReceiveLoop(p, {}) \/ ABA!Main(p, {})
ACSStep ==
  \E p \in ACS!Correct, j \in Three :
    \/ j \in ACS!Correct /\ ACS!BindBroadcast(j, Value)
    \/ /\ j \in ACS!Correct \/ \E q \in ACS!Correct : rbc[q][j] # None
       /\ ACS!ReceiveBroadcast(p, j)
    \/ /\ \A q \in ACS!Correct : input[q][j] # None
       /\ \E v \in {0, 1} : ACS!ReceiveAgreement(p, j, v)
    \/ ACS!Finish(p)
CoinStep ==
  \E p, q \in Coin!Correct, r \in {0, 1} :
    Coin!ReturnCoin(p, r) \/ \E x \in 0 .. 4 : Coin!ReceiveShare(p, q, r, x)
HBStep ==
  \/ \E p, q \in Correct :
       SubmitTx(p) \/ StartRound(p) \/ SendShares(p) \/ ReceiveShares(p, q, TRUE)
  \/ \E r \in Rounds : (\A p \in Correct : proposed[r][p] # None)
                     /\ \E S \in SUBSET Nodes : FixSubset(r, S)

\* A step that is due is taken at some time.  Every step uses something up, so
\* this says as much as the fairness of the modules.
StackFairness ==
  /\ WF_rbcVars(protocol = "RBC" /\ RBCStep)
  /\ WF_abaVars(protocol = "ABA" /\ ABAStep)
  /\ WF_acsVars(protocol = "ACS" /\ ACSStep)
  /\ WF_coinVars(protocol = "Coin" /\ CoinStep)
  /\ WF_vars(protocol = "HB" /\ HBStep)

StackSpec == StackInit /\ [][StackNext]_stackVars /\ StackFairness

-----------------------------------------------------------------------------
(* What each protocol promises; the modules say it with its comments *)

StackTypeOK ==
  CASE protocol = "RBC" -> RBC!TypeOK
    [] protocol = "ABA" -> ABA!TypeOK
    [] protocol = "ACS" -> ACS!TypeOK
    [] protocol = "Coin" -> Coin!TypeOK
    [] protocol = "HB" -> TypeOK
    [] protocol = "Tree" -> leaves \in 1 .. 5
    [] protocol = "Prime" -> Prime!TypeOK
    [] protocol = "Keys" -> Keys!TypeOK

\* commonsubset returns the same N - f or more proposals to all, and neither of
\* its assertions fails, for what its N broadcasts and agreements return and in
\* whatever order.
SameSubset == protocol = "ACS" => ACS!SameSubset /\ ACS!NoAssertionFails

\* getCoin returns the same bit to all, whichever f + 1 shares it is made of;
\* no receive loop has it before a correct node asks, and none ends with an
\* exception or at a full queue.
SameCoin == protocol = "Coin" => Coin!SameCoin /\ Coin!NotBeforeAsked /\ Coin!NoLoopCrashes

\* The greenlets of commonsubset race for the inputs of an agreement: it gets
\* one of each node and answers as Agreement says.
AgreementsAreFaithful == ACS!AgreementsAreFaithful

\* No call waits for ever.  reliablebroadcast returns a correct leader's input
\* at every correct node, though the faulty one is silent or sends VALs of a
\* root of its own.  commonsubset returns, though broadcasts never end.  Every
\* node decides in binaryagreement, though others decide first and leave,
\* unless the coin fails it in every epoch of the model.  When f + 1 ask,
\* everyone who asks gets the coin, also when the shares came before.  Every
\* node of HoneyBadgerBFT runs its rounds, unless its buffer runs dry or shares
\* of a faulty node are bad.
CallsReturn ==
  /\ protocol = "RBC" => RBC!Validity
  /\ protocol = "ACS" => ACS!Termination
  /\ protocol = "ABA" => ABA!Progress
  /\ protocol = "Coin" => Coin!CoinComes
  /\ protocol = "HB" => Termination

\* The branch getMerkleBranch makes is accepted for every length of the list,
\* powers of two or not, and nothing else is: merkleVerify accepts at an index
\* only the value of the list there, no inner node, and with one branch.
BranchesBind == protocol = "Tree" => Tree!Complete(leaves) /\ Tree!Binding(leaves)

\* is_probable_prime says False of composite numbers only, whatever is drawn,
\* and at most a quarter of the bases it may draw for one do not show it.
FewLiars == protocol = "Prime" => Prime!FalseIsComposite /\ Prime!FewLiars

\* Any k players combine the one signature that verifies and open a ciphertext,
\* a false share among theirs makes tpke raise, and the keys of fewer than k fit
\* every secret dealer may have drawn.
ThresholdCounts ==
  protocol = "Keys" => Keys!SameSignature /\ Keys!OpensOrRaises /\ Keys!FewerLearnNothing
=============================================================================
