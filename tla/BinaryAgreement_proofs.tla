------------------------- MODULE BinaryAgreement_proofs -------------------------
(***************************************************************************)
(* Theorems about BinaryAgreement for any number of nodes and epochs, any   *)
(* inputs and coins, and any behaviour of at most F < N/3 faulty nodes.     *)
(* At the end, theorems about CommonCoin, where the coins come from.        *)
(***************************************************************************)
EXTENDS BinaryAgreement, CountingLemmas, Sequences

-----------------------------------------------------------------------------
(* Types *)

\* The parties are as the protocol assumes.
LEMMA PartiesResilient == Resilient(Nodes, Faulty, F)
  BY NodesAssumption, ResilienceAssumption DEF Resilient, N

\* TypeOK holds at the start.
LEMMA InitType == Init => TypeOK
  BY ResilienceAssumption DEF Init, TypeOK, Epochs

\* Nobody counts N - F AUXs for no value.
LEMMA AuxNeedsValue ==
  ASSUME NEW r, NEW bits \in SUBSET Bits, AuxCount(r, bits, Faulty) >= AuxQuorum
  PROVE  bits # {}
<1> SUFFICES ASSUME bits = {} PROVE FALSE
  OBVIOUS
<1>1. 0 >= N - F
  BY DEF AuxCount, AuxQuorum
<1>2. N \in Nat /\ F \in Nat /\ N >= 3 * F + 1
  BY NodesAssumption, ResilienceAssumption, FS_CardinalityType DEF N
<1> QED
  BY <1>1, <1>2

\* What TakeCoin does to the messages of the nodes: the estimate of the next
\* epoch is sent, and an epoch that everyone has left is forgotten.
LEMMA TakeCoinEffect ==
  ASSUME TypeOK, NEW p \in Correct, NEW s \in Bits, TakeCoin(p, s, Faulty)
  PROVE  /\ estSent' \in [Correct -> [Epochs -> SUBSET Bits]]
         /\ confSent' \in [Correct -> [Epochs -> {None, {0}, {1}, {0, 1}}]]
         /\ auxSent' \in [Correct -> [Epochs -> Bits \cup {None}]]
         /\ \A q \in Correct, x \in Epochs :
              /\ x # epoch[p] => confSent'[q][x] = confSent[q][x]
              /\ x # epoch[p] => \/ estSent'[q][x] = estSent[q][x]
                                 \/ /\ q = p /\ x = epoch[p] + 1 /\ ~Leaves(p, s)
                                    /\ estSent'[q][x] = estSent[q][x] \cup {Estimate(p, s)}
         /\ \/ \A q \in Correct : /\ estSent'[q][epoch[p]] = estSent[q][epoch[p]]
                                  /\ confSent'[q][epoch[p]] = confSent[q][epoch[p]]
            \/ /\ \A q \in Correct \ {p} : HasLeft(q, epoch[p])
               /\ \A q \in Correct : /\ estSent'[q][epoch[p]] = {}
                                     /\ confSent'[q][epoch[p]] = None
<1> DEFINE r == epoch[p]
           goesOn == ~Leaves(p, s) /\ r < MaxEpoch
           started == IF goesOn THEN [estSent EXCEPT ![p][r + 1] = @ \cup {Estimate(p, s)}]
                      ELSE estSent
           isLast == \A q \in Correct \ {p} : HasLeft(q, r)
           Kept(sent, forgotten) ==
             IF isLast THEN [q \in Correct |-> [sent[q] EXCEPT ![r] = forgotten]] ELSE sent
<1>1. /\ estSent' = Kept(started, {}) /\ confSent' = Kept(confSent, None)
      /\ auxSent' = Kept(auxSent, None)
  BY DEF TakeCoin
<1>2. r \in Epochs /\ MaxEpoch \in Nat /\ r \in Nat /\ r + 1 # r /\ (goesOn => r + 1 \in Epochs)
  BY ResilienceAssumption DEF TypeOK, Epochs
<1>3. Estimate(p, s) \in Bits
  BY DEF TypeOK, Estimate, FirstOf, Bits
<1>4. started \in [Correct -> [Epochs -> SUBSET Bits]]
  <2>1. CASE goesOn
    BY <1>2, <1>3, <2>1 DEF TypeOK
  <2>2. CASE ~goesOn
    BY <2>2 DEF TypeOK
  <2> QED
    BY <2>1, <2>2
<1>5. \A q \in Correct, x \in Epochs :
        \/ started[q][x] = estSent[q][x]
        \/ /\ q = p /\ x = r + 1 /\ goesOn
           /\ started[q][x] = estSent[q][x] \cup {Estimate(p, s)}
  <2>1. CASE goesOn
    BY <1>2, <2>1 DEF TypeOK
  <2>2. CASE ~goesOn
    BY <2>2 DEF TypeOK
  <2> QED
    BY <2>1, <2>2
<1>6. confSent \in [Correct -> [Epochs -> {None, {0}, {1}, {0, 1}}]]
      /\ auxSent \in [Correct -> [Epochs -> Bits \cup {None}]]
  BY DEF TypeOK
<1> HIDE DEF started, goesOn
<1>7. CASE isLast
  <2>1. /\ estSent' = [q \in Correct |-> [started[q] EXCEPT ![r] = {}]]
        /\ confSent' = [q \in Correct |-> [confSent[q] EXCEPT ![r] = None]]
        /\ auxSent' = [q \in Correct |-> [auxSent[q] EXCEPT ![r] = None]]
    BY <1>1, <1>7
  <2>2. /\ estSent' \in [Correct -> [Epochs -> SUBSET Bits]]
        /\ confSent' \in [Correct -> [Epochs -> {None, {0}, {1}, {0, 1}}]]
        /\ auxSent' \in [Correct -> [Epochs -> Bits \cup {None}]]
    BY <1>2, <1>4, <1>6, <2>1
  <2>3. \A q \in Correct, x \in Epochs :
          /\ x # r => confSent'[q][x] = confSent[q][x] /\ estSent'[q][x] = started[q][x]
          /\ estSent'[q][r] = {} /\ confSent'[q][r] = None
    BY <1>2, <1>4, <1>6, <2>1
  <2>4. \A q \in Correct, x \in Epochs : x # r =>
          \/ estSent'[q][x] = estSent[q][x]
          \/ /\ q = p /\ x = r + 1 /\ ~Leaves(p, s)
             /\ estSent'[q][x] = estSent[q][x] \cup {Estimate(p, s)}
    BY <1>5, <2>3 DEF goesOn
  <2>5. \A q \in Correct : estSent'[q][r] = {} /\ confSent'[q][r] = None
    BY <1>2, <2>3
  <2> QED
    BY <1>7, <2>2, <2>3, <2>4, <2>5
<1>8. CASE ~isLast
  <2>1. estSent' = started /\ confSent' = confSent /\ auxSent' = auxSent
    BY <1>1, <1>8
  <2>2. \A q \in Correct : started[q][r] = estSent[q][r]
    BY <1>2, <1>5
  <2> QED
    BY <1>4, <1>5, <1>6, <2>1, <2>2 DEF goesOn
<1> QED
  BY <1>7, <1>8

\* Every step keeps the types.
LEMMA StepType == TypeOK /\ [Next]_vars => TypeOK'
<1> SUFFICES ASSUME TypeOK, [Next]_vars PROVE TypeOK'
  OBVIOUS
<1>1. CASE UNCHANGED vars
  BY <1>1 DEF TypeOK, vars, mainVars
<1>2. ASSUME NEW p \in Correct, NEW r \in Epochs, NEW v \in Bits, RelayEst(p, r, v, Faulty)
      PROVE  TypeOK'
  <2>1. estSent' \in [Correct -> [Epochs -> SUBSET Bits]]
    BY <1>2 DEF TypeOK, RelayEst
  <2> QED
    BY <1>2, <2>1 DEF TypeOK, RelayEst, mainVars
<1>3. ASSUME NEW p \in Correct, NEW r \in Epochs, NEW v \in Bits, AddBinValue(p, r, v, Faulty)
      PROVE  TypeOK'
  <2>1. binValues' \in [Correct -> [Epochs -> SUBSET Bits]]
    BY <1>3 DEF TypeOK, AddBinValue
  <2> QED
    BY <1>3, <2>1 DEF TypeOK, AddBinValue, mainVars
<1>4. ASSUME NEW p \in Correct, NEW v \in Bits, TakeInput(p, v) PROVE TypeOK'
  <2>1. 0 \in Epochs
    BY ResilienceAssumption DEF Epochs
  <2>2. estSent' \in [Correct -> [Epochs -> SUBSET Bits]]
    BY <1>4, <2>1 DEF TypeOK, TakeInput
  <2>3. /\ pc' \in [Correct -> {"input", "bin", "aux", "conf", "coin", "quit", "cut"}]
        /\ vi' \in [Correct -> Bits \cup {None}]
    BY <1>4 DEF TypeOK, TakeInput
  <2> QED
    BY <1>4, <2>2, <2>3 DEF TypeOK, TakeInput
<1>5. ASSUME NEW p \in Correct, SendAux(p) PROVE TypeOK'
  <2>1. FirstOf(binValues[p][epoch[p]]) \in Bits /\ epoch[p] \in Epochs
    BY DEF FirstOf, Bits, TypeOK
  <2>2. auxSent' \in [Correct -> [Epochs -> Bits \cup {None}]]
    BY <1>5, <2>1 DEF TypeOK, SendAux
  <2>3. pc' \in [Correct -> {"input", "bin", "aux", "conf", "coin", "quit", "cut"}]
    BY <1>5 DEF TypeOK, SendAux
  <2>4. UNCHANGED <<epoch, vi, values, decided, estSent, binValues, confSent, coin>>
    BY <1>5 DEF SendAux
  <2> QED
    BY <2>2, <2>3, <2>4 DEF TypeOK
<1>6. ASSUME NEW p \in Correct, SendConf(p, Faulty) PROVE TypeOK'
  <2>1. epoch[p] \in Epochs /\ binValues[p][epoch[p]] \in SUBSET Bits
    BY DEF TypeOK
  <2>2. AuxCount(epoch[p], binValues[p][epoch[p]], Faulty) >= AuxQuorum
    BY <1>6 DEF SendConf
  <2>3. binValues[p][epoch[p]] # {}
    BY <2>1, <2>2, AuxNeedsValue
  <2>4. ConfOf(p) \in {{0}, {1}, {0, 1}}
    BY <2>1, <2>3 DEF ConfOf, Bits
  <2> QED
    BY <1>6, <2>1, <2>4 DEF TypeOK, SendConf
<1>7. ASSUME NEW p \in Correct, NEW result \in {{0}, {1}, {0, 1}}, TakeConf(p, result, Faulty)
      PROVE  TypeOK'
  BY <1>7 DEF TypeOK, TakeConf, Bits
<1>8. ASSUME NEW p \in Correct, NEW s \in Bits, TakeCoin(p, s, Faulty) PROVE TypeOK'
  <2>1. epoch[p] < MaxEpoch => epoch[p] + 1 \in Epochs
    BY ResilienceAssumption DEF TypeOK, Epochs
  <2>2. /\ pc' \in [Correct -> {"input", "bin", "aux", "conf", "coin", "quit", "cut"}]
        /\ epoch' \in [Correct -> Epochs] /\ vi' \in [Correct -> Bits \cup {None}]
    BY <1>8, <2>1 DEF TypeOK, TakeCoin
  <2>3. /\ values' \in [Correct -> SUBSET Bits] /\ decided' \in [Correct -> Bits \cup {None}]
        /\ binValues' \in [Correct -> [Epochs -> SUBSET Bits]]
        /\ coin' \in [Epochs -> Bits \cup {None}]
    BY <1>8 DEF TypeOK, TakeCoin
  <2> QED
    BY <1>8, <2>2, <2>3, TakeCoinEffect DEF TypeOK
<1> QED
  BY <1>1, <1>2, <1>3, <1>4, <1>5, <1>6, <1>7, <1>8 DEF Next, ReceiveLoop, Main

\* The variables have their types in every execution.
THEOREM TypeCorrect == Spec => []TypeOK
<1> QED
  BY InitType, StepType, PTL DEF Spec

-----------------------------------------------------------------------------
(* The inductive invariant *)

\* N - F nodes have, or may have, sent CONF with these values alone.
Quorum(r, bits) == Cardinality(ConfSenders(r, bits, Faulty)) >= N - F

\* After epoch r no correct node stands for a value outside V.
Beyond(r, V) == \A q \in Correct, later \in Epochs : later > r => estSent[q][later] \subseteq V

\* What a node keeps goes with the wait it is in.
Phases ==
  \A p \in Correct :
    /\ pc[p] = "input" <=> vi[p] = None
    /\ pc[p] = "coin" =>
         /\ values[p] # {} /\ values[p] \subseteq binValues[p][epoch[p]]
         /\ Cardinality(values[p]) = 1 => Quorum(epoch[p], values[p])

\* A value is known, confirmed or decided only when the node stood for it.
\* What everyone has left may be forgotten.
BinIsSent ==
  \A p \in Correct, r \in Epochs :
    /\ pc[p] \notin {"quit", "cut"} => binValues[p][r] \subseteq estSent[p][r]
    /\ r < epoch[p] \/ (r = epoch[p] /\ pc[p] \in {"quit", "cut"}) => binValues[p][r] = {}

ConfIsSent ==
  \A p \in Correct, r \in Epochs : confSent[p][r] # None =>
    /\ confSent[p][r] \subseteq estSent[p][r]
    /\ r < epoch[p] \/ (r = epoch[p] /\ pc[p] \in {"conf", "coin", "quit", "cut"})

\* Correct nodes stand for inputs of correct nodes.
EstIsInput ==
  \A p \in Correct, r \in Epochs : \A v \in estSent[p][r] : \E q \in Correct : vi[q] = v

\* Nobody leaves an epoch before its coin is known.
CoinKnown == \A p \in Correct, r \in Epochs : r < epoch[p] => coin[r] # None

\* An epoch binds what comes after it to its coin, unless N - F nodes were sure
\* of the other value.
CoinBinds ==
  \A r \in Epochs :
    /\ coin[r] = None => Beyond(r, {})
    /\ coin[r] # None /\ ~Over(r) => Beyond(r, {coin[r]}) \/ Quorum(r, {1 - coin[r]})

\* The epoch of a decision binds what comes after it to the value decided.
Binds(r, v) ==
  /\ coin[r] = v /\ Beyond(r, {v})
  /\ Over(r) \/ Quorum(r, {v})

DecisionBinds ==
  \A p \in Correct : decided[p] # None =>
    \E r \in Epochs : (r < epoch[p] \/ pc[p] = "cut") /\ Binds(r, decided[p])

DecisionsAgree ==
  \A p, q \in Correct :
    decided[p] # None /\ decided[q] # None => decided[p] = decided[q]

IInv ==
  /\ TypeOK /\ Phases /\ BinIsSent /\ ConfIsSent /\ EstIsInput
  /\ CoinKnown /\ CoinBinds /\ DecisionBinds /\ DecisionsAgree

-----------------------------------------------------------------------------
(* Quorums *)

\* Of f + 1 senders of an EST one is correct.
LEMMA EstHasCorrect ==
  ASSUME NEW r, NEW v, Cardinality(EstSenders(r, v, Faulty)) >= F + 1
  PROVE  \E u \in Correct : v \in estSent[u][r]
<1>1. EstSenders(r, v, Faulty) \in SUBSET Nodes
  BY NodesAssumption DEF EstSenders, Correct
<1>2. PICK u \in Nodes \ Faulty : u \in EstSenders(r, v, Faulty)
  BY <1>1, PartiesResilient, OneIsCorrect
<1> QED
  BY <1>2 DEF EstSenders, Correct

\* Two quorums of CONFs of an epoch have a correct sender in common.
LEMMA ConfQuorumsMeet ==
  ASSUME NEW r, NEW a, NEW b, Quorum(r, a), Quorum(r, b)
  PROVE  \E u \in Correct : confSent[u][r] = a /\ confSent[u][r] = b
<1>1. ConfSenders(r, a, Faulty) \in SUBSET Nodes /\ ConfSenders(r, b, Faulty) \in SUBSET Nodes
  BY NodesAssumption DEF ConfSenders, Correct
<1>2. PICK u \in Nodes \ Faulty :
        u \in ConfSenders(r, a, Faulty) /\ u \in ConfSenders(r, b, Faulty)
  BY <1>1, PartiesResilient, QuorumsMeet DEF Quorum, N
<1> QED
  BY <1>2 DEF ConfSenders, Correct

\* A quorum lasts as long as its senders' CONFs are kept.
LEMMA QuorumStays ==
  ASSUME NEW r, NEW bits, Quorum(r, bits),
         \A q \in Correct : confSent[q][r] = bits => confSent'[q][r] = bits
  PROVE  Quorum(r, bits)'
<1> DEFINE S == ConfSenders(r, bits, Faulty)
           T == ConfSenders(r, bits, Faulty)'
<1>1. S \in SUBSET T /\ T \in SUBSET Nodes /\ S \in SUBSET Nodes
  BY NodesAssumption DEF ConfSenders, Correct
<1>2. IsFiniteSet(T) /\ Cardinality(T) \in Nat /\ Cardinality(S) \in Nat
  BY <1>1, PartiesResilient, CountsAreNat
<1>3. Cardinality(S) <= Cardinality(T)
  BY <1>1, <1>2, FS_Subset
<1>4. N \in Nat /\ F \in Nat
  BY NodesAssumption, ResilienceAssumption, FS_CardinalityType DEF N
<1>5. Cardinality(S) >= N - F
  BY DEF Quorum
<1> HIDE DEF S, T
<1>6. Cardinality(T) >= N - F
  BY <1>2, <1>3, <1>4, <1>5
<1> QED
  BY <1>6 DEF T, Quorum

-----------------------------------------------------------------------------
(* The steps before the coin *)

\* A step that neither changes a coin or an epoch nor sends a value nobody
\* correct stands for keeps what the epochs bind.
LEMMA BindingStays ==
  ASSUME TypeOK, CoinKnown, CoinBinds, DecisionBinds, DecisionsAgree,
         UNCHANGED <<epoch, decided, coin>>,
         \A q \in Correct : pc[q] \in {"quit", "cut"} <=> pc'[q] \in {"quit", "cut"},
         \A q \in Correct : pc[q] = "cut" <=> pc'[q] = "cut",
         \A q \in Correct, r \in Epochs :
           confSent[q][r] # None => confSent'[q][r] = confSent[q][r],
         \A r \in Epochs, V \in SUBSET Bits : Beyond(r, V) => Beyond(r, V)'
  PROVE  (CoinKnown /\ CoinBinds /\ DecisionBinds /\ DecisionsAgree)'
<1>1. ASSUME NEW r \in Epochs PROVE Over(r)' <=> Over(r)
  BY DEF Over, HasLeft
<1>2. ASSUME NEW r \in Epochs, NEW v \in Bits, Quorum(r, {v}) PROVE Quorum(r, {v})'
  <2>1. \A q \in Correct : confSent[q][r] = {v} => confSent'[q][r] = {v}
    BY NoneAssumption
  <2> QED
    BY <1>2, <2>1, QuorumStays
<1>3. CoinKnown'
  BY DEF CoinKnown
<1>4. CoinBinds'
  <2> SUFFICES ASSUME NEW r \in Epochs
               PROVE  /\ coin[r] = None => Beyond(r, {})'
                      /\ coin[r] # None /\ ~Over(r)' =>
                           Beyond(r, {coin[r]})' \/ Quorum(r, {1 - coin[r]})'
    BY DEF CoinBinds
  <2>1. CASE coin[r] = None
    BY <2>1 DEF CoinBinds
  <2>2. CASE coin[r] # None /\ ~Over(r)'
    <3> PICK c \in Bits : c = coin[r]
      BY <2>2 DEF TypeOK
    <3>1. Beyond(r, {c}) \/ Quorum(r, {1 - c})
      BY <1>1, <2>2 DEF CoinBinds
    <3>2. 1 - c \in Bits
      BY DEF Bits
    <3>3. Beyond(r, {c})' \/ Quorum(r, {1 - c})'
      BY <1>2, <3>1, <3>2
    <3> QED
      BY <2>2, <3>3
  <2> QED
    BY <2>1, <2>2
<1>5. DecisionBinds'
  <2> SUFFICES ASSUME NEW p \in Correct, decided[p] # None
               PROVE  \E r \in Epochs : (r < epoch'[p] \/ pc'[p] = "cut") /\ Binds(r, decided[p])'
    BY DEF DecisionBinds
  <2> PICK v \in Bits : v = decided[p]
    BY DEF TypeOK
  <2>1. PICK r \in Epochs : (r < epoch[p] \/ pc[p] = "cut") /\ Binds(r, v)
    BY DEF DecisionBinds
  <2>2. Binds(r, v)'
    BY <1>1, <1>2, <2>1 DEF Binds
  <2> QED
    BY <2>1, <2>2
<1>6. DecisionsAgree'
  BY DEF DecisionsAgree
<1> QED
  BY <1>3, <1>4, <1>5, <1>6

\* A step in which no node leaves an epoch keeps what goes with the waits.
LEMMA PhasesStay ==
  ASSUME TypeOK, TypeOK', Phases, UNCHANGED epoch,
         \A q \in Correct, r \in Epochs :
           confSent[q][r] # None => confSent'[q][r] = confSent[q][r],
         \A q \in Correct : pc'[q] = "input" <=> vi'[q] = None,
         \A q \in Correct : pc'[q] = "coin" =>
           /\ \/ pc[q] = "coin" /\ values'[q] = values[q]
              \/ /\ values'[q] # {} /\ values'[q] \subseteq binValues[q][epoch[q]]
                 /\ Cardinality(values'[q]) = 1 => Quorum(epoch[q], values'[q])
           /\ binValues[q][epoch[q]] \subseteq binValues'[q][epoch[q]]
  PROVE  Phases'
<1> SUFFICES ASSUME NEW q \in Correct, pc'[q] = "coin"
             PROVE  /\ values'[q] # {} /\ values'[q] \subseteq binValues'[q][epoch[q]]
                    /\ Cardinality(values'[q]) = 1 => Quorum(epoch[q], values[q])'
  BY DEF Phases
<1> PICK r \in Epochs, bits \in SUBSET Bits : r = epoch[q] /\ bits = values'[q]
  BY DEF TypeOK
<1>1. /\ bits # {} /\ bits \subseteq binValues'[q][r]
      /\ Cardinality(bits) = 1 => Quorum(r, bits)
  BY DEF Phases
<1>2. Quorum(r, bits) => Quorum(r, bits)'
  BY QuorumStays, NoneAssumption
<1>3. Quorum(epoch[q], values[q])' <=> Quorum(r, bits)'
  BY DEF Quorum, ConfSenders
<1> QED
  BY <1>1, <1>2, <1>3

\* The receive loop passes on what a correct node stands for.
LEMMA RelayEstInv ==
  ASSUME IInv, TypeOK', NEW p \in Correct, NEW r \in Epochs, NEW v \in Bits,
         RelayEst(p, r, v, Faulty)
  PROVE  IInv'
<1>1. /\ UNCHANGED <<pc, epoch, vi, values, decided, binValues, auxSent, confSent, coin>>
      /\ estSent' = [estSent EXCEPT ![p][r] = @ \cup {v}]
  BY DEF RelayEst, mainVars
<1>2. PICK u \in Correct : v \in estSent[u][r]
  BY EstHasCorrect DEF RelayEst, RelayThreshold
<1>3. \A q \in Correct, x \in Epochs :
        /\ estSent[q][x] \subseteq estSent'[q][x]
        /\ \A w \in estSent'[q][x] : w \in estSent[q][x] \/ (x = r /\ w = v)
  BY <1>1 DEF IInv, TypeOK
<1>4. \A x \in Epochs, V \in SUBSET Bits : Beyond(x, V) => Beyond(x, V)'
  BY <1>2, <1>3 DEF Beyond
<1>5. (CoinKnown /\ CoinBinds /\ DecisionBinds /\ DecisionsAgree)'
  BY <1>1, <1>4, BindingStays DEF IInv
<1>6. Phases'
  BY <1>1, PhasesStay DEF IInv, Phases
<1>7. BinIsSent' /\ ConfIsSent'
  BY <1>1, <1>3 DEF IInv, BinIsSent, ConfIsSent
<1>8. EstIsInput'
  BY <1>1, <1>2, <1>3 DEF IInv, EstIsInput
<1> QED
  BY <1>5, <1>6, <1>7, <1>8 DEF IInv

\* A value enters bin_values in the node's own epoch or later.
LEMMA AddBinValueInv ==
  ASSUME IInv, TypeOK', NEW p \in Correct, NEW r \in Epochs, NEW v \in Bits,
         AddBinValue(p, r, v, Faulty)
  PROVE  IInv'
<1>1. /\ UNCHANGED <<pc, epoch, vi, values, decided, estSent, auxSent, confSent, coin>>
      /\ binValues' = [binValues EXCEPT ![p][r] = @ \cup {v}]
      /\ pc[p] \notin {"quit", "cut"} /\ r >= epoch[p] /\ v \in estSent[p][r]
  BY DEF AddBinValue, mainVars
<1>2. \A q \in Correct, x \in Epochs :
        /\ binValues[q][x] \subseteq binValues'[q][x]
        /\ \A w \in binValues'[q][x] : w \in binValues[q][x] \/ (q = p /\ x = r /\ w = v)
  BY <1>1 DEF IInv, TypeOK
<1>3. r \in Nat /\ epoch[p] \in Nat
  BY ResilienceAssumption DEF IInv, TypeOK, Epochs
<1>4. (CoinKnown /\ CoinBinds /\ DecisionBinds /\ DecisionsAgree)'
  BY <1>1, BindingStays DEF IInv, Beyond
<1>5. Phases'
  BY <1>1, <1>2, <1>3, PhasesStay DEF IInv, TypeOK, Phases
<1>6. BinIsSent' /\ ConfIsSent' /\ EstIsInput'
  BY <1>1, <1>2, <1>3 DEF IInv, BinIsSent, ConfIsSent, EstIsInput
<1> QED
  BY <1>4, <1>5, <1>6 DEF IInv

\* The input is the node's own estimate.
LEMMA TakeInputInv ==
  ASSUME IInv, TypeOK', NEW p \in Correct, NEW v \in Bits, TakeInput(p, v)
  PROVE  IInv'
<1>1. /\ UNCHANGED <<epoch, values, decided, binValues, auxSent, confSent, coin>>
      /\ pc[p] = "input" /\ pc' = [pc EXCEPT ![p] = "bin"] /\ vi' = [vi EXCEPT ![p] = v]
      /\ estSent' = [estSent EXCEPT ![p][0] = @ \cup {v}]
  BY DEF TakeInput
<1>2. \A q \in Correct : /\ pc'[q] = IF q = p THEN "bin" ELSE pc[q]
                         /\ vi'[q] = IF q = p THEN v ELSE vi[q]
  BY <1>1 DEF IInv, TypeOK
<1>3. 0 \in Epochs /\ Epochs \subseteq Nat
  BY ResilienceAssumption DEF Epochs
<1>4. \A q \in Correct, x \in Epochs :
        /\ estSent[q][x] \subseteq estSent'[q][x]
        /\ x # 0 => estSent'[q][x] = estSent[q][x]
        /\ \A w \in estSent'[q][x] : w \in estSent[q][x] \/ w = v
  BY <1>1, <1>3 DEF IInv, TypeOK
<1>5. ASSUME NEW x \in Epochs, NEW V \in SUBSET Bits, Beyond(x, V) PROVE Beyond(x, V)'
  <2> SUFFICES ASSUME NEW q \in Correct, NEW later \in Epochs, later > x
               PROVE  estSent'[q][later] \subseteq V
    BY DEF Beyond
  <2>1. later # 0
    BY <1>3
  <2>2. estSent[q][later] \subseteq V
    BY <1>5 DEF Beyond
  <2> QED
    BY <1>4, <2>1, <2>2
<1>6. (CoinKnown /\ CoinBinds /\ DecisionBinds /\ DecisionsAgree)'
  BY <1>1, <1>2, <1>5, BindingStays DEF IInv
<1>7. Phases'
  BY <1>1, <1>2, NoneAssumption, PhasesStay DEF IInv, Phases
<1>8. BinIsSent' /\ ConfIsSent'
  BY <1>1, <1>2, <1>4 DEF IInv, BinIsSent, ConfIsSent
<1>9. EstIsInput'
  <2>1. vi[p] = None
    BY <1>1 DEF IInv, Phases
  <2>2. \A w \in Bits, q \in Correct : vi[q] = w => vi'[q] = w
    BY <1>2, <2>1, NoneAssumption
  <2>3. \A q \in Correct, x \in Epochs : estSent[q][x] \subseteq Bits
    BY DEF IInv, TypeOK
  <2> QED
    BY <1>2, <1>4, <2>2, <2>3 DEF IInv, EstIsInput
<1> QED
  BY <1>6, <1>7, <1>8, <1>9 DEF IInv

\* AUX only moves the node on.
LEMMA SendAuxInv ==
  ASSUME IInv, TypeOK', NEW p \in Correct, SendAux(p)
  PROVE  IInv'
<1>1. /\ UNCHANGED <<epoch, vi, values, decided, estSent, binValues, confSent, coin>>
      /\ pc[p] = "bin" /\ pc' = [pc EXCEPT ![p] = "aux"]
  BY DEF SendAux
<1>2. \A q \in Correct : pc'[q] = IF q = p THEN "aux" ELSE pc[q]
  BY <1>1 DEF IInv, TypeOK
<1>3. (CoinKnown /\ CoinBinds /\ DecisionBinds /\ DecisionsAgree)'
  BY <1>1, <1>2, BindingStays DEF IInv, Beyond
<1>4. Phases'
  BY <1>1, <1>2, PhasesStay DEF IInv, Phases
<1>5. BinIsSent' /\ ConfIsSent' /\ EstIsInput'
  BY <1>1, <1>2 DEF IInv, BinIsSent, ConfIsSent, EstIsInput
<1> QED
  BY <1>3, <1>4, <1>5 DEF IInv

\* CONF carries values the node stood for, and is sent once in an epoch.
LEMMA SendConfInv ==
  ASSUME IInv, TypeOK', NEW p \in Correct, SendConf(p, Faulty)
  PROVE  IInv'
<1> PICK r \in Epochs : r = epoch[p]
  BY DEF IInv, TypeOK
<1>1. /\ UNCHANGED <<epoch, vi, values, decided, estSent, binValues, auxSent, coin>>
      /\ pc[p] = "aux" /\ pc' = [pc EXCEPT ![p] = "conf"]
      /\ confSent' = [confSent EXCEPT ![p][r] = binValues[p][r]]
  BY DEF SendConf, ConfOf
<1>2. \A q \in Correct :
        /\ pc'[q] = IF q = p THEN "conf" ELSE pc[q]
        /\ \A x \in Epochs :
             confSent'[q][x] = IF q = p /\ x = r THEN binValues[p][r] ELSE confSent[q][x]
  BY <1>1 DEF IInv, TypeOK
<1>3. r \in Nat
  BY ResilienceAssumption DEF Epochs
<1>4. confSent[p][r] = None
  BY <1>1, <1>3 DEF IInv, ConfIsSent
<1>5. \A q \in Correct, x \in Epochs :
        confSent[q][x] # None => confSent'[q][x] = confSent[q][x]
  BY <1>2, <1>4
<1>6. (CoinKnown /\ CoinBinds /\ DecisionBinds /\ DecisionsAgree)'
  BY <1>1, <1>2, <1>5, BindingStays DEF IInv, Beyond
<1>7. Phases'
  BY <1>1, <1>2, <1>5, PhasesStay DEF IInv, Phases
<1>8. BinIsSent' /\ EstIsInput'
  BY <1>1, <1>2 DEF IInv, BinIsSent, EstIsInput
<1>9. ConfIsSent'
  BY <1>1, <1>2 DEF IInv, BinIsSent, ConfIsSent
<1> QED
  BY <1>6, <1>7, <1>8, <1>9 DEF IInv

\* A node is sure of a value that a quorum of CONFs has alone.
LEMMA TakeConfInv ==
  ASSUME IInv, TypeOK', NEW p \in Correct, NEW result \in {{0}, {1}, {0, 1}},
         TakeConf(p, result, Faulty)
  PROVE  IInv'
<1>1. /\ UNCHANGED <<epoch, vi, decided, estSent, binValues, auxSent, confSent, coin>>
      /\ pc[p] = "conf" /\ pc' = [pc EXCEPT ![p] = "coin"]
      /\ values' = [values EXCEPT ![p] = result]
      /\ result \subseteq binValues[p][epoch[p]]
      /\ Cardinality(result) = 1 => Quorum(epoch[p], result)
  BY DEF TakeConf, Backed, Quorum
<1>2. \A q \in Correct : /\ pc'[q] = IF q = p THEN "coin" ELSE pc[q]
                         /\ values'[q] = IF q = p THEN result ELSE values[q]
  BY <1>1 DEF IInv, TypeOK
<1>3. (CoinKnown /\ CoinBinds /\ DecisionBinds /\ DecisionsAgree)'
  BY <1>1, <1>2, BindingStays DEF IInv, Beyond
<1>4. Phases'
  <2>1. result # {}
    OBVIOUS
  <2> QED
    BY <1>1, <1>2, <2>1, PhasesStay DEF IInv, Phases
<1>5. BinIsSent' /\ ConfIsSent' /\ EstIsInput'
  BY <1>1, <1>2 DEF IInv, BinIsSent, ConfIsSent, EstIsInput
<1> QED
  BY <1>3, <1>4, <1>5 DEF IInv

-----------------------------------------------------------------------------
(* The coin *)

\* What a node makes its estimate is one of its values: of both, the coin.
LEMMA EstimateIsValue ==
  ASSUME IInv, NEW p \in Correct, NEW s \in Bits, pc[p] = "coin"
  PROVE  /\ Estimate(p, s) \in values[p]
         /\ Estimate(p, s) # s => values[p] = {1 - s} /\ Quorum(epoch[p], values[p])
         /\ values[p] \subseteq estSent[p][epoch[p]]
<1>1. /\ values[p] \in SUBSET {0, 1} /\ values[p] # {} /\ epoch[p] \in Epochs
      /\ values[p] \subseteq binValues[p][epoch[p]]
      /\ Cardinality(values[p]) = 1 => Quorum(epoch[p], values[p])
  BY DEF IInv, TypeOK, Phases, Bits
<1>2. Cardinality({0}) = 1 /\ Cardinality({1}) = 1 /\ Cardinality({0, 1}) # 1
  <2>1. Cardinality({0}) = 1 /\ Cardinality({1}) = 1
    BY FS_Singleton
  <2>2. IsFiniteSet({0})
    BY FS_Singleton
  <2>3. 1 \notin {0} /\ {0} \cup {1} = {0, 1}
    OBVIOUS
  <2>4. Cardinality({0} \cup {1}) = Cardinality({0}) + 1
    BY <2>2, <2>3, FS_AddElement
  <2> QED
    BY <2>1, <2>3, <2>4
<1>3. values[p] = {0} \/ values[p] = {1} \/ values[p] = {0, 1}
  BY <1>1
<1>4. values[p] \subseteq estSent[p][epoch[p]]
  BY <1>1 DEF IInv, BinIsSent
<1>5. CASE values[p] = {0, 1}
  BY <1>2, <1>4, <1>5 DEF Estimate, Bits
<1>6. CASE values[p] = {0}
  BY <1>1, <1>2, <1>4, <1>6 DEF Estimate, FirstOf, Bits
<1>7. CASE values[p] = {1}
  BY <1>1, <1>2, <1>4, <1>7 DEF Estimate, FirstOf, Bits
<1> QED
  BY <1>3, <1>5, <1>6, <1>7

\* The steps of a node that the coin s of its epoch r is shown to.
CoinStep(p, s, r) ==
  /\ pc[p] = "coin" /\ epoch[p] = r /\ coin[r] \in {None, s}
  /\ vi' = vi
  /\ \A q \in Correct \ {p} :
       /\ pc'[q] = pc[q] /\ epoch'[q] = epoch[q]
       /\ values'[q] = values[q] /\ decided'[q] = decided[q]
  /\ decided'[p] = IF Decides(p, s) THEN s ELSE decided[p]
  /\ \/ pc'[p] = "bin" /\ epoch'[p] = r + 1
     \/ pc'[p] = "cut" /\ epoch'[p] = r
     \/ pc'[p] = "quit" /\ epoch'[p] = r /\ Leaves(p, s)
  /\ \A x \in Epochs : coin'[x] = IF x = r THEN s ELSE coin[x]
  /\ \A q \in Correct, x \in Epochs :
       binValues'[q][x] = IF q = p /\ x = r THEN {} ELSE binValues[q][x]

\* What TakeCoin does to the variables of each node.
LEMMA TakeCoinSteps ==
  ASSUME TypeOK, NEW p \in Correct, NEW s \in Bits, NEW r \in Epochs, epoch[p] = r,
         TakeCoin(p, s, Faulty)
  PROVE  CoinStep(p, s, r)
<1>1. pc[p] = "coin" /\ coin[r] \in {None, s} /\ vi' = vi
  BY DEF TakeCoin
<1>2. \A q \in Correct \ {p} : pc'[q] = pc[q] /\ epoch'[q] = epoch[q]
  BY DEF TakeCoin, TypeOK
<1>3. \A q \in Correct \ {p} : values'[q] = values[q] /\ decided'[q] = decided[q]
  BY DEF TakeCoin, TypeOK
<1>4. decided'[p] = IF Decides(p, s) THEN s ELSE decided[p]
  BY DEF TakeCoin, TypeOK
<1>5. \/ pc'[p] = "bin" /\ epoch'[p] = r + 1
      \/ pc'[p] = "cut" /\ epoch'[p] = r
      \/ pc'[p] = "quit" /\ epoch'[p] = r /\ Leaves(p, s)
  <2>1. CASE Leaves(p, s)
    BY <2>1 DEF TakeCoin, TypeOK
  <2>2. CASE ~Leaves(p, s) /\ r < MaxEpoch
    BY <2>2 DEF TakeCoin, TypeOK
  <2>3. CASE ~Leaves(p, s) /\ ~(r < MaxEpoch)
    BY <2>3 DEF TakeCoin, TypeOK
  <2> QED
    BY <2>1, <2>2, <2>3
<1>6. \A x \in Epochs : coin'[x] = IF x = r THEN s ELSE coin[x]
  BY DEF TakeCoin, TypeOK
<1>7. \A q \in Correct, x \in Epochs :
        binValues'[q][x] = IF q = p /\ x = r THEN {} ELSE binValues[q][x]
  <2>1. binValues' = [binValues EXCEPT ![p][r] = {}]
    BY DEF TakeCoin
  <2>2. ASSUME NEW q \in Correct, NEW x \in Epochs
        PROVE  binValues'[q][x] = IF q = p /\ x = r THEN {} ELSE binValues[q][x]
    <3>1. CASE q = p
      BY <2>1, <3>1 DEF TypeOK
    <3>2. CASE q # p
      BY <2>1, <3>2 DEF TypeOK
    <3> QED
      BY <3>1, <3>2
  <2> QED
    BY <2>2
<1> QED
  BY <1>1, <1>2, <1>3, <1>4, <1>5, <1>6, <1>7 DEF CoinStep

\* What TakeCoin does to the messages of epoch r and to those of the next one.
MessageStep(p, s, r) ==
  /\ \A q \in Correct, x \in Epochs : x # r =>
       /\ confSent'[q][x] = confSent[q][x]
       /\ estSent[q][x] \subseteq estSent'[q][x]
       /\ \A w \in estSent'[q][x] : w \in estSent[q][x] \/ (x = r + 1 /\ w = Estimate(p, s))
  /\ \/ \A q \in Correct : estSent'[q][r] = estSent[q][r] /\ confSent'[q][r] = confSent[q][r]
     \/ /\ \A q \in Correct \ {p} : HasLeft(q, r)
        /\ \A q \in Correct : estSent'[q][r] = {} /\ confSent'[q][r] = None

LEMMA TakeCoinMessages ==
  ASSUME TypeOK, NEW p \in Correct, NEW s \in Bits, NEW r \in Epochs, epoch[p] = r,
         TakeCoin(p, s, Faulty)
  PROVE  MessageStep(p, s, r)
<1>1. \A q \in Correct, x \in Epochs : x # r => confSent'[q][x] = confSent[q][x]
  BY TakeCoinEffect
<1>2. \A q \in Correct, x \in Epochs : x # r =>
        \/ estSent'[q][x] = estSent[q][x]
        \/ /\ q = p /\ x = r + 1
           /\ estSent'[q][x] = estSent[q][x] \cup {Estimate(p, s)}
  BY TakeCoinEffect
<1>3. \/ \A q \in Correct : estSent'[q][r] = estSent[q][r] /\ confSent'[q][r] = confSent[q][r]
      \/ /\ \A q \in Correct \ {p} : HasLeft(q, r)
         /\ \A q \in Correct : estSent'[q][r] = {} /\ confSent'[q][r] = None
  BY TakeCoinEffect
<1>4. \A q \in Correct, x \in Epochs : x # r =>
        /\ estSent[q][x] \subseteq estSent'[q][x]
        /\ \A w \in estSent'[q][x] : w \in estSent[q][x] \/ (x = r + 1 /\ w = Estimate(p, s))
  BY <1>2
<1> QED
  BY <1>1, <1>3, <1>4 DEF MessageStep

\* Nobody comes back to an epoch it has left, and the step takes p out of r.
LEMMA CoinLeaves ==
  ASSUME TypeOK, NEW p \in Correct, NEW s \in Bits, NEW r \in Epochs, CoinStep(p, s, r)
  PROVE  /\ HasLeft(p, r)' /\ r \in Nat /\ (pc'[p] # "quit" => r < epoch'[p] \/ pc'[p] = "cut")
         /\ \A x \in Epochs : ~(x > r) /\ ~(x < r) => x = r
         /\ \A q \in Correct, x \in Epochs :
              /\ HasLeft(q, x) => HasLeft(q, x)'
              /\ x < epoch[q] \/ pc[q] = "cut" => x < epoch'[q] \/ pc'[q] = "cut"
         /\ \A x \in Epochs : Over(x) => Over(x)' /\ x # r
<1>1. Epochs \subseteq Nat
  BY ResilienceAssumption DEF Epochs
<1>2. /\ HasLeft(p, r)' /\ (pc'[p] # "quit" => r < epoch'[p] \/ pc'[p] = "cut")
      /\ ~HasLeft(p, r)
  BY <1>1 DEF CoinStep, HasLeft
<1>3. ASSUME NEW q \in Correct, NEW x \in Epochs
      PROVE  /\ HasLeft(q, x) => HasLeft(q, x)'
             /\ x < epoch[q] \/ pc[q] = "cut" => x < epoch'[q] \/ pc'[q] = "cut"
  <2>1. CASE q = p
    BY <1>1, <2>1 DEF CoinStep, HasLeft
  <2>2. CASE q # p
    BY <2>2 DEF CoinStep, HasLeft
  <2> QED
    BY <2>1, <2>2
<1>4. \A x \in Epochs : Over(x) => Over(x)' /\ x # r
  BY <1>2, <1>3 DEF Over
<1> QED
  BY <1>1, <1>2, <1>3, <1>4

\* What is bound, and which quorums there are, when p takes the coin s of r.
LEMMA CoinKeeps ==
  ASSUME IInv, NEW p \in Correct, NEW s \in Bits, NEW r \in Epochs,
         CoinStep(p, s, r), MessageStep(p, s, r)
  PROVE  /\ \A x \in Epochs, V \in SUBSET Bits :
              Beyond(x, V) /\ (x = r => Estimate(p, s) \in V) => Beyond(x, V)'
         /\ \A x \in Epochs, v \in Bits : Quorum(x, {v}) => Quorum(x, {v})' \/ (x = r /\ Over(x)')
<1>1. r \in Nat /\ Epochs \subseteq Nat
  BY ResilienceAssumption DEF Epochs
<1>2. Estimate(p, s) \in estSent[p][r]
  BY EstimateIsValue DEF CoinStep
<1>3. ASSUME NEW x \in Epochs, NEW V \in SUBSET Bits, Beyond(x, V),
             x = r => Estimate(p, s) \in V
      PROVE  Beyond(x, V)'
  <2> SUFFICES ASSUME NEW q \in Correct, NEW y \in Epochs, y > x, NEW w \in estSent'[q][y]
               PROVE  w \in V
    BY DEF Beyond
  <2>1. CASE w \in estSent[q][y]
    BY <1>3, <2>1 DEF Beyond
  <2>2. CASE w \notin estSent[q][y]
    <3>1. y = r + 1 /\ w = Estimate(p, s)
      BY <2>2 DEF MessageStep
    <3>2. CASE x = r
      BY <1>3, <3>1, <3>2
    <3>3. CASE x # r
      <4>1. x \in Nat /\ y \in Nat
        BY <1>1
      <4>2. r > x
        BY <1>1, <3>1, <3>3, <4>1
      <4> QED
        BY <1>2, <1>3, <3>1, <4>2 DEF Beyond
    <3> QED
      BY <3>2, <3>3
  <2> QED
    BY <2>1, <2>2
<1>4. ASSUME NEW x \in Epochs, NEW v \in Bits, Quorum(x, {v})
      PROVE  Quorum(x, {v})' \/ (x = r /\ Over(x)')
  <2>1. CASE \A q \in Correct : confSent'[q][x] = confSent[q][x]
    BY <1>4, <2>1, QuorumStays
  <2>2. CASE ~(\A q \in Correct : confSent'[q][x] = confSent[q][x])
    <3>1. x = r /\ \A q \in Correct \ {p} : HasLeft(q, r)
      BY <2>2 DEF MessageStep
    <3>2. Over(r)'
      BY <3>1, CoinLeaves DEF IInv, Over
    <3> QED
      BY <3>1, <3>2
  <2> QED
    BY <2>1, <2>2
<1> QED
  BY <1>3, <1>4

\* The coin of r binds what follows unless a quorum is sure of the other value.
LEMMA CoinBindsEpoch ==
  ASSUME IInv, NEW p \in Correct, NEW s \in Bits, NEW r \in Epochs,
         CoinStep(p, s, r), MessageStep(p, s, r)
  PROVE  Beyond(r, {s})' \/ Quorum(r, {1 - s})
<1>1. ~Over(r)
  BY CoinLeaves DEF IInv
<1>2. Beyond(r, {s}) \/ Quorum(r, {1 - s})
  BY <1>1 DEF IInv, CoinBinds, CoinStep, Beyond
<1>3. CASE Estimate(p, s) # s
  BY <1>3, EstimateIsValue DEF CoinStep
<1>4. CASE Estimate(p, s) = s /\ Beyond(r, {s})
  BY <1>4, CoinKeeps
<1> QED
  BY <1>2, <1>3, <1>4

\* What a decision bound stays bound.
LEMMA BindsStays ==
  ASSUME IInv, NEW p \in Correct, NEW s \in Bits, NEW r \in Epochs,
         CoinStep(p, s, r), MessageStep(p, s, r),
         NEW x \in Epochs, NEW v \in Bits, Binds(x, v)
  PROVE  Binds(x, v)'
<1>1. coin'[x] = v /\ (x = r => v = s)
  BY NoneAssumption DEF Binds, CoinStep
<1>2. x = r => Estimate(p, s) = v
  <2> SUFFICES ASSUME x = r, Estimate(p, s) # s PROVE FALSE
    BY <1>1
  <2>1. Quorum(r, {s})
    BY <1>1, CoinLeaves DEF Binds, IInv
  <2>2. Quorum(r, {1 - s})
    BY EstimateIsValue DEF CoinStep
  <2>3. {s} = {1 - s}
    BY <2>1, <2>2, ConfQuorumsMeet
  <2> QED
    BY <2>3 DEF Bits
<1>3. Beyond(x, {v})'
  BY <1>2, CoinKeeps DEF Binds
<1>4. Over(x)' \/ Quorum(x, {v})'
  BY CoinKeeps, CoinLeaves DEF Binds, IInv
<1> QED
  BY <1>1, <1>3, <1>4 DEF Binds

\* A node decides in r: r binds what follows to the value decided, and who has
\* decided before decided the same.
LEMMA DecidesAlike ==
  ASSUME IInv, NEW p \in Correct, NEW s \in Bits, NEW r \in Epochs,
         CoinStep(p, s, r), MessageStep(p, s, r), Decides(p, s)
  PROVE  /\ Binds(r, s)'
         /\ \A q \in Correct : decided[q] # None => decided[q] = s
<1>1. values[p] = {s} /\ epoch[p] = r /\ s \in estSent[p][r] /\ Quorum(r, {s})
  <2>1. Cardinality({s}) = 1
    BY FS_Singleton
  <2> QED
    BY <2>1, EstimateIsValue DEF Decides, IInv, Phases, CoinStep
<1>2. Beyond(r, {s})'
  <2>1. CASE Quorum(r, {1 - s})
    <3>1. {s} = {1 - s}
      BY <1>1, <2>1, ConfQuorumsMeet
    <3> QED
      BY <3>1 DEF Bits
  <2> QED
    BY <2>1, CoinBindsEpoch
<1>3. Binds(r, s)'
  <2>1. Over(r)' \/ Quorum(r, {s})'
    BY <1>1, CoinKeeps
  <2> QED
    BY <1>2, <2>1 DEF Binds, CoinStep
<1>4. ASSUME NEW q \in Correct, decided[q] # None PROVE decided[q] = s
  <2> PICK v \in Bits : v = decided[q]
    BY <1>4 DEF IInv, TypeOK
  <2>1. PICK x \in Epochs : Binds(x, v)
    BY <1>4 DEF IInv, DecisionBinds
  <2>2. CASE x < r
    BY <1>1, <2>1, <2>2 DEF Binds, Beyond
  <2>3. CASE x = r
    BY <2>1, <2>3, NoneAssumption DEF Binds, CoinStep
  <2>4. CASE x > r
    <3>1. ~Over(x)
      <4>1. x \in Nat /\ r \in Nat
        BY ResilienceAssumption DEF Epochs
      <4>2. ~HasLeft(p, x)
        BY <2>4, <4>1 DEF CoinStep, HasLeft
      <4> QED
        BY <4>2 DEF Over
    <3>2. PICK u \in Correct : confSent[u][x] = {v}
      BY <2>1, <3>1, ConfQuorumsMeet DEF Binds
    <3>3. v \in estSent[u][x]
      BY <3>2, NoneAssumption DEF IInv, ConfIsSent
    <3>4. v \in estSent'[u][x]
      BY <2>4, <3>3, CoinLeaves DEF IInv, MessageStep
    <3> QED
      BY <1>2, <2>4, <3>4 DEF Beyond
  <2> QED
    BY <2>2, <2>3, <2>4, CoinLeaves DEF IInv
<1> QED
  BY <1>3, <1>4

\* Taking the coin keeps the invariant.
LEMMA CoinStepInv ==
  ASSUME IInv, TypeOK', NEW p \in Correct, NEW s \in Bits, NEW r \in Epochs,
         CoinStep(p, s, r), MessageStep(p, s, r)
  PROVE  IInv'
<1>1. r \in Nat /\ Epochs \subseteq Nat
  BY ResilienceAssumption DEF Epochs
<1>2. pc[p] = "coin" /\ epoch[p] = r /\ s # None /\ decided[p] \in Bits \cup {None}
  BY NoneAssumption DEF CoinStep, IInv, TypeOK
<1>3. CoinKnown'
  <2>1. ASSUME NEW q \in Correct, NEW x \in Epochs, x < epoch'[q], x # r
        PROVE  x < epoch[q]
    BY <1>1, <2>1 DEF CoinStep
  <2> QED
    BY <1>2, <2>1 DEF IInv, CoinKnown, CoinStep
<1>4. CoinBinds'
  <2> SUFFICES ASSUME NEW x \in Epochs
               PROVE  /\ coin'[x] = None => Beyond(x, {})'
                      /\ coin'[x] # None /\ ~Over(x)' =>
                           Beyond(x, {coin[x]})' \/ Quorum(x, {1 - coin[x]})'
    BY DEF CoinBinds
  <2>1. CASE x = r
    <3>1. Beyond(r, {s})' \/ Quorum(r, {1 - s})' \/ Over(r)'
      BY CoinBindsEpoch, CoinKeeps DEF Bits
    <3>2. coin'[x] = s
      BY <2>1 DEF CoinStep
    <3> QED
      BY <1>2, <2>1, <3>1, <3>2
  <2>2. CASE x # r /\ coin[x] = None
    <3>1. Beyond(x, {})'
      BY <2>2, CoinKeeps DEF IInv, CoinBinds
    <3> QED
      BY <2>2, <3>1 DEF CoinStep
  <2>3. CASE x # r /\ coin[x] # None /\ ~Over(x)'
    <3> PICK c \in Bits : c = coin[x]
      BY <2>3 DEF IInv, TypeOK
    <3>1. Beyond(x, {c}) \/ Quorum(x, {1 - c})
      BY <2>3, CoinLeaves DEF IInv, CoinBinds
    <3>2. 1 - c \in Bits
      BY DEF Bits
    <3>3. Beyond(x, {c})' \/ Quorum(x, {1 - c})'
      BY <2>3, <3>1, <3>2, CoinKeeps
    <3>4. coin'[x] = c
      BY <2>3 DEF CoinStep
    <3> QED
      BY <2>3, <3>3, <3>4
  <2> QED
    BY <2>1, <2>2, <2>3 DEF CoinStep
<1>5. DecisionBinds'
  <2> SUFFICES ASSUME NEW q \in Correct, decided'[q] # None
               PROVE  \E x \in Epochs : (x < epoch'[q] \/ pc'[q] = "cut") /\ Binds(x, decided[q])'
    BY DEF DecisionBinds
  <2>1. CASE q = p /\ Decides(p, s)
    <3>1. pc'[p] # "quit" /\ decided'[p] = s
      BY <1>2, <2>1 DEF CoinStep, Decides, Leaves
    <3>2. r < epoch'[p] \/ pc'[p] = "cut"
      BY <3>1, CoinLeaves DEF IInv
    <3> QED
      BY <2>1, <3>1, <3>2, DecidesAlike
  <2>2. CASE ~(q = p /\ Decides(p, s))
    <3>1. decided'[q] = decided[q]
      BY <2>2 DEF CoinStep
    <3> PICK v \in Bits : v = decided[q]
      BY <3>1 DEF IInv, TypeOK
    <3>2. PICK x \in Epochs : (x < epoch[q] \/ pc[q] = "cut") /\ Binds(x, v)
      BY <3>1 DEF IInv, DecisionBinds
    <3>3. Binds(x, v)' /\ (x < epoch'[q] \/ pc'[q] = "cut")
      BY <3>2, BindsStays, CoinLeaves DEF IInv
    <3> QED
      BY <3>1, <3>3
  <2> QED
    BY <2>1, <2>2
<1>6. DecisionsAgree'
  <2>1. CASE Decides(p, s)
    <3>1. \A q \in Correct : decided'[q] # None => decided'[q] = s
      BY <2>1, DecidesAlike DEF CoinStep
    <3> QED
      BY <3>1 DEF DecisionsAgree
  <2>2. CASE ~Decides(p, s)
    BY <2>2 DEF IInv, DecisionsAgree, CoinStep
  <2> QED
    BY <2>1, <2>2
<1>7. Phases'
  <2>1. \A q \in Correct : pc'[q] = "input" <=> vi'[q] = None
    BY <1>2 DEF IInv, Phases, CoinStep
  <2>2. ASSUME NEW q \in Correct, pc'[q] = "coin"
        PROVE  /\ values'[q] # {} /\ values'[q] \subseteq binValues'[q][epoch'[q]]
               /\ Cardinality(values'[q]) = 1 => Quorum(epoch[q], values[q])'
    <3>1. q # p
      BY <2>2 DEF CoinStep
    <3> PICK x \in Epochs, bits \in SUBSET Bits : x = epoch[q] /\ bits = values[q]
      BY DEF IInv, TypeOK
    <3>2. pc[q] = "coin" /\ epoch'[q] = x /\ values'[q] = bits /\ binValues'[q][x] = binValues[q][x]
      BY <2>2, <3>1 DEF CoinStep
    <3>3. bits # {} /\ bits \subseteq binValues[q][x] /\ (Cardinality(bits) = 1 => Quorum(x, bits))
      BY <3>2 DEF IInv, Phases
    <3>4. \A u \in Correct : confSent'[u][x] = confSent[u][x]
      <4>1. x \in Nat
        BY <1>1
      <4>2. ~HasLeft(q, x)
        BY <3>2, <4>1 DEF HasLeft
      <4> QED
        BY <3>1, <4>2 DEF MessageStep
    <3>5. Quorum(x, bits) => Quorum(x, bits)'
      BY <3>4, QuorumStays
    <3>6. Quorum(epoch[q], values[q])' <=> Quorum(x, bits)'
      BY <3>2 DEF Quorum, ConfSenders
    <3> QED
      BY <3>2, <3>3, <3>5, <3>6
  <2> QED
    BY <2>1, <2>2 DEF Phases
<1>8. BinIsSent'
  <2> SUFFICES ASSUME NEW q \in Correct, NEW x \in Epochs
               PROVE  /\ pc'[q] \notin {"quit", "cut"} => binValues'[q][x] \subseteq estSent'[q][x]
                      /\ x < epoch'[q] \/ (x = epoch'[q] /\ pc'[q] \in {"quit", "cut"}) =>
                           binValues'[q][x] = {}
    BY DEF BinIsSent
  <2>1. CASE q = p /\ x = r
    BY <2>1 DEF CoinStep
  <2>2. CASE q = p /\ x # r
    BY <1>1, <1>2, <2>2 DEF CoinStep, MessageStep, IInv, BinIsSent
  <2>3. CASE q # p
    <3>1. /\ pc'[q] = pc[q] /\ epoch'[q] = epoch[q] /\ binValues'[q][x] = binValues[q][x]
          /\ epoch[q] \in Nat
      BY <1>1, <2>3 DEF CoinStep, IInv, TypeOK
    <3>2. estSent[q][x] \subseteq estSent'[q][x] \/ (x = r /\ HasLeft(q, r))
      BY <2>3 DEF MessageStep
    <3> QED
      BY <3>1, <3>2 DEF IInv, BinIsSent, HasLeft
  <2> QED
    BY <2>1, <2>2, <2>3
<1>9. ConfIsSent'
  <2> SUFFICES ASSUME NEW q \in Correct, NEW x \in Epochs, confSent'[q][x] # None
               PROVE  /\ confSent'[q][x] \subseteq estSent'[q][x]
                      /\ \/ x < epoch'[q]
                         \/ x = epoch'[q] /\ pc'[q] \in {"conf", "coin", "quit", "cut"}
    BY DEF ConfIsSent
  <2>1. confSent'[q][x] = confSent[q][x] /\ estSent[q][x] \subseteq estSent'[q][x]
    BY DEF MessageStep
  <2>2. /\ confSent[q][x] \subseteq estSent[q][x]
        /\ x < epoch[q] \/ (x = epoch[q] /\ pc[q] \in {"conf", "coin", "quit", "cut"})
    BY <2>1 DEF IInv, ConfIsSent
  <2>3. CASE q = p
    <3>1. x \in Nat /\ (x < r \/ x = r)
      BY <1>1, <1>2, <2>2, <2>3
    <3>2. x < epoch'[p] \/ (x = epoch'[p] /\ pc'[p] \in {"quit", "cut"})
      BY <1>1, <3>1 DEF CoinStep
    <3> QED
      BY <2>1, <2>2, <2>3, <3>2
  <2>4. CASE q # p
    BY <2>1, <2>2, <2>4 DEF CoinStep
  <2> QED
    BY <2>3, <2>4
<1>10. EstIsInput'
  <2>1. Estimate(p, s) \in estSent[p][r]
    BY EstimateIsValue DEF CoinStep
  <2>2. \A q \in Correct, x \in Epochs : \A w \in estSent'[q][x] :
          w \in estSent[q][x] \/ w \in estSent[p][r]
    BY <2>1 DEF MessageStep
  <2> QED
    BY <2>2 DEF IInv, EstIsInput, CoinStep
<1> QED
  BY <1>3, <1>4, <1>5, <1>6, <1>7, <1>8, <1>9, <1>10 DEF IInv

-----------------------------------------------------------------------------
(* The theorems *)

\* The invariant holds at the start.
LEMMA InitInv == Init => IInv
<1> SUFFICES ASSUME Init PROVE IInv
  OBVIOUS
<1>1. TypeOK
  BY InitType
<1>2. Epochs \subseteq Nat
  BY ResilienceAssumption DEF Epochs
<1>3. \A p \in Correct : /\ pc[p] = "input" /\ epoch[p] = 0 /\ vi[p] = None /\ decided[p] = None
                         /\ \A r \in Epochs : estSent[p][r] = {} /\ binValues[p][r] = {}
                                              /\ confSent[p][r] = None
  BY DEF Init
<1>4. \A r \in Epochs : coin[r] = None
  BY DEF Init
<1>5. Phases /\ BinIsSent /\ ConfIsSent /\ EstIsInput
  BY <1>2, <1>3 DEF Phases, BinIsSent, ConfIsSent, EstIsInput
<1>6. CoinKnown /\ CoinBinds /\ DecisionBinds /\ DecisionsAgree
  BY <1>2, <1>3, <1>4 DEF CoinKnown, CoinBinds, DecisionBinds, DecisionsAgree, Beyond
<1> QED
  BY <1>1, <1>5, <1>6 DEF IInv

\* Every step keeps it.
LEMMA StepInv == IInv /\ [Next]_vars => IInv'
<1> SUFFICES ASSUME IInv, [Next]_vars PROVE IInv'
  OBVIOUS
<1>1. TypeOK'
  BY StepType DEF IInv
<1>2. CASE UNCHANGED vars
  <2> USE <1>2 DEF vars, mainVars
  <2>1. Phases' /\ BinIsSent' /\ ConfIsSent' /\ EstIsInput'
    BY DEF IInv, Phases, BinIsSent, ConfIsSent, EstIsInput, Quorum, ConfSenders
  <2>2. CoinKnown' /\ DecisionsAgree'
    BY DEF IInv, CoinKnown, DecisionsAgree
  <2>3. CoinBinds'
    BY DEF IInv, CoinBinds, Beyond, Quorum, ConfSenders, Over, HasLeft
  <2>4. \A r \in Epochs, v \in Bits : Binds(r, v) => Binds(r, v)'
    BY DEF Binds, Beyond, Quorum, ConfSenders, Over, HasLeft
  <2>5. DecisionBinds'
    <3>1. DecisionBinds /\ \A q \in Correct : decided[q] \in Bits \cup {None}
      BY DEF IInv, TypeOK
    <3>2. /\ decided' = decided /\ epoch' = epoch /\ pc' = pc
      OBVIOUS
    <3> QED
      BY <2>4, <3>1, <3>2 DEF DecisionBinds
  <2> QED
    BY <1>1, <2>1, <2>2, <2>3, <2>5 DEF IInv
<1>3. ASSUME NEW p \in Correct, NEW s \in Bits, TakeCoin(p, s, Faulty) PROVE IInv'
  <2> PICK r \in Epochs : r = epoch[p]
    BY DEF IInv, TypeOK
  <2>1. CoinStep(p, s, r) /\ MessageStep(p, s, r)
    BY <1>3, TakeCoinSteps, TakeCoinMessages DEF IInv
  <2> QED
    BY <1>1, <2>1, CoinStepInv
<1>4. ASSUME NEW p \in Correct, ReceiveLoop(p, Faulty) PROVE IInv'
  BY <1>1, <1>4, RelayEstInv, AddBinValueInv DEF ReceiveLoop
<1>5. ASSUME NEW p \in Correct, Main(p, Faulty) PROVE IInv'
  <2>1. CASE \E v \in Bits : TakeInput(p, v)
    BY <1>1, <2>1, TakeInputInv
  <2>2. CASE SendAux(p)
    BY <1>1, <2>2, SendAuxInv
  <2>3. CASE SendConf(p, Faulty)
    BY <1>1, <2>3, SendConfInv
  <2>4. CASE \E result \in {{0}, {1}, {0, 1}} : TakeConf(p, result, Faulty)
    BY <1>1, <2>4, TakeConfInv
  <2> QED
    BY <1>3, <1>5, <2>1, <2>2, <2>3, <2>4 DEF Main
<1> QED
  BY <1>2, <1>4, <1>5 DEF Next

\* The inductive invariant holds in every execution.
THEOREM Invariance == Spec => []IInv
<1> QED
  BY InitInv, StepInv, PTL DEF Spec

\* Two nodes that are sure in the same epoch are sure of the same value.
LEMMA SureFromInv == IInv => SureValuesAgree
<1> SUFFICES ASSUME IInv, NEW p \in Correct, NEW q \in Correct,
                    pc[p] = "coin", pc[q] = "coin", epoch[p] = epoch[q],
                    Cardinality(values[p]) = 1, Cardinality(values[q]) = 1
             PROVE  values[p] = values[q]
  BY DEF SureValuesAgree
<1>1. Quorum(epoch[p], values[p]) /\ Quorum(epoch[p], values[q])
  BY DEF IInv, Phases
<1> QED
  BY <1>1, ConfQuorumsMeet

\* The nodes that end the CONF wait of an epoch on one value agree on it.
THEOREM SureAgree == Spec => []SureValuesAgree
<1> QED
  BY Invariance, SureFromInv, PTL

\* After a decision every node that waits for a coin is sure of the value decided.
LEMMA LockedFromInv == IInv => DecisionIsLocked
<1> SUFFICES ASSUME IInv, NEW p \in Correct, NEW q \in Correct,
                    decided[p] # None, pc[p] # "cut", pc[q] = "coin", epoch[q] >= epoch[p]
             PROVE  values[q] = {decided[p]}
  BY DEF DecisionIsLocked
<1> PICK v \in Bits : v = decided[p]
  BY DEF IInv, TypeOK
<1>1. PICK r \in Epochs : r < epoch[p] /\ Binds(r, v)
  BY DEF IInv, DecisionBinds
<1>2. epoch[q] \in Epochs /\ epoch[q] > r
  BY <1>1, ResilienceAssumption DEF IInv, TypeOK, Epochs
<1>3. estSent[q][epoch[q]] \subseteq {v}
  BY <1>1, <1>2 DEF Binds, Beyond
<1>4. values[q] \subseteq estSent[q][epoch[q]] /\ values[q] # {}
  BY EstimateIsValue DEF IInv, Phases, Bits
<1> QED
  BY <1>3, <1>4

\* Once a node has decided, whoever ends the CONF wait of that epoch or of a later
\* one ends it on the value decided, whatever faulty nodes send and the coin shows.
THEOREM Locked == Spec => []DecisionIsLocked
<1> QED
  BY Invariance, LockedFromInv, PTL

\* When all put in the same value, no node is left with another one or with two.
LEMMA NoWaveringFromInv == IInv => NoWavering
<1> SUFFICES ASSUME IInv, NEW v \in Bits, \A p \in Correct : vi[p] = v,
                    NEW p \in Correct, pc[p] = "coin"
             PROVE  values[p] = {v}
  BY DEF NoWavering
<1>1. epoch[p] \in Epochs /\ values[p] \subseteq estSent[p][epoch[p]] /\ values[p] # {}
  BY EstimateIsValue DEF IInv, TypeOK, Phases, Bits
<1>2. \A w \in estSent[p][epoch[p]] : w = v
  BY <1>1 DEF IInv, EstIsInput
<1> QED
  BY <1>1, <1>2

\* When the correct nodes put in one value, no epoch gives any of them another.
THEOREM Unanimous == Spec => []NoWavering
<1> QED
  BY Invariance, NoWaveringFromInv, PTL

\* The initial states are those of the agreement.
LEMMA AgreementInitially == Init => Abstract!AgreementInit
  BY DEF Init, Abstract!AgreementInit

\* Taking the input is the abstract Input, taking the coin that decides the
\* abstract Decide, and any other step changes neither an input nor a decision.
LEMMA AgreementStep == IInv /\ [Next]_vars => [Abstract!AgreementNext]_<<vi, decided>>
<1> SUFFICES ASSUME IInv, [Next]_vars
             PROVE  Abstract!AgreementNext \/ UNCHANGED <<vi, decided>>
  OBVIOUS
<1>1. CASE UNCHANGED vars
  BY <1>1 DEF vars, mainVars
<1>2. ASSUME NEW p \in Correct, ReceiveLoop(p, Faulty) PROVE UNCHANGED <<vi, decided>>
  BY <1>2 DEF ReceiveLoop, RelayEst, AddBinValue, mainVars
<1>3. ASSUME NEW p \in Correct, NEW v \in Bits, TakeInput(p, v) PROVE Abstract!Input(p, v)
  BY <1>3 DEF TakeInput, Abstract!Input, IInv, Phases
<1>4. ASSUME NEW p \in Correct, NEW s \in Bits, TakeCoin(p, s, Faulty)
      PROVE  Abstract!Decide(p, s) \/ UNCHANGED <<vi, decided>>
  <2>1. CASE ~Decides(p, s)
    BY <1>4, <2>1 DEF TakeCoin
  <2>2. CASE Decides(p, s)
    <3> PICK r \in Epochs : r = epoch[p]
      BY DEF IInv, TypeOK
    <3>1. CoinStep(p, s, r) /\ MessageStep(p, s, r)
      BY <1>4, TakeCoinSteps, TakeCoinMessages DEF IInv
    <3>2. \A q \in Correct : decided[q] \in {None, s}
      BY <2>2, <3>1, DecidesAlike
    <3>3. \E q \in Correct : vi[q] = s
      <4>1. s \in estSent[p][r]
        BY <2>2, <3>1, EstimateIsValue DEF Decides, CoinStep
      <4> QED
        BY <4>1 DEF IInv, EstIsInput
    <3>4. decided' = [decided EXCEPT ![p] = s] /\ vi' = vi
      BY <1>4, <2>2 DEF TakeCoin
    <3> QED
      BY <2>2, <3>2, <3>3, <3>4 DEF Decides, Abstract!Decide
  <2> QED
    BY <2>1, <2>2
<1>5. ASSUME NEW p \in Correct, Main(p, Faulty)
      PROVE  (\E v \in Bits : Abstract!Input(p, v) \/ Abstract!Decide(p, v))
             \/ UNCHANGED <<vi, decided>>
  BY <1>3, <1>4, <1>5 DEF Main, SendAux, SendConf, TakeConf
<1> QED
  BY <1>1, <1>2, <1>5 DEF Next, Abstract!AgreementNext, Abstract!Bits, Bits

\* The protocol implements an agreement: one value for all, and an input of a
\* correct node.
THEOREM Implements == Spec => ImplementsAgreement
<1> QED
  BY AgreementInitially, Invariance, AgreementStep, PTL
     DEF Spec, ImplementsAgreement, Abstract!AgreementSafety

-----------------------------------------------------------------------------
(* The coin.  An agreement takes one bit of each epoch, the same for all     *)
(* nodes (Coins): shared_coin is what gives it that bit.                     *)

CONSTANTS
  Q, L, KT, dealt,   \* the keys: the field, the players, the threshold, the polynomial
  Liars,             \* the players that do not follow the protocol
  CoinRounds, HashOf, BitOf

VARIABLES
  asked, shares, outputQueue, crashed, coins

Coin == INSTANCE CommonCoin WITH
  a <- dealt, Faulty <- Liars, Rounds <- CoinRounds, received <- shares, coin <- coins

\* What shared_coin assumes of its constants.
CoinAssumption ==
  /\ Coin!ShareAssumption /\ Coin!KeysAssumption
  /\ Coin!FaultyAssumption /\ Coin!RoundsAssumption

\* What Shamir's sharing gives: the shares of any KT players combine to the
\* signature that the secret itself makes.  TLC finds it so for every polynomial
\* over a small field (SameSignature of ThresholdSharing).
SharesCombine ==
  \A h \in {HashOf[r] : r \in CoinRounds} : \A S \in SUBSET Coin!Players :
    Cardinality(S) = KT =>
      Coin!CombineSignature([i \in S |-> Coin!Sign(dealt, i, h)]) = (h * Coin!VK(dealt)) % Q

\* The bit of a round.
BitOfRound(r) == BitOf[(HashOf[r] * Coin!VK(dealt)) % Q]

\* The shares a node keeps are true, each from a faulty node or one that asked;
\* nothing was put or returned before there were f + 1 of them.
SharesInv ==
  /\ asked \in [CoinRounds -> SUBSET Coin!Correct]
  /\ shares = [p \in Coin!Correct |-> [r \in CoinRounds |-> shares[p][r]]]
  /\ outputQueue = [p \in Coin!Correct |-> [r \in CoinRounds |-> outputQueue[p][r]]]
  /\ coins = [p \in Coin!Correct |-> [r \in CoinRounds |-> coins[p][r]]]
  /\ \A p \in Coin!Correct, r \in CoinRounds :
       /\ DOMAIN shares[p][r] \subseteq Coin!Players
       /\ shares[p][r] = [i \in DOMAIN shares[p][r] |-> Coin!Sign(dealt, i, HashOf[r])]
       /\ DOMAIN shares[p][r] \subseteq Liars \cup asked[r]
       /\ coins[p][r] # None \/ outputQueue[p][r] # <<>> =>
            Cardinality(DOMAIN shares[p][r]) >= F + 1

\* What was put or returned is the bit of the round, and no loop has crashed.
BitsInv ==
  /\ crashed = {}
  /\ \A p \in Coin!Correct, r \in CoinRounds :
       /\ outputQueue[p][r] \in {<<>>, <<BitOfRound(r)>>}
       /\ coins[p][r] \in {None, BitOfRound(r)}

\* The instance counts as this module does.
LEMMA SameCount == \A S : Coin!Cardinality(S) = Cardinality(S)
  BY DEF Coin!Cardinality, Cardinality, Coin!IsFiniteSet, IsFiniteSet

\* One entry of a table is set, and what that means.
EntrySet(P, R, f, g, p, r, v) ==
  /\ p \in P /\ r \in R
  /\ f = [q \in P |-> [x \in R |-> f[q][x]]] /\ g = [f EXCEPT ![p][r] = v]
EntryIs(P, R, f, g, p, r, v) ==
  /\ \A q \in P, x \in R : g[q][x] = IF q = p /\ x = r THEN v ELSE f[q][x]
  /\ g = [q \in P |-> [x \in R |-> g[q][x]]]

LEMMA OneEntry ==
  ASSUME NEW P, NEW R, NEW f, NEW g, NEW p, NEW r, NEW v, EntrySet(P, R, f, g, p, r, v)
  PROVE  EntryIs(P, R, f, g, p, r, v)
  BY DEF EntrySet, EntryIs

\* No share is kept at the start.
LEMMA CoinStarts ==
  ASSUME CoinAssumption
  PROVE  Coin!Init => SharesInv /\ BitsInv
<1> SUFFICES ASSUME Coin!Init PROVE SharesInv /\ BitsInv
  OBVIOUS
<1>1. /\ asked = [r \in CoinRounds |-> {}] /\ crashed = {}
      /\ shares = [p \in Coin!Correct |-> [r \in CoinRounds |-> Coin!NoShares]]
      /\ outputQueue = [p \in Coin!Correct |-> [r \in CoinRounds |-> <<>>]]
      /\ coins = [p \in Coin!Correct |-> [r \in CoinRounds |-> None]]
  BY DEF Coin!Init
<1>2. /\ DOMAIN Coin!NoShares = {}
      /\ \A h : Coin!NoShares = [i \in {} |-> Coin!Sign(dealt, i, h)]
  BY DEF Coin!NoShares
<1>3. BitsInv
  BY <1>1 DEF BitsInv
<1>4. SharesInv
  <2> HIDE DEF Coin!NoShares
  <2>1. \A p \in Coin!Correct, r \in CoinRounds :
          shares[p][r] = Coin!NoShares /\ outputQueue[p][r] = <<>> /\ coins[p][r] = None
    BY <1>1
  <2>2. /\ asked \in [CoinRounds -> SUBSET Coin!Correct]
        /\ shares = [p \in Coin!Correct |-> [r \in CoinRounds |-> shares[p][r]]]
        /\ outputQueue = [p \in Coin!Correct |-> [r \in CoinRounds |-> outputQueue[p][r]]]
        /\ coins = [p \in Coin!Correct |-> [r \in CoinRounds |-> coins[p][r]]]
    BY <1>1
  <2> QED
    BY <1>2, <2>1, <2>2 DEF SharesInv
<1> QED
  BY <1>3, <1>4

\* A node asks: more shares may come.
LEMMA GetCoinKeeps ==
  ASSUME SharesInv, NEW p \in Coin!Correct, NEW r \in CoinRounds, Coin!GetCoin(p, r)
  PROVE  SharesInv' /\ (BitsInv => BitsInv')
<1>1. /\ asked' = [asked EXCEPT ![r] = @ \cup {p}]
      /\ UNCHANGED <<shares, outputQueue, crashed, coins>>
  BY DEF Coin!GetCoin
<1>2. asked' \in [CoinRounds -> SUBSET Coin!Correct] /\ \A x \in CoinRounds : asked[x] \subseteq asked'[x]
  BY <1>1 DEF SharesInv
<1>3. SharesInv'
  BY <1>1, <1>2 DEF SharesInv
<1>4. BitsInv => BitsInv'
  BY <1>1 DEF BitsInv
<1> QED
  BY <1>3, <1>4

\* getCoin returns what was put.
LEMMA ReturnCoinKeeps ==
  ASSUME SharesInv, NEW p \in Coin!Correct, NEW r \in CoinRounds, Coin!ReturnCoin(p, r)
  PROVE  SharesInv' /\ (BitsInv => BitsInv')
<1>1. /\ outputQueue[p][r] # <<>>
      /\ coins' = [coins EXCEPT ![p][r] = Head(outputQueue[p][r])]
      /\ outputQueue' = [outputQueue EXCEPT ![p][r] = Tail(@)]
      /\ UNCHANGED <<asked, shares, crashed>>
  BY DEF Coin!ReturnCoin
<1>2. /\ \A q \in Coin!Correct, x \in CoinRounds :
           coins'[q][x] = IF q = p /\ x = r THEN Head(outputQueue[p][r]) ELSE coins[q][x]
      /\ coins' = [q \in Coin!Correct |-> [x \in CoinRounds |-> coins'[q][x]]]
  <2>1. coins = [q \in Coin!Correct |-> [x \in CoinRounds |-> coins[q][x]]]
    BY DEF SharesInv
  <2>2. EntrySet(Coin!Correct, CoinRounds, coins, coins', p, r, Head(outputQueue[p][r]))
    BY <1>1, <2>1 DEF EntrySet
  <2>3. EntryIs(Coin!Correct, CoinRounds, coins, coins', p, r, Head(outputQueue[p][r]))
    BY <2>2, OneEntry
  <2> QED
    BY <2>3 DEF EntryIs
<1>3. /\ \A q \in Coin!Correct, x \in CoinRounds :
           outputQueue'[q][x] = IF q = p /\ x = r THEN Tail(outputQueue[p][r])
                                ELSE outputQueue[q][x]
      /\ outputQueue' = [q \in Coin!Correct |-> [x \in CoinRounds |-> outputQueue'[q][x]]]
  <2>1. outputQueue = [q \in Coin!Correct |-> [x \in CoinRounds |-> outputQueue[q][x]]]
    BY DEF SharesInv
  <2>2. EntrySet(Coin!Correct, CoinRounds, outputQueue, outputQueue', p, r,
                 Tail(outputQueue[p][r]))
    BY <1>1, <2>1 DEF EntrySet
  <2>3. EntryIs(Coin!Correct, CoinRounds, outputQueue, outputQueue', p, r,
                Tail(outputQueue[p][r]))
    BY <2>2, OneEntry
  <2> QED
    BY <2>3 DEF EntryIs
<1>4. SharesInv'
  <2>1. ASSUME NEW q \in Coin!Correct, NEW x \in CoinRounds
        PROVE  coins'[q][x] # None \/ outputQueue'[q][x] # <<>> =>
                 Cardinality(DOMAIN shares[q][x]) >= F + 1
    <3>1. coins[q][x] # None \/ outputQueue[q][x] # <<>> =>
            Cardinality(DOMAIN shares[q][x]) >= F + 1
      BY DEF SharesInv
    <3>2. CASE q = p /\ x = r
      BY <1>1, <3>1, <3>2
    <3>3. CASE ~(q = p /\ x = r)
      <4>1. coins'[q][x] = coins[q][x] /\ outputQueue'[q][x] = outputQueue[q][x]
        BY <1>2, <1>3, <3>3
      <4> QED
        BY <3>1, <4>1
    <3> QED
      BY <3>2, <3>3
  <2>2. asked' = asked /\ shares' = shares
    BY <1>1
  <2>3. /\ outputQueue' = [q \in Coin!Correct |-> [x \in CoinRounds |-> outputQueue'[q][x]]]
        /\ coins' = [q \in Coin!Correct |-> [x \in CoinRounds |-> coins'[q][x]]]
    BY <1>2, <1>3
  <2> QED
    BY <2>1, <2>2, <2>3 DEF SharesInv
<1>5. ASSUME BitsInv PROVE BitsInv'
  <2>1. outputQueue[p][r] = <<BitOfRound(r)>>
    BY <1>1, <1>5 DEF BitsInv
  <2>2. Head(outputQueue[p][r]) = BitOfRound(r) /\ Tail(outputQueue[p][r]) = <<>>
    BY <2>1
  <2>3. \A q \in Coin!Correct, x \in CoinRounds :
          /\ outputQueue'[q][x] \in {<<>>, <<BitOfRound(x)>>}
          /\ coins'[q][x] \in {None, BitOfRound(x)}
    <3> SUFFICES ASSUME NEW q \in Coin!Correct, NEW x \in CoinRounds
                 PROVE  /\ outputQueue'[q][x] \in {<<>>, <<BitOfRound(x)>>}
                        /\ coins'[q][x] \in {None, BitOfRound(x)}
      OBVIOUS
    <3>1. CASE q = p /\ x = r
      BY <1>2, <1>3, <2>2, <3>1
    <3>2. CASE ~(q = p /\ x = r)
      <4>1. coins'[q][x] = coins[q][x] /\ outputQueue'[q][x] = outputQueue[q][x]
        BY <1>2, <1>3, <3>2
      <4> QED
        BY <1>5, <4>1 DEF BitsInv
    <3> QED
      BY <3>1, <3>2
  <2> QED
    BY <1>1, <1>5, <2>3 DEF BitsInv
<1> QED
  BY <1>4, <1>5

\* One more sender among the shares.
LEMMA OneMoreShare ==
  ASSUME NEW D, IsFiniteSet(D), NEW q, q \notin D
  PROVE  /\ IsFiniteSet(D \cup {q}) /\ Cardinality(D \cup {q}) = Cardinality(D) + 1
         /\ Cardinality(D) \in Nat
  BY FS_AddElement, FS_CardinalityType

\* A share comes: it is the one its sender should send, and the f + 1st makes
\* the bit of the round.
LEMMA ReceiveShareKeeps ==
  ASSUME CoinAssumption, SharesInv, NEW p \in Coin!Correct, NEW r \in CoinRounds,
         NEW q \in Coin!Players, NEW x \in Coin!Field, Coin!ReceiveShare(p, q, r, x)
  PROVE  SharesInv' /\ (BitsInv /\ SharesCombine => BitsInv')
<1> DEFINE D == DOMAIN shares[p][r]
           now == Coin!With(shares[p][r], q, x)
           true(S) == [i \in S |-> Coin!Sign(dealt, i, HashOf[r])]
           bit == Coin!CoinOf(now)
           fits == /\ Cardinality(DOMAIN now) = KT
                   /\ Coin!VerifySignature(dealt, Coin!CombineSignature(now), HashOf[r])
                   /\ outputQueue[p][r] = <<>>
<1>1. /\ q \notin D /\ Coin!MaySend(q, r, x) /\ Coin!Accepted(p, q, r, x)
      /\ shares' = [shares EXCEPT ![p][r] = now]
      /\ UNCHANGED <<asked, coins>>
  BY DEF Coin!ReceiveShare
<1>2. \/ ~Coin!Ready(Cardinality(DOMAIN now)) /\ UNCHANGED <<outputQueue, crashed>>
      \/ /\ Coin!Ready(Cardinality(DOMAIN now)) /\ fits /\ UNCHANGED crashed
         /\ outputQueue' = [outputQueue EXCEPT ![p][r] = <<bit>>]
      \/ /\ Coin!Ready(Cardinality(DOMAIN now)) /\ ~fits /\ UNCHANGED outputQueue
  <2>1. CASE ~Coin!Ready(Cardinality(DOMAIN now))
    BY <2>1, SameCount, Zenon DEF Coin!ReceiveShare
  <2>2. CASE Coin!Ready(Cardinality(DOMAIN now)) /\ fits
    BY <2>2, SameCount, Zenon DEF Coin!ReceiveShare
  <2>3. CASE Coin!Ready(Cardinality(DOMAIN now)) /\ ~fits
    BY <2>3, SameCount, Zenon DEF Coin!ReceiveShare
  <2> QED
    BY <2>1, <2>2, <2>3
<1>3. /\ D \subseteq Coin!Players /\ shares[p][r] = true(D) /\ D \subseteq Liars \cup asked[r]
      /\ coins[p][r] # None \/ outputQueue[p][r] # <<>> => Cardinality(D) >= F + 1
  BY DEF SharesInv
<1>4. x = Coin!Sign(dealt, q, HashOf[r]) /\ q \in Liars \cup asked[r]
  <2>1. CASE q = p
    <3>1. q \notin Liars
      BY <2>1 DEF Coin!Correct
    <3> QED
      BY <1>1, <3>1 DEF Coin!MaySend
  <2>2. CASE q # p
    <3>1. x = (HashOf[r] * Coin!VKs(dealt)[q]) % Q
      BY <1>1, <2>2 DEF Coin!Accepted, Coin!VerifyShare
    <3>2. Coin!VKs(dealt)[q] = Coin!KeyOf(dealt, q)
      BY DEF Coin!VKs
    <3> QED
      BY <1>1, <3>1, <3>2 DEF Coin!Sign, Coin!MaySend
  <2> QED
    BY <2>1, <2>2
<1>5. DOMAIN now = D \cup {q} /\ now = true(D \cup {q})
  <2>1. now = [j \in D \cup {q} |-> IF j = q THEN x ELSE shares[p][r][j]]
    BY DEF Coin!With
  <2>2. \A j \in D \cup {q} :
          (IF j = q THEN x ELSE shares[p][r][j]) = Coin!Sign(dealt, j, HashOf[r])
    BY <1>1, <1>3, <1>4
  <2> HIDE DEF D, now
  <2> QED
    BY <2>1, <2>2
<1>6. /\ IsFiniteSet(D) /\ Cardinality(D \cup {q}) = Cardinality(D) + 1
      /\ Cardinality(D) \in Nat /\ F \in Nat /\ KT = F + 1
  <2>1. IsFiniteSet(Coin!Players)
    BY FS_Interval DEF Coin!Players, CoinAssumption, Coin!ShareAssumption
  <2>2. IsFiniteSet(D)
    BY <1>3, <2>1, FS_Subset
  <2> HIDE DEF D
  <2> QED
    BY <1>1, <2>2, OneMoreShare
       DEF CoinAssumption, Coin!KeysAssumption, Coin!FaultyAssumption
<1>7. /\ \A h \in Coin!Correct, y \in CoinRounds :
           shares'[h][y] = IF h = p /\ y = r THEN now ELSE shares[h][y]
      /\ shares' = [h \in Coin!Correct |-> [y \in CoinRounds |-> shares'[h][y]]]
  <2>1. shares = [h \in Coin!Correct |-> [y \in CoinRounds |-> shares[h][y]]]
    BY DEF SharesInv
  <2> HIDE DEF now
  <2>2. EntrySet(Coin!Correct, CoinRounds, shares, shares', p, r, now)
    BY <1>1, <2>1 DEF EntrySet
  <2>3. EntryIs(Coin!Correct, CoinRounds, shares, shares', p, r, now)
    BY <2>2, OneEntry
  <2> QED
    BY <2>3 DEF EntryIs
<1>8. /\ \A h \in Coin!Correct, y \in CoinRounds :
           outputQueue'[h][y] = IF h = p /\ y = r /\ outputQueue' # outputQueue
                                THEN <<bit>> ELSE outputQueue[h][y]
      /\ outputQueue' = [h \in Coin!Correct |-> [y \in CoinRounds |-> outputQueue'[h][y]]]
  <2>1. outputQueue = [h \in Coin!Correct |-> [y \in CoinRounds |-> outputQueue[h][y]]]
    BY DEF SharesInv
  <2>2. CASE outputQueue' = outputQueue
    BY <2>1, <2>2
  <2>3. CASE outputQueue' # outputQueue
    <3>1. outputQueue' = [outputQueue EXCEPT ![p][r] = <<bit>>]
      BY <1>2, <2>3
    <3> HIDE DEF bit
    <3>2. /\ \A h \in Coin!Correct, y \in CoinRounds :
               outputQueue'[h][y] = IF h = p /\ y = r THEN <<bit>> ELSE outputQueue[h][y]
          /\ outputQueue' = [h \in Coin!Correct |-> [y \in CoinRounds |-> outputQueue'[h][y]]]
      <4>1. EntrySet(Coin!Correct, CoinRounds, outputQueue, outputQueue', p, r, <<bit>>)
        BY <2>1, <3>1 DEF EntrySet
      <4>2. EntryIs(Coin!Correct, CoinRounds, outputQueue, outputQueue', p, r, <<bit>>)
        BY <4>1, OneEntry
      <4> QED
        BY <4>2 DEF EntryIs
    <3> QED
      BY <2>3, <3>2
  <2> QED
    BY <2>2, <2>3
<1>9. outputQueue' # outputQueue => Cardinality(DOMAIN now) = F + 1
  BY <1>2 DEF Coin!Ready
<1> HIDE DEF now, bit, fits
<1>10. SharesInv'
  <2>1. ASSUME NEW h \in Coin!Correct, NEW y \in CoinRounds
        PROVE  /\ DOMAIN shares'[h][y] \subseteq Coin!Players
               /\ shares'[h][y] = [i \in DOMAIN shares'[h][y] |-> Coin!Sign(dealt, i, HashOf[y])]
               /\ DOMAIN shares'[h][y] \subseteq Liars \cup asked'[y]
               /\ coins'[h][y] # None \/ outputQueue'[h][y] # <<>> =>
                    Cardinality(DOMAIN shares'[h][y]) >= F + 1
    <3>1. CASE h = p /\ y = r
      <4>1. shares'[h][y] = now /\ DOMAIN now = D \cup {q} /\ asked' = asked /\ coins' = coins
        BY <1>1, <1>5, <1>7, <3>1
      <4>2. D \cup {q} \subseteq Coin!Players /\ D \cup {q} \subseteq Liars \cup asked[r]
        BY <1>3, <1>4
      <4>3. now = [i \in D \cup {q} |-> Coin!Sign(dealt, i, HashOf[y])]
        BY <1>5, <3>1
      <4>4. coins[h][y] # None \/ outputQueue'[h][y] # <<>> => Cardinality(D \cup {q}) >= F + 1
        <5>1. CASE outputQueue' = outputQueue
          BY <1>3, <1>6, <3>1, <5>1
        <5>2. CASE outputQueue' # outputQueue
          BY <1>5, <1>6, <1>9, <5>2
        <5> QED
          BY <5>1, <5>2
      <4> HIDE DEF D
      <4> QED
        BY <3>1, <4>1, <4>2, <4>3, <4>4
    <3>2. CASE ~(h = p /\ y = r)
      <4>1. /\ shares'[h][y] = shares[h][y] /\ outputQueue'[h][y] = outputQueue[h][y]
            /\ asked' = asked /\ coins' = coins
        BY <1>1, <1>7, <1>8, <3>2
      <4> QED
        BY <4>1 DEF SharesInv
    <3> QED
      BY <3>1, <3>2
  <2>2. /\ asked' \in [CoinRounds -> SUBSET Coin!Correct]
        /\ coins' = [h \in Coin!Correct |-> [y \in CoinRounds |-> coins'[h][y]]]
    BY <1>1 DEF SharesInv
  <2> QED
    BY <1>7, <1>8, <2>1, <2>2 DEF SharesInv
<1>11. ASSUME BitsInv, SharesCombine, Coin!Ready(Cardinality(DOMAIN now))
       PROVE  /\ Cardinality(DOMAIN now) = KT /\ outputQueue[p][r] = <<>>
              /\ Coin!CombineSignature(now) = (HashOf[r] * Coin!VK(dealt)) % Q
  <2>1. Cardinality(D \cup {q}) = KT /\ Cardinality(D) = F
    BY <1>5, <1>6, <1>11 DEF Coin!Ready
  <2>2. outputQueue[p][r] = <<>>
    BY <1>3, <1>6, <2>1
  <2>3. D \cup {q} \in SUBSET Coin!Players
    BY <1>3
  <2>4. Coin!CombineSignature(true(D \cup {q})) = (HashOf[r] * Coin!VK(dealt)) % Q
    <3>1. PICK S \in SUBSET Coin!Players : S = D \cup {q}
      BY <2>3
    <3>2. Cardinality(S) = KT
      BY <2>1, <3>1
    <3>3. Coin!CombineSignature(true(S)) = (HashOf[r] * Coin!VK(dealt)) % Q
      BY <1>11, <3>2 DEF SharesCombine
    <3> QED
      BY <3>1, <3>3
  <2> QED
    BY <1>5, <2>1, <2>2, <2>4
<1>12. ASSUME BitsInv, SharesCombine PROVE BitsInv'
  <2>1. crashed' = crashed
    BY <1>2, <1>11, <1>12 DEF Coin!VerifySignature, fits
  <2>2. outputQueue' # outputQueue => bit = BitOfRound(r)
    BY <1>2, <1>11, <1>12 DEF bit, BitOfRound, Coin!CoinOf
  <2>3. \A h \in Coin!Correct, y \in CoinRounds :
          outputQueue'[h][y] \in {<<>>, <<BitOfRound(y)>>}
    BY <1>8, <1>12, <2>2 DEF BitsInv
  <2> QED
    BY <1>1, <1>12, <2>1, <2>3 DEF BitsInv
<1> QED
  BY <1>10, <1>12

\* Every step of shared_coin keeps both invariants.
LEMMA CoinStepKeeps ==
  ASSUME CoinAssumption, SharesInv, [Coin!Next]_Coin!vars
  PROVE  SharesInv' /\ (BitsInv /\ SharesCombine => BitsInv')
<1>1. CASE UNCHANGED Coin!vars
  <2>1. /\ asked' = asked /\ shares' = shares /\ outputQueue' = outputQueue
        /\ crashed' = crashed /\ coins' = coins
    BY <1>1 DEF Coin!vars
  <2>2. SharesInv'
    BY <2>1 DEF SharesInv
  <2>3. BitsInv => BitsInv'
    BY <2>1 DEF BitsInv
  <2> QED
    BY <2>2, <2>3
<1>2. CASE Coin!Next
  <2>1. PICK p \in Coin!Correct, r \in CoinRounds :
          \/ Coin!GetCoin(p, r) \/ Coin!ReturnCoin(p, r)
          \/ \E q \in Coin!Players, x \in Coin!Field : Coin!ReceiveShare(p, q, r, x)
    BY <1>2 DEF Coin!Next
  <2>2. CASE Coin!GetCoin(p, r)
    BY <2>2, GetCoinKeeps
  <2>3. CASE Coin!ReturnCoin(p, r)
    BY <2>3, ReturnCoinKeeps
  <2>4. CASE \E q \in Coin!Players, x \in Coin!Field : Coin!ReceiveShare(p, q, r, x)
    BY <2>4, ReceiveShareKeeps
  <2> QED
    BY <2>1, <2>2, <2>3, <2>4
<1> QED
  BY <1>1, <1>2

\* f + 1 senders are not all faulty: one of them asked.
LEMMA OneAsked ==
  ASSUME CoinAssumption, SharesInv
  PROVE  Coin!NotBeforeAsked
<1>1. ASSUME NEW p \in Coin!Correct, NEW r \in CoinRounds,
             coins[p][r] # None \/ outputQueue[p][r] # <<>>, asked[r] = {}
      PROVE  FALSE
  <2> DEFINE D == DOMAIN shares[p][r]
  <2>1. D \subseteq Liars /\ Cardinality(D) >= F + 1
    BY <1>1 DEF SharesInv
  <2>2. Liars \subseteq Coin!Players /\ Cardinality(Liars) <= F /\ F \in Nat
    BY SameCount DEF CoinAssumption, Coin!FaultyAssumption
  <2>3. IsFiniteSet(Coin!Players)
    BY FS_Interval DEF Coin!Players, CoinAssumption, Coin!ShareAssumption
  <2> HIDE DEF D
  <2>4. IsFiniteSet(Liars)
    BY <2>2, <2>3, FS_Subset
  <2>5. Cardinality(D) <= Cardinality(Liars)
    BY <2>1, <2>4, FS_Subset
  <2>6. Cardinality(D) \in Nat /\ Cardinality(Liars) \in Nat
    BY <2>1, <2>4, FS_Subset, FS_CardinalityType
  <2> QED
    BY <2>1, <2>2, <2>5, <2>6
<1> QED
  BY <1>1 DEF Coin!NotBeforeAsked

\* No coin of a round is known, not even to a receive loop, before a correct
\* node asks for it: the faulty nodes cannot look ahead.
THEOREM CoinUnknownBeforeAsked ==
  ASSUME CoinAssumption
  PROVE  Coin!Spec => []Coin!NotBeforeAsked
<1>1. Coin!Init => SharesInv
  BY CoinStarts
<1>2. SharesInv /\ [Coin!Next]_Coin!vars => SharesInv'
  BY CoinStepKeeps
<1>3. SharesInv => Coin!NotBeforeAsked
  BY OneAsked
<1> QED
  BY <1>1, <1>2, <1>3, PTL DEF Coin!Spec

\* If shares combine as they should, whoever gets the coin of a round gets the
\* bit of that round, whichever f + 1 shares it was made of.
THEOREM OneCoinForAll ==
  ASSUME CoinAssumption, SharesCombine
  PROVE  Coin!Spec => []Coin!SameCoin
<1>1. Coin!Init => SharesInv /\ BitsInv
  BY CoinStarts
<1>2. SharesInv /\ BitsInv /\ [Coin!Next]_Coin!vars => SharesInv' /\ BitsInv'
  BY CoinStepKeeps
<1>3. BitsInv => Coin!SameCoin
  BY DEF BitsInv, Coin!SameCoin
<1> QED
  BY <1>1, <1>2, <1>3, PTL DEF Coin!Spec

\* If shares combine as they should, no exception ends a receive loop: the
\* signature verifies, and the queue of a round is filled once.
THEOREM CoinLoopsRun ==
  ASSUME CoinAssumption, SharesCombine
  PROVE  Coin!Spec => []Coin!NoLoopCrashes
<1>1. Coin!Init => SharesInv /\ BitsInv
  BY CoinStarts
<1>2. SharesInv /\ BitsInv /\ [Coin!Next]_Coin!vars => SharesInv' /\ BitsInv'
  BY CoinStepKeeps
<1>3. BitsInv => Coin!NoLoopCrashes
  BY DEF BitsInv, Coin!NoLoopCrashes
<1> QED
  BY <1>1, <1>2, <1>3, PTL DEF Coin!Spec
=============================================================================
