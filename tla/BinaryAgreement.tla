---------------------------- MODULE BinaryAgreement ----------------------------
(***************************************************************************)
(* One instance of binaryagreement: in each epoch a node broadcasts its     *)
(* estimate (EST), learns values 2f + 1 nodes stand for, exchanges one of    *)
(* them (AUX), exchanges what it learnt (CONF), and asks for a common coin  *)
(* that makes it decide, adopt the coin or leave.                           *)
(*                                                                          *)
(* What correct nodes have sent is kept per epoch and is received by any    *)
(* node at any time: each wait of the code looks at some of the messages    *)
(* under way, so it may end as soon as enough of them were sent.  A faulty  *)
(* node may have sent every message there is, but each one once: a second   *)
(* AUX or CONF would raise in the receive loop.  The main greenlet runs     *)
(* without a yield from one wait to the next, which is one step here; the   *)
(* receive loop takes its steps at any time, before the input and for past  *)
(* and future epochs as well.                                               *)
(***************************************************************************)
EXTENDS Naturals, FiniteSets

CONSTANTS
  Nodes,      \* the N parties
  Faulty,     \* the parties that do not follow the protocol
  F,          \* f
  MaxEpoch,   \* bound of the model: the last epoch
  Coins,      \* bound of the model: Coins[r], the bits the coin of r may show
  MaxInputs,  \* bound of the model: how many correct nodes put in 0 and 1
  None        \* Python's None

N == Cardinality(Nodes)
Correct == Nodes \ Faulty
Bits == {0, 1}
Epochs == 0 .. MaxEpoch

ASSUME NodesAssumption == IsFiniteSet(Nodes) /\ Faulty \subseteq Nodes
ASSUME ResilienceAssumption ==
  F \in Nat /\ N >= 3 * F + 1 /\ Cardinality(Faulty) <= F /\ MaxEpoch \in Nat
ASSUME NoneAssumption == None \notin Bits /\ \A bits \in SUBSET Bits : None # bits

VARIABLES
  pc,          \* the wait the main greenlet is in, or how it ended
  epoch,       \* r
  vi,          \* vi: what input() returned
  values,      \* values: the result of the CONF wait
  decided,     \* already_decided
  estSent,     \* estSent[p][r]: the values v with est_sent[r][v]
  binValues,   \* bin_values
  auxSent,     \* auxSent[p][r]: the value of p's AUX, or None
  confSent,    \* confSent[p][r]: the values of p's CONF, or None
  coin         \* coin[r]: the common coin of epoch r, None until it is known

mainVars == <<pc, epoch, vi, values, decided>>
vars == <<mainVars, estSent, binValues, auxSent, confSent, coin>>

Init ==
  /\ pc = [p \in Correct |-> "input"]
  /\ epoch = [p \in Correct |-> 0]
  /\ vi = [p \in Correct |-> None]
  /\ values = [p \in Correct |-> {}]
  /\ decided = [p \in Correct |-> None]
  /\ estSent = [p \in Correct |-> [r \in Epochs |-> {}]]
  /\ binValues = [p \in Correct |-> [r \in Epochs |-> {}]]
  /\ auxSent = [p \in Correct |-> [r \in Epochs |-> None]]
  /\ confSent = [p \in Correct |-> [r \in Epochs |-> None]]
  /\ coin = [r \in Epochs |-> None]

-----------------------------------------------------------------------------
(* The receive loop.  B are the faulty nodes that sent the message as well. *)

\* est_values[r][v] once all that was sent has arrived.
EstSenders(r, v, B) == B \cup {q \in Correct : v \in estSent[q][r]}

\* q has left epoch r, and so has everyone.  Nothing sent in an epoch everyone
\* has left is read again, and the model forgets it.
HasLeft(q, r) == epoch[q] > r \/ pc[q] \in {"quit", "cut"}
Over(r) == \A q \in Correct : HasLeft(q, r)

RelayThreshold == F + 1

\* f + 1 ESTs: the value is passed on, once.
RelayEst(p, r, v, B) ==
  /\ pc[p] # "quit" /\ ~Over(r) /\ v \notin estSent[p][r]
  /\ Cardinality(EstSenders(r, v, B)) >= RelayThreshold
  /\ estSent' = [estSent EXCEPT ![p][r] = @ \cup {v}]
  /\ UNCHANGED <<mainVars, binValues, auxSent, confSent, coin>>

\* 2f + 1 ESTs: the value is one of bin_values.  p passed it on before.  The
\* bin_values of past epochs are not read again and not kept.
AddBinValue(p, r, v, B) ==
  /\ pc[p] \notin {"quit", "cut"} /\ r >= epoch[p]
  /\ v \in estSent[p][r] /\ v \notin binValues[p][r]
  /\ Cardinality(EstSenders(r, v, B)) >= 2 * F + 1
  /\ binValues' = [binValues EXCEPT ![p][r] = @ \cup {v}]
  /\ UNCHANGED <<mainVars, estSent, auxSent, confSent, coin>>

-----------------------------------------------------------------------------
(* The main greenlet *)

\* The input, and the EST of epoch 0 unless the receive loop has relayed it.
TakeInput(p, v) ==
  /\ pc[p] = "input" /\ Cardinality({q \in Correct : vi[q] = v}) < MaxInputs[v]
  /\ vi' = [vi EXCEPT ![p] = v]
  /\ pc' = [pc EXCEPT ![p] = "bin"]
  /\ estSent' = [estSent EXCEPT ![p][0] = @ \cup {v}]
  /\ UNCHANGED <<epoch, values, decided, binValues, auxSent, confSent, coin>>

\* next(iter(bin_values[r])): 0 comes first in a set of both.
FirstOf(bits) == IF 0 \in bits THEN 0 ELSE 1

SendAux(p) ==
  /\ pc[p] = "bin" /\ binValues[p][epoch[p]] # {}
  /\ auxSent' = [auxSent EXCEPT ![p][epoch[p]] = FirstOf(binValues[p][epoch[p]])]
  /\ pc' = [pc EXCEPT ![p] = "aux"]
  /\ UNCHANGED <<epoch, vi, values, decided, estSent, binValues, confSent, coin>>

AuxSenders(r, v, B) == B \cup {q \in Correct : auxSent[q][r] = v}

\* The sum over bin_values counts a faulty sender of two AUXs twice.
AuxCount(r, bits, B) ==
  (IF 0 \in bits THEN Cardinality(AuxSenders(r, 0, B)) ELSE 0) +
  (IF 1 \in bits THEN Cardinality(AuxSenders(r, 1, B)) ELSE 0)

\* CONF carries bin_values and not the values that ended the wait for AUX,
\* which nothing else reads.
ConfOf(p) == binValues[p][epoch[p]]

\* Mutant of AuxQuorum: wait for everyone.
AuxFromAll == N

AuxQuorum == N - F

SendConf(p, B) ==
  /\ pc[p] = "aux"
  /\ AuxCount(epoch[p], binValues[p][epoch[p]], B) >= AuxQuorum
  /\ confSent' = [confSent EXCEPT ![p][epoch[p]] = ConfOf(p)]
  /\ pc' = [pc EXCEPT ![p] = "conf"]
  /\ UNCHANGED <<epoch, vi, values, decided, estSent, binValues, auxSent, coin>>

\* Mutant of ConfSenders: a CONF of both values counts for each.
ConfSendersOfEach(r, bits, B) ==
  B \cup {q \in Correct : confSent[q][r] # None /\ bits \subseteq confSent[q][r]}

ConfSenders(r, bits, B) == B \cup {q \in Correct : confSent[q][r] = bits}

\* All the CONFs that can be counted without the wait ending on one value.
Below(n, limit) == IF n < limit THEN n ELSE limit - 1
MixedCount(r, B) ==
  Below(Cardinality(ConfSenders(r, {0}, B)), N - F) +
  Below(Cardinality(ConfSenders(r, {1}, B)), N - F) +
  Cardinality(ConfSenders(r, {0, 1}, B))

\* Mutant of Backed: CONFs count whether their values are in bin_values or not.
AllBacked(p, result) == TRUE

Backed(p, result) == result \subseteq binValues[p][epoch[p]]

\* wait_for_conf_values returns result: one value that N - f CONFs have alone,
\* or both.
TakeConf(p, result, B) ==
  LET r == epoch[p] IN
  /\ pc[p] = "conf" /\ Backed(p, result)
  /\ IF Cardinality(result) = 1
       THEN Cardinality(ConfSenders(r, result, B)) >= N - F
       ELSE MixedCount(r, B) >= N - F
  /\ values' = [values EXCEPT ![p] = result]
  /\ pc' = [pc EXCEPT ![p] = "coin"]
  /\ UNCHANGED <<epoch, vi, decided, estSent, binValues, auxSent, confSent, coin>>

\* The correct nodes that have called coin(r).
Asked(r) == 
  {p \in Correct : epoch[p] > r \/ (epoch[p] = r /\ pc[p] \in {"coin", "quit", "cut"})}

\* Mutants of Estimate: a node of two minds keeps its input, or has none.
EstimateUnset(p, s) == IF Cardinality(values[p]) = 1 THEN FirstOf(values[p]) ELSE None
EstimateKept(p, s) == IF Cardinality(values[p]) = 1 THEN FirstOf(values[p]) ELSE vi[p]

\* set_new_estimate
Estimate(p, s) == IF Cardinality(values[p]) = 1 THEN FirstOf(values[p]) ELSE s
Decides(p, s) == values[p] = {s} /\ decided[p] = None
Leaves(p, s) == values[p] = {s} /\ decided[p] = s

\* s = coin(r) returns once f + 1 nodes have asked, the same bit to everyone:
\* decide on a sure value it shows, leave when it does so again, else go on to
\* the next epoch.  The model cuts the last epoch off.
TakeCoin(p, s, B) ==
  LET r == epoch[p]
      goesOn == ~Leaves(p, s) /\ r < MaxEpoch
      started == IF goesOn THEN [estSent EXCEPT ![p][r + 1] = @ \cup {Estimate(p, s)}]
                 ELSE estSent
      isLast == \A q \in Correct \ {p} : HasLeft(q, r)
      Kept(sent, forgotten) ==
        IF isLast THEN [q \in Correct |-> [sent[q] EXCEPT ![r] = forgotten]] ELSE sent
  IN
  /\ pc[p] = "coin" /\ coin[r] \in {None, s} /\ s \in Coins[r]
  /\ Cardinality(Asked(r) \cup B) >= F + 1
  /\ coin' = [coin EXCEPT ![r] = s]
  /\ decided' = IF Decides(p, s) THEN [decided EXCEPT ![p] = s] ELSE decided
  /\ pc' = [pc EXCEPT ![p] = CASE Leaves(p, s) -> "quit" [] goesOn -> "bin" [] OTHER -> "cut"]
  /\ epoch' = IF goesOn THEN [epoch EXCEPT ![p] = r + 1] ELSE epoch
  /\ values' = [values EXCEPT ![p] = {}]
  /\ binValues' = [binValues EXCEPT ![p][r] = {}]
  /\ estSent' = Kept(started, {})
  /\ auxSent' = Kept(auxSent, None)
  /\ confSent' = Kept(confSent, None)
  /\ UNCHANGED vi

-----------------------------------------------------------------------------
\* B as a parameter: the step, with the help of those faulty nodes only.
ReceiveLoop(p, B) ==
  \E r \in Epochs, v \in Bits : RelayEst(p, r, v, B) \/ AddBinValue(p, r, v, B)

Main(p, B) ==
  \/ \E v \in Bits : TakeInput(p, v) \/ TakeCoin(p, v, B)
  \/ SendAux(p)
  \/ SendConf(p, B)
  \/ \E result \in {{0}, {1}, {0, 1}} : TakeConf(p, result, B)

\* The main greenlet of every node has ended, or waits for ever for peers
\* that have left.
Next == \E p \in Correct : ReceiveLoop(p, Faulty) \/ Main(p, Faulty)

Spec == Init /\ [][Next]_vars

\* gevent runs every greenlet that can run, what one correct node sends
\* another receives, and f + 1 of them get a coin; the faulty ones may send
\* nothing.  Every correct node is given an input.
Fairness ==
  \A p \in Correct : WF_vars(ReceiveLoop(p, {})) /\ WF_vars(Main(p, {}))

FairSpec == Spec /\ Fairness

-----------------------------------------------------------------------------
(* Properties *)

TypeOK ==
  /\ pc \in [Correct -> {"input", "bin", "aux", "conf", "coin", "quit", "cut"}]
  /\ epoch \in [Correct -> Epochs]
  /\ vi \in [Correct -> Bits \cup {None}]
  /\ values \in [Correct -> SUBSET Bits]
  /\ decided \in [Correct -> Bits \cup {None}]
  /\ estSent \in [Correct -> [Epochs -> SUBSET Bits]]
  /\ binValues \in [Correct -> [Epochs -> SUBSET Bits]]
  /\ auxSent \in [Correct -> [Epochs -> Bits \cup {None}]]
  /\ confSent \in [Correct -> [Epochs -> {None, {0}, {1}, {0, 1}}]]
  /\ coin \in [Epochs -> Bits \cup {None}]

\* The nodes that end the CONF wait of an epoch on one value agree on it,
\* though each counts different messages and faulty senders more than once.
SureValuesAgree ==
  \A p, q \in Correct :
    /\ pc[p] = "coin" /\ pc[q] = "coin" /\ epoch[p] = epoch[q]
    /\ Cardinality(values[p]) = 1 /\ Cardinality(values[q]) = 1
    => values[p] = values[q]

\* Once a node has decided, no estimate of a later epoch differs: whoever
\* starts the epoch after the decision starts it with the value decided.
DecisionIsLocked ==
  \A p, q \in Correct :
    /\ decided[p] # None /\ pc[p] # "cut"
    /\ pc[q] = "coin" /\ epoch[q] >= epoch[p]
    => values[q] = {decided[p]}

Abstract == INSTANCE Agreement

\* The protocol implements an agreement: one value for all, an input of a
\* correct node.
ImplementsAgreement == Abstract!AgreementSafety

\* Every node decides, unless the coin fails it in every epoch of the model;
\* in particular when others decided first and left.
Progress ==
  \A p \in Correct : <>(decided[p] # None \/ pc[p] = "cut")

\* When all put in the same value, no epoch leaves a node with another one or
\* with two, whatever ESTs, AUXs and CONFs the faulty nodes send.
NoWavering ==
  \A v \in Bits : (\A p \in Correct : vi[p] = v) =>
    \A p \in Correct : pc[p] = "coin" => values[p] = {v}

\* "An abandoned party is a party who has decided but no enough peers to help
\* him end the loop.  Lemma: # of abandoned party <= t"
NextEpoch(p) == IF pc[p] = "cut" THEN epoch[p] + 1 ELSE epoch[p]
Abandoned(p) ==
  /\ decided[p] # None /\ pc[p] # "quit"
  /\ Cardinality({q \in Correct : pc[q] # "quit" \/ epoch[q] >= NextEpoch(p)}) < N - F
FewAbandoned == Cardinality({p \in Correct : Abandoned(p)}) <= F
=============================================================================
