--------------------------- MODULE ReliableBroadcast ---------------------------
(***************************************************************************)
(* One instance of reliablebroadcast: the leader erasure codes its input    *)
(* into a stripe for each node under a Merkle root (VAL), everyone passes   *)
(* its stripe on (ECHO), and N - f stripes or f + 1 READYs make a node send *)
(* READY; 2f + 1 READYs and N - 2f stripes make it rebuild the value.       *)
(*                                                                          *)
(* A value is named by its Merkle root.  A message of a correct node is     *)
(* derived from what the node did (fromLeader: its VAL was accepted and its *)
(* ECHO sent to all; readySent: its READY sent to all) and may arrive at    *)
(* any time after, in any order.  A faulty node may at any time send any    *)
(* message that passes the Merkle check; the others change nothing, and nor *)
(* does a message that the code calls redundant.                            *)
(***************************************************************************)
EXTENDS Naturals, FiniteSets

CONSTANTS
  Nodes,       \* the N parties
  Faulty,      \* the parties that do not follow the protocol
  Leader,      \* leader
  F,           \* f
  Roots,       \* the Merkle roots that occur
  Encodings,   \* the roots of the stripes encode makes of some value
  Input,       \* the root of the value a correct leader is given
  MaxFaulty,   \* bound of the model: counted messages of faulty nodes
  None,        \* Python's None
  Failed       \* decode_output raised AssertionError

N == Cardinality(Nodes)
Correct == Nodes \ Faulty

ASSUME NodesAssumption == IsFiniteSet(Nodes) /\ Faulty \subseteq Nodes /\ Leader \in Nodes
ASSUME ResilienceAssumption == F \in Nat /\ N >= 3 * F + 1 /\ Cardinality(Faulty) <= F
ASSUME RootsAssumption ==
  /\ Encodings \subseteq Roots /\ Input \in Encodings
  /\ None \notin Roots /\ Failed \notin Roots /\ None # Failed

K == N - 2 * F
\* Mutants of the thresholds: READY after N - 2f stripes, after f READYs, or
\* never for READYs alone.
EarlyEchoThreshold == N - 2 * F
EarlyReadyThreshold == F
NoReadyThreshold == N + 1

EchoThreshold == N - F
ReadyThreshold == F + 1
OutputThreshold == 2 * F + 1

VARIABLES
  fromLeader,  \* fromLeader[p], the root p sends ECHO for
  echoes,      \* echoes[p][q]: the root q's ECHO was counted for by p
  readies,     \* readies[p][q]: the root q's READY was counted for by p
  readySent,   \* readySent[p]: the root p sent READY for, None if it did not
  out          \* out[p]: the root of the value p returned, None or Failed

vars == <<fromLeader, echoes, readies, readySent, out>>

Nothing == [q \in Nodes |-> None]

\* A correct leader has its input and has sent every VAL: until then everyone
\* waits, the leader in input() and the others in receive().
Init ==
  /\ fromLeader = [p \in Correct |-> None]
  /\ echoes = [p \in Correct |-> Nothing]
  /\ readies = [p \in Correct |-> Nothing]
  /\ readySent = [p \in Correct |-> None]
  /\ out = [p \in Correct |-> None]

\* A message q may have sent: what a correct node did send, and anything from
\* a faulty node as long as the model's bound allows.
FromFaulty == {m \in Correct \X Faulty : echoes[m[1]][m[2]] # None}
FromFaultyReady == {m \in Correct \X Faulty : readies[m[1]][m[2]] # None}
MaySend(q, sent, r) ==
  IF q \in Correct THEN sent[q] = r
  ELSE Cardinality(FromFaulty) + Cardinality(FromFaultyReady) < MaxFaulty

-----------------------------------------------------------------------------
(* The receive loop *)

\* p is in the loop: a value returned or an exception ends it.
Receiving(p) == out[p] = None

\* Mutant of VALFromLeader: the sender of a VAL is not looked at.
VALFromAnyone(r) == Faulty = {} => r = Input

\* What a VAL of the leader may hold: a correct one sends its input.
VALFromLeader(r) == Leader \in Correct => r = Input

\* The first valid VAL of the leader is echoed, later ones are ignored.
ReceiveVal(p, r) ==
  /\ Receiving(p) /\ fromLeader[p] = None
  /\ VALFromLeader(r)
  /\ fromLeader' = [fromLeader EXCEPT ![p] = r]
  /\ UNCHANGED <<echoes, readies, readySent, out>>

\* echoCounter[r] and len(ready[r]) of a node with these senders counted.
Support(counted, r) == Cardinality({q \in Nodes : counted[q] = r})

Outputs(echoed, readied, r) ==
  Support(readied, r) >= OutputThreshold /\ Support(echoed, r) >= K

\* The tree rebuilt from what the stripes decode to: only stripes that came
\* from encode give the same root again.
Rebuilt(r) == IF r \in Encodings THEN r ELSE Failed

\* decode_output: with too few stripes decode raises, with another root the
\* assertion does.
DecodeOutput(echoed, r) == IF Support(echoed, r) >= K THEN Rebuilt(r) ELSE Failed

\* Mutant of ReturnOrStay: the loop goes on after decode_output.
DecodeAndStay(p, echoed, readied, r) ==
  /\ echoes' = [echoes EXCEPT ![p] = echoed]
  /\ readies' = [readies EXCEPT ![p] = readied]
  /\ out' = IF Outputs(echoed, readied, r)
              THEN [out EXCEPT ![p] = DecodeOutput(echoed, r)] ELSE out

\* The end of the ECHO and READY branches: p has counted these senders and
\* returns the value if it can, dropping its locals.
ReturnOrStay(p, echoed, readied, r) ==
  IF Outputs(echoed, readied, r)
    THEN /\ out' = [out EXCEPT ![p] = DecodeOutput(echoed, r)]
         /\ echoes' = [echoes EXCEPT ![p] = Nothing]
         /\ readies' = [readies EXCEPT ![p] = Nothing]
    ELSE /\ echoes' = [echoes EXCEPT ![p] = echoed]
         /\ readies' = [readies EXCEPT ![p] = readied]
         /\ UNCHANGED out

\* if count >= threshold and not readySent: broadcast READY.
MaybeSendReady(p, r, enough) ==
  readySent' = IF enough /\ readySent[p] = None
                 THEN [readySent EXCEPT ![p] = r] ELSE readySent

\* One ECHO of q is counted, whatever its root.
ReceiveEcho(p, q, r) ==
  /\ Receiving(p) /\ echoes[p][q] = None
  /\ MaySend(q, fromLeader, r)
  /\ LET echoed == [echoes[p] EXCEPT ![q] = r] IN
     /\ MaybeSendReady(p, r, Support(echoed, r) >= EchoThreshold)
     /\ ReturnOrStay(p, echoed, readies[p], r)
  /\ UNCHANGED fromLeader

\* One READY of q is counted, whatever its root.
ReceiveReady(p, q, r) ==
  /\ Receiving(p) /\ readies[p][q] = None
  /\ MaySend(q, readySent, r)
  /\ LET readied == [readies[p] EXCEPT ![q] = r] IN
     /\ MaybeSendReady(p, r, Support(readied, r) >= ReadyThreshold)
     /\ ReturnOrStay(p, echoes[p], readied, r)
  /\ UNCHANGED fromLeader

-----------------------------------------------------------------------------
Next ==
  \E p \in Correct, r \in Roots :
    \/ ReceiveVal(p, r)
    \/ \E q \in Nodes : ReceiveEcho(p, q, r) \/ ReceiveReady(p, q, r)

Spec == Init /\ [][Next]_vars

\* gevent runs every greenlet that can run, and what one correct node sends
\* another arrives; the faulty ones may send nothing.
Fairness ==
  \A p \in Correct : WF_vars(\E r \in Roots :
    \/ Leader \in Correct /\ ReceiveVal(p, r)
    \/ \E q \in Correct : ReceiveEcho(p, q, r) \/ ReceiveReady(p, q, r))

FairSpec == Spec /\ Fairness

-----------------------------------------------------------------------------
(* Properties *)

TypeOK ==
  LET RootOrNone == Roots \cup {None} IN
  /\ fromLeader \in [Correct -> RootOrNone]
  /\ echoes \in [Correct -> [Nodes -> RootOrNone]]
  /\ readies \in [Correct -> [Nodes -> RootOrNone]]
  /\ readySent \in [Correct -> RootOrNone]
  /\ out \in [Correct -> RootOrNone \cup {Failed}]
  /\ \A p \in Correct : out[p] # None => echoes[p] = Nothing /\ readies[p] = Nothing

\* A correct node sends READY only for a root of which N - 2f correct nodes
\* have sent their stripe to everyone, although it may not have seen an ECHO
\* of them: whoever gets the READYs can rebuild the value.
ReadyIsRecoverable ==
  \A p \in Correct : readySent[p] # None =>
    Cardinality({q \in Correct : fromLeader[q] = readySent[p]}) >= K

\* No two correct nodes send READY for different roots, whatever stripes a
\* faulty leader hands out and whoever's READYs were amplified.
ReadyAgreement ==
  \A p, q \in Correct :
    readySent[p] # None /\ readySent[q] # None => readySent[p] = readySent[q]

\* The value the broadcast is bound to: the one of the first READY.
Bound ==
  IF \A p \in Correct : readySent[p] = None THEN None
  ELSE Rebuilt(readySent[CHOOSE p \in Correct : readySent[p] # None])

Abstract == INSTANCE Broadcast
  WITH chosen <- Bound, Values <- Encodings \cup {Failed}

\* The protocol implements a broadcast: one value, or one failure, for all
\* the correct nodes, the input of a correct leader, and all or none of them.
BroadcastSafety == Abstract!BroadcastSafety
ImplementsBroadcast == Abstract!BroadcastSpec

\* A correct leader's input is returned by every correct node.
Validity == Leader \in Correct ~> \A p \in Correct : out[p] = Input
=============================================================================
