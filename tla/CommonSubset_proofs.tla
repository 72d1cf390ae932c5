-------------------------- MODULE CommonSubset_proofs --------------------------
(***************************************************************************)
(* Theorems about CommonSubset for any number of nodes, any values of the   *)
(* broadcasts and any order of what the broadcasts and agreements return.   *)
(***************************************************************************)
EXTENDS CommonSubset, FiniteSetTheorems, TLAPS

\* Assumed of the constants.
ConstantsAssumption == NodesAssumption /\ ResilienceAssumption /\ NoneAssumption

-----------------------------------------------------------------------------
(* The inductive invariant *)

\* A broadcast returns the value it is bound to.
RbcIsChosen == \A p \in Correct, j \in Nodes : rbc[p][j] \in {None, chosen[j]}

\* A node puts 1 into the agreements of the proposals it has got, and 0 into
\* one only when enough proposals are in.
OneHasProposal == \A p \in Correct, j \in Nodes : input[p][j] = 1 => rbc[p][j] = Value
ZeroHasEnough == \A p \in Correct, j \in Nodes : input[p][j] = 0 => Enough(aba[p])

\* What an agreement returns is the same for all and an input of someone.
AbaIsInput ==
  \A p \in Correct, j \in Nodes : aba[p][j] # None => \E q \in Correct : input[q][j] = aba[p][j]
AbaIsSame ==
  \A p, q \in Correct, j \in Nodes :
    aba[p][j] # None /\ aba[q][j] # None => aba[p][j] = aba[q][j]

\* A node returns the proposals that are in when all its agreements have ended.
ResultIsOnes ==
  \A p \in Correct : result[p] # None =>
    /\ \A j \in Nodes : aba[p][j] # None
    /\ result[p] = Ones(aba[p]) /\ Enough(aba[p])

IInv ==
  /\ TypeOK /\ RbcIsChosen /\ OneHasProposal /\ ZeroHasEnough
  /\ AbaIsInput /\ AbaIsSame /\ ResultIsOnes

-----------------------------------------------------------------------------
(* Counting *)

\* More proposals that are in are enough when some of them are.
LEMMA MoreIsEnough ==
  ASSUME ConstantsAssumption, NEW f, NEW g, Enough(f), Ones(f) \subseteq Ones(g)
  PROVE  Enough(g)
<1>1. IsFiniteSet(Ones(g)) /\ IsFiniteSet(Ones(f))
  BY FS_Subset DEF ConstantsAssumption, NodesAssumption, Ones
<1>2. Cardinality(Ones(f)) <= Cardinality(Ones(g))
  BY <1>1, FS_Subset
<1>3. /\ Cardinality(Ones(f)) \in Nat /\ Cardinality(Ones(g)) \in Nat
      /\ N \in Nat /\ F \in Nat
  BY <1>1, FS_CardinalityType
     DEF ConstantsAssumption, NodesAssumption, ResilienceAssumption, N
<1> QED
  BY <1>2, <1>3 DEF Enough

\* All proposals are enough.
LEMMA AllIsEnough ==
  ASSUME ConstantsAssumption, NEW f, \A j \in Nodes : f[j] = 1
  PROVE  Enough(f)
<1>1. Ones(f) = Nodes
  BY DEF Ones
<1>2. N \in Nat /\ F \in Nat
  BY FS_CardinalityType DEF ConstantsAssumption, NodesAssumption, ResilienceAssumption, N
<1> QED
  BY <1>1, <1>2 DEF Enough, N

\* When all agreements of p have ended, enough proposals are in: a 0 is put in
\* only when enough are.
LEMMA EndedIsEnough ==
  ASSUME ConstantsAssumption, IInv, NEW p \in Correct, \A j \in Nodes : aba[p][j] # None
  PROVE  Enough(aba[p])
<1>1. CASE \A j \in Nodes : aba[p][j] = 1
  BY <1>1, AllIsEnough
<1>2. CASE \E j \in Nodes : aba[p][j] # 1
  <2>1. PICK j \in Nodes : aba[p][j] = 0
    BY <1>2 DEF IInv, TypeOK, Bits
  <2>2. PICK q \in Correct : input[q][j] = 0
    BY <2>1 DEF IInv, AbaIsInput
  <2>3. Enough(aba[q])
    BY <2>2 DEF IInv, ZeroHasEnough
  <2>4. Ones(aba[q]) \subseteq Ones(aba[p])
    BY DEF IInv, AbaIsSame, Ones, ConstantsAssumption, NoneAssumption, Bits
  <2> QED
    BY <2>3, <2>4, MoreIsEnough
<1> QED
  BY <1>1, <1>2

\* What is in can be had: the broadcast of a proposal that is in returns its value.
LEMMA InHasValue ==
  ASSUME ConstantsAssumption, IInv, NEW p \in Correct, NEW j \in Nodes,
         aba[p][j] = 1, rbc[p][j] # None
  PROVE  rbc[p][j] = Value
<1>1. PICK q \in Correct : input[q][j] = 1
  BY DEF IInv, AbaIsInput, ConstantsAssumption, NoneAssumption, Bits
<1>2. rbc[q][j] = Value /\ Value # None
  BY <1>1 DEF IInv, OneHasProposal, ConstantsAssumption, NoneAssumption
<1> QED
  BY <1>2 DEF IInv, RbcIsChosen

-----------------------------------------------------------------------------
(* The steps *)

LEMMA InitInv == ASSUME ConstantsAssumption PROVE Init => IInv
  BY DEF Init, Unset, IInv, TypeOK, RbcIsChosen, OneHasProposal, ZeroHasEnough, AbaIsInput,
     AbaIsSame, ResultIsOnes, ConstantsAssumption, NoneAssumption, Bits

\* A broadcast is bound before it returns to anyone.
LEMMA BindBroadcastInv ==
  ASSUME ConstantsAssumption, IInv, NEW j \in Nodes, NEW v \in {Value, Failed},
         BindBroadcast(j, v)
  PROVE  IInv'
<1>1. /\ chosen' = [chosen EXCEPT ![j] = v] /\ chosen[j] = None
      /\ UNCHANGED <<rbc, input, aba, result>>
  BY DEF BindBroadcast
<1>2. TypeOK'
  BY <1>1 DEF IInv, TypeOK
<1>3. RbcIsChosen'
  BY <1>1 DEF IInv, TypeOK, RbcIsChosen
<1> QED
  BY <1>1, <1>2, <1>3
     DEF IInv, OneHasProposal, ZeroHasEnough, AbaIsInput, AbaIsSame, ResultIsOnes

\* A value that is returned gives the agreement its 1 when it has no input.
LEMMA ReceiveBroadcastInv ==
  ASSUME ConstantsAssumption, IInv, NEW p \in Correct, NEW j \in Nodes, ReceiveBroadcast(p, j)
  PROVE  IInv'
<1> DEFINE Puts == chosen[j] = Value /\ input[p][j] = None
<1>1. /\ chosen[j] # None /\ rbc[p][j] = None
      /\ rbc' = [rbc EXCEPT ![p][j] = chosen[j]]
      /\ input' = IF Puts THEN [input EXCEPT ![p][j] = 1] ELSE input
      /\ UNCHANGED <<chosen, aba, result>>
  BY DEF ReceiveBroadcast
<1>2. \A q \in Correct, k \in Nodes :
        /\ rbc'[q][k] = IF q = p /\ k = j THEN chosen[j] ELSE rbc[q][k]
        /\ input'[q][k] = IF q = p /\ k = j /\ Puts THEN 1 ELSE input[q][k]
  <2>1. \A q \in Correct, k \in Nodes : rbc'[q][k] = IF q = p /\ k = j THEN chosen[j] ELSE rbc[q][k]
    BY <1>1 DEF IInv, TypeOK
  <2>2. \A q \in Correct, k \in Nodes :
          input'[q][k] = IF q = p /\ k = j /\ Puts THEN 1 ELSE input[q][k]
    <3>1. CASE Puts
      BY <1>1, <3>1 DEF IInv, TypeOK
    <3>2. CASE ~Puts
      BY <1>1, <3>2
    <3> QED
      BY <3>1, <3>2
  <2> QED
    BY <2>1, <2>2
<1>3. TypeOK'
  <2>1. rbc' \in [Correct -> [Nodes -> {None, Value, Failed}]]
    BY <1>1 DEF IInv, TypeOK
  <2>2. input' \in [Correct -> [Nodes -> Bits \cup {None}]]
    <3>1. CASE Puts
      BY <1>1, <3>1 DEF IInv, TypeOK, Bits
    <3>2. CASE ~Puts
      BY <1>1, <3>2 DEF IInv, TypeOK
    <3> QED
      BY <3>1, <3>2
  <2> QED
    BY <1>1, <2>1, <2>2 DEF IInv, TypeOK
<1>4. RbcIsChosen'
  BY <1>1, <1>2 DEF IInv, RbcIsChosen
<1>5. OneHasProposal'
  BY <1>1, <1>2 DEF IInv, OneHasProposal, ConstantsAssumption, NoneAssumption
<1>6. ZeroHasEnough' /\ AbaIsSame' /\ ResultIsOnes'
  BY <1>1, <1>2 DEF IInv, ZeroHasEnough, AbaIsSame, ResultIsOnes
<1>7. AbaIsInput'
  BY <1>1, <1>2 DEF IInv, TypeOK, AbaIsInput, ConstantsAssumption, NoneAssumption
<1> QED
  BY <1>3, <1>4, <1>5, <1>6, <1>7 DEF IInv

\* What an agreement returns, and the 0s that follow when enough are in.
LEMMA ReceiveAgreementInv ==
  ASSUME ConstantsAssumption, IInv, NEW p \in Correct, NEW j \in Nodes, NEW b \in Bits,
         ReceiveAgreement(p, j, b)
  PROVE  IInv'
<1> DEFINE Puts == Enough(aba'[p])
<1>1. /\ aba[p][j] = None /\ MayDecide(p, j, b)
      /\ aba' = [aba EXCEPT ![p][j] = b]
      /\ input' = IF Puts THEN [input EXCEPT ![p] = Inputs(@, aba'[p])] ELSE input
      /\ UNCHANGED <<chosen, rbc, result>>
  BY DEF ReceiveAgreement
<1>2. \A q \in Correct, k \in Nodes : aba'[q][k] = IF q = p /\ k = j THEN b ELSE aba[q][k]
  BY <1>1 DEF IInv, TypeOK
<1>3. \A q \in Correct, k \in Nodes :
        input'[q][k] = IF q = p /\ Puts /\ input[q][k] = None THEN 0 ELSE input[q][k]
  <2>1. CASE Puts
    BY <1>1, <2>1 DEF IInv, TypeOK, Inputs
  <2>2. CASE ~Puts
    BY <1>1, <2>2
  <2> QED
    BY <2>1, <2>2
<1>4. TypeOK'
  <2>1. aba' \in [Correct -> [Nodes -> Bits \cup {None}]]
    BY <1>1 DEF IInv, TypeOK
  <2>2. input' \in [Correct -> [Nodes -> Bits \cup {None}]]
    <3>1. CASE Puts
      <4>1. Inputs(input[p], aba'[p]) \in [Nodes -> Bits \cup {None}]
        BY DEF IInv, TypeOK, Inputs, Bits
      <4>2. input' = [input EXCEPT ![p] = Inputs(input[p], aba'[p])]
        BY <1>1, <3>1
      <4> QED
        BY <4>1, <4>2 DEF IInv, TypeOK
    <3>2. CASE ~Puts
      BY <1>1, <3>2 DEF IInv, TypeOK
    <3> QED
      BY <3>1, <3>2
  <2> QED
    BY <1>1, <2>1, <2>2 DEF IInv, TypeOK
<1>5. RbcIsChosen' /\ OneHasProposal'
  <2>1. RbcIsChosen'
    BY <1>1 DEF IInv, RbcIsChosen
  <2>2. \A q \in Correct, k \in Nodes : input'[q][k] = 1 => input[q][k] = 1
    BY <1>3
  <2>3. OneHasProposal'
    BY <1>1, <2>2 DEF IInv, OneHasProposal
  <2> QED
    BY <2>1, <2>3
<1>6. ASSUME NEW q \in Correct PROVE Enough(aba[q]) => Enough(aba'[q])
  <2>1. Ones(aba[q]) \subseteq Ones(aba'[q])
    BY <1>1, <1>2 DEF Ones, ConstantsAssumption, NoneAssumption, Bits
  <2> QED
    BY <2>1, MoreIsEnough
<1>7. ZeroHasEnough'
  BY <1>3, <1>6 DEF IInv, ZeroHasEnough
<1>8. AbaIsSame'
  BY <1>1, <1>2 DEF IInv, AbaIsSame, MayDecide
<1>9. \A q \in Correct, k \in Nodes : input[q][k] # None => input'[q][k] = input[q][k]
  BY <1>3
<1>10. AbaIsInput'
  <2> SUFFICES ASSUME NEW q \in Correct, NEW k \in Nodes, aba'[q][k] # None
               PROVE  \E u \in Correct : input'[u][k] = aba'[q][k]
    BY DEF AbaIsInput
  <2>1. PICK u \in Correct : input[u][k] = aba'[q][k]
    BY <1>1, <1>2 DEF IInv, AbaIsInput, MayDecide
  <2> QED
    BY <1>9, <2>1
<1>11. ResultIsOnes'
  BY <1>1, <1>2 DEF IInv, ResultIsOnes
<1> QED
  BY <1>4, <1>5, <1>7, <1>8, <1>10, <1>11 DEF IInv

\* p returns what is in: no assertion fails.
LEMMA FinishInv ==
  ASSUME ConstantsAssumption, IInv, NEW p \in Correct, Finish(p)
  PROVE  IInv'
<1>1. Enough(aba[p]) /\ \A j \in Nodes : aba[p][j] # None
  BY EndedIsEnough DEF Finish
<1>2. \A j \in Ones(aba[p]) : rbc[p][j] = Value
  BY InHasValue DEF Finish, Ones
<1>3. result' = [result EXCEPT ![p] = Ones(aba[p])] /\ UNCHANGED <<chosen, rbc, input, aba>>
  BY <1>1, <1>2 DEF Finish
<1>4. Ones(aba[p]) \in SUBSET Nodes
  BY DEF Ones
<1>5. TypeOK'
  BY <1>3, <1>4 DEF IInv, TypeOK
<1>6. ResultIsOnes'
  BY <1>1, <1>3 DEF IInv, TypeOK, ResultIsOnes
<1> QED
  BY <1>3, <1>5, <1>6
     DEF IInv, RbcIsChosen, OneHasProposal, ZeroHasEnough, AbaIsInput, AbaIsSame

LEMMA StepInv == ASSUME ConstantsAssumption PROVE IInv /\ [Next]_vars => IInv'
<1> SUFFICES ASSUME IInv, [Next]_vars PROVE IInv'
  OBVIOUS
<1>1. CASE UNCHANGED vars
  BY <1>1 DEF vars, IInv, TypeOK, RbcIsChosen, OneHasProposal, ZeroHasEnough, AbaIsInput,
     AbaIsSame, ResultIsOnes
<1>2. CASE \E j \in Nodes, v \in {Value, Failed} : BindBroadcast(j, v)
  BY <1>2, BindBroadcastInv
<1>3. ASSUME NEW p \in Correct,
             \/ \E j \in Nodes : ReceiveBroadcast(p, j)
             \/ \E j \in Nodes, b \in Bits : ReceiveAgreement(p, j, b)
             \/ Finish(p)
      PROVE  IInv'
  BY <1>3, ReceiveBroadcastInv, ReceiveAgreementInv, FinishInv
<1> QED
  BY <1>1, <1>2, <1>3 DEF Next, Terminating

-----------------------------------------------------------------------------
(* The theorems *)

\* The invariant holds in every execution.
THEOREM Invariance == ASSUME ConstantsAssumption PROVE Spec => []IInv
<1>1. Init => IInv
  BY InitInv
<1>2. IInv /\ [Next]_vars => IInv'
  BY StepInv
<1> QED
  BY <1>1, <1>2, PTL DEF Spec

\* The variables have their types in every execution.
THEOREM TypeCorrect == ASSUME ConstantsAssumption PROVE Spec => []TypeOK
<1>1. IInv => TypeOK
  BY DEF IInv
<1> QED
  BY <1>1, Invariance, PTL

\* All the nodes that return return the same proposals, N - f of them at least.
THEOREM SameForAll == ASSUME ConstantsAssumption PROVE Spec => []SameSubset
<1>1. IInv => SameSubset
  <2> SUFFICES ASSUME IInv, NEW p \in Correct, NEW q \in Correct,
                      result[p] \notin {None, Failed}, result[q] \notin {None, Failed}
               PROVE  result[p] = result[q] /\ Cardinality(result[p]) >= N - F
    BY DEF SameSubset
  <2>1. /\ result[p] = Ones(aba[p]) /\ Enough(aba[p]) /\ result[q] = Ones(aba[q])
        /\ \A j \in Nodes : aba[p][j] # None /\ aba[q][j] # None
    BY DEF IInv, ResultIsOnes
  <2>2. \A j \in Nodes : aba[p][j] = aba[q][j]
    BY <2>1 DEF IInv, AbaIsSame
  <2>3. Ones(aba[p]) = Ones(aba[q])
    BY <2>2 DEF Ones
  <2> QED
    BY <2>1, <2>3 DEF Enough
<1> QED
  BY <1>1, Invariance, PTL

\* Neither assertion of commonsubset fails at any node.
THEOREM AssertionsHold == ASSUME ConstantsAssumption PROVE Spec => []NoAssertionFails
<1>1. IInv => NoAssertionFails
  <2> SUFFICES ASSUME ConstantsAssumption, IInv, NEW p \in Correct, result[p] = Failed
               PROVE  FALSE
    BY DEF NoAssertionFails
  <2>1. Ones(aba[p]) = Failed
    BY DEF IInv, ResultIsOnes, ConstantsAssumption, NoneAssumption
  <2>2. Ones(aba[p]) \in SUBSET Nodes
    BY DEF Ones
  <2> QED
    BY <2>1, <2>2 DEF ConstantsAssumption, NoneAssumption
<1> QED
  BY <1>1, Invariance, PTL

\* Whatever the order in which the greenlets of commonsubset run, an agreement
\* gets one input of each node and answers as Agreement says.
LEMMA FaithfulStep ==
  ASSUME ConstantsAssumption, TypeOK, [Next]_vars, NEW j \in Nodes
  PROVE  [Agree(j)!AgreementNext]_<<[p \in Correct |-> input[p][j]], [p \in Correct |-> aba[p][j]]>>
<1> DEFINE vi == [p \in Correct |-> input[p][j]]
           decided == [p \in Correct |-> aba[p][j]]
<1>1. CASE UNCHANGED <<input, aba>>
  BY <1>1
<1>2. ASSUME NEW p \in Correct, NEW k \in Nodes, ReceiveBroadcast(p, k)
      PROVE  Agree(j)!AgreementNext \/ UNCHANGED <<vi, decided>>
  <2>1. UNCHANGED aba
    BY <1>2 DEF ReceiveBroadcast
  <2>2. CASE input' = input
    BY <2>1, <2>2
  <2>3. CASE input' = [input EXCEPT ![p][k] = 1] /\ input[p][k] = None
    <3>1. CASE k = j
      <4>1. vi[p] = None /\ vi' = [vi EXCEPT ![p] = 1] /\ decided' = decided
        BY <2>1, <2>3, <3>1 DEF TypeOK
      <4>2. Agree(j)!Input(p, 1)
        BY <4>1 DEF Agree!Input
      <4> QED
        BY <4>2 DEF Agree!AgreementNext, Agree!Bits
    <3>2. CASE k # j
      <4>1. vi' = vi
        BY <2>3, <3>2 DEF TypeOK
      <4> QED
        BY <2>1, <4>1
    <3> QED
      BY <3>1, <3>2
  <2> QED
    BY <1>2, <2>2, <2>3 DEF ReceiveBroadcast
<1>3. ASSUME NEW p \in Correct, NEW k \in Nodes, NEW b \in Bits, ReceiveAgreement(p, k, b)
      PROVE  Agree(j)!AgreementNext \/ UNCHANGED <<vi, decided>>
  <2>1. /\ aba[p][k] = None /\ MayDecide(p, k, b)
        /\ aba' = [aba EXCEPT ![p][k] = b]
        /\ input' = IF Enough(aba'[p]) THEN [input EXCEPT ![p] = Inputs(@, aba'[p])] ELSE input
    BY <1>3 DEF ReceiveAgreement
  <2>2. vi' = vi \/ (vi[p] = None /\ vi' = [vi EXCEPT ![p] = 0])
    <3>1. CASE input' = input
      BY <3>1
    <3>2. CASE input' = [input EXCEPT ![p] = Inputs(@, aba'[p])]
      BY <3>2 DEF TypeOK, Inputs
    <3> QED
      BY <2>1, <3>1, <3>2
  <2>3. CASE k = j
    <3>1. decided[p] = None /\ decided' = [decided EXCEPT ![p] = b]
      BY <2>1, <2>3 DEF TypeOK
    <3>2. (\E q \in Correct : vi[q] = b) /\ (\A q \in Correct : decided[q] \in {None, b})
      BY <2>1, <2>3 DEF MayDecide
    <3>3. Agree(j)!Decide(p, b)
      BY <2>2, <3>1, <3>2 DEF Agree!Decide, Agree!Bits
    <3> QED
      BY <3>3 DEF Agree!AgreementNext, Agree!Bits, Bits
  <2>4. CASE k # j
    <3>1. decided' = decided
      BY <2>1, <2>4 DEF TypeOK
    <3>2. CASE vi' = vi
      BY <3>1, <3>2
    <3>3. CASE vi[p] = None /\ vi' = [vi EXCEPT ![p] = 0]
      <4>1. Agree(j)!Input(p, 0)
        BY <3>1, <3>3 DEF Agree!Input
      <4> QED
        BY <4>1 DEF Agree!AgreementNext, Agree!Bits
    <3> QED
      BY <2>2, <3>2, <3>3
  <2> QED
    BY <2>3, <2>4
<1>4. CASE \E k \in Nodes, v \in {Value, Failed} : BindBroadcast(k, v)
  BY <1>1, <1>4 DEF BindBroadcast
<1>5. CASE \E p \in Correct : Finish(p)
  BY <1>1, <1>5 DEF Finish
<1>6. CASE UNCHANGED vars
  BY <1>1, <1>6 DEF vars
<1> QED
  BY <1>2, <1>3, <1>4, <1>5, <1>6 DEF Next, Terminating

\* The greenlets give each agreement one input of a node and take its answers,
\* as Agreement allows.
THEOREM Faithful == ASSUME ConstantsAssumption PROVE Spec => AgreementsAreFaithful
<1>1. IInv /\ [Next]_vars =>
        [\A j \in Nodes : [Agree(j)!AgreementNext]_<<[p \in Correct |-> input[p][j]], [p \in Correct |-> aba[p][j]]>>]_vars
  BY FaithfulStep DEF IInv
<1> QED
  BY <1>1, Invariance, PTL DEF Spec, AgreementsAreFaithful
=============================================================================
