-------------------------- MODULE HoneyBadger_proofs --------------------------
(***************************************************************************)
(* Theorems about HoneyBadger for any number of nodes and rounds, any       *)
(* transactions and batch size, and any order of what arrives.              *)
(***************************************************************************)
EXTENDS HoneyBadger, CountingLemmas, SequenceTheorems

\* Assumed of the constants.
ConstantsAssumption ==
  NodesAssumption /\ ResilienceAssumption /\ BatchAssumption /\ TxAssumption /\ NoneAssumption

NoRepeat(s) == \A i, j \in DOMAIN s : s[i] = s[j] => i = j
Disjoint(s, t) == ToSet(s) \cap ToSet(t) = {}

\* No transaction is submitted twice, to one node or to two.
Apart ==
  \A p, q \in Correct : /\ NoRepeat(Submitted[p])
                        /\ p # q => Disjoint(Submitted[p], Submitted[q])

-----------------------------------------------------------------------------
(* The inductive invariant *)

Types ==
  /\ pc \in [Correct -> {"start", "acs", "shares", "done",
                         "IndexError", "TypeError", "AssertionError"}]
  /\ round \in [Correct -> 0 .. RoundsToRun]
  /\ pending \in [Correct -> Seq(Tx)] /\ buffer \in [Correct -> Seq(Tx)]
  /\ batch \in [Correct -> Seq(Tx)]
  /\ proposed \in [Rounds -> [Correct -> (SUBSET Tx) \cup {None}]]
  /\ subset \in [Rounds -> (SUBSET Nodes) \cup {None}]
  /\ shares \in [Rounds -> SUBSET Correct]
  /\ received \in [Correct -> SUBSET (Nodes \X BOOLEAN)]
  /\ \A p \in Correct : Cardinality(received[p]) <= F
  /\ blocks \in [Correct -> Seq(SUBSET Tx)]

\* Where a node is in its rounds: it has proposed in none after its own, and in
\* its own what it took out; the batch is empty between the rounds.
Course ==
  \A p \in Correct :
    /\ pc[p] # "done" => round[p] \in Rounds
    /\ \A r \in Rounds : r > round[p] => proposed[r][p] = None
    /\ pc[p] = "start" => proposed[round[p]][p] = None
    /\ pc[p] \in {"acs", "shares"} => proposed[round[p]][p] = ToSet(batch[p])
    /\ pc[p] \in {"start", "done"} => batch[p] = <<>>

\* A subset that is fixed has proposals only, and a node that waits for shares,
\* or has left the round, knows it.
Fixed ==
  /\ \A r \in Rounds : subset[r] # None =>
       \A q \in subset[r] \ Faulty : q \in Correct /\ proposed[r][q] # None
  /\ \A p \in Correct :
       /\ pc[p] = "shares" => subset[round[p]] # None
       /\ \A r \in Rounds : r < round[p] => subset[r] # None

\* What a node delivered is the block of each round it has left.
Delivered ==
  \A p \in Correct :
    Len(blocks[p]) = round[p] /\ \A r \in Rounds : r < round[p] => blocks[p][r + 1] = Block(r)

\* NothingLost, place by place.
Somewhere ==
  \A p \in Correct : pc[p] \in {"start", "acs", "shares", "done"} =>
    ToSet(Submitted[p]) \subseteq
      ToSet(pending[p]) \cup ToSet(buffer[p]) \cup ToSet(batch[p]) \cup UNION ToSet(blocks[p])

IInv == Types /\ Course /\ Fixed /\ Delivered /\ Somewhere

\* The transactions p has.
Held(p) == ToSet(pending[p]) \cup ToSet(buffer[p]) \cup ToSet(batch[p])

\* Every transaction submitted to p is in one place.
OnePlace(p) ==
  /\ NoRepeat(pending[p]) /\ NoRepeat(buffer[p]) /\ NoRepeat(batch[p])
  /\ Disjoint(pending[p], buffer[p]) /\ Disjoint(pending[p], batch[p])
  /\ Disjoint(buffer[p], batch[p])
  /\ Held(p) \subseteq ToSet(Submitted[p])

\* A proposal of p that got in is not proposed again, and p does not have it
\* once it has left that round.
NotAgain(p) ==
  \A r \in Rounds : proposed[r][p] # None =>
    /\ proposed[r][p] \subseteq ToSet(Submitted[p])
    /\ subset[r] # None /\ p \in subset[r] =>
         /\ r < round[p] => proposed[r][p] \cap Held(p) = {}
         /\ \A s \in Rounds : r < s /\ proposed[s][p] # None =>
              proposed[r][p] \cap proposed[s][p] = {}

Once == \A p \in Correct : OnePlace(p) /\ NotAgain(p)

-----------------------------------------------------------------------------
(* Sequences *)

LEMMA SetOf ==
  ASSUME NEW S, NEW s \in Seq(S)
  PROVE  Len(s) \in Nat /\ DOMAIN s = 1 .. Len(s) /\ ToSet(s) \subseteq S
  BY LenProperties, ElementOfSeq DEF ToSet

LEMMA Empty == ToSet(<<>>) = {} /\ NoRepeat(<<>>)
<1>1. DOMAIN <<>> = {}
  BY EmptySeq
<1> QED
  BY <1>1 DEF ToSet, NoRepeat

LEMMA Appended ==
  ASSUME NEW S, NEW s \in Seq(S), NEW x \in S
  PROVE  /\ Append(s, x) \in Seq(S) /\ Len(Append(s, x)) = Len(s) + 1
         /\ \A i \in 1 .. Len(s) : Append(s, x)[i] = s[i]
         /\ Append(s, x)[Len(s) + 1] = x
         /\ ToSet(Append(s, x)) = ToSet(s) \cup {x}
         /\ NoRepeat(s) /\ x \notin ToSet(s) => NoRepeat(Append(s, x))
<1>1. /\ Append(s, x) \in Seq(S) /\ Len(s) \in Nat /\ Len(Append(s, x)) = Len(s) + 1
      /\ DOMAIN s = 1 .. Len(s) /\ DOMAIN Append(s, x) = 1 .. Len(s) + 1
      /\ \A i \in 1 .. Len(s) : Append(s, x)[i] = s[i]
      /\ Append(s, x)[Len(s) + 1] = x
  BY AppendProperties, LenProperties
<1>2. 1 .. Len(s) + 1 = 1 .. Len(s) \cup {Len(s) + 1}
  BY <1>1
<1>3. ToSet(Append(s, x)) = ToSet(s) \cup {x}
  BY <1>1, <1>2 DEF ToSet
<1>4. ASSUME NoRepeat(s), x \notin ToSet(s) PROVE NoRepeat(Append(s, x))
  BY <1>1, <1>2, <1>4 DEF NoRepeat, ToSet
<1> QED
  BY <1>1, <1>3, <1>4

LEMMA HeadAndTail ==
  ASSUME NEW S, NEW s \in Seq(S), s # <<>>
  PROVE  /\ Tail(s) \in Seq(S) /\ Head(s) \in S
         /\ ToSet(s) = {Head(s)} \cup ToSet(Tail(s))
         /\ NoRepeat(s) => NoRepeat(Tail(s)) /\ Head(s) \notin ToSet(Tail(s))
<1>1. /\ Tail(s) \in Seq(S) /\ Head(s) \in S /\ Len(s) \in Nat /\ Len(s) > 0
      /\ Len(Tail(s)) = Len(s) - 1
      /\ DOMAIN s = 1 .. Len(s) /\ DOMAIN Tail(s) = 1 .. Len(s) - 1
      /\ Head(s) = s[1] /\ \A i \in 1 .. Len(s) - 1 : Tail(s)[i] = s[i + 1]
  BY HeadTailProperties, LenProperties, EmptySeq
<1>2. \A i \in 1 .. Len(s) - 1 : i + 1 \in 1 .. Len(s) /\ i + 1 # 1
  BY <1>1
<1>3. \A i \in 1 .. Len(s) : i = 1 \/ (i - 1 \in 1 .. Len(s) - 1 /\ (i - 1) + 1 = i)
  BY <1>1
<1>4. 1 \in 1 .. Len(s)
  BY <1>1
<1>5. ToSet(s) = {Head(s)} \cup ToSet(Tail(s))
  <2>1. ToSet(s) \subseteq {Head(s)} \cup ToSet(Tail(s))
    <3> SUFFICES ASSUME NEW i \in 1 .. Len(s) PROVE s[i] \in {Head(s)} \cup ToSet(Tail(s))
      BY <1>1 DEF ToSet
    <3>1. CASE i = 1
      BY <1>1, <3>1
    <3>2. CASE i # 1
      <4>1. i - 1 \in 1 .. Len(s) - 1 /\ s[i] = Tail(s)[i - 1]
        BY <1>1, <1>3, <3>2
      <4> QED
        BY <1>1, <4>1 DEF ToSet
    <3> QED
      BY <3>1, <3>2
  <2>2. {Head(s)} \cup ToSet(Tail(s)) \subseteq ToSet(s)
    BY <1>1, <1>2, <1>4 DEF ToSet
  <2> QED
    BY <2>1, <2>2
<1>6. ASSUME NoRepeat(s) PROVE NoRepeat(Tail(s)) /\ Head(s) \notin ToSet(Tail(s))
  <2>1. \A i, j \in 1 .. Len(s) - 1 : i + 1 = j + 1 => i = j
    BY <1>1
  <2>2. NoRepeat(Tail(s))
    BY <1>1, <1>2, <1>6, <2>1 DEF NoRepeat
  <2>3. \A i \in 1 .. Len(s) - 1 : Tail(s)[i] # Head(s)
    BY <1>1, <1>2, <1>4, <1>6 DEF NoRepeat
  <2> QED
    BY <1>1, <2>2, <2>3 DEF ToSet
<1> QED
  BY <1>1, <1>5, <1>6

\* What popleft takes off the front and what it leaves.
LEMMA Cut ==
  ASSUME NEW S, NEW s \in Seq(S), NEW n \in Nat, n <= Len(s)
  PROVE  LET front == SubSeq(s, 1, n)
             rest == SubSeq(s, n + 1, Len(s)) IN
         /\ front \in Seq(S) /\ rest \in Seq(S)
         /\ ToSet(s) = ToSet(front) \cup ToSet(rest)
         /\ NoRepeat(s) => NoRepeat(front) /\ NoRepeat(rest) /\ Disjoint(front, rest)
<1> DEFINE front == SubSeq(s, 1, n)
           rest == SubSeq(s, n + 1, Len(s))
           m == Len(s) - n
<1>0. Len(s) \in Nat /\ DOMAIN s = 1 .. Len(s) /\ m \in Nat /\ \A i \in 1 .. Len(s) : s[i] \in S
  BY LenProperties, ElementOfSeq
<1>1. front = [i \in 1 .. n |-> s[i]] /\ \A i \in 1 .. n : i \in 1 .. Len(s)
  <2>1. front = [i \in 1 .. (n - 1 + 1) |-> s[i + 1 - 1]]
    BY <1>0
  <2> QED
    BY <1>0, <2>1
<1>2. rest = [i \in 1 .. m |-> s[i + n]] /\ \A i \in 1 .. m : i + n \in 1 .. Len(s) /\ i + n > n
  <2>1. rest = [i \in 1 .. (Len(s) - (n + 1) + 1) |-> s[i + (n + 1) - 1]]
    BY <1>0
  <2>2. Len(s) - (n + 1) + 1 = m /\ \A i \in 1 .. m : i + (n + 1) - 1 = i + n
    BY <1>0
  <2> QED
    BY <1>0, <2>1, <2>2
<1>3. \A i \in 1 .. Len(s) : i \in 1 .. n \/ (i - n \in 1 .. m /\ (i - n) + n = i)
  BY <1>0
<1>4. DOMAIN front = 1 .. n /\ DOMAIN rest = 1 .. m
  BY <1>1, <1>2
<1>5. front \in Seq(S) /\ rest \in Seq(S)
  <2>1. front \in [1 .. n -> S] /\ rest \in [1 .. m -> S]
    BY <1>0, <1>1, <1>2
  <2> QED
    BY <1>0, <2>1, SeqDef
<1> HIDE DEF front, rest, m
<1>6. ToSet(s) = ToSet(front) \cup ToSet(rest)
  <2>1. ToSet(s) \subseteq ToSet(front) \cup ToSet(rest)
    BY <1>0, <1>1, <1>2, <1>3, <1>4 DEF ToSet
  <2>2. ToSet(front) \subseteq ToSet(s) /\ ToSet(rest) \subseteq ToSet(s)
    BY <1>0, <1>1, <1>2, <1>4 DEF ToSet
  <2> QED
    BY <2>1, <2>2
<1>7. ASSUME NoRepeat(s) PROVE NoRepeat(front) /\ NoRepeat(rest) /\ Disjoint(front, rest)
  <2>1. NoRepeat(front)
    BY <1>0, <1>1, <1>4, <1>7 DEF NoRepeat
  <2>2. \A i, j \in 1 .. m : i + n = j + n => i = j
    BY <1>0
  <2>3. NoRepeat(rest)
    BY <1>0, <1>2, <1>4, <1>7, <2>2 DEF NoRepeat
  <2>4. \A i \in 1 .. n, j \in 1 .. m : i # j + n
    BY <1>0
  <2>5. \A i \in 1 .. n, j \in 1 .. m : front[i] # rest[j]
    BY <1>0, <1>1, <1>2, <1>7, <2>4 DEF NoRepeat
  <2> QED
    BY <1>4, <2>1, <2>3, <2>5 DEF Disjoint, ToSet
<1> QED
  BY <1>5, <1>6, <1>7 DEF front, rest

\* Two sequences, one after the other.
LEMMA Joined ==
  ASSUME NEW S, NEW s \in Seq(S), NEW t \in Seq(S)
  PROVE  /\ s \o t \in Seq(S) /\ ToSet(s \o t) = ToSet(s) \cup ToSet(t)
         /\ NoRepeat(s) /\ NoRepeat(t) /\ Disjoint(s, t) => NoRepeat(s \o t)
<1> DEFINE u == s \o t
<1>1. /\ u \in Seq(S) /\ Len(s) \in Nat /\ Len(t) \in Nat
      /\ DOMAIN s = 1 .. Len(s) /\ DOMAIN t = 1 .. Len(t)
      /\ DOMAIN u = 1 .. Len(s) + Len(t)
  BY ConcatProperties, LenProperties
<1>2. \A i \in 1 .. Len(s) + Len(t) : u[i] = IF i <= Len(s) THEN s[i] ELSE t[i - Len(s)]
  BY ConcatProperties
<1> HIDE DEF u
<1>3. \A i \in 1 .. Len(s) : i \in 1 .. Len(s) + Len(t) /\ u[i] = s[i]
  BY <1>1, <1>2
<1>4. \A i \in 1 .. Len(t) : i + Len(s) \in 1 .. Len(s) + Len(t) /\ u[i + Len(s)] = t[i]
  <2> SUFFICES ASSUME NEW i \in 1 .. Len(t)
               PROVE i + Len(s) \in 1 .. Len(s) + Len(t) /\ u[i + Len(s)] = t[i]
    OBVIOUS
  <2>1. i + Len(s) \in 1 .. Len(s) + Len(t) /\ ~(i + Len(s) <= Len(s)) /\ (i + Len(s)) - Len(s) = i
    BY <1>1
  <2> QED
    BY <1>2, <2>1
<1>5. \A i \in 1 .. Len(s) + Len(t) :
        \/ i \in 1 .. Len(s) /\ u[i] = s[i]
        \/ i - Len(s) \in 1 .. Len(t) /\ ~(i <= Len(s)) /\ u[i] = t[i - Len(s)]
  <2> SUFFICES ASSUME NEW i \in 1 .. Len(s) + Len(t)
               PROVE  \/ i \in 1 .. Len(s) /\ u[i] = s[i]
                      \/ i - Len(s) \in 1 .. Len(t) /\ ~(i <= Len(s)) /\ u[i] = t[i - Len(s)]
    OBVIOUS
  <2>1. CASE i <= Len(s)
    BY <1>1, <1>2, <2>1
  <2>2. CASE ~(i <= Len(s))
    BY <1>1, <1>2, <2>2
  <2> QED
    BY <2>1, <2>2
<1>6. ToSet(u) = ToSet(s) \cup ToSet(t)
  <2>1. ToSet(u) \subseteq ToSet(s) \cup ToSet(t)
    BY <1>1, <1>5 DEF ToSet
  <2>2. ToSet(s) \subseteq ToSet(u)
    BY <1>1, <1>3 DEF ToSet
  <2>3. ToSet(t) \subseteq ToSet(u)
    BY <1>1, <1>4 DEF ToSet
  <2> QED
    BY <2>1, <2>2, <2>3
<1>7. ASSUME NoRepeat(s), NoRepeat(t), Disjoint(s, t) PROVE NoRepeat(u)
  <2> SUFFICES ASSUME NEW i \in 1 .. Len(s) + Len(t), NEW j \in 1 .. Len(s) + Len(t), u[i] = u[j]
               PROVE  i = j
    BY <1>1 DEF NoRepeat
  <2>1. \A k \in 1 .. Len(s), l \in 1 .. Len(t) : s[k] # t[l]
    BY <1>1, <1>7 DEF Disjoint, ToSet
  <2>2. CASE i \in 1 .. Len(s) /\ u[i] = s[i] /\ j \in 1 .. Len(s) /\ u[j] = s[j]
    BY <1>1, <1>7, <2>2 DEF NoRepeat
  <2>3. CASE /\ i - Len(s) \in 1 .. Len(t) /\ u[i] = t[i - Len(s)]
             /\ j - Len(s) \in 1 .. Len(t) /\ u[j] = t[j - Len(s)]
    <3>1. i - Len(s) = j - Len(s)
      BY <1>1, <1>7, <2>3 DEF NoRepeat
    <3> QED
      BY <1>1, <3>1
  <2>4. CASE i \in 1 .. Len(s) /\ u[i] = s[i] /\ j - Len(s) \in 1 .. Len(t) /\ u[j] = t[j - Len(s)]
    BY <2>1, <2>4
  <2>5. CASE j \in 1 .. Len(s) /\ u[j] = s[j] /\ i - Len(s) \in 1 .. Len(t) /\ u[i] = t[i - Len(s)]
    BY <2>1, <2>5
  <2> QED
    BY <1>5, <2>2, <2>3, <2>4, <2>5
<1> QED
  BY <1>1, <1>6, <1>7 DEF u

-----------------------------------------------------------------------------
(* What appendleft puts back *)

\* back of PutBack, for the batch s, the buffer b and the block X.
IsBack(f, s, b, X, n) ==
  f = [i \in 0 .. n |-> IF i = 0 THEN b ELSE IF s[i] \in X THEN f[i - 1] ELSE <<s[i]>> \o f[i - 1]]

\* The loop of appendleft has an outcome after each turn.
LEMMA BackExists ==
  ASSUME NEW s, NEW b, NEW X, NEW n \in Nat
  PROVE  \E f : IsBack(f, s, b, X, n)
<1> DEFINE T == {k \in Nat : \E f : IsBack(f, s, b, X, k)}
<1>1. 0 \in T
  <2>1. IsBack([i \in 0 .. 0 |-> b], s, b, X, 0)
    BY DEF IsBack
  <2> QED
    BY <2>1
<1>2. ASSUME NEW k \in T PROVE k + 1 \in T
  <2>1. PICK f : IsBack(f, s, b, X, k)
    OBVIOUS
  <2> DEFINE last == IF s[k + 1] \in X THEN f[k] ELSE <<s[k + 1]>> \o f[k]
             g == [i \in 0 .. k + 1 |-> IF i = k + 1 THEN last ELSE f[i]]
  <2>2. \A i \in 0 .. k : g[i] = f[i]
    OBVIOUS
  <2>3. \A i \in 0 .. k + 1 :
          g[i] = IF i = 0 THEN b ELSE IF s[i] \in X THEN g[i - 1] ELSE <<s[i]>> \o g[i - 1]
    <3> SUFFICES ASSUME NEW i \in 0 .. k + 1
                 PROVE g[i] = IF i = 0 THEN b ELSE IF s[i] \in X THEN g[i - 1] ELSE <<s[i]>> \o g[i - 1]
      OBVIOUS
    <3>1. CASE i = k + 1
      <4>1. i # 0 /\ i - 1 = k /\ g[i - 1] = f[k] /\ g[i] = last
        BY <3>1, <2>2
      <4> HIDE DEF g
      <4> QED
        BY <3>1, <4>1
    <3>2. CASE i # k + 1
      <4>1. i \in 0 .. k /\ g[i] = f[i] /\ (i # 0 => i - 1 \in 0 .. k /\ g[i - 1] = f[i - 1])
        BY <3>2, <2>2
      <4>2. f[i] = IF i = 0 THEN b ELSE IF s[i] \in X THEN f[i - 1] ELSE <<s[i]>> \o f[i - 1]
        BY <2>1, <4>1 DEF IsBack
      <4> HIDE DEF g
      <4> QED
        BY <4>1, <4>2
    <3> QED
      BY <3>1, <3>2
  <2>4. IsBack(g, s, b, X, k + 1)
    BY <2>3 DEF IsBack
  <2> QED
    BY <2>4
<1> HIDE DEF T
<1>3. T = Nat
  BY <1>1, <1>2, SetInduction DEF T
<1> QED
  BY <1>3 DEF T

\* After n turns the buffer has what it had and those of the first n
\* transactions that are not in the block.
LEMMA BackTurns ==
  ASSUME NEW S, NEW s \in Seq(S), NEW b \in Seq(S), NEW X, NEW f, IsBack(f, s, b, X, Len(s)),
         NEW n \in 0 .. Len(s)
  PROVE  /\ f[n] \in Seq(S)
         /\ ToSet(f[n]) = ToSet(b) \cup {s[j] : j \in {k \in 1 .. n : s[k] \notin X}}
         /\ NoRepeat(s) /\ NoRepeat(b) /\ Disjoint(b, s) => NoRepeat(f[n])
<1> DEFINE kept(m) == {s[j] : j \in {k \in 1 .. m : s[k] \notin X}}
           Good(m) == /\ f[m] \in Seq(S)
                      /\ ToSet(f[m]) = ToSet(b) \cup kept(m)
                      /\ NoRepeat(s) /\ NoRepeat(b) /\ Disjoint(b, s) => NoRepeat(f[m])
           T == {m \in Nat : m <= Len(s) => Good(m)}
<1>1. Len(s) \in Nat /\ DOMAIN s = 1 .. Len(s) /\ \A i \in 1 .. Len(s) : s[i] \in S
  BY LenProperties, ElementOfSeq
<1>2. f[0] = b
  BY <1>1 DEF IsBack
<1>3. \A i \in 1 .. Len(s) : f[i] = IF s[i] \in X THEN f[i - 1] ELSE <<s[i]>> \o f[i - 1]
  <2> SUFFICES ASSUME NEW i \in 1 .. Len(s)
               PROVE  f[i] = IF s[i] \in X THEN f[i - 1] ELSE <<s[i]>> \o f[i - 1]
    OBVIOUS
  <2>1. i \in 0 .. Len(s) /\ i # 0
    BY <1>1
  <2> QED
    BY <2>1 DEF IsBack
<1>4. Good(0)
  <2>1. kept(0) = {}
    OBVIOUS
  <2> HIDE DEF kept
  <2> QED
    BY <1>2, <2>1
<1>5. ASSUME NEW m \in Nat, m + 1 <= Len(s), Good(m) PROVE Good(m + 1)
  <2>1. m + 1 \in 1 .. Len(s) /\ (m + 1) - 1 = m /\ s[m + 1] \in S
    BY <1>1, <1>5
  <2>2. f[m + 1] = IF s[m + 1] \in X THEN f[m] ELSE <<s[m + 1]>> \o f[m]
    BY <1>3, <2>1
  <2>3. 1 .. m + 1 = 1 .. m \cup {m + 1}
    OBVIOUS
  <2>4. CASE s[m + 1] \in X
    <3>1. kept(m + 1) = kept(m)
      BY <2>3, <2>4
    <3> HIDE DEF kept
    <3> QED
      BY <1>5, <2>2, <2>4, <3>1
  <2>5. CASE s[m + 1] \notin X
    <3>1. kept(m + 1) = kept(m) \cup {s[m + 1]}
      BY <2>3, <2>5
    <3>2. /\ <<s[m + 1]>> \in Seq(S) /\ ToSet(<<s[m + 1]>>) = {s[m + 1]}
          /\ NoRepeat(<<s[m + 1]>>)
      BY <2>1 DEF ToSet, NoRepeat
    <3>3. f[m + 1] = <<s[m + 1]>> \o f[m]
      BY <2>2, <2>5
    <3>4. f[m + 1] \in Seq(S) /\ ToSet(f[m + 1]) = {s[m + 1]} \cup ToSet(f[m])
          /\ (NoRepeat(f[m]) /\ Disjoint(<<s[m + 1]>>, f[m]) => NoRepeat(f[m + 1]))
      <4>1. PICK old : old = f[m]
        OBVIOUS
      <4>2. PICK one : one = <<s[m + 1]>>
        OBVIOUS
      <4>3. old \in Seq(S)
        BY <1>5, <4>1
      <4>4. one \in Seq(S) /\ ToSet(one) = {s[m + 1]} /\ NoRepeat(one)
        BY <3>2, <4>2
      <4>5. /\ one \o old \in Seq(S) /\ ToSet(one \o old) = ToSet(one) \cup ToSet(old)
            /\ NoRepeat(one) /\ NoRepeat(old) /\ Disjoint(one, old) => NoRepeat(one \o old)
        BY <4>3, <4>4, Joined
      <4> QED
        BY <3>3, <4>1, <4>2, <4>4, <4>5
    <3>5. ASSUME NoRepeat(s), NoRepeat(b), Disjoint(b, s) PROVE NoRepeat(f[m + 1])
      <4>1. s[m + 1] \notin ToSet(b)
        BY <1>1, <2>1, <3>5 DEF Disjoint, ToSet
      <4>2. \A k \in 1 .. m : k \in 1 .. Len(s) /\ k # m + 1
        BY <1>1, <2>1
      <4>3. s[m + 1] \notin kept(m)
        BY <1>1, <2>1, <3>5, <4>2 DEF NoRepeat
      <4> HIDE DEF kept
      <4>4. Disjoint(<<s[m + 1]>>, f[m])
        BY <1>5, <3>2, <4>1, <4>3 DEF Disjoint
      <4> QED
        BY <1>5, <3>4, <3>5, <4>4
    <3> HIDE DEF kept
    <3> QED
      BY <1>5, <3>1, <3>4, <3>5
  <2> QED
    BY <2>4, <2>5
<1> HIDE DEF Good
<1>6. 0 \in T
  BY <1>4
<1>7. ASSUME NEW m \in T PROVE m + 1 \in T
  BY <1>1, <1>5
<1> HIDE DEF T
<1>8. T = Nat
  BY <1>6, <1>7, SetInduction DEF T
<1>9. Good(n)
  BY <1>1, <1>8 DEF T
<1> QED
  BY <1>9 DEF Good

LEMMA PutsBack ==
  ASSUME NEW S, NEW p, batch[p] \in Seq(S), buffer[p] \in Seq(S), NEW block
  PROVE  /\ PutBack(p, block) \in Seq(S)
         /\ ToSet(PutBack(p, block)) = ToSet(buffer[p]) \cup (ToSet(batch[p]) \ block)
         /\ NoRepeat(batch[p]) /\ NoRepeat(buffer[p]) /\ Disjoint(buffer[p], batch[p])
              => NoRepeat(PutBack(p, block))
<1> DEFINE s == batch[p]
           n == Len(s)
           f == CHOOSE g : IsBack(g, s, buffer[p], block, n)
<1>1. n \in Nat /\ n \in 0 .. n /\ DOMAIN s = 1 .. n
  BY LenProperties
<1>2. PutBack(p, block) = f[n]
  BY DEF PutBack, IsBack
<1>3. IsBack(f, s, buffer[p], block, n)
  BY <1>1, BackExists
<1>4. {s[j] : j \in {k \in 1 .. n : s[k] \notin block}} = ToSet(s) \ block
  BY <1>1 DEF ToSet
<1> HIDE DEF f
<1>5. /\ f[n] \in Seq(S)
      /\ ToSet(f[n]) = ToSet(buffer[p]) \cup {s[j] : j \in {k \in 1 .. n : s[k] \notin block}}
      /\ NoRepeat(s) /\ NoRepeat(buffer[p]) /\ Disjoint(buffer[p], s) => NoRepeat(f[n])
  BY <1>1, <1>3, BackTurns
<1> QED
  BY <1>2, <1>4, <1>5

-----------------------------------------------------------------------------
(* The steps *)

LEMMA Constants ==
  ASSUME ConstantsAssumption
  PROVE  /\ RoundsToRun \in Nat \ {0} /\ B \in Nat \ {0} /\ F \in Nat
         /\ Rounds = 0 .. RoundsToRun - 1 /\ Rounds \subseteq 0 .. RoundsToRun
         /\ Faulty \subseteq Nodes /\ IsFiniteSet(Nodes)
         /\ Submitted \in [Correct -> Seq(Tx)] /\ FaultyBatch \subseteq Tx
         /\ \A S \in SUBSET Nodes : None # S
         /\ \A S \in SUBSET Tx : None # S
<1>1. RoundsToRun \in Nat \ {0} /\ B \in Nat \ {0} /\ F \in Nat
  BY DEF ConstantsAssumption, BatchAssumption, ResilienceAssumption
<1>2. Rounds = 0 .. RoundsToRun - 1 /\ Rounds \subseteq 0 .. RoundsToRun
  BY <1>1 DEF Rounds
<1> QED
  BY <1>1, <1>2 DEF ConstantsAssumption, NodesAssumption, TxAssumption, NoneAssumption

LEMMA InitInv ==
  ASSUME ConstantsAssumption, Init
  PROVE  IInv
<1>1. RoundsToRun \in Nat \ {0} /\ F \in Nat /\ 0 \in Rounds /\ 0 \in 0 .. RoundsToRun /\ Submitted \in [Correct -> Seq(Tx)]
  BY Constants
<1>2. ToSet(<<>>) = {} /\ <<>> \in Seq(Tx) /\ <<>> \in Seq(SUBSET Tx) /\ Len(<<>>) = 0
  BY Empty
<1>3. Types
  <2>1. \A p \in Correct : received[p] = {} /\ Cardinality(received[p]) <= F
    BY <1>1, FS_EmptySet DEF Init
  <2> QED
    BY <1>1, <1>2, <2>1 DEF Init, Types
<1>4. Course
  <2>1. \A r \in Rounds, p \in Correct : proposed[r][p] = None
    BY DEF Init
  <2>2. \A p \in Correct : pc[p] = "start" /\ round[p] = 0 /\ batch[p] = <<>>
    BY DEF Init
  <2> QED
    BY <1>1, <2>1, <2>2 DEF Course
<1>5. Fixed
  <2>1. \A p \in Correct : pc[p] = "start" /\ round[p] = 0
    BY DEF Init
  <2>2. \A r \in Rounds : subset[r] = None /\ ~(r < 0)
    BY DEF Init, Rounds
  <2> QED
    BY <2>1, <2>2 DEF Fixed
<1>6. Delivered
  <2>1. \A p \in Correct : round[p] = 0 /\ blocks[p] = <<>>
    BY DEF Init
  <2>2. \A r \in Rounds : ~(r < 0)
    BY DEF Rounds
  <2> QED
    BY <1>2, <2>1, <2>2 DEF Delivered
<1>7. Somewhere
  BY DEF Init, Somewhere
<1> QED
  BY <1>3, <1>4, <1>5, <1>6, <1>7 DEF IInv

\* A block stays what it is once its subset is fixed: what was proposed and what
\* is in are not changed.
LEMMA BlockStays ==
  ASSUME Fixed, NEW r \in Rounds, subset[r] # None, subset'[r] = subset[r],
         \A q \in Correct : proposed[r][q] # None => proposed'[r][q] = proposed[r][q]
  PROVE  Block(r)' = Block(r)
<1>1. \A q \in subset[r] \ Faulty : proposed'[r][q] = proposed[r][q]
  BY DEF Fixed
<1>2. Block(r)' = UNION {IF q \in Faulty THEN FaultyBatch ELSE proposed'[r][q] : q \in subset'[r]}
  BY DEF Block
<1>3. \A q \in subset[r] : (IF q \in Faulty THEN FaultyBatch ELSE proposed'[r][q])
                         = (IF q \in Faulty THEN FaultyBatch ELSE proposed[r][q])
  BY <1>1
<1>4. {IF q \in Faulty THEN FaultyBatch ELSE proposed'[r][q] : q \in subset[r]}
    = {IF q \in Faulty THEN FaultyBatch ELSE proposed[r][q] : q \in subset[r]}
  BY <1>3
<1> QED
  BY <1>2, <1>4 DEF Block

LEMMA BlockOfTx ==
  ASSUME ConstantsAssumption, Types, Fixed, NEW r \in Rounds, subset[r] # None
  PROVE  /\ Block(r) \in SUBSET Tx
         /\ \A q \in Correct : q \in subset[r] => proposed[r][q] \subseteq Block(r)
         /\ \A x \in Block(r) : x \in FaultyBatch
                \/ \E q \in Correct : q \in subset[r] /\ x \in proposed[r][q] /\ proposed[r][q] # None
<1>1. \A q \in subset[r] : q \in Faulty \/ (q \in Correct /\ proposed[r][q] # None)
  BY DEF Fixed
<1>2. \A q \in Correct : proposed[r][q] # None => proposed[r][q] \in SUBSET Tx
  BY DEF Types
<1>3. FaultyBatch \subseteq Tx
  BY Constants
<1>4. ASSUME NEW x \in Block(r)
      PROVE  x \in FaultyBatch
               \/ \E q \in Correct : q \in subset[r] /\ x \in proposed[r][q] /\ proposed[r][q] # None
  <2>1. PICK q \in subset[r] : x \in IF q \in Faulty THEN FaultyBatch ELSE proposed[r][q]
    BY DEF Block
  <2> QED
    BY <1>1, <2>1
<1>5. ASSUME NEW q \in Correct, q \in subset[r] PROVE proposed[r][q] \subseteq Block(r)
  <2>1. q \notin Faulty
    BY DEF Correct
  <2> QED
    BY <1>5, <2>1 DEF Block
<1> QED
  BY <1>2, <1>3, <1>4, <1>5

\* submit_tx moves one transaction.
LEMMA Moved ==
  ASSUME Types, NEW p \in Correct, SubmitTx(p)
  PROVE  /\ pending' \in [Correct -> Seq(Tx)] /\ buffer' \in [Correct -> Seq(Tx)]
         /\ \A q \in Correct : q # p => pending'[q] = pending[q] /\ buffer'[q] = buffer[q]
         /\ \E x \in Tx : /\ ToSet(pending[p]) = {x} \cup ToSet(pending'[p])
                          /\ ToSet(buffer'[p]) = ToSet(buffer[p]) \cup {x}
                          /\ NoRepeat(pending[p]) => NoRepeat(pending'[p]) /\ x \notin ToSet(pending'[p])
                          /\ NoRepeat(buffer[p]) /\ x \notin ToSet(buffer[p]) => NoRepeat(buffer'[p])
<1>1. PICK s, b : s = pending[p] /\ b = buffer[p]
  OBVIOUS
<1>2. s \in Seq(Tx) /\ b \in Seq(Tx) /\ s # <<>>
  BY <1>1 DEF Types, SubmitTx
<1>3. pending'[p] = Tail(s) /\ buffer'[p] = Append(b, Head(s))
  BY <1>1 DEF Types, SubmitTx
<1>4. /\ Tail(s) \in Seq(Tx) /\ Head(s) \in Tx
      /\ ToSet(s) = {Head(s)} \cup ToSet(Tail(s))
      /\ NoRepeat(s) => NoRepeat(Tail(s)) /\ Head(s) \notin ToSet(Tail(s))
  BY <1>2, HeadAndTail
<1>5. PICK x : x = Head(s)
  OBVIOUS
<1>6. /\ Append(b, x) \in Seq(Tx)
      /\ ToSet(Append(b, x)) = ToSet(b) \cup {x}
      /\ NoRepeat(b) /\ x \notin ToSet(b) => NoRepeat(Append(b, x))
  BY <1>2, <1>4, <1>5, Appended
<1>7. pending' \in [Correct -> Seq(Tx)] /\ buffer' \in [Correct -> Seq(Tx)]
  BY <1>1, <1>4, <1>5, <1>6 DEF Types, SubmitTx
<1>8. \A q \in Correct : q # p => pending'[q] = pending[q] /\ buffer'[q] = buffer[q]
  BY DEF Types, SubmitTx
<1> QED
  BY <1>1, <1>3, <1>4, <1>5, <1>6, <1>7, <1>8

LEMMA SubmitTxInv ==
  ASSUME ConstantsAssumption, IInv, NEW p \in Correct, SubmitTx(p)
  PROVE  IInv'
<1> USE DEF IInv
<1>0. UNCHANGED <<pc, round, batch, proposed, subset, shares, received, blocks>>
  BY DEF SubmitTx
<1>1. Types'
  BY <1>0, Moved DEF Types
<1>2. Course'
  BY <1>0 DEF Course
<1>3. Fixed'
  BY <1>0 DEF Fixed
<1>4. Delivered'
  BY <1>0 DEF Delivered, Block
<1>5. Somewhere'
  <2> SUFFICES ASSUME NEW q \in Correct, pc'[q] \in {"start", "acs", "shares", "done"}
               PROVE  ToSet(Submitted[q]) \subseteq ToSet(pending'[q]) \cup ToSet(buffer'[q])
                                                       \cup ToSet(batch'[q]) \cup UNION ToSet(blocks'[q])
    BY DEF Somewhere
  <2>1. ToSet(Submitted[q]) \subseteq ToSet(pending[q]) \cup ToSet(buffer[q])
                                        \cup ToSet(batch[q]) \cup UNION ToSet(blocks[q])
    BY <1>0 DEF Somewhere
  <2>2. ToSet(pending[q]) \cup ToSet(buffer[q]) \subseteq ToSet(pending'[q]) \cup ToSet(buffer'[q])
    <3>1. CASE q = p
      BY <3>1, Moved
    <3>2. CASE q # p
      BY <3>2, Moved
    <3> QED
      BY <3>1, <3>2
  <2> QED
    BY <1>0, <2>1, <2>2
<1> QED
  BY <1>1, <1>2, <1>3, <1>4, <1>5

\* popleft, B times.
LEMMA Taken ==
  ASSUME ConstantsAssumption, Types, NEW p \in Correct, StartRound(p), ~(Len(buffer[p]) < B)
  PROVE  /\ buffer' \in [Correct -> Seq(Tx)] /\ batch' \in [Correct -> Seq(Tx)]
         /\ \A q \in Correct : q # p => buffer'[q] = buffer[q] /\ batch'[q] = batch[q]
         /\ ToSet(buffer[p]) = ToSet(batch'[p]) \cup ToSet(buffer'[p])
         /\ NoRepeat(buffer[p]) => /\ NoRepeat(batch'[p]) /\ NoRepeat(buffer'[p])
                                   /\ Disjoint(batch'[p], buffer'[p])
<1>1. PICK b : b = buffer[p]
  OBVIOUS
<1>2. b \in Seq(Tx) /\ B \in Nat /\ Len(b) \in Nat /\ B <= Len(b)
  <2>1. b \in Seq(Tx) /\ B \in Nat
    BY <1>1, Constants DEF Types
  <2>2. Len(b) \in Nat
    BY <2>1, LenProperties
  <2> QED
    BY <1>1, <2>1, <2>2
<1>3. PICK front, rest : front = SubSeq(b, 1, B) /\ rest = SubSeq(b, B + 1, Len(b))
  OBVIOUS
<1>4. /\ front \in Seq(Tx) /\ rest \in Seq(Tx) /\ ToSet(b) = ToSet(front) \cup ToSet(rest)
      /\ NoRepeat(b) => NoRepeat(front) /\ NoRepeat(rest) /\ Disjoint(front, rest)
  BY <1>2, <1>3, Cut
<1>5. batch' = [batch EXCEPT ![p] = front] /\ buffer' = [buffer EXCEPT ![p] = rest]
  BY <1>1, <1>3 DEF StartRound, Types
<1>6. buffer' \in [Correct -> Seq(Tx)] /\ batch' \in [Correct -> Seq(Tx)]
  BY <1>4, <1>5 DEF Types
<1>7. batch'[p] = front /\ buffer'[p] = rest
  BY <1>5 DEF Types
<1>8. \A q \in Correct : q # p => buffer'[q] = buffer[q] /\ batch'[q] = batch[q]
  BY <1>5 DEF Types
<1> QED
  BY <1>1, <1>4, <1>6, <1>7, <1>8

\* What is proposed changes in the current round only, where nothing was.
LEMMA Proposes ==
  ASSUME ConstantsAssumption, IInv, NEW p \in Correct, StartRound(p)
  PROVE  /\ round[p] \in Rounds /\ proposed[round[p]][p] = None
         /\ proposed' \in [Rounds -> [Correct -> (SUBSET Tx) \cup {None}]]
         /\ \A r \in Rounds, q \in Correct :
              (r # round[p] \/ q # p) => proposed'[r][q] = proposed[r][q]
         /\ pc'[p] = "acs" => /\ ~(Len(buffer[p]) < B)
                              /\ proposed'[round[p]][p] = ToSet(batch'[p])
         /\ pc'[p] # "acs" => proposed' = proposed
<1> USE DEF IInv
<1>1. round[p] \in Rounds /\ proposed[round[p]][p] = None
  BY DEF Course, StartRound
<1>2. CASE Len(buffer[p]) < B \/ ~CallMatches
  <2>1. proposed' = proposed /\ pc'[p] # "acs"
    BY <1>2 DEF StartRound, Types
  <2> QED
    BY <1>1, <2>1 DEF Types
<1>3. CASE ~(Len(buffer[p]) < B) /\ CallMatches
  <2>1. PICK X : X = ToSet(batch'[p])
    OBVIOUS
  <2>2. X \in SUBSET Tx
    <3>1. batch'[p] \in Seq(Tx)
      BY <1>3, Taken
    <3> QED
      BY <2>1, <3>1, SetOf
  <2>3. proposed' = [proposed EXCEPT ![round[p]][p] = X] /\ pc'[p] = "acs"
    BY <1>3, <2>1 DEF StartRound, Types
  <2>4. proposed \in [Rounds -> [Correct -> (SUBSET Tx) \cup {None}]]
    BY DEF Types
  <2>5. proposed' \in [Rounds -> [Correct -> (SUBSET Tx) \cup {None}]]
    BY <1>1, <2>2, <2>3, <2>4
  <2>6. proposed'[round[p]][p] = X
    BY <1>1, <2>3, <2>4
  <2>7. ASSUME NEW r \in Rounds, NEW q \in Correct, r # round[p] \/ q # p
        PROVE  proposed'[r][q] = proposed[r][q]
    <3>1. CASE r # round[p]
      BY <2>3, <2>4, <3>1
    <3>2. CASE r = round[p]
      <4>1. proposed'[r] = [proposed[r] EXCEPT ![p] = X]
        BY <1>1, <2>3, <2>4, <3>2
      <4> QED
        BY <2>4, <2>7, <3>2, <4>1
    <3> QED
      BY <3>1, <3>2
  <2> QED
    BY <1>1, <1>3, <2>1, <2>3, <2>5, <2>6, <2>7
<1> QED
  BY <1>2, <1>3

LEMMA StartRoundInv ==
  ASSUME ConstantsAssumption, IInv, NEW p \in Correct, StartRound(p)
  PROVE  IInv'
<1> USE DEF IInv
<1>0. UNCHANGED <<round, pending, subset, shares, received, blocks>> /\ pc[p] = "start"
  BY DEF StartRound
<1>a. /\ pc' \in [Correct -> {"start", "acs", "shares", "done",
                              "IndexError", "TypeError", "AssertionError"}]
      /\ pc'[p] \in {"IndexError", "TypeError", "acs"}
      /\ \A q \in Correct : q # p => pc'[q] = pc[q]
  BY ZenonT(60) DEF StartRound, Types
<1>b. PICK k : k = round[p]
  OBVIOUS
<1>c. /\ k \in Rounds /\ proposed[k][p] = None
      /\ proposed' \in [Rounds -> [Correct -> (SUBSET Tx) \cup {None}]]
      /\ \A r \in Rounds, q \in Correct : (r # k \/ q # p) => proposed'[r][q] = proposed[r][q]
      /\ pc'[p] = "acs" => ~(Len(buffer[p]) < B) /\ proposed'[k][p] = ToSet(batch'[p])
  BY <1>b, Proposes
<1>d. /\ buffer' \in [Correct -> Seq(Tx)] /\ batch' \in [Correct -> Seq(Tx)]
      /\ \A q \in Correct : q # p => buffer'[q] = buffer[q] /\ batch'[q] = batch[q]
      /\ ~(Len(buffer[p]) < B) => ToSet(buffer[p]) = ToSet(batch'[p]) \cup ToSet(buffer'[p])
  <2>1. CASE Len(buffer[p]) < B
    <3>1. buffer' = [buffer EXCEPT ![p] = <<>>] /\ batch' = batch /\ <<>> \in Seq(Tx)
      BY <2>1 DEF StartRound
    <3> QED
      BY <2>1, <3>1 DEF Types
  <2>2. CASE ~(Len(buffer[p]) < B)
    BY <2>2, Taken
  <2> QED
    BY <2>1, <2>2
<1>1. Types'
  BY <1>0, <1>a, <1>c, <1>d DEF Types
<1>2. Course'
  <2> SUFFICES ASSUME NEW q \in Correct
               PROVE  /\ pc'[q] # "done" => round'[q] \in Rounds
                      /\ \A r \in Rounds : r > round'[q] => proposed'[r][q] = None
                      /\ pc'[q] = "start" => proposed'[round'[q]][q] = None
                      /\ pc'[q] \in {"acs", "shares"} => proposed'[round'[q]][q] = ToSet(batch'[q])
                      /\ pc'[q] \in {"start", "done"} => batch'[q] = <<>>
    BY DEF Course
  <2>1. CASE q # p
    <3>1. pc[q] # "done" => round[q] \in Rounds
      BY DEF Course
    <3>2. \A r \in Rounds : proposed'[r][q] = proposed[r][q]
      BY <1>c, <2>1
    <3> QED
      BY <1>0, <1>a, <1>d, <2>1, <3>1, <3>2 DEF Course
  <2>2. CASE q = p
    <3>1. \A r \in Rounds : r > k => proposed[r][p] = None /\ r # k
      BY <1>b, <1>c DEF Course, Rounds
    <3>2. \A r \in Rounds : r > k => proposed'[r][p] = None
      BY <1>c, <3>1
    <3> QED
      BY <1>0, <1>a, <1>b, <1>c, <2>2, <3>2
  <2> QED
    BY <2>1, <2>2
<1>3. \A r \in Rounds, q \in Correct : proposed[r][q] # None => proposed'[r][q] = proposed[r][q]
  BY <1>c
<1>4. Fixed'
  <2>1. \A r \in Rounds : subset'[r] # None =>
          \A q \in subset'[r] \ Faulty : q \in Correct /\ proposed'[r][q] # None
    BY <1>0, <1>3 DEF Fixed
  <2>2. \A q \in Correct : /\ pc'[q] = "shares" => subset'[round'[q]] # None
                           /\ \A r \in Rounds : r < round'[q] => subset'[r] # None
    BY <1>0, <1>a DEF Fixed
  <2> QED
    BY <2>1, <2>2 DEF Fixed
<1>5. Delivered'
  <2> SUFFICES ASSUME NEW q \in Correct
               PROVE  /\ Len(blocks'[q]) = round'[q]
                      /\ \A r \in Rounds : r < round'[q] => blocks'[q][r + 1] = Block(r)'
    BY DEF Delivered
  <2>1. \A r \in Rounds : r < round[q] => Block(r)' = Block(r)
    BY <1>0, <1>3, BlockStays DEF Fixed
  <2> QED
    BY <1>0, <2>1 DEF Delivered
<1>6. Somewhere'
  <2> SUFFICES ASSUME NEW q \in Correct, pc'[q] \in {"start", "acs", "shares", "done"}
               PROVE  ToSet(Submitted[q]) \subseteq ToSet(pending'[q]) \cup ToSet(buffer'[q])
                                                       \cup ToSet(batch'[q]) \cup UNION ToSet(blocks'[q])
    BY DEF Somewhere
  <2>1. pc[q] \in {"start", "acs", "shares", "done"}
    BY <1>0, <1>a
  <2>2. ToSet(Submitted[q]) \subseteq ToSet(pending[q]) \cup ToSet(buffer[q])
                                        \cup ToSet(batch[q]) \cup UNION ToSet(blocks[q])
    BY <2>1 DEF Somewhere
  <2>3. CASE q # p
    BY <1>0, <1>d, <2>2, <2>3
  <2>4. CASE q = p
    <3>1. batch[p] = <<>> /\ ToSet(<<>>) = {}
      BY <1>0, Empty DEF Course
    <3>2. pc'[p] = "acs"
      BY <1>a, <2>4
    <3> QED
      BY <1>0, <1>c, <1>d, <2>2, <2>4, <3>1, <3>2
  <2> QED
    BY <2>3, <2>4
<1> QED
  BY <1>1, <1>2, <1>4, <1>5, <1>6

LEMMA FixSubsetInv ==
  ASSUME ConstantsAssumption, IInv, NEW k \in Rounds, NEW S \in SUBSET Nodes, FixSubset(k, S)
  PROVE  IInv'
<1> USE DEF IInv
<1>0. /\ UNCHANGED <<pc, round, pending, buffer, batch, proposed, shares, received, blocks>>
      /\ subset[k] = None /\ subset'[k] = S /\ \A r \in Rounds : r # k => subset'[r] = subset[r]
      /\ subset' \in [Rounds -> (SUBSET Nodes) \cup {None}]
  BY DEF FixSubset, Types
<1>1. Types'
  BY <1>0 DEF Types
<1>2. Course'
  BY <1>0 DEF Course
<1>3. \A r \in Rounds : subset[r] # None => subset'[r] = subset[r]
  BY <1>0
<1>4. Fixed'
  <2>1. \A q \in S \ Faulty : q \in Correct /\ proposed[k][q] # None
    BY DEF FixSubset, InSubset
  <2>2. \A r \in Rounds : subset'[r] # None =>
          \A q \in subset'[r] \ Faulty : q \in Correct /\ proposed'[r][q] # None
    BY <1>0, <2>1 DEF Fixed
  <2>3. \A q \in Correct : pc[q] = "shares" => round[q] \in Rounds
    BY DEF Course
  <2>4. \A q \in Correct : /\ pc'[q] = "shares" => subset'[round'[q]] # None
                           /\ \A r \in Rounds : r < round'[q] => subset'[r] # None
    BY <1>0, <1>3, <2>3 DEF Fixed
  <2> QED
    BY <2>2, <2>4 DEF Fixed
<1>5. Delivered'
  <2> SUFFICES ASSUME NEW q \in Correct
               PROVE  /\ Len(blocks'[q]) = round'[q]
                      /\ \A r \in Rounds : r < round'[q] => blocks'[q][r + 1] = Block(r)'
    BY DEF Delivered
  <2>1. \A r \in Rounds : r < round[q] => Block(r)' = Block(r)
    BY <1>0, <1>3, BlockStays DEF Fixed
  <2> QED
    BY <1>0, <2>1 DEF Delivered
<1>6. Somewhere'
  BY <1>0 DEF Somewhere
<1> QED
  BY <1>1, <1>2, <1>4, <1>5, <1>6

LEMMA SendSharesInv ==
  ASSUME ConstantsAssumption, IInv, NEW p \in Correct, SendShares(p)
  PROVE  IInv'
<1> USE DEF IInv
<1>0. /\ UNCHANGED <<round, pending, buffer, batch, proposed, subset, received, blocks>>
      /\ pc[p] = "acs" /\ subset[round[p]] # None /\ pc'[p] = "shares"
      /\ \A q \in Correct : q # p => pc'[q] = pc[q]
      /\ pc' \in [Correct -> {"start", "acs", "shares", "done",
                              "IndexError", "TypeError", "AssertionError"}]
  BY DEF SendShares, Types
<1>1. Types'
  <2>1. round[p] \in Rounds
    BY <1>0 DEF Course
  <2>2. shares' \in [Rounds -> SUBSET Correct]
    BY <2>1 DEF Types, SendShares
  <2> QED
    BY <1>0, <2>2 DEF Types
<1>2. Course'
  BY <1>0 DEF Course
<1>3. Fixed'
  BY <1>0 DEF Fixed
<1>4. Delivered'
  BY <1>0 DEF Delivered, Block
<1>5. Somewhere'
  BY <1>0 DEF Somewhere
<1> QED
  BY <1>1, <1>2, <1>3, <1>4, <1>5

\* A node holds the shares of F nodes at most while it waits.
LEMMA Waits ==
  ASSUME ConstantsAssumption, IInv, NEW p \in Correct, NEW q \in Nodes, NEW good \in BOOLEAN,
         ReceiveShares(p, q, good)
  PROVE  /\ received' \in [Correct -> SUBSET (Nodes \X BOOLEAN)]
         /\ \A n \in Correct : Cardinality(received'[n]) <= F
         /\ UNCHANGED <<pending, proposed, subset, shares>>
         /\ pc[p] = "shares"
         /\ \/ UNCHANGED <<pc, round, buffer, batch, blocks>>
            \/ Decrypt(p, TRUE) \/ Decrypt(p, FALSE)
<1> USE DEF IInv
<1> DEFINE now == received[p] \cup {<<q, good>>}
<1>1. received[p] \in SUBSET (Nodes \X BOOLEAN) /\ now \in SUBSET (Nodes \X BOOLEAN)
  BY DEF Types
<1>2. F \in Nat /\ Cardinality({}) = 0
  BY Constants, FS_EmptySet
<1>3. IsFiniteSet(now) /\ Cardinality(now) \in Nat
  <2>1. IsFiniteSet(Nodes) /\ IsFiniteSet(BOOLEAN)
    <3>1. BOOLEAN = {TRUE} \cup {FALSE}
      OBVIOUS
    <3>2. IsFiniteSet({TRUE}) /\ IsFiniteSet({FALSE})
      BY FS_Singleton
    <3>3. IsFiniteSet({TRUE} \cup {FALSE})
      BY <3>2, FS_Union
    <3> QED
      BY <3>1, <3>3, Constants
  <2>2. IsFiniteSet(Nodes \X BOOLEAN)
    BY <2>1, FS_Product
  <2> QED
    BY <1>1, <2>2, FS_Subset, FS_CardinalityType
<1>4. UNCHANGED <<pending, proposed, subset, shares>> /\ pc[p] = "shares"
  BY DEF ReceiveShares
<1>5. CASE Cardinality(now) < Needed
  <2>1. Cardinality(now) <= F
    BY <1>2, <1>3, <1>5 DEF Needed
  <2>2. received' = [received EXCEPT ![p] = now] /\ UNCHANGED <<pc, round, buffer, batch, blocks>>
    BY <1>5 DEF ReceiveShares
  <2> HIDE DEF now
  <2>3. /\ received' \in [Correct -> SUBSET (Nodes \X BOOLEAN)]
        /\ \A n \in Correct : Cardinality(received'[n]) <= F
    BY <1>1, <2>1, <2>2 DEF Types
  <2> QED
    BY <1>4, <2>2, <2>3
<1>6. CASE ~(Cardinality(now) < Needed)
  <2>1. received' = [received EXCEPT ![p] = {}] /\ Decrypt(p, \A x \in now : x[2])
    BY <1>6 DEF ReceiveShares
  <2>2. /\ received' \in [Correct -> SUBSET (Nodes \X BOOLEAN)]
        /\ \A n \in Correct : Cardinality(received'[n]) <= F
    BY <1>2, <2>1, SMTT(30) DEF Types
  <2>3. Decrypt(p, TRUE) \/ Decrypt(p, FALSE)
    BY <2>1 DEF Decrypt
  <2> QED
    BY <1>4, <2>2, <2>3
<1> QED
  BY <1>5, <1>6

\* The block is delivered, and what it does not hold goes back.
LEMMA Delivers ==
  ASSUME ConstantsAssumption, IInv, NEW p \in Correct, pc[p] = "shares", Decrypt(p, TRUE)
  PROVE  /\ round[p] \in Rounds /\ subset[round[p]] # None /\ Block(round[p]) \in SUBSET Tx
         /\ proposed[round[p]][p] = ToSet(batch[p])
         /\ blocks' = [blocks EXCEPT ![p] = Append(@, Block(round[p]))]
         /\ buffer' \in [Correct -> Seq(Tx)]
         /\ ToSet(buffer'[p]) = ToSet(buffer[p]) \cup (ToSet(batch[p]) \ Block(round[p]))
         /\ NoRepeat(batch[p]) /\ NoRepeat(buffer[p]) /\ Disjoint(buffer[p], batch[p])
              => NoRepeat(buffer'[p])
         /\ batch' = [batch EXCEPT ![p] = <<>>]
         /\ round' = [round EXCEPT ![p] = round[p] + 1]
         /\ \A q \in Correct : q # p => buffer'[q] = buffer[q] /\ pc'[q] = pc[q]
         /\ pc' \in [Correct -> {"start", "acs", "shares", "done",
                                 "IndexError", "TypeError", "AssertionError"}]
         /\ pc'[p] = IF round[p] + 1 >= RoundsToRun THEN "done" ELSE "start"
<1> USE DEF IInv
<1>1. /\ round[p] \in Rounds /\ subset[round[p]] # None
      /\ proposed[round[p]][p] = ToSet(batch[p])
  BY DEF Course, Fixed
<1>2. Block(round[p]) \in SUBSET Tx
  BY <1>1, BlockOfTx
<1>3. PICK X : X = Block(round[p])
  OBVIOUS
<1>4. /\ blocks' = [blocks EXCEPT ![p] = Append(@, X)]
      /\ buffer' = [buffer EXCEPT ![p] = PutBack(p, X)]
      /\ batch' = [batch EXCEPT ![p] = <<>>]
      /\ round' = [round EXCEPT ![p] = round[p] + 1]
      /\ pc' = [pc EXCEPT ![p] = IF round[p] + 1 >= RoundsToRun THEN "done" ELSE "start"]
  BY <1>3 DEF Decrypt
<1>5. batch[p] \in Seq(Tx) /\ buffer[p] \in Seq(Tx)
  BY DEF Types
<1>6. /\ PutBack(p, X) \in Seq(Tx)
      /\ ToSet(PutBack(p, X)) = ToSet(buffer[p]) \cup (ToSet(batch[p]) \ X)
      /\ NoRepeat(batch[p]) /\ NoRepeat(buffer[p]) /\ Disjoint(buffer[p], batch[p])
           => NoRepeat(PutBack(p, X))
  BY <1>5, PutsBack
<1>7. buffer' \in [Correct -> Seq(Tx)] /\ buffer'[p] = PutBack(p, X)
  BY <1>4, <1>6 DEF Types
<1>8. pc' \in [Correct -> {"start", "acs", "shares", "done",
                           "IndexError", "TypeError", "AssertionError"}]
      /\ pc'[p] = IF round[p] + 1 >= RoundsToRun THEN "done" ELSE "start"
  BY <1>4 DEF Types
<1>9. \A q \in Correct : q # p => buffer'[q] = buffer[q] /\ pc'[q] = pc[q]
  BY <1>4 DEF Types
<1> QED
  BY <1>1, <1>2, <1>3, <1>4, <1>6, <1>7, <1>8, <1>9

LEMMA DeliverInv ==
  ASSUME ConstantsAssumption, IInv, NEW p \in Correct, pc[p] = "shares", Decrypt(p, TRUE),
         UNCHANGED <<pending, proposed, subset, shares>>,
         received' \in [Correct -> SUBSET (Nodes \X BOOLEAN)],
         \A n \in Correct : Cardinality(received'[n]) <= F
  PROVE  IInv'
<1> USE DEF IInv
<1>b. PICK k : k = round[p]
  OBVIOUS
<1>c. PICK X : X = Block(k)
  OBVIOUS
<1>d. RoundsToRun \in Nat \ {0} /\ Rounds = 0 .. RoundsToRun - 1
  BY Constants
<1>0. /\ k \in Rounds /\ subset[k] # None /\ X \in SUBSET Tx
      /\ blocks' = [blocks EXCEPT ![p] = Append(@, X)]
      /\ buffer' \in [Correct -> Seq(Tx)]
      /\ ToSet(buffer'[p]) = ToSet(buffer[p]) \cup (ToSet(batch[p]) \ X)
      /\ batch' = [batch EXCEPT ![p] = <<>>]
      /\ round' = [round EXCEPT ![p] = k + 1]
      /\ \A q \in Correct : q # p => buffer'[q] = buffer[q] /\ pc'[q] = pc[q]
      /\ pc' \in [Correct -> {"start", "acs", "shares", "done",
                              "IndexError", "TypeError", "AssertionError"}]
      /\ pc'[p] = IF k + 1 >= RoundsToRun THEN "done" ELSE "start"
  BY <1>b, <1>c, Delivers
<1>1. /\ round' \in [Correct -> 0 .. RoundsToRun] /\ round'[p] = k + 1
      /\ \A q \in Correct : q # p => round'[q] = round[q]
  <2>1. k + 1 \in 0 .. RoundsToRun
    BY <1>0, <1>d
  <2> QED
    BY <1>0, <2>1 DEF Types
<1>2. /\ batch' \in [Correct -> Seq(Tx)] /\ batch'[p] = <<>>
      /\ \A q \in Correct : q # p => batch'[q] = batch[q]
  <2>1. <<>> \in Seq(Tx)
    OBVIOUS
  <2> QED
    BY <1>0, <2>1 DEF Types
<1>3. PICK b : b = blocks[p]
  OBVIOUS
<1>4. /\ b \in Seq(SUBSET Tx) /\ Append(b, X) \in Seq(SUBSET Tx) /\ Len(Append(b, X)) = Len(b) + 1
      /\ \A i \in 1 .. Len(b) : Append(b, X)[i] = b[i]
      /\ Append(b, X)[Len(b) + 1] = X
      /\ ToSet(Append(b, X)) = ToSet(b) \cup {X}
  <2>1. PICK T : T = SUBSET Tx
    OBVIOUS
  <2>2. b \in Seq(T) /\ X \in T
    BY <1>0, <1>3, <2>1 DEF Types
  <2>3. /\ Append(b, X) \in Seq(T) /\ Len(Append(b, X)) = Len(b) + 1
        /\ \A i \in 1 .. Len(b) : Append(b, X)[i] = b[i]
        /\ Append(b, X)[Len(b) + 1] = X
        /\ ToSet(Append(b, X)) = ToSet(b) \cup {X}
    BY <2>2, Appended
  <2> QED
    BY <2>1, <2>2, <2>3
<1>5. /\ blocks' \in [Correct -> Seq(SUBSET Tx)] /\ blocks'[p] = Append(b, X)
      /\ \A q \in Correct : q # p => blocks'[q] = blocks[q]
  BY <1>0, <1>3, <1>4 DEF Types
<1>6. Types'
  BY <1>0, <1>1, <1>2, <1>5 DEF Types
<1>7. Course'
  <2> SUFFICES ASSUME NEW q \in Correct
               PROVE  /\ pc'[q] # "done" => round'[q] \in Rounds
                      /\ \A r \in Rounds : r > round'[q] => proposed'[r][q] = None
                      /\ pc'[q] = "start" => proposed'[round'[q]][q] = None
                      /\ pc'[q] \in {"acs", "shares"} => proposed'[round'[q]][q] = ToSet(batch'[q])
                      /\ pc'[q] \in {"start", "done"} => batch'[q] = <<>>
    BY DEF Course
  <2>1. CASE q # p
    BY <1>0, <1>1, <1>2, <2>1, ZenonT(60) DEF Course
  <2>2. CASE q = p
    <3>1. \A r \in Rounds : r > k => proposed[r][p] = None
      BY <1>b DEF Course
    <3>2. \A r \in Rounds : r > k + 1 => r > k
      BY <1>0, <1>d
    <3>3. CASE k + 1 >= RoundsToRun
      <4>1. pc'[p] = "done"
        BY <1>0, <3>3
      <4> QED
        BY <1>1, <1>2, <2>2, <3>1, <3>2, <4>1
    <3>4. CASE ~(k + 1 >= RoundsToRun)
      <4>1. pc'[p] = "start" /\ k + 1 \in Rounds /\ k + 1 > k
        BY <1>0, <1>d, <3>4
      <4> QED
        BY <1>1, <1>2, <2>2, <3>1, <3>2, <4>1
    <3> QED
      BY <3>3, <3>4
  <2> QED
    BY <2>1, <2>2
<1>8. Fixed'
  <2>1. \A r \in Rounds : subset'[r] # None =>
          \A q \in subset'[r] \ Faulty : q \in Correct /\ proposed'[r][q] # None
    BY DEF Fixed
  <2>2. ASSUME NEW q \in Correct
        PROVE  /\ pc'[q] = "shares" => subset'[round'[q]] # None
               /\ \A r \in Rounds : r < round'[q] => subset'[r] # None
    <3>1. CASE q # p
      BY <1>0, <1>1, <3>1 DEF Fixed
    <3>2. CASE q = p
      <4>1. pc'[p] # "shares"
        BY <1>0
      <4>2. \A r \in Rounds : r < k + 1 => r < k \/ r = k
        BY <1>0, <1>d
      <4>3. \A r \in Rounds : r < k => subset[r] # None
        BY <1>b DEF Fixed
      <4> QED
        BY <1>0, <1>1, <3>2, <4>1, <4>2, <4>3
    <3> QED
      BY <3>1, <3>2
  <2> QED
    BY <2>1, <2>2 DEF Fixed
<1>9. Delivered'
  <2> SUFFICES ASSUME NEW q \in Correct
               PROVE  /\ Len(blocks'[q]) = round'[q]
                      /\ \A r \in Rounds : r < round'[q] => blocks'[q][r + 1] = Block(r)'
    BY DEF Delivered
  <2>1. \A r \in Rounds : Block(r)' = Block(r)
    BY DEF Block
  <2>2. CASE q # p
    BY <1>1, <1>5, <2>1, <2>2 DEF Delivered
  <2>3. CASE q = p
    <3>1. Len(b) = k /\ \A r \in Rounds : r < k => b[r + 1] = Block(r)
      BY <1>b, <1>3 DEF Delivered
    <3>2. \A r \in Rounds : r < k => r + 1 \in 1 .. k
      BY <1>0, <1>d
    <3>3. \A r \in Rounds : r < k + 1 => r < k \/ r = k
      BY <1>0, <1>d
    <3>4. \A r \in Rounds : r < k => Append(b, X)[r + 1] = Block(r)
      BY <1>4, <3>1, <3>2
    <3> QED
      BY <1>c, <1>1, <1>4, <1>5, <2>1, <2>3, <3>1, <3>3, <3>4, ZenonT(60)
  <2> QED
    BY <2>2, <2>3
<1>10. Somewhere'
  <2> SUFFICES ASSUME NEW q \in Correct, pc'[q] \in {"start", "acs", "shares", "done"}
               PROVE  ToSet(Submitted[q]) \subseteq ToSet(pending'[q]) \cup ToSet(buffer'[q])
                                                       \cup ToSet(batch'[q]) \cup UNION ToSet(blocks'[q])
    BY DEF Somewhere
  <2>1. pc[q] \in {"start", "acs", "shares", "done"}
    BY <1>0
  <2>2. ToSet(Submitted[q]) \subseteq ToSet(pending[q]) \cup ToSet(buffer[q])
                                        \cup ToSet(batch[q]) \cup UNION ToSet(blocks[q])
    BY <2>1 DEF Somewhere
  <2>3. CASE q # p
    BY <1>0, <1>2, <1>5, <2>2, <2>3
  <2>4. CASE q = p
    <3>1. UNION ToSet(blocks'[p]) = (UNION ToSet(b)) \cup X
      BY <1>4, <1>5
    <3> QED
      BY <1>0, <1>3, <2>2, <2>4, <3>1
  <2> QED
    BY <2>3, <2>4
<1> QED
  BY <1>6, <1>7, <1>8, <1>9, <1>10

LEMMA ReceiveSharesInv ==
  ASSUME ConstantsAssumption, IInv, NEW p \in Correct, NEW q \in Nodes, NEW good \in BOOLEAN,
         ReceiveShares(p, q, good)
  PROVE  IInv'
<1>1. /\ received' \in [Correct -> SUBSET (Nodes \X BOOLEAN)]
      /\ \A n \in Correct : Cardinality(received'[n]) <= F
      /\ UNCHANGED <<pending, proposed, subset, shares>> /\ pc[p] = "shares"
  BY Waits
<1>2. CASE UNCHANGED <<pc, round, buffer, batch, blocks>>
  <2> USE DEF IInv
  <2>1. Types'
    BY <1>1, <1>2 DEF Types
  <2>2. Course'
    BY <1>1, <1>2 DEF Course
  <2>3. Fixed'
    BY <1>1, <1>2 DEF Fixed
  <2>4. Delivered'
    BY <1>1, <1>2 DEF Delivered, Block
  <2>5. Somewhere'
    BY <1>1, <1>2 DEF Somewhere
  <2> QED
    BY <2>1, <2>2, <2>3, <2>4, <2>5
<1>3. CASE Decrypt(p, TRUE)
  BY <1>1, <1>3, DeliverInv
<1>4. CASE Decrypt(p, FALSE)
  <2> USE DEF IInv
  <2>1. /\ UNCHANGED <<round, buffer, batch, blocks>>
        /\ pc' \in [Correct -> {"start", "acs", "shares", "done",
                                "IndexError", "TypeError", "AssertionError"}]
        /\ pc'[p] = "AssertionError" /\ \A n \in Correct : n # p => pc'[n] = pc[n]
    BY <1>4 DEF Decrypt, Types
  <2>2. Types'
    BY <1>1, <2>1 DEF Types
  <2>3. Course'
    BY <1>1, <2>1 DEF Course
  <2>4. Fixed'
    BY <1>1, <2>1 DEF Fixed
  <2>5. Delivered'
    BY <1>1, <2>1 DEF Delivered, Block
  <2>6. Somewhere'
    BY <1>1, <2>1 DEF Somewhere
  <2> QED
    BY <2>2, <2>3, <2>4, <2>5, <2>6
<1> QED
  BY <1>2, <1>3, <1>4, Waits

LEMMA NextInv ==
  ASSUME ConstantsAssumption, IInv, [Next]_vars
  PROVE  IInv'
<1>1. CASE Next
  <2>1. CASE \E p \in Correct : SubmitTx(p)
    BY <2>1, SubmitTxInv
  <2>2. CASE \E p \in Correct : StartRound(p)
    BY <2>2, StartRoundInv
  <2>3. CASE \E p \in Correct : SendShares(p)
    BY <2>3, SendSharesInv
  <2>4. CASE \E p \in Correct : \E q \in Nodes, good \in BOOLEAN : ReceiveShares(p, q, good)
    BY <2>4, ReceiveSharesInv
  <2>5. CASE \E r \in Rounds, S \in SUBSET Nodes : FixSubset(r, S)
    BY <2>5, FixSubsetInv
  <2> QED
    BY <1>1, <2>1, <2>2, <2>3, <2>4, <2>5 DEF Next
<1>2. CASE UNCHANGED vars
  <2> USE <1>2 DEF vars, IInv
  <2>1. Types'
    BY DEF Types
  <2>2. Course'
    BY DEF Course
  <2>3. Fixed'
    BY DEF Fixed
  <2>4. Delivered'
    BY DEF Delivered, Block
  <2>5. Somewhere'
    BY DEF Somewhere
  <2> QED
    BY <2>1, <2>2, <2>3, <2>4, <2>5
<1> QED
  BY <1>1, <1>2

-----------------------------------------------------------------------------
(* Once *)

LEMMA InitOnce ==
  ASSUME ConstantsAssumption, Apart, Init
  PROVE  Once
<1> SUFFICES ASSUME NEW p \in Correct PROVE OnePlace(p) /\ NotAgain(p)
  BY DEF Once
<1>1. pending[p] = Submitted[p] /\ buffer[p] = <<>> /\ batch[p] = <<>>
  BY DEF Init
<1>2. NoRepeat(Submitted[p])
  BY DEF Apart
<1>3. OnePlace(p)
  BY <1>1, <1>2, Empty DEF OnePlace, Held, Disjoint
<1>4. NotAgain(p)
  BY DEF Init, NotAgain
<1> QED
  BY <1>3, <1>4

\* A step that leaves what p has and what it proposed alone.
LEMMA OnceStays ==
  ASSUME Once, NEW p \in Correct, subset' = subset, round'[p] = round[p],
         pending'[p] = pending[p], buffer'[p] = buffer[p], batch'[p] = batch[p],
         \A r \in Rounds : proposed'[r][p] = proposed[r][p]
  PROVE  OnePlace(p)' /\ NotAgain(p)'
<1>1. OnePlace(p) /\ NotAgain(p)
  BY DEF Once
<1>2. Held(p)' = Held(p)
  BY DEF Held
<1>3. OnePlace(p)'
  BY <1>1, <1>2 DEF OnePlace
<1>4. NotAgain(p)'
  BY <1>1, <1>2 DEF NotAgain
<1> QED
  BY <1>3, <1>4

\* A step that moves what p has from one place to another.
LEMMA NotAgainStays ==
  ASSUME Once, NEW p \in Correct, subset' = subset, round' = round,
         Held(p)' \subseteq Held(p), proposed' = proposed
  PROVE  NotAgain(p)'
  BY DEF Once, NotAgain

LEMMA SubmitTxOnce ==
  ASSUME ConstantsAssumption, IInv, Once, NEW p \in Correct, SubmitTx(p)
  PROVE  Once'
<1>0. UNCHANGED <<pc, round, batch, proposed, subset, shares, received, blocks>>
  BY DEF SubmitTx
<1> SUFFICES ASSUME NEW n \in Correct PROVE OnePlace(n)' /\ NotAgain(n)'
  BY DEF Once
<1>1. CASE n # p
  <2>1. pending'[n] = pending[n] /\ buffer'[n] = buffer[n]
    BY <1>1, Moved DEF IInv
  <2> QED
    BY <1>0, <2>1, OnceStays
<1>2. CASE n = p
  <2>1. PICK x \in Tx :
          /\ ToSet(pending[p]) = {x} \cup ToSet(pending'[p])
          /\ ToSet(buffer'[p]) = ToSet(buffer[p]) \cup {x}
          /\ NoRepeat(pending[p]) => NoRepeat(pending'[p]) /\ x \notin ToSet(pending'[p])
          /\ NoRepeat(buffer[p]) /\ x \notin ToSet(buffer[p]) => NoRepeat(buffer'[p])
    BY Moved DEF IInv
  <2>2. OnePlace(p)
    BY DEF Once
  <2>3. Held(p)' = Held(p)
    BY <1>0, <2>1 DEF Held
  <2>4. NoRepeat(pending'[p]) /\ x \notin ToSet(pending'[p])
    BY <2>1, <2>2 DEF OnePlace
  <2>5. NoRepeat(buffer'[p])
    BY <2>1, <2>2 DEF OnePlace, Disjoint
  <2>6. /\ Disjoint(pending'[p], buffer'[p]) /\ Disjoint(pending'[p], batch[p])
        /\ Disjoint(buffer'[p], batch[p])
    BY <2>1, <2>2, <2>4 DEF OnePlace, Disjoint
  <2>7. OnePlace(p)'
    BY <1>0, <2>2, <2>3, <2>4, <2>5, <2>6 DEF OnePlace
  <2>8. NotAgain(p)'
    BY <1>0, <2>3, NotAgainStays
  <2> QED
    BY <1>2, <2>7, <2>8
<1> QED
  BY <1>1, <1>2

LEMMA StartRoundOnce ==
  ASSUME ConstantsAssumption, IInv, Once, NEW p \in Correct, StartRound(p)
  PROVE  Once'
<1>0. UNCHANGED <<round, pending, subset, shares, received, blocks>> /\ pc[p] = "start"
  BY DEF StartRound
<1>b. PICK k : k = round[p]
  OBVIOUS
<1>c. /\ k \in Rounds /\ proposed[k][p] = None
      /\ \A r \in Rounds, q \in Correct : (r # k \/ q # p) => proposed'[r][q] = proposed[r][q]
      /\ pc'[p] = "acs" => ~(Len(buffer[p]) < B) /\ proposed'[k][p] = ToSet(batch'[p])
      /\ pc'[p] # "acs" => proposed' = proposed
  BY <1>b, Proposes
<1> SUFFICES ASSUME NEW n \in Correct PROVE OnePlace(n)' /\ NotAgain(n)'
  BY DEF Once
<1>1. CASE n # p
  <2>1. buffer'[n] = buffer[n] /\ batch'[n] = batch[n]
    <3>1. CASE Len(buffer[p]) < B
      BY <1>1, <3>1 DEF StartRound, IInv, Types
    <3>2. CASE ~(Len(buffer[p]) < B)
      BY <1>1, <3>2, Taken DEF IInv
    <3> QED
      BY <3>1, <3>2
  <2>2. \A r \in Rounds : proposed'[r][n] = proposed[r][n]
    BY <1>1, <1>c
  <2> QED
    BY <1>0, <2>1, <2>2, OnceStays
<1>2. CASE n = p
  <2>1. OnePlace(p) /\ NotAgain(p) /\ batch[p] = <<>> /\ ToSet(<<>>) = {} /\ NoRepeat(<<>>)
    BY <1>0, Empty DEF Once, IInv, Course
  <2>2. /\ ToSet(batch'[p]) \cup ToSet(buffer'[p]) \subseteq ToSet(buffer[p])
        /\ NoRepeat(batch'[p]) /\ NoRepeat(buffer'[p]) /\ Disjoint(batch'[p], buffer'[p])
    <3>1. CASE Len(buffer[p]) < B
      <4>1. buffer'[p] = <<>> /\ batch'[p] = <<>>
        BY <2>1, <3>1 DEF StartRound, IInv, Types
      <4> QED
        BY <2>1, <4>1 DEF Disjoint
    <3>2. CASE ~(Len(buffer[p]) < B)
      <4>1. NoRepeat(buffer[p])
        BY <2>1 DEF OnePlace
      <4> QED
        BY <3>2, <4>1, Taken DEF IInv
    <3> QED
      BY <3>1, <3>2
  <2>3. Held(p)' \subseteq Held(p)
    BY <1>0, <2>2 DEF Held
  <2>4. OnePlace(p)'
    BY <1>0, <2>1, <2>2, <2>3 DEF OnePlace, Disjoint
  <2>5. CASE pc'[p] # "acs"
    BY <1>0, <1>2, <1>c, <2>3, <2>4, <2>5, NotAgainStays
  <2>6. CASE pc'[p] = "acs"
    <3>1. proposed'[k][p] \subseteq ToSet(buffer[p])
      BY <1>c, <2>2, <2>6
    <3>2. proposed'[k][p] \subseteq Held(p) /\ Held(p) \subseteq ToSet(Submitted[p])
      BY <2>1, <3>1 DEF Held, OnePlace
    <3>3. \A s \in Rounds : s > k => proposed'[s][p] = None
      <4>1. \A s \in Rounds : s > k => proposed[s][p] = None /\ s # k
        BY <1>b, <1>c DEF IInv, Course, Rounds
      <4> QED
        BY <1>c, <4>1
    <3>4. subset[k] # None => p \notin subset[k]
      <4>1. p \notin Faulty
        BY DEF Correct
      <4> QED
        BY <1>c, <4>1 DEF IInv, Fixed
    <3> SUFFICES ASSUME NEW r \in Rounds, proposed'[r][p] # None
                 PROVE  /\ proposed'[r][p] \subseteq ToSet(Submitted[p])
                        /\ subset'[r] # None /\ p \in subset'[r] =>
                             /\ r < round'[p] => proposed'[r][p] \cap Held(p)' = {}
                             /\ \A s \in Rounds : r < s /\ proposed'[s][p] # None =>
                                  proposed'[r][p] \cap proposed'[s][p] = {}
      BY <1>2, <2>4 DEF NotAgain
    <3>5. CASE r = k
      BY <1>0, <3>2, <3>4, <3>5
    <3>6. CASE r # k
      <4>1. proposed'[r][p] = proposed[r][p] /\ r < k
        BY <1>c, <3>3, <3>6 DEF Rounds
      <4>2. proposed[r][p] \subseteq ToSet(Submitted[p])
        BY <2>1, <4>1 DEF NotAgain
      <4>3. ASSUME subset[r] # None, p \in subset[r]
            PROVE  proposed[r][p] \cap Held(p) = {}
        BY <1>b, <2>1, <4>1, <4>3 DEF NotAgain
      <4>4. ASSUME subset[r] # None, p \in subset[r],
                   NEW s \in Rounds, r < s, proposed'[s][p] # None
            PROVE  proposed[r][p] \cap proposed'[s][p] = {}
        <5>1. CASE s = k
          BY <3>2, <4>3, <4>4, <5>1
        <5>2. CASE s # k
          <6>1. proposed'[s][p] = proposed[s][p]
            BY <1>c, <5>2
          <6> QED
            BY <2>1, <4>1, <4>4, <6>1 DEF NotAgain
        <5> QED
          BY <5>1, <5>2
      <4> QED
        BY <1>0, <2>3, <4>1, <4>2, <4>3, <4>4
    <3> QED
      BY <3>5, <3>6
  <2> QED
    BY <1>2, <2>4, <2>5, <2>6
<1> QED
  BY <1>1, <1>2

LEMMA FixSubsetOnce ==
  ASSUME ConstantsAssumption, IInv, Once, NEW k \in Rounds, NEW S \in SUBSET Nodes, FixSubset(k, S)
  PROVE  Once'
<1>0. /\ UNCHANGED <<pc, round, pending, buffer, batch, proposed, shares, received, blocks>>
      /\ subset[k] = None /\ \A r \in Rounds : r # k => subset'[r] = subset[r]
  BY DEF FixSubset, IInv, Types
<1> SUFFICES ASSUME NEW p \in Correct PROVE OnePlace(p)' /\ NotAgain(p)'
  BY DEF Once
<1>1. OnePlace(p) /\ NotAgain(p) /\ Held(p)' = Held(p)
  BY <1>0 DEF Once, Held
<1>2. OnePlace(p)'
  BY <1>0, <1>1 DEF OnePlace
<1>3. NotAgain(p)'
  <2> SUFFICES ASSUME NEW r \in Rounds, proposed[r][p] # None
               PROVE  /\ proposed[r][p] \subseteq ToSet(Submitted[p])
                      /\ subset'[r] # None /\ p \in subset'[r] =>
                           /\ r < round[p] => proposed[r][p] \cap Held(p) = {}
                           /\ \A s \in Rounds : r < s /\ proposed[s][p] # None =>
                                proposed[r][p] \cap proposed[s][p] = {}
    BY <1>0, <1>1 DEF NotAgain
  <2>1. CASE r # k
    BY <1>0, <1>1, <2>1 DEF NotAgain
  <2>2. CASE r = k
    <3>1. ~(k < round[p])
      BY <1>0 DEF IInv, Fixed
    <3>2. \A s \in Rounds : k < s => proposed[s][p] = None
      <4>1. round[p] \in Int /\ k \in Int /\ \A s \in Rounds : s \in Int
        BY Constants DEF IInv, Types
      <4>2. \A s \in Rounds : k < s => s > round[p]
        BY <3>1, <4>1
      <4> QED
        BY <4>2 DEF IInv, Course
    <3>3. proposed[r][p] \subseteq ToSet(Submitted[p])
      BY <1>1 DEF NotAgain
    <3> QED
      BY <2>2, <3>1, <3>2, <3>3
  <2> QED
    BY <2>1, <2>2
<1> QED
  BY <1>2, <1>3

LEMMA DeliverOnce ==
  ASSUME ConstantsAssumption, IInv, Once, NEW p \in Correct, pc[p] = "shares", Decrypt(p, TRUE),
         UNCHANGED <<pending, proposed, subset, shares>>
  PROVE  Once'
<1>b. PICK k : k = round[p]
  OBVIOUS
<1>c. PICK X : X = Block(k)
  OBVIOUS
<1>0. /\ k \in Rounds /\ subset[k] # None
      /\ proposed[k][p] = ToSet(batch[p])
      /\ ToSet(buffer'[p]) = ToSet(buffer[p]) \cup (ToSet(batch[p]) \ X)
      /\ NoRepeat(batch[p]) /\ NoRepeat(buffer[p]) /\ Disjoint(buffer[p], batch[p])
           => NoRepeat(buffer'[p])
      /\ batch' = [batch EXCEPT ![p] = <<>>]
      /\ round' = [round EXCEPT ![p] = k + 1]
      /\ \A q \in Correct : q # p => buffer'[q] = buffer[q] /\ pc'[q] = pc[q]
  BY <1>b, <1>c, Delivers
<1>1. /\ batch'[p] = <<>> /\ round'[p] = k + 1
      /\ \A q \in Correct : q # p => batch'[q] = batch[q] /\ round'[q] = round[q]
  BY <1>0 DEF IInv, Types
<1> SUFFICES ASSUME NEW n \in Correct PROVE OnePlace(n)' /\ NotAgain(n)'
  BY DEF Once
<1>2. CASE n # p
  BY <1>0, <1>1, <1>2, OnceStays
<1>3. CASE n = p
  <2>1. OnePlace(p) /\ NotAgain(p) /\ ToSet(<<>>) = {} /\ NoRepeat(<<>>)
    BY Empty DEF Once
  <2>2. Held(p)' = ToSet(pending[p]) \cup ToSet(buffer[p]) \cup (ToSet(batch[p]) \ X)
    BY <1>0, <1>1, <2>1 DEF Held
  <2>3. Held(p)' \subseteq Held(p)
    BY <2>2 DEF Held
  <2>4. NoRepeat(buffer'[p])
    BY <1>0, <2>1 DEF OnePlace
  <2>5. Disjoint(pending'[p], buffer'[p])
    BY <1>0, <2>1 DEF OnePlace, Disjoint
  <2>6. Disjoint(pending'[p], batch'[p]) /\ Disjoint(buffer'[p], batch'[p]) /\ NoRepeat(batch'[p])
    BY <1>1, <2>1 DEF Disjoint
  <2>7. OnePlace(p)'
    BY <2>1, <2>3, <2>4, <2>5, <2>6 DEF OnePlace
  <2>8. NotAgain(p)'
    <3> SUFFICES ASSUME NEW r \in Rounds, proposed[r][p] # None
                 PROVE  /\ proposed[r][p] \subseteq ToSet(Submitted[p])
                        /\ subset[r] # None /\ p \in subset[r] =>
                             /\ r < k + 1 => proposed[r][p] \cap Held(p)' = {}
                             /\ \A s \in Rounds : r < s /\ proposed[s][p] # None =>
                                  proposed[r][p] \cap proposed[s][p] = {}
      BY <1>1 DEF NotAgain
    <3>1. /\ proposed[r][p] \subseteq ToSet(Submitted[p])
          /\ subset[r] # None /\ p \in subset[r] =>
               /\ r < k => proposed[r][p] \cap Held(p) = {}
               /\ \A s \in Rounds : r < s /\ proposed[s][p] # None =>
                    proposed[r][p] \cap proposed[s][p] = {}
      BY <1>b, <2>1 DEF NotAgain
    <3>2. CASE r # k
      <4>1. r < k + 1 => r < k
        BY <1>0, <3>2, Constants
      <4> QED
        BY <2>3, <3>1, <4>1
    <3>3. CASE r = k
      <4>1. p \in subset[k] => proposed[k][p] \subseteq X
        BY <1>0, <1>c, BlockOfTx DEF IInv
      <4>2. p \in subset[k] => ToSet(batch[p]) \subseteq X
        BY <1>0, <4>1
      <4>3. ToSet(batch[p]) \cap (ToSet(pending[p]) \cup ToSet(buffer[p])) = {}
        BY <2>1 DEF OnePlace, Disjoint
      <4>4. p \in subset[k] => proposed[k][p] \cap Held(p)' = {}
        BY <1>0, <2>2, <4>2, <4>3
      <4> QED
        BY <3>1, <3>3, <4>4
    <3> QED
      BY <3>2, <3>3
  <2> QED
    BY <1>3, <2>7, <2>8
<1> QED
  BY <1>2, <1>3

LEMMA NextOnce ==
  ASSUME ConstantsAssumption, IInv, Once, [Next]_vars
  PROVE  Once'
<1>1. ASSUME UNCHANGED <<round, pending, buffer, batch, proposed, subset>>
      PROVE  Once'
  BY <1>1, OnceStays DEF Once
<1>2. CASE \E p \in Correct : SubmitTx(p)
  BY <1>2, SubmitTxOnce
<1>3. CASE \E p \in Correct : StartRound(p)
  BY <1>3, StartRoundOnce
<1>4. CASE \E p \in Correct : SendShares(p)
  BY <1>1, <1>4 DEF SendShares
<1>5. CASE \E p \in Correct : \E q \in Nodes, good \in BOOLEAN : ReceiveShares(p, q, good)
  <2>1. PICK p \in Correct : \E q \in Nodes, good \in BOOLEAN : ReceiveShares(p, q, good)
    BY <1>5
  <2>2. /\ UNCHANGED <<pending, proposed, subset, shares>> /\ pc[p] = "shares"
        /\ \/ UNCHANGED <<pc, round, buffer, batch, blocks>>
           \/ Decrypt(p, TRUE) \/ Decrypt(p, FALSE)
    BY <2>1, Waits
  <2>3. CASE UNCHANGED <<pc, round, buffer, batch, blocks>>
    BY <1>1, <2>2, <2>3
  <2>4. CASE Decrypt(p, TRUE)
    BY <2>2, <2>4, DeliverOnce
  <2>5. CASE Decrypt(p, FALSE)
    BY <1>1, <2>2, <2>5 DEF Decrypt
  <2> QED
    BY <2>2, <2>3, <2>4, <2>5
<1>6. CASE \E r \in Rounds, S \in SUBSET Nodes : FixSubset(r, S)
  BY <1>6, FixSubsetOnce
<1>7. CASE UNCHANGED vars
  BY <1>1, <1>7 DEF vars
<1> QED
  BY <1>2, <1>3, <1>4, <1>5, <1>6, <1>7 DEF Next

-----------------------------------------------------------------------------
(* What follows *)

LEMMA TypesSuffice ==
  ASSUME ConstantsAssumption, IInv
  PROVE  TypeOK
<1> USE DEF IInv
<1>1. ASSUME NEW p \in Correct
      PROVE  /\ ToSet(pending[p]) \cup ToSet(buffer[p]) \cup ToSet(batch[p]) \subseteq Tx
             /\ received[p] \subseteq Nodes \X BOOLEAN /\ Cardinality(received[p]) <= F
             /\ Len(blocks[p]) = round[p] /\ \A i \in 1 .. round[p] : blocks[p][i] \subseteq Tx
  <2>1. PICK s, b, t : s = pending[p] /\ b = buffer[p] /\ t = batch[p]
    OBVIOUS
  <2>2. s \in Seq(Tx) /\ b \in Seq(Tx) /\ t \in Seq(Tx)
    BY <2>1 DEF Types
  <2>3. ToSet(s) \subseteq Tx /\ ToSet(b) \subseteq Tx /\ ToSet(t) \subseteq Tx
    BY <2>2, SetOf
  <2>4. received[p] \subseteq Nodes \X BOOLEAN /\ Cardinality(received[p]) <= F
    BY DEF Types
  <2>5. blocks[p] \in Seq(SUBSET Tx) /\ Len(blocks[p]) = round[p]
    BY DEF Types, Delivered
  <2>6. \A i \in 1 .. round[p] : blocks[p][i] \in SUBSET Tx
    BY <2>5, ElementOfSeq
  <2> QED
    BY <2>1, <2>3, <2>4, <2>5, <2>6
<1> QED
  BY <1>1 DEF TypeOK, Types

LEMMA BlocksAgree ==
  ASSUME ConstantsAssumption, IInv
  PROVE  SameBlocks
<1>1. ASSUME NEW p \in Correct, NEW q \in Correct, round[p] <= round[q]
      PROVE  IsPrefix(blocks[p], blocks[q])
  <2>1. /\ round[p] \in 0 .. RoundsToRun /\ round[q] \in 0 .. RoundsToRun /\ RoundsToRun \in Nat
        /\ Len(blocks[p]) = round[p] /\ Len(blocks[q]) = round[q]
    BY Constants DEF IInv, Types, Delivered
  <2>2. ASSUME NEW i \in 1 .. round[p] PROVE blocks[p][i] = blocks[q][i]
    <3>1. i - 1 \in Rounds /\ i - 1 < round[p] /\ i - 1 < round[q] /\ (i - 1) + 1 = i
      BY <1>1, <2>1, Constants, SMTT(30)
    <3> QED
      BY <3>1 DEF IInv, Delivered
  <2>3. \A i \in 1 .. round[p] : blocks[p][i + 1 - 1] = blocks[q][i + 1 - 1]
    BY <2>1, <2>2
  <2>4. [i \in 1 .. (round[p] - 1 + 1) |-> blocks[p][i + 1 - 1]]
      = [i \in 1 .. (round[p] - 1 + 1) |-> blocks[q][i + 1 - 1]]
    BY <2>1, <2>3
  <2> QED
    BY <1>1, <2>1, <2>4 DEF IsPrefix
<1>2. \A p, q \in Correct : round[p] <= round[q] \/ round[q] <= round[p]
  BY Constants, SMTT(30) DEF IInv, Types
<1> QED
  BY <1>1, <1>2 DEF SameBlocks

LEMMA NoneLost ==
  ASSUME ConstantsAssumption, IInv
  PROVE  NothingLost
<1> SUFFICES ASSUME NEW p \in Correct, pc[p] \in {"start", "acs", "shares", "done"}
             PROVE  ToSet(Submitted[p]) \subseteq
                      ToSet(pending[p] \o buffer[p] \o batch[p]) \cup UNION ToSet(blocks[p])
  BY DEF NothingLost
<1>1. PICK s, b, t : s = pending[p] /\ b = buffer[p] /\ t = batch[p]
  OBVIOUS
<1>2. s \in Seq(Tx) /\ b \in Seq(Tx) /\ t \in Seq(Tx)
  BY <1>1 DEF IInv, Types
<1>3. PICK u : u = s \o b
  OBVIOUS
<1>4. u \in Seq(Tx) /\ ToSet(u) = ToSet(s) \cup ToSet(b)
  BY <1>2, <1>3, Joined
<1>5. ToSet(u \o t) = ToSet(u) \cup ToSet(t)
  BY <1>2, <1>4, Joined
<1> QED
  BY <1>1, <1>3, <1>4, <1>5 DEF IInv, Somewhere

LEMMA DeliversOnce ==
  ASSUME ConstantsAssumption, Apart, IInv, Once
  PROVE  DeliveredOnce
<1>1. ASSUME NEW r \in Rounds, NEW s \in Rounds, r < s, subset[r] # None, subset[s] # None
      PROVE  Block(r) \cap Block(s) \subseteq FaultyBatch
  <2> SUFFICES ASSUME NEW x \in Block(r), x \in Block(s), x \notin FaultyBatch PROVE FALSE
    OBVIOUS
  <2>1. PICK p \in Correct : p \in subset[r] /\ x \in proposed[r][p] /\ proposed[r][p] # None
    BY <1>1, BlockOfTx DEF IInv
  <2>2. PICK q \in Correct : q \in subset[s] /\ x \in proposed[s][q] /\ proposed[s][q] # None
    BY <1>1, BlockOfTx DEF IInv
  <2>3. CASE p = q
    BY <1>1, <2>1, <2>2, <2>3 DEF Once, NotAgain
  <2>4. CASE p # q
    <3>1. x \in ToSet(Submitted[p]) /\ x \in ToSet(Submitted[q])
      BY <2>1, <2>2 DEF Once, NotAgain
    <3> QED
      BY <2>4, <3>1 DEF Apart, Disjoint
  <2> QED
    BY <2>3, <2>4
<1>2. ASSUME NEW p \in Correct, NEW i \in DOMAIN blocks[p]
      PROVE  i - 1 \in Rounds /\ i \in Int /\ blocks[p][i] = Block(i - 1) /\ subset[i - 1] # None
  <2>1. /\ round[p] \in 0 .. RoundsToRun /\ RoundsToRun \in Nat \ {0} /\ blocks[p] \in Seq(SUBSET Tx)
        /\ Len(blocks[p]) = round[p]
    BY Constants DEF IInv, Types, Delivered
  <2>2. DOMAIN blocks[p] = 1 .. round[p]
    BY <2>1, LenProperties
  <2>3. i - 1 \in Rounds /\ i - 1 < round[p] /\ (i - 1) + 1 = i /\ i \in Int
    BY <1>2, <2>1, <2>2, Constants
  <2> QED
    BY <2>3 DEF IInv, Delivered, Fixed
<1> SUFFICES ASSUME NEW p \in Correct, NEW i \in DOMAIN blocks[p], NEW j \in DOMAIN blocks[p], i # j
             PROVE  blocks[p][i] \cap blocks[p][j] \subseteq FaultyBatch
  BY DEF DeliveredOnce
<1>3. i - 1 < j - 1 \/ j - 1 < i - 1
  BY <1>2
<1> QED
  BY <1>1, <1>2, <1>3

-----------------------------------------------------------------------------
(* The theorems *)

\* The inductive invariant holds of every run.
THEOREM Invariance == ConstantsAssumption => (Spec => []IInv)
<1> SUFFICES ASSUME ConstantsAssumption PROVE Spec => []IInv
  OBVIOUS
<1>1. Init => IInv
  BY InitInv
<1>2. IInv /\ [Next]_vars => IInv'
  BY NextInv
<1> QED
  BY <1>1, <1>2, PTL DEF Spec

\* Every variable has its type; a node waits with the shares of F nodes at most.
THEOREM TypeCorrect == ConstantsAssumption => (Spec => []TypeOK)
<1> SUFFICES ASSUME ConstantsAssumption PROVE Spec => []TypeOK
  OBVIOUS
<1>1. IInv => TypeOK
  BY TypesSuffice
<1> QED
  BY <1>1, Invariance, PTL

\* Two nodes deliver the same blocks in the same order, for any f + 1 nodes'
\* shares each of them takes and however far one is ahead.
THEOREM BlocksAreTheSame == ConstantsAssumption => (Spec => []SameBlocks)
<1> SUFFICES ASSUME ConstantsAssumption PROVE Spec => []SameBlocks
  OBVIOUS
<1>1. IInv => SameBlocks
  BY BlocksAgree
<1> QED
  BY <1>1, Invariance, PTL

\* What was submitted to a node that runs is with the node or in a block it
\* delivered: what appendleft puts back is what did not get in.
THEOREM KeepsAll == ConstantsAssumption => (Spec => []NothingLost)
<1> SUFFICES ASSUME ConstantsAssumption PROVE Spec => []NothingLost
  OBVIOUS
<1>1. IInv => NothingLost
  BY NoneLost
<1> QED
  BY <1>1, Invariance, PTL

\* When no transaction is submitted twice, none but a faulty node's is in two
\* blocks of a node: what got in is not put back and proposed again.
THEOREM NoneAgain == ConstantsAssumption /\ Apart => (Spec => []DeliveredOnce)
<1> SUFFICES ASSUME ConstantsAssumption, Apart PROVE Spec => []DeliveredOnce
  OBVIOUS
<1>1. Init => Once
  BY InitOnce
<1>2. IInv /\ Once /\ [Next]_vars => Once'
  BY NextOnce
<1>3. IInv /\ Once => DeliveredOnce
  BY DeliversOnce
<1> QED
  BY <1>1, <1>2, <1>3, Invariance, PTL DEF Spec
=============================================================================
