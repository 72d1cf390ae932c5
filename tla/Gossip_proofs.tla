---------------------------- MODULE Gossip_proofs ----------------------------
(***************************************************************************)
(* Proofs about the gossip network.  First the links that the constructors *)
(* compute: for every number of nodes and every link_size they are a tree  *)
(* with a way back to its top.  Then the protocol over them: a text is     *)
(* handed over once, announced with a neighbour that has it.               *)
(***************************************************************************)
EXTENDS Gossip, GossipSpread, CountingLemmas, SequenceTheorems

-----------------------------------------------------------------------------
(* The loops of the constructors *)

\* The table of pow(k, 0 .. n) has one entry from the other.
IsPow(f, k, n) == f = [d \in 0 .. n |-> IF d = 0 THEN 1 ELSE k * f[d - 1]]

\* There is such a table.
LEMMA PowExists ==
  ASSUME NEW k, NEW n \in Nat
  PROVE  \E f : IsPow(f, k, n)
<1> DEFINE V == {m \in Nat : \E f : IsPow(f, k, m)}
<1>1. 0 \in V
  <2>1. IsPow([d \in 0 .. 0 |-> 1], k, 0)
    BY DEF IsPow
  <2> QED
    BY <2>1
<1>2. ASSUME NEW m \in V PROVE m + 1 \in V
  <2>1. PICK f : IsPow(f, k, m)
    OBVIOUS
  <2> DEFINE g == [d \in 0 .. m + 1 |-> IF d = m + 1 THEN k * f[m] ELSE f[d]]
  <2>2. \A d \in 0 .. m : g[d] = f[d]
    OBVIOUS
  <2>3. ASSUME NEW d \in 0 .. m + 1 PROVE g[d] = IF d = 0 THEN 1 ELSE k * g[d - 1]
    <3>1. CASE d = m + 1
      <4>1. d # 0 /\ d - 1 = m /\ g[d - 1] = f[m] /\ g[d] = k * f[m]
        BY <3>1, <2>2
      <4> HIDE DEF g
      <4> QED
        BY <3>1, <4>1
    <3>2. CASE d # m + 1
      <4>1. d \in 0 .. m /\ g[d] = f[d] /\ (d # 0 => d - 1 \in 0 .. m /\ g[d - 1] = f[d - 1])
        BY <3>2, <2>2
      <4>2. f[d] = IF d = 0 THEN 1 ELSE k * f[d - 1]
        BY <2>1, <4>1 DEF IsPow
      <4> HIDE DEF g
      <4> QED
        BY <4>1, <4>2
    <3> QED
      BY <3>1, <3>2
  <2>4. IsPow(g, k, m + 1)
    BY <2>3 DEF IsPow
  <2> QED
    BY <2>4
<1> HIDE DEF V
<1>3. V = Nat
  BY <1>1, <1>2, SetInduction DEF V
<1> QED
  BY <1>3 DEF V

\* Two tables agree where both have an entry, and the entries are positive.
LEMMA PowUnique ==
  ASSUME NEW k \in Nat \ {0}, NEW d \in Nat, NEW n \in Nat, NEW m \in Nat, d <= n, d <= m,
         NEW f, NEW g, IsPow(f, k, n), IsPow(g, k, m)
  PROVE  f[d] = g[d] /\ f[d] \in Nat \ {0}
<1> DEFINE Good(e) == e <= d => f[e] = g[e] /\ f[e] \in Nat \ {0}
           V == {e \in Nat : Good(e)}
<1>0. /\ \A e \in 0 .. n : f[e] = IF e = 0 THEN 1 ELSE k * f[e - 1]
      /\ \A e \in 0 .. m : g[e] = IF e = 0 THEN 1 ELSE k * g[e - 1]
  BY DEF IsPow
<1>1. Good(0)
  BY <1>0
<1>2. ASSUME NEW e \in Nat, Good(e) PROVE Good(e + 1)
  <2> SUFFICES ASSUME e + 1 <= d PROVE f[e + 1] = g[e + 1] /\ f[e + 1] \in Nat \ {0}
    OBVIOUS
  <2>1. f[e + 1] = k * f[e] /\ g[e + 1] = k * g[e]
    <3>1. e + 1 \in 0 .. n /\ e + 1 \in 0 .. m /\ e + 1 # 0 /\ (e + 1) - 1 = e
      OBVIOUS
    <3> QED
      BY <1>0, <3>1
  <2>2. f[e] = g[e] /\ f[e] \in Nat \ {0}
    BY <1>2
  <2>3. \A x \in Nat \ {0} : k * x \in Nat \ {0}
    OBVIOUS
  <2> QED
    BY <2>1, <2>2, <2>3
<1> HIDE DEF Good
<1>3. V \in SUBSET Nat /\ 0 \in V /\ \A e \in V : e + 1 \in V
  BY <1>1, <1>2
<1>4. V = Nat
  <2> HIDE DEF V
  <2> QED
    BY <1>3, SetInduction
<1>5. Good(d)
  BY <1>4
<1> QED
  BY <1>5 DEF Good

\* pow(k, e): the equations of the power.
LEMMA PowerSteps ==
  ASSUME NEW k \in Nat \ {0}, NEW e \in Nat
  PROVE  /\ Power(k, 0) = 1
         /\ Power(k, e) \in Nat \ {0}
         /\ Power(k, e + 1) = k * Power(k, e)
<1> DEFINE table(n) == CHOOSE f : IsPow(f, k, n)
<1>1. \A n \in Nat : Power(k, n) = table(n)[n]
  BY DEF Power, IsPow
<1>2. \A n \in Nat : IsPow(table(n), k, n)
  BY PowExists
<1> HIDE DEF table
<1>3. table(0)[0] = 1
  BY <1>2 DEF IsPow
<1>4. table(e + 1)[e + 1] = k * table(e + 1)[e]
  <2>1. e + 1 \in Nat /\ e + 1 \in 0 .. e + 1 /\ e + 1 # 0 /\ (e + 1) - 1 = e
    OBVIOUS
  <2>2. IsPow(table(e + 1), k, e + 1)
    BY <1>2, <2>1
  <2> QED
    BY <2>1, <2>2 DEF IsPow
<1>5. table(e + 1)[e] = table(e)[e] /\ table(e)[e] \in Nat \ {0}
  <2>1. e + 1 \in Nat /\ e <= e /\ e <= e + 1
    OBVIOUS
  <2>2. IsPow(table(e + 1), k, e + 1) /\ IsPow(table(e), k, e)
    BY <1>2, <2>1
  <2> QED
    BY <2>1, <2>2, PowUnique
<1> QED
  BY <1>1, <1>3, <1>4, <1>5

\* The table of the sums of the first powers.
IsSum(f, k, n) ==
  f = [d \in 0 .. n |-> IF d = 0 THEN 0 ELSE f[d - 1] + Power(k, d - 1)]

\* There is such a table.
LEMMA SumExists ==
  ASSUME NEW k, NEW n \in Nat
  PROVE  \E f : IsSum(f, k, n)
<1> DEFINE V == {m \in Nat : \E f : IsSum(f, k, m)}
<1>1. 0 \in V
  <2>1. IsSum([d \in 0 .. 0 |-> 0], k, 0)
    BY DEF IsSum
  <2> QED
    BY <2>1
<1>2. ASSUME NEW m \in V PROVE m + 1 \in V
  <2>1. PICK f : IsSum(f, k, m)
    OBVIOUS
  <2> DEFINE last == f[m] + Power(k, m)
             g == [d \in 0 .. m + 1 |-> IF d = m + 1 THEN last ELSE f[d]]
  <2>2. \A d \in 0 .. m : g[d] = f[d]
    OBVIOUS
  <2>3. ASSUME NEW d \in 0 .. m + 1
        PROVE  g[d] = IF d = 0 THEN 0 ELSE g[d - 1] + Power(k, d - 1)
    <3>1. CASE d = m + 1
      <4>1. d # 0 /\ d - 1 = m /\ g[d - 1] = f[m] /\ g[d] = last
        BY <3>1, <2>2
      <4> HIDE DEF g
      <4> QED
        BY <3>1, <4>1
    <3>2. CASE d # m + 1
      <4>1. d \in 0 .. m /\ g[d] = f[d] /\ (d # 0 => d - 1 \in 0 .. m /\ g[d - 1] = f[d - 1])
        BY <3>2, <2>2
      <4>2. f[d] = IF d = 0 THEN 0 ELSE f[d - 1] + Power(k, d - 1)
        BY <2>1, <4>1 DEF IsSum
      <4> HIDE DEF g
      <4> QED
        BY <4>1, <4>2
    <3> QED
      BY <3>1, <3>2
  <2>4. IsSum(g, k, m + 1)
    BY <2>3 DEF IsSum
  <2> QED
    BY <2>4
<1> HIDE DEF V
<1>3. V = Nat
  BY <1>1, <1>2, SetInduction DEF V
<1> QED
  BY <1>3 DEF V

\* Two tables agree where both have an entry, and the entries are numbers.
LEMMA SumUnique ==
  ASSUME NEW k \in Nat \ {0}, NEW d \in Nat, NEW n \in Nat, NEW m \in Nat, d <= n, d <= m,
         NEW f, NEW g, IsSum(f, k, n), IsSum(g, k, m)
  PROVE  f[d] = g[d] /\ f[d] \in Nat
<1> DEFINE Good(e) == e <= d => f[e] = g[e] /\ f[e] \in Nat
           V == {e \in Nat : Good(e)}
<1>0. /\ \A e \in 0 .. n : f[e] = IF e = 0 THEN 0 ELSE f[e - 1] + Power(k, e - 1)
      /\ \A e \in 0 .. m : g[e] = IF e = 0 THEN 0 ELSE g[e - 1] + Power(k, e - 1)
  BY DEF IsSum
<1>1. Good(0)
  BY <1>0
<1>2. ASSUME NEW e \in Nat, Good(e) PROVE Good(e + 1)
  <2> SUFFICES ASSUME e + 1 <= d PROVE f[e + 1] = g[e + 1] /\ f[e + 1] \in Nat
    OBVIOUS
  <2>1. f[e + 1] = f[e] + Power(k, e) /\ g[e + 1] = g[e] + Power(k, e)
    <3>1. e + 1 \in 0 .. n /\ e + 1 \in 0 .. m /\ e + 1 # 0 /\ (e + 1) - 1 = e
      OBVIOUS
    <3> QED
      BY <1>0, <3>1
  <2>2. f[e] = g[e] /\ f[e] \in Nat
    BY <1>2
  <2>3. Power(k, e) \in Nat
    BY PowerSteps
  <2> QED
    BY <2>1, <2>2, <2>3
<1> HIDE DEF Good
<1>3. V \in SUBSET Nat /\ 0 \in V /\ \A e \in V : e + 1 \in V
  BY <1>1, <1>2
<1>4. V = Nat
  <2> HIDE DEF V
  <2> QED
    BY <1>3, SetInduction
<1>5. Good(d)
  BY <1>4
<1> QED
  BY <1>5 DEF Good

\* The number of nodes of the first levels: its equations.
LEMMA FirstSteps ==
  ASSUME NEW k \in Nat \ {0}, NEW e \in Nat
  PROVE  /\ First(k, 0) = 0
         /\ First(k, e) \in Nat
         /\ First(k, e + 1) = First(k, e) + Power(k, e)
<1> DEFINE table(n) == CHOOSE f : IsSum(f, k, n)
<1>1. \A n \in Nat : First(k, n) = table(n)[n]
  BY DEF First, IsSum
<1>2. \A n \in Nat : IsSum(table(n), k, n)
  BY SumExists
<1> HIDE DEF table
<1>3. table(0)[0] = 0
  BY <1>2 DEF IsSum
<1>4. table(e + 1)[e + 1] = table(e + 1)[e] + Power(k, e)
  <2>1. e + 1 \in Nat /\ e + 1 \in 0 .. e + 1 /\ e + 1 # 0 /\ (e + 1) - 1 = e
    OBVIOUS
  <2>2. IsSum(table(e + 1), k, e + 1)
    BY <1>2, <2>1
  <2> QED
    BY <2>1, <2>2 DEF IsSum
<1>5. table(e + 1)[e] = table(e)[e] /\ table(e)[e] \in Nat
  <2>1. e + 1 \in Nat /\ e <= e /\ e <= e + 1
    OBVIOUS
  <2>2. IsSum(table(e + 1), k, e + 1) /\ IsSum(table(e), k, e)
    BY <1>2, <2>1
  <2> QED
    BY <2>1, <2>2, SumUnique
<1> QED
  BY <1>1, <1>3, <1>4, <1>5

\* Level by level the first node of a level comes later.
LEMMA FirstGrows ==
  ASSUME NEW k \in Nat \ {0}, NEW d \in Nat
  PROVE  \A e \in Nat : /\ First(k, d + e) \in Nat
                        /\ First(k, d + e) >= First(k, d) + e
<1> DEFINE Good(e) == First(k, d + e) \in Nat /\ First(k, d + e) >= First(k, d) + e
           V == {e \in Nat : Good(e)}
<1>0. First(k, d) \in Nat
  BY FirstSteps
<1>1. Good(0)
  BY <1>0
<1>2. ASSUME NEW e \in Nat, Good(e) PROVE Good(e + 1)
  <2>1. d + e \in Nat /\ d + (e + 1) = (d + e) + 1
    OBVIOUS
  <2>2. /\ First(k, (d + e) + 1) = First(k, d + e) + Power(k, d + e)
        /\ Power(k, d + e) \in Nat \ {0}
    BY <2>1, FirstSteps, PowerSteps
  <2> QED
    BY <1>0, <1>2, <2>1, <2>2
<1> HIDE DEF Good
<1>3. V \in SUBSET Nat /\ 0 \in V /\ \A e \in V : e + 1 \in V
  BY <1>1, <1>2
<1>4. V = Nat
  <2> HIDE DEF V
  <2> QED
    BY <1>3, SetInduction
<1>5. \A e \in Nat : Good(e)
  BY <1>4
<1> QED
  BY <1>5 DEF Good

\* The same for two levels.
LEMMA FirstMonotone ==
  ASSUME NEW k \in Nat \ {0}, NEW d \in Nat, NEW e \in Nat, d <= e
  PROVE  /\ First(k, d) \in Nat /\ First(k, e) \in Nat
         /\ First(k, d) <= First(k, e) /\ d <= First(k, d)
<1>1. e - d \in Nat /\ d + (e - d) = e
  OBVIOUS
<1>2. First(k, e) \in Nat /\ First(k, e) >= First(k, d) + (e - d)
  <2>1. First(k, d + (e - d)) \in Nat /\ First(k, d + (e - d)) >= First(k, d) + (e - d)
    BY <1>1, FirstGrows
  <2> QED
    BY <1>1, <2>1
<1>3. First(k, 0 + d) >= First(k, 0) + d /\ First(k, 0) = 0 /\ First(k, d) \in Nat
  BY FirstGrows, FirstSteps
<1> QED
  BY <1>1, <1>2, <1>3

-----------------------------------------------------------------------------
(* The level of a node *)

\* Every node has a level.
LEMMA LevelExists ==
  ASSUME NEW k \in Nat \ {0}, NEW id \in Nat
  PROVE  \E d \in 0 .. id : First(k, d) <= id /\ id < First(k, d + 1)
<1> DEFINE Good(m) == id < First(k, m) => \E d \in Nat : First(k, d) <= id /\ id < First(k, d + 1)
           V == {m \in Nat : Good(m)}
<1>1. Good(0)
  BY FirstSteps
<1>2. ASSUME NEW m \in Nat, Good(m) PROVE Good(m + 1)
  <2> SUFFICES ASSUME id < First(k, m + 1)
               PROVE  \E d \in Nat : First(k, d) <= id /\ id < First(k, d + 1)
    OBVIOUS
  <2>1. CASE id < First(k, m)
    BY <1>2, <2>1
  <2>2. CASE ~(id < First(k, m))
    <3>1. First(k, m) \in Nat
      BY FirstSteps
    <3>2. First(k, m) <= id
      BY <2>2, <3>1
    <3> QED
      BY <3>2
  <2> QED
    BY <2>1, <2>2
<1> HIDE DEF Good
<1>3. V \in SUBSET Nat /\ 0 \in V /\ \A m \in V : m + 1 \in V
  BY <1>1, <1>2
<1>4. V = Nat
  <2> HIDE DEF V
  <2> QED
    BY <1>3, SetInduction
<1>5. Good(id + 1)
  BY <1>4
<1>6. id < First(k, id + 1)
  <2>1. id + 1 <= First(k, id + 1) /\ First(k, id + 1) \in Nat
    BY FirstMonotone
  <2> QED
    BY <2>1
<1>7. PICK d \in Nat : First(k, d) <= id /\ id < First(k, d + 1)
  BY <1>5, <1>6 DEF Good
<1>8. d <= First(k, d) /\ First(k, d) \in Nat
  BY FirstMonotone
<1>9. d \in 0 .. id
  BY <1>7, <1>8
<1> QED
  BY <1>7, <1>9

\* A node has one level alone, the one that deep names.
LEMMA DeepIs ==
  ASSUME NEW k \in Nat \ {0}, NEW id \in Nat
  PROVE  /\ Deep(k, id) \in 0 .. id
         /\ First(k, Deep(k, id)) <= id /\ id < First(k, Deep(k, id) + 1)
         /\ \A d \in Nat : First(k, d) <= id /\ id < First(k, d + 1) => d = Deep(k, id)
<1> DEFINE level == Deep(k, id)
<1>1. level \in 0 .. id /\ First(k, level) <= id /\ id < First(k, level + 1)
  BY LevelExists DEF Deep
<1> HIDE DEF level
<1>2. ASSUME NEW d \in Nat, First(k, d) <= id, id < First(k, d + 1)
      PROVE  d = level
  <2>0. level \in Nat
    BY <1>1
  <2>1. CASE d < level
    <3>1. d + 1 <= level /\ d + 1 \in Nat
      BY <2>0, <2>1
    <3>2. First(k, d + 1) <= First(k, level) /\ First(k, d + 1) \in Nat /\ First(k, level) \in Nat
      BY <2>0, <3>1, FirstMonotone
    <3> QED
      BY <1>1, <1>2, <3>2
  <2>2. CASE level < d
    <3>1. level + 1 <= d /\ level + 1 \in Nat
      BY <2>0, <2>2
    <3>2. First(k, level + 1) <= First(k, d) /\ First(k, level + 1) \in Nat /\ First(k, d) \in Nat
      BY <2>0, <3>1, FirstMonotone
    <3> QED
      BY <1>1, <1>2, <3>2
  <2> QED
    BY <2>0, <2>1, <2>2
<1> QED
  BY <1>1, <1>2 DEF level

\* The level of the first node is 0, that of the others is not; no node is
\* below a node that comes after it.
LEMMA DeepMonotone ==
  ASSUME NEW k \in Nat \ {0}, NEW i \in Nat, NEW j \in Nat, i <= j
  PROVE  Deep(k, i) <= Deep(k, j) /\ (Deep(k, i) = 0 <=> i = 0)
<1>1. /\ Deep(k, i) \in Nat /\ Deep(k, j) \in Nat
      /\ First(k, Deep(k, i)) <= i /\ j < First(k, Deep(k, j) + 1)
      /\ i < First(k, Deep(k, i) + 1)
  <2>1. /\ Deep(k, i) \in 0 .. i /\ First(k, Deep(k, i)) <= i
        /\ i < First(k, Deep(k, i) + 1)
    BY DeepIs
  <2>2. Deep(k, j) \in 0 .. j /\ j < First(k, Deep(k, j) + 1)
    BY DeepIs
  <2> QED
    BY <2>1, <2>2
<1>2. ASSUME ~(Deep(k, i) <= Deep(k, j)) PROVE FALSE
  <2>1. Deep(k, j) + 1 <= Deep(k, i) /\ Deep(k, j) + 1 \in Nat
    BY <1>1, <1>2
  <2>2. /\ First(k, Deep(k, j) + 1) <= First(k, Deep(k, i))
        /\ First(k, Deep(k, j) + 1) \in Nat /\ First(k, Deep(k, i)) \in Nat
    BY <1>1, <2>1, FirstMonotone
  <2> QED
    BY <1>1, <2>2
<1>3. i = 0 => Deep(k, i) = 0
  BY DeepIs
<1>4. Deep(k, i) = 0 => i = 0
  <2>1. First(k, 0 + 1) = First(k, 0) + Power(k, 0) /\ First(k, 0) = 0 /\ Power(k, 0) = 1
    BY FirstSteps, PowerSteps
  <2>2. First(k, 0 + 1) = 1
    BY <2>1
  <2> QED
    BY <1>1, <2>2
<1> QED
  BY <1>2, <1>3, <1>4

-----------------------------------------------------------------------------
(* Children and parents *)

\* Multiples of k are k apart.
LEMMA MultiplesApart ==
  ASSUME NEW k \in Nat \ {0}, NEW a \in Nat, NEW b \in Nat
  PROVE  a < b <=> k * a + k <= k * b
<1>1. ASSUME a < b PROVE k * a + k <= k * b
  <2>1. PICK c \in Nat : b = a + 1 + c
    <3>1. b - a - 1 \in Nat /\ b = a + 1 + (b - a - 1)
      BY <1>1
    <3> QED
      BY <3>1
  <2>2. k * b = k * a + k + k * c /\ k * c \in Nat
    BY <2>1
  <2> QED
    BY <2>2
<1>2. ASSUME ~(a < b) PROVE ~(k * a + k <= k * b)
  <2>1. PICK c \in Nat : a = b + c
    <3>1. a - b \in Nat /\ a = b + (a - b)
      BY <1>2
    <3> QED
      BY <3>1
  <2>2. k * a = k * b + k * c /\ k * c \in Nat /\ k * b \in Nat
    BY <2>1
  <2> QED
    BY <2>2
<1> QED
  BY <1>1, <1>2

\* A number falls between two multiples of k.
LEMMA Quotient ==
  ASSUME NEW k \in Nat \ {0}, NEW r \in Nat
  PROVE  \E q \in Nat : k * q <= r /\ r < k * q + k
<1> DEFINE Good(m) == \E q \in Nat : k * q <= m /\ m < k * q + k
           V == {m \in Nat : Good(m)}
<1>1. Good(0)
  <2>1. k * 0 <= 0 /\ 0 < k * 0 + k
    OBVIOUS
  <2> QED
    BY <2>1
<1>2. ASSUME NEW m \in Nat, Good(m) PROVE Good(m + 1)
  <2>1. PICK q \in Nat : k * q <= m /\ m < k * q + k
    BY <1>2
  <2>2. k * q \in Nat /\ k * (q + 1) = k * q + k
    OBVIOUS
  <2>3. CASE m + 1 < k * q + k
    <3>1. k * q <= m + 1
      BY <2>1, <2>2
    <3> QED
      BY <2>3, <3>1
  <2>4. CASE m + 1 = k * q + k
    <3>1. k * (q + 1) <= m + 1 /\ m + 1 < k * (q + 1) + k /\ q + 1 \in Nat
      BY <2>2, <2>4
    <3> QED
      BY <3>1, Zenon
  <2>5. m + 1 < k * q + k \/ m + 1 = k * q + k
    <3> DEFINE part == k * q
    <3>1. part \in Nat /\ m < part + k
      BY <2>1, <2>2
    <3> HIDE DEF part
    <3>2. m + 1 < part + k \/ m + 1 = part + k
      BY <3>1
    <3> QED
      BY <3>2 DEF part
  <2> QED
    BY <2>3, <2>4, <2>5
<1> HIDE DEF Good
<1>3. V \in SUBSET Nat /\ 0 \in V /\ \A m \in V : m + 1 \in V
  BY <1>1, <1>2
<1>4. V = Nat
  <2> HIDE DEF V
  <2> QED
    BY <1>3, SetInduction
<1>5. Good(r)
  BY <1>4
<1> QED
  BY <1>5 DEF Good

\* The first of the k children of node i, were there no end of nodes; and j is
\* one of them.
FirstChild(k, i) == First(k, Deep(k, i) + 1) + k * (i - First(k, Deep(k, i)))
Child(k, i, j) == FirstChild(k, i) <= j /\ j < FirstChild(k, i) + k

\* Children are one level below, after their parent.
LEMMA ChildLevel ==
  ASSUME NEW k \in Nat \ {0}, NEW i \in Nat
  PROVE  /\ FirstChild(k, i) \in Nat /\ i < FirstChild(k, i)
         /\ \A j \in Nat : Child(k, i, j) => Deep(k, j) = Deep(k, i) + 1
<1> DEFINE d == Deep(k, i)
           p == i - First(k, d)
<1>1. /\ d \in Nat /\ First(k, d) <= i /\ i < First(k, d + 1)
      /\ First(k, d) \in Nat /\ First(k, d + 1) \in Nat
      /\ First(k, d + 1) = First(k, d) + Power(k, d)
  <2>1. d \in Nat /\ First(k, d) <= i /\ i < First(k, d + 1)
    BY DeepIs
  <2> HIDE DEF d
  <2> QED
    BY <2>1, FirstSteps
<1>2. /\ Power(k, d + 1) = k * Power(k, d) /\ Power(k, d) \in Nat
      /\ First(k, (d + 1) + 1) = First(k, d + 1) + Power(k, d + 1)
  <2> HIDE DEF d
  <2> QED
    BY <1>1, PowerSteps, FirstSteps
<1>3. FirstChild(k, i) = First(k, d + 1) + k * p
  BY DEF FirstChild
<1> HIDE DEF d
<1>4. p \in Nat /\ p < Power(k, d)
  BY <1>1, <1>2
<1> HIDE DEF p
<1>5. k * p \in Nat /\ k * p + k <= k * Power(k, d)
  BY <1>2, <1>4, MultiplesApart
<1>6. FirstChild(k, i) \in Nat /\ i < FirstChild(k, i)
  BY <1>1, <1>3, <1>5
<1>7. ASSUME NEW j \in Nat, Child(k, i, j) PROVE Deep(k, j) = d + 1
  <2>1. FirstChild(k, i) <= j /\ j < FirstChild(k, i) + k
    BY <1>7 DEF Child
  <2>2. First(k, d + 1) <= j
    BY <1>1, <1>3, <1>5, <2>1
  <2>3. j < First(k, (d + 1) + 1)
    <3> DEFINE full == k * Power(k, d)
               part == k * p
    <3>1. /\ First(k, (d + 1) + 1) = First(k, d + 1) + full
          /\ part + k <= full /\ part \in Nat /\ full \in Int
          /\ FirstChild(k, i) = First(k, d + 1) + part
      BY <1>2, <1>3, <1>5
    <3> HIDE DEF full, part
    <3> QED
      BY <1>1, <2>1, <3>1
  <2>4. d + 1 \in Nat
    BY <1>1
  <2> QED
    BY <2>2, <2>3, <2>4, DeepIs
<1> QED
  BY <1>6, <1>7 DEF d

\* Every node but the first is the child of a node before it.
LEMMA ParentExists ==
  ASSUME NEW k \in Nat \ {0}, NEW j \in Nat \ {0}
  PROVE  \E i \in 0 .. j - 1 : Child(k, i, j)
<1> DEFINE e == Deep(k, j) - 1
           r == j - First(k, e + 1)
<1>1. e \in Nat /\ First(k, e + 1) <= j /\ j < First(k, (e + 1) + 1)
  <2>1. Deep(k, j) \in Nat /\ First(k, Deep(k, j)) <= j /\ j < First(k, Deep(k, j) + 1)
    BY DeepIs
  <2>2. Deep(k, j) # 0
    BY DeepMonotone
  <2>3. e + 1 = Deep(k, j) /\ e \in Nat
    BY <2>1, <2>2
  <2> QED
    BY <2>1, <2>3
<1> HIDE DEF e
<1>2. /\ First(k, e) \in Nat /\ First(k, e + 1) \in Nat /\ Power(k, e) \in Nat \ {0}
      /\ First(k, e + 1) = First(k, e) + Power(k, e)
      /\ First(k, (e + 1) + 1) = First(k, e + 1) + k * Power(k, e)
  <2>1. e \in Nat /\ e + 1 \in Nat
    BY <1>1
  <2>2. /\ First(k, e) \in Nat /\ Power(k, e) \in Nat \ {0}
        /\ First(k, e + 1) = First(k, e) + Power(k, e)
        /\ Power(k, e + 1) = k * Power(k, e)
    BY <2>1, FirstSteps, PowerSteps
  <2>3. /\ First(k, e + 1) \in Nat
        /\ First(k, (e + 1) + 1) = First(k, e + 1) + Power(k, e + 1)
    BY <2>1, FirstSteps
  <2> QED
    BY <2>2, <2>3
<1>3. r \in Nat /\ r < k * Power(k, e)
  <2> DEFINE full == k * Power(k, e)
  <2>1. full \in Int
    BY <1>2
  <2> HIDE DEF full
  <2> QED
    BY <1>1, <1>2, <2>1 DEF full
<1>4. PICK q \in Nat : k * q <= r /\ r < k * q + k
  BY <1>3, Quotient
<1>5. q < Power(k, e)
  <2>1. ~(k * Power(k, e) + k <= k * q)
    <3> DEFINE full == k * Power(k, e)
               part == k * q
    <3>1. full \in Int /\ part \in Int /\ part <= r /\ r < full
      BY <1>2, <1>3, <1>4
    <3> HIDE DEF full, part, r
    <3> QED
      BY <1>3, <3>1 DEF full, part
  <2>2. ~(Power(k, e) < q)
    BY <1>2, <2>1, MultiplesApart
  <2>3. q # Power(k, e)
    BY <1>3, <1>4
  <2> QED
    BY <1>2, <2>2, <2>3
<1> DEFINE i == First(k, e) + q
<1>6. i \in Nat /\ First(k, e) <= i /\ i < First(k, e + 1) /\ i \in 0 .. j - 1
  BY <1>1, <1>2, <1>5
<1>7. Deep(k, i) = e
  BY <1>1, <1>6, DeepIs
<1>8. Child(k, i, j)
  <2>1. FirstChild(k, i) = First(k, e + 1) + k * (i - First(k, e))
    BY <1>7 DEF FirstChild
  <2>2. i - First(k, e) = q
    BY <1>2
  <2>3. FirstChild(k, i) = First(k, e + 1) + k * q
    BY <2>1, <2>2
  <2> DEFINE part == k * q
  <2>4. part \in Int /\ part <= r /\ r < part + k /\ FirstChild(k, i) = First(k, e + 1) + part
    BY <1>4, <2>3
  <2> HIDE DEF part, i
  <2> QED
    BY <1>2, <2>4 DEF Child
<1> QED
  BY <1>6, <1>8

\* And of no other node.
LEMMA ParentUnique ==
  ASSUME NEW k \in Nat \ {0}, NEW i \in Nat, NEW h \in Nat, NEW j \in Nat,
         Child(k, i, j), Child(k, h, j)
  PROVE  i = h
<1> DEFINE d == Deep(k, i)
           p == i - First(k, d)
           q == h - First(k, d)
<1>1. d \in Nat /\ Deep(k, h) = d
  <2>1. Deep(k, i) \in Nat /\ Deep(k, h) \in Nat
    BY DeepIs
  <2>2. Deep(k, j) = Deep(k, i) + 1 /\ Deep(k, j) = Deep(k, h) + 1
    BY ChildLevel
  <2> QED
    BY <2>1, <2>2
<1>2. First(k, d) <= i /\ First(k, d) <= h
  <2>1. First(k, Deep(k, i)) <= i /\ First(k, Deep(k, h)) <= h
    BY DeepIs
  <2> QED
    BY <1>1, <2>1
<1>3. FirstChild(k, i) = First(k, d + 1) + k * p /\ FirstChild(k, h) = First(k, d + 1) + k * q
  BY <1>1 DEF FirstChild
<1> HIDE DEF d
<1>4. First(k, d) \in Nat /\ First(k, d + 1) \in Nat
  <2>1. d + 1 \in Nat
    BY <1>1
  <2> QED
    BY <1>1, <2>1, FirstSteps
<1>5. p \in Nat /\ q \in Nat /\ (p = q => i = h)
  BY <1>2, <1>4
<1> HIDE DEF p, q
<1>6. ~(k * p + k <= k * q) /\ ~(k * q + k <= k * p)
  <2> DEFINE a == k * p
             b == k * q
  <2>1. a \in Int /\ b \in Int
    BY <1>5
  <2>2. FirstChild(k, i) = First(k, d + 1) + a /\ FirstChild(k, h) = First(k, d + 1) + b
    BY <1>3
  <2> HIDE DEF a, b
  <2> QED
    BY <1>4, <2>1, <2>2 DEF Child, a, b
<1>7. p = q
  BY <1>5, <1>6, MultiplesApart
<1> QED
  BY <1>5, <1>7

-----------------------------------------------------------------------------
(* The links of a node *)

\* A network of n nodes and link_size k.
IsNetwork(n, k) == n \in Nat \ {0, 1} /\ k \in Nat \ {0}

\* The levels of n nodes are 0 .. LastLevel, which is not 0.
LEMMA LastIs ==
  ASSUME NEW n, NEW k, IsNetwork(n, k), NEW i \in 0 .. n - 1
  PROVE  /\ LastLevel(n, k) \in Nat \ {0}
         /\ Deep(k, i) \in 0 .. LastLevel(n, k)
<1>1. k \in Nat \ {0} /\ n - 1 \in Nat /\ i \in Nat /\ i <= n - 1 /\ n - 1 # 0
  BY DEF IsNetwork
<1>2. Deep(k, i) <= Deep(k, n - 1)
  BY <1>1, DeepMonotone
<1>3. Deep(k, n - 1) # 0
  <2>1. n - 1 <= n - 1
    BY <1>1
  <2> QED
    BY <1>1, <2>1, DeepMonotone
<1>4. Deep(k, i) \in Nat
  BY <1>1, DeepIs
<1>5. Deep(k, n - 1) \in Nat
  BY <1>1, DeepIs
<1> QED
  BY <1>2, <1>3, <1>4, <1>5 DEF LastLevel

\* The node that the loop of the constructor starts from.
LEMMA StartIs ==
  ASSUME NEW n, NEW k, IsNetwork(n, k), NEW i \in 0 .. n - 1
  PROVE  Start(n, k, i) = IF Deep(k, i) = LastLevel(n, k) THEN 0 ELSE FirstChild(k, i)
<1> DEFINE d == Deep(k, i)
           p == i - First(k, d)
<1>1. d \in Nat /\ First(k, d) <= i /\ k \in Nat \ {0} /\ i \in Nat
  <2>1. k \in Nat \ {0} /\ i \in Nat
    BY DEF IsNetwork
  <2> QED
    BY <2>1, DeepIs
<1>2. FirstChild(k, i) = First(k, d + 1) + k * p
  BY DEF FirstChild
<1>3. /\ First(k, d) \in Nat /\ First(k, d + 1) = First(k, d) + Power(k, d)
      /\ Power(k, d) \in Nat
  <2> HIDE DEF d
  <2> QED
    BY <1>1, FirstSteps, PowerSteps
<1>4. LastLevel(n, k) # 0
  BY LastIs
<1>5. CASE d = 0
  <2>1. First(k, 0) = 0 /\ Power(k, 0) = 1 /\ i = 0
    <3>1. 0 \in Nat /\ i <= i
      BY <1>1
    <3> QED
      BY <1>1, <1>5, <3>1, FirstSteps, PowerSteps, DeepMonotone
  <2>2. First(k, 0 + 1) = 1 /\ p = 0 /\ k * 0 = 0
    BY <1>1, <1>3, <1>5, <2>1
  <2>3. FirstChild(k, i) = 1
    BY <1>2, <1>5, <2>2
  <2>4. Start(n, k, i) = 1
    BY <1>5 DEF Start
  <2> QED
    BY <1>4, <1>5, <2>3, <2>4
<1>6. CASE d # 0 /\ d = LastLevel(n, k)
  <2>1. Start(n, k, i) = 0
    BY <1>6 DEF Start
  <2> QED
    BY <1>6, <2>1
<1>7. CASE d # 0 /\ d # LastLevel(n, k)
  <2> DEFINE ind == p + 1
  <2>1. Start(n, k, i) = i + k * (ind - 1) + (Power(k, d) - ind) + 1
    BY <1>7 DEF Start
  <2> HIDE DEF d
  <2>2. p \in Nat /\ ind - 1 = p /\ i = First(k, d) + p
    BY <1>1, <1>3
  <2>3. Start(n, k, i) = i + k * p + (Power(k, d) - (p + 1)) + 1
    BY <2>1, <2>2
  <2> HIDE DEF p
  <2> DEFINE part == k * p
  <2>4. part \in Int
    BY <1>1, <2>2
  <2> HIDE DEF part
  <2>5. Start(n, k, i) = i + part + (Power(k, d) - (p + 1)) + 1 /\ FirstChild(k, i) = First(k, d + 1) + part
    BY <1>2, <2>3 DEF part
  <2>6. Start(n, k, i) = FirstChild(k, i)
    BY <1>1, <1>3, <2>2, <2>4, <2>5
  <2> QED
    BY <1>7, <2>6 DEF d
<1> QED
  BY <1>5, <1>6, <1>7

\* What a node links to: its children; or node 0, when it has none; or, from
\* the last level, the first nodes.
LEMMA LinkIs ==
  ASSUME NEW n, NEW k, IsNetwork(n, k), NEW i \in 0 .. n - 1
  PROVE  \/ /\ Deep(k, i) = LastLevel(n, k) /\ 0 \in Link(n, k, i)
            /\ Link(n, k, i) = 0 .. (IF k > n THEN n ELSE k) - 1
         \/ /\ Deep(k, i) # LastLevel(n, k) /\ FirstChild(k, i) >= n
            /\ Link(n, k, i) = {0}
         \/ /\ Deep(k, i) # LastLevel(n, k) /\ FirstChild(k, i) < n
            /\ Link(n, k, i) = FirstChild(k, i) ..
                   (IF FirstChild(k, i) + k > n THEN n ELSE FirstChild(k, i) + k) - 1
<1> DEFINE s == Start(n, k, i)
<1>0. /\ n \in Nat /\ n > 1 /\ k \in Nat /\ k > 0 /\ FirstChild(k, i) \in Nat
  <2>1. n \in Nat /\ n > 1 /\ k \in Nat \ {0} /\ i \in Nat
    BY DEF IsNetwork
  <2>2. FirstChild(k, i) \in Nat
    BY <2>1, ChildLevel
  <2> QED
    BY <2>1, <2>2
<1>1. Link(n, k, i) = IF s >= n THEN {0} ELSE s .. (IF s + k > n THEN n ELSE s + k) - 1
  BY DEF Link
<1>2. s = IF Deep(k, i) = LastLevel(n, k) THEN 0 ELSE FirstChild(k, i)
  BY StartIs
<1> HIDE DEF s
<1>3. CASE Deep(k, i) = LastLevel(n, k)
  <2>1. s = 0 /\ ~(s >= n) /\ s + k = k
    BY <1>0, <1>2, <1>3
  <2>2. Link(n, k, i) = 0 .. (IF k > n THEN n ELSE k) - 1
    BY <1>1, <2>1
  <2>3. 0 \in 0 .. (IF k > n THEN n ELSE k) - 1
    BY <1>0
  <2> QED
    BY <1>3, <2>2, <2>3
<1>4. CASE Deep(k, i) # LastLevel(n, k)
  BY <1>0, <1>1, <1>2, <1>4
<1> QED
  BY <1>3, <1>4

\* The links of a node: one at least, link_size at most, all of them nodes.
LEMMA LinkNodes ==
  ASSUME NEW n, NEW k, IsNetwork(n, k), NEW i \in 0 .. n - 1
  PROVE  /\ Link(n, k, i) \subseteq 0 .. n - 1 /\ Link(n, k, i) # {}
         /\ IsFiniteSet(Link(n, k, i)) /\ Cardinality(Link(n, k, i)) <= k
<1>0. /\ n \in Nat /\ n > 1 /\ k \in Nat /\ k > 0 /\ FirstChild(k, i) \in Nat
  <2>1. n \in Nat /\ n > 1 /\ k \in Nat \ {0} /\ i \in Nat
    BY DEF IsNetwork
  <2>2. FirstChild(k, i) \in Nat
    BY <2>1, ChildLevel
  <2> QED
    BY <2>1, <2>2
<1>1. PICK a \in Nat, b \in Nat : /\ Link(n, k, i) = a .. b /\ a <= b /\ b < a + k /\ b < n
  <2> DEFINE c == FirstChild(k, i)
  <2> HIDE DEF c
  <2>1. CASE Link(n, k, i) = 0 .. (IF k > n THEN n ELSE k) - 1
    <3> DEFINE b == (IF k > n THEN n ELSE k) - 1
    <3>1. b \in Nat /\ 0 <= b /\ b < 0 + k /\ b < n
      BY <1>0
    <3> HIDE DEF b
    <3> QED
      BY <2>1, <3>1 DEF b
  <2>2. CASE Link(n, k, i) = {0}
    <3>1. {0} = 0 .. 0 /\ 0 < 0 + k /\ 0 < n /\ 0 <= 0
      BY <1>0
    <3> QED
      BY <2>2, <3>1
  <2>3. CASE c < n /\ Link(n, k, i) = c .. (IF c + k > n THEN n ELSE c + k) - 1
    <3> DEFINE b == (IF c + k > n THEN n ELSE c + k) - 1
    <3>1. b \in Nat /\ c <= b /\ b < c + k /\ b < n /\ c \in Nat
      BY <1>0, <2>3 DEF c
    <3> HIDE DEF b
    <3> QED
      BY <2>3, <3>1 DEF b
  <2> QED
    BY <2>1, <2>2, <2>3, LinkIs DEF c
<1>2. IsFiniteSet(a .. b) /\ Cardinality(a .. b) = b - a + 1
  BY <1>1, FS_Interval
<1>3. a .. b \subseteq 0 .. n - 1 /\ a \in a .. b
  BY <1>0, <1>1
<1>4. b - a + 1 <= k
  BY <1>0, <1>1
<1> QED
  BY <1>1, <1>2, <1>3, <1>4

\* A link leads down when it leads to a child.
LEMMA LinksDown ==
  ASSUME NEW n, NEW k, IsNetwork(n, k), NEW i \in 0 .. n - 1, NEW j \in 0 .. n - 1
  PROVE  j \in Link(n, k, i) /\ Deep(k, i) < Deep(k, j) <=> Child(k, i, j)
<1>0. /\ n \in Nat /\ k \in Nat \ {0} /\ i \in Nat /\ j \in Nat /\ FirstChild(k, i) \in Nat
      /\ Deep(k, i) \in Nat /\ Deep(k, j) \in Nat /\ LastLevel(n, k) \in Nat
      /\ Deep(k, i) <= LastLevel(n, k) /\ Deep(k, j) <= LastLevel(n, k)
  <2>1. n \in Nat /\ k \in Nat \ {0} /\ i \in Nat /\ j \in Nat
    BY DEF IsNetwork
  <2>2. FirstChild(k, i) \in Nat
    BY <2>1, ChildLevel
  <2>3. /\ Deep(k, i) \in 0 .. LastLevel(n, k) /\ Deep(k, j) \in 0 .. LastLevel(n, k)
        /\ LastLevel(n, k) \in Nat
    BY LastIs
  <2> QED
    BY <2>1, <2>2, <2>3
<1>1. ASSUME j \in Link(n, k, i), Deep(k, i) < Deep(k, j)
      PROVE  Child(k, i, j)
  <2>1. Deep(k, i) # LastLevel(n, k)
    BY <1>0, <1>1
  <2>2. j # 0
    <3>1. Deep(k, 0) = 0
      BY <1>0, DeepIs
    <3> QED
      BY <1>0, <1>1, <3>1
  <2>3. j \in FirstChild(k, i) .. (IF FirstChild(k, i) + k > n THEN n ELSE FirstChild(k, i) + k) - 1
    <3>1. Link(n, k, i) # {0}
      BY <1>1, <2>2
    <3>2. Link(n, k, i) = FirstChild(k, i) ..
              (IF FirstChild(k, i) + k > n THEN n ELSE FirstChild(k, i) + k) - 1
      BY <2>1, <3>1, LinkIs, Zenon
    <3> QED
      BY <1>1, <3>2
  <2> QED
    BY <1>0, <2>3 DEF Child
<1>2. ASSUME Child(k, i, j)
      PROVE  j \in Link(n, k, i) /\ Deep(k, i) < Deep(k, j)
  <2>1. Deep(k, j) = Deep(k, i) + 1
    BY <1>0, <1>2, ChildLevel
  <2>2. Deep(k, i) < Deep(k, j) /\ Deep(k, i) # LastLevel(n, k)
    BY <1>0, <2>1
  <2>3. FirstChild(k, i) <= j /\ j < FirstChild(k, i) + k /\ j < n
    BY <1>0, <1>2 DEF Child
  <2>4. j \in FirstChild(k, i) .. (IF FirstChild(k, i) + k > n THEN n ELSE FirstChild(k, i) + k) - 1
    BY <1>0, <2>3
  <2>5. ~(FirstChild(k, i) >= n)
    BY <1>0, <2>3
  <2> QED
    BY <2>2, <2>4, <2>5, LinkIs
<1> QED
  BY <1>1, <1>2

\* A node links to a child, or to node 0.
LEMMA LinksDownOrToTop ==
  ASSUME NEW n, NEW k, IsNetwork(n, k), NEW i \in 0 .. n - 1
  PROVE  0 \in Link(n, k, i) \/ \E j \in Link(n, k, i) : Deep(k, j) = Deep(k, i) + 1
<1> SUFFICES ASSUME 0 \notin Link(n, k, i)
             PROVE  \E j \in Link(n, k, i) : Deep(k, j) = Deep(k, i) + 1
  OBVIOUS
<1>1. k \in Nat \ {0} /\ i \in Nat /\ n \in Nat
  BY DEF IsNetwork
<1>2. FirstChild(k, i) \in Nat /\ FirstChild(k, i) < n
  BY <1>1, LinkIs, ChildLevel
<1>3. Child(k, i, FirstChild(k, i))
  BY <1>1, <1>2 DEF Child
<1>4. FirstChild(k, i) \in 0 .. n - 1
  BY <1>1, <1>2
<1>5. FirstChild(k, i) \in Link(n, k, i)
  BY <1>3, <1>4, LinksDown
<1>6. Deep(k, FirstChild(k, i)) = Deep(k, i) + 1
  BY <1>1, <1>2, <1>3, ChildLevel
<1> QED
  BY <1>5, <1>6

\* Every node but the first has one link from the level above.
LEMMA OneParent ==
  ASSUME NEW n, NEW k, IsNetwork(n, k), NEW j \in 1 .. n - 1
  PROVE  \E p \in 0 .. n - 1 :
           /\ Deep(k, j) = Deep(k, p) + 1 /\ j \in Link(n, k, p)
           /\ {i \in 0 .. n - 1 : j \in Link(n, k, i) /\ Deep(k, i) < Deep(k, j)} = {p}
<1>1. /\ k \in Nat \ {0} /\ j \in Nat \ {0} /\ j \in 0 .. n - 1
      /\ 0 .. j - 1 \subseteq 0 .. n - 1 /\ 0 .. n - 1 \subseteq Nat
  BY DEF IsNetwork
<1>2. PICK p \in 0 .. j - 1 : Child(k, p, j)
  BY <1>1, ParentExists
<1>3. p \in 0 .. n - 1 /\ p \in Nat
  BY <1>1
<1>4. ASSUME NEW i \in 0 .. n - 1
      PROVE  j \in Link(n, k, i) /\ Deep(k, i) < Deep(k, j) <=> i = p
  <2>1. j \in Link(n, k, i) /\ Deep(k, i) < Deep(k, j) <=> Child(k, i, j)
    BY <1>1, LinksDown
  <2>2. Child(k, i, j) <=> i = p
    BY <1>1, <1>2, <1>3, ParentUnique
  <2> QED
    BY <2>1, <2>2
<1>5. {i \in 0 .. n - 1 : j \in Link(n, k, i) /\ Deep(k, i) < Deep(k, j)} = {p}
  BY <1>3, <1>4
<1>6. Deep(k, j) = Deep(k, p) + 1 /\ j \in Link(n, k, p)
  BY <1>1, <1>2, <1>3, <1>4, ChildLevel
<1> QED
  BY <1>3, <1>5, <1>6

-----------------------------------------------------------------------------
(* The way of a message along the links *)

\* Where a message may be after some hops: it still goes down, one level a
\* hop; or t hops took it to the top, and from there it has filled the levels
\* that the other hops lead to.
GoneDown == \E j \in reached : deep[j] >= hops
CameBack ==
  \E t \in 1 .. hops :
    /\ t <= LastLevel(size, linkSize) + 1
    /\ \A j \in 0 .. size - 1 : deep[j] <= hops - t => j \in reached

SpreadInv ==
  /\ IsNetwork(size, linkSize) /\ Built
  /\ reached \subseteq 0 .. size - 1 /\ hops \in Nat \ {0}
  /\ GoneDown \/ CameBack
  /\ FewHops

\* What the constructors compute, for the nodes of a network.
LEMMA BuiltLinks ==
  ASSUME IsNetwork(size, linkSize), Built
  PROVE  /\ \A i \in 0 .. size - 1 :
              /\ link[i] = Link(size, linkSize, i) /\ deep[i] = Deep(linkSize, i)
              /\ link[i] \subseteq 0 .. size - 1 /\ link[i] # {}
              /\ IsFiniteSet(link[i]) /\ Cardinality(link[i]) <= linkSize
              /\ deep[i] \in 0 .. LastLevel(size, linkSize)
              /\ 0 \in link[i] \/ \E j \in link[i] : deep[j] = deep[i] + 1
         /\ \A j \in 1 .. size - 1 :
              /\ \E p \in 0 .. size - 1 : deep[j] = deep[p] + 1 /\ j \in link[p]
              /\ Cardinality({i \in 0 .. size - 1 : j \in link[i] /\ deep[i] < deep[j]}) = 1
         /\ LastLevel(size, linkSize) \in Nat \ {0} /\ size \in Nat \ {0, 1}
         /\ deep[size - 1] = LastLevel(size, linkSize)
         /\ \A j \in 0 .. size - 1 : deep[j] = 0 <=> j = 0
<1>0. size \in Nat \ {0, 1} /\ linkSize \in Nat \ {0}
  BY DEF IsNetwork
<1>1. \A i \in 0 .. size - 1 : link[i] = Link(size, linkSize, i) /\ deep[i] = Deep(linkSize, i)
  BY DEF Built
<1>2. ASSUME NEW i \in 0 .. size - 1
      PROVE  /\ link[i] \subseteq 0 .. size - 1 /\ link[i] # {}
             /\ IsFiniteSet(link[i]) /\ Cardinality(link[i]) <= linkSize
  BY <1>1, LinkNodes
<1>3. ASSUME NEW i \in 0 .. size - 1
      PROVE  /\ deep[i] \in 0 .. LastLevel(size, linkSize)
             /\ LastLevel(size, linkSize) \in Nat \ {0}
  BY <1>1, LastIs
<1>4. ASSUME NEW i \in 0 .. size - 1
      PROVE  0 \in link[i] \/ \E j \in link[i] : deep[j] = deep[i] + 1
  <2>1. CASE 0 \in Link(size, linkSize, i)
    BY <1>1, <2>1
  <2>2. CASE 0 \notin Link(size, linkSize, i)
    <3>1. PICK j \in Link(size, linkSize, i) : Deep(linkSize, j) = Deep(linkSize, i) + 1
      BY <2>2, LinksDownOrToTop
    <3>2. j \in link[i] /\ j \in 0 .. size - 1
      BY <1>1, <1>2
    <3> QED
      BY <1>1, <3>1, <3>2
  <2> QED
    BY <2>1, <2>2
<1>5. ASSUME NEW j \in 1 .. size - 1
      PROVE  /\ \E p \in 0 .. size - 1 : deep[j] = deep[p] + 1 /\ j \in link[p]
             /\ Cardinality({i \in 0 .. size - 1 : j \in link[i] /\ deep[i] < deep[j]}) = 1
  <2>1. PICK p \in 0 .. size - 1 :
          /\ Deep(linkSize, j) = Deep(linkSize, p) + 1 /\ j \in Link(size, linkSize, p)
          /\ {i \in 0 .. size - 1 :
                j \in Link(size, linkSize, i) /\ Deep(linkSize, i) < Deep(linkSize, j)} = {p}
    BY OneParent
  <2>2. j \in 0 .. size - 1
    BY <1>0
  <2>3. {i \in 0 .. size - 1 : j \in link[i] /\ deep[i] < deep[j]} = {p}
    BY <1>1, <2>1, <2>2
  <2>4. Cardinality({p}) = 1
    BY FS_Singleton
  <2>5. deep[j] = deep[p] + 1 /\ j \in link[p]
    BY <1>1, <2>1, <2>2
  <2> QED
    BY <2>3, <2>4, <2>5
<1>6. size - 1 \in 0 .. size - 1 /\ 0 \in 0 .. size - 1
  BY <1>0
<1>7. deep[size - 1] = LastLevel(size, linkSize)
  BY <1>1, <1>6 DEF LastLevel
<1>8. ASSUME NEW j \in 0 .. size - 1 PROVE deep[j] = 0 <=> j = 0
  <2>1. j \in Nat /\ j <= j
    BY <1>0
  <2>2. Deep(linkSize, j) = 0 <=> j = 0
    BY <1>0, <2>1, DeepMonotone
  <2> QED
    BY <1>1, <2>2
<1>9. LastLevel(size, linkSize) \in Nat \ {0}
  BY <1>3, <1>6
<1> QED
  BY <1>0, <1>1, <1>2, <1>3, <1>4, <1>5, <1>7, <1>8, <1>9

\* The message is at the links of its origin.
LEMMA SpreadStarts == SpreadInit => SpreadInv
<1> SUFFICES ASSUME SpreadInit PROVE SpreadInv
  OBVIOUS
<1>1. IsNetwork(size, linkSize) /\ Built /\ hops = 1
  BY SpreadAssumption DEF SpreadInit, IsNetwork
<1>2. PICK origin \in 0 .. size - 1 : reached = link[origin]
  BY DEF SpreadInit
<1> DEFINE last == LastLevel(size, linkSize)
<1>3. /\ link[origin] \subseteq 0 .. size - 1
      /\ 0 \in link[origin] \/ \E j \in link[origin] : deep[j] = deep[origin] + 1
      /\ deep[origin] \in 0 .. last
      /\ last \in Nat \ {0} /\ deep[size - 1] = last
      /\ \A j \in 0 .. size - 1 : deep[j] = 0 <=> j = 0
      /\ \A j \in 0 .. size - 1 : deep[j] \in 0 .. last
  BY <1>1, BuiltLinks
<1>4. ASSUME 0 \in link[origin] PROVE CameBack
  <2>1. 1 \in 1 .. hops /\ 1 <= last + 1
    BY <1>1, <1>3
  <2>2. \A j \in 0 .. size - 1 : deep[j] <= hops - 1 => j \in reached
    BY <1>1, <1>2, <1>3, <1>4
  <2> QED
    BY <2>1, <2>2 DEF CameBack
<1>5. ASSUME NEW j \in link[origin], deep[j] = deep[origin] + 1 PROVE GoneDown
  <2>1. deep[j] >= hops
    BY <1>1, <1>3, <1>5
  <2> QED
    BY <1>2, <2>1 DEF GoneDown
<1>6. FewHops
  BY <1>1, <1>3 DEF FewHops
<1> QED
  BY <1>1, <1>2, <1>3, <1>4, <1>5, <1>6 DEF SpreadInv

\* A hop goes one level further, down from the origin or down from the top.
LEMMA SpreadGoesOn == SpreadInv /\ [Hop]_linkVars => SpreadInv'
<1> SUFFICES ASSUME SpreadInv, [Hop]_linkVars PROVE SpreadInv'
  OBVIOUS
<1>1. CASE UNCHANGED linkVars
  BY <1>1 DEF linkVars, SpreadInv, Built, GoneDown, CameBack, FewHops
<1>2. CASE Hop
  <2> DEFINE last == LastLevel(size, linkSize)
             next == reached \cup (UNION {link[i] : i \in reached})
  <2>0. /\ IsNetwork(size, linkSize) /\ Built
        /\ reached \subseteq 0 .. size - 1 /\ hops \in Nat \ {0}
        /\ GoneDown \/ CameBack
    BY DEF SpreadInv
  <2>1. /\ next # reached /\ reached' = next /\ hops' = hops + 1
        /\ size' = size /\ linkSize' = linkSize /\ link' = link /\ deep' = deep
    BY <1>2 DEF Hop
  <2>2. /\ \A i \in 0 .. size - 1 :
             /\ link[i] \subseteq 0 .. size - 1 /\ deep[i] \in 0 .. last
             /\ 0 \in link[i] \/ \E j \in link[i] : deep[j] = deep[i] + 1
        /\ \A j \in 1 .. size - 1 :
             \E p \in 0 .. size - 1 : deep[j] = deep[p] + 1 /\ j \in link[p]
        /\ last \in Nat \ {0} /\ size \in Nat \ {0, 1} /\ deep[size - 1] = last
        /\ \A j \in 0 .. size - 1 : deep[j] = 0 <=> j = 0
    BY <2>0, BuiltLinks
  <2>3. next \subseteq 0 .. size - 1 /\ reached # 0 .. size - 1
    <3>1. ASSUME NEW j \in next PROVE j \in 0 .. size - 1
      <4>1. CASE j \in reached
        BY <2>0, <4>1
      <4>2. CASE j \in UNION {link[i] : i \in reached}
        <5>1. PICK i \in reached : j \in link[i]
          BY <4>2
        <5>2. i \in 0 .. size - 1
          BY <2>0
        <5> QED
          BY <2>2, <5>1, <5>2
      <4> QED
        BY <4>1, <4>2
    <3>2. reached \subseteq next
      OBVIOUS
    <3> HIDE DEF next
    <3> QED
      BY <2>1, <3>1, <3>2
  <2>4. (IsNetwork(size, linkSize) /\ Built)' /\ last' = last
    BY <2>0, <2>1 DEF Built
  <2>5. \A i \in reached : \A j \in link[i] : j \in next
    OBVIOUS
  <2> HIDE DEF last, next
  <2>6. ASSUME GoneDown
        PROVE  (GoneDown \/ CameBack)' /\ FewHops'
    <3>1. PICK j \in reached : deep[j] >= hops
      BY <2>6 DEF GoneDown
    <3>2. deep[j] \in 0 .. last /\ hops <= last
      BY <2>0, <2>2, <3>1
    <3>3. FewHops'
      BY <2>0, <2>1, <2>2, <3>2 DEF FewHops
    <3>4. ASSUME 0 \in link[j] PROVE CameBack'
      <4>1. hops + 1 \in 1 .. hops + 1 /\ hops + 1 <= last + 1
        BY <2>0, <2>2, <3>2
      <4>2. 0 \in next
        BY <2>5, <3>4
      <4>3. \A i \in 0 .. size - 1 : deep[i] <= (hops + 1) - (hops + 1) => i \in next
        <5> SUFFICES ASSUME NEW i \in 0 .. size - 1, deep[i] <= (hops + 1) - (hops + 1)
                     PROVE  i \in next
          OBVIOUS
        <5>1. deep[i] \in 0 .. last
          BY <2>2
        <5>2. deep[i] = 0
          BY <2>0, <2>2, <5>1
        <5> QED
          BY <2>2, <4>2, <5>2
      <4> QED
        BY <2>1, <4>1, <4>3 DEF CameBack, last
    <3>5. ASSUME NEW i \in link[j], deep[i] = deep[j] + 1 PROVE GoneDown'
      <4>1. i \in next
        BY <2>5
      <4>2. deep[i] >= hops + 1
        BY <2>0, <2>2, <3>1, <3>2, <3>5
      <4> QED
        BY <2>1, <4>1, <4>2 DEF GoneDown
    <3>6. 0 \in link[j] \/ \E i \in link[j] : deep[i] = deep[j] + 1
      BY <2>0, <2>2
    <3> QED
      BY <3>3, <3>4, <3>5, <3>6
  <2>7. ASSUME CameBack
        PROVE  CameBack' /\ FewHops'
    <3>1. PICK t \in 1 .. hops :
            /\ t <= last + 1
            /\ \A j \in 0 .. size - 1 : deep[j] <= hops - t => j \in reached
      BY <2>7 DEF CameBack, last
    <3>2. PICK j \in 0 .. size - 1 : j \notin reached
      BY <2>0, <2>3
    <3>3. hops - t < last
      <4>1. deep[j] \in 0 .. last /\ ~(deep[j] <= hops - t)
        BY <2>2, <3>1, <3>2
      <4> QED
        BY <2>0, <2>2, <4>1
    <3>4. FewHops'
      BY <2>0, <2>1, <2>2, <3>1, <3>3 DEF FewHops
    <3>5. ASSUME NEW i \in 0 .. size - 1, deep[i] <= (hops + 1) - t
          PROVE  i \in next
      <4>1. CASE i = 0
        <5>1. deep[i] = 0 /\ deep[i] <= hops - t
          BY <2>0, <2>2, <4>1
        <5>2. i \in reached
          BY <3>1, <5>1
        <5> QED
          BY <5>2 DEF next
      <4>2. CASE i # 0
        <5>1. i \in 1 .. size - 1
          BY <2>2, <4>2
        <5>2. PICK p \in 0 .. size - 1 : deep[i] = deep[p] + 1 /\ i \in link[p]
          BY <2>2, <5>1
        <5>3. deep[p] \in 0 .. last
          BY <2>2
        <5>4. deep[p] <= hops - t
          BY <2>0, <2>2, <3>5, <5>2, <5>3
        <5>5. p \in reached
          BY <3>1, <5>4
        <5> QED
          BY <2>5, <5>2, <5>5
      <4> QED
        BY <4>1, <4>2
    <3>6. t \in 1 .. hops + 1
      BY <2>0
    <3>7. CameBack'
      BY <2>1, <3>1, <3>5, <3>6 DEF CameBack, last
    <3> QED
      BY <3>4, <3>7
  <2>8. (GoneDown \/ CameBack)' /\ FewHops'
    BY <2>0, <2>6, <2>7
  <2>9. (reached \subseteq 0 .. size - 1 /\ hops \in Nat \ {0})'
    BY <2>0, <2>1, <2>3
  <2> QED
    BY <2>4, <2>8, <2>9 DEF SpreadInv
<1> QED
  BY <1>1, <1>2

\* What it means for the links.
LEMMA SpreadMeans == SpreadInv => LinksAreTree
<1> SUFFICES ASSUME SpreadInv PROVE LinksAreTree
  OBVIOUS
<1>1. /\ IsNetwork(size, linkSize) /\ Built
      /\ reached \subseteq 0 .. size - 1 /\ hops \in Nat /\ FewHops
  BY DEF SpreadInv
<1>2. \A i \in 0 .. size - 1 : link[i] # {} /\ Cardinality(link[i]) <= linkSize
  BY <1>1, BuiltLinks
<1>3. Tree
  BY <1>1, BuiltLinks DEF Tree
<1> QED
  BY <1>1, <1>2, <1>3 DEF LinksAreTree, LinksTypeOK

\* For every number of nodes and every link_size the links that GossipClient
\* and GossipServer compute are a tree with a way back to its top, at most
\* link_size of them at a node, and a message is everywhere after a way down,
\* one to the top and one down again: the formulas for self.deep and self.link
\* leave no node out and link no node twice.
THEOREM LinksOfAllSizes == Spread => []LinksAreTree
<1>1. Spread => []SpreadInv
  BY SpreadStarts, SpreadGoesOn, PTL DEF Spread
<1> QED
  BY <1>1, SpreadMeans, PTL

-----------------------------------------------------------------------------
(* The protocol over the links: its invariant *)

\* The texts of what a node was handed, and that none of them comes twice.
TextsOf(s) == {s[a][2] : a \in DOMAIN s}
Distinct(s) == \A a, b \in DOMAIN s : s[a][2] = s[b][2] => a = b

\* The texts that node i has, as their source or because it got them; and the
\* announcements that node i may get.
Known(i) == {o \in Texts : <<i, o>> \in Sources \ pending \/ o \in received[i]}
Announceable(i) ==
  {m \in Nodes \X Texts : m \in Sources \ pending \/ (m[1] # i /\ m[2] \in received[m[1]])}

\* The parts of the invariant: the types of what does not change and of the
\* sets; what is under way from a node is known to it; what a node was handed.
LinksInv ==
  /\ clientLink \in [Nodes -> SUBSET Nodes] /\ serverLink \in [Nodes -> SUBSET Nodes]
  /\ pending \subseteq Sources
  /\ received \in [Nodes -> SUBSET Texts] /\ forwarded \in [Nodes -> SUBSET Texts]
TodoInv ==
  /\ todo = [i \in Nodes |-> todo[i]]
  /\ \A i \in Nodes : todo[i] \in Seq(({-1} \cup Nodes) \X Known(i))
WireInv ==
  /\ wire = [i \in Nodes |-> [j \in Nodes |-> wire[i][j]]]
  /\ \A i, j \in Nodes :
       wire[i][j] \in Seq(Known(i)) /\ (j \notin clientLink[i] => wire[i][j] = <<>>)
HandedInv ==
  /\ handed = [i \in Nodes |-> handed[i]]
  /\ \A i \in Nodes : /\ handed[i] \in Seq(Announceable(i))
                      /\ Distinct(handed[i])
                      /\ TextsOf(handed[i]) = received[i]
GossipInv == LinksInv /\ TodoInv /\ WireInv /\ HandedInv

-----------------------------------------------------------------------------
(* Lemmas on sequences *)

\* An enumeration of a finite set is a sequence over it.
LEMMA SetToSeqIs ==
  ASSUME NEW S, IsFiniteSet(S)
  PROVE  SetToSeq(S) \in Seq(S)
<1>1. Cardinality(S) \in Nat /\ ExistsBijection(1 .. Cardinality(S), S)
  BY FS_CardinalityType
<1>2. PICK f \in [1 .. Cardinality(S) -> S] : IsInjective(f)
  BY <1>1 DEF ExistsBijection, Bijection, Injection, IsInjective
<1>3. SetToSeq(S) \in [1 .. Cardinality(S) -> S]
  BY <1>2 DEF SetToSeq
<1> QED
  BY <1>1, <1>3, SeqDef

\* The copies of a text for all links of a server, as a sequence.
LEMMA CopiesAreSeq ==
  ASSUME GossipAssumption, NEW l \in SUBSET Nodes, NEW o, NEW K, o \in K
  PROVE  SetToSeq({<<t, o>> : t \in l}) \in Seq(({-1} \cup Nodes) \X K)
<1> DEFINE C == {<<t, o>> : t \in l}
<1>1. IsFiniteSet(Nodes)
  BY FS_Interval DEF Nodes, GossipAssumption
<1>2. IsFiniteSet({o}) /\ C \subseteq Nodes \X {o}
  BY FS_Singleton
<1>3. IsFiniteSet(C)
  <2> HIDE DEF C
  <2>1. IsFiniteSet(Nodes \X {o})
    BY <1>1, <1>2, FS_Product
  <2> QED
    BY <1>2, <2>1, FS_Subset
<1>4. C \subseteq ({-1} \cup Nodes) \X K
  OBVIOUS
<1> HIDE DEF C
<1>5. SetToSeq(C) \in Seq(C)
  BY <1>3, SetToSeqIs
<1>6. SetToSeq(C) \in Seq(({-1} \cup Nodes) \X K)
  BY <1>4, <1>5, SeqMonotonic
<1> QED
  BY <1>6 DEF C

\* Another announcement: its text is added, and is one more.
LEMMA OneMoreText ==
  ASSUME NEW S, NEW s \in Seq(S), NEW e \in S, Distinct(s), e[2] \notin TextsOf(s)
  PROVE  /\ Append(s, e) \in Seq(S)
         /\ Distinct(Append(s, e))
         /\ TextsOf(Append(s, e)) = TextsOf(s) \cup {e[2]}
<1> DEFINE t == Append(s, e)
           n == Len(s)
<1>1. /\ n \in Nat /\ DOMAIN s = 1 .. n /\ DOMAIN t = 1 .. n + 1
      /\ t[n + 1] = e /\ \A a \in 1 .. n : t[a] = s[a]
  OBVIOUS
<1>2. t \in Seq(S)
  OBVIOUS
<1> HIDE DEF t, n
<1>3. Distinct(t)
  <2> SUFFICES ASSUME NEW a \in 1 .. n + 1, NEW b \in 1 .. n + 1, t[a][2] = t[b][2]
               PROVE  a = b
    BY <1>1 DEF Distinct
  <2>1. \A c \in 1 .. n : t[c][2] # e[2]
    BY <1>1 DEF TextsOf
  <2>2. CASE a = n + 1 \/ b = n + 1
    BY <1>1, <2>1, <2>2
  <2>3. CASE a # n + 1 /\ b # n + 1
    <3>1. a \in 1 .. n /\ b \in 1 .. n
      BY <1>1, <2>3
    <3> QED
      BY <1>1, <3>1 DEF Distinct
  <2> QED
    BY <2>2, <2>3
<1>4. TextsOf(t) = TextsOf(s) \cup {e[2]}
  <2>1. ASSUME NEW x \in TextsOf(t) PROVE x \in TextsOf(s) \cup {e[2]}
    <3>1. PICK a \in 1 .. n + 1 : x = t[a][2]
      BY <1>1 DEF TextsOf
    <3>2. CASE a = n + 1
      BY <1>1, <3>1, <3>2
    <3>3. CASE a # n + 1
      <4>1. a \in 1 .. n
        BY <1>1, <3>3
      <4> QED
        BY <1>1, <3>1, <4>1 DEF TextsOf
    <3> QED
      BY <3>2, <3>3
  <2>2. ASSUME NEW x \in TextsOf(s) PROVE x \in TextsOf(t)
    <3>1. PICK a \in 1 .. n : x = s[a][2]
      BY <1>1 DEF TextsOf
    <3>2. a \in 1 .. n + 1 /\ x = t[a][2]
      BY <1>1, <3>1
    <3> QED
      BY <1>1, <3>2 DEF TextsOf
  <2>3. e[2] \in TextsOf(t)
    <3>1. n + 1 \in 1 .. n + 1
      BY <1>1
    <3> QED
      BY <1>1, <3>1 DEF TextsOf
  <2> QED
    BY <2>1, <2>2, <2>3
<1> QED
  BY <1>2, <1>3, <1>4 DEF t

-----------------------------------------------------------------------------
(* Every step keeps the invariant *)

\* What is under way or announced stays so when texts spread.
LEMMA KnownGrows ==
  ASSUME pending' \subseteq pending, \A i \in Nodes : received[i] \subseteq received'[i]
  PROVE  \A i \in Nodes :
           /\ Known(i) \subseteq Known(i)'
           /\ Announceable(i) \subseteq Announceable(i)'
BY DEF Known, Announceable

LEMMA GossipStarts ==
  ASSUME GossipAssumption
  PROVE  Init => GossipInv
<1> SUFFICES ASSUME Init PROVE GossipInv
  OBVIOUS
<1>1. \A i \in Nodes : \A l \in Drawn(i) : l \subseteq Nodes
  <2> SUFFICES ASSUME NEW i \in Nodes, NEW l \in Drawn(i) PROVE l \subseteq Nodes
    OBVIOUS
  <2>1. Link(N, LinkSize, i) \subseteq 0 .. N - 1
    BY LinkNodes DEF Nodes, GossipAssumption, IsNetwork
  <2>2. PICK r \in SUBSET (1 .. N - 1) : l = Link(N, LinkSize, i) \cup r
    BY DEF Drawn
  <2>3. 1 .. N - 1 \subseteq 0 .. N - 1
    BY DEF GossipAssumption
  <2> QED
    BY <2>1, <2>2, <2>3 DEF Nodes
<1>2. \A f \in Links : f \in [Nodes -> SUBSET Nodes]
  <2> SUFFICES ASSUME NEW f \in Links PROVE f \in [Nodes -> SUBSET Nodes]
    OBVIOUS
  <2>1. f = [i \in Nodes |-> f[i]] /\ \A i \in Nodes : f[i] \in Drawn(i)
    BY DEF Links
  <2>2. \A i \in Nodes : f[i] \in SUBSET Nodes
    BY <1>1, <2>1
  <2> QED
    BY <2>1, <2>2
<1>3. LinksInv
  BY <1>2 DEF LinksInv, Init
<1>4. TodoInv /\ WireInv
  BY DEF TodoInv, WireInv, Init
<1>5. HandedInv
  BY DEF HandedInv, Init, Distinct, TextsOf
<1> QED
  BY <1>3, <1>4, <1>5 DEF GossipInv

\* A broadcast: the node is a source of the text now.
LEMMA BroadcastKeeps ==
  ASSUME GossipAssumption, GossipInv, NEW i \in Nodes, Broadcast(i)
  PROVE  GossipInv'
<1>1. PICK b \in pending :
        /\ b[1] = i /\ pending' = pending \ {b}
        /\ todo' = [todo EXCEPT ![i] = Append(@, <<-1, b[2]>>)]
  BY DEF Broadcast
<1>2. UNCHANGED <<clientLink, serverLink, wire, received, forwarded, handed>>
  BY DEF Broadcast
<1>3. \A j \in Nodes : Known(j) \subseteq Known(j)' /\ Announceable(j) \subseteq Announceable(j)'
  BY <1>1, <1>2, KnownGrows
<1>4. LinksInv'
  BY <1>1, <1>2 DEF LinksInv, GossipInv
<1>5. b[2] \in Known(i)'
  <2>1. b \in Nodes \X Texts /\ b \in Sources
    BY DEF GossipAssumption, GossipInv, LinksInv
  <2>2. b = <<i, b[2]>> /\ b[2] \in Texts
    BY <1>1, <2>1
  <2> QED
    BY <1>1, <2>1, <2>2 DEF Known
<1>6. TodoInv'
  <2>1. \A j \in Nodes : todo'[j] = IF j = i THEN Append(todo[j], <<-1, b[2]>>) ELSE todo[j]
    BY <1>1 DEF GossipInv, TodoInv
  <2>2. todo' = [j \in Nodes |-> todo'[j]]
    BY <1>1 DEF GossipInv, TodoInv
  <2>3. ASSUME NEW j \in Nodes PROVE todo'[j] \in Seq(({-1} \cup Nodes) \X Known(j)')
    <3>1. todo[j] \in Seq(({-1} \cup Nodes) \X Known(j)')
      <4>1. ({-1} \cup Nodes) \X Known(j) \subseteq ({-1} \cup Nodes) \X Known(j)'
        BY <1>3
      <4>2. todo[j] \in Seq(({-1} \cup Nodes) \X Known(j))
        BY DEF GossipInv, TodoInv
      <4> QED
        BY <4>1, <4>2, SeqMonotonic
    <3>2. CASE j = i
      <4>1. PICK S : S = ({-1} \cup Nodes) \X Known(j)'
        OBVIOUS
      <4>2. <<-1, b[2]>> \in S
        BY <1>5, <3>2, <4>1
      <4>3. todo[j] \in Seq(S)
        BY <3>1, <4>1
      <4>4. Append(todo[j], <<-1, b[2]>>) \in Seq(S)
        BY <4>2, <4>3, AppendProperties
      <4> QED
        BY <2>1, <3>2, <4>1, <4>4
    <3>3. CASE j # i
      BY <2>1, <3>1, <3>3
    <3> QED
      BY <3>2, <3>3
  <2> QED
    BY <2>2, <2>3 DEF TodoInv
<1>7. WireInv'
  <2>1. ASSUME NEW j \in Nodes, NEW h \in Nodes PROVE wire[j][h] \in Seq(Known(j)')
    <3>1. wire[j][h] \in Seq(Known(j))
      BY DEF GossipInv, WireInv
    <3> QED
      BY <1>3, <3>1, SeqMonotonic
  <2> QED
    BY <1>2, <2>1 DEF WireInv, GossipInv
<1>8. HandedInv'
  <2>1. ASSUME NEW j \in Nodes PROVE handed[j] \in Seq(Announceable(j)')
    <3>1. handed[j] \in Seq(Announceable(j))
      BY DEF GossipInv, HandedInv
    <3> QED
      BY <1>3, <3>1, SeqMonotonic
  <2> QED
    BY <1>2, <2>1 DEF HandedInv, GossipInv
<1> QED
  BY <1>4, <1>6, <1>7, <1>8 DEF GossipInv

\* A turn of the client: what it sends its node knows.
LEMMA DispatchKeeps ==
  ASSUME GossipAssumption, GossipInv, NEW i \in Nodes, Dispatch(i)
  PROVE  GossipInv'
<1> DEFINE t == todo[i][1][1]
           o == todo[i][1][2]
<1>1. /\ todo[i] # <<>>
      /\ wire' = [wire EXCEPT ![i] = [j \in Nodes |-> IF j \in Recipients(i, t)
                                                      THEN Append(@[j], o) ELSE @[j]]]
      /\ todo' = [todo EXCEPT ![i] = Tail(@)]
  BY DEF Dispatch
<1>2. UNCHANGED <<clientLink, serverLink, received, forwarded, handed, pending>>
  BY DEF Dispatch
<1>3. \A j \in Nodes : Known(j)' = Known(j) /\ Announceable(j)' = Announceable(j)
  BY <1>2 DEF Known, Announceable
<1>4. LinksInv'
  BY <1>2 DEF LinksInv, GossipInv
<1>5. t \in {-1} \cup Nodes /\ o \in Known(i)
  <2>1. todo[i] \in Seq(({-1} \cup Nodes) \X Known(i))
    BY DEF GossipInv, TodoInv
  <2>2. todo[i][1] \in ({-1} \cup Nodes) \X Known(i)
    <3>1. PICK S : S = ({-1} \cup Nodes) \X Known(i)
      OBVIOUS
    <3>2. todo[i] \in Seq(S)
      BY <2>1, <3>1
    <3>3. todo[i][1] \in S
      BY <1>1, <3>2
    <3> QED
      BY <3>1, <3>3
  <2> QED
    BY <2>2
<1>6. TodoInv'
  <2>1. \A j \in Nodes : todo'[j] = IF j = i THEN Tail(todo[j]) ELSE todo[j]
    BY <1>1 DEF GossipInv, TodoInv
  <2>2. todo' = [j \in Nodes |-> todo'[j]]
    BY <1>1 DEF GossipInv, TodoInv
  <2>3. ASSUME NEW j \in Nodes PROVE todo'[j] \in Seq(({-1} \cup Nodes) \X Known(j)')
    <3>1. todo[j] \in Seq(({-1} \cup Nodes) \X Known(j)')
      BY <1>3 DEF GossipInv, TodoInv
    <3>2. CASE j = i
      <4>1. PICK S : S = ({-1} \cup Nodes) \X Known(j)'
        OBVIOUS
      <4>2. todo[j] \in Seq(S)
        BY <3>1, <4>1
      <4>3. Tail(todo[j]) \in Seq(S)
        BY <1>1, <3>2, <4>2
      <4> QED
        BY <2>1, <3>2, <4>1, <4>3
    <3>3. CASE j # i
      BY <2>1, <3>1, <3>3
    <3> QED
      BY <3>2, <3>3
  <2> QED
    BY <2>2, <2>3 DEF TodoInv
<1>7. WireInv'
  <2> HIDE DEF t, o
  <2>1. \A j \in Nodes, h \in Nodes :
          wire'[j][h] = IF j = i /\ h \in Recipients(i, t) THEN Append(wire[j][h], o)
                        ELSE wire[j][h]
    BY <1>1 DEF GossipInv, WireInv
  <2>2. wire' = [j \in Nodes |-> [h \in Nodes |-> wire'[j][h]]]
    BY <1>1 DEF GossipInv, WireInv
  <2>3. Recipients(i, t) \subseteq clientLink[i]
    BY DEF Recipients
  <2>4. ASSUME NEW j \in Nodes, NEW h \in Nodes
        PROVE  wire'[j][h] \in Seq(Known(j)') /\ (h \notin clientLink'[j] => wire'[j][h] = <<>>)
    <3>1. /\ wire[j][h] \in Seq(Known(j)) /\ (h \notin clientLink[j] => wire[j][h] = <<>>)
          /\ Known(j)' = Known(j) /\ clientLink' = clientLink
      BY <1>2, <1>3 DEF GossipInv, WireInv
    <3>2. CASE j = i /\ h \in Recipients(i, t)
      <4>1. Append(wire[j][h], o) \in Seq(Known(j))
        BY <1>5, <3>1, <3>2, AppendProperties
      <4> QED
        BY <2>1, <2>3, <3>1, <3>2, <4>1
    <3>3. CASE ~(j = i /\ h \in Recipients(i, t))
      <4>1. wire'[j][h] = wire[j][h]
        BY <2>1, <3>3
      <4> QED
        BY <3>1, <4>1
    <3> QED
      BY <3>2, <3>3
  <2> QED
    BY <2>2, <2>4 DEF WireInv
<1>8. HandedInv'
  BY <1>2, <1>3 DEF HandedInv, GossipInv
<1> QED
  BY <1>4, <1>6, <1>7, <1>8 DEF GossipInv

\* A message of i comes to server j: it hands over what is new, and i has it.
LEMMA ArriveKeeps ==
  ASSUME GossipAssumption, GossipInv, NEW i \in Nodes, NEW j \in Nodes, Arrive(j, i)
  PROVE  GossipInv'
<1> DEFINE o == Head(wire[i][j])
           copies == SetToSeq({<<l, o>> : l \in serverLink[j]})
<1>1. /\ wire[i][j] # <<>>
      /\ received' = [received EXCEPT ![j] = @ \cup {o}]
      /\ handed' = IF o \notin received[j]
                   THEN [handed EXCEPT ![j] = Append(@, <<i, o>>)] ELSE handed
      /\ forwarded' = [forwarded EXCEPT ![j] = @ \cup {o}]
      /\ todo' = IF o \in forwarded[j] THEN todo ELSE [todo EXCEPT ![j] = @ \o copies]
      /\ wire' = [wire EXCEPT ![i][j] = Tail(@)]
  BY DEF Arrive, NewTo, Announced, ForwardedBy
<1>2. UNCHANGED <<clientLink, serverLink, pending>>
  BY DEF Arrive
<1>3. o \in Known(i) /\ o \in Texts
  <2>1. wire[i][j] \in Seq(Known(i))
    BY DEF GossipInv, WireInv
  <2>2. o \in Known(i)
    BY <1>1, <2>1
  <2> QED
    BY <2>2 DEF Known
<1>4. serverLink[j] \in SUBSET Nodes
  BY DEF GossipInv, LinksInv
<1> HIDE DEF o
<1>5. /\ \A h \in Nodes : received'[h] = IF h = j THEN received[h] \cup {o} ELSE received[h]
      /\ received' \in [Nodes -> SUBSET Texts] /\ forwarded' \in [Nodes -> SUBSET Texts]
  BY <1>1, <1>3 DEF GossipInv, LinksInv
<1>6. \A h \in Nodes : Known(h) \subseteq Known(h)' /\ Announceable(h) \subseteq Announceable(h)'
  BY <1>2, <1>5, KnownGrows
<1>7. LinksInv'
  BY <1>2, <1>5 DEF LinksInv, GossipInv
<1>8. TodoInv'
  <2>1. o \in Known(j)'
    BY <1>3, <1>5 DEF Known
  <2>2. copies \in Seq(({-1} \cup Nodes) \X Known(j)')
    BY <1>4, <2>1, CopiesAreSeq
  <2> HIDE DEF copies
  <2>3. \A h \in Nodes : todo'[h] = IF h = j /\ o \notin forwarded[j] THEN todo[h] \o copies
                                    ELSE todo[h]
    BY <1>1 DEF GossipInv, TodoInv
  <2>4. todo' = [h \in Nodes |-> todo'[h]]
    BY <1>1 DEF GossipInv, TodoInv
  <2>5. ASSUME NEW h \in Nodes PROVE todo'[h] \in Seq(({-1} \cup Nodes) \X Known(h)')
    <3>1. todo[h] \in Seq(({-1} \cup Nodes) \X Known(h)')
      <4>1. ({-1} \cup Nodes) \X Known(h) \subseteq ({-1} \cup Nodes) \X Known(h)'
        BY <1>6
      <4>2. todo[h] \in Seq(({-1} \cup Nodes) \X Known(h))
        BY DEF GossipInv, TodoInv
      <4> QED
        BY <4>1, <4>2, SeqMonotonic
    <3>2. CASE h = j /\ o \notin forwarded[j]
      <4>1. PICK S : S = ({-1} \cup Nodes) \X Known(h)'
        OBVIOUS
      <4>2. todo[h] \in Seq(S) /\ copies \in Seq(S)
        BY <2>2, <3>1, <3>2, <4>1
      <4>3. todo[h] \o copies \in Seq(S)
        BY <4>2, ConcatProperties
      <4> QED
        BY <2>3, <3>2, <4>1, <4>3
    <3>3. CASE ~(h = j /\ o \notin forwarded[j])
      BY <2>3, <3>1, <3>3
    <3> QED
      BY <3>2, <3>3
  <2> QED
    BY <2>4, <2>5 DEF TodoInv
<1>9. WireInv'
  <2>1. \A h \in Nodes, g \in Nodes :
          wire'[h][g] = IF h = i /\ g = j THEN Tail(wire[h][g]) ELSE wire[h][g]
    BY <1>1 DEF GossipInv, WireInv
  <2>2. wire' = [h \in Nodes |-> [g \in Nodes |-> wire'[h][g]]]
    BY <1>1 DEF GossipInv, WireInv
  <2>3. ASSUME NEW h \in Nodes, NEW g \in Nodes
        PROVE  wire'[h][g] \in Seq(Known(h)') /\ (g \notin clientLink'[h] => wire'[h][g] = <<>>)
    <3>1. /\ wire[h][g] \in Seq(Known(h)) /\ (g \notin clientLink[h] => wire[h][g] = <<>>)
          /\ clientLink' = clientLink
      BY <1>2 DEF GossipInv, WireInv
    <3>2. wire[h][g] \in Seq(Known(h)')
      BY <1>6, <3>1, SeqMonotonic
    <3>3. CASE h = i /\ g = j
      <4>1. Tail(wire[h][g]) \in Seq(Known(h)') /\ g \in clientLink[h]
        BY <1>1, <3>1, <3>2, <3>3
      <4> QED
        BY <2>1, <3>1, <3>3, <4>1
    <3>4. CASE ~(h = i /\ g = j)
      <4>1. wire'[h][g] = wire[h][g]
        BY <2>1, <3>4
      <4> QED
        BY <3>1, <3>2, <4>1
    <3> QED
      BY <3>3, <3>4
  <2> QED
    BY <2>2, <2>3 DEF WireInv
<1>10. HandedInv'
  <2>1. \A h \in Nodes : /\ handed[h] \in Seq(Announceable(h)') /\ Distinct(handed[h])
                         /\ TextsOf(handed[h]) = received[h]
    <3> SUFFICES ASSUME NEW h \in Nodes PROVE handed[h] \in Seq(Announceable(h)')
      BY DEF GossipInv, HandedInv
    <3>1. handed[h] \in Seq(Announceable(h))
      BY DEF GossipInv, HandedInv
    <3> QED
      BY <1>6, <3>1, SeqMonotonic
  <2>2. handed' = [h \in Nodes |-> handed'[h]]
    BY <1>1 DEF GossipInv, HandedInv
  <2>3. CASE o \in received[j]
    <3>1. handed' = handed
      BY <1>1, <2>3
    <3>2. \A h \in Nodes : received'[h] = received[h]
      BY <1>5, <2>3
    <3> QED
      BY <2>1, <2>2, <3>1, <3>2 DEF HandedInv
  <2>4. CASE o \notin received[j]
    <3>1. \A h \in Nodes : handed'[h] = IF h = j THEN Append(handed[h], <<i, o>>) ELSE handed[h]
      BY <1>1, <2>4 DEF GossipInv, HandedInv
    <3>2. <<i, o>> \in Announceable(j)'
      <4>1. CASE <<i, o>> \in Sources \ pending
        BY <1>2, <1>3, <4>1 DEF Announceable
      <4>2. CASE <<i, o>> \notin Sources \ pending
        <5>1. o \in received[i] /\ i # j
          BY <1>3, <2>4, <4>2 DEF Known
        <5>2. o \in received'[i]
          BY <1>5, <5>1
        <5> QED
          BY <1>3, <5>1, <5>2 DEF Announceable
      <4> QED
        BY <4>1, <4>2
    <3>3. ASSUME NEW h \in Nodes
          PROVE  /\ handed'[h] \in Seq(Announceable(h)') /\ Distinct(handed'[h])
                 /\ TextsOf(handed'[h]) = received'[h]
      <4>1. CASE h = j
        <5>1. PICK S : S = Announceable(j)'
          OBVIOUS
        <5>2. PICK e : e = <<i, o>>
          OBVIOUS
        <5>3. handed[j] \in Seq(S) /\ e \in S /\ Distinct(handed[j]) /\ e[2] = o
          BY <2>1, <3>2, <5>1, <5>2
        <5>4. e[2] \notin TextsOf(handed[j])
          BY <2>1, <2>4, <5>3
        <5>5. /\ Append(handed[j], e) \in Seq(S) /\ Distinct(Append(handed[j], e))
              /\ TextsOf(Append(handed[j], e)) = TextsOf(handed[j]) \cup {e[2]}
          BY <5>3, <5>4, OneMoreText
        <5>6. handed'[h] = Append(handed[j], e) /\ received'[h] = TextsOf(handed[j]) \cup {e[2]}
          BY <1>5, <2>1, <3>1, <4>1, <5>2, <5>3
        <5> QED
          BY <4>1, <5>1, <5>5, <5>6
      <4>2. CASE h # j
        <5>1. handed'[h] = handed[h] /\ received'[h] = received[h]
          BY <1>5, <3>1, <4>2
        <5> QED
          BY <2>1, <5>1
      <4> QED
        BY <4>1, <4>2
    <3> QED
      BY <2>2, <3>3 DEF HandedInv
  <2> QED
    BY <2>3, <2>4
<1> QED
  BY <1>7, <1>8, <1>9, <1>10 DEF GossipInv

\* The invariant of the gossip network.
LEMMA GossipInvariant ==
  ASSUME GossipAssumption
  PROVE  Spec => []GossipInv
<1>1. Init => GossipInv
  BY GossipStarts
<1>2. GossipInv /\ [Next]_vars => GossipInv'
  <2> SUFFICES ASSUME GossipInv, [Next]_vars PROVE GossipInv'
    OBVIOUS
  <2>1. ASSUME NEW i \in Nodes, Broadcast(i) PROVE GossipInv'
    BY <2>1, BroadcastKeeps
  <2>2. ASSUME NEW i \in Nodes, Dispatch(i) PROVE GossipInv'
    BY <2>2, DispatchKeeps
  <2>3. ASSUME NEW i \in Nodes, NEW j \in Nodes, Arrive(i, j) PROVE GossipInv'
    BY <2>3, ArriveKeeps
  <2>4. CASE UNCHANGED vars
    <3>1. UNCHANGED <<clientLink, serverLink, todo, wire, received, forwarded, handed, pending>>
      BY <2>4 DEF vars
    <3>2. \A i \in Nodes : Known(i)' = Known(i) /\ Announceable(i)' = Announceable(i)
      BY <3>1 DEF Known, Announceable
    <3>3. LinksInv'
      BY <3>1 DEF GossipInv, LinksInv
    <3>4. TodoInv'
      BY <3>1, <3>2 DEF GossipInv, TodoInv
    <3>5. WireInv'
      BY <3>1, <3>2 DEF GossipInv, WireInv
    <3>6. HandedInv'
      BY <3>1, <3>2 DEF GossipInv, HandedInv
    <3> QED
      BY <3>3, <3>4, <3>5, <3>6 DEF GossipInv
  <2> QED
    BY <2>1, <2>2, <2>3, <2>4 DEF Next
<1> QED
  BY <1>1, <1>2, PTL DEF Spec

-----------------------------------------------------------------------------
(* What the network promises *)

\* Types, and a client sends along its links alone.
THEOREM GossipTypes ==
  ASSUME GossipAssumption
  PROVE  Spec => []TypeOK
<1>1. GossipInv => TypeOK
  <2> SUFFICES ASSUME GossipInv PROVE TypeOK
    OBVIOUS
  <2>1. pending \subseteq Sources
    BY DEF GossipInv, LinksInv
  <2>2. ASSUME NEW i \in Nodes
        PROVE  /\ todo[i] \in Seq(({-1} \cup Nodes) \X Texts)
               /\ handed[i] \in Seq(Nodes \X Texts)
               /\ received[i] \subseteq Texts /\ forwarded[i] \subseteq Texts
               /\ \A j \in Nodes \ clientLink[i] : wire[i][j] = <<>>
    <3>1. Known(i) \subseteq Texts /\ Announceable(i) \subseteq Nodes \X Texts
      BY DEF Known, Announceable
    <3>2. ({-1} \cup Nodes) \X Known(i) \subseteq ({-1} \cup Nodes) \X Texts
      BY <3>1
    <3>3. todo[i] \in Seq(({-1} \cup Nodes) \X Known(i)) /\ handed[i] \in Seq(Announceable(i))
      BY DEF GossipInv, TodoInv, HandedInv
    <3>4. todo[i] \in Seq(({-1} \cup Nodes) \X Texts)
      BY <3>2, <3>3, SeqMonotonic
    <3>5. handed[i] \in Seq(Nodes \X Texts)
      BY <3>1, <3>3, SeqMonotonic
    <3>6. /\ received[i] \subseteq Texts /\ forwarded[i] \subseteq Texts
          /\ \A j \in Nodes \ clientLink[i] : wire[i][j] = <<>>
      BY DEF GossipInv, LinksInv, WireInv
    <3> QED
      BY <3>4, <3>5, <3>6
  <2> QED
    BY <2>1, <2>2 DEF TypeOK
<1> QED
  BY <1>1, GossipInvariant, PTL

\* Whatever links are drawn and however many nodes broadcast, the server hands
\* a text to its node once.
THEOREM TextsHandedOnce ==
  ASSUME GossipAssumption
  PROVE  Spec => []HandedOnce
<1>1. GossipInv => HandedOnce
  BY DEF GossipInv, HandedInv, HandedOnce, Distinct
<1> QED
  BY <1>1, GossipInvariant, PTL

\* And it announces the text with a neighbour that has it: as the source or
\* because it was handed it.
THEOREM TextsSourced ==
  ASSUME GossipAssumption
  PROVE  Spec => []Sourced
<1>1. GossipInv => Sourced
  <2> SUFFICES ASSUME GossipInv, NEW i \in Nodes, NEW m \in Range(handed[i]),
                      m \notin Sources \ pending
               PROVE  m[1] # i /\ \E e \in Range(handed[m[1]]) : e[2] = m[2]
    BY DEF Sourced
  <2>1. PICK S : S = Announceable(i)
    OBVIOUS
  <2>2. handed[i] \in Seq(S)
    BY <2>1 DEF GossipInv, HandedInv
  <2>3. m \in Announceable(i)
    BY <2>1, <2>2 DEF Range
  <2>4. m[1] \in Nodes /\ m[1] # i /\ m[2] \in received[m[1]]
    BY <2>3 DEF Announceable
  <2>5. m[2] \in TextsOf(handed[m[1]])
    BY <2>4 DEF GossipInv, HandedInv
  <2>6. PICK a \in DOMAIN handed[m[1]] : handed[m[1]][a][2] = m[2]
    BY <2>5 DEF TextsOf
  <2>7. handed[m[1]][a] \in Range(handed[m[1]])
    BY DEF Range
  <2> QED
    BY <2>4, <2>6, <2>7
<1> QED
  BY <1>1, GossipInvariant, PTL
=============================================================================
