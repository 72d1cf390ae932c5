------------------------- MODULE SocketNetwork_proofs -------------------------
(***************************************************************************)
(* Theorems about SocketNetwork for any number of nodes, any messages, any  *)
(* connections that break and any nodes that finish first.                  *)
(***************************************************************************)
EXTENDS SocketNetwork, CountingLemmas, SequenceTheorems

-----------------------------------------------------------------------------
(* What Chosen takes from a sequence of pairs *)

\* chosen of Chosen, up to n.
IsChosen(f, s, T, n) ==
  f = [k \in 0 .. n |-> IF k = 0 THEN <<>>
                        ELSE IF s[k][1] \in T THEN Append(f[k - 1], s[k][2]) ELSE f[k - 1]]

\* The recursion has a solution.
LEMMA ChosenExists ==
  ASSUME NEW s, NEW T, NEW n \in Nat
  PROVE  \E f : IsChosen(f, s, T, n)
<1> DEFINE V == {k \in Nat : \E f : IsChosen(f, s, T, k)}
<1>1. 0 \in V
  <2>1. IsChosen([k \in 0 .. 0 |-> <<>>], s, T, 0)
    BY DEF IsChosen
  <2> QED
    BY <2>1
<1>2. ASSUME NEW m \in V PROVE m + 1 \in V
  <2>1. PICK f : IsChosen(f, s, T, m)
    OBVIOUS
  <2> DEFINE last == IF s[m + 1][1] \in T THEN Append(f[m], s[m + 1][2]) ELSE f[m]
             g == [k \in 0 .. m + 1 |-> IF k = m + 1 THEN last ELSE f[k]]
             next(h, k) == IF k = 0 THEN <<>>
                           ELSE IF s[k][1] \in T THEN Append(h[k - 1], s[k][2]) ELSE h[k - 1]
  <2>2. \A k \in 0 .. m : g[k] = f[k]
    OBVIOUS
  <2>3. ASSUME NEW k \in 0 .. m + 1 PROVE g[k] = next(g, k)
    <3>1. CASE k = m + 1
      <4>1. k # 0 /\ k - 1 = m /\ g[k - 1] = f[m] /\ g[k] = last
        BY <3>1, <2>2
      <4> HIDE DEF g
      <4> QED
        BY <3>1, <4>1
    <3>2. CASE k # m + 1
      <4>1. k \in 0 .. m /\ g[k] = f[k] /\ (k # 0 => k - 1 \in 0 .. m /\ g[k - 1] = f[k - 1])
        BY <3>2, <2>2
      <4>2. f[k] = next(f, k)
        BY <2>1, <4>1 DEF IsChosen
      <4> HIDE DEF g
      <4> QED
        BY <4>1, <4>2
    <3> QED
      BY <3>1, <3>2
  <2>4. IsChosen(g, s, T, m + 1)
    BY <2>3 DEF IsChosen
  <2> QED
    BY <2>4
<1> HIDE DEF V
<1>3. V = Nat
  BY <1>1, <1>2, SetInduction DEF V
<1> QED
  BY <1>3 DEF V

\* Its defining equations.
LEMMA ChosenSteps ==
  ASSUME NEW f, NEW s, NEW T, NEW n \in Nat, IsChosen(f, s, T, n)
  PROVE  /\ f[0] = <<>>
         /\ \A k \in 1 .. n :
              f[k] = IF s[k][1] \in T THEN Append(f[k - 1], s[k][2]) ELSE f[k - 1]
<1>1. \A k \in 1 .. n : k \in 0 .. n /\ k # 0
  OBVIOUS
<1>2. 0 \in 0 .. n
  OBVIOUS
<1> QED
  BY <1>1, <1>2 DEF IsChosen

\* Chosen is the last value of a solution.
LEMMA ChosenIs ==
  ASSUME NEW D, NEW s \in Seq(D), NEW T
  PROVE  \E f : IsChosen(f, s, T, Len(s)) /\ Chosen(s, T) = f[Len(s)]
<1>1. Len(s) \in Nat
  BY LenProperties
<1> DEFINE f == CHOOSE g : IsChosen(g, s, T, Len(s))
<1>2. IsChosen(f, s, T, Len(s))
  BY <1>1, ChosenExists
<1>3. Chosen(s, T) = f[Len(s)]
  BY DEF IsChosen, Chosen
<1> QED
  BY <1>2, <1>3

\* Sequences of pairs; kept folded where the lemmas are cited.
PairsOf(D, M) == Seq(D \X M)

\* What is chosen from pairs in D \X M is a sequence in M.
LEMMA ChosenType ==
  ASSUME NEW D, NEW M, NEW s \in PairsOf(D, M), NEW T
  PROVE  Chosen(s, T) \in Seq(M)
<1> USE DEF PairsOf
<1>1. Len(s) \in Nat /\ \A k \in 1 .. Len(s) : s[k] \in D \X M
  BY LenProperties, ElementOfSeq
<1>2. PICK f : IsChosen(f, s, T, Len(s)) /\ Chosen(s, T) = f[Len(s)]
  BY ChosenIs
<1> DEFINE V == {k \in Nat : k <= Len(s) => f[k] \in Seq(M)}
<1>3. 0 \in V
  <2>1. f[0] = <<>>
    BY <1>1, <1>2, ChosenSteps
  <2> QED
    BY <2>1, EmptySeq
<1>4. ASSUME NEW m \in V PROVE m + 1 \in V
  <2> SUFFICES ASSUME m + 1 <= Len(s) PROVE f[m + 1] \in Seq(M)
    OBVIOUS
  <2>1. m + 1 \in 1 .. Len(s) /\ (m + 1) - 1 = m /\ f[m] \in Seq(M)
    BY <1>1
  <2>2. f[m + 1] = IF s[m + 1][1] \in T THEN Append(f[m], s[m + 1][2]) ELSE f[m]
    BY <1>1, <1>2, <2>1, ChosenSteps
  <2>3. s[m + 1][2] \in M
    BY <1>1, <2>1
  <2> QED
    BY <2>1, <2>2, <2>3, AppendProperties
<1> HIDE DEF V
<1>5. V = Nat
  BY <1>3, <1>4, SetInduction DEF V
<1>6. f[Len(s)] \in Seq(M)
  BY <1>1, <1>5 DEF V
<1> QED
  BY <1>2, <1>6

\* Nothing is chosen from nothing.
LEMMA ChosenEmpty ==
  ASSUME NEW T
  PROVE  Chosen(<<>>, T) = <<>>
<1>1. PICK f : IsChosen(f, <<>>, T, 0) /\ Chosen(<<>>, T) = f[0]
  <2>1. <<>> \in Seq({}) /\ Len(<<>>) = 0
    BY EmptySeq
  <2> QED
    BY <2>1, ChosenIs
<1> QED
  BY <1>1, ChosenSteps

\* From one pair its second component is chosen, or nothing.
LEMMA ChosenOne ==
  ASSUME NEW D, NEW M, NEW t \in D, NEW o \in M, NEW T
  PROVE  Chosen(<<<<t, o>>>>, T) = IF t \in T THEN <<o>> ELSE <<>>
<1> DEFINE s == <<<<t, o>>>>
<1>1. s \in Seq(D \X M) /\ Len(s) = 1 /\ s[1][1] = t /\ s[1][2] = o
  OBVIOUS
<1> HIDE DEF s
<1>2. PICK f : IsChosen(f, s, T, 1) /\ Chosen(s, T) = f[1]
  BY <1>1, ChosenIs
<1>3. f[0] = <<>> /\ f[1] = IF s[1][1] \in T THEN Append(f[0], s[1][2]) ELSE f[0]
  <2>1. 1 \in 1 .. 1 /\ 1 - 1 = 0
    OBVIOUS
  <2> QED
    BY <1>2, <2>1, ChosenSteps
<1>4. Append(<<>>, o) = <<o>>
  OBVIOUS
<1> QED
  BY <1>1, <1>2, <1>3, <1>4 DEF s

\* What is chosen from s \o t is chosen from s, then from t.
LEMMA ChosenConcat ==
  ASSUME NEW D, NEW M, NEW s \in PairsOf(D, M), NEW t \in PairsOf(D, M), NEW T
  PROVE  Chosen(s \o t, T) = Chosen(s, T) \o Chosen(t, T)
<1> USE DEF PairsOf
<1> DEFINE u == s \o t
           l == Len(s)
<1>1. /\ l \in Nat /\ Len(t) \in Nat /\ u \in Seq(D \X M) /\ Len(u) = l + Len(t)
      /\ \A k \in 1 .. l : u[k] = s[k]
      /\ \A k \in 1 .. Len(t) : u[l + k] = t[k] /\ t[k] \in D \X M
  <2>1. l \in Nat /\ Len(t) \in Nat
    BY LenProperties
  <2>2. /\ u \in Seq(D \X M) /\ Len(u) = l + Len(t)
        /\ \A k \in 1 .. l + Len(t) : u[k] = IF k <= l THEN s[k] ELSE t[k - l]
    BY ConcatProperties
  <2> HIDE DEF u
  <2>3. \A k \in 1 .. l : u[k] = s[k]
    BY <2>1, <2>2
  <2>4. ASSUME NEW k \in 1 .. Len(t) PROVE u[l + k] = t[k] /\ t[k] \in D \X M
    <3>1. l + k \in 1 .. l + Len(t) /\ ~(l + k <= l) /\ (l + k) - l = k
      BY <2>1
    <3> QED
      BY <2>2, <3>1, ElementOfSeq
  <2> QED
    BY <2>1, <2>2, <2>3, <2>4
<1> HIDE DEF u
<1>2. PICK f : IsChosen(f, s, T, l) /\ Chosen(s, T) = f[l]
  BY ChosenIs
<1>3. PICK g : IsChosen(g, t, T, Len(t)) /\ Chosen(t, T) = g[Len(t)]
  BY ChosenIs
<1>4. PICK h : IsChosen(h, u, T, Len(u)) /\ Chosen(u, T) = h[Len(u)]
  BY <1>1, ChosenIs
<1> HIDE DEF l
<1>5. /\ f[0] = <<>>
      /\ \A k \in 1 .. l : f[k] = IF s[k][1] \in T THEN Append(f[k - 1], s[k][2]) ELSE f[k - 1]
  BY <1>1, <1>2, ChosenSteps
<1>6. /\ g[0] = <<>>
      /\ \A k \in 1 .. Len(t) :
           g[k] = IF t[k][1] \in T THEN Append(g[k - 1], t[k][2]) ELSE g[k - 1]
  BY <1>1, <1>3, ChosenSteps
<1>7. /\ h[0] = <<>>
      /\ \A k \in 1 .. l + Len(t) :
           h[k] = IF u[k][1] \in T THEN Append(h[k - 1], u[k][2]) ELSE h[k - 1]
  <2>1. Len(u) \in Nat
    BY <1>1
  <2> QED
    BY <1>1, <1>4, <2>1, ChosenSteps
<1>8. h[l] = f[l]
  <2> DEFINE V == {k \in Nat : k <= l => h[k] = f[k]}
  <2>1. 0 \in V
    BY <1>5, <1>7
  <2>2. ASSUME NEW m \in V PROVE m + 1 \in V
    <3> SUFFICES ASSUME m + 1 <= l PROVE h[m + 1] = f[m + 1]
      OBVIOUS
    <3>1. m + 1 \in 1 .. l /\ m + 1 \in 1 .. l + Len(t) /\ (m + 1) - 1 = m /\ h[m] = f[m]
      BY <1>1
    <3>2. u[m + 1] = s[m + 1]
      BY <1>1, <3>1
    <3> QED
      BY <1>5, <1>7, <3>1, <3>2
  <2> HIDE DEF V
  <2>3. V = Nat
    BY <2>1, <2>2, SetInduction DEF V
  <2> QED
    BY <1>1, <2>3 DEF V
<1>9. f[l] \in Seq(M) /\ f[l] \o <<>> = f[l]
  <2>1. f[l] \in Seq(M)
    <3>1. Chosen(s, T) \in Seq(M)
      BY ChosenType
    <3> QED
      BY <1>2, <3>1
  <2> QED
    BY <2>1, ConcatEmptySeq
<1>10. g[Len(t)] \in Seq(M) /\ h[l + Len(t)] = f[l] \o g[Len(t)]
  <2> DEFINE Good(k) == g[k] \in Seq(M) /\ h[l + k] = f[l] \o g[k]
             V == {k \in Nat : k <= Len(t) => Good(k)}
  <2>1. Good(0)
    <3>1. l + 0 = l /\ g[0] \in Seq(M)
      BY <1>1, <1>6, EmptySeq
    <3> QED
      BY <1>6, <1>8, <1>9, <3>1
  <2>2. ASSUME NEW m \in Nat, m + 1 <= Len(t), Good(m) PROVE Good(m + 1)
    <3>1. /\ m + 1 \in 1 .. Len(t) /\ l + (m + 1) \in 1 .. l + Len(t)
          /\ (m + 1) - 1 = m /\ (l + (m + 1)) - 1 = l + m
      BY <1>1, <2>2
    <3>2. u[l + (m + 1)] = t[m + 1] /\ t[m + 1][2] \in M
      BY <1>1, <3>1
    <3>3. CASE t[m + 1][1] \in T
      <4>1. /\ g[m + 1] = Append(g[m], t[m + 1][2])
            /\ h[l + (m + 1)] = Append(f[l] \o g[m], t[m + 1][2])
        <5>1. g[m + 1] = Append(g[m], t[m + 1][2])
          BY <1>6, <3>1, <3>3
        <5>2. h[l + (m + 1)] = Append(h[l + m], u[l + (m + 1)][2])
          BY <1>7, <3>1, <3>2, <3>3
        <5> QED
          BY <2>2, <3>2, <5>1, <5>2
      <4>2. g[m + 1] \in Seq(M)
        BY <2>2, <3>2, <4>1, AppendProperties
      <4>3. Append(f[l] \o g[m], t[m + 1][2]) = f[l] \o Append(g[m], t[m + 1][2])
        <5>1. PICK a \in Seq(M), b \in Seq(M), o \in M : a = f[l] /\ b = g[m] /\ o = t[m + 1][2]
          BY <1>9, <2>2, <3>2
        <5>2. <<o>> \in Seq(M) /\ a \o b \in Seq(M)
          BY ConcatProperties
        <5>3. Append(a \o b, o) = (a \o b) \o <<o>> /\ Append(b, o) = b \o <<o>>
          BY <5>2, AppendIsConcat
        <5>4. Append(a \o b, o) = a \o Append(b, o)
          BY <5>2, <5>3, ConcatAssociative
        <5> QED
          BY <5>1, <5>4
      <4> QED
        BY <4>1, <4>2, <4>3
    <3>4. CASE t[m + 1][1] \notin T
      BY <1>6, <1>7, <2>2, <3>1, <3>2, <3>4
    <3> QED
      BY <3>3, <3>4
  <2> HIDE DEF Good
  <2>3. 0 \in V
    BY <2>1
  <2>4. ASSUME NEW m \in V PROVE m + 1 \in V
    BY <1>1, <2>2
  <2> HIDE DEF V
  <2>5. V = Nat
    BY <2>3, <2>4, SetInduction DEF V
  <2>6. Good(Len(t))
    BY <1>1, <2>5 DEF V
  <2> QED
    BY <2>6 DEF Good
<1> QED
  BY <1>1, <1>2, <1>3, <1>4, <1>10 DEF u

-----------------------------------------------------------------------------
(* Concatenations and prefixes *)

\* Sequences are concatenated in any order.
InSeq(S, x, y, z) == x \in Seq(S) /\ y \in Seq(S) /\ z \in Seq(S)

AnyOrder(x, y, z) == x \o (y \o z) = (x \o y) \o z

LEMMA Associates ==
  ASSUME NEW S, NEW x, NEW y, NEW z, InSeq(S, x, y, z)
  PROVE  AnyOrder(x, y, z)
<1>1. x \in Seq(S) /\ y \in Seq(S) /\ z \in Seq(S)
  BY DEF InSeq
<1> QED
  BY <1>1, ConcatAssociative, SMTT(60) DEF AnyOrder

\* A sequence with more behind it has the sequence as a prefix.
LEMMA PrefixOf ==
  ASSUME NEW S, NEW s \in Seq(S), NEW u \in Seq(S)
  PROVE  IsPrefix(s, s \o u)
<1>1. /\ Len(s) \in Nat /\ Len(u) \in Nat /\ s \o u \in Seq(S) /\ Len(s \o u) = Len(s) + Len(u)
      /\ \A i \in 1 .. Len(s) + Len(u) : (s \o u)[i] = IF i <= Len(s) THEN s[i] ELSE u[i - Len(s)]
  BY LenProperties, ConcatProperties
<1>2. SubSeq(s \o u, 1, Len(s)) = SubSeq(s, 1, Len(s))
  BY <1>1 DEF SubSeq
<1> QED
  BY <1>1, <1>2 DEF IsPrefix

\* A prefix has the rest behind it.
LEMMA PrefixHasRest ==
  ASSUME NEW S, NEW s \in Seq(S), NEW t \in Seq(S), IsPrefix(s, t)
  PROVE  \E u \in Seq(S) : t = s \o u
<1> DEFINE u == SubSeq(t, Len(s) + 1, Len(t))
<1>1. Len(s) \in Nat /\ Len(t) \in Nat /\ Len(s) <= Len(t)
  BY LenProperties DEF IsPrefix
<1>2. u \in Seq(S)
  <2>1. \A i \in Len(s) + 1 .. Len(t) : t[i] \in S
    BY <1>1, ElementOfSeq
  <2> QED
    BY <1>1, <2>1, SubSeqProperties
<1>3. t = SubSeq(t, 1, Len(s)) \o u
  <2>1. /\ 1 \in 1 .. Len(t) + 1 /\ Len(s) \in 1 - 1 .. Len(t) /\ Len(t) \in Len(s) .. Len(t)
    BY <1>1
  <2> QED
    BY <2>1, ConcatAdjacentSubSeq, SubSeqFull
<1>4. SubSeq(t, 1, Len(s)) = s
  BY SubSeqFull DEF IsPrefix
<1> QED
  BY <1>2, <1>3, <1>4

\* A prefix stays one when the longer sequence grows.
LEMMA PrefixStays ==
  ASSUME NEW S, NEW s \in Seq(S), NEW t \in Seq(S), NEW u \in Seq(S), IsPrefix(s, t)
  PROVE  IsPrefix(s, t \o u)
<1>1. PICK v \in Seq(S) : t = s \o v
  BY PrefixHasRest
<1>2. v \o u \in Seq(S) /\ t \o u = s \o (v \o u)
  BY <1>1, ConcatAssociative, ConcatProperties
<1> QED
  BY <1>2, PrefixOf

-----------------------------------------------------------------------------
(* The inductive invariant *)

\* A client that is ready has its connections, and a node that left the wait
\* has a client that is ready.
Connected ==
  \A i \in Nodes :
    /\ i \in ready => AllConnected(i)
    /\ phase[i] # "wait" => i \in ready

\* What j was handed from i, and what is whole in the buffer and on the wire,
\* is the beginning of what i put for j, whatever became of the connection.
Ahead ==
  \A i, j \in Nodes :
    IsPrefix(handed[j][i] \o Whole(buf[j][i] \o wire[i][j]), asked[i][j])

IInv == TypeOK /\ Connected /\ NothingLost /\ Ahead

-----------------------------------------------------------------------------
(* Streams *)

\* A buffer is a stream without separators.
LEMMA BufferIsStream ==
  ASSUME NEW b \in Seq({p \in Piece : ~p[1]})
  PROVE  b \in Seq(Piece)
  BY SeqMonotonic

\* The whole messages of a stream, type and parts.
LEMMA WholeConcat ==
  ASSUME NEW b \in Seq(Piece), NEW w \in Seq(Piece)
  PROVE  /\ b \o w \in Seq(Piece)
         /\ Whole(b) \in Seq(Message) /\ Whole(w) \in Seq(Message)
         /\ Whole(b \o w) = Whole(b) \o Whole(w)
<1>1. b \o w \in Seq(Piece)
  BY ConcatProperties
<1>2. b \in PairsOf(BOOLEAN, Message) /\ w \in PairsOf(BOOLEAN, Message)
  BY DEF PairsOf, Piece
<1>3. Whole(b) \in Seq(Message) /\ Whole(w) \in Seq(Message)
  BY <1>2, ChosenType DEF Whole
<1>4. Whole(b \o w) = Whole(b) \o Whole(w)
  BY <1>2, ChosenConcat DEF Whole
<1> QED
  BY <1>1, <1>3, <1>4

\* A separator makes a message whole, its body alone does not.
LEMMA WholeOne ==
  ASSUME NEW o \in Message
  PROVE  /\ <<<<FALSE, o>>>> \in Seq(Piece) /\ Whole(<<<<FALSE, o>>>>) = <<>>
         /\ <<<<TRUE, o>>>> \in Seq(Piece) /\ Whole(<<<<TRUE, o>>>>) = <<o>>
<1>1. FALSE \in BOOLEAN /\ TRUE \in BOOLEAN /\ FALSE \notin {TRUE} /\ TRUE \in {TRUE}
  OBVIOUS
<1>2. <<FALSE, o>> \in Piece /\ <<TRUE, o>> \in Piece
  BY <1>1 DEF Piece
<1>3. PICK D, T : D = BOOLEAN /\ T = {TRUE}
  OBVIOUS
<1>4. ASSUME NEW x \in D
      PROVE  Chosen(<<<<x, o>>>>, T) = IF x \in T THEN <<o>> ELSE <<>>
  BY ChosenOne
<1>5. /\ Chosen(<<<<FALSE, o>>>>, T) = IF FALSE \in T THEN <<o>> ELSE <<>>
      /\ Chosen(<<<<TRUE, o>>>>, T) = IF TRUE \in T THEN <<o>> ELSE <<>>
  BY <1>1, <1>3, <1>4
<1>6. Whole(<<<<FALSE, o>>>>) = <<>> /\ Whole(<<<<TRUE, o>>>>) = <<o>>
  BY <1>1, <1>3, <1>5 DEF Whole
<1> QED
  BY <1>2, <1>6

\* A sequence of two as the concatenation of its elements, and its first part.
LEMMA ConcatOfOnes ==
  ASSUME NEW x, NEW y
  PROVE  <<x, y>> = <<x>> \o <<y>>
<1>1. <<x>> \in Seq({x, y}) /\ <<y>> \in Seq({x, y}) /\ Len(<<x>>) = 1 /\ Len(<<y>>) = 1
  OBVIOUS
<1>2. PICK u : u = <<x>> \o <<y>>
  OBVIOUS
<1>3. u \in Seq({x, y}) /\ Len(u) = 2 /\ u[1] = x /\ u[2] = y
  BY <1>1, <1>2, ConcatProperties
<1>4. u = <<x, y>>
  BY <1>3
<1> QED
  BY <1>2, <1>4

LEMMA FirstOfTwo ==
  ASSUME NEW x, NEW y
  PROVE  SubSeq(<<x, y>>, 1, 1) = <<x>>
<1> DEFINE s == <<x, y>>
<1>1. s \in Seq({x, y}) /\ Len(s) = 2 /\ s[1] = x
  OBVIOUS
<1> HIDE DEF s
<1>2. PICK u : u = SubSeq(s, 1, 1)
  OBVIOUS
<1>3. u \in Seq({x, y}) /\ Len(u) = 1 /\ u[1] = s[1]
  <2>1. 1 \in 1 .. 1 /\ 1 \in Int /\ 1 + 1 - 1 = 1
    OBVIOUS
  <2>2. \A i \in 1 .. 1 : s[i] \in {x, y}
    BY <1>1
  <2> QED
    BY <1>2, <2>1, <2>2, SubSeqProperties
<1>4. u = <<x>>
  BY <1>1, <1>3
<1> QED
  BY <1>2, <1>4 DEF s

\* sendall adds one whole message to the stream.
LEMMA SentWhole ==
  ASSUME NEW b \in Seq(Piece), NEW w \in Seq(Piece), NEW o \in Message
  PROVE  /\ w \o Pieces(o) \in Seq(Piece)
         /\ Whole(b \o (w \o Pieces(o))) = Whole(b \o w) \o <<o>>
<1> DEFINE x == <<<<FALSE, o>>>>
           y == <<<<TRUE, o>>>>
<1>1. x \in Seq(Piece) /\ y \in Seq(Piece) /\ Whole(x) = <<>> /\ Whole(y) = <<o>>
  BY WholeOne
<1>2. Pieces(o) = x \o y
  BY ConcatOfOnes DEF Pieces
<1> HIDE DEF x, y
<1>3. x \o y \in Seq(Piece) /\ Whole(x \o y) = <<>> \o <<o>>
  <2>1. Whole(x \o y) = Whole(x) \o Whole(y)
    BY <1>1, WholeConcat
  <2> QED
    BY <1>1, <2>1, ConcatProperties
<1>4. <<>> \o <<o>> = <<o>>
  OBVIOUS
<1>5. PICK z \in Seq(Piece) : z = Pieces(o) /\ Whole(z) = <<o>>
  BY <1>2, <1>3, <1>4
<1>6. w \o z \in Seq(Piece) /\ b \o w \in Seq(Piece) /\ b \o (w \o z) = (b \o w) \o z
  <2>1. w \o z \in Seq(Piece) /\ b \o w \in Seq(Piece) /\ InSeq(Piece, b, w, z)
    BY ConcatProperties DEF InSeq
  <2>2. AnyOrder(b, w, z)
    BY <2>1, Associates
  <2> QED
    BY <2>1, <2>2 DEF AnyOrder
<1>7. Whole((b \o w) \o z) = Whole(b \o w) \o Whole(z)
  BY <1>6, WholeConcat
<1> QED
  BY <1>5, <1>6, <1>7

\* A sendall that fails adds none.
LEMMA SentInPart ==
  ASSUME NEW b \in Seq(Piece), NEW w \in Seq(Piece), NEW o \in Message, NEW n \in 0 .. 1
  PROVE  /\ w \o SubSeq(Pieces(o), 1, n) \in Seq(Piece)
         /\ Whole(b \o (w \o SubSeq(Pieces(o), 1, n))) = Whole(b \o w)
<1>1. PICK z \in Seq(Piece) : z = SubSeq(Pieces(o), 1, n) /\ Whole(z) = <<>>
  <2>1. CASE n = 0
    <3>1. SubSeq(Pieces(o), 1, n) = <<>>
      BY <2>1, SubSeqEmpty
    <3>2. Whole(<<>>) = <<>>
      BY ChosenEmpty DEF Whole
    <3> QED
      BY <3>1, <3>2, EmptySeq
  <2>2. CASE n = 1
    <3>1. SubSeq(Pieces(o), 1, 1) = <<<<FALSE, o>>>>
      BY FirstOfTwo DEF Pieces
    <3> QED
      BY <2>2, <3>1, WholeOne
  <2> QED
    BY <2>1, <2>2
<1>2. w \o z \in Seq(Piece) /\ b \o w \in Seq(Piece) /\ b \o (w \o z) = (b \o w) \o z
  <2>1. w \o z \in Seq(Piece) /\ b \o w \in Seq(Piece) /\ InSeq(Piece, b, w, z)
    BY ConcatProperties DEF InSeq
  <2>2. AnyOrder(b, w, z)
    BY <2>1, Associates
  <2> QED
    BY <2>1, <2>2 DEF AnyOrder
<1>3. Whole(b \o w) \in Seq(Message) /\ Whole((b \o w) \o z) = Whole(b \o w) \o Whole(z)
  BY <1>2, WholeConcat
<1>4. Whole(b \o w) \o <<>> = Whole(b \o w)
  BY <1>3, ConcatEmptySeq
<1> QED
  BY <1>1, <1>2, <1>3, <1>4

\* recv returns the first n pieces of w: bytes is what the buffer b has then,
\* later what is still on the wire.
Received(b, w, n, bytes, later) ==
  n \in 1 .. Len(w) /\ bytes = b \o SubSeq(w, 1, n) /\ later = SubSeq(w, n + 1, Len(w))

\* Nothing is lost: the messages of bytes, then those of what stays in the
\* buffer and of what is still to come.
Parted(b, w, bytes, later) ==
  /\ bytes \in Seq(Piece) /\ later \in Seq(Piece)
  /\ Rest(bytes) \in Seq({p \in Piece : ~p[1]})
  /\ Whole(bytes) \in Seq(Message) /\ Whole(Rest(bytes) \o later) \in Seq(Message)
  /\ Whole(b \o w) = Whole(bytes) \o Whole(Rest(bytes) \o later)

\* What recv returns is cut so that nothing is lost.
LEMMA ReceivedWhole ==
  ASSUME NEW b \in Seq(Piece), NEW w \in Seq(Piece), NEW n, NEW bytes, NEW later,
         Received(b, w, n, bytes, later)
  PROVE  Parted(b, w, bytes, later)
<1> USE DEF Received
<1>1. Len(w) \in Nat /\ n \in Nat /\ n >= 1 /\ n <= Len(w) /\ \A k \in 1 .. Len(w) : w[k] \in Piece
  BY LenProperties, ElementOfSeq
<1>2. PICK now : now = SubSeq(w, 1, n)
  OBVIOUS
<1>3. now \in Seq(Piece) /\ later \in Seq(Piece)
  <2>1. \A k \in 1 .. n : w[k] \in Piece
    BY <1>1
  <2>2. \A k \in n + 1 .. Len(w) : w[k] \in Piece
    BY <1>1
  <2> QED
    BY <1>1, <1>2, <2>1, <2>2, SubSeqProperties
<1>4. w = now \o later
  <2>1. 1 \in 1 .. Len(w) + 1 /\ n \in 1 - 1 .. Len(w) /\ Len(w) \in n .. Len(w)
    BY <1>1
  <2> QED
    BY <1>2, <2>1, ConcatAdjacentSubSeq, SubSeqFull
<1>5. bytes \in Seq(Piece) /\ b \o w = bytes \o later
  <2>1. b \o now \in Seq(Piece)
    BY <1>3, ConcatProperties
  <2>2. PICK l \in Seq(Piece) : l = later
    BY <1>3
  <2>3. b \o (now \o l) = (b \o now) \o l
    <3>1. InSeq(Piece, b, now, l)
      BY <1>3 DEF InSeq
    <3>2. AnyOrder(b, now, l)
      BY <3>1, Associates
    <3> QED
      BY <3>2 DEF AnyOrder
  <2> QED
    BY <1>2, <1>4, <2>1, <2>2, <2>3
<1>6. Rest(bytes) \in Seq({p \in Piece : ~p[1]}) /\ Whole(Rest(bytes)) = <<>>
  <2>1. CASE bytes = <<>> \/ Last(bytes)[1]
    <3>1. Rest(bytes) = <<>>
      BY <2>1 DEF Rest
    <3> QED
      BY <3>1, EmptySeq, ChosenEmpty DEF Whole
  <2>2. CASE bytes # <<>> /\ ~Last(bytes)[1]
    <3>1. Rest(bytes) = <<Last(bytes)>>
      BY <2>2 DEF Rest
    <3>2. Last(bytes) \in Piece
      <4>1. Len(bytes) \in Nat /\ Len(bytes) # 0
        BY <1>5, <2>2, EmptySeq, LenProperties
      <4>2. bytes[Len(bytes)] \in Piece
        BY <1>5, <4>1, ElementOfSeq
      <4> QED
        BY <4>2 DEF Last
    <3>3. PICK x \in BOOLEAN, o \in Message : Last(bytes) = <<x, o>>
      BY <3>2 DEF Piece
    <3>4. x = FALSE
      BY <2>2, <3>3
    <3>5. Rest(bytes) = <<<<FALSE, o>>>>
      BY <3>1, <3>3, <3>4
    <3>6. Last(bytes) \in {p \in Piece : ~p[1]}
      BY <2>2, <3>2
    <3>7. Whole(Rest(bytes)) = <<>>
      BY <3>5, WholeOne
    <3>8. PICK P : P = {p \in Piece : ~p[1]}
      OBVIOUS
    <3>9. PICK e \in P : e = Last(bytes)
      BY <3>6, <3>8
    <3>10. <<e>> \in Seq(P)
      OBVIOUS
    <3> QED
      BY <3>1, <3>7, <3>8, <3>9, <3>10
  <2> QED
    BY <2>1, <2>2
<1>7. PICK r \in Seq(Piece) : r = Rest(bytes) /\ Whole(r) = <<>>
  BY <1>6, BufferIsStream
<1>8. /\ Whole(bytes \o later) = Whole(bytes) \o Whole(later)
      /\ Whole(bytes) \in Seq(Message) /\ Whole(later) \in Seq(Message)
      /\ Whole(r \o later) = Whole(r) \o Whole(later)
  BY <1>3, <1>5, <1>7, WholeConcat
<1>9. Whole(r \o later) = Whole(later)
  BY <1>7, <1>8, ConcatEmptySeq
<1> QED
  BY <1>3, <1>5, <1>6, <1>7, <1>8, <1>9 DEF Parted

-----------------------------------------------------------------------------
(* Queues *)

\* A queue is its head and what follows.
LEMMA HeadThenTail ==
  ASSUME NEW S, NEW s \in Seq(S), s # <<>>
  PROVE  s = <<Head(s)>> \o Tail(s)
<1>1. Head(s) \in S /\ Tail(s) \in Seq(S) /\ Len(Tail(s)) = Len(s) - 1 /\ Head(s) = s[1]
      /\ \A i \in 1 .. Len(Tail(s)) : Tail(s)[i] = s[i + 1]
  BY HeadTailProperties
<1>2. Len(s) \in Nat /\ Len(s) # 0
  BY EmptySeq, LenProperties
<1>3. PICK h \in S, r \in Seq(S) : h = Head(s) /\ r = Tail(s)
  BY <1>1
<1>4. PICK u : u = <<h>> \o r
  OBVIOUS
<1>5. <<h>> \in Seq(S) /\ Len(<<h>>) = 1 /\ <<h>>[1] = h
  OBVIOUS
<1>6. /\ u \in Seq(S) /\ Len(u) = 1 + Len(r)
      /\ \A i \in 1 .. 1 + Len(r) : u[i] = IF i <= 1 THEN <<h>>[i] ELSE r[i - 1]
  BY <1>4, <1>5, ConcatProperties
<1>7. \A i \in 1 .. Len(s) : u[i] = s[i]
  BY <1>1, <1>2, <1>3, <1>5, <1>6
<1>8. u = s
  BY <1>1, <1>2, <1>3, <1>6, <1>7, SeqEqual
<1> QED
  BY <1>3, <1>4, <1>8

\* Putting a pair at the end of a queue, and taking one from its front.
LEMMA ChosenAppend ==
  ASSUME NEW D, NEW M, NEW s \in PairsOf(D, M), NEW t \in D, NEW o \in M, NEW T
  PROVE  /\ Append(s, <<t, o>>) \in PairsOf(D, M)
         /\ Chosen(Append(s, <<t, o>>), T)
              = IF t \in T THEN Chosen(s, T) \o <<o>> ELSE Chosen(s, T)
<1> DEFINE x == <<<<t, o>>>>
<1>1. /\ x \in PairsOf(D, M) /\ Append(s, <<t, o>>) = s \o x
      /\ Append(s, <<t, o>>) \in PairsOf(D, M)
  BY AppendIsConcat, AppendProperties DEF PairsOf
<1>2. Chosen(x, T) = IF t \in T THEN <<o>> ELSE <<>>
  BY ChosenOne
<1> HIDE DEF x
<1>3. Chosen(s \o x, T) = Chosen(s, T) \o Chosen(x, T)
  BY <1>1, ChosenConcat
<1>4. Chosen(s, T) \o <<>> = Chosen(s, T)
  BY ChosenType, ConcatEmptySeq
<1> QED
  BY <1>1, <1>2, <1>3, <1>4

TailChosen(s, T, M) ==
  /\ Chosen(Tail(s), T) \in Seq(M)
  /\ Chosen(s, T) = IF s[1][1] \in T THEN <<s[1][2]>> \o Chosen(Tail(s), T)
                    ELSE Chosen(Tail(s), T)

LEMMA ChosenTail ==
  ASSUME NEW D, NEW M, NEW s \in PairsOf(D, M), s # <<>>, NEW T
  PROVE  /\ Tail(s) \in PairsOf(D, M) /\ s[1][1] \in D /\ s[1][2] \in M
         /\ TailChosen(s, T, M)
<1>1. PICK P : P = D \X M /\ s \in Seq(P)
  BY DEF PairsOf
<1>2. Len(s) \in Nat /\ Len(s) >= 1 /\ s[1] \in P
  <2>1. Len(s) \in Nat /\ Len(s) # 0
    BY <1>1, EmptySeq, LenProperties
  <2> QED
    BY <1>1, <2>1, ElementOfSeq
<1>3. PICK t \in D, o \in M : s[1] = <<t, o>>
  BY <1>1, <1>2
<1>4. PICK r \in Seq(P) : r = Tail(s)
  BY <1>1, HeadTailProperties
<1> DEFINE x == <<<<t, o>>>>
<1>5. x \in Seq(P) /\ x = <<Head(s)>>
  BY <1>1, <1>2, <1>3
<1>6. s = x \o r
  <2>1. s = <<Head(s)>> \o Tail(s)
    BY <1>1, HeadThenTail
  <2> QED
    BY <1>4, <1>5, <2>1
<1>7. Chosen(x, T) = IF t \in T THEN <<o>> ELSE <<>>
  BY ChosenOne
<1> HIDE DEF x
<1>8. x \in PairsOf(D, M) /\ r \in PairsOf(D, M)
  BY <1>1, <1>4, <1>5 DEF PairsOf
<1>9. Chosen(x \o r, T) = Chosen(x, T) \o Chosen(r, T) /\ Chosen(r, T) \in Seq(M)
  BY <1>8, ChosenConcat, ChosenType
<1>10. <<>> \o Chosen(r, T) = Chosen(r, T)
  BY <1>9, ConcatEmptySeq
<1>11. s[1][1] = t /\ s[1][2] = o
  BY <1>3
<1>12. Chosen(s, T) = IF t \in T THEN <<o>> \o Chosen(r, T) ELSE Chosen(r, T)
  BY <1>6, <1>7, <1>9, <1>10
<1>13. Tail(s) \in PairsOf(D, M) /\ Chosen(Tail(s), T) \in Seq(M)
  BY <1>4, <1>8, <1>9
<1> QED
  BY <1>4, <1>11, <1>12, <1>13 DEF TailChosen

\* What a step does to the way of the messages from i to j: h handed over, y
\* whole on the way, q queued, u undispatched, and a asked for.
LEMMA FlowSent ==
  \A h, y, q, u \in Seq(Message) :
    q # <<>> => /\ h \o y \o q \o u = h \o (y \o <<Head(q)>>) \o Tail(q) \o u
                /\ IsPrefix(h \o (y \o <<Head(q)>>), h \o y \o q \o u)
<1> TAKE h, y, q, u \in Seq(Message)
<1> HAVE q # <<>>
<1>0. PICK a : a = h \o y \o q \o u
  OBVIOUS
<1>1. PICK x, r : x = <<Head(q)>> /\ r = Tail(q)
  OBVIOUS
<1>2. x \in Seq(Message) /\ r \in Seq(Message)
  BY <1>1, HeadTailProperties
<1>3. q = x \o r
  BY <1>1, HeadThenTail
<1>4. PICK v \in Seq(Message) : v = h \o (y \o x)
  BY <1>2, ConcatProperties
<1>5. (h \o y) \o (x \o r) = v \o r
  <2>1. PICK p \in Seq(Message) : p = h \o y
    BY ConcatProperties
  <2>2. p \o (x \o r) = (p \o x) \o r
    <3>1. InSeq(Message, p, x, r)
      BY <1>2 DEF InSeq
    <3>2. AnyOrder(p, x, r)
      BY <3>1, Associates
    <3> QED
      BY <3>2 DEF AnyOrder
  <2>3. h \o (y \o x) = (h \o y) \o x
    <3>1. InSeq(Message, h, y, x)
      BY <1>2 DEF InSeq
    <3>2. AnyOrder(h, y, x)
      BY <3>1, Associates
    <3> QED
      BY <3>2 DEF AnyOrder
  <2> QED
    BY <1>2, <1>4, <2>1, <2>2, <2>3
<1>6. v \o (r \o u) = (v \o r) \o u
  <2>1. InSeq(Message, v, r, u)
    BY <1>2 DEF InSeq
  <2>2. AnyOrder(v, r, u)
    BY <2>1, Associates
  <2> QED
    BY <2>2 DEF AnyOrder
<1>7. r \o u \in Seq(Message)
  BY <1>2, ConcatProperties
<1>8. a = (v \o r) \o u
  BY <1>0, <1>3, <1>5
<1>9. IsPrefix(v, a)
  BY <1>6, <1>7, <1>8, PrefixOf
<1> QED
  BY <1>0, <1>1, <1>4, <1>8, <1>9

\* A message at the end of a sequence.
LEMMA AppendMessage ==
  ASSUME NEW q \in Seq(Message), NEW o \in Message
  PROVE  \E x \in Seq(Message) : x = <<o>> /\ Append(q, o) = q \o x
<1>1. <<o>> \in Seq(Message)
  OBVIOUS
<1>2. PICK x \in Seq(Message) : x = <<o>>
  BY <1>1
<1>3. Append(q, o) = q \o x
  BY <1>2, AppendIsConcat
<1> QED
  BY <1>2, <1>3

-----------------------------------------------------------------------------
(* Types *)

\* Setting one pair, or all pairs of one node.
LEMMA PairSet ==
  ASSUME NEW S, NEW f \in [Nodes -> [Nodes -> S]], NEW i \in Nodes, NEW j \in Nodes, NEW x \in S
  PROVE  /\ [f EXCEPT ![i][j] = x] \in [Nodes -> [Nodes -> S]]
         /\ \A k, l \in Nodes :
              [f EXCEPT ![i][j] = x][k][l] = IF k = i /\ l = j THEN x ELSE f[k][l]
  OBVIOUS

LEMMA RowSet ==
  ASSUME NEW S, NEW f \in [Nodes -> [Nodes -> S]], NEW i \in Nodes, NEW g \in [Nodes -> S]
  PROVE  /\ [f EXCEPT ![i] = g] \in [Nodes -> [Nodes -> S]]
         /\ \A k, l \in Nodes :
              [f EXCEPT ![i] = g][k][l] = IF k = i THEN g[l] ELSE f[k][l]
  OBVIOUS

\* A node numbers what it puts.
LEMMA CountType ==
  ASSUME NEW i \in Nodes
  PROVE  <<i, Count(i) + 1>> \in Message
<1>1. Sends[i] \in Nat
  BY SocketAssumption
<1>2. IsFiniteSet(1 .. Sends[i])
  BY <1>1, FS_Interval
<1>3. Count(i) \in Nat
  BY <1>2, FS_Subset, FS_CardinalityType DEF Count
<1> QED
  BY <1>3 DEF Message

\* Initially the types are right.
LEMMA TypeInit == Init => TypeOK
  BY EmptySeq DEF Init, TypeOK, PerPair

\* What Put does, with the target t and the message o.
PutEffect(i, t, o) ==
  /\ out' = [out EXCEPT ![i] = Append(out[i], <<t, o>>)]
  /\ out' \in [Nodes -> Seq(Targets \X Message)]
  /\ asked' \in [Nodes -> [Nodes -> Seq(Message)]]
  /\ \A k, l \in Nodes :
       asked'[k][l] = IF k = i /\ l \in Recipients(t) THEN Append(asked[k][l], o)
                      ELSE asked[k][l]

LEMMA PutDoes ==
  ASSUME TypeOK, NEW i \in Nodes, Put(i)
  PROVE  \E t \in Targets, o \in Message : PutEffect(i, t, o)
<1>1. PICK o \in Message : o = <<i, Count(i) + 1>>
  BY CountType
<1>2. PICK t \in Targets : /\ out' = [out EXCEPT ![i] = Append(out[i], <<t, o>>)]
                           /\ asked' = [asked EXCEPT ![i] =
                                [j \in Nodes |-> IF j \in Recipients(t)
                                                 THEN Append(asked[i][j], o) ELSE asked[i][j]]]
  BY <1>1 DEF Put
<1> DEFINE g == [j \in Nodes |-> IF j \in Recipients(t)
                                 THEN Append(asked[i][j], o) ELSE asked[i][j]]
<1>3. asked \in [Nodes -> [Nodes -> Seq(Message)]] /\ out \in [Nodes -> Seq(Targets \X Message)]
  BY DEF TypeOK
<1>4. g \in [Nodes -> Seq(Message)]
  BY <1>1, <1>3, AppendProperties
<1>5. PICK h \in [Nodes -> Seq(Message)] : h = g
  BY <1>4
<1>6. asked' = [asked EXCEPT ![i] = h]
  BY <1>2, <1>5
<1>7. asked' \in [Nodes -> [Nodes -> Seq(Message)]]
  BY <1>3, <1>6
<1>8. ASSUME NEW k \in Nodes, NEW l \in Nodes
      PROVE  asked'[k][l] = IF k = i /\ l \in Recipients(t) THEN Append(asked[k][l], o)
                            ELSE asked[k][l]
  <2>1. asked'[k][l] = IF k = i THEN h[l] ELSE asked[k][l]
    BY <1>3, <1>6
  <2>2. h[l] = IF l \in Recipients(t) THEN Append(asked[i][l], o) ELSE asked[i][l]
    BY <1>5
  <2> QED
    BY <2>1, <2>2
<1>9. out' \in [Nodes -> Seq(Targets \X Message)]
  <2>1. <<t, o>> \in Targets \X Message
    BY <1>1
  <2>2. Append(out[i], <<t, o>>) \in Seq(Targets \X Message)
    BY <1>3, <2>1, AppendProperties
  <2> QED
    BY <1>2, <1>3, <2>2
<1>10. PutEffect(i, t, o)
  BY <1>2, <1>7, <1>8, <1>9 DEF PutEffect
<1> QED
  BY <1>1, <1>10

\* What Dispatch does to the pair of t and o.
DispatchEffect(i, t, o) ==
  /\ out[i] \in PairsOf(Targets, Message) /\ out[i] # <<>>
  /\ t = out[i][1][1] /\ o = out[i][1][2]
  /\ out' = [out EXCEPT ![i] = Tail(out[i])]
  /\ out' \in [Nodes -> Seq(Targets \X Message)]
  /\ sockQueue' \in [Nodes -> [Nodes -> Seq(Message)]]
  /\ \A k, l \in Nodes :
       sockQueue'[k][l] = IF k = i /\ l \in Recipients(t)
                          THEN Append(sockQueue[k][l], o) ELSE sockQueue[k][l]

LEMMA DispatchDoes ==
  ASSUME TypeOK, NEW i \in Nodes, Dispatch(i)
  PROVE  \E t \in Targets, o \in Message : DispatchEffect(i, t, o)
<1>1. out[i] \in PairsOf(Targets, Message) /\ out[i] # <<>>
  BY DEF TypeOK, PairsOf, Dispatch
<1>2. PICK t \in Targets, o \in Message : t = out[i][1][1] /\ o = out[i][1][2]
  BY <1>1, ChosenTail
<1> DEFINE g == [j \in Nodes |-> IF j \in Recipients(t)
                                 THEN Append(sockQueue[i][j], o) ELSE sockQueue[i][j]]
<1>3. /\ sockQueue' = [sockQueue EXCEPT ![i] = g]
      /\ out' = [out EXCEPT ![i] = Tail(out[i])]
  BY <1>2 DEF Dispatch
<1>4. /\ sockQueue \in [Nodes -> [Nodes -> Seq(Message)]]
      /\ out \in [Nodes -> Seq(Targets \X Message)]
  BY DEF TypeOK
<1>5. g \in [Nodes -> Seq(Message)]
  BY <1>4, AppendProperties
<1>6. PICK h \in [Nodes -> Seq(Message)] : h = g
  BY <1>5
<1>7. sockQueue' = [sockQueue EXCEPT ![i] = h]
  BY <1>3, <1>6
<1>8. sockQueue' \in [Nodes -> [Nodes -> Seq(Message)]]
  BY <1>4, <1>7
<1>9. ASSUME NEW k \in Nodes, NEW l \in Nodes
      PROVE  sockQueue'[k][l] = IF k = i /\ l \in Recipients(t)
                                THEN Append(sockQueue[k][l], o) ELSE sockQueue[k][l]
  <2>1. sockQueue'[k][l] = IF k = i THEN h[l] ELSE sockQueue[k][l]
    BY <1>4, <1>7
  <2>2. h[l] = IF l \in Recipients(t) THEN Append(sockQueue[i][l], o) ELSE sockQueue[i][l]
    BY <1>6
  <2> QED
    BY <2>1, <2>2
<1>10. out' \in [Nodes -> Seq(Targets \X Message)]
  <2>1. Tail(out[i]) \in Seq(Targets \X Message)
    BY <1>1, <1>4, HeadTailProperties
  <2> QED
    BY <1>3, <1>4, <2>1
<1>11. DispatchEffect(i, t, o)
  BY <1>1, <1>2, <1>3, <1>8, <1>9, <1>10 DEF DispatchEffect
<1> QED
  BY <1>11

\* What the taking of a message from the queue of a peer does.
LEMMA TakingDoes ==
  ASSUME TypeOK, NEW i \in Nodes, NEW j \in Nodes, Taking(i, j)
  PROVE  /\ sockQueue[i][j] \in Seq(Message) /\ sockQueue[i][j] # <<>>
         /\ Head(sockQueue[i][j]) \in Message
         /\ sockQueue' \in [Nodes -> [Nodes -> Seq(Message)]]
         /\ \A k, l \in Nodes :
              sockQueue'[k][l] = IF k = i /\ l = j THEN Tail(sockQueue[k][l])
                                 ELSE sockQueue[k][l]
<1>1. /\ sockQueue \in [Nodes -> [Nodes -> Seq(Message)]] /\ sockQueue[i][j] # <<>>
      /\ sockQueue' = [sockQueue EXCEPT ![i][j] = Tail(sockQueue[i][j])]
  BY DEF TypeOK, Taking
<1>2. PICK q \in Seq(Message) : q = sockQueue[i][j]
  BY <1>1
<1>3. Head(q) \in Message /\ Tail(q) \in Seq(Message)
  BY <1>1, <1>2, HeadTailProperties
<1>4. PICK r \in Seq(Message) : r = Tail(q)
  BY <1>3
<1>5. sockQueue' = [sockQueue EXCEPT ![i][j] = r]
  BY <1>1, <1>2, <1>4
<1>6. /\ sockQueue' \in [Nodes -> [Nodes -> Seq(Message)]]
      /\ \A k, l \in Nodes :
           sockQueue'[k][l] = IF k = i /\ l = j THEN r ELSE sockQueue[k][l]
  <2>1. sockQueue \in [Nodes -> [Nodes -> Seq(Message)]]
    BY DEF TypeOK
  <2> QED
    BY <1>5, <2>1
<1> QED
  BY <1>1, <1>2, <1>3, <1>4, <1>6

\* What sendall does, which writes z, and what it does when it fails.
SendEffect(i, j, z) ==
  /\ \/ SendMsg(i, j) /\ z = Pieces(Head(sockQueue[i][j]))
     \/ /\ SendFails(i, j)
        /\ \E n \in 0 .. 1 : z = SubSeq(Pieces(Head(sockQueue[i][j])), 1, n)
  /\ wire[i][j] \in Seq(Piece) /\ wire[i][j] \o z \in Seq(Piece)
  /\ wire' \in [Nodes -> [Nodes -> Seq(Piece)]]
  /\ \A k, l \in Nodes :
       wire'[k][l] = IF k = i /\ l = j THEN wire[k][l] \o z ELSE wire[k][l]

LEMMA SendDoes ==
  ASSUME TypeOK, NEW i \in Nodes, NEW j \in Nodes, SendMsg(i, j) \/ SendFails(i, j)
  PROVE  \E z : SendEffect(i, j, z)
<1>1. PICK z : /\ \/ SendMsg(i, j) /\ z = Pieces(Head(sockQueue[i][j]))
                  \/ /\ SendFails(i, j)
                     /\ \E n \in 0 .. 1 : z = SubSeq(Pieces(Head(sockQueue[i][j])), 1, n)
               /\ wire' = [wire EXCEPT ![i][j] = wire[i][j] \o z]
  <2>1. CASE SendMsg(i, j)
    BY <2>1 DEF SendMsg
  <2>2. CASE SendFails(i, j)
    BY <2>2 DEF SendFails
  <2> QED
    BY <2>1, <2>2
<1>2. wire \in [Nodes -> [Nodes -> Seq(Piece)]]
  BY DEF TypeOK
<1>3. PICK w \in Seq(Piece) : w = wire[i][j]
  BY <1>2
<1>4. PICK o \in Message : o = Head(sockQueue[i][j])
  BY TakingDoes DEF SendMsg, SendFails
<1>5. <<>> \in Seq(Piece)
  BY EmptySeq
<1>6. PICK v \in Seq(Piece) : v = w \o z
  <2>1. CASE z = Pieces(o)
    BY <1>5, <2>1, SentWhole
  <2>2. CASE \E n \in 0 .. 1 : z = SubSeq(Pieces(o), 1, n)
    BY <1>5, <2>2, SentInPart
  <2> QED
    BY <1>1, <1>4, <2>1, <2>2
<1>7. wire' = [wire EXCEPT ![i][j] = v]
  BY <1>1, <1>3, <1>6
<1>8. /\ wire' \in [Nodes -> [Nodes -> Seq(Piece)]]
      /\ \A k, l \in Nodes : wire'[k][l] = IF k = i /\ l = j THEN v ELSE wire[k][l]
  BY <1>2, <1>7
<1>9. SendEffect(i, j, z)
  BY <1>1, <1>3, <1>6, <1>8 DEF SendEffect
<1> QED
  BY <1>9

\* What Receive does: the messages x are handed over, r stays in the buffer
\* and later on the wire.
ReceiveEffect(j, i, x, r, later) ==
  /\ x \in Seq(Message) /\ Whole(r \o later) \in Seq(Message)
  /\ Whole(buf[j][i] \o wire[i][j]) = x \o Whole(r \o later)
  /\ handed' \in [Nodes -> [Nodes -> Seq(Message)]]
  /\ buf' \in [Nodes -> [Nodes -> Seq({p \in Piece : ~p[1]})]]
  /\ wire' \in [Nodes -> [Nodes -> Seq(Piece)]]
  /\ \A k, l \in Nodes :
       /\ handed'[l][k] = IF l = j /\ k = i THEN handed[l][k] \o x ELSE handed[l][k]
       /\ buf'[l][k] = IF l = j /\ k = i THEN r ELSE buf[l][k]
       /\ wire'[k][l] = IF l = j /\ k = i THEN later ELSE wire[k][l]

LEMMA ReceiveDoes ==
  ASSUME TypeOK, NEW i \in Nodes, NEW j \in Nodes, Receive(j, i)
  PROVE  \E x, r, later : ReceiveEffect(j, i, x, r, later)
<1>1. PICK n, bytes, later :
        /\ Received(buf[j][i], wire[i][j], n, bytes, later)
        /\ handed' = [handed EXCEPT ![j][i] = handed[j][i] \o Whole(bytes)]
        /\ buf' = [buf EXCEPT ![j][i] = Rest(bytes)]
        /\ wire' = [wire EXCEPT ![i][j] = later]
  <2> DEFINE bytes(n) == buf[j][i] \o SubSeq(wire[i][j], 1, n)
             later(n) == SubSeq(wire[i][j], n + 1, Len(wire[i][j]))
  <2>1. PICK n \in 1 .. Len(wire[i][j]) :
          /\ handed' = [handed EXCEPT ![j][i] = handed[j][i] \o Whole(bytes(n))]
          /\ buf' = [buf EXCEPT ![j][i] = Rest(bytes(n))]
          /\ wire' = [wire EXCEPT ![i][j] = later(n)]
    BY DEF Receive
  <2>2. Received(buf[j][i], wire[i][j], n, bytes(n), later(n))
    BY DEF Received
  <2> QED
    BY <2>1, <2>2, Zenon
<1>2. /\ handed \in [Nodes -> [Nodes -> Seq(Message)]]
      /\ buf \in [Nodes -> [Nodes -> Seq({p \in Piece : ~p[1]})]]
      /\ wire \in [Nodes -> [Nodes -> Seq(Piece)]]
  BY DEF TypeOK
<1>3. PICK b \in Seq(Piece), w \in Seq(Piece) : b = buf[j][i] /\ w = wire[i][j]
  <2>1. buf[j][i] \in Seq(Piece)
    BY <1>2, BufferIsStream
  <2>2. wire[i][j] \in Seq(Piece)
    BY <1>2
  <2> QED
    BY <2>1, <2>2
<1>4. Received(b, w, n, bytes, later)
  BY <1>1, <1>3
<1>5. /\ later \in Seq(Piece) /\ Rest(bytes) \in Seq({p \in Piece : ~p[1]})
      /\ Whole(bytes) \in Seq(Message) /\ Whole(Rest(bytes) \o later) \in Seq(Message)
      /\ Whole(b \o w) = Whole(bytes) \o Whole(Rest(bytes) \o later)
  <2>1. Parted(b, w, bytes, later)
    BY <1>4, ReceivedWhole
  <2> QED
    BY <2>1 DEF Parted
<1>6. PICK P : P = {p \in Piece : ~p[1]}
  OBVIOUS
<1>7. PICK x \in Seq(Message), r \in Seq(P) : x = Whole(bytes) /\ r = Rest(bytes)
  BY <1>5, <1>6
<1>8. PICK h \in Seq(Message) : h = handed[j][i] \o x
  <2>1. handed[j][i] \in Seq(Message)
    BY <1>2
  <2> QED
    BY <2>1, ConcatProperties
<1>9. /\ handed' = [handed EXCEPT ![j][i] = h]
      /\ buf' = [buf EXCEPT ![j][i] = r]
  BY <1>1, <1>7, <1>8
<1>10. /\ handed' \in [Nodes -> [Nodes -> Seq(Message)]]
       /\ \A k, l \in Nodes : handed'[l][k] = IF l = j /\ k = i THEN h ELSE handed[l][k]
  <2>1. handed \in [Nodes -> [Nodes -> Seq(Message)]]
    BY <1>2
  <2> QED
    BY <1>9, <2>1
<1>11. /\ buf' \in [Nodes -> [Nodes -> Seq(P)]]
       /\ \A k, l \in Nodes : buf'[l][k] = IF l = j /\ k = i THEN r ELSE buf[l][k]
  <2>1. buf \in [Nodes -> [Nodes -> Seq(P)]]
    BY <1>2, <1>6
  <2> QED
    BY <1>9, <2>1
<1>12. /\ wire' \in [Nodes -> [Nodes -> Seq(Piece)]]
       /\ \A k, l \in Nodes : wire'[k][l] = IF l = j /\ k = i THEN later ELSE wire[k][l]
  <2>1. wire \in [Nodes -> [Nodes -> Seq(Piece)]]
    BY <1>2
  <2> QED
    BY <1>1, <1>5, <2>1
<1>13. r \in Seq({p \in Piece : ~p[1]}) /\ buf' \in [Nodes -> [Nodes -> Seq({p \in Piece : ~p[1]})]]
  BY <1>6, <1>11
<1>14. /\ Whole(r \o later) \in Seq(Message)
       /\ Whole(buf[j][i] \o wire[i][j]) = x \o Whole(r \o later)
  BY <1>3, <1>5, <1>7
<1>15. ASSUME NEW k \in Nodes, NEW l \in Nodes
       PROVE  /\ handed'[l][k] = IF l = j /\ k = i THEN handed[l][k] \o x ELSE handed[l][k]
              /\ buf'[l][k] = IF l = j /\ k = i THEN r ELSE buf[l][k]
              /\ wire'[k][l] = IF l = j /\ k = i THEN later ELSE wire[k][l]
  BY <1>8, <1>10, <1>11, <1>12
<1>16. ReceiveEffect(j, i, x, r, later)
  BY <1>10, <1>12, <1>13, <1>14, <1>15 DEF ReceiveEffect
<1> QED
  BY <1>16

\* A step keeps the types.
LEMMA TypeStep ==
  ASSUME TypeOK, [Next]_vars
  PROVE  TypeOK'
<1>1. ASSUME NEW i \in Nodes, Listen(i) \/ ClientReady(i) \/ StartNode(i) \/ Finish(i)
      PROVE  TypeOK'
  <2>1. UNCHANGED <<conn, clientVars, wire, serverVars>>
    BY <1>1 DEF Listen, ClientReady, StartNode, Finish
  <2>2. listening' \subseteq Nodes /\ ready' \subseteq Nodes
    BY <1>1 DEF TypeOK, Listen, ClientReady, StartNode, Finish
  <2>3. phase' \in [Nodes -> {"wait", "run", "stop", "down"}]
    BY <1>1 DEF TypeOK, Listen, ClientReady, StartNode, Finish
  <2> QED
    BY <2>1, <2>2, <2>3 DEF TypeOK, clientVars, serverVars
<1>2. ASSUME NEW i \in Nodes, Terminate(i)
      PROVE  TypeOK'
  <2>1. /\ UNCHANGED <<ready, clientVars, wire, buf, handed>>
        /\ listening' \subseteq Nodes /\ spin' \subseteq Nodes
    BY <1>2 DEF TypeOK, Terminate
  <2>2. /\ phase' \in [Nodes -> {"wait", "run", "stop", "down"}]
        /\ handling' \in [Nodes -> SUBSET Nodes]
    BY <1>2 DEF TypeOK, Terminate
  <2>3. conn' \in [Nodes -> [Nodes -> {"none", "open", "closed", "reset"}]]
    <3>1. PICK g \in [Nodes -> {"none", "open", "closed", "reset"}] :
            conn' = [conn EXCEPT ![i] = g]
      <4> DEFINE f == [j \in Nodes |-> IF conn[i][j] = "open" THEN "closed" ELSE conn[i][j]]
      <4>1. f \in [Nodes -> {"none", "open", "closed", "reset"}]
        BY DEF TypeOK
      <4>2. conn' = [conn EXCEPT ![i] = f]
        BY <1>2 DEF Terminate
      <4> QED
        BY <4>1, <4>2
    <3> QED
      BY <3>1 DEF TypeOK
  <2> QED
    BY <2>1, <2>2, <2>3 DEF TypeOK, clientVars
<1>3. ASSUME NEW i \in Nodes, Put(i)
      PROVE  TypeOK'
  <2>1. UNCHANGED <<listening, conn, ready, phase, sockQueue, sending, wire, serverVars>>
    BY <1>3 DEF Put
  <2>2. /\ out' \in [Nodes -> Seq(Targets \X Message)]
        /\ asked' \in [Nodes -> [Nodes -> Seq(Message)]]
    BY <1>3, PutDoes DEF PutEffect
  <2> QED
    BY <2>1, <2>2 DEF TypeOK, serverVars
<1>4. ASSUME NEW i \in Nodes, Dispatch(i)
      PROVE  TypeOK'
  <2>1. UNCHANGED <<listening, conn, ready, phase, sending, asked, wire, serverVars>>
    BY <1>4 DEF Dispatch
  <2>2. /\ out' \in [Nodes -> Seq(Targets \X Message)]
        /\ sockQueue' \in [Nodes -> [Nodes -> Seq(Message)]]
    BY <1>4, DispatchDoes DEF DispatchEffect
  <2> QED
    BY <2>1, <2>2 DEF TypeOK, serverVars
<1>5. ASSUME NEW i \in Nodes, NEW j \in Nodes, Connect(i, j)
      PROVE  TypeOK'
  <2>1. UNCHANGED <<listening, ready, phase, clientVars, wire, serverVars>>
    BY <1>5 DEF Connect
  <2>2. conn' \in [Nodes -> [Nodes -> {"none", "open", "closed", "reset"}]]
    BY <1>5 DEF TypeOK, Connect
  <2> QED
    BY <2>1, <2>2 DEF TypeOK, clientVars, serverVars
<1>6. ASSUME NEW i \in Nodes, NEW j \in Nodes, SendMsg(i, j) \/ SendFails(i, j)
      PROVE  TypeOK'
  <2>1. Taking(i, j) /\ UNCHANGED <<listening, ready, phase, out, asked, serverVars>>
    BY <1>6 DEF SendMsg, SendFails, Taking
  <2>2. sockQueue' \in [Nodes -> [Nodes -> Seq(Message)]]
    BY <2>1, TakingDoes
  <2>3. wire' \in [Nodes -> [Nodes -> Seq(Piece)]]
    BY <1>6, SendDoes DEF SendEffect
  <2>4. conn' \in [Nodes -> [Nodes -> {"none", "open", "closed", "reset"}]]
    <3>1. conn \in [Nodes -> [Nodes -> {"none", "open", "closed", "reset"}]]
      BY DEF TypeOK
    <3>2. conn' = conn \/ conn' = [conn EXCEPT ![i][j] = "reset"]
      BY <1>6 DEF SendMsg, SendFails
    <3> QED
      BY <3>1, <3>2
  <2>5. sending' \in [Nodes -> SUBSET Nodes]
    <3>1. sending \in [Nodes -> SUBSET Nodes]
      BY DEF TypeOK
    <3>2. sending' = sending \/ sending' = [sending EXCEPT ![i] = sending[i] \ {j}]
      BY <1>6 DEF SendMsg, SendFails
    <3>3. PICK f : f = sending[i] \ {j}
      OBVIOUS
    <3>4. f \in SUBSET Nodes
      BY <3>1, <3>3
    <3> QED
      BY <3>1, <3>2, <3>3, <3>4
  <2> QED
    BY <2>1, <2>2, <2>3, <2>4, <2>5 DEF TypeOK, serverVars
<1>7. ASSUME NEW i \in Nodes, NEW j \in Nodes, Receive(j, i)
      PROVE  TypeOK'
  <2>1. UNCHANGED <<listening, conn, ready, phase, clientVars, handling, spin>>
    BY <1>7 DEF Receive
  <2>2. /\ handed' \in [Nodes -> [Nodes -> Seq(Message)]]
        /\ buf' \in [Nodes -> [Nodes -> Seq({p \in Piece : ~p[1]})]]
        /\ wire' \in [Nodes -> [Nodes -> Seq(Piece)]]
    BY <1>7, ReceiveDoes DEF ReceiveEffect
  <2> QED
    BY <2>1, <2>2 DEF TypeOK, clientVars
<1>8. ASSUME NEW i \in Nodes, NEW j \in Nodes, ReceiveNothing(j, i) \/ ReceiveRaises(j, i)
      PROVE  TypeOK'
  <2>1. UNCHANGED <<listening, conn, ready, phase, clientVars, wire, buf, handed>>
    BY <1>8 DEF ReceiveNothing, ReceiveRaises
  <2>2. spin' \subseteq Nodes
    BY <1>8 DEF TypeOK, ReceiveNothing, ReceiveRaises
  <2>3. handling' \in [Nodes -> SUBSET Nodes]
    <3>1. handling \in [Nodes -> SUBSET Nodes]
      BY DEF TypeOK
    <3>2. handling' = handling \/ handling' = [handling EXCEPT ![j] = handling[j] \ {i}]
      BY <1>8 DEF ReceiveNothing, ReceiveRaises
    <3>3. PICK f : f = handling[j] \ {i}
      OBVIOUS
    <3>4. f \in SUBSET Nodes
      BY <3>1, <3>3
    <3> QED
      BY <3>1, <3>2, <3>3, <3>4
  <2> QED
    BY <2>1, <2>2, <2>3 DEF TypeOK, clientVars
<1>9. CASE UNCHANGED vars
  BY <1>9 DEF TypeOK, vars
<1> QED
  BY <1>1, <1>2, <1>3, <1>4, <1>5, <1>6, <1>7, <1>8, <1>9 DEF Next

\* A connection that was made is never unmade.
LEMMA StillConnected ==
  ASSUME TypeOK, [Next]_vars, NEW k \in Nodes, NEW l \in Nodes, conn[k][l] # "none"
  PROVE  conn'[k][l] # "none"
<1>1. conn \in [Nodes -> [Nodes -> {"none", "open", "closed", "reset"}]]
  BY DEF TypeOK
<1>2. ASSUME NEW i \in Nodes, Terminate(i) PROVE conn'[k][l] # "none"
  <2>1. conn' = [conn EXCEPT ![i] =
                   [j \in Nodes |-> IF conn[i][j] = "open" THEN "closed" ELSE conn[i][j]]]
    BY <1>2 DEF Terminate
  <2>2. CASE k = i
    BY <1>1, <2>1, <2>2
  <2>3. CASE k # i
    BY <1>1, <2>1, <2>3
  <2> QED
    BY <2>2, <2>3
<1>3. ASSUME NEW i \in Nodes, NEW j \in Nodes, Connect(i, j) \/ SendFails(i, j)
      PROVE  conn'[k][l] # "none"
  <2>1. conn' = [conn EXCEPT ![i][j] = "open"] \/ conn' = [conn EXCEPT ![i][j] = "reset"]
    BY <1>3 DEF Connect, SendFails
  <2>2. CASE k = i /\ l = j
    BY <1>1, <2>1, <2>2
  <2>3. CASE ~(k = i /\ l = j)
    BY <1>1, <2>1, <2>3
  <2> QED
    BY <2>2, <2>3
<1>4. ASSUME NEW i \in Nodes,
             \/ Listen(i) \/ ClientReady(i) \/ StartNode(i) \/ Finish(i)
             \/ Put(i) \/ Dispatch(i)
      PROVE  conn'[k][l] # "none"
  BY <1>4 DEF Listen, ClientReady, StartNode, Finish, Put, Dispatch
<1>5. ASSUME NEW i \in Nodes, NEW j \in Nodes,
             SendMsg(i, j) \/ Receive(j, i) \/ ReceiveNothing(j, i) \/ ReceiveRaises(j, i)
      PROVE  conn'[k][l] # "none"
  BY <1>5 DEF SendMsg, Receive, ReceiveNothing, ReceiveRaises
<1>6. CASE UNCHANGED vars
  BY <1>6 DEF vars
<1> QED
  BY <1>2, <1>3, <1>4, <1>5, <1>6 DEF Next

\* A client becomes ready when it has its connections, and a node leaves the
\* wait when its client is ready.
LEMMA ReadyWhenConnected ==
  ASSUME TypeOK, [Next]_vars, NEW k \in Nodes
  PROVE  /\ k \in ready => k \in ready'
         /\ k \in ready' => k \in ready \/ AllConnected(k)
         /\ phase'[k] # "wait" => phase[k] # "wait" \/ k \in ready
<1>1. phase \in [Nodes -> {"wait", "run", "stop", "down"}]
  BY DEF TypeOK
<1>2. ASSUME NEW i \in Nodes, StartNode(i) \/ Finish(i) \/ Terminate(i)
      PROVE  ready' = ready /\ (phase'[k] # "wait" => phase[k] # "wait" \/ k \in ready)
  BY <1>1, <1>2 DEF StartNode, Finish, Terminate
<1>3. ASSUME NEW i \in Nodes, ClientReady(i)
      PROVE  /\ phase' = phase /\ ready \subseteq ready'
             /\ k \in ready' => k \in ready \/ AllConnected(k)
  <2>1. phase' = phase /\ ready' = ready \cup {i} /\ AllConnected(i)
    BY <1>3 DEF ClientReady
  <2>2. CASE k = i
    BY <2>1, <2>2
  <2>3. CASE k # i
    BY <2>1, <2>3
  <2> QED
    BY <2>2, <2>3, <2>1
<1>4. ASSUME NEW i \in Nodes, Listen(i) \/ Put(i) \/ Dispatch(i)
      PROVE  ready' = ready /\ phase' = phase
  BY <1>4 DEF Listen, Put, Dispatch
<1>5. ASSUME NEW i \in Nodes, NEW j \in Nodes,
             \/ Connect(i, j) \/ SendMsg(i, j) \/ SendFails(i, j)
             \/ Receive(j, i) \/ ReceiveNothing(j, i) \/ ReceiveRaises(j, i)
      PROVE  ready' = ready /\ phase' = phase
  BY <1>5 DEF Connect, SendMsg, SendFails, Taking, Receive, ReceiveNothing, ReceiveRaises
<1>6. CASE UNCHANGED vars
  BY <1>6 DEF vars
<1>7. \/ UNCHANGED vars
      \/ \E i \in Nodes : Listen(i) \/ Put(i) \/ Dispatch(i)
      \/ \E i \in Nodes : StartNode(i) \/ Finish(i) \/ Terminate(i)
      \/ \E i \in Nodes : ClientReady(i)
      \/ \E i, j \in Nodes : \/ Connect(i, j) \/ SendMsg(i, j) \/ SendFails(i, j)
                             \/ Receive(j, i) \/ ReceiveNothing(j, i) \/ ReceiveRaises(j, i)
  BY DEF Next
<1> QED
  BY <1>2, <1>3, <1>4, <1>5, <1>6, <1>7

LEMMA ConnectedStep ==
  ASSUME TypeOK, Connected, [Next]_vars
  PROVE  Connected'
<1> SUFFICES ASSUME NEW k \in Nodes
             PROVE  /\ k \in ready' => \A l \in Nodes : conn'[k][l] # "none"
                    /\ phase'[k] # "wait" => k \in ready'
  BY DEF Connected, AllConnected
<1>1. k \in ready' => \A l \in Nodes : conn[k][l] # "none"
  BY ReadyWhenConnected DEF Connected, AllConnected
<1>2. phase'[k] # "wait" => k \in ready'
  BY ReadyWhenConnected DEF Connected
<1> QED
  BY <1>1, <1>2, StillConnected

-----------------------------------------------------------------------------
(* The way of the messages from k to l *)

\* NothingLost and Ahead for one pair.
Flow(k, l) ==
  /\ conn[k][l] \in {"none", "open"} =>
       asked[k][l] = handed[l][k] \o Whole(buf[l][k] \o wire[k][l])
                         \o sockQueue[k][l] \o Undispatched(k, l)
  /\ IsPrefix(handed[l][k] \o Whole(buf[l][k] \o wire[k][l]), asked[k][l])

\* The sequences of a pair.
LEMMA FlowTypes ==
  ASSUME TypeOK, NEW k \in Nodes, NEW l \in Nodes
  PROVE  /\ asked[k][l] \in Seq(Message) /\ handed[l][k] \in Seq(Message)
         /\ buf[l][k] \in Seq(Piece) /\ wire[k][l] \in Seq(Piece)
         /\ Whole(buf[l][k] \o wire[k][l]) \in Seq(Message)
         /\ sockQueue[k][l] \in Seq(Message)
         /\ out[k] \in PairsOf(Targets, Message)
         /\ Undispatched(k, l) \in Seq(Message)
<1>1. asked[k][l] \in Seq(Message) /\ handed[l][k] \in Seq(Message) /\ sockQueue[k][l] \in Seq(Message)
  BY DEF TypeOK
<1>2. buf[l][k] \in Seq(Piece)
  <2>1. buf[l][k] \in Seq({p \in Piece : ~p[1]})
    BY DEF TypeOK
  <2> QED
    BY <2>1, BufferIsStream
<1>3. wire[k][l] \in Seq(Piece)
  BY DEF TypeOK
<1>4. out[k] \in PairsOf(Targets, Message)
  BY DEF TypeOK, PairsOf
<1>5. Undispatched(k, l) \in Seq(Message)
  BY <1>4, ChosenType DEF Undispatched
<1>6. PICK b \in Seq(Piece), w \in Seq(Piece) : b = buf[l][k] /\ w = wire[k][l]
  BY <1>2, <1>3
<1>7. b \o w \in Seq(Piece) /\ <<>> \in Seq(Piece)
  BY ConcatProperties, EmptySeq
<1>8. Whole(b \o w) \in Seq(Message)
  BY <1>7, WholeConcat
<1> QED
  BY <1>1, <1>2, <1>3, <1>4, <1>5, <1>6, <1>8

\* A step that leaves the way of a pair alone keeps its flow.
LEMMA FlowStays ==
  ASSUME NEW k \in Nodes, NEW l \in Nodes, Flow(k, l),
         conn'[k][l] \in {"none", "open"} => conn[k][l] \in {"none", "open"},
         asked'[k][l] = asked[k][l], handed'[l][k] = handed[l][k],
         buf'[l][k] = buf[l][k], wire'[k][l] = wire[k][l],
         sockQueue'[k][l] = sockQueue[k][l], out'[k] = out[k]
  PROVE  Flow(k, l)'
<1>1. Undispatched(k, l)' = Undispatched(k, l)
  BY DEF Undispatched
<1>2. Whole(buf[l][k] \o wire[k][l])' = Whole(buf[l][k] \o wire[k][l])
  BY DEF Whole
<1> QED
  BY <1>1, <1>2 DEF Flow

\* Put adds the message at both ends: to what is asked for and to out.
LEMMA FlowPutStep ==
  ASSUME TypeOK, NEW i \in Nodes, Put(i), NEW k \in Nodes, NEW l \in Nodes, Flow(k, l)
  PROVE  Flow(k, l)'
<1>0. PICK t \in Targets, o \in Message : PutEffect(i, t, o)
  BY PutDoes
<1>1. /\ out' = [out EXCEPT ![i] = Append(out[i], <<t, o>>)]
      /\ \A m, n \in Nodes :
           asked'[m][n] = IF m = i /\ n \in Recipients(t) THEN Append(asked[m][n], o)
                          ELSE asked[m][n]
  BY <1>0 DEF PutEffect
<1>2. UNCHANGED <<conn, sockQueue, wire, buf, handed>>
  BY DEF Put, serverVars
<1>3. CASE k # i
  <2>1. out'[k] = out[k]
    BY <1>1, <1>3 DEF TypeOK
  <2>2. asked'[k][l] = asked[k][l]
    BY <1>1, <1>3
  <2> QED
    BY <1>2, <2>1, <2>2, FlowStays
<1>4. CASE k = i
  <2>1. PICK T : T = {r \in Targets : l \in Recipients(r)}
    OBVIOUS
  <2>2. PICK s \in PairsOf(Targets, Message) : s = out[k]
    BY FlowTypes
  <2>3. out'[k] = Append(s, <<t, o>>)
    BY <1>1, <1>4, <2>2 DEF TypeOK
  <2>4. Chosen(Append(s, <<t, o>>), T) = IF t \in T THEN Chosen(s, T) \o <<o>> ELSE Chosen(s, T)
    BY ChosenAppend
  <2>5. Undispatched(k, l) = Chosen(s, T) /\ Undispatched(k, l)' = Chosen(Append(s, <<t, o>>), T)
    BY <2>1, <2>2, <2>3 DEF Undispatched
  <2>6. /\ handed'[l][k] = handed[l][k] /\ sockQueue'[k][l] = sockQueue[k][l]
        /\ Whole(buf[l][k] \o wire[k][l])' = Whole(buf[l][k] \o wire[k][l])
        /\ conn' = conn
    BY <1>2 DEF Whole
  <2>7. CASE t \notin T
    <3>1. asked'[k][l] = asked[k][l]
      BY <1>1, <2>1, <2>7
    <3> QED
      BY <2>4, <2>5, <2>6, <2>7, <3>1 DEF Flow
  <2>8. CASE t \in T
    <3>1. asked'[k][l] = Append(asked[k][l], o)
      BY <1>1, <1>4, <2>1, <2>8
    <3>2. PICK h \in Seq(Message), y \in Seq(Message), q \in Seq(Message),
               u \in Seq(Message), a \in Seq(Message) :
            /\ h = handed[l][k] /\ y = Whole(buf[l][k] \o wire[k][l])
            /\ q = sockQueue[k][l] /\ u = Undispatched(k, l) /\ a = asked[k][l]
      BY FlowTypes
    <3>3. PICK x \in Seq(Message) : x = <<o>> /\ Append(a, o) = a \o x
      BY AppendMessage
    <3>4. Undispatched(k, l)' = u \o x
      BY <2>4, <2>5, <2>8, <3>2, <3>3
    <3>5. ASSUME conn'[k][l] \in {"none", "open"}
          PROVE  Append(a, o) = h \o y \o q \o (u \o x)
      <4>1. a = h \o y \o q \o u
        BY <2>6, <3>2, <3>5 DEF Flow
      <4>2. PICK w \in Seq(Message) : w = h \o y \o q
        BY ConcatProperties
      <4>3. w \o (u \o x) = (w \o u) \o x
        <5>1. InSeq(Message, w, u, x)
          BY DEF InSeq
        <5>2. AnyOrder(w, u, x)
          BY <5>1, Associates
        <5> QED
          BY <5>2 DEF AnyOrder
      <4> QED
        BY <3>3, <4>1, <4>2, <4>3
    <3>6. IsPrefix(h \o y, Append(a, o))
      <4>1. PICK p \in Seq(Message) : p = h \o y
        BY ConcatProperties
      <4>2. IsPrefix(p, a)
        BY <3>2, <4>1 DEF Flow
      <4> QED
        BY <3>3, <4>1, <4>2, PrefixStays
    <3> QED
      BY <2>6, <3>1, <3>2, <3>4, <3>5, <3>6 DEF Flow
  <2> QED
    BY <2>7, <2>8
<1> QED
  BY <1>3, <1>4

\* Dispatch moves the first message of out to the queues of its recipients.
LEMMA FlowDispatchStep ==
  ASSUME TypeOK, NEW i \in Nodes, Dispatch(i), NEW k \in Nodes, NEW l \in Nodes, Flow(k, l)
  PROVE  Flow(k, l)'
<1>0. PICK t \in Targets, o \in Message : DispatchEffect(i, t, o)
  BY DispatchDoes
<1>1. /\ out[i] \in PairsOf(Targets, Message) /\ out[i] # <<>>
      /\ t = out[i][1][1] /\ o = out[i][1][2]
      /\ out' = [out EXCEPT ![i] = Tail(out[i])]
      /\ \A m, n \in Nodes :
           sockQueue'[m][n] = IF m = i /\ n \in Recipients(t) THEN Append(sockQueue[m][n], o)
                              ELSE sockQueue[m][n]
  BY <1>0 DEF DispatchEffect
<1>2. UNCHANGED <<conn, asked, wire, buf, handed>>
  BY DEF Dispatch, serverVars
<1>3. CASE k # i
  <2>1. out'[k] = out[k]
    BY <1>1, <1>3 DEF TypeOK
  <2>2. sockQueue'[k][l] = sockQueue[k][l]
    BY <1>1, <1>3
  <2> QED
    BY <1>2, <2>1, <2>2, FlowStays
<1>4. CASE k = i
  <2>1. PICK T : T = {r \in Targets : l \in Recipients(r)}
    OBVIOUS
  <2>2. PICK s \in PairsOf(Targets, Message) : s = out[k] /\ s # <<>> /\ t = s[1][1] /\ o = s[1][2]
    BY <1>1, <1>4
  <2>3. out'[k] = Tail(s)
    BY <1>1, <1>4, <2>2 DEF TypeOK
  <2>4. /\ Chosen(Tail(s), T) \in Seq(Message)
        /\ Chosen(s, T) = IF t \in T THEN <<o>> \o Chosen(Tail(s), T) ELSE Chosen(Tail(s), T)
    <3>1. /\ Chosen(Tail(s), T) \in Seq(Message)
          /\ Chosen(s, T) = IF s[1][1] \in T THEN <<s[1][2]>> \o Chosen(Tail(s), T)
                            ELSE Chosen(Tail(s), T)
      <4>1. TailChosen(s, T, Message)
        BY <2>2, ChosenTail
      <4> QED
        BY <4>1 DEF TailChosen
    <3> QED
      BY <2>2, <3>1
  <2>5. Undispatched(k, l) = Chosen(s, T) /\ Undispatched(k, l)' = Chosen(Tail(s), T)
    BY <2>1, <2>2, <2>3 DEF Undispatched
  <2>6. /\ handed'[l][k] = handed[l][k] /\ asked'[k][l] = asked[k][l]
        /\ Whole(buf[l][k] \o wire[k][l])' = Whole(buf[l][k] \o wire[k][l])
        /\ conn' = conn
    BY <1>2 DEF Whole
  <2>7. CASE t \notin T
    <3>1. sockQueue'[k][l] = sockQueue[k][l]
      BY <1>1, <2>1, <2>7
    <3> QED
      BY <2>4, <2>5, <2>6, <2>7, <3>1 DEF Flow
  <2>8. CASE t \in T
    <3>1. sockQueue'[k][l] = Append(sockQueue[k][l], o)
      BY <1>1, <1>4, <2>1, <2>8
    <3>2. PICK h \in Seq(Message), y \in Seq(Message), q \in Seq(Message), u \in Seq(Message) :
            /\ h = handed[l][k] /\ y = Whole(buf[l][k] \o wire[k][l])
            /\ q = sockQueue[k][l] /\ u = Chosen(Tail(s), T)
      BY <2>4, FlowTypes
    <3>3. PICK x \in Seq(Message) : x = <<o>> /\ Append(q, o) = q \o x
      BY AppendMessage
    <3>4. Undispatched(k, l) = x \o u /\ Undispatched(k, l)' = u
      BY <2>4, <2>5, <2>8, <3>2, <3>3
    <3>5. h \o y \o q \o (x \o u) = h \o y \o Append(q, o) \o u
      <4>1. PICK p \in Seq(Message) : p = h \o y
        BY ConcatProperties
      <4>2. PICK w \in Seq(Message) : w = p \o q
        BY ConcatProperties
      <4>3. w \o (x \o u) = (w \o x) \o u
        <5>1. InSeq(Message, w, x, u)
          BY DEF InSeq
        <5>2. AnyOrder(w, x, u)
          BY <5>1, Associates
        <5> QED
          BY <5>2 DEF AnyOrder
      <4>4. p \o (q \o x) = (p \o q) \o x
        <5>1. InSeq(Message, p, q, x)
          BY DEF InSeq
        <5>2. AnyOrder(p, q, x)
          BY <5>1, Associates
        <5> QED
          BY <5>2 DEF AnyOrder
      <4> QED
        BY <3>3, <4>1, <4>2, <4>3, <4>4
    <3> QED
      BY <2>6, <3>1, <3>2, <3>4, <3>5 DEF Flow
  <2> QED
    BY <2>7, <2>8
<1> QED
  BY <1>3, <1>4

\* sendall moves the first message of the queue to the stream; when it fails the
\* message is lost, and the connection with it.
LEMMA FlowSendStep ==
  ASSUME TypeOK, NEW i \in Nodes, NEW j \in Nodes, SendMsg(i, j) \/ SendFails(i, j),
         NEW k \in Nodes, NEW l \in Nodes, Flow(k, l)
  PROVE  Flow(k, l)'
<1>0. PICK z : SendEffect(i, j, z)
  BY SendDoes
<1>1. /\ \/ SendMsg(i, j) /\ z = Pieces(Head(sockQueue[i][j]))
         \/ /\ SendFails(i, j)
            /\ \E n \in 0 .. 1 : z = SubSeq(Pieces(Head(sockQueue[i][j])), 1, n)
      /\ \A m, n \in Nodes :
           wire'[m][n] = IF m = i /\ n = j THEN wire[m][n] \o z ELSE wire[m][n]
  BY <1>0 DEF SendEffect
<1>2. /\ Taking(i, j)
      /\ UNCHANGED <<asked, out, buf, handed>>
      /\ conn' = conn \/ conn' = [conn EXCEPT ![i][j] = "reset"]
  BY DEF SendMsg, SendFails, Taking, serverVars
<1>3. /\ sockQueue[i][j] # <<>> /\ Head(sockQueue[i][j]) \in Message
      /\ \A m, n \in Nodes :
           sockQueue'[m][n] = IF m = i /\ n = j THEN Tail(sockQueue[m][n]) ELSE sockQueue[m][n]
  BY <1>2, TakingDoes
<1>4. CASE ~(k = i /\ l = j)
  <2>1. conn'[k][l] = conn[k][l]
    <3>1. conn \in [Nodes -> [Nodes -> {"none", "open", "closed", "reset"}]]
      BY DEF TypeOK
    <3> QED
      BY <1>2, <1>4, <3>1
  <2>2. wire'[k][l] = wire[k][l] /\ sockQueue'[k][l] = sockQueue[k][l]
    BY <1>1, <1>3, <1>4
  <2> QED
    BY <1>2, <2>1, <2>2, FlowStays
<1>5. CASE k = i /\ l = j
  <2>1. PICK b \in Seq(Piece), w \in Seq(Piece), o \in Message :
          b = buf[l][k] /\ w = wire[k][l] /\ o = Head(sockQueue[k][l])
    BY <1>3, <1>5, FlowTypes
  <2>2. PICK h \in Seq(Message), y \in Seq(Message), q \in Seq(Message), u \in Seq(Message) :
          /\ h = handed[l][k] /\ y = Whole(b \o w)
          /\ q = sockQueue[k][l] /\ u = Undispatched(k, l)
    BY <2>1, FlowTypes
  <2>3. /\ handed'[l][k] = h /\ asked'[k][l] = asked[k][l] /\ sockQueue'[k][l] = Tail(q)
        /\ Undispatched(k, l)' = u /\ Whole(buf[l][k] \o wire[k][l])' = Whole(b \o (w \o z))
    BY <1>1, <1>2, <1>3, <1>5, <2>1, <2>2 DEF Undispatched, Whole
  <2>4. CASE SendMsg(i, j) /\ z = Pieces(o)
    <3>1. conn'[k][l] = "open" /\ conn[k][l] = "open"
      BY <1>5, <2>4 DEF SendMsg
    <3>2. asked[k][l] = h \o y \o q \o u
      BY <2>1, <2>2, <3>1 DEF Flow
    <3>3. Whole(b \o (w \o z)) = y \o <<o>>
      BY <2>2, <2>4, SentWhole
    <3>4. q # <<>> /\ o = Head(q)
      BY <1>3, <1>5, <2>1, <2>2
    <3>5. /\ h \o y \o q \o u = h \o (y \o <<Head(q)>>) \o Tail(q) \o u
          /\ IsPrefix(h \o (y \o <<Head(q)>>), h \o y \o q \o u)
      BY <3>4, FlowSent, Zenon
    <3> QED
      BY <2>3, <3>2, <3>3, <3>4, <3>5 DEF Flow
  <2>5. CASE SendFails(i, j) /\ \E n \in 0 .. 1 : z = SubSeq(Pieces(o), 1, n)
    <3>1. conn'[k][l] = "reset"
      BY <1>5, <2>5 DEF SendFails, TypeOK
    <3>2. Whole(b \o (w \o z)) = y
      BY <2>2, <2>5, SentInPart
    <3> QED
      BY <2>1, <2>2, <2>3, <3>1, <3>2 DEF Flow
  <2> QED
    BY <1>1, <1>5, <2>1, <2>4, <2>5
<1> QED
  BY <1>4, <1>5

\* recv hands over the messages that became whole; what is whole in the buffer
\* and on the wire follows.
LEMMA FlowReceiveStep ==
  ASSUME TypeOK, NEW i \in Nodes, NEW j \in Nodes, Receive(j, i),
         NEW k \in Nodes, NEW l \in Nodes, Flow(k, l)
  PROVE  Flow(k, l)'
<1>0. PICK x, r, later : ReceiveEffect(j, i, x, r, later)
  BY ReceiveDoes
<1>1. /\ x \in Seq(Message) /\ Whole(r \o later) \in Seq(Message)
      /\ Whole(buf[j][i] \o wire[i][j]) = x \o Whole(r \o later)
      /\ \A m, n \in Nodes :
           /\ handed'[n][m] = IF n = j /\ m = i THEN handed[n][m] \o x ELSE handed[n][m]
           /\ buf'[n][m] = IF n = j /\ m = i THEN r ELSE buf[n][m]
           /\ wire'[m][n] = IF n = j /\ m = i THEN later ELSE wire[m][n]
  BY <1>0 DEF ReceiveEffect
<1>2. UNCHANGED <<conn, out, sockQueue, asked>>
  BY DEF Receive, clientVars
<1>3. CASE ~(k = i /\ l = j)
  <2>1. handed'[l][k] = handed[l][k] /\ buf'[l][k] = buf[l][k] /\ wire'[k][l] = wire[k][l]
    BY <1>1, <1>3
  <2> QED
    BY <1>2, <2>1, FlowStays
<1>4. CASE k = i /\ l = j
  <2>1. handed'[l][k] = handed[l][k] \o x /\ buf'[l][k] = r /\ wire'[k][l] = later
    BY <1>1, <1>4
  <2>2. PICK h \in Seq(Message), y \in Seq(Message) : h = handed[l][k] /\ y = Whole(r \o later)
    BY <1>1, FlowTypes
  <2>3. h \o (x \o y) = (h \o x) \o y
    <3>1. InSeq(Message, h, x, y)
      BY <1>1 DEF InSeq
    <3>2. AnyOrder(h, x, y)
      BY <3>1, Associates
    <3> QED
      BY <3>2 DEF AnyOrder
  <2>4. handed[l][k] \o Whole(buf[l][k] \o wire[k][l]) = (h \o x) \o y
    BY <1>1, <1>4, <2>2, <2>3
  <2>5. (handed[l][k] \o Whole(buf[l][k] \o wire[k][l]))' = (h \o x) \o y
    BY <2>1, <2>2 DEF Whole
  <2>6. Undispatched(k, l)' = Undispatched(k, l)
    BY <1>2 DEF Undispatched
  <2> QED
    BY <1>2, <2>4, <2>5, <2>6 DEF Flow
<1> QED
  BY <1>3, <1>4

\* Every step keeps the flow of every pair.
LEMMA FlowStep ==
  ASSUME TypeOK, [Next]_vars, NEW k \in Nodes, NEW l \in Nodes, Flow(k, l)
  PROVE  Flow(k, l)'
<1>1. ASSUME NEW i \in Nodes, Listen(i) \/ ClientReady(i) \/ StartNode(i) \/ Finish(i)
      PROVE  Flow(k, l)'
  <2>1. UNCHANGED <<conn, out, sockQueue, asked, wire, buf, handed>>
    BY <1>1 DEF Listen, ClientReady, StartNode, Finish, clientVars, serverVars
  <2> QED
    BY <2>1, FlowStays
<1>2. ASSUME NEW i \in Nodes, Terminate(i)
      PROVE  Flow(k, l)'
  <2>1. UNCHANGED <<out, sockQueue, asked, wire, buf, handed>>
    BY <1>2 DEF Terminate, clientVars
  <2>2. conn'[k][l] \in {"none", "open"} => conn[k][l] \in {"none", "open"}
    <3>1. conn \in [Nodes -> [Nodes -> {"none", "open", "closed", "reset"}]]
      BY DEF TypeOK
    <3>2. conn' = [conn EXCEPT ![i] =
                     [j \in Nodes |-> IF conn[i][j] = "open" THEN "closed" ELSE conn[i][j]]]
      BY <1>2 DEF Terminate
    <3>3. CASE k = i
      BY <3>1, <3>2, <3>3
    <3>4. CASE k # i
      BY <3>1, <3>2, <3>4
    <3> QED
      BY <3>3, <3>4
  <2> QED
    BY <2>1, <2>2, FlowStays
<1>3. ASSUME NEW i \in Nodes, Put(i) PROVE Flow(k, l)'
  BY <1>3, FlowPutStep
<1>4. ASSUME NEW i \in Nodes, Dispatch(i) PROVE Flow(k, l)'
  BY <1>4, FlowDispatchStep
<1>5. ASSUME NEW i \in Nodes, NEW j \in Nodes, Connect(i, j)
      PROVE  Flow(k, l)'
  <2>1. UNCHANGED <<out, sockQueue, asked, wire, buf, handed>>
    BY <1>5 DEF Connect, clientVars, serverVars
  <2>2. conn'[k][l] \in {"none", "open"} => conn[k][l] \in {"none", "open"}
    <3>1. conn \in [Nodes -> [Nodes -> {"none", "open", "closed", "reset"}]]
      BY DEF TypeOK
    <3>2. conn' = [conn EXCEPT ![i][j] = "open"] /\ conn[i][j] = "none"
      BY <1>5 DEF Connect
    <3> QED
      BY <3>1, <3>2
  <2> QED
    BY <2>1, <2>2, FlowStays
<1>6. ASSUME NEW i \in Nodes, NEW j \in Nodes, SendMsg(i, j) \/ SendFails(i, j)
      PROVE  Flow(k, l)'
  BY <1>6, FlowSendStep
<1>7. ASSUME NEW i \in Nodes, NEW j \in Nodes, Receive(j, i) PROVE Flow(k, l)'
  BY <1>7, FlowReceiveStep
<1>8. ASSUME NEW i \in Nodes, NEW j \in Nodes, ReceiveNothing(j, i) \/ ReceiveRaises(j, i)
      PROVE  Flow(k, l)'
  <2>1. UNCHANGED <<conn, out, sockQueue, asked, wire, buf, handed>>
    BY <1>8 DEF ReceiveNothing, ReceiveRaises, clientVars
  <2> QED
    BY <2>1, FlowStays
<1>9. CASE UNCHANGED vars
  <2>1. UNCHANGED <<conn, out, sockQueue, asked, wire, buf, handed>>
    BY <1>9 DEF vars
  <2> QED
    BY <2>1, FlowStays
<1> QED
  BY <1>1, <1>2, <1>3, <1>4, <1>5, <1>6, <1>7, <1>8, <1>9 DEF Next

-----------------------------------------------------------------------------
(* The theorems *)

LEMMA FlowIs == NothingLost /\ Ahead <=> \A k, l \in Nodes : Flow(k, l)
  BY DEF NothingLost, Ahead, Flow

LEMMA InvInit == Init => IInv
<1> SUFFICES ASSUME Init PROVE IInv
  OBVIOUS
<1>1. TypeOK
  BY TypeInit
<1>2. Connected
  BY DEF Init, Connected
<1>3. ASSUME NEW k \in Nodes, NEW l \in Nodes PROVE Flow(k, l)
  <2>1. /\ asked[k][l] = <<>> /\ handed[l][k] = <<>> /\ sockQueue[k][l] = <<>>
        /\ buf[l][k] = <<>> /\ wire[k][l] = <<>> /\ out[k] = <<>>
    BY DEF Init, PerPair
  <2>2. <<>> \o <<>> = <<>>
    OBVIOUS
  <2>3. Undispatched(k, l) = <<>> /\ Whole(buf[l][k] \o wire[k][l]) = <<>>
    BY <2>1, <2>2, ChosenEmpty DEF Undispatched, Whole
  <2>4. IsPrefix(<<>>, <<>>)
    <3>1. <<>> \in Seq({})
      BY EmptySeq
    <3> QED
      BY <2>2, <3>1, PrefixOf
  <2> QED
    BY <2>1, <2>2, <2>3, <2>4 DEF Flow
<1>4. NothingLost /\ Ahead
  BY <1>3, FlowIs
<1> QED
  BY <1>1, <1>2, <1>4 DEF IInv

LEMMA InvStep == IInv /\ [Next]_vars => IInv'
<1> SUFFICES ASSUME IInv, [Next]_vars PROVE IInv'
  OBVIOUS
<1>1. TypeOK' /\ Connected'
  BY TypeStep, ConnectedStep DEF IInv
<1>2. ASSUME NEW k \in Nodes, NEW l \in Nodes PROVE Flow(k, l)'
  <2>1. Flow(k, l)
    BY FlowIs DEF IInv
  <2> QED
    BY <2>1, FlowStep DEF IInv
<1>3. NothingLost' /\ Ahead'
  BY <1>2 DEF NothingLost, Ahead, Flow
<1> QED
  BY <1>1, <1>3 DEF IInv

\* The inductive invariant holds in every state of every behaviour.
THEOREM Invariance == Spec => []IInv
<1> QED
  BY InvInit, InvStep, PTL DEF Spec

\* The variables of the sockets keep their types.
THEOREM SocketTypes == Spec => []TypeOK
<1>1. IInv => TypeOK
  BY DEF IInv
<1> QED
  BY <1>1, Invariance, PTL

\* While a connection is open nothing on it is lost: what was asked for is what
\* was handed over, what is whole in the buffer and on the wire, what is queued
\* and what is still to be dispatched, in that order.
THEOREM NoneLost == Spec => []NothingLost
<1>1. IInv => NothingLost
  BY DEF IInv
<1> QED
  BY <1>1, Invariance, PTL

\* Whatever breaks, a node is handed a prefix of what another one put for it.
THEOREM NoGap == Spec => []GapFree
<1>1. IInv => GapFree
  <2> SUFFICES ASSUME IInv, NEW i \in Nodes, NEW j \in Nodes
               PROVE  IsPrefix(handed[j][i], asked[i][j])
    BY DEF GapFree
  <2>1. PICK h \in Seq(Message), y \in Seq(Message), a \in Seq(Message) :
          h = handed[j][i] /\ y = Whole(buf[j][i] \o wire[i][j]) /\ a = asked[i][j]
    BY FlowTypes DEF IInv
  <2>2. PICK p \in Seq(Message) : p = h \o y
    BY ConcatProperties
  <2>3. IsPrefix(p, a)
    BY <2>1, <2>2 DEF IInv, Ahead
  <2>4. PICK u \in Seq(Message) : a = p \o u
    BY <2>3, PrefixHasRest
  <2>5. h \o (y \o u) = (h \o y) \o u
    <3>1. InSeq(Message, h, y, u)
      BY DEF InSeq
    <3>2. AnyOrder(h, y, u)
      BY <3>1, Associates
    <3> QED
      BY <3>2 DEF AnyOrder
  <2>6. y \o u \in Seq(Message)
    BY ConcatProperties
  <2>7. IsPrefix(h, h \o (y \o u))
    BY <2>6, PrefixOf
  <2> QED
    BY <2>1, <2>2, <2>4, <2>5, <2>7
<1> QED
  BY <1>1, Invariance, PTL

\* A node runs the protocol only when it is connected to every server.
THEOREM StartsConnected == Spec => []RunsConnected
<1>1. IInv => RunsConnected
  BY DEF IInv, Connected, RunsConnected, AllConnected
<1> QED
  BY <1>1, Invariance, PTL
=============================================================================
