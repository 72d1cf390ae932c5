------------------------------ MODULE CommonCoin ------------------------------
(***************************************************************************)
(* shared_coin: whoever wants the coin of a round broadcasts its share of a *)
(* threshold signature on the round; the receive loop checks the shares it  *)
(* gets and puts the coin into the round's queue, of length one, when it    *)
(* has f + 1 of them; getCoin takes it from there.  Shares may come before  *)
(* the node asks and after it has its coin.                                 *)
(*                                                                          *)
(* A share is a number of ThresholdKeys.  A faulty node may send any share  *)
(* at any time, also false ones, which are dropped.                         *)
(***************************************************************************)
EXTENDS ThresholdKeys, Sequences

CONSTANTS
  Faulty,     \* the players that do not follow the protocol
  F,          \* f
  Rounds,     \* the rounds a coin is asked for, 0 .. n
  a,          \* the dealer's polynomial
  HashOf,     \* HashOf[r]: the hash of (sid, r)
  BitOf,      \* BitOf[sig]: the low bit of the hash of a signature
  None        \* Python's None

Correct == Players \ Faulty

\* Assumed of the constants.
KeysAssumption == KT = F + 1 /\ a \in [0 .. KT - 1 -> Field]
FaultyAssumption == Faulty \subseteq Players /\ Cardinality(Faulty) <= F /\ F \in Nat
RoundsAssumption ==
  HashOf \in [Rounds -> Field \ {0}] /\ BitOf \in [Field -> {0, 1}] /\ None \notin {0, 1}

VARIABLES
  asked,         \* asked[r]: the correct nodes that called getCoin(r)
  received,      \* received[p][r]: the shares p keeps, by sender
  outputQueue,   \* outputQueue[p][r]: what was put and not taken
  crashed,       \* the nodes whose receive loop an exception has ended
  coin           \* coin[p][r]: what getCoin(r) returned to p, or None

vars == <<asked, received, outputQueue, crashed, coin>>

NoShares == [i \in {} |-> 0]
With(shares, i, x) == [j \in DOMAIN shares \cup {i} |-> IF j = i THEN x ELSE shares[j]]

Init ==
  /\ asked = [r \in Rounds |-> {}]
  /\ received = [p \in Correct |-> [r \in Rounds |-> NoShares]]
  /\ outputQueue = [p \in Correct |-> [r \in Rounds |-> <<>>]]
  /\ crashed = {}
  /\ coin = [p \in Correct |-> [r \in Rounds |-> None]]

-----------------------------------------------------------------------------
\* getCoin(r), up to the wait: an agreement asks for one round after another.
GetCoin(p, r) ==
  /\ p \notin asked[r] /\ (r > 0 => coin[p][r - 1] # None)
  /\ asked' = [asked EXCEPT ![r] = @ \cup {p}]
  /\ UNCHANGED <<received, outputQueue, crashed, coin>>

\* The queue had something: getCoin returns it.
ReturnCoin(p, r) ==
  /\ p \in asked[r] /\ coin[p][r] = None /\ outputQueue[p][r] # <<>>
  /\ coin' = [coin EXCEPT ![p][r] = Head(outputQueue[p][r])]
  /\ outputQueue' = [outputQueue EXCEPT ![p][r] = Tail(@)]
  /\ UNCHANGED <<asked, received, crashed>>

\* Mutant of MaySend: shares are broadcast before the coin is asked for.
MaySendUnasked(q, r, x) == q \in Faulty \/ x = Sign(a, q, HashOf[r])

\* A share q may send p: a correct node one share when it asks, a faulty node
\* any.
MaySend(q, r, x) == q \in Faulty \/ (q \in asked[r] /\ x = Sign(a, q, HashOf[r]))

\* Mutants of Ready: f shares are enough; the coin is put again for every
\* further share.
ReadyEarly(n) == n = F
ReadyAgain(n) == n >= F + 1

\* Every share but the own is verified.
Accepted(p, q, r, x) == q = p \/ VerifyShare(a, x, q, HashOf[r])
Ready(n) == n = F + 1

\* Mutant of CoinOf: the bit comes from the share and not from the signature.
CoinOfShare(shares) == BitOf[CHOOSE x \in {shares[i] : i \in DOMAIN shares} : TRUE]

CoinOf(shares) == BitOf[CombineSignature(shares)]

\* The receive loop: one share of each sender is kept, and the one that makes
\* f + 1 makes the coin.  A signature that does not verify and a queue that is
\* full raise.
ReceiveShare(p, q, r, x) ==
  LET now == With(received[p][r], q, x) IN
  /\ p \notin crashed /\ q \notin DOMAIN received[p][r]
  /\ MaySend(q, r, x) /\ Accepted(p, q, r, x)
  /\ received' = [received EXCEPT ![p][r] = now]
  /\ IF ~Ready(Cardinality(DOMAIN now)) THEN UNCHANGED <<outputQueue, crashed>>
     ELSE IF Cardinality(DOMAIN now) = KT /\ VerifySignature(a, CombineSignature(now), HashOf[r])
             /\ outputQueue[p][r] = <<>>
       THEN /\ outputQueue' = [outputQueue EXCEPT ![p][r] = <<CoinOf(now)>>]
            /\ UNCHANGED crashed
       ELSE /\ crashed' = crashed \cup {p}
            /\ UNCHANGED outputQueue
  /\ UNCHANGED <<asked, coin>>

Next ==
  \E p \in Correct, r \in Rounds :
    \/ GetCoin(p, r) \/ ReturnCoin(p, r)
    \/ \E q \in Players, x \in Field : ReceiveShare(p, q, r, x)

Spec == Init /\ [][Next]_vars

\* A share that was sent arrives and every greenlet runs.  Asking is up to the
\* agreements; faulty nodes may send nothing.
Fairness ==
  \A p \in Correct :
    /\ WF_vars(\E r \in Rounds : ReturnCoin(p, r))
    /\ WF_vars(\E r \in Rounds, q \in Correct, x \in Field : ReceiveShare(p, q, r, x))

FairSpec == Spec /\ Fairness

-----------------------------------------------------------------------------
(* Properties *)

TypeOK ==
  /\ asked \in [Rounds -> SUBSET Correct]
  /\ \A p \in Correct, r \in Rounds :
       /\ DOMAIN received[p][r] \subseteq Players
       /\ \A i \in DOMAIN received[p][r] : VerifyShare(a, received[p][r][i], i, HashOf[r])
       /\ Len(outputQueue[p][r]) <= 1 /\ coin[p][r] \in {0, 1, None}

\* Whoever gets the coin of a round gets the same, whichever f + 1 shares it
\* was made of.
SameCoin ==
  \A p, q \in Correct, r \in Rounds :
    coin[p][r] # None /\ coin[q][r] # None => coin[p][r] = coin[q][r]

\* No coin is known, not even to a receive loop, before a correct node asks:
\* the faulty ones cannot look ahead.
NotBeforeAsked ==
  \A p \in Correct, r \in Rounds :
    coin[p][r] # None \/ outputQueue[p][r] # <<>> => asked[r] # {}

\* No exception ends a receive loop: shares that are kept make a signature
\* that verifies, and a coin is put once, when it comes early as when it comes
\* late.
NoLoopCrashes == crashed = {}

\* When f + 1 correct nodes ask, everyone who asks gets the coin.
CoinComes ==
  \A p \in Correct, r \in Rounds :
    (p \in asked[r] /\ Cardinality(asked[r]) >= F + 1) ~> coin[p][r] # None
=============================================================================
