---------------------------- MODULE MillerRabin ----------------------------
(***************************************************************************)
(* The primality test of crypto/threshsig/millerrabin.py: n - 1 is written *)
(* as 2^s * d with d odd, then bases are drawn at random and tested until  *)
(* one shows that n is composite or Trials have been.                      *)
(***************************************************************************)
EXTENDS Integers, FiniteSets

CONSTANTS
    MaxN,    \* the numbers tested are 2 .. MaxN (bound)
    Trials   \* _mrpt_num_trials (bound)

\* Assumed of the constants.
MillerRabinAssumption == MaxN \in Nat \ {0} /\ Trials \in Nat

\* pow(a, e, n)
PowMod(a, e, n) ==
    LET p[x \in 0 .. e] ==
            IF x = 0 THEN 1 % n
            ELSE LET h == p[x \div 2] IN (h * h * (IF x % 2 = 1 THEN a ELSE 1)) % n
    IN  p[e]

\* Mutants of Composite: -1 is looked for after the first squaring only; the
\* first power may not be 1
CompositeLate(a, n, s, d) ==
    /\ PowMod(a, d, n) # 1
    /\ \A i \in 1 .. s - 1 : PowMod(a, 2^i * d, n) # n - 1
CompositeFermat(a, n, s, d) == PowMod(a, n - 1, n) # 1

\* try_composite(a)
Composite(a, n, s, d) ==
    /\ PowMod(a, d, n) # 1
    /\ \A i \in 0 .. s - 1 : PowMod(a, 2^i * d, n) # n - 1

VARIABLES n, s, d, trial, pc, result

vars == <<n, s, d, trial, pc, result>>

\* is_probable_prime up to the loops
Init ==
    /\ n \in 2 .. MaxN
    /\ s = 0 /\ d = n - 1 /\ trial = 0
    /\ IF n = 2 THEN pc = "done" /\ result = TRUE
       ELSE IF n % 2 = 0 THEN pc = "done" /\ result = FALSE
       ELSE pc = "split" /\ result = FALSE

\* divmod(d, 2) has no remainder
Halves(x) == x % 2 = 0

\* one turn of the loop that divides n - 1 by 2
Split ==
    /\ pc = "split"
    /\ IF Halves(d) THEN s' = s + 1 /\ d' = d \div 2 /\ UNCHANGED pc
       ELSE pc' = "test" /\ UNCHANGED <<s, d>>
    /\ UNCHANGED <<n, trial, result>>

\* the loop counts every base
NextTrial(t) == t + 1

\* one turn of the loop over the bases, with a = random.randrange(2, n)
Test ==
    /\ pc = "test"
    /\ IF trial = Trials THEN pc' = "done" /\ result' = TRUE /\ UNCHANGED trial
       ELSE \E a \in 2 .. n - 1 :
                /\ trial' = NextTrial(trial)
                /\ pc' = IF Composite(a, n, s, d) THEN "done" ELSE pc
                /\ UNCHANGED result
    /\ UNCHANGED <<n, s, d>>

Next == Split \/ Test
Spec == Init /\ [][Next]_vars /\ WF_vars(Next)

-----------------------------------------------------------------------------
\* Properties

Prime(k) == \A x \in 2 .. k - 1 : k % x # 0

\* Types, and the split: the assertion 2**s * d == n-1 with d odd in the end.
TypeOK ==
    /\ n \in 2 .. MaxN /\ trial \in 0 .. Trials /\ result \in BOOLEAN
    /\ pc \in {"split", "test", "done"}
    /\ 2^s * d = n - 1
    /\ pc = "test" => d % 2 = 1

\* "A return value of False means n is certainly not prime": whatever bases
\* are drawn.
FalseIsComposite == pc = "done" /\ ~result => ~Prime(n)

\* "True means n is very likely a prime": of the bases that can be drawn for a
\* composite number at most a quarter of n do not show it, so each trial
\* errs with a probability of about a quarter at most, for every number, also
\* those that pass Fermat's test.
FewLiars ==
    pc = "test" /\ ~Prime(n)
        => 4 * Cardinality({a \in 2 .. n - 1 : ~Composite(a, n, s, d)}) <= n - 1
=============================================================================
