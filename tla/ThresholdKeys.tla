----------------------------- MODULE ThresholdKeys -----------------------------
(***************************************************************************)
(* The algebra of the threshold keys of crypto/threshsig/boldyreva.py and   *)
(* crypto/threshenc/tpke.py: Shamir shares of a secret dealt to l players,  *)
(* k of which sign or decrypt together.                                     *)
(*                                                                          *)
(* The groups are written in the exponent, in the field of Q elements: g^x  *)
(* is x, g^x * g^y is x + y, (g^x)^y is x * y, and the pairing of g^x and   *)
(* g^y is x * y too.  The generators g1 and g2 are 1.                       *)
(***************************************************************************)
EXTENDS Integers, FiniteSets, FiniteSetsExt

CONSTANTS
  Q,   \* the order of the groups: a prime, small here
  L,   \* l: the players, 0 .. l - 1
  KT   \* k: the shares it takes

Field == 0 .. Q - 1
Players == 0 .. L - 1

\* Assumed of the constants.
FieldAssumption == Q \in Nat /\ Q > L /\ \A d \in 2 .. Q - 1 : Q % d # 0
ShareAssumption == L \in Nat \ {0} /\ KT \in 1 .. L

\* polynom_eval: Horner's rule gives what the loop over powers does.
PolynomEval(x, a) ==
  LET sum[i \in 0 .. KT] == IF i = KT THEN 0 ELSE (a[i] + x * sum[i + 1]) % Q IN sum[0]

\* Mutant of KeyOf: player i gets the value at i, so player 0 the secret.
KeyAtIndex(a, i) == PolynomEval(i, a)

\* dealer: the key share of player i is the polynomial at i + 1.
KeyOf(a, i) == PolynomEval(i + 1, a)
Secret(a) == PolynomEval(0, a)

\* VK and VKs, in the exponent.
VK(a) == Secret(a)
VKs(a) == [i \in Players |-> KeyOf(a, i)]

InverseOf(x) == CHOOSE y \in Field : (x * y) % Q = 1

\* Mutant of Lagrange: the points of evaluation are taken for the indices.
LagrangeAtIndex(S, j) ==
  LET factor(jj) == (0 - jj) * InverseOf((j - jj) % Q)
  IN FoldSet(LAMBDA jj, product : (product * factor(jj)) % Q, 1, S \ {j})

\* lagrange(S, j), at 0.
Lagrange(S, j) ==
  LET factor(jj) == (0 - jj - 1) * InverseOf((j - jj) % Q)
  IN FoldSet(LAMBDA jj, product : (product * factor(jj)) % Q, 1, S \ {j})

\* The product of share ** lagrange(S, j): what combine_shares computes.
Interpolate(shares) ==
  LET S == DOMAIN shares IN MapThenSumSet(LAMBDA j : shares[j] * Lagrange(S, j), S) % Q

-----------------------------------------------------------------------------
(* Signatures *)

\* sign: the share of player i on the hash h.
Sign(a, i, h) == (h * KeyOf(a, i)) % Q

\* Mutant of VerifyShare: every share passes.
VerifyNothing(a, sig, i, h) == i \in Players

VerifyShare(a, sig, i, h) == i \in Players /\ sig = (h * VKs(a)[i]) % Q
VerifySignature(a, sig, h) == sig = (h * VK(a)) % Q
CombineSignature(sigs) == Interpolate(sigs)

-----------------------------------------------------------------------------
(* Encryption.  V is the message with the key that masks it; hashH and hashG *)
(* lose nothing here.                                                        *)

Encrypt(a, m, r, hashH) ==
  [U |-> r, V |-> [masked |-> m, mask |-> (r * VK(a)) % Q], H |-> hashH, W |-> (r * hashH) % Q]

VerifyCiphertext(c) == c.W = (c.U * c.H) % Q

\* decrypt_share
DecryptShare(a, i, c) == (c.U * KeyOf(a, i)) % Q

VerifyDecryptShare(a, share, i, c) == i \in Players /\ share = (c.U * VKs(a)[i]) % Q

\* combine_shares of tpke: None stands for the AssertionError of a bad share,
\* and for a message that the wrong mask garbles.
Open(a, c, shares, none) ==
  IF (\A i \in DOMAIN shares : VerifyDecryptShare(a, shares[i], i, c))
     /\ Interpolate(shares) = c.V.mask
  THEN c.V.masked ELSE none
=============================================================================
