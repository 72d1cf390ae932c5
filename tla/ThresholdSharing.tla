--------------------------- MODULE ThresholdSharing ---------------------------
(***************************************************************************)
(* The threshold keys in use: a dealer deals, a message is signed and       *)
(* another encrypted, and somebody collects shares of both, true and false  *)
(* ones, until there are k.                                                 *)
(***************************************************************************)
EXTENDS ThresholdKeys

CONSTANTS
  Hashes,   \* the hashes of the messages signed
  Nonces,   \* the r of the ciphertexts
  Message,  \* what is encrypted
  None      \* Python's None

\* Assumed of the constants.
HashAssumption == Hashes \cup Nonces \subseteq Field \ {0}

VARIABLES
  a,       \* the coefficients of the dealer's polynomial
  h,       \* the hash of the message to sign
  c,       \* the ciphertext
  sigs,    \* the signature shares that passed verify_share, by player
  opens    \* the decryption shares received, by player

vars == <<a, h, c, sigs, opens>>

Empty == [i \in {} |-> 0]
With(shares, i, x) == [j \in DOMAIN shares \cup {i} |-> IF j = i THEN x ELSE shares[j]]

Init ==
  /\ a \in [0 .. KT - 1 -> Field]
  /\ h \in Hashes
  /\ \E r \in Nonces : c = Encrypt(a, Message, r, h)
  /\ sigs = Empty /\ opens = Empty

\* A signature share is verified when it comes, and dropped when it fails.
CollectSignature(i, x) ==
  /\ Cardinality(DOMAIN sigs) < KT /\ i \notin DOMAIN sigs /\ opens = Empty
  /\ VerifyShare(a, x, i, h)
  /\ sigs' = With(sigs, i, x)
  /\ UNCHANGED <<a, h, c, opens>>

\* Decryption shares are verified by combine_shares only.  The model takes at
\* most one false one, and the shares of the two schemes one after the other.
CollectDecryption(i, x) ==
  /\ Cardinality(DOMAIN sigs) = KT
  /\ Cardinality(DOMAIN opens) < KT /\ i \notin DOMAIN opens
  /\ \/ x = DecryptShare(a, i, c)
     \/ \A j \in DOMAIN opens : opens[j] = DecryptShare(a, j, c)
  /\ opens' = With(opens, i, x)
  /\ UNCHANGED <<a, h, c, sigs>>

Next ==
  \E i \in Players, x \in Field : CollectSignature(i, x) \/ CollectDecryption(i, x)

Spec == Init /\ [][Next]_vars

-----------------------------------------------------------------------------
(* Properties *)

\* Any k shares that passed verification combine to the signature the secret
\* itself would make: the same whoever's shares they are, and one that
\* verify_signature accepts.
SameSignature ==
  Cardinality(DOMAIN sigs) = KT =>
    /\ CombineSignature(sigs) = (h * Secret(a)) % Q
    /\ VerifySignature(a, CombineSignature(sigs), h)

\* Any k true decryption shares open the ciphertext, and one false share among
\* them never opens it to anything.
OpensOrRaises ==
  Cardinality(DOMAIN opens) = KT =>
    Open(a, c, opens, None) =
      IF \A i \in DOMAIN opens : opens[i] = DecryptShare(a, i, c) THEN Message ELSE None

\* Fewer than k players know nothing: their shares are those of some
\* polynomial for every secret there is.  (Looked at before any is used.)
FewerLearnNothing ==
  sigs = Empty => \A S \in SUBSET Players : Cardinality(S) = KT - 1 =>
    \A s \in Field : \E b \in [0 .. KT - 1 -> Field] :
      Secret(b) = s /\ \A i \in S : KeyOf(b, i) = KeyOf(a, i)

\* What decrypt_share asserts of an honest ciphertext.
TypeOK ==
  /\ a \in [0 .. KT - 1 -> Field] /\ VerifyCiphertext(c)
  /\ \A i \in DOMAIN sigs : i \in Players /\ VerifyShare(a, sigs[i], i, h)
  /\ DOMAIN opens \subseteq Players
=============================================================================
