----------------------------- MODULE MCAlgorithms -----------------------------
(***************************************************************************)
(* The algorithms under the protocols of the HoneyBadger stack for TLC,     *)
(* each on bounded inputs: the Merkle tree of the stripes, the primality    *)
(* test and the threshold keys of coin and encryption.  MCStack draws which *)
(* one runs; the variables of the others keep what Idle gives them.         *)
(***************************************************************************)
EXTENDS Integers, FiniteSets

CONSTANTS Message, NoMessage   \* what is encrypted, and nothing

VARIABLES
  leaves,
  number, twos, odd, trial, at, probable,
  poly, hashed, ciphertext, sigs, opens

treeVars == <<leaves>>
primeVars == <<number, twos, odd, trial, at, probable>>
keyVars == <<poly, hashed, ciphertext, sigs, opens>>

Tree == INSTANCE MerkleTree   \* of leaves values
Prime == INSTANCE MillerRabin WITH
  MaxN <- 600, Trials <- 2, n <- number, s <- twos, d <- odd, pc <- at, result <- probable
Keys == INSTANCE ThresholdSharing WITH
  Q <- 5, L <- 4, KT <- 3, Hashes <- {3}, Nonces <- {2},
  a <- poly, h <- hashed, c <- ciphertext, None <- NoMessage

AlgorithmsAssumption ==
  /\ Prime!MillerRabinAssumption
  /\ Keys!FieldAssumption /\ Keys!ShareAssumption /\ Keys!HashAssumption

PrimeIdle ==
  number = 0 /\ twos = 0 /\ odd = 0 /\ trial = 0 /\ at = "done" /\ probable = FALSE
KeysIdle == poly = 0 /\ hashed = 0 /\ ciphertext = 0 /\ sigs = 0 /\ opens = 0
=============================================================================
