----------------------------- MODULE MerkleTree -----------------------------
(***************************************************************************)
(* The Merkle tree of reliablebroadcast.py, as the broadcast uses it for   *)
(* the stripes of a message and roundkey.py for the public keys of the     *)
(* rounds: the owner of a list publishes the root, and a receiver checks a *)
(* value against the root, an index and a branch.                          *)
(*                                                                         *)
(* A byte string is a sequence of atoms, so that + is \o; the atoms are    *)
(* the values and the digests.  A digest stands for what was hashed: no    *)
(* two strings have the same.                                              *)
(***************************************************************************)
EXTENDS Integers, Sequences, SequencesExt

Stripe(k) == << <<"value", <<>>, k>> >>
hash(x) == << <<"digest", x, 0>> >>
Blank == <<>>

\* ceil(math.log(n, 2))
Log2(n) == CHOOSE d \in 0 .. n : 2^d >= n /\ \A e \in 0 .. d - 1 : 2^e < n

\* Mutant of merkleTree: the hash of a node forgets its right child
merkleTreeLeft(strList) ==
    LET n == Len(strList)
        bottomrow == 2^Log2(n)
        mt[i \in 1 .. 2 * bottomrow - 1] ==
            IF i < bottomrow THEN hash(mt[2 * i])
            ELSE IF i - bottomrow < n THEN hash(strList[i - bottomrow + 1])
            ELSE Blank
    IN  mt

\* mt[1] is the root; the leaves start at bottomrow, blank beyond the list
merkleTree(strList) ==
    LET n == Len(strList)
        bottomrow == 2^Log2(n)
        mt[i \in 1 .. 2 * bottomrow - 1] ==
            IF i < bottomrow THEN hash(mt[2 * i] \o mt[2 * i + 1])
            ELSE IF i - bottomrow < n THEN hash(strList[i - bottomrow + 1])
            ELSE Blank
    IN  mt

\* t ^ 1
Sibling(t) == IF t % 2 = 0 THEN t + 1 ELSE t - 1

\* the siblings of the nodes from the leaf of index up to below the root
getMerkleBranch(index, mt, n) ==
    [l \in 1 .. Log2(n) |-> mt[Sibling((index + 2^Log2(n)) \div 2^(l - 1))]]

\* the root that a value and a branch lead to
Climb(val, branch, index) ==
    FoldLeft(LAMBDA acc, br :
                [tmp |-> hash(IF acc.t % 2 = 1 THEN br \o acc.tmp
                                               ELSE acc.tmp \o br),
                 t   |-> acc.t \div 2],
             [tmp |-> hash(val), t |-> index], branch).tmp

\* Mutant of Wellformed: the length of the branch is not asserted
WellformedAnyLength(n, branch, index) == 0 <= index /\ index < n

\* the assertions of merkleVerify
Wellformed(n, branch, index) ==
    0 <= index /\ index < n /\ Len(branch) = Log2(n)

\* merkleVerify, which raises when an assertion fails
merkleVerify(n, val, roothash, branch, index) ==
    IF ~Wellformed(n, branch, index) THEN "raises"
    ELSE IF Climb(val, branch, index) = roothash THEN "accepted" ELSE "rejected"

-----------------------------------------------------------------------------
(* What a receiver may be shown, of a list with the values 0 .. n-1 in order. *)

TreeOf(n) == merkleTree([k \in 1 .. n |-> Stripe(k - 1)])

\* Any value of the list or none of it, and the two digests under a node taken
\* for a value.
Vals(mt, n) ==
    {Stripe(k) : k \in 0 .. n}
        \cup {mt[2 * i] \o mt[2 * i + 1] : i \in 1 .. 2^Log2(n) - 1}

\* Branches of the nodes of the tree and of a digest that is not in it, as long
\* as they should be or one shorter.
Branches(mt, n) ==
    LET Digests == {mt[i] : i \in DOMAIN mt} \cup {hash(Stripe(n))}
    IN  UNION {[1 .. d -> Digests] : d \in {d \in {Log2(n), Log2(n) - 1} : d >= 0}}

-----------------------------------------------------------------------------
(* Properties, for each length of the list. *)

\* The branch of every value of the list is accepted, powers of two or not.
Complete(n) ==
    LET mt == TreeOf(n) IN
    \A k \in 0 .. n - 1 :
        merkleVerify(n, Stripe(k), mt[1], getMerkleBranch(k, mt, n), k) = "accepted"

\* A root binds one value and one branch to each index: what is accepted there
\* is the value of the list with the branch its owner made, so no stripe of
\* another node and no key of another round is taken for it, nor an inner node
\* for a value.
Binding(n) ==
    LET mt == TreeOf(n) IN
    \A val \in Vals(mt, n), branch \in Branches(mt, n), index \in 0 .. n :
        merkleVerify(n, val, mt[1], branch, index) = "accepted"
            => val = Stripe(index) /\ branch = getMerkleBranch(index, mt, n)
=============================================================================
