---------------------------- MODULE GossipSpread ----------------------------
(***************************************************************************)
(* A message goes from any node along the links that the constructors of   *)
(* the gossip network compute, all hops at once, for every number of nodes *)
(* and every link_size up to a bound.  The links drawn at random are left  *)
(* out: they come on top.                                                  *)
(***************************************************************************)
EXTENDS GossipLinks

CONSTANTS MaxSize, MaxLinkSize   \* bounds on the network

\* Assumed of the constants.
ASSUME SpreadAssumption == MaxSize \in Nat /\ MaxLinkSize \in Nat

VARIABLES
    size, linkSize,  \* the number of nodes and link_size
    link, deep,      \* what the constructors of all nodes compute
    reached, hops    \* the nodes a message has reached, after how many hops

linkVars == <<size, linkSize, link, deep, reached, hops>>

\* The constructors of all nodes are run.
Built ==
    /\ link = [i \in 0 .. size - 1 |-> Link(size, linkSize, i)]
    /\ deep = [i \in 0 .. size - 1 |-> Deep(linkSize, i)]

SpreadInit ==
    /\ size \in 2 .. MaxSize /\ linkSize \in 1 .. MaxLinkSize
    /\ Built
    /\ \E origin \in 0 .. size - 1 : reached = link[origin]
    /\ hops = 1

\* every node reached forwards to its links
Hop ==
    LET next == reached \cup UNION {link[i] : i \in reached}
    IN  /\ next # reached
        /\ reached' = next /\ hops' = hops + 1
        /\ UNCHANGED <<size, linkSize, link, deep>>

Spread == SpreadInit /\ [][Hop]_linkVars /\ WF_linkVars(Hop)

\* Types, and link never empty nor longer than link_size.
LinksTypeOK ==
    /\ reached \subseteq 0 .. size - 1 /\ hops \in Nat
    /\ \A i \in 0 .. size - 1 : link[i] # {} /\ Cardinality(link[i]) <= linkSize

\* Every node but the first has exactly one link to it from the level above,
\* so forwarding goes down a tree.
Tree ==
    \A j \in 1 .. size - 1 :
        Cardinality({i \in 0 .. size - 1 :
            j \in link[i] /\ deep[i] < deep[j]}) = 1

\* From every node a message is everywhere, its origin included, after a way
\* down, back to the top and down again at most.
FewHops == hops <= 2 * deep[size - 1] + 1

\* What GossipClient and GossipServer compute is a tree with a way back to its
\* top from everywhere.
LinksAreTree == LinksTypeOK /\ Tree /\ FewHops

\* The links that are not random suffice: from every node a message reaches
\* all.
ReachesAll == <>(reached = 0 .. size - 1)
=============================================================================
