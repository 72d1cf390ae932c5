---------------------------- MODULE GossipLinks ----------------------------
(***************************************************************************)
(* The links of the gossip network (the constructors of GossipClient and   *)
(* GossipServer): the nodes 0 .. n-1 fill a tree of link_size k level by   *)
(* level; a node links to its children, the nodes of the last level link   *)
(* back to the first k nodes, and what is missing is drawn at random.      *)
(***************************************************************************)
EXTENDS Integers, FiniteSets

\* pow(k, e): how many nodes level e holds
Power(k, e) == LET pow[d \in 0 .. e] == IF d = 0 THEN 1 ELSE k * pow[d - 1]
               IN  pow[e]

\* sum: how many nodes the d first levels hold
First(k, d) == LET sum[e \in 0 .. d] == IF e = 0 THEN 0 ELSE sum[e - 1] + Power(k, e - 1)
               IN  sum[d]

\* self.deep of node id, and self.tdeep, the last level
Deep(k, id) == CHOOSE d \in 0 .. id : First(k, d) <= id /\ id < First(k, d + 1)
LastLevel(n, k) == Deep(k, n - 1)

\* Mutant of Start: the place in the level is counted from 0
StartOffByOne(n, k, id) ==
    LET deep == Deep(k, id)
        ind  == id - First(k, deep)
    IN  CASE deep = 0               -> 1
          [] deep # 0 /\ deep # LastLevel(n, k)
                -> id + k * (ind - 1) + (Power(k, deep) - ind) + 1
          [] OTHER                  -> 0

\* i: the first node that id links to, before it is cut to the n nodes
Start(n, k, id) ==
    LET deep == Deep(k, id)
        ind  == id - First(k, deep) + 1
    IN  CASE deep = 0               -> 1
          [] deep # 0 /\ deep # LastLevel(n, k)
                -> id + k * (ind - 1) + (Power(k, deep) - ind) + 1
          [] OTHER                  -> 0

\* Mutants of Link: the last child left out; a node without children links to
\* the node before it
LinkShort(n, k, id) ==
    LET i == Start(n, k, id)
    IN  IF i >= n THEN {0}
        ELSE i .. (IF i + k > n THEN n - 1 ELSE i + k) - 1
LinkBefore(n, k, id) ==
    LET i == Start(n, k, id)
    IN  IF i >= n \/ i = 0 THEN {id - 1}
        ELSE i .. (IF i + k > n THEN n ELSE i + k) - 1

\* self.link before the random part; a node without children links to node 0
Link(n, k, id) ==
    LET i == Start(n, k, id)
    IN  IF i >= n THEN {0}
        ELSE i .. (IF i + k > n THEN n ELSE i + k) - 1

\* how many links are then drawn from 1 .. n-1 with randint
Missing(n, k, id) == k - Cardinality(Link(n, k, id))
=============================================================================
