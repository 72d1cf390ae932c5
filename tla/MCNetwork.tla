------------------------------ MODULE MCNetwork ------------------------------
(***************************************************************************)
(* The networks for TLC, each with fair scheduling: the direct sockets of  *)
(* two nodes, the gossip of four nodes, a gossip of three nodes two of     *)
(* which send the same text, and the links of gossips of many nodes.       *)
(* Which one is there is drawn at the start; the variables of the others   *)
(* stay as they are.                                                       *)
(***************************************************************************)
EXTENDS SocketNetwork, GossipSpread

CONSTANTS hello   \* the text of a gossip

VARIABLES
  network,   \* the one that is there
  clientLink, serverLink, todo, gossipWire, received, forwarded, gossipHanded, pending

gossipVars == <<clientLink, serverLink, todo, gossipWire, received, forwarded,
                gossipHanded, pending>>
networkVars == <<network, vars, gossipVars, linkVars>>

\* Node 0 sends two messages, to one node or all; its connection to node 1 may
\* break, and it may finish first.
SendsOf0 == [i \in Nodes |-> IF i = 0 THEN 2 ELSE 0]
OneOrAll == {-2, -1, 1}
From0To1 == {<<0, 1>>}

Gossip4 == INSTANCE Gossip WITH N <- 4, LinkSize <- 2, Sources <- {<<2, hello>>},
  wire <- gossipWire, handed <- gossipHanded
Gossip3 == INSTANCE Gossip WITH N <- 3, LinkSize <- 2, Sources <- {<<1, hello>>, <<2, hello>>},
  wire <- gossipWire, handed <- gossipHanded

ASSUME InstancesAssumption ==
  Gossip4!GossipAssumption /\ Gossip3!GossipAssumption

NoGossip ==
  /\ clientLink = <<>> /\ serverLink = <<>> /\ todo = <<>> /\ gossipWire = <<>>
  /\ received = <<>> /\ forwarded = <<>> /\ gossipHanded = <<>> /\ pending = {}

\* Two nodes, every one of which a message has reached.
NoLinks ==
  size = 2 /\ linkSize = 1 /\ Built /\ reached = {0, 1} /\ hops = 1

NetworkInit ==
  /\ Init
  /\ \/ network = "sockets" /\ NoGossip /\ NoLinks
     \/ network = "gossip4" /\ Gossip4!Init /\ NoLinks
     \/ network = "gossip3" /\ Gossip3!Init /\ NoLinks
     \/ network = "links" /\ NoGossip /\ SpreadInit

NetworkNext ==
  /\ UNCHANGED network
  /\ \/ network = "sockets" /\ Next /\ UNCHANGED <<gossipVars, linkVars>>
     \/ network = "gossip4" /\ Gossip4!Next /\ UNCHANGED <<vars, linkVars>>
     \/ network = "gossip3" /\ Gossip3!Next /\ UNCHANGED <<vars, linkVars>>
     \/ network = "links" /\ Hop /\ UNCHANGED <<vars, gossipVars>>

\* A step of the network that is due is taken at some time.  Every step uses
\* something up, so this says as much as the fairness of the modules.
SocketStep ==
  \E i \in Nodes :
    \/ Listen(i) \/ ClientReady(i) \/ StartNode(i) \/ Terminate(i) \/ Dispatch(i)
    \/ \E j \in Nodes : Connect(i, j) \/ SendMsg(i, j) \/ Receive(j, i)
Gossip4Step == \E i, j \in 0 .. 3 : Gossip4!Dispatch(i) \/ Gossip4!Arrive(i, j)
Gossip3Step == \E i, j \in 0 .. 2 : Gossip3!Dispatch(i) \/ Gossip3!Arrive(i, j)

NetworkFairness ==
  /\ WF_vars(network = "sockets" /\ SocketStep)
  /\ WF_gossipVars(network = "gossip4" /\ Gossip4Step)
  /\ WF_gossipVars(network = "gossip3" /\ Gossip3Step)
  /\ WF_linkVars(network = "links" /\ Hop)

NetworkSpec == NetworkInit /\ [][NetworkNext]_networkVars /\ NetworkFairness

-----------------------------------------------------------------------------
(* What each network promises, beside the invariants of SocketNetwork and       *)
(* GossipSpread                                                                *)

\* Every node starts, unless another one finished before it was connected, and
\* a peer whose connection broke, or a server that spins on an ended one, does
\* not hold up what goes to the others.
SocketsDeliver == network = "sockets" => Starts /\ Delivery

\* The gossip server hands a text over once, over however many links it comes
\* and however many nodes broadcast it, and announces it with a neighbour that
\* has it.
HandedOnce ==
  /\ network = "gossip4" => Gossip4!TypeOK /\ Gossip4!HandedOnce /\ Gossip4!Sourced
  /\ network = "gossip3" => Gossip3!TypeOK /\ Gossip3!HandedOnce /\ Gossip3!Sourced

\* A broadcast reaches every node, though clients drop forwards to nodes they
\* have no link to and equal texts swallow each other; and forwarding ends.
\* The links without the random ones suffice: from every node along them a
\* message reaches all.
EveryoneReached ==
  /\ network = "gossip4" => Gossip4!EveryoneReached /\ Gossip4!Quiet
  /\ network = "gossip3" => Gossip3!EveryoneReached /\ Gossip3!Quiet
  /\ network = "links" => ReachesAll
=============================================================================
