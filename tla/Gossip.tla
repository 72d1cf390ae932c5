------------------------------- MODULE Gossip -------------------------------
(***************************************************************************)
(* The gossip network (network/gossip_client.py, gossip_server.py).  The   *)
(* client of a node writes what the node broadcasts to its links; the      *)
(* server hands a message to the node when its text is new and gives it,   *)
(* once, back to the client for every link.  Client and server of a node   *)
(* are built apart and draw the random part of their links apart: what     *)
(* the server forwards to a node the client has no link to is dropped.     *)
(*                                                                         *)
(* The socket under a link is a queue: SocketNetwork models it.  A link     *)
(* drawn twice is one link here: the code then sends the same text over    *)
(* two connections of one pair of nodes.                                   *)
(***************************************************************************)
EXTENDS GossipLinks, Sequences, SequencesExt

CONSTANTS
    N, LinkSize,  \* number of nodes and link_size
    Sources       \* the broadcasts <<node, text>> that happen, each once (bound)

Nodes == 0 .. N - 1
Texts == {b[2] : b \in Sources}

\* Assumed of the constants.
GossipAssumption ==
    N \in Nat \ {0, 1} /\ LinkSize \in Nat \ {0} /\ Sources \subseteq Nodes \X Texts

VARIABLES
    clientLink, serverLink,  \* self.link of the two processes of each node
    todo,       \* the queue into the client: <<j, text>>, j = -1 to broadcast
    wire,       \* wire[i][j]: sent by i, not yet read by j
    received,   \* _received of each server
    forwarded,  \* _sent of each server
    handed,     \* what server_to_bft got: <<neighbour, text>>, in order
    pending     \* the broadcasts still to come

vars == <<clientLink, serverLink, todo, wire, received, forwarded, handed,
          pending>>

\* the links a process may draw for node i
Drawn(i) ==
    {Link(N, LinkSize, i) \cup r :
        r \in {r \in SUBSET (1 .. N - 1) :
                  /\ Cardinality(r) <= Missing(N, LinkSize, i)
                  /\ r = {} <=> Missing(N, LinkSize, i) = 0}}

Links == {f \in [Nodes -> UNION {Drawn(i) : i \in Nodes}] :
             \A i \in Nodes : f[i] \in Drawn(i)}

Init ==
    /\ clientLink \in Links /\ serverLink \in Links
    /\ todo = [i \in Nodes |-> <<>>]
    /\ wire = [i \in Nodes |-> [j \in Nodes |-> <<>>]]
    /\ received = [i \in Nodes |-> {}] /\ forwarded = [i \in Nodes |-> {}]
    /\ handed = [i \in Nodes |-> <<>>]
    /\ pending = Sources

\* bft_to_client((-1, text)); the node's own server knows nothing of it
Broadcast(i) ==
    /\ \E b \in pending :
        /\ b[1] = i
        /\ pending' = pending \ {b}
        /\ todo' = [todo EXCEPT ![i] = Append(@, <<-1, b[2]>>)]
    /\ UNCHANGED <<clientLink, serverLink, wire, received, forwarded, handed>>

\* whom _handle_send_loop queues for: a node without a link is left out
Recipients(i, t) == IF t = -1 THEN clientLink[i] ELSE {t} \cap clientLink[i]

\* Mutant of Dispatch: the loop waits for a link to the recipient
DispatchLinked(i) ==
    /\ todo[i] # <<>> /\ Recipients(i, todo[i][1][1]) # {}
    /\ wire' = [wire EXCEPT ![i] =
           [j \in Nodes |-> IF j \in Recipients(i, todo[i][1][1])
                            THEN Append(@[j], todo[i][1][2]) ELSE @[j]]]
    /\ todo' = [todo EXCEPT ![i] = Tail(@)]
    /\ UNCHANGED <<clientLink, serverLink, received, forwarded, handed, pending>>

\* one turn of _handle_send_loop
Dispatch(i) ==
    /\ todo[i] # <<>>
    /\ LET t == todo[i][1][1]
           o == todo[i][1][2]
       IN  wire' = [wire EXCEPT ![i] =
               [j \in Nodes |-> IF j \in Recipients(i, t)
                                THEN Append(@[j], o) ELSE @[j]]]
    /\ todo' = [todo EXCEPT ![i] = Tail(@)]
    /\ UNCHANGED <<clientLink, serverLink, received, forwarded, handed, pending>>

\* Mutant of NewTo: every copy is new
NewAlways(j, i, o) == TRUE

\* recv_hash not in self._received; hash and str tell apart what Texts does
NewTo(j, i, o) == o \notin received[j]

\* Mutant of ForwardedBy: the top of the tree does not forward
ForwardedAtTop(j, o) == o \in forwarded[j] \/ j = 0

\* recv_hash in self._sent
ForwardedBy(j, o) == o \in forwarded[j]

\* Mutant of Announced: the message is handed over as the node's own
AnnouncedOwn(j, i, o) == <<j, o>>

\* what the node is told: the neighbour that sent the copy, not its origin
Announced(j, i, o) == <<i, o>>

\* _handler of server j, on a whole message from its neighbour i
Arrive(j, i) ==
    /\ wire[i][j] # <<>>
    /\ LET o == Head(wire[i][j])
       IN  /\ received' = [received EXCEPT ![j] = @ \cup {o}]
           /\ handed' = IF NewTo(j, i, o)
                 THEN [handed EXCEPT ![j] = Append(@, Announced(j, i, o))]
                 ELSE handed
           /\ forwarded' = [forwarded EXCEPT ![j] = @ \cup {o}]
           /\ todo' = IF ForwardedBy(j, o) THEN todo
                 ELSE [todo EXCEPT ![j] = @ \o
                          SetToSeq({<<l, o>> : l \in serverLink[j]})]
    /\ wire' = [wire EXCEPT ![i][j] = Tail(@)]
    /\ UNCHANGED <<clientLink, serverLink, pending>>

Next == \E i \in Nodes : \/ Broadcast(i) \/ Dispatch(i)
                         \/ \E j \in Nodes : Arrive(i, j)

\* Processes run and the greenlets of a process yield to each other.
Fairness ==
    \A i \in Nodes : WF_vars(Dispatch(i)) /\ WF_vars(\E j \in Nodes : Arrive(i, j))

Spec == Init /\ [][Next]_vars /\ Fairness

-----------------------------------------------------------------------------
\* Properties

\* Types, and a client sends along its links alone.
TypeOK ==
    /\ pending \subseteq Sources
    /\ \A i \in Nodes :
        /\ todo[i] \in Seq(({-1} \cup Nodes) \X Texts)
        /\ handed[i] \in Seq(Nodes \X Texts)
        /\ received[i] \subseteq Texts /\ forwarded[i] \subseteq Texts
        /\ \A j \in Nodes \ clientLink[i] : wire[i][j] = <<>>

\* A node gets a text once, over however many links and from however many
\* nodes it comes: the second of two equal broadcasts is swallowed.
HandedOnce ==
    \A i \in Nodes : \A a, b \in DOMAIN handed[i] :
        handed[i][a][2] = handed[i][b][2] => a = b

\* The neighbour a message is announced with has the message, as its source
\* or because it got it itself, never the receiver: every announcement but a
\* source's own traces back to another node's.
Sourced ==
    \A i \in Nodes : \A m \in Range(handed[i]) :
        \/ m \in Sources \ pending
        \/ m[1] # i /\ \E e \in Range(handed[m[1]]) : e[2] = m[2]

\* What a node broadcasts reaches every node, itself included, though a part
\* of what is forwarded is dropped and no node knows who has a message.
EveryoneReached ==
    \A b \in Sources :
        b \notin pending
            ~> \A i \in DOMAIN handed : \E m \in Range(handed[i]) : m[2] = b[2]

\* Forwarding ends: a message does not go round for ever.
Quiet == []<>(\A i, j \in DOMAIN todo : todo[i] = <<>> /\ wire[i][j] = <<>>)
=============================================================================
