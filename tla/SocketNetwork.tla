--------------------------- MODULE SocketNetwork ---------------------------
(***************************************************************************)
(* The network of a node (network/socket_client.py, socket_server.py) and  *)
(* its life cycle (run_socket_node.py, fc_node.py).  A node is a protocol  *)
(* thread, a client process and a server process that share the flags      *)
(* client_ready and stop and two queues.  The client connects to every     *)
(* server, its own included, and keeps a queue and a sender greenlet per   *)
(* peer; the server has a handler greenlet per connection, which cuts the  *)
(* byte stream at the separator SEP and hands each message to the node.    *)
(*                                                                         *)
(* A message is the pair of its sender and a number; on the wire it is a   *)
(* body and a separator, and recv returns any part of what has arrived.    *)
(***************************************************************************)
EXTENDS Integers, Sequences, FiniteSets, SequencesExt

CONSTANTS
    N,          \* number of nodes; node i has address addresses_list[i]
    Pid,        \* self.pid of a client: the number the system gave the process
    Targets,    \* the first arguments of bft_to_client that nodes use
    Sends,      \* Sends[i]: how many messages node i puts (bound)
    Breakable,  \* the connections that may be reset
    Finishers   \* the nodes whose protocol may return before the others

Nodes == 0 .. N - 1

\* Assumed of the constants.
ASSUME SocketAssumption ==
    /\ N \in Nat \ {0} /\ Pid \in Nat \ Nodes
    /\ Targets \subseteq {-1, -2} \cup Nodes
    /\ Sends \in [Nodes -> Nat]
    /\ Breakable \subseteq Nodes \X Nodes /\ Finishers \subseteq Nodes

VARIABLES
    listening,  \* nodes whose StreamServer accepts connections
    conn,       \* conn[i][j]: the connection from i's client to j's server
    ready,      \* nodes whose client_ready is set; their senders run
    phase,      \* "wait" for the network, "run", "stop" set, or "down"
    out,        \* client_bft_mpq: the pairs (j, o) of each node
    sockQueue,  \* sock_queues[j] of each client
    sending,    \* sending[i]: peers whose sender greenlet has not ended
    wire,       \* wire[i][j]: what i has written and j not yet read
    buf,        \* buf[j][i]: the handler's buf
    handling,   \* handling[j]: peers whose handler has not ended
    spin,       \* servers that loop over an ended connection, never yielding
    handed,     \* handed[j][i]: messages of i given to node j, in order
    asked       \* asked[i][j]: messages node i put for j (history)

vars == <<listening, conn, ready, phase, out, sockQueue, sending, wire, buf,
          handling, spin, handed, asked>>
clientVars == <<out, sockQueue, sending, asked>>
serverVars == <<buf, handling, spin, handed>>

PerPair(x) == [i \in Nodes |-> [j \in Nodes |-> x]]
Message == Nodes \X Nat
Piece == BOOLEAN \X Message   \* the body of a message, or with TRUE its separator

\* the second components of the pairs of s whose first is in T, in order
Chosen(s, T) ==
    LET chosen[n \in 0 .. Len(s)] ==
            IF n = 0 THEN <<>>
            ELSE IF s[n][1] \in T THEN Append(chosen[n - 1], s[n][2]) ELSE chosen[n - 1]
    IN  chosen[Len(s)]

Init ==
    /\ listening = {} /\ ready = {} /\ spin = {}
    /\ conn = PerPair("none")
    /\ phase = [i \in Nodes |-> "wait"]
    /\ out = [i \in Nodes |-> <<>>]
    /\ sockQueue = PerPair(<<>>) /\ wire = PerPair(<<>>) /\ buf = PerPair(<<>>)
    /\ handed = PerPair(<<>>) /\ asked = PerPair(<<>>)
    /\ sending = [i \in Nodes |-> Nodes]
    /\ handling = [j \in Nodes |-> Nodes]

-----------------------------------------------------------------------------
\* Start-up

\* serve_forever of the server process
Listen(j) ==
    /\ j \notin listening /\ phase[j] # "down"
    /\ listening' = listening \cup {j}
    /\ UNCHANGED <<conn, ready, phase, clientVars, wire, serverVars>>

\* Mutant of Connect: a server accepts once its own node runs
ConnectToRunning(i, j) ==
    /\ i \notin ready /\ conn[i][j] = "none" /\ j \in listening
    /\ phase[j] = "run" /\ phase[i] = "wait"
    /\ conn' = [conn EXCEPT ![i][j] = "open"]
    /\ UNCHANGED <<listening, ready, phase, clientVars, wire, serverVars>>

\* _connect: it fails, and is tried again, until the server listens
Connect(i, j) ==
    /\ i \notin ready /\ conn[i][j] = "none" /\ j \in listening
    /\ phase[j] # "down" /\ phase[i] = "wait"
    /\ conn' = [conn EXCEPT ![i][j] = "open"]
    /\ UNCHANGED <<listening, ready, phase, clientVars, wire, serverVars>>

\* Mutant of AllConnected: one connection is enough
AnyConnected(i) == \E j \in Nodes : conn[i][j] # "none"

AllConnected(i) == \A j \in Nodes : conn[i][j] # "none"

ClientReady(i) ==
    /\ i \notin ready /\ AllConnected(i)
    /\ ready' = ready \cup {i}
    /\ UNCHANGED <<listening, conn, phase, clientVars, wire, serverVars>>

\* The servers never set server_ready: only client_ready ends the wait.
StartNode(i) ==
    /\ phase[i] = "wait" /\ i \in ready
    /\ phase' = [phase EXCEPT ![i] = "run"]
    /\ UNCHANGED <<listening, conn, ready, clientVars, wire, serverVars>>

\* The protocol returned and stop is set.
Finish(i) ==
    /\ i \in Finishers /\ phase[i] = "run"
    /\ phase' = [phase EXCEPT ![i] = "stop"]
    /\ UNCHANGED <<listening, conn, ready, clientVars, wire, serverVars>>

\* terminate of both processes: the queues are gone, the connections end
Terminate(i) ==
    /\ phase[i] = "stop"
    /\ phase' = [phase EXCEPT ![i] = "down"]
    /\ conn' = [conn EXCEPT ![i] =
                    [j \in Nodes |-> IF @[j] = "open" THEN "closed" ELSE @[j]]]
    /\ listening' = listening \ {i}
    /\ spin' = spin \ {i}
    /\ handling' = [handling EXCEPT ![i] = {}]
    /\ UNCHANGED <<ready, clientVars, wire, buf, handed>>

-----------------------------------------------------------------------------
\* The client

Asked(i, o) == \E j \in Nodes : o \in Range(asked[i][j])
Count(i) == Cardinality({n \in 1 .. Sends[i] : Asked(i, <<i, n>>)})

\* whom _handle_send_loop queues for: it compares a node with the number
\* of the process, so that -2, "broadcast except myself", leaves out nobody
Recipients(t) ==
    CASE t = -1 -> Nodes
      [] t = -2 -> {i \in Nodes : i # Pid}
      [] OTHER  -> {t}

\* bft_to_client((j, o))
Put(i) ==
    /\ phase[i] = "run" /\ Count(i) < Sends[i]
    /\ \E t \in Targets :
        LET o == <<i, Count(i) + 1>>
        IN  /\ out' = [out EXCEPT ![i] = Append(@, <<t, o>>)]
            /\ asked' = [asked EXCEPT ![i] =
                  [j \in Nodes |-> IF j \in Recipients(t)
                                   THEN Append(@[j], o) ELSE @[j]]]
    /\ UNCHANGED <<listening, conn, ready, phase, sockQueue, sending, wire,
                   serverVars>>

\* one turn of _handle_send_loop that finds a message
Dispatch(i) ==
    /\ i \in ready /\ phase[i] = "run" /\ out[i] # <<>>
    /\ LET t == out[i][1][1]
           o == out[i][1][2]
       IN  sockQueue' = [sockQueue EXCEPT ![i] =
               [j \in Nodes |-> IF j \in Recipients(t)
                                THEN Append(@[j], o) ELSE @[j]]]
    /\ out' = [out EXCEPT ![i] = Tail(@)]
    /\ UNCHANGED <<listening, conn, ready, phase, sending, asked, wire,
                   serverVars>>

\* Mutant of Pieces: a message is written without its separator
PiecesOpen(o) == <<<<FALSE, o>>>>

Pieces(o) == <<<<FALSE, o>>, <<TRUE, o>>>>

\* Mutant of Taking: the sender leaves the message in the queue
TakingAgain(i, j) ==
    /\ i \in ready /\ phase[i] \in {"run", "stop"} /\ j \in sending[i]
    /\ sockQueue[i][j] # <<>>
    /\ UNCHANGED <<listening, ready, phase, out, sockQueue, asked, serverVars>>

\* sock_queues[j].get(), as the sender of peer j takes it
Taking(i, j) ==
    /\ i \in ready /\ phase[i] \in {"run", "stop"} /\ j \in sending[i]
    /\ sockQueue[i][j] # <<>>
    /\ sockQueue' = [sockQueue EXCEPT ![i][j] = Tail(@)]
    /\ UNCHANGED <<listening, ready, phase, out, asked, serverVars>>

\* _send: sendall; the greenlet leaves its loop once stop is set
SendMsg(i, j) ==
    /\ Taking(i, j)
    /\ conn[i][j] = "open" /\ phase[j] # "down"
    /\ wire' = [wire EXCEPT ![i][j] = @ \o Pieces(Head(sockQueue[i][j]))]
    /\ sending' = IF phase[i] = "stop"
                    THEN [sending EXCEPT ![i] = @ \ {j}] ELSE sending
    /\ UNCHANGED conn

\* _send: sendall fails, perhaps with a part of the message written; the
\* socket is closed and the sender ends, whatever its queue holds
SendFails(i, j) ==
    /\ Taking(i, j)
    /\ <<i, j>> \in Breakable \/ phase[j] = "down"
    /\ \E n \in 0 .. 1 :
         wire' = [wire EXCEPT ![i][j] =
                     @ \o SubSeq(Pieces(Head(sockQueue[i][j])), 1, n)]
    /\ conn' = [conn EXCEPT ![i][j] = "reset"]
    /\ sending' = [sending EXCEPT ![i] = @ \ {j}]

-----------------------------------------------------------------------------
\* The server

\* a handler of server j that the greenlet scheduler can run
Running(j, i) == phase[j] # "down" /\ i \in handling[j] /\ j \notin spin

\* Mutant of Whole: a message is handed over when its body arrives
WholeAtBody(bytes) == Chosen(bytes, {FALSE})

\* Mutant of Rest: what follows the last separator is kept with it
RestAll(bytes) == bytes

\* the messages completed in bytes, and what stays in buf
Whole(bytes) == Chosen(bytes, {TRUE})
Rest(bytes) == IF bytes = <<>> \/ Last(bytes)[1] THEN <<>> ELSE <<Last(bytes)>>

\* _handler: buf += sock.recv(65535), then every whole message is handed over.
\* Nobody reads what is handed over once stop is set: that turn is left out.
Receive(j, i) ==
    /\ Running(j, i) /\ phase[j] # "stop"
    /\ \E n \in 1 .. Len(wire[i][j]) :
        LET bytes == buf[j][i] \o SubSeq(wire[i][j], 1, n)
        IN  /\ handed' = [handed EXCEPT ![j][i] = @ \o Whole(bytes)]
            /\ buf' = [buf EXCEPT ![j][i] = Rest(bytes)]
            /\ wire' = [wire EXCEPT ![i][j] = SubSeq(@, n + 1, Len(@))]
    /\ UNCHANGED <<listening, conn, ready, phase, clientVars, handling, spin>>

\* _handler on a connection that ended: recv returns b'' at once, for ever,
\* and no other greenlet of the server runs again until stop is set
ReceiveNothing(j, i) ==
    /\ Running(j, i) /\ phase[j] # "stop"
    /\ conn[i][j] \in {"closed", "reset"} /\ wire[i][j] = <<>>
    /\ spin' = spin \cup {j}
    /\ UNCHANGED <<listening, conn, ready, phase, clientVars, wire, buf,
                   handling, handed>>

\* _handler: recv raises on a reset connection and the handler ends
ReceiveRaises(j, i) ==
    /\ Running(j, i) /\ conn[i][j] = "reset"
    /\ handling' = [handling EXCEPT ![j] = @ \ {i}]
    /\ UNCHANGED <<listening, conn, ready, phase, clientVars, wire, buf, spin,
                   handed>>

Next ==
    \E i \in Nodes :
        \/ Listen(i) \/ ClientReady(i) \/ StartNode(i)
        \/ Finish(i) \/ Terminate(i)
        \/ Put(i) \/ Dispatch(i)
        \/ \E j \in Nodes :
              \/ Connect(i, j) \/ SendMsg(i, j) \/ SendFails(i, j)
              \/ Receive(j, i) \/ ReceiveNothing(j, i) \/ ReceiveRaises(j, i)

\* Processes are scheduled, and the greenlets of a process get their turn: the
\* waits of the loops (get, recv, the poll under get_nowait) yield.  Nothing
\* makes the protocol send, or a connection break.
Fairness ==
    \A i \in Nodes :
        /\ WF_vars(Listen(i)) /\ WF_vars(ClientReady(i)) /\ WF_vars(StartNode(i))
        /\ WF_vars(Terminate(i)) /\ WF_vars(Dispatch(i))
        /\ \A j \in Nodes : /\ WF_vars(Connect(i, j)) /\ WF_vars(SendMsg(i, j))
                            /\ WF_vars(Receive(j, i))

Spec == Init /\ [][Next]_vars
FairSpec == Spec /\ Fairness

-----------------------------------------------------------------------------
\* Properties

\* The variables keep their types.
TypeOK ==
    /\ listening \subseteq Nodes /\ ready \subseteq Nodes /\ spin \subseteq Nodes
    /\ phase \in [Nodes -> {"wait", "run", "stop", "down"}]
    /\ conn \in [Nodes -> [Nodes -> {"none", "open", "closed", "reset"}]]
    /\ out \in [Nodes -> Seq(Targets \X Message)]
    /\ sending \in [Nodes -> SUBSET Nodes] /\ handling \in [Nodes -> SUBSET Nodes]
    /\ sockQueue \in [Nodes -> [Nodes -> Seq(Message)]]
    /\ asked \in [Nodes -> [Nodes -> Seq(Message)]]
    /\ wire \in [Nodes -> [Nodes -> Seq(Piece)]]
    /\ handed \in [Nodes -> [Nodes -> Seq(Message)]]
    /\ buf \in [Nodes -> [Nodes -> Seq({p \in Piece : ~p[1]})]]

\* the messages of out[i] that will be queued for j
Undispatched(i, j) == Chosen(out[i], {t \in Targets : j \in Recipients(t)})

\* What node j got from node i is what i put for it, in order, whole and
\* without a gap: however the stream is cut into pieces and wherever sendall
\* fails, a node sees a prefix (_send's break after close, _handler's buf).
GapFree == \A i, j \in Nodes : IsPrefix(handed[j][i], asked[i][j])

\* As long as the connection from i to j is open nothing on it is lost: a
\* message not handed over is in the buffer, on the wire, in the queue of the
\* peer or still to be dispatched, in that order, whatever happens to other
\* connections, whose senders may have ended.
NothingLost ==
    \A i, j \in Nodes :
        conn[i][j] \in {"none", "open"} =>
            asked[i][j] = handed[j][i] \o Whole(buf[j][i] \o wire[i][j])
                              \o sockQueue[i][j] \o Undispatched(i, j)

\* A node runs the protocol only when it has a connection to every server
\* (the wait of run_socket_node.py ends on client_ready or server_ready).
RunsConnected ==
    \A i, j \in Nodes : phase[i] # "wait" => conn[i][j] # "none"

\* Every node starts, unless another one finished before it was connected.
Starts ==
    (\A i \in Nodes : [](phase[i] # "stop"))
        => \A i \in Nodes : <>(phase[i] = "run")

\* What i puts for j gets there, as long as their connection holds, neither
\* stops and j's server does not spin: the sender of a peer whose connection
\* broke, or a server that spins, does not hold up the others.
Delivery ==
    \A i, j \in Nodes :
        []( /\ conn[i][j] \in {"none", "open"} /\ j \notin spin
            /\ phase[i] \in {"wait", "run"} /\ phase[j] \in {"wait", "run"})
        => []<>(handed[j][i] = asked[i][j])

=============================================================================
