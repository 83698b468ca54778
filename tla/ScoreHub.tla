------------------------------- MODULE ScoreHub -------------------------------
(***************************************************************************)
(* The leaderboard service's WebSocket hub: one goroutine that owns the    *)
(* set of clients and fans messages out to their bounded queues, a writer  *)
(* goroutine for each connection, a publisher that calls Broadcast, and    *)
(* the end of the process.                                                 *)
(***************************************************************************)
EXTENDS Integers, Sequences, FiniteSets

CONSTANTS Conns,         \* connections, used again once they are released
          Messages,      \* what is broadcast
          None,          \* "no message"
          SendCap,       \* clientSendBuffer (256 in the code)
          BroadcastCap,  \* capacity of Hub.broadcast (256 in the code)
          MaxMessages    \* bound on the messages of one process

ASSUME HubAssumption ==
    /\ None \notin Messages
    /\ {SendCap, BroadcastCap} \subseteq Nat \ {0} /\ MaxMessages \in Nat

VARIABLES hub,         \* "running", or "stopped" once Run has returned
          cancelled,   \* ctx is done
          publishing,  \* the message a blocked Broadcast call holds
          broadcast,   \* Hub.broadcast
          clients,     \* Hub.clients
          dropped,     \* Hub.dropped
          send,        \* the clients' queues
          closed,      \* the clients whose queue is closed
          writer,      \* the handler's, then the writer goroutine's, next step
          hand,        \* the message the writer took from the queue
          conn,        \* the socket: "closed", "open", or "lost" once a write would fail
          wire, read,  \* the messages written to it; how many the peer has read
          fanned,      \* history: the messages fanned out, in order
          from         \* history: how many of them before the client registered

hubVars == <<hub, broadcast, clients, dropped, closed, fanned, from>>
connVars == <<writer, hand, conn, wire, read>>
serverVars == <<hubVars, connVars, cancelled, publishing, send>>

-----------------------------------------------------------------------------
(* The publisher, which is outside src/: it calls Broadcast. *)

CallBroadcast(m) ==
    /\ publishing = None
    /\ Len(fanned) + Len(broadcast) < MaxMessages
    /\ publishing' = m
    /\ UNCHANGED <<hubVars, connVars, cancelled, send>>

\* The channel takes the message and the call returns.
Broadcast ==
    /\ publishing # None
    /\ Len(broadcast) < BroadcastCap
    /\ broadcast' = Append(broadcast, publishing)
    /\ publishing' = None
    /\ UNCHANGED <<hub, clients, dropped, closed, fanned, from, connVars, cancelled, send>>

-----------------------------------------------------------------------------
(* Hub.Run: the cases of its select.  Register and Unregister are rendezvous: *)
(* a writer that asks waits until the hub takes the request. *)

Register(k) ==
    /\ hub = "running"
    /\ writer[k] = "register"
    /\ clients' = clients \cup {k}
    /\ from' = [from EXCEPT ![k] = Len(fanned)]
    /\ writer' = [writer EXCEPT ![k] = "loop"]
    /\ UNCHANGED <<hub, broadcast, dropped, closed, fanned, hand, conn, wire, read,
                   cancelled, publishing, send>>

\* Mutant of Unregister: the client's queue is closed but it stays in the map.
UnregisterKeeps(k) ==
    /\ hub = "running"
    /\ writer[k] = "unregister"
    /\ closed' = IF k \in clients THEN closed \cup {k} ELSE closed
    /\ writer' = [writer EXCEPT ![k] = "close"]
    /\ UNCHANGED <<hub, broadcast, clients, dropped, fanned, from, hand, conn, wire, read,
                   cancelled, publishing, send>>

Unregister(k) ==
    /\ hub = "running"
    /\ writer[k] = "unregister"
    /\ clients' = clients \ {k}
    /\ closed' = IF k \in clients THEN closed \cup {k} ELSE closed
    /\ writer' = [writer EXCEPT ![k] = "close"]
    /\ UNCHANGED <<hub, broadcast, dropped, fanned, from, hand, conn, wire, read,
                   cancelled, publishing, send>>

HasRoom(k) == Len(send[k]) < SendCap

\* Mutant of FanOut: it waits for slow clients.
FanOutBlocks ==
    /\ hub = "running"
    /\ broadcast # <<>>
    /\ \A k \in clients : HasRoom(k)
    /\ broadcast' = Tail(broadcast)
    /\ fanned' = Append(fanned, Head(broadcast))
    /\ send' = [k \in Conns |-> IF k \in clients THEN Append(send[k], Head(broadcast))
                                                ELSE send[k]]
    /\ UNCHANGED <<hub, clients, closed, dropped, from, connVars, cancelled, publishing>>

\* Mutant of FanOut: the first slow client ends the loop.
FanOutStops ==
    /\ hub = "running"
    /\ broadcast # <<>>
    /\ broadcast' = Tail(broadcast)
    /\ fanned' = Append(fanned, Head(broadcast))
    /\ LET all == \A k \in clients : HasRoom(k) IN
       /\ send' = [k \in Conns |-> IF k \in clients /\ all THEN Append(send[k], Head(broadcast))
                                                           ELSE send[k]]
       /\ dropped' = IF all THEN dropped ELSE dropped + 1
    /\ UNCHANGED <<hub, clients, closed, from, connVars, cancelled, publishing>>

\* Every client with room gets the message, for the others a drop is counted.
FanOut ==
    /\ hub = "running"
    /\ broadcast # <<>>
    /\ broadcast' = Tail(broadcast)
    /\ fanned' = Append(fanned, Head(broadcast))
    /\ send' = [k \in Conns |-> IF k \in clients /\ HasRoom(k)
                                THEN Append(send[k], Head(broadcast)) ELSE send[k]]
    /\ dropped' = dropped + Cardinality({k \in clients : ~HasRoom(k)})
    /\ UNCHANGED <<hub, clients, closed, from, connVars, cancelled, publishing>>

StopHub ==
    /\ hub = "running"
    /\ cancelled
    /\ closed' = closed \cup clients
    /\ clients' = {}
    /\ hub' = "stopped"
    /\ UNCHANGED <<broadcast, dropped, fanned, from, connVars, cancelled, publishing, send>>

-----------------------------------------------------------------------------
(* A connection: the handler upgrades it, registers it and starts its writer. *)

Upgrade(k) ==
    /\ writer[k] = "none"
    /\ conn[k] = "closed"
    /\ conn' = [conn EXCEPT ![k] = "open"]
    /\ writer' = [writer EXCEPT ![k] = "register"]
    /\ UNCHANGED <<hubVars, hand, wire, read, cancelled, publishing, send>>

\* The select of the loop takes any of its ready cases.
WriterLoop(k) ==
    /\ writer[k] = "loop"
    /\ \/ /\ cancelled \/ (send[k] = <<>> /\ k \in closed)
          /\ writer' = [writer EXCEPT ![k] = "unregister"]
          /\ UNCHANGED <<hand, send>>
       \/ /\ send[k] # <<>>
          /\ hand' = [hand EXCEPT ![k] = Head(send[k])]
          /\ send' = [send EXCEPT ![k] = Tail(@)]
          /\ writer' = [writer EXCEPT ![k] = "write"]
    /\ UNCHANGED <<hubVars, conn, wire, read, cancelled, publishing>>

\* There is no write deadline: a peer that does not read blocks the writer, so
\* no fairness makes this step happen.
WriteMessage(k) ==
    /\ writer[k] = "write"
    /\ conn[k] = "open"
    /\ wire' = [wire EXCEPT ![k] = Append(@, hand[k])]
    /\ hand' = [hand EXCEPT ![k] = None]
    /\ writer' = [writer EXCEPT ![k] = "loop"]
    /\ UNCHANGED <<hubVars, conn, read, cancelled, publishing, send>>

\* A write to a peer that is gone fails; nothing else notices that it is gone.
WriteFails(k) ==
    /\ writer[k] = "write"
    /\ conn[k] = "lost"
    /\ hand' = [hand EXCEPT ![k] = None]
    /\ writer' = [writer EXCEPT ![k] = "unregister"]
    /\ UNCHANGED <<hubVars, conn, wire, read, cancelled, publishing, send>>

\* The end of the goroutine, and of the client with its queue.  What the peer has
\* not read by now is lost (it may have read it before).
Close(k) ==
    /\ writer[k] = "close"
    /\ conn' = [conn EXCEPT ![k] = "closed"]
    /\ writer' = [writer EXCEPT ![k] = "none"]
    /\ wire' = [wire EXCEPT ![k] = <<>>]
    /\ read' = [read EXCEPT ![k] = 0]
    /\ send' = [send EXCEPT ![k] = <<>>]
    /\ closed' = closed \ {k}
    /\ from' = [from EXCEPT ![k] = 0]
    /\ UNCHANGED <<hub, broadcast, clients, dropped, fanned, hand, cancelled, publishing>>

-----------------------------------------------------------------------------
(* The other end of the socket *)

Read(k) ==
    /\ conn[k] = "open"
    /\ read[k] < Len(wire[k])
    /\ read' = [read EXCEPT ![k] = @ + 1]
    /\ UNCHANGED <<hubVars, writer, hand, conn, wire, cancelled, publishing, send>>

\* The service's end learns that the peer is gone, at some time after it went.
HangUp(k) ==
    /\ conn[k] = "open"
    /\ conn' = [conn EXCEPT ![k] = "lost"]
    /\ UNCHANGED <<hubVars, writer, hand, wire, read, cancelled, publishing, send>>

-----------------------------------------------------------------------------
(* The process *)

\* SIGTERM
Cancel ==
    /\ ~cancelled
    /\ cancelled' = TRUE
    /\ UNCHANGED <<hubVars, connVars, publishing, send>>

\* main returns (or the process dies), which closes every socket, and a new
\* process starts.
Restart ==
    /\ hub' = "running"
    /\ cancelled' = FALSE
    /\ publishing' = None
    /\ broadcast' = <<>>
    /\ clients' = {}
    /\ dropped' = 0
    /\ send' = [k \in Conns |-> <<>>]
    /\ closed' = {}
    /\ writer' = [k \in Conns |-> "none"]
    /\ hand' = [k \in Conns |-> None]
    /\ conn' = [k \in Conns |-> "closed"]
    /\ wire' = [k \in Conns |-> <<>>]
    /\ read' = [k \in Conns |-> 0]
    /\ fanned' = <<>>
    /\ from' = [k \in Conns |-> 0]

HubStep == FanOut \/ StopHub \/ \E k \in Conns : Register(k) \/ Unregister(k)

WriterStep(k) == WriterLoop(k) \/ WriteFails(k) \/ Close(k)

ServerInit ==
    /\ hub = "running" /\ cancelled = FALSE
    /\ publishing = None /\ broadcast = <<>>
    /\ clients = {} /\ dropped = 0 /\ closed = {}
    /\ send = [k \in Conns |-> <<>>]
    /\ writer = [k \in Conns |-> "none"]
    /\ hand = [k \in Conns |-> None]
    /\ conn = [k \in Conns |-> "closed"]
    /\ wire = [k \in Conns |-> <<>>] /\ read = [k \in Conns |-> 0]
    /\ fanned = <<>> /\ from = [k \in Conns |-> 0]

\* By itself the publisher numbers its messages, and reading changes nothing
\* that the service can see.
ServerNext ==
    \/ CallBroadcast(Len(fanned) + Len(broadcast) + 1)
    \/ Broadcast \/ HubStep
    \/ \E k \in Conns : Upgrade(k) \/ WriterStep(k) \/ WriteMessage(k) \/ HangUp(k)
    \/ Cancel \/ Restart

\* The hub and the writers run, and the runtime's select is fair to its cases.
ServerFairness ==
    /\ WF_serverVars(Broadcast)
    /\ WF_serverVars(FanOut)
    /\ WF_serverVars(StopHub)
    /\ \A k \in Conns :
           /\ WF_serverVars(Register(k))
           /\ WF_serverVars(Unregister(k))
           /\ WF_serverVars(WriterStep(k))

\* A process that was told to stop ends.  No peer has to read, or to go away.
ServerSpec ==
    /\ ServerInit /\ [][ServerNext]_serverVars
    /\ ServerFairness
    /\ WF_serverVars(cancelled /\ Restart)

-----------------------------------------------------------------------------
(* Properties *)

HubTypeOK ==
    /\ hub \in {"running", "stopped"} /\ cancelled \in BOOLEAN
    /\ publishing \in Messages \cup {None}
    /\ broadcast \in Seq(Messages) /\ Len(broadcast) <= BroadcastCap
    /\ clients \subseteq Conns /\ closed \subseteq Conns /\ dropped \in Nat
    /\ send \in [Conns -> Seq(Messages)] /\ \A k \in Conns : Len(send[k]) <= SendCap
    /\ writer \in [Conns -> {"none", "register", "loop", "write", "unregister", "close"}]
    /\ hand \in [Conns -> Messages \cup {None}]
    /\ conn \in [Conns -> {"closed", "open", "lost"}]
    /\ wire \in [Conns -> Seq(Messages)] /\ read \in [Conns -> Nat]
    /\ fanned \in Seq(Messages) /\ Len(fanned) <= MaxMessages + 1
    /\ from \in [Conns -> Nat]

\* hub.go:54-80: Run closes and sends to the queues of the clients in its map,
\* so none of them may be closed: Go panics on the second close and on the send.
RegisteredIsOpen == clients \cap closed = {}

\* What a registered client was, is being, and will be sent
Seen(k) == wire[k] \o (IF hand[k] = None THEN <<>> ELSE <<hand[k]>>) \o send[k]

\* The messages fanned out since a client registered
Due(k) == SubSeq(fanned, from[k] + 1, Len(fanned))

\* The clients whose connection is up
Live == {k \in clients : conn[k] = "open"}

\* How many messages a client missed, and one pair for each message anybody missed.
Gap(k) == Len(Due(k)) - Len(Seen(k))
Lost == {p \in Live \X (1..Len(fanned)) : p[2] <= Gap(p[1])}

\* hub.go:29-30, 71-79: messages are lost to slow clients only, and every loss is
\* counted: the clients together never miss more than the counter tells, and
\* without drops each sees every message, in the order of the broadcasts.
DropsAreCounted ==
    /\ Cardinality(Lost) <= dropped
    /\ dropped = 0 => \A k \in Live : Seen(k) = Due(k)

\* hub.go:84-88, 72-79: slow clients never make a publisher wait for ever.
PublisherReturns == publishing # None ~> (publishing = None \/ cancelled)

\* main.go:69-88: a connection that is lost is released once there is something
\* to write to it.
Released ==
    \A k \in Conns : (conn[k] = "lost" /\ send[k] # <<>>) ~> conn[k] = "closed"

\* Nobody is held up for good: not the publisher by the clients, and no
\* connection by the hub or by its own writer.
NobodyIsStuck == PublisherReturns /\ Released
=============================================================================
