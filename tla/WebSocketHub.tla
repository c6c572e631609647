---------------------------- MODULE WebSocketHub ----------------------------
(***************************************************************************)
(* The WebSocket hub of the API server (daemon/api/websocket.go): the hub  *)
(* loop Run, Broadcast through a bounded channel, BroadcastRaw straight    *)
(* into the buffers of the clients, and for each connection its handler,   *)
(* the goroutine that sends the initial data, writePump and readPump; and  *)
(* the server's Shutdown.                                                  *)
(*                                                                         *)
(* register and unregister are unbuffered: the hub receives in the step in *)
(* which the sender goes on.  Every section under h.mu is one action, as   *)
(* none of them blocks.  A message is one place in a buffer.               *)
(***************************************************************************)
EXTENDS Integers, FiniteSets

CONSTANTS Clients,      \* connections
          SendCap,      \* capacity of client.send (256 in the code)
          BroadcastCap  \* capacity of h.broadcast (256 in the code)

ASSUME ClientsFinite == IsFiniteSet(Clients)
ASSUME CapsPositive == SendCap \in Nat \ {0} /\ BroadcastCap \in Nat \ {0}

VARIABLES
    clients,    \* h.clients
    broadcast,  \* messages in h.broadcast
    hub,        \* Run: "select", "unregistering", "gone"
    marked,     \* its clientsToUnregister
    send,       \* messages in client.send
    sendClosed, \* clients whose send is closed
    handler,    \* handleWebSocket: "off", "register", "record", "started"
    initial,    \* initial messages still to be sent
    writer,     \* writePump: "off", "select", "writing", "ended"
    reader,     \* readPump: "off", "reading", "leaving", "ended"
    conn,       \* the connection: "none", "open", "closed"
    gauge,      \* systemMetrics.WSConnections
    ctxDone,    \* es.shutdownCtx is cancelled
    status,     \* the status broadcaster runs
    closing,    \* Shutdown: "no", "cancelled", "done"
    forgotten   \* history: clients Shutdown took out of the map

vars == <<clients, broadcast, hub, marked, send, sendClosed, handler, initial,
          writer, reader, conn, gauge, ctxDone, status, closing, forgotten>>

hubVars    == <<broadcast, hub, marked>>
clientVars == <<handler, initial, writer, reader>>
stopVars   == <<ctxDone, status, closing, forgotten>>

TypeOK ==
    /\ clients \subseteq Clients /\ marked \subseteq Clients
    /\ broadcast \in 0 .. BroadcastCap
    /\ hub \in {"select", "unregistering", "gone"}
    /\ send \in [Clients -> 0 .. SendCap]
    /\ sendClosed \subseteq Clients /\ forgotten \subseteq Clients
    /\ handler \in [Clients -> {"off", "register", "record", "started"}]
    /\ initial \in [Clients -> 0 .. 2]
    /\ writer \in [Clients -> {"off", "select", "writing", "ended"}]
    /\ reader \in [Clients -> {"off", "reading", "leaving", "ended"}]
    /\ conn \in [Clients -> {"none", "open", "closed"}]
    /\ gauge \in Int
    /\ ctxDone \in BOOLEAN /\ status \in BOOLEAN
    /\ closing \in {"no", "cancelled", "done"}

Init ==
    /\ clients = {} /\ marked = {} /\ sendClosed = {} /\ forgotten = {}
    /\ broadcast = 0 /\ gauge = 0
    /\ hub = "select" /\ closing = "no"
    /\ send = [c \in Clients |-> 0]
    /\ handler = [c \in Clients |-> "off"]
    /\ initial = [c \in Clients |-> 0]
    /\ writer = [c \in Clients |-> "off"]
    /\ reader = [c \in Clients |-> "off"]
    /\ conn = [c \in Clients |-> "none"]
    /\ ctxDone = FALSE /\ status = TRUE

(* The clients of S get one more message; no buffer of S is full. *)
SendTo(S) == send' = [c \in Clients |-> IF c \in S THEN send[c] + 1 ELSE send[c]]

HasRoom(c) == send[c] < SendCap

-----------------------------------------------------------------------------
(* handleWebSocket: the upgraded connection waits for the hub. *)
Connect(c) ==
    /\ handler[c] = "off"
    /\ handler' = [handler EXCEPT ![c] = "register"]
    /\ conn' = [conn EXCEPT ![c] = "open"]
    /\ UNCHANGED <<clients, hubVars, send, sendClosed, initial, writer, reader,
                   gauge, stopVars>>

(* Run, case register. *)
Register(c) ==
    /\ hub = "select" /\ handler[c] = "register"
    /\ clients' = clients \cup {c}
    /\ handler' = [handler EXCEPT ![c] = "record"]
    /\ UNCHANGED <<hubVars, send, sendClosed, initial, writer, reader, conn,
                   gauge, stopVars>>

(* handleWebSocket: RecordWSConnection, then the three goroutines. *)
StartPumps(c) ==
    /\ handler[c] = "record"
    /\ handler' = [handler EXCEPT ![c] = "started"]
    /\ gauge' = gauge + 1
    /\ initial' = [initial EXCEPT ![c] = 2]
    /\ writer' = [writer EXCEPT ![c] = "select"]
    /\ reader' = [reader EXCEPT ![c] = "reading"]
    /\ UNCHANGED <<clients, hubVars, send, sendClosed, conn, stopVars>>

(* The initial messages are blocking sends; on a closed channel the        *)
(* goroutine panics and ends.                                              *)
SendInitial(c) ==
    /\ initial[c] > 0
    /\ IF c \in sendClosed
       THEN initial' = [initial EXCEPT ![c] = 0] /\ UNCHANGED send
       ELSE /\ HasRoom(c)
            /\ initial' = [initial EXCEPT ![c] = @ - 1]
            /\ SendTo({c})
    /\ UNCHANGED <<clients, hubVars, sendClosed, handler, writer, reader, conn,
                   gauge, stopVars>>

(* Mutant: the pump does not watch the context. *)
WriterEndsOnClose(c) ==
    /\ writer[c] = "select"
    /\ c \in sendClosed /\ send[c] = 0
    /\ writer' = [writer EXCEPT ![c] = "ended"]
    /\ conn' = [conn EXCEPT ![c] = "closed"]
    /\ UNCHANGED <<clients, hubVars, send, sendClosed, handler, initial, reader,
                   gauge, stopVars>>

(* writePump leaves its select: the context is done or send is closed. *)
WriterEnds(c) ==
    /\ writer[c] = "select"
    /\ \/ ctxDone
       \/ c \in sendClosed /\ send[c] = 0
    /\ writer' = [writer EXCEPT ![c] = "ended"]
    /\ conn' = [conn EXCEPT ![c] = "closed"]
    /\ UNCHANGED <<clients, hubVars, send, sendClosed, handler, initial, reader,
                   gauge, stopVars>>

(* writePump receives a message, also one left in a closed channel. *)
WriterReceives(c) ==
    /\ writer[c] = "select" /\ send[c] > 0
    /\ send' = [send EXCEPT ![c] = @ - 1]
    /\ writer' = [writer EXCEPT ![c] = "writing"]
    /\ UNCHANGED <<clients, hubVars, sendClosed, handler, initial, reader, conn,
                   gauge, stopVars>>

(* A write to the connection returns, within the write deadline. *)
Written(c) ==
    /\ writer[c] = "writing" /\ conn[c] = "open"
    /\ writer' = [writer EXCEPT ![c] = "select"]
    /\ UNCHANGED <<clients, hubVars, send, sendClosed, handler, initial, reader,
                   conn, gauge, stopVars>>

(* A write or a ping fails: the peer is slow or gone. *)
WriteFails(c) ==
    /\ writer[c] \in {"select", "writing"}
    /\ writer' = [writer EXCEPT ![c] = "ended"]
    /\ conn' = [conn EXCEPT ![c] = "closed"]
    /\ UNCHANGED <<clients, hubVars, send, sendClosed, handler, initial, reader,
                   gauge, stopVars>>

(* Mutant: the reader ends without a word to the hub. *)
ReaderLeavesSilently(c) ==
    /\ reader[c] = "reading"
    /\ reader' = [reader EXCEPT ![c] = "ended"]
    /\ UNCHANGED <<clients, hubVars, send, sendClosed, handler, initial, writer,
                   conn, gauge, stopVars>>

(* readPump leaves: the connection is closed here, the peer has gone or is *)
(* silent past the read deadline, or a message came and the context is     *)
(* done.                                                                   *)
ReaderLeaves(c) ==
    /\ reader[c] = "reading"
    /\ reader' = [reader EXCEPT ![c] = "leaving"]
    /\ UNCHANGED <<clients, hubVars, send, sendClosed, handler, initial, writer,
                   conn, gauge, stopVars>>

(* Run, case unregister, with the deferred end of readPump. *)
Unregister(c) ==
    /\ hub = "select" /\ reader[c] = "leaving"
    /\ reader' = [reader EXCEPT ![c] = "ended"]
    /\ conn' = [conn EXCEPT ![c] = "closed"]
    /\ clients' = clients \ {c}
    /\ sendClosed' = sendClosed \cup (clients \cap {c})
    /\ gauge' = IF c \in clients THEN gauge - 1 ELSE gauge
    /\ UNCHANGED <<hubVars, send, handler, initial, writer, stopVars>>

(* Broadcast, by anyone: a full channel drops the message. *)
Broadcast ==
    /\ broadcast < BroadcastCap
    /\ broadcast' = broadcast + 1
    /\ UNCHANGED <<clients, hub, marked, send, sendClosed, clientVars, conn,
                   gauge, stopVars>>

(* Run, case broadcast.  The hub then sends the marked clients to          *)
(* h.unregister, which only the hub receives from: with one marked client  *)
(* it never returns to its select, so "unregistering" has no way out.      *)
Deliver ==
    /\ hub = "select" /\ broadcast > 0
    /\ broadcast' = broadcast - 1
    /\ SendTo({c \in clients : HasRoom(c)})
    /\ marked' = {c \in clients : ~HasRoom(c)}
    /\ hub' = IF marked' = {} THEN "select" ELSE "unregistering"
    /\ UNCHANGED <<clients, sendClosed, clientVars, conn, gauge, stopVars>>

(* BroadcastRaw by the status broadcaster: a full buffer is skipped. *)
BroadcastRaw ==
    /\ status /\ clients # {}
    /\ SendTo({c \in clients : HasRoom(c)})
    /\ UNCHANGED <<clients, hubVars, sendClosed, clientVars, conn, gauge, stopVars>>

StatusEnds ==
    /\ status /\ ctxDone /\ status' = FALSE
    /\ UNCHANGED <<clients, hubVars, send, sendClosed, clientVars, conn, gauge,
                   ctxDone, closing, forgotten>>

(* Run, case ctx.Done; nobody receives from register and unregister then. *)
HubExits ==
    /\ hub = "select" /\ ctxDone
    /\ hub' = "gone"
    /\ UNCHANGED <<clients, broadcast, marked, send, sendClosed, clientVars,
                   conn, gauge, stopVars>>

(* EnhancedServer.Shutdown: shutdownCancel. *)
CancelContext ==
    /\ closing = "no" /\ closing' = "cancelled"
    /\ ctxDone' = TRUE
    /\ UNCHANGED <<clients, hubVars, send, sendClosed, clientVars, conn, gauge,
                   status, forgotten>>

(* Mutant: the map keeps the clients whose channels were closed. *)
HubShutdownKeeps ==
    /\ closing = "cancelled" /\ closing' = "done"
    /\ sendClosed' = sendClosed \cup clients
    /\ conn' = [c \in Clients |-> IF c \in clients THEN "closed" ELSE conn[c]]
    /\ forgotten' = clients
    /\ UNCHANGED <<clients, hubVars, send, clientVars, gauge, ctxDone, status>>

(* WSHub.Shutdown: onDisconnect is not called for the clients it drops. *)
HubShutdown ==
    /\ closing = "cancelled" /\ closing' = "done"
    /\ sendClosed' = sendClosed \cup clients
    /\ conn' = [c \in Clients |-> IF c \in clients THEN "closed" ELSE conn[c]]
    /\ clients' = {}
    /\ forgotten' = clients
    /\ UNCHANGED <<hubVars, send, clientVars, gauge, ctxDone, status>>

Next ==
    \/ \E c \in Clients :
          \/ Connect(c) \/ Register(c) \/ StartPumps(c) \/ SendInitial(c)
          \/ WriterEnds(c) \/ WriterReceives(c) \/ Written(c) \/ WriteFails(c)
          \/ ReaderLeaves(c) \/ Unregister(c)
    \/ Broadcast \/ Deliver \/ BroadcastRaw \/ StatusEnds
    \/ HubExits \/ CancelContext \/ HubShutdown

(* A select takes each case that stays ready in the end; a write returns   *)
(* by its deadline; a reader notices a closed connection.  Readers of live *)
(* connections, handlers of new ones and broadcasts owe nothing.           *)
Fairness ==
    /\ WF_vars(Deliver) /\ WF_vars(HubExits) /\ WF_vars(HubShutdown)
    /\ WF_vars(StatusEnds)
    /\ \A c \in Clients :
          /\ WF_vars(Unregister(c))
          /\ WF_vars(ReaderLeaves(c) /\ conn[c] = "closed")
          /\ WF_vars(WriterEnds(c) \/ WriterReceives(c))
          /\ WF_vars((Written(c) \/ WriteFails(c)) /\ writer[c] = "writing")

Spec == Init /\ [][Next]_vars /\ Fairness
-----------------------------------------------------------------------------
(* Run, BroadcastRaw: a client in the map has an open channel, so none of  *)
(* the two ever sends on a closed one, which would end the hub by a panic. *)
MapIsOpen == clients \cap sendClosed = {}

(* RecordWSConnection, onDisconnect: the gauge is the number of clients in *)
(* the map, give or take the handlers that have yet to record theirs, and  *)
(* the clients Shutdown dropped without the callback.                      *)
Recording == {c \in Clients : handler[c] = "record"}
GaugeCounts ==
    gauge + Cardinality(Recording) = Cardinality(clients) + Cardinality(forgotten)

(* Run: a client whose connection is closed leaves the map, unless a       *)
(* broadcast met a full buffer or the server shuts down.                   *)
DeadClientsLeave == \A c \in Clients :
    conn[c] = "closed" ~> c \notin clients \/ hub # "select"

(* Shutdown: every connection whose pumps were started is closed, also     *)
(* when the hub is wedged or has left before its client.                   *)
ConnectionsClose == \A c \in Clients :
    ctxDone /\ handler[c] = "started" ~> conn[c] = "closed"

(* websocket.go:135 "Unregister clients with full buffers". *)
FullBuffersUnregistered == \A c \in Clients : c \in marked ~> c \notin clients
=============================================================================
