---------------------------- MODULE WebSocketHub ----------------------------
(***************************************************************************)
(* The WebSocket hub (api/websocket.go): one event loop that owns the set  *)
(* of connections, a channel of messages that is never waited for, and two *)
(* goroutines for each connection, one that reads and one that writes.     *)
(*                                                                         *)
(* Deliver and ReadFails are preceded by faulty variants that no action    *)
(* uses: with one in place a property must fail.                           *)
(***************************************************************************)
EXTENDS Naturals, FiniteSets

CONSTANTS Conn, SendCapacity, BroadcastCapacity, MaxMessages

ASSUME HubAssumption ==
  SendCapacity \in Nat /\ BroadcastCapacity \in Nat /\ MaxMessages \in Nat

VARIABLES
  hub,        \* "running", "quitting", "stopped"
  members,    \* h.clients
  broadcast,  \* how many messages are in h.broadcast
  messages,   \* how many were sent so far
  reader,     \* readPump: "new", "register", "reading", "unregister", "gone"
  writer,     \* writePump: "none", "writing", "gone"
  send,       \* client.send: how many messages are in it, or Closed
  conn        \* connections that are open

hubVars == <<hub, members, broadcast, messages, reader, writer, send, conn>>

Closed == SendCapacity + 1

HubTypeOK ==
  /\ hub \in {"running", "quitting", "stopped"}
  /\ members \subseteq Conn /\ conn \subseteq Conn
  /\ broadcast \in 0 .. BroadcastCapacity /\ messages \in 0 .. MaxMessages
  /\ reader \in [Conn -> {"new", "register", "reading", "unregister", "gone"}]
  /\ writer \in [Conn -> {"none", "writing", "gone"}]
  /\ send \in [Conn -> 0 .. Closed]

HubInit ==
  /\ hub = "running" /\ members = {} /\ broadcast = 0 /\ messages = 0
  /\ reader = [c \in Conn |-> "new"] /\ writer = [c \in Conn |-> "none"]
  /\ send = [c \in Conn |-> 0] /\ conn = {}

-----------------------------------------------------------------------------
(* Messages and connections                                                *)

\* Broadcast: a full channel drops the message.
Broadcast ==
  /\ messages < MaxMessages /\ messages' = messages + 1
  /\ broadcast' = IF broadcast < BroadcastCapacity THEN broadcast + 1 ELSE broadcast
  /\ UNCHANGED <<hub, members, reader, writer, send, conn>>

\* handleWebSocket: the connection is upgraded, and offered to the hub.
Connect(c) ==
  /\ reader[c] = "new"
  /\ conn' = conn \cup {c} /\ reader' = [reader EXCEPT ![c] = "register"]
  /\ UNCHANGED <<hub, members, broadcast, messages, writer, send>>

\* The browser goes away, or the network does.
Disconnect(c) ==
  /\ c \in conn /\ conn' = conn \ {c}
  /\ UNCHANGED <<hub, members, broadcast, messages, reader, writer, send>>

-----------------------------------------------------------------------------
(* The event loop                                                          *)

\* The channels have no room: both sides take the step together.
RegisterClient(c) ==
  /\ hub = "running" \/ hub = "quitting"
  /\ reader[c] = "register"
  /\ members' = members \cup {c}
  /\ reader' = [reader EXCEPT ![c] = "reading"]
  /\ writer' = [writer EXCEPT ![c] = "writing"]
  /\ UNCHANGED <<hub, broadcast, messages, send, conn>>

UnregisterClient(c) ==
  /\ hub = "running" \/ hub = "quitting"
  /\ reader[c] = "unregister"
  /\ members' = members \ {c}
  /\ send' = [send EXCEPT ![c] = IF c \in members THEN Closed ELSE @]
  /\ reader' = [reader EXCEPT ![c] = "gone"] /\ conn' = conn \ {c}
  /\ UNCHANGED <<hub, broadcast, messages, writer>>

\* A client whose buffer is full is disconnected; it leaves by itself.
DeliverToAll ==
  /\ hub \in {"running", "quitting"} /\ broadcast > 0
  /\ broadcast' = broadcast - 1
  /\ send' = [c \in Conn |-> IF c \in members THEN send[c] + 1 ELSE send[c]]
  /\ UNCHANGED <<hub, members, messages, reader, writer, conn>>

Deliver ==
  /\ hub \in {"running", "quitting"} /\ broadcast > 0
  /\ broadcast' = broadcast - 1
  /\ send' = [c \in Conn |->
       IF c \in members /\ send[c] < SendCapacity THEN send[c] + 1 ELSE send[c]]
  /\ conn' = conn \ {c \in members : send[c] >= SendCapacity}
  /\ UNCHANGED <<hub, members, messages, reader, writer>>

Stop ==
  /\ hub = "running" /\ hub' = "quitting"
  /\ UNCHANGED <<members, broadcast, messages, reader, writer, send, conn>>

\* select may take any other case that is ready first.
Quit ==
  /\ hub = "quitting" /\ hub' = "stopped"
  /\ UNCHANGED <<members, broadcast, messages, reader, writer, send, conn>>

-----------------------------------------------------------------------------
(* The pumps                                                               *)

\* The read fails: nobody waits for a member that says nothing.
ReadFailsQuietly(c) ==
  /\ reader[c] = "reading" /\ c \notin conn
  /\ reader' = [reader EXCEPT ![c] = "gone"]
  /\ UNCHANGED <<hub, members, broadcast, messages, writer, send, conn>>

ReadFails(c) ==
  /\ reader[c] = "reading" /\ c \notin conn
  /\ reader' = [reader EXCEPT ![c] = "unregister"]
  /\ UNCHANGED <<hub, members, broadcast, messages, writer, send, conn>>

\* A message goes out, or the write, or a ping, fails.
WriteMessage(c) ==
  /\ writer[c] = "writing" /\ send[c] \in 1 .. SendCapacity
  /\ send' = [send EXCEPT ![c] = @ - 1]
  /\ writer' = [writer EXCEPT ![c] = IF c \in conn THEN @ ELSE "gone"]
  /\ UNCHANGED <<hub, members, broadcast, messages, reader, conn>>

\* The hub has closed the channel, or a ping finds the connection gone.
StopWriting(c) ==
  /\ writer[c] = "writing" /\ (send[c] = Closed \/ c \notin conn)
  /\ writer' = [writer EXCEPT ![c] = "gone"] /\ conn' = conn \ {c}
  /\ UNCHANGED <<hub, members, broadcast, messages, reader, send>>

Pumps(c) == ReadFails(c) \/ WriteMessage(c) \/ StopWriting(c)
Loop == Deliver \/ Quit \/ \E c \in Conn : RegisterClient(c) \/ UnregisterClient(c)

HubNext ==
  \/ Broadcast \/ Stop \/ Loop
  \/ \E c \in Conn : Connect(c) \/ Disconnect(c) \/ Pumps(c)

-----------------------------------------------------------------------------
(* Properties                                                              *)

\* Who has gone is forgotten and leaves no goroutine behind, while the hub runs.
\* After it has stopped nobody takes the registration: goroutines of clients
\* that leave, or arrive, wait for ever.
GoneIsForgotten ==
  hub = "stopped" \/ \A c \in Conn :
    c \notin conn =>
      c \notin members /\ writer[c] # "writing" /\ reader[c] \in {"new", "gone"}
=============================================================================
