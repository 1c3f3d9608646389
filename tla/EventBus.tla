------------------------------ MODULE EventBus ------------------------------
(***************************************************************************)
(* crates/phantom-api/src/ws.rs: EventBus, a broadcast channel with a      *)
(* counter of connected clients, and handle_socket, the task that forwards *)
(* the events to one WebSocket client until the connection ends.           *)
(***************************************************************************)
EXTENDS BroadcastChannel, FiniteSets

CONSTANTS
    Clients,       \* WebSocket connections
    BusCapacity,   \* config.channel_capacity
    MaxEvents      \* bound: events that are published

ASSUME BusAssumption ==
    /\ IsFiniteSet(Clients) /\ BusCapacity \in Nat \ {0} /\ MaxEvents \in Nat

VARIABLES
    published,  \* the channel: all events, each known by its number
    connected,  \* connected_clients
    socket,     \* where the task of each connection is
    heard,      \* the receiver's position in the channel
    received,   \* the client: the events it has been sent, in order
    gone        \* clients that have closed their end or lost the connection

busVars == <<published, connected, socket, heard, received, gone>>

BusInit ==
    /\ published = << >>
    /\ connected = 0
    /\ socket = [c \in Clients |-> "none"]
    /\ heard = [c \in Clients |-> 0]
    /\ received = [c \in Clients |-> << >>]
    /\ gone = {}

Goes(c, label) == socket' = [socket EXCEPT ![c] = label]

-----------------------------------------------------------------------------
\* publish: without subscribers the event is dropped.
Publish ==
    /\ Len(published) < MaxEvents
    /\ published' = Append(published, Len(published) + 1)
    /\ UNCHANGED <<connected, socket, heard, received, gone>>

\* handle_socket counts the client before it subscribes.
ClientConnects(c) ==
    /\ socket[c] = "none"
    /\ connected' = connected + 1
    /\ Goes(c, "counted")
    /\ UNCHANGED <<published, heard, received, gone>>

Subscribe(c) ==
    /\ socket[c] = "counted"
    /\ heard' = [heard EXCEPT ![c] = Len(published)]
    /\ Goes(c, "select")
    /\ UNCHANGED <<published, connected, received, gone>>

\* The client closes the connection, or it breaks.
HangUp(c) ==
    /\ socket[c] \in {"counted", "select", "send"} /\ c \notin gone
    /\ gone' = gone \union {c}
    /\ UNCHANGED <<published, connected, socket, heard, received>>

ReceiveEvent(c) ==
    /\ socket[c] = "select"
    /\ HasNews(published, heard[c]) /\ ~HasLagged(published, heard[c], BusCapacity)
    /\ heard' = [heard EXCEPT ![c] = @ + 1]
    /\ Goes(c, "send")
    /\ UNCHANGED <<published, connected, received, gone>>

\* Faulty: a client that lagged waits for the next event.
ReceiveLagged_All(c) ==
    /\ socket[c] = "select" /\ HasLagged(published, heard[c], BusCapacity)
    /\ heard' = [heard EXCEPT ![c] = Len(published)]
    /\ UNCHANGED <<published, connected, socket, received, gone>>

ReceiveLagged(c) ==
    /\ socket[c] = "select" /\ HasLagged(published, heard[c], BusCapacity)
    /\ heard' = [heard EXCEPT ![c] = CaughtUp(published, BusCapacity)]
    /\ UNCHANGED <<published, connected, socket, received, gone>>

\* The event is written; the write fails only to a client that is gone.
SendEvent(c) ==
    /\ socket[c] = "send"
    /\ \/ /\ received' = [received EXCEPT ![c] = Append(@, published[heard[c]])]
          /\ Goes(c, "select")
       \/ c \in gone /\ Goes(c, "leaving") /\ UNCHANGED received
    /\ UNCHANGED <<published, connected, heard, gone>>

\* The other branch of select!: a close, an error or the end of the stream.
ReceiveClose(c) ==
    /\ socket[c] = "select" /\ c \in gone
    /\ Goes(c, "leaving")
    /\ UNCHANGED <<published, connected, heard, received, gone>>

ClientDisconnects(c) ==
    /\ socket[c] = "leaving"
    /\ connected' = connected - 1
    /\ Goes(c, "closed")
    /\ UNCHANGED <<published, heard, received, gone>>

-----------------------------------------------------------------------------
SocketStep(c) ==
    \/ Subscribe(c) \/ ReceiveEvent(c) \/ ReceiveLagged(c) \/ SendEvent(c)
    \/ ReceiveClose(c) \/ ClientDisconnects(c)

BusNext ==
    \/ Publish
    \/ \E c \in Clients : ClientConnects(c) \/ HangUp(c) \/ SocketStep(c)

\* The runtime runs every connection's task; a write to a client that reads, or
\* is gone, ends.
BusSpec == BusInit /\ [][BusNext]_busVars /\ \A c \in Clients : WF_busVars(SocketStep(c))

-----------------------------------------------------------------------------
(* Properties                                                              *)

\* A client that stays connected is sent the last event published since it
\* subscribed, however far it lagged, and the task of one that is gone ends.
LastEventArrives ==
    \A c \in Clients :
        /\ socket[c] = "select" /\ heard[c] < Len(published) ~>
              \/ received[c] # << >> /\ received[c][Len(received[c])] = Len(published)
              \/ c \in gone
        /\ c \in gone ~> socket[c] = "closed"
=============================================================================
