------------------------------- MODULE WsChat -------------------------------
(***************************************************************************)
(* network/layer-7-application/websocket/index.js: the chat server that    *)
(* sends every message it receives to all its clients.  Node.js runs one   *)
(* event handler at a time, each to its end, so an event is one action;    *)
(* the connections, which the ws library drives, come between the events.  *)
(***************************************************************************)
EXTENDS Naturals, Sequences, SequencesExt

CONSTANTS
  Clients,      \* the connections (a record {id, ws} each)
  MaxMessages   \* bound: the messages that a client sends

ASSUME BoundAssumption == MaxMessages \in Nat

VARIABLES
  clients,      \* the array of the same name
  readyState,   \* ws.readyState of each connection
  inbox,        \* the messages on their way from each client
  outbox,       \* what was sent to each client and is not delivered
  received,     \* what each client has received
  written,      \* how many messages each client has written
  \* What was broadcast in all, and how much of it before each client came.
  log, joined

vars == <<clients, readyState, inbox, outbox, received, written, log, joined>>

Message == Clients \X (1 .. MaxMessages)

Init ==
  /\ clients = <<>>
  /\ readyState = [c \in Clients |-> "NONE"]
  /\ inbox = [c \in Clients |-> <<>>]
  /\ outbox = [c \in Clients |-> <<>>]
  /\ received = [c \in Clients |-> <<>>]
  /\ written = [c \in Clients |-> 0]
  /\ log = <<>>
  /\ joined = [c \in Clients |-> 0]

-----------------------------------------------------------------------------
(* The events.                                                             *)

\* A connection that may come back, with a record of its own each time.
OnReconnection(c) ==
  /\ readyState[c] \in {"NONE", "CLOSED"}
  /\ readyState' = [readyState EXCEPT ![c] = "OPEN"]
  /\ clients' = Append(clients, c)
  /\ joined' = [joined EXCEPT ![c] = Len(log)]
  /\ UNCHANGED <<inbox, outbox, received, written, log>>

\* wss.on("connection")
OnConnection(c) ==
  /\ readyState[c] = "NONE"
  /\ readyState' = [readyState EXCEPT ![c] = "OPEN"]
  /\ clients' = Append(clients, c)
  /\ joined' = [joined EXCEPT ![c] = Len(log)]
  /\ UNCHANGED <<inbox, outbox, received, written, log>>

\* A loop that ends at the first client that is not open.
BroadcastUntilClosed(message) ==
  LET open == SelectInSeq(clients, LAMBDA d : readyState[d] # "OPEN")
      last == IF open = 0 THEN Len(clients) ELSE open - 1
  IN  outbox' = [d \in Clients |->
                   IF \E i \in 1 .. last : clients[i] = d
                     THEN Append(outbox[d], message) ELSE outbox[d]]

\* broadcast(message): to every record of the array whose connection is open.
Broadcast(message) ==
  outbox' = [d \in Clients |->
               IF Contains(clients, d) /\ readyState[d] = "OPEN"
                 THEN Append(outbox[d], message) ELSE outbox[d]]

\* ws.on("message")
OnMessage(c) ==
  /\ readyState[c] = "OPEN"
  /\ inbox[c] # <<>>
  /\ inbox' = [inbox EXCEPT ![c] = Tail(@)]
  /\ Broadcast(Head(inbox[c]))
  /\ log' = Append(log, Head(inbox[c]))
  /\ UNCHANGED <<clients, readyState, received, written, joined>>

\* ws.on("close"): the filter compares the records of the array with ws, which
\* is none of them, and keeps them all.
OnClose(c) ==
  /\ readyState[c] = "CLOSING"
  /\ readyState' = [readyState EXCEPT ![c] = "CLOSED"]
  /\ UNCHANGED <<clients, inbox, outbox, received, written, log, joined>>

-----------------------------------------------------------------------------
(* The connections.                                                        *)

\* A client writes a message.
Write(c) ==
  /\ readyState[c] = "OPEN"
  /\ written[c] < MaxMessages
  /\ written' = [written EXCEPT ![c] = @ + 1]
  /\ inbox' = [inbox EXCEPT ![c] = Append(@, <<c, written'[c]>>)]
  /\ UNCHANGED <<clients, readyState, outbox, received, log, joined>>

Deliver(c) ==
  /\ readyState[c] \in {"OPEN", "CLOSING"}
  /\ outbox[c] # <<>>
  /\ outbox' = [outbox EXCEPT ![c] = Tail(@)]
  /\ received' = [received EXCEPT ![c] = Append(@, Head(outbox[c]))]
  /\ UNCHANGED <<clients, readyState, inbox, written, log, joined>>

\* A close frame or an error: what has not arrived is lost.
Closing(c) ==
  /\ readyState[c] = "OPEN"
  /\ readyState' = [readyState EXCEPT ![c] = "CLOSING"]
  /\ inbox' = [inbox EXCEPT ![c] = <<>>]
  /\ UNCHANGED <<clients, outbox, received, written, log, joined>>

Next ==
  \E c \in Clients :
    \/ OnConnection(c) \/ OnMessage(c) \/ OnClose(c)
    \/ Write(c) \/ Deliver(c) \/ Closing(c)

Spec == Init /\ [][Next]_vars

-----------------------------------------------------------------------------
(* Properties.                                                             *)

\* The types of the variables.
TypeOK ==
  /\ clients \in Seq(Clients) /\ IsInjective(clients)
  /\ readyState \in [Clients -> {"NONE", "OPEN", "CLOSING", "CLOSED"}]
  /\ inbox \in [Clients -> Seq(Message)]
  /\ outbox \in [Clients -> Seq(Message)]
  /\ received \in [Clients -> Seq(Message)]
  /\ written \in [Clients -> 0 .. MaxMessages]
  /\ log \in Seq(Message)
  /\ joined \in [Clients -> Nat]

\* index.js:27-33: all clients see one conversation.  What a client is sent is
\* what was broadcast since it came, in the same order for all and without a
\* gap, whatever other connections came, closed or stayed in the array.
OneConversation ==
  \A c \in Clients :
    LET since == SubSeq(log, joined[c] + 1, Len(log))
        seen  == received[c] \o outbox[c]
    IN  /\ IsPrefix(seen, since)
        /\ readyState[c] = "OPEN" => seen = since

\* index.js:36, "All connected clients:": what printAllClients lists then, the
\* array, holds no client whose close event has been handled.
ListedAreConnected ==
  \A i \in DOMAIN clients : readyState[clients[i]] # "CLOSED"

=============================================================================
