------------------------------- MODULE WsEcho -------------------------------
(***************************************************************************)
(* network/layer-7-application/websocket/wss: the echo server's WsHandler  *)
(* (handler/handler.go), one goroutine per connection, which share the map *)
(* of clients under clientsMux, and the client program                     *)
(* (client/client.go), whose reader goroutine and select loop share one    *)
(* connection.                                                             *)
(*                                                                         *)
(* Every client has one connection: two FIFO channels of frames.  A frame  *)
(* is the number of the tick that was sent, or Close.                      *)
(***************************************************************************)
EXTENDS Naturals, Sequences

CONSTANTS
  Clients,     \* the running client programs
  MaxTicks     \* bound: the ticks that a client sends

ASSUME BoundAssumption == MaxTicks \in Nat

Close  == 0
Ticks  == 1 .. MaxTicks
Frames == Ticks \cup {Close}

VARIABLES
  \* The server.
  clients,     \* handler.clients: the registered connections
  hpc, hmsg,   \* each connection's WsHandler, and the message it has read
  \* The connections.
  up, down,    \* the frames on their way to the server and to the client
  cut,         \* the connections that the network has broken
  gone,        \* the clients whose host has vanished without closing
  \* The clients.
  cpc,         \* the select loop
  done,        \* the reader has closed the done channel
  sent, recv,  \* the ticks written and the messages logged as "recv:"
  timedOut     \* the clients that stopped waiting for the server's close

serverVars == <<clients, hpc, hmsg>>
netVars    == <<up, down, cut, gone>>
clientVars == <<cpc, done, sent, recv, timedOut>>
vars == <<serverVars, netVars, clientVars>>

Init ==
  /\ clients = {}
  /\ hpc = [c \in Clients |-> "none"]
  /\ hmsg = [c \in Clients |-> Close]
  /\ up = [c \in Clients |-> <<>>]
  /\ down = [c \in Clients |-> <<>>]
  /\ cut = {}
  /\ gone = {}
  /\ cpc = [c \in Clients |-> "dial"]
  /\ done = {}
  /\ sent = [c \in Clients |-> 0]
  /\ recv = [c \in Clients |-> <<>>]
  /\ timedOut = {}

ClientClosed(c) == cpc[c] = "returned"
ServerClosed(c) == hpc[c] = "closed"
Handler(c, label) == hpc' = [hpc EXCEPT ![c] = label]
Client(c, label)  == cpc' = [cpc EXCEPT ![c] = label]

\* A write reaches the peer's end, is lost because that end is closed, or fails.
Write(ch, c, frame) ==
  ch' = IF c \in cut \cup gone THEN ch ELSE [ch EXCEPT ![c] = Append(@, frame)]

-----------------------------------------------------------------------------
(* The server.                                                             *)

\* onConnect
OnConnect(c) ==
  /\ hpc[c] = "onConnect"
  /\ clients' = clients \cup {c}
  /\ Handler(c, "read")
  /\ UNCHANGED <<hmsg, netVars, clientVars>>

\* ReadMessage returns a message.
ServerRead(c) ==
  /\ hpc[c] = "read"
  /\ up[c] # <<>> /\ Head(up[c]) # Close
  /\ up' = [up EXCEPT ![c] = Tail(@)]
  /\ hmsg' = [hmsg EXCEPT ![c] = Head(up[c])]
  /\ Handler(c, "onMessage")
  /\ UNCHANGED <<clients, down, cut, gone, clientVars>>

\* ReadMessage meets a close frame: the library answers it with one, and the
\* error ends the loop.
ServerReadClose(c) ==
  /\ hpc[c] = "read"
  /\ up[c] # <<>> /\ Head(up[c]) = Close
  /\ up' = [up EXCEPT ![c] = Tail(@)]
  /\ Write(down, c, Close)
  /\ Handler(c, "onClose")
  /\ UNCHANGED <<clients, hmsg, cut, gone, clientVars>>

\* ReadMessage finds the connection broken, or closed by the client (a close
\* with unread frames discards those that are under way), or TCP's keep-alive
\* finds that the client's host is gone.
ServerReadError(c) ==
  /\ hpc[c] = "read"
  /\ c \in cut \cup gone \/ ClientClosed(c)
  /\ Handler(c, "onClose")
  /\ UNCHANGED <<clients, hmsg, netVars, clientVars>>

\* A handler that reads on while the echo is still to be written: it may be
\* overtaken.
OnMessageDetached(c) ==
  /\ hpc[c] = "onMessage"
  /\ \/ Write(down, c, hmsg[c]) /\ UNCHANGED <<up, hmsg>>
     \/ /\ up[c] # <<>> /\ Head(up[c]) # Close
        /\ up' = [up EXCEPT ![c] = <<hmsg[c]>> \o Tail(@)]
        /\ Write(down, c, Head(up[c]))
        /\ UNCHANGED hmsg
  /\ Handler(c, "read")
  /\ UNCHANGED <<clients, cut, gone, clientVars>>

\* onMessage: the echo; a failing write is only logged.
OnMessage(c) ==
  /\ hpc[c] = "onMessage"
  /\ Write(down, c, hmsg[c])
  /\ Handler(c, "read")
  /\ UNCHANGED <<clients, hmsg, up, cut, gone, clientVars>>

\* A handler whose onClose is not deferred but skipped after an error.
OnCloseSkipped(c) ==
  /\ hpc[c] = "onClose"
  /\ clients' = IF c \in cut THEN clients ELSE clients \ {c}
  /\ Handler(c, "close")
  /\ UNCHANGED <<hmsg, netVars, clientVars>>

\* defer onClose(client)
OnClose(c) ==
  /\ hpc[c] = "onClose"
  /\ clients' = clients \ {c}
  /\ Handler(c, "close")
  /\ UNCHANGED <<hmsg, netVars, clientVars>>

\* defer c.Close(), which runs after onClose
ServerClose(c) ==
  /\ hpc[c] = "close"
  /\ Handler(c, "closed")
  /\ UNCHANGED <<clients, hmsg, netVars, clientVars>>

-----------------------------------------------------------------------------
(* The client.                                                             *)

Running(c) == c \notin gone

\* dialer.Dial and upgrader.Upgrade
Dial(c) ==
  /\ Running(c)
  /\ cpc[c] = "dial"
  /\ Client(c, "select")
  /\ Handler(c, "onConnect")
  /\ UNCHANGED <<clients, hmsg, netVars, done, sent, recv, timedOut>>

\* case t := <-ticker.C
Tick(c) ==
  /\ Running(c)
  /\ cpc[c] = "select"
  /\ c \notin cut
  /\ sent[c] < MaxTicks
  /\ sent' = [sent EXCEPT ![c] = @ + 1]
  /\ Write(up, c, sent'[c])
  /\ UNCHANGED <<serverVars, down, cut, gone, cpc, done, recv, timedOut>>

\* The write of a tick or of the close frame fails: return, c.Close().
WriteFails(c) ==
  /\ Running(c)
  /\ cpc[c] = "select"
  /\ c \in cut \/ ServerClosed(c)
  /\ Client(c, "returned")
  /\ UNCHANGED <<serverVars, netVars, done, sent, recv, timedOut>>

\* case <-interrupt: write the close frame, then wait.
Interrupt(c) ==
  /\ Running(c)
  /\ cpc[c] = "select"
  /\ c \notin cut
  /\ Write(up, c, Close)
  /\ Client(c, "wait")
  /\ UNCHANGED <<serverVars, down, cut, gone, done, sent, recv, timedOut>>

\* A client that does not wait for the server.
ReturnAtOnce(c) ==
  /\ Running(c)
  /\ cpc[c] = "wait" \/ (cpc[c] = "select" /\ c \in done)
  /\ Client(c, "returned")
  /\ UNCHANGED <<serverVars, netVars, done, sent, recv, timedOut>>

\* case <-done, in either select.
ReturnDone(c) ==
  /\ Running(c)
  /\ cpc[c] \in {"select", "wait"}
  /\ c \in done
  /\ Client(c, "returned")
  /\ UNCHANGED <<serverVars, netVars, done, sent, recv, timedOut>>

\* case <-time.After(time.Second)
ReturnTimeout(c) ==
  /\ Running(c)
  /\ cpc[c] = "wait"
  /\ Client(c, "returned")
  /\ timedOut' = timedOut \cup {c}
  /\ UNCHANGED <<serverVars, netVars, done, sent, recv>>

\* A reader that takes a close frame for a message.
ReadAll(c) ==
  /\ Running(c)
  /\ cpc[c] \in {"select", "wait"}
  /\ c \notin done
  /\ down[c] # <<>>
  /\ down' = [down EXCEPT ![c] = Tail(@)]
  /\ recv' = [recv EXCEPT ![c] = Append(@, Head(down[c]))]
  /\ UNCHANGED <<serverVars, up, cut, gone, cpc, done, sent, timedOut>>

\* The reader goroutine: a message is logged; anything else closes done.
Read(c) ==
  /\ Running(c)
  /\ cpc[c] \in {"select", "wait"}
  /\ c \notin done
  /\ down[c] # <<>>
  /\ down' = [down EXCEPT ![c] = Tail(@)]
  /\ IF Head(down[c]) = Close
       THEN done' = done \cup {c} /\ UNCHANGED recv
       ELSE recv' = [recv EXCEPT ![c] = Append(@, Head(down[c]))] /\ UNCHANGED done
  /\ UNCHANGED <<serverVars, up, cut, gone, cpc, sent, timedOut>>

ReadError(c) ==
  /\ Running(c)
  /\ cpc[c] \in {"select", "wait"}
  /\ c \notin done
  /\ c \in cut \/ (ServerClosed(c) /\ down[c] = <<>>)
  /\ done' = done \cup {c}
  /\ UNCHANGED <<serverVars, netVars, cpc, sent, recv, timedOut>>

-----------------------------------------------------------------------------
(* The network.                                                            *)

\* The connection breaks, and both ends notice.
Break(c) ==
  /\ cpc[c] \in {"select", "wait"}
  /\ c \notin cut \cup gone
  /\ cut' = cut \cup {c}
  /\ up' = [up EXCEPT ![c] = <<>>]
  /\ down' = [down EXCEPT ![c] = <<>>]
  /\ UNCHANGED <<serverVars, gone, clientVars>>

\* The client's host vanishes without closing its connections.
Vanish(c) ==
  /\ cpc[c] \in {"select", "wait"}
  /\ c \notin cut \cup gone
  /\ gone' = gone \cup {c}
  /\ UNCHANGED <<serverVars, up, down, cut, clientVars>>

-----------------------------------------------------------------------------

WsHandler(c) == \/ OnConnect(c)
                \/ ServerRead(c) \/ ServerReadClose(c) \/ ServerReadError(c)
                \/ OnMessage(c) \/ OnClose(c) \/ ServerClose(c)
Reader(c) == Read(c) \/ ReadError(c)
Return(c) == ReturnDone(c) \/ ReturnTimeout(c) \/ WriteFails(c)

Next ==
  \E c \in Clients :
    \/ WsHandler(c)
    \/ Dial(c) \/ Tick(c) \/ Interrupt(c) \/ Return(c) \/ Reader(c)
    \/ Break(c) \/ Vanish(c)

Spec == Init /\ [][Next]_vars

\* The goroutines go on and the timer fires; nobody has to interrupt a client.
FairSpec ==
  Spec /\ \A c \in Clients : WF_vars(WsHandler(c)) /\ WF_vars(Return(c)) /\ WF_vars(Reader(c))

-----------------------------------------------------------------------------
(* Properties.                                                             *)

\* The types of the variables.
TypeOK ==
  /\ clients \subseteq Clients
  /\ hpc \in [Clients -> {"none", "onConnect", "read", "onMessage", "onClose",
                          "close", "closed"}]
  /\ hmsg \in [Clients -> Frames]
  /\ up \in [Clients -> Seq(Frames)]
  /\ down \in [Clients -> Seq(Frames)]
  /\ cut \subseteq Clients /\ gone \subseteq Clients
  /\ cpc \in [Clients -> {"dial", "select", "wait", "returned"}]
  /\ done \subseteq Clients /\ timedOut \subseteq Clients
  /\ sent \in [Clients -> 0 .. MaxTicks]
  /\ recv \in [Clients -> Seq(Ticks)]

\* handler.go:35-42 and client.go:67-74: through the handler's loop, breaks and
\* closes, what a client has read are the ticks that it sent first, in order.
EchoInOrder ==
  \A c \in Clients :
    /\ Len(recv[c]) <= sent[c]
    /\ \A i \in DOMAIN recv[c] : recv[c][i] = i

\* client.go:93-94, "Cleanly close the connection by sending a close message and
\* then waiting (with timeout) for the server to close": a client that was not
\* cut off and did not time out has read the echo of every tick before it
\* closed its end, and the server has dropped it or is about to.
CleanClose ==
  \A c \in Clients \ (cut \cup gone \cup timedOut) :
    cpc[c] = "returned" =>
      /\ Len(recv[c]) = sent[c]
      /\ hpc[c] \in {"onClose", "close", "closed"}

\* handler.go:68-74: a connection that ends, because the client returned, the
\* connection broke or the client's host vanished, leaves the map of clients.
Unregistered ==
  \A c \in Clients :
    cpc[c] = "returned" \/ c \in cut \cup gone ~> c \notin clients /\ ServerClosed(c)

=============================================================================
