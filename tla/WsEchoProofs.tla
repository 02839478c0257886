---------------------------- MODULE WsEchoProofs ----------------------------
(***************************************************************************)
(* The echoes and the close handshake of WsEcho, for any clients and any   *)
(* number of ticks.                                                        *)
(***************************************************************************)
EXTENDS WsEcho, SequenceTheorems, TLAPS

-----------------------------------------------------------------------------
(* A direction of a connection: ticks in a row, and perhaps a close frame. *)

\* Every frame of s, a number after the k that came before, or a last Close.
InARow(s, k) == \A i \in 1 .. Len(s) : s[i] = k + i \/ (i = Len(s) /\ s[i] = Close)
Closed(s)    == Len(s) # 0 /\ s[Len(s)] = Close
TicksIn(s)   == IF Closed(s) THEN Len(s) - 1 ELSE Len(s)

\* The next tick continues the row.
LEMMA AppendTick ==
  ASSUME NEW s \in Seq(Nat), NEW k \in Nat, InARow(s, k), ~Closed(s)
  PROVE  LET t == Append(s, k + TicksIn(s) + 1)
         IN  InARow(t, k) /\ ~Closed(t) /\ TicksIn(t) = TicksIn(s) + 1
<1> DEFINE f == k + Len(s) + 1
           t == Append(s, f)
<1>1. Len(s) \in Nat /\ f \in Nat /\ f # Close
  BY DEF Close
<1>2. Len(t) = Len(s) + 1 /\ t[Len(t)] = f /\ \A i \in 1 .. Len(s) : t[i] = s[i]
  BY <1>1
<1>3. \A i \in 1 .. Len(s) : s[i] = k + i
  BY <1>1 DEF InARow, Closed
<1> HIDE DEF t
<1>4. InARow(t, k) /\ ~Closed(t)
  BY <1>1, <1>2, <1>3, SMTT(40) DEF InARow, Closed
<1>5. TicksIn(t) = TicksIn(s) + 1 /\ TicksIn(s) = Len(s)
  BY <1>2, <1>4 DEF TicksIn
<1> QED BY <1>4, <1>5 DEF t

\* A close frame ends it.
LEMMA AppendClose ==
  ASSUME NEW s \in Seq(Nat), NEW k \in Nat, InARow(s, k), ~Closed(s)
  PROVE  LET t == Append(s, Close)
         IN  InARow(t, k) /\ Closed(t) /\ TicksIn(t) = TicksIn(s)
<1> DEFINE t == Append(s, Close)
<1>1. Len(s) \in Nat /\ t # <<>>
  BY DEF Close
<1>2. Len(t) = Len(s) + 1 /\ t[Len(t)] = Close /\ \A i \in 1 .. Len(s) : t[i] = s[i]
  BY <1>1 DEF Close
<1>3. \A i \in 1 .. Len(s) : s[i] = k + i
  BY <1>1 DEF InARow, Closed
<1> HIDE DEF t
<1>4. InARow(t, k) /\ Closed(t)
  BY <1>1, <1>2, <1>3, SMTT(40) DEF InARow, Closed
<1>5. TicksIn(t) = TicksIn(s)
  BY <1>1, <1>2, <1>4 DEF TicksIn
<1> QED BY <1>4, <1>5 DEF t

\* Taking a tick takes the next number.
LEMMA TakeTick ==
  ASSUME NEW s \in Seq(Nat), NEW k \in Nat, InARow(s, k), s # <<>>, Head(s) # Close
  PROVE  /\ Head(s) = k + 1 /\ InARow(Tail(s), k + 1)
         /\ Closed(Tail(s)) => Closed(s)
         /\ TicksIn(s) = TicksIn(Tail(s)) + 1 /\ TicksIn(Tail(s)) \in Nat
<1> DEFINE t == Tail(s)
<1>1. Len(s) \in Nat \ {0} /\ Head(s) = s[1] /\ t \in Seq(Nat)
  OBVIOUS
<1>2. Len(t) = Len(s) - 1 /\ \A i \in 1 .. Len(t) : t[i] = s[i + 1]
  BY <1>1
<1>3. s[1] = k + 1
  BY <1>1 DEF InARow
<1>4. Len(t) \in Nat
  BY <1>1, LenProperties
<1> HIDE DEF t
<1>5. InARow(t, k + 1)
  BY <1>1, <1>2, SMTT(40) DEF InARow
<1>6. Closed(t) <=> Closed(s)
  BY <1>1, <1>2, <1>3, <1>4, SMTT(40) DEF Closed, Close
<1>7. TicksIn(s) = TicksIn(t) + 1 /\ TicksIn(t) \in Nat
  BY <1>1, <1>2, <1>4, <1>6 DEF TicksIn, Closed
<1> QED BY <1>1, <1>3, <1>5, <1>6, <1>7 DEF t

\* Nothing follows a close frame.
LEMMA TakeClose ==
  ASSUME NEW s \in Seq(Nat), NEW k \in Nat, InARow(s, k), s # <<>>, Head(s) = Close
  PROVE  Tail(s) = <<>> /\ Closed(s) /\ TicksIn(s) = 0
<1>1. Len(s) \in Nat \ {0} /\ s[1] = Close /\ k + 1 # Close
  BY DEF Close
<1>2. Len(s) = 1
  <2>1. 1 \in 1 .. Len(s)
    BY <1>1
  <2> QED BY <1>1, <2>1 DEF InARow
<1>3. Tail(s) \in Seq(Nat) /\ Len(Tail(s)) = 0
  BY <1>2
<1>4. Tail(s) = <<>>
  BY <1>3, EmptySeq
<1> QED BY <1>1, <1>2, <1>4 DEF Closed, TicksIn

\* An empty line has no tick in it.
LEMMA NoTicks == ~Closed(<<>>) /\ TicksIn(<<>>) = 0 /\ \A k \in Nat : InARow(<<>>, k)
BY DEF Closed, TicksIn, InARow

\* The ticks in a line can be counted.
LEMMA TicksNat == ASSUME NEW s \in Seq(Nat) PROVE TicksIn(s) \in Nat
BY DEF TicksIn, Closed

-----------------------------------------------------------------------------
(* The inductive invariant, connection by connection.                      *)

Closing  == {"onClose", "close", "closed"}
Whole(c) == c \notin cut \cup gone
Held(c)  == IF hpc[c] = "onMessage" THEN 1 ELSE 0

\* Along a connection the ticks stand in a row: those that were read, those on
\* their way back, the one that the handler holds, those on their way to it.
Pipe(c) ==
  LET back == Len(recv[c]) + TicksIn(down[c])
  IN  /\ InARow(down[c], Len(recv[c]))
      /\ hpc[c] = "onMessage" => hmsg[c] = back + 1
      /\ InARow(up[c], back + Held(c))
      /\ back + Held(c) + TicksIn(up[c]) = sent[c]

\* The close frame goes up only from a client that waits, comes back only from a
\* handler that has read it, and finds everything echoed before it.
Handshake(c) ==
  /\ cpc[c] = "dial" => hpc[c] = "none"
  /\ Closed(up[c]) => cpc[c] \in {"wait", "returned"}
  /\ Closed(down[c]) => hpc[c] \in Closing
  /\ hpc[c] \in Closing =>
       cpc[c] = "returned" \/ (cpc[c] = "wait" /\ up[c] = <<>>)
  /\ c \in done => hpc[c] \in Closing /\ Len(recv[c]) = sent[c]
  /\ cpc[c] = "returned" /\ c \notin timedOut =>
       hpc[c] \in Closing /\ Len(recv[c]) = sent[c]

Conn(c) ==
  /\ Len(recv[c]) <= sent[c]
  /\ \A i \in 1 .. Len(recv[c]) : recv[c][i] = i
  /\ c \in cut => down[c] = <<>>
  /\ Whole(c) => Pipe(c) /\ Handshake(c)

EchoInv == TypeOK /\ \A c \in Clients : Conn(c)

\* At the start nothing has been sent.
LEMMA EchoInit == Init => EchoInv
<1> SUFFICES ASSUME Init PROVE EchoInv
  OBVIOUS
<1>1. TypeOK
  <2>1. 0 \in 0 .. MaxTicks /\ Close \in Frames
    BY BoundAssumption DEF Frames, Close
  <2> QED BY <2>1 DEF Init, TypeOK
<1>2. ASSUME NEW c \in Clients PROVE Conn(c)
  <2>1. /\ up[c] = <<>> /\ down[c] = <<>> /\ recv[c] = <<>> /\ sent[c] = 0
        /\ hpc[c] = "none" /\ cpc[c] = "dial" /\ c \notin done /\ c \notin cut
    BY <1>2 DEF Init
  <2>2. Len(recv[c]) = 0
    BY <2>1
  <2>3. Pipe(c)
    BY <2>1, <2>2, NoTicks DEF Pipe, Held
  <2>4. Handshake(c)
    BY <2>1, NoTicks DEF Handshake, Closing
  <2> QED BY <2>1, <2>2, <2>3, <2>4 DEF Conn
<1> QED BY <1>1, <1>2 DEF EchoInv

\* The part of a step that concerns a connection it leaves alone.
Same(d) ==
  /\ hpc'[d] = hpc[d] /\ hmsg'[d] = hmsg[d] /\ up'[d] = up[d] /\ down'[d] = down[d]
  /\ cpc'[d] = cpc[d] /\ sent'[d] = sent[d] /\ recv'[d] = recv[d]
  /\ d \in cut' <=> d \in cut
  /\ d \in gone' <=> d \in gone
  /\ d \in done' <=> d \in done
  /\ d \in timedOut' <=> d \in timedOut

\* What holds of a connection goes on holding as long as nothing happens to it.
LEMMA ConnSame == ASSUME NEW d, Conn(d), Same(d) PROVE Conn(d)'
BY DEF Same, Conn, Whole, Pipe, Held, Handshake

\* The numbers and sequences of a connection.
LEMMA ConnTypes ==
  ASSUME TypeOK, NEW c \in Clients
  PROVE  /\ up[c] \in Seq(Nat) /\ down[c] \in Seq(Nat) /\ recv[c] \in Seq(Nat)
         /\ up[c] \in Seq(Frames) /\ down[c] \in Seq(Frames) /\ recv[c] \in Seq(Ticks)
         /\ hmsg[c] \in Nat /\ sent[c] \in Nat /\ Len(recv[c]) \in Nat
         /\ TicksIn(up[c]) \in Nat /\ TicksIn(down[c]) \in Nat
<1>1. Frames \subseteq Nat /\ Ticks \subseteq Nat
  BY BoundAssumption DEF Frames, Ticks, Close
<1>2. up[c] \in Seq(Frames) /\ down[c] \in Seq(Frames) /\ recv[c] \in Seq(Ticks)
  BY DEF TypeOK
<1>3. up[c] \in Seq(Nat) /\ down[c] \in Seq(Nat) /\ recv[c] \in Seq(Nat)
  BY <1>1, <1>2, SeqMonotonic
<1>4. hmsg[c] \in Nat /\ sent[c] \in Nat
  <2>1. hmsg \in [Clients -> Frames] /\ sent \in [Clients -> 0 .. MaxTicks]
    BY DEF TypeOK
  <2>2. hmsg[c] \in Frames /\ sent[c] \in 0 .. MaxTicks
    BY <2>1
  <2>3. 0 .. MaxTicks \subseteq Nat
    BY BoundAssumption
  <2> QED BY <2>2, <2>3, <1>1
<1>5. Len(recv[c]) \in Nat
  BY <1>3
<1> QED BY <1>2, <1>3, <1>4, <1>5, TicksNat

-----------------------------------------------------------------------------
(* The types: a frame is appended to a direction or taken from it.         *)

\* A write to a client that is cut off or gone is lost; any other joins its line.
LEMMA WriteType ==
  ASSUME NEW f \in [Clients -> Seq(Frames)], NEW g, NEW c \in Clients, NEW m \in Frames,
         g = IF c \in cut \cup gone THEN f ELSE [f EXCEPT ![c] = Append(@, m)]
  PROVE  /\ g \in [Clients -> Seq(Frames)]
         /\ g[c] = (IF Whole(c) THEN Append(f[c], m) ELSE f[c])
         /\ \A d \in Clients \ {c} : g[d] = f[d]
<1>1. Append(f[c], m) \in Seq(Frames)
  OBVIOUS
<1> QED BY <1>1 DEF Whole

\* A read takes the first frame of one line.
LEMMA TakeType ==
  ASSUME NEW f \in [Clients -> Seq(Frames)], NEW g, NEW c \in Clients, f[c] # <<>>,
         g = [f EXCEPT ![c] = Tail(@)]
  PROVE  /\ g \in [Clients -> Seq(Frames)]
         /\ g[c] = Tail(f[c]) /\ Head(f[c]) \in Frames
         /\ \A d \in Clients \ {c} : g[d] = f[d]
<1>1. Tail(f[c]) \in Seq(Frames) /\ Head(f[c]) \in Frames
  OBVIOUS
<1> QED BY <1>1

\* The connections that a step leaves alone keep the invariant.
LEMMA OneConn ==
  ASSUME EchoInv, NEW c \in Clients, TypeOK', Conn(c)',
         \A d \in Clients \ {c} : Same(d)
  PROVE  EchoInv'
BY ConnSame DEF EchoInv

-----------------------------------------------------------------------------
(* The handler.                                                            *)

\* The handler registers, unregisters or closes: nothing moves.
LEMMA HandlerQuiet ==
  ASSUME EchoInv, NEW c \in Clients,
         OnConnect(c) \/ ServerReadError(c) \/ OnClose(c) \/ ServerClose(c)
  PROVE  EchoInv'
<1>1. /\ UNCHANGED <<hmsg, netVars, clientVars>>
      /\ clients' \in {clients, clients \cup {c}, clients \ {c}}
  BY DEF OnConnect, ServerReadError, OnClose, ServerClose
<1>2. PICK l \in {"read", "onClose", "close", "closed"} :
        /\ hpc' = [hpc EXCEPT ![c] = l]
        /\ l = "read" => hpc[c] = "onConnect"
        /\ l = "onClose" => hpc[c] = "read" /\ (~Whole(c) \/ cpc[c] = "returned")
        /\ l \in {"close", "closed"} => hpc[c] \in Closing
        /\ hpc[c] \notin {"none", "onMessage"}
  BY DEF OnConnect, ServerReadError, OnClose, ServerClose, Handler, ClientClosed, Whole, Closing
<1>3. TypeOK'
  BY <1>1, <1>2 DEF EchoInv, TypeOK, netVars, clientVars
<1>4. \A d \in Clients \ {c} : Same(d)
  BY <1>1, <1>2 DEF EchoInv, TypeOK, Same, netVars, clientVars
<1>5. Conn(c)'
  <2>1. Conn(c) /\ hpc'[c] = l /\ l # "onMessage" /\ l # "none"
    BY <1>2 DEF EchoInv, TypeOK
  <2>2. ASSUME Whole(c) PROVE Pipe(c)'
    BY <1>1, <1>2, <2>1, <2>2 DEF Conn, Pipe, Held, netVars, clientVars
  <2>3. ASSUME Whole(c) PROVE Handshake(c)'
    BY <1>1, <1>2, <2>1, <2>3 DEF Conn, Handshake, Closing, netVars, clientVars
  <2> QED BY <1>1, <2>1, <2>2, <2>3 DEF Conn, Whole, netVars, clientVars
<1> QED BY <1>3, <1>4, <1>5, OneConn

\* The handler's loop reads a frame.
LEMMA HandlerRead ==
  ASSUME EchoInv, NEW c \in Clients, ServerRead(c)
  PROVE  EchoInv'
<1>1. /\ hpc[c] = "read" /\ up[c] # <<>> /\ Head(up[c]) # Close
      /\ up' = [up EXCEPT ![c] = Tail(@)]
      /\ hmsg' = [hmsg EXCEPT ![c] = Head(up[c])]
      /\ hpc' = [hpc EXCEPT ![c] = "onMessage"]
      /\ UNCHANGED <<clients, down, cut, gone, clientVars>>
  BY DEF ServerRead, Handler
<1>2. /\ up' \in [Clients -> Seq(Frames)] /\ up'[c] = Tail(up[c]) /\ Head(up[c]) \in Frames
      /\ \A d \in Clients \ {c} : up'[d] = up[d]
  BY <1>1, TakeType DEF EchoInv, TypeOK
<1>3. TypeOK'
  BY <1>1, <1>2 DEF EchoInv, TypeOK, clientVars
<1>4. \A d \in Clients \ {c} : Same(d)
  BY <1>1, <1>2 DEF EchoInv, TypeOK, Same, clientVars
<1>5. Conn(c)'
  <2>1. Conn(c) /\ hpc'[c] = "onMessage" /\ hmsg'[c] = Head(up[c])
    BY <1>1 DEF EchoInv, TypeOK
  <2> DEFINE back == Len(recv[c]) + TicksIn(down[c])
  <2>2. ASSUME Whole(c) PROVE Pipe(c)' /\ Handshake(c)'
    <3>nums. /\ Len(recv[c]) \in Nat /\ TicksIn(down[c]) \in Nat /\ TicksIn(up[c]) \in Nat
          /\ up[c] \in Seq(Nat) /\ sent[c] \in Nat
      BY ConnTypes DEF EchoInv
    <3>pipe. Pipe(c) /\ Held(c) = 0
      BY <1>1, <2>1, <2>2 DEF Conn, Held
    <3>1. back \in Nat /\ up[c] \in Seq(Nat) /\ InARow(up[c], back)
          /\ back + TicksIn(up[c]) = sent[c] /\ TicksIn(up[c]) \in Nat
      <4>1. back \in Nat /\ back + 0 = back
        BY <3>nums
      <4>2. InARow(up[c], back + 0) /\ back + 0 + TicksIn(up[c]) = sent[c]
        BY <3>pipe DEF Pipe
      <4> QED BY <3>nums, <4>1, <4>2
    <3> HIDE DEF back
    <3>2. /\ Head(up[c]) = back + 1 /\ InARow(Tail(up[c]), back + 1)
          /\ Closed(Tail(up[c])) => Closed(up[c])
          /\ TicksIn(up[c]) = TicksIn(Tail(up[c])) + 1 /\ TicksIn(Tail(up[c])) \in Nat
      BY <1>1, <3>1, TakeTick
    <3>3. back + 1 + TicksIn(Tail(up[c])) = sent[c]
      BY <3>1, <3>2
    <3>4. Pipe(c)'
      BY <1>1, <1>2, <2>1, <2>2, <3>2, <3>3 DEF Conn, Pipe, Held, back, clientVars
    <3>5. Handshake(c)'
      BY <1>1, <1>2, <2>1, <2>2, <3>2 DEF Conn, Handshake, Closing, clientVars
    <3> QED BY <3>4, <3>5
  <2> QED BY <1>1, <2>1, <2>2 DEF Conn, Whole, clientVars
<1> QED BY <1>3, <1>4, <1>5, OneConn

\* The handler's loop reads a close frame.
LEMMA HandlerReadClose ==
  ASSUME EchoInv, NEW c \in Clients, ServerReadClose(c)
  PROVE  EchoInv'
<1>1. /\ hpc[c] = "read" /\ up[c] # <<>> /\ Head(up[c]) = Close
      /\ up' = [up EXCEPT ![c] = Tail(@)]
      /\ hpc' = [hpc EXCEPT ![c] = "onClose"]
      /\ UNCHANGED <<clients, hmsg, cut, gone, clientVars>>
  BY DEF ServerReadClose, Handler
<1>2. /\ up' \in [Clients -> Seq(Frames)] /\ up'[c] = Tail(up[c])
      /\ \A d \in Clients \ {c} : up'[d] = up[d]
  BY <1>1, TakeType DEF EchoInv, TypeOK
<1>3. /\ down' \in [Clients -> Seq(Frames)]
      /\ down'[c] = (IF Whole(c) THEN Append(down[c], Close) ELSE down[c])
      /\ \A d \in Clients \ {c} : down'[d] = down[d]
  <2>1. Close \in Frames /\ down \in [Clients -> Seq(Frames)]
    BY DEF Frames, EchoInv, TypeOK
  <2>2. down' = IF c \in cut \cup gone THEN down ELSE [down EXCEPT ![c] = Append(@, Close)]
    BY DEF ServerReadClose, Write
  <2> QED BY <2>1, <2>2, WriteType
<1>4. TypeOK'
  BY <1>1, <1>2, <1>3 DEF EchoInv, TypeOK, clientVars
<1>5. \A d \in Clients \ {c} : Same(d)
  BY <1>1, <1>2, <1>3 DEF EchoInv, TypeOK, Same, clientVars
<1>6. Conn(c)'
  <2>1. Conn(c) /\ hpc'[c] = "onClose"
    BY <1>1 DEF EchoInv, TypeOK
  <2>2. ASSUME Whole(c) PROVE Pipe(c)' /\ Handshake(c)'
    <3> DEFINE back == Len(recv[c]) + TicksIn(down[c])
    <3>1. /\ back \in Nat /\ up[c] \in Seq(Nat) /\ InARow(up[c], back)
          /\ down[c] \in Seq(Nat) /\ InARow(down[c], Len(recv[c])) /\ Len(recv[c]) \in Nat
          /\ back + TicksIn(up[c]) = sent[c]
      BY <1>1, <2>1, <2>2, ConnTypes DEF EchoInv, Conn, Pipe, Held
    <3>2. Tail(up[c]) = <<>> /\ Closed(up[c]) /\ TicksIn(up[c]) = 0
      BY <1>1, <3>1, TakeClose
    <3>3. ~Closed(down[c]) /\ cpc[c] \in {"wait", "returned"}
      BY <1>1, <2>1, <2>2, <3>2 DEF Conn, Handshake, Closing
    <3>4. InARow(down'[c], Len(recv[c])) /\ TicksIn(down'[c]) = TicksIn(down[c])
      BY <1>3, <2>2, <3>1, <3>3, AppendClose
    <3>5. Pipe(c)'
      <4>1. up'[c] = <<>> /\ InARow(up'[c], back + 0) /\ back + 0 + TicksIn(up'[c]) = sent[c]
        <5>1. up'[c] = <<>> /\ TicksIn(up'[c]) = 0 /\ TicksIn(up[c]) = 0
          BY <1>2, <3>2, NoTicks
        <5>2. back + 0 = back /\ sent[c] = back
          BY <3>1, <5>1
        <5> QED BY <3>1, <5>1, <5>2, NoTicks
      <4> QED BY <1>1, <2>1, <3>1, <3>4, <4>1 DEF Pipe, Held, clientVars
    <3>6. Handshake(c)'
      BY <1>1, <1>2, <2>1, <2>2, <3>2, <3>3, NoTicks DEF Conn, Handshake, Closing, clientVars
    <3> QED BY <3>5, <3>6
  <2> QED BY <1>1, <1>3, <2>1, <2>2 DEF Conn, Whole, clientVars
<1> QED BY <1>4, <1>5, <1>6, OneConn

\* The handler echoes what it has read.
LEMMA HandlerEcho ==
  ASSUME EchoInv, NEW c \in Clients, OnMessage(c)
  PROVE  EchoInv'
<1>1. /\ hpc[c] = "onMessage" /\ hpc' = [hpc EXCEPT ![c] = "read"]
      /\ UNCHANGED <<clients, hmsg, up, cut, gone, clientVars>>
  BY DEF OnMessage, Handler
<1>2. /\ down' \in [Clients -> Seq(Frames)]
      /\ down'[c] = (IF Whole(c) THEN Append(down[c], hmsg[c]) ELSE down[c])
      /\ \A d \in Clients \ {c} : down'[d] = down[d]
  <2> DEFINE m == hmsg[c]
  <2>1. m \in Frames /\ down \in [Clients -> Seq(Frames)]
    BY DEF EchoInv, TypeOK
  <2>2. down' = IF c \in cut \cup gone THEN down ELSE [down EXCEPT ![c] = Append(@, m)]
    BY DEF OnMessage, Write
  <2> HIDE DEF m
  <2>3. /\ down' \in [Clients -> Seq(Frames)]
        /\ down'[c] = (IF Whole(c) THEN Append(down[c], m) ELSE down[c])
        /\ \A d \in Clients \ {c} : down'[d] = down[d]
    BY <2>1, <2>2, WriteType
  <2> QED BY <2>3 DEF m
<1>3. TypeOK'
  BY <1>1, <1>2 DEF EchoInv, TypeOK, clientVars
<1>4. \A d \in Clients \ {c} : Same(d)
  BY <1>1, <1>2 DEF EchoInv, TypeOK, Same, clientVars
<1>5. Conn(c)'
  <2>1. Conn(c) /\ hpc'[c] = "read"
    BY <1>1 DEF EchoInv, TypeOK
  <2>2. ASSUME Whole(c) PROVE Pipe(c)' /\ Handshake(c)'
    <3> DEFINE n == Len(recv[c])
    <3>1. /\ n \in Nat /\ down[c] \in Seq(Nat) /\ InARow(down[c], n)
          /\ TicksIn(down[c]) \in Nat /\ hmsg[c] = n + TicksIn(down[c]) + 1
          /\ InARow(up[c], n + TicksIn(down[c]) + 1)
          /\ n + TicksIn(down[c]) + 1 + TicksIn(up[c]) = sent[c]
          /\ TicksIn(up[c]) \in Nat
      BY <1>1, <2>1, <2>2, ConnTypes DEF EchoInv, Conn, Pipe, Held
    <3>2. ~Closed(down[c])
      BY <1>1, <2>1, <2>2 DEF Conn, Handshake, Closing
    <3> HIDE DEF n
    <3>3. /\ InARow(down'[c], n) /\ ~Closed(down'[c])
          /\ TicksIn(down'[c]) = TicksIn(down[c]) + 1
      BY <1>2, <2>2, <3>1, <3>2, AppendTick
    <3>4. n + TicksIn(down'[c]) = n + TicksIn(down[c]) + 1
      BY <3>1, <3>3
    <3>5. Pipe(c)'
      <4>1. InARow(up[c], n + TicksIn(down'[c]) + 0)
            /\ n + TicksIn(down'[c]) + 0 + TicksIn(up[c]) = sent[c]
        BY <3>1, <3>3, <3>4
      <4> QED BY <1>1, <2>1, <3>3, <4>1 DEF Pipe, Held, n, clientVars
    <3>6. Handshake(c)'
      BY <1>1, <2>1, <2>2, <3>3 DEF Conn, Handshake, Closing, clientVars
    <3> QED BY <3>5, <3>6
  <2> QED BY <1>1, <1>2, <2>1, <2>2 DEF Conn, Whole, clientVars
<1> QED BY <1>3, <1>4, <1>5, OneConn

-----------------------------------------------------------------------------
(* The client.                                                             *)

\* Dialing, returning, and a reader that meets an error: no frame moves.
LEMMA ClientQuiet ==
  ASSUME EchoInv, NEW c \in Clients, Dial(c) \/ Return(c) \/ ReadError(c)
  PROVE  EchoInv'
<1>1. /\ UNCHANGED <<clients, hmsg, netVars, sent, recv>>
      /\ c \notin gone
      /\ \/ /\ cpc[c] = "dial" /\ cpc' = [cpc EXCEPT ![c] = "select"]
            /\ hpc' = [hpc EXCEPT ![c] = "onConnect"]
            /\ UNCHANGED <<done, timedOut>>
         \/ /\ cpc' = [cpc EXCEPT ![c] = "returned"] /\ UNCHANGED <<hpc, done>>
            /\ \/ cpc[c] = "select" /\ (c \in cut \/ hpc[c] = "closed") /\ UNCHANGED timedOut
               \/ cpc[c] \in {"select", "wait"} /\ c \in done /\ UNCHANGED timedOut
               \/ cpc[c] = "wait" /\ timedOut' = timedOut \cup {c}
         \/ /\ done' = done \cup {c} /\ UNCHANGED <<cpc, hpc, timedOut>>
            /\ cpc[c] \in {"select", "wait"}
            /\ c \in cut \/ (hpc[c] = "closed" /\ down[c] = <<>>)
  BY DEF Dial, Return, ReturnDone, ReturnTimeout, WriteFails, ReadError, Running, Client,
     Handler, ServerClosed, serverVars
<1>2. TypeOK'
  BY <1>1 DEF EchoInv, TypeOK, netVars
<1>3. \A d \in Clients \ {c} : Same(d)
  BY <1>1 DEF EchoInv, TypeOK, Same, netVars
<1>4. Conn(c)'
  <2>1. Conn(c)
    BY DEF EchoInv
  <2>2. ASSUME Whole(c) PROVE Pipe(c)'
    <3>1. (hpc[c] # "onMessage" /\ hpc'[c] # "onMessage") \/ hpc'[c] = hpc[c]
      BY <1>1, <2>1, <2>2 DEF Conn, Handshake, EchoInv, TypeOK
    <3> QED BY <1>1, <2>1, <2>2, <3>1 DEF Conn, Pipe, Held, netVars
  <2>3. ASSUME Whole(c) PROVE Handshake(c)'
    <3>1. Pipe(c) /\ Handshake(c) /\ c \notin cut
      BY <2>1, <2>3 DEF Conn, Whole
    <3>2. hpc[c] \in Closing /\ up[c] = <<>> /\ down[c] = <<>> => Len(recv[c]) = sent[c]
      <4>1. Len(recv[c]) \in Nat
        BY ConnTypes DEF EchoInv
      <4> QED BY <3>1, <4>1, NoTicks DEF Pipe, Held, Closing
    <3>3. CASE cpc[c] = "dial"
      BY <1>1, <3>1, <3>3 DEF Handshake, Closing, EchoInv, TypeOK, netVars
    <3>4. CASE cpc[c] # "dial" /\ UNCHANGED done
      BY <1>1, <3>1, <3>4 DEF Handshake, Closing, EchoInv, TypeOK, netVars
    <3>5. CASE cpc[c] # "dial" /\ done' # done
      BY <1>1, <3>1, <3>2, <3>5 DEF Handshake, Closing, EchoInv, TypeOK, netVars
    <3> QED BY <3>3, <3>4, <3>5
  <2> QED BY <1>1, <2>1, <2>2, <2>3 DEF Conn, Whole, netVars
<1> QED BY <1>2, <1>3, <1>4, OneConn

\* A tick or the close frame goes up, from a client in its select loop.
LEMMA ClientSends ==
  ASSUME EchoInv, NEW c \in Clients, Tick(c) \/ Interrupt(c)
  PROVE  EchoInv'
<1> DEFINE m == IF Tick(c) THEN sent[c] + 1 ELSE Close
<1>1. /\ cpc[c] = "select" /\ Whole(c)
      /\ UNCHANGED <<serverVars, down, cut, gone, done, recv, timedOut>>
      /\ IF Tick(c)
           THEN cpc' = cpc /\ sent' = [sent EXCEPT ![c] = @ + 1] /\ sent[c] < MaxTicks
           ELSE cpc' = [cpc EXCEPT ![c] = "wait"] /\ sent' = sent
  BY DEF Tick, Interrupt, Running, Client, Whole
<1>2. sent[c] \in Nat /\ m \in Frames
  BY <1>1, ConnTypes, BoundAssumption DEF EchoInv, Frames, Ticks, Close
<1>3. up' = IF c \in cut \cup gone THEN up ELSE [up EXCEPT ![c] = Append(@, m)]
  BY <1>1, <1>2 DEF Tick, Interrupt, Write, EchoInv, TypeOK
<1> HIDE DEF m
<1>4. /\ up' \in [Clients -> Seq(Frames)] /\ up'[c] = Append(up[c], m)
      /\ \A d \in Clients \ {c} : up'[d] = up[d]
  <2>1. up \in [Clients -> Seq(Frames)]
    BY DEF EchoInv, TypeOK
  <2>2. /\ up' \in [Clients -> Seq(Frames)]
        /\ up'[c] = (IF Whole(c) THEN Append(up[c], m) ELSE up[c])
        /\ \A d \in Clients \ {c} : up'[d] = up[d]
    BY <1>2, <1>3, <2>1, WriteType, SMTT(40)
  <2> QED BY <1>1, <2>2
<1>5. TypeOK'
  <2>1. sent' \in [Clients -> 0 .. MaxTicks]
    <3>1. sent \in [Clients -> 0 .. MaxTicks]
      BY DEF EchoInv, TypeOK
    <3>2. Tick(c) => sent[c] + 1 \in 0 .. MaxTicks
      BY <1>1, <1>2, BoundAssumption
    <3> QED BY <1>1, <3>1, <3>2
  <2> QED BY <1>1, <1>4, <2>1 DEF EchoInv, TypeOK, serverVars
<1>6. \A d \in Clients \ {c} : Same(d)
  BY <1>1, <1>4 DEF EchoInv, TypeOK, Same, serverVars
<1>7. Conn(c)'
  <2> DEFINE back == Len(recv[c]) + TicksIn(down[c]) + Held(c)
  <2>1. Conn(c) /\ Pipe(c) /\ Handshake(c)
    BY <1>1 DEF EchoInv, Conn
  <2>2. /\ back \in Nat /\ up[c] \in Seq(Nat) /\ InARow(up[c], back)
        /\ back + TicksIn(up[c]) = sent[c] /\ ~Closed(up[c])
        /\ TicksIn(up[c]) \in Nat
        /\ hpc[c] \notin Closing /\ c \notin done
    BY <1>1, <2>1, ConnTypes, SMTT(40) DEF EchoInv, Pipe, Held, Handshake
  <2>3. Pipe(c)' /\ Handshake(c)' /\ Len(recv[c]) <= sent'[c]
    <3>1. CASE Tick(c)
      <4>1. m = back + TicksIn(up[c]) + 1 /\ sent'[c] = sent[c] + 1 /\ cpc'[c] = "select"
        BY <1>1, <1>2, <2>2, <3>1 DEF m, EchoInv, TypeOK
      <4> HIDE DEF back
      <4>2. /\ InARow(up'[c], back) /\ ~Closed(up'[c])
            /\ TicksIn(up'[c]) = TicksIn(up[c]) + 1
        BY <1>4, <2>2, <4>1, AppendTick
      <4>3. back + TicksIn(up'[c]) = sent'[c]
        BY <2>2, <4>1, <4>2
      <4>4. Len(recv[c]) <= sent'[c]
        BY <1>2, <2>1, <4>1, ConnTypes DEF Conn, EchoInv
      <4>5. Pipe(c)'
        BY <1>1, <2>1, <4>2, <4>3 DEF Pipe, Held, back, serverVars
      <4>6. Handshake(c)'
        BY <1>1, <2>1, <2>2, <4>1, <4>2 DEF Handshake, Closing, serverVars
      <4> QED BY <4>4, <4>5, <4>6
    <3>2. CASE ~Tick(c)
      <4>1. m = Close /\ sent'[c] = sent[c] /\ cpc'[c] = "wait"
        BY <1>1, <3>2 DEF m, EchoInv, TypeOK
      <4> HIDE DEF back
      <4>2. /\ InARow(up'[c], back) /\ Closed(up'[c])
            /\ TicksIn(up'[c]) = TicksIn(up[c])
        BY <1>4, <2>2, <4>1, AppendClose
      <4>3. Pipe(c)'
        BY <1>1, <2>1, <2>2, <4>1, <4>2 DEF Pipe, Held, back, serverVars
      <4>4. Handshake(c)'
        BY <1>1, <2>1, <2>2, <4>1 DEF Handshake, Closing, serverVars
      <4> QED BY <2>1, <4>1, <4>3, <4>4 DEF Conn
    <3> QED BY <3>1, <3>2
  <2> QED BY <1>1, <2>1, <2>3 DEF Conn, Whole, serverVars
<1> QED BY <1>5, <1>6, <1>7, OneConn

\* The client reads what has come back.
LEMMA ClientReads ==
  ASSUME EchoInv, NEW c \in Clients, Read(c)
  PROVE  EchoInv'
<1>1. /\ c \notin gone /\ cpc[c] \in {"select", "wait"} /\ down[c] # <<>>
      /\ down' = [down EXCEPT ![c] = Tail(@)]
      /\ UNCHANGED <<serverVars, up, cut, gone, cpc, sent, timedOut>>
      /\ IF Head(down[c]) = Close
           THEN done' = done \cup {c} /\ UNCHANGED recv
           ELSE recv' = [recv EXCEPT ![c] = Append(@, Head(down[c]))] /\ UNCHANGED done
  BY DEF Read, Running
<1>2. Conn(c) /\ Whole(c)
  BY <1>1 DEF EchoInv, Conn, Whole
<1>3. Pipe(c) /\ Handshake(c)
  BY <1>2 DEF Conn
<1>4. /\ down' \in [Clients -> Seq(Frames)] /\ down'[c] = Tail(down[c])
      /\ Head(down[c]) \in Frames
      /\ \A d \in Clients \ {c} : down'[d] = down[d]
  BY <1>1, TakeType DEF EchoInv, TypeOK
<1> DEFINE n == Len(recv[c])
<1>5. /\ n \in Nat /\ down[c] \in Seq(Nat) /\ InARow(down[c], n) /\ sent[c] \in Nat
      /\ TicksIn(up[c]) \in Nat /\ TicksIn(down[c]) \in Nat /\ Held(c) \in {0, 1}
      /\ n + TicksIn(down[c]) + Held(c) + TicksIn(up[c]) = sent[c]
      /\ recv[c] \in Seq(Nat) /\ recv[c] \in Seq(Ticks)
  BY <1>3, ConnTypes DEF EchoInv, Pipe, Held
<1>6. recv' \in [Clients -> Seq(Ticks)] /\ \A d \in Clients \ {c} : recv'[d] = recv[d]
  <2>1. CASE Head(down[c]) = Close
    BY <1>1, <2>1 DEF EchoInv, TypeOK
  <2>2. CASE Head(down[c]) # Close
    <3>1. Append(recv[c], Head(down[c])) \in Seq(Ticks)
      BY <1>4, <1>5, <2>2 DEF Frames
    <3> QED BY <1>1, <2>2, <3>1 DEF EchoInv, TypeOK
  <2> QED BY <2>1, <2>2
<1>7. TypeOK'
  BY <1>1, <1>4, <1>6 DEF EchoInv, TypeOK, serverVars
<1>8. \A d \in Clients \ {c} : Same(d)
  BY <1>1, <1>4, <1>6 DEF EchoInv, TypeOK, Same, serverVars
<1>9. Conn(c)'
  <2>1. CASE Head(down[c]) = Close
    <3>1. Tail(down[c]) = <<>> /\ Closed(down[c]) /\ TicksIn(down[c]) = 0
      BY <1>1, <1>5, <2>1, TakeClose
    <3>2. hpc[c] \in Closing /\ cpc[c] = "wait" /\ up[c] = <<>> /\ Held(c) = 0
      BY <1>1, <1>3, <3>1 DEF Handshake, Held, Closing
    <3>3. n = sent[c]
      BY <1>5, <3>1, <3>2, NoTicks
    <3>4. TicksIn(down'[c]) = TicksIn(down[c]) /\ InARow(down'[c], n) /\ ~Closed(down'[c])
          /\ down'[c] = <<>>
      BY <1>4, <1>5, <3>1, NoTicks
    <3>5. Pipe(c)' /\ Handshake(c)'
      BY <1>1, <1>3, <2>1, <3>2, <3>3, <3>4 DEF Pipe, Held, Handshake, serverVars
    <3> QED BY <1>1, <1>2, <2>1, <3>4, <3>5 DEF Conn
  <2>2. CASE Head(down[c]) # Close
    <3>1. /\ Head(down[c]) = n + 1 /\ InARow(Tail(down[c]), n + 1)
          /\ Closed(Tail(down[c])) => Closed(down[c])
          /\ TicksIn(down[c]) = TicksIn(Tail(down[c])) + 1
          /\ TicksIn(Tail(down[c])) \in Nat
      BY <1>1, <1>5, <2>2, TakeTick
    <3>2. recv'[c] = Append(recv[c], n + 1)
      BY <1>1, <2>2, <3>1 DEF EchoInv, TypeOK
    <3>3. Len(recv'[c]) = n + 1 /\ \A i \in 1 .. n + 1 : recv'[c][i] = i
      BY <1>2, <1>5, <3>2 DEF Conn
    <3>4. n + TicksIn(down[c]) = n + 1 + TicksIn(down'[c]) /\ n + 1 <= sent[c]
      <4>1. TicksIn(down'[c]) \in Nat /\ TicksIn(down[c]) = TicksIn(down'[c]) + 1
        BY <1>4, <3>1
      <4> HIDE DEF n
      <4> QED BY <1>5, <4>1
    <3>5. c \notin done
      BY DEF Read
    <3>6. Pipe(c)'
      BY <1>1, <1>3, <1>4, <3>1, <3>3, <3>4 DEF Pipe, Held, serverVars
    <3>7. Handshake(c)'
      BY <1>1, <1>3, <1>4, <2>2, <3>1, <3>5 DEF Handshake, serverVars
    <3>8. c \notin cut
      BY <1>2 DEF Whole
    <3> QED BY <1>1, <3>3, <3>4, <3>6, <3>7, <3>8 DEF Conn
  <2> QED BY <2>1, <2>2
<1> QED BY <1>7, <1>8, <1>9, OneConn

\* A broken connection and a vanished host take the connection out of Whole.
LEMMA NetworkFails ==
  ASSUME EchoInv, NEW c \in Clients, Break(c) \/ Vanish(c)
  PROVE  EchoInv'
<1>1. /\ UNCHANGED <<serverVars, clientVars>>
      /\ up' \in {up, [up EXCEPT ![c] = <<>>]} /\ down' \in {down, [down EXCEPT ![c] = <<>>]}
      /\ \/ cut' = cut \cup {c} /\ gone' = gone /\ down' = [down EXCEPT ![c] = <<>>]
         \/ gone' = gone \cup {c} /\ cut' = cut /\ c \notin cut
  BY DEF Break, Vanish
<1>2. TypeOK'
  <2>1. <<>> \in Seq(Frames)
    OBVIOUS
  <2>2. up \in [Clients -> Seq(Frames)] /\ down \in [Clients -> Seq(Frames)]
    BY DEF EchoInv, TypeOK
  <2>3. [up EXCEPT ![c] = <<>>] \in [Clients -> Seq(Frames)]
    BY <2>1, <2>2
  <2>4. [down EXCEPT ![c] = <<>>] \in [Clients -> Seq(Frames)]
    BY <2>1, <2>2
  <2>5. up' \in [Clients -> Seq(Frames)]
    BY <1>1, <2>2, <2>3
  <2>6. down' \in [Clients -> Seq(Frames)]
    BY <1>1, <2>2, <2>4
  <2>7. cut' \subseteq Clients /\ gone' \subseteq Clients
    BY <1>1 DEF EchoInv, TypeOK
  <2> QED BY <1>1, <2>5, <2>6, <2>7 DEF EchoInv, TypeOK, serverVars, clientVars
<1>3. \A d \in Clients \ {c} : Same(d)
  BY <1>1 DEF EchoInv, TypeOK, Same, serverVars, clientVars
<1>4. Conn(c)'
  BY <1>1 DEF EchoInv, TypeOK, Conn, Whole, clientVars
<1> QED BY <1>2, <1>3, <1>4, OneConn

-----------------------------------------------------------------------------

\* Every step keeps the invariant.
LEMMA EchoNext == EchoInv /\ [Next]_vars => EchoInv'
<1> SUFFICES ASSUME EchoInv, [Next]_vars PROVE EchoInv'
  OBVIOUS
<1>1. ASSUME NEW c \in Clients, WsHandler(c) PROVE EchoInv'
  BY <1>1, HandlerQuiet, HandlerRead, HandlerReadClose, HandlerEcho DEF WsHandler
<1>2. ASSUME NEW c \in Clients,
             Dial(c) \/ Tick(c) \/ Interrupt(c) \/ Return(c) \/ Reader(c) \/ Break(c) \/ Vanish(c)
      PROVE  EchoInv'
  BY <1>2, ClientQuiet, ClientSends, ClientReads, NetworkFails DEF Reader
<1>3. CASE UNCHANGED vars
  <2>1. TypeOK'
    BY <1>3 DEF EchoInv, TypeOK, vars, serverVars, netVars, clientVars
  <2>2. \A d \in Clients : Same(d)
    BY <1>3 DEF Same, vars, serverVars, netVars, clientVars
  <2> QED BY <2>1, <2>2, ConnSame DEF EchoInv
<1> QED BY <1>1, <1>2, <1>3 DEF Next

\* handler.go:24-43 and client.go:63-106: along every connection the ticks and
\* the close frame stand as EchoInv says.
THEOREM EchoInvariant == Spec => []EchoInv
BY EchoInit, EchoNext, PTL DEF Spec

\* Every variable of handlers, connections and clients keeps its type.
THEOREM TypeCorrect == Spec => []TypeOK
BY EchoInvariant, PTL DEF EchoInv

\* handler.go:35-42 and client.go:67-74: whatever breaks and closes, what a
\* client has read are the ticks that it sent first, in order.
THEOREM EchoInOrderHolds == Spec => []EchoInOrder
<1>1. EchoInv => EchoInOrder
  <2>1. ASSUME EchoInv, NEW c \in Clients PROVE DOMAIN recv[c] = 1 .. Len(recv[c])
    <3>1. recv[c] \in Seq(Ticks)
      BY <2>1 DEF EchoInv, TypeOK
    <3> QED BY <3>1, LenProperties
  <2> QED BY <2>1 DEF EchoInv, Conn, EchoInOrder
<1> QED BY <1>1, EchoInvariant, PTL

\* client.go:93-94: a client that closes, is not cut off and does not time out
\* has read the echo of every tick, and the server is done with it.
THEOREM CleanCloseHolds == Spec => []CleanClose
<1>1. EchoInv => CleanClose
  BY DEF EchoInv, Conn, Whole, Handshake, Closing, CleanClose
<1> QED BY <1>1, EchoInvariant, PTL

=============================================================================
