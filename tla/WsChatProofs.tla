---------------------------- MODULE WsChatProofs ----------------------------
(***************************************************************************)
(* The conversation of WsChat, for any clients and any number of messages. *)
(***************************************************************************)
EXTENDS WsChat, SequenceTheorems, TLAPS

\* s is the stretch of t that begins after position k.
Stretch(s, t, k) == k + Len(s) <= Len(t) /\ \A i \in 1 .. Len(s) : s[i] = t[k + i]

\* A stretch of a list is one of the longer list.
LEMMA StretchLonger ==
  ASSUME NEW S, NEW s \in Seq(S), NEW t \in Seq(S), NEW m \in S, NEW k \in Nat, Stretch(s, t, k)
  PROVE  Stretch(s, Append(t, m), k)
<1> DEFINE u == Append(t, m)
<1>1. Len(u) = Len(t) + 1 /\ \A i \in 1 .. Len(t) : u[i] = t[i]
  BY AppendProperties
<1>2. Len(s) \in Nat /\ Len(t) \in Nat
  OBVIOUS
<1> HIDE DEF u
<1>3. \A i \in 1 .. Len(s) : k + i \in 1 .. Len(t)
  BY <1>2 DEF Stretch
<1>4. Stretch(s, u, k)
  BY <1>1, <1>2, <1>3 DEF Stretch
<1> QED BY <1>4 DEF u

\* A stretch goes on with the next message of the list.
LEMMA StretchNext ==
  ASSUME NEW S, NEW s \in Seq(S), NEW t \in Seq(S), NEW m \in S, NEW k \in Nat, Stretch(s, t, k),
         k + Len(s) < Len(t), t[k + Len(s) + 1] = m
  PROVE  Stretch(Append(s, m), t, k)
<1> DEFINE u == Append(s, m)
<1>1. Len(u) = Len(s) + 1 /\ u[Len(s) + 1] = m /\ \A i \in 1 .. Len(s) : u[i] = s[i]
  BY AppendProperties
<1>2. Len(s) \in Nat /\ Len(t) \in Nat
  OBVIOUS
<1> HIDE DEF u
<1>3. ASSUME NEW i \in 1 .. Len(u) PROVE u[i] = t[k + i]
  <2>1. CASE i \in 1 .. Len(s)
    BY <1>1, <2>1 DEF Stretch
  <2>2. CASE i = Len(s) + 1
    BY <1>1, <1>2, <2>2
  <2> QED BY <1>1, <1>2, <2>1, <2>2
<1>4. Stretch(u, t, k)
  BY <1>1, <1>2, <1>3 DEF Stretch
<1> QED BY <1>4 DEF u

\* Taking its first message leaves a stretch that begins one later.
LEMMA StretchTail ==
  ASSUME NEW S, NEW s \in Seq(S), NEW t \in Seq(S), NEW k \in Nat, Stretch(s, t, k), s # <<>>
  PROVE  /\ Stretch(Tail(s), t, k + 1) /\ Head(s) = t[k + 1] /\ k < Len(t)
         /\ Len(Tail(s)) = Len(s) - 1
<1> DEFINE u == Tail(s)
<1>1. Len(u) = Len(s) - 1 /\ (\A i \in 1 .. Len(u) : u[i] = s[i + 1]) /\ Len(s) \in Nat \ {0}
  BY HeadTailProperties, EmptySeq
<1>2. Head(s) = s[1] /\ Len(t) \in Nat
  OBVIOUS
<1> HIDE DEF u
<1>3. ASSUME NEW i \in 1 .. Len(u) PROVE u[i] = t[(k + 1) + i]
  <2>1. i + 1 \in 1 .. Len(s) /\ u[i] = s[i + 1] /\ k + (i + 1) = (k + 1) + i
    BY <1>1
  <2> QED BY <2>1 DEF Stretch
<1>4. Stretch(u, t, k + 1)
  BY <1>1, <1>2, <1>3 DEF Stretch
<1>5. s[1] = t[k + 1] /\ k < Len(t)
  BY <1>1, <1>2 DEF Stretch
<1> QED BY <1>1, <1>2, <1>4, <1>5 DEF u

\* Two stretches that follow each other are one.
LEMMA StretchPrefix ==
  ASSUME NEW S, NEW r \in Seq(S), NEW s \in Seq(S), NEW t \in Seq(S), NEW k \in Nat,
         Stretch(r, t, k), Stretch(s, t, k + Len(r))
  PROVE  /\ IsPrefix(r \o s, SubSeq(t, k + 1, Len(t)))
         /\ k + Len(r) + Len(s) = Len(t) => r \o s = SubSeq(t, k + 1, Len(t))
<1> DEFINE u == r \o s
           since == SubSeq(t, k + 1, Len(t))
<1>1. /\ u \in Seq(S) /\ Len(u) = Len(r) + Len(s)
      /\ \A i \in 1 .. Len(r) + Len(s) : u[i] = IF i <= Len(r) THEN r[i] ELSE s[i - Len(r)]
  BY ConcatProperties
<1>2. Len(r) \in Nat /\ Len(s) \in Nat /\ Len(t) \in Nat /\ k + Len(r) + Len(s) <= Len(t)
  BY DEF Stretch
<1>3. /\ since \in Seq(S) /\ Len(since) = Len(t) - k
      /\ \A i \in 1 .. Len(t) - k : since[i] = t[k + i]
  <2>1. k + 1 \in Int /\ Len(t) \in Int /\ \A i \in k + 1 .. Len(t) : t[i] \in S
    BY <1>2, ElementOfSeq
  <2>2. /\ since \in Seq(S)
        /\ Len(since) = IF k + 1 <= Len(t) THEN Len(t) - (k + 1) + 1 ELSE 0
        /\ \A i \in 1 .. Len(t) - (k + 1) + 1 : since[i] = t[(k + 1) + i - 1]
    BY <2>1, SubSeqProperties
  <2>3. \A i \in 1 .. Len(t) - k : (k + 1) + i - 1 = k + i /\ i \in 1 .. Len(t) - (k + 1) + 1
    BY <1>2
  <2> HIDE DEF since
  <2> QED BY <1>2, <2>2, <2>3
<1> HIDE DEF u, since
<1>4. ASSUME NEW i \in 1 .. Len(u) PROVE u[i] = since[i]
  <2>1. i \in 1 .. Len(t) - k /\ since[i] = t[k + i]
    BY <1>1, <1>2, <1>3
  <2>2. CASE i <= Len(r)
    <3>1. i \in 1 .. Len(r) /\ i \in 1 .. Len(r) + Len(s)
      BY <1>1, <1>2, <2>2
    <3>2. u[i] = r[i]
      BY <1>1, <2>2, <3>1
    <3>3. r[i] = t[k + i]
      BY <3>1 DEF Stretch
    <3> QED BY <2>1, <3>2, <3>3
  <2>3. CASE i > Len(r)
    <3>1. i - Len(r) \in 1 .. Len(s) /\ (k + Len(r)) + (i - Len(r)) = k + i
      BY <1>1, <1>2, <2>3
    <3>2. u[i] = s[i - Len(r)]
      BY <1>1, <1>2, <2>3
    <3> QED BY <2>1, <3>1, <3>2 DEF Stretch
  <2> QED BY <1>2, <2>2, <2>3
<1>5. IsPrefix(u, since)
  <2>1. Len(u) \in Nat /\ Len(u) <= Len(since)
    BY <1>1, <1>2, <1>3
  <2>2. SubSeq(u, 1, Len(u)) = u
    BY <1>1, SubSeqFull
  <2>3. /\ SubSeq(since, 1, Len(u)) \in Seq(S) /\ Len(SubSeq(since, 1, Len(u))) = Len(u)
        /\ \A i \in 1 .. Len(u) : SubSeq(since, 1, Len(u))[i] = since[i]
    <3>1. \A i \in 1 .. Len(u) : since[i] \in S
      BY <1>3, <2>1, ElementOfSeq
    <3>2. 1 \in Int /\ Len(u) \in Int
      BY <2>1
    <3>3. /\ SubSeq(since, 1, Len(u)) \in Seq(S)
          /\ Len(SubSeq(since, 1, Len(u))) = IF 1 <= Len(u) THEN Len(u) - 1 + 1 ELSE 0
          /\ \A i \in 1 .. Len(u) - 1 + 1 : SubSeq(since, 1, Len(u))[i] = since[1 + i - 1]
      BY <3>1, <3>2, SubSeqProperties
    <3> QED BY <2>1, <3>3
  <2>4. SubSeq(since, 1, Len(u)) = u
    BY <1>1, <1>4, <2>3, SeqEqual
  <2> QED BY <2>1, <2>2, <2>4 DEF IsPrefix
<1>6. k + Len(r) + Len(s) = Len(t) => u = since
  BY <1>1, <1>2, <1>3, <1>4, SeqEqual
<1> QED BY <1>5, <1>6 DEF u, since

-----------------------------------------------------------------------------
(* The inductive invariant, client by client.                              *)

\* What a client has received and what is on its way to it are the stretches of
\* the conversation that follow the point where it came.
Conv(c) ==
  /\ Stretch(received[c], log, joined[c])
  /\ Stretch(outbox[c], log, joined[c] + Len(received[c]))
  /\ readyState[c] = "NONE" => received[c] = <<>> /\ outbox[c] = <<>>
  /\ readyState[c] = "OPEN" =>
       /\ Contains(clients, c)
       /\ joined[c] + Len(received[c]) + Len(outbox[c]) = Len(log)

\* Only connections that have come are in the array.
Came == \A i \in DOMAIN clients : readyState[clients[i]] # "NONE"

ChatInv == TypeOK /\ Came /\ \A c \in Clients : Conv(c)

\* At the start nobody is connected.
LEMMA ChatInit == Init => ChatInv
<1> SUFFICES ASSUME Init PROVE ChatInv
  OBVIOUS
<1>1. <<>> \in Seq(Message) /\ <<>> \in Seq(Clients) /\ Len(<<>>) = 0 /\ DOMAIN <<>> = {}
  OBVIOUS
<1>2. IsInjective(clients) /\ Came
  BY <1>1 DEF Init, IsInjective, Came
<1>3. TypeOK
  BY <1>1, <1>2, BoundAssumption DEF Init, TypeOK
<1>4. \A c \in Clients : Conv(c)
  BY <1>1 DEF Init, Conv, Stretch
<1> QED BY <1>2, <1>3, <1>4 DEF ChatInv

\* A client to whom nothing happens.
LEMMA ConvSame ==
  ASSUME NEW c \in Clients, Conv(c), UNCHANGED <<clients, log, received[c], outbox[c], joined[c]>>,
         readyState'[c] \in {readyState[c], "CLOSING", "CLOSED"}
  PROVE  Conv(c)'
BY DEF Conv

\* A new connection joins the array; what it receives begins with the messages to come.
LEMMA ChatConnection ==
  ASSUME ChatInv, NEW c \in Clients, OnConnection(c)
  PROVE  ChatInv'
<1> DEFINE n == Len(clients)
<1>1. /\ clients \in Seq(Clients) /\ n \in Nat /\ DOMAIN clients = 1 .. n
      /\ log \in Seq(Message) /\ Len(log) \in Nat
  BY LenProperties DEF ChatInv, TypeOK
<1>2. /\ clients' \in Seq(Clients) /\ DOMAIN clients' = 1 .. n + 1 /\ Len(clients') = n + 1
      /\ clients'[n + 1] = c
      /\ \A i \in 1 .. n : clients'[i] = clients[i] /\ clients'[i] \in Clients
  BY <1>1, AppendProperties, LenProperties, ElementOfSeq DEF OnConnection
<1>3. /\ readyState[c] = "NONE" /\ readyState'[c] = "OPEN" /\ joined'[c] = Len(log)
      /\ \A d \in Clients \ {c} : readyState'[d] = readyState[d] /\ joined'[d] = joined[d]
      /\ UNCHANGED <<inbox, outbox, received, written, log>>
  BY DEF OnConnection, ChatInv, TypeOK
<1> HIDE DEF n
<1>4. Came'
  BY <1>1, <1>2, <1>3 DEF Came, ChatInv
<1>5. IsInjective(clients')
  <2>1. \A i \in 1 .. n : clients[i] # c
    BY <1>1, <1>3 DEF Came, ChatInv
  <2>2. \A i, j \in 1 .. n : clients[i] = clients[j] => i = j
    BY <1>1 DEF IsInjective, ChatInv, TypeOK
  <2>3. ASSUME NEW i \in 1 .. n + 1, NEW j \in 1 .. n + 1, clients'[i] = clients'[j]
        PROVE  i = j
    <3>1. (i \in 1 .. n \/ i = n + 1) /\ (j \in 1 .. n \/ j = n + 1)
      BY <1>1
    <3> QED BY <1>2, <2>1, <2>2, <2>3, <3>1
  <2> QED BY <1>2, <2>3 DEF IsInjective
<1>6. TypeOK'
  BY <1>1, <1>2, <1>5 DEF OnConnection, ChatInv, TypeOK
<1>7. ASSUME NEW d \in Clients PROVE Conv(d)'
  <2>1. CASE d = c
    <3>1. received[c] = <<>> /\ outbox[c] = <<>> /\ Len(<<>>) = 0
      BY <1>3 DEF ChatInv, Conv
    <3>2. Contains(clients', c)
      BY <1>1, <1>2 DEF Contains
    <3> QED BY <1>1, <1>3, <2>1, <3>1, <3>2 DEF Conv, Stretch
  <2>2. CASE d # c
    <3>1. Contains(clients, d) => Contains(clients', d)
      BY <1>1, <1>2 DEF Contains
    <3> QED BY <1>3, <2>2, <3>1 DEF Conv, ChatInv
  <2> QED BY <2>1, <2>2
<1> QED BY <1>4, <1>6, <1>7 DEF ChatInv

\* A message joins the log and is sent to all that are open.
LEMMA ChatMessage ==
  ASSUME ChatInv, NEW c \in Clients, OnMessage(c)
  PROVE  ChatInv'
<1> DEFINE m == Head(inbox[c])
<1>1. m \in Message /\ Tail(inbox[c]) \in Seq(Message)
  <2>1. inbox[c] \in Seq(Message) /\ inbox[c] # <<>>
    BY DEF ChatInv, TypeOK, OnMessage
  <2> QED BY <2>1, HeadTailProperties
<1>2. /\ log \in Seq(Message) /\ Len(log) \in Nat
      /\ \A d \in Clients : outbox[d] \in Seq(Message) /\ received[d] \in Seq(Message) /\ joined[d] \in Nat
  BY DEF ChatInv, TypeOK
<1>3. /\ log' = Append(log, m)
      /\ outbox' = [d \in Clients |-> IF Contains(clients, d) /\ readyState[d] = "OPEN"
                                        THEN Append(outbox[d], m) ELSE outbox[d]]
      /\ UNCHANGED <<clients, readyState, received, written, joined>>
  BY DEF OnMessage, Broadcast
<1>4. log' \in Seq(Message) /\ Len(log') = Len(log) + 1 /\ log'[Len(log) + 1] = m
  BY <1>1, <1>2, <1>3, AppendProperties
<1>5. TypeOK' /\ Came'
  <2>1. inbox' \in [Clients -> Seq(Message)]
    BY <1>1 DEF OnMessage, ChatInv, TypeOK
  <2>2. outbox' \in [Clients -> Seq(Message)]
    BY <1>1, <1>2, <1>3, AppendProperties
  <2> QED BY <1>3, <1>4, <2>1, <2>2 DEF ChatInv, TypeOK, Came
<1> HIDE DEF m
<1>6. ASSUME NEW d \in Clients PROVE Conv(d)'
  <2> DEFINE r == received[d]
             o == outbox[d]
             k == joined[d]
  <2>1. /\ r \in Seq(Message) /\ o \in Seq(Message) /\ k \in Nat
        /\ Len(r) \in Nat /\ Len(o) \in Nat /\ k + Len(r) \in Nat
    BY <1>2
  <2>2. Stretch(r, log', k) /\ Stretch(o, log', k + Len(r))
    BY <1>1, <1>2, <1>3, <2>1, StretchLonger DEF ChatInv, Conv
  <2>3. CASE readyState[d] = "OPEN"
    <3>1. Contains(clients, d) /\ k + Len(r) + Len(o) = Len(log)
      BY <2>3 DEF ChatInv, Conv
    <3>2. outbox'[d] = Append(o, m) /\ Len(Append(o, m)) = Len(o) + 1
      BY <1>1, <1>3, <2>1, <2>3, <3>1, AppendProperties
    <3>3. Stretch(Append(o, m), log', k + Len(r))
      <4>1. /\ (k + Len(r)) + Len(o) < Len(log')
            /\ log'[(k + Len(r)) + Len(o) + 1] = m
        BY <1>2, <1>4, <3>1
      <4> HIDE DEF r, o, k
      <4> QED BY <1>1, <1>4, <2>1, <2>2, <4>1, StretchNext
    <3>4. k + Len(r) + Len(Append(o, m)) = Len(log')
      BY <1>2, <1>4, <2>1, <3>1, <3>2
    <3> QED BY <1>3, <2>2, <2>3, <3>1, <3>2, <3>3, <3>4 DEF Conv
  <2>4. CASE readyState[d] # "OPEN"
    BY <1>3, <2>2, <2>4 DEF Conv, ChatInv
  <2> QED BY <2>3, <2>4
<1> QED BY <1>5, <1>6 DEF ChatInv

\* A client takes the first message that was sent to it.
LEMMA ChatDeliver ==
  ASSUME ChatInv, NEW c \in Clients, Deliver(c)
  PROVE  ChatInv'
<1> DEFINE r == received[c]
           o == outbox[c]
           k == joined[c]
<1>1. /\ r \in Seq(Message) /\ o \in Seq(Message) /\ k \in Nat /\ log \in Seq(Message) /\ o # <<>>
      /\ Len(r) \in Nat /\ Len(o) \in Nat /\ Len(log) \in Nat /\ k + Len(r) \in Nat
  BY DEF ChatInv, TypeOK, Deliver
<1>2. Head(o) \in Message /\ Tail(o) \in Seq(Message)
  BY <1>1, HeadTailProperties
<1>3. /\ received'[c] = Append(r, Head(o)) /\ outbox'[c] = Tail(o)
      /\ \A d \in Clients \ {c} : received'[d] = received[d] /\ outbox'[d] = outbox[d]
      /\ readyState[c] # "NONE"
      /\ UNCHANGED <<clients, readyState, inbox, written, log, joined>>
  BY DEF Deliver, ChatInv, TypeOK
<1>4. TypeOK' /\ Came'
  <2>1. Append(r, Head(o)) \in Seq(Message)
    BY <1>1, <1>2, AppendProperties
  <2> QED BY <1>2, <2>1 DEF Deliver, ChatInv, TypeOK, Came
<1>5. Conv(c)'
  <2>1. Stretch(r, log, k) /\ Stretch(o, log, k + Len(r))
    BY DEF ChatInv, Conv
  <2>2. /\ Stretch(Tail(o), log, (k + Len(r)) + 1) /\ Head(o) = log[(k + Len(r)) + 1]
        /\ k + Len(r) < Len(log) /\ Len(Tail(o)) = Len(o) - 1
    BY <1>1, <2>1, StretchTail
  <2>3. Stretch(Append(r, Head(o)), log, k)
    BY <1>1, <1>2, <2>1, <2>2, StretchNext
  <2>4. Len(Append(r, Head(o))) = Len(r) + 1 /\ k + (Len(r) + 1) = (k + Len(r)) + 1
    BY <1>1, <1>2, AppendProperties
  <2>5. readyState[c] = "OPEN" =>
          /\ Contains(clients, c)
          /\ k + Len(Append(r, Head(o))) + Len(Tail(o)) = Len(log)
    <3>1. readyState[c] = "OPEN" => Contains(clients, c) /\ k + Len(r) + Len(o) = Len(log)
      BY DEF ChatInv, Conv
    <3>2. ASSUME NEW x \in Nat, NEW y \in Nat, NEW z \in Nat
          PROVE  x + (y + 1) + (z - 1) = x + y + z
      OBVIOUS
    <3> HIDE DEF r, o, k
    <3> QED BY <1>1, <2>2, <2>4, <3>1, <3>2
  <2> QED BY <1>3, <2>2, <2>3, <2>4, <2>5 DEF Conv
<1>6. \A d \in Clients \ {c} : Conv(d)'
  BY <1>3, ConvSame DEF ChatInv
<1> QED BY <1>4, <1>5, <1>6 DEF ChatInv

\* Closing, and a client's own writes.
LEMMA ChatOthers ==
  ASSUME ChatInv, NEW c \in Clients, OnClose(c) \/ Write(c) \/ Closing(c)
  PROVE  ChatInv'
<1>1. TypeOK'
  <2>1. CASE Write(c)
    <3>1. written[c] + 1 \in 1 .. MaxMessages /\ inbox[c] \in Seq(Message)
      BY <2>1, BoundAssumption DEF Write, ChatInv, TypeOK
    <3>2. Append(inbox[c], <<c, written[c] + 1>>) \in Seq(Message)
      BY <3>1, AppendProperties DEF Message
    <3>3. written' = [written EXCEPT ![c] = written[c] + 1] /\ written'[c] = written[c] + 1
      BY <2>1 DEF Write, ChatInv, TypeOK
    <3> QED BY <2>1, <3>1, <3>2, <3>3, SMTT(40) DEF Write, ChatInv, TypeOK
  <2>2. CASE OnClose(c) \/ Closing(c)
    <3>1. <<>> \in Seq(Message)
      OBVIOUS
    <3>2. inbox' \in [Clients -> Seq(Message)]
      BY <2>2, <3>1 DEF OnClose, Closing, ChatInv, TypeOK
    <3> QED BY <2>2, <3>2 DEF OnClose, Closing, ChatInv, TypeOK
  <2> QED BY <2>1, <2>2
<1>2. /\ UNCHANGED <<clients, log, received, outbox, joined>>
      /\ \A d \in Clients : readyState'[d] \in {readyState[d], "CLOSING", "CLOSED"}
  BY DEF OnClose, Write, Closing, ChatInv, TypeOK
<1>3. Came'
  <2>1. \A i \in DOMAIN clients : clients[i] \in Clients
    BY LenProperties, ElementOfSeq DEF ChatInv, TypeOK
  <2> QED BY <1>2, <2>1 DEF ChatInv, Came
<1>4. \A d \in Clients : Conv(d)'
  BY <1>2, ConvSame DEF ChatInv
<1> QED BY <1>1, <1>3, <1>4 DEF ChatInv

\* Every step keeps the invariant.
LEMMA ChatNext == ChatInv /\ [Next]_vars => ChatInv'
<1>1. CASE UNCHANGED vars
  BY <1>1 DEF vars, ChatInv, TypeOK, Came, Conv
<1> QED BY <1>1, ChatConnection, ChatMessage, ChatDeliver, ChatOthers DEF Next

\* index.js:8-33: the array, the connections and what was sent on them always
\* fit together as ChatInv says.
THEOREM ChatInvariant == Spec => []ChatInv
BY ChatInit, ChatNext, PTL DEF Spec

\* Every variable of server and connections keeps its type.
THEOREM TypeCorrect == Spec => []TypeOK
BY ChatInvariant, PTL DEF ChatInv

\* index.js:27-33: whoever comes and goes, each client is sent the conversation
\* from the point where it came, in the same order and without a gap.
THEOREM OneConversationHolds == Spec => []OneConversation
<1>1. ASSUME ChatInv, NEW c \in Clients
      PROVE  LET since == SubSeq(log, joined[c] + 1, Len(log))
                 seen  == received[c] \o outbox[c]
             IN  IsPrefix(seen, since) /\ (readyState[c] = "OPEN" => seen = since)
  <2> DEFINE r == received[c]
             o == outbox[c]
             k == joined[c]
             since == SubSeq(log, k + 1, Len(log))
  <2>1. r \in Seq(Message) /\ o \in Seq(Message) /\ log \in Seq(Message) /\ k \in Nat
    BY <1>1 DEF ChatInv, TypeOK
  <2>2. /\ Stretch(r, log, k) /\ Stretch(o, log, k + Len(r))
        /\ readyState[c] = "OPEN" => k + Len(r) + Len(o) = Len(log)
    BY <1>1 DEF ChatInv, Conv
  <2> HIDE DEF r, o, k
  <2>3. IsPrefix(r \o o, since) /\ (k + Len(r) + Len(o) = Len(log) => r \o o = since)
    BY <2>1, <2>2, StretchPrefix, SMTT(40)
  <2>4. IsPrefix(r \o o, since) /\ (readyState[c] = "OPEN" => r \o o = since)
    <3> HIDE DEF since
    <3> QED BY <2>2, <2>3
  <2> QED BY <2>4 DEF r, o, k, since
<1>2. ChatInv => OneConversation
  BY <1>1 DEF OneConversation
<1> QED BY <1>2, ChatInvariant, PTL

=============================================================================
