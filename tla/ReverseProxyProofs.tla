------------------------- MODULE ReverseProxyProofs -------------------------
(***************************************************************************)
(* The graceful shutdown of ReverseProxy, for any number of requests: no   *)
(* accepted request is cut off unless a Shutdown runs into its timeout.    *)
(***************************************************************************)
EXTENDS ReverseProxy, TLAPS

\* A server that is shut down accepts nothing any more, and a proxy whose
\* Shutdown has returned in time has no request left.
ShutdownInv ==
  /\ \A s \in Servers : run[s] \in {"shutdown", "done"} => ctx /\ serve[s] # "listening"
  /\ run[Proxy] = "done" /\ ~expired => Active(Proxy) = {}

\* The inductive invariant.
ProxyInv == TypeOK /\ ShutdownInv /\ NothingCut

\* At the start no server listens.
LEMMA ProxyInit == Init => ProxyInv
<1> SUFFICES ASSUME Init PROVE ProxyInv
  OBVIOUS
<1>1. TypeOK
  BY DEF Init, TypeOK, Progress, InFlight
<1>2. ShutdownInv
  BY DEF Init, ShutdownInv, Servers
<1>3. NothingCut
  BY DEF Init, NothingCut
<1> QED BY <1>1, <1>2, <1>3 DEF ProxyInv

\* A server's goroutine, short of a log.Fatal.
LEMMA ProxyServer ==
  ASSUME ProxyInv, NEW s \in Servers, Server(s), st' = st
  PROVE  ProxyInv'
<1> USE DEF ProxyInv
<1>1. UNCHANGED <<mode, ctx, st, path, target>>
  BY DEF Server, Launch, Listen, ListenFails, ListenTooLate, ShutdownStart, ShutdownDone,
     ShutdownExpires, reqVars
<1>2. CASE Launch(s)
  <2>1. TypeOK'
    BY <1>2 DEF Launch, TypeOK, reqVars
  <2>2. ShutdownInv' /\ NothingCut'
    BY <1>2 DEF Launch, TypeOK, ShutdownInv, NothingCut, Active, reqVars
  <2> QED BY <2>1, <2>2
<1>3. CASE Listen(s) \/ ListenTooLate(s)
  <2>1. TypeOK' /\ NothingCut'
    BY <1>3 DEF Listen, ListenTooLate, TypeOK, NothingCut, reqVars
  <2>2. ShutdownInv'
    BY <1>3 DEF Listen, ListenTooLate, TypeOK, ShutdownInv, Active, reqVars
  <2> QED BY <2>1, <2>2
<1>4. CASE ListenFails(s)
  <2>1. TypeOK' /\ NothingCut'
    BY <1>1, <1>4 DEF ListenFails, ExitProcess, TypeOK, NothingCut
  <2>2. ShutdownInv'
    BY <1>1, <1>4 DEF ListenFails, ExitProcess, TypeOK, ShutdownInv, Active
  <2> QED BY <2>1, <2>2
<1>5. CASE ShutdownStart(s)
  <2>1. TypeOK' /\ NothingCut'
    BY <1>5 DEF ShutdownStart, TypeOK, NothingCut, reqVars
  <2>2. ShutdownInv'
    BY <1>5 DEF ShutdownStart, TypeOK, ShutdownInv, Active, reqVars
  <2> QED BY <2>1, <2>2
<1>6. CASE ShutdownDone(s) \/ ShutdownExpires(s)
  <2>1. TypeOK' /\ NothingCut'
    BY <1>6 DEF ShutdownDone, ShutdownExpires, TypeOK, NothingCut, reqVars
  <2>2. ShutdownInv'
    <3>1. ctx /\ serve[s] # "listening" /\ UNCHANGED <<ctx, serve, st, target>>
          /\ run' = [run EXCEPT ![s] = "done"]
      BY <1>6 DEF ShutdownDone, ShutdownExpires, ShutdownInv, reqVars
    <3>2. Active(Proxy)' = Active(Proxy)
      BY <3>1 DEF Active
    <3>3. expired' \/ (expired' = expired /\ Active(s) = {})
      BY <1>6 DEF ShutdownDone, ShutdownExpires
    <3> QED BY <3>1, <3>2, <3>3 DEF TypeOK, ShutdownInv, Servers
  <2> QED BY <2>1, <2>2
<1> QED BY <1>2, <1>3, <1>4, <1>5, <1>6 DEF Server

\* The steps that end the process: wg.Wait() in the graceful version, which is
\* held back by the proxy's Shutdown; a signal or log.Fatal in the simple one.
LEMMA ProxyExit ==
  ASSUME ProxyInv, ExitProcess, UNCHANGED <<mode, ctx, run, expired, path, target>>,
         failed' \subseteq Servers, failed \subseteq failed',
         mode = "simple" \/ run[Proxy] = "done"
  PROVE  ProxyInv'
<1> USE DEF ProxyInv
<1>1. TypeOK'
  BY DEF ExitProcess, TypeOK, Progress, InFlight
<1>2. ShutdownInv'
  BY DEF ExitProcess, TypeOK, ShutdownInv, Active, InFlight
<1>3. NothingCut'
  <2>1. CASE mode = "graceful" /\ ~expired
    <3>1. \A r \in Requests : st[r] \notin InFlight
      BY <2>1 DEF ShutdownInv, Active
    <3> QED BY <2>1, <3>1 DEF ExitProcess, NothingCut, TypeOK
  <2> QED BY <2>1 DEF NothingCut, TypeOK
<1> QED BY <1>1, <1>2, <1>3

\* The signal and main's return.
LEMMA ProxyMain ==
  ASSUME ProxyInv, Signal \/ Return
  PROVE  ProxyInv'
<1> USE DEF ProxyInv
<1>1. CASE Return
  BY <1>1, ProxyExit DEF Return, Servers, TypeOK
<1>2. CASE Signal /\ mode = "simple"
  BY <1>2, ProxyExit DEF Signal, TypeOK
<1>3. CASE Signal /\ mode # "simple"
  <2>1. TypeOK' /\ NothingCut'
    BY <1>3 DEF Signal, TypeOK, NothingCut
  <2>2. ShutdownInv'
    BY <1>3 DEF Signal, TypeOK, ShutdownInv, Active
  <2> QED BY <2>1, <2>2
<1> QED BY <1>1, <1>2, <1>3

\* A request goes on; only a listening proxy accepts one.
LEMMA ProxyRequest ==
  ASSUME ProxyInv, NEW r \in Requests, Accept(r) \/ Request(r)
  PROVE  ProxyInv'
<1> USE DEF ProxyInv
<1>1. UNCHANGED <<procVars, path>>
  BY DEF Accept, Request, Route, Forward, BadGateway, Answer
<1>2. PICK p \in Progress \ {"cut", "new"} :
        /\ st' = [st EXCEPT ![r] = p]
        /\ p = "accepted" => st[r] = "new" /\ serve[Proxy] = "listening"
        /\ p \in InFlight => st[r] \in InFlight \/ serve[Proxy] = "listening"
  BY DEF Accept, Request, Route, Forward, BadGateway, Answer, Progress, InFlight
<1>3. /\ target' \in [Requests -> Targets \cup {NoServer}]
      /\ p = "accepted" => target' = target
      /\ p = "routed" => target'[r] \in Targets
      /\ \A q \in Requests \ {r} : target'[q] = target[q]
  <2>1. CASE Route(r)
    <3>1. \A q \in Routes : RouteTarget[q] \in Targets
      BY DEF Routes, RouteTarget, Targets
    <3>2. Prefixes(path[r]) \subseteq Routes
      BY DEF Prefixes, Routes
    <3>3. PICK t \in Targets : target' = [target EXCEPT ![r] = t]
      BY <2>1, <3>1, <3>2 DEF Route, SingleTarget, Targets
    <3>4. st'[r] = "routed"
      BY <2>1 DEF Route, TypeOK
    <3> QED BY <3>3, <3>4, <1>2 DEF TypeOK
  <2>2. CASE ~Route(r)
    <3>1. target' = target /\ p # "routed"
      BY <2>2, <1>2 DEF Accept, Request, Forward, BadGateway, Answer, TypeOK
    <3> QED BY <3>1 DEF TypeOK
  <2> QED BY <2>1, <2>2
<1>4. TypeOK'
  BY <1>1, <1>2, <1>3 DEF TypeOK, procVars
<1>5. NothingCut'
  BY <1>1, <1>2 DEF NothingCut, TypeOK, procVars
<1>6. ShutdownInv'
  <2>1. ASSUME run[Proxy] = "done", ~expired PROVE Active(Proxy)' = {}
    <3>1. serve[Proxy] # "listening" /\ \A q \in Requests : st[q] \notin InFlight
      BY <2>1 DEF ShutdownInv, Active, Servers
    <3> QED BY <1>2, <3>1 DEF Active, TypeOK
  <2> QED BY <1>1, <2>1 DEF ShutdownInv, procVars
<1> QED BY <1>4, <1>5, <1>6

\* Every step keeps the invariant.
LEMMA ProxyNext == ProxyInv /\ [Next]_vars => ProxyInv'
<1> SUFFICES ASSUME ProxyInv, [Next]_vars PROVE ProxyInv'
  OBVIOUS
<1>1. ASSUME NEW s \in Servers, Server(s) PROVE ProxyInv'
  <2>1. CASE ListenFails(s) /\ mode = "simple"
    BY <2>1, ProxyExit DEF ListenFails, ProxyInv, TypeOK
  <2>2. CASE ~(ListenFails(s) /\ mode = "simple")
    <3>1. st' = st
      BY <1>1, <2>2 DEF Server, Launch, Listen, ListenFails, ListenTooLate, ShutdownStart,
         ShutdownDone, ShutdownExpires, reqVars
    <3> QED BY <1>1, <3>1, ProxyServer
  <2> QED BY <2>1, <2>2
<1>2. CASE UNCHANGED vars
  BY <1>2 DEF vars, procVars, reqVars, ProxyInv, TypeOK, ShutdownInv,
     NothingCut, Active
<1> QED BY <1>1, <1>2, ProxyMain, ProxyRequest DEF Next

\* proxy.go:104-275: the servers' goroutines, their listeners, the context and
\* the requests always fit together as ProxyInv says.
THEOREM ProxyInvariant == Spec => []ProxyInv
BY ProxyInit, ProxyNext, PTL DEF Spec

\* Every variable of the proxy keeps its type, for any number of requests.
THEOREM TypeCorrect == Spec => []TypeOK
BY ProxyInvariant, PTL DEF ProxyInv

\* proxy.go:267-274 and 432-434: the graceful version answers every request that
\* it accepted before main returns, unless a Shutdown expires.
THEOREM NothingCutHolds == Spec => []NothingCut
BY ProxyInvariant, PTL DEF ProxyInv

=============================================================================
