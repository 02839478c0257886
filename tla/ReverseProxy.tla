---------------------------- MODULE ReverseProxy ----------------------------
(***************************************************************************)
(* network/layer-7-application/http/proxy/go/proxy.go: one process with    *)
(* three target servers and a reverse proxy in front of them, in its two   *)
(* modes: "simple", where each server is log.Fatal(ListenAndServe()), and  *)
(* "graceful", where a signal cancels a context and every server is shut   *)
(* down with a timeout while a wait group holds main back.                 *)
(*                                                                         *)
(* A request is followed from the proxy's accept to its answer; what is in *)
(* it, apart from the class of its path, plays no part.                    *)
(***************************************************************************)
EXTENDS Naturals, FiniteSets

CONSTANTS
  Requests,     \* the requests that clients make
  NoServer      \* no target chosen yet

Targets == {"8081", "8082", "8083"}
Proxy   == "8080"
Servers == Targets \cup {Proxy}

ASSUME NoServerAssumption == NoServer \notin Servers

\* The routes: m.routes, and mux.Handle("/single/", ...) in front of it.
Routes == {"/api", "/static", "/"}
RouteTarget == [path \in Routes |->
                  CASE path = "/api"    -> "8081"
                    [] path = "/static" -> "8082"
                    [] path = "/"       -> "8083"]
SingleTarget == "8081"

\* The classes of request paths, by the prefixes of Routes that they have.
Paths == {"/api/test", "/static/css/style.css", "/home", "/single/target1/test"}
Prefixes(path) ==
  CASE path = "/api/test"             -> {"/api", "/"}
    [] path = "/static/css/style.css" -> {"/static", "/"}
    [] OTHER                          -> {"/"}

VARIABLES
  mode,         \* "simple" or "graceful", from os.Args
  main,         \* "signal", "wgWait" or "exited"
  ctx,          \* ctx is cancelled
  run,          \* run[s]: where the goroutine of server s stands
  serve,        \* serve[s]: where its ListenAndServe stands
  failed,       \* the servers whose ListenAndServe could not listen
  expired,      \* some Shutdown ran into its ten seconds
  st, path, target   \* each request: its progress, path and target

procVars == <<mode, main, ctx, run, serve, failed, expired>>
reqVars  == <<st, path, target>>
vars     == <<procVars, reqVars>>

InFlight == {"accepted", "routed", "atTarget"}
Progress == InFlight \cup {"new", "abandoned", "ok", "badGateway", "cut"}

\* The requests that keep a server's connections from being idle: at the proxy
\* until they are answered, at a target until its handler has ended, also when
\* the proxy has answered 502 meanwhile ("abandoned").
Active(s) == IF s = Proxy
               THEN {r \in Requests : st[r] \in InFlight}
               ELSE {r \in Requests : st[r] \in {"atTarget", "abandoned"} /\ target[r] = s}

Init ==
  /\ mode \in {"simple", "graceful"}
  /\ main = "signal"
  /\ ctx = FALSE
  /\ run = [s \in Servers |-> "launched"]
  /\ serve = [s \in Servers |-> "none"]
  /\ failed = {}
  /\ expired = FALSE
  /\ st = [r \in Requests |-> "new"]
  /\ path \in [Requests -> Paths]
  /\ target = [r \in Requests |-> NoServer]

Alive == main # "exited"

\* The process ends, and with it every request that has no answer yet.
ExitProcess ==
  /\ main' = "exited"
  /\ serve' = [s \in Servers |-> "stopped"]
  /\ st' = [r \in Requests |-> IF st[r] \in InFlight THEN "cut" ELSE st[r]]

-----------------------------------------------------------------------------
(* The servers.                                                            *)

\* The goroutine of s has built its server and calls ListenAndServe.  The
\* proxy's does so after two seconds, which order nothing.
Launch(s) ==
  /\ Alive
  /\ run[s] = "launched"
  /\ run' = [run EXCEPT ![s] = "serving"]
  /\ serve' = [serve EXCEPT ![s] = "starting"]
  /\ UNCHANGED <<mode, main, ctx, failed, expired, reqVars>>

Listen(s) ==
  /\ Alive
  /\ serve[s] = "starting"
  /\ run[s] = "serving"
  /\ serve' = [serve EXCEPT ![s] = "listening"]
  /\ UNCHANGED <<mode, main, ctx, run, failed, expired, reqVars>>

\* The port is taken: log.Fatal ends the simple version, the graceful version
\* logs it and goes on without the server.
ListenFails(s) ==
  /\ Alive
  /\ serve[s] = "starting"
  /\ run[s] = "serving"
  /\ failed' = failed \cup {s}
  /\ IF mode = "simple"
       THEN ExitProcess
       ELSE serve' = [serve EXCEPT ![s] = "stopped"] /\ UNCHANGED <<main, st>>
  /\ UNCHANGED <<mode, ctx, run, expired, path, target>>

\* ListenAndServe of a server that is shut down already: ErrServerClosed.
ListenTooLate(s) ==
  /\ Alive
  /\ serve[s] = "starting"
  /\ run[s] \in {"shutdown", "done"}
  /\ serve' = [serve EXCEPT ![s] = "stopped"]
  /\ UNCHANGED <<mode, main, ctx, run, failed, expired, reqVars>>

\* <-ctx.Done(), and server.Shutdown closes the listener.
ShutdownStart(s) ==
  /\ Alive
  /\ ctx
  /\ run[s] = "serving"
  /\ run' = [run EXCEPT ![s] = "shutdown"]
  /\ serve' = [serve EXCEPT ![s] = IF @ = "listening" THEN "stopped" ELSE @]
  /\ UNCHANGED <<mode, main, ctx, failed, expired, reqVars>>

\* Shutdown returns when no request is active any more; wg.Done().
ShutdownDone(s) ==
  /\ Alive
  /\ run[s] = "shutdown"
  /\ Active(s) = {}
  /\ run' = [run EXCEPT ![s] = "done"]
  /\ UNCHANGED <<mode, main, ctx, serve, failed, expired, reqVars>>

\* A Shutdown with a context that never expires.
ShutdownForever(s) ==
  /\ run[s] = "expired"
  /\ UNCHANGED vars

\* Shutdown gives up after ten seconds; wg.Done().
ShutdownExpires(s) ==
  /\ Alive
  /\ run[s] = "shutdown"
  /\ Active(s) # {}
  /\ run' = [run EXCEPT ![s] = "done"]
  /\ expired' = TRUE
  /\ UNCHANGED <<mode, main, ctx, serve, failed, reqVars>>

-----------------------------------------------------------------------------
(* main.                                                                   *)

\* SIGINT or SIGTERM: it kills the simple version at once; the graceful one
\* cancels the context and waits.
Signal ==
  /\ main = "signal"
  /\ IF mode = "simple"
       THEN ExitProcess /\ UNCHANGED ctx
       ELSE /\ ctx' = TRUE
            /\ main' = "wgWait"
            /\ UNCHANGED <<serve, st>>
  /\ UNCHANGED <<mode, run, failed, expired, path, target>>

\* A wait group that does not count the proxy, which is launched last.
ReturnBeforeProxy ==
  /\ main = "wgWait"
  /\ \A s \in Targets : run[s] = "done"
  /\ ExitProcess
  /\ UNCHANGED <<mode, ctx, run, failed, expired, path, target>>

\* wg.Wait() lets main return.
Return ==
  /\ main = "wgWait"
  /\ \A s \in Servers : run[s] = "done"
  /\ ExitProcess
  /\ UNCHANGED <<mode, ctx, run, failed, expired, path, target>>

-----------------------------------------------------------------------------
(* The requests.                                                           *)

Accept(r) ==
  /\ st[r] = "new"
  /\ serve[Proxy] = "listening"
  /\ st' = [st EXCEPT ![r] = "accepted"]
  /\ UNCHANGED <<procVars, path, target>>

\* The mux, and MultiProxyServer.ServeHTTP: the first route, in map order
\* (any), that is a prefix of the path.
Route(r) ==
  /\ Alive
  /\ st[r] = "accepted"
  /\ st' = [st EXCEPT ![r] = "routed"]
  /\ \E t \in IF path[r] = "/single/target1/test"
                THEN {SingleTarget}
                ELSE {RouteTarget[p] : p \in Prefixes(path[r])} :
       target' = [target EXCEPT ![r] = t]
  /\ UNCHANGED <<procVars, path>>

\* The proxy reaches the target.
Forward(r) ==
  /\ st[r] = "routed"
  /\ serve[target[r]] = "listening"
  /\ st' = [st EXCEPT ![r] = "atTarget"]
  /\ UNCHANGED <<procVars, path, target>>

\* An ErrorHandler that has the request routed again.
BadGatewayRetried(r) ==
  /\ Alive
  /\ st[r] = "routed"
  /\ st' = [st EXCEPT ![r] = "accepted"]
  /\ UNCHANGED <<procVars, path, target>>

\* ErrorHandler answers 502 to any error of the transport: the target does not
\* listen or resets the connection, or the client has gone.  A request that has
\* reached the target goes on there.
BadGateway(r) ==
  /\ Alive
  /\ st[r] \in {"routed", "atTarget"}
  /\ st' = [st EXCEPT ![r] = IF @ = "routed" THEN "badGateway" ELSE "abandoned"]
  /\ UNCHANGED <<procVars, path, target>>

\* The target's handler ends, and the proxy copies its answer if it still waits.
Answer(r) ==
  /\ Alive
  /\ st[r] \in {"atTarget", "abandoned"}
  /\ st' = [st EXCEPT ![r] = IF @ = "atTarget" THEN "ok" ELSE "badGateway"]
  /\ UNCHANGED <<procVars, path, target>>

-----------------------------------------------------------------------------

Server(s) == \/ Launch(s) \/ Listen(s) \/ ListenFails(s) \/ ListenTooLate(s)
             \/ ShutdownStart(s) \/ ShutdownDone(s) \/ ShutdownExpires(s)
Request(r) == Route(r) \/ Forward(r) \/ BadGateway(r) \/ Answer(r)

Next ==
  \/ \E s \in Servers : Server(s)
  \/ Signal \/ Return
  \/ \E r \in Requests : Accept(r) \/ Request(r)

Spec == Init /\ [][Next]_vars

\* The servers' goroutines and main go on.  No fairness for the requests: a
\* handler may hang, which is what the ten seconds are for.
FairSpec == Spec /\ WF_vars(Return) /\ \A s \in Servers : WF_vars(Server(s))

-----------------------------------------------------------------------------
(* Properties.                                                             *)

\* The types of the variables.
TypeOK ==
  /\ mode \in {"simple", "graceful"}
  /\ main \in {"signal", "wgWait", "exited"}
  /\ ctx \in BOOLEAN
  /\ run \in [Servers -> {"launched", "serving", "shutdown", "done"}]
  /\ serve \in [Servers -> {"none", "starting", "listening", "stopped"}]
  /\ failed \subseteq Servers
  /\ expired \in BOOLEAN
  /\ st \in [Requests -> Progress]
  /\ path \in [Requests -> Paths]
  /\ target \in [Requests -> Targets \cup {NoServer}]
  /\ \A r \in Requests : st[r] \in {"new", "accepted"} => target[r] = NoServer

\* proxy.go:267-274 and 432-434: the graceful version cuts no request off,
\* although proxy and targets shut down at the same time, each on its own:
\* unless a Shutdown expires, what was accepted is answered before main returns.
NothingCut ==
  mode = "graceful" /\ (\E r \in Requests : st[r] = "cut") => expired

\* proxy.go:425-434: a signal ends the program, also when a server could not
\* listen, the proxy is still sleeping, or a handler hangs.
SignalEnds == ctx ~> main = "exited"

\* proxy.go:249-256 prints where each path goes, and proxy.go:227 calls "/" the
\* default route (默认路由): the route for paths that no other route has.
RoutedAsPrinted ==
  \A r \in Requests : target[r] # NoServer =>
    target[r] = CASE path[r] = "/api/test"             -> "8081"
                  [] path[r] = "/static/css/style.css" -> "8082"
                  [] path[r] = "/home"                 -> "8083"
                  [] path[r] = "/single/target1/test"  -> "8081"

=============================================================================
