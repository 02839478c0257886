-------------------------- MODULE InformerFactory --------------------------
(***************************************************************************)
(* The sharedInformerFactory of kubernetes/dev/controller/sec-02-sample/   *)
(* pkg/generated/informers/externalversions/factory.go: goroutines that    *)
(* share one factory ask it for informers, start them, wait for their      *)
(* caches and shut the factory down, in any order and at the same time.    *)
(*                                                                         *)
(* Every method takes f.lock; what a method does under the lock is split   *)
(* into the steps that other goroutines could come between without it.     *)
(***************************************************************************)
EXTENDS Naturals, FiniteSets

CONSTANTS
  Types,        \* the informer types (reflect.Type of the objects)
  Callers,      \* the goroutines that use the factory
  Channels,     \* the stop channels that they pass
  None          \* no caller, no channel, no type

ASSUME FiniteAssumption == IsFiniteSet(Types)
ASSUME NoneAssumption   == None \notin Types \cup Callers \cup Channels

VARIABLES
  \* The fields of the factory.
  lock,              \* the caller that holds f.lock, or None
  informers,         \* informers[t]: the identity of the informer of t, or 0
  startedInformers,
  wg,                \* the counter of the wait group
  shuttingDown,
  \* The informers and their goroutines.
  made,              \* how many informers newFunc has made for each type
  runner,            \* the goroutine that Start made for each type
  runCh,             \* the stop channel it was made with
  synced,            \* the types whose informer HasSynced
  closed,            \* the stop channels that are closed
  \* The callers.
  pc, arg,           \* the step of its call that a caller is at; its argument
  got,               \* the informer that InformerFor found or made
  unsynced,          \* the types that WaitForCacheSync still has to wait for
  quiet              \* some call of Shutdown has returned

factoryVars == <<lock, informers, startedInformers, wg, shuttingDown>>
runnerVars  == <<made, runner, runCh, synced, closed>>
callerVars  == <<pc, arg, got, unsynced, quiet>>
vars == <<factoryVars, runnerVars, callerVars>>

\* A call waits for the lock at "Start", "Shutdown", "Wait" or "For"; the steps
\* in Locked are those between f.lock.Lock() and the Unlock.
Locked  == {"start", "starting", "shutdown", "snapshot", "lookup", "make"}
Blocked == {"Start", "Shutdown", "Wait", "For"}
PCs     == Locked \cup Blocked \cup {"idle", "wgWait", "syncWait"}
Alive   == {"running", "returned"}
Live    == {t \in Types : runner[t] \in Alive}
Registered == {t \in Types : informers[t] # 0}

Init ==
  /\ lock = None
  /\ informers = [t \in Types |-> 0]
  /\ startedInformers = {}
  /\ wg = 0
  /\ shuttingDown = FALSE
  /\ made = [t \in Types |-> 0]
  /\ runner = [t \in Types |-> "none"]
  /\ runCh = [t \in Types |-> None]
  /\ synced = {}
  /\ closed = {}
  /\ pc = [c \in Callers |-> "idle"]
  /\ arg = [c \in Callers |-> None]
  /\ got = [c \in Callers |-> 0]
  /\ unsynced = [c \in Callers |-> {}]
  /\ quiet = FALSE

Goto(c, label) == pc' = [pc EXCEPT ![c] = label]

\* Start(stopCh), WaitForCacheSync(stopCh), Shutdown() or InformerFor(obj).
Call(c) ==
  /\ pc[c] = "idle"
  /\ \/ /\ \E ch \in Channels : arg' = [arg EXCEPT ![c] = ch]
        /\ Goto(c, "Start") \/ Goto(c, "Wait")
     \/ /\ \E t \in Types : arg' = [arg EXCEPT ![c] = t]
        /\ Goto(c, "For")
     \/ /\ arg' = [arg EXCEPT ![c] = None]
        /\ Goto(c, "Shutdown")
  /\ got' = [got EXCEPT ![c] = 0]
  /\ UNCHANGED <<factoryVars, runnerVars, unsynced, quiet>>

\* A Lock that does not wait for the other holder.
LockShared(c) ==
  /\ pc[c] \in Blocked
  /\ lock' = c
  /\ Goto(c, CASE pc[c] = "Start"    -> "start"
               [] pc[c] = "Shutdown" -> "shutdown"
               [] pc[c] = "Wait"     -> "snapshot"
               [] pc[c] = "For"      -> "lookup")
  /\ UNCHANGED <<informers, startedInformers, wg, shuttingDown, runnerVars,
                 arg, got, unsynced, quiet>>

\* f.lock.Lock(), the first statement of every method.
Lock(c) == lock = None /\ LockShared(c)

\* Start without the check of shuttingDown.
StartUnchecked(c) ==
  /\ pc[c] = "start"
  /\ Goto(c, "starting")
  /\ UNCHANGED <<factoryVars, runnerVars, arg, got, unsynced, quiet>>

\* Start: the check of shuttingDown.
StartCheck(c) ==
  /\ pc[c] = "start"
  /\ IF shuttingDown
       THEN lock' = None /\ Goto(c, "idle")
       ELSE UNCHANGED lock /\ Goto(c, "starting")
  /\ UNCHANGED <<informers, startedInformers, wg, shuttingDown, runnerVars,
                 arg, got, unsynced, quiet>>

\* A Start whose goroutine is not counted.
StartOneUncounted(c, t) ==
  /\ pc[c] = "starting"
  /\ t \in Registered \ startedInformers
  /\ runner' = [runner EXCEPT ![t] = "running"]
  /\ runCh' = [runCh EXCEPT ![t] = arg[c]]
  /\ startedInformers' = startedInformers \cup {t}
  /\ UNCHANGED <<lock, informers, wg, shuttingDown, made, synced, closed, callerVars>>

\* Start: one registered informer that is not started, in map order (any).
StartOne(c, t) ==
  /\ pc[c] = "starting"
  /\ t \in Registered \ startedInformers
  /\ wg' = wg + 1
  /\ runner' = [runner EXCEPT ![t] = "running"]
  /\ runCh' = [runCh EXCEPT ![t] = arg[c]]
  /\ startedInformers' = startedInformers \cup {t}
  /\ UNCHANGED <<lock, informers, shuttingDown, made, synced, closed, callerVars>>

\* Start: the loop is over.
StartReturn(c) ==
  /\ pc[c] = "starting"
  /\ Registered \subseteq startedInformers
  /\ lock' = None
  /\ Goto(c, "idle")
  /\ UNCHANGED <<informers, startedInformers, wg, shuttingDown, runnerVars,
                 arg, got, unsynced, quiet>>

\* Shutdown: set the flag and unlock.
ShutdownMark(c) ==
  /\ pc[c] = "shutdown"
  /\ shuttingDown' = TRUE
  /\ lock' = None
  /\ Goto(c, "wgWait")
  /\ UNCHANGED <<informers, startedInformers, wg, runnerVars, arg, got,
                 unsynced, quiet>>

\* A Shutdown that only sets the flag.
ShutdownNoWait(c) ==
  /\ pc[c] = "wgWait"
  /\ quiet' = TRUE
  /\ Goto(c, "idle")
  /\ UNCHANGED <<factoryVars, runnerVars, arg, got, unsynced>>

\* A Shutdown that polls the counter when it happens to find the lock free.
ShutdownPolls(c) ==
  /\ pc[c] = "wgWait"
  /\ wg = 0 /\ lock = None
  /\ quiet' = TRUE
  /\ Goto(c, "idle")
  /\ UNCHANGED <<factoryVars, runnerVars, arg, got, unsynced>>

\* Shutdown: f.wg.Wait() lets the call return.
ShutdownReturn(c) ==
  /\ pc[c] = "wgWait"
  /\ wg = 0
  /\ quiet' = TRUE
  /\ Goto(c, "idle")
  /\ UNCHANGED <<factoryVars, runnerVars, arg, got, unsynced>>

\* WaitForCacheSync: the copy of the started informers, made under the lock.
Snapshot(c) ==
  /\ pc[c] = "snapshot"
  /\ unsynced' = [unsynced EXCEPT ![c] = Registered \cap startedInformers]
  /\ lock' = None
  /\ Goto(c, "syncWait")
  /\ UNCHANGED <<informers, startedInformers, wg, shuttingDown, runnerVars,
                 arg, got, quiet>>

\* A wait that does not look at the stop channel.
SyncOneUnstoppable(c, t) ==
  /\ pc[c] = "syncWait"
  /\ t \in unsynced[c] \cap synced
  /\ unsynced' = [unsynced EXCEPT ![c] = @ \ {t}]
  /\ UNCHANGED <<factoryVars, runnerVars, pc, arg, got, quiet>>

\* WaitForCacheSync: cache.WaitForCacheSync of one of them returned, because it
\* is synced (true) or because stopCh is closed (false).
SyncOne(c, t) ==
  /\ pc[c] = "syncWait"
  /\ t \in unsynced[c]
  /\ t \in synced \/ arg[c] \in closed
  /\ unsynced' = [unsynced EXCEPT ![c] = @ \ {t}]
  /\ UNCHANGED <<factoryVars, runnerVars, pc, arg, got, quiet>>

SyncReturn(c) ==
  /\ pc[c] = "syncWait"
  /\ unsynced[c] = {}
  /\ Goto(c, "idle")
  /\ UNCHANGED <<factoryVars, runnerVars, arg, got, unsynced, quiet>>

\* InformerFor: the informer exists, or has to be made.
Lookup(c) ==
  /\ pc[c] = "lookup"
  /\ IF informers[arg[c]] # 0
       THEN /\ got' = [got EXCEPT ![c] = informers[arg[c]]]
            /\ lock' = None
            /\ Goto(c, "idle")
       ELSE UNCHANGED <<got, lock>> /\ Goto(c, "make")
  /\ UNCHANGED <<informers, startedInformers, wg, shuttingDown, runnerVars,
                 arg, unsynced, quiet>>

\* InformerFor: newFunc makes a new informer, which is registered.
MakeInformer(c) ==
  /\ pc[c] = "make"
  /\ made' = [made EXCEPT ![arg[c]] = @ + 1]
  /\ informers' = [informers EXCEPT ![arg[c]] = made'[arg[c]]]
  /\ got' = [got EXCEPT ![c] = made'[arg[c]]]
  /\ lock' = None
  /\ Goto(c, "idle")
  /\ UNCHANGED <<startedInformers, wg, shuttingDown, runner, runCh, synced, closed,
                 arg, unsynced, quiet>>

-----------------------------------------------------------------------------
(* The informers' goroutines and the owners of the channels.               *)

\* The informer's cache has its first list.
CacheSync(t) ==
  /\ runner[t] = "running"
  /\ t \notin synced
  /\ synced' = synced \cup {t}
  /\ UNCHANGED <<factoryVars, made, runner, runCh, closed, callerVars>>

\* informer.Run(stopCh) returns.
RunReturn(t) ==
  /\ runner[t] = "running"
  /\ runCh[t] \in closed
  /\ runner' = [runner EXCEPT ![t] = "returned"]
  /\ UNCHANGED <<factoryVars, made, runCh, synced, closed, callerVars>>

\* defer f.wg.Done()
WgDone(t) ==
  /\ runner[t] = "returned"
  /\ runner' = [runner EXCEPT ![t] = "done"]
  /\ wg' = wg - 1
  /\ UNCHANGED <<lock, informers, startedInformers, shuttingDown, made, runCh,
                 synced, closed, callerVars>>

Close(ch) ==
  /\ ch \notin closed
  /\ closed' = closed \cup {ch}
  /\ UNCHANGED <<factoryVars, made, runner, runCh, synced, callerVars>>

-----------------------------------------------------------------------------

Start(c)            == StartCheck(c) \/ StartReturn(c) \/ \E t \in Types : StartOne(c, t)
Shutdown(c)         == ShutdownMark(c) \/ ShutdownReturn(c)
WaitForCacheSync(c) == Snapshot(c) \/ SyncReturn(c) \/ \E t \in Types : SyncOne(c, t)
InformerFor(c)      == Lookup(c) \/ MakeInformer(c)
Step(c)  == Start(c) \/ Shutdown(c) \/ WaitForCacheSync(c) \/ InformerFor(c)
Runner(t) == RunReturn(t) \/ WgDone(t)

Next ==
  \/ \E c \in Callers : Call(c) \/ Lock(c) \/ Step(c)
  \/ \E t \in Types : CacheSync(t) \/ Runner(t)
  \/ \E ch \in Channels : Close(ch)

Spec == Init /\ [][Next]_vars

\* A goroutine that can go on does, sync.Mutex starves nobody, and Run returns
\* when its channel is closed.  Nobody has to call, to close or to get synced.
Fairness ==
  /\ \A c \in Callers : SF_vars(Lock(c)) /\ WF_vars(Step(c))
  /\ \A t \in Types : WF_vars(Runner(t))

FairSpec == Spec /\ Fairness

-----------------------------------------------------------------------------
(* Properties.                                                             *)

\* The types of the variables.
TypeOK ==
  /\ lock \in Callers \cup {None}
  /\ informers \in [Types -> Nat]
  /\ startedInformers \subseteq Types
  /\ wg \in Nat
  /\ shuttingDown \in BOOLEAN
  /\ made \in [Types -> Nat]
  /\ runner \in [Types -> {"none", "running", "returned", "done"}]
  /\ runCh \in [Types -> Channels \cup {None}]
  /\ synced \subseteq Types
  /\ closed \subseteq Channels
  /\ pc \in [Callers -> PCs]
  /\ arg \in [Callers -> Types \cup Channels \cup {None}]
  /\ got \in [Callers -> Nat]
  /\ unsynced \in [Callers -> SUBSET Types]
  /\ quiet \in BOOLEAN

\* factory.go:215-224, "Shutdown blocks until all goroutines have terminated"
\* and "no new informers can be started anymore": once any of the concurrent
\* calls of Shutdown has returned, no informer goroutine is left or ever runs.
ShutdownIsFinal == quiet => Live = {}

\* The rule of sync.WaitGroup that Start (factory.go:118) must keep: nobody adds
\* to the counter while a Shutdown is in Wait.
NoAddDuringWait ==
  [][(\E c \in Callers : pc[c] = "wgWait") => wg' <= wg]_vars

\* factory.go:164-184: callers that race for the same type share one informer,
\* so that what a caller holds is what Start runs.
SharedInformer ==
  \A c \in Callers :
    pc[c] = "idle" /\ got[c] # 0 => informers[arg[c]] = got[c]

\* factory.go:215-224: Shutdown returns once the channels are closed, also when
\* several calls wait, while other goroutines keep calling the factory.
ShutdownReturns ==
  \A c \in Callers :
    (pc[c] \in {"Shutdown", "wgWait"} /\ closed = Channels) ~> pc[c] = "idle"

\* factory.go:226-227: WaitForCacheSync returns when its channel is closed, even
\* if an informer it waits for never syncs.
WaitReturns ==
  \A c \in Callers :
    (pc[c] \in {"Wait", "syncWait"} /\ arg[c] \in closed) ~> pc[c] = "idle"

=============================================================================
