--------------------------- MODULE PodController ---------------------------
(***************************************************************************)
(* The pod controller of kubernetes/dev/controller/sec-01-stdout/main.go:  *)
(* an informer goroutine that mirrors the API server's pods into a local   *)
(* store and adds the key of every change to the work queue, the worker    *)
(* goroutines that take keys and report the pod they find in the store,    *)
(* and Run, which starts the workers once the store is warm and shuts the  *)
(* queue down when stopCh is closed.                                       *)
(*                                                                         *)
(* A pod is its key and a version; version 0 stands for "no such pod".     *)
(***************************************************************************)
EXTENDS WorkQueue, Integers, FiniteSets

CONSTANTS
  Workers,          \* the goroutines that Run starts (threadiness of them)
  NoKey,            \* no key: what a worker or the informer holds when idle
  MaxRetries,       \* the retry limit of handleErr: 5 in the code
  MaxVersion,       \* bound: the pods change MaxVersion - 1 times
  MaxErrors,        \* bound: failing reads of the store
  MaxDisconnects    \* bound: watches that break and lose events

ASSUME KeysAssumption    == NoKey \notin Keys
ASSUME RetriesAssumption == MaxRetries \in Nat
ASSUME BoundsAssumption  == /\ MaxVersion \in Nat \ {0}
                            /\ MaxErrors \in Nat
                            /\ MaxDisconnects \in Nat

Absent   == 0
Versions == 0 .. MaxVersion

\* What the informer is handed for a pod: a version of it, Absent for a deletion
\* that the watch saw, or a tombstone (DeletedFinalStateUnknown) for one that
\* only the next list could tell.
Tombstone    == -1
Objects      == Versions \cup {Tombstone}
VersionOf(d) == IF d = Tombstone THEN Absent ELSE d

VARIABLES
  \* The API server, and the reflector's watch on it.
  pods,             \* pods[k]: the version of pod k on the server, or Absent
  version,          \* the last version the server handed out
  deltas,           \* deltas[k]: objects sent for k and not yet popped
  watching,         \* a watch is established: changes reach deltas
  listed,           \* the first list has been taken
  initialKeys,      \* keys of the first list whose handler has not run yet
  \* The informer goroutine.
  store,            \* store[k]: the indexer's version of k, or Absent
  notifying,        \* the key whose store entry is updated and whose handler
                    \* is still to run, or NoKey
  object,           \* the object that the handler will be called with
  \* Run and the workers.
  runState,         \* where Run stands
  stopped,          \* stopCh is closed
  wpc, wkey,        \* where each worker stands, and the key it holds
  wseen,            \* the version GetByKey returned to it, until it prints it
  \* What the outside sees.
  reported,         \* reported[k]: the version the last sync of k printed
  dropped,          \* keys given up by handleErr and not taken up since
  errors, breaks    \* bounded counters of failed reads and broken watches

serverVars   == <<pods, version, deltas, watching, listed, initialKeys>>
informerVars == <<store, notifying, object>>
runVars      == <<runState, stopped>>
workerVars   == <<wpc, wkey, wseen>>
outputVars   == <<reported, dropped>>
boundVars    == <<errors, breaks>>
vars == <<queueVars, serverVars, informerVars, runVars, workerVars,
          outputVars, boundVars>>

RunStates    == {"new", "waiting", "running", "returned"}
WorkerStates == {"none", "start", "get", "sync", "report", "ok", "failed",
                 "requeue", "giveUp", "done", "exited"}
Holding      == WorkerStates \ {"none", "start", "get", "exited"}

Init ==
  /\ WorkQueueInit
  /\ pods \in [Keys -> {Absent, 1}]
  /\ version = 1
  /\ deltas = [k \in Keys |-> <<>>]
  /\ watching = FALSE
  /\ listed = FALSE
  /\ initialKeys = {}
  /\ store = [k \in Keys |-> Absent]
  /\ notifying = NoKey
  /\ object = Absent
  /\ runState = "new"
  /\ stopped = FALSE
  /\ wpc = [w \in Workers |-> "none"]
  /\ wkey = [w \in Workers |-> NoKey]
  /\ wseen = [w \in Workers |-> Absent]
  /\ reported = [k \in Keys |-> Absent]
  /\ dropped = {}
  /\ errors = 0
  /\ breaks = 0

-----------------------------------------------------------------------------
(* The API server and the reflector (client-go).                           *)

\* A pod is created, updated or deleted on the server.  An established watch
\* carries the change; without one only the next list can tell.
ChangePod(k) ==
  /\ version < MaxVersion
  /\ version' = version + 1
  /\ \E v \in {Absent, version'} :
       /\ v # pods[k]
       /\ pods' = [pods EXCEPT ![k] = v]
       /\ deltas' = IF watching THEN [deltas EXCEPT ![k] = Append(@, v)]
                                ELSE deltas
  /\ UNCHANGED <<queueVars, watching, listed, initialKeys, informerVars,
                 runVars, workerVars, outputVars, boundVars>>

\* The version the informer will have in its store for k once it has popped
\* what it has received so far.
KnownVersion(k) ==
  IF deltas[k] = <<>> THEN store[k] ELSE VersionOf(deltas[k][Len(deltas[k])])

\* List and Replace: every listed pod is delivered again, and a pod that the
\* informer knows and the list lacks is delivered as a tombstone.  The reflector
\* then watches from there.
List ==
  /\ runState # "new"
  /\ ~watching
  /\ ~stopped
  /\ watching' = TRUE
  /\ deltas' = [k \in Keys |->
                  CASE pods[k] # Absent -> Append(deltas[k], pods[k])
                    [] pods[k] = Absent /\ KnownVersion(k) # Absent ->
                         Append(deltas[k], Tombstone)
                    [] OTHER -> deltas[k]]
  /\ listed' = TRUE
  /\ initialKeys' = IF listed THEN initialKeys
                              ELSE {k \in Keys : pods[k] # Absent}
  /\ UNCHANGED <<queueVars, pods, version, informerVars, runVars, workerVars,
                 outputVars, boundVars>>

\* The watch breaks, or is closed because stopCh is.
BreakWatch ==
  /\ watching
  /\ watching' = FALSE
  /\ IF stopped THEN UNCHANGED breaks
                ELSE breaks < MaxDisconnects /\ breaks' = breaks + 1
  /\ UNCHANGED <<queueVars, pods, version, deltas, listed, initialKeys,
                 informerVars, runVars, workerVars, outputVars, errors>>

-----------------------------------------------------------------------------
(* The informer goroutine: it updates the store, then calls the handler.   *)

\* HasSynced: the first list is taken and the handlers of its pods have run.
HasSynced == listed /\ initialKeys = {}

UpdateStore(k) ==
  /\ notifying = NoKey
  /\ deltas[k] # <<>>
  /\ store' = [store EXCEPT ![k] = VersionOf(Head(deltas[k]))]
  /\ deltas' = [deltas EXCEPT ![k] = Tail(@)]
  /\ notifying' = k
  /\ object' = Head(deltas[k])
  /\ UNCHANGED <<queueVars, pods, version, watching, listed, initialKeys,
                 runVars, workerVars, outputVars, boundVars>>

\* The key functions of client-go: one does not know tombstones and returns an
\* error for them, which is NoKey here.
MetaNamespaceKeyFunc(k, obj) == IF obj = Tombstone THEN NoKey ELSE k
DeletionHandlingMetaNamespaceKeyFunc(k, obj) == k

\* A DeleteFunc that takes the key function of the other handlers.
SameKeyFunc(k, obj) == MetaNamespaceKeyFunc(k, obj)

\* The key that the handler computes: DeleteFunc is called for deletions, AddFunc
\* and UpdateFunc for the rest.
EventKey(k, obj) ==
  IF VersionOf(obj) = Absent THEN DeletionHandlingMetaNamespaceKeyFunc(k, obj)
                             ELSE MetaNamespaceKeyFunc(k, obj)

\* A handler that adds whatever key it has, also none (no "if err == nil").
HandleEventAnyKey ==
  /\ Add(notifying)
  /\ notifying' = NoKey
  /\ object' = Absent
  /\ initialKeys' = initialKeys \ {notifying}
  /\ UNCHANGED <<pods, version, deltas, watching, listed, store, runVars,
                 workerVars, outputVars, boundVars>>

\* AddFunc, UpdateFunc and DeleteFunc: if err == nil { queue.Add(key) }.
HandleEvent ==
  /\ notifying # NoKey
  /\ IF EventKey(notifying, object) # NoKey THEN Add(EventKey(notifying, object))
                                           ELSE UNCHANGED queueVars
  /\ notifying' = NoKey
  /\ object' = Absent
  /\ initialKeys' = initialKeys \ {notifying}
  /\ UNCHANGED <<pods, version, deltas, watching, listed, store, runVars,
                 workerVars, outputVars, boundVars>>

-----------------------------------------------------------------------------
(* Controller.Run.                                                         *)

\* go c.informer.Run(stopCh), then WaitForCacheSync.
RunStart ==
  /\ runState = "new"
  /\ runState' = "waiting"
  /\ UNCHANGED <<queueVars, serverVars, informerVars, stopped, workerVars,
                 outputVars, boundVars>>

\* WaitForCacheSync returned true: the workers are started.
RunSynced ==
  /\ runState = "waiting"
  /\ HasSynced
  /\ runState' = "running"
  /\ wpc' = [w \in Workers |-> "start"]
  /\ UNCHANGED <<queueVars, serverVars, informerVars, stopped, wkey, wseen,
                 outputVars, boundVars>>

\* Run without the deferred ShutDown.
RunReturnNoShutDown ==
  /\ runState \in {"waiting", "running"}
  /\ stopped
  /\ runState' = "returned"
  /\ UNCHANGED <<queueVars, serverVars, informerVars, stopped, workerVars,
                 outputVars, boundVars>>

\* WaitForCacheSync returned false, or <-stopCh: Run returns, and its deferred
\* call shuts the queue down.
RunReturn ==
  /\ runState \in {"waiting", "running"}
  /\ stopped
  /\ runState' = "returned"
  /\ ShutDown
  /\ UNCHANGED <<serverVars, informerVars, stopped, workerVars, outputVars,
                 boundVars>>

\* A caller of Run closes stopCh.  main.go's own main never does: its deferred
\* close(stop) is behind a select {} without an end.
Stop ==
  /\ ~stopped
  /\ stopped' = TRUE
  /\ UNCHANGED <<queueVars, serverVars, informerVars, runState, workerVars,
                 outputVars, boundVars>>

-----------------------------------------------------------------------------
(* The workers: wait.Until(c.runWorker, ...) around processNextItem.       *)

workerFrame == <<serverVars, informerVars, runVars>>

\* wait.Until looks at stopCh before it calls runWorker for the first time.
WorkerStart(w) ==
  /\ wpc[w] = "start"
  /\ wpc' = [wpc EXCEPT ![w] = IF stopped THEN "none" ELSE "get"]
  /\ UNCHANGED <<queueVars, workerFrame, wkey, wseen, outputVars, boundVars>>

\* key, quit := c.queue.Get()
WorkerGet(w, k) ==
  /\ wpc[w] = "get"
  /\ GetItem(k)
  /\ wpc' = [wpc EXCEPT ![w] = "sync"]
  /\ wkey' = [wkey EXCEPT ![w] = k]
  /\ dropped' = dropped \ {k}
  /\ UNCHANGED <<workerFrame, wseen, reported, boundVars>>

\* quit: runWorker returns, and wait.Until finds stopCh closed.
WorkerQuit(w) ==
  /\ wpc[w] = "get"
  /\ GetQuit
  /\ wpc' = [wpc EXCEPT ![w] = "exited"]
  /\ UNCHANGED <<workerFrame, wkey, wseen, outputVars, boundVars>>

\* syncToStdout: obj, exists, err := c.indexer.GetByKey(key), with err = nil.
SyncRead(w) ==
  /\ wpc[w] = "sync"
  /\ wseen' = [wseen EXCEPT ![w] = store[wkey[w]]]
  /\ wpc' = [wpc EXCEPT ![w] = "report"]
  /\ UNCHANGED <<queueVars, workerFrame, wkey, outputVars, boundVars>>

\* syncToStdout: print what was read, by now perhaps not what the store holds.
SyncReport(w) ==
  /\ wpc[w] = "report"
  /\ reported' = [reported EXCEPT ![wkey[w]] = wseen[w]]
  /\ wpc' = [wpc EXCEPT ![w] = "ok"]
  /\ UNCHANGED <<queueVars, workerFrame, wkey, wseen, dropped, boundVars>>

\* syncToStdout: indexer.GetByKey returned an error.
SyncFail(w) ==
  /\ wpc[w] = "sync"
  /\ errors < MaxErrors
  /\ errors' = errors + 1
  /\ wpc' = [wpc EXCEPT ![w] = "failed"]
  /\ UNCHANGED <<queueVars, workerFrame, wkey, wseen, outputVars, breaks>>

\* handleErr(nil, key)
HandleNil(w) ==
  /\ wpc[w] = "ok"
  /\ Forget(wkey[w])
  /\ wpc' = [wpc EXCEPT ![w] = "done"]
  /\ UNCHANGED <<workerFrame, wkey, wseen, outputVars, boundVars>>

\* handleErr with an off-by-one limit.
HandleErrOffByOne(w) ==
  /\ wpc[w] = "failed"
  /\ wpc' = [wpc EXCEPT ![w] =
               IF NumRequeues(wkey[w]) <= MaxRetries THEN "requeue" ELSE "giveUp"]
  /\ UNCHANGED <<queueVars, workerFrame, wkey, wseen, outputVars, boundVars>>

\* handleErr(err, key): the comparison with the retry limit, a call of its own.
HandleErr(w) ==
  /\ wpc[w] = "failed"
  /\ wpc' = [wpc EXCEPT ![w] =
               IF NumRequeues(wkey[w]) < MaxRetries THEN "requeue" ELSE "giveUp"]
  /\ UNCHANGED <<queueVars, workerFrame, wkey, wseen, outputVars, boundVars>>

HandleRetry(w) ==
  /\ wpc[w] = "requeue"
  /\ AddRateLimited(wkey[w])
  /\ wpc' = [wpc EXCEPT ![w] = "done"]
  /\ UNCHANGED <<workerFrame, wkey, wseen, outputVars, boundVars>>

HandleDrop(w) ==
  /\ wpc[w] = "giveUp"
  /\ Forget(wkey[w])
  /\ dropped' = dropped \cup {wkey[w]}
  /\ wpc' = [wpc EXCEPT ![w] = "done"]
  /\ UNCHANGED <<workerFrame, wkey, wseen, reported, boundVars>>

\* defer c.queue.Done(key); runWorker goes on with the next item.
WorkerDone(w) ==
  /\ wpc[w] = "done"
  /\ Done(wkey[w])
  /\ wpc' = [wpc EXCEPT ![w] = "get"]
  /\ wkey' = [wkey EXCEPT ![w] = NoKey]
  /\ UNCHANGED <<workerFrame, wseen, outputVars, boundVars>>

\* The work queue's own goroutine releases a delayed add.
ReleaseDelayed(k) ==
  /\ DelayedAdd(k)
  /\ UNCHANGED <<workerFrame, workerVars, outputVars, boundVars>>

-----------------------------------------------------------------------------

Server   == List \/ BreakWatch \/ \E k \in Keys : ChangePod(k)
Informer == HandleEvent \/ \E k \in Keys : UpdateStore(k)
Run      == RunStart \/ RunSynced \/ RunReturn
ProcessNextItem(w) ==
  \/ \E k \in Keys : WorkerGet(w, k)
  \/ WorkerQuit(w)
  \/ SyncRead(w) \/ SyncReport(w) \/ SyncFail(w)
  \/ HandleNil(w) \/ HandleErr(w) \/ HandleRetry(w) \/ HandleDrop(w)
  \/ WorkerDone(w)
Worker(w) == WorkerStart(w) \/ ProcessNextItem(w)

Next ==
  \/ Server
  \/ Informer
  \/ Run
  \/ Stop
  \/ \E w \in Workers : Worker(w)
  \/ \E k \in Keys : ReleaseDelayed(k)

Spec == Init /\ [][Next]_vars

\* The goroutines keep running and the reflector reconnects.  Nothing makes a
\* pod change, a watch break, a read fail or the caller stop.
Fairness ==
  /\ WF_vars(List)
  /\ WF_vars(HandleEvent)
  /\ \A k \in Keys : WF_vars(UpdateStore(k))
  /\ WF_vars(Run)
  /\ \A w \in Workers : WF_vars(Worker(w))
  /\ \A k \in Keys : WF_vars(ReleaseDelayed(k))

FairSpec == Spec /\ Fairness

-----------------------------------------------------------------------------
(* Properties.                                                             *)

ServerTypeOK ==
  /\ pods \in [Keys -> Versions]
  /\ version \in Versions
  /\ deltas \in [Keys -> Seq(Objects)]
  /\ watching \in BOOLEAN
  /\ listed \in BOOLEAN
  /\ initialKeys \subseteq Keys

ControllerTypeOK ==
  /\ store \in [Keys -> Versions]
  /\ notifying \in Keys \cup {NoKey}
  /\ object \in Objects
  /\ runState \in RunStates
  /\ stopped \in BOOLEAN
  /\ wpc \in [Workers -> WorkerStates]
  /\ wkey \in [Workers -> Keys \cup {NoKey}]
  /\ wseen \in [Workers -> Versions]
  /\ reported \in [Keys -> Versions]
  /\ dropped \subseteq Keys
  /\ errors \in 0 .. MaxErrors
  /\ breaks \in 0 .. MaxDisconnects

\* The types of the variables.
TypeOK == WorkQueueTypeOK /\ ServerTypeOK /\ ControllerTypeOK

\* main.go:64-66, "two pods with the same key are never processed in parallel":
\* no two workers hold the same key between Get and Done.
NeverInParallel ==
  \A v, w \in Workers : v # w /\ wkey[v] = wkey[w] => wkey[v] = NoKey

\* Something will still look at k: it is marked in the queue, delayed, about
\* to be added by the informer, or a worker has taken it and has not read the
\* store yet, has read what the store still holds, or is handling its error.
Pending(k) ==
  \/ k \in dirty \cup waitingForAdd
  \/ notifying = k
  \/ \E w \in Workers :
       /\ wkey[w] = k
       /\ \/ wpc[w] \in {"sync", "failed", "requeue", "giveUp"}
          \/ wpc[w] = "report" /\ wseen[w] = store[k]

\* The store updates, the handlers' adds, the workers' reads and the retries
\* race, but no change is lost: a pod whose store version was not printed
\* is pending, was given up by handleErr, or came after ShutDown.
NoLostChange ==
  \A k \in Keys : store[k] # reported[k] =>
                    Pending(k) \/ k \in dropped \/ shuttingDown

\* main.go:104, "This controller retries 5 times": also with several workers
\* and with new events arriving between the retries, the requeue count never
\* passes the limit, although handleErr compares and increments it in two calls.
RetryBudget == \A k \in Keys : failures[k] <= MaxRetries

\* Run's deferred ShutDown lets the workers stop, and they stop late enough:
\* once they have all left their loop, every key the queue accepted and did
\* not delay has been processed.
DrainedBeforeExit ==
  /\ \E w \in Workers : wpc[w] = "exited"
  /\ \A w \in Workers : wpc[w] \in {"exited", "none"}
  => queue = <<>> /\ dirty = {} /\ processing = {}

\* The controller implements the promise of PodMirror.  main.go:26-27, "we
\* might see a newer version of the Pod than the version which was responsible
\* for triggering the update", and never an older one than was printed before.
Mirror == INSTANCE PodMirror WITH
            printed <- reported,
            excused <- IF stopped THEN Keys ELSE dropped
PrintsLikeMirror == Mirror!Spec

\* With fairness, also its liveness: a pod whose printed version is out of date
\* is printed again, unless handleErr gave it up or the controller was stopped.
\* A pod deleted while nobody watched counts too: main.go:41-44 chooses the key
\* function that its tombstone needs.
EventuallyPrinted == \A k \in Keys : <>[](reported[k] = pods[k] \/ k \in dropped \/ stopped)

\* Closing stopCh ends Run and every worker.
StopTerminates ==
  stopped ~> /\ runState = "returned"
             /\ \A w \in Workers : wpc[w] \in {"exited", "none"}

=============================================================================
