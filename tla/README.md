# Verification of tech-stack-collection

The repository is a collection of runnable demonstrations: Kubernetes
controllers and clients, database transactions and locks, HTTP and WebSocket
servers, service scaffolding, and much configuration of third-party systems.
This directory holds TLA+ models of the parts with control logic of their own,
TLC configurations that check them on small instances, and proofs, checked by
TLAPS, of what holds for every instance.

Run a check with `tlc -config PodSafety.cfg MCPodController.tla`, a proof with
`tlapm PodControllerProofs.tla`; `PROJECT.json` lists every run with its
properties, the source lines of every definition, the hazards and the theorems.

## 1. Inventory

Paths are relative to `src/`. "Hard" names the behaviour that a test hardly
reaches; the line-by-line list is under `hazards` in `PROJECT.json`.

### Pod controller: `kubernetes/dev/controller/sec-01-stdout/main.go`

- State: the indexer (local store), the rate-limited work queue (FIFO, dirty and
  processing sets, delayed adds, failure counts), `stopCh`; on the other side of
  the watch the API server's pods.
- Operations: the informer's three handlers, `processNextItem`, `syncToStdout`,
  `handleErr`, `Run`, `runWorker`.
- Interaction: handlers and workers share only queue and store; the API server
  reaches the informer through list and watch; `Run` shuts the queue down.
- Hard: an event during processing, a store read that is stale when printed,
  retries that meet new events, watches that break while pods are deleted,
  shutdown while workers and informer go on.
- Correct when: no pod is processed twice at once, no change is forgotten, the
  retry limit holds, the output follows the server, and it stops drained.

### Shared informer factory: `.../sec-02-sample/pkg/generated/informers/externalversions/factory.go`

- State: `lock`, `informers`, `startedInformers`, `wg`, `shuttingDown`.
- Operations: `Start`, `Shutdown`, `WaitForCacheSync`, `InformerFor`, from any
  goroutine; one goroutine per started informer.
- Interaction: through the mutex, the wait group and the callers' stop channels.
- Hard: `Start` against `Shutdown`, `wg.Add` against `wg.Wait`, concurrent
  `Shutdown`s, waits for caches that never sync, two callers for one type.
- Correct when: its doc comments (lines 213-231) hold.

### Deployment programs: `kubernetes/dev/basics/sec05-client-go/{typed,dynamic}-create-update-delete-deployment/main.go`

- State: one deployment in the API server with its resource version; in each
  program the copy it got and the attempts left.
- Operations: create, get and update under `RetryOnConflict`, list, delete.
- Interaction: only through the API server, with other clients.
- Hard: writes between get and update, lost answers, deletion and re-creation,
  a deployment that is still being deleted.
- Correct when: others' changes are preserved (main.go:101-104), and the retry
  loop ends and gives up only for a reason.

### Clientset tour: `kubernetes/dev/basics/sec05-client-go/clientset/main.go`

- State: the pod as `Create` returned it, the deployment as `Update` and the last
  `Get` returned it; in the API server the pod and the deployment.
- Operations: five deletes of one pod, with grace period, UID and resource
  version; create, blind update, patch loop (387-439), two applies, watch.
- Interaction: through the API server, with scheduler, kubelet, controller and
  other clients.
- Hard: the pod changes or is replaced between the calls; the patch is computed
  from a copy that is older than what the loop reads.
- Correct when: the preconditions hold other clients' pods harmless, and the
  patch changes what was read and nothing else.

### Reverse proxy: `network/layer-7-application/http/proxy/go/proxy.go`

- State: four servers in one process, a context, a wait group, the route map.
- Operations: launch, listen, fail, shut down with a timeout; accept, route,
  forward and answer requests; a simple and a graceful main.
- Hard: proxy and targets shut down at once, servers that fail to listen, a
  start-up that is ordered by a sleep only, routing by map order.
- Correct when: the graceful version cuts no request off, ends on a signal, and
  routes as it prints.

### WebSocket: `network/layer-7-application/websocket`

- `wss/handler`, `wss/client` (Go): a handler goroutine per connection, a map of
  clients under an RWMutex; a client with a reader goroutine and a select loop.
  Hard: breaks, vanished hosts, the close handshake against its timer. Correct
  when echoes keep their order, a clean close loses nothing, and every ended
  connection leaves the map. `broadcastMessage` and `sendToClient` have no caller.
- `index.js` (Node.js): an array of clients and a broadcast. Correct when all
  clients see one conversation and the array holds the connected clients.

### Redis transactions: `db-engines/redis/transaction`

- `ex04-watch.go`: a transfer under WATCH with a retry loop, and a client that
  overwrites the balance. Hard: what comes between read and write. Correct when
  a conflict is noticed and retried.
- `ex01` to `ex03`: fixed command lists of one client.

### MySQL locks: `db-engines/mysql/locks`

- `case-01` to `case-08`: two or three sessions against InnoDB's record and gap
  locks, ordered by unbuffered channels; the sessions that hold locks in 01-07
  never commit, and 08 ends in a deadlock. `shared/phantom-read.go`: three locking
  reads under READ COMMITTED. `metadata/demo.go`: LOCK TABLES and a condition
  variable that may be signalled before anyone waits.
- State: the table with its two indexes, the locks and the queue of waits, each
  session's transaction and position in its script, the wait group.
- Hard: statements take their locks one at a time and meet between any two of
  them; a connection lost between two calls takes the transaction and its isolation
  level with it without an error, one lost during a call may have carried it out;
  the server goes on with the statements of a process that has died.
- Correct when: the session that a case labels "blocked" is, and nobody else; the
  program ends, by the error it is there to show or by none.

### The rest

- `network/layer-7-application/http/1.1/*/express.js`: single-threaded examples of
  conditional requests, caching, cookies, redirects, CORS and forms.
- `opentelemetry/tempo/app`, `grpc/grpc-helloworld`: stateless handlers.
- `protocol-buffers/protoc-gen-example`: a sequential code generator.
- `kubernetes/dev/controller/sec-02-sample/*.go`, `kubernetes/dev/operator`,
  `kubernetes/dev/crd`: generated code and straight-line programs.
- `kafka`, `consul`, `nacos`, `prometheus`, `pki`, `vagrant`, `docker`, the
  remaining `kubernetes` and `db-engines` directories: configuration, scripts and
  notes about third-party systems.

## 2. Modules

| Module | Models | Extends / composes |
| --- | --- | --- |
| `WorkQueue` | client-go's rate-limited queue, call by call | |
| `PodController` | API server, reflector, informer, Run, workers | extends `WorkQueue` |
| `PodMirror` | abstract: what the printed output promises | instantiated by `PodController` |
| `InformerFactory` | the factory, its callers and goroutines | |
| `DeploymentUpdate` | programs, other clients, API server, garbage collector | |
| `ClientsetTour` | the tour, other clients, API server, kubelet | |
| `ReverseProxy` | four servers, main, requests | |
| `WsEcho` | handlers, map, connections, clients | |
| `WsChat` | Node.js events and connections | |
| `RedisTransfer` | the two Redis clients and the server | |
| `InnoDB` | (external) row locks, waits, transactions of one table | |
| `LockCases` | the scripts of ten MySQL programs and the actions that run them | extends `InnoDB` |
| `MCClientGo` | one run for both client-go models | extends `DeploymentUpdate` and `ClientsetTour` |
| `MCPodController`, `MCWsChat` | the symmetry sets of the TLC instances | extend the module they are named after |
| `PodControllerProofs`, `InformerFactoryProofs`, `ReverseProxyProofs`, `WsEchoProofs`, `WsChatProofs`, `LockCasesProofs` | theorems | extend the module they are named after and TLAPS |
| `ClientGoProofs` | theorems about both client-go models | extends `MCClientGo` and TLAPS |
| `LockOrderProofs` | theorems about who waits for whom in `LockCases` | extends `LockCasesProofs` |

A definition whose name ends like a defect (`AddWhileProcessing`,
`ReturnBeforeProxy`, ...) and that stands in front of an operation is a faulty
variant of it, used to show that the property can fail. No `Next` uses one.

### How state and actions correspond to the code

**WorkQueue, PodController.** `queue`, `dirty`, `processing`, `waitingForAdd`,
`failures` and `shuttingDown` are the library's fields of those names; each
operator is one library call, atomic because the library holds its own lock.
Delays are dropped: a delayed add is ready at any later time. A pod is a key and
a version, 0 for "absent". `ChangePod`, `List` and `BreakWatch` are server and
reflector; `UpdateStore` and `HandleEvent` the informer's two steps (store, then
handler). A relist delivers a deletion it has missed as a tombstone; `EventKey` is the
choice of key function in the three handlers, and a key function that fails adds no
key. `Stop` is any caller of `Run` that closes `stopCh`: `main` itself never does,
since its `defer close(stop)` stands before `select {}`.
`RunStart`/`RunSynced`/`RunReturn` are `Run`, and the worker's actions follow `processNextItem` from `Get` to the deferred `Done`: `SyncRead` and
`SyncReport` are apart because the store may change between them, `HandleErr`
and `HandleRetry` because the comparison and the increment are two calls. The
code runs one worker; `Run` takes the number, so the model does.

**InformerFactory.** One action per stretch of code between two points where
another goroutine could come in. `pc` says where a caller stands; `Locked` are
the points where it holds `f.lock`. An informer is its running number, so that
two informers of one type are told apart. `runner[t]` is the goroutine of line
123 from `go` to `wg.Done`.

**DeploymentUpdate.** The deployment is its resource version, its two edited
fields and `note`, a field that only other clients write, with the version of the
last such write. `WriteCopy` sends the whole copied object with the two fields
set, which is what makes a stale copy dangerous. `UpdateOK`, `UpdateConflict` and
`UpdateNotFound` are the server's answers; `CallFails` and `UpdateAnswerLost` the
network's; `PressReturn` panics if the scanner fails. `Delete` is in the foreground:
the object stays until `Collect`.

**ClientsetTour, MCClientGo.** One action per API call, in the order of `main`;
`step` is the next call. A pod is its UID, its resource version, whether it has a
node and whether it is being deleted; `DeleteStored` is the server's answer to a
delete: at once without a node, a mark with one. A deployment is its resource
version, replicas, container name (the blind Update renames it) and `note`, an
annotation of somebody else. `Patched` is the strategic merge patch field by
field: what differs between `existingDep` and the copy of `updatedDep`. `Refused` is the
exit on an answer that main prints and ends with; after `CarriedOut` the answer may be
lost, which is a panic with the change in place. Server-side
apply with Force takes over the replicas and changes nothing if they are as wanted.
`MCClientGo` lets an instance run either model; they share no object.

**ReverseProxy.** `run` is a server's goroutine, `serve` its `ListenAndServe`,
which may only get going after the shutdown has begun (`ListenTooLate`). A
request is followed from accept to answer; paths are the four that the program
prints. `Route` picks any matching route: Go's map order. `BadGateway` is
the ErrorHandler's 502, at any transport error: the target may be down, reset the connection
or still work on the request, or the client may have gone. Read and write timeouts
of 30 s are left out; they are longer than the ten seconds of a shutdown.

**WsEcho.** `up` and `down` are a connection's two directions. `cut` are
connections that broke and both ends know it, `gone` clients whose host vanished.
The library's default close handler answers a close frame (`ServerReadClose`).
The deferred calls run in reverse order: `OnClose`, then `ServerClose`.

**WsChat.** An event handler is one action, as Node.js runs it. `log` and `joined`
are history variables for the property.

**RedisTransfer.** One action per command; `Pipelined` is two commands with room
between them, because no MULTI/EXEC is sent. The retry branch is there, and
nothing ever sets the error it waits for. `conflict` is a history variable.

**InnoDB, LockCases.** A program is data (prepared rows, `wg.Add`, a script per
session, the label "blocked" on statements that carry it); the actions run any of
them. A statement is `Start`, then one `Proceed` or `Wait` per lock, then `Return`
when execSQL returns. Records of the primary key are `<<id, id>>`, of index `c`
`<<c, id>>`; `ScanKind` says which of record, gap or next-key a scan takes,
`Inherited` that an insert splits a gap. `undo` is what a rollback restores; a scan
passes over a row whose insert was undone while it waited. `waits` is a session's
queued request, `before` who queued earlier; `Blockers` are the holders of granted
locks and of earlier requests that a request conflicts with.
`LockWaitTimeout`, 50 s in the server, passes only when no session can move: every
other step and sleep is far shorter.
A connection may be lost between any two calls of its session (`LostBetween`): database/sql
opens a new one for the next call without a word, and the server gives up what it kept for
the old one (`Close`: transaction, locks, isolation level, table lock). Or it is lost during
any call (`LostInCall`): the caller has an error and panics, while the server may not have
begun the statement, may be at any lock of it or may be done. After the first panic
no goroutine goes on (`ProcessDies`), but the server does: a statement may still wait, go on,
and commit with nobody to answer (`NobodyToAnswer`), until the server notices the closed
connections one after the other (`HangUp`, `AllClosed`).
`preparingData` is the initial state: its errors are only logged (`handleErr`), and main
goes on with whatever table is there; the programs are followed from where it has
succeeded. Sleeps are no steps: anything may come between two steps anyway. The demo's
statements on `inventory` matter for the table lock only.

## 3. Runs

| Run | Instance | Shows |
| --- | --- | --- |
| `pod_safety` | 2 pods with 2 changes, 2 workers, 2 failing reads, limit 1 | `NeverInParallel`, `NoLostChange`, `QueueShape`, `RetryBudget`, `DrainedBeforeExit` |
| `pod_liveness` | 1 pod with 2 changes, 2 workers, 2 failing reads, 1 broken watch, tombstones | `PrintsLikeMirror` (refinement), `EventuallyPrinted`, `StopTerminates` |
| `factory` | 1 type, 2 callers, 2 channels | `ShutdownIsFinal`, `NoAddDuringWait`, `SharedInformer`, `ShutdownReturns`, `WaitReturns` |
| `deployment` | 2 programs, 2 attempts, writes up to version 5; or the tour, others' writes up to 9 | `NotesKept`, `ConflictsHaveCauses`, `RetryEnds`; `OnlyOwnPodDeleted`, `PatchSeesLatest` |
| `clientset_patch` | the tour, others' writes up to 8 | **violation** of `PatchesWhatItRead` |
| `proxy` | 1 request, both modes | `NothingCut`, `SignalEnds` |
| `proxy_routing` | 1 request | **violation** of `RoutedAsPrinted` |
| `echo` | 2 clients, 2 ticks | `EchoInOrder`, `CleanClose`, `Unregistered` |
| `chat_safety` | 3 clients, 1 message each | `OneConversation` |
| `chat_listing` | 2 clients | **violation** of `ListedAreConnected` |
| `redis_watch` | the two clients | **violation** of `ConflictIsRetried` |
| `mysql_locks` | all ten programs, case 02 with its six combinations of statements, any number of replaced connections, a call of any session lost | `BlockedAsLabelled`, `OnlyLabelledWait`, `ErrorsAsShown`, `NothingOfA`, `ShowsPhantoms`, `ReadsAfterUnlock`, `ProgramEnds` |

One run of each module also checks its `TypeOK` (`TypesOK` joins the two of
`deployment`). Every passing property has a
faulty variant of an operation under which TLC finds it violated.

**Bounds.** Two workers, callers, programs or clients are the least that race,
and two pods or types the least that can be confused; the code treats all of them
alike, so a third would only repeat the pairs. `MaxVersion` bounds the writes of
the environment: with the pods that are there at the start, two changes are enough
for one before and one after a worker's read, or one on each side of a broken
watch, of which the second may be a deletion that only the relist shows. One type
is enough for the factory because callers meet at the lock and at one type's
entry; the theorems cover more types and callers. `MaxErrors` exceeds the retry
limit, so that a key is given up; the limit itself is 1 instead of 5 here, and the
theorem `RetryBudgetHolds` covers every limit. `Steps` is 2 instead of 5 in
`deployment` (the loop's body does not depend on the count), with enough writes to
exhaust it and to delete and re-create the deployment. One request is enough for
the proxy: requests meet only in `Active(s) = {}`. `MaxTicks` 2 lets a tick be sent while the
other's echo is under way. `MaxClock` lets the others write before, between and after the tour's deletes and
again before and inside the patch loop: the tour itself makes at most
eleven. `MaxDrops` 4 exceeds the number of sessions, so
that every one may have its connection replaced, and again; losses during a call are not
bounded, the first ends the process. Symmetry is used in safety runs only.

**Deadlock.** It is checked for the factory. The other systems really come to rest:
when the bounded environment has made its last change, or when all programs have
ended; that they end, and do not merely stop, is what `StopTerminates`,
`RetryEnds`, `SignalEnds` and `ProgramEnds` are for.

**Fairness.** Weak fairness of every goroutine's next step, since the Go
scheduler lets a runnable goroutine run; strong fairness of `f.lock.Lock()`, since
`sync.Mutex` hands the lock to a waiter that starves. The reflector re-lists
after a broken watch, and a delayed add is released, because client-go does both
by timers. InnoDB's detector and its timer are served, and the
server closes the connections of a dead process sometime, so `DeadlockFound`,
`LockWaitTimeout`, `HangUp` and `AllClosed` are fair steps of a session. Never fair:
changes, failures, breaks, lost connections, interrupts, the user's Return key, calls and the closing of channels. `SignalEnds` assumes nothing of the
requests: a handler may hang, which is what `ShutdownExpires` is for.

## 4. Findings

1. `proxy_routing`: the routes are tried in map order and `/` is a prefix of
   every path, so requests for `/api` and `/static` may go to the default target.
2. `chat_listing`: the close handler compares records with sockets and removes
   nothing.
3. `redis_watch`: `tx.Pipelined` runs outside MULTI/EXEC, so the watch never
   protects the transfer and the retry is dead code: a SET between the Get and the
   writes, or between the two writes as in the run's trace, goes unnoticed.
4. `clientset_patch`: the patch loop reads the deployment but patches it towards a
   copy made before the loop: what others wrote in between is set back, with the
   optimistic lock's consent because the version is that of the read.

## 5. Proofs

**PodController** (any keys, workers, limits and bounds; assumptions
`KeysAssumption`, `RetriesAssumption`, `BoundsAssumption`: no key is `NoKey`, the
limits are naturals).

- `ShapeInvariant`: `ShapeInv` joins the types with the exact relation of queue,
  processing set and workers' keys. `NeverInParallel` alone is not inductive: two
  workers could be handed a key that is queued twice or queued while processed,
  so the invariant has to say that the FIFO has no duplicates, holds the dirty
  keys that nobody processes, and that a worker holds a key from `Get` to `Done`
  and the processing set is made of those keys.
- `TypeCorrect`, `QueueShapeHolds`, `NeverInParallelHolds` follow.
- `NoLostChangeHolds`: the strengthening says of a worker between its read and
  its print that what it read is the store's, or that the key is pending anyway
  (`StaleReadNoticed`); without it the print could make the difference unnoticed.
- `DrainedBeforeExitHolds` adds `DrainInv`: a
  queue that is not empty after a worker has left has a worker that goes on to Get.
- `RetryBudgetHolds`: a worker at "requeue" has seen a count below the limit, and
  no other worker can count for its key, which is `NeverInParallel` again.

**PodMirror.** `PrintsLikeMirrorHolds`: the controller implements `PodMirror`, with
`printed` mapped to `reported` and `excused` to the dropped keys (all, once
stopped). A version travels from the server over the deltas, the store and a
worker's copy to the printed line; `OrderInv` says that none overtakes another along
that way, which needs `NeverInParallel` for the last stretch: two workers with
copies of one pod could print them in the wrong order. `MirrorInit` and `MirrorNext`
are the initial states and the steps.

**InformerFactory** (any finite set of types, any callers and channels;
`FiniteAssumption`, `NoneAssumption`).

- `FactoryInvariant`: the lock holder is the one caller at a locked step, `wg`
  counts the live goroutines, started informers are those with a goroutine, a
  caller in `Wait` or past it implies `shuttingDown`, and a caller inside the
  `Start` loop implies that it is not set. The last two need each other: the flag
  is set under the lock that the loop holds.
- `ShutdownIsFinalHolds`, `NoAddDuringWaitHolds` follow; `SharedInformerHolds` adds
  that a caller about to make an informer has found none, which the lock keeps true.

**Client-go** (`ClientGoProofs`; any programs, attempts and bounds;
`StepsAssumption`). The theorems are about `MCClientGo`, whose behaviours
`RunImplements` shows to be behaviours of both models.

- `DeploymentInvariant`: a copy with the object's resource version has its note
  (`CopyInv`), and the versions since a program entered its loop are at least its
  used-up attempts, one more while its copy is out of date (`TriesInv`).
  `NotesKeptHolds` and `ConflictsHaveCausesHolds` follow.
- `TourInvariant`: the pod is gone, as `Create` left it, or newer, and not as
  `Create` left it once a delete has gone through; a resource version determines the
  deployment's state. Hence `OnlyOwnPodDeletedHolds` and `PatchSeesLatestHolds`.
- `TypesCorrect` joins the types of the two.

**ReverseProxy** (any requests). `ProxyInv` adds to `NothingCut` that a server that
is shut down no longer listens and that the proxy's `Shutdown` returns in time only
without active requests; `NothingCutHolds`.

**WsEcho** (any clients, any number of ticks). `Pipe`: along a connection, the ticks
read, on the way back, held by the handler and on the way there stand in a row and
add up to those sent. `Handshake`: the close frame goes up only from a waiting
client and comes back only behind the last echo. `EchoInOrderHolds`,
`CleanCloseHolds`.

**WsChat** (any clients and messages; `BoundAssumption`). `ChatInv`: received and
outbox of a client are adjoining stretches of the log from where it joined, up to
its end while the connection is open. `OneConversationHolds`.

**LockCases** (the ten programs, any number of lost connections; `SessionNames`,
which only says that the sessions are called A, B and C as in the code). `TypeInv`
says what a program must look like (`WellTyped`, shown of each of the ten) and what
locks, waits, undo logs and statements under way then are; `TypesCorrect` follows.

- `PhantomsShow`: `ShowsPhantoms` speaks of the end only, so the invariant has to
  follow the reads record by record. `PhantomPlaces` ties the three positions together
  (the unbuffered channels leave only a few triples), `PhantomRows` says which of four
  contents the table has at each, `PhantomScan` that A's SELECT has collected exactly
  the rows with d = 5 in front of the record it stands at. A session that failed never
  goes on, so that main does not return, though the server may end its statement;
  an idle session whose connection is replaced has nothing to undo and goes on from where
  it stands.
- `NothingOfASurvives`: a `Planned` program has a plan of who writes which ids, which
  column every id has and where an insert stands in its script; `ProgramsPlanned` finds
  one for every program, so that the rest of the proof never looks at a script again.
  The invariant `Stored` then says that
  records stand where the plan puts them (`Columns`, `Stands`: otherwise a scan by
  index `c` could reach a row of another session), that an undo log holds just its
  session's ids with the prepared rows or `NoRow` (`Writes`), that a row nobody is
  writing is prepared, `Inserted` or the insert of a session whose call has failed
  (`Unanswered`), and not half-done (`Settled`), that B and C have
  nothing to undo between statements (`EndsEach`), and that A stays in the
  transaction it began until its connection is closed (`KeepsTx`). When all connections are
  closed there is nothing left to undo, so that the table is what
  `NothingOfA` says (`StoreEnds`). The hypothesis that A's connection was not replaced
  is the property's: without it A may go on outside a transaction, and what it writes stays.

Who waits for whom (`LockOrderProofs`) is the hardest part: InnoDB's locks move when
gaps split, a connection of B or C may be lost at any record, and nothing but A's
locks keeps the labelled statements back. `LabelsHold`, `OthersGoOn`, `ErrorsAreShown` and
`ReadsComeLate` follow from one invariant, `OrderInv`, in three layers. What excuses them is
in the properties: a labelled statement may return once A has lost a connection (`LostA`:
replaced, or broken in a call); a statement without a label waits for A only in the phantom
program, when A reads at REPEATABLE READ because the connection it had set to READ COMMITTED
was replaced before BEGIN (`AtDefaultLevel`); and that program may then end by a timeout.

- *Static, program by program* (`CasePlan`): the ids at which A's scan stops, one after
  the other (`Walks`), the locks it has then (`Held`), and of every statement of B and
  C that those locks bar it (`Barred`: an insert meets a locked gap in one index
  whatever rows the other has added by then, a scan a locked record first) or that
  nothing it can ask for conflicts with them (`Unhindered`). `Case01Plan` to `Case08Plan`
  show it of the cases, case 02 with all its alternatives. `Nexts` and `Begins` quantify
  over every table that has at least the prepared rows and at most the planned ones, which is
  what makes "locks are taken one by one" manageable: the record that a scan or an
  insert meets next depends on what the other session has inserted so far.
- *Dynamic, for every program that has such a plan* (`CaseInv`, `CaseStep`): A stands
  at a stop of its walk and has the locks of the stops behind it (`AWalks`); from then on
  it has all of `Held` while it has its transaction (`RunsA`), which outlives A's goroutine
  until the server notices; B and C have only locks of the
  statement under way (`Alone`), every queued request is one that the statement can ask
  for (`Queued`), and a barred statement stands in front of its bar (`AtGate`). A barred
  insert may pass the primary index when it is barred in `c`.
- *Cycles and timeouts*: a session waits for A only with a labelled statement (`LockOfA`);
  A waits only in case 08, for B (`AWaits`); B and C never wait for each other in a cycle,
  because only an insert waits for a scan and never the reverse (`WorkersWait`,
  `AllApart`). Hence `DeadlockShows` and `TimeoutShows`. They are also why A itself never
  times out, so that `Held` lasts.

The phantom and the table lock demo have no plan of this kind.

- The demo is `DemoCalm`: no request is ever queued. `DemoInv` ties B's position to A's and
  to `tableLock`: B is past its condition only after A's broadcast, and past its read only
  after A's unlock, or after A has lost a connection.
- The phantom program is `PhantomCalm`. In its READ COMMITTED transaction A has locked rows
  it has shown and no gap, at first only row 5 (`LocksOfA`), and nothing B or C ask for
  conflicts with those; at the default level it has locked everything, and `PhantomQueue`
  says for which request B or C then wait (`PhantomBars`). A itself never waits, so there is
  no cycle (`PhantomWaits`).

Every other proof module also has its `TypeCorrect`.

**Model-checked only.** Liveness (TLAPS 1.4.5 has no fairness and ENABLED):
`EventuallyPrinted`, `StopTerminates`, `ShutdownReturns`, `WaitReturns`,
`RetryEnds`, `SignalEnds`, `Unregistered`, `ProgramEnds`. And the four violations.
Every safety and action property of a passing run is a theorem.

## 6. Plan

Done, in this order: pod controller, factory, deployment programs, reverse proxy,
WebSocket programs, Redis transfer, clientset tour, MySQL programs; then the
proofs, last those of `LockOrderProofs`. What follows: `protoc-gen-example` as
operators over abstract descriptors; and the fair refinement of `PodMirror`
(`PodMirror!FairSpec`), should the prover's reach allow it.

## 7. Not modelled

Times (a timer fires at any moment after it is set; exceptions are named above),
logging, TLS, contents of messages and manifests; the statements that cases 05 (line 61)
and 07 (line 48) keep as comments without saying what they block; dial and upgrade failures, which
end a program before it has state; `broadcastMessage` and `sendToClient` of the wss
handler, which nothing calls; `getConfig1` to `getConfig6` of the clientset tour;
the Redis examples 01 to 03 and the tracing demos, which have no interleaving or no
state; generated code (`*.pb.go`, clientsets, kubebuilder scaffolding);
configuration and scripts of third-party systems.
InnoDB is modelled as far as these programs use it: version 8.0 (`case-03`'s README
names 8.0.36), default isolation REPEATABLE READ, one table, queued locks granted in
order of arrival, cycles of two sessions.
Components left out are listed with their reasons in `PROJECT.json`.
