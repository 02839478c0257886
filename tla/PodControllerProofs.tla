------------------------ MODULE PodControllerProofs ------------------------
(***************************************************************************)
(* Safety of PodController for every set of keys and of workers and every  *)
(* value of the bounds, and that it implements PodMirror.                  *)
(***************************************************************************)
EXTENDS PodController, TLAPS, SequenceTheorems

(***************************************************************************)
(* The FIFO as a sequence without repetition.                              *)
(***************************************************************************)
Distinct(s) == \A i, j \in DOMAIN s : s[i] = s[j] => i = j
Elems(s)    == {s[i] : i \in DOMAIN s}

\* Appending a key that is not in line keeps the line free of repetition: what
\* Add and Done rely on when they append to queue.
LEMMA AppendShape ==
  ASSUME NEW S, NEW s \in Seq(S), NEW k \in S, Distinct(s), k \notin Elems(s)
  PROVE  /\ Append(s, k) \in Seq(S)
         /\ Distinct(Append(s, k))
         /\ Elems(Append(s, k)) = Elems(s) \cup {k}
<1> DEFINE t == Append(s, k)
<1>1. /\ t \in Seq(S)
      /\ Len(t) = Len(s) + 1
      /\ \A i \in 1 .. Len(s) : t[i] = s[i]
      /\ t[Len(s) + 1] = k
  BY AppendProperties
<1>2. /\ Len(s) \in Nat
      /\ DOMAIN s = 1 .. Len(s)
      /\ DOMAIN t = 1 .. Len(s) + 1
  BY <1>1, LenProperties
<1> HIDE DEF t
<1>3. Distinct(t)
  BY <1>1, <1>2 DEF Distinct, Elems
<1>4. Elems(t) = Elems(s) \cup {k}
  BY <1>1, <1>2 DEF Elems
<1> QED BY <1>1, <1>3, <1>4 DEF t

\* Taking the head of a line without repetition removes exactly that key: what
\* Get relies on when it pops from queue.
LEMMA TailShape ==
  ASSUME NEW S, NEW s \in Seq(S), s # <<>>, Distinct(s)
  PROVE  /\ Head(s) \in S
         /\ Head(s) \in Elems(s)
         /\ Tail(s) \in Seq(S)
         /\ Distinct(Tail(s))
         /\ Elems(Tail(s)) = Elems(s) \ {Head(s)}
<1> DEFINE t == Tail(s)
<1>1. /\ Head(s) \in S
      /\ t \in Seq(S)
      /\ Len(t) = Len(s) - 1
      /\ \A i \in 1 .. Len(t) : t[i] = s[i + 1]
  BY HeadTailProperties
<1>2. /\ Len(s) \in Nat /\ Len(s) > 0
      /\ DOMAIN s = 1 .. Len(s)
      /\ DOMAIN t = 1 .. Len(s) - 1
      /\ Head(s) = s[1]
  BY <1>1, LenProperties, EmptySeq
<1> HIDE DEF t
<1>3. Distinct(t)
  <2>1. SUFFICES ASSUME NEW i \in DOMAIN t, NEW j \in DOMAIN t, t[i] = t[j]
                 PROVE  i = j
    BY DEF Distinct
  <2>2. /\ i + 1 \in DOMAIN s /\ t[i] = s[i + 1]
        /\ j + 1 \in DOMAIN s /\ t[j] = s[j + 1]
    BY <1>1, <1>2
  <2>3. i + 1 = j + 1
    BY <2>1, <2>2 DEF Distinct
  <2> QED BY <2>3, <1>2
<1>4. Head(s) \in Elems(s)
  BY <1>2 DEF Elems
<1>5. Elems(t) = Elems(s) \ {Head(s)}
  <2>1. ASSUME NEW x \in Elems(t)
        PROVE  x \in Elems(s) \ {Head(s)}
    BY <1>1, <1>2 DEF Elems, Distinct
  <2>2. ASSUME NEW x \in Elems(s) \ {Head(s)}
        PROVE  x \in Elems(t)
    <3>1. PICK i \in DOMAIN s : x = s[i]
      BY DEF Elems
    <3>2. i - 1 \in DOMAIN t /\ t[i - 1] = s[i]
      BY <1>1, <1>2, <3>1
    <3> QED BY <3>1, <3>2 DEF Elems
  <2> QED BY <2>1, <2>2
<1> QED BY <1>1, <1>3, <1>4, <1>5 DEF t

(***************************************************************************)
(* The queue operations keep the queue's type and shape.                   *)
(***************************************************************************)
LEMMA ShapeByElems == QueueShape <=> Distinct(queue) /\ Elems(queue) = dirty \ processing
BY DEF QueueShape, Queued, Distinct, Elems

\* Enqueueing k if it is not dirty, as Add and a released delayed add do.
LEMMA EnqueueShape ==
  ASSUME WorkQueueTypeOK, QueueShape, NEW k \in Keys,
         processing' = processing,
         IF k \in dirty
           THEN UNCHANGED <<dirty, queue>>
           ELSE /\ dirty' = dirty \cup {k}
                /\ queue' = IF k \in processing THEN queue ELSE Append(queue, k)
  PROVE  queue' \in Seq(Keys) /\ dirty' \subseteq Keys /\ QueueShape'
<1> USE DEF WorkQueueTypeOK
<1>1. Distinct(queue) /\ Elems(queue) = dirty \ processing
  BY ShapeByElems
<1>2. CASE k \in dirty
  BY <1>2 DEF QueueShape, Queued
<1>3. CASE k \notin dirty /\ k \in processing
  BY <1>3 DEF QueueShape, Queued
<1>4. CASE k \notin dirty /\ k \notin processing
  <2>1. queue' = Append(queue, k) /\ dirty' = dirty \cup {k}
    BY <1>4
  <2>2. /\ Append(queue, k) \in Seq(Keys)
        /\ Distinct(Append(queue, k))
        /\ Elems(Append(queue, k)) = Elems(queue) \cup {k}
    BY <1>1, <1>4, AppendShape
  <2>3. Distinct(queue') /\ Elems(queue') = dirty' \ processing'
    BY <1>1, <1>4, <2>1, <2>2
  <2>4. QueueShape'
    BY <2>3 DEF QueueShape, Queued, Distinct, Elems
  <2> QED BY <2>1, <2>2, <2>4
<1> QED BY <1>2, <1>3, <1>4

\* A call of Add keeps the queue's types and its line without repetition.
LEMMA AddShape ==
  ASSUME WorkQueueTypeOK, QueueShape, NEW k \in Keys, Add(k)
  PROVE  WorkQueueTypeOK' /\ QueueShape'
<1>1. CASE shuttingDown
  BY <1>1 DEF Add, WorkQueueTypeOK, QueueShape, Queued
<1>2. CASE ~shuttingDown
  BY <1>2, EnqueueShape DEF Add, WorkQueueTypeOK
<1> QED BY <1>1, <1>2

\* So does a delayed add whose time has come.
LEMMA DelayedAddShape ==
  ASSUME WorkQueueTypeOK, QueueShape, NEW k \in Keys, DelayedAdd(k)
  PROVE  WorkQueueTypeOK' /\ QueueShape'
BY EnqueueShape DEF DelayedAdd, WorkQueueTypeOK

\* Get hands out a dirty key that nobody is processing.
LEMMA GetShape ==
  ASSUME WorkQueueTypeOK, QueueShape, NEW k \in Keys, GetItem(k)
  PROVE  /\ WorkQueueTypeOK' /\ QueueShape'
         /\ k \in dirty /\ k \notin processing
<1>1. Distinct(queue) /\ Elems(queue) = dirty \ processing
  BY ShapeByElems
<1>2. /\ k \in Elems(queue)
      /\ queue' \in Seq(Keys)
      /\ Distinct(queue')
      /\ Elems(queue') = Elems(queue) \ {k}
  BY <1>1, TailShape DEF GetItem, WorkQueueTypeOK
<1>3. Elems(queue') = dirty' \ processing'
  BY <1>1, <1>2 DEF GetItem
<1>4. QueueShape'
  BY <1>2, <1>3 DEF QueueShape, Queued, Distinct, Elems
<1> QED BY <1>1, <1>2, <1>4 DEF GetItem, WorkQueueTypeOK

\* And a worker's Done, which may put the key back in line.
LEMMA DoneShape ==
  ASSUME WorkQueueTypeOK, QueueShape, NEW k \in processing, Done(k)
  PROVE  WorkQueueTypeOK' /\ QueueShape'
<1>1. Distinct(queue) /\ Elems(queue) = dirty \ processing
  BY ShapeByElems
<1>2. k \in Keys
  BY DEF WorkQueueTypeOK
<1>3. CASE k \in dirty
  <2>1. queue' = Append(queue, k) /\ processing' = processing \ {k} /\ dirty' = dirty
    BY <1>3 DEF Done
  <2>2. /\ queue' \in Seq(Keys)
        /\ Distinct(queue')
        /\ Elems(queue') = Elems(queue) \cup {k}
    BY <1>1, <1>2, <2>1, AppendShape DEF WorkQueueTypeOK
  <2>3. Elems(queue') = dirty' \ processing'
    BY <1>1, <1>3, <2>1, <2>2
  <2>4. QueueShape'
    BY <2>2, <2>3 DEF QueueShape, Queued, Distinct, Elems
  <2> QED BY <2>2, <2>4 DEF Done, WorkQueueTypeOK
<1>4. CASE k \notin dirty
  <2>1. queue' = queue /\ processing' = processing \ {k} /\ dirty' = dirty
    BY <1>4 DEF Done
  <2>2. dirty' \ processing' = dirty \ processing
    BY <1>4, <2>1
  <2>3. QueueShape'
    BY <2>1, <2>2 DEF QueueShape, Queued
  <2> QED BY <2>3, <2>1 DEF Done, WorkQueueTypeOK
<1> QED BY <1>3, <1>4

(***************************************************************************)
(* Type correctness.                                                       *)
(***************************************************************************)
\* How the workers' keys and the queue's processing set belong together, and
\* that the workers do not exist before Run starts them.
WorkerShape ==
  /\ \A w \in Workers : wpc[w] \in Holding <=> wkey[w] # NoKey
  /\ \A k \in Keys : k \in processing <=> \E w \in Workers : wkey[w] = k
  /\ runState \in {"new", "waiting"} => \A w \in Workers : wpc[w] = "none"

\* The inductive invariant: with the two parts above, the properties TypeOK,
\* QueueShape and NeverInParallel of the component.
ShapeInv == TypeOK /\ QueueShape /\ WorkerShape /\ NeverInParallel

\* Versions are numbers, and "absent" is one of them.
LEMMA VersionsType == 1 \in Versions /\ Absent \in Versions /\ Versions \subseteq Nat
BY BoundsAssumption DEF Versions, Absent

\* What is delivered is a version, or stands for one.
LEMMA ObjectsType ==
  /\ Versions \subseteq Objects /\ Objects \subseteq Int /\ Tombstone \in Objects
  /\ \A d \in Objects : VersionOf(d) \in Versions /\ (VersionOf(d) = d \/ VersionOf(d) = Absent)
BY VersionsType DEF Objects, Tombstone, VersionOf

\* Each handler computes the key of its pod, also of one that is a tombstone.
LEMMA EventKeyIsKey == \A k, obj : EventKey(k, obj) = k
BY DEF EventKey, VersionOf, Tombstone, MetaNamespaceKeyFunc, DeletionHandlingMetaNamespaceKeyFunc

\* The initial state: nothing is queued, no worker exists.
LEMMA ShapeInit == Init => ShapeInv
<1> SUFFICES ASSUME Init PROVE ShapeInv
  OBVIOUS
<1>1. WorkQueueTypeOK /\ QueueShape
  <2>1. queue = <<>> /\ queue \in Seq(Keys) /\ DOMAIN queue = {}
    BY EmptySeq, LenProperties DEF Init, WorkQueueInit
  <2> QED BY <2>1 DEF Init, WorkQueueInit, WorkQueueTypeOK, QueueShape, Queued
<1>2. ServerTypeOK
  <2>1. deltas \in [Keys -> Seq(Objects)]
    BY EmptySeq DEF Init
  <2> QED BY <2>1, VersionsType DEF Init, ServerTypeOK
<1>3. ControllerTypeOK
  <2>1. errors \in 0 .. MaxErrors /\ breaks \in 0 .. MaxDisconnects
    BY BoundsAssumption DEF Init
  <2>2. runState \in RunStates /\ wpc \in [Workers -> WorkerStates]
    BY DEF Init, RunStates, WorkerStates
  <2> QED BY <2>1, <2>2, VersionsType, ObjectsType DEF Init, ControllerTypeOK
<1>4. WorkerShape /\ NeverInParallel
  BY KeysAssumption DEF Init, WorkQueueInit, WorkerShape, NeverInParallel, Holding
<1> QED BY <1>1, <1>2, <1>3, <1>4 DEF ShapeInv, TypeOK

\* A step of the API server or of the reflector changes neither the queue nor
\* the workers.
LEMMA ShapeServer == ShapeInv /\ Server => ShapeInv'
<1> SUFFICES ASSUME ShapeInv, Server PROVE ShapeInv'
  OBVIOUS
<1> USE VersionsType DEF ShapeInv, TypeOK
<1>1. UNCHANGED <<queueVars, informerVars, runVars, workerVars, outputVars, errors>>
  BY DEF Server, List, BreakWatch, ChangePod, boundVars
<1>2. WorkQueueTypeOK' /\ QueueShape' /\ WorkerShape' /\ NeverInParallel'
  BY <1>1 DEF queueVars, informerVars, runVars, workerVars, WorkQueueTypeOK,
              QueueShape, Queued, WorkerShape, NeverInParallel
<1>3. breaks' \in 0 .. MaxDisconnects
  BY BoundsAssumption
     DEF ControllerTypeOK, Server, List, BreakWatch, ChangePod, boundVars
<1>4. ControllerTypeOK'
  BY <1>1, <1>3
     DEF ControllerTypeOK, informerVars, runVars, workerVars, outputVars
<1>5. ServerTypeOK'
  <2>1. CASE List
    <3>1. \A k \in Keys : /\ Append(deltas[k], pods[k]) \in Seq(Objects)
                          /\ Append(deltas[k], Tombstone) \in Seq(Objects)
      BY AppendProperties, ObjectsType DEF ServerTypeOK
    <3> QED BY <2>1, <3>1 DEF List, ServerTypeOK
  <2>2. CASE BreakWatch
    BY <2>2 DEF BreakWatch, ServerTypeOK
  <2>3. ASSUME NEW k \in Keys, ChangePod(k) PROVE ServerTypeOK'
    <3>1. version' \in Versions
      BY <2>3, BoundsAssumption DEF ChangePod, ServerTypeOK, Versions
    <3>2. PICK v \in {Absent, version'} :
            /\ pods' = [pods EXCEPT ![k] = v]
            /\ deltas' = IF watching THEN [deltas EXCEPT ![k] = Append(@, v)]
                                     ELSE deltas
      BY <2>3 DEF ChangePod
    <3>3. v \in Versions /\ Append(deltas[k], v) \in Seq(Objects)
      BY <3>1, <3>2, AppendProperties, ObjectsType DEF ServerTypeOK
    <3> QED BY <2>3, <3>1, <3>2, <3>3 DEF ChangePod, ServerTypeOK
  <2> QED BY <2>1, <2>2, <2>3 DEF Server
<1> QED BY <1>2, <1>4, <1>5

\* The informer's steps add keys and touch no worker.
LEMMA ShapeInformer == ShapeInv /\ Informer => ShapeInv'
<1> SUFFICES ASSUME ShapeInv, Informer PROVE ShapeInv'
  OBVIOUS
<1> USE VersionsType DEF ShapeInv, TypeOK
<1>1. CASE HandleEvent
  <2>1. notifying \in Keys /\ Add(notifying)
    BY <1>1, EventKeyIsKey DEF HandleEvent, ControllerTypeOK
  <2>2. WorkQueueTypeOK' /\ QueueShape'
    BY <2>1, AddShape
  <2>3. ServerTypeOK' /\ ControllerTypeOK'
    BY <1>1, ObjectsType DEF HandleEvent, ServerTypeOK, ControllerTypeOK, runVars,
                             workerVars, outputVars, boundVars
  <2>4. WorkerShape' /\ NeverInParallel'
    BY <1>1, <2>1 DEF HandleEvent, Add, WorkerShape, NeverInParallel, runVars, workerVars
  <2> QED BY <2>2, <2>3, <2>4
<1>2. ASSUME NEW k \in Keys, UpdateStore(k) PROVE ShapeInv'
  <2>1. /\ Head(deltas[k]) \in Objects /\ Tail(deltas[k]) \in Seq(Objects)
        /\ VersionOf(Head(deltas[k])) \in Versions
    BY <1>2, HeadTailProperties, ObjectsType DEF UpdateStore, ServerTypeOK
  <2>2. ServerTypeOK' /\ ControllerTypeOK'
    BY <1>2, <2>1 DEF UpdateStore, ServerTypeOK, ControllerTypeOK, runVars,
                      workerVars, outputVars, boundVars
  <2>3. /\ WorkQueueTypeOK' /\ QueueShape'
        /\ WorkerShape' /\ NeverInParallel'
    BY <1>2 DEF UpdateStore, queueVars, runVars, workerVars, WorkQueueTypeOK,
                QueueShape, Queued, WorkerShape, NeverInParallel
  <2> QED BY <2>2, <2>3
<1> QED BY <1>1, <1>2 DEF Informer

\* Run starts the workers; Stop and the end of Run shut the queue down.
LEMMA ShapeRun == ShapeInv /\ (Run \/ Stop) => ShapeInv'
<1> SUFFICES ASSUME ShapeInv, Run \/ Stop PROVE ShapeInv'
  OBVIOUS
<1> USE DEF ShapeInv, TypeOK
<1>1. /\ UNCHANGED <<serverVars, informerVars, outputVars, boundVars, wkey, wseen>>
      /\ UNCHANGED <<queue, dirty, processing, waitingForAdd, failures>>
      /\ shuttingDown' \in BOOLEAN
  BY DEF Run, RunStart, RunSynced, RunReturn, Stop, ShutDown, queueVars,
         workerVars, WorkQueueTypeOK
<1>2. WorkQueueTypeOK' /\ QueueShape' /\ ServerTypeOK' /\ NeverInParallel'
  BY <1>1 DEF serverVars, WorkQueueTypeOK, QueueShape, Queued, ServerTypeOK,
              NeverInParallel
<1>3. /\ runState' \in RunStates /\ stopped' \in BOOLEAN
      /\ wpc' \in [Workers -> WorkerStates]
  BY DEF Run, RunStart, RunSynced, RunReturn, Stop, workerVars, ControllerTypeOK,
         RunStates, WorkerStates
<1>4. ControllerTypeOK'
  BY <1>1, <1>3 DEF ControllerTypeOK, informerVars, outputVars, boundVars
<1>5. WorkerShape'
  BY <1>1 DEF Run, RunStart, RunSynced, RunReturn, Stop, workerVars, WorkerShape,
              Holding, WorkerStates, ControllerTypeOK
<1> QED BY <1>2, <1>4, <1>5

\* A worker that goes on with the key it holds (syncToStdout and handleErr), or
\* that starts or leaves its loop, changes no queue mark and no worker's key.
LEMMA ShapeSameKeys ==
  ASSUME ShapeInv, NEW w \in Workers,
         \/ WorkerStart(w) \/ WorkerQuit(w)
         \/ SyncRead(w) \/ SyncReport(w) \/ SyncFail(w)
         \/ HandleNil(w) \/ HandleErr(w) \/ HandleRetry(w) \/ HandleDrop(w)
  PROVE  ShapeInv'
<1> USE DEF ShapeInv, TypeOK
<1>1. /\ UNCHANGED <<workerFrame, queue, dirty, processing, shuttingDown, wkey, breaks>>
      /\ \E s \in WorkerStates :
           /\ wpc' = [wpc EXCEPT ![w] = s]
           /\ s \in Holding <=> wpc[w] \in Holding
  BY DEF WorkerStart, WorkerQuit, GetQuit, SyncRead, SyncReport, SyncFail,
         HandleNil, HandleErr, HandleRetry, HandleDrop, Forget, AddRateLimited,
         NumRequeues, queueVars, boundVars, WorkerStates, Holding
<1>2. UNCHANGED <<serverVars, store, notifying, object, runState, stopped>>
  BY <1>1 DEF workerFrame, informerVars, runVars
<1>3. wpc[w] \in Holding => wkey[w] \in Keys
  BY DEF WorkerShape, ControllerTypeOK
<1>4. failures' \in [Keys -> Nat] /\ waitingForAdd' \subseteq Keys
  BY <1>3 DEF WorkerStart, WorkerQuit, GetQuit, SyncRead, SyncReport, SyncFail,
         HandleNil, HandleErr, HandleRetry, HandleDrop, Forget, AddRateLimited,
         queueVars, WorkQueueTypeOK, WorkerStates, Holding
<1>5. /\ wseen' \in [Workers -> Versions]
      /\ reported' \in [Keys -> Versions]
      /\ dropped' \subseteq Keys
  BY <1>3 DEF WorkerStart, WorkerQuit, SyncRead, SyncReport, SyncFail,
         HandleNil, HandleErr, HandleRetry, HandleDrop, outputVars,
         ControllerTypeOK, WorkerStates, Holding
<1>6. errors' \in 0 .. MaxErrors
  BY BoundsAssumption
     DEF WorkerStart, WorkerQuit, SyncRead, SyncReport, SyncFail,
         HandleNil, HandleErr, HandleRetry, HandleDrop, boundVars, ControllerTypeOK
<1>7. WorkQueueTypeOK' /\ QueueShape' /\ NeverInParallel'
  BY <1>1, <1>4 DEF WorkQueueTypeOK, QueueShape, Queued, NeverInParallel
<1>8. ServerTypeOK' /\ ControllerTypeOK'
  BY <1>1, <1>2, <1>5, <1>6 DEF serverVars, ServerTypeOK, ControllerTypeOK
<1>9. WorkerShape'
  <2>1. \A v \in Workers : wpc'[v] \in Holding <=> wkey'[v] # NoKey
    BY <1>1 DEF WorkerShape, ControllerTypeOK
  <2>2. runState \notin {"new", "waiting"}
    BY DEF WorkerStart, WorkerQuit, SyncRead, SyncReport, SyncFail, HandleNil,
           HandleErr, HandleRetry, HandleDrop, WorkerShape
  <2> QED BY <1>1, <1>2, <2>1, <2>2 DEF WorkerShape
<1> QED BY <1>7, <1>8, <1>9

\* Get hands the worker a key that no other worker holds.
LEMMA ShapeGet ==
  ASSUME ShapeInv, NEW w \in Workers, NEW k \in Keys, WorkerGet(w, k)
  PROVE  ShapeInv'
<1> USE DEF ShapeInv, TypeOK
<1>1. /\ WorkQueueTypeOK' /\ QueueShape'
      /\ k \in dirty /\ k \notin processing
  BY GetShape DEF WorkerGet
<1>2. /\ wpc[w] = "get" /\ wpc' = [wpc EXCEPT ![w] = "sync"]
      /\ wkey' = [wkey EXCEPT ![w] = k]
      /\ processing' = processing \cup {k}
      /\ UNCHANGED <<serverVars, informerVars, runVars, wseen, reported, boundVars>>
      /\ dropped' = dropped \ {k}
  BY DEF WorkerGet, GetItem, workerFrame
<1>3. wkey[w] = NoKey /\ \A v \in Workers : wkey[v] # k
  BY <1>1, <1>2 DEF WorkerShape, Holding
<1>4. ServerTypeOK' /\ ControllerTypeOK'
  BY <1>2 DEF ServerTypeOK, ControllerTypeOK, serverVars, informerVars, runVars,
              boundVars, WorkerStates
<1>5. WorkerShape'
  BY <1>2, <1>3, KeysAssumption
     DEF WorkerShape, ControllerTypeOK, Holding, WorkerStates, runVars
<1>6. NeverInParallel'
  BY <1>2, <1>3 DEF NeverInParallel, ControllerTypeOK
<1> QED BY <1>1, <1>4, <1>5, <1>6

\* A worker that is done holds no key any more.
LEMMA ShapeDone ==
  ASSUME ShapeInv, NEW w \in Workers, WorkerDone(w)
  PROVE  ShapeInv'
<1> USE DEF ShapeInv, TypeOK
<1>1. /\ wpc[w] = "done" /\ Done(wkey[w])
      /\ wpc' = [wpc EXCEPT ![w] = "get"]
      /\ wkey' = [wkey EXCEPT ![w] = NoKey]
      /\ processing' = processing \ {wkey[w]}
      /\ UNCHANGED <<serverVars, informerVars, runVars, wseen, outputVars, boundVars>>
  BY DEF WorkerDone, Done, workerFrame
<1>2. wkey[w] \in Keys /\ wkey[w] \in processing
  BY <1>1 DEF WorkerShape, ControllerTypeOK, Holding, WorkerStates
<1>3. WorkQueueTypeOK' /\ QueueShape'
  BY <1>1, <1>2, DoneShape
<1>4. ServerTypeOK' /\ ControllerTypeOK'
  BY <1>1 DEF ServerTypeOK, ControllerTypeOK, serverVars, informerVars, runVars,
              outputVars, boundVars, WorkerStates
<1>5. \A v \in Workers : v # w => wkey[v] # wkey[w]
  BY <1>2, KeysAssumption DEF NeverInParallel
<1>6. WorkerShape'
  BY <1>1, <1>2, <1>5, KeysAssumption
     DEF WorkerShape, ControllerTypeOK, Holding, WorkerStates, runVars
<1>7. NeverInParallel'
  BY <1>1 DEF NeverInParallel, ControllerTypeOK
<1> QED BY <1>3, <1>4, <1>6, <1>7

\* A delayed key comes back into line.
LEMMA ShapeRelease ==
  ASSUME ShapeInv, NEW k \in Keys, ReleaseDelayed(k)
  PROVE  ShapeInv'
<1> USE DEF ShapeInv, TypeOK
<1>1. WorkQueueTypeOK' /\ QueueShape'
  BY DelayedAddShape DEF ReleaseDelayed
<1>2. UNCHANGED <<processing, serverVars, informerVars, runVars, workerVars,
                 outputVars, boundVars>>
  BY DEF ReleaseDelayed, DelayedAdd, workerFrame
<1>3. ServerTypeOK' /\ ControllerTypeOK' /\ WorkerShape' /\ NeverInParallel'
  BY <1>2 DEF ServerTypeOK, ControllerTypeOK, WorkerShape, NeverInParallel,
              serverVars, informerVars, runVars, workerVars, outputVars, boundVars
<1> QED BY <1>1, <1>3

\* Doing nothing keeps the invariant.
LEMMA ShapeStutter == ShapeInv /\ UNCHANGED vars => ShapeInv'
BY DEF ShapeInv, TypeOK, vars, queueVars, serverVars, informerVars, runVars,
       workerVars, outputVars, boundVars, WorkQueueTypeOK, ServerTypeOK,
       ControllerTypeOK, QueueShape, Queued, WorkerShape, NeverInParallel

\* Every step keeps it.
LEMMA ShapeNext == ShapeInv /\ [Next]_vars => ShapeInv'
<1> SUFFICES ASSUME ShapeInv, [Next]_vars PROVE ShapeInv'
  OBVIOUS
<1>1. CASE Server
  BY <1>1, ShapeServer
<1>2. CASE Informer
  BY <1>2, ShapeInformer
<1>3. CASE Run \/ Stop
  BY <1>3, ShapeRun
<1>4. ASSUME NEW w \in Workers, Worker(w) PROVE ShapeInv'
  BY <1>4, ShapeGet, ShapeDone, ShapeSameKeys DEF Worker, ProcessNextItem
<1>5. ASSUME NEW k \in Keys, ReleaseDelayed(k) PROVE ShapeInv'
  BY <1>5, ShapeRelease
<1>6. CASE UNCHANGED vars
  BY <1>6, ShapeStutter
<1> QED BY <1>1, <1>2, <1>3, <1>4, <1>5, <1>6 DEF Next

\* The queue's line, its processing set and the workers' keys agree at every step
\* of the controller (main.go:64-66: one worker at a time for a key).
THEOREM ShapeInvariant == Spec => []ShapeInv
BY ShapeInit, ShapeNext, PTL DEF Spec

\* Every variable keeps its type, for any number of keys and workers.
THEOREM TypeCorrect == Spec => []TypeOK
BY ShapeInvariant, PTL DEF ShapeInv

\* The FIFO holds each key once and never one that is being processed.
THEOREM QueueShapeHolds == Spec => []QueueShape
BY ShapeInvariant, PTL DEF ShapeInv

\* main.go:64-66: two workers never process the same pod, for any threadiness
\* and any order of events, retries and shutdown.
THEOREM NeverInParallelHolds == Spec => []NeverInParallel
BY ShapeInvariant, PTL DEF ShapeInv

(***************************************************************************)
(* No change is lost.                                                      *)
(***************************************************************************)

\* A worker may be about to print a version that the store has replaced since:
\* then its key is dirty, or about to be added by the informer, so that Done
\* will put it back in line.
StaleReadNoticed ==
  \A w \in Workers :
    wpc[w] = "report" /\ wseen[w] # store[wkey[w]]
      => wkey[w] \in dirty \/ notifying = wkey[w] \/ shuttingDown

\* NoLostChange alone is not inductive: printing a stale version would break it.
LossInv == StaleReadNoticed /\ NoLostChange

\* At the start nothing has changed.
LEMMA LossInit == Init => LossInv
BY DEF Init, WorkQueueInit, LossInv, StaleReadNoticed, NoLostChange

\* A change at the server is under way to the store.
LEMMA LossServer == ShapeInv /\ LossInv /\ Server => LossInv'
<1> SUFFICES ASSUME LossInv, Server PROVE LossInv'
  OBVIOUS
<1>1. UNCHANGED <<queueVars, informerVars, workerVars, outputVars>>
  BY DEF Server, List, BreakWatch, ChangePod
<1> QED BY <1>1 DEF LossInv, StaleReadNoticed, NoLostChange, Pending, queueVars,
                    informerVars, workerVars, outputVars

\* The start and the stop of Run lose no change.
LEMMA LossRun == ShapeInv /\ LossInv /\ (Run \/ Stop) => LossInv'
<1> SUFFICES ASSUME ShapeInv, LossInv, Run \/ Stop PROVE LossInv'
  OBVIOUS
<1>1. /\ UNCHANGED <<dirty, waitingForAdd, informerVars, wkey, wseen, outputVars>>
      /\ shuttingDown' = shuttingDown \/ shuttingDown' = TRUE
  BY DEF Run, RunStart, RunSynced, RunReturn, Stop, ShutDown, queueVars, workerVars
<1>2. \A w \in Workers : wpc'[w] = wpc[w] \/ (wpc[w] = "none" /\ wpc'[w] = "start")
  BY DEF Run, RunStart, RunSynced, RunReturn, Stop, workerVars, ShapeInv, WorkerShape
<1> QED BY <1>1, <1>2 DEF LossInv, StaleReadNoticed, NoLostChange, Pending,
                          informerVars, outputVars

\* The store changes first, and the informer holds the key until its handler
\* has added it.
LEMMA LossInformer == ShapeInv /\ LossInv /\ Informer => LossInv'
<1> SUFFICES ASSUME ShapeInv, LossInv, Informer PROVE LossInv'
  OBVIOUS
<1>1. CASE HandleEvent
  <2>1. /\ UNCHANGED <<store, waitingForAdd, shuttingDown, workerVars, outputVars>>
        /\ dirty \subseteq dirty'
        /\ notifying \in dirty' \/ shuttingDown
    BY <1>1, EventKeyIsKey DEF HandleEvent, Add
  <2> QED BY <2>1 DEF LossInv, StaleReadNoticed, NoLostChange, Pending, workerVars,
                      outputVars
<1>2. ASSUME NEW k \in Keys, UpdateStore(k) PROVE LossInv'
  <2>1. /\ notifying = NoKey /\ notifying' = k
        /\ \A j \in Keys : j # k => store'[j] = store[j]
        /\ UNCHANGED <<queueVars, workerVars, outputVars>>
    BY <1>2 DEF UpdateStore, ShapeInv, TypeOK, ControllerTypeOK
  <2>2. \A w \in Workers : wpc[w] = "report" => wkey[w] \in Keys
    BY DEF ShapeInv, TypeOK, ControllerTypeOK, WorkerShape, Holding, WorkerStates
  <2>3. StaleReadNoticed'
    BY <2>1, <2>2, KeysAssumption DEF LossInv, StaleReadNoticed, queueVars, workerVars
  <2>4. NoLostChange'
    BY <2>1, <2>2, KeysAssumption DEF LossInv, NoLostChange, Pending, queueVars,
                                 workerVars, outputVars
  <2> QED BY <2>3, <2>4 DEF LossInv
<1> QED BY <1>1, <1>2 DEF Informer

\* The steps of a worker outside syncToStdout and handleErr.
LEMMA LossLoop ==
  ASSUME ShapeInv, LossInv, NEW w \in Workers,
         \/ WorkerStart(w) \/ WorkerQuit(w) \/ WorkerDone(w)
         \/ \E k \in Keys : WorkerGet(w, k)
  PROVE  LossInv'
<1>1. ASSUME WorkerStart(w) \/ WorkerQuit(w) PROVE LossInv'
  <2>1. /\ UNCHANGED <<store, notifying, dirty, waitingForAdd, shuttingDown, wkey, wseen,
                       outputVars>>
        /\ \A v \in Workers : \/ wpc'[v] = wpc[v]
                              \/ /\ wpc[v] \in {"start", "get"}
                                 /\ wpc'[v] \in {"none", "get", "exited"}
    BY <1>1 DEF WorkerStart, WorkerQuit, GetQuit, workerFrame, informerVars,
                queueVars, ShapeInv, TypeOK, ControllerTypeOK
  <2> QED BY <2>1 DEF LossInv, StaleReadNoticed, NoLostChange, Pending, outputVars
<1>2. ASSUME WorkerDone(w) PROVE LossInv'
  <2>1. /\ UNCHANGED <<store, notifying, dirty, waitingForAdd, shuttingDown, wseen,
                       outputVars>>
        /\ wpc[w] = "done" /\ wpc'[w] = "get"
        /\ \A v \in Workers : v # w => wpc'[v] = wpc[v] /\ wkey'[v] = wkey[v]
    BY <1>2 DEF WorkerDone, Done, workerFrame, informerVars, ShapeInv, TypeOK,
                ControllerTypeOK
  <2> QED BY <2>1 DEF LossInv, StaleReadNoticed, NoLostChange, Pending, outputVars
<1>3. ASSUME NEW k \in Keys, WorkerGet(w, k) PROVE LossInv'
  <2>1. k \notin processing
    BY <1>3, GetShape DEF WorkerGet, ShapeInv, TypeOK
  <2>2. /\ UNCHANGED <<store, notifying, waitingForAdd, shuttingDown, wseen, reported>>
        /\ dirty' = dirty \ {k} /\ dropped' = dropped \ {k}
        /\ wpc[w] = "get" /\ wpc'[w] = "sync" /\ wkey'[w] = k
        /\ \A v \in Workers : v # w => wpc'[v] = wpc[v] /\ wkey'[v] = wkey[v]
    BY <1>3 DEF WorkerGet, GetItem, workerFrame, informerVars, ShapeInv, TypeOK,
                ControllerTypeOK
  <2>3. \A v \in Workers : wkey[v] # k
    BY <2>1 DEF ShapeInv, WorkerShape
  <2>4. StaleReadNoticed'
    BY <2>2, <2>3 DEF LossInv, StaleReadNoticed
  <2>5. NoLostChange'
    <3> SUFFICES ASSUME NEW j \in Keys, store'[j] # reported'[j]
                 PROVE  Pending(j)' \/ j \in dropped' \/ shuttingDown'
      BY DEF NoLostChange
    <3>1. CASE j = k
      BY <3>1, <2>2 DEF Pending
    <3>2. CASE j # k
      <4>1. Pending(j) \/ j \in dropped \/ shuttingDown
        BY <2>2 DEF LossInv, NoLostChange
      <4>2. Pending(j) => Pending(j)'
        BY <2>2, <3>2 DEF Pending
      <4> QED BY <4>1, <4>2, <2>2, <3>2
    <3> QED BY <3>1, <3>2
  <2> QED BY <2>4, <2>5 DEF LossInv
<1> QED BY <1>1, <1>2, <1>3

\* syncToStdout and handleErr: the worker reads, prints or fails, and an error
\* ends in a requeue, in a drop, or meets a queue that is shutting down.
LEMMA LossSync ==
  ASSUME ShapeInv, LossInv, NEW w \in Workers,
         \/ SyncRead(w) \/ SyncReport(w) \/ SyncFail(w)
         \/ HandleNil(w) \/ HandleErr(w) \/ HandleRetry(w) \/ HandleDrop(w)
  PROVE  LossInv'
<1>0. wpc[w] \in Holding
  BY DEF SyncRead, SyncReport, SyncFail, HandleNil, HandleErr, HandleRetry,
         HandleDrop, Holding, WorkerStates
<1>k. PICK k \in Keys : k = wkey[w]
  BY <1>0 DEF ShapeInv, TypeOK, ControllerTypeOK, WorkerShape
<1>1. /\ UNCHANGED <<store, notifying, dirty, shuttingDown, wkey>>
      /\ waitingForAdd \subseteq waitingForAdd'
      /\ dropped \subseteq dropped'
      /\ \A v \in Workers : v # w => wpc'[v] = wpc[v] /\ wseen'[v] = wseen[v]
      /\ \A j \in Keys : j # k => reported'[j] = reported[j]
  BY <1>k DEF SyncRead, SyncReport, SyncFail, HandleNil, HandleErr, HandleRetry,
         HandleDrop, Forget, AddRateLimited, workerFrame, informerVars, outputVars,
         queueVars, ShapeInv, TypeOK, ControllerTypeOK
<1>2. \A v \in Workers : v # w => wkey[v] # k
  BY <1>k, KeysAssumption
     DEF ShapeInv, TypeOK, ControllerTypeOK, WorkerShape, NeverInParallel
<1>3. wpc'[w] = "report" => wseen'[w] = store[k]
  BY <1>k DEF SyncRead, SyncReport, SyncFail, HandleNil, HandleErr, HandleRetry,
         HandleDrop, ShapeInv, TypeOK, ControllerTypeOK
<1>4. StaleReadNoticed'
  BY <1>k, <1>1, <1>2, <1>3 DEF LossInv, StaleReadNoticed
<1>5. ASSUME NEW j \in Keys, j # k, store'[j] # reported'[j]
      PROVE  Pending(j)' \/ j \in dropped' \/ shuttingDown'
  <2>1. Pending(j) \/ j \in dropped \/ shuttingDown
    BY <1>1, <1>5 DEF LossInv, NoLostChange
  <2>2. Pending(j) => Pending(j)'
    BY <1>k, <1>1, <1>5 DEF Pending
  <2> QED BY <1>1, <2>1, <2>2
<1>6. ASSUME store'[k] # reported'[k]
      PROVE  Pending(k)' \/ k \in dropped' \/ shuttingDown'
  <2>1. CASE SyncRead(w)
    BY <2>1, <1>k, <1>1, <1>3 DEF SyncRead, Pending, ShapeInv, TypeOK, ControllerTypeOK
  <2>2. CASE SyncReport(w)
    <3>1. wpc[w] = "report" /\ reported'[k] = wseen[w]
      BY <2>2, <1>k DEF SyncReport, ShapeInv, TypeOK, ControllerTypeOK
    <3>2. wseen[w] # store[k]
      BY <3>1, <1>1, <1>6
    <3>3. k \in dirty \/ notifying = k \/ shuttingDown
      BY <3>1, <3>2, <1>k DEF LossInv, StaleReadNoticed
    <3> QED BY <3>3, <1>1 DEF Pending
  <2>3. CASE SyncFail(w) \/ HandleErr(w)
    BY <2>3, <1>k, <1>1 DEF SyncFail, HandleErr, Pending, ShapeInv, TypeOK,
                      ControllerTypeOK
  <2>4. CASE HandleNil(w)
    <3>1. /\ store[k] # reported[k] /\ wpc[w] = "ok"
          /\ UNCHANGED <<dirty, waitingForAdd, notifying>>
      BY <2>4, <1>1, <1>6 DEF HandleNil, Forget, outputVars
    <3>2. Pending(k) \/ k \in dropped \/ shuttingDown
      BY <3>1, <1>2 DEF LossInv, NoLostChange
    <3>3. \A v \in Workers : wkey[v] = k => v = w
      BY <1>2
    <3> QED BY <3>1, <3>2, <3>3, <1>1 DEF Pending
  <2>5. CASE HandleRetry(w)
    BY <2>5, <1>k, <1>1 DEF HandleRetry, AddRateLimited, Pending
  <2>6. CASE HandleDrop(w)
    BY <2>6, <1>k DEF HandleDrop
  <2> QED BY <2>1, <2>2, <2>3, <2>4, <2>5, <2>6
<1>7. NoLostChange'
  BY <1>5, <1>6 DEF NoLostChange
<1> QED BY <1>4, <1>7 DEF LossInv

\* Nor does a delayed key that comes back.
LEMMA LossRelease ==
  ASSUME LossInv, NEW k \in Keys, ReleaseDelayed(k)
  PROVE  LossInv'
<1>1. /\ UNCHANGED <<store, notifying, shuttingDown, workerVars, outputVars>>
      /\ waitingForAdd' = waitingForAdd \ {k}
      /\ dirty' = dirty \cup {k}
  BY DEF ReleaseDelayed, DelayedAdd, workerFrame, informerVars
<1> QED BY <1>1 DEF LossInv, StaleReadNoticed, NoLostChange, Pending, workerVars,
                    outputVars

\* No step loses one.
LEMMA LossNext == ShapeInv /\ LossInv /\ [Next]_vars => LossInv'
<1> SUFFICES ASSUME ShapeInv, LossInv, [Next]_vars PROVE LossInv'
  OBVIOUS
<1>1. CASE Server
  BY <1>1, LossServer
<1>2. CASE Informer
  BY <1>2, LossInformer
<1>3. CASE Run \/ Stop
  BY <1>3, LossRun
<1>4. ASSUME NEW w \in Workers, Worker(w) PROVE LossInv'
  BY <1>4, LossLoop, LossSync DEF Worker, ProcessNextItem
<1>5. ASSUME NEW k \in Keys, ReleaseDelayed(k) PROVE LossInv'
  BY <1>5, LossRelease
<1>6. CASE UNCHANGED vars
  BY <1>6 DEF LossInv, StaleReadNoticed, NoLostChange, Pending, vars, queueVars,
              informerVars, workerVars, outputVars
<1> QED BY <1>1, <1>2, <1>3, <1>4, <1>5, <1>6 DEF Next

\* The reads, prints, retries and adds may interleave in any way: a pod whose
\* store version was not printed is never forgotten.
THEOREM NoLostChangeHolds == Spec => []NoLostChange
<1>1. Init => LossInv
  BY LossInit
<1>2. ShapeInv /\ LossInv /\ [Next]_vars => LossInv'
  BY LossNext
<1> QED BY <1>1, <1>2, ShapeInvariant, PTL DEF Spec, LossInv

(***************************************************************************)
(* The retry budget.                                                       *)
(***************************************************************************)

\* Between handleErr's comparison and its AddRateLimited nobody else counts a
\* failure of the same key.
RetryInv ==
  /\ RetryBudget
  /\ \A w \in Workers : wpc[w] = "requeue" => failures[wkey[w]] < MaxRetries

\* No step pushes a count past the limit.
LEMMA RetryNext == ShapeInv /\ RetryInv /\ [Next]_vars => RetryInv'
<1> SUFFICES ASSUME ShapeInv, RetryInv, [Next]_vars PROVE RetryInv'
  OBVIOUS
<1> USE DEF RetryInv, RetryBudget
<1>1. CASE UNCHANGED failures /\ \A w \in Workers : wpc'[w] = "requeue" =>
                                   wpc[w] = "requeue" /\ wkey'[w] = wkey[w]
  BY <1>1
<1>2. ASSUME NEW w \in Workers,
             HandleNil(w) \/ HandleErr(w) \/ HandleRetry(w) \/ HandleDrop(w)
      PROVE  RetryInv'
  <2>1. /\ wkey' = wkey /\ wkey[w] \in Keys
        /\ \A v \in Workers : v # w => wkey[v] # wkey[w]
    BY <1>2, KeysAssumption
       DEF HandleNil, HandleErr, HandleRetry, HandleDrop, ShapeInv, TypeOK,
           ControllerTypeOK, WorkerShape, NeverInParallel, Holding, WorkerStates
  <2>2. CASE HandleErr(w)
    BY <2>1, <2>2 DEF HandleErr, NumRequeues, queueVars, ShapeInv, TypeOK,
                      ControllerTypeOK
  <2>3. CASE HandleRetry(w)
    <3>1. failures' = [failures EXCEPT ![wkey[w]] = @ + 1] /\ failures[wkey[w]] < MaxRetries
      BY <2>3 DEF HandleRetry, AddRateLimited
    <3>2. \A v \in Workers : wpc'[v] = "requeue" => v # w /\ wpc[v] = "requeue"
      BY <2>3 DEF HandleRetry, ShapeInv, TypeOK, ControllerTypeOK
    <3>3. \A v \in Workers : wpc[v] = "requeue" => wkey[v] \in Keys
      BY DEF ShapeInv, TypeOK, ControllerTypeOK, WorkerShape, Holding, WorkerStates
    <3> QED BY <2>1, <3>1, <3>2, <3>3, RetriesAssumption
            DEF ShapeInv, TypeOK, WorkQueueTypeOK
  <2>4. CASE HandleNil(w) \/ HandleDrop(w)
    <3>1. failures' = [failures EXCEPT ![wkey[w]] = 0]
      BY <2>4 DEF HandleNil, HandleDrop, Forget
    <3>2. \A v \in Workers : wpc'[v] = "requeue" => v # w /\ wpc[v] = "requeue"
      BY <2>4 DEF HandleNil, HandleDrop, ShapeInv, TypeOK, ControllerTypeOK
    <3>3. \A v \in Workers : wpc[v] = "requeue" => wkey[v] \in Keys
      BY DEF ShapeInv, TypeOK, ControllerTypeOK, WorkerShape, Holding, WorkerStates
    <3> QED BY <2>1, <3>1, <3>2, <3>3, RetriesAssumption
            DEF ShapeInv, TypeOK, WorkQueueTypeOK
  <2> QED BY <1>2, <2>2, <2>3, <2>4
<1>3. CASE UNCHANGED vars \/ Server \/ Informer \/ Stop
  BY <1>3, <1>1 DEF vars, queueVars, workerVars, runVars, Server, List, BreakWatch,
     ChangePod, Informer, HandleEvent, Add, UpdateStore, Stop
<1>4. CASE Run
  BY <1>4, <1>1 DEF Run, RunStart, RunSynced, RunReturn, ShutDown, queueVars,
     workerVars, ShapeInv, WorkerShape
<1>5. ASSUME NEW k \in Keys, ReleaseDelayed(k) PROVE RetryInv'
  BY <1>5, <1>1 DEF ReleaseDelayed, DelayedAdd, workerVars
<1>6. ASSUME NEW w \in Workers,
             \/ WorkerStart(w) \/ WorkerQuit(w) \/ WorkerDone(w)
             \/ SyncRead(w) \/ SyncReport(w) \/ SyncFail(w)
             \/ \E k \in Keys : WorkerGet(w, k)
      PROVE  RetryInv'
  <2>1. /\ failures' = failures
        /\ \E s \in WorkerStates \ {"requeue"} : wpc' = [wpc EXCEPT ![w] = s]
        /\ \A v \in Workers : v # w => wkey'[v] = wkey[v]
    BY <1>6 DEF WorkerStart, WorkerQuit, GetQuit, WorkerDone, Done, SyncRead,
       SyncReport, SyncFail, WorkerGet, GetItem, queueVars, WorkerStates, ShapeInv,
       TypeOK, ControllerTypeOK
  <2> QED BY <2>1, <1>1 DEF ShapeInv, TypeOK, ControllerTypeOK
<1> QED BY <1>2, <1>3, <1>4, <1>5, <1>6 DEF Next, Worker, ProcessNextItem

\* main.go:104-105: the requeue count of a key never passes the limit, although
\* the comparison and the increment are two calls that other workers and the
\* handlers' adds come between.
THEOREM RetryBudgetHolds == Spec => []RetryBudget
<1>1. Init => RetryInv
  BY RetriesAssumption DEF Init, WorkQueueInit, RetryInv, RetryBudget
<1>2. ShapeInv /\ RetryInv /\ [Next]_vars => RetryInv'
  BY RetryNext
<1> QED BY <1>1, <1>2, ShapeInvariant, PTL DEF Spec, RetryInv

(***************************************************************************)
(* The shutdown drains the queue.                                          *)
(***************************************************************************)

\* A worker leaves its loop when the queue is empty and shut down.  After that
\* only a Done can put a key in line again, and the worker that calls it goes
\* on to Get.
Active == Holding \cup {"get"}
DrainInv ==
  /\ shuttingDown => runState = "returned"
  /\ \A w \in Workers : wpc[w] = "exited" => shuttingDown
  /\ (\E w \in Workers : wpc[w] = "exited") /\ queue # <<>>
       => \E w \in Workers : wpc[w] \in Active

\* At the start no worker has left.
LEMMA DrainInit == Init => DrainInv
BY DEF Init, WorkQueueInit, DrainInv

\* No worker leaves a queue with keys in it.
LEMMA DrainNext == ShapeInv /\ DrainInv /\ [Next]_vars => DrainInv'
<1> SUFFICES ASSUME ShapeInv, DrainInv, [Next]_vars PROVE DrainInv'
  OBVIOUS
<1>1. wpc \in [Workers -> WorkerStates]
  BY DEF ShapeInv, TypeOK, ControllerTypeOK
<1>2. CASE UNCHANGED <<shuttingDown, runState, wpc>> /\ (queue' # queue => ~shuttingDown)
  BY <1>2 DEF DrainInv
<1>3. CASE Server \/ Informer \/ Stop \/ UNCHANGED vars
  BY <1>2, <1>3 DEF Server, List, BreakWatch, ChangePod, Informer, HandleEvent, UpdateStore,
     Add, Stop, queueVars, runVars, workerVars, vars
<1>4. CASE Run
  <2>1. CASE RunStart \/ RunReturn
    BY <2>1 DEF RunStart, RunReturn, ShutDown, DrainInv, queueVars, workerVars
  <2>2. CASE RunSynced
    BY <2>2 DEF RunSynced, DrainInv, queueVars
  <2> QED BY <1>4, <2>1, <2>2 DEF Run
<1>5. ASSUME NEW w \in Workers, Worker(w) PROVE DrainInv'
  <2>1. UNCHANGED <<shuttingDown, runState>>
    BY <1>5 DEF Worker, WorkerStart, ProcessNextItem, WorkerGet, GetItem, WorkerQuit, GetQuit,
       SyncRead, SyncReport, SyncFail, HandleNil, HandleErr, HandleRetry, HandleDrop, Forget,
       AddRateLimited, WorkerDone, Done, workerFrame, queueVars, runVars
  <2>2. CASE WorkerStart(w)
    <3>1. queue' = queue /\ wpc[w] = "start" /\ \E l \in {"none", "get"} : wpc' = [wpc EXCEPT ![w] = l]
      BY <2>2 DEF WorkerStart, queueVars
    <3>2. "start" \notin Active
      BY DEF Active, Holding
    <3> QED BY <1>1, <2>1, <3>1, <3>2 DEF DrainInv
  <2>3. CASE WorkerQuit(w)
    BY <1>1, <2>1, <2>3 DEF WorkerQuit, GetQuit, queueVars, DrainInv
  <2>4. CASE ProcessNextItem(w) /\ ~WorkerQuit(w)
    <3>1. \E l \in Active : wpc' = [wpc EXCEPT ![w] = l]
      BY <2>4 DEF ProcessNextItem, WorkerGet, SyncRead, SyncReport, SyncFail, HandleNil,
         HandleErr, HandleRetry, HandleDrop, WorkerDone, Active, Holding, WorkerStates
    <3>2. "exited" \notin Active
      BY DEF Active, Holding
    <3> QED BY <1>1, <2>1, <3>1, <3>2 DEF DrainInv
  <2> QED BY <1>5, <2>2, <2>3, <2>4 DEF Worker
<1>6. ASSUME NEW k \in Keys, ReleaseDelayed(k) PROVE DrainInv'
  BY <1>2, <1>6 DEF ReleaseDelayed, DelayedAdd, workerFrame, runVars, workerVars
<1> QED BY <1>3, <1>4, <1>5, <1>6 DEF Next

\* Once every worker has left its loop, whatever order Run, stopCh, handlers
\* and workers took, nothing that the queue accepted is left in it.
THEOREM DrainedBeforeExitHolds == Spec => []DrainedBeforeExit
<1>1. ASSUME ShapeInv, DrainInv, \E w \in Workers : wpc[w] = "exited",
             \A w \in Workers : wpc[w] \in {"exited", "none"}
      PROVE  queue = <<>> /\ dirty = {} /\ processing = {}
  <2>1. \A w \in Workers : wpc[w] \notin Active
    BY <1>1 DEF Active, Holding
  <2>2. queue = <<>>
    BY <1>1, <2>1 DEF DrainInv
  <2>3. \A w \in Workers : wkey[w] = NoKey
    BY <1>1, <2>1 DEF ShapeInv, WorkerShape, Active
  <2>4. processing = {}
    BY <1>1, <2>3, KeysAssumption DEF ShapeInv, WorkerShape, TypeOK, WorkQueueTypeOK
  <2>5. Queued = {}
    BY <2>2 DEF Queued
  <2> QED BY <1>1, <2>2, <2>4, <2>5 DEF ShapeInv, QueueShape
<1>2. ShapeInv /\ DrainInv => DrainedBeforeExit
  BY <1>1 DEF DrainedBeforeExit
<1> QED BY <1>2, DrainInit, DrainNext, ShapeInvariant, PTL DEF Spec

(***************************************************************************)
(* PodController implements PodMirror: a version travels from the server   *)
(* over the deltas, the store and a worker's copy to the printed line, and *)
(* none overtakes another.                                                 *)
(***************************************************************************)
\* Two versions of one pod, or the news that it is gone, in the order in which
\* the server made them.
Gone         == {Absent, Tombstone}
Before(a, b) == a \in Gone \/ b \in Gone \/ a <= b
Rising(s)    == \A i, j \in DOMAIN s : i < j => Before(s[i], s[j])

\* A version that is not older than those in a rising line can join it.
LEMMA RisingAppend ==
  ASSUME NEW s \in Seq(Objects), NEW v \in Objects, Rising(s),
         \A x \in Elems(s) : Before(x, v)
  PROVE  Rising(Append(s, v)) /\ Elems(Append(s, v)) = Elems(s) \cup {v}
<1> DEFINE t == Append(s, v)
<1>1. /\ Len(s) \in Nat /\ DOMAIN s = 1 .. Len(s) /\ DOMAIN t = 1 .. Len(s) + 1
      /\ \A i \in 1 .. Len(s) : t[i] = s[i]
      /\ t[Len(s) + 1] = v
  BY AppendProperties, LenProperties
<1> HIDE DEF t
<1>2. Rising(t)
  BY <1>1 DEF Rising, Elems
<1>3. Elems(t) = Elems(s) \cup {v}
  BY <1>1 DEF Elems
<1> QED BY <1>2, <1>3 DEF t

\* Taking the first one leaves a rising line behind it.
LEMMA RisingTail ==
  ASSUME NEW s \in Seq(Objects), s # <<>>, Rising(s)
  PROVE  /\ Rising(Tail(s)) /\ Elems(Tail(s)) \subseteq Elems(s)
         /\ Head(s) \in Elems(s) /\ Head(s) \in Objects
         /\ \A x \in Elems(Tail(s)) : Before(Head(s), x)
<1> DEFINE t == Tail(s)
<1>1. /\ t \in Seq(Objects) /\ Len(t) = Len(s) - 1 /\ Len(s) \in Nat \ {0}
      /\ \A i \in 1 .. Len(t) : t[i] = s[i + 1]
      /\ Head(s) = s[1] /\ Head(s) \in Objects
  BY HeadTailProperties, EmptySeq
<1>2. DOMAIN s = 1 .. Len(s) /\ DOMAIN t = 1 .. Len(s) - 1
  BY <1>1, LenProperties
<1> HIDE DEF t
<1>3. ASSUME NEW i \in DOMAIN t PROVE i + 1 \in DOMAIN s /\ t[i] = s[i + 1] /\ 1 < i + 1
  BY <1>1, <1>2
<1>4. Rising(t)
  <2>1. ASSUME NEW i \in DOMAIN t, NEW j \in DOMAIN t, i < j PROVE i + 1 < j + 1
    BY <1>1, <1>2, <2>1
  <2> QED BY <1>3, <2>1 DEF Rising
<1>5. Elems(t) \subseteq Elems(s)
  BY <1>3 DEF Elems
<1>6. 1 \in DOMAIN s
  BY <1>1, <1>2
<1>7. \A x \in Elems(t) : Before(Head(s), x)
  BY <1>1, <1>3, <1>6 DEF Rising, Elems
<1> QED BY <1>1, <1>4, <1>5, <1>6, <1>7 DEF Elems, t

\* A version v of pod k that is in front of the store: nothing that is still
\* under way to the store, and nothing on the server, is older.
InFront(v, k) ==
  /\ v <= version
  /\ Before(v, store[k]) /\ Before(v, pods[k])
  /\ \A x \in Elems(deltas[k]) : Before(v, x)

\* The order along the way of each pod's versions.
OrderInv ==
  \A k \in Keys :
    /\ pods[k] <= version /\ Before(store[k], pods[k]) /\ InFront(store[k], k)
    /\ Rising(deltas[k])
    /\ \A x \in Elems(deltas[k]) : x <= version /\ Before(x, pods[k])
    /\ InFront(reported[k], k)
    /\ \A w \in Workers : wpc[w] = "report" /\ wkey[w] = k =>
         InFront(wseen[w], k) /\ Before(reported[k], wseen[w])

\* At the start nothing is under way.
LEMMA OrderInit == Init => OrderInv
<1> SUFFICES ASSUME Init, NEW k \in Keys PROVE
      /\ pods[k] <= version /\ Before(store[k], pods[k]) /\ InFront(store[k], k)
      /\ Rising(deltas[k])
      /\ \A x \in Elems(deltas[k]) : x <= version /\ Before(x, pods[k])
      /\ InFront(reported[k], k)
      /\ \A w \in Workers : wpc[w] = "report" /\ wkey[w] = k =>
           InFront(wseen[w], k) /\ Before(reported[k], wseen[w])
  BY DEF OrderInv
<1>1. DOMAIN deltas[k] = {}
  BY LenProperties, EmptySeq DEF Init
<1>2. store[k] = Absent /\ reported[k] = Absent /\ version = 1 /\ pods[k] \in {Absent, 1}
      /\ \A w \in Workers : wpc[w] # "report"
  BY DEF Init
<1>3. Absent <= 1 /\ 1 <= 1
  BY DEF Absent
<1> QED BY <1>1, <1>2, <1>3 DEF Gone, Before, InFront, Rising, Elems

\* The numbers that the order is about.
LEMMA OrderTypes ==
  ASSUME ShapeInv
  PROVE  /\ version \in Nat /\ Versions \subseteq Nat
         /\ pods \in [Keys -> Versions] /\ store \in [Keys -> Versions]
         /\ reported \in [Keys -> Versions] /\ wseen \in [Workers -> Versions]
         /\ deltas \in [Keys -> Seq(Objects)]
         /\ \A k \in Keys : Elems(deltas[k]) \subseteq Objects
<1>1. /\ version \in Nat /\ Versions \subseteq Nat
      /\ pods \in [Keys -> Versions] /\ store \in [Keys -> Versions]
      /\ reported \in [Keys -> Versions] /\ wseen \in [Workers -> Versions]
      /\ deltas \in [Keys -> Seq(Objects)]
  BY VersionsType DEF ShapeInv, TypeOK, ServerTypeOK, ControllerTypeOK
<1>2. ASSUME NEW k \in Keys PROVE Elems(deltas[k]) \subseteq Objects
  <2>1. deltas[k] \in Seq(Objects)
    BY <1>1
  <2> QED BY <2>1, LenProperties, ElementOfSeq DEF Elems
<1> QED BY <1>1, <1>2

\* A step that starts no report and moves no version keeps the order.
LEMMA OrderFrame ==
  ASSUME OrderInv, UNCHANGED <<version, pods, deltas, store, reported>>,
         \A w \in Workers : wpc'[w] = "report" =>
           wpc[w] = "report" /\ wkey'[w] = wkey[w] /\ wseen'[w] = wseen[w]
  PROVE  OrderInv'
BY DEF OrderInv, InFront

\* The server's new version is later than everything that is under way.
LEMMA OrderChange ==
  ASSUME ShapeInv, OrderInv, NEW c \in Keys, ChangePod(c)
  PROVE  OrderInv'
<1>1. /\ version' = version + 1
      /\ UNCHANGED <<store, workerVars, reported>>
  BY DEF ChangePod, informerVars, outputVars
<1>2. PICK v \in {Absent, version'} :
        /\ pods' = [pods EXCEPT ![c] = v]
        /\ deltas' \in {deltas, [deltas EXCEPT ![c] = Append(@, v)]}
  BY DEF ChangePod
<1>3. v \in Versions
  BY <1>2, ShapeNext, VersionsType DEF ChangePod, Next, Server, ShapeInv, TypeOK, ServerTypeOK
<1>4. ASSUME NEW k \in Keys
      PROVE  /\ pods'[k] \in {pods[k], v} /\ Rising(deltas'[k])
             /\ Elems(deltas'[k]) \subseteq Elems(deltas[k]) \cup {v}
             /\ pods'[k] # pods[k] => pods'[k] = v
             /\ Elems(deltas'[k]) = Elems(deltas[k]) \/ pods'[k] = v
  <2>1. Rising(deltas[k]) /\ deltas[k] \in Seq(Objects) /\ v \in Objects
    BY <1>3, OrderTypes, ObjectsType DEF OrderInv
  <2>2. ASSUME NEW x \in Elems(deltas[k]) PROVE Before(x, v)
    <3>1. x \in Int /\ x <= version /\ version \in Nat
      BY OrderTypes, ObjectsType DEF OrderInv
    <3> QED BY <1>1, <1>2, <3>1 DEF Gone, Before, Absent
  <2>3. Rising(Append(deltas[k], v)) /\ Elems(Append(deltas[k], v)) = Elems(deltas[k]) \cup {v}
    BY <1>3, <2>1, <2>2, RisingAppend
  <2> QED BY <1>2, <2>1, <2>3, OrderTypes
<1>5. ASSUME NEW k \in Keys, NEW u \in Versions, InFront(u, k) PROVE InFront(u, k)'
  BY <1>1, <1>2, <1>4, <1>5, OrderTypes DEF InFront, Gone, Before, Absent
<1>6. ASSUME NEW k \in Keys, NEW x \in Elems(deltas'[k])
      PROVE  x <= version' /\ Before(x, pods'[k])
  <2>1. x = v \/ (x \in Elems(deltas[k]) /\ x <= version /\ Before(x, pods[k]))
    BY <1>4, <1>6 DEF OrderInv
  <2>2. v <= version' /\ Before(v, v) /\ version' \in Nat
    BY <1>1, <1>2, OrderTypes, SMTT(40) DEF Gone, Before, Absent
  <2>3. CASE x = v
    <3>1. pods'[k] = v \/ x \in Elems(deltas[k])
      BY <1>4, <1>6, <2>3
    <3> QED BY <1>1, <1>4, <2>2, <2>3, <3>1, OrderTypes DEF OrderInv, Gone, Before, Absent
  <2>4. CASE x # v
    <3>1. x \in Elems(deltas[k]) /\ x \in Int /\ pods[k] \in Nat /\ version \in Nat
      BY <2>1, <2>4, OrderTypes, ObjectsType
    <3> QED BY <1>1, <1>2, <1>4, <2>1, <2>4, <3>1 DEF Gone, Before, Absent
  <2> QED BY <2>3, <2>4
<1>7. ASSUME NEW k \in Keys PROVE pods'[k] <= version' /\ Before(store'[k], pods'[k])
  BY <1>1, <1>2, <1>4, OrderTypes DEF OrderInv, InFront, Gone, Before, Absent
<1>8. ASSUME NEW k \in Keys PROVE InFront(store[k], k)' /\ InFront(reported[k], k)'
  <2>1. InFront(store[k], k) /\ InFront(reported[k], k)
    BY DEF OrderInv
  <2>2. store[k] \in Versions /\ reported[k] \in Versions
    BY OrderTypes
  <2> QED BY <1>1, <1>5, <2>1, <2>2 DEF InFront
<1>9. ASSUME NEW k \in Keys, NEW w \in Workers, wpc[w] = "report", wkey[w] = k
      PROVE  InFront(wseen[w], k)' /\ Before(reported[k], wseen[w])
  <2>1. InFront(wseen[w], k) /\ Before(reported[k], wseen[w])
    BY <1>9 DEF OrderInv
  <2>2. wseen[w] \in Versions
    BY OrderTypes
  <2> QED BY <1>1, <1>5, <2>1, <2>2 DEF InFront, workerVars
<1> QED BY <1>1, <1>4, <1>6, <1>7, <1>8, <1>9 DEF OrderInv, workerVars

\* A list delivers the server's versions, which are the latest.
LEMMA OrderList ==
  ASSUME ShapeInv, OrderInv, List
  PROVE  OrderInv'
<1>1. /\ UNCHANGED <<version, pods, store, workerVars, reported>>
      /\ \A k \in Keys : deltas'[k] \in {deltas[k], Append(deltas[k], pods[k]),
                                        Append(deltas[k], Tombstone)}
  BY DEF List, informerVars, outputVars
<1>2. ASSUME NEW k \in Keys
      PROVE  /\ Rising(deltas'[k])
             /\ Elems(deltas'[k]) \subseteq Elems(deltas[k]) \cup {pods[k], Tombstone}
  <2>1. /\ Rising(deltas[k]) /\ deltas[k] \in Seq(Objects)
        /\ pods[k] \in Objects /\ Tombstone \in Objects
        /\ \A x \in Elems(deltas[k]) : Before(x, pods[k]) /\ Before(x, Tombstone)
    BY OrderTypes, ObjectsType DEF OrderInv, Before, Gone
  <2>2. /\ Rising(Append(deltas[k], pods[k]))
        /\ Elems(Append(deltas[k], pods[k])) = Elems(deltas[k]) \cup {pods[k]}
    BY <2>1, RisingAppend
  <2>3. /\ Rising(Append(deltas[k], Tombstone))
        /\ Elems(Append(deltas[k], Tombstone)) = Elems(deltas[k]) \cup {Tombstone}
    BY <2>1, RisingAppend
  <2> QED BY <1>1, <2>1, <2>2, <2>3
<1>3. ASSUME NEW k \in Keys, NEW u, InFront(u, k) PROVE InFront(u, k)'
  BY <1>1, <1>2, <1>3 DEF InFront, Before, Gone
<1>4. ASSUME NEW k \in Keys, NEW x \in Elems(deltas'[k])
      PROVE  x <= version' /\ Before(x, pods'[k])
  BY <1>1, <1>2, <1>4, OrderTypes DEF OrderInv, Before, Gone, Tombstone
<1>5. ASSUME NEW k \in Keys PROVE InFront(store[k], k)' /\ InFront(reported[k], k)'
  BY <1>1, <1>3 DEF OrderInv, InFront
<1>6. ASSUME NEW k \in Keys, NEW w \in Workers, wpc[w] = "report", wkey[w] = k
      PROVE  InFront(wseen[w], k)' /\ Before(reported[k], wseen[w])
  BY <1>1, <1>3, <1>6 DEF OrderInv, InFront, workerVars
<1> QED BY <1>1, <1>2, <1>4, <1>5, <1>6 DEF OrderInv, workerVars

\* The store takes the oldest delta: what is in front of the store stays there.
LEMMA OrderUpdate ==
  ASSUME ShapeInv, OrderInv, NEW c \in Keys, UpdateStore(c)
  PROVE  OrderInv'
<1>1. /\ UNCHANGED <<version, pods, workerVars, reported>>
      /\ deltas[c] # <<>> /\ deltas' = [deltas EXCEPT ![c] = Tail(@)]
      /\ store' = [store EXCEPT ![c] = VersionOf(Head(deltas[c]))]
  BY DEF UpdateStore, outputVars
<1>2. /\ Rising(Tail(deltas[c])) /\ Elems(Tail(deltas[c])) \subseteq Elems(deltas[c])
      /\ Head(deltas[c]) \in Elems(deltas[c])
      /\ \A x \in Elems(Tail(deltas[c])) : Before(Head(deltas[c]), x)
  BY <1>1, OrderTypes, RisingTail DEF OrderInv
<1>3. ASSUME NEW k \in Keys
      PROVE  /\ Rising(deltas'[k]) /\ Elems(deltas'[k]) \subseteq Elems(deltas[k])
             /\ \/ store'[k] = store[k] /\ deltas'[k] = deltas[k]
                \/ store'[k] = Absent
                \/ /\ store'[k] \in Elems(deltas[k])
                   /\ \A x \in Elems(deltas'[k]) : Before(store'[k], x)
  <2>1. VersionOf(Head(deltas[c])) \in {Absent, Head(deltas[c])}
    BY DEF VersionOf
  <2> QED BY <1>1, <1>2, <2>1, OrderTypes DEF OrderInv
<1>4. ASSUME NEW k \in Keys, NEW u, InFront(u, k)
      PROVE  /\ u <= version' /\ Before(u, store'[k]) /\ Before(u, pods'[k])
             /\ \A x \in Elems(deltas'[k]) : Before(u, x)
  BY <1>1, <1>3, <1>4 DEF InFront, Before, Gone
<1>5. ASSUME NEW k \in Keys
      PROVE  /\ store'[k] <= version' /\ Before(store'[k], pods'[k])
             /\ Before(store'[k], store'[k])
             /\ \A x \in Elems(deltas'[k]) : Before(store'[k], x)
  <2>1. store[k] \in Nat /\ Elems(deltas[k]) \subseteq Int /\ version \in Nat
    BY OrderTypes, ObjectsType
  <2>2. InFront(store[k], k) /\ \A x \in Elems(deltas[k]) : x <= version /\ Before(x, pods[k])
    BY DEF OrderInv
  <2>3. store'[k] \in Int /\ Before(store'[k], store'[k])
    BY <1>3, <2>1 DEF Before, Absent
  <2>4. CASE store'[k] = Absent
    BY <1>1, <2>1, <2>4 DEF Before, Gone, Absent
  <2>5. CASE store'[k] # Absent
    BY <1>1, <1>3, <2>2, <2>3, <2>5 DEF InFront
  <2> QED BY <2>4, <2>5
<1>6. ASSUME NEW k \in Keys PROVE InFront(store[k], k)' /\ InFront(reported[k], k)'
  BY <1>1, <1>4, <1>5 DEF OrderInv, InFront
<1>7. ASSUME NEW k \in Keys, NEW w \in Workers, wpc[w] = "report", wkey[w] = k
      PROVE  InFront(wseen[w], k)' /\ Before(reported[k], wseen[w])
  BY <1>1, <1>4, <1>7 DEF OrderInv, InFront, workerVars
<1> QED BY <1>1, <1>3, <1>5, <1>6, <1>7 DEF OrderInv, workerVars

\* A worker copies the store's version, and prints its copy; nobody else has a
\* copy of the same pod.
LEMMA OrderSync ==
  ASSUME ShapeInv, OrderInv, NEW w \in Workers, SyncRead(w) \/ SyncReport(w)
  PROVE  OrderInv'
<1>1. UNCHANGED <<version, pods, deltas, store, wkey>>
  BY DEF SyncRead, SyncReport, workerFrame, serverVars, informerVars
<1>2. wkey[w] \in Keys /\ \A v \in Workers : v # w => wkey[v] # wkey[w]
  BY KeysAssumption DEF SyncRead, SyncReport, ShapeInv, TypeOK, ControllerTypeOK,
     WorkerShape, NeverInParallel, Holding, WorkerStates
<1>3. wpc \in [Workers -> WorkerStates]
  BY DEF ShapeInv, TypeOK, ControllerTypeOK
<1>4. CASE SyncRead(w)
  <2>1. /\ wseen' = [wseen EXCEPT ![w] = store[wkey[w]]] /\ reported' = reported
        /\ \A v \in Workers : v # w => wpc'[v] = wpc[v]
    BY <1>3, <1>4 DEF SyncRead, outputVars
  <2>2. \A v \in Workers : wseen'[v] = IF v = w THEN store[wkey[w]] ELSE wseen[v]
    BY <2>1, OrderTypes
  <2>3. \A k \in Keys : Before(reported[k], store[k])
    BY DEF OrderInv, InFront
  <2> QED BY <1>1, <1>2, <2>1, <2>2, <2>3, SMTT(40) DEF OrderInv, InFront
<1>5. CASE SyncReport(w)
  <2>1. /\ wpc[w] = "report" /\ wpc'[w] # "report" /\ wseen' = wseen
        /\ reported' = [reported EXCEPT ![wkey[w]] = wseen[w]]
        /\ \A v \in Workers : v # w => wpc'[v] = wpc[v]
    BY <1>3, <1>5 DEF SyncReport
  <2>2. \A k \in Keys : reported'[k] = IF k = wkey[w] THEN wseen[w] ELSE reported[k]
    BY <2>1, OrderTypes
  <2>3. InFront(wseen[w], wkey[w])
    BY <1>2, <2>1 DEF OrderInv
  <2> QED BY <1>1, <1>2, <2>1, <2>2, <2>3, SMTT(40) DEF OrderInv, InFront
<1> QED BY <1>4, <1>5

\* Every step keeps the order.
LEMMA OrderNext == ShapeInv /\ OrderInv /\ [Next]_vars => OrderInv'
<1> SUFFICES ASSUME ShapeInv, OrderInv, [Next]_vars PROVE OrderInv'
  OBVIOUS
<1>1. wpc \in [Workers -> WorkerStates] /\ wkey \in [Workers -> Keys \cup {NoKey}]
  BY DEF ShapeInv, TypeOK, ControllerTypeOK
<1>2. CASE HandleEvent \/ BreakWatch \/ Stop \/ UNCHANGED vars
  BY <1>2, OrderFrame DEF HandleEvent, BreakWatch, Stop, vars, serverVars, informerVars,
     workerVars, outputVars
<1>3. CASE Run
  BY <1>3, OrderFrame DEF Run, RunStart, RunSynced, RunReturn, serverVars, informerVars,
     workerVars, outputVars
<1>4. ASSUME NEW w \in Workers, Worker(w) PROVE OrderInv'
  <2>1. CASE SyncRead(w) \/ SyncReport(w)
    BY <2>1, OrderSync
  <2>2. CASE ~(SyncRead(w) \/ SyncReport(w))
    <3>1. /\ UNCHANGED <<version, pods, deltas, store, reported, wseen>>
          /\ \E l \in WorkerStates \ {"report"} : wpc' = [wpc EXCEPT ![w] = l]
          /\ \A v \in Workers : v # w => wkey'[v] = wkey[v]
      BY <1>1, <1>4, <2>2 DEF Worker, WorkerStart, ProcessNextItem, WorkerGet, WorkerQuit,
         SyncFail, HandleNil, HandleErr, HandleRetry, HandleDrop, WorkerDone, workerFrame,
         serverVars, informerVars, outputVars, WorkerStates
    <3> QED BY <1>1, <3>1, OrderFrame
  <2> QED BY <2>1, <2>2
<1>5. ASSUME NEW k \in Keys, ReleaseDelayed(k) PROVE OrderInv'
  BY <1>5, OrderFrame DEF ReleaseDelayed, workerFrame, serverVars, informerVars, workerVars,
     outputVars
<1> QED BY <1>2, <1>3, <1>4, <1>5, OrderChange, OrderList, OrderUpdate DEF Next, Server, Informer

-----------------------------------------------------------------------------
(* The refinement.                                                         *)

excused == IF stopped THEN Keys ELSE dropped

\* The controller starts where PodMirror starts.
LEMMA MirrorInit == Init => Mirror!Init
BY DEF Init, Mirror!Init

\* Printing implements PrintVersion, a change on the server Change; a drop, a
\* Get and Stop may change who is excused; every other step shows nothing.
LEMMA MirrorNext ==
  ShapeInv /\ ShapeInv' /\ OrderInv /\ [Next]_vars => [Mirror!Next]_(Mirror!vars)
<1> SUFFICES ASSUME ShapeInv, ShapeInv', OrderInv, [Next]_vars
             PROVE  Mirror!Next \/ UNCHANGED Mirror!vars
  OBVIOUS
<1>1. dropped' \subseteq Keys
  BY DEF ShapeInv, TypeOK, ControllerTypeOK
<1>2. CASE UNCHANGED <<pods, version, reported>>
  <2>1. excused' \in SUBSET Keys
    BY <1>1 DEF excused
  <2>2. Mirror!Excuse
    BY <1>2, <2>1 DEF Mirror!Excuse, excused
  <2> QED BY <2>2 DEF Mirror!Next
<1>3. ASSUME NEW k \in Keys, ChangePod(k) PROVE Mirror!Change(k)
  BY <1>3 DEF ChangePod, Mirror!Change, outputVars, runVars
<1>4. ASSUME NEW w \in Workers, SyncReport(w)
      PROVE  \E k \in Keys : \E v \in 0 .. version : Mirror!PrintVersion(k, v)
  <2>1. wkey[w] \in Keys /\ wseen[w] \in Nat
    BY <1>4, KeysAssumption, OrderTypes DEF SyncReport, ShapeInv, TypeOK, ControllerTypeOK,
       WorkerShape, Holding, WorkerStates
  <2>2. wseen[w] <= version /\ Before(reported[wkey[w]], wseen[w])
    BY <1>4, <2>1 DEF SyncReport, OrderInv, InFront
  <2>3. wseen[w] \in 0 .. version
    BY <2>1, <2>2, OrderTypes
  <2>4. wseen[w] = Absent \/ reported[wkey[w]] <= wseen[w]
    BY <2>1, <2>2, OrderTypes DEF Before, Gone, Absent, Tombstone
  <2>5. Mirror!PrintVersion(wkey[w], wseen[w])
    BY <1>4, <2>1, <2>4 DEF SyncReport, Mirror!PrintVersion, workerFrame, serverVars, runVars
  <2> QED BY <2>1, <2>3, <2>5
<1>5. \/ UNCHANGED <<pods, version, reported>>
      \/ \E k \in Keys : ChangePod(k)
      \/ \E w \in Workers : SyncReport(w)
  BY DEF Next, Server, List, BreakWatch, Informer, HandleEvent, UpdateStore, Run, RunStart,
     RunSynced, RunReturn, Stop, Worker, WorkerStart, ProcessNextItem, WorkerGet, WorkerQuit,
     SyncRead, SyncFail, HandleNil, HandleErr, HandleRetry, HandleDrop, WorkerDone,
     ReleaseDelayed, workerFrame, serverVars, outputVars, vars
<1> QED BY <1>2, <1>3, <1>4, <1>5 DEF Mirror!Next

\* main.go:26-27: what the controller prints of a pod are versions that the
\* server made, never an older one after a newer one, for any workers, broken
\* watches and retries.
THEOREM PrintsLikeMirrorHolds == Spec => PrintsLikeMirror
<1>1. ShapeInv /\ ShapeInv' /\ OrderInv /\ [Next]_vars => [Mirror!Next]_(Mirror!vars)
  BY MirrorNext
<1> QED BY <1>1, MirrorInit, OrderInit, OrderNext, ShapeInvariant, PTL
        DEF Spec, PrintsLikeMirror, Mirror!Spec

=============================================================================
