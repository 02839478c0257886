----------------------------- MODULE WorkQueue -----------------------------
(***************************************************************************)
(* The client-go v0.30 work queue that main.go:164 builds with             *)
(* workqueue.NewRateLimitingQueue(workqueue.DefaultControllerRateLimiter): *)
(* a FIFO that coalesces repeated adds, with a delayed-add heap and a      *)
(* per-item failure count on top.  The library is not part of the          *)
(* repository: each operator below is one call that the controller makes,  *)
(* written as one step because the library does it under its own lock.     *)
(*                                                                         *)
(* Times are left out: a delayed add becomes ready at any later moment.    *)
(***************************************************************************)
EXTENDS Naturals, Sequences

CONSTANT Keys          \* the namespace/name keys of the pods

VARIABLES
  queue,               \* the keys that Get hands out next, in order
  dirty,               \* the keys that still need a processing round
  processing,          \* the keys between their Get and their Done
  waitingForAdd,       \* the keys of the delayed adds that are not yet ready
  failures,            \* the rate limiter's requeue count of each key
  shuttingDown         \* set by ShutDown; never reset

queueVars == <<queue, dirty, processing, waitingForAdd, failures, shuttingDown>>

WorkQueueInit ==
  /\ queue = <<>>
  /\ dirty = {}
  /\ processing = {}
  /\ waitingForAdd = {}
  /\ failures = [k \in Keys |-> 0]
  /\ shuttingDown = FALSE

\* An Add that ignores that k is being processed.
AddWhileProcessing(k) ==
  /\ IF shuttingDown \/ k \in dirty
       THEN UNCHANGED <<dirty, queue>>
       ELSE dirty' = dirty \cup {k} /\ queue' = Append(queue, k)
  /\ UNCHANGED <<processing, waitingForAdd, failures, shuttingDown>>

\* Add(k): refused after ShutDown, coalesced while k is dirty, and held back
\* (dirty, but not queued) while another worker is processing k.
Add(k) ==
  /\ IF shuttingDown \/ k \in dirty
       THEN UNCHANGED <<dirty, queue>>
       ELSE /\ dirty' = dirty \cup {k}
            /\ queue' = IF k \in processing THEN queue ELSE Append(queue, k)
  /\ UNCHANGED <<processing, waitingForAdd, failures, shuttingDown>>

\* A Get that does not mark the key as being processed.
GetUnmarked(k) ==
  /\ queue # <<>>
  /\ k = Head(queue)
  /\ queue' = Tail(queue)
  /\ dirty' = dirty \ {k}
  /\ UNCHANGED <<processing, waitingForAdd, failures, shuttingDown>>

\* Get() = k, quit = false.  Blocks while the queue is empty.
GetItem(k) ==
  /\ queue # <<>>
  /\ k = Head(queue)
  /\ queue' = Tail(queue)
  /\ processing' = processing \cup {k}
  /\ dirty' = dirty \ {k}
  /\ UNCHANGED <<waitingForAdd, failures, shuttingDown>>

\* A Get that quits as soon as the queue is shut down.
GetQuitUndrained ==
  /\ shuttingDown
  /\ UNCHANGED queueVars

\* Get() returns quit = true: only when the queue is both empty and shut down.
GetQuit ==
  /\ queue = <<>>
  /\ shuttingDown
  /\ UNCHANGED queueVars

\* A Done that clears the dirty mark of the round it ends.
DoneClearsDirty(k) ==
  /\ processing' = processing \ {k}
  /\ dirty' = dirty \ {k}
  /\ UNCHANGED <<queue, waitingForAdd, failures, shuttingDown>>

\* Done(k): a key that became dirty while it was processed goes back in line.
Done(k) ==
  /\ processing' = processing \ {k}
  /\ queue' = IF k \in dirty THEN Append(queue, k) ELSE queue
  /\ UNCHANGED <<dirty, waitingForAdd, failures, shuttingDown>>

NumRequeues(k) == failures[k]

\* AddRateLimited(k): When(k) counts the failure even on a queue that is
\* shutting down; the delayed add itself is then refused.
AddRateLimited(k) ==
  /\ failures' = [failures EXCEPT ![k] = @ + 1]
  /\ waitingForAdd' = IF shuttingDown THEN waitingForAdd
                                      ELSE waitingForAdd \cup {k}
  /\ UNCHANGED <<queue, dirty, processing, shuttingDown>>

\* Forget(k): clears the failure count.
Forget(k) ==
  /\ failures' = [failures EXCEPT ![k] = 0]
  /\ UNCHANGED <<queue, dirty, processing, waitingForAdd, shuttingDown>>

\* The waiting loop: a delayed add whose time has come is added.  ShutDown
\* stops the loop, so what is still waiting then is never added.
DelayedAdd(k) ==
  /\ k \in waitingForAdd
  /\ ~shuttingDown
  /\ waitingForAdd' = waitingForAdd \ {k}
  /\ IF k \in dirty
       THEN UNCHANGED <<dirty, queue>>
       ELSE /\ dirty' = dirty \cup {k}
            /\ queue' = IF k \in processing THEN queue ELSE Append(queue, k)
  /\ UNCHANGED <<processing, failures, shuttingDown>>

\* ShutDown(): later adds are refused, Get drains what is queued.
ShutDown ==
  /\ shuttingDown' = TRUE
  /\ UNCHANGED <<queue, dirty, processing, waitingForAdd, failures>>

-----------------------------------------------------------------------------

Queued == {queue[i] : i \in DOMAIN queue}

WorkQueueTypeOK ==
  /\ queue \in Seq(Keys)
  /\ dirty \subseteq Keys
  /\ processing \subseteq Keys
  /\ waitingForAdd \subseteq Keys
  /\ failures \in [Keys -> Nat]
  /\ shuttingDown \in BOOLEAN

\* The FIFO holds each key at most once, and exactly the dirty keys that no
\* worker is processing: the shape every operation must restore for Get never
\* to hand out a key that is being processed.
QueueShape ==
  /\ \A i, j \in DOMAIN queue : queue[i] = queue[j] => i = j
  /\ Queued = dirty \ processing

=============================================================================
