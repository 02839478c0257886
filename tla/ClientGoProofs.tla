--------------------------- MODULE ClientGoProofs ---------------------------
(***************************************************************************)
(* The client-go programs, for any programs, any number of attempts and    *)
(* any number of writes of others.  First DeploymentUpdate: no note is     *)
(* taken back, and every conflict is somebody's write.  Then ClientsetTour: *)
(* the preconditions of the deletes and the optimistic lock of the patch.  *)
(* Last MCClientGo: an instance that runs either of them implements both,  *)
(* so that what holds of each holds of the run.                            *)
(***************************************************************************)
EXTENDS MCClientGo, TLAPS

-----------------------------------------------------------------------------
(* DeploymentUpdate.                                                       *)

\* Resource versions and notes are versions that the server has reached, and
\* a copy with the object's resource version has its note.
CopyInv ==
  /\ rv <= version
  /\ note <= version
  /\ \A p \in Programs : copy[p].rv <= version
  /\ \A p \in Programs : copy[p].rv = rv => copy[p].note = note

\* A program in its retry loop has attempts left; each one it has used up is a
\* write that was made since it entered the loop, and a copy that is out of
\* date has cost one more.
TriesInv ==
  \A p \in Programs :
    /\ pc[p] \in {"create", "prompt1"} => tries[p] = 0
    /\ pc[p] \in {"get", "update"} => tries[p] < Steps
    /\ since[p] + tries[p] <= version
    /\ pc[p] = "update" /\ copy[p].rv # rv => since[p] + tries[p] < version

\* The inductive invariant.
DeploymentInv == TypeOK /\ CopyInv /\ TriesInv

\* At the start no program has a copy.
LEMMA DeploymentInit == Init => DeploymentInv
<1> SUFFICES ASSUME Init PROVE DeploymentInv
  OBVIOUS
<1>1. TypeOK
  <2>1. Object \in [rv : Nat, note : Nat]
    BY DEF Init, Object
  <2>2. 0 \in 0 .. Steps
    BY StepsAssumption
  <2>3. tries \in [Programs -> 0 .. Steps] /\ copy \in [Programs -> [rv : Nat, note : Nat]]
    BY <2>1, <2>2 DEF Init
  <2>4. pc \in [Programs -> PCs] /\ since \in [Programs -> Nat]
    BY DEF Init, PCs
  <2>5. exists \in BOOLEAN /\ deleting \in BOOLEAN
    BY DEF Init
  <2>6. /\ version \in Nat /\ rv \in Nat
        /\ replicas \in 0 .. 3 /\ image \in {"none", "nginx:1.12", "nginx:1.13"} /\ note \in Nat
    BY DEF Init
  <2> QED BY <2>3, <2>4, <2>5, <2>6 DEF TypeOK
<1>2. CopyInv
  BY DEF Init, Object, CopyInv
<1>3. TriesInv
  <2>1. 0 < Steps /\ 0 + 0 <= 0
    BY StepsAssumption
  <2>2. \A p \in Programs : tries[p] = 0 /\ since[p] = 0 /\ pc[p] = "create"
    BY DEF Init
  <2> QED BY <2>1, <2>2 DEF Init, TriesInv
<1> QED BY <1>1, <1>2, <1>3 DEF DeploymentInv

\* What a step may do to the object: nothing to its resource version and note,
\* or a new version of the server that is also the object's.  Either way the
\* copies, if nobody makes a new one, still say what CopyInv says of them.
Stored == version' = version + 1 /\ rv' = version' /\ note' \in 0 .. version'
Untouched   == version' \in {version, version + 1} /\ UNCHANGED <<rv, note>>

\* A step that leaves the copies alone keeps what is known of them.
LEMMA CopyKept ==
  ASSUME DeploymentInv, Stored \/ Untouched, UNCHANGED copy
  PROVE  CopyInv'
BY DEF DeploymentInv, TypeOK, CopyInv, Stored, Untouched

\* A program that stays where it is, whatever the others write meanwhile.
LEMMA TriesKept ==
  ASSUME DeploymentInv, Stored \/ Untouched, UNCHANGED <<copy, tries, since>>,
         \A p \in Programs : \/ pc'[p] = pc[p]
                             \/ pc'[p] \notin {"create", "prompt1", "get", "update"}
                             \/ pc[p] = "create" /\ pc'[p] = "prompt1"
  PROVE  TriesInv'
BY DEF DeploymentInv, TypeOK, TriesInv, CopyInv, Stored, Untouched

\* An update of a copy that is not stale stores that copy.
LEMMA WriteCopyStores ==
  ASSUME DeploymentInv, NEW p \in Programs, WriteCopy(p), copy[p].rv = rv
  PROVE  /\ Stored \/ Untouched
         /\ replicas' \in 0 .. 3 /\ image' \in {"none", "nginx:1.12", "nginx:1.13"}
         /\ note' = note
<1>1. copy[p].note = note /\ note \in 0 .. version /\ version \in Nat
  BY DEF DeploymentInv, CopyInv, TypeOK
<1> QED BY <1>1 DEF DeploymentInv, TypeOK, WriteCopy, Store, Stored, Untouched

\* Create, list, delete, an update, and every panic.
LEMMA DeploymentCalls ==
  ASSUME DeploymentInv, NEW p \in Programs,
         \/ Create(p) \/ List(p) \/ Delete(p) \/ UpdateOK(p) \/ UpdateNotFound(p)
         \/ CallFails(p) \/ UpdateAnswerLost(p)
  PROVE  DeploymentInv'
<1>1. UNCHANGED <<copy, tries, since>>
  BY DEF Create, List, Delete, UpdateOK, UpdateNotFound, CallFails, UpdateAnswerLost
<1>2. /\ Stored \/ Untouched
      /\ replicas' \in 0 .. 3 /\ image' \in {"none", "nginx:1.12", "nginx:1.13"}
      /\ exists' \in BOOLEAN /\ deleting' \in BOOLEAN
  <2>1. CASE UpdateOK(p) \/ UpdateAnswerLost(p)
    BY <2>1, WriteCopyStores DEF UpdateOK, UpdateAnswerLost, DeploymentInv, TypeOK
  <2>2. CASE Create(p) \/ Delete(p)
    <3>1. UNCHANGED objVars \/ \E r \in 0 .. 3, i \in {"none", "nginx:1.12", "nginx:1.13"},
                                  n \in 0 .. version : Store(r, i, n)
      BY <2>2 DEF Create, Delete, DeploymentInv, TypeOK, CopyInv
    <3>2. exists' \in BOOLEAN /\ deleting' \in BOOLEAN
      BY <2>2 DEF Create, Delete, Store, objVars, DeploymentInv, TypeOK
    <3> QED BY <3>1, <3>2 DEF Store, objVars, Stored, Untouched, DeploymentInv, TypeOK
  <2>3. CASE List(p) \/ UpdateNotFound(p) \/ CallFails(p)
    BY <2>3 DEF List, UpdateNotFound, CallFails, objVars, Untouched, DeploymentInv, TypeOK
  <2> QED BY <2>1, <2>2, <2>3
<1>3. PICK l \in {"prompt1", "prompt2", "prompt3", "end", "panic"} :
        pc' = [pc EXCEPT ![p] = l] /\ (l = "prompt1" => pc[p] = "create")
  BY DEF Create, List, Delete, UpdateOK, UpdateNotFound, CallFails, UpdateAnswerLost, Goto
<1>4. TypeOK'
  BY <1>1, <1>2, <1>3 DEF DeploymentInv, TypeOK, PCs, Stored, Untouched
<1>5. CopyInv'
  BY <1>1, <1>2, CopyKept
<1>6. TriesInv'
  <2>1. \A q \in Programs : \/ pc'[q] = pc[q]
                            \/ pc'[q] \notin {"create", "prompt1", "get", "update"}
                            \/ pc[q] = "create" /\ pc'[q] = "prompt1"
    BY <1>3 DEF DeploymentInv, TypeOK
  <2> QED BY <1>1, <1>2, <2>1, TriesKept
<1> QED BY <1>4, <1>5, <1>6 DEF DeploymentInv

\* The steps of RetryOnConflict: it is entered, the object is read, a conflict
\* uses up an attempt.
LEMMA DeploymentRetry ==
  ASSUME DeploymentInv, NEW p \in Programs, PressReturn(p) \/ Get(p) \/ UpdateConflict(p)
  PROVE  DeploymentInv'
<1>1. UNCHANGED objVars
  BY DEF PressReturn, Get, UpdateConflict
<1>2. CASE PressReturn(p)
  <2>1. TypeOK'
    BY <1>1, <1>2 DEF PressReturn, Goto, DeploymentInv, TypeOK, PCs, objVars
  <2>2. TriesInv'
    BY <1>1, <1>2, StepsAssumption
       DEF PressReturn, Goto, DeploymentInv, TypeOK, TriesInv, objVars
  <2>3. CopyInv'
    BY <1>1, <1>2, CopyKept DEF PressReturn, Untouched, objVars
  <2> QED BY <2>1, <2>2, <2>3 DEF DeploymentInv
<1>3. CASE Get(p)
  <2>1. Object \in [rv : Nat, note : Nat] /\ Object.rv = rv /\ Object.note = note
    BY DEF Object, DeploymentInv, TypeOK
  <2>2. copy' \in {copy, [copy EXCEPT ![p] = Object]}
    BY <1>3 DEF Get
  <2>3. TypeOK'
    BY <1>1, <1>3, <2>1, <2>2 DEF Get, Goto, DeploymentInv, TypeOK, PCs, objVars
  <2>4. CopyInv'
    BY <1>1, <2>1, <2>2 DEF DeploymentInv, TypeOK, CopyInv, objVars
  <2>5. TriesInv'
    BY <1>1, <1>3, <2>1 DEF Get, Goto, DeploymentInv, TypeOK, TriesInv, objVars
  <2> QED BY <2>3, <2>4, <2>5 DEF DeploymentInv
<1>4. CASE UpdateConflict(p)
  <2>1. tries[p] \in Nat /\ tries[p] < Steps /\ tries'[p] = tries[p] + 1
        /\ since[p] + tries[p] < version
    BY <1>4 DEF UpdateConflict, DeploymentInv, TypeOK, TriesInv
  <2>2. PICK l \in {"get", "panic"} :
          pc' = [pc EXCEPT ![p] = l] /\ (l = "get" => tries'[p] < Steps)
    BY <1>4 DEF UpdateConflict, Goto
  <2>3. TypeOK'
    BY <1>1, <1>4, <2>1, <2>2, StepsAssumption
       DEF UpdateConflict, DeploymentInv, TypeOK, PCs, objVars
  <2>4. TriesInv'
    BY <1>1, <1>4, <2>1, <2>2
       DEF UpdateConflict, DeploymentInv, TypeOK, TriesInv, objVars
  <2>5. CopyInv'
    BY <1>1, <1>4, CopyKept DEF UpdateConflict, Untouched, objVars
  <2> QED BY <2>3, <2>4, <2>5 DEF DeploymentInv
<1> QED BY <1>2, <1>3, <1>4

\* Other clients and the garbage collector do not touch the copies.
LEMMA DeploymentOthers ==
  ASSUME DeploymentInv, OtherWrite \/ OtherDelete \/ Collect
  PROVE  DeploymentInv'
<1>1. UNCHANGED progVars
  BY DEF OtherWrite, OtherDelete, Collect
<1>2. Stored \/ Untouched
  <2>1. note \in 0 .. version /\ version \in Nat
    BY DEF DeploymentInv, TypeOK, CopyInv
  <2> QED BY <2>1 DEF OtherWrite, OtherDelete, Collect, Store, Stored, Untouched
<1>3. TypeOK'
  <2>1. CASE OtherWrite
    <3>1. version' = version + 1 /\ rv' = version' /\ note' = version' /\ image' = image
      BY <2>1 DEF OtherWrite, Store
    <3>2. replicas' \in {replicas, 3} /\ UNCHANGED <<exists, deleting>>
      BY <2>1 DEF OtherWrite, Store
    <3> QED BY <1>1, <3>1, <3>2 DEF progVars, DeploymentInv, TypeOK
  <2>2. CASE OtherDelete \/ Collect
    <3>1. version' = version + 1 /\ rv' \in {rv, version'} /\ UNCHANGED <<replicas, image, note>>
      BY <2>2 DEF OtherDelete, Collect, Store
    <3>2. exists' \in BOOLEAN /\ deleting' \in BOOLEAN
      BY <2>2 DEF OtherDelete, Collect, DeploymentInv, TypeOK
    <3> QED BY <1>1, <3>1, <3>2 DEF progVars, DeploymentInv, TypeOK
  <2> QED BY <2>1, <2>2
<1>4. CopyInv' /\ TriesInv'
  BY <1>1, <1>2, <1>3, CopyKept, TriesKept DEF progVars
<1> QED BY <1>3, <1>4 DEF DeploymentInv

\* Every step keeps the invariant.
LEMMA DeploymentNext == DeploymentInv /\ [Next]_vars => DeploymentInv'
<1>1. CASE UNCHANGED vars
  BY <1>1 DEF vars, objVars, progVars, DeploymentInv, TypeOK, CopyInv, TriesInv
<1> QED BY <1>1, DeploymentCalls, DeploymentRetry, DeploymentOthers DEF Next, Program, Update

\* typed main.go:109-125: versions, copies and attempts always fit together as
\* DeploymentInv says.
THEOREM DeploymentInvariant == Spec => []DeploymentInv
BY DeploymentInit, DeploymentNext, PTL DEF Spec

\* Every variable of the programs and the deployment keeps its type.
THEOREM TypeCorrect == Spec => []TypeOK
BY DeploymentInvariant, PTL DEF DeploymentInv

\* main.go:109-124: every attempt that a program has used up is a write that
\* was made since it entered RetryOnConflict.
THEOREM ConflictsHaveCausesHolds == Spec => []ConflictsHaveCauses
<1>1. DeploymentInv => ConflictsHaveCauses
  <2>1. ASSUME DeploymentInv, NEW p \in Programs
        PROVE  tries[p] <= version - since[p]
    <3>1. tries[p] \in Nat /\ since[p] \in Nat /\ version \in Nat
      BY <2>1, StepsAssumption DEF DeploymentInv, TypeOK
    <3>2. since[p] + tries[p] <= version
      BY <2>1 DEF DeploymentInv, TriesInv
    <3> QED BY <3>1, <3>2
  <2> QED BY <2>1 DEF ConflictsHaveCauses
<1> QED BY <1>1, DeploymentInvariant, PTL

\* main.go:101-104, "you can preserve changes made by other clients": no step
\* of anybody takes the note of a living deployment back.
THEOREM NotesKeptHolds == Spec => NotesKept
<1>1. ASSUME DeploymentInv, [Next]_vars, exists, exists'
      PROVE  note' >= note
  <2>1. note \in Nat /\ note <= version /\ version \in Nat
    BY <1>1 DEF DeploymentInv, TypeOK, CopyInv
  <2>2. ASSUME NEW p \in Programs, UpdateOK(p) \/ UpdateAnswerLost(p)
        PROVE  note' = note
    BY <1>1, <2>2, WriteCopyStores DEF UpdateOK, UpdateAnswerLost
  <2>3. CASE OtherWrite
    BY <2>1, <2>3 DEF OtherWrite, Store
  <2> QED BY <1>1, <2>1, <2>2, <2>3 DEF Next, Program, Update, Create, Get, UpdateConflict,
             UpdateNotFound, List, Delete, PressReturn, CallFails, OtherDelete, Collect,
             Store, vars, objVars
<1>2. DeploymentInv /\ [Next]_vars => [exists /\ exists' => note' >= note]_vars
  BY <1>1
<1> QED BY <1>2, DeploymentInvariant, PTL DEF Spec, NotesKept

-----------------------------------------------------------------------------
(* ClientsetTour.                                                          *)

Pods == [uid : Nat, rv : Nat, deleting : BOOLEAN, bound : BOOLEAN]
Deps == [rv : Nat, replicas : Nat, container : {"none", "nginx", "main"}, note : Nat]

TourTypes ==
  /\ clock \in Nat /\ step \in TourSteps
  /\ pod \in Pods /\ createdPod \in Pods
  /\ dep \in Deps /\ updatedDep \in Deps /\ existingDep \in Deps

\* The pod is gone, as Create left it, or newer; once it was deleted it is not
\* as Create left it any more.
PodInv ==
  /\ pod.rv <= clock /\ createdPod.rv <= clock
  /\ step \in {"getPod", "list", "delete"} =>
       /\ createdPod.uid > 0
       /\ pod = NoPod \/ createdPod.rv < pod.rv \/ (createdPod.rv = pod.rv /\ ~pod.deleting)
  /\ step \in {"deleteGrace", "deleteUID", "deleteRV"} =>
       createdPod.uid > 0 /\ (pod = NoPod \/ createdPod.rv < pod.rv)

\* The resource version tells the deployment's states apart.
DepInv ==
  /\ dep.rv <= clock /\ updatedDep.rv <= clock /\ existingDep.rv <= clock
  /\ dep # NoDep => dep.rv > 0
  /\ dep # NoDep /\ dep.rv = existingDep.rv => dep = existingDep

\* The inductive invariant.
TourInv == TourTypes /\ PodInv /\ DepInv

\* The tour starts with nothing created.
LEMMA TourStart == TourInit => TourInv
BY DEF TourInit, TourInv, TourTypes, PodInv, DepInv, NoPod, NoDep, Pods, Deps, TourSteps

\* A call that is about the pod, or about nothing.
PodCall == CreatePod \/ GetPod \/ ListPods \/ DeletePlain \/ DeleteGrace \/ DeleteUID \/ DeleteRV
           \/ DeleteForeground \/ DeleteCollection
DepCall == CreateDep \/ UpdateDep \/ GetDep \/ PatchDep \/ ApplyPatch \/ ApplyConfig

\* What the others and the calls may do to the clock and the deployment.
LEMMA DepKept ==
  ASSUME TourInv, UNCHANGED <<dep, updatedDep, existingDep>>, clock' \in {clock, clock + 1}
  PROVE  DepInv'
BY DEF TourInv, TourTypes, DepInv, Deps

\* A deployment stored at the next version keeps what is known of the copies.
LEMMA DepStored ==
  ASSUME TourInv, UNCHANGED existingDep, clock' = clock + 1,
         dep' = NoDep \/ dep'.rv = clock', updatedDep' \in {updatedDep, dep'}
  PROVE  DepInv'
BY DEF TourInv, TourTypes, DepInv, Deps, NoDep

\* A pod is created with a uid and a version of its own.
LEMMA NewPod ==
  ASSUME NEW v \in Nat
  PROVE  LET p == [NoPod EXCEPT !.uid = v, !.rv = v]
         IN  p \in Pods /\ p.rv = v /\ p.uid = v /\ p.deleting = FALSE
BY DEF NoPod, Pods

\* A pod that is marked or bound changes its version with it.
LEMMA ChangedPod ==
  ASSUME NEW q \in Pods, NEW v \in Nat, NEW d \in BOOLEAN, NEW b \in BOOLEAN
  PROVE  /\ LET p == [q EXCEPT !.deleting = d, !.rv = v] IN p \in Pods /\ p.rv = v
         /\ LET p == [q EXCEPT !.bound = b, !.rv = v] IN p \in Pods /\ p.rv = v
BY DEF Pods

\* A delete leaves the pod alone, or leaves none, or one with a new version; the
\* only one that it finds marked already is newer than what Create returned.
LEMMA Deleted ==
  ASSUME TourInv, NEW s, NEW pre, NEW missing, NEW next, DeletePod(s, pre, missing, next)
  PROVE  /\ step = s /\ step' \in {missing, next, "panic"} /\ (pod = NoPod => step' = missing)
         /\ UNCHANGED <<dep, createdPod, updatedDep, existingDep>>
         /\ clock' \in {clock, clock + 1} /\ pod' \in Pods
         /\ \/ pod' = NoPod
            \/ pod'.rv = clock' /\ clock' = clock + 1
            \/ pod' = pod /\ clock' = clock /\ (pre => pod.deleting)
<1> USE DEF TourInv, TourTypes, DeletePod, At, Then, CarriedOut, Kept, Tick
<1>1. CASE pod = NoPod
  BY <1>1
<1>2. CASE pod # NoPod /\ ~pre
  BY <1>2
<1>3. CASE pod # NoPod /\ pre
  <2>1. NoPod \in Pods
    BY DEF NoPod, Pods
  <2>2. clock + 1 \in Nat /\ pod \in Pods
    OBVIOUS
  <2> DEFINE p == [pod EXCEPT !.deleting = TRUE, !.rv = clock + 1]
  <2>3. p \in Pods /\ p.rv = clock + 1
    BY <2>2, ChangedPod
  <2>4. \/ pod' = NoPod /\ clock' = clock + 1
        \/ pod' = p /\ clock' = clock + 1
        \/ pod.deleting /\ UNCHANGED <<pod, clock>>
    BY <1>3 DEF DeleteStored
  <2> HIDE DEF p
  <2> QED BY <1>3, <2>1, <2>2, <2>3, <2>4
<1> QED BY <1>1, <1>2, <1>3

\* A Delete call with any of the tour's preconditions.
LEMMA DeleteKeeps ==
  ASSUME TourInv, NEW s, NEW pre, NEW missing, NEW next, DeletePod(s, pre, missing, next),
         missing \in TourSteps \ {"getPod", "list", "delete"},
         next \in TourSteps \ {"getPod", "list", "delete"},
         s = "delete" => pre /\ missing = "panic",
         {missing, next} \cap {"deleteGrace", "deleteUID", "deleteRV"} # {}
           => s \in {"delete", "deleteGrace", "deleteUID"}
  PROVE  TourInv'
<1>1. DepInv'
  BY Deleted, DepKept
<1>2. TourTypes'
  <2>1. step' \in TourSteps
    BY Deleted DEF TourSteps
  <2> QED BY <2>1, Deleted DEF TourInv, TourTypes
<1>3. PodInv'
  <2>1. pod'.rv <= clock' /\ createdPod'.rv <= clock'
    BY Deleted DEF TourInv, TourTypes, PodInv, NoPod, Pods
  <2>2. step' \notin {"getPod", "list", "delete"}
    BY Deleted
  <2>3. ASSUME step' \in {"deleteGrace", "deleteUID", "deleteRV"}
        PROVE  createdPod'.uid > 0 /\ (pod' = NoPod \/ createdPod'.rv < pod'.rv)
    <3>1. /\ createdPod.uid > 0 /\ createdPod.rv <= clock
          /\ \/ s = "delete" /\ pod # NoPod /\ pre
             \/ pod = NoPod \/ createdPod.rv < pod.rv
      BY <2>3, Deleted DEF TourInv, PodInv
    <3>2. /\ createdPod' = createdPod /\ createdPod.rv \in Nat /\ clock \in Nat
          /\ \/ pod' = NoPod \/ pod'.rv = clock + 1
             \/ pod' = pod /\ (pre => pod.deleting)
      BY Deleted DEF TourInv, TourTypes, Pods
    <3> QED BY <3>1, <3>2, Deleted DEF TourInv, PodInv
  <2> QED BY <2>1, <2>2, <2>3 DEF PodInv
<1> QED BY <1>1, <1>2, <1>3 DEF TourInv

\* The tour's calls about pods.
LEMMA PodCallKeeps == TourInv /\ PodCall => TourInv'
<1> SUFFICES ASSUME TourInv, PodCall PROVE TourInv'
  OBVIOUS
<1>1. CASE CreatePod
  <2>1. NoPod \in Pods
    BY DEF NoPod, Pods
  <2>2. /\ createdPod' \in Pods /\ pod' \in Pods /\ clock' \in {clock, clock + 1}
        /\ UNCHANGED <<dep, updatedDep, existingDep>> /\ step' \in {"getPod", "panic", "exit"}
        /\ \/ UNCHANGED <<pod, createdPod, clock>> /\ step' = "exit"
           \/ createdPod' = pod' /\ pod'.rv = clock' /\ ~pod'.deleting /\ pod'.uid > 0
    <3>1. clock + 1 \in Nat /\ clock + 1 > 0
      BY DEF TourInv, TourTypes
    <3> QED BY <1>1, <2>1, <3>1, NewPod DEF CreatePod, TourInv, TourTypes, Tick, Then,
               CarriedOut, Refused, Kept
  <2>3. DepInv'
    BY <2>2, DepKept
  <2>4. TourTypes'
    BY <2>2 DEF TourInv, TourTypes, TourSteps
  <2>5. PodInv'
    BY <2>2 DEF TourInv, TourTypes, PodInv, Pods
  <2> QED BY <2>3, <2>4, <2>5 DEF TourInv
<1>2. CASE GetPod \/ ListPods
  <2>1. /\ UNCHANGED <<clock, pod, dep, createdPod, updatedDep, existingDep>>
        /\ step' \in {"list", "exit", "delete"} /\ step \in {"getPod", "list"}
    BY <1>2 DEF GetPod, ListPods, At, Then, Kept
  <2>2. DepInv'
    BY <2>1, DepKept
  <2>3. TourTypes' /\ PodInv'
    BY <2>1 DEF TourInv, TourTypes, TourSteps, PodInv
  <2> QED BY <2>2, <2>3 DEF TourInv
<1>3. CASE DeletePlain
  BY <1>3, DeleteKeeps DEF DeletePlain, TourSteps
<1>4. CASE DeleteGrace
  BY <1>4, DeleteKeeps DEF DeleteGrace, TourSteps
<1>5. CASE DeleteUID
  BY <1>5, DeleteKeeps DEF DeleteUID, TourSteps
<1>6. CASE DeleteRV
  BY <1>6, DeleteKeeps DEF DeleteRV, TourSteps
<1>7. CASE DeleteForeground \/ DeleteCollection
  BY <1>7, DeleteKeeps DEF DeleteForeground, DeleteCollection, TourSteps
<1> QED BY <1>1, <1>2, <1>3, <1>4, <1>5, <1>6, <1>7 DEF PodCall

\* A deployment that the server stores has a version of its own.
LEMMA StoredDep ==
  ASSUME NEW d \in Deps, NEW v \in Nat
  PROVE  LET e == [d EXCEPT !.rv = v]
         IN  /\ e \in Deps /\ e.rv = v
             /\ e.replicas = d.replicas /\ e.container = d.container /\ e.note = d.note
BY DEF Deps

\* The pod side of a step that leaves the pod and is past its deletes.
LEMMA PodKept ==
  ASSUME TourInv, UNCHANGED <<pod, createdPod>>, clock' \in {clock, clock + 1},
         step' \in TourSteps \ {"getPod", "list", "delete", "deleteGrace", "deleteUID", "deleteRV"}
                \/ step' = step
  PROVE  PodInv'
BY DEF TourInv, TourTypes, PodInv, Pods

\* The patch made from the copy, applied to the deployment that is stored.
LEMMA PatchedDep ==
  ASSUME TourInv
  PROVE  /\ Patched \in Deps
         /\ dep = existingDep => Patched.replicas = 2
<1>1. /\ existingDep.replicas \in Nat /\ updatedDep.container \in {"none", "nginx", "main"}
      /\ updatedDep.note \in Nat /\ dep \in Deps
  BY DEF TourInv, TourTypes, Deps
<1>2. ASSUME NEW r \in Nat, NEW c \in {"none", "nginx", "main"}, NEW n \in Nat
      PROVE  /\ [dep EXCEPT !.replicas = r, !.container = c, !.note = n] \in Deps
             /\ [dep EXCEPT !.replicas = r, !.container = c, !.note = n].replicas = r
  BY <1>1 DEF Deps
<1>3. /\ dep.replicas \in Nat /\ dep.container \in {"none", "nginx", "main"} /\ dep.note \in Nat
  BY <1>1 DEF Deps
<1> DEFINE r == IF existingDep.replicas = 2 THEN dep.replicas ELSE 2
           c == IF existingDep.container = updatedDep.container THEN dep.container ELSE updatedDep.container
           n == IF existingDep.note = updatedDep.note THEN dep.note ELSE updatedDep.note
<1>4. r \in Nat /\ c \in {"none", "nginx", "main"} /\ n \in Nat
  BY <1>1, <1>3
<1>5. Patched = [dep EXCEPT !.replicas = r, !.container = c, !.note = n]
  BY DEF Patched
<1>6. dep = existingDep => r = 2
  OBVIOUS
<1> HIDE DEF r, c, n
<1>7. Patched \in Deps /\ Patched.replicas = r
  BY <1>2, <1>4, <1>5
<1> QED BY <1>6, <1>7

\* What a call does that stores a deployment.
StoresDep(d) == clock' = clock + 1 /\ dep' = [d EXCEPT !.rv = clock + 1]

\* A call that stores a deployment.
LEMMA StoreKeeps ==
  ASSUME TourInv, NEW d \in Deps, StoresDep(d), UNCHANGED <<pod, createdPod, existingDep>>,
         updatedDep' \in {updatedDep, dep'},
         step' \in TourSteps \ {"getPod", "list", "delete", "deleteGrace", "deleteUID", "deleteRV"}
                \/ step' = step
  PROVE  TourInv'
<1>1. clock \in Nat /\ clock + 1 \in Nat
  BY DEF TourInv, TourTypes
<1>2. dep' \in Deps /\ dep'.rv = clock'
  BY <1>1, StoredDep DEF StoresDep
<1>3. DepInv'
  BY <1>2, DepStored DEF StoresDep
<1>4. PodInv'
  BY PodKept DEF StoresDep
<1>5. TourTypes'
  BY <1>1, <1>2 DEF TourInv, TourTypes, StoresDep
<1> QED BY <1>3, <1>4, <1>5 DEF TourInv

\* A call that changes nothing on the server.
LEMMA ReadKeeps ==
  ASSUME TourInv, UNCHANGED <<clock, pod, dep, createdPod, updatedDep>>,
         existingDep' \in {existingDep, dep},
         step' \in TourSteps \ {"getPod", "list", "delete", "deleteGrace", "deleteUID", "deleteRV"}
                \/ step' = step
  PROVE  TourInv'
<1>1. PodInv'
  BY PodKept
<1>2. DepInv' /\ TourTypes'
  BY DEF TourInv, TourTypes, DepInv
<1> QED BY <1>1, <1>2 DEF TourInv

\* The tour's calls about deployments.
LEMMA DepCallKeeps == TourInv /\ DepCall => TourInv'
<1> SUFFICES ASSUME TourInv, DepCall PROVE TourInv'
  OBVIOUS
<1> USE DEF At, Then, Kept, Tick, CarriedOut, Refused
<1>1. dep \in Deps /\ clock \in Nat
  BY DEF TourInv, TourTypes
<1>2. CASE CreateDep
  <2>1. [NoDep EXCEPT !.replicas = 1, !.container = "nginx"] \in Deps
    BY DEF NoDep, Deps
  <2> QED BY <1>2, <2>1, StoreKeeps, ReadKeeps DEF CreateDep, StoreDep, StoresDep, TourSteps
<1>3. CASE UpdateDep
  <2>1. [NoDep EXCEPT !.replicas = 1, !.container = "main"] \in Deps
    BY DEF NoDep, Deps
  <2> QED BY <1>3, <2>1, StoreKeeps, ReadKeeps DEF UpdateDep, StoreDep, StoresDep, TourSteps
<1>4. CASE GetDep
  BY <1>4, ReadKeeps DEF GetDep, TourSteps
<1>5. CASE PatchDep
  BY <1>5, PatchedDep, StoreKeeps, ReadKeeps DEF PatchDep, PatchSent, StoreDep, StoresDep, TourSteps
<1>6. ASSUME NEW s, NEW n \in Nat, NEW next \in {"apply2", "watch"}, Apply(s, n, next)
      PROVE  TourInv'
  <2>1. [dep EXCEPT !.replicas = n] \in Deps
    BY <1>1 DEF Deps
  <2> QED BY <1>6, <2>1, StoreKeeps, ReadKeeps DEF Apply, StoreDep, StoresDep, TourSteps
<1>7. CASE ApplyPatch \/ ApplyConfig
  BY <1>6, <1>7 DEF ApplyPatch, ApplyConfig
<1> QED BY <1>2, <1>3, <1>4, <1>5, <1>7 DEF DepCall

\* Other clients, the watch, and calls that fail.
LEMMA OthersKeep == TourInv /\ (OtherPod \/ OtherDep \/ Watch \/ WatchEnds \/ CallFailed) => TourInv'
<1> SUFFICES ASSUME TourInv, OtherPod \/ OtherDep \/ Watch \/ WatchEnds \/ CallFailed
             PROVE  TourInv'
  OBVIOUS
<1> USE DEF At, Then, Kept, Tick
<1>1. dep \in Deps /\ pod \in Pods /\ clock \in Nat /\ clock + 1 \in Nat
  BY DEF TourInv, TourTypes
<1>2. CASE Watch \/ WatchEnds \/ CallFailed
  BY <1>2, ReadKeeps DEF Watch, WatchEnds, CallFailed, TourSteps
<1>3. CASE OtherDep
  <2>1. CASE dep' = NoDep /\ clock' = clock + 1
    <3>1. DepInv'
      BY <1>3, <2>1, DepStored DEF OtherDep
    <3>2. PodInv'
      BY <1>3, <2>1, PodKept DEF OtherDep
    <3>3. NoDep \in Deps
      BY DEF NoDep, Deps
    <3>4. TourTypes'
      BY <1>1, <1>3, <2>1, <3>3 DEF OtherDep, TourInv, TourTypes
    <3> QED BY <3>1, <3>2, <3>4 DEF TourInv
  <2>2. CASE ~(dep' = NoDep /\ clock' = clock + 1)
    <3>1. [dep EXCEPT !.note = clock + 1] \in Deps /\ [dep EXCEPT !.replicas = 3] \in Deps
      BY <1>1 DEF Deps
    <3> QED BY <1>3, <2>2, <3>1, StoreKeeps DEF OtherDep, StoreDep, StoresDep
  <2> QED BY <2>1, <2>2
<1>4. CASE OtherPod
  <2>1. clock' = clock + 1 /\ UNCHANGED <<dep, createdPod, updatedDep, existingDep, step>>
    BY <1>4 DEF OtherPod
  <2> DEFINE made   == [NoPod EXCEPT !.uid = clock + 1, !.rv = clock + 1]
             bound  == [pod EXCEPT !.bound = TRUE, !.rv = clock + 1]
             marked == [pod EXCEPT !.deleting = TRUE, !.rv = clock + 1]
  <2>2. made \in Pods /\ made.rv = clock + 1
    BY <1>1, NewPod
  <2>3. bound \in Pods /\ bound.rv = clock + 1 /\ marked \in Pods /\ marked.rv = clock + 1
    BY <1>1, ChangedPod
  <2>4. pod' \in {NoPod, made, bound, marked}
    BY <1>4 DEF OtherPod
  <2> HIDE DEF made, bound, marked
  <2>5. pod' = NoPod \/ pod'.rv = clock'
    BY <2>1, <2>2, <2>3, <2>4
  <2>6. NoPod \in Pods
    BY DEF NoPod, Pods
  <2>7. pod' \in Pods
    BY <2>2, <2>3, <2>4, <2>6
  <2>8. DepInv'
    BY <2>1, DepKept
  <2>9. TourTypes'
    BY <1>1, <2>1, <2>7 DEF TourInv, TourTypes
  <2>10. PodInv'
    BY <1>1, <2>1, <2>5 DEF TourInv, TourTypes, PodInv, Pods, NoPod
  <2> QED BY <2>8, <2>9, <2>10 DEF TourInv
<1> QED BY <1>2, <1>3, <1>4

\* Every step of the tour keeps the invariant.
LEMMA TourStep == TourInv /\ [TourNext]_tourVars => TourInv'
<1>1. CASE UNCHANGED tourVars
  BY <1>1 DEF tourVars, TourInv, TourTypes, PodInv, DepInv
<1> QED BY <1>1, PodCallKeeps, DepCallKeeps, OthersKeep DEF TourNext, PodCall, DepCall

\* main.go:46-557: at every step of the tour the pod is at least as new as
\* Create returned it, newer once it was deleted, and a version tells the
\* deployment's states apart.
THEOREM TourInvariant == TourSpec => []TourInv
BY TourStart, TourStep, PTL DEF TourSpec

\* main.go:254-287: the deletes with the resource version and the UID of the
\* created pod never delete a pod of somebody else, nor one that has changed.
THEOREM OnlyOwnPodDeletedHolds == TourSpec => OnlyOwnPodDeleted
<1> DEFINE Own == /\ At("deleteRV") /\ ~Then("deleteRV") => pod' = pod
                  /\ At("deleteUID") /\ ~Then("deleteUID") /\ pod.uid # createdPod.uid => pod' = pod
<1>1. ASSUME TourInv, TourNext PROVE Own
  <2>1. CASE At("deleteRV") /\ ~Then("deleteRV")
    <3>1. DeleteRV \/ CallFailed
      BY <1>1, <2>1 DEF TourNext, CreatePod, GetPod, ListPods, DeletePlain, DeleteGrace, DeleteUID,
         DeleteForeground, DeleteCollection, DeletePod, CreateDep, UpdateDep, GetDep, PatchDep,
         ApplyPatch, ApplyConfig, Apply, Watch, WatchEnds, CallFailed, OtherPod, OtherDep, At, Then
    <3>2. pod = NoPod \/ createdPod.rv < pod.rv
      BY <1>1, <2>1 DEF TourInv, PodInv, At
    <3>3. createdPod.rv \in Nat /\ pod.rv \in Nat
      BY <1>1 DEF TourInv, TourTypes, Pods
    <3>4. pod' = pod
      BY <3>1, <3>2, <3>3 DEF DeleteRV, DeletePod, CallFailed
    <3> QED BY <2>1, <3>4 DEF At
  <2>2. CASE At("deleteUID") /\ ~Then("deleteUID") /\ pod.uid # createdPod.uid
    <3>1. DeleteUID \/ CallFailed
      BY <1>1, <2>2 DEF TourNext, CreatePod, GetPod, ListPods, DeletePlain, DeleteGrace, DeleteRV,
         DeleteForeground, DeleteCollection, DeletePod, CreateDep, UpdateDep, GetDep, PatchDep,
         ApplyPatch, ApplyConfig, Apply, Watch, WatchEnds, CallFailed, OtherPod, OtherDep, At, Then
    <3>2. pod' = pod
      BY <2>2, <3>1 DEF DeleteUID, DeletePod, CallFailed
    <3> QED BY <2>2, <3>2 DEF At
  <2> QED BY <2>1, <2>2
<1>2. ASSUME TourInv, [TourNext]_tourVars PROVE [Own]_tourVars
  BY <1>1, <1>2
<1> QED BY <1>2, TourInvariant, PTL DEF TourSpec, OnlyOwnPodDeleted

\* main.go:415-441: a patch that goes through meets the deployment as the Get
\* before it read it, and leaves two replicas.
THEOREM PatchSeesLatestHolds == TourSpec => PatchSeesLatest
<1> DEFINE Sent   == Then("apply1") \/ (Then("panic") /\ dep' # dep)
           Latest == At("patchDep") /\ Sent =>
                       /\ dep.note = existingDep.note /\ dep.replicas = existingDep.replicas
                       /\ dep'.replicas = 2
<1>1. ASSUME TourInv, TourNext, At("patchDep"), Sent PROVE Latest
  <2>1. PatchDep
    BY <1>1 DEF TourNext, CreatePod, GetPod, ListPods, DeletePlain, DeleteGrace, DeleteUID, DeleteRV,
       DeleteForeground, DeleteCollection, DeletePod, CreateDep, UpdateDep, GetDep,
       ApplyPatch, ApplyConfig, Apply, Watch, WatchEnds, CallFailed, OtherPod, OtherDep, At, Then
  <2>2. dep # NoDep /\ dep.rv = existingDep.rv /\ PatchSent
    BY <1>1, <2>1 DEF PatchDep, Then, Refused
  <2>3. dep = existingDep
    BY <1>1, <2>2 DEF TourInv, DepInv
  <2>4. Patched \in Deps /\ Patched.replicas = 2 /\ clock + 1 \in Nat
    BY <1>1, <2>3, PatchedDep DEF TourInv, TourTypes
  <2>5. [Patched EXCEPT !.rv = clock + 1].replicas = 2
    BY <2>4, StoredDep
  <2>6. dep'.replicas = 2
    BY <2>2, <2>4, <2>5 DEF PatchSent, StoreDep
  <2> QED BY <2>3, <2>6
<1>2. ASSUME TourInv, [TourNext]_tourVars PROVE [Latest]_tourVars
  BY <1>1, <1>2
<1> QED BY <1>2, TourInvariant, PTL DEF TourSpec, PatchSeesLatest

-----------------------------------------------------------------------------
(* The run of both.                                                        *)

\* The instance that MCClientGo runs implements both models: a step of one
\* leaves the variables of the other alone.
THEOREM RunImplements == MCSpec => Spec /\ TourSpec
<1>1. MCInit => Init /\ TourInit
  BY DEF MCInit
<1>2. [MCNext]_mcVars => [Next]_vars
  BY DEF MCNext, mcVars
<1>3. [MCNext]_mcVars => [TourNext]_tourVars
  BY DEF MCNext, mcVars
<1> QED BY <1>1, <1>2, <1>3, PTL DEF MCSpec, Spec, TourSpec

\* Every variable of either keeps its type, no object carries a version that
\* the server has not reached, and Create has returned a pod before the deletes
\* with a grace period or a precondition (clientset main.go:241-287) use it.
THEOREM TypesCorrect == MCSpec => []TypesOK
<1>1. TourInv => TourTypeOK
  BY DEF TourInv, TourTypes, PodInv, DepInv, TourTypeOK
<1> QED BY <1>1, RunImplements, TypeCorrect, TourInvariant, PTL DEF TypesOK

=============================================================================
