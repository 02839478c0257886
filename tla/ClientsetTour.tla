---------------------------- MODULE ClientsetTour ----------------------------
(***************************************************************************)
(* kubernetes/dev/basics/sec05-client-go/clientset/main.go: one program    *)
(* that walks through the clientset.  It creates the pod "nginx-pod" and   *)
(* deletes it in five ways, then creates, updates, patches and applies the *)
(* deployment "nginx" and watches it.  The scheduler, the kubelet, the     *)
(* deployment controller and other clients write the same two objects.     *)
(***************************************************************************)
EXTENDS Naturals

CONSTANT MaxClock          \* bound: the others write while clock < MaxClock

VARIABLES
  clock,                   \* the server's last resource version
  pod, dep,                \* the stored objects, or NoPod and NoDep
  step,                    \* the next call of the program
  createdPod,              \* uid and rv as Create returned them
  updatedDep,              \* what Update returned
  existingDep              \* what the last Get of the patch loop returned

tourVars == <<clock, pod, dep, step, createdPod, updatedDep, existingDep>>

NoPod == [uid |-> 0, rv |-> 0, deleting |-> FALSE, bound |-> FALSE]
NoDep == [rv |-> 0, replicas |-> 0, container |-> "none", note |-> 0]

TourSteps == {"createPod", "getPod", "list", "delete", "deleteGrace", "deleteUID", "deleteRV",
          "deleteForeground", "deleteCollection", "createDep", "updateDep", "getDep",
          "patchDep", "apply1", "apply2", "watch", "watching", "end", "exit", "panic"}

TourInit ==
  /\ clock = 0 /\ pod = NoPod /\ dep = NoDep
  /\ step = "createPod"
  /\ createdPod = NoPod /\ updatedDep = NoDep /\ existingDep = NoDep

At(s)   == step = s
Then(s) == step' = s
Tick    == clock' = clock + 1
Kept    == UNCHANGED <<createdPod, updatedDep, existingDep>>

\* The server has carried a call out.  Its answer arrives, or is lost, which is
\* "any other error", a panic.
CarriedOut(next) == step' \in {next, "panic"}

\* The server refuses a call: not found, already there, invalid or a conflict.
Refused == Then("exit") /\ UNCHANGED <<clock, pod, dep>> /\ Kept

\* The server stores a new state of the deployment.
StoreDep(d) == Tick /\ dep' = [d EXCEPT !.rv = clock + 1]

-----------------------------------------------------------------------------
(* The pod.                                                                *)

\* A Create that goes on when the name is taken.
CreatePodOrGoOn ==
  /\ At("createPod")
  /\ IF pod # NoPod THEN UNCHANGED <<clock, pod, createdPod>>
     ELSE /\ Tick
          /\ pod' = [NoPod EXCEPT !.uid = clock + 1, !.rv = clock + 1]
          /\ createdPod' = pod'
  /\ Then("getPod")
  /\ UNCHANGED <<dep, updatedDep, existingDep>>

\* Create: the namespace may be missing and the name may be taken.
CreatePod ==
  /\ At("createPod")
  /\ \/ /\ pod = NoPod
        /\ Tick
        /\ pod' = [NoPod EXCEPT !.uid = clock + 1, !.rv = clock + 1]
        /\ createdPod' = pod'
        /\ CarriedOut("getPod")
        /\ UNCHANGED <<dep, updatedDep, existingDep>>
     \/ Refused

\* Get exits if the pod is gone.
GetPod ==
  /\ At("getPod")
  /\ Then(IF pod = NoPod THEN "exit" ELSE "list")
  /\ UNCHANGED <<clock, pod, dep>> /\ Kept

\* The eight Lists with their selectors only print.
ListPods ==
  /\ At("list") /\ Then("delete")
  /\ UNCHANGED <<clock, pod, dep>> /\ Kept

\* What the server does with a delete: a pod without a node goes at once; one
\* with a node is marked and left to its kubelet; marking it again changes it
\* if the grace period gets shorter.
DeleteStored ==
  \/ ~pod.bound /\ pod' = NoPod /\ Tick
  \/ pod.bound /\ pod' = [pod EXCEPT !.deleting = TRUE, !.rv = clock + 1] /\ Tick
  \/ pod.bound /\ pod.deleting /\ UNCHANGED <<pod, clock>>

DeletePod(s, precondition, missing, next) ==
  /\ At(s)
  /\ IF pod = NoPod THEN Then(missing) /\ UNCHANGED <<pod, clock>>
     ELSE /\ CarriedOut(next)
          /\ IF precondition THEN DeleteStored ELSE UNCHANGED <<pod, clock>>
  /\ UNCHANGED dep /\ Kept

\* The first Delete panics if the pod is gone; the others print NotFound and
\* Conflict and go on.
DeletePlain    == DeletePod("delete", TRUE, "panic", "deleteGrace")
DeleteGrace    == DeletePod("deleteGrace", TRUE, "deleteUID", "deleteUID")
DeleteUID      == DeletePod("deleteUID", pod.uid = createdPod.uid, "deleteRV", "deleteRV")
DeleteRVByUID  == DeletePod("deleteRV", pod.uid = createdPod.uid, "deleteForeground", "deleteForeground")
DeleteRV       == DeletePod("deleteRV", pod.rv = createdPod.rv, "deleteForeground", "deleteForeground")
DeleteForeground == DeletePod("deleteForeground", TRUE, "deleteCollection", "deleteCollection")
DeleteCollection == DeletePod("deleteCollection", TRUE, "createDep", "createDep")

-----------------------------------------------------------------------------
(* The deployment.                                                         *)

CreateDep ==
  /\ At("createDep")
  /\ \/ /\ dep = NoDep
        /\ StoreDep([NoDep EXCEPT !.replicas = 1, !.container = "nginx"])
        /\ CarriedOut("updateDep")
        /\ UNCHANGED pod /\ Kept
     \/ Refused

\* Update of an object without a resource version: it replaces what is there
\* whatever its version.  A deployment that is gone is a panic (CallFailed).
UpdateDep ==
  /\ At("updateDep")
  /\ \/ /\ dep # NoDep
        /\ StoreDep([NoDep EXCEPT !.replicas = 1, !.container = "main"])
        /\ updatedDep' = dep'
        /\ CarriedOut("getDep")
        /\ UNCHANGED <<pod, createdPod, existingDep>>
     \/ Refused

GetDep ==
  /\ At("getDep")
  /\ existingDep' = dep
  /\ Then(IF dep = NoDep THEN "exit" ELSE "patchDep")
  /\ UNCHANGED <<clock, pod, dep, createdPod, updatedDep>>

\* The patch is the difference between what was read and a copy of what Update
\* had returned, with two replicas: it sets back whatever was written between
\* that Update and the Get.
Patched ==
  [dep EXCEPT !.replicas  = IF existingDep.replicas = 2 THEN @ ELSE 2,
              !.container = IF existingDep.container = updatedDep.container THEN @ ELSE updatedDep.container,
              !.note      = IF existingDep.note = updatedDep.note THEN @ ELSE updatedDep.note]

PatchSent ==
  /\ CarriedOut("apply1")
  /\ IF Patched = dep THEN UNCHANGED <<clock, dep>> ELSE StoreDep(Patched)

\* A patch without the optimistic lock.
PatchUnlocked ==
  /\ At("patchDep")
  /\ IF dep = NoDep THEN Then("panic") /\ UNCHANGED <<clock, dep>> ELSE PatchSent
  /\ UNCHANGED pod /\ Kept

\* Patch: a conflict goes back to the Get, without a limit; an invalid patch
\* exits, and a deployment that is gone is a panic (CallFailed).
PatchDep ==
  /\ At("patchDep")
  /\ \/ /\ dep # NoDep
        /\ IF dep.rv = existingDep.rv THEN PatchSent
           ELSE Then("getDep") /\ UNCHANGED <<clock, dep>>
        /\ UNCHANGED pod /\ Kept
     \/ Refused

\* Server-side apply with Force takes the replicas over and leaves the rest.
\* Of a deployment that is gone it would make one without containers or
\* selector, which is invalid.
Apply(s, n, next) ==
  /\ At(s)
  /\ \/ /\ dep # NoDep
        /\ CarriedOut(next)
        /\ IF dep.replicas = n THEN UNCHANGED <<clock, dep>>
           ELSE StoreDep([dep EXCEPT !.replicas = n])
        /\ UNCHANGED pod /\ Kept
     \/ Refused
ApplyPatch  == Apply("apply1", 1, "apply2")
ApplyConfig == Apply("apply2", 2, "watch")

Watch ==
  /\ At("watch") /\ Then("watching")
  /\ UNCHANGED <<clock, pod, dep>> /\ Kept

\* The result channel is closed: by the server, or by Stop after a Status.
WatchEnds ==
  /\ At("watching") /\ Then("end")
  /\ UNCHANGED <<clock, pod, dep>> /\ Kept

\* A call that was not carried out fails for any other reason: a panic.
CallFailed ==
  /\ step \notin {"watching", "end", "exit", "panic"}
  /\ Then("panic")
  /\ UNCHANGED <<clock, pod, dep>> /\ Kept

-----------------------------------------------------------------------------
(* Everybody else.                                                         *)

\* Scheduler and kubelet bind the pod, update its status and remove it;
\* another client deletes it or makes one of the same name.
OtherPod ==
  /\ clock < MaxClock
  /\ \/ /\ pod = NoPod
        /\ pod' = [NoPod EXCEPT !.uid = clock + 1, !.rv = clock + 1]
     \/ /\ pod # NoPod
        /\ \/ ~pod.deleting /\ pod' = [pod EXCEPT !.bound = TRUE, !.rv = clock + 1]
           \/ pod.bound /\ pod' = [pod EXCEPT !.deleting = TRUE, !.rv = clock + 1]
           \/ (pod.deleting \/ ~pod.bound) /\ pod' = NoPod
  /\ Tick
  /\ UNCHANGED <<dep, step>> /\ Kept

\* The controller and other clients annotate or scale the deployment, or
\* delete it (nobody makes another one of that name).
OtherDep ==
  /\ clock < MaxClock
  /\ dep # NoDep
  /\ \/ StoreDep([dep EXCEPT !.note = clock + 1])
     \/ StoreDep([dep EXCEPT !.replicas = 3])
     \/ dep' = NoDep /\ Tick
  /\ UNCHANGED <<pod, step>> /\ Kept

TourNext ==
  \/ CreatePod \/ GetPod \/ ListPods
  \/ DeletePlain \/ DeleteGrace \/ DeleteUID \/ DeleteRV \/ DeleteForeground \/ DeleteCollection
  \/ CreateDep \/ UpdateDep \/ GetDep \/ PatchDep
  \/ ApplyPatch \/ ApplyConfig \/ Watch \/ WatchEnds
  \/ CallFailed \/ OtherPod \/ OtherDep

TourSpec == TourInit /\ [][TourNext]_tourVars

-----------------------------------------------------------------------------
(* Properties.                                                             *)

\* The types, and that only what the server has stored carries a version.
TourTypeOK ==
  /\ step \in TourSteps
  /\ pod.rv <= clock /\ dep.rv <= clock
  /\ createdPod.rv <= clock /\ updatedDep.rv <= clock /\ existingDep.rv <= clock
  /\ step \in {"deleteGrace", "deleteUID", "deleteRV"} => createdPod.uid > 0

\* main.go:282, "This error will be raised, as the resource has changed due to
\* previous deletion": whatever the others do in between, the delete with the
\* resource version of Create never deletes, nor the one with its UID a pod of
\* the same name that somebody else made.
OnlyOwnPodDeleted ==
  [][/\ At("deleteRV") /\ ~Then("deleteRV") => pod' = pod
     /\ At("deleteUID") /\ ~Then("deleteUID") /\ pod.uid # createdPod.uid => pod' = pod]_tourVars

\* The optimistic lock: a patch that goes through, answered or not, loses
\* nothing that was written between its Get and its Patch, and leaves two
\* replicas.
PatchSeesLatest ==
  [][At("patchDep") /\ (Then("apply1") \/ (Then("panic") /\ dep' # dep)) =>
        dep.note = existingDep.note /\ dep.replicas = existingDep.replicas /\ dep'.replicas = 2]_tourVars

\* main.go:388-390, "we need to read and patch the stabilized version": the
\* patch changes the replicas of what the Get has read and nothing else.
PatchesWhatItRead ==
  [][At("patchDep") /\ Then("apply1") =>
        dep'.note = existingDep.note /\ dep'.container = existingDep.container]_tourVars

=============================================================================
