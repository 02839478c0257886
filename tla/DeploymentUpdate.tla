-------------------------- MODULE DeploymentUpdate --------------------------
(***************************************************************************)
(* The two programs of kubernetes/dev/basics/sec05-client-go that create,  *)
(* update, list and delete the deployment "demo-deployment": the typed one *)
(* (typed-create-update-delete-deployment/main.go) and the dynamic one     *)
(* (dynamic-create-update-delete-deployment/main.go) make the same calls.  *)
(* Several such programs and other clients work on the same object, which  *)
(* the API server guards with a resource version.                          *)
(***************************************************************************)
EXTENDS Naturals

CONSTANTS
  Programs,     \* running instances of the two programs
  Steps,        \* retry.DefaultRetry.Steps: 5 attempts in client-go
  MaxVersion    \* bound: other clients write while version < MaxVersion

ASSUME StepsAssumption == Steps \in Nat \ {0}
ASSUME BoundAssumption == MaxVersion \in Nat

VARIABLES
  exists,       \* the deployment is stored (also while it is being deleted)
  deleting,     \* its deletionTimestamp is set
  version,      \* the server's last resource version
  rv,           \* the resource version of the deployment
  replicas, image,
  note,         \* what other clients wrote: the version of their last write
  pc,           \* the next call of each program
  copy,         \* the object that its last Get returned
  tries,        \* the conflicts it has met in RetryOnConflict
  since         \* the server's version when it entered RetryOnConflict

objVars  == <<exists, deleting, version, rv, replicas, image, note>>
progVars == <<pc, copy, tries, since>>
vars == <<objVars, progVars>>

PCs == {"create", "prompt1", "get", "update", "prompt2", "list", "prompt3",
        "delete", "end", "panic"}

\* What a Get returns, without the two fields that are overwritten in the copy.
Object == [rv |-> rv, note |-> note]

Init ==
  /\ exists = FALSE
  /\ deleting = FALSE
  /\ version = 0
  /\ rv = 0
  /\ replicas = 0
  /\ image = "none"
  /\ note = 0
  /\ pc = [p \in Programs |-> "create"]
  /\ copy = [p \in Programs |-> Object]
  /\ tries = [p \in Programs |-> 0]
  /\ since = [p \in Programs |-> 0]

Goto(p, label) == pc' = [pc EXCEPT ![p] = label]

\* The server stores a new state of the object under the next resource version.
Store(r, i, n) ==
  /\ version' = version + 1
  /\ rv' = version'
  /\ replicas' = r
  /\ image' = i
  /\ note' = n

-----------------------------------------------------------------------------
(* One program.                                                            *)

\* Create: panics if the object is there, also while it is being deleted.
Create(p) ==
  /\ pc[p] = "create"
  /\ IF exists
       THEN Goto(p, "panic") /\ UNCHANGED objVars
       ELSE /\ exists' = TRUE
            /\ deleting' = FALSE
            /\ Store(2, "nginx:1.12", 0)
            /\ Goto(p, "prompt1")
  /\ UNCHANGED <<copy, tries, since>>

\* prompt(): the user presses Return, sooner or later or never; the scanner's
\* error is a panic.
PressReturn(p) ==
  /\ \/ pc[p] = "prompt1" /\ Goto(p, "get") /\ since' = [since EXCEPT ![p] = version]
     \/ pc[p] = "prompt2" /\ Goto(p, "list") /\ UNCHANGED since
     \/ pc[p] = "prompt3" /\ Goto(p, "delete") /\ UNCHANGED since
     \/ pc[p] \in {"prompt1", "prompt2", "prompt3"} /\ Goto(p, "panic") /\ UNCHANGED since
  /\ UNCHANGED <<objVars, copy, tries>>

\* Get inside RetryOnConflict: panics if the deployment is gone.
Get(p) ==
  /\ pc[p] = "get"
  /\ IF exists
       THEN copy' = [copy EXCEPT ![p] = Object] /\ Goto(p, "update")
       ELSE UNCHANGED copy /\ Goto(p, "panic")
  /\ UNCHANGED <<objVars, tries, since>>

\* The object that Update sends: the copy with replicas and image set.  The
\* server stores it only if it differs from what it has.
WriteCopy(p) ==
  IF <<replicas, image, note>> = <<1, "nginx:1.13", copy[p].note>>
    THEN UNCHANGED <<version, rv, replicas, image, note>>
    ELSE Store(1, "nginx:1.13", copy[p].note)

\* Update of an object without a resource version: it always goes through.
UpdateBlind(p) ==
  /\ pc[p] = "update"
  /\ exists
  /\ WriteCopy(p)
  /\ Goto(p, "prompt2")
  /\ UNCHANGED <<exists, deleting, copy, tries, since>>

\* Update: the copy still has the deployment's resource version.
UpdateOK(p) ==
  /\ pc[p] = "update"
  /\ exists
  /\ copy[p].rv = rv
  /\ WriteCopy(p)
  /\ Goto(p, "prompt2")
  /\ UNCHANGED <<exists, deleting, copy, tries, since>>

\* A retry loop that tries the same copy again.
ConflictSameCopy(p) ==
  /\ pc[p] = "update"
  /\ exists /\ copy[p].rv # rv
  /\ tries' = [tries EXCEPT ![p] = @ + 1]
  /\ Goto(p, IF tries'[p] < Steps THEN "update" ELSE "panic")
  /\ UNCHANGED <<objVars, copy, since>>

\* Update returns a conflict: RetryOnConflict calls the function again, from
\* its Get, until its attempts are used up.
UpdateConflict(p) ==
  /\ pc[p] = "update"
  /\ exists
  /\ copy[p].rv # rv
  /\ tries' = [tries EXCEPT ![p] = @ + 1]
  /\ Goto(p, IF tries'[p] < Steps THEN "get" ELSE "panic")
  /\ UNCHANGED <<objVars, copy, since>>

\* A retry loop that takes NotFound for a conflict and keeps its copy.
NotFoundRetried(p) ==
  /\ pc[p] = "update"
  /\ ~exists
  /\ UNCHANGED vars

\* Update returns NotFound, which is not retried.
UpdateNotFound(p) ==
  /\ pc[p] = "update"
  /\ ~exists
  /\ Goto(p, "panic")
  /\ UNCHANGED <<objVars, copy, tries, since>>

List(p) ==
  /\ pc[p] = "list"
  /\ Goto(p, "prompt3")
  /\ UNCHANGED <<objVars, copy, tries, since>>

\* Delete with foreground propagation: the deployment stays, marked, until the
\* garbage collector has removed what it owns.
Delete(p) ==
  /\ pc[p] = "delete"
  /\ IF ~exists
       THEN Goto(p, "panic") /\ UNCHANGED objVars
       ELSE /\ Goto(p, "end")
            /\ IF deleting
                 THEN UNCHANGED objVars
                 ELSE /\ deleting' = TRUE
                      /\ Store(replicas, image, note)
                      /\ UNCHANGED exists
  /\ UNCHANGED <<copy, tries, since>>

\* A call fails for another reason (network, server): the program panics.
CallFails(p) ==
  /\ pc[p] \in {"create", "get", "update", "list", "delete"}
  /\ Goto(p, "panic")
  /\ UNCHANGED <<objVars, copy, tries, since>>

\* The server has carried an update out, but its answer is lost.
UpdateAnswerLost(p) ==
  /\ pc[p] = "update"
  /\ exists
  /\ copy[p].rv = rv
  /\ WriteCopy(p)
  /\ Goto(p, "panic")
  /\ UNCHANGED <<exists, deleting, copy, tries, since>>

-----------------------------------------------------------------------------
(* Everybody else.                                                         *)

\* Another client annotates or scales the deployment.
OtherWrite ==
  /\ exists
  /\ version < MaxVersion
  /\ \/ Store(replicas, image, version')
     \/ Store(3, image, version')
  /\ UNCHANGED <<exists, deleting, progVars>>

\* Another client deletes the deployment: in the foreground, or in the
\* background, which removes it at once.
OtherDelete ==
  /\ exists
  /\ version < MaxVersion
  /\ \/ /\ ~deleting
        /\ deleting' = TRUE
        /\ Store(replicas, image, note)
        /\ UNCHANGED exists
     \/ /\ exists' = FALSE
        /\ deleting' = FALSE
        /\ version' = version + 1
        /\ UNCHANGED <<rv, replicas, image, note>>
  /\ UNCHANGED progVars

\* The garbage collector finishes a foreground deletion.
Collect ==
  /\ exists
  /\ deleting
  /\ exists' = FALSE
  /\ deleting' = FALSE
  /\ version' = version + 1
  /\ UNCHANGED <<rv, replicas, image, note, progVars>>

Update(p) == UpdateOK(p) \/ UpdateConflict(p) \/ UpdateNotFound(p)
Program(p) == Create(p) \/ Get(p) \/ Update(p) \/ List(p) \/ Delete(p)

Next ==
  \/ \E p \in Programs :
       Program(p) \/ PressReturn(p) \/ CallFails(p) \/ UpdateAnswerLost(p)
  \/ OtherWrite
  \/ OtherDelete
  \/ Collect

Spec == Init /\ [][Next]_vars

\* A program goes on with its next call; users, other clients and the garbage
\* collector need not act.
FairSpec == Spec /\ \A p \in Programs : WF_vars(Program(p))

-----------------------------------------------------------------------------
(* Properties.                                                             *)

\* The types of the variables.
TypeOK ==
  /\ exists \in BOOLEAN
  /\ deleting \in BOOLEAN
  /\ version \in Nat
  /\ rv \in Nat
  /\ replicas \in 0 .. 3
  /\ image \in {"none", "nginx:1.12", "nginx:1.13"}
  /\ note \in Nat
  /\ pc \in [Programs -> PCs]
  /\ copy \in [Programs -> [rv : Nat, note : Nat]]
  /\ tries \in [Programs -> 0 .. Steps]
  /\ since \in [Programs -> Nat]

\* main.go:101-104, "This way, you can preserve changes made by other clients
\* between Create() and Update()": while the deployment lives, no program's
\* write takes another client's note back to an earlier one.
NotesKept == [][exists /\ exists' => note' >= note]_vars

\* Every conflict has a cause: in RetryOnConflict a program meets at most as
\* many conflicts as there were writes since it entered it, so that it gives up
\* only against Steps writes of others.
ConflictsHaveCauses ==
  \A p \in Programs : tries[p] <= version - since[p]

\* main.go:109-124: whatever the others write, and also if the deployment is
\* deleted meanwhile, RetryOnConflict ends: with an update, or with a panic.
RetryEnds ==
  \A p \in Programs : pc[p] = "get" ~> pc[p] \in {"prompt2", "panic"}

=============================================================================
