----------------------------- MODULE PodMirror -----------------------------
(***************************************************************************)
(* What the pod controller promises to somebody who sees only the pods on  *)
(* the server and the lines on stdout: for each pod it prints versions     *)
(* that the server handed out, never going back from a later version to an *)
(* earlier one, and ends at the pod's current state unless it has an       *)
(* excuse.                                                                 *)
(***************************************************************************)
EXTENDS Naturals

CONSTANTS Keys, Absent, MaxVersion

VARIABLES
  pods,        \* the version of each pod on the server, or Absent
  version,     \* the last version handed out
  printed,     \* the last version printed for each pod
  excused      \* the pods the controller need not print any more

vars == <<pods, version, printed, excused>>

Init ==
  /\ pods \in [Keys -> {Absent, 1}]
  /\ version = 1
  /\ printed = [k \in Keys |-> Absent]
  /\ excused = {}

Change(k) ==
  /\ version < MaxVersion
  /\ version' = version + 1
  /\ pods' \in {[pods EXCEPT ![k] = v] : v \in {Absent, version'}}
  /\ UNCHANGED <<printed, excused>>

\* A line for pod k: a version between the last printed one and the newest,
\* or the news that the pod is gone.
PrintVersion(k, v) ==
  /\ v = Absent \/ printed[k] <= v
  /\ printed' = [printed EXCEPT ![k] = v]
  /\ UNCHANGED <<pods, version, excused>>

\* The controller gives a pod up, takes it up again, or is stopped.
Excuse ==
  /\ excused' \in SUBSET Keys
  /\ UNCHANGED <<pods, version, printed>>

Next ==
  \/ \E k \in Keys : Change(k) \/ \E v \in 0 .. version : PrintVersion(k, v)
  \/ Excuse

Spec == Init /\ [][Next]_vars

\* A pod whose last line is out of date is printed again.
PrintCurrent(k) ==
  /\ k \notin excused
  /\ printed[k] # pods[k]
  /\ PrintVersion(k, pods[k])

FairSpec == Spec /\ \A k \in Keys : WF_vars(PrintCurrent(k))

=============================================================================
