------------------------------ MODULE MCClientGo ------------------------------
(***************************************************************************)
(* One run for the client-go programs: an instance runs either programs of *)
(* DeploymentUpdate or the tour of ClientsetTour.  They work on different  *)
(* objects and share nothing.                                              *)
(***************************************************************************)
EXTENDS DeploymentUpdate, ClientsetTour

VARIABLE program

mcVars == <<program, vars, tourVars>>

MCInit == program \in {"demo", "clientset"} /\ Init /\ TourInit

MCNext ==
  /\ UNCHANGED program
  /\ \/ program = "demo" /\ Next /\ UNCHANGED tourVars
     \/ program = "clientset" /\ TourNext /\ UNCHANGED vars

DemoStep(p) == program = "demo" /\ Program(p)

MCSpec == MCInit /\ [][MCNext]_mcVars /\ \A p \in Programs : WF_vars(DemoStep(p))

\* One type invariant for both.
TypesOK == TypeOK /\ TourTypeOK

=============================================================================
