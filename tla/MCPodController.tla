-------------------------- MODULE MCPodController --------------------------
(***************************************************************************)
(* Small instances of PodController for TLC.                               *)
(***************************************************************************)
EXTENDS PodController, TLC

\* Keys and workers are interchangeable: no fairness or temporal property is
\* checked in the runs that use this.
Symmetry == Permutations(Keys) \cup Permutations(Workers)

=============================================================================
