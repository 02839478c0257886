------------------------------ MODULE MCWsChat ------------------------------
(***************************************************************************)
(* Small instances of WsChat for TLC.                                      *)
(***************************************************************************)
EXTENDS WsChat, TLC

Symmetry == Permutations(Clients)

=============================================================================
