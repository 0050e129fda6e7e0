--------------------------- MODULE MCRunLifecycle ---------------------------
(***************************************************************************)
(* Instances of RunLifecycle: two clients, the shutdown hook and the       *)
(* executor.  Clients are interchangeable.                                 *)
(***************************************************************************)
EXTENDS RunLifecycle, TLC

Symmetry == Permutations(Client)
=============================================================================
