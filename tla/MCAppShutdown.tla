---------------------------- MODULE MCAppShutdown ----------------------------
(***************************************************************************)
(* Instances of AppShutdown for TLC: a poller, a worker used for a scoped   *)
(* dispatch, a custom background task, and up to three owners.              *)
(***************************************************************************)
EXTENDS AppShutdown, TLC

InvocationSymmetry == Permutations(Invocation)
=============================================================================
