----------------------------- MODULE MCParallel -----------------------------
(***************************************************************************)
(* ParallelSimulation for TLC: three routers, two of which send to the     *)
(* third at the start.                                                     *)
(***************************************************************************)
EXTENDS ParallelSimulation

McRouters == 1 .. 3
McLimits == {3, 4, Unlimited}
McInitialPairs == {<<1, 3>>, <<2, 3>>}
=============================================================================
