------------------------------ MODULE MCReconcile ------------------------------
(* Small instances of the reconcile pipeline.                              *)
EXTENDS Reconcile, TLC

CONSTANT HostMode      \* the projections with networkMode host

MCDegrading == {Renewal}

MCUnjoinable == [proj : HostMode, env : Envs]

(* Sound where no service is singled out and only safety is checked.       *)
ServiceSymmetry == Permutations(Services)
=============================================================================
