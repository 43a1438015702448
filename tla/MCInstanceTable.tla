-------------------------- MODULE MCInstanceTable --------------------------
(* The instance table for model checking.  Handles are not interchangeable:  *)
(* LifecycleSpec follows each of them.                                       *)
EXTENDS InstanceTable
=============================================================================
