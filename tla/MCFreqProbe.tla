---------------------------- MODULE MCFreqProbe ----------------------------
(* The probe for model checking.                                             *)
EXTENDS FreqProbe

\* No time at all, one tick, and more than a block takes.
SomeTargets == {0, 1, 3}
=============================================================================
