---------------------------- MODULE MCPinnedRun ----------------------------
(* Pinned runs for model checking.                                           *)
EXTENDS PinnedRun

\* A success, the failure of a benchmark, and one that looks like the shim's.
SomeCodes == {0, 1, SpawnFailed}

\* SIGSEGV, and the signal the driver kills with.
SomeSignals == {11, Kill}
=============================================================================
