----------------------------- MODULE MCFdTable -----------------------------
(* The descriptor table for model checking.                                  *)
EXTENDS FdTable

\* No rights, and all there are: what was narrowed to nothing cannot be widened again,
\* and a directory opened without rights of its own may still hand on all of them.
SomeRights == {{}, {"READ", "WRITE", "CREATE", "SET_SIZE"}}

(* Closing a number above the streams' ends what every operation reaches      *)
(* under it, also when the number is a preopen's and something was moved     *)
(* there: nothing stays open that no fd_close can name.                      *)
EveryEntryCloses ==
  \A n \in Numbers \ Stdio :
    Lookup(n) # NoEntry => ENABLED (FdClose(n) /\ Lookup(n)' = NoEntry)
=============================================================================
