-------------------------------- MODULE FdMap --------------------------------
(***************************************************************************)
(* What a table of file descriptors promises its guest: each number leads  *)
(* to at most one open object, each open object has at most one number, a  *)
(* number is handed out for a new object once, and moving a descriptor     *)
(* takes its object along and closes what the target number held.          *)
(*                                                                         *)
(* An object is named by the number it was first known under.              *)
(***************************************************************************)
EXTENDS Naturals

CONSTANTS
    Numbers,    \* the descriptor numbers a guest can name
    Initial,    \* those that are open when the guest starts
    Closed      \* what a number without an object leads to

VARIABLES
    object,     \* number -> object, or Closed
    issued      \* numbers that have been handed out

vars == <<object, issued>>

Init ==
    /\ object = [n \in Numbers |-> IF n \in Initial THEN n ELSE Closed]
    /\ issued = Initial

Open(n) ==
    /\ n \notin issued
    /\ object' = [object EXCEPT ![n] = n]
    /\ issued' = issued \cup {n}

\* Here and in Renumber the line on one number follows from the line on all of them;
\* it lets TLC turn most steps down without comparing functions.
Close(n) ==
    /\ object[n] # Closed
    /\ object'[n] = Closed
    /\ object' = [object EXCEPT ![n] = Closed]
    /\ UNCHANGED issued

Renumber(from, to) ==
    /\ from # to
    /\ object[from] # Closed
    /\ object[to] # Closed
    /\ object'[to] = object[from]
    /\ object' = [object EXCEPT ![to] = object[from], ![from] = Closed]
    /\ UNCHANGED issued

Next ==
    \/ \E n \in Numbers : Open(n) \/ Close(n)
    \/ \E from, to \in Numbers : Renumber(from, to)

Spec == Init /\ [][Next]_vars

(* Two numbers never lead to the same object, and an object that is reached *)
(* was handed out under its own name.                                      *)
OneNumberEach ==
    /\ \A m, n \in Numbers : object[m] = object[n] /\ object[m] # Closed => m = n
    /\ \A n \in Numbers : object[n] = Closed \/ object[n] \in issued
==============================================================================
