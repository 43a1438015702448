----------------------------- MODULE MCSegments -----------------------------
(* Modules for model checking.                                               *)
EXTENDS Segments

Elem(mode, at, len) == [mode |-> mode, at |-> at, len |-> len, in |-> "table"]
Data(mode, at, len) == [mode |-> mode, at |-> at, len |-> len, in |-> "memory"]

\* One that fits, with a start function; one whose second element segment does not
\* fit, before a passive one; one whose data does not fit; a declaration.
SomeModules ==
  { [segments |-> <<Elem("Active", 0, 2), Elem("Active", 1, 1), Data("Active", 0, 1)>>,
     start |-> TRUE],
    [segments |-> <<Elem("Active", 0, 1), Elem("Active", 1, 2), Elem("Passive", 0, 1)>>,
     start |-> FALSE],
    [segments |-> <<Elem("Passive", 0, 2), Elem("Active", 1, 1), Data("Active", 1, 2)>>,
     start |-> FALSE],
    [segments |-> <<Elem("Declarative", 0, 1), Data("Passive", 0, 1), Data("Active", 0, 2)>>,
     start |-> FALSE] }
=============================================================================
