--------------------------- MODULE MCRuntimeWorld ---------------------------
(* A runtime world for model checking.  Symmetry of the ids would be unsound *)
(* for DroppedWorldIsEmptied, a liveness property.                           *)
EXTENDS RuntimeWorld
=============================================================================
