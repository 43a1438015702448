------------------------------ MODULE Segments ------------------------------
(***************************************************************************)
(* The segments of modules that share one table and one memory, from their *)
(* instantiation on: what a failure half way leaves in what is shared, and *)
(* which segments the code of an instance can still read.                  *)
(*                                                                         *)
(* Both engines are here, vm/jit/instantiate.rs and vm/interpreter/exec.rs *)
(* (a world has one of them).  The instance table is taken at the level of *)
(* InstanceLifecycle: an instance lives once.  Nothing runs between two    *)
(* segments; from the start function on, any code that can be reached may. *)
(*                                                                         *)
(* A module's segments are one sequence, its element segments before its   *)
(* data segments, as both engines take them.  A reference is named by the  *)
(* segment it was copied from, and so is a byte.  Empty segments are left  *)
(* out, and so are ranges of a segment: init copies all of it.             *)
(***************************************************************************)
EXTENDS Naturals, Sequences

CONSTANTS
  Ids,        \* instances
  Tiers,      \* engines, of "jit" and "interp"
  Modules,    \* modules that may be instantiated
  Size,       \* length of the table and of the memory
  Zero        \* a null reference, or a byte that is 0

Places == {"table", "memory"}
Modes == {"Active", "Passive", "Declarative"}

ASSUME SizeAssumption == Size \in Nat
ASSUME ZeroAssumption == Zero \notin [owner : Ids, segment : Nat]
ASSUME TiersAssumption == Tiers \subseteq {"jit", "interp"}
ASSUME ModulesAssumption ==
  \A m \in Modules :
    /\ m.start \in BOOLEAN
    /\ m.segments \in Seq([in : Places, mode : Modes, at : Nat, len : Nat \ {0}])

VARIABLES
  tier,       \* the engine of the world
  module,     \* instance -> its module
  status,     \* instance -> how far it is
  applied,    \* instance -> the number of segments instantiation is through with
  usable,     \* instance -> the segments that init instructions can copy from
  content,    \* table and memory -> index -> what is there
  copies      \* instance -> segment -> how often it was copied, up to 2

vars == <<tier, module, status, applied, usable, content, copies>>

Unknown == [segments |-> <<>>, start |-> FALSE]

Init ==
  /\ tier \in Tiers
  /\ module = [i \in Ids |-> Unknown]
  /\ status = [i \in Ids |-> "none"]
  /\ applied = [i \in Ids |-> 0]
  /\ usable = [i \in Ids |-> {}]
  /\ content = [place \in Places |-> [p \in 0 .. Size - 1 |-> Zero]]
  /\ copies = [i \in Ids |-> <<>>]

Segment(i, s) == module[i].segments[s]
SegmentsOf(i) == DOMAIN module[i].segments
IsActive(i, s) == Segment(i, s).mode = "Active"

Fits(i, s, at) == at + Segment(i, s).len <= Size

\* Segment s of instance i is copied to index at.
Copy(i, s, at) ==
  /\ content' = [content EXCEPT ![Segment(i, s).in] =
       [p \in 0 .. Size - 1 |->
          IF p \in at .. at + Segment(i, s).len - 1 THEN [owner |-> i, segment |-> s] ELSE @[p]]]
  /\ copies' = [copies EXCEPT ![i][s] = IF @ = 2 THEN 2 ELSE @ + 1]

Loading == \E i \in Ids : status[i] = "segments"
Starting == \E i \in Ids : status[i] = "start"

-----------------------------------------------------------------------------
(* Instantiation.                                                            *)

\* Mutant: only active segments are kept for the init instructions.
KeptActive(m) == {s \in DOMAIN m.segments : m.segments[s].mode = "Active"}

\* The interpreter reads a segment where it stands in the module, unless it has been
\* dropped, as declarative ones are from the beginning.
Kept(m) == {s \in DOMAIN m.segments : m.segments[s].mode # "Declarative"}

\* The JIT copies references, segment by segment, and all data at once.
Held(m) == IF tier = "interp" THEN Kept(m) ELSE {s \in DOMAIN m.segments : m.segments[s].in = "memory"}

Begin(i, m) ==
  /\ ~Loading /\ ~Starting
  /\ status[i] = "none"
  /\ status' = [status EXCEPT ![i] = "segments"]
  /\ module' = [module EXCEPT ![i] = m]
  /\ usable' = [usable EXCEPT ![i] = Held(m)]
  /\ copies' = [copies EXCEPT ![i] = [s \in DOMAIN m.segments |-> 0]]
  /\ UNCHANGED <<tier, applied, content>>

\* Mutant: a body is given up when its segments fail.
StoppedWithoutBody == "abandoned"

\* An instance whose segments or start function failed keeps its body.
Stopped == "partial"

\* There is no body to keep, or none that could run: the interpreter has not linked
\* its functions, the JIT has not compiled them.
FailsEarly(i) ==
  /\ status[i] = "segments" /\ applied[i] = 0
  /\ status' = [status EXCEPT ![i] = IF tier = "interp" THEN "abandoned" ELSE "partial"]
  /\ UNCHANGED <<tier, module, applied, usable, content, copies>>

Current(i, s) == status[i] = "segments" /\ s = applied[i] + 1 /\ s \in SegmentsOf(i)

\* Mutant: active segments stay.
SpentNever(i, s) == usable[i]

\* What is usable after an active segment was copied: the JIT does not drop data.
Spent(i, s) ==
  IF tier = "jit" /\ Segment(i, s).in = "memory" THEN usable[i] ELSE usable[i] \ {s}

ApplyActive(i, s) ==
  /\ Current(i, s)
  /\ IsActive(i, s)
  /\ Fits(i, s, Segment(i, s).at)
  /\ Copy(i, s, Segment(i, s).at)
  /\ usable' = [usable EXCEPT ![i] = Spent(i, s)]
  /\ applied' = [applied EXCEPT ![i] = s]
  /\ UNCHANGED <<tier, module, status>>

PassOver(i, s) ==
  /\ Current(i, s)
  /\ ~IsActive(i, s)
  /\ usable' = [usable EXCEPT ![i] =
       IF tier = "jit" /\ Segment(i, s).mode = "Passive" THEN @ \cup {s} ELSE @]
  /\ applied' = [applied EXCEPT ![i] = s]
  /\ UNCHANGED <<tier, module, status, content, copies>>

\* Mutant: a segment that does not fit is passed over.
DoesNotFitSkips(i, s) ==
  /\ Current(i, s)
  /\ IsActive(i, s)
  /\ ~Fits(i, s, Segment(i, s).at)
  /\ applied' = [applied EXCEPT ![i] = s]
  /\ UNCHANGED <<tier, module, status, usable, content, copies>>

DoesNotFit(i, s) ==
  /\ Current(i, s)
  /\ IsActive(i, s)
  /\ ~Fits(i, s, Segment(i, s).at)
  /\ status' = [status EXCEPT ![i] = Stopped]
  /\ UNCHANGED <<tier, module, applied, usable, content, copies>>

\* The JIT allocates its memories between the element and the data segments.
NoMemory(i) ==
  /\ tier = "jit"
  /\ status[i] = "segments"
  /\ \A s \in SegmentsOf(i) : Segment(i, s).in = "table" <=> s <= applied[i]
  /\ status' = [status EXCEPT ![i] = Stopped]
  /\ UNCHANGED <<tier, module, applied, usable, content, copies>>

SegmentsDone(i) ==
  /\ status[i] = "segments" /\ applied[i] = Len(module[i].segments)
  /\ status' = [status EXCEPT ![i] = IF module[i].start THEN "start" ELSE "whole"]
  /\ UNCHANGED <<tier, module, applied, usable, content, copies>>

StartEnds(i) ==
  /\ status[i] = "start"
  /\ \E end \in {"whole", Stopped} : status' = [status EXCEPT ![i] = end]
  /\ UNCHANGED <<tier, module, applied, usable, content, copies>>

-----------------------------------------------------------------------------
(* Code that runs.                                                           *)

Owns(i) == \E p \in DOMAIN content["table"] :
             content["table"][p] # Zero /\ content["table"][p].owner = i

\* A partial instance has no exports: its code is reached through the table only.
CanRun(i) ==
  /\ ~Loading
  /\ status[i] \in {"start", "whole"} \/ (status[i] = "partial" /\ Owns(i))

\* table.init and memory.init.
InitFrom(i, s, at) ==
  /\ CanRun(i)
  /\ s \in usable[i]
  /\ Fits(i, s, at)
  /\ Copy(i, s, at)
  /\ UNCHANGED <<tier, module, status, applied, usable>>

\* elem.drop and data.drop.
DropSegment(i, s) ==
  /\ CanRun(i)
  /\ s \in SegmentsOf(i)
  /\ usable' = [usable EXCEPT ![i] = @ \ {s}]
  /\ UNCHANGED <<tier, module, status, applied, content, copies>>

\* table.set with a null reference.
Clear(p) ==
  /\ \E i \in Ids : CanRun(i)
  /\ content' = [content EXCEPT !["table"][p] = Zero]
  /\ UNCHANGED <<tier, module, status, applied, usable, copies>>

Free(i) ==
  /\ ~Loading /\ ~Starting
  /\ status[i] \in {"whole", "partial"}
  /\ status' = [status EXCEPT ![i] = "freed"]
  /\ usable' = [usable EXCEPT ![i] = {}]
  /\ UNCHANGED <<tier, module, applied, content, copies>>

Next ==
  \/ \E i \in Ids, m \in Modules : Begin(i, m)
  \/ \E i \in Ids : FailsEarly(i) \/ NoMemory(i) \/ SegmentsDone(i) \/ StartEnds(i) \/ Free(i)
  \/ \E i \in Ids : \E s \in SegmentsOf(i) :
       \/ ApplyActive(i, s) \/ PassOver(i, s) \/ DoesNotFit(i, s) \/ DropSegment(i, s)
       \/ \E at \in 0 .. Size - 1 : InitFrom(i, s, at)
  \/ \E p \in 0 .. Size - 1 : Clear(p)

Spec == Init /\ [][Next]_vars

-----------------------------------------------------------------------------
(* Properties.                                                               *)

(* A reference in the shared table leads to an instance that has a body, or  *)
(* had one until it was freed: what a failed instantiation wrote there stays *)
(* callable (mcts_mem/silverfir/interpreter.md, 73-76).                      *)
EntriesAreCallable ==
  \A i \in Ids : Owns(i) => status[i] \in {"segments", "start", "whole", "partial", "freed"}

(* The start function, or the embedder of an instance that has none, finds   *)
(* every active segment in its place, or under a later one of the module.    *)
StartSeesAll ==
  [][\A i \in Ids : status[i] = "segments" /\ status'[i] \in {"start", "whole"} =>
       \A s \in SegmentsOf(i) : IsActive(i, s) =>
         \A p \in Segment(i, s).at .. Segment(i, s).at + Segment(i, s).len - 1 :
           /\ p < Size
           /\ content'[Segment(i, s).in][p] # Zero
           /\ content'[Segment(i, s).in][p].owner = i
           /\ content'[Segment(i, s).in][p].segment >= s]_vars

CopiedOnce(i, s) == IsActive(i, s) /\ s <= applied[i] => copies[i][s] <= 1

(* An active segment is copied by the instantiation and never again: it is   *)
(* dropped after use, and an init instruction that names it traps.  The data *)
(* segments of compiled modules are DataOnce's matter.                       *)
SpentOnce ==
  \A i \in Ids : \A s \in SegmentsOf(i) :
    Segment(i, s).in = "table" \/ tier = "interp" => CopiedOnce(i, s)

(* Active data segments are copied once in both engines ("active segments    *)
(* drop after use", vm/interpreter/exec.rs, 1721).                           *)
DataOnce ==
  \A i \in Ids : \A s \in SegmentsOf(i) : Segment(i, s).in = "memory" => CopiedOnce(i, s)

(* Code finds the passive segments of its module: the start function, the    *)
(* code of a whole instance, and in the interpreter also what a failed       *)
(* instantiation left in shared tables.  (The JIT takes element segments in  *)
(* one by one, so that those behind the one that failed stay empty.)         *)
PassiveReady ==
  [][\A i \in Ids :
       /\ status[i] = "segments"
       /\ status'[i] \in {"start", "whole"} \/ (status'[i] = "partial" /\ tier = "interp")
       => \A s \in SegmentsOf(i) : Segment(i, s).mode = "Passive" => s \in usable'[i]]_vars
==============================================================================
