---------------------------- MODULE RuntimeWorld ----------------------------
(***************************************************************************)
(* A runtime world of vm/instance.rs in use: its facades, the execution    *)
(* and view counters of vm/memory.rs, and the calls on the native stack.   *)
(*                                                                         *)
(* The instance table is taken at the level of InstanceLifecycle, which    *)
(* InstanceTable implements: an id lives once, so an id is one element of  *)
(* Ids and slots are out of sight.                                         *)
(*                                                                         *)
(* A world is used by one thread, so all concurrency is re-entrance: guest *)
(* code calls host functions, releasing an instance runs the destructors   *)
(* of its host closures, and both may come back through a WorldAccess, or  *)
(* through the RuntimeWorld itself where Rust's borrows leave it free.     *)
(* `stack' holds the activities that are suspended, the last one running.  *)
(***************************************************************************)
EXTENDS Naturals, Sequences, FiniteSets, SequencesExt

CONSTANTS
  Ids,        \* the InstanceIds this world may hand out
  Tiers,      \* the engines
  None,       \* Rust's None, for a tier, and for a frame of no instance
  MaxDepth,   \* bound on the stack
  MaxReaders  \* bound on the memory views taken at a time

ASSUME IdsAssumption == IsFiniteSet(Ids) /\ None \notin Ids
ASSUME TiersAssumption == None \notin Tiers
ASSUME MaxDepthAssumption == MaxDepth \in Nat
ASSUME MaxReadersAssumption == MaxReaders \in Nat

Kinds == {"invoke", "access", "guest", "start", "free", "drop"}

\* An activity runs guest code ("run") or waits for the destructors of a body
\* ("dtor"); an instantiation first builds the body, and publishes it at last.
Stages == {"build", "run", "occupied", "dtor"}

Frames == [kind : Kinds, id : Ids \cup {None}, at : Stages]

VARIABLES
  status,      \* stage of each id, as in InstanceLifecycle
  in_use,      \* the table's checkout count of each id
  tierOf,      \* the engine of each id's body
  instances,   \* RuntimeWorld.instances: an id, and whether it has a facade
  world,       \* the RuntimeWorld value: usable, being dropped, or no more
  tier,        \* RuntimeWorld.tier
  stack,
  executions,  \* WorldBorrowState
  readers,
  writer

tableVars == <<status, in_use, tierOf>>
worldVars == <<instances, world, tier>>
borrowVars == <<executions, readers, writer>>
vars == <<tableVars, worldVars, stack, borrowVars>>

-----------------------------------------------------------------------------
Top == stack[Len(stack)]

Frame(kind, id, at) == [kind |-> kind, id |-> id, at |-> at]

Push(f) == Len(stack) < MaxDepth /\ stack' = Append(stack, f)

Pop == stack' = Front(stack)

MoveTop(at) == stack' = [stack EXCEPT ![Len(stack)].at = at]

TopIs(kind, at) == stack # <<>> /\ Top.kind = kind /\ Top.at = at

Calls == {"invoke", "access", "guest"}

\* A call holds an InstanceToken until it is over.
HoldsToken(f) == f.kind \in Calls /\ f.at = "run"

\* The activities inside an ExecutionGuard; guest-to-guest calls take none.
HoldsGuard(f) == f.kind \in {"invoke", "access", "start"}

\* The activities that own the RuntimeWorld or borrow it mutably.
HoldsWorld(f) == f.kind \in {"invoke", "start", "free", "drop"}

GuestRuns == stack # <<>> /\ Top.at = "run" /\ Top.kind \in Calls \cup {"start"}

\* Code of the embedder: at the bottom, as an import of a running guest, or as
\* the destructor of a released body.
HostRuns == stack = <<>> \/ GuestRuns \/ (stack # <<>> /\ Top.at = "dtor")

WorldFree ==
  /\ HostRuns
  /\ world = "open"
  /\ \A k \in DOMAIN stack : ~HoldsWorld(stack[k])

\* Mutant: a body owns its table, in a cycle of strong references.
TableAliveForBodies ==
  world # "gone" \/ stack # <<>> \/ \E n \in Ids : status[n] \in {"live", "closing"}

\* The table's strong owners are the world, its facades, and the tokens.
TableAlive == world # "gone" \/ stack # <<>>

Occupied(n) == status[n] \in {"live", "closing"}

NoViews == readers = 0 /\ ~writer

Enter == NoViews /\ executions' = executions + 1 /\ UNCHANGED <<readers, writer>>

Leave == executions' = executions - 1 /\ UNCHANGED <<readers, writer>>

-----------------------------------------------------------------------------
Init ==
  /\ status = [n \in Ids |-> "unborn"]
  /\ in_use = [n \in Ids |-> 0]
  /\ tierOf = [n \in Ids |-> None]
  /\ instances = <<>>
  /\ world = "open"
  /\ tier = None
  /\ stack = <<>>
  /\ executions = 0
  /\ readers = 0
  /\ writer = FALSE

(* Memory views. *)

HasFacade(n) == \E k \in DOMAIN instances : instances[k].id = n /\ instances[k].facade

Listed(n) == \E k \in DOMAIN instances : instances[k].id = n

SomeFacade == \E n \in Ids : HasFacade(n)

\* Mutant: a reader only has to agree with the writer.
ReadWhileExecuting ==
  /\ WorldFree /\ SomeFacade
  /\ ~writer
  /\ readers < MaxReaders
  /\ readers' = readers + 1
  /\ UNCHANGED <<tableVars, worldVars, stack, executions, writer>>

Read ==
  /\ WorldFree /\ SomeFacade
  /\ executions = 0 /\ ~writer
  /\ readers < MaxReaders
  /\ readers' = readers + 1
  /\ UNCHANGED <<tableVars, worldVars, stack, executions, writer>>

Write ==
  /\ WorldFree /\ SomeFacade
  /\ executions = 0 /\ NoViews
  /\ writer' = TRUE
  /\ UNCHANGED <<tableVars, worldVars, stack, executions, readers>>

DropReader ==
  /\ HostRuns
  /\ readers > 0
  /\ readers' = readers - 1
  /\ UNCHANGED <<tableVars, worldVars, stack, executions, writer>>

DropWriter ==
  /\ HostRuns
  /\ writer
  /\ writer' = FALSE
  /\ UNCHANGED <<tableVars, worldVars, stack, executions, readers>>

-----------------------------------------------------------------------------
(* Instantiation. *)

TierFits(t) == tier \in {None, t}

\* Imports are validated, with no error, and a slot is reserved.
Instantiate(n, t) ==
  /\ WorldFree /\ TierFits(t)
  /\ Enter
  /\ status[n] = "unborn"
  /\ status' = [status EXCEPT ![n] = "reserved"]
  /\ tierOf' = [tierOf EXCEPT ![n] = t]
  /\ Push(Frame("start", n, "build"))
  /\ UNCHANGED <<in_use, worldVars>>

\* The interpreter gives up before it has a body: nothing but a dead id is left.
Abandon ==
  /\ TopIs("start", "build")
  /\ tierOf[Top.id] = "interp"
  /\ status' = [status EXCEPT ![Top.id] = "dead"]
  /\ Pop /\ Leave
  /\ UNCHANGED <<in_use, tierOf, worldVars>>

\* The start function runs while the slot is reserved but vacant.
RunStart ==
  /\ TopIs("start", "build")
  /\ MoveTop("run")
  /\ UNCHANGED <<tableVars, worldVars, borrowVars>>

\* Initialization is over, well or not: either way the body is published.
OccupySlot ==
  /\ TopIs("start", "build") \/ TopIs("start", "run")
  /\ status' = [status EXCEPT ![Top.id] = "live"]
  /\ MoveTop("occupied")
  /\ UNCHANGED <<in_use, tierOf, worldVars, borrowVars>>

InstantiateDone ==
  /\ TopIs("start", "occupied")
  /\ in_use' = [in_use EXCEPT ![Top.id] = @ + 1]
  /\ instances' = Append(instances, [id |-> Top.id, facade |-> TRUE])
  /\ tier' = tierOf[Top.id]
  /\ Pop /\ Leave
  /\ UNCHANGED <<status, tierOf, world>>

\* Mutant: the partial path does not fix the tier.
PartialLeavesTier ==
  /\ TopIs("start", "occupied")
  /\ instances' = Append(instances, [id |-> Top.id, facade |-> FALSE])
  /\ Pop /\ Leave
  /\ UNCHANGED <<tableVars, world, tier>>

\* Mutant: the lease of the failed instance is forgotten, not released.
PartialKeepsLease ==
  /\ TopIs("start", "occupied")
  /\ in_use' = [in_use EXCEPT ![Top.id] = @ + 1]
  /\ instances' = Append(instances, [id |-> Top.id, facade |-> FALSE])
  /\ tier' = tierOf[Top.id]
  /\ Pop /\ Leave
  /\ UNCHANGED <<status, tierOf, world>>

\* The lease is taken and released at once by into_occupied_id.
InstantiatePartial ==
  /\ TopIs("start", "occupied")
  /\ instances' = Append(instances, [id |-> Top.id, facade |-> FALSE])
  /\ tier' = tierOf[Top.id]
  /\ Pop /\ Leave
  /\ UNCHANGED <<tableVars, world>>

-----------------------------------------------------------------------------
(* Calls. *)

Checkout(n) ==
  /\ Occupied(n)
  /\ in_use' = [in_use EXCEPT ![n] = @ + 1]
  /\ UNCHANGED <<status, tierOf>>

\* RuntimeWorld::invoke: any id that resolves, a partial instance's included.
Invoke(n) ==
  /\ WorldFree
  /\ Enter
  /\ Checkout(n)
  /\ Push(Frame("invoke", n, "run"))
  /\ UNCHANGED worldVars

\* Instance::call and invoke_function_index, through instance_mut.
CallFacade(n) == HasFacade(n) /\ Invoke(n)

\* WorldAccess::invoke, from wherever the embedder's code runs.
InvokeAccess(n) ==
  /\ HostRuns /\ TableAlive
  /\ Enter
  /\ Checkout(n)
  /\ Push(Frame("access", n, "run"))
  /\ UNCHANGED worldVars

\* A guest calls a function of an instance, its own or another.
GuestCall(n) ==
  /\ GuestRuns
  /\ Checkout(n)
  /\ Push(Frame("guest", n, "run"))
  /\ UNCHANGED <<worldVars, borrowVars>>

\* Mutant: every returning call drops a guard, a guest-to-guest call's too.
LeaveAlways == Leave

LeaveIfGuarded == IF HoldsGuard(Top) THEN Leave ELSE UNCHANGED borrowVars

\* The call is over, by return, trap or throw, and another holds the instance
\* or nobody asked for its release.
Return ==
  /\ stack # <<>> /\ HoldsToken(Top)
  /\ ~(in_use[Top.id] = 1 /\ status[Top.id] = "closing")
  /\ in_use' = [in_use EXCEPT ![Top.id] = @ - 1]
  /\ Pop /\ LeaveIfGuarded
  /\ UNCHANGED <<status, tierOf, worldVars>>

\* Mutant: the last token does not perform the release that was put off.
ReturnForgets ==
  /\ stack # <<>> /\ HoldsToken(Top)
  /\ in_use[Top.id] = 1 /\ status[Top.id] = "closing"
  /\ in_use' = [in_use EXCEPT ![Top.id] = @ - 1]
  /\ MoveTop("dtor")
  /\ UNCHANGED <<status, tierOf, worldVars, borrowVars>>

\* The call held the last token of an instance whose owner is gone: the body
\* is destroyed inside the call, before its ExecutionGuard is dropped.
ReturnReclaims ==
  /\ stack # <<>> /\ HoldsToken(Top)
  /\ in_use[Top.id] = 1 /\ status[Top.id] = "closing"
  /\ in_use' = [in_use EXCEPT ![Top.id] = @ - 1]
  /\ status' = [status EXCEPT ![Top.id] = "dead"]
  /\ MoveTop("dtor")
  /\ UNCHANGED <<tierOf, worldVars, borrowVars>>

\* Mutant: a call that destroys its instance returns without its guard.
ReclaimedReturnKeepsGuard ==
  /\ stack # <<>> /\ Top.kind \in Calls /\ Top.at = "dtor"
  /\ Pop
  /\ UNCHANGED <<tableVars, worldVars, borrowVars>>

ReclaimedReturn ==
  /\ stack # <<>> /\ Top.kind \in Calls /\ Top.at = "dtor"
  /\ Pop /\ LeaveIfGuarded
  /\ UNCHANGED <<tableVars, worldVars>>

-----------------------------------------------------------------------------
(* Release. *)

\* Mutant: a facade is freed whoever else holds its instance.
FreeableUnchecked(e) == e.facade \/ in_use[e.id] = 0

\* RuntimeWorld::free succeeds on an entry nobody else has checked out.
Freeable(e) ==
  /\ Occupied(e.id)
  /\ in_use[e.id] = IF e.facade THEN 1 ELSE 0

\* Drop of the facade, or `table.free' where there is none.
Release(e) ==
  /\ status' = [status EXCEPT ![e.id] = "dead"]
  /\ in_use' = [in_use EXCEPT ![e.id] = 0]
  /\ UNCHANGED tierOf

\* RuntimeWorld::free takes an entry with a facade off the list and drops it;
\* one with none it takes off after the table has freed the body.
FreeEntry(k) ==
  /\ Freeable(instances[k])
  /\ Release(instances[k])
  /\ instances' = IF instances[k].facade THEN RemoveAt(instances, k) ELSE instances

TakeOff(n) ==
  \/ \E k \in DOMAIN instances :
       instances[k].id = n /\ instances' = RemoveAt(instances, k)
  \/ ~Listed(n) /\ UNCHANGED instances

Free(n) ==
  /\ WorldFree
  /\ \E k \in DOMAIN instances : instances[k].id = n /\ FreeEntry(k)
  /\ Push(Frame("free", n, "dtor"))
  /\ UNCHANGED <<world, tier, borrowVars>>

FreeDone ==
  /\ TopIs("free", "dtor")
  /\ TakeOff(Top.id)
  /\ Pop
  /\ UNCHANGED <<tableVars, world, tier, borrowVars>>

\* RuntimeWorld::drop, which begins by freeing from the last entry ...
DropWorld ==
  /\ WorldFree
  /\ world' = "freeing"
  /\ Push(Frame("drop", None, "run"))
  /\ UNCHANGED <<tableVars, instances, tier, borrowVars>>

DropFrees ==
  /\ TopIs("drop", "run") /\ world = "freeing"
  /\ instances # <<>>
  /\ FreeEntry(Len(instances))
  /\ stack' = [stack EXCEPT ![Len(stack)] = Frame("drop", Last(instances).id, "dtor")]
  /\ UNCHANGED <<world, tier, borrowVars>>

\* ... stops at the first that is checked out ...
DropBreaks ==
  /\ TopIs("drop", "run") /\ world = "freeing"
  /\ instances # <<>> => ~Freeable(Last(instances))
  /\ world' = "fields"
  /\ UNCHANGED <<tableVars, instances, tier, stack, borrowVars>>

\* Mutant: the drop of a facade destroys an instance that a call holds.
DropDestroys ==
  /\ TopIs("drop", "run") /\ world = "fields"
  /\ instances # <<>>
  /\ Head(instances).facade /\ in_use[Head(instances).id] > 1
  /\ Release(Head(instances))
  /\ instances' = Tail(instances)
  /\ MoveTop("dtor")
  /\ UNCHANGED <<world, tier, borrowVars>>

\* ... and then drops what is left in order: a facade releases its lease, and
\* an instance that is checked out waits for its last token ...
DropPutsOff ==
  /\ TopIs("drop", "run") /\ world = "fields"
  /\ instances # <<>>
  /\ Head(instances).facade /\ in_use[Head(instances).id] > 1
  /\ in_use' = [in_use EXCEPT ![Head(instances).id] = @ - 1]
  /\ status' = [status EXCEPT ![Head(instances).id] = "closing"]
  /\ instances' = Tail(instances)
  /\ UNCHANGED <<tierOf, world, tier, stack, borrowVars>>

DropReleases ==
  /\ TopIs("drop", "run") /\ world = "fields"
  /\ instances # <<>>
  /\ Head(instances).facade /\ Freeable(Head(instances))
  /\ Release(Head(instances))
  /\ instances' = Tail(instances)
  /\ MoveTop("dtor")
  /\ UNCHANGED <<world, tier, borrowVars>>

\* ... while an id with no facade stays in the table.
DropSkips ==
  /\ TopIs("drop", "run") /\ world = "fields"
  /\ instances # <<>>
  /\ ~Head(instances).facade
  /\ instances' = Tail(instances)
  /\ UNCHANGED <<tableVars, world, tier, stack, borrowVars>>

\* The destructors of a body are through; `free' then removes a partial entry.
DropResumes ==
  /\ TopIs("drop", "dtor")
  /\ IF world = "freeing" THEN TakeOff(Top.id) ELSE UNCHANGED instances
  /\ stack' = [stack EXCEPT ![Len(stack)] = Frame("drop", None, "run")]
  /\ UNCHANGED <<tableVars, world, tier, borrowVars>>

DropDone ==
  /\ TopIs("drop", "run") /\ world = "fields"
  /\ instances = <<>>
  /\ world' = "gone"
  /\ Pop
  /\ UNCHANGED <<tableVars, instances, tier, borrowVars>>

\* The last strong reference is gone: the table drops the bodies still in it,
\* and their destructors can no longer reach it.
DropTable(n) ==
  /\ ~TableAlive
  /\ Occupied(n)
  /\ status' = [status EXCEPT ![n] = "dead"]
  /\ UNCHANGED <<in_use, tierOf, worldVars, stack, borrowVars>>

\* The program has nothing left of this world.
Done ==
  /\ ~TableAlive
  /\ \A n \in Ids : ~Occupied(n)
  /\ NoViews
  /\ UNCHANGED vars

DropStep ==
  \/ DropFrees \/ DropBreaks \/ DropPutsOff \/ DropReleases \/ DropSkips
  \/ DropResumes \/ DropDone

\* What ends an activity, or moves it to its end.
Unwind ==
  \/ Abandon \/ RunStart \/ OccupySlot \/ InstantiateDone \/ InstantiatePartial
  \/ Return \/ ReturnReclaims \/ ReclaimedReturn
  \/ FreeDone
  \/ DropStep
  \/ \E n \in Ids : DropTable(n)

Next ==
  \/ Read \/ Write \/ DropReader \/ DropWriter
  \/ \E n \in Ids, t \in Tiers : Instantiate(n, t)
  \/ \E n \in Ids : Invoke(n) \/ CallFacade(n) \/ InvokeAccess(n) \/ GuestCall(n)
  \/ \E n \in Ids : Free(n)
  \/ DropWorld
  \/ Unwind
  \/ Done

Spec == Init /\ [][Next]_vars

\* One thread runs the top of the stack, and the functions and destructors of
\* the guest and the host that it runs are taken to return.
FairSpec == Spec /\ WF_vars(Unwind)

-----------------------------------------------------------------------------
\* The counters stay natural -- WorldBorrowState's unsigned fields never go
\* below zero, memory.rs -- and the rest of the state has its types.
TypeOK ==
  /\ status \in [Ids -> {"unborn", "reserved", "live", "closing", "dead"}]
  /\ in_use \in [Ids -> Nat]
  /\ tierOf \in [Ids -> Tiers \cup {None}]
  /\ instances \in Seq([id : Ids, facade : BOOLEAN])
  /\ world \in {"open", "freeing", "fields", "gone"}
  /\ tier \in Tiers \cup {None}
  /\ stack \in Seq(Frames)
  /\ executions \in Nat
  /\ readers \in Nat
  /\ writer \in BOOLEAN

Guards == {k \in DOMAIN stack : HoldsGuard(stack[k])}

CallsOf(n) == {k \in DOMAIN stack : HoldsToken(stack[k]) /\ stack[k].id = n}

\* While a slice of linear memory is in the embedder's hands, no call and no
\* initialization of the world is on the stack -- not even a guest-to-guest
\* call, which takes no guard -- and a mutable slice is alone (MemoryView and
\* MemoryViewMut, memory.rs: the slices' `unsafe' rests on this).
ViewsExcludeExecution ==
  /\ ~NoViews => \A k \in DOMAIN stack : ~HoldsToken(stack[k]) /\ stack[k].kind # "start"
  /\ writer => readers = 0

\* The execution depth and the checkout counts are exactly what is on the
\* stack and in the facades: no path that ends a call, a failed instantiation
\* or a release leaves a guard or a token behind (instance.rs).
CountsAreHolders ==
  /\ executions = Cardinality(Guards)
  /\ \A n \in Ids :
       in_use[n] = Cardinality(CallsOf(n)) + (IF HasFacade(n) THEN 1 ELSE 0)

\* An instance with a call on the stack is not destroyed, and one whose start
\* function runs is unpublished and held by nobody: the two cases
\* current_store_access of jit/runtime/mod.rs tells apart by `in_use'.
CalledIsAlive ==
  \A k \in DOMAIN stack :
    /\ HoldsToken(stack[k]) => Occupied(stack[k].id)
    /\ stack[k].kind = "start" /\ stack[k].at # "occupied" =>
         status[stack[k].id] = "reserved" /\ in_use[stack[k].id] = 0

\* When no call is on the stack the embedder can free every instance the world
\* lists, and nothing occupied is missing from the list: neither a failed
\* instantiation nor an earlier refusal of `free' leaves one behind.
IdleWorldCanFreeAll ==
  stack = <<>> /\ world = "open" =>
    /\ \A k \in DOMAIN instances : Freeable(instances[k])
    /\ \A n \in Ids : Occupied(n) => Listed(n)

\* An instance whose owner let go during a call is held by such a call: its
\* release is not put off for ever (InstanceLease::drop and the world's drop).
ClosingIsCalled ==
  \A n \in Ids : status[n] = "closing" => CallsOf(n) # {}

\* All instances of a world that can be called run on one engine, the one the
\* world has recorded, failed instantiations and emptied worlds included
\* (RuntimeWorld::instantiate).
SingleTier == \A n \in Ids : Occupied(n) /\ ~TopIs("start", "occupied") => tierOf[n] = tier

\* A dropped world's instances are all destroyed once the embedder's code stops
\* making new calls, the ones with no facade too (RuntimeWorld::drop).
DroppedWorldIsEmptied ==
  <>[][Len(stack') <= Len(stack)]_vars =>
    (world # "open" ~> \A n \in Ids : status[n] \in {"unborn", "dead"})

-----------------------------------------------------------------------------
(* The world uses the instance table as InstanceLifecycle allows. *)

Handles == ({"frame"} \X (1 .. MaxDepth)) \cup ({"facade"} \X Ids)

UsersView ==
  [n \in Ids |->
     {<<"frame", k>> : k \in CallsOf(n)}
       \cup (IF HasFacade(n) THEN {<<"facade", n>>} ELSE {})]

Lifecycle == INSTANCE InstanceLifecycle
               WITH Names <- Ids, users <- UsersView

\* Every step of the world is a step of the table's promise: ids live once,
\* and die only when no facade and no call holds them.
UsesLifecycle == Lifecycle!Spec
=============================================================================
