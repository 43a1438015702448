# Silverfir-nano: verification project

TLA+ models of the part of Silverfir-nano that keeps a *runtime world*
together: who holds an instance, when it dies, what a function reference means
where, what a module's segments leave in shared storage, which copies of that
storage compiled code may trust, and which object a WASI descriptor leads to.
Two C programs beside the engine, the shim and the probe that its benchmarks
are measured with, are modelled as well. TLC checks the models on small
instances, TLAPS proves the most important results for every size. Paths below
are relative to `src/sf-nano-core/src/`, those that begin with `ci/`, `scripts/`
or `mcts_mem/` to `src/`.

## 1. The system

Silverfir-nano runs WebAssembly modules on one of two engines, a JIT compiler
and an interpreter. An embedder creates a `RuntimeWorld`, instantiates modules
into it, links their exports to each other, and calls them. Everything in a
world runs on one thread (its parts are `Rc` and `Cell`). What makes it hard is
re-entrance: guest code calls host functions, releasing an instance runs the
destructors of the host closures it owned, and both may come back into the
world, whatever is on the stack.

| component | state | operations | who it talks to |
|---|---|---|---|
| Instance table, `vm/link.rs` | slots, generations, checkout counts, pending releases, free list | reserve, abandon, occupy, checkout, token drop, lease drop, free | holds the instance bodies; every call goes through a checkout |
| Runtime world, `vm/instance.rs` | list of instances with their facades, the tier | instantiate, invoke, call, free, drop; `WorldAccess` for callbacks | instance table, borrow state, engines |
| World borrow state, `vm/memory.rs` | counts of executions and readers, a writer flag | enter, read, write and the drops of their guards | every call and every memory view of the embedder |
| Function registry, `vm/link.rs` | list of (owner, local index); largest local index range so far | observe, register, entry for handle | instantiation writes it, every call through a reference reads it |
| Reference encoding, `vm/jit/value_encoding.rs` | none: one word per reference, local or absolute | absolutize, localize, retag | frames, tables, globals, arguments, results |
| Native context, `vm/jit/runtime/context.rs` | copies of memory and table bases and lengths, cached dispatch entries, revisions | refresh, refresh if stale, keep and reuse | read by compiled code without a test |
| Host callback, `vm/entities.rs` | a flag on each memory | begin and end of a borrow; preflight of each call | `native_eval.rs` |
| Instantiation, `vm/jit/instantiate.rs`, `vm/interpreter/exec.rs` | the body under construction | reserve, register functions, initialize, start function, occupy, lease | all of the above |
| Runtime calls, `vm/jit/runtime/` | the native stack | checkout of the callee, conversion of arguments and results, refresh on return | table, registry, contexts |
| GC heap and preserved helpers | objects that are never collected | struct, array, exception, bulk operations | compiled code |
| Code buffer, trap signals, guard pages | pages of machine code, registered ranges | write and execute phases, fault classification | operating system |
| Interpreter | frames, handlers | drive loop, calls, throws | table, registry |
| Parser and validator | operand and control stacks | one pass over the bytes | module |
| SSA middle end, machine lowering, backends | graphs of one function | passes | JIT build |
| WASI descriptor table, `wasi/mod.rs`, `wasi/preview1.rs` | entries, closed preopens, closed streams, next number | open, close, renumber, set rights; the lookups of every other call | host files |
| Segments, in both instantiation files | the segments an instance still has; shared tables and memories | apply, take in, drop; `table.init`, `memory.init` and the drops | instantiation, code that runs |
| Pinned runs, `ci/noaslr.c`, `run_tests.py` | three processes per run | spawn, wait, time out, kill, collect | the operating system, `ci/performance.py` |
| Frequency probe, `scripts/freqprobe.c` | adds made, a start time | a loop of adds and clock readings | the clock |
| Performance driver and gate, `ci/performance.py` and the workflow | samples, plans, verdicts | pilot, plan, look, judge | pinned runs |
| Utilities; command line; other harnesses; tools; devices | - | - | - |

What each has to guarantee:

- *Instance table*: an id names one instance for ever; a token's raw pointer is
  never to a body that is gone or replaced; a release that was put off happens.
- *Runtime world*: no instance dies under a call; whatever the order of calls,
  failures and drops, nothing is left behind; one engine per world.
- *Borrow state*: no code of the guest runs while the embedder has a slice.
- *References*: a word leads to the function it was made for, or to a trap.
- *Native context*: running code never follows a copy that is out of date.
- *Host callback*: a slice stays valid, and exclusive, while the callback runs.
- *Descriptor table*: a number leads to one object, an object has one number and
  can be closed, ".." never takes back a part of the directory's own path, and
  rights only shrink.
- *Segments*: what a failed instantiation leaves behind works; each active
  segment is copied once.
- *Pinned runs*: a run passes only if the benchmark exited with 0, and nothing
  runs beside a benchmark that is measured.
- *Frequency probe*: it ends and never prints more than the core does.
- *The rest*: see section 7.

## 2. Modules

    InstanceLifecycle        the promise: an id is reserved, lives, dies, once
       ^            ^
       | implements | uses correctly
    InstanceTable   RuntimeWorld
    FuncAddr                 references of the instances of a world
    NativeViews              shared storage, contexts and callbacks' slices
    Segments                 instantiation segment by segment, and the init instructions

    FdMap                    the promise: one object per number, one number per object
       ^
       | implements
    FdTable                  streams, preopens and opened descriptors

    PinnedRun                driver, shim and benchmark of each run
    FreqProbe                the loop of the frequency probe

    InstanceTable_proofs, RuntimeWorld_proofs, FuncAddr_proofs, NativeViews_proofs,
    Segments_proofs, FdTable_proofs, PinnedRun_proofs, FreqProbe_proofs
    MCInstanceTable, MCRuntimeWorld, MCFuncAddr, MCNativeViews,
    MCSegments, MCFdTable, MCPinnedRun, MCFreqProbe

**InstanceTable** is `vm/link.rs` 39-577. The parallel vectors are variables of
their own names; `len` is their common length. A token is a record of its id and
the body its raw pointer points at, so that a dangling pointer is a state. A
*handle* is any place of the program that can hold a token; a lease is a handle
in `leases`. Each table operation is an action, with its early returns as guards
(an operation that fails changes nothing, so a failed call is a stutter). The
one operation that is split is the drop of the lease that held the last token of
a pending release: dropping the token runs destructors, which may call the
table, before the lease's own `free`; `freeing` holds such drops.

**InstanceLifecycle** says what an id promises with no slots or counters.
`InstanceTable` maps to it by `StatusView` and `UsersView`; the mapping calls a
slot's id reserved while it is vacant, current, and not on the free list.

**RuntimeWorld** is `vm/instance.rs` 160-905 with `vm/memory.rs` and the order
of events of the two instantiation sequences. `stack` is the native stack: an
activity is an `invoke` through the world, an `access` through a `WorldAccess`,
a `guest` call, a `start` (an instantiation), a `free` or the `drop` of the
world; it runs guest code (`run`) or is inside the destructors of a body
(`dtor`). Rust's borrows are in the guards: the world's own methods need it
unborrowed (`WorldFree`), a `WorldAccess` does not. The table is taken as
InstanceLifecycle describes it, and `UsesLifecycle` checks that the world does
so. The fields of a dropped world are dropped after `RuntimeWorld::drop` has
freed what it could (`world = "fields"`).

**FuncAddr** is the registry and the two forms of a reference. Local forms
count up from 0, absolute ones down from `FUNCADDR_TOP`, in one untagged word;
null is above both. Each modelled reference carries the function it was made for,
which no action reads: it is there for the properties to compare the word's
meaning with. There is one frame slot and one private container per instance,
one shared container and one value of the embedder; every path of the code between
two of them is an action with the conversions of that path. Both assertions of the
registry, which panic, are guards.

**NativeViews** has memories, tables and what is copied of them. A block of
memory is named by the length it was allocated for; growth keeps the block or
takes a new one. The contexts are those of the frames on the stack; calls,
returns, and errors that unwind through compiled code without a refresh are
actions, as are growth, writes through the runtime (which move the revision, even
when they fail), inline writes (which do not), and the element segments of an
instantiation by the embedder. Host frames hold at most one slice.

**Segments** is the middle of both instantiations, which RuntimeWorld takes as one
step: `vm/jit/instantiate.rs` 883-992 and the same part of
`vm/interpreter/exec.rs`, with `table.init`, `memory.init` and the two drops.
`tier` is the engine. `status` runs from `segments` over `start` to `whole`; a
failure leaves the instance `partial`, with a body, or, before there is one,
`abandoned`. A reference and a byte are named by the segment they were copied from,
so that the properties can say whose they are; `copies` counts them. Nothing runs
between two segments; from the start function on, whatever can be reached does,
the code of a partial instance through the shared table.

**FdTable** is the descriptor table: `fds` for what was opened or moved, and the
two sets of closed numbers that decide whether a low number is still a stream, still
a preopen, or looked up in `fds` too. `PathOpen` has the checks of rights and the
resolution of a path, which is lexical: `Parts` takes back a name for each `..`, and
`Pushed` is the loop of `PathBuf::push`, in which on Windows a component with a drive
(`Prefixed`) replaces all before it. What is found at a path, by way of links or not, is
the host's choice. `object` and `under` in an entry are history, which no operation reads. **FdMap** is the promise
without the three tables: a map of numbers to objects with open, close and renumber.

**PinnedRun** has for each run the shim's process and the benchmark's, and what
`run_test` returned. The driver kills its child, the shim, when it loses patience; the
benchmark is not its child and runs on. `mode` tells the comparison, which stops at
the first failure, from the correctness suite, which goes on.

**FreqProbe** counts time in cycles of the core; the clock moves every `Tick`
cycles, and the process may lose the core between any two steps.

Definitions marked `Mutant:` are not part of any behaviour. Each is a changed
form of the definition after it, with the error a plausible slip in the code would
make, and shows that a property notices it.

## 3. Runs

| run | what it asks | bounds | distinct states |
|---|---|---|---|
| `instance_table` | tokens, counts, releases, reuse; implements InstanceLifecycle | 2 slots, 3 generations and the retired one, counts to 2, 3 handles | 29,325 |
| `runtime_world` | views, counts, calls, releases, tier; the world's end; correct use of the table | 3 ids, both tiers, stack of 4, 2 readers | 461,181 |
| `func_addr` | dispatch of references | 2 instances of up to 2 functions, words 0 to 5 | 221,691 |
| `native_views_memories` | memory views, callback slices | 2 instances, one memory shared and first for one of them only, 2 pages, stack of 4 | 511,323 |
| `native_views_tables` | table views, cached dispatch | 2 instances sharing a table, 2 elements, 3 writes, stack of 3 | 786,001 |
| `native_views_inline` | inline writes to a private table | 1 instance, 2 elements, 3 writes, stack of 3 | 14,361 |
| `segments` | what failures leave, what is copied again, what code finds | 2 instances, both tiers, 4 modules, table and memory of 2 | 259,530 |
| `segments_jit_data` | *violated*: active data is copied once | as above, JIT only | - |
| `fd_table` | implements FdMap; lexical paths, rights, closing | 1 stream, 2 preopens, numbers to 4, paths to 2 of a name and a drive, rights none or all | 347,018 |
| `fd_table_fdstat` | *violated*: `fd_fdstat_get` resolves like the others | 1 stream, 1 preopen, numbers to 3 | - |
| `pinned_run` | what passes, what runs beside a measurement, the driver's end | 3 runs, exit codes 0, 1, 127, signals 9, 11 | 15,690 |
| `freq_probe` | the number printed, the probe's end | blocks of 2, ticks of 3, stalls to 2, 20 cycles | 506 |

Why the bounds are enough to be interesting:

- *InstanceTable*: with 2 slots and 3 generations a slot is reused, retired and
  left out of the free list while the other is in use; 3 handles allow a lease, a
  token below it and a third holder, and one more than the greatest count. Ids of
  another world are tried too.
- *RuntimeWorld*: a stack of 4 has a call in a destructor in a call in a drop; 3
  ids have a whole instance, a partial one and one freed at a time. An id dies
  for good, so TLC runs out of ids, not of behaviours of one.
- *FuncAddr*: `Top` = 4 with two modules of two functions makes the two ranges
  touch, and both assertions fire. `MaxFuncs` bounds a module.
- *NativeViews*: a stack of 3 or 4 has a caller, a callee and a callback between
  them, or two callers of one instance; the revision, bounded by `MaxRevision`, is
  in the code a `u64` that wraps after 2^64 writes. `MaxPages` and `MaxElements`
  are the code's own maxima.
- *Segments*: one instance fails at, before or after any segment while the other
  shares what it wrote, in either order; the four modules have every mode, a
  segment that overwrites another of its own module, one that does not fit, and
  passive ones before and behind it. `copies` stops at 2.
- *FdTable*: with two preopens and two more numbers, descriptors are moved onto
  streams, preopens and opened numbers, opened in what was opened, and
  narrowed first; paths of 2 enter a directory and climb, or climb too far, and name a
  drive behind a name or before one. `MaxFd` bounds `next_fd`, an `i32` in the code,
  which never goes back.
- *PinnedRun*: 3 runs have a benchmark left behind by the first beside the others.
- *FreqProbe*: blocks shorter and, with stalls, longer than a tick; targets of no
  time, one tick and more than a block. `MaxNow` stops a probe with an endless target.

Deadlock is checked except in `instance_table`, `func_addr`, `segments`,
`segments_jit_data`, `fd_table` and `fd_table_fdstat`: a table whose slots are all
retired with no token out can do nothing, a world whose ids are used up, or whose
next registration would panic, stops, and a guest may have closed all it had.
Symmetry is used for the ids of FuncAddr, which are checked for invariants only. No
view or constraint is used: bounds are guards.

## 4. Properties

*InstanceTable.* `NoDanglingToken`: every token points at the body that is in
its slot and that its id names. `CountIsHolders`: the count is the number of
tokens. `PendingIsHeld`: a release put off has a token left. `ReusableIsFree`:
the free list has only vacant, unretired slots, once each.
`SuspendedDropIsDead`: a lease drop that resumes after destructors finds its id
dead, so its trailing `free` cannot hit the slot's next occupant.

*RuntimeWorld.* `ViewsExcludeExecution`: a view excludes every call, also the
guest-to-guest calls that take no guard. `CountsAreHolders`: the depth and the
checkout counts are those of the stack and the facades, whatever path ended a call.
`CalledIsAlive`: no instance dies under a call, and a start function's instance is
reserved with a count of 0, the test `current_store_access` makes.
`IdleWorldCanFreeAll`: with no call on the stack every listed instance can be
freed, and every occupied slot is listed. `ClosingIsCalled`: an instance whose
release was put off is on the stack. `SingleTier`. `DroppedWorldIsEmptied`
(liveness) and `UsesLifecycle` (refinement).

*FuncAddr.* `RangesDisjoint`: local and absolute words never meet.
`NoMisdispatch`: each reference an instance can read leads to the function it was
made for, and if its owner is gone still names that owner. `LocalFormsStayHome`:
nothing shared holds a local form.

*NativeViews.* `ViewsAreLive`: running code has the present block and length of
each memory and of its table. `EntriesAreLive`: a cached native entry is that of
the function in the live table. `SlicesAreLive`: a callback's slice is the present
block, and no compiled code with access to it is above the callback.
`BorrowsAreExclusive`: the flag is set exactly while one callback holds a slice,
so the `expect` in `begin_shared_borrow` cannot fail.

*Segments.* `EntriesAreCallable`: a reference in the shared table leads to an
instance that has a body, or had one until it was freed, though the instantiation
that wrote it failed. `SpentOnce`: an active segment is copied by its instantiation
and never again, however init and drop instructions of code that shares the table
follow. `StartSeesAll`: the start function finds every active segment in place.
`PassiveReady`: code finds its passive segments.

*FdTable.* `ImplementsMap` (refinement): in no order of opens, closes and moves do
two numbers lead to one object or is an entry hidden behind a stream or a preopen.
`EveryEntryCloses`: each number that leads somewhere can be closed, also a preopen's
onto which something was moved. `LexicallyBelow`: over any chain of
opens the text of a host path continues that of the directory it was opened in, unless a
component names a drive; this is the first clause of `wasi.md` 22-26 ("resolved
lexically"), and section 7 says why not the last. `RightsOnlyShrink`: an object gains no right, whatever
numbers it moves through.

*PinnedRun.* `PassIsAnExit`: no signal, spawn failure or failure of `waitpid` comes
back as a success. `MeasuredAlone`: a benchmark whose shim was killed is not running
beside a later measurement; it is the driver's giving up that sees to it.
`DriverFinishes` (liveness): whatever the benchmarks do.

*FreqProbe.* `NeverOverstates`: the probe divides by a time above 0, and what it
prints exceeds the truth by less than a tick's share. `ProbeEnds` (liveness).

InstanceTable, RuntimeWorld, FuncAddr and NativeViews have a `TypeOK` that is
checked, with the bounds of their counters; PinnedRun's is proved only.

### Disagreements

- `fd_table_fdstat`: `fd_renumber` may move a descriptor onto a preopen's number,
  which closes the preopen. All operations but one look such a number up in `fds`
  then; `fd_fdstat_get` (`wasi/preview1.rs` 1472) answers `BADF`. The notes of the
  project (`mcts_mem/silverfir/wasi.md` 129-133) want every operation to resolve
  through the lookup.
- `segments_jit_data`: the JIT (`vm/jit/instantiate.rs` 968) applies an active data
  segment and does not drop it, so `memory.init` copies it again where WebAssembly
  and the interpreter (`vm/interpreter/exec.rs` 1721) trap.

## 5. Fairness

*RuntimeWorld.* `FairSpec` asks weak fairness of `Unwind`, the steps that end what
is on top of the stack: one thread runs, and functions and destructors, of guest and
host, are taken to return (a guest that loops for ever keeps its world, by design).
Nothing is asked of the embedder: it need not drop a world or a view.
`DroppedWorldIsEmptied` supposes that calls stop being made from some point on, or a
callback could call for ever.

*PinnedRun.* The shim and the driver are processes the system schedules, and
`subprocess.run` has a timeout: weak fairness of the shim's two steps, of `Launch` and
of `Timeout`. Nothing is asked of the benchmark, which may hang.

*FreqProbe.* Weak fairness of the loop: the process gets the core back.

The other specifications are used for safety and state none.

## 6. Proofs

All theorems are about the modules TLC checks, with their constants arbitrary but
for the named assumptions: natural bounds, a finite set of handles, `Vacant`,
`NoToken`, `Nobody` and `None` different from what they stand beside, two different
worlds.

*InstanceTable_proofs*: `TypeCorrect`, `TokenSafety`, `CountCorrect`,
`PendingReleaseHeld`, `ReuseSafety`, `SuspendedDropSafety`. The inductive
invariant `IInv` adds to the properties that a slot's occupant is the instance
its current id names (`OccupantIsCurrent`: without it a checkout could hand out a
pointer that disagrees with its id), that a pending release has a count above 0,
that every lease holds a token, and that a suspended drop's generation is past.
Three lemmas carry the argument: returning a token keeps the count
(`ReturnCounts`, by cardinality of a finite set less one element), reclaiming a
slot nobody holds keeps `IInv` (`ReclaimStep`), and the two compose
(`ReturnAndReclaim`).

Then `ImplementsLifecycle`, `Spec => LifecycleSpec`. Each table action moves the
status of at most one id (`MoveOne`) or takes a handle from, or adds one to, the
users of one id; `RetireMoves` shows that advancing a generation kills one id and
gives birth to none, since the next generation's id is on the free list.

The refinement is then put to use: what the table promises its callers is proved of
InstanceLifecycle, where it takes a few lines (`LifeInv`, `LifeStep`), and holds of the
table because its steps are steps there. `StagesOnlyAdvance`: an id is unborn,
reserved, live, closing and dead in one direction, and so never occupied twice.
`HeldInstancesLive`: what is held is live or closing. `StaleIdsNeverResolve`: a dead id
resolves to nothing from then on, whoever has its slot.

*RuntimeWorld_proofs*: `TypeCorrect`, `Counts`, `ViewsExclude`, `CalledAreAlive`,
`IdleWorldsCanFree`, `ClosingAreCalled`, `OneTier`, and `UsesTheTable`,
`Spec => UsesLifecycle`, for any ids, engines, depth of the stack and number of views.
The inductive invariant says that the world has at most one owner or mutable borrower
on the stack, which agrees with the world's own stage (`WorldOwned`, `FrameIds`); that a
guest-to-guest call, which takes no guard, has one below it (`GuestsAreGuarded`: with
`CountsAreHolders` it turns "no execution" into "nothing on the stack"); that the list has
one entry for an id, of a live instance or of one that is being freed (`OneEntryEach`,
`EntriesAreLive`), and that what is occupied and published is on it (`SettledAreListed`);
that an instantiation's id is on no list and in no call (`StartsAreNew`). The lemmas fall
into what a push, a pop and a change of the top frame do to the sets that are counted
(`PushCounts`, `PopCounts`, `ReplaceCounts`), and what a step does to the list
(`EntryAdded`, `LostEntry`, `TakenOff`); a step combines one of each. `ClosingIsCalled`
carries the release that is put off: a closing instance has no facade, so its last count
is its last call, which is the case `LeavesLife` needs for the refinement.

Of `DroppedWorldIsEmptied` all is proved but the step that fairness takes.
`UnwindingGoesOn` (`NeverStuck`): while anything is on the stack, or a dropped world has an
instance in it, one of the guards of `Unwind` holds (`CanUnwind` spells them out). It needs
the invariant `OnStack`: calls and drops are in a stage that has a step, and each reserved id
is one of an instantiation on the stack. `UnwindingEnds`: `Remaining`, the ids that are not
dead, the frames, the list's entries and what the top frame has ahead of it with weights, is
a natural number that every step of `Unwind` makes smaller and only a new call larger.

*FuncAddr_proofs*: `TypeCorrect`, `RangesStayDisjoint`, `DispatchIsFaithful`,
`SharedFormsAreAbsolute`. The inductive invariant says that a frame or private
container holds the local form of its own registered function or an absolute
form, that shared places hold absolute forms only (`Cells`, `Links`), that the
registry and each instance's addresses are inverse to each other (`Addresses`,
`Owners`), and that the largest local range plus the registry fits under the top
(`Ranges`). `GoodOutward` and `GoodInward` are the two conversions; a path is
proved by composing them. `MeaningsStay` and `AddressesAreUnique` are about time and
equality: a word that resolves names the same function for good, whatever instances come
and go, and two absolute words are equal exactly if their functions are.

*NativeViews_proofs*: `TypeCorrect`, `ViewsStayLive`, `EntriesStayLive`,
`SlicesStayLive`, `BorrowsStayExclusive`, for any wiring of instances to memories and
tables that satisfies `SharingAssumption` (two instances have a table in common only
if it is exported or imported). What has to be known of a suspended caller is not that
its context is live, for it need not be, but that it is `Sound`: if it carries the
table's present revision, its entries are the table's. `SoundnessStays` shows that every
write keeps this: a write either counts up the revision, or is one of code that writes its
private table inline, and then no instance on that table caches entries. `ResumedIsLive`
turns soundness into liveness when the frame above goes. For the slices the invariant is
that nothing above a borrow has the memory (`Guarded`), that a flag is one slice
(`Flagged`), and that the slice is the memory as it is (`SlicesHold`). `PreflightLasts` and
`BorrowsHold` follow: the test at the head of `eval` holds as long as the callee runs, and a
borrowed memory stays where and as long as it is until the callback that holds it ends.

*Segments_proofs*: `FailuresLeaveCallableEntries`, `SegmentsAreSpent`,
`StartFindsSegments`, `PassiveSegmentsAreReady`, for any set of modules, lengths and
instances. The inductive invariant says that one instantiation is under way
(`OneLoads`), that an instance not begun has no segment applied (`Untouched`) and one
with no body has no reference in the table (`NotEntered`), that the segments behind
the current one have not been copied (`Fresh`), that an active segment passed is not usable again (`Taken`), that
the passive ones are (`PassiveKept`), and that each active segment passed is in place or
under a later one as long as nothing else can run (`Placed`). The two action properties follow from
`Placed` and `PassiveKept` at the one step that ends the segments.

A second invariant, `Provenance`, follows each cell of the table and the memory back to the
segment it is a copy of, whose owner has passed the point where it could end without a body
(`Sourced`; `EnteredStays` says that there is no way back). `ContentHasItsSegment` is the
first half, and `AbandonedIsAllGone` the second: what is given up has written nothing, in the
memory any less than in the table.

*FdTable_proofs*: `TableImplementsMap`, `Spec => Map!Spec`, and `NothingStaysHidden`
and `ObjectsHaveOneNumber`, the invariants it rests on. The invariant is `Shape` (types, and
numbers not yet handed out are unused), `NothingHidden` and `OneNumberEach`. For each
operation it is shown what it does to the map: `RenumberEntry` moves one object
and closes another through three different tables, and `NothingHidden` is what makes the
case of a preopen's or a stream's number come out as the others. `RightsNeverGrow` adds
that an object is found under one number (`ReachedOnce`), so that the entry a step
writes can be compared with the one it came from. `ClosesAreFinal` is the half of
`EveryEntryCloses` that is not about ENABLED: a close leaves nothing under its number,
since no entry waits below a preopen. `ClosedStaysClosed`, that an object which was closed
is not reached again by a number handed out or moved to later, is proved of FdMap and
carried over.

`PathsContinue` (`LexicallyBelow`), `RefusedWhenAbove` and `EntriesAreTyped` are about paths of
every length. `Climbed`, the loop of `resolve_under_base`, is a recursive function over the
path's positions, and what it computes is shown by induction. The library's induction
theorems take the induction's predicate as an operator, which the provers cannot
instantiate; `SetInduction` says the same of a set of numbers, and follows from the
well-foundedness of < that the library does prove. With it `LoopRuns` shows that the
function is defined by its equation, and `LoopCounts` that it ends with `Escaped` exactly if
some prefix has more ".." than names, and otherwise with as many names as are left over.
`PushedBelow` does the same for the pushes: the base with the parts behind it, or the last
part with a drive and those behind that one. That an opened path begins with the path of
the directory it was opened in, or with a drive (`ResolvesBelow`), then makes `Paths`
inductive. All of it is about the text of paths.

*PinnedRun_proofs*: `RunsAreTyped`, `PassesAreExits`, `MeasuredBenchmarksRunAlone`,
`VerdictsAreFinal`, `ComparisonStopsAtFirst`, for any number of runs and sets of codes and
signals.
The invariant says how far each run's processes can be for where the driver is
(`Progress`), that a shim that exited with 0 had a benchmark that did (`ZeroIsZero`), and
that in the comparison, until it fails, no benchmark of a finished run is left (`NoneLeft`).

A second invariant, `Reported`, says where the driver has to be for a run to have a
result, and that the comparison before its current run has passes only: processes that end
late change no verdict, and the comparison is done only when every run has passed.

`DriverRunsOut` is `DriverFinishes` but for fairness: what the driver has left to do is a
natural number that each of its steps makes smaller (`Nearer`), and until its end it has a
run to start or one to give up on (`GoesOn`). `ProcessesEndOnce` and `OnlyTheKilledLeave` are
the shim's promise: it does not end before its benchmark unless it is killed.

*FreqProbe_proofs*: `FrequencyIsNoMore` (`NeverOverstates`) and `RunsItsTime`, for any
tick, block, targets and loss of the core. The invariant is `AddsFit`: the adds made so far
fit between the first reading of the clock, taken back to its tick, and now. The products
are kept out of the steps by two lemmas, on rounding (`ClockRoundsDown`) and on a block
more (`Distributes`). A second invariant, `Accounted`, bounds the time from above: the core
is lost for `MaxStall` at most in each step, so that the number falls short by a tick's share
and the loss only (`FrequencyIsNoLess`), and no block is begun that the time asked for has
no room for (`WorkEnds`, the part of `ProbeEnds` that is not about fairness).

Every safety property a run checks is stated by a theorem. What stays with TLC is out of
the prover's reach: liveness under fairness (`DroppedWorldIsEmptied`, `DriverFinishes`,
`ProbeEnds`, of which the measures and guards above are proved) and ENABLED
(`EveryEntryCloses`). That `CanUnwind` and `GoesOn` are the guards of the fair actions is
seen by reading these; no theorem says it. No module that is proved about uses a
RECURSIVE operator.

## 7. What is not modelled

- The interpreter's own copy of the reference discipline and its drive loop: planned.
- Host, extern and GC references, which carry a tag, and the registries of
  references and vectors: nothing is ever removed from them.
- Globals in contexts (their pointers do not change) and `module_revision` (it
  only makes contexts refresh more often).
- Exceptions caught across calls: the JIT passes a host's throw on to the
  embedder (`vm/entities.rs` 228-230), so no code runs on with unrefreshed views.
- Parsing, validation, the compiler's passes and the backends: deterministic
  functions over large inputs; single algorithms of theirs are candidates for
  checking against a reference definition.
- Memory protection, signals and the operating system.
- WASI: positions of files (`fd_pread` and `fd_pwrite` seek and seek back, and an error
  between leaves the position moved), directory cookies, flags of a descriptor, path
  operations that open nothing, clocks, random numbers. What `fd_close` owes a number
  onto which something was moved after its stream was closed: no statement of the
  project says, and `EveryEntryCloses` leaves the streams' numbers out.
- Where a host path leads. `path_open` follows links, those in the middle of a path always
  and the one at its end when the guest sets the flag (`preview1.rs` 1680, 1716, 1781), and
  `path_symlink` refuses only targets that are absolute (3229-3233); and on Windows a
  component with a drive replaces the directory's path (257). `wasi.md` 22-26 ends with "a
  guest cannot escape its granted directory": nothing here says that of the object that is
  opened, and it does not follow from the lexical resolution alone. `LexicallyBelow` and
  `PathsContinue` must not be read as that claim.
- What the code of a partial instance of the JIT finds of passive segments behind the
  active one that failed (nothing: they are not taken in): no statement promises it.
- The performance driver's plan, looks and verdicts, the gate of two jobs built on it,
  the shim's usage message and a negative duration asked of the probe.
- Exhaustion of memory, of world identities (refused by `InstanceTable::new`), of
  the execution depth and of the reader count (both `checked_add`).
- Command line, test harnesses, tools, devices, benchmarks: input and output.

## 8. Plan

1. WASI: positions of files shared by what refers to them, reads and writes that fail
   half way, directory cookies.
2. The performance driver: a module of the measuring mode over an abstract statement
   of what the workflow is told, and the gate on top of it.
3. Interpreter: call frames, handlers and host throws; its use of the registry.
4. Code buffer, trap ranges and their registration; scratch register pool with its
   scopes.
5. Pure algorithms: parallel edge moves, limits, LEB128, bulk-memory bounds at the
   width of a word, each against a reference definition.
6. The validator's operand and control stacks.
