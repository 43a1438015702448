----------------------------- MODULE NativeViews -----------------------------
(***************************************************************************)
(* The storage that instances share, and what is copied of it: the views   *)
(* of vm/jit/runtime/context.rs that compiled code reads, and the slice of *)
(* linear memory that a host callback borrows (Caller, vm/entities.rs).    *)
(*                                                                         *)
(* Compiled code finds its memories, its table and its cached dispatch     *)
(* entries through a NativeContext of its activation.  Whatever runs above *)
(* it on the stack, in its own instance or another, may grow or write the  *)
(* same memories and tables; the copies are checked when the callee has    *)
(* returned and when a kept context is used again, and at no other time.   *)
(*                                                                         *)
(* One thread: `stack' holds the activations, the last one running.  An    *)
(* instance has its memories and one table, fixed by the constants.  Left  *)
(* out: globals, whose pointers never change, and module_revision, which   *)
(* only makes the check of a context fail more often.                      *)
(***************************************************************************)
EXTENDS Naturals, Sequences

CONSTANTS
  Ids, Mems, Tables,
  Elements,     \* what a table slot can hold
  Memories,     \* the memories of each instance, imported ones included
  TableOf,      \* the table of each instance
  Own,          \* the elements that name functions of each instance
  Mutates,      \* the instances with a table write anywhere in their code
  Exported,     \* the tables that are imported or exported
  None,
  Miss,         \* a dispatch entry with no native entry point
  MaxPages,     \* bound on every memory: effective_max in do_memory_grow
  MaxElements,  \* bound on every table
  MaxRevision,  \* bound on the writes to a table
  MaxDepth      \* bound on the stack

ASSUME WiringAssumption ==
  /\ Memories \in [Ids -> Seq(Mems)]
  /\ TableOf \in [Ids -> Tables]
  /\ Own \in [Ids -> SUBSET Elements]
  /\ Mutates \subseteq Ids
  /\ Exported \subseteq Tables

\* A table of two instances is imported by one of them.
ASSUME SharingAssumption ==
  \A i, j \in Ids : TableOf[i] = TableOf[j] /\ i # j => TableOf[i] \in Exported

ASSUME BoundsAssumption ==
  {MaxPages, MaxElements, MaxRevision, MaxDepth} \subseteq Nat

\* A block is named by the length it was allocated for; base 0 is null.
Views == [base : Nat, len : Nat]

Contexts ==
  [memories : Seq(Views), table : Views,
   entries : Seq(Elements \cup {Miss}), revision : Nat]

ASSUME NoneAssumption == None \notin Views \cup Contexts
ASSUME MissAssumption == Miss \notin Elements

Frames ==
  [kind : {"guest"}, id : Ids, context : Contexts]
    \cup [kind : {"host"}, id : Ids, slice : Views \cup {None}]

VARIABLES
  memory,    \* block and length of each memory
  table,     \* block and contents of each table
  revision,  \* TableInst.revision
  borrowed,  \* MemBacking.host_callback_borrowed
  cache,     \* native_context_cache of each instance
  stack,
  unwinding  \* an error is on its way through compiled code

storage == <<memory, table, revision>>
vars == <<memory, table, revision, borrowed, cache, stack, unwinding>>

-----------------------------------------------------------------------------
(* Contexts. *)

\* Mutant: a table that the instance itself writes is cached too.
AlwaysCached(i) == TRUE

\* TableDispatchMode::Cached.
Cached(i) == i \notin Mutates

\* Mutant: only the first memory has a view.
FirstMemoryView(i) == [k \in DOMAIN Memories[i] \cap {1} |-> memory[Memories[i][k]]]

MemoryViews(i) == [k \in DOMAIN Memories[i] |-> memory[Memories[i][k]]]

TableView(t) == [base |-> table[t].base, len |-> Len(table[t].elements)]

\* The native entry of each element that is the instance's own function.
Entries(i) ==
  LET elements == table[TableOf[i]].elements IN
  IF Cached(i)
    THEN [k \in DOMAIN elements |-> IF elements[k] \in Own[i] THEN elements[k] ELSE Miss]
    ELSE <<>>

Fresh(i) ==
  [memories |-> MemoryViews(i), table |-> TableView(TableOf[i]),
   entries |-> Entries(i), revision |-> revision[TableOf[i]]]

\* Mutant: only blocks and lengths are compared, not what was written to them.
IsCurrentBlocks(i, c) ==
  /\ c.memories = MemoryViews(i)
  /\ c.table = TableView(TableOf[i])

\* cached_views_are_current.
IsCurrent(i, c) ==
  /\ c.memories = MemoryViews(i)
  /\ c.table = TableView(TableOf[i])
  /\ c.revision = revision[TableOf[i]]

\* refresh_cached_views_if_stale.
Refreshed(i, c) == IF IsCurrent(i, c) THEN c ELSE Fresh(i)

-----------------------------------------------------------------------------
(* The stack. *)

Top == stack[Len(stack)]

Below == SubSeq(stack, 1, Len(stack) - 1)

TopIs(kind) == stack # <<>> /\ Top.kind = kind

GuestRuns(i) == ~unwinding /\ TopIs("guest") /\ Top.id = i

\* Code of the embedder, as a callback or below all calls.
HostRuns == ~unwinding /\ ~TopIs("guest")

EndsInGuest(s) == s # <<>> /\ s[Len(s)].kind = "guest"

\* Mutant: a call that returns leaves the caller's views alone.
NotResumed(s) == s

\* A caller in compiled code looks over its views when a call has returned.
Resumed(s) ==
  IF EndsInGuest(s)
    THEN [s EXCEPT ![Len(s)].context = Refreshed(s[Len(s)].id, @)]
    ELSE s

Init ==
  /\ memory \in [Mems -> {[base |-> n, len |-> n] : n \in 0 .. MaxPages}]
  /\ table \in [Tables -> {[base |-> Len(s), elements |-> s] :
                             s \in UNION {[1 .. n -> Elements] : n \in 0 .. MaxElements}}]
  /\ revision = [t \in Tables |-> 0]
  /\ borrowed = [m \in Mems |-> FALSE]
  /\ cache = [i \in Ids |-> None]
  /\ stack = <<>>
  /\ unwinding = FALSE

\* Mutant: only the first memory is looked at.
PreflightFirst(i) == Memories[i] # <<>> => ~borrowed[Memories[i][1]]

\* The test at the head of eval, which every call but one between functions
\* of the same compiled module goes through.
Preflight(i) == \A k \in DOMAIN Memories[i] : ~borrowed[Memories[i][k]]

Push(frame) == Len(stack) < MaxDepth /\ stack' = Append(stack, frame)

\* A call into compiled code, from compiled code or the embedder's: with the
\* instance's kept context, brought up to date, or with a new one.
EnterGuest(i) ==
  /\ ~unwinding
  /\ Preflight(i)
  /\ Push([kind |-> "guest", id |-> i,
           context |-> IF cache[i] = None THEN Fresh(i) ELSE Refreshed(i, cache[i])])
  /\ cache' = [cache EXCEPT ![i] = None]
  /\ UNCHANGED <<storage, borrowed, unwinding>>

\* A call of a host function that instance i imports.
EnterHost(i) ==
  /\ ~unwinding
  /\ Preflight(i)
  /\ Push([kind |-> "host", id |-> i, slice |-> None])
  /\ UNCHANGED <<storage, borrowed, cache, unwinding>>

\* The instance keeps the context of a call that is over, unless it has one.
KeepContext ==
  cache' = [cache EXCEPT ![Top.id] = IF @ = None THEN Top.context ELSE @]

GuestReturns ==
  /\ ~unwinding /\ TopIs("guest")
  /\ stack' = Resumed(Below)
  /\ KeepContext
  /\ UNCHANGED <<storage, borrowed, unwinding>>

\* A trap or an exception: compiled code below passes it on without looking at
\* its views, a callback gets it as an error.
GuestFails ==
  /\ TopIs("guest")
  /\ stack' = Below
  /\ unwinding' = EndsInGuest(Below)
  /\ KeepContext
  /\ UNCHANGED <<storage, borrowed>>

-----------------------------------------------------------------------------
(* Host callbacks. *)

FirstMemory(i) == Memories[i][1]

\* Caller::memory and memory_mut: begin_shared_borrow, then the slice.
Borrow ==
  /\ ~unwinding /\ TopIs("host")
  /\ Top.slice = None
  /\ Memories[Top.id] # <<>>
  /\ borrowed' = [borrowed EXCEPT ![FirstMemory(Top.id)] = TRUE]
  /\ stack' = [stack EXCEPT ![Len(stack)].slice = memory[FirstMemory(Top.id)]]
  /\ UNCHANGED <<storage, cache, unwinding>>

\* Mutant: the callback's borrow outlives it.
NeverEndBorrow == UNCHANGED borrowed

\* Drop of the Caller.
EndBorrow ==
  borrowed' = IF Top.slice = None THEN borrowed
              ELSE [borrowed EXCEPT ![FirstMemory(Top.id)] = FALSE]

HostReturns ==
  /\ ~unwinding /\ TopIs("host")
  /\ stack' = Resumed(Below)
  /\ EndBorrow
  /\ UNCHANGED <<storage, cache, unwinding>>

HostFails ==
  /\ ~unwinding /\ TopIs("host")
  /\ stack' = Below
  /\ unwinding' = EndsInGuest(Below)
  /\ EndBorrow
  /\ UNCHANGED <<storage, cache>>

-----------------------------------------------------------------------------
(* Changes of the storage. *)

\* The block of a vector that grows to length n: in place, or a new one.
Grown(base, len, n) == IF n = len \/ len = 0 THEN {n} ELSE {base, n}

\* memory.grow, when it succeeds: all memory views are taken anew.
MemoryGrow(i, k, n) ==
  /\ GuestRuns(i)
  /\ k \in DOMAIN Memories[i]
  /\ n \in memory[Memories[i][k]].len + 1 .. MaxPages
  /\ \E b \in Grown(memory[Memories[i][k]].base, memory[Memories[i][k]].len, n) :
       memory' = [memory EXCEPT ![Memories[i][k]] = [base |-> b, len |-> n]]
  /\ stack' = [stack EXCEPT ![Len(stack)].context.memories = MemoryViews(i)']
  /\ UNCHANGED <<table, revision, borrowed, cache, unwinding>>

\* elements_mut, whether or not anything is written then.
Moved(t) ==
  /\ revision[t] < MaxRevision
  /\ revision' = [revision EXCEPT ![t] = @ + 1]

Repeat(e, n) == [k \in 1 .. n |-> e]

\* table.grow, when it succeeds: the table views are taken anew, and nothing
\* else of the context.
TableGrow(i, e, n) ==
  LET t == TableOf[i]
      len == Len(table[t].elements) IN
  /\ GuestRuns(i) /\ i \in Mutates
  /\ n \in len + 1 .. MaxElements
  /\ Moved(t)
  /\ \E b \in Grown(table[t].base, len, n) :
       table' = [table EXCEPT ![t] =
                   [base |-> b, elements |-> @.elements \o Repeat(e, n - len)]]
  /\ stack' = [stack EXCEPT ![Len(stack)].context.table = TableView(t)']
  /\ UNCHANGED <<memory, borrowed, cache, unwinding>>

\* table.grow beyond the maximum.
TableGrowFails(i) ==
  /\ GuestRuns(i) /\ i \in Mutates
  /\ Moved(TableOf[i])
  /\ UNCHANGED <<memory, table, borrowed, cache, stack, unwinding>>

Written(t, k, e) == table' = [table EXCEPT ![t].elements[k] = e]

\* table.set, fill, copy and init; a trap beyond the end comes after the
\* revision has moved.
TableWrite(i, k, e) ==
  /\ GuestRuns(i) /\ i \in Mutates
  /\ k \in DOMAIN table[TableOf[i]].elements
  /\ Moved(TableOf[i])
  /\ Written(TableOf[i], k, e)
  /\ UNCHANGED <<memory, borrowed, cache, stack, unwinding>>

\* table.set in a table nobody else can reach is a store of compiled code.
TableSetInline(i, k, e) ==
  /\ GuestRuns(i) /\ i \in Mutates
  /\ TableOf[i] \notin Exported
  /\ k \in DOMAIN table[TableOf[i]].elements
  /\ Written(TableOf[i], k, e)
  /\ UNCHANGED <<memory, revision, borrowed, cache, stack, unwinding>>

\* An active element segment of a module that the embedder instantiates.
ElementSegment(t, k, e) ==
  /\ HostRuns
  /\ t \in Exported
  /\ k \in DOMAIN table[t].elements
  /\ Moved(t)
  /\ Written(t, k, e)
  /\ UNCHANGED <<memory, borrowed, cache, stack, unwinding>>

TableChange ==
  \E e \in Elements, k \in 1 .. MaxElements :
    \/ \E i \in Ids : TableGrow(i, e, k) \/ TableWrite(i, k, e) \/ TableSetInline(i, k, e)
    \/ \E t \in Tables : ElementSegment(t, k, e)

Next ==
  \/ \E i \in Ids : EnterGuest(i) \/ EnterHost(i)
  \/ GuestReturns \/ GuestFails
  \/ Borrow \/ HostReturns \/ HostFails
  \/ \E i \in Ids : \E k \in DOMAIN Memories[i], n \in 1 .. MaxPages : MemoryGrow(i, k, n)
  \/ TableChange
  \/ \E i \in Ids : TableGrowFails(i)

Spec == Init /\ [][Next]_vars

-----------------------------------------------------------------------------
\* The storage, the contexts and the frames have the shapes above; a table or
\* memory never outgrows its maximum, and each context has a view of each of
\* its instance's memories (the generated code indexes them unchecked).
TypeOK ==
  /\ memory \in [Mems -> [base : 0 .. MaxPages, len : 0 .. MaxPages]]
  /\ table \in [Tables -> [base : 0 .. MaxElements, elements : Seq(Elements)]]
  /\ \A t \in Tables : Len(table[t].elements) <= MaxElements
  /\ revision \in [Tables -> 0 .. MaxRevision]
  /\ borrowed \in [Mems -> BOOLEAN]
  /\ cache \in [Ids -> Contexts \cup {None}]
  /\ stack \in Seq(Frames)
  /\ unwinding \in BOOLEAN
  /\ \A i \in Ids : cache[i] # None => Len(cache[i].memories) = Len(Memories[i])
  /\ \A k \in DOMAIN stack : stack[k].kind = "guest" =>
       Len(stack[k].context.memories) = Len(Memories[stack[k].id])

\* Compiled code runs only on views of the memories' and the table's present
\* blocks and lengths, whatever the calls it made have grown: the promise of
\* refresh_cached_views_if_stale, context.rs.
ViewsAreLive ==
  ~unwinding /\ TopIs("guest") =>
    /\ Top.context.memories = MemoryViews(Top.id)
    /\ Top.context.table = TableView(TableOf[Top.id])

\* Where a running call_indirect finds a cached native entry, it is the entry
\* of the function that the live table holds: no write of another instance, of
\* an instantiation or of its own code is missed (TableDispatchMode::Cached).
EntriesAreLive ==
  ~unwinding /\ TopIs("guest") =>
    \A k \in DOMAIN Top.context.entries :
      Top.context.entries[k] # Miss =>
        /\ k \in DOMAIN table[TableOf[Top.id]].elements
        /\ Top.context.entries[k] = table[TableOf[Top.id]].elements[k]

BorrowsOf(m) ==
  {k \in DOMAIN stack :
     /\ stack[k].kind = "host" /\ stack[k].slice # None
     /\ FirstMemory(stack[k].id) = m}

\* The slice a callback holds stays the memory's block and length for as long
\* as the callback runs, and no compiled code with access to the memory runs
\* above it (Caller::memory_mut's `unsafe', entities.rs).
SlicesAreLive ==
  \A m \in Mems : \A k \in BorrowsOf(m) :
    /\ stack[k].slice = memory[m]
    /\ \A j \in k + 1 .. Len(stack) :
         stack[j].kind = "guest" => \A n \in DOMAIN Memories[stack[j].id] :
                                      Memories[stack[j].id][n] # m

\* A memory's flag is set while exactly one callback holds a slice of it, so
\* that the `expect' in begin_shared_borrow never fails: a callback that runs
\* and holds nothing finds its memory free.
BorrowsAreExclusive ==
  /\ \A m \in Mems : borrowed[m] <=> \E k \in BorrowsOf(m) : BorrowsOf(m) = {k}
  /\ TopIs("host") /\ Top.slice = None /\ Memories[Top.id] # <<>>
       => ~borrowed[FirstMemory(Top.id)]
=============================================================================
