------------------------- MODULE NativeViews_proofs -------------------------
(***************************************************************************)
(* Proofs about NativeViews, for any wiring of instances, memories and     *)
(* tables and a stack of any depth: what compiled code reads through its   *)
(* context is live, and a callback's slice stays valid and exclusive, and  *)
(* its memory as it is, until the callback ends.                           *)
(***************************************************************************)
EXTENDS NativeViews, SequenceTheorems, TLAPS

StorageTyped ==
  /\ memory \in [Mems -> [base : 0 .. MaxPages, len : 0 .. MaxPages]]
  /\ table \in [Tables -> [base : 0 .. MaxElements, elements : Seq(Elements)]]
  /\ \A t \in Tables : Len(table[t].elements) <= MaxElements
  /\ revision \in [Tables -> 0 .. MaxRevision]
  /\ borrowed \in [Mems -> BOOLEAN]

\* A context has a view of each memory of its instance.
Fits(i, c) == c \in Contexts /\ Len(c.memories) = Len(Memories[i])

\* The dispatch entries of context c are those of the table.
Matches(i, c) ==
  \A k \in DOMAIN c.entries : c.entries[k] # Miss =>
    k \in DOMAIN table[TableOf[i]].elements /\ c.entries[k] = table[TableOf[i]].elements[k]

\* What makes the revision a sufficient test: a context that carries the table's
\* present revision has its entries, and one of an instance that may write its own
\* table, where writes are not counted, has none.
Sound(i, c) ==
  /\ Fits(i, c)
  /\ c.revision <= revision[TableOf[i]]
  /\ c.revision = revision[TableOf[i]] => Matches(i, c)
  /\ ~Cached(i) => c.entries = << >>

\* All that running code relies on.
Live(i, c) ==
  /\ c.memories = MemoryViews(i)
  /\ c.table = TableView(TableOf[i])
  /\ Matches(i, c)

KeptSound ==
  /\ cache \in [Ids -> Contexts \cup {None}]
  /\ \A i \in Ids : cache[i] # None => Sound(i, cache[i])

StackSound ==
  /\ stack \in Seq(Frames)
  /\ \A k \in 1 .. Len(stack) : stack[k].kind = "guest" => Sound(stack[k].id, stack[k].context)

RunningLive == ~unwinding /\ TopIs("guest") => Live(Top.id, Top.context)

Borrows(f) == f.kind = "host" /\ f.slice # None

\* Nothing above a borrow is of an instance that has the memory.
Guarded ==
  \A k, j \in 1 .. Len(stack) : k < j /\ Borrows(stack[k]) =>
    \A n \in DOMAIN Memories[stack[j].id] : Memories[stack[j].id][n] # FirstMemory(stack[k].id)

Flagged ==
  \A m \in Mems :
    borrowed[m] <=> \E k \in 1 .. Len(stack) : Borrows(stack[k]) /\ FirstMemory(stack[k].id) = m

SlicesHold ==
  \A k \in 1 .. Len(stack) : Borrows(stack[k]) =>
    Memories[stack[k].id] # << >> /\ stack[k].slice = memory[FirstMemory(stack[k].id)]

BorrowsSound == Guarded /\ Flagged /\ SlicesHold

IInv ==
  /\ StorageTyped
  /\ unwinding \in BOOLEAN
  /\ KeptSound
  /\ StackSound
  /\ RunningLive
  /\ BorrowsSound

-----------------------------------------------------------------------------
(* Contexts.                                                                 *)

LEMMA IsSequence ==
  ASSUME NEW S, NEW n \in Nat, NEW f \in [1 .. n -> S]
  PROVE  f \in Seq(S) /\ Len(f) = n
  OBVIOUS

LEMMA MemoryShape ==
  ASSUME NEW i \in Ids
  PROVE  /\ Len(Memories[i]) \in Nat
         /\ DOMAIN Memories[i] = 1 .. Len(Memories[i])
         /\ \A k \in 1 .. Len(Memories[i]) : Memories[i][k] \in Mems
         /\ TableOf[i] \in Tables
         /\ Own[i] \subseteq Elements
  BY WiringAssumption

LEMMA FirstMemoryShape ==
  ASSUME NEW i \in Ids, Memories[i] # << >>
  PROVE  1 \in DOMAIN Memories[i] /\ FirstMemory(i) \in Mems
<1>1. Memories[i] \in Seq(Mems)
  BY WiringAssumption
<1>2. Len(Memories[i]) \in Nat \ {0}
  BY <1>1, EmptySeq
<1> QED BY <1>2, MemoryShape DEF FirstMemory

LEMMA TableShape ==
  ASSUME StorageTyped, NEW t \in Tables
  PROVE  /\ table[t].elements \in Seq(Elements)
         /\ Len(table[t].elements) \in 0 .. MaxElements
         /\ DOMAIN table[t].elements = 1 .. Len(table[t].elements)
         /\ table[t].base \in 0 .. MaxElements
         /\ revision[t] \in 0 .. MaxRevision
<1>1. table[t] \in [base : 0 .. MaxElements, elements : Seq(Elements)]
  BY DEF StorageTyped
<1>2. Len(table[t].elements) \in Nat /\ DOMAIN table[t].elements = 1 .. Len(table[t].elements)
  BY <1>1
<1> QED BY <1>1, <1>2 DEF StorageTyped

(* A context taken anew is sound, and all of it is live.                     *)
LEMMA FreshIsLive ==
  ASSUME StorageTyped, NEW i \in Ids
  PROVE  Sound(i, Fresh(i)) /\ Live(i, Fresh(i))
<1> DEFINE t == TableOf[i]
<1>1. t \in Tables
  BY MemoryShape
<1>2. MemoryViews(i) \in Seq(Views) /\ Len(MemoryViews(i)) = Len(Memories[i])
  <2>1. \A k \in 1 .. Len(Memories[i]) : memory[Memories[i][k]] \in Views
    BY MemoryShape DEF StorageTyped, Views
  <2>2. MemoryViews(i) \in [1 .. Len(Memories[i]) -> Views]
    BY <2>1, MemoryShape DEF MemoryViews
  <2> QED BY <2>2, MemoryShape
<1>3. TableView(t) \in Views
  BY <1>1, TableShape DEF TableView, Views
<1>4. Entries(i) \in Seq(Elements \cup {Miss})
  <2>1. CASE Cached(i)
    <3>1. Entries(i) \in [1 .. Len(table[t].elements) -> Elements \cup {Miss}]
      BY <1>1, <2>1, TableShape, MemoryShape DEF Entries
    <3>2. Len(table[t].elements) \in Nat
      BY <1>1, TableShape
    <3> QED BY <3>1, <3>2, IsSequence
  <2>2. CASE ~Cached(i)
    BY <2>2 DEF Entries
  <2> QED BY <2>1, <2>2
<1>5. Fresh(i) \in Contexts
  BY <1>1, <1>2, <1>3, <1>4, TableShape DEF Fresh, Contexts
<1>6. Matches(i, Fresh(i))
  BY DEF Matches, Fresh, Entries
<1>7. ~Cached(i) => Fresh(i).entries = << >>
  BY DEF Fresh, Entries
<1> QED BY <1>1, <1>2, <1>5, <1>6, <1>7, TableShape DEF Fresh, Sound, Fits, Live

(* A context that was looked over is live, whether it was kept or not.       *)
LEMMA RefreshedIsLive ==
  ASSUME StorageTyped, NEW i \in Ids, NEW c, Sound(i, c)
  PROVE  Sound(i, Refreshed(i, c)) /\ Live(i, Refreshed(i, c))
<1>1. CASE IsCurrent(i, c)
  BY <1>1 DEF Refreshed, IsCurrent, Sound, Live
<1>2. CASE ~IsCurrent(i, c)
  BY <1>2, FreshIsLive DEF Refreshed
<1> QED BY <1>1, <1>2

(* A change of the tables that no context can miss: a table whose contents    *)
(* change moves its revision on, or belongs to writers only.                 *)
Noticed ==
  \A t \in Tables :
    /\ revision'[t] >= revision[t]
    /\ \/ revision'[t] > revision[t]
       \/ table'[t] = table[t]
       \/ \A i \in Ids : TableOf[i] = t => ~Cached(i)

LEMMA SoundnessStays ==
  ASSUME StorageTyped, StorageTyped', Noticed, NEW i \in Ids, NEW c, Sound(i, c)
  PROVE  Sound(i, c)'
<1> DEFINE t == TableOf[i]
<1>1. t \in Tables /\ revision[t] \in Nat /\ revision'[t] \in Nat
  BY MemoryShape DEF StorageTyped
<1>2. c.revision \in Nat
  BY DEF Sound, Fits, Contexts
<1>3. c.revision <= revision'[t]
  BY <1>1, <1>2 DEF Noticed, Sound
<1>4. ASSUME c.revision = revision'[t] PROVE Matches(i, c)'
  <2>1. revision'[t] = revision[t]
    BY <1>1, <1>2, <1>4 DEF Noticed, Sound
  <2>2. CASE table'[t] = table[t]
    BY <1>4, <2>1, <2>2 DEF Sound, Matches
  <2>3. CASE ~Cached(i)
    BY <2>3 DEF Sound, Matches
  <2> QED BY <1>1, <2>1, <2>2, <2>3 DEF Noticed
<1>5. Fits(i, c)'
  BY DEF Sound, Fits
<1>6. ~Cached(i)' => c.entries = << >>
  BY DEF Sound, Cached
<1> QED BY <1>3, <1>4, <1>5, <1>6 DEF Sound

LEMMA NothingNoticed ==
  ASSUME StorageTyped, UNCHANGED storage PROVE Noticed
  BY TableShape DEF Noticed, storage

-----------------------------------------------------------------------------
(* The stack.                                                                *)

LEMMA PushShape ==
  ASSUME stack \in Seq(Frames), NEW f \in Frames, Push(f)
  PROVE  /\ stack' \in Seq(Frames)
         /\ Len(stack) \in Nat
         /\ Len(stack') = Len(stack) + 1
         /\ \A k \in 1 .. Len(stack) : stack'[k] = stack[k]
         /\ stack'[Len(stack) + 1] = f
         /\ \A k \in 1 .. Len(stack') : k = Len(stack) + 1 \/ k \in 1 .. Len(stack)
         /\ stack' # << >>
         /\ Top' = f
<1>1. stack' = Append(stack, f)
  BY DEF Push
<1>2. Len(stack) \in Nat
  OBVIOUS
<1> QED BY <1>1, <1>2, AppendProperties DEF Top

LEMMA BelowShape ==
  ASSUME stack \in Seq(Frames), stack # << >>
  PROVE  /\ Len(stack) \in Nat \ {0}
         /\ Below \in Seq(Frames)
         /\ Len(Below) = Len(stack) - 1
         /\ \A k \in 1 .. Len(stack) - 1 : Below[k] = stack[k]
         /\ Top = stack[Len(stack)] /\ Top \in Frames
<1>1. Len(stack) \in Nat \ {0}
  BY EmptySeq
<1>2. \A k \in 1 .. Len(stack) - 1 : stack[k] \in Frames
  BY <1>1, ElementOfSeq
<1>3. /\ Below \in Seq(Frames)
      /\ Len(Below) = IF 1 <= Len(stack) - 1 THEN Len(stack) - 1 - 1 + 1 ELSE 0
      /\ \A k \in 1 .. Len(stack) - 1 - 1 + 1 : Below[k] = stack[1 + k - 1]
  BY <1>1, <1>2, SubSeqProperties DEF Below
<1>4. Top \in Frames
  BY <1>1, ElementOfSeq DEF Top
<1>5. Len(Below) = Len(stack) - 1
  <2>1. PICK n \in Nat \ {0} : n = Len(stack)
    BY <1>1
  <2>2. Len(Below) = IF 1 <= n - 1 THEN n - 1 - 1 + 1 ELSE 0
    BY <1>3, <2>1
  <2>3. Len(Below) = n - 1
    BY <2>2
  <2> QED BY <2>1, <2>3
<1>6. \A k \in 1 .. Len(stack) - 1 : Below[k] = stack[k]
  BY <1>1, <1>3
<1> QED BY <1>1, <1>3, <1>4, <1>5, <1>6 DEF Top

(* A frame's instance is one of Ids, and its other fields go with its kind.  *)
LEMMA FrameShape ==
  ASSUME NEW f \in Frames
  PROVE  /\ f.id \in Ids
         /\ f.kind \in {"guest", "host"}
         /\ f.kind = "guest" => f = [kind |-> "guest", id |-> f.id, context |-> f.context]
                                 /\ f.context \in Contexts
         /\ f.kind = "host" => f = [kind |-> "host", id |-> f.id, slice |-> f.slice]
                                /\ f.slice \in Views \cup {None}
  BY DEF Frames

(* The frames that are left when the top one has gone: the same, but for the  *)
(* context of a caller that goes on running, which is live.                  *)
Left(s) ==
  /\ s \in Seq(Frames)
  /\ Len(s) = Len(stack) - 1
  /\ \A k \in 1 .. Len(s) : s[k].kind = stack[k].kind /\ s[k].id = stack[k].id
  /\ \A k \in 1 .. Len(s) : s[k].kind = "host" => s[k] = stack[k]
  /\ \A k \in 1 .. Len(s) : s[k].kind = "guest" => Sound(s[k].id, s[k].context)

LEMMA BelowIsLeft ==
  ASSUME StackSound, stack # << >> PROVE Left(Below)
<1>1. /\ Below \in Seq(Frames) /\ Len(stack) \in Nat \ {0}
      /\ Len(Below) = Len(stack) - 1
      /\ \A k \in 1 .. Len(stack) - 1 : Below[k] = stack[k]
  BY BelowShape DEF StackSound
<1>2. \A k \in 1 .. Len(Below) : k \in 1 .. Len(stack) /\ Below[k] = stack[k]
  BY <1>1
<1> QED BY <1>1, <1>2 DEF Left, StackSound

LEMMA ResumedIsLive ==
  ASSUME StorageTyped, StackSound, stack # << >>
  PROVE  /\ Left(Resumed(Below))
         /\ EndsInGuest(Resumed(Below)) =>
              LET f == Resumed(Below)[Len(stack) - 1] IN Live(f.id, f.context)
<1>1. CASE ~EndsInGuest(Below)
  BY <1>1, BelowIsLeft DEF Resumed
<1>2. CASE EndsInGuest(Below)
  <2> DEFINE n == Len(stack) - 1
             f == Below[n]
             g == [f EXCEPT !.context = Refreshed(f.id, @)]
  <2>1. n \in 1 .. Len(Below) /\ Len(Below) = n /\ Below # << >> /\ Below \in Seq(Frames)
    <3>1. Below \in Seq(Frames) /\ Len(Below) = n
      BY BelowShape DEF StackSound
    <3>2. Below # << >>
      BY <1>2 DEF EndsInGuest
    <3>3. Len(Below) \in Nat \ {0}
      BY <3>1, <3>2, EmptySeq
    <3> HIDE DEF n
    <3> QED BY <3>1, <3>2, <3>3
  <2>2. f \in Frames /\ f.kind = "guest"
    BY <1>2, <2>1, ElementOfSeq DEF EndsInGuest
  <2>3. Sound(f.id, f.context)
    BY <2>1, <2>2, BelowIsLeft DEF Left
  <2>4. Sound(f.id, Refreshed(f.id, f.context)) /\ Live(f.id, Refreshed(f.id, f.context))
    BY <2>2, <2>3, FrameShape, RefreshedIsLive
  <2>5. /\ g = [kind |-> "guest", id |-> f.id, context |-> Refreshed(f.id, f.context)]
        /\ g \in Frames
    <3>1. f.id \in Ids /\ f = [kind |-> "guest", id |-> f.id, context |-> f.context]
      BY <2>2, FrameShape
    <3>2. Refreshed(f.id, f.context) \in Contexts
      BY <2>4 DEF Sound, Fits
    <3>3. g = [kind |-> "guest", id |-> f.id, context |-> Refreshed(f.id, f.context)]
      BY <3>1
    <3> QED BY <3>1, <3>2, <3>3 DEF Frames
  <2>6. Resumed(Below) = [Below EXCEPT ![n] = g]
    BY <1>2, <2>1 DEF Resumed
  <2>7. /\ Resumed(Below) \in Seq(Frames)
        /\ Len(Resumed(Below)) = n
        /\ \A k \in 1 .. n : Resumed(Below)[k] = IF k = n THEN g ELSE Below[k]
    BY <2>1, <2>5, <2>6, ExceptSeq
  <2>8. Left(Resumed(Below))
    BY <2>1, <2>2, <2>4, <2>5, <2>7, BelowIsLeft DEF Left
  <2> QED BY <2>1, <2>4, <2>5, <2>7, <2>8
<1> QED BY <1>1, <1>2

(* With the storage as it was, a context is as good as it was.               *)
LEMMA SameStorage ==
  ASSUME UNCHANGED storage
  PROVE  /\ StorageTyped /\ borrowed' \in [Mems -> BOOLEAN] => StorageTyped'
         /\ \A i, c : Sound(i, c)' <=> Sound(i, c)
         /\ \A i, c : Live(i, c)' <=> Live(i, c)
<1>1. memory' = memory /\ table' = table /\ revision' = revision
  BY DEF storage
<1>2. \A i, c : Matches(i, c)' <=> Matches(i, c)
  BY <1>1 DEF Matches
<1>3. \A i, c : Sound(i, c)' <=> Sound(i, c)
  BY <1>1, <1>2 DEF Sound, Fits, Cached
<1>4. \A i, c : Live(i, c)' <=> Live(i, c)
  BY <1>1, <1>2 DEF Live, MemoryViews, TableView
<1> QED BY <1>1, <1>3, <1>4 DEF StorageTyped

LEMMA LeftIsSound ==
  ASSUME Left(stack'), UNCHANGED storage
  PROVE  StackSound'
<1>1. \A k \in 1 .. Len(stack') : stack'[k].kind = "guest" => Sound(stack'[k].id, stack'[k].context)
  BY DEF Left
<1>2. \A k \in 1 .. Len(stack') : stack'[k].kind = "guest" => Sound(stack[k].id, stack[k].context)'
  BY <1>1, SameStorage
<1> QED BY <1>2 DEF StackSound, Left

(* A new frame that holds no slice, of an instance that passed the test.     *)
LEMMA PushedBorrows ==
  ASSUME BorrowsSound, stack \in Seq(Frames), NEW f \in Frames, ~Borrows(f), Push(f),
         Preflight(f.id), UNCHANGED <<memory, borrowed>>
  PROVE  BorrowsSound'
<1>1. /\ Len(stack) \in Nat
      /\ Len(stack') = Len(stack) + 1
      /\ \A k \in 1 .. Len(stack) : stack'[k] = stack[k]
      /\ stack'[Len(stack) + 1] = f
  BY PushShape
<1>2. \A k \in 1 .. Len(stack') : Borrows(stack'[k]) => k \in 1 .. Len(stack) /\ stack'[k] = stack[k]
  BY <1>1
<1>3. Guarded'
  <2> SUFFICES ASSUME NEW k \in 1 .. Len(stack'), NEW j \in 1 .. Len(stack'), k < j, Borrows(stack'[k]),
                      NEW n \in DOMAIN Memories[stack'[j].id]
               PROVE  Memories[stack'[j].id][n] # FirstMemory(stack'[k].id)
    BY DEF Guarded, Borrows, FirstMemory
  <2>1. k \in 1 .. Len(stack) /\ stack'[k] = stack[k] /\ Borrows(stack[k])
    BY <1>2
  <2>2. CASE j \in 1 .. Len(stack)
    BY <1>1, <2>1, <2>2 DEF BorrowsSound, Guarded
  <2>3. CASE j = Len(stack) + 1
    <3>1. stack'[j].id = f.id /\ f.id \in Ids
      BY <1>1, <2>3, FrameShape
    <3>2. Memories[f.id][n] \in Mems /\ ~borrowed[Memories[f.id][n]]
      BY <3>1, MemoryShape DEF Preflight
    <3> QED BY <2>1, <3>1, <3>2 DEF BorrowsSound, Flagged
  <2> QED BY <1>1, <2>2, <2>3
<1>4. Flagged'
  <2> SUFFICES ASSUME NEW m \in Mems
               PROVE  borrowed[m] <=> \E k \in 1 .. Len(stack') :
                                        Borrows(stack'[k]) /\ FirstMemory(stack'[k].id) = m
    BY DEF Flagged, Borrows, FirstMemory
  <2>1. 1 .. Len(stack) \subseteq 1 .. Len(stack')
    BY <1>1
  <2> QED BY <1>1, <1>2, <2>1 DEF BorrowsSound, Flagged
<1>5. SlicesHold'
  BY <1>2 DEF BorrowsSound, SlicesHold, Borrows, FirstMemory
<1> QED BY <1>3, <1>4, <1>5 DEF BorrowsSound

(* The top frame goes, and its slice with it.                                *)
LEMMA PoppedBorrows ==
  ASSUME BorrowsSound, stack \in Seq(Frames), stack # << >>, Left(stack'),
         borrowed \in [Mems -> BOOLEAN], UNCHANGED memory,
         borrowed' = IF Borrows(Top) THEN [borrowed EXCEPT ![FirstMemory(Top.id)] = FALSE] ELSE borrowed
  PROVE  BorrowsSound' /\ borrowed' \in [Mems -> BOOLEAN]
<1>1. /\ Len(stack) \in Nat \ {0}
      /\ Len(stack') = Len(stack) - 1
      /\ Top = stack[Len(stack)] /\ Top \in Frames
  BY BelowShape DEF Left
<1>2. \A k \in 1 .. Len(stack') :
        /\ k \in 1 .. Len(stack) /\ k < Len(stack)
        /\ stack'[k].id = stack[k].id
        /\ Borrows(stack'[k]) \/ Borrows(stack[k]) => stack'[k] = stack[k]
  <2> SUFFICES ASSUME NEW k \in 1 .. Len(stack')
               PROVE  /\ k \in 1 .. Len(stack) /\ k < Len(stack)
                      /\ stack'[k].id = stack[k].id
                      /\ Borrows(stack'[k]) \/ Borrows(stack[k]) => stack'[k] = stack[k]
    OBVIOUS
  <2>1. stack'[k].kind = stack[k].kind /\ stack'[k].id = stack[k].id
    BY DEF Left
  <2>2. stack'[k].kind = "host" => stack'[k] = stack[k]
    BY DEF Left
  <2>3. k \in 1 .. Len(stack) /\ k < Len(stack)
    BY <1>1
  <2> QED BY <2>1, <2>2, <2>3 DEF Borrows
<1>3. Guarded'
  <2> SUFFICES ASSUME NEW k \in 1 .. Len(stack'), NEW j \in 1 .. Len(stack'), k < j, Borrows(stack'[k]),
                      NEW n \in DOMAIN Memories[stack'[j].id]
               PROVE  Memories[stack'[j].id][n] # FirstMemory(stack'[k].id)
    BY DEF Guarded, Borrows, FirstMemory
  <2>1. /\ k \in 1 .. Len(stack) /\ j \in 1 .. Len(stack)
        /\ stack'[k] = stack[k] /\ stack'[j].id = stack[j].id
        /\ Borrows(stack[k]) /\ n \in DOMAIN Memories[stack[j].id]
    BY <1>2
  <2>2. Memories[stack[j].id][n] # FirstMemory(stack[k].id)
    BY <2>1 DEF BorrowsSound, Guarded
  <2> QED BY <2>1, <2>2
<1>4. SlicesHold'
  <2> SUFFICES ASSUME NEW k \in 1 .. Len(stack'), Borrows(stack'[k])
               PROVE  Memories[stack'[k].id] # << >> /\ stack'[k].slice = memory[FirstMemory(stack'[k].id)]
    BY DEF SlicesHold, Borrows, FirstMemory
  <2> QED BY <1>2 DEF BorrowsSound, SlicesHold
<1>5. Borrows(Top) => /\ FirstMemory(Top.id) \in Mems
                      /\ \A k \in 1 .. Len(stack') :
                           Borrows(stack[k]) => FirstMemory(stack[k].id) # FirstMemory(Top.id)
  <2> SUFFICES ASSUME Borrows(Top)
               PROVE  /\ FirstMemory(Top.id) \in Mems
                      /\ \A k \in 1 .. Len(stack') :
                           Borrows(stack[k]) => FirstMemory(stack[k].id) # FirstMemory(Top.id)
    OBVIOUS
  <2>1. Memories[Top.id] # << >> /\ Top.id \in Ids
    BY <1>1, FrameShape DEF BorrowsSound, SlicesHold
  <2>2. 1 \in DOMAIN Memories[Top.id] /\ FirstMemory(Top.id) \in Mems
    BY <2>1, FirstMemoryShape
  <2>3. ASSUME NEW k \in 1 .. Len(stack'), Borrows(stack[k])
        PROVE  FirstMemory(stack[k].id) # FirstMemory(Top.id)
    <3>1. k \in 1 .. Len(stack) /\ k < Len(stack) /\ Len(stack) \in 1 .. Len(stack)
      BY <1>1, <1>2
    <3>2. Memories[stack[Len(stack)].id][1] # FirstMemory(stack[k].id)
      BY <1>1, <2>2, <2>3, <3>1 DEF BorrowsSound, Guarded
    <3> QED BY <1>1, <3>2 DEF FirstMemory
  <2> QED BY <2>2, <2>3
<1>6. Flagged'
  <2> SUFFICES ASSUME NEW m \in Mems
               PROVE  borrowed'[m] <=> \E k \in 1 .. Len(stack') :
                                         Borrows(stack'[k]) /\ FirstMemory(stack'[k].id) = m
    BY DEF Flagged, Borrows, FirstMemory
  <2>1. borrowed[m] <=> \E k \in 1 .. Len(stack) : Borrows(stack[k]) /\ FirstMemory(stack[k].id) = m
    BY DEF BorrowsSound, Flagged
  <2>2. \A k \in 1 .. Len(stack) : k = Len(stack) \/ k \in 1 .. Len(stack')
    BY <1>1
  <2>3. CASE Borrows(Top) /\ FirstMemory(Top.id) = m
    <3>1. ~borrowed'[m]
      BY <2>3
    <3>2. ASSUME NEW k \in 1 .. Len(stack'), Borrows(stack'[k]), FirstMemory(stack'[k].id) = m
          PROVE  FALSE
      <4>1. Borrows(stack[k]) /\ FirstMemory(stack[k].id) = m
        BY <1>2, <3>2
      <4> QED BY <1>5, <2>3, <4>1
    <3> QED BY <3>1, <3>2
  <2>4. CASE ~(Borrows(Top) /\ FirstMemory(Top.id) = m)
    <3>1. borrowed'[m] = borrowed[m]
      BY <2>4
    <3>2. (\E k \in 1 .. Len(stack) : Borrows(stack[k]) /\ FirstMemory(stack[k].id) = m)
            <=> \E k \in 1 .. Len(stack') : Borrows(stack'[k]) /\ FirstMemory(stack'[k].id) = m
      <4>1. ASSUME NEW k \in 1 .. Len(stack), Borrows(stack[k]), FirstMemory(stack[k].id) = m
            PROVE  k \in 1 .. Len(stack') /\ Borrows(stack'[k]) /\ FirstMemory(stack'[k].id) = m
        <5>1. k \in 1 .. Len(stack')
          BY <1>1, <2>2, <2>4, <4>1
        <5> QED BY <1>2, <4>1, <5>1
      <4>2. ASSUME NEW k \in 1 .. Len(stack'), Borrows(stack'[k]), FirstMemory(stack'[k].id) = m
            PROVE  k \in 1 .. Len(stack) /\ Borrows(stack[k]) /\ FirstMemory(stack[k].id) = m
        BY <1>2, <4>2
      <4> QED BY <4>1, <4>2
    <3> QED BY <2>1, <3>1, <3>2
  <2> QED BY <2>3, <2>4
<1>7. borrowed' \in [Mems -> BOOLEAN]
  OBVIOUS
<1> QED BY <1>3, <1>4, <1>6, <1>7 DEF BorrowsSound

-----------------------------------------------------------------------------
(* One lemma per action.                                                     *)

LEMMA InitEstablishes == Init => IInv
<1> SUFFICES ASSUME Init PROVE IInv
  OBVIOUS
<1>1. StorageTyped
  <2>1. memory \in [Mems -> [base : 0 .. MaxPages, len : 0 .. MaxPages]]
    BY DEF Init
  <2>2. ASSUME NEW t \in Tables
        PROVE  /\ table[t] \in [base : 0 .. MaxElements, elements : Seq(Elements)]
               /\ Len(table[t].elements) <= MaxElements
    <3> DEFINE contents == UNION {[1 .. n -> Elements] : n \in 0 .. MaxElements}
    <3>1. table \in [Tables -> {[base |-> Len(s), elements |-> s] : s \in contents}]
      BY DEF Init
    <3>2. PICK s \in contents : table[t] = [base |-> Len(s), elements |-> s]
      <4> HIDE DEF contents
      <4>1. table[t] \in {[base |-> Len(s), elements |-> s] : s \in contents}
        BY <3>1
      <4> QED BY <4>1
    <3>3. PICK n \in 0 .. MaxElements : s \in [1 .. n -> Elements]
      OBVIOUS
    <3>4. n \in Nat /\ n <= MaxElements
      BY <3>3, BoundsAssumption
    <3>5. s \in Seq(Elements) /\ Len(s) = n
      BY <3>3, <3>4, IsSequence
    <3>6. n \in 0 .. MaxElements
      BY <3>3
    <3> QED BY <3>2, <3>4, <3>5, <3>6
  <2>3. table \in [Tables -> [base : 0 .. MaxElements, elements : Seq(Elements)]]
    BY <2>2 DEF Init
  <2>4. revision \in [Tables -> 0 .. MaxRevision] /\ borrowed \in [Mems -> BOOLEAN]
    BY BoundsAssumption DEF Init
  <2> QED BY <2>1, <2>2, <2>3, <2>4 DEF StorageTyped
<1>2. stack = << >> /\ Len(stack) = 0 /\ stack \in Seq(Frames)
  BY EmptySeq DEF Init
<1>3. KeptSound
  BY DEF Init, KeptSound
<1>4. StackSound /\ RunningLive /\ BorrowsSound
  BY <1>2 DEF Init, StackSound, RunningLive, TopIs, BorrowsSound, Guarded, Flagged, SlicesHold
<1> QED BY <1>1, <1>3, <1>4 DEF Init, IInv

(* A call: a frame with a sound context and, if it runs, a live one.         *)
LEMMA EnterGuestStep ==
  ASSUME IInv, NEW i \in Ids, EnterGuest(i) PROVE IInv'
<1>1. PICK c : c = IF cache[i] = None THEN Fresh(i) ELSE Refreshed(i, cache[i])
  OBVIOUS
<1>2. Sound(i, c) /\ Live(i, c)
  BY <1>1, FreshIsLive, RefreshedIsLive DEF IInv, KeptSound
<1>3. PICK f : f = [kind |-> "guest", id |-> i, context |-> c]
  OBVIOUS
<1>4. f \in Frames /\ f.kind = "guest" /\ f.id = i /\ f.context = c
  BY <1>2, <1>3 DEF Sound, Fits, Frames
<1>5. /\ Push(f) /\ Preflight(i)
      /\ cache' = [cache EXCEPT ![i] = None]
      /\ UNCHANGED <<storage, borrowed, unwinding>>
  BY <1>1, <1>3 DEF EnterGuest
<1>6. StorageTyped' /\ Sound(i, c)' /\ Live(i, c)'
  BY <1>2, <1>5, SameStorage DEF IInv, StorageTyped
<1>7. KeptSound'
  BY <1>5, SameStorage DEF IInv, KeptSound
<1>8. StackSound'
  BY <1>4, <1>5, <1>6, PushShape, SameStorage DEF IInv, StackSound
<1>9. RunningLive'
  <2>1. Top' = f
    BY <1>4, <1>5, PushShape DEF IInv, StackSound
  <2> QED BY <1>4, <1>6, <2>1 DEF RunningLive
<1>10. BorrowsSound'
  BY <1>4, <1>5, PushedBorrows DEF IInv, StackSound, storage, Borrows
<1> QED BY <1>5, <1>6, <1>7, <1>8, <1>9, <1>10 DEF IInv

LEMMA EnterHostStep ==
  ASSUME IInv, NEW i \in Ids, EnterHost(i) PROVE IInv'
<1> DEFINE f == [kind |-> "host", id |-> i, slice |-> None]
<1>1. f \in Frames /\ f.kind = "host" /\ f.id = i /\ ~Borrows(f)
  BY DEF Frames, Borrows
<1>2. Push(f) /\ Preflight(i) /\ UNCHANGED <<storage, borrowed, cache, unwinding>>
  BY DEF EnterHost
<1> HIDE DEF f
<1>3. StorageTyped' /\ KeptSound'
  BY <1>2, SameStorage DEF IInv, StorageTyped, KeptSound
<1>4. StackSound'
  BY <1>1, <1>2, PushShape, SameStorage DEF IInv, StackSound
<1>5. RunningLive'
  BY <1>1, <1>2, PushShape DEF IInv, StackSound, RunningLive, TopIs
<1>6. BorrowsSound'
  BY <1>1, <1>2, PushedBorrows DEF IInv, StackSound, storage
<1> QED BY <1>2, <1>3, <1>4, <1>5, <1>6 DEF IInv

(* The caller below a frame that returns or fails.                           *)
LEMMA PopStep ==
  ASSUME IInv, stack # << >>, Left(stack'), UNCHANGED storage,
         borrowed' = IF Borrows(Top) THEN [borrowed EXCEPT ![FirstMemory(Top.id)] = FALSE] ELSE borrowed,
         cache' = cache \/ (Top.kind = "guest" /\ KeepContext),
         unwinding' \in BOOLEAN,
         RunningLive'
  PROVE  IInv'
<1>1. BorrowsSound' /\ borrowed' \in [Mems -> BOOLEAN]
  BY PoppedBorrows DEF IInv, StackSound, StorageTyped, storage
<1>2. StorageTyped'
  BY <1>1, SameStorage DEF IInv
<1>3. StackSound'
  BY LeftIsSound
<1>4. KeptSound'
  <2>1. Top.kind = "guest" => Top.id \in Ids /\ Sound(Top.id, Top.context) /\ Top.context \in Contexts
    BY BelowShape, FrameShape DEF IInv, StackSound, Sound, Fits
  <2>2. CASE cache' = cache
    BY <2>2, SameStorage DEF IInv, KeptSound
  <2>3. CASE Top.kind = "guest" /\ KeepContext
    <3>1. cache' = [cache EXCEPT ![Top.id] = IF cache[Top.id] = None THEN Top.context ELSE cache[Top.id]]
      BY <2>3 DEF KeepContext
    <3> QED BY <2>1, <2>3, <3>1, SameStorage DEF IInv, KeptSound
  <2> QED BY <2>2, <2>3
<1> QED BY <1>1, <1>2, <1>3, <1>4 DEF IInv

LEMMA ReturnsStep ==
  ASSUME IInv, GuestReturns \/ HostReturns PROVE IInv'
<1>1. /\ stack # << >> /\ stack' = Resumed(Below)
      /\ UNCHANGED <<storage, unwinding>>
  BY DEF GuestReturns, HostReturns, TopIs
<1>2. borrowed' = IF Borrows(Top) THEN [borrowed EXCEPT ![FirstMemory(Top.id)] = FALSE] ELSE borrowed
  BY DEF GuestReturns, HostReturns, TopIs, EndBorrow, Borrows
<1>3. cache' = cache \/ (Top.kind = "guest" /\ KeepContext)
  BY DEF GuestReturns, HostReturns, TopIs
<1>4. /\ Left(stack')
      /\ EndsInGuest(stack') =>
           Live(stack'[Len(stack) - 1].id, stack'[Len(stack) - 1].context)
  BY <1>1, ResumedIsLive DEF IInv
<1>5. RunningLive'
  <2> SUFFICES ASSUME TopIs("guest")' PROVE Live(Top.id, Top.context)'
    BY DEF RunningLive
  <2>1. Len(stack') = Len(stack) - 1
    BY <1>4 DEF Left
  <2>2. Top' = stack'[Len(stack) - 1] /\ EndsInGuest(stack')
    BY <2>1 DEF Top, TopIs, EndsInGuest
  <2>3. Live(Top'.id, Top'.context)
    BY <1>4, <2>2
  <2> QED BY <1>1, <2>3, SameStorage
<1> QED BY <1>1, <1>2, <1>3, <1>4, <1>5, PopStep DEF IInv

(* An error leaves compiled code below to be passed through, or host code.   *)
LEMMA FailsStep ==
  ASSUME IInv, GuestFails \/ HostFails PROVE IInv'
<1>1. /\ stack # << >> /\ stack' = Below
      /\ unwinding' = EndsInGuest(Below)
      /\ UNCHANGED storage
  BY DEF GuestFails, HostFails, TopIs
<1>2. borrowed' = IF Borrows(Top) THEN [borrowed EXCEPT ![FirstMemory(Top.id)] = FALSE] ELSE borrowed
  BY DEF GuestFails, HostFails, TopIs, EndBorrow, Borrows
<1>3. cache' = cache \/ (Top.kind = "guest" /\ KeepContext)
  BY DEF GuestFails, HostFails, TopIs
<1>4. Left(stack')
  BY <1>1, BelowIsLeft DEF IInv
<1>5. RunningLive'
  BY <1>1 DEF RunningLive, TopIs, Top, EndsInGuest
<1>6. unwinding' \in BOOLEAN
  BY <1>1 DEF EndsInGuest
<1> QED BY <1>1, <1>2, <1>3, <1>4, <1>5, <1>6, PopStep

(* A callback takes its slice; nobody below it has one of the memory.        *)
LEMMA BorrowStep ==
  ASSUME IInv, Borrow PROVE IInv'
<1> DEFINE m0 == FirstMemory(Top.id)
           top == Len(stack)
<1>1. /\ stack # << >> /\ Top.kind = "host" /\ Memories[Top.id] # << >>
      /\ borrowed' = [borrowed EXCEPT ![m0] = TRUE]
      /\ stack' = [stack EXCEPT ![top].slice = memory[m0]]
      /\ UNCHANGED <<storage, cache, unwinding>>
  BY DEF Borrow, TopIs
<1>2. top \in Nat \ {0} /\ Top = stack[top] /\ Top \in Frames /\ Top.id \in Ids
  BY <1>1, BelowShape, FrameShape DEF IInv, StackSound
<1>3. m0 \in Mems
  BY <1>1, <1>2, FirstMemoryShape
<1>4. PICK f : f = [kind |-> "host", id |-> Top.id, slice |-> memory[m0]]
  OBVIOUS
<1>5. /\ f \in Frames /\ f.kind = "host" /\ f.id = Top.id
      /\ f.slice = memory[m0] /\ Borrows(f)
  <2>1. memory[m0] \in Views
    BY <1>3, BoundsAssumption DEF IInv, StorageTyped, Views
  <2>2. memory[m0] # None
    BY <2>1, NoneAssumption
  <2> QED BY <1>2, <1>4, <2>1, <2>2 DEF Frames, Borrows
<1>6. stack' = [stack EXCEPT ![top] = f]
  <2>1. Top = [kind |-> "host", id |-> Top.id, slice |-> Top.slice]
    BY <1>1, <1>2, FrameShape
  <2>2. [Top EXCEPT !.slice = memory[m0]] = f
    BY <1>4, <2>1
  <2> QED BY <1>1, <1>2, <2>2
<1>7. /\ stack' \in Seq(Frames)
      /\ Len(stack') = top
      /\ \A k \in 1 .. top : stack'[k] = IF k = top THEN f ELSE stack[k]
  BY <1>2, <1>5, <1>6, ExceptSeq DEF IInv, StackSound
<1> HIDE DEF m0, top
<1>8. StorageTyped' /\ KeptSound'
  BY <1>1, SameStorage DEF IInv, StorageTyped, KeptSound
<1>9. StackSound'
  BY <1>1, <1>5, <1>7, SameStorage DEF IInv, StackSound, top
<1>10. RunningLive'
  BY <1>2, <1>5, <1>7 DEF RunningLive, TopIs, Top
<1>11. Guarded'
  <2> SUFFICES ASSUME NEW k \in 1 .. top, NEW j \in 1 .. top, k < j, Borrows(stack'[k]),
                      NEW n \in DOMAIN Memories[stack'[j].id]
               PROVE  Memories[stack'[j].id][n] # FirstMemory(stack'[k].id)
    BY <1>7 DEF Guarded, Borrows, FirstMemory
  <2>1. stack'[k] = stack[k] /\ stack'[j].id = stack[j].id
    BY <1>2, <1>5, <1>7
  <2> QED BY <2>1 DEF IInv, BorrowsSound, Guarded, top
<1>12. Flagged'
  <2> SUFFICES ASSUME NEW m \in Mems
               PROVE  borrowed'[m] <=> \E k \in 1 .. top :
                                         Borrows(stack'[k]) /\ FirstMemory(stack'[k].id) = m
    BY <1>7 DEF Flagged, Borrows, FirstMemory
  <2>1. CASE m = m0
    <3>1. borrowed'[m]
      BY <1>1, <2>1 DEF IInv, StorageTyped
    <3>2. Borrows(stack'[top]) /\ FirstMemory(stack'[top].id) = m
      BY <1>2, <1>5, <1>7, <2>1 DEF m0
    <3> QED BY <1>2, <3>1, <3>2
  <2>2. CASE m # m0
    <3>1. borrowed'[m] = borrowed[m]
      BY <1>1, <2>2 DEF IInv, StorageTyped
    <3>2. borrowed[m] <=> \E k \in 1 .. top : Borrows(stack[k]) /\ FirstMemory(stack[k].id) = m
      BY DEF IInv, BorrowsSound, Flagged, top
    <3>3. ASSUME NEW k \in 1 .. top
          PROVE  Borrows(stack[k]) /\ FirstMemory(stack[k].id) = m
                   <=> Borrows(stack'[k]) /\ FirstMemory(stack'[k].id) = m
      BY <1>2, <1>5, <1>7, <2>2 DEF m0
    <3> QED BY <3>1, <3>2, <3>3
  <2> QED BY <2>1, <2>2
<1>13. SlicesHold'
  <2> SUFFICES ASSUME NEW k \in 1 .. top, Borrows(stack'[k])
               PROVE  /\ Memories[stack'[k].id] # << >>
                      /\ stack'[k].slice = memory[FirstMemory(stack'[k].id)]
    BY <1>1, <1>7 DEF SlicesHold, Borrows, FirstMemory, storage
  <2>1. CASE k = top
    BY <1>1, <1>5, <1>7, <2>1 DEF m0
  <2>2. CASE k # top
    BY <1>7, <2>2 DEF IInv, BorrowsSound, SlicesHold, top
  <2> QED BY <2>1, <2>2
<1> QED BY <1>1, <1>8, <1>9, <1>10, <1>11, <1>12, <1>13 DEF IInv, BorrowsSound

(* Where no frame changes but the context of the one that runs, and the slices *)
(* that are held keep their memories, the borrows are as they were.          *)
LEMMA SameBorrows ==
  ASSUME BorrowsSound, stack \in Seq(Frames), Len(stack') = Len(stack),
         \A k \in 1 .. Len(stack) :
           stack'[k] = stack[k]
             \/ (stack'[k].kind = "guest" /\ stack[k].kind = "guest" /\ stack'[k].id = stack[k].id),
         \A k \in 1 .. Len(stack) : Borrows(stack[k]) =>
           memory'[FirstMemory(stack[k].id)] = memory[FirstMemory(stack[k].id)],
         UNCHANGED borrowed
  PROVE  BorrowsSound'
<1>1. \A k \in 1 .. Len(stack) :
        /\ stack'[k].id = stack[k].id
        /\ Borrows(stack'[k]) \/ Borrows(stack[k]) => stack'[k] = stack[k]
  BY DEF Borrows
<1>2. Guarded'
  <2> SUFFICES ASSUME NEW k \in 1 .. Len(stack), NEW j \in 1 .. Len(stack), k < j, Borrows(stack'[k]),
                      NEW n \in DOMAIN Memories[stack'[j].id]
               PROVE  Memories[stack'[j].id][n] # FirstMemory(stack'[k].id)
    BY DEF Guarded, Borrows, FirstMemory
  <2>1. /\ stack'[k].id = stack[k].id
        /\ stack'[j].id = stack[j].id
    BY <1>1
  <2>2. Borrows(stack[k])
    BY <1>1
  <2>3. n \in DOMAIN Memories[stack[j].id]
    BY <2>1
  <2>4. Memories[stack[j].id][n] # FirstMemory(stack[k].id)
    BY <2>2, <2>3 DEF BorrowsSound, Guarded
  <2> QED BY <2>1, <2>4 DEF FirstMemory
<1>3. Flagged'
  <2> SUFFICES ASSUME NEW m \in Mems
               PROVE  borrowed[m] <=> \E k \in 1 .. Len(stack) :
                                        Borrows(stack'[k]) /\ FirstMemory(stack'[k].id) = m
    BY DEF Flagged, Borrows, FirstMemory
  <2>1. borrowed[m] <=> \E k \in 1 .. Len(stack) : Borrows(stack[k]) /\ FirstMemory(stack[k].id) = m
    BY DEF BorrowsSound, Flagged
  <2>2. ASSUME NEW k \in 1 .. Len(stack)
        PROVE  Borrows(stack[k]) /\ FirstMemory(stack[k].id) = m
                 <=> Borrows(stack'[k]) /\ FirstMemory(stack'[k].id) = m
    BY <1>1
  <2> QED BY <2>1, <2>2
<1>4. SlicesHold'
  <2> SUFFICES ASSUME NEW k \in 1 .. Len(stack), Borrows(stack'[k])
               PROVE  /\ Memories[stack'[k].id] # << >>
                      /\ stack'[k].slice = memory'[FirstMemory(stack'[k].id)]
    BY DEF SlicesHold, Borrows, FirstMemory
  <2>1. stack'[k] = stack[k] /\ Borrows(stack[k])
    BY <1>1
  <2> QED BY <2>1 DEF BorrowsSound, SlicesHold
<1> QED BY <1>2, <1>3, <1>4 DEF BorrowsSound

(* The frame that runs.                                                      *)
LEMMA RunningShape ==
  ASSUME IInv, NEW i \in Ids, GuestRuns(i)
  PROVE  /\ Len(stack) \in Nat \ {0} /\ Len(stack) \in 1 .. Len(stack)
         /\ Top = stack[Len(stack)]
         /\ Top = [kind |-> "guest", id |-> i, context |-> Top.context]
         /\ Sound(i, Top.context) /\ Live(i, Top.context)
<1>1. Top.kind = "guest" /\ Top.id = i /\ stack # << >> /\ ~unwinding
  BY DEF GuestRuns, TopIs
<1>2. Len(stack) \in Nat \ {0} /\ Top = stack[Len(stack)] /\ Top \in Frames
  BY <1>1, BelowShape DEF IInv, StackSound
<1>3. Sound(i, Top.context) /\ Live(i, Top.context)
  BY <1>1, <1>2 DEF IInv, StackSound, RunningLive, TopIs
<1> QED BY <1>1, <1>2, <1>3, FrameShape

(* The running frame gets another context, sound and live after the step; the *)
(* other contexts do not miss what changes.                                  *)
LEMMA RunningStep ==
  ASSUME IInv, StorageTyped', Noticed, UNCHANGED <<cache, unwinding, borrowed>>,
         NEW i \in Ids, GuestRuns(i), NEW c, Sound(i, c)', Live(i, c)',
         stack' = [stack EXCEPT ![Len(stack)] = [kind |-> "guest", id |-> i, context |-> c]],
         \A k \in 1 .. Len(stack) : Borrows(stack[k]) =>
           memory'[FirstMemory(stack[k].id)] = memory[FirstMemory(stack[k].id)]
  PROVE  IInv'
<1>1. PICK f : f = [kind |-> "guest", id |-> i, context |-> c]
  OBVIOUS
<1>2. f \in Frames /\ f.kind = "guest" /\ f.id = i /\ f.context = c
  BY <1>1 DEF Frames, Sound, Fits
<1>3. /\ stack' \in Seq(Frames)
      /\ Len(stack') = Len(stack)
      /\ \A k \in 1 .. Len(stack) : stack'[k] = IF k = Len(stack) THEN f ELSE stack[k]
  BY <1>1, <1>2, RunningShape, ExceptSeq DEF IInv, StackSound
<1>4. StackSound'
  <2> SUFFICES ASSUME NEW k \in 1 .. Len(stack), stack'[k].kind = "guest"
               PROVE  Sound(stack[k].id, stack[k].context)'
    BY <1>3 DEF StackSound
  <2>1. CASE k = Len(stack)
    BY <1>2, <1>3, <2>1
  <2>2. CASE k # Len(stack)
    <3>1. stack'[k] = stack[k] /\ stack[k] \in Frames /\ Sound(stack[k].id, stack[k].context)
      BY <1>3, <2>2, ElementOfSeq DEF IInv, StackSound
    <3>2. stack[k].id \in Ids
      BY <3>1, FrameShape
    <3>3. PICK j, d : j = stack[k].id /\ d = stack[k].context
      OBVIOUS
    <3>4. Sound(j, d)'
      BY <3>1, <3>2, <3>3, SoundnessStays DEF IInv
    <3> QED BY <3>1, <3>3, <3>4
  <2> QED BY <2>1, <2>2
<1>5. KeptSound'
  <2>1. \A j \in Ids : \A d : Sound(j, d) => Sound(j, d)'
    BY SoundnessStays DEF IInv
  <2> QED BY <2>1 DEF IInv, KeptSound
<1>6. RunningLive'
  <2>1. Top' = f
    BY <1>3, RunningShape DEF Top
  <2> QED BY <1>2, <2>1 DEF RunningLive
<1>7. BorrowsSound'
  <2>1. \A k \in 1 .. Len(stack) :
           stack'[k] = stack[k]
             \/ (stack'[k].kind = "guest" /\ stack[k].kind = "guest" /\ stack'[k].id = stack[k].id)
    BY <1>2, <1>3, RunningShape
  <2> QED BY <1>3, <2>1, SameBorrows DEF IInv, StackSound
<1> QED BY <1>4, <1>5, <1>6, <1>7 DEF IInv

(* A memory that grows under running code is not held by a callback below.   *)
LEMMA MemoryGrowStep ==
  ASSUME IInv, NEW i \in Ids, NEW k \in DOMAIN Memories[i], NEW n \in 1 .. MaxPages,
         MemoryGrow(i, k, n)
  PROVE  IInv'
<1> DEFINE m == Memories[i][k]
<1>1. m \in Mems /\ k \in 1 .. Len(Memories[i])
  BY MemoryShape
<1>2. PICK b \in Grown(memory[m].base, memory[m].len, n) :
        memory' = [memory EXCEPT ![m] = [base |-> b, len |-> n]]
  BY DEF MemoryGrow
<1>3. /\ GuestRuns(i)
      /\ stack' = [stack EXCEPT ![Len(stack)].context.memories = MemoryViews(i)']
      /\ UNCHANGED <<table, revision, borrowed, cache, unwinding>>
      /\ n \in memory[m].len + 1 .. MaxPages
  BY DEF MemoryGrow
<1>4. StorageTyped'
  <2>1. b \in 0 .. MaxPages /\ n \in 0 .. MaxPages
    BY <1>1, <1>2, <1>3, BoundsAssumption DEF Grown, IInv, StorageTyped
  <2> QED BY <1>1, <1>2, <1>3, <2>1 DEF IInv, StorageTyped
<1>5. Noticed
  BY <1>3, NothingNoticed, TableShape DEF IInv, Noticed
<1>6. PICK views : views = MemoryViews(i)'
  OBVIOUS
<1>7. PICK c : c = [Top.context EXCEPT !.memories = views]
  OBVIOUS
<1>8. Sound(i, Top.context) /\ Live(i, Top.context)
  BY <1>3, RunningShape
<1>9. views \in Seq(Views) /\ Len(views) = Len(Memories[i])
  <2>1. \A j \in 1 .. Len(Memories[i]) : memory'[Memories[i][j]] \in Views
    BY <1>4, BoundsAssumption, MemoryShape DEF StorageTyped, Views
  <2>2. views \in [1 .. Len(Memories[i]) -> Views]
    BY <1>6, <2>1, MemoryShape DEF MemoryViews
  <2> QED BY <2>2, MemoryShape, IsSequence
<1>10. /\ c \in Contexts
       /\ c.memories = views /\ c.table = Top.context.table
       /\ c.entries = Top.context.entries /\ c.revision = Top.context.revision
  BY <1>7, <1>8, <1>9 DEF Sound, Fits, Contexts
<1>11. Sound(i, c)
  BY <1>8, <1>9, <1>10 DEF Sound, Fits, Matches
<1>12. Sound(i, c)'
  BY <1>4, <1>5, <1>11, SoundnessStays DEF IInv
<1>13. Live(i, c)'
  BY <1>3, <1>6, <1>8, <1>10 DEF Live, Matches, TableView
<1>14. stack' = [stack EXCEPT ![Len(stack)] = [kind |-> "guest", id |-> i, context |-> c]]
  <2>1. [Top EXCEPT !.context.memories = views] = [kind |-> "guest", id |-> i, context |-> c]
    BY <1>3, <1>7, RunningShape
  <2> QED BY <1>3, <1>6, <2>1, RunningShape
<1>15. ASSUME NEW j \in 1 .. Len(stack), Borrows(stack[j])
       PROVE  memory'[FirstMemory(stack[j].id)] = memory[FirstMemory(stack[j].id)]
  <2>1. j < Len(stack) /\ stack[Len(stack)].id = i
    BY <1>3, <1>15, RunningShape DEF Borrows
  <2>2. m # FirstMemory(stack[j].id)
    BY <1>3, <1>15, <2>1, RunningShape DEF IInv, BorrowsSound, Guarded
  <2> QED BY <1>2, <2>2
<1> QED BY <1>3, <1>4, <1>5, <1>12, <1>13, <1>14, <1>15, RunningStep

(* The tables change and the stack does not.                                 *)
LEMMA TablesStep ==
  ASSUME IInv, StorageTyped', Noticed, RunningLive',
         UNCHANGED <<memory, borrowed, cache, stack, unwinding>>
  PROVE  IInv'
<1>1. \A j \in Ids : \A c : Sound(j, c) => Sound(j, c)'
  BY SoundnessStays DEF IInv
<1>2. KeptSound'
  BY <1>1 DEF IInv, KeptSound
<1>3. StackSound'
  <2>1. \A k \in 1 .. Len(stack) : stack[k].id \in Ids
    BY ElementOfSeq, FrameShape DEF IInv, StackSound
  <2> QED BY <1>1, <2>1 DEF IInv, StackSound
<1>4. BorrowsSound'
  BY SameBorrows DEF IInv, StackSound
<1> QED BY <1>2, <1>3, <1>4 DEF IInv

(* A write leaves the table's block and length, and the other tables, alone. *)
LEMMA WrittenShape ==
  ASSUME StorageTyped, NEW t \in Tables, NEW k \in DOMAIN table[t].elements, NEW e \in Elements,
         Written(t, k, e), UNCHANGED <<memory, borrowed>>,
         revision' \in [Tables -> 0 .. MaxRevision]
  PROVE  /\ StorageTyped'
         /\ \A u \in Tables : TableView(u)' = TableView(u)
         /\ \A u \in Tables : u # t => table'[u] = table[u]
<1>1. k \in 1 .. Len(table[t].elements) /\ table[t].elements \in Seq(Elements)
  BY TableShape
<1>2. PICK s : s = [table[t].elements EXCEPT ![k] = e]
  OBVIOUS
<1>3. s \in Seq(Elements) /\ Len(s) = Len(table[t].elements)
  BY <1>1, <1>2, ExceptSeq
<1>4. table[t] = [base |-> table[t].base, elements |-> table[t].elements]
  BY DEF StorageTyped
<1>5. table' = [table EXCEPT ![t] = [base |-> table[t].base, elements |-> s]]
  <2>1. [table[t] EXCEPT !.elements = s] = [base |-> table[t].base, elements |-> s]
    BY <1>4
  <2> QED BY <1>2, <2>1 DEF Written
<1>6. /\ table'[t] = [base |-> table[t].base, elements |-> s]
      /\ \A u \in Tables : u # t => table'[u] = table[u]
      /\ table' \in [Tables -> [base : 0 .. MaxElements, elements : Seq(Elements)]]
  BY <1>3, <1>5, TableShape DEF StorageTyped
<1>7. ASSUME NEW u \in Tables
      PROVE  Len(table'[u].elements) <= MaxElements /\ TableView(u)' = TableView(u)
  <2>1. CASE u = t
    BY <1>3, <1>6, <2>1 DEF TableView, StorageTyped
  <2>2. CASE u # t
    BY <1>6, <2>2 DEF TableView, StorageTyped
  <2> QED BY <2>1, <2>2
<1> QED BY <1>6, <1>7 DEF StorageTyped

LEMMA MovedShape ==
  ASSUME StorageTyped, NEW t \in Tables, Moved(t)
  PROVE  /\ revision' \in [Tables -> 0 .. MaxRevision]
         /\ revision'[t] > revision[t]
         /\ \A u \in Tables : u # t => revision'[u] = revision[u]
         /\ \A u \in Tables : revision'[u] >= revision[u]
  BY BoundsAssumption DEF Moved, StorageTyped

(* What runs and may write its table has cached nothing of it.               *)
LEMMA WriterStaysLive ==
  ASSUME IInv, NEW i \in Ids, GuestRuns(i), i \in Mutates,
         TableView(TableOf[i])' = TableView(TableOf[i]), UNCHANGED <<memory, stack, unwinding>>
  PROVE  RunningLive'
<1>1. Top.context.entries = << >>
  BY RunningShape DEF Sound, Cached
<1>2. Live(i, Top.context)
  BY RunningShape
<1>3. Live(i, Top.context)'
  BY <1>1, <1>2 DEF Live, Matches, MemoryViews, Top
<1> QED BY <1>3 DEF RunningLive, GuestRuns, Top

LEMMA TableWriteStep ==
  ASSUME IInv, NEW i \in Ids, NEW k, NEW e \in Elements,
         TableWrite(i, k, e) \/ TableSetInline(i, k, e)
  PROVE  IInv'
<1> DEFINE t == TableOf[i]
<1>1. /\ GuestRuns(i) /\ i \in Mutates
      /\ k \in DOMAIN table[t].elements
      /\ Written(t, k, e)
      /\ UNCHANGED <<memory, borrowed, cache, stack, unwinding>>
      /\ Moved(t) \/ (t \notin Exported /\ UNCHANGED revision)
  BY DEF TableWrite, TableSetInline
<1>2. t \in Tables
  BY MemoryShape
<1>3. revision' \in [Tables -> 0 .. MaxRevision]
  BY <1>1, <1>2, MovedShape DEF IInv, StorageTyped
<1>4. /\ StorageTyped'
      /\ TableView(t)' = TableView(t)
      /\ \A u \in Tables : u # t => table'[u] = table[u]
  BY <1>1, <1>2, <1>3, WrittenShape DEF IInv
<1>5. Noticed
  <2>1. CASE Moved(t)
    BY <1>2, <1>4, <2>1, MovedShape DEF IInv, Noticed
  <2>2. CASE t \notin Exported /\ UNCHANGED revision
    <3>1. \A j \in Ids : TableOf[j] = t => j = i
      BY <2>2, SharingAssumption
    <3>2. \A j \in Ids : TableOf[j] = t => ~Cached(j)
      BY <1>1, <3>1 DEF Cached
    <3>3. \A u \in Tables : revision'[u] >= revision[u]
      BY <2>2, BoundsAssumption DEF IInv, StorageTyped
    <3> QED BY <1>4, <3>2, <3>3 DEF Noticed
  <2> QED BY <1>1, <2>1, <2>2
<1>6. RunningLive'
  BY <1>1, <1>4, WriterStaysLive
<1> QED BY <1>1, <1>4, <1>5, <1>6, TablesStep

LEMMA ElementSegmentStep ==
  ASSUME IInv, NEW t \in Tables, NEW k, NEW e \in Elements, ElementSegment(t, k, e)
  PROVE  IInv'
<1>1. /\ HostRuns /\ Moved(t) /\ Written(t, k, e)
      /\ k \in DOMAIN table[t].elements
      /\ UNCHANGED <<memory, borrowed, cache, stack, unwinding>>
  BY DEF ElementSegment
<1>2. /\ StorageTyped'
      /\ \A u \in Tables : u # t => table'[u] = table[u]
  BY <1>1, MovedShape, WrittenShape DEF IInv
<1>3. Noticed
  BY <1>1, <1>2, MovedShape DEF IInv, Noticed
<1>4. RunningLive'
  BY <1>1 DEF RunningLive, HostRuns, TopIs, Top
<1> QED BY <1>1, <1>2, <1>3, <1>4, TablesStep

LEMMA TableGrowFailsStep ==
  ASSUME IInv, NEW i \in Ids, TableGrowFails(i) PROVE IInv'
<1>1. /\ GuestRuns(i) /\ i \in Mutates /\ Moved(TableOf[i])
      /\ UNCHANGED <<memory, table, borrowed, cache, stack, unwinding>>
  BY DEF TableGrowFails
<1>2. TableOf[i] \in Tables
  BY MemoryShape
<1>3. StorageTyped' /\ Noticed
  BY <1>1, <1>2, MovedShape DEF IInv, StorageTyped, Noticed
<1>4. RunningLive'
  BY <1>1, WriterStaysLive DEF TableView
<1> QED BY <1>1, <1>3, <1>4, TablesStep

LEMMA TableGrowStep ==
  ASSUME IInv, NEW i \in Ids, NEW e \in Elements, NEW n \in 1 .. MaxElements,
         TableGrow(i, e, n)
  PROVE  IInv'
<1> DEFINE t == TableOf[i]
           old == table[t].elements
<1>1. /\ GuestRuns(i) /\ i \in Mutates
      /\ n \in Len(old) + 1 .. MaxElements
      /\ Moved(t)
      /\ stack' = [stack EXCEPT ![Len(stack)].context.table = TableView(t)']
      /\ UNCHANGED <<memory, borrowed, cache, unwinding>>
  BY DEF TableGrow
<1>2. PICK b \in Grown(table[t].base, Len(old), n) :
        table' = [table EXCEPT ![t] = [base |-> b, elements |-> old \o Repeat(e, n - Len(old))]]
  BY DEF TableGrow
<1>3. t \in Tables /\ old \in Seq(Elements) /\ Len(old) \in 0 .. MaxElements
  BY MemoryShape, TableShape DEF IInv
<1>4. PICK s : s = old \o Repeat(e, n - Len(old))
  OBVIOUS
<1>5. s \in Seq(Elements) /\ Len(s) = n
  <2>1. n - Len(old) \in Nat /\ Len(old) \in Nat /\ n \in Nat
    <3>1. PICK l \in 0 .. MaxElements : l = Len(old)
      BY <1>3
    <3>2. n \in l + 1 .. MaxElements
      BY <1>1, <3>1
    <3>3. n - l \in Nat /\ l \in Nat /\ n \in Nat
      BY <3>2, BoundsAssumption
    <3> QED BY <3>1, <3>3
  <2>2. Repeat(e, n - Len(old)) \in [1 .. n - Len(old) -> Elements]
    BY DEF Repeat
  <2>3. Repeat(e, n - Len(old)) \in Seq(Elements) /\ Len(Repeat(e, n - Len(old))) = n - Len(old)
    BY <2>1, <2>2, IsSequence
  <2>4. PICK r : r = Repeat(e, n - Len(old))
    OBVIOUS
  <2>5. s = old \o r /\ r \in Seq(Elements) /\ Len(r) = n - Len(old)
    BY <1>4, <2>3, <2>4
  <2>6. s \in Seq(Elements) /\ Len(s) = Len(old) + Len(r)
    BY <1>3, <2>5, ConcatProperties
  <2> QED BY <2>1, <2>5, <2>6
<1>6. /\ table' = [table EXCEPT ![t] = [base |-> b, elements |-> s]]
      /\ table'[t] = [base |-> b, elements |-> s]
      /\ \A u \in Tables : u # t => table'[u] = table[u]
      /\ b \in 0 .. MaxElements
  <2>1. table' = [table EXCEPT ![t] = [base |-> b, elements |-> s]]
    BY <1>2, <1>4
  <2>2. /\ table'[t] = [base |-> b, elements |-> s]
        /\ \A u \in Tables : u # t => table'[u] = table[u]
    BY <1>3, <2>1 DEF IInv, StorageTyped
  <2>3. table[t].base \in 0 .. MaxElements /\ n \in 0 .. MaxElements
    BY <1>3, BoundsAssumption, TableShape DEF IInv
  <2>4. b \in {n, table[t].base}
    BY DEF Grown
  <2> QED BY <2>1, <2>2, <2>3, <2>4
<1>7. StorageTyped'
  <2>1. table' \in [Tables -> [base : 0 .. MaxElements, elements : Seq(Elements)]]
    BY <1>3, <1>5, <1>6 DEF IInv, StorageTyped
  <2>2. ASSUME NEW u \in Tables PROVE Len(table'[u].elements) <= MaxElements
    <3>1. CASE u = t
      BY <1>1, <1>5, <1>6, <3>1
    <3>2. CASE u # t
      BY <1>6, <3>2 DEF IInv, StorageTyped
    <3> QED BY <3>1, <3>2
  <2> QED BY <1>1, <1>3, <2>1, <2>2, MovedShape DEF IInv, StorageTyped
<1>8. Noticed
  BY <1>1, <1>3, <1>6, MovedShape DEF IInv, Noticed
<1>9. PICK view : view = TableView(t)'
  OBVIOUS
<1>10. PICK c : c = [Top.context EXCEPT !.table = view]
  OBVIOUS
<1>11. Sound(i, Top.context) /\ Live(i, Top.context)
  BY <1>1, RunningShape
<1>12. view \in Views
  BY <1>5, <1>6, <1>9, BoundsAssumption DEF TableView, Views
<1>13. /\ c \in Contexts
       /\ c.memories = Top.context.memories /\ c.table = view
       /\ c.entries = << >> /\ c.revision = Top.context.revision
  BY <1>1, <1>10, <1>11, <1>12 DEF Sound, Fits, Contexts, Cached
<1>14. Sound(i, c)
  BY <1>11, <1>13 DEF Sound, Fits, Matches
<1>15. Sound(i, c)'
  BY <1>7, <1>8, <1>14, SoundnessStays DEF IInv
<1>16. Live(i, c)'
  BY <1>1, <1>9, <1>11, <1>13 DEF Live, Matches, MemoryViews
<1>17. stack' = [stack EXCEPT ![Len(stack)] = [kind |-> "guest", id |-> i, context |-> c]]
  <2>1. [Top EXCEPT !.context.table = view] = [kind |-> "guest", id |-> i, context |-> c]
    BY <1>1, <1>10, RunningShape
  <2> QED BY <1>1, <1>9, <2>1, RunningShape
<1> QED BY <1>1, <1>7, <1>8, <1>15, <1>16, <1>17, RunningStep

-----------------------------------------------------------------------------
(* The invariant and the theorems.                                           *)

LEMMA StepPreserves == IInv /\ [Next]_vars => IInv'
<1> SUFFICES ASSUME IInv, [Next]_vars PROVE IInv'
  OBVIOUS
<1>1. CASE UNCHANGED vars
  <2>1. UNCHANGED storage /\ UNCHANGED <<borrowed, cache, stack, unwinding>>
    BY <1>1 DEF vars, storage
  <2>2. StorageTyped' /\ KeptSound' /\ StackSound'
    BY <2>1, SameStorage DEF IInv, StorageTyped, KeptSound, StackSound
  <2>3. RunningLive'
    BY <2>1, SameStorage DEF IInv, RunningLive, TopIs, Top
  <2>4. BorrowsSound'
    BY <2>1, SameBorrows DEF IInv, StackSound, storage
  <2> QED BY <2>1, <2>2, <2>3, <2>4 DEF IInv
<1>2. ASSUME NEW i \in Ids, EnterGuest(i) \/ EnterHost(i) PROVE IInv'
  BY <1>2, EnterGuestStep, EnterHostStep
<1>3. CASE GuestReturns \/ HostReturns
  BY <1>3, ReturnsStep
<1>4. CASE GuestFails \/ HostFails
  BY <1>4, FailsStep
<1>5. CASE Borrow
  BY <1>5, BorrowStep
<1>6. ASSUME NEW i \in Ids, NEW k \in DOMAIN Memories[i], NEW n \in 1 .. MaxPages, MemoryGrow(i, k, n)
      PROVE  IInv'
  BY <1>6, MemoryGrowStep
<1>7. CASE TableChange
  <2>1. PICK e \in Elements, k \in 1 .. MaxElements :
          \/ \E i \in Ids : TableGrow(i, e, k) \/ TableWrite(i, k, e) \/ TableSetInline(i, k, e)
          \/ \E t \in Tables : ElementSegment(t, k, e)
    BY <1>7 DEF TableChange
  <2> QED BY <2>1, TableGrowStep, TableWriteStep, ElementSegmentStep
<1>8. ASSUME NEW i \in Ids, TableGrowFails(i) PROVE IInv'
  BY <1>8, TableGrowFailsStep
<1> QED BY <1>1, <1>2, <1>3, <1>4, <1>5, <1>6, <1>7, <1>8 DEF Next

LEMMA Invariant == Spec => []IInv
<1> QED BY InitEstablishes, StepPreserves, PTL DEF Spec

(* The storage, the contexts and the frames keep their types and bounds.     *)
THEOREM TypeCorrect == Spec => []TypeOK
<1>1. IInv => TypeOK
  <2> SUFFICES ASSUME IInv PROVE TypeOK
    OBVIOUS
  <2>1. DOMAIN stack = 1 .. Len(stack)
    BY DEF IInv, StackSound
  <2> QED BY <2>1 DEF IInv, StorageTyped, KeptSound, StackSound, Sound, Fits, TypeOK
<1> QED BY <1>1, Invariant, PTL

(* Compiled code runs on the present blocks and lengths only, whatever the    *)
(* calls it made have grown.                                                 *)
THEOREM ViewsStayLive == Spec => []ViewsAreLive
<1>1. IInv => ViewsAreLive
  BY DEF IInv, RunningLive, Live, ViewsAreLive
<1> QED BY <1>1, Invariant, PTL

(* A cached native entry is that of the function the live table holds.       *)
THEOREM EntriesStayLive == Spec => []EntriesAreLive
<1>1. IInv => EntriesAreLive
  BY DEF IInv, RunningLive, Live, Matches, EntriesAreLive
<1> QED BY <1>1, Invariant, PTL

(* A callback's slice is its memory for as long as the callback runs, and no  *)
(* compiled code that has the memory runs above it.                          *)
THEOREM SlicesStayLive == Spec => []SlicesAreLive
<1>1. IInv => SlicesAreLive
  <2> SUFFICES ASSUME IInv, NEW m \in Mems, NEW k \in BorrowsOf(m)
               PROVE  /\ stack[k].slice = memory[m]
                      /\ \A j \in k + 1 .. Len(stack) :
                           stack[j].kind = "guest" => \A n \in DOMAIN Memories[stack[j].id] :
                                                        Memories[stack[j].id][n] # m
    BY DEF SlicesAreLive
  <2>1. /\ k \in 1 .. Len(stack) /\ Borrows(stack[k])
        /\ FirstMemory(stack[k].id) = m
        /\ Len(stack) \in Nat
    BY DEF BorrowsOf, Borrows, IInv, StackSound
  <2>2. stack[k].slice = memory[m]
    BY <2>1 DEF IInv, BorrowsSound, SlicesHold
  <2>3. ASSUME NEW j \in k + 1 .. Len(stack), NEW n \in DOMAIN Memories[stack[j].id]
        PROVE  Memories[stack[j].id][n] # m
    <3>1. j \in 1 .. Len(stack) /\ k < j
      BY <2>1
    <3> QED BY <2>1, <3>1 DEF IInv, BorrowsSound, Guarded
  <2> QED BY <2>2, <2>3
<1> QED BY <1>1, Invariant, PTL

(* A memory's flag stands for exactly one slice, and a callback that holds    *)
(* none finds its memory free, so that taking a slice cannot fail.           *)
THEOREM BorrowsStayExclusive == Spec => []BorrowsAreExclusive
<1>1. IInv => BorrowsAreExclusive
  <2> SUFFICES ASSUME IInv PROVE BorrowsAreExclusive
    OBVIOUS
  <2>0. Len(stack) \in Nat /\ DOMAIN stack = 1 .. Len(stack)
    BY DEF IInv, StackSound
  <2>1. ASSUME NEW k \in 1 .. Len(stack), NEW j \in 1 .. Len(stack), Borrows(stack[k]), k < j
        PROVE  Memories[stack[j].id] # << >> => FirstMemory(stack[j].id) # FirstMemory(stack[k].id)
    <3>1. stack[j].id \in Ids
      BY ElementOfSeq, FrameShape DEF IInv, StackSound
    <3>2. Memories[stack[j].id] # << >> => 1 \in DOMAIN Memories[stack[j].id]
      BY <3>1, FirstMemoryShape
    <3> QED BY <2>1, <3>2 DEF IInv, BorrowsSound, Guarded, FirstMemory
  <2>2. ASSUME NEW m \in Mems
        PROVE  borrowed[m] <=> \E k \in BorrowsOf(m) : BorrowsOf(m) = {k}
    <3>1. \A k, j \in BorrowsOf(m) : k = j
      <4> SUFFICES ASSUME NEW k \in BorrowsOf(m), NEW j \in BorrowsOf(m), k # j PROVE FALSE
        OBVIOUS
      <4>1. /\ k \in 1 .. Len(stack) /\ Borrows(stack[k]) /\ FirstMemory(stack[k].id) = m
            /\ j \in 1 .. Len(stack) /\ Borrows(stack[j]) /\ FirstMemory(stack[j].id) = m
        BY <2>0 DEF BorrowsOf, Borrows
      <4>2. Memories[stack[k].id] # << >> /\ Memories[stack[j].id] # << >>
        BY <4>1 DEF IInv, BorrowsSound, SlicesHold
      <4>3. k < j \/ j < k
        BY <4>1
      <4> QED BY <2>1, <4>1, <4>2, <4>3
    <3>2. borrowed[m] <=> \E k \in BorrowsOf(m) : TRUE
      BY <2>0 DEF IInv, BorrowsSound, Flagged, BorrowsOf, Borrows
    <3>3. (\E k \in BorrowsOf(m) : TRUE) <=> \E k \in BorrowsOf(m) : BorrowsOf(m) = {k}
      BY <3>1
    <3> QED BY <3>2, <3>3
  <2>3. ASSUME TopIs("host"), Top.slice = None, Memories[Top.id] # << >>
        PROVE  ~borrowed[FirstMemory(Top.id)]
    <3>1. stack # << >> /\ Top.kind = "host"
      BY <2>3 DEF TopIs
    <3>2. Len(stack) \in 1 .. Len(stack) /\ Top = stack[Len(stack)] /\ Top.id \in Ids
      BY <3>1, BelowShape, FrameShape DEF IInv, StackSound
    <3>3. FirstMemory(Top.id) \in Mems
      BY <2>3, <3>2, FirstMemoryShape
    <3>4. ASSUME NEW k \in 1 .. Len(stack), Borrows(stack[k]) PROVE FirstMemory(stack[k].id) # FirstMemory(Top.id)
      <4>1. k # Len(stack)
        BY <2>3, <3>2, <3>4 DEF Borrows
      <4>2. k < Len(stack)
        <5>1. PICK l \in Nat : l = Len(stack)
          BY <2>0
        <5>2. k \in 1 .. l /\ k # l
          BY <4>1, <5>1
        <5>3. k < l
          BY <5>2
        <5> QED BY <5>1, <5>3
      <4> QED BY <2>1, <2>3, <3>2, <3>4, <4>2
    <3> QED BY <3>3, <3>4 DEF IInv, BorrowsSound, Flagged
  <2> QED BY <2>2, <2>3 DEF BorrowsAreExclusive
<1> QED BY <1>1, Invariant, PTL

-----------------------------------------------------------------------------
(* While a memory is borrowed.                                               *)

(* The test at the head of eval is made once, when the call starts, and need  *)
(* not be made again: whenever compiled code is on top, every memory of its  *)
(* instance is free, though callbacks above it came and went meanwhile.      *)
RunningHasItsMemories ==
  TopIs("guest") => \A k \in DOMAIN Memories[Top.id] : ~borrowed[Memories[Top.id][k]]

THEOREM PreflightLasts == Spec => []RunningHasItsMemories
<1>1. IInv => RunningHasItsMemories
  <2> SUFFICES ASSUME IInv, TopIs("guest"), NEW k \in DOMAIN Memories[Top.id], borrowed[Memories[Top.id][k]]
               PROVE  FALSE
    BY DEF RunningHasItsMemories
  <2>1. stack # << >> /\ Top.kind = "guest"
    BY DEF TopIs
  <2>2. /\ Len(stack) \in Nat \ {0} /\ Len(stack) \in 1 .. Len(stack)
        /\ Top = stack[Len(stack)] /\ Top.id \in Ids
    BY <2>1, BelowShape, FrameShape DEF IInv, StackSound
  <2>3. Memories[Top.id][k] \in Mems
    BY <2>2, MemoryShape
  <2>4. PICK j \in 1 .. Len(stack) : Borrows(stack[j]) /\ FirstMemory(stack[j].id) = Memories[Top.id][k]
    BY <2>3 DEF IInv, BorrowsSound, Flagged
  <2>5. j # Len(stack)
    BY <2>1, <2>2, <2>4 DEF Borrows
  <2>6. j < Len(stack)
    BY <2>2, <2>5
  <2> QED BY <2>2, <2>4, <2>6 DEF IInv, BorrowsSound, Guarded
<1> QED BY <1>1, Invariant, PTL

\* The callback on top holds the slice of memory m.
Holder(m) == TopIs("host") /\ Top.slice # None /\ FirstMemory(Top.id) = m

(* While a callback holds the slice of a memory, no step moves it, grows it   *)
(* or ends the borrow, but the end of that callback itself: what Rust's      *)
(* borrow rules promise of the slice and raw pointers here must keep.        *)
BorrowedIsSteady ==
  \A m \in Mems : borrowed[m] =>
    /\ memory'[m] = memory[m]
    /\ ~borrowed'[m] => Holder(m) /\ Len(stack') = Len(stack) - 1

LEMMA SteadyStep ==
  ASSUME IInv, [Next]_vars, NEW m \in Mems, borrowed[m]
  PROVE  /\ memory'[m] = memory[m]
         /\ ~borrowed'[m] => Holder(m) /\ Len(stack') = Len(stack) - 1
<1>0. borrowed \in [Mems -> BOOLEAN]
  BY DEF IInv, StorageTyped
<1>1. ASSUME NEW i \in Ids, EnterGuest(i) \/ EnterHost(i) PROVE UNCHANGED <<memory, borrowed>>
  BY <1>1 DEF EnterGuest, EnterHost, storage
<1>2. CASE GuestReturns \/ GuestFails
  BY <1>2 DEF GuestReturns, GuestFails, storage
<1>3. CASE Borrow
  BY <1>0, <1>3 DEF Borrow, storage
<1>4. CASE HostReturns \/ HostFails
  <2>1. /\ stack # << >> /\ TopIs("host") /\ memory' = memory /\ EndBorrow
        /\ stack' = Below \/ stack' = Resumed(Below)
    BY <1>4 DEF HostReturns, HostFails, TopIs, storage
  <2>2. Len(stack') = Len(stack) - 1
    BY <2>1, BelowIsLeft, ResumedIsLive DEF Left, IInv
  <2>3. ~borrowed'[m] => Top.slice # None /\ FirstMemory(Top.id) = m
    BY <1>0, <2>1 DEF EndBorrow
  <2> QED BY <2>1, <2>2, <2>3 DEF Holder
<1>5. ASSUME NEW i \in Ids, NEW k \in DOMAIN Memories[i], NEW n \in 1 .. MaxPages, MemoryGrow(i, k, n)
      PROVE  UNCHANGED borrowed /\ memory'[m] = memory[m]
  <2>1. GuestRuns(i)
    BY <1>5 DEF MemoryGrow
  <2>2. Top.id = i /\ TopIs("guest")
    BY <2>1 DEF GuestRuns
  <2>3. Memories[i][k] # m
    <3>1. PICK j \in 1 .. Len(stack) : Borrows(stack[j]) /\ FirstMemory(stack[j].id) = m
      BY DEF IInv, BorrowsSound, Flagged
    <3>2. /\ Len(stack) \in Nat \ {0} /\ Len(stack) \in 1 .. Len(stack) /\ Top = stack[Len(stack)]
          /\ Top.kind = "guest"
      BY <2>1, <2>2, RunningShape DEF TopIs
    <3>3. j # Len(stack)
      BY <3>1, <3>2 DEF Borrows
    <3>4. j < Len(stack)
      BY <3>2, <3>3
    <3> QED BY <2>2, <3>1, <3>2, <3>4 DEF IInv, BorrowsSound, Guarded
  <2>4. /\ UNCHANGED borrowed
        /\ \E b : memory' = [memory EXCEPT ![Memories[i][k]] = [base |-> b, len |-> n]]
    BY <1>5 DEF MemoryGrow
  <2> QED BY <2>3, <2>4 DEF IInv, StorageTyped
<1>6. CASE TableChange
  BY <1>6 DEF TableChange, TableGrow, TableWrite, TableSetInline, ElementSegment
<1>7. ASSUME NEW i \in Ids, TableGrowFails(i) PROVE UNCHANGED <<memory, borrowed>>
  BY <1>7 DEF TableGrowFails
<1>8. CASE UNCHANGED vars
  BY <1>8 DEF vars, storage
<1> QED BY <1>1, <1>2, <1>3, <1>4, <1>5, <1>6, <1>7, <1>8 DEF Next

(* A borrowed memory stays where and as long as it is until its callback ends. *)
THEOREM BorrowsHold == Spec => [][BorrowedIsSteady]_vars
<1>1. IInv /\ [Next]_vars => [BorrowedIsSteady]_vars
  BY SteadyStep DEF BorrowedIsSteady
<1> QED BY <1>1, Invariant, PTL DEF Spec
=============================================================================
