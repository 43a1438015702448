------------------------- MODULE RuntimeWorld_proofs -------------------------
(***************************************************************************)
(* Proofs about RuntimeWorld, for any ids, engines, depth of calls and     *)
(* number of views: the counters are what they count, so that views        *)
(* exclude execution and nothing that is called is destroyed; the world    *)
(* uses the instance table as InstanceLifecycle allows; and the drop of a  *)
(* world is never stuck and takes finitely many steps.                     *)
(***************************************************************************)
EXTENDS RuntimeWorld, FiniteSetTheorems, SequenceTheorems, TLAPS

Depth == Len(stack)

Starts(k) == stack[k].kind = "start"

\* The world has at most one owner or mutable borrower on the stack, and what
\* that one is doing agrees with the world's own stage.
WorldOwned ==
  /\ \A j, k \in 1 .. Depth : HoldsWorld(stack[j]) /\ HoldsWorld(stack[k]) => j = k
  /\ \A k \in 1 .. Depth : stack[k].kind \in {"invoke", "start", "free"} => world = "open"
  /\ \A k \in 1 .. Depth : stack[k].kind = "drop" => world \in {"freeing", "fields"}
  /\ world = "gone" => instances = << >>

\* A frame names an instance, except for a drop that is between two of them.
FrameIds ==
  \A k \in 1 .. Depth :
    IF stack[k].kind # "drop" THEN stack[k].id \in Ids
    ELSE stack[k].at \in {"run", "dtor"} /\ (stack[k].at = "run" \/ world = "fields" => stack[k].id = None)

\* Guest-to-guest calls take no guard, but one is taken below them.
GuestsAreGuarded ==
  \A k \in 1 .. Depth : stack[k].kind = "guest" => \E j \in 1 .. k - 1 : HoldsGuard(stack[j])

ViewsAreAlone ==
  /\ ~NoViews => executions = 0
  /\ writer => readers = 0

OneEntryEach ==
  \A j, k \in 1 .. Len(instances) : instances[j].id = instances[k].id => j = k

\* An entry is of a live instance, or a partial one that is being freed.
EntriesAreLive ==
  \A k \in 1 .. Len(instances) :
    \/ status[instances[k].id] = "live"
    \/ /\ status[instances[k].id] = "dead"
       /\ ~instances[k].facade
       /\ \E j \in 1 .. Depth :
            stack[j].kind \in {"free", "drop"} /\ stack[j].at = "dtor" /\ stack[j].id = instances[k].id

\* A start that has published its instance is the last activity.
Publishes(k) == Starts(k) /\ stack[k].at = "occupied"

Fitting(n) == tierOf[n] \in Tiers /\ tier \in {None, tierOf[n]}

StartsAreNew ==
  \A n \in Ids, k \in 1 .. Depth : Starts(k) /\ stack[k].id = n =>
    /\ ~Listed(n)
    /\ in_use[n] = 0
    /\ status[n] = IF stack[k].at = "occupied" THEN "live" ELSE "reserved"
    /\ stack[k].at = "occupied" => k = Depth
    /\ Fitting(n)

\* What is being freed is dead already.
FreesAreDead ==
  \A k \in 1 .. Depth :
    stack[k].kind \in {"free", "drop"} /\ stack[k].id # None => status[stack[k].id] = "dead"

CallsAreAlive == \A k \in 1 .. Depth : HoldsToken(stack[k]) => Occupied(stack[k].id)

Settled(n) == Occupied(n) /\ \A k \in 1 .. Depth : ~(Publishes(k) /\ stack[k].id = n)

\* What can be called is on the list of an open world, and of its engine.
SettledAreListed ==
  \A n \in Ids : Settled(n) =>
    /\ world = "open" => Listed(n)
    /\ tier # None /\ tierOf[n] = tier

IInv ==
  /\ TypeOK
  /\ WorldOwned
  /\ FrameIds
  /\ GuestsAreGuarded
  /\ ViewsAreAlone
  /\ OneEntryEach
  /\ EntriesAreLive
  /\ StartsAreNew
  /\ FreesAreDead
  /\ CallsAreAlive
  /\ SettledAreListed
  /\ ClosingIsCalled
  /\ CountsAreHolders

-----------------------------------------------------------------------------
(* The stack.                                                                *)

One(b) == IF b THEN 1 ELSE 0

LEMMA StackShape ==
  ASSUME TypeOK
  PROVE  /\ Depth \in Nat
         /\ DOMAIN stack = 1 .. Depth
         /\ \A k \in 1 .. Depth : stack[k] \in Frames
         /\ stack # << >> => Depth > 0 /\ Depth \in 1 .. Depth
  BY EmptySeq DEF TypeOK, Depth

LEMMA EntryShape ==
  ASSUME TypeOK
  PROVE  /\ Len(instances) \in Nat
         /\ DOMAIN instances = 1 .. Len(instances)
         /\ \A k \in 1 .. Len(instances) :
              instances[k].id \in Ids /\ instances[k].facade \in BOOLEAN
         /\ instances # << >> => Len(instances) > 0
<1>1. instances \in Seq([id : Ids, facade : BOOLEAN])
  BY DEF TypeOK
<1>2. /\ Len(instances) \in Nat
      /\ DOMAIN instances = 1 .. Len(instances)
      /\ \A k \in 1 .. Len(instances) : instances[k] \in [id : Ids, facade : BOOLEAN]
  BY <1>1, LenProperties, ElementOfSeq
<1>3. instances # << >> => Len(instances) > 0
  BY <1>1, EmptySeq
<1> QED BY <1>2, <1>3

LEMMA FrameType ==
  ASSUME NEW kind \in Kinds, NEW n \in Ids \cup {None}, NEW at \in Stages
  PROVE  /\ Frame(kind, n, at) \in Frames
         /\ Frame(kind, n, at).kind = kind
         /\ Frame(kind, n, at).id = n
         /\ Frame(kind, n, at).at = at
  BY DEF Frame, Frames

\* The stack has grown by f.
Grown(f) ==
  /\ Depth' = Depth + 1
  /\ \A k \in 1 .. Depth : stack'[k] = stack[k]
  /\ stack'[Depth + 1] = f

LEMMA PushShape ==
  ASSUME TypeOK, NEW f \in Frames, Push(f)
  PROVE  stack' \in Seq(Frames) /\ Grown(f)
<1>1. stack \in Seq(Frames) /\ stack' = Append(stack, f)
  BY DEF TypeOK, Push
<1> QED BY <1>1, AppendProperties DEF Grown, Depth

\* The stack has lost its top.
Shrunk ==
  /\ Depth' = Depth - 1
  /\ \A k \in 1 .. Depth' : stack'[k] = stack[k]

LEMMA PopShape ==
  ASSUME TypeOK, stack # << >>, Pop
  PROVE  stack' \in Seq(Frames) /\ Shrunk
<1>1. stack' = SubSeq(stack, 1, Depth - 1)
  BY DEF Pop, Front, Depth
<1>2. Depth \in Nat \ {0} /\ \A k \in 1 .. Depth - 1 : stack[k] \in Frames
  BY StackShape
<1>3. /\ SubSeq(stack, 1, Depth - 1) \in Seq(Frames)
      /\ Len(SubSeq(stack, 1, Depth - 1)) = IF 1 <= Depth - 1 THEN (Depth - 1) - 1 + 1 ELSE 0
      /\ \A k \in 1 .. (Depth - 1) - 1 + 1 : SubSeq(stack, 1, Depth - 1)[k] = stack[1 + k - 1]
  BY <1>2, SubSeqProperties
<1>4. Len(stack') = Depth - 1
  BY <1>1, <1>2, <1>3
<1>5. Depth' = Depth - 1
  BY <1>4 DEF Depth
<1> QED BY <1>1, <1>2, <1>3, <1>5 DEF Shrunk

\* The top of the stack has become f.
Replaced(f) ==
  /\ Depth' = Depth
  /\ \A k \in 1 .. Depth : k # Depth => stack'[k] = stack[k]
  /\ stack'[Depth] = f

LEMMA ReplaceShape ==
  ASSUME TypeOK, stack # << >>, NEW f \in Frames, stack' = [stack EXCEPT ![Len(stack)] = f]
  PROVE  stack' \in Seq(Frames) /\ Replaced(f)
<1>1. stack \in Seq(Frames) /\ Depth \in 1 .. Len(stack)
  BY StackShape DEF TypeOK, Depth
<1>2. /\ stack' \in Seq(Frames)
      /\ Len(stack') = Len(stack)
      /\ \A j \in 1 .. Len(stack) : stack'[j] = IF j = Len(stack) THEN f ELSE stack[j]
  BY <1>1, ExceptSeq DEF Depth
<1> QED BY <1>1, <1>2 DEF Replaced, Depth

LEMMA MoveShape ==
  ASSUME TypeOK, stack # << >>, NEW at \in Stages, MoveTop(at)
  PROVE  /\ stack' \in Seq(Frames)
         /\ Replaced(Frame(Top.kind, Top.id, at))
<1>1. Depth \in 1 .. Depth /\ stack[Depth] \in Frames
  BY StackShape
<1>2. /\ [stack[Depth] EXCEPT !.at = at] = Frame(Top.kind, Top.id, at)
      /\ Frame(Top.kind, Top.id, at) \in Frames
  BY <1>1 DEF Frames, Frame, Top, Depth
<1>3. stack' = [stack EXCEPT ![Len(stack)] = Frame(Top.kind, Top.id, at)]
  BY <1>1, <1>2 DEF MoveTop, Depth, TypeOK
<1> QED BY <1>2, <1>3, ReplaceShape

-----------------------------------------------------------------------------
(* What is counted.                                                          *)

LEMMA Finite ==
  ASSUME TypeOK, NEW n
  PROVE  /\ IsFiniteSet(Guards) /\ Cardinality(Guards) \in Nat
         /\ IsFiniteSet(CallsOf(n)) /\ Cardinality(CallsOf(n)) \in Nat
<1>1. IsFiniteSet(1 .. Depth)
  BY StackShape, FS_Interval
<1>2. Guards \in SUBSET (1 .. Depth) /\ CallsOf(n) \in SUBSET (1 .. Depth)
  BY StackShape DEF Guards, CallsOf
<1>3. IsFiniteSet(Guards) /\ IsFiniteSet(CallsOf(n))
  BY <1>1, <1>2, FS_Subset
<1> QED BY <1>3, FS_CardinalityType

LEMMA PushCounts ==
  ASSUME TypeOK, NEW f \in Frames, Push(f), NEW n
  PROVE  /\ Cardinality(Guards') = Cardinality(Guards) + One(HoldsGuard(f))
         /\ Cardinality(CallsOf(n)') = Cardinality(CallsOf(n)) + One(HoldsToken(f) /\ f.id = n)
         /\ CallsOf(n)' = IF HoldsToken(f) /\ f.id = n THEN CallsOf(n) \cup {Depth + 1} ELSE CallsOf(n)
<1>1. Grown(f) /\ DOMAIN stack' = 1 .. Depth + 1 /\ DOMAIN stack = 1 .. Depth /\ Depth \in Nat
  BY PushShape, StackShape DEF Grown, Depth
<1>2. Guards' = IF HoldsGuard(f) THEN Guards \cup {Depth + 1} ELSE Guards
  BY <1>1 DEF Guards, Grown
<1>3. CallsOf(n)' = IF HoldsToken(f) /\ f.id = n THEN CallsOf(n) \cup {Depth + 1} ELSE CallsOf(n)
  BY <1>1 DEF CallsOf, Grown
<1>4. Depth + 1 \notin Guards /\ Depth + 1 \notin CallsOf(n)
  BY <1>1 DEF Guards, CallsOf
<1>5. /\ Cardinality(Guards \cup {Depth + 1}) = Cardinality(Guards) + 1
      /\ Cardinality(CallsOf(n) \cup {Depth + 1}) = Cardinality(CallsOf(n)) + 1
      /\ Cardinality(Guards) \in Nat /\ Cardinality(CallsOf(n)) \in Nat
  BY <1>4, Finite, FS_AddElement
<1>6. Cardinality(Guards') = Cardinality(Guards) + One(HoldsGuard(f))
  BY <1>2, <1>5 DEF One
<1>7. Cardinality(CallsOf(n)') = Cardinality(CallsOf(n)) + One(HoldsToken(f) /\ f.id = n)
  BY <1>3, <1>5 DEF One
<1> QED BY <1>3, <1>6, <1>7

LEMMA PopCounts ==
  ASSUME TypeOK, stack # << >>, Pop, NEW n
  PROVE  /\ Cardinality(Guards') = Cardinality(Guards) - One(HoldsGuard(Top))
         /\ Cardinality(CallsOf(n)') = Cardinality(CallsOf(n)) - One(HoldsToken(Top) /\ Top.id = n)
         /\ CallsOf(n)' = CallsOf(n) \ {Depth}
<1>1. /\ Shrunk /\ DOMAIN stack' = 1 .. Depth - 1 /\ DOMAIN stack = 1 .. Depth
      /\ Depth \in Nat \ {0} /\ Top = stack[Depth]
  BY PopShape, StackShape DEF Shrunk, Depth, Top
<1>2. Guards' = Guards \ {Depth} /\ (Depth \in Guards <=> HoldsGuard(Top))
  BY <1>1 DEF Guards, Shrunk
<1>3. CallsOf(n)' = CallsOf(n) \ {Depth} /\ (Depth \in CallsOf(n) <=> HoldsToken(Top) /\ Top.id = n)
  BY <1>1 DEF CallsOf, Shrunk
<1>4. Cardinality(Guards) \in Nat /\ Cardinality(CallsOf(n)) \in Nat
  BY Finite
<1>5. Cardinality(Guards \ {Depth}) =
        IF Depth \in Guards THEN Cardinality(Guards) - 1 ELSE Cardinality(Guards)
  BY Finite, FS_RemoveElement
<1>6. Cardinality(CallsOf(n) \ {Depth}) =
        IF Depth \in CallsOf(n) THEN Cardinality(CallsOf(n)) - 1 ELSE Cardinality(CallsOf(n))
  BY Finite, FS_RemoveElement
<1>7. Cardinality(Guards') = Cardinality(Guards) - One(HoldsGuard(Top))
  BY <1>2, <1>4, <1>5 DEF One
<1>8. Cardinality(CallsOf(n)') = Cardinality(CallsOf(n)) - One(HoldsToken(Top) /\ Top.id = n)
  BY <1>3, <1>4, <1>6 DEF One
<1> QED BY <1>3, <1>7, <1>8

\* A new top holds a guard as the old one did, and no token.
LEMMA ReplaceCounts ==
  ASSUME TypeOK, stack # << >>, NEW f, Replaced(f), stack' \in Seq(Frames), NEW n,
         HoldsGuard(f) <=> HoldsGuard(Top), ~HoldsToken(f)
  PROVE  /\ Guards' = Guards
         /\ Cardinality(CallsOf(n)') = Cardinality(CallsOf(n)) - One(HoldsToken(Top) /\ Top.id = n)
         /\ CallsOf(n)' = CallsOf(n) \ {Depth}
<1>1. /\ DOMAIN stack' = 1 .. Depth /\ DOMAIN stack = 1 .. Depth
      /\ Depth \in Nat \ {0} /\ Top = stack[Depth]
  BY StackShape DEF Replaced, Depth, Top
<1>2. Guards' = Guards
  BY <1>1 DEF Guards, Replaced
<1>3. CallsOf(n)' = CallsOf(n) \ {Depth} /\ (Depth \in CallsOf(n) <=> HoldsToken(Top) /\ Top.id = n)
  BY <1>1 DEF CallsOf, Replaced
<1>4. Cardinality(CallsOf(n)) \in Nat
  BY Finite
<1>5. Cardinality(CallsOf(n) \ {Depth}) =
        IF Depth \in CallsOf(n) THEN Cardinality(CallsOf(n)) - 1 ELSE Cardinality(CallsOf(n))
  BY Finite, FS_RemoveElement
<1>6. Cardinality(CallsOf(n)') = Cardinality(CallsOf(n)) - One(HoldsToken(Top) /\ Top.id = n)
  BY <1>3, <1>4, <1>5 DEF One
<1> QED BY <1>2, <1>3, <1>6

-----------------------------------------------------------------------------
(* Calls and their ends.                                                     *)

\* A frame goes on top of the embedder's or a guest's code: no start is at its end.
LEMMA HostIsOnTop ==
  ASSUME IInv, HostRuns
  PROVE  \A k \in 1 .. Depth : ~Publishes(k)
<1> SUFFICES ASSUME NEW k \in 1 .. Depth, Publishes(k) PROVE FALSE
  OBVIOUS
<1>1. k = Depth
  BY DEF IInv, StartsAreNew, FrameIds, Publishes, Starts
<1>2. stack # << >> /\ Top.at = "occupied"
  BY <1>1, StackShape DEF IInv, Publishes, Top, Depth
<1> QED BY <1>2 DEF HostRuns, GuestRuns

LEMMA GuestIsGuarded ==
  ASSUME IInv, GuestRuns
  PROVE  \E j \in 1 .. Depth : HoldsGuard(stack[j])
<1>1. Depth \in 1 .. Depth /\ Top = stack[Depth]
  BY StackShape DEF IInv, GuestRuns, Top, Depth
<1>2. CASE Top.kind = "guest"
  BY <1>1, <1>2 DEF IInv, GuestsAreGuarded
<1>3. CASE Top.kind # "guest"
  BY <1>1, <1>3 DEF GuestRuns, Calls, HoldsGuard
<1> QED BY <1>2, <1>3

\* What any frame that is pushed keeps.
LEMMA PushParts ==
  ASSUME IInv, NEW f \in Frames, Push(f),
         executions' = executions + One(HoldsGuard(f)), UNCHANGED <<readers, writer>>,
         HoldsGuard(f) => NoViews,
         f.kind = "guest" => GuestRuns,
         HoldsWorld(f) => WorldFree,
         world' = IF f.kind = "drop" THEN "freeing" ELSE world,
         world = "gone" => instances' = << >>,
         IF f.kind # "drop" THEN f.id \in Ids ELSE f.at = "run" /\ f.id = None
  PROVE  /\ stack' \in Seq(Frames) /\ Depth \in Nat /\ Depth' = Depth + 1
         /\ \A k \in 1 .. Depth' :
              \/ k \in 1 .. Depth /\ stack'[k] = stack[k]
              \/ k = Depth + 1 /\ stack'[k] = f
         /\ \A k \in 1 .. Depth : k \in 1 .. Depth' /\ stack'[k] = stack[k]
         /\ stack'[Depth + 1] = f
         /\ executions' \in Nat /\ executions' = Cardinality(Guards')
         /\ WorldOwned' /\ FrameIds' /\ GuestsAreGuarded' /\ ViewsAreAlone'
         /\ \A m : /\ Cardinality(CallsOf(m)') = Cardinality(CallsOf(m)) + One(HoldsToken(f) /\ f.id = m)
                   /\ CallsOf(m) \subseteq CallsOf(m)'
                   /\ ~HoldsToken(f) => CallsOf(m)' = CallsOf(m)
<1>1. /\ Grown(f) /\ stack' \in Seq(Frames) /\ Depth \in Nat /\ DOMAIN stack = 1 .. Depth
      /\ executions \in Nat
  BY PushShape, StackShape DEF IInv, TypeOK
<1>2. /\ Depth' = Depth + 1 /\ stack'[Depth + 1] = f
      /\ \A k \in 1 .. Depth' :
           \/ k \in 1 .. Depth /\ stack'[k] = stack[k]
           \/ k = Depth + 1 /\ stack'[k] = f
      /\ \A k \in 1 .. Depth : k \in 1 .. Depth' /\ stack'[k] = stack[k]
  BY <1>1 DEF Grown
<1>3. /\ Cardinality(Guards') = Cardinality(Guards) + One(HoldsGuard(f))
      /\ \A m : /\ Cardinality(CallsOf(m)') = Cardinality(CallsOf(m)) + One(HoldsToken(f) /\ f.id = m)
                /\ CallsOf(m) \subseteq CallsOf(m)'
                /\ ~HoldsToken(f) => CallsOf(m)' = CallsOf(m)
  BY PushCounts DEF IInv
<1>4. executions' \in Nat /\ executions' = Cardinality(Guards')
  BY <1>1, <1>3 DEF IInv, CountsAreHolders, One
<1>5. HoldsWorld(f) => world = "open" /\ \A k \in 1 .. Depth : ~HoldsWorld(stack[k])
  BY <1>1 DEF WorldFree
<1>6. WorldOwned'
  <2>1. \A j, k \in 1 .. Depth' : HoldsWorld(stack'[j]) /\ HoldsWorld(stack'[k]) => j = k
    <3>1. \A j, k \in 1 .. Depth : HoldsWorld(stack[j]) /\ HoldsWorld(stack[k]) => j = k
      BY DEF IInv, WorldOwned
    <3> QED BY <1>2, <1>5, <3>1
  <2>2. CASE HoldsWorld(f)
    <3>1. \A k \in 1 .. Depth' : HoldsWorld(stack'[k]) => stack'[k] = f
      BY <1>2, <1>5, <2>2
    <3> QED BY <1>5, <2>1, <2>2, <3>1 DEF WorldOwned, HoldsWorld
  <2>3. CASE ~HoldsWorld(f)
    <3>1. world' = world
      BY <2>3 DEF HoldsWorld
    <3>2. \A k \in 1 .. Depth' : stack'[k].kind \in {"invoke", "start", "free", "drop"} =>
                                  k \in 1 .. Depth /\ stack'[k] = stack[k]
      BY <1>2, <2>3 DEF HoldsWorld
    <3> QED BY <2>1, <3>1, <3>2 DEF IInv, WorldOwned
  <2> QED BY <2>2, <2>3
<1>7. FrameIds'
  <2> SUFFICES ASSUME NEW k \in 1 .. Depth'
               PROVE  IF stack'[k].kind # "drop" THEN stack'[k].id \in Ids
                      ELSE /\ stack'[k].at \in {"run", "dtor"}
                           /\ stack'[k].at = "run" \/ world' = "fields" => stack'[k].id = None
    BY DEF FrameIds
  <2>1. CASE stack'[k] = f
    BY <2>1
  <2>2. CASE k \in 1 .. Depth /\ stack'[k] = stack[k]
    <3>1. world' = "fields" => world = "fields"
      OBVIOUS
    <3> QED BY <2>2, <3>1 DEF IInv, FrameIds
  <2> QED BY <1>2, <2>1, <2>2
<1>8. GuestsAreGuarded'
  <2> SUFFICES ASSUME NEW k \in 1 .. Depth', stack'[k].kind = "guest"
               PROVE  \E j \in 1 .. k - 1 : HoldsGuard(stack'[j])
    BY DEF GuestsAreGuarded
  <2>1. CASE k = Depth + 1
    <3>1. \E j \in 1 .. Depth : HoldsGuard(stack[j])
      BY <1>2, <2>1, GuestIsGuarded
    <3> QED BY <1>1, <1>2, <2>1, <3>1
  <2>2. CASE k \in 1 .. Depth /\ stack'[k] = stack[k]
    <3>1. \E j \in 1 .. k - 1 : HoldsGuard(stack[j])
      BY <2>2 DEF IInv, GuestsAreGuarded
    <3> QED BY <1>1, <1>2, <2>2, <3>1
  <2> QED BY <1>2, <2>1, <2>2
<1>9. ViewsAreAlone'
  <2>1. CASE HoldsGuard(f)
    BY <2>1 DEF IInv, ViewsAreAlone, NoViews
  <2>2. CASE ~HoldsGuard(f)
    <3>1. executions' = executions
      BY <1>1, <2>2 DEF One
    <3> QED BY <3>1 DEF IInv, ViewsAreAlone, NoViews
  <2> QED BY <2>1, <2>2
<1> QED BY <1>1, <1>2, <1>3, <1>4, <1>6, <1>7, <1>8, <1>9

LEMMA CallStep ==
  ASSUME IInv, NEW n \in Ids, NEW kind \in Calls, HostRuns,
         Checkout(n), Push(Frame(kind, n, "run")), UNCHANGED worldVars,
         kind = "guest" => GuestRuns /\ UNCHANGED borrowVars,
         kind # "guest" => Enter,
         kind = "invoke" => WorldFree
  PROVE  IInv'
<1> DEFINE f == Frame(kind, n, "run")
<1>1. /\ f \in Frames /\ f.kind = kind /\ f.id = n /\ f.at = "run"
      /\ HoldsToken(f) /\ (HoldsGuard(f) <=> kind # "guest") /\ kind # "start" /\ kind # "free" /\ kind # "drop"
      /\ (HoldsWorld(f) <=> kind = "invoke")
  BY FrameType DEF Calls, Kinds, Stages, HoldsToken, HoldsGuard, HoldsWorld
<1> HIDE DEF f
<1>2. /\ in_use' = [in_use EXCEPT ![n] = in_use[n] + 1]
      /\ UNCHANGED <<status, tierOf, instances, world, tier, readers, writer>>
      /\ Occupied(n)
  BY DEF Checkout, worldVars, Enter, borrowVars
<1>3. executions' = executions + One(HoldsGuard(f))
  BY <1>1 DEF Enter, borrowVars, One, IInv, TypeOK
<1>4. /\ stack' \in Seq(Frames) /\ Depth' = Depth + 1
      /\ \A k \in 1 .. Depth' :
           \/ k \in 1 .. Depth /\ stack'[k] = stack[k]
           \/ k = Depth + 1 /\ stack'[k] = f
      /\ \A k \in 1 .. Depth : k \in 1 .. Depth' /\ stack'[k] = stack[k]
      /\ executions' \in Nat /\ executions' = Cardinality(Guards')
      /\ WorldOwned' /\ FrameIds' /\ GuestsAreGuarded' /\ ViewsAreAlone'
      /\ \A m : /\ Cardinality(CallsOf(m)') = Cardinality(CallsOf(m)) + One(HoldsToken(f) /\ f.id = m)
                /\ CallsOf(m) \subseteq CallsOf(m)'
  <2>1. HoldsGuard(f) => NoViews
    BY <1>1 DEF Enter
  <2>2. (f.kind = "guest" => GuestRuns) /\ (HoldsWorld(f) => WorldFree)
    BY <1>1
  <2>3. world' = IF f.kind = "drop" THEN "freeing" ELSE world
    BY <1>1, <1>2
  <2>4. world = "gone" => instances' = << >>
    BY <1>2 DEF IInv, WorldOwned
  <2>5. IF f.kind # "drop" THEN f.id \in Ids ELSE f.at = "run" /\ f.id = None
    BY <1>1
  <2>6. Push(f)
    BY DEF f
  <2> QED BY <1>1, <1>2, <1>3, <2>1, <2>2, <2>3, <2>4, <2>5, <2>6, PushParts
<1>5. TypeOK'
  <2>1. in_use' \in [Ids -> Nat]
    BY <1>2 DEF IInv, TypeOK
  <2> QED BY <1>2, <1>4, <2>1 DEF IInv, TypeOK
<1>6. OneEntryEach'
  BY <1>2 DEF IInv, OneEntryEach
<1>7. EntriesAreLive'
  BY <1>2, <1>4 DEF IInv, EntriesAreLive
<1>8. StartsAreNew'
  <2> SUFFICES ASSUME NEW m \in Ids, NEW k \in 1 .. Depth', stack'[k].kind = "start", stack'[k].id = m
               PROVE  /\ ~Listed(m)'
                      /\ in_use'[m] = 0
                      /\ status'[m] = IF stack'[k].at = "occupied" THEN "live" ELSE "reserved"
                      /\ stack'[k].at = "occupied" => k = Depth'
                      /\ Fitting(m)'
    BY DEF StartsAreNew, Starts
  <2>1. k \in 1 .. Depth /\ stack'[k] = stack[k] /\ stack[k].at # "occupied"
    BY <1>1, <1>4, HostIsOnTop DEF Publishes, Starts
  <2>2. ~Listed(m) /\ in_use[m] = 0 /\ status[m] = "reserved" /\ Fitting(m)
    BY <2>1 DEF IInv, StartsAreNew, Starts
  <2>3. m # n
    BY <1>2, <2>2 DEF Occupied
  <2>4. in_use'[m] = 0
    BY <1>2, <2>2, <2>3 DEF IInv, TypeOK
  <2> QED BY <1>2, <2>1, <2>2, <2>4 DEF Listed, Fitting
<1>9. FreesAreDead'
  BY <1>1, <1>2, <1>4 DEF IInv, FreesAreDead
<1>10. CallsAreAlive'
  BY <1>1, <1>2, <1>4 DEF IInv, CallsAreAlive, Occupied
<1>11. SettledAreListed'
  <2>1. \A m \in Ids : Settled(m)' => Settled(m)
    BY <1>2, <1>4 DEF Settled, Occupied, Publishes, Starts
  <2> QED BY <1>2, <2>1 DEF IInv, SettledAreListed, Listed
<1>12. ClosingIsCalled'
  BY <1>2, <1>4 DEF IInv, ClosingIsCalled
<1>13. \A m \in Ids : in_use'[m] = Cardinality(CallsOf(m)') + (IF HasFacade(m)' THEN 1 ELSE 0)
  <2> TAKE m \in Ids
  <2>1. in_use[m] = Cardinality(CallsOf(m)) + (IF HasFacade(m) THEN 1 ELSE 0)
    BY DEF IInv, CountsAreHolders
  <2>2. HasFacade(m)' <=> HasFacade(m)
    BY <1>2 DEF HasFacade
  <2>3. Cardinality(CallsOf(m)) \in Nat
    BY Finite DEF IInv
  <2>4. in_use'[m] = in_use[m] + One(m = n)
    BY <1>2 DEF One, IInv, TypeOK
  <2>5. Cardinality(CallsOf(m)') = Cardinality(CallsOf(m)) + One(m = n)
    BY <1>1, <1>4 DEF One
  <2> QED BY <2>1, <2>2, <2>3, <2>4, <2>5 DEF One
<1> QED
  BY <1>4, <1>5, <1>6, <1>7, <1>8, <1>9, <1>10, <1>11, <1>12, <1>13 DEF IInv, CountsAreHolders

LEMMA PopParts ==
  ASSUME IInv, stack # << >>, Pop,
         executions' = executions - One(HoldsGuard(Top)), UNCHANGED <<readers, writer>>,
         world' = world \/ (HoldsWorld(Top) /\ world' = "gone"),
         world' = "gone" => instances' = << >>
  PROVE  /\ stack' \in Seq(Frames)
         /\ Depth \in 1 .. Depth /\ Depth \in Nat /\ Depth' = Depth - 1 /\ Top = stack[Depth] /\ Top \in Frames
         /\ \A k \in 1 .. Depth' : k \in 1 .. Depth /\ k # Depth /\ stack'[k] = stack[k]
         /\ \A k \in 1 .. Depth : k # Depth => k \in 1 .. Depth' /\ stack'[k] = stack[k]
         /\ executions' \in Nat /\ executions' = Cardinality(Guards')
         /\ WorldOwned' /\ FrameIds' /\ GuestsAreGuarded' /\ ViewsAreAlone'
<1>1. /\ Depth \in Nat /\ Depth > 0 /\ Depth \in 1 .. Depth /\ Top = stack[Depth] /\ Top \in Frames
      /\ stack' \in Seq(Frames) /\ Shrunk
  BY PopShape, StackShape DEF IInv, Top, Depth
<1>2. /\ Depth' = Depth - 1
      /\ \A k \in 1 .. Depth' : k \in 1 .. Depth /\ k # Depth /\ stack'[k] = stack[k]
      /\ \A k \in 1 .. Depth : k # Depth => k \in 1 .. Depth' /\ stack'[k] = stack[k]
  BY <1>1 DEF Shrunk
<1>3. executions' = Cardinality(Guards') /\ executions' \in Nat
  <2>1. Cardinality(Guards') = Cardinality(Guards) - One(HoldsGuard(Top))
    BY PopCounts DEF IInv
  <2>2. executions = Cardinality(Guards) /\ executions \in Nat
    BY DEF IInv, CountsAreHolders, TypeOK
  <2>3. HoldsGuard(Top) => executions # 0
    <3>1. HoldsGuard(Top) => Depth \in Guards
      BY <1>1, StackShape DEF Guards, IInv
    <3> QED BY <2>2, <3>1, Finite, FS_EmptySet DEF IInv
  <2> QED BY <2>1, <2>2, <2>3 DEF One
<1>4. WorldOwned'
  <2>1. \A j, k \in 1 .. Depth' : HoldsWorld(stack'[j]) /\ HoldsWorld(stack'[k]) => j = k
    BY <1>2 DEF IInv, WorldOwned
  <2>2. CASE world' = world
    BY <1>2, <2>1, <2>2 DEF IInv, WorldOwned
  <2>3. CASE HoldsWorld(Top) /\ world' = "gone"
    <3>1. \A k \in 1 .. Depth' : ~HoldsWorld(stack'[k])
      BY <1>1, <1>2, <2>3 DEF IInv, WorldOwned
    <3> QED BY <2>1, <2>3, <3>1 DEF WorldOwned, HoldsWorld
  <2> QED BY <2>2, <2>3
<1>5. FrameIds'
  <2> SUFFICES ASSUME NEW k \in 1 .. Depth'
               PROVE  IF stack'[k].kind # "drop" THEN stack'[k].id \in Ids
                      ELSE /\ stack'[k].at \in {"run", "dtor"}
                           /\ stack'[k].at = "run" \/ world' = "fields" => stack'[k].id = None
    BY DEF FrameIds
  <2>1. k \in 1 .. Depth /\ stack'[k] = stack[k]
    BY <1>2
  <2> QED BY <2>1 DEF IInv, FrameIds
<1>6. GuestsAreGuarded'
  <2> SUFFICES ASSUME NEW k \in 1 .. Depth', stack'[k].kind = "guest"
               PROVE  \E j \in 1 .. k - 1 : HoldsGuard(stack'[j])
    BY DEF GuestsAreGuarded
  <2>1. \E j \in 1 .. k - 1 : HoldsGuard(stack[j])
    BY <1>2 DEF IInv, GuestsAreGuarded
  <2>2. \A j \in 1 .. k - 1 : stack'[j] = stack[j]
    BY <1>1, <1>2
  <2> QED BY <2>1, <2>2
<1>7. ViewsAreAlone'
  <2>1. One(HoldsGuard(Top)) \in {0, 1}
    BY DEF One
  <2>2. executions = 0 => executions' = 0
    BY <1>3, <2>1
  <2> QED BY <2>2 DEF IInv, ViewsAreAlone, NoViews
<1> QED BY <1>1, <1>2, <1>3, <1>4, <1>5, <1>6, <1>7

LEMMA EndCallStep ==
  ASSUME IInv, stack # << >>, Top.kind \in Calls, Pop, LeaveIfGuarded,
         UNCHANGED <<status, tierOf, instances, world, tier>>,
         in_use' = IF HoldsToken(Top) THEN [in_use EXCEPT ![Top.id] = in_use[Top.id] - 1] ELSE in_use,
         HoldsToken(Top) => ~(in_use[Top.id] = 1 /\ status[Top.id] = "closing")
  PROVE  IInv'
<1>1. executions' = executions - One(HoldsGuard(Top)) /\ UNCHANGED <<readers, writer>>
  BY DEF IInv, TypeOK, LeaveIfGuarded, Leave, borrowVars, One
<1>2. /\ stack' \in Seq(Frames)
      /\ Depth \in 1 .. Depth /\ Depth' = Depth - 1 /\ Top = stack[Depth] /\ Top \in Frames
      /\ \A k \in 1 .. Depth' : k \in 1 .. Depth /\ k # Depth /\ stack'[k] = stack[k]
      /\ \A k \in 1 .. Depth : k # Depth => k \in 1 .. Depth' /\ stack'[k] = stack[k]
      /\ executions' \in Nat /\ executions' = Cardinality(Guards')
      /\ WorldOwned' /\ FrameIds' /\ GuestsAreGuarded' /\ ViewsAreAlone'
  BY <1>1, PopParts DEF IInv, WorldOwned
<1>3. Top.id \in Ids
  BY <1>2 DEF IInv, FrameIds, Calls
<1>4. \A m \in Ids :
        /\ Cardinality(CallsOf(m)') = Cardinality(CallsOf(m)) - One(HoldsToken(Top) /\ Top.id = m)
        /\ CallsOf(m)' = CallsOf(m) \ {Depth}
        /\ (Depth \in CallsOf(m) <=> HoldsToken(Top) /\ Top.id = m)
        /\ Cardinality(CallsOf(m)) \in Nat /\ Cardinality(CallsOf(m)') \in Nat /\ IsFiniteSet(CallsOf(m)')
  <2> TAKE m \in Ids
  <2>1. IsFiniteSet(CallsOf(m)) /\ IsFiniteSet(CallsOf(m) \ {Depth})
    BY Finite, FS_RemoveElement DEF IInv
  <2>2. CallsOf(m)' = CallsOf(m) \ {Depth}
    BY PopCounts DEF IInv
  <2>3. Depth \in CallsOf(m) <=> HoldsToken(Top) /\ Top.id = m
    BY <1>2, StackShape DEF CallsOf, IInv
  <2>4. Cardinality(CallsOf(m)) \in Nat /\ Cardinality(CallsOf(m)') \in Nat
    BY <2>1, <2>2, FS_CardinalityType
  <2>5. Cardinality(CallsOf(m)') = Cardinality(CallsOf(m)) - One(HoldsToken(Top) /\ Top.id = m)
    BY PopCounts DEF IInv
  <2> QED BY <2>1, <2>2, <2>3, <2>4, <2>5
<1>5. \A m \in Ids : in_use'[m] = in_use[m] - One(HoldsToken(Top) /\ Top.id = m)
  BY <1>3 DEF IInv, TypeOK, One
<1>6. \A m \in Ids : HasFacade(m)' <=> HasFacade(m)
  BY DEF HasFacade
<1>7. \A m \in Ids : in_use'[m] = Cardinality(CallsOf(m)') + (IF HasFacade(m)' THEN 1 ELSE 0)
  <2> TAKE m \in Ids
  <2>1. in_use[m] = Cardinality(CallsOf(m)) + (IF HasFacade(m) THEN 1 ELSE 0)
    BY DEF IInv, CountsAreHolders
  <2> QED BY <1>4, <1>5, <1>6, <2>1 DEF One
<1>8. in_use' \in [Ids -> Nat]
  <2>1. \A m \in Ids : in_use'[m] \in Nat
    BY <1>4, <1>7
  <2> QED BY <2>1 DEF IInv, TypeOK
<1>9. TypeOK'
  BY <1>1, <1>2, <1>8 DEF IInv, TypeOK
<1>10. OneEntryEach'
  BY DEF IInv, OneEntryEach
<1>11. EntriesAreLive'
  <2>1. ~(Top.kind \in {"free", "drop"})
    BY DEF Calls
  <2> QED BY <1>2, <2>1 DEF IInv, EntriesAreLive
<1>12. StartsAreNew'
  <2> SUFFICES ASSUME NEW m \in Ids, NEW k \in 1 .. Depth', stack'[k].kind = "start", stack'[k].id = m
               PROVE  /\ ~Listed(m)'
                      /\ in_use'[m] = 0
                      /\ status'[m] = IF stack'[k].at = "occupied" THEN "live" ELSE "reserved"
                      /\ stack'[k].at = "occupied" => k = Depth'
                      /\ Fitting(m)'
    BY DEF StartsAreNew, Starts
  <2>1. k \in 1 .. Depth /\ stack'[k] = stack[k] /\ k # Depth
    BY <1>2
  <2>2. ~Listed(m) /\ in_use[m] = 0 /\ status[m] = "reserved" /\ stack[k].at # "occupied" /\ Fitting(m)
    BY <2>1 DEF IInv, StartsAreNew, Starts
  <2>3. HoldsToken(Top) => Top.id # m
    BY <1>2, <2>2 DEF IInv, CallsAreAlive, Occupied
  <2>4. in_use'[m] = 0
    BY <1>5, <2>2, <2>3 DEF One
  <2> QED BY <2>1, <2>2, <2>4 DEF Listed, Fitting
<1>13. FreesAreDead'
  BY <1>2 DEF IInv, FreesAreDead
<1>14. CallsAreAlive'
  BY <1>2 DEF IInv, CallsAreAlive, Occupied
<1>15. SettledAreListed'
  <2>1. \A m \in Ids : Settled(m)' => Settled(m)
    BY <1>2 DEF Settled, Occupied, Publishes, Starts, Calls
  <2> QED BY <2>1 DEF IInv, SettledAreListed, Listed
<1>16. ClosingIsCalled'
  <2> SUFFICES ASSUME NEW m \in Ids, status'[m] = "closing" PROVE CallsOf(m)' # {}
    BY DEF ClosingIsCalled
  <2>1. CallsOf(m) # {}
    BY DEF IInv, ClosingIsCalled
  <2>2. CASE HoldsToken(Top) /\ Top.id = m
    <3>1. ~HasFacade(m)
      BY EntryShape DEF IInv, EntriesAreLive, HasFacade
    <3>2. in_use'[m] # 0
      BY <1>5, <2>2 DEF IInv, TypeOK, One
    <3>3. CallsOf(m)' = {} => Cardinality(CallsOf(m)') = 0
      BY FS_EmptySet
    <3>4. in_use'[m] = Cardinality(CallsOf(m)') + (IF HasFacade(m)' THEN 1 ELSE 0)
      BY <1>7
    <3>5. ~HasFacade(m)' /\ Cardinality(CallsOf(m)') \in Nat
      BY <1>4, <1>6, <3>1
    <3>6. in_use'[m] = Cardinality(CallsOf(m)')
      BY <3>4, <3>5
    <3> QED BY <3>2, <3>3, <3>6
  <2>3. CASE ~(HoldsToken(Top) /\ Top.id = m)
    BY <1>4, <2>1, <2>3
  <2> QED BY <2>2, <2>3
<1> QED
  BY <1>2, <1>7, <1>9, <1>10, <1>11, <1>12, <1>13, <1>14, <1>15, <1>16 DEF IInv, CountsAreHolders

-----------------------------------------------------------------------------
(* Changes of the top frame.                                                 *)

LEMMA ReplaceParts ==
  ASSUME IInv, stack # << >>, NEW f \in Frames, Replaced(f), stack' \in Seq(Frames),
         f.kind = Top.kind, ~HoldsToken(f),
         UNCHANGED <<executions, readers, writer, world>>,
         world = "gone" => instances' = << >>,
         IF f.kind # "drop" THEN f.id \in Ids
         ELSE f.at \in {"run", "dtor"} /\ (f.at = "run" \/ world = "fields" => f.id = None)
  PROVE  /\ Depth \in 1 .. Depth /\ Depth' = Depth /\ Top = stack[Depth] /\ Top \in Frames
         /\ \A k \in 1 .. Depth : k # Depth => stack'[k] = stack[k]
         /\ stack'[Depth] = f
         /\ executions' \in Nat /\ executions' = Cardinality(Guards')
         /\ WorldOwned' /\ FrameIds' /\ GuestsAreGuarded' /\ ViewsAreAlone'
         /\ \A m \in Ids :
              /\ Cardinality(CallsOf(m)') = Cardinality(CallsOf(m)) - One(HoldsToken(Top) /\ Top.id = m)
              /\ CallsOf(m)' = CallsOf(m) \ {Depth}
              /\ Depth \in CallsOf(m) <=> HoldsToken(Top) /\ Top.id = m
              /\ Cardinality(CallsOf(m)) \in Nat /\ Cardinality(CallsOf(m)') \in Nat
              /\ IsFiniteSet(CallsOf(m)')
<1>1. Depth \in 1 .. Depth /\ Depth' = Depth /\ Top = stack[Depth] /\ Top \in Frames
  BY StackShape DEF IInv, Top, Depth, Replaced
<1>2. stack'[Depth] = f /\ \A k \in 1 .. Depth : k # Depth => stack'[k] = stack[k]
  BY DEF Replaced
<1>3. (HoldsGuard(f) <=> HoldsGuard(Top)) /\ (HoldsWorld(f) <=> HoldsWorld(Top))
  BY DEF HoldsGuard, HoldsWorld
<1>4. \A m \in Ids :
              /\ Cardinality(CallsOf(m)') = Cardinality(CallsOf(m)) - One(HoldsToken(Top) /\ Top.id = m)
              /\ CallsOf(m)' = CallsOf(m) \ {Depth}
              /\ Depth \in CallsOf(m) <=> HoldsToken(Top) /\ Top.id = m
              /\ Cardinality(CallsOf(m)) \in Nat /\ Cardinality(CallsOf(m)') \in Nat
              /\ IsFiniteSet(CallsOf(m)')
  <2> TAKE m \in Ids
  <2>1. IsFiniteSet(CallsOf(m)) /\ IsFiniteSet(CallsOf(m) \ {Depth})
    BY Finite, FS_RemoveElement DEF IInv
  <2>2. CallsOf(m)' = CallsOf(m) \ {Depth}
    BY <1>3, ReplaceCounts DEF IInv
  <2>3. Depth \in CallsOf(m) <=> HoldsToken(Top) /\ Top.id = m
    BY <1>1, StackShape DEF CallsOf, IInv
  <2>4. Cardinality(CallsOf(m)) \in Nat /\ Cardinality(CallsOf(m)') \in Nat
    BY <2>1, <2>2, FS_CardinalityType
  <2>5. Cardinality(CallsOf(m)') = Cardinality(CallsOf(m)) - One(HoldsToken(Top) /\ Top.id = m)
    BY <1>3, ReplaceCounts DEF IInv
  <2> QED BY <2>1, <2>2, <2>3, <2>4, <2>5
<1>5. executions' \in Nat /\ executions' = Cardinality(Guards')
  <2>1. Guards' = Guards
    BY <1>3, ReplaceCounts DEF IInv
  <2> QED BY <2>1 DEF IInv, CountsAreHolders, TypeOK
<1>6. WorldOwned'
  <2>1. \A j, k \in 1 .. Depth' : HoldsWorld(stack'[j]) /\ HoldsWorld(stack'[k]) => j = k
    <3>1. \A k \in 1 .. Depth : HoldsWorld(stack'[k]) <=> HoldsWorld(stack[k])
      BY <1>1, <1>2, <1>3
    <3> QED BY <1>1, <3>1 DEF IInv, WorldOwned
  <2>2. \A k \in 1 .. Depth : stack'[k].kind = stack[k].kind
    BY <1>1, <1>2
  <2> QED BY <1>1, <2>1, <2>2 DEF IInv, WorldOwned
<1>7. FrameIds'
  <2> SUFFICES ASSUME NEW k \in 1 .. Depth
               PROVE  IF stack'[k].kind # "drop" THEN stack'[k].id \in Ids
                      ELSE /\ stack'[k].at \in {"run", "dtor"}
                           /\ stack'[k].at = "run" \/ world' = "fields" => stack'[k].id = None
    BY <1>1 DEF FrameIds
  <2>1. CASE k = Depth
    BY <1>2, <2>1
  <2>2. CASE k # Depth
    BY <1>2, <2>2 DEF IInv, FrameIds
  <2> QED BY <2>1, <2>2
<1>8. GuestsAreGuarded'
  <2> SUFFICES ASSUME NEW k \in 1 .. Depth, stack'[k].kind = "guest"
               PROVE  \E j \in 1 .. k - 1 : HoldsGuard(stack'[j])
    BY <1>1 DEF GuestsAreGuarded
  <2>1. stack[k].kind = "guest"
    BY <1>1, <1>2
  <2>2. \E j \in 1 .. k - 1 : HoldsGuard(stack[j])
    BY <2>1 DEF IInv, GuestsAreGuarded
  <2>3. \A j \in 1 .. k - 1 : stack'[j] = stack[j]
    BY <1>1, <1>2
  <2> QED BY <2>2, <2>3
<1>9. ViewsAreAlone'
  BY DEF IInv, ViewsAreAlone, NoViews
<1> QED BY <1>1, <1>2, <1>4, <1>5, <1>6, <1>7, <1>8, <1>9

\* A call destroys the instance it was the last to hold.
LEMMA ReturnReclaimsStep == ASSUME IInv, ReturnReclaims PROVE IInv'
<1>1. /\ stack # << >> /\ Top.kind \in Calls /\ Top.at = "run" /\ HoldsToken(Top)
      /\ in_use[Top.id] = 1 /\ status[Top.id] = "closing"
      /\ in_use' = [in_use EXCEPT ![Top.id] = in_use[Top.id] - 1]
      /\ status' = [status EXCEPT ![Top.id] = "dead"]
      /\ MoveTop("dtor")
      /\ UNCHANGED <<tierOf, instances, world, tier, executions, readers, writer>>
  BY DEF ReturnReclaims, HoldsToken, worldVars, borrowVars
<1> DEFINE f == Frame(Top.kind, Top.id, "dtor")
<1>2. /\ Top \in Frames /\ Top = stack[Depth] /\ Depth \in 1 .. Depth /\ Top.id \in Ids
      /\ "dtor" \in Stages
  BY <1>1, StackShape DEF IInv, Top, Depth, FrameIds, Calls, Stages
<1>3. /\ f \in Frames /\ f.kind = Top.kind /\ f.id = Top.id /\ f.at = "dtor" /\ ~HoldsToken(f)
      /\ f.kind # "drop"
  BY <1>1, <1>2 DEF Frames, Frame, HoldsToken, Calls
<1>4. stack' \in Seq(Frames) /\ Replaced(f)
  BY <1>1, <1>2, MoveShape DEF IInv
<1> HIDE DEF f
<1>5. /\ Depth' = Depth
      /\ \A k \in 1 .. Depth : k # Depth => stack'[k] = stack[k]
      /\ stack'[Depth] = f
      /\ executions' \in Nat /\ executions' = Cardinality(Guards')
      /\ WorldOwned' /\ FrameIds' /\ GuestsAreGuarded' /\ ViewsAreAlone'
  BY <1>1, <1>2, <1>3, <1>4, ReplaceParts DEF IInv, WorldOwned
<1>6. \A m \in Ids :
        /\ Cardinality(CallsOf(m)') = Cardinality(CallsOf(m)) - One(HoldsToken(Top) /\ Top.id = m)
        /\ CallsOf(m)' = CallsOf(m) \ {Depth}
        /\ Depth \in CallsOf(m) <=> HoldsToken(Top) /\ Top.id = m
        /\ Cardinality(CallsOf(m)) \in Nat /\ Cardinality(CallsOf(m)') \in Nat
        /\ IsFiniteSet(CallsOf(m)')
  BY <1>1, <1>2, <1>3, <1>4, ReplaceParts DEF IInv, WorldOwned
<1>7. \A m \in Ids : in_use'[m] = in_use[m] - One(m = Top.id)
  BY <1>1, <1>2 DEF IInv, TypeOK, One
<1>8. \A m \in Ids : in_use'[m] = Cardinality(CallsOf(m)') + (IF HasFacade(m)' THEN 1 ELSE 0)
  <2> TAKE m \in Ids
  <2>1. in_use[m] = Cardinality(CallsOf(m)) + (IF HasFacade(m) THEN 1 ELSE 0)
    BY DEF IInv, CountsAreHolders
  <2>2. HasFacade(m)' <=> HasFacade(m)
    BY <1>1 DEF HasFacade
  <2>3. One(HoldsToken(Top) /\ Top.id = m) = One(m = Top.id) /\ One(m = Top.id) \in Nat
    BY <1>1 DEF One
  <2>4. in_use'[m] = in_use[m] - One(m = Top.id) /\ in_use[m] \in Nat
    BY <1>7 DEF IInv, TypeOK
  <2>5. Cardinality(CallsOf(m)') = Cardinality(CallsOf(m)) - One(m = Top.id)
    BY <1>6, <2>3
  <2>6. Cardinality(CallsOf(m)) \in Nat
    BY <1>6
  <2> QED BY <2>1, <2>2, <2>3, <2>4, <2>5, <2>6
<1>9. in_use' \in [Ids -> Nat]
  <2>1. \A m \in Ids : in_use'[m] \in Nat
    BY <1>6, <1>8
  <2> QED BY <1>1, <2>1 DEF IInv, TypeOK
<1>10. TypeOK'
  BY <1>1, <1>2, <1>4, <1>5, <1>9 DEF IInv, TypeOK
<1>11. ~Listed(Top.id)
  BY <1>1, EntryShape DEF IInv, EntriesAreLive, Listed
<1>12. \A k \in 1 .. Len(instances) : instances[k].id \in Ids /\ instances[k].id # Top.id
  BY <1>11, EntryShape DEF IInv, Listed
<1>13. EntriesAreLive'
  <2>1. \A k \in 1 .. Len(instances) : status'[instances[k].id] = status[instances[k].id]
    BY <1>1, <1>2, <1>12 DEF IInv, TypeOK
  <2>2. ~(Top.kind \in {"free", "drop"})
    BY <1>1 DEF Calls
  <2> QED BY <1>1, <1>2, <1>5, <2>1, <2>2 DEF IInv, EntriesAreLive
<1>14. StartsAreNew'
  <2> SUFFICES ASSUME NEW m \in Ids, NEW k \in 1 .. Depth, stack'[k].kind = "start", stack'[k].id = m
               PROVE  /\ ~Listed(m)'
                      /\ in_use'[m] = 0
                      /\ status'[m] = IF stack'[k].at = "occupied" THEN "live" ELSE "reserved"
                      /\ stack'[k].at = "occupied" => k = Depth'
                      /\ Fitting(m)'
    BY <1>5 DEF StartsAreNew, Starts
  <2>1. stack'[k] = stack[k] /\ k # Depth
    BY <1>1, <1>3, <1>5 DEF Calls
  <2>2. /\ ~Listed(m) /\ in_use[m] = 0 /\ Fitting(m)
        /\ status[m] = "reserved" /\ stack[k].at # "occupied"
    BY <2>1 DEF IInv, StartsAreNew, Starts
  <2>3. m # Top.id
    BY <1>1, <2>2
  <2>4. in_use'[m] = 0 /\ status'[m] = "reserved"
    BY <1>1, <2>2, <2>3 DEF IInv, TypeOK
  <2> QED BY <1>1, <2>1, <2>2, <2>4 DEF Listed, Fitting
<1>15. FreesAreDead'
  <2> SUFFICES ASSUME NEW k \in 1 .. Depth, stack'[k].kind \in {"free", "drop"}, stack'[k].id # None
               PROVE  status'[stack'[k].id] = "dead"
    BY <1>5 DEF FreesAreDead
  <2>1. stack'[k] = stack[k] /\ stack[k] \in Frames
    BY <1>1, <1>3, <1>5, StackShape DEF IInv, Calls
  <2>2. status[stack[k].id] = "dead" /\ stack[k].id \in Ids
    BY <2>1 DEF IInv, FreesAreDead, Frames
  <2> QED BY <1>1, <2>1, <2>2 DEF IInv, TypeOK
<1>16. CallsAreAlive'
  <2>0. PICK d \in Ids : d = Top.id
    BY <1>2
  <2>1. CallsOf(d)' = {}
    <3>1. in_use'[d] = 0
      BY <1>1, <1>7, <2>0 DEF One
    <3>2. in_use'[d] = Cardinality(CallsOf(d)') + (IF HasFacade(d)' THEN 1 ELSE 0)
      BY <1>8
    <3>3. Cardinality(CallsOf(d)') \in Nat /\ IsFiniteSet(CallsOf(d)')
      BY <1>6
    <3>4. Cardinality(CallsOf(d)') = 0
      BY <3>1, <3>2, <3>3
    <3> QED BY <3>3, <3>4, FS_EmptySet
  <2> SUFFICES ASSUME NEW k \in 1 .. Depth, HoldsToken(stack'[k])
               PROVE  status'[stack'[k].id] \in {"live", "closing"}
    BY <1>5 DEF CallsAreAlive, Occupied
  <2>2. k # Depth /\ stack'[k] = stack[k]
    BY <1>3, <1>5
  <2>3. stack[k].id \in Ids
    BY <2>2 DEF IInv, FrameIds, HoldsToken, Calls
  <2>4. stack[k].id # Top.id
    <3>1. k \in CallsOf(stack[k].id)
      BY <2>2, StackShape DEF CallsOf, IInv
    <3>2. CallsOf(d) \ {Depth} = {}
      BY <1>6, <2>1
    <3> QED BY <2>0, <2>2, <3>1, <3>2
  <2> QED BY <1>1, <2>2, <2>3, <2>4 DEF IInv, CallsAreAlive, Occupied, TypeOK
<1>17. SettledAreListed'
  <2>1. ASSUME NEW m \in Ids, Settled(m)' PROVE Settled(m)
    <3>1. status'[m] = status[m]
      BY <1>1, <1>2, <2>1 DEF IInv, TypeOK, Settled, Occupied
    <3>2. \A k \in 1 .. Depth : Publishes(k) => k # Depth
      BY <1>1, <1>2 DEF Publishes, Starts, Calls
    <3> QED BY <1>5, <2>1, <3>1, <3>2 DEF Settled, Occupied, Publishes, Starts
  <2> QED BY <1>1, <2>1 DEF IInv, SettledAreListed, Listed
<1>18. ClosingIsCalled'
  <2> SUFFICES ASSUME NEW m \in Ids, status'[m] = "closing" PROVE CallsOf(m)' # {}
    BY DEF ClosingIsCalled
  <2>1. m # Top.id /\ status[m] = "closing"
    BY <1>1, <1>2 DEF IInv, TypeOK
  <2>2. CallsOf(m) # {}
    BY <2>1 DEF IInv, ClosingIsCalled
  <2> QED BY <1>6, <2>1, <2>2
<1>19. OneEntryEach'
  BY <1>1 DEF IInv, OneEntryEach
<1> QED
  BY <1>5, <1>8, <1>10, <1>13, <1>14, <1>15, <1>16, <1>17, <1>18, <1>19 DEF IInv, CountsAreHolders

-----------------------------------------------------------------------------
(* Instantiation.                                                            *)

\* The one start is at the top: its instance is on no list and in no call.
LEMMA StartIsTop ==
  ASSUME IInv, stack # << >>, Top.kind = "start"
  PROVE  /\ Depth \in 1 .. Depth /\ Top = stack[Depth] /\ Top \in Frames /\ Top.id \in Ids
         /\ \A k \in 1 .. Depth : k # Depth => stack[k].kind \notin {"start", "free", "drop", "invoke"}
         /\ ~Listed(Top.id) /\ ~HasFacade(Top.id) /\ in_use[Top.id] = 0 /\ Fitting(Top.id)
         /\ status[Top.id] = IF Top.at = "occupied" THEN "live" ELSE "reserved"
         /\ \A k \in 1 .. Depth : HoldsToken(stack[k]) => stack[k].id # Top.id
         /\ world = "open"
<1>1. Depth \in 1 .. Depth /\ Top = stack[Depth] /\ Top \in Frames
  BY StackShape DEF IInv, Top, Depth
<1>2. Top.id \in Ids
  BY <1>1 DEF IInv, FrameIds
<1>3. \A k \in 1 .. Depth : k # Depth => stack[k].kind \notin {"start", "free", "drop", "invoke"}
  BY <1>1 DEF IInv, WorldOwned, HoldsWorld
<1>4. /\ ~Listed(Top.id) /\ in_use[Top.id] = 0 /\ Fitting(Top.id)
      /\ status[Top.id] = IF Top.at = "occupied" THEN "live" ELSE "reserved"
  BY <1>1, <1>2 DEF IInv, StartsAreNew, Starts
<1>5. ~HasFacade(Top.id)
  BY <1>4 DEF HasFacade, Listed
<1>6. CallsOf(Top.id) = {}
  <2>1. in_use[Top.id] = Cardinality(CallsOf(Top.id)) + 0
    BY <1>2, <1>5 DEF IInv, CountsAreHolders
  <2> QED BY <1>4, <2>1, Finite, FS_EmptySet DEF IInv
<1>7. \A k \in 1 .. Depth : HoldsToken(stack[k]) => stack[k].id # Top.id
  BY <1>6, StackShape DEF IInv, CallsOf
<1>8. world = "open"
  BY <1>1 DEF IInv, WorldOwned
<1> QED BY <1>1, <1>2, <1>3, <1>4, <1>5, <1>7, <1>8

LEMMA StartMoves ==
  ASSUME IInv, stack # << >>, Top.kind = "start", Top.at # "occupied",
         NEW at \in {"run", "occupied"}, MoveTop(at),
         status' = IF at = "occupied" THEN [status EXCEPT ![Top.id] = "live"] ELSE status,
         UNCHANGED <<in_use, tierOf, instances, world, tier, executions, readers, writer>>
  PROVE  IInv'
<1>1. /\ Depth \in 1 .. Depth /\ Top = stack[Depth] /\ Top \in Frames /\ Top.id \in Ids
      /\ \A k \in 1 .. Depth : k # Depth => stack[k].kind \notin {"start", "free", "drop", "invoke"}
      /\ ~Listed(Top.id) /\ in_use[Top.id] = 0 /\ Fitting(Top.id)
      /\ status[Top.id] = "reserved"
      /\ \A k \in 1 .. Depth : HoldsToken(stack[k]) => stack[k].id # Top.id
      /\ at \in Stages
  BY StartIsTop DEF Stages
<1> DEFINE f == Frame(Top.kind, Top.id, at)
<1>2. /\ f \in Frames /\ f.kind = "start" /\ f.id = Top.id /\ f.at = at /\ ~HoldsToken(f)
  BY <1>1 DEF Frames, Frame, HoldsToken, Calls
<1>3. stack' \in Seq(Frames) /\ Replaced(f)
  BY <1>1, MoveShape DEF IInv
<1> HIDE DEF f
<1>4. ~HoldsToken(Top)
  BY DEF HoldsToken, Calls
<1>5. /\ Depth' = Depth
      /\ \A k \in 1 .. Depth : k # Depth => stack'[k] = stack[k]
      /\ stack'[Depth] = f
      /\ executions' \in Nat /\ executions' = Cardinality(Guards')
      /\ WorldOwned' /\ FrameIds' /\ GuestsAreGuarded' /\ ViewsAreAlone'
  BY <1>1, <1>2, <1>3, ReplaceParts DEF IInv, WorldOwned
<1>6. \A m \in Ids : CallsOf(m)' = CallsOf(m)
  <2> TAKE m \in Ids
  <2>1. CallsOf(m)' = CallsOf(m) \ {Depth} /\ (Depth \in CallsOf(m) <=> HoldsToken(Top) /\ Top.id = m)
    BY <1>1, <1>2, <1>3, ReplaceParts DEF IInv, WorldOwned
  <2> QED BY <1>4, <2>1
<1>7. \A m \in Ids : in_use'[m] = Cardinality(CallsOf(m)') + (IF HasFacade(m)' THEN 1 ELSE 0)
  <2> TAKE m \in Ids
  <2>1. HasFacade(m)' <=> HasFacade(m)
    BY DEF HasFacade
  <2>2. in_use[m] = Cardinality(CallsOf(m)) + (IF HasFacade(m) THEN 1 ELSE 0)
    BY DEF IInv, CountsAreHolders
  <2>3. Cardinality(CallsOf(m)') = Cardinality(CallsOf(m))
    BY <1>6
  <2> QED BY <2>1, <2>2, <2>3
<1>8. \A m \in Ids : m # Top.id => status'[m] = status[m]
  BY <1>1 DEF IInv, TypeOK
<1>9. TypeOK'
  BY <1>1, <1>3 DEF IInv, TypeOK
<1>10. EntriesAreLive'
  <2>1. \A k \in 1 .. Len(instances) : status'[instances[k].id] = status[instances[k].id]
    BY <1>1, <1>8, EntryShape DEF IInv, Listed
  <2>2. \A j \in 1 .. Depth : stack[j].kind \notin {"free", "drop"}
    BY <1>1
  <2> QED BY <2>1, <2>2 DEF IInv, EntriesAreLive
<1>11. StartsAreNew'
  <2> SUFFICES ASSUME NEW m \in Ids, NEW k \in 1 .. Depth, stack'[k].kind = "start", stack'[k].id = m
               PROVE  /\ ~Listed(m)'
                      /\ in_use'[m] = 0
                      /\ status'[m] = IF stack'[k].at = "occupied" THEN "live" ELSE "reserved"
                      /\ stack'[k].at = "occupied" => k = Depth'
                      /\ Fitting(m)'
    BY <1>5 DEF StartsAreNew, Starts
  <2>1. k = Depth /\ m = Top.id
    BY <1>1, <1>2, <1>5
  <2>2. status'[m] = IF at = "occupied" THEN "live" ELSE "reserved"
    BY <1>1, <2>1 DEF IInv, TypeOK
  <2>3. ~Listed(m) /\ in_use[m] = 0 /\ Fitting(m)
    BY <1>1, <2>1
  <2> QED BY <1>2, <1>5, <2>1, <2>2, <2>3 DEF Listed, Fitting
<1>12. FreesAreDead'
  BY <1>1, <1>2, <1>5 DEF FreesAreDead
<1>13. CallsAreAlive'
  <2> SUFFICES ASSUME NEW k \in 1 .. Depth, HoldsToken(stack'[k])
               PROVE  status'[stack'[k].id] \in {"live", "closing"}
    BY <1>5 DEF CallsAreAlive, Occupied
  <2>1. k # Depth /\ stack'[k] = stack[k]
    BY <1>2, <1>5
  <2>2. stack[k].id \in Ids /\ stack[k].id # Top.id
    BY <1>1, <2>1 DEF IInv, FrameIds, HoldsToken, Calls
  <2> QED BY <1>8, <2>1, <2>2 DEF IInv, CallsAreAlive, Occupied
<1>14. SettledAreListed'
  <2>1. ASSUME NEW m \in Ids, Settled(m)' PROVE Settled(m)
    <3>1. m # Top.id
      <4>1. CASE at = "occupied"
        BY <1>1, <1>2, <1>5, <2>1, <4>1 DEF Settled, Publishes, Starts
      <4>2. CASE at = "run"
        BY <1>1, <2>1, <4>2 DEF Settled, Occupied
      <4> QED BY <4>1, <4>2
    <3>2. \A k \in 1 .. Depth : ~Publishes(k)
      BY <1>1 DEF Publishes, Starts
    <3> QED BY <1>8, <2>1, <3>1, <3>2 DEF Settled, Occupied
  <2> QED BY <2>1 DEF IInv, SettledAreListed, Listed
<1>15. ClosingIsCalled'
  <2> SUFFICES ASSUME NEW m \in Ids, status'[m] = "closing" PROVE CallsOf(m)' # {}
    BY DEF ClosingIsCalled
  <2>1. status[m] = "closing"
    BY <1>1 DEF IInv, TypeOK
  <2> QED BY <1>6, <2>1 DEF IInv, ClosingIsCalled
<1>16. OneEntryEach'
  BY DEF IInv, OneEntryEach
<1> QED
  BY <1>5, <1>7, <1>9, <1>10, <1>11, <1>12, <1>13, <1>14, <1>15, <1>16 DEF IInv, CountsAreHolders

LEMMA RunStartStep == ASSUME IInv, RunStart PROVE IInv'
<1>1. /\ stack # << >> /\ Top.kind = "start" /\ Top.at = "build" /\ MoveTop("run")
      /\ UNCHANGED <<status, in_use, tierOf, instances, world, tier, executions, readers, writer>>
  BY DEF RunStart, TopIs, tableVars, worldVars, borrowVars
<1> QED BY <1>1, StartMoves

LEMMA OccupySlotStep == ASSUME IInv, OccupySlot PROVE IInv'
<1>1. /\ stack # << >> /\ Top.kind = "start" /\ Top.at # "occupied" /\ MoveTop("occupied")
      /\ status' = [status EXCEPT ![Top.id] = "live"]
      /\ UNCHANGED <<in_use, tierOf, instances, world, tier, executions, readers, writer>>
  BY DEF OccupySlot, TopIs, worldVars, borrowVars
<1> QED BY <1>1, StartMoves

LEMMA AbandonStep == ASSUME IInv, Abandon PROVE IInv'
<1>1. /\ stack # << >> /\ Top.kind = "start" /\ Top.at = "build" /\ Pop
      /\ status' = [status EXCEPT ![Top.id] = "dead"]
      /\ executions' = executions - 1
      /\ UNCHANGED <<in_use, tierOf, instances, world, tier, readers, writer>>
  BY DEF Abandon, TopIs, Leave, worldVars
<1>2. /\ Depth \in 1 .. Depth /\ Top = stack[Depth] /\ Top \in Frames /\ Top.id \in Ids
      /\ \A k \in 1 .. Depth : k # Depth => stack[k].kind \notin {"start", "free", "drop", "invoke"}
      /\ ~Listed(Top.id) /\ status[Top.id] = "reserved"
      /\ \A k \in 1 .. Depth : HoldsToken(stack[k]) => stack[k].id # Top.id
  BY <1>1, StartIsTop
<1>3. HoldsGuard(Top) /\ ~HoldsToken(Top) /\ One(HoldsGuard(Top)) = 1
  BY <1>1 DEF HoldsToken, HoldsGuard, Calls, One
<1>4. /\ stack' \in Seq(Frames)
      /\ \A k \in 1 .. Depth' : k \in 1 .. Depth /\ k # Depth /\ stack'[k] = stack[k]
      /\ \A k \in 1 .. Depth : k # Depth => k \in 1 .. Depth' /\ stack'[k] = stack[k]
      /\ executions' \in Nat /\ executions' = Cardinality(Guards')
      /\ WorldOwned' /\ FrameIds' /\ GuestsAreGuarded' /\ ViewsAreAlone'
  BY <1>1, <1>3, PopParts DEF IInv, WorldOwned
<1>5. \A m \in Ids : CallsOf(m)' = CallsOf(m)
  <2> TAKE m \in Ids
  <2>1. CallsOf(m)' = CallsOf(m) \ {Depth}
    BY <1>1, PopCounts DEF IInv
  <2>2. Depth \notin CallsOf(m)
    BY <1>2, <1>3 DEF CallsOf
  <2> QED BY <2>1, <2>2
<1>6. \A m \in Ids : in_use'[m] = Cardinality(CallsOf(m)') + (IF HasFacade(m)' THEN 1 ELSE 0)
  <2> TAKE m \in Ids
  <2>1. HasFacade(m)' <=> HasFacade(m)
    BY <1>1 DEF HasFacade
  <2>2. in_use[m] = Cardinality(CallsOf(m)) + (IF HasFacade(m) THEN 1 ELSE 0)
    BY DEF IInv, CountsAreHolders
  <2>3. Cardinality(CallsOf(m)') = Cardinality(CallsOf(m))
    BY <1>5
  <2> QED BY <1>1, <2>1, <2>2, <2>3
<1>7. \A m \in Ids : status'[m] = IF m = Top.id THEN "dead" ELSE status[m]
  BY <1>1, <1>2 DEF IInv, TypeOK
<1>8. TypeOK'
  BY <1>1, <1>2, <1>4 DEF IInv, TypeOK
<1>9. EntriesAreLive'
  <2>1. \A k \in 1 .. Len(instances) : status'[instances[k].id] = status[instances[k].id]
    BY <1>2, <1>7, EntryShape DEF IInv, Listed
  <2> QED BY <1>1, <1>2, <1>4, <2>1 DEF IInv, EntriesAreLive
<1>10. StartsAreNew' /\ FreesAreDead'
  BY <1>2, <1>4 DEF StartsAreNew, FreesAreDead, Starts
<1>11. CallsAreAlive'
  <2> SUFFICES ASSUME NEW k \in 1 .. Depth', HoldsToken(stack'[k])
               PROVE  status'[stack'[k].id] \in {"live", "closing"}
    BY DEF CallsAreAlive, Occupied
  <2>1. k \in 1 .. Depth /\ stack'[k] = stack[k]
    BY <1>4
  <2>2. stack[k].id \in Ids /\ stack[k].id # Top.id
    BY <1>2, <2>1 DEF IInv, FrameIds, HoldsToken, Calls
  <2> QED BY <1>7, <2>1, <2>2 DEF IInv, CallsAreAlive, Occupied
<1>12. SettledAreListed'
  <2>1. ASSUME NEW m \in Ids, Settled(m)' PROVE Settled(m)
    <3>1. status'[m] = status[m] /\ Occupied(m)
      BY <1>7, <2>1 DEF Settled, Occupied
    <3>2. \A k \in 1 .. Depth : ~Publishes(k)
      BY <1>1, <1>2 DEF Publishes, Starts
    <3> QED BY <3>1, <3>2 DEF Settled
  <2> QED BY <1>1, <2>1 DEF IInv, SettledAreListed, Listed
<1>13. ClosingIsCalled'
  BY <1>5, <1>7 DEF IInv, ClosingIsCalled
<1>14. OneEntryEach'
  BY <1>1 DEF IInv, OneEntryEach
<1> QED
  BY <1>4, <1>6, <1>8, <1>9, <1>10, <1>11, <1>12, <1>13, <1>14 DEF IInv, CountsAreHolders

\* The list gains an entry.
LEMMA EntryAdded ==
  ASSUME TypeOK, NEW n \in Ids, NEW facade \in BOOLEAN,
         instances' = Append(instances, [id |-> n, facade |-> facade])
  PROVE  /\ instances' \in Seq([id : Ids, facade : BOOLEAN])
         /\ \A k \in 1 .. Len(instances') :
              \/ k \in 1 .. Len(instances) /\ instances'[k] = instances[k]
              \/ k = Len(instances) + 1 /\ instances'[k] = [id |-> n, facade |-> facade]
         /\ \A m : Listed(m)' <=> Listed(m) \/ m = n
         /\ \A m : HasFacade(m)' <=> HasFacade(m) \/ (m = n /\ facade)
<1>1. /\ instances' \in Seq([id : Ids, facade : BOOLEAN])
      /\ Len(instances') = Len(instances) + 1
      /\ \A k \in 1 .. Len(instances) : instances'[k] = instances[k]
      /\ instances'[Len(instances) + 1] = [id |-> n, facade |-> facade]
  BY AppendProperties DEF TypeOK
<1>2. /\ Len(instances) \in Nat /\ DOMAIN instances = 1 .. Len(instances)
      /\ DOMAIN instances' = 1 .. Len(instances) + 1
  BY <1>1, EntryShape
<1>3. \A k \in 1 .. Len(instances') :
        \/ k \in 1 .. Len(instances) /\ instances'[k] = instances[k]
        \/ k = Len(instances) + 1 /\ instances'[k] = [id |-> n, facade |-> facade]
  BY <1>1, <1>2
<1>4. \A m : Listed(m)' <=> Listed(m) \/ m = n
  BY <1>1, <1>2, <1>3 DEF Listed
<1>5. \A m : HasFacade(m)' <=> HasFacade(m) \/ (m = n /\ facade)
  BY <1>1, <1>2, <1>3 DEF HasFacade
<1> QED BY <1>1, <1>3, <1>4, <1>5

\* A start puts its instance on the list, with a facade or without.
LEMMA StartEnds ==
  ASSUME IInv, stack # << >>, Top.kind = "start", Top.at = "occupied", Pop,
         NEW facade \in BOOLEAN,
         instances' = Append(instances, [id |-> Top.id, facade |-> facade]),
         in_use' = IF facade THEN [in_use EXCEPT ![Top.id] = in_use[Top.id] + 1] ELSE in_use,
         tier' = tierOf[Top.id], executions' = executions - 1,
         UNCHANGED <<status, tierOf, world, readers, writer>>
  PROVE  IInv'
<1>1. /\ Depth \in 1 .. Depth /\ Top = stack[Depth] /\ Top \in Frames
      /\ \A k \in 1 .. Depth : k # Depth => stack[k].kind \notin {"start", "free", "drop", "invoke"}
      /\ Fitting(Top.id) /\ status[Top.id] = "live" /\ world = "open"
      /\ \A k \in 1 .. Depth : HoldsToken(stack[k]) => stack[k].id # Top.id
  BY StartIsTop
<1>2. PICK n \in Ids : n = Top.id
  BY StartIsTop
<1>3. ~Listed(n) /\ ~HasFacade(n) /\ in_use[n] = 0
  BY <1>2, StartIsTop
<1>4. HoldsGuard(Top) /\ ~HoldsToken(Top) /\ One(HoldsGuard(Top)) = 1
  BY DEF HoldsToken, HoldsGuard, Calls, One
<1>5. /\ stack' \in Seq(Frames)
      /\ \A k \in 1 .. Depth' : k \in 1 .. Depth /\ k # Depth /\ stack'[k] = stack[k]
      /\ \A k \in 1 .. Depth : k # Depth => k \in 1 .. Depth' /\ stack'[k] = stack[k]
      /\ executions' \in Nat /\ executions' = Cardinality(Guards')
      /\ WorldOwned' /\ FrameIds' /\ GuestsAreGuarded' /\ ViewsAreAlone'
  BY <1>1, <1>4, PopParts
<1>6. \A m \in Ids : CallsOf(m)' = CallsOf(m)
  <2> TAKE m \in Ids
  <2>1. CallsOf(m)' = CallsOf(m) \ {Depth}
    BY PopCounts DEF IInv
  <2>2. Depth \notin CallsOf(m)
    BY <1>1, <1>4 DEF CallsOf
  <2> QED BY <2>1, <2>2
<1>7. /\ instances' \in Seq([id : Ids, facade : BOOLEAN])
      /\ \A k \in 1 .. Len(instances') :
           \/ k \in 1 .. Len(instances) /\ instances'[k] = instances[k]
           \/ k = Len(instances) + 1 /\ instances'[k] = [id |-> n, facade |-> facade]
      /\ \A m : Listed(m)' <=> Listed(m) \/ m = n
      /\ \A m : HasFacade(m)' <=> HasFacade(m) \/ (m = n /\ facade)
  BY <1>2, EntryAdded DEF IInv
<1>8. \A m \in Ids : in_use'[m] = in_use[m] + One(facade /\ m = n)
  BY <1>2 DEF IInv, TypeOK, One
<1>9. \A m \in Ids : in_use'[m] = Cardinality(CallsOf(m)') + (IF HasFacade(m)' THEN 1 ELSE 0)
  <2> TAKE m \in Ids
  <2>1. in_use[m] = Cardinality(CallsOf(m)) + (IF HasFacade(m) THEN 1 ELSE 0)
    BY DEF IInv, CountsAreHolders
  <2>2. Cardinality(CallsOf(m)') = Cardinality(CallsOf(m)) /\ Cardinality(CallsOf(m)) \in Nat
    BY <1>6, Finite DEF IInv
  <2>3. in_use'[m] = in_use[m] + One(facade /\ m = n)
    BY <1>8
  <2>4. CASE facade /\ m = n
    BY <1>3, <1>7, <2>1, <2>2, <2>3, <2>4 DEF One
  <2>5. CASE ~(facade /\ m = n)
    <3>1. HasFacade(m)' <=> HasFacade(m)
      BY <1>7, <2>5
    <3>2. in_use'[m] = in_use[m]
      BY <2>3, <2>5 DEF One, IInv, TypeOK
    <3> QED BY <2>1, <2>2, <3>1, <3>2
  <2> QED BY <2>4, <2>5
<1>10. TypeOK'
  <2>1. in_use' \in [Ids -> Nat]
    BY <1>2 DEF IInv, TypeOK
  <2> QED BY <1>1, <1>2, <1>5, <1>7, <2>1 DEF IInv, TypeOK, Fitting
<1>11. OneEntryEach'
  <2> SUFFICES ASSUME NEW j \in 1 .. Len(instances'), NEW k \in 1 .. Len(instances'),
                      instances'[j].id = instances'[k].id
               PROVE  j = k
    BY DEF OneEntryEach
  <2>1. \A i \in 1 .. Len(instances) : instances[i].id # n
    BY <1>3, EntryShape DEF IInv, Listed
  <2> QED BY <1>7, <2>1 DEF IInv, OneEntryEach
<1>12. EntriesAreLive'
  <2> SUFFICES ASSUME NEW k \in 1 .. Len(instances')
               PROVE  \/ status[instances'[k].id] = "live"
                      \/ /\ status[instances'[k].id] = "dead"
                         /\ ~instances'[k].facade
                         /\ \E j \in 1 .. Depth' :
                              /\ stack'[j].kind \in {"free", "drop"}
                              /\ stack'[j].at = "dtor"
                              /\ stack'[j].id = instances'[k].id
    BY DEF EntriesAreLive
  <2>1. CASE k \in 1 .. Len(instances) /\ instances'[k] = instances[k]
    <3>1. ~(Top.kind \in {"free", "drop"})
      OBVIOUS
    <3> QED BY <1>1, <1>5, <2>1, <3>1 DEF IInv, EntriesAreLive
  <2>2. CASE instances'[k] = [id |-> n, facade |-> facade]
    BY <1>1, <1>2, <2>2
  <2> QED BY <1>7, <2>1, <2>2
<1>13. StartsAreNew' /\ FreesAreDead'
  BY <1>1, <1>5 DEF StartsAreNew, FreesAreDead, Starts
<1>14. CallsAreAlive'
  BY <1>5 DEF IInv, CallsAreAlive, Occupied
<1>15. SettledAreListed'
  <2> SUFFICES ASSUME NEW m \in Ids, Settled(m)'
               PROVE  (world = "open" => Listed(m)') /\ tier' # None /\ tierOf[m] = tier'
    BY DEF SettledAreListed
  <2>1. CASE m = n
    BY <1>1, <1>2, <1>7, <2>1, TiersAssumption DEF Fitting
  <2>2. CASE m # n
    <3>1. Settled(m)
      <4>1. \A k \in 1 .. Depth : ~(Publishes(k) /\ stack[k].id = m)
        BY <1>1, <1>2, <2>2 DEF Publishes, Starts
      <4> QED BY <4>1 DEF Settled, Occupied
    <3>2. (world = "open" => Listed(m)) /\ tier # None /\ tierOf[m] = tier
      BY <3>1 DEF IInv, SettledAreListed
    <3> QED BY <1>1, <1>7, <3>2 DEF Fitting
  <2> QED BY <2>1, <2>2
<1>16. ClosingIsCalled'
  BY <1>6 DEF IInv, ClosingIsCalled
<1> QED
  BY <1>5, <1>9, <1>10, <1>11, <1>12, <1>13, <1>14, <1>15, <1>16 DEF IInv, CountsAreHolders

LEMMA InstantiateDoneStep == ASSUME IInv, InstantiateDone PROVE IInv'
<1>1. /\ stack # << >> /\ Top.kind = "start" /\ Top.at = "occupied" /\ Pop
      /\ instances' = Append(instances, [id |-> Top.id, facade |-> TRUE])
      /\ in_use' = [in_use EXCEPT ![Top.id] = in_use[Top.id] + 1]
      /\ tier' = tierOf[Top.id] /\ executions' = executions - 1
      /\ UNCHANGED <<status, tierOf, world, readers, writer>>
  BY DEF InstantiateDone, TopIs, Leave
<1> QED BY <1>1, StartEnds

LEMMA InstantiatePartialStep == ASSUME IInv, InstantiatePartial PROVE IInv'
<1>1. /\ stack # << >> /\ Top.kind = "start" /\ Top.at = "occupied" /\ Pop
      /\ instances' = Append(instances, [id |-> Top.id, facade |-> FALSE])
      /\ tier' = tierOf[Top.id] /\ executions' = executions - 1
      /\ UNCHANGED <<status, in_use, tierOf, world, readers, writer>>
  BY DEF InstantiatePartial, TopIs, Leave, tableVars
<1> QED BY <1>1, StartEnds

\* An instance that was never born is on no list, in no call and in no start.
LEMMA UnbornIsNowhere ==
  ASSUME IInv, NEW n \in Ids, status[n] = "unborn"
  PROVE  ~Listed(n) /\ in_use[n] = 0
<1>1. ~Listed(n)
  BY EntryShape DEF IInv, EntriesAreLive, Listed
<1>2. ~HasFacade(n)
  BY <1>1 DEF Listed, HasFacade
<1>3. CallsOf(n) = {}
  BY StackShape DEF IInv, CallsAreAlive, Occupied, CallsOf
<1>4. in_use[n] = Cardinality(CallsOf(n)) + 0
  BY <1>2 DEF IInv, CountsAreHolders
<1> QED BY <1>1, <1>3, <1>4, FS_EmptySet

LEMMA InstantiateStep ==
  ASSUME IInv, NEW n \in Ids, NEW t \in Tiers, Instantiate(n, t) PROVE IInv'
<1> DEFINE f == Frame("start", n, "build")
<1>1. /\ WorldFree /\ tier \in {None, t} /\ NoViews /\ executions' = executions + 1
      /\ status[n] = "unborn"
      /\ status' = [status EXCEPT ![n] = "reserved"]
      /\ tierOf' = [tierOf EXCEPT ![n] = t]
      /\ Push(f)
      /\ UNCHANGED <<in_use, instances, world, tier, readers, writer>>
  BY DEF Instantiate, TierFits, Enter, worldVars
<1>2. /\ f \in Frames /\ f.kind = "start" /\ f.id = n /\ f.at = "build"
      /\ HoldsGuard(f) /\ HoldsWorld(f) /\ ~HoldsToken(f) /\ One(HoldsGuard(f)) = 1
  BY FrameType DEF Kinds, Stages, HoldsGuard, HoldsWorld, HoldsToken, Calls, One
<1> HIDE DEF f
<1>3. /\ stack' \in Seq(Frames)
      /\ \A k \in 1 .. Depth' :
           \/ k \in 1 .. Depth /\ stack'[k] = stack[k]
           \/ k = Depth + 1 /\ stack'[k] = f
      /\ \A k \in 1 .. Depth : k \in 1 .. Depth' /\ stack'[k] = stack[k]
      /\ executions' \in Nat /\ executions' = Cardinality(Guards')
      /\ WorldOwned' /\ FrameIds' /\ GuestsAreGuarded' /\ ViewsAreAlone'
      /\ \A m : CallsOf(m)' = CallsOf(m)
  <2>1. world = "gone" => instances' = << >>
    BY <1>1 DEF WorldFree
  <2> QED BY <1>1, <1>2, <2>1, PushParts
<1>4. ~Listed(n) /\ in_use[n] = 0
  BY <1>1, UnbornIsNowhere
<1>5. \A m \in Ids : status'[m] = (IF m = n THEN "reserved" ELSE status[m])
                     /\ tierOf'[m] = (IF m = n THEN t ELSE tierOf[m])
  BY <1>1 DEF IInv, TypeOK
<1>6. TypeOK'
  BY <1>1, <1>3 DEF IInv, TypeOK
<1>7. OneEntryEach'
  BY <1>1 DEF IInv, OneEntryEach
<1>8. EntriesAreLive'
  <2>1. \A k \in 1 .. Len(instances) : status'[instances[k].id] = status[instances[k].id]
    BY <1>4, <1>5, EntryShape DEF IInv, Listed
  <2> QED BY <1>1, <1>3, <2>1 DEF IInv, EntriesAreLive
<1>9. \A k \in 1 .. Depth : stack[k].kind \notin {"invoke", "start", "free", "drop"}
  BY <1>1, StackShape DEF WorldFree, HoldsWorld, IInv
<1>10. StartsAreNew'
  <2> SUFFICES ASSUME NEW m \in Ids, NEW k \in 1 .. Depth', stack'[k].kind = "start", stack'[k].id = m
               PROVE  /\ ~Listed(m)'
                      /\ in_use'[m] = 0
                      /\ status'[m] = IF stack'[k].at = "occupied" THEN "live" ELSE "reserved"
                      /\ stack'[k].at = "occupied" => k = Depth'
                      /\ Fitting(m)'
    BY DEF StartsAreNew, Starts
  <2>1. stack'[k] = f /\ m = n
    BY <1>2, <1>3, <1>9
  <2> QED BY <1>1, <1>2, <1>4, <1>5, <2>1 DEF Listed, Fitting
<1>11. FreesAreDead'
  BY <1>2, <1>3, <1>9 DEF FreesAreDead
<1>12. CallsAreAlive'
  <2> SUFFICES ASSUME NEW k \in 1 .. Depth', HoldsToken(stack'[k])
               PROVE  status'[stack'[k].id] \in {"live", "closing"}
    BY DEF CallsAreAlive, Occupied
  <2>1. k \in 1 .. Depth /\ stack'[k] = stack[k]
    BY <1>2, <1>3
  <2>2. stack[k].id \in Ids /\ status[stack[k].id] \in {"live", "closing"}
    BY <2>1 DEF IInv, FrameIds, HoldsToken, Calls, CallsAreAlive, Occupied
  <2> QED BY <1>1, <1>5, <2>1, <2>2
<1>13. SettledAreListed'
  <2>1. ASSUME NEW m \in Ids, Settled(m)' PROVE m # n /\ Settled(m)
    <3>1. m # n /\ Occupied(m)
      BY <1>5, <2>1 DEF Settled, Occupied
    <3>2. \A k \in 1 .. Depth : ~Publishes(k)
      BY <1>9 DEF Publishes, Starts
    <3> QED BY <3>1, <3>2 DEF Settled
  <2> QED BY <1>1, <1>5, <2>1 DEF IInv, SettledAreListed, Listed
<1>14. ClosingIsCalled'
  BY <1>3, <1>5 DEF IInv, ClosingIsCalled
<1>15. \A m \in Ids : in_use'[m] = Cardinality(CallsOf(m)') + (IF HasFacade(m)' THEN 1 ELSE 0)
  <2> TAKE m \in Ids
  <2>1. in_use[m] = Cardinality(CallsOf(m)) + (IF HasFacade(m) THEN 1 ELSE 0)
    BY DEF IInv, CountsAreHolders
  <2>2. (HasFacade(m)' <=> HasFacade(m)) /\ in_use' = in_use
    BY <1>1 DEF HasFacade
  <2>3. Cardinality(CallsOf(m)') = Cardinality(CallsOf(m))
    BY <1>3
  <2> QED BY <2>1, <2>2, <2>3
<1> QED
  BY <1>3, <1>6, <1>7, <1>8, <1>10, <1>11, <1>12, <1>13, <1>14, <1>15 DEF IInv, CountsAreHolders

-----------------------------------------------------------------------------
(* Release.                                                                  *)

\* The list loses its entry k.
EntryLost(k) ==
  \/ instances' = RemoveAt(instances, k)
  \/ k = 1 /\ instances' = Tail(instances)

LEMMA LostShape ==
  ASSUME TypeOK, NEW k \in 1 .. Len(instances), EntryLost(k)
  PROVE  /\ instances' \in Seq([id : Ids, facade : BOOLEAN])
         /\ Len(instances') = Len(instances) - 1
         /\ \A j \in 1 .. Len(instances) - 1 :
              instances'[j] = IF j < k THEN instances[j] ELSE instances[j + 1]
<1> DEFINE S == [id : Ids, facade : BOOLEAN]
           L == Len(instances)
<1>1. instances \in Seq(S) /\ L \in Nat /\ \A j \in 1 .. L : instances[j] \in S
  BY LenProperties, ElementOfSeq DEF TypeOK
<1> HIDE DEF S, L
<1>2. CASE instances' = RemoveAt(instances, k)
  <2> DEFINE front == SubSeq(instances, 1, k - 1)
             rest == SubSeq(instances, k + 1, L)
  <2>1. k \in 1 .. L
    BY DEF L
  <2>2. /\ front \in Seq(S) /\ Len(front) = IF 1 <= k - 1 THEN (k - 1) - 1 + 1 ELSE 0
        /\ \A j \in 1 .. (k - 1) - 1 + 1 : front[j] = instances[1 + j - 1]
    BY <1>1, <2>1, SubSeqProperties
  <2>3. /\ rest \in Seq(S) /\ Len(rest) = IF k + 1 <= L THEN L - (k + 1) + 1 ELSE 0
        /\ \A j \in 1 .. L - (k + 1) + 1 : rest[j] = instances[k + 1 + j - 1]
    BY <1>1, <2>1, SubSeqProperties
  <2>4. Len(front) = k - 1 /\ Len(rest) = L - k
    BY <1>1, <2>1, <2>2, <2>3
  <2>5. instances' = front \o rest
    BY <1>2 DEF RemoveAt, L
  <2> HIDE DEF front, rest
  <2>6. /\ front \o rest \in Seq(S)
        /\ Len(front \o rest) = L - 1
        /\ \A j \in 1 .. L - 1 : (front \o rest)[j] = IF j <= k - 1 THEN front[j] ELSE rest[j - (k - 1)]
    <3>1. /\ front \o rest \in Seq(S)
          /\ Len(front \o rest) = Len(front) + Len(rest)
          /\ \A j \in 1 .. Len(front) + Len(rest) :
               (front \o rest)[j] = IF j <= Len(front) THEN front[j] ELSE rest[j - Len(front)]
      BY <2>2, <2>3, ConcatProperties
    <3>2. Len(front) + Len(rest) = L - 1
      BY <1>1, <2>1, <2>4
    <3> QED BY <2>4, <3>1, <3>2
  <2>7. \A j \in 1 .. L - 1 : instances'[j] = IF j < k THEN instances[j] ELSE instances[j + 1]
    <3> TAKE j \in 1 .. L - 1
    <3>1. CASE j < k
      <4>1. front[j] = instances[j]
        BY <1>1, <2>1, <2>2, <3>1
      <4> QED BY <1>1, <2>1, <2>5, <2>6, <3>1, <4>1
    <3>2. CASE ~(j < k)
      <4>1. j - (k - 1) \in 1 .. L - (k + 1) + 1 /\ k + 1 + (j - (k - 1)) - 1 = j + 1
        BY <1>1, <2>1, <3>2
      <4>2. rest[j - (k - 1)] = instances[j + 1]
        BY <2>3, <4>1
      <4> QED BY <1>1, <2>1, <2>5, <2>6, <3>2, <4>2
    <3> QED BY <3>1, <3>2
  <2> QED BY <2>5, <2>6, <2>7 DEF L, S
<1>3. CASE k = 1 /\ instances' = Tail(instances)
  <2>1. instances # << >>
    BY EmptySeq
  <2>2. /\ Tail(instances) \in Seq(S) /\ Len(Tail(instances)) = L - 1
        /\ \A j \in 1 .. Len(Tail(instances)) : Tail(instances)[j] = instances[j + 1]
    BY <1>1, <2>1, HeadTailProperties DEF L
  <2>3. \A j \in 1 .. L - 1 : ~(j < 1)
    BY <1>1
  <2> QED BY <1>3, <2>2, <2>3 DEF L, S
<1> QED BY <1>2, <1>3 DEF EntryLost

LEMMA LostEntry ==
  ASSUME TypeOK, OneEntryEach, NEW k \in 1 .. Len(instances), EntryLost(k)
  PROVE  /\ instances' \in Seq([id : Ids, facade : BOOLEAN])
         /\ OneEntryEach'
         /\ \A j \in 1 .. Len(instances') :
              \E i \in 1 .. Len(instances) : i # k /\ instances'[j] = instances[i]
         /\ \A n : Listed(n)' <=> Listed(n) /\ n # instances[k].id
         /\ \A n : HasFacade(n)' <=> HasFacade(n) /\ n # instances[k].id
<1> DEFINE From(j) == IF j < k THEN j ELSE j + 1
           To(i) == IF i < k THEN i ELSE i - 1
<1>1. /\ instances' \in Seq([id : Ids, facade : BOOLEAN])
      /\ Len(instances') = Len(instances) - 1
      /\ \A j \in 1 .. Len(instances) - 1 : instances'[j] = IF j < k THEN instances[j] ELSE instances[j + 1]
  BY LostShape
<1>2. PICK L \in Nat : L = Len(instances) /\ DOMAIN instances = 1 .. L
  BY EntryShape
<1>3. DOMAIN instances' = 1 .. L - 1 /\ Len(instances') = L - 1
  BY <1>1, <1>2
<1>4. \A j \in 1 .. L - 1 : From(j) \in 1 .. L /\ From(j) # k /\ instances'[j] = instances[From(j)]
  BY <1>1, <1>2
<1>5. \A i \in 1 .. L : i # k => To(i) \in 1 .. L - 1 /\ instances'[To(i)] = instances[i]
  <2> TAKE i \in 1 .. L
  <2>1. CASE i < k
    BY <1>1, <1>2, <2>1
  <2>2. CASE i > k
    <3>1. i - 1 \in 1 .. L - 1 /\ ~(i - 1 < k) /\ (i - 1) + 1 = i /\ ~(i < k)
      BY <1>2, <2>2
    <3>2. instances'[i - 1] = instances[i]
      BY <1>1, <1>2, <3>1
    <3> QED BY <3>1, <3>2
  <2> QED BY <1>2, <2>1, <2>2
<1>6. \A i, j \in 1 .. L - 1 : From(i) = From(j) => i = j
  BY <1>2
<1> HIDE DEF From, To
<1>7. \A i \in 1 .. L : instances[i].id = instances[k].id => i = k
  BY <1>2 DEF OneEntryEach
<1>8. OneEntryEach'
  BY <1>2, <1>3, <1>4, <1>6 DEF OneEntryEach
<1>9. \A n : Listed(n)' <=> Listed(n) /\ n # instances[k].id
  <2> TAKE n
  <2>1. ASSUME Listed(n)' PROVE Listed(n) /\ n # instances[k].id
    BY <1>2, <1>3, <1>4, <1>7, <2>1 DEF Listed
  <2>2. ASSUME Listed(n), n # instances[k].id PROVE Listed(n)'
    BY <1>2, <1>3, <1>5, <2>2 DEF Listed
  <2> QED BY <2>1, <2>2
<1>10. \A n : HasFacade(n)' <=> HasFacade(n) /\ n # instances[k].id
  <2> TAKE n
  <2>1. ASSUME HasFacade(n)' PROVE HasFacade(n) /\ n # instances[k].id
    BY <1>2, <1>3, <1>4, <1>7, <2>1 DEF HasFacade
  <2>2. ASSUME HasFacade(n), n # instances[k].id PROVE HasFacade(n)'
    BY <1>2, <1>3, <1>5, <2>2 DEF HasFacade
  <2> QED BY <2>1, <2>2
<1>11. \A j \in 1 .. Len(instances') :
         \E i \in 1 .. Len(instances) : i # k /\ instances'[j] = instances[i]
  BY <1>2, <1>3, <1>4
<1> QED BY <1>1, <1>8, <1>9, <1>10, <1>11

\* What can be freed is live and in no call.
LEMMA FreeableIsIdle ==
  ASSUME IInv, NEW k \in 1 .. Len(instances), Freeable(instances[k])
  PROVE  /\ instances[k].id \in Ids
         /\ status[instances[k].id] = "live"
         /\ CallsOf(instances[k].id) = {}
         /\ HasFacade(instances[k].id) <=> instances[k].facade
<1> DEFINE n == instances[k].id
<1>1. n \in Ids /\ instances[k].facade \in BOOLEAN /\ DOMAIN instances = 1 .. Len(instances)
  BY EntryShape DEF IInv
<1>2. status[n] = "live"
  BY DEF IInv, EntriesAreLive, Freeable, Occupied
<1>3. HasFacade(n) <=> instances[k].facade
  BY <1>1 DEF IInv, OneEntryEach, HasFacade
<1>4. Cardinality(CallsOf(n)) = 0
  <2>1. in_use[n] = Cardinality(CallsOf(n)) + (IF HasFacade(n) THEN 1 ELSE 0)
    BY <1>1 DEF IInv, CountsAreHolders
  <2>2. in_use[n] = IF HasFacade(n) THEN 1 ELSE 0
    BY <1>3 DEF Freeable
  <2>3. Cardinality(CallsOf(n)) \in Nat
    BY Finite DEF IInv
  <2> QED BY <2>1, <2>2, <2>3
<1>5. CallsOf(n) = {}
  BY <1>4, Finite, FS_EmptySet DEF IInv
<1> QED BY <1>1, <1>2, <1>3, <1>5

\* An entry is freed while nobody else is freeing or starting; its destructors
\* run in a frame that owns or borrows the world.
Releasing(f, n) ==
  /\ f.kind \in {"free", "drop"}
  /\ f.at = "dtor"
  /\ f.id = n \/ (f.kind = "drop" /\ f.id = None)

LEMMA FreedParts ==
  ASSUME IInv, NEW k \in 1 .. Len(instances), Freeable(instances[k]), Release(instances[k]),
         NEW f, Releasing(f, instances[k].id),
         IF instances[k].facade THEN EntryLost(k)
                                ELSE instances' = instances /\ f.id = instances[k].id,
         \A j \in 1 .. Depth : stack[j].kind # "start" /\ stack[j].kind # "free"
                               /\ ~(stack[j].kind = "drop" /\ stack[j].at = "dtor"),
         \A j \in 1 .. Depth' : (j \in 1 .. Depth /\ stack'[j] = stack[j]) \/ stack'[j] = f,
         \E j \in 1 .. Depth' : stack'[j] = f,
         \A m \in Ids : CallsOf(m)' = CallsOf(m),
         stack' \in Seq(Frames), executions' \in Nat, executions' = Cardinality(Guards'),
         UNCHANGED <<world, tier, readers, writer>>,
         WorldOwned', FrameIds', GuestsAreGuarded', ViewsAreAlone'
  PROVE  IInv'
<1>1. PICK n \in Ids : n = instances[k].id
  BY FreeableIsIdle
<1>2. /\ status[n] = "live" /\ CallsOf(n) = {} /\ (HasFacade(n) <=> instances[k].facade)
      /\ instances[k].facade \in BOOLEAN
  BY <1>1, FreeableIsIdle, EntryShape DEF IInv
<1>3. /\ \A m \in Ids : status'[m] = IF m = n THEN "dead" ELSE status[m]
      /\ \A m \in Ids : in_use'[m] = IF m = n THEN 0 ELSE in_use[m]
      /\ status' \in [Ids -> {"unborn", "reserved", "live", "closing", "dead"}]
      /\ in_use' \in [Ids -> Nat]
      /\ tierOf' = tierOf
  BY <1>1 DEF Release, IInv, TypeOK
<1>4. ~HoldsToken(f) /\ f.kind # "start"
  BY DEF Releasing, HoldsToken, Calls
<1>5. /\ instances' \in Seq([id : Ids, facade : BOOLEAN])
      /\ OneEntryEach'
      /\ \A j \in 1 .. Len(instances') : \E i \in 1 .. Len(instances) :
           instances'[j] = instances[i] /\ (instances[k].facade => i # k)
      /\ \A m \in Ids : Listed(m)' => Listed(m)
      /\ \A m \in Ids : m # n => (Listed(m)' <=> Listed(m))
      /\ \A m \in Ids : m # n => (HasFacade(m)' <=> HasFacade(m))
      /\ ~HasFacade(n)'
  <2>1. CASE instances[k].facade
    <3>1. EntryLost(k)
      BY <2>1
    <3>2. /\ instances' \in Seq([id : Ids, facade : BOOLEAN])
          /\ OneEntryEach'
          /\ \A j \in 1 .. Len(instances') :
               \E i \in 1 .. Len(instances) : i # k /\ instances'[j] = instances[i]
          /\ \A m : Listed(m)' <=> Listed(m) /\ m # instances[k].id
          /\ \A m : HasFacade(m)' <=> HasFacade(m) /\ m # instances[k].id
      BY <3>1, LostEntry DEF IInv
    <3> QED BY <1>1, <3>2
  <2>2. CASE ~instances[k].facade
    <3>1. instances' = instances
      BY <2>2
    <3>2. \A m : (Listed(m)' <=> Listed(m)) /\ (HasFacade(m)' <=> HasFacade(m))
      BY <3>1 DEF Listed, HasFacade
    <3>3. OneEntryEach'
      BY <3>1 DEF IInv, OneEntryEach
    <3> QED BY <1>2, <2>2, <3>1, <3>2, <3>3 DEF IInv, TypeOK
  <2> QED BY <2>1, <2>2
<1>6. \A m \in Ids : in_use'[m] = Cardinality(CallsOf(m)') + (IF HasFacade(m)' THEN 1 ELSE 0)
  <2> TAKE m \in Ids
  <2>1. Cardinality(CallsOf(m)') = Cardinality(CallsOf(m))
    OBVIOUS
  <2>2. CASE m = n
    <3>1. Cardinality(CallsOf(n)) = 0
      BY <1>2, FS_EmptySet
    <3> QED BY <1>3, <1>5, <2>1, <2>2, <3>1
  <2>3. CASE m # n
    <3>1. in_use[m] = Cardinality(CallsOf(m)) + (IF HasFacade(m) THEN 1 ELSE 0)
      BY DEF IInv, CountsAreHolders
    <3>2. HasFacade(m)' <=> HasFacade(m)
      BY <1>5, <2>3
    <3>3. in_use'[m] = in_use[m]
      BY <1>3, <2>3
    <3> QED BY <2>1, <3>1, <3>2, <3>3
  <2> QED BY <2>2, <2>3
<1>7. TypeOK'
  BY <1>3, <1>5 DEF IInv, TypeOK
<1>8. EntriesAreLive'
  <2> SUFFICES ASSUME NEW j \in 1 .. Len(instances')
               PROVE  \/ status'[instances'[j].id] = "live"
                      \/ /\ status'[instances'[j].id] = "dead"
                         /\ ~instances'[j].facade
                         /\ \E i \in 1 .. Depth' :
                              /\ stack'[i].kind \in {"free", "drop"}
                              /\ stack'[i].at = "dtor"
                              /\ stack'[i].id = instances'[j].id
    BY DEF EntriesAreLive
  <2>1. PICK i \in 1 .. Len(instances) : instances'[j] = instances[i] /\ (instances[k].facade => i # k)
    BY <1>5
  <2>2. instances[i].id \in Ids /\ status[instances[i].id] = "live"
    BY EntryShape DEF IInv, EntriesAreLive
  <2>3. CASE i = k
    BY <1>1, <1>3, <2>1, <2>3 DEF Releasing
  <2>4. CASE i # k
    <3>1. instances[i].id # n
      BY <1>1, <2>4 DEF IInv, OneEntryEach
    <3> QED BY <1>3, <2>1, <2>2, <3>1
  <2> QED BY <2>3, <2>4
<1>9. StartsAreNew'
  BY <1>4 DEF StartsAreNew, Starts
<1>10. FreesAreDead'
  <2> SUFFICES ASSUME NEW j \in 1 .. Depth', stack'[j].kind \in {"free", "drop"}, stack'[j].id # None
               PROVE  status'[stack'[j].id] = "dead"
    BY DEF FreesAreDead
  <2>1. \A i \in 1 .. Depth : stack[i].kind \in {"free", "drop"} => stack[i].id = None
    BY DEF IInv, FrameIds
  <2>2. stack'[j].id = n
    BY <1>1, <2>1 DEF Releasing
  <2> QED BY <1>3, <2>2
<1>11. CallsAreAlive'
  <2> SUFFICES ASSUME NEW j \in 1 .. Depth', HoldsToken(stack'[j])
               PROVE  status'[stack'[j].id] \in {"live", "closing"}
    BY DEF CallsAreAlive, Occupied
  <2>1. j \in 1 .. Depth /\ stack'[j] = stack[j]
    BY <1>4
  <2>2. stack[j].id \in Ids /\ status[stack[j].id] \in {"live", "closing"}
    BY <2>1 DEF IInv, FrameIds, HoldsToken, Calls, CallsAreAlive, Occupied
  <2>3. stack[j].id # n
    BY <1>2, <2>1, StackShape DEF IInv, CallsOf
  <2> QED BY <1>3, <2>1, <2>2, <2>3
<1>12. SettledAreListed'
  <2>1. ASSUME NEW m \in Ids, Settled(m)' PROVE m # n /\ Settled(m)
    <3>1. m # n /\ Occupied(m)
      BY <1>3, <2>1 DEF Settled, Occupied
    <3> QED BY <3>1 DEF Settled, Publishes, Starts
  <2> QED BY <1>3, <1>5, <2>1 DEF IInv, SettledAreListed
<1>13. ClosingIsCalled'
  BY <1>3 DEF IInv, ClosingIsCalled
<1> QED
  BY <1>5, <1>6, <1>7, <1>8, <1>9, <1>10, <1>11, <1>12, <1>13 DEF IInv, CountsAreHolders

LEMMA FreeStep == ASSUME IInv, NEW n \in Ids, Free(n) PROVE IInv'
<1> DEFINE f == Frame("free", n, "dtor")
<1>1. /\ WorldFree /\ Push(f)
      /\ UNCHANGED <<world, tier, executions, readers, writer>>
  BY DEF Free, borrowVars
<1>2. PICK k \in 1 .. Len(instances) : instances[k].id = n /\ FreeEntry(k)
  BY EntryShape DEF Free, IInv
<1>3. /\ f \in Frames /\ Releasing(f, n) /\ f.id = n /\ f.kind = "free"
      /\ ~HoldsGuard(f) /\ HoldsWorld(f) /\ ~HoldsToken(f) /\ One(HoldsGuard(f)) = 0
  BY FrameType DEF Kinds, Stages, HoldsGuard, HoldsWorld, HoldsToken, Calls, One, Releasing
<1> HIDE DEF f
<1>4. /\ stack' \in Seq(Frames)
      /\ \A j \in 1 .. Depth' : (j \in 1 .. Depth /\ stack'[j] = stack[j]) \/ stack'[j] = f
      /\ \E j \in 1 .. Depth' : stack'[j] = f
      /\ executions' \in Nat /\ executions' = Cardinality(Guards')
      /\ WorldOwned' /\ FrameIds' /\ GuestsAreGuarded' /\ ViewsAreAlone'
      /\ \A m \in Ids : CallsOf(m)' = CallsOf(m)
  <2>1. world = "gone" => instances' = << >>
    BY <1>1 DEF WorldFree
  <2>2. executions' = executions + 0
    BY <1>1 DEF IInv, TypeOK
  <2> QED BY <1>1, <1>3, <2>1, <2>2, PushParts
<1>5. \A j \in 1 .. Depth : stack[j].kind # "start" /\ stack[j].kind # "free"
                            /\ ~(stack[j].kind = "drop" /\ stack[j].at = "dtor")
  BY <1>1, StackShape DEF WorldFree, HoldsWorld, IInv
<1>6. /\ Freeable(instances[k]) /\ Release(instances[k])
      /\ IF instances[k].facade THEN EntryLost(k) ELSE instances' = instances
  BY <1>2 DEF FreeEntry, EntryLost
<1> QED BY <1>1, <1>2, <1>3, <1>4, <1>5, <1>6, FreedParts

\* The frame of a world that is being dropped is the only one that owns it.
LEMMA DropIsTop ==
  ASSUME IInv, stack # << >>, Top.kind = "drop"
  PROVE  /\ Depth \in 1 .. Depth /\ Top = stack[Depth] /\ Top \in Frames
         /\ \A j \in 1 .. Depth : j # Depth => stack[j].kind \notin {"invoke", "start", "free", "drop"}
         /\ Top.at = "run" \/ world = "fields" => Top.id = None
         /\ Top.at \in {"run", "dtor"} /\ world \in {"freeing", "fields"}
         /\ ~HoldsToken(Top)
<1>1. Depth \in 1 .. Depth /\ Top = stack[Depth] /\ Top \in Frames
  BY StackShape DEF IInv, Top, Depth
<1> QED BY <1>1 DEF IInv, WorldOwned, FrameIds, HoldsWorld, HoldsToken, Calls

\* A drop frees an entry: its frame waits for the destructors.
LEMMA DropFreesEntry ==
  ASSUME IInv, stack # << >>, Top.kind = "drop", Top.at = "run",
         NEW f \in Frames, Replaced(f), stack' \in Seq(Frames), f.kind = "drop", f.at = "dtor",
         world = "fields" => f.id = None,
         NEW k \in 1 .. Len(instances), f.id \in {None, instances[k].id}, Freeable(instances[k]), Release(instances[k]),
         IF instances[k].facade THEN EntryLost(k)
                                ELSE instances' = instances /\ f.id = instances[k].id,
         UNCHANGED <<world, tier, executions, readers, writer>>
  PROVE  IInv'
<1>1. /\ Depth \in 1 .. Depth /\ Top = stack[Depth] /\ ~HoldsToken(Top) /\ ~HoldsToken(f)
      /\ \A j \in 1 .. Depth : j # Depth => stack[j].kind \notin {"invoke", "start", "free", "drop"}
      /\ Releasing(f, instances[k].id) /\ world \in {"freeing", "fields"}
  BY DropIsTop DEF HoldsToken, Calls, Releasing
<1>2. /\ Depth' = Depth
      /\ \A j \in 1 .. Depth : j # Depth => stack'[j] = stack[j]
      /\ stack'[Depth] = f
      /\ executions' \in Nat /\ executions' = Cardinality(Guards')
      /\ WorldOwned' /\ FrameIds' /\ GuestsAreGuarded' /\ ViewsAreAlone'
      /\ \A m \in Ids : CallsOf(m)' = CallsOf(m) \ {Depth}
      /\ \A m \in Ids : Depth \in CallsOf(m) <=> HoldsToken(Top) /\ Top.id = m
  BY <1>1, ReplaceParts
<1>3. \A m \in Ids : CallsOf(m)' = CallsOf(m)
  BY <1>1, <1>2
<1>4. /\ \A j \in 1 .. Depth' : (j \in 1 .. Depth /\ stack'[j] = stack[j]) \/ stack'[j] = f
      /\ \E j \in 1 .. Depth' : stack'[j] = f
  BY <1>1, <1>2
<1>5. \A j \in 1 .. Depth : stack[j].kind # "start" /\ stack[j].kind # "free"
                            /\ ~(stack[j].kind = "drop" /\ stack[j].at = "dtor")
  BY <1>1
<1> QED BY <1>1, <1>2, <1>3, <1>4, <1>5, FreedParts

LEMMA DropFreesStep == ASSUME IInv, DropFrees PROVE IInv'
<1>1. /\ stack # << >> /\ Top.kind = "drop" /\ Top.at = "run" /\ world = "freeing"
      /\ instances # << >> /\ FreeEntry(Len(instances))
      /\ stack' = [stack EXCEPT ![Len(stack)] = Frame("drop", Last(instances).id, "dtor")]
      /\ UNCHANGED <<world, tier, executions, readers, writer>>
  BY DEF DropFrees, TopIs, borrowVars
<1>2. PICK k \in 1 .. Len(instances) : k = Len(instances)
  BY <1>1, EntryShape DEF IInv
<1>3. Last(instances).id = instances[k].id /\ instances[k].id \in Ids
  BY <1>2, EntryShape DEF IInv, Last
<1> DEFINE f == Frame("drop", Last(instances).id, "dtor")
<1>4. f \in Frames /\ f.kind = "drop" /\ f.at = "dtor" /\ f.id = instances[k].id
  BY <1>3, FrameType DEF Kinds, Stages
<1>5. stack' \in Seq(Frames) /\ Replaced(f)
  BY <1>1, <1>4, ReplaceShape DEF IInv
<1> HIDE DEF f
<1>6. /\ Freeable(instances[k]) /\ Release(instances[k])
      /\ IF instances[k].facade THEN EntryLost(k) ELSE instances' = instances
  BY <1>1, <1>2 DEF FreeEntry, EntryLost
<1> QED BY <1>1, <1>4, <1>5, <1>6, DropFreesEntry

LEMMA DropReleasesStep == ASSUME IInv, DropReleases PROVE IInv'
<1>1. /\ stack # << >> /\ Top.kind = "drop" /\ Top.at = "run" /\ world = "fields"
      /\ instances # << >> /\ Head(instances).facade
      /\ Freeable(Head(instances)) /\ Release(Head(instances))
      /\ instances' = Tail(instances) /\ MoveTop("dtor")
      /\ UNCHANGED <<world, tier, executions, readers, writer>>
  BY DEF DropReleases, TopIs, borrowVars
<1>2. PICK k \in 1 .. Len(instances) : k = 1
  BY <1>1, EntryShape DEF IInv
<1>3. Head(instances) = instances[k]
  BY <1>1, <1>2 DEF IInv, TypeOK
<1>4. Top \in Frames /\ Top.id = None
  BY <1>1, DropIsTop
<1> DEFINE f == Frame(Top.kind, Top.id, "dtor")
<1>5. f \in Frames /\ f.kind = "drop" /\ f.at = "dtor" /\ f.id = None
  BY <1>1, <1>4, FrameType DEF Kinds, Stages
<1>6. stack' \in Seq(Frames) /\ Replaced(f)
  BY <1>1, MoveShape DEF IInv, Stages
<1> HIDE DEF f
<1>7. EntryLost(k)
  BY <1>1, <1>2 DEF EntryLost
<1> QED BY <1>1, <1>3, <1>5, <1>6, <1>7, DropFreesEntry

\* The frame that freed an entry takes it off the list, if it is still there.
LEMMA TakenOff ==
  ASSUME IInv, NEW d, TakeOff(d), d = Top.id, stack # << >>, Top.kind \in {"free", "drop"}, Top.id # None
  PROVE  /\ instances' \in Seq([id : Ids, facade : BOOLEAN])
         /\ OneEntryEach'
         /\ \A j \in 1 .. Len(instances') : instances'[j].id \in Ids /\ status[instances'[j].id] = "live"
         /\ \A m \in Ids : Listed(m)' => Listed(m)
         /\ \A m \in Ids : status[m] # "dead" => (Listed(m)' <=> Listed(m))
         /\ \A m \in Ids : HasFacade(m)' <=> HasFacade(m)
<1>1. /\ Depth \in 1 .. Depth /\ Top = stack[Depth]
      /\ \A j \in 1 .. Depth : j # Depth => stack[j].kind \notin {"free", "drop"}
      /\ status[d] = "dead"
  <2>1. Depth \in 1 .. Depth /\ Top = stack[Depth]
    BY StackShape DEF IInv, Top, Depth
  <2> QED BY <2>1 DEF IInv, WorldOwned, HoldsWorld, FreesAreDead
<1>2. \A i \in 1 .. Len(instances) :
        /\ instances[i].id \in Ids
        /\ instances[i].id # d => status[instances[i].id] = "live"
        /\ instances[i].id = d => ~instances[i].facade
  BY <1>1, EntryShape DEF IInv, EntriesAreLive
<1>3. ~HasFacade(d)
  BY <1>2, EntryShape DEF IInv, HasFacade
<1>4. CASE \E k \in DOMAIN instances : instances[k].id = d /\ instances' = RemoveAt(instances, k)
  <2>1. PICK k \in 1 .. Len(instances) : instances[k].id = d /\ EntryLost(k)
    BY <1>4, EntryShape DEF IInv, EntryLost
  <2>2. /\ instances' \in Seq([id : Ids, facade : BOOLEAN])
        /\ OneEntryEach'
        /\ \A j \in 1 .. Len(instances') :
             \E i \in 1 .. Len(instances) : i # k /\ instances'[j] = instances[i]
        /\ \A n : Listed(n)' <=> Listed(n) /\ n # instances[k].id
        /\ \A n : HasFacade(n)' <=> HasFacade(n) /\ n # instances[k].id
    BY <2>1, LostEntry DEF IInv
  <2>3. \A i \in 1 .. Len(instances) : i # k => instances[i].id # d
    BY <2>1 DEF IInv, OneEntryEach
  <2>4. \A j \in 1 .. Len(instances') : instances'[j].id \in Ids /\ status[instances'[j].id] = "live"
    BY <1>2, <2>2, <2>3
  <2>5. \A m \in Ids : status[m] # "dead" => m # d
    BY <1>1
  <2> QED BY <1>3, <2>1, <2>2, <2>4, <2>5
<1>5. CASE ~Listed(d) /\ UNCHANGED instances
  <2>1. \A i \in 1 .. Len(instances) : instances[i].id # d
    BY <1>5, EntryShape DEF IInv, Listed
  <2>2. \A m \in Ids : (Listed(m)' <=> Listed(m)) /\ (HasFacade(m)' <=> HasFacade(m))
    BY <1>5 DEF Listed, HasFacade
  <2>3. OneEntryEach'
    BY <1>5 DEF IInv, OneEntryEach
  <2> QED BY <1>2, <1>5, <2>1, <2>2, <2>3 DEF IInv, TypeOK
<1> QED BY <1>4, <1>5 DEF TakeOff

\* What is left when the list has lost entries that were dead, the instances
\* are as they were, and no activity of the world is left but the dropping.
LEMMA ListShrinks ==
  ASSUME IInv, UNCHANGED <<status, in_use, tierOf, tier, readers, writer>>,
         instances' \in Seq([id : Ids, facade : BOOLEAN]), OneEntryEach',
         \A j \in 1 .. Len(instances') : instances'[j].id \in Ids /\ status[instances'[j].id] = "live",
         \A m \in Ids : Listed(m)' => Listed(m),
         \A m \in Ids : world' = "open" /\ status[m] # "dead" => (Listed(m)' <=> Listed(m)),
         \A m \in Ids : HasFacade(m)' <=> HasFacade(m),
         world' \in {world, "freeing", "fields", "gone"},
         \A j \in 1 .. Depth : stack[j].kind # "start",
         \A j \in 1 .. Depth' :
           (j \in 1 .. Depth /\ stack'[j] = stack[j]) \/ (stack'[j].kind = "drop" /\ stack'[j].id = None),
         \A m \in Ids : CallsOf(m)' = CallsOf(m),
         stack' \in Seq(Frames), executions' \in Nat, executions' = Cardinality(Guards'),
         WorldOwned', FrameIds', GuestsAreGuarded', ViewsAreAlone'
  PROVE  IInv'
<1>1. TypeOK'
  BY DEF IInv, TypeOK
<1>2. EntriesAreLive'
  BY DEF EntriesAreLive
<1>3. StartsAreNew'
  BY DEF StartsAreNew, Starts
<1>4. FreesAreDead'
  BY DEF IInv, FreesAreDead
<1>5. CallsAreAlive'
  BY DEF IInv, CallsAreAlive, Occupied, HoldsToken, Calls
<1>6. SettledAreListed'
  <2>1. ASSUME NEW m \in Ids, Settled(m)' PROVE Settled(m) /\ status[m] # "dead"
    BY <2>1 DEF Settled, Occupied, Publishes, Starts
  <2>2. world' = "open" => world = "open"
    OBVIOUS
  <2> QED BY <2>1, <2>2 DEF IInv, SettledAreListed
<1>7. ClosingIsCalled'
  BY DEF IInv, ClosingIsCalled
<1>8. \A m \in Ids : in_use'[m] = Cardinality(CallsOf(m)') + (IF HasFacade(m)' THEN 1 ELSE 0)
  <2> TAKE m \in Ids
  <2>1. in_use[m] = Cardinality(CallsOf(m)) + (IF HasFacade(m) THEN 1 ELSE 0)
    BY DEF IInv, CountsAreHolders
  <2>2. Cardinality(CallsOf(m)') = Cardinality(CallsOf(m))
    OBVIOUS
  <2>3. HasFacade(m)' <=> HasFacade(m)
    OBVIOUS
  <2> QED BY <2>1, <2>2, <2>3
<1> QED BY <1>1, <1>2, <1>3, <1>4, <1>5, <1>6, <1>7, <1>8 DEF IInv, CountsAreHolders

LEMMA FreeDoneStep == ASSUME IInv, FreeDone PROVE IInv'
<1>1. /\ stack # << >> /\ Top.kind = "free" /\ TakeOff(Top.id) /\ Pop
      /\ UNCHANGED <<status, in_use, tierOf, world, tier, executions, readers, writer>>
  BY DEF FreeDone, TopIs, tableVars, borrowVars
<1>2. /\ Depth \in 1 .. Depth /\ Top = stack[Depth]
      /\ Top.id \in Ids /\ Top.id # None /\ world = "open"
      /\ \A j \in 1 .. Depth : stack[j].kind # "start"
  <2>1. Depth \in 1 .. Depth /\ Top = stack[Depth]
    BY <1>1, StackShape DEF IInv, Top, Depth
  <2>2. Top.id \in Ids /\ world = "open"
    BY <1>1, <2>1 DEF IInv, FrameIds, WorldOwned
  <2>3. \A j \in 1 .. Depth : stack[j].kind # "start"
    BY <1>1, <2>1 DEF IInv, WorldOwned, HoldsWorld
  <2> QED BY <2>1, <2>2, <2>3, IdsAssumption
<1>3. /\ instances' \in Seq([id : Ids, facade : BOOLEAN])
      /\ OneEntryEach'
      /\ \A j \in 1 .. Len(instances') : instances'[j].id \in Ids /\ status[instances'[j].id] = "live"
      /\ \A m \in Ids : Listed(m)' => Listed(m)
      /\ \A m \in Ids : status[m] # "dead" => (Listed(m)' <=> Listed(m))
      /\ \A m \in Ids : HasFacade(m)' <=> HasFacade(m)
  <2>1. PICK d : d = Top.id
    OBVIOUS
  <2> QED BY <1>1, <1>2, <2>1, TakenOff
<1>4. ~HoldsGuard(Top) /\ ~HoldsToken(Top) /\ One(HoldsGuard(Top)) = 0
  BY <1>1 DEF HoldsGuard, HoldsToken, Calls, One
<1>5. /\ stack' \in Seq(Frames)
      /\ \A k \in 1 .. Depth' : k \in 1 .. Depth /\ k # Depth /\ stack'[k] = stack[k]
      /\ executions' \in Nat /\ executions' = Cardinality(Guards')
      /\ WorldOwned' /\ FrameIds' /\ GuestsAreGuarded' /\ ViewsAreAlone'
  <2>1. executions' = executions - 0
    BY <1>1 DEF IInv, TypeOK
  <2> QED BY <1>1, <1>2, <1>4, <2>1, PopParts
<1>6. \A m \in Ids : CallsOf(m)' = CallsOf(m)
  <2> TAKE m \in Ids
  <2>1. CallsOf(m)' = CallsOf(m) \ {Depth}
    BY <1>1, PopCounts DEF IInv
  <2>2. Depth \notin CallsOf(m)
    BY <1>2, <1>4 DEF CallsOf
  <2> QED BY <2>1, <2>2
<1> QED BY <1>1, <1>2, <1>3, <1>5, <1>6, ListShrinks

\* Between two entries a drop leaves the list with live instances only.
LEMMA ListIsLive ==
  ASSUME IInv, \A j \in 1 .. Depth : stack[j].kind \in {"free", "drop"} => stack[j].id = None
  PROVE  \A k \in 1 .. Len(instances) : instances[k].id \in Ids /\ status[instances[k].id] = "live"
<1>1. \A k \in 1 .. Len(instances) : instances[k].id \in Ids /\ instances[k].id # None
  BY EntryShape, IdsAssumption DEF IInv
<1> QED BY <1>1 DEF IInv, EntriesAreLive

LEMMA SameList ==
  ASSUME IInv, UNCHANGED instances
  PROVE  /\ instances' \in Seq([id : Ids, facade : BOOLEAN]) /\ OneEntryEach'
         /\ \A m \in Ids : (Listed(m)' <=> Listed(m)) /\ (HasFacade(m)' <=> HasFacade(m))
<1>1. OneEntryEach'
  BY DEF IInv, OneEntryEach
<1>2. \A m \in Ids : (Listed(m)' <=> Listed(m)) /\ (HasFacade(m)' <=> HasFacade(m))
  BY DEF Listed, HasFacade
<1> QED BY <1>1, <1>2 DEF IInv, TypeOK

LEMMA DropResumesStep == ASSUME IInv, DropResumes PROVE IInv'
<1> DEFINE f == Frame("drop", None, "run")
<1>1. /\ stack # << >> /\ Top.kind = "drop" /\ Top.at = "dtor"
      /\ IF world = "freeing" THEN TakeOff(Top.id) ELSE UNCHANGED instances
      /\ stack' = [stack EXCEPT ![Len(stack)] = f]
      /\ UNCHANGED <<status, in_use, tierOf, world, tier, executions, readers, writer>>
  BY DEF DropResumes, TopIs, tableVars, borrowVars
<1>2. /\ Depth \in 1 .. Depth /\ Top = stack[Depth] /\ Top \in Frames /\ ~HoldsToken(Top)
      /\ \A j \in 1 .. Depth : j # Depth => stack[j].kind \notin {"invoke", "start", "free", "drop"}
      /\ world = "fields" => Top.id = None
      /\ world \in {"freeing", "fields"}
  BY <1>1, DropIsTop
<1>3. f \in Frames /\ f.kind = "drop" /\ f.at = "run" /\ f.id = None /\ ~HoldsToken(f)
  BY FrameType DEF Kinds, Stages, HoldsToken, Calls
<1>4. stack' \in Seq(Frames) /\ Replaced(f)
  BY <1>1, <1>3, ReplaceShape DEF IInv
<1> HIDE DEF f
<1>5. /\ Depth' = Depth
      /\ \A j \in 1 .. Depth : j # Depth => stack'[j] = stack[j]
      /\ stack'[Depth] = f
      /\ executions' \in Nat /\ executions' = Cardinality(Guards')
      /\ WorldOwned' /\ FrameIds' /\ GuestsAreGuarded' /\ ViewsAreAlone'
      /\ \A m \in Ids : CallsOf(m)' = CallsOf(m) \ {Depth}
      /\ \A m \in Ids : Depth \in CallsOf(m) <=> HoldsToken(Top) /\ Top.id = m
  BY <1>1, <1>2, <1>3, <1>4, ReplaceParts
<1>6. \A m \in Ids : CallsOf(m)' = CallsOf(m)
  BY <1>2, <1>5
<1>7. /\ instances' \in Seq([id : Ids, facade : BOOLEAN])
      /\ OneEntryEach'
      /\ \A j \in 1 .. Len(instances') : instances'[j].id \in Ids /\ status[instances'[j].id] = "live"
      /\ \A m \in Ids : Listed(m)' => Listed(m)
      /\ \A m \in Ids : HasFacade(m)' <=> HasFacade(m)
  <2>1. CASE Top.id # None
    <3>1. TakeOff(Top.id)
      BY <1>1, <1>2, <2>1
    <3>2. PICK d : d = Top.id
      OBVIOUS
    <3> QED BY <1>1, <2>1, <3>1, <3>2, TakenOff
  <2>2. CASE Top.id = None
    <3>1. UNCHANGED instances
      <4>1. \A k \in DOMAIN instances : instances[k].id # None
        BY EntryShape, IdsAssumption DEF IInv
      <4> QED BY <1>1, <2>2, <4>1 DEF TakeOff
    <3>2. \A j \in 1 .. Depth : stack[j].kind \in {"free", "drop"} => stack[j].id = None
      BY <1>2, <2>2
    <3> QED BY <3>1, <3>2, ListIsLive, SameList
  <2> QED BY <2>1, <2>2
<1>8. \A j \in 1 .. Depth' :
        (j \in 1 .. Depth /\ stack'[j] = stack[j]) \/ (stack'[j].kind = "drop" /\ stack'[j].id = None)
  BY <1>3, <1>5
<1>9. (\A j \in 1 .. Depth : stack[j].kind # "start") /\ world' # "open"
  BY <1>1, <1>2
<1> QED BY <1>1, <1>4, <1>5, <1>6, <1>7, <1>8, <1>9, ListShrinks

\* A drop at work, between two entries.
LEMMA DropIsBetween ==
  ASSUME IInv, TopIs("drop", "run")
  PROVE  /\ stack # << >> /\ Top.kind = "drop" /\ Depth \in 1 .. Depth /\ Top = stack[Depth]
         /\ \A j \in 1 .. Depth : j # Depth => stack[j].kind \notin {"invoke", "start", "free", "drop"}
         /\ \A j \in 1 .. Depth : stack[j].kind # "start"
         /\ \A j \in 1 .. Depth : stack[j].kind \in {"free", "drop"} => stack[j].id = None
         /\ \A k \in 1 .. Len(instances) : instances[k].id \in Ids /\ status[instances[k].id] = "live"
         /\ world \in {"freeing", "fields"}
         /\ ~HoldsToken(Top) /\ ~HoldsGuard(Top)
<1>1. stack # << >> /\ Top.kind = "drop" /\ Top.at = "run"
  BY DEF TopIs
<1>2. /\ Depth \in 1 .. Depth /\ Top = stack[Depth] /\ Top.id = None
      /\ \A j \in 1 .. Depth : j # Depth => stack[j].kind \notin {"invoke", "start", "free", "drop"}
      /\ world \in {"freeing", "fields"} /\ ~HoldsToken(Top)
  BY <1>1, DropIsTop
<1>3. \A j \in 1 .. Depth : stack[j].kind \in {"free", "drop"} => stack[j].id = None
  BY <1>2
<1>4. \A k \in 1 .. Len(instances) : instances[k].id \in Ids /\ status[instances[k].id] = "live"
  BY <1>3, ListIsLive
<1> QED BY <1>1, <1>2, <1>3, <1>4 DEF HoldsGuard

\* The stack and what is on it stay.
LEMMA SameStack ==
  ASSUME IInv, UNCHANGED <<stack, executions>>
  PROVE  /\ Depth' = Depth /\ stack' \in Seq(Frames) /\ GuestsAreGuarded'
         /\ executions' \in Nat /\ executions' = Cardinality(Guards')
         /\ \A m \in Ids : CallsOf(m)' = CallsOf(m)
<1>1. Depth' = Depth
  BY DEF Depth
<1>2. Guards' = Guards /\ \A m \in Ids : CallsOf(m)' = CallsOf(m)
  BY DEF Guards, CallsOf
<1>3. GuestsAreGuarded'
  BY <1>1 DEF IInv, GuestsAreGuarded
<1> QED BY <1>1, <1>2, <1>3 DEF IInv, TypeOK, CountsAreHolders

LEMMA DropBreaksStep == ASSUME IInv, DropBreaks PROVE IInv'
<1>1. /\ TopIs("drop", "run") /\ world = "freeing" /\ world' = "fields"
      /\ UNCHANGED <<status, in_use, tierOf, instances, tier, stack, executions, readers, writer>>
  BY DEF DropBreaks, tableVars, borrowVars
<1>2. /\ Depth' = Depth /\ stack' \in Seq(Frames) /\ GuestsAreGuarded'
      /\ executions' \in Nat /\ executions' = Cardinality(Guards')
      /\ \A m \in Ids : CallsOf(m)' = CallsOf(m)
  BY <1>1, SameStack
<1>3. /\ instances' \in Seq([id : Ids, facade : BOOLEAN]) /\ OneEntryEach'
      /\ \A m \in Ids : (Listed(m)' <=> Listed(m)) /\ (HasFacade(m)' <=> HasFacade(m))
  BY <1>1, SameList
<1>4. /\ \A j \in 1 .. Depth : j # Depth => stack[j].kind \notin {"invoke", "start", "free", "drop"}
      /\ \A j \in 1 .. Depth : stack[j].kind # "start"
      /\ \A j \in 1 .. Depth : stack[j].kind \in {"free", "drop"} => stack[j].id = None
      /\ \A k \in 1 .. Len(instances) : instances[k].id \in Ids /\ status[instances[k].id] = "live"
      /\ Top.kind = "drop" /\ Top = stack[Depth]
  BY <1>1, DropIsBetween
<1>5. WorldOwned'
  BY <1>1, <1>2, <1>4 DEF IInv, WorldOwned
<1>6. FrameIds'
  <2> SUFFICES ASSUME NEW k \in 1 .. Depth
               PROVE  IF stack[k].kind # "drop" THEN stack[k].id \in Ids
                      ELSE stack[k].at \in {"run", "dtor"} /\ stack[k].id = None
    BY <1>1, <1>2 DEF FrameIds
  <2> QED BY <1>4 DEF IInv, FrameIds
<1>7. ViewsAreAlone'
  BY <1>1 DEF IInv, ViewsAreAlone, NoViews
<1> QED BY <1>1, <1>2, <1>3, <1>4, <1>5, <1>6, <1>7, ListShrinks

LEMMA DropSkipsStep == ASSUME IInv, DropSkips PROVE IInv'
<1>1. /\ TopIs("drop", "run") /\ world = "fields" /\ instances # << >>
      /\ ~Head(instances).facade /\ instances' = Tail(instances)
      /\ UNCHANGED <<status, in_use, tierOf, world, tier, stack, executions, readers, writer>>
  BY DEF DropSkips, tableVars, borrowVars
<1>2. /\ Depth' = Depth /\ stack' \in Seq(Frames) /\ GuestsAreGuarded'
      /\ executions' \in Nat /\ executions' = Cardinality(Guards')
      /\ \A m \in Ids : CallsOf(m)' = CallsOf(m)
  BY <1>1, SameStack
<1>3. PICK k \in 1 .. Len(instances) : k = 1 /\ EntryLost(k) /\ ~instances[k].facade
  BY <1>1, EntryShape DEF IInv, TypeOK, EntryLost
<1>4. /\ instances' \in Seq([id : Ids, facade : BOOLEAN])
      /\ OneEntryEach'
      /\ \A j \in 1 .. Len(instances') :
           \E i \in 1 .. Len(instances) : i # k /\ instances'[j] = instances[i]
      /\ \A n : Listed(n)' <=> Listed(n) /\ n # instances[k].id
      /\ \A n : HasFacade(n)' <=> HasFacade(n) /\ n # instances[k].id
  BY <1>3, LostEntry DEF IInv
<1>5. ~HasFacade(instances[k].id)
  BY <1>3, EntryShape DEF IInv, OneEntryEach, HasFacade
<1>6. /\ \A j \in 1 .. Depth : stack[j].kind # "start"
      /\ \A i \in 1 .. Len(instances) : instances[i].id \in Ids /\ status[instances[i].id] = "live"
  BY <1>1, DropIsBetween
<1>7. /\ \A j \in 1 .. Len(instances') : instances'[j].id \in Ids /\ status[instances'[j].id] = "live"
      /\ \A m \in Ids : HasFacade(m)' <=> HasFacade(m)
  <2>1. ASSUME NEW j \in 1 .. Len(instances')
        PROVE  instances'[j].id \in Ids /\ status[instances'[j].id] = "live"
    <3>1. PICK i \in 1 .. Len(instances) : instances'[j] = instances[i]
      BY <1>4
    <3> QED BY <1>6, <3>1
  <2>2. ASSUME NEW m \in Ids PROVE HasFacade(m)' <=> HasFacade(m)
    <3>1. HasFacade(m)' <=> HasFacade(m) /\ m # instances[k].id
      BY <1>4
    <3>2. CASE m = instances[k].id
      BY <1>5, <3>1, <3>2
    <3>3. CASE m # instances[k].id
      BY <3>1, <3>3
    <3> QED BY <3>2, <3>3
  <2> QED BY <2>1, <2>2
<1>8. WorldOwned' /\ FrameIds' /\ ViewsAreAlone'
  BY <1>1, <1>2 DEF IInv, WorldOwned, FrameIds, ViewsAreAlone, NoViews
<1> QED BY <1>1, <1>2, <1>4, <1>6, <1>7, <1>8, ListShrinks

LEMMA DropDoneStep == ASSUME IInv, DropDone PROVE IInv'
<1>1. /\ TopIs("drop", "run") /\ instances = << >> /\ world' = "gone" /\ Pop
      /\ UNCHANGED <<status, in_use, tierOf, instances, tier, executions, readers, writer>>
  BY DEF DropDone, tableVars, borrowVars
<1>2. /\ stack # << >> /\ Top.kind = "drop" /\ Depth \in 1 .. Depth /\ Top = stack[Depth]
      /\ \A j \in 1 .. Depth : stack[j].kind # "start"
      /\ \A k \in 1 .. Len(instances) : instances[k].id \in Ids /\ status[instances[k].id] = "live"
      /\ ~HoldsToken(Top) /\ ~HoldsGuard(Top)
  BY <1>1, DropIsBetween
<1>3. One(HoldsGuard(Top)) = 0 /\ HoldsWorld(Top)
  BY <1>2 DEF One, HoldsWorld
<1>4. /\ stack' \in Seq(Frames)
      /\ \A k \in 1 .. Depth' : k \in 1 .. Depth /\ k # Depth /\ stack'[k] = stack[k]
      /\ executions' \in Nat /\ executions' = Cardinality(Guards')
      /\ WorldOwned' /\ FrameIds' /\ GuestsAreGuarded' /\ ViewsAreAlone'
  <2>1. executions' = executions - 0
    BY <1>1 DEF IInv, TypeOK
  <2> QED BY <1>1, <1>2, <1>3, <2>1, PopParts
<1>5. \A m \in Ids : CallsOf(m)' = CallsOf(m)
  <2> TAKE m \in Ids
  <2>1. CallsOf(m)' = CallsOf(m) \ {Depth}
    BY <1>1, <1>2, PopCounts DEF IInv
  <2>2. Depth \notin CallsOf(m)
    BY <1>2 DEF CallsOf
  <2> QED BY <2>1, <2>2
<1>6. /\ instances' \in Seq([id : Ids, facade : BOOLEAN]) /\ OneEntryEach'
      /\ \A m \in Ids : (Listed(m)' <=> Listed(m)) /\ (HasFacade(m)' <=> HasFacade(m))
  BY <1>1, SameList
<1> QED BY <1>1, <1>2, <1>4, <1>5, <1>6, ListShrinks

LEMMA DropWorldStep == ASSUME IInv, DropWorld PROVE IInv'
<1> DEFINE f == Frame("drop", None, "run")
<1>1. /\ WorldFree /\ world' = "freeing" /\ Push(f)
      /\ UNCHANGED <<status, in_use, tierOf, instances, tier, executions, readers, writer>>
  BY DEF DropWorld, tableVars, borrowVars
<1>2. /\ f \in Frames /\ f.kind = "drop" /\ f.at = "run" /\ f.id = None
      /\ ~HoldsGuard(f) /\ HoldsWorld(f) /\ ~HoldsToken(f) /\ One(HoldsGuard(f)) = 0
  BY FrameType DEF Kinds, Stages, HoldsGuard, HoldsWorld, HoldsToken, Calls, One
<1> HIDE DEF f
<1>3. /\ stack' \in Seq(Frames)
      /\ \A k \in 1 .. Depth' :
           \/ k \in 1 .. Depth /\ stack'[k] = stack[k]
           \/ k = Depth + 1 /\ stack'[k] = f
      /\ executions' \in Nat /\ executions' = Cardinality(Guards')
      /\ WorldOwned' /\ FrameIds' /\ GuestsAreGuarded' /\ ViewsAreAlone'
      /\ \A m \in Ids : CallsOf(m)' = CallsOf(m)
  <2>1. world = "gone" => instances' = << >>
    BY <1>1 DEF WorldFree
  <2>2. executions' = executions + 0
    BY <1>1 DEF IInv, TypeOK
  <2> QED BY <1>1, <1>2, <2>1, <2>2, PushParts
<1>4. \A j \in 1 .. Depth : stack[j].kind \notin {"invoke", "start", "free", "drop"}
  BY <1>1, StackShape DEF WorldFree, HoldsWorld, IInv
<1>5. \A k \in 1 .. Len(instances) : instances[k].id \in Ids /\ status[instances[k].id] = "live"
  BY <1>4, ListIsLive
<1>6. /\ instances' \in Seq([id : Ids, facade : BOOLEAN]) /\ OneEntryEach'
      /\ \A m \in Ids : (Listed(m)' <=> Listed(m)) /\ (HasFacade(m)' <=> HasFacade(m))
  BY <1>1, SameList
<1>7. \A j \in 1 .. Depth' :
        (j \in 1 .. Depth /\ stack'[j] = stack[j]) \/ (stack'[j].kind = "drop" /\ stack'[j].id = None)
  BY <1>2, <1>3
<1>8. \A j \in 1 .. Depth : stack[j].kind # "start"
  BY <1>4
<1> QED BY <1>1, <1>3, <1>5, <1>6, <1>7, <1>8, ListShrinks

LEMMA DropPutsOffStep == ASSUME IInv, DropPutsOff PROVE IInv'
<1>1. /\ TopIs("drop", "run") /\ world = "fields" /\ instances # << >>
      /\ Head(instances).facade /\ in_use[Head(instances).id] > 1
      /\ in_use' = [in_use EXCEPT ![Head(instances).id] = @ - 1]
      /\ status' = [status EXCEPT ![Head(instances).id] = "closing"]
      /\ instances' = Tail(instances)
      /\ UNCHANGED <<tierOf, world, tier, stack, executions, readers, writer>>
  BY DEF DropPutsOff, borrowVars
<1>2. /\ Depth' = Depth /\ stack' \in Seq(Frames) /\ GuestsAreGuarded'
      /\ executions' \in Nat /\ executions' = Cardinality(Guards')
      /\ \A m \in Ids : CallsOf(m)' = CallsOf(m)
  BY <1>1, SameStack
<1>3. PICK k \in 1 .. Len(instances) : k = 1 /\ EntryLost(k) /\ Head(instances) = instances[k]
  BY <1>1, EntryShape DEF IInv, TypeOK, EntryLost
<1>4. /\ instances' \in Seq([id : Ids, facade : BOOLEAN])
      /\ OneEntryEach'
      /\ \A j \in 1 .. Len(instances') :
           \E i \in 1 .. Len(instances) : i # k /\ instances'[j] = instances[i]
      /\ \A m : HasFacade(m)' <=> HasFacade(m) /\ m # instances[k].id
      /\ \A m : Listed(m)' <=> Listed(m) /\ m # instances[k].id
  BY <1>3, LostEntry DEF IInv
<1>5. /\ \A j \in 1 .. Depth : stack[j].kind # "start"
      /\ \A j \in 1 .. Depth : stack[j].kind \in {"free", "drop"} => stack[j].id = None
      /\ \A i \in 1 .. Len(instances) : instances[i].id \in Ids /\ status[instances[i].id] = "live"
  BY <1>1, DropIsBetween
<1>6. PICK n \in Ids : n = instances[k].id
  BY <1>5
<1>7. /\ in_use' = [in_use EXCEPT ![n] = in_use[n] - 1] /\ in_use[n] > 1
      /\ status' = [status EXCEPT ![n] = "closing"] /\ status[n] = "live"
  BY <1>1, <1>3, <1>5, <1>6
<1>8. HasFacade(n)
  BY <1>1, <1>3, <1>6, EntryShape DEF IInv, HasFacade
<1>9. \A m \in Ids : in_use'[m] = Cardinality(CallsOf(m)') + (IF HasFacade(m)' THEN 1 ELSE 0)
  <2> TAKE m \in Ids
  <2>1. in_use[m] = Cardinality(CallsOf(m)) + (IF HasFacade(m) THEN 1 ELSE 0)
    BY DEF IInv, CountsAreHolders
  <2>2. Cardinality(CallsOf(m)') = Cardinality(CallsOf(m))
    BY <1>2
  <2>3. Cardinality(CallsOf(m)) \in Nat
    BY Finite DEF IInv
  <2>4. CASE m = n
    <3>1. in_use'[m] = in_use[m] - 1
      BY <1>7, <2>4 DEF IInv, TypeOK
    <3>2. HasFacade(m) /\ ~HasFacade(m)'
      BY <1>4, <1>6, <1>8, <2>4
    <3> QED BY <2>1, <2>2, <2>3, <3>1, <3>2
  <2>5. CASE m # n
    <3>1. in_use'[m] = in_use[m]
      BY <1>7, <2>5 DEF IInv, TypeOK
    <3>2. HasFacade(m)' <=> HasFacade(m)
      BY <1>4, <1>6, <2>5
    <3> QED BY <2>1, <2>2, <3>1, <3>2
  <2> QED BY <2>4, <2>5
<1>10. TypeOK'
  <2>1. in_use[n] - 1 \in Nat
    BY <1>7 DEF IInv, TypeOK
  <2> QED BY <1>1, <1>2, <1>4, <1>7, <2>1 DEF IInv, TypeOK
<1>11. WorldOwned' /\ FrameIds' /\ ViewsAreAlone'
  BY <1>1, <1>2 DEF IInv, WorldOwned, FrameIds, ViewsAreAlone, NoViews
<1>12. EntriesAreLive'
  <2> SUFFICES ASSUME NEW j \in 1 .. Len(instances') PROVE status'[instances'[j].id] = "live"
    BY DEF EntriesAreLive
  <2>1. PICK i \in 1 .. Len(instances) : i # k /\ instances'[j] = instances[i]
    BY <1>4
  <2>2. instances[i].id # n /\ instances[i].id \in Ids /\ status[instances[i].id] = "live"
    BY <1>5, <1>6, <2>1 DEF IInv, OneEntryEach
  <2> QED BY <1>7, <2>1, <2>2 DEF IInv, TypeOK
<1>13. StartsAreNew'
  BY <1>1, <1>2, <1>5 DEF StartsAreNew, Starts
<1>14. FreesAreDead'
  BY <1>1, <1>2, <1>5 DEF FreesAreDead
<1>15. CallsAreAlive'
  <2>1. \A m \in Ids : Occupied(m) => Occupied(m)'
    BY <1>7 DEF Occupied, IInv, TypeOK
  <2>2. \A j \in 1 .. Depth : HoldsToken(stack[j]) => stack[j].id \in Ids /\ Occupied(stack[j].id)
    BY DEF IInv, CallsAreAlive, FrameIds, HoldsToken, Calls
  <2>3. \A j \in 1 .. Depth : HoldsToken(stack[j]) => Occupied(stack[j].id)'
    <3> SUFFICES ASSUME NEW j \in 1 .. Depth, HoldsToken(stack[j])
                 PROVE  status'[stack[j].id] \in {"live", "closing"}
      BY <1>1 DEF Occupied
    <3>1. PICK d \in Ids : d = stack[j].id
      BY <2>2
    <3> QED BY <2>1, <2>2, <3>1 DEF Occupied
  <2> QED BY <1>1, <1>2, <2>3 DEF CallsAreAlive, Occupied
<1>16. SettledAreListed'
  <2>1. \A m \in Ids : Settled(m)' => Settled(m)
    BY <1>1, <1>2, <1>5, <1>7 DEF Settled, Occupied, Publishes, Starts, IInv, TypeOK
  <2> QED BY <1>1, <2>1 DEF IInv, SettledAreListed
<1>17. ClosingIsCalled'
  <2> SUFFICES ASSUME NEW m \in Ids, status'[m] = "closing" PROVE CallsOf(m) # {}
    BY <1>2 DEF ClosingIsCalled
  <2>1. CASE m = n
    <3>1. in_use[m] = Cardinality(CallsOf(m)) + 1
      BY <1>8, <2>1 DEF IInv, CountsAreHolders
    <3>2. CallsOf(m) = {} => Cardinality(CallsOf(m)) = 0
      BY FS_EmptySet
    <3> QED BY <1>7, <2>1, <3>1, <3>2
  <2>2. CASE m # n
    BY <1>7, <2>2 DEF IInv, ClosingIsCalled, TypeOK
  <2> QED BY <2>1, <2>2
<1> QED
  BY <1>2, <1>4, <1>9, <1>10, <1>11, <1>12, <1>13, <1>14, <1>15, <1>16, <1>17 DEF IInv, CountsAreHolders

LEMMA DropTableStep == ASSUME IInv, NEW n \in Ids, DropTable(n) PROVE IInv'
<1>1. /\ world = "gone" /\ stack = << >> /\ Occupied(n)
      /\ status' = [status EXCEPT ![n] = "dead"]
      /\ UNCHANGED <<in_use, tierOf, instances, world, tier, stack, executions, readers, writer>>
  BY DEF DropTable, TableAlive, worldVars, borrowVars
<1>2. instances = << >> /\ Depth = 0 /\ 1 .. Depth = {} /\ DOMAIN instances = {}
  BY <1>1 DEF IInv, WorldOwned, Depth
<1>3. /\ Depth' = Depth /\ stack' \in Seq(Frames) /\ GuestsAreGuarded'
      /\ executions' \in Nat /\ executions' = Cardinality(Guards')
      /\ \A m \in Ids : CallsOf(m)' = CallsOf(m)
  BY <1>1, SameStack
<1>4. /\ OneEntryEach'
      /\ \A m \in Ids : (Listed(m)' <=> Listed(m)) /\ (HasFacade(m)' <=> HasFacade(m))
  BY <1>1, SameList
<1>5. TypeOK'
  BY <1>1 DEF IInv, TypeOK
<1>6. WorldOwned' /\ FrameIds' /\ ViewsAreAlone'
  BY <1>1, <1>3 DEF IInv, WorldOwned, FrameIds, ViewsAreAlone, NoViews
<1>7. StartsAreNew' /\ FreesAreDead' /\ CallsAreAlive'
  BY <1>2, <1>3 DEF StartsAreNew, FreesAreDead, CallsAreAlive
<1>8. EntriesAreLive'
  BY <1>1, <1>2 DEF EntriesAreLive
<1>9. SettledAreListed'
  <2>1. \A m \in Ids : Settled(m)' => Settled(m)
    BY <1>1, <1>2, <1>3 DEF Settled, Occupied, IInv, TypeOK
  <2> QED BY <1>1, <2>1 DEF IInv, SettledAreListed
<1>10. ClosingIsCalled'
  BY <1>1, <1>3 DEF IInv, ClosingIsCalled, TypeOK
<1>11. \A m \in Ids : in_use'[m] = Cardinality(CallsOf(m)') + (IF HasFacade(m)' THEN 1 ELSE 0)
  BY <1>1, <1>3, <1>4 DEF IInv, CountsAreHolders
<1> QED BY <1>3, <1>4, <1>5, <1>6, <1>7, <1>8, <1>9, <1>10, <1>11 DEF IInv, CountsAreHolders

-----------------------------------------------------------------------------
(* The steps together.                                                       *)

\* Views come and go while nothing else moves.
LEMMA ViewsStep ==
  ASSUME IInv, UNCHANGED <<tableVars, worldVars, stack, executions>>,
         readers' \in Nat, writer' \in BOOLEAN, ViewsAreAlone'
  PROVE  IInv'
<1>1. UNCHANGED <<status, in_use, tierOf, instances, world, tier, stack, executions>>
  BY DEF tableVars, worldVars
<1>2. /\ Depth' = Depth /\ GuestsAreGuarded'
      /\ executions' = Cardinality(Guards')
      /\ \A m \in Ids : CallsOf(m)' = CallsOf(m)
  BY <1>1, SameStack
<1>3. /\ OneEntryEach'
      /\ \A m \in Ids : (Listed(m)' <=> Listed(m)) /\ (HasFacade(m)' <=> HasFacade(m))
  BY <1>1, SameList
<1>4. TypeOK'
  BY <1>1 DEF IInv, TypeOK
<1>5. WorldOwned' /\ FrameIds' /\ EntriesAreLive'
  BY <1>1, <1>2 DEF IInv, WorldOwned, FrameIds, EntriesAreLive
<1>6. StartsAreNew'
  BY <1>1, <1>2, <1>3 DEF IInv, StartsAreNew, Starts, Fitting
<1>7. FreesAreDead' /\ CallsAreAlive'
  BY <1>1, <1>2 DEF IInv, FreesAreDead, CallsAreAlive, Occupied
<1>8. SettledAreListed'
  <2>1. \A m \in Ids : Settled(m)' => Settled(m)
    BY <1>1, <1>2 DEF Settled, Occupied, Publishes, Starts
  <2> QED BY <1>1, <1>3, <2>1 DEF IInv, SettledAreListed
<1>9. ClosingIsCalled'
  BY <1>1, <1>2 DEF IInv, ClosingIsCalled
<1>10. \A m \in Ids : in_use'[m] = Cardinality(CallsOf(m)') + (IF HasFacade(m)' THEN 1 ELSE 0)
  BY <1>1, <1>2, <1>3 DEF IInv, CountsAreHolders
<1> QED BY <1>2, <1>3, <1>4, <1>5, <1>6, <1>7, <1>8, <1>9, <1>10 DEF IInv, CountsAreHolders

LEMMA ReturnStep == ASSUME IInv, Return PROVE IInv'
<1>1. /\ stack # << >> /\ HoldsToken(Top) /\ Top.kind \in Calls /\ Pop /\ LeaveIfGuarded
      /\ ~(in_use[Top.id] = 1 /\ status[Top.id] = "closing")
      /\ in_use' = [in_use EXCEPT ![Top.id] = in_use[Top.id] - 1]
      /\ UNCHANGED <<status, tierOf, instances, world, tier>>
  BY DEF Return, HoldsToken, worldVars
<1> QED BY <1>1, EndCallStep

LEMMA ReclaimedReturnStep == ASSUME IInv, ReclaimedReturn PROVE IInv'
<1>1. /\ stack # << >> /\ ~HoldsToken(Top) /\ Top.kind \in Calls /\ Pop /\ LeaveIfGuarded
      /\ UNCHANGED <<status, in_use, tierOf, instances, world, tier>>
  BY DEF ReclaimedReturn, HoldsToken, worldVars, tableVars
<1> QED BY <1>1, EndCallStep

LEMMA CallsStep ==
  ASSUME IInv, NEW n \in Ids, Invoke(n) \/ CallFacade(n) \/ InvokeAccess(n) \/ GuestCall(n)
  PROVE  IInv'
<1>1. CASE Invoke(n) \/ CallFacade(n)
  <2>1. /\ WorldFree /\ HostRuns /\ Enter /\ Checkout(n)
        /\ Push(Frame("invoke", n, "run")) /\ UNCHANGED worldVars
    BY <1>1 DEF CallFacade, Invoke, WorldFree
  <2> QED BY <2>1, CallStep DEF Calls
<1>2. CASE InvokeAccess(n)
  <2>1. /\ HostRuns /\ Enter /\ Checkout(n)
        /\ Push(Frame("access", n, "run")) /\ UNCHANGED worldVars
    BY <1>2 DEF InvokeAccess
  <2> QED BY <2>1, CallStep DEF Calls
<1>3. CASE GuestCall(n)
  <2>1. /\ GuestRuns /\ HostRuns /\ Checkout(n)
        /\ Push(Frame("guest", n, "run")) /\ UNCHANGED worldVars /\ UNCHANGED borrowVars
    BY <1>3 DEF GuestCall, HostRuns
  <2> QED BY <2>1, CallStep DEF Calls
<1> QED BY <1>1, <1>2, <1>3

LEMMA ViewSteps ==
  ASSUME IInv, Read \/ Write \/ DropReader \/ DropWriter
  PROVE  IInv'
<1>1. executions \in Nat /\ readers \in Nat /\ writer \in BOOLEAN /\ ViewsAreAlone
  BY DEF IInv, TypeOK
<1>2. UNCHANGED <<tableVars, worldVars, stack, executions>>
  BY DEF Read, Write, DropReader, DropWriter
<1>3. \/ readers' = readers + 1 /\ writer' = writer
      \/ readers' = readers /\ writer' = TRUE
      \/ readers > 0 /\ readers' = readers - 1 /\ writer' = writer
      \/ readers' = readers /\ writer' = FALSE
  BY DEF Read, Write, DropReader, DropWriter
<1>5. readers' \in Nat
  BY <1>1, <1>3
<1>6. writer' \in BOOLEAN
  BY <1>1, <1>3, Zenon
<1>4. ViewsAreAlone'
  BY <1>1 DEF ViewsAreAlone, NoViews, Read, Write, DropReader, DropWriter
<1> QED BY <1>2, <1>4, <1>5, <1>6, ViewsStep

LEMMA InitEstablishes == ASSUME Init PROVE IInv
<1>1. /\ stack = << >> /\ instances = << >> /\ Depth = 0 /\ 1 .. Depth = {}
      /\ DOMAIN stack = {} /\ DOMAIN instances = {} /\ Len(instances) = 0
      /\ \A n \in Ids : status[n] = "unborn" /\ in_use[n] = 0
  BY DEF Init, Depth
<1>2. TypeOK
  <2>1. << >> \in Seq(Frames) /\ << >> \in Seq([id : Ids, facade : BOOLEAN])
    BY EmptySeq
  <2>2. /\ status \in [Ids -> {"unborn", "reserved", "live", "closing", "dead"}]
        /\ in_use \in [Ids -> Nat]
        /\ tierOf \in [Ids -> Tiers \cup {None}]
    BY DEF Init
  <2>3. writer \in BOOLEAN
    BY DEF Init
  <2> QED BY <2>1, <2>2, <2>3 DEF Init, TypeOK
<1>3. WorldOwned /\ FrameIds /\ GuestsAreGuarded /\ FreesAreDead /\ CallsAreAlive /\ StartsAreNew
  BY <1>1 DEF Init, WorldOwned, FrameIds, GuestsAreGuarded, FreesAreDead, CallsAreAlive, StartsAreNew
<1>4. ViewsAreAlone
  BY DEF Init, ViewsAreAlone, NoViews
<1>5. OneEntryEach /\ EntriesAreLive
  BY <1>1 DEF OneEntryEach, EntriesAreLive
<1>6. SettledAreListed /\ ClosingIsCalled
  BY <1>1 DEF SettledAreListed, ClosingIsCalled, Settled, Occupied
<1>7. CountsAreHolders
  <2>1. Guards = {} /\ \A n \in Ids : CallsOf(n) = {} /\ ~HasFacade(n)
    BY <1>1 DEF Guards, CallsOf, HasFacade
  <2>2. Cardinality({}) = 0
    BY FS_EmptySet
  <2>3. executions = 0
    BY DEF Init
  <2>4. ASSUME NEW n \in Ids
        PROVE  in_use[n] = Cardinality(CallsOf(n)) + (IF HasFacade(n) THEN 1 ELSE 0)
    <3>1. CallsOf(n) = {} /\ ~HasFacade(n) /\ in_use[n] = 0
      BY <1>1, <2>1
    <3> QED BY <2>2, <3>1
  <2> QED BY <2>1, <2>2, <2>3, <2>4 DEF CountsAreHolders
<1> QED BY <1>2, <1>3, <1>4, <1>5, <1>6, <1>7 DEF IInv

LEMMA UnwindStep == ASSUME IInv, Unwind PROVE IInv'
  BY AbandonStep, RunStartStep, OccupySlotStep, InstantiateDoneStep, InstantiatePartialStep,
     ReturnStep, ReturnReclaimsStep, ReclaimedReturnStep, FreeDoneStep,
     DropFreesStep, DropBreaksStep, DropPutsOffStep, DropReleasesStep, DropSkipsStep,
     DropResumesStep, DropDoneStep, DropTableStep
  DEF Unwind, DropStep

LEMMA Stutters == ASSUME IInv, UNCHANGED vars PROVE IInv'
<1>1. /\ UNCHANGED <<tableVars, worldVars, stack, executions>>
      /\ readers' = readers /\ writer' = writer
  BY DEF vars, borrowVars
<1>2. readers' \in Nat /\ writer' \in BOOLEAN /\ ViewsAreAlone'
  BY <1>1 DEF IInv, TypeOK, ViewsAreAlone, NoViews
<1> QED BY <1>1, <1>2, ViewsStep

LEMMA StepPreserves == ASSUME IInv, [Next]_vars PROVE IInv'
<1>1. CASE Read \/ Write \/ DropReader \/ DropWriter
  BY <1>1, ViewSteps
<1>2. CASE \E n \in Ids, t \in Tiers : Instantiate(n, t)
  BY <1>2, InstantiateStep
<1>3. CASE \E n \in Ids : Invoke(n) \/ CallFacade(n) \/ InvokeAccess(n) \/ GuestCall(n)
  BY <1>3, CallsStep
<1>4. CASE \E n \in Ids : Free(n)
  BY <1>4, FreeStep
<1>5. CASE DropWorld
  BY <1>5, DropWorldStep
<1>6. CASE Unwind
  BY <1>6, UnwindStep
<1>7. CASE Done \/ UNCHANGED vars
  BY <1>7, Stutters DEF Done
<1> QED BY <1>1, <1>2, <1>3, <1>4, <1>5, <1>6, <1>7 DEF Next

LEMMA Invariant == Spec => []IInv
<1>1. Init => IInv
  BY InitEstablishes
<1>2. IInv /\ [Next]_vars => IInv'
  BY StepPreserves
<1> QED BY <1>1, <1>2, PTL DEF Spec

-----------------------------------------------------------------------------
(* The theorems.                                                             *)

\* The execution depth, a count of unsigned fields that the code decrements on
\* many paths, never goes below zero, nor does a checkout count, and a frame
\* always names what its kind says (memory.rs, instance.rs).
THEOREM TypeCorrect == Spec => []TypeOK
<1>1. IInv => TypeOK
  BY DEF IInv
<1> QED BY <1>1, Invariant, PTL

\* Counters match what is on the stack and in the facades, on every path that
\* ends a call, a failed instantiation or a release (instance.rs, memory.rs).
THEOREM Counts == Spec => []CountsAreHolders
<1>1. IInv => CountsAreHolders
  BY DEF IInv
<1> QED BY <1>1, Invariant, PTL

\* While a memory view exists nothing of the world executes, at any depth of
\* calls and with any number of views: what the `unsafe' of the views rests on.
THEOREM ViewsExclude == Spec => []ViewsExcludeExecution
<1>1. IInv => ViewsExcludeExecution
  <2> SUFFICES ASSUME IInv PROVE ViewsExcludeExecution
    OBVIOUS
  <2>1. ASSUME ~NoViews, NEW k \in DOMAIN stack
        PROVE  ~HoldsToken(stack[k]) /\ stack[k].kind # "start"
    <3>1. k \in 1 .. Depth /\ Depth \in Nat /\ DOMAIN stack = 1 .. Depth
      BY StackShape DEF IInv
    <3>2. Guards = {}
      <4>1. Cardinality(Guards) = 0
        BY <2>1 DEF IInv, ViewsAreAlone, CountsAreHolders
      <4> QED BY <4>1, Finite, FS_EmptySet DEF IInv
    <3>3. \A j \in 1 .. Depth : ~HoldsGuard(stack[j])
      BY <3>1, <3>2 DEF Guards
    <3>4. stack[k].kind # "guest"
      <4>1. \A j \in 1 .. k - 1 : j \in 1 .. Depth
        BY <3>1
      <4> QED BY <3>1, <3>3, <4>1 DEF IInv, GuestsAreGuarded
    <3> QED BY <3>1, <3>3, <3>4 DEF HoldsGuard, HoldsToken, Calls
  <2>2. writer => readers = 0
    BY DEF IInv, ViewsAreAlone
  <2> QED BY <2>1, <2>2 DEF ViewsExcludeExecution
<1> QED BY <1>1, Invariant, PTL

\* An instance that is being called is not destroyed, and one whose start
\* function runs is held by nobody (current_store_access, jit/runtime/mod.rs).
THEOREM CalledAreAlive == Spec => []CalledIsAlive
<1>1. IInv => CalledIsAlive
  <2> SUFFICES ASSUME IInv, NEW k \in 1 .. Depth
               PROVE  /\ HoldsToken(stack[k]) => Occupied(stack[k].id)
                      /\ stack[k].kind = "start" /\ stack[k].at # "occupied" =>
                           status[stack[k].id] = "reserved" /\ in_use[stack[k].id] = 0
    BY StackShape DEF CalledIsAlive, IInv
  <2>1. HoldsToken(stack[k]) => Occupied(stack[k].id)
    BY DEF IInv, CallsAreAlive
  <2>2. ASSUME stack[k].kind = "start", stack[k].at # "occupied"
        PROVE  status[stack[k].id] = "reserved" /\ in_use[stack[k].id] = 0
    <3>1. PICK n \in Ids : n = stack[k].id
      BY <2>2 DEF IInv, FrameIds
    <3> QED BY <2>2, <3>1 DEF IInv, StartsAreNew, Starts
  <2> QED BY <2>1, <2>2
<1> QED BY <1>1, Invariant, PTL

\* Nothing is left behind in an idle world that its embedder could not free,
\* by failed instantiations, calls or refused releases (RuntimeWorld::free).
THEOREM IdleWorldsCanFree == Spec => []IdleWorldCanFreeAll
<1>1. IInv => IdleWorldCanFreeAll
  <2> SUFFICES ASSUME IInv, stack = << >>, world = "open" PROVE IdleWorldCanFreeAll
    BY DEF IdleWorldCanFreeAll
  <2>1. Depth = 0 /\ 1 .. Depth = {} /\ DOMAIN stack = {}
    BY DEF Depth
  <2>2. ASSUME NEW k \in DOMAIN instances PROVE Freeable(instances[k])
    <3>1. k \in 1 .. Len(instances) /\ DOMAIN instances = 1 .. Len(instances)
      BY <2>2, EntryShape DEF IInv
    <3>2. PICK n \in Ids : n = instances[k].id
      BY <3>1, EntryShape DEF IInv
    <3>3. Occupied(n)
      BY <2>1, <3>1, <3>2 DEF IInv, EntriesAreLive, Occupied
    <3>4. HasFacade(n) <=> instances[k].facade
      BY <3>1, <3>2, EntryShape DEF IInv, OneEntryEach, HasFacade
    <3>5. CallsOf(n) = {}
      BY <2>1 DEF CallsOf
    <3>6. in_use[n] = IF HasFacade(n) THEN 1 ELSE 0
      <4>1. in_use[n] = Cardinality(CallsOf(n)) + (IF HasFacade(n) THEN 1 ELSE 0)
        BY DEF IInv, CountsAreHolders
      <4>2. Cardinality(CallsOf(n)) = 0
        BY <3>5, FS_EmptySet
      <4> QED BY <4>1, <4>2
    <3> QED BY <3>2, <3>3, <3>4, <3>6 DEF Freeable
  <2>3. ASSUME NEW n \in Ids, Occupied(n) PROVE Listed(n)
    <3>1. Settled(n)
      BY <2>1, <2>3 DEF Settled
    <3> QED BY <3>1 DEF IInv, SettledAreListed
  <2> QED BY <2>2, <2>3 DEF IdleWorldCanFreeAll
<1> QED BY <1>1, Invariant, PTL

\* No release is put off without a call that will perform it (InstanceLease's
\* drop and InstanceToken's, instance.rs).
THEOREM ClosingAreCalled == Spec => []ClosingIsCalled
<1>1. IInv => ClosingIsCalled
  BY DEF IInv
<1> QED BY <1>1, Invariant, PTL

\* All instances of a world run on the engine it has recorded, the failed ones
\* included (RuntimeWorld::instantiate).
THEOREM OneTier == Spec => []SingleTier
<1>1. IInv => SingleTier
  <2> SUFFICES ASSUME IInv, NEW n \in Ids, Occupied(n), ~TopIs("start", "occupied")
               PROVE  tierOf[n] = tier
    BY DEF SingleTier
  <2>1. ASSUME NEW k \in 1 .. Depth, Publishes(k), stack[k].id = n PROVE FALSE
    <3>1. k = Depth
      BY <2>1 DEF IInv, StartsAreNew, Publishes
    <3>2. Top.kind = "start" /\ Top.at = "occupied" /\ stack # << >>
      BY <2>1, <3>1, StackShape DEF IInv, Publishes, Starts, Top, Depth
    <3> QED BY <3>2 DEF TopIs
  <2>2. Settled(n)
    BY <2>1 DEF Settled
  <2> QED BY <2>2 DEF IInv, SettledAreListed
<1> QED BY <1>1, Invariant, PTL

-----------------------------------------------------------------------------
(* The world uses the instance table as InstanceLifecycle allows.            *)

\* The users of an instance with these calls, and with a facade or without.
Held(n, calls, facade) ==
  {<<"frame", k>> : k \in calls} \cup (IF facade THEN {<<"facade", n>>} ELSE {})

LEMMA UsersAre ==
  /\ UsersView = [n \in Ids |-> Held(n, CallsOf(n), HasFacade(n))]
  /\ UsersView' = [n \in Ids |-> Held(n, CallsOf(n)', HasFacade(n)')]
  BY DEF UsersView, Held

LEMMA HeldMembers ==
  ASSUME NEW n, NEW calls, NEW facade
  PROVE  /\ \A k : <<"frame", k>> \in Held(n, calls, facade) <=> k \in calls
         /\ \A m : <<"facade", m>> \in Held(n, calls, facade) <=> facade /\ m = n
         /\ Held(n, {}, FALSE) = {}
  BY DEF Held

LEMMA HeldFrame ==
  ASSUME NEW n, NEW calls, NEW k
  PROVE  Held(n, calls, FALSE) = {<<"frame", k>>} <=> calls = {k}
<1>1. \A j : <<"frame", j>> \in Held(n, calls, FALSE) <=> j \in calls
  BY DEF Held
<1>2. ASSUME calls = {k} PROVE Held(n, calls, FALSE) = {<<"frame", k>>}
  BY <1>2 DEF Held
<1>3. ASSUME Held(n, calls, FALSE) = {<<"frame", k>>} PROVE calls = {k}
  <2>1. \A j : j \in calls <=> <<"frame", j>> = <<"frame", k>>
    BY <1>1, <1>3
  <2>2. \A j : <<"frame", j>> = <<"frame", k>> <=> j = k
    OBVIOUS
  <2> QED BY <2>1, <2>2
<1> QED BY <1>2, <1>3

LEMMA HeldFacade ==
  ASSUME NEW n, NEW calls
  PROVE  Held(n, calls, TRUE) = {<<"facade", n>>} <=> calls = {}
<1>1. ASSUME calls = {} PROVE Held(n, calls, TRUE) = {<<"facade", n>>}
  BY <1>1 DEF Held
<1>2. ASSUME Held(n, calls, TRUE) = {<<"facade", n>>} PROVE calls = {}
  <2>1. \A j : j \in calls => <<"frame", j>> = <<"facade", n>>
    BY <1>2 DEF Held
  <2> QED BY <2>1
<1> QED BY <1>1, <1>2

LEMMA SameUsers ==
  ASSUME \A m \in Ids : CallsOf(m)' = CallsOf(m),
         \A m \in Ids : HasFacade(m)' <=> HasFacade(m)
  PROVE  UsersView' = UsersView
<1>1. \A m \in Ids : Held(m, CallsOf(m)', HasFacade(m)') = Held(m, CallsOf(m), HasFacade(m))
  BY DEF Held
<1> QED BY <1>1, UsersAre

LEMMA FrameGained ==
  ASSUME NEW n \in Ids, NEW k,
         CallsOf(n)' = CallsOf(n) \cup {k},
         \A m \in Ids : m # n => CallsOf(m)' = CallsOf(m),
         \A m \in Ids : HasFacade(m)' <=> HasFacade(m)
  PROVE  UsersView' = [UsersView EXCEPT ![n] = UsersView[n] \cup {<<"frame", k>>}]
<1>1. \A m \in Ids : m # n => Held(m, CallsOf(m)', HasFacade(m)') = Held(m, CallsOf(m), HasFacade(m))
  BY DEF Held
<1>2. Held(n, CallsOf(n)', HasFacade(n)') = Held(n, CallsOf(n), HasFacade(n)) \cup {<<"frame", k>>}
  BY DEF Held
<1> QED BY <1>1, <1>2, UsersAre

LEMMA FrameLost ==
  ASSUME NEW n \in Ids, NEW k,
         CallsOf(n)' = CallsOf(n) \ {k},
         \A m \in Ids : m # n => CallsOf(m)' = CallsOf(m),
         \A m \in Ids : HasFacade(m)' <=> HasFacade(m)
  PROVE  UsersView' = [UsersView EXCEPT ![n] = UsersView[n] \ {<<"frame", k>>}]
<1>1. \A m \in Ids : m # n => Held(m, CallsOf(m)', HasFacade(m)') = Held(m, CallsOf(m), HasFacade(m))
  BY DEF Held
<1>2. Held(n, CallsOf(n)', HasFacade(n)') = Held(n, CallsOf(n), HasFacade(n)) \ {<<"frame", k>>}
  BY DEF Held
<1> QED BY <1>1, <1>2, UsersAre

LEMMA FacadeGained ==
  ASSUME NEW n \in Ids,
         \A m \in Ids : CallsOf(m)' = CallsOf(m),
         \A m \in Ids : HasFacade(m)' <=> HasFacade(m) \/ m = n
  PROVE  UsersView' = [UsersView EXCEPT ![n] = UsersView[n] \cup {<<"facade", n>>}]
<1>1. \A m \in Ids : m # n => Held(m, CallsOf(m)', HasFacade(m)') = Held(m, CallsOf(m), HasFacade(m))
  BY DEF Held
<1>2. Held(n, CallsOf(n)', HasFacade(n)') = Held(n, CallsOf(n), HasFacade(n)) \cup {<<"facade", n>>}
  BY DEF Held
<1> QED BY <1>1, <1>2, UsersAre

LEMMA FacadeLost ==
  ASSUME NEW n \in Ids,
         \A m \in Ids : CallsOf(m)' = CallsOf(m),
         \A m \in Ids : HasFacade(m)' <=> HasFacade(m) /\ m # n
  PROVE  UsersView' = [UsersView EXCEPT ![n] = UsersView[n] \ {<<"facade", n>>}]
<1>1. \A m \in Ids : m # n => Held(m, CallsOf(m)', HasFacade(m)') = Held(m, CallsOf(m), HasFacade(m))
  BY DEF Held
<1>2. Held(n, CallsOf(n)', HasFacade(n)') = Held(n, CallsOf(n), HasFacade(n)) \ {<<"facade", n>>}
  BY DEF Held
<1> QED BY <1>1, <1>2, UsersAre

\* Which calls hold what does not change by frames that hold no token.
LEMMA PushKeeps ==
  ASSUME TypeOK, NEW f \in Frames, Push(f), ~HoldsToken(f)
  PROVE  \A m \in Ids : CallsOf(m)' = CallsOf(m)
  BY PushCounts

LEMMA PopKeeps ==
  ASSUME TypeOK, stack # << >>, Pop, ~HoldsToken(Top)
  PROVE  \A m \in Ids : CallsOf(m)' = CallsOf(m)
<1> TAKE m \in Ids
<1>1. CallsOf(m)' = CallsOf(m) \ {Depth}
  BY PopCounts
<1>2. Depth \notin CallsOf(m)
  BY DEF CallsOf, Top, Depth
<1> QED BY <1>1, <1>2

LEMMA ReplaceKeeps ==
  ASSUME TypeOK, stack # << >>, NEW f, Replaced(f), stack' \in Seq(Frames),
         ~HoldsToken(f), ~HoldsToken(Top)
  PROVE  \A m \in Ids : CallsOf(m)' = CallsOf(m)
<1>1. /\ DOMAIN stack' = 1 .. Depth /\ DOMAIN stack = 1 .. Depth /\ Top = stack[Depth]
  BY StackShape DEF Replaced, Depth, Top
<1> QED BY <1>1 DEF CallsOf, Replaced

LEMMA MoveKeeps ==
  ASSUME TypeOK, stack # << >>, NEW at \in Stages, MoveTop(at), Top.kind \notin Calls
  PROVE  \A m \in Ids : CallsOf(m)' = CallsOf(m)
<1> DEFINE f == Frame(Top.kind, Top.id, at)
<1>1. stack' \in Seq(Frames) /\ Replaced(f)
  BY MoveShape
<1>2. ~HoldsToken(f) /\ ~HoldsToken(Top)
  BY DEF f, Frame, HoldsToken
<1> HIDE DEF f
<1> QED BY <1>1, <1>2, ReplaceKeeps

LEMMA FacadesStay ==
  ASSUME UNCHANGED instances
  PROVE  \A m \in Ids : HasFacade(m)' <=> HasFacade(m)
  BY DEF HasFacade

LEMMA UsersOf ==
  ASSUME NEW n \in Ids, NEW k
  PROVE  /\ <<"frame", k>> \in UsersView[n] <=> k \in CallsOf(n)
         /\ \A m : <<"facade", m>> \in UsersView[n] <=> HasFacade(n) /\ m = n
         /\ UsersView[n] = {<<"frame", k>>} <=> CallsOf(n) = {k} /\ ~HasFacade(n)
         /\ HasFacade(n) => (UsersView[n] = {<<"facade", n>>} <=> CallsOf(n) = {})
         /\ CallsOf(n) = {} /\ ~HasFacade(n) => UsersView[n] = {}
<1> DEFINE calls == CallsOf(n)
<1>1. UsersView[n] = {<<"frame", j>> : j \in calls} \cup (IF HasFacade(n) THEN {<<"facade", n>>} ELSE {})
  BY DEF UsersView
<1> HIDE DEF calls
<1>2. CASE HasFacade(n)
  <2>1. UsersView[n] = Held(n, calls, TRUE)
    BY <1>1, <1>2 DEF Held
  <2>2. Held(n, calls, TRUE) = {<<"facade", n>>} <=> calls = {}
    BY HeldFacade
  <2>3. Held(n, calls, TRUE) # {<<"frame", k>>}
    <3>1. <<"facade", n>> \in Held(n, calls, TRUE) /\ <<"facade", n>> # <<"frame", k>>
      BY DEF Held
    <3> QED BY <3>1
  <2>4. /\ <<"frame", k>> \in Held(n, calls, TRUE) <=> k \in calls
        /\ \A m : <<"facade", m>> \in Held(n, calls, TRUE) <=> m = n
    BY HeldMembers
  <2> QED BY <1>2, <2>1, <2>2, <2>3, <2>4 DEF calls
<1>3. CASE ~HasFacade(n)
  <2>1. UsersView[n] = Held(n, calls, FALSE)
    BY <1>1, <1>3 DEF Held
  <2>2. Held(n, calls, FALSE) = {<<"frame", k>>} <=> calls = {k}
    BY HeldFrame
  <2>3. /\ <<"frame", k>> \in Held(n, calls, FALSE) <=> k \in calls
        /\ \A m : <<"facade", m>> \notin Held(n, calls, FALSE)
        /\ Held(n, {}, FALSE) = {}
    BY HeldMembers
  <2> QED BY <1>3, <2>1, <2>2, <2>3 DEF calls
<1> QED BY <1>2, <1>3

Bounded == Depth <= MaxDepth

LEMMA StaysBounded == ASSUME IInv, Bounded, [Next]_vars PROVE Bounded'
<1>1. Depth \in Nat /\ TypeOK
  BY StackShape DEF IInv
<1>2. ASSUME NEW f, Push(f) PROVE Bounded'
  <2>1. Depth' = Depth + 1 /\ Depth < MaxDepth
    BY <1>1, <1>2, AppendProperties DEF Push, Depth, TypeOK
  <2> QED BY <1>1, <2>1, MaxDepthAssumption DEF Bounded
<1>3. ASSUME stack # << >>, Pop PROVE Bounded'
  BY <1>1, <1>3, PopShape, MaxDepthAssumption DEF Bounded, Shrunk
<1>4. ASSUME NEW f, stack' = [stack EXCEPT ![Len(stack)] = f] PROVE Bounded'
  <2>1. Len(stack') = Len(stack)
    BY <1>1, <1>4 DEF TypeOK
  <2> QED BY <2>1 DEF Bounded, Depth
<1>5. ASSUME NEW at, MoveTop(at) PROVE Bounded'
  BY <1>4, <1>5 DEF MoveTop
<1>6. ASSUME UNCHANGED stack PROVE Bounded'
  BY <1>6 DEF Bounded, Depth
<1>7. ASSUME Unwind PROVE Bounded'
  <2>1. CASE Abandon \/ RunStart \/ OccupySlot \/ InstantiateDone \/ InstantiatePartial
    BY <1>3, <1>5, <2>1
    DEF Abandon, RunStart, OccupySlot, InstantiateDone, InstantiatePartial, TopIs
  <2>2. CASE Return \/ ReturnReclaims \/ ReclaimedReturn \/ FreeDone
    BY <1>3, <1>5, <2>2 DEF Return, ReturnReclaims, ReclaimedReturn, FreeDone, TopIs
  <2>3. CASE DropStep
    BY <1>3, <1>4, <1>5, <1>6, <2>3
    DEF DropStep, DropFrees, DropBreaks, DropPutsOff, DropReleases, DropSkips, DropResumes, DropDone, TopIs
  <2>4. CASE \E n \in Ids : DropTable(n)
    BY <1>6, <2>4 DEF DropTable
  <2> QED BY <1>7, <2>1, <2>2, <2>3, <2>4 DEF Unwind
<1>8. ASSUME \/ Read \/ Write \/ DropReader \/ DropWriter \/ Done \/ UNCHANGED vars
      PROVE  Bounded'
  BY <1>6, <1>8 DEF Read, Write, DropReader, DropWriter, Done, vars
<1>9. ASSUME \/ \E n \in Ids, t \in Tiers : Instantiate(n, t)
             \/ \E n \in Ids : Invoke(n) \/ CallFacade(n) \/ InvokeAccess(n) \/ GuestCall(n)
             \/ \E n \in Ids : Free(n)
             \/ DropWorld
      PROVE  Bounded'
  BY <1>2, <1>9 DEF Instantiate, Invoke, CallFacade, InvokeAccess, GuestCall, Free, DropWorld
<1> QED BY <1>7, <1>8, <1>9 DEF Next

LEMMA AlwaysBounded == Spec => []Bounded
<1>1. Init => Bounded
  BY MaxDepthAssumption DEF Init, Bounded, Depth
<1> QED BY <1>1, StaysBounded, Invariant, PTL DEF Spec

LEMMA CallsLife ==
  ASSUME IInv, NEW n \in Ids, NEW kind \in Calls, Checkout(n),
         Push(Frame(kind, n, "run")), UNCHANGED instances
  PROVE  Lifecycle!Next
<1> DEFINE f == Frame(kind, n, "run")
           h == <<"frame", Depth + 1>>
<1>1. f \in Frames /\ f.id = n /\ HoldsToken(f)
  BY FrameType DEF Calls, Kinds, Stages, HoldsToken
<1>2. Push(f) /\ Depth < MaxDepth /\ Depth \in Nat
  BY StackShape DEF Push, Depth, IInv
<1> HIDE DEF f
<1>3. \A m \in Ids : CallsOf(m)' = IF m = n THEN CallsOf(m) \cup {Depth + 1} ELSE CallsOf(m)
  <2> TAKE m \in Ids
  <2> QED BY <1>1, <1>2, PushCounts DEF IInv
<1>4. UsersView' = [UsersView EXCEPT ![n] = UsersView[n] \cup {h}]
  <2>1. CallsOf(n)' = CallsOf(n) \cup {Depth + 1}
    BY <1>3
  <2>2. \A m \in Ids : m # n => CallsOf(m)' = CallsOf(m)
    BY <1>3
  <2>3. \A m \in Ids : HasFacade(m)' <=> HasFacade(m)
    BY FacadesStay
  <2> QED BY <2>1, <2>2, <2>3, FrameGained
<1>5. h \in Handles
  BY <1>2, MaxDepthAssumption DEF Handles
<1>6. \A m \in Ids : h \notin UsersView[m]
  <2> TAKE m \in Ids
  <2>1. Depth + 1 \notin CallsOf(m)
    BY <1>2, StackShape DEF CallsOf, IInv
  <2> QED BY <2>1, UsersOf
<1>7. status[n] \in {"live", "closing"} /\ status' = status
  BY DEF Checkout, Occupied
<1> HIDE DEF h
<1>8. Lifecycle!Acquire(h, n)
  BY <1>4, <1>6, <1>7 DEF Lifecycle!Acquire
<1> QED BY <1>5, <1>8 DEF Lifecycle!Next

\* The top of the stack lets its instance go.
LEMMA LeavesLife ==
  ASSUME IInv, Bounded, stack # << >>, HoldsToken(Top), NEW n \in Ids, n = Top.id,
         \A m \in Ids : CallsOf(m)' = CallsOf(m) \ {Depth}, UNCHANGED instances,
         status' = IF in_use[n] = 1 /\ status[n] = "closing"
                   THEN [status EXCEPT ![n] = "dead"] ELSE status
  PROVE  Lifecycle!Next
<1> DEFINE h == <<"frame", Depth>>
<1>1. Depth \in 1 .. Depth /\ Top = stack[Depth] /\ DOMAIN stack = 1 .. Depth /\ Depth \in Nat
  BY StackShape DEF IInv, Top, Depth
<1>2. Depth \in CallsOf(n) /\ \A m \in Ids : m # n => Depth \notin CallsOf(m)
  BY <1>1 DEF CallsOf
<1>3. UsersView' = [UsersView EXCEPT ![n] = UsersView[n] \ {h}]
  <2>1. CallsOf(n)' = CallsOf(n) \ {Depth}
    OBVIOUS
  <2>2. \A m \in Ids : m # n => CallsOf(m)' = CallsOf(m)
    BY <1>2
  <2>3. \A m \in Ids : HasFacade(m)' <=> HasFacade(m)
    BY FacadesStay
  <2> QED BY <2>1, <2>2, <2>3, FrameLost
<1>4. h \in UsersView[n]
  BY <1>2, UsersOf
<1>5. h \in Handles
  BY <1>1, MaxDepthAssumption DEF Handles, Bounded
<1>6. ASSUME status[n] = "closing" PROVE in_use[n] = 1 <=> UsersView[n] = {h}
  <2>1. ~HasFacade(n)
    BY <1>6, EntryShape DEF IInv, EntriesAreLive, HasFacade
  <2>2. in_use[n] = Cardinality(CallsOf(n)) /\ Cardinality(CallsOf(n)) \in Nat
    <3>1. in_use[n] = Cardinality(CallsOf(n)) + (IF HasFacade(n) THEN 1 ELSE 0)
      BY DEF IInv, CountsAreHolders
    <3>2. Cardinality(CallsOf(n)) \in Nat
      BY Finite DEF IInv
    <3> QED BY <2>1, <3>1, <3>2
  <2>3. Cardinality(CallsOf(n)) = 1 <=> CallsOf(n) = {Depth}
    <3>1. ASSUME Cardinality(CallsOf(n)) = 1 PROVE CallsOf(n) = {Depth}
      <4>1. PICK x : CallsOf(n) = {x}
        BY <3>1, Finite, FS_Singleton DEF IInv
      <4> QED BY <1>2, <4>1
    <3>2. Cardinality({Depth}) = 1
      BY FS_Singleton
    <3> QED BY <3>1, <3>2
  <2> QED BY <2>1, <2>2, <2>3, UsersOf
<1> HIDE DEF h
<1>7. status' = [status EXCEPT ![n] =
                   IF status[n] = "closing" /\ UsersView[n] = {h} THEN "dead" ELSE status[n]]
  BY <1>6 DEF IInv, TypeOK
<1>8. Lifecycle!Leave(h, n)
  BY <1>3, <1>4, <1>7 DEF Lifecycle!Leave
<1> QED BY <1>5, <1>8 DEF Lifecycle!Next

LEMMA ReturnLife == ASSUME IInv, Bounded, Return \/ ReturnReclaims PROVE Lifecycle!Next
<1>1. /\ stack # << >> /\ HoldsToken(Top) /\ Top.kind \in Calls /\ TypeOK
      /\ UNCHANGED instances
  BY DEF Return, ReturnReclaims, HoldsToken, worldVars, IInv
<1>2. PICK n \in Ids : n = Top.id
  BY <1>1, StackShape DEF IInv, FrameIds, Top, Depth, Calls
<1>3. \A m \in Ids : CallsOf(m)' = CallsOf(m) \ {Depth}
  <2>1. CASE Return
    <3>1. Pop
      BY <2>1 DEF Return
    <3> QED BY <1>1, <3>1, PopCounts
  <2>2. CASE ReturnReclaims
    <3> DEFINE f == Frame(Top.kind, Top.id, "dtor")
    <3>1. stack' \in Seq(Frames) /\ Replaced(f)
      BY <1>1, <2>2, MoveShape DEF ReturnReclaims, Stages
    <3>2. f.at = "dtor" /\ f.kind = Top.kind
      BY DEF Frame
    <3>3. ~HoldsToken(f) /\ (HoldsGuard(f) <=> HoldsGuard(Top))
      BY <3>2 DEF HoldsToken, HoldsGuard
    <3> HIDE DEF f
    <3> QED BY <1>1, <3>1, <3>3, ReplaceCounts
  <2> QED BY <2>1, <2>2
<1>4. status' = IF in_use[n] = 1 /\ status[n] = "closing"
                THEN [status EXCEPT ![n] = "dead"] ELSE status
  BY <1>2 DEF Return, ReturnReclaims
<1> QED BY <1>1, <1>2, <1>3, <1>4, LeavesLife

\* What moves an id to another stage, with no user.
LEMMA MovesLife ==
  ASSUME IInv, NEW n \in Ids, UNCHANGED instances, \A m \in Ids : CallsOf(m)' = CallsOf(m)
  PROVE  /\ status[n] = "unborn" /\ status' = [status EXCEPT ![n] = "reserved"] => Lifecycle!Next
         /\ status[n] = "reserved" /\ status' = [status EXCEPT ![n] = "dead"] => Lifecycle!Next
         /\ status[n] = "reserved" /\ status' = [status EXCEPT ![n] = "live"] => Lifecycle!Next
         /\ status[n] = "live" /\ CallsOf(n) = {} /\ ~HasFacade(n)
              /\ status' = [status EXCEPT ![n] = "dead"] => Lifecycle!Next
<1>1. UsersView' = UsersView
  BY FacadesStay, SameUsers
<1>2. CallsOf(n) = {} /\ ~HasFacade(n) => UsersView[n] = {}
  BY UsersOf
<1> QED
  BY <1>1, <1>2
  DEF Lifecycle!Next, Lifecycle!Reserve, Lifecycle!Abandon, Lifecycle!Occupy, Lifecycle!Free, Lifecycle!Move

LEMMA InstantiateLife ==
  ASSUME IInv, NEW n \in Ids, NEW t \in Tiers, Instantiate(n, t) PROVE Lifecycle!Next
<1> DEFINE f == Frame("start", n, "build")
<1>1. f \in Frames /\ ~HoldsToken(f) /\ Push(f) /\ TypeOK
  BY FrameType DEF Kinds, Stages, HoldsToken, Calls, Instantiate, IInv
<1> HIDE DEF f
<1>2. \A m \in Ids : CallsOf(m)' = CallsOf(m)
  BY <1>1, PushKeeps
<1>3. /\ status[n] = "unborn" /\ status' = [status EXCEPT ![n] = "reserved"]
      /\ UNCHANGED instances
  BY DEF Instantiate, worldVars
<1> QED BY <1>2, <1>3, MovesLife

LEMMA StartsLife ==
  ASSUME IInv, Abandon \/ OccupySlot \/ InstantiateDone PROVE Lifecycle!Next
<1>1. /\ stack # << >> /\ Top.kind = "start" /\ Top.kind \notin Calls /\ ~HoldsToken(Top) /\ TypeOK
  BY DEF Abandon, OccupySlot, InstantiateDone, TopIs, IInv, Calls, HoldsToken
<1>2. PICK n \in Ids : n = Top.id
  BY <1>1, StartIsTop
<1>3. CASE Abandon
  <2>1. \A m \in Ids : CallsOf(m)' = CallsOf(m)
    BY <1>1, <1>3, PopKeeps DEF Abandon
  <2>2. status[n] = "reserved" /\ status' = [status EXCEPT ![n] = "dead"] /\ UNCHANGED instances
    BY <1>1, <1>2, <1>3, StartIsTop DEF Abandon, TopIs, worldVars
  <2> QED BY <2>1, <2>2, MovesLife
<1>4. CASE OccupySlot
  <2>1. \A m \in Ids : CallsOf(m)' = CallsOf(m)
    BY <1>1, <1>4, MoveKeeps DEF OccupySlot, Stages
  <2>2. status[n] = "reserved" /\ status' = [status EXCEPT ![n] = "live"] /\ UNCHANGED instances
    BY <1>1, <1>2, <1>4, StartIsTop DEF OccupySlot, TopIs, worldVars
  <2> QED BY <2>1, <2>2, MovesLife
<1>5. CASE InstantiateDone
  <2> DEFINE h == <<"facade", n>>
  <2>1. \A m \in Ids : CallsOf(m)' = CallsOf(m)
    BY <1>1, <1>5, PopKeeps DEF InstantiateDone
  <2>2. \A m \in Ids : HasFacade(m)' <=> HasFacade(m) \/ m = n
    <3>1. instances' = Append(instances, [id |-> n, facade |-> TRUE])
      BY <1>2, <1>5 DEF InstantiateDone
    <3> QED BY <1>1, <3>1, EntryAdded
  <2>3. UsersView' = [UsersView EXCEPT ![n] = UsersView[n] \cup {h}]
    BY <2>1, <2>2, FacadeGained
  <2>4. ~HasFacade(n) /\ status[n] = "live" /\ status' = status
    BY <1>1, <1>2, <1>5, StartIsTop DEF InstantiateDone, TopIs
  <2>5. \A m \in Ids : h \notin UsersView[m]
    BY <2>4, UsersOf
  <2>6. h \in Handles
    BY DEF Handles
  <2> HIDE DEF h
  <2>7. Lifecycle!Acquire(h, n)
    BY <2>3, <2>4, <2>5 DEF Lifecycle!Acquire
  <2> QED BY <2>6, <2>7 DEF Lifecycle!Next
<1> QED BY <1>3, <1>4, <1>5

\* A facade is dropped: the instance dies, or waits for the calls in it.
LEMMA OwnerLetsGoLife ==
  ASSUME IInv, NEW n \in Ids, HasFacade(n),
         \A m \in Ids : CallsOf(m)' = CallsOf(m),
         \A m \in Ids : HasFacade(m)' <=> HasFacade(m) /\ m # n,
         status' = [status EXCEPT ![n] = IF CallsOf(n) = {} THEN "dead" ELSE "closing"]
  PROVE  Lifecycle!Next
<1> DEFINE h == <<"facade", n>>
<1>1. UsersView' = [UsersView EXCEPT ![n] = UsersView[n] \ {h}]
  BY FacadeLost
<1>2. h \in UsersView[n] /\ (UsersView[n] = {h} <=> CallsOf(n) = {})
  BY UsersOf
<1>3. h \in Handles
  BY DEF Handles
<1> HIDE DEF h
<1>4. Lifecycle!DropOwner(h, n)
  BY <1>1, <1>2 DEF Lifecycle!DropOwner
<1> QED BY <1>3, <1>4 DEF Lifecycle!Next

\* An entry is freed.
LEMMA FreedLife ==
  ASSUME IInv, NEW k \in 1 .. Len(instances), Freeable(instances[k]), Release(instances[k]),
         IF instances[k].facade THEN EntryLost(k) ELSE instances' = instances,
         \A m \in Ids : CallsOf(m)' = CallsOf(m)
  PROVE  Lifecycle!Next
<1>1. PICK n \in Ids : n = instances[k].id
  BY FreeableIsIdle
<1>2. /\ status[n] = "live" /\ CallsOf(n) = {} /\ (HasFacade(n) <=> instances[k].facade)
      /\ status' = [status EXCEPT ![n] = "dead"]
  BY <1>1, FreeableIsIdle DEF Release
<1>3. CASE instances[k].facade
  <2>1. \A m : HasFacade(m)' <=> HasFacade(m) /\ m # n
    BY <1>1, <1>3, LostEntry DEF IInv
  <2>2. status' = [status EXCEPT ![n] = IF CallsOf(n) = {} THEN "dead" ELSE "closing"]
    BY <1>2
  <2> QED BY <1>2, <1>3, <2>1, <2>2, OwnerLetsGoLife
<1>4. CASE ~instances[k].facade
  BY <1>2, <1>4, MovesLife
<1> QED BY <1>3, <1>4

LEMMA FreeLife == ASSUME IInv, NEW n \in Ids, Free(n) PROVE Lifecycle!Next
<1> DEFINE f == Frame("free", n, "dtor")
<1>1. f \in Frames /\ ~HoldsToken(f) /\ Push(f)
  BY FrameType DEF Kinds, Stages, HoldsToken, Calls, Free
<1> HIDE DEF f
<1>2. \A m \in Ids : CallsOf(m)' = CallsOf(m)
  BY <1>1, PushKeeps DEF IInv
<1>3. PICK k \in 1 .. Len(instances) : FreeEntry(k)
  BY EntryShape DEF Free, IInv
<1>4. /\ Freeable(instances[k]) /\ Release(instances[k])
      /\ IF instances[k].facade THEN EntryLost(k) ELSE instances' = instances
  BY <1>3 DEF FreeEntry, EntryLost
<1> QED BY <1>2, <1>4, FreedLife

LEMMA DropFreesLife == ASSUME IInv, DropFrees PROVE Lifecycle!Next
<1>1. /\ stack # << >> /\ Top.kind = "drop" /\ instances # << >>
      /\ FreeEntry(Len(instances)) /\ ~HoldsToken(Top) /\ TypeOK
      /\ stack' = [stack EXCEPT ![Len(stack)] = Frame("drop", Last(instances).id, "dtor")]
  BY DEF DropFrees, TopIs, HoldsToken, Calls, IInv
<1>2. PICK k \in 1 .. Len(instances) : k = Len(instances)
  <2>1. Len(instances) \in Nat /\ Len(instances) > 0
    BY <1>1, EntryShape
  <2> QED BY <2>1
<1>3. Last(instances).id \in Ids
  BY <1>2, EntryShape DEF IInv, Last
<1> DEFINE f == Frame("drop", Last(instances).id, "dtor")
<1>4. f \in Frames /\ ~HoldsToken(f)
  BY <1>3, FrameType DEF Kinds, Stages, HoldsToken, Calls
<1>5. stack' \in Seq(Frames) /\ Replaced(f)
  BY <1>1, <1>4, ReplaceShape
<1> HIDE DEF f
<1>6. \A m \in Ids : CallsOf(m)' = CallsOf(m)
  BY <1>1, <1>4, <1>5, ReplaceKeeps
<1>7. /\ Freeable(instances[k]) /\ Release(instances[k])
      /\ IF instances[k].facade THEN EntryLost(k) ELSE instances' = instances
  BY <1>1, <1>2 DEF FreeEntry, EntryLost
<1> QED BY <1>6, <1>7, FreedLife

LEMMA DropReleasesLife == ASSUME IInv, DropReleases PROVE Lifecycle!Next
<1>1. /\ stack # << >> /\ Top.kind = "drop" /\ Top.kind \notin Calls /\ instances # << >>
      /\ Head(instances).facade /\ Freeable(Head(instances)) /\ Release(Head(instances))
      /\ instances' = Tail(instances) /\ MoveTop("dtor") /\ TypeOK
  BY DEF DropReleases, TopIs, Calls, IInv
<1>2. PICK k \in 1 .. Len(instances) : k = 1
  BY <1>1, EntryShape
<1>3. Head(instances) = instances[k]
  BY <1>1, <1>2 DEF TypeOK
<1>4. \A m \in Ids : CallsOf(m)' = CallsOf(m)
  BY <1>1, MoveKeeps DEF Stages
<1>5. EntryLost(k)
  BY <1>1, <1>2 DEF EntryLost
<1> QED BY <1>1, <1>3, <1>4, <1>5, FreedLife

LEMMA DropPutsOffLife == ASSUME IInv, DropPutsOff PROVE Lifecycle!Next
<1>1. /\ instances # << >> /\ Head(instances).facade /\ in_use[Head(instances).id] > 1
      /\ status' = [status EXCEPT ![Head(instances).id] = "closing"]
      /\ instances' = Tail(instances) /\ UNCHANGED stack
  BY DEF DropPutsOff
<1>2. PICK k \in 1 .. Len(instances) : k = 1 /\ EntryLost(k) /\ Head(instances) = instances[k]
  BY <1>1, EntryShape DEF IInv, TypeOK, EntryLost
<1>3. PICK n \in Ids : n = instances[k].id
  BY EntryShape DEF IInv
<1>4. HasFacade(n)
  BY <1>1, <1>2, <1>3, EntryShape DEF IInv, HasFacade
<1>5. \A m : HasFacade(m)' <=> HasFacade(m) /\ m # n
  BY <1>2, <1>3, LostEntry DEF IInv
<1>6. \A m \in Ids : CallsOf(m)' = CallsOf(m)
  BY <1>1 DEF CallsOf
<1>7. CallsOf(n) # {}
  <2>1. in_use[n] = Cardinality(CallsOf(n)) + 1 /\ in_use[n] > 1
    BY <1>1, <1>2, <1>3, <1>4 DEF IInv, CountsAreHolders
  <2>2. Cardinality({}) = 0
    BY FS_EmptySet
  <2> QED BY <2>1, <2>2
<1>8. status' = [status EXCEPT ![n] = IF CallsOf(n) = {} THEN "dead" ELSE "closing"]
  BY <1>1, <1>2, <1>3, <1>7
<1> QED BY <1>4, <1>5, <1>6, <1>8, OwnerLetsGoLife

LEMMA DropTableLife == ASSUME IInv, NEW n \in Ids, DropTable(n) PROVE Lifecycle!Next
<1>1. /\ world = "gone" /\ stack = << >> /\ instances = << >> /\ Occupied(n)
      /\ status' = [status EXCEPT ![n] = "dead"] /\ UNCHANGED <<stack, instances>>
  BY DEF DropTable, TableAlive, worldVars, IInv, WorldOwned
<1>2. \A m \in Ids : CallsOf(m) = {} /\ CallsOf(m)' = CallsOf(m) /\ ~HasFacade(m)
  BY <1>1 DEF CallsOf, HasFacade
<1>3. status[n] = "live"
  BY <1>1, <1>2 DEF Occupied, IInv, ClosingIsCalled
<1> QED BY <1>1, <1>2, <1>3, MovesLife

LEMMA CallLife ==
  ASSUME IInv, NEW n \in Ids, Invoke(n) \/ CallFacade(n) \/ InvokeAccess(n) \/ GuestCall(n)
  PROVE  Lifecycle!Next
<1>1. \E kind \in Calls : Checkout(n) /\ Push(Frame(kind, n, "run")) /\ UNCHANGED instances
  BY DEF Invoke, CallFacade, InvokeAccess, GuestCall, worldVars, Calls
<1> QED BY <1>1, CallsLife

\* What the table does not see.
LEMMA HiddenLife ==
  ASSUME IInv,
         \/ Read \/ Write \/ DropReader \/ DropWriter \/ DropWorld \/ Done \/ UNCHANGED vars
         \/ RunStart \/ InstantiatePartial \/ ReclaimedReturn \/ FreeDone
         \/ DropBreaks \/ DropSkips \/ DropResumes \/ DropDone
  PROVE  UNCHANGED Lifecycle!vars
<1>0. TypeOK
  BY DEF IInv
<1>1. CASE \/ Read \/ Write \/ DropReader \/ DropWriter \/ Done \/ UNCHANGED vars \/ DropBreaks
  <2>1. UNCHANGED <<status, stack, instances>>
    BY <1>1 DEF Read, Write, DropReader, DropWriter, Done, DropBreaks, vars, tableVars, worldVars
  <2>2. \A m \in Ids : CallsOf(m)' = CallsOf(m)
    BY <2>1 DEF CallsOf
  <2> QED BY <2>1, <2>2, FacadesStay, SameUsers DEF Lifecycle!vars
<1>2. CASE DropWorld
  <2> DEFINE f == Frame("drop", None, "run")
  <2>1. f \in Frames /\ ~HoldsToken(f) /\ Push(f) /\ UNCHANGED <<status, instances>>
    BY <1>2, FrameType DEF Kinds, Stages, HoldsToken, Calls, DropWorld, tableVars
  <2> HIDE DEF f
  <2>2. \A m \in Ids : CallsOf(m)' = CallsOf(m)
    BY <1>0, <2>1, PushKeeps
  <2> QED BY <2>1, <2>2, FacadesStay, SameUsers DEF Lifecycle!vars
<1>3. CASE RunStart
  <2>1. /\ stack # << >> /\ Top.kind \notin Calls /\ MoveTop("run")
        /\ UNCHANGED <<status, instances>>
    BY <1>3 DEF RunStart, TopIs, Calls, tableVars, worldVars
  <2>2. \A m \in Ids : CallsOf(m)' = CallsOf(m)
    BY <1>0, <2>1, MoveKeeps DEF Stages
  <2> QED BY <2>1, <2>2, FacadesStay, SameUsers DEF Lifecycle!vars
<1>4. CASE InstantiatePartial
  <2>1. /\ stack # << >> /\ Top.kind = "start" /\ ~HoldsToken(Top) /\ Pop /\ UNCHANGED status
        /\ instances' = Append(instances, [id |-> Top.id, facade |-> FALSE])
    BY <1>4 DEF InstantiatePartial, TopIs, HoldsToken, Calls, tableVars
  <2>2. \A m \in Ids : CallsOf(m)' = CallsOf(m)
    BY <1>0, <2>1, PopKeeps
  <2>3. \A m \in Ids : HasFacade(m)' <=> HasFacade(m)
    <3>1. PICK n \in Ids : n = Top.id
      BY <2>1, StartIsTop
    <3>2. instances' = Append(instances, [id |-> n, facade |-> FALSE])
      BY <2>1, <3>1
    <3>3. \A m : HasFacade(m)' <=> HasFacade(m) \/ (m = n /\ FALSE)
      BY <1>0, <3>2, EntryAdded
    <3> QED BY <3>3
  <2> QED BY <2>1, <2>2, <2>3, SameUsers DEF Lifecycle!vars
<1>5. CASE ReclaimedReturn
  <2>1. stack # << >> /\ ~HoldsToken(Top) /\ Pop /\ UNCHANGED <<status, instances>>
    BY <1>5 DEF ReclaimedReturn, HoldsToken, tableVars, worldVars
  <2>2. \A m \in Ids : CallsOf(m)' = CallsOf(m)
    BY <1>0, <2>1, PopKeeps
  <2> QED BY <2>1, <2>2, FacadesStay, SameUsers DEF Lifecycle!vars
<1>6. CASE FreeDone
  <2>1. stack # << >> /\ Top.kind = "free" /\ ~HoldsToken(Top) /\ Pop /\ UNCHANGED status
        /\ TakeOff(Top.id)
    BY <1>6 DEF FreeDone, TopIs, HoldsToken, Calls, tableVars
  <2>2. \A m \in Ids : CallsOf(m)' = CallsOf(m)
    BY <1>0, <2>1, PopKeeps
  <2>3. \A m \in Ids : HasFacade(m)' <=> HasFacade(m)
    <3>1. Top.id # None
      BY <2>1, StackShape, IdsAssumption DEF IInv, FrameIds, Top, Depth
    <3>2. PICK d : d = Top.id
      OBVIOUS
    <3> QED BY <2>1, <3>1, <3>2, TakenOff
  <2> QED BY <2>1, <2>2, <2>3, SameUsers DEF Lifecycle!vars
<1>7. CASE DropSkips
  <2>1. /\ instances # << >> /\ ~Head(instances).facade /\ instances' = Tail(instances)
        /\ UNCHANGED <<status, stack>>
    BY <1>7 DEF DropSkips, tableVars
  <2>2. \A m \in Ids : CallsOf(m)' = CallsOf(m)
    BY <2>1 DEF CallsOf
  <2>3. \A m \in Ids : HasFacade(m)' <=> HasFacade(m)
    <3>1. PICK k \in 1 .. Len(instances) : k = 1 /\ EntryLost(k) /\ ~instances[k].facade
      BY <2>1, EntryShape DEF IInv, TypeOK, EntryLost
    <3>2. \A m : HasFacade(m)' <=> HasFacade(m) /\ m # instances[k].id
      BY <3>1, LostEntry DEF IInv
    <3>3. ~HasFacade(instances[k].id)
      BY <3>1, EntryShape DEF IInv, OneEntryEach, HasFacade
    <3> QED BY <3>2, <3>3
  <2> QED BY <2>1, <2>2, <2>3, SameUsers DEF Lifecycle!vars
<1>8. CASE DropResumes
  <2> DEFINE f == Frame("drop", None, "run")
  <2>1. /\ stack # << >> /\ Top.kind = "drop" /\ ~HoldsToken(Top) /\ UNCHANGED status
        /\ stack' = [stack EXCEPT ![Len(stack)] = f]
        /\ IF world = "freeing" THEN TakeOff(Top.id) ELSE UNCHANGED instances
    BY <1>8 DEF DropResumes, TopIs, HoldsToken, Calls, tableVars
  <2>2. f \in Frames /\ ~HoldsToken(f)
    BY FrameType DEF Kinds, Stages, HoldsToken, Calls
  <2>3. stack' \in Seq(Frames) /\ Replaced(f)
    BY <1>0, <2>1, <2>2, ReplaceShape
  <2> HIDE DEF f
  <2>4. \A m \in Ids : CallsOf(m)' = CallsOf(m)
    BY <1>0, <2>1, <2>2, <2>3, ReplaceKeeps
  <2>5. \A m \in Ids : HasFacade(m)' <=> HasFacade(m)
    <3>1. CASE UNCHANGED instances
      BY <3>1, FacadesStay
    <3>2. CASE TakeOff(Top.id) /\ Top.id # None
      <4>1. PICK d : d = Top.id
        OBVIOUS
      <4> QED BY <2>1, <3>2, <4>1, TakenOff
    <3>3. CASE TakeOff(Top.id) /\ Top.id = None
      <4>1. \A k \in DOMAIN instances : instances[k].id # None
        BY EntryShape, IdsAssumption DEF IInv
      <4>2. UNCHANGED instances
        BY <3>3, <4>1 DEF TakeOff
      <4> QED BY <4>2, FacadesStay
    <3> QED BY <2>1, <3>1, <3>2, <3>3
  <2> QED BY <2>1, <2>4, <2>5, SameUsers DEF Lifecycle!vars
<1>9. CASE DropDone
  <2>1. stack # << >> /\ ~HoldsToken(Top) /\ Pop /\ UNCHANGED <<status, instances>>
    BY <1>9 DEF DropDone, TopIs, HoldsToken, Calls, tableVars
  <2>2. \A m \in Ids : CallsOf(m)' = CallsOf(m)
    BY <1>0, <2>1, PopKeeps
  <2> QED BY <2>1, <2>2, FacadesStay, SameUsers DEF Lifecycle!vars
<1> QED BY <1>1, <1>2, <1>3, <1>4, <1>5, <1>6, <1>7, <1>8, <1>9

LEMMA StepLife == IInv /\ Bounded /\ [Next]_vars => [Lifecycle!Next]_(Lifecycle!vars)
<1> SUFFICES ASSUME IInv, Bounded, [Next]_vars
             PROVE  Lifecycle!Next \/ UNCHANGED Lifecycle!vars
  OBVIOUS
<1>1. CASE \E n \in Ids, t \in Tiers : Instantiate(n, t)
  BY <1>1, InstantiateLife
<1>2. CASE \E n \in Ids : Invoke(n) \/ CallFacade(n) \/ InvokeAccess(n) \/ GuestCall(n)
  BY <1>2, CallLife
<1>3. CASE \E n \in Ids : Free(n)
  BY <1>3, FreeLife
<1>4. CASE Unwind
  <2>1. CASE Abandon \/ OccupySlot \/ InstantiateDone
    BY <2>1, StartsLife
  <2>2. CASE Return \/ ReturnReclaims
    BY <2>2, ReturnLife
  <2>3. CASE DropFrees \/ DropReleases \/ DropPutsOff
    BY <2>3, DropFreesLife, DropReleasesLife, DropPutsOffLife
  <2>4. CASE \E n \in Ids : DropTable(n)
    BY <2>4, DropTableLife
  <2>5. CASE \/ RunStart \/ InstantiatePartial \/ ReclaimedReturn \/ FreeDone
             \/ DropBreaks \/ DropSkips \/ DropResumes \/ DropDone
    BY <2>5, HiddenLife
  <2> QED BY <1>4, <2>1, <2>2, <2>3, <2>4, <2>5 DEF Unwind, DropStep
<1>5. CASE \/ Read \/ Write \/ DropReader \/ DropWriter \/ DropWorld \/ Done \/ UNCHANGED vars
  BY <1>5, HiddenLife
<1> QED BY <1>1, <1>2, <1>3, <1>4, <1>5 DEF Next

LEMMA InitLife == Init => Lifecycle!Init
<1> SUFFICES ASSUME Init PROVE Lifecycle!Init
  OBVIOUS
<1>1. \A n \in Ids : Held(n, CallsOf(n), HasFacade(n)) = {}
  <2> TAKE n \in Ids
  <2>1. CallsOf(n) = {} /\ ~HasFacade(n)
    BY DEF Init, CallsOf, HasFacade
  <2> QED BY <2>1 DEF Held
<1>2. UsersView = [n \in Ids |-> {}]
  BY <1>1, UsersAre
<1> QED BY <1>2 DEF Init, Lifecycle!Init

\* Every step of a world is a step of InstanceLifecycle, or none: the calls,
\* facades and releases of vm/instance.rs keep the instance table's promise --
\* an id lives once and dies only when nothing holds it -- whatever the depth
\* of the calls and the order of the drops.
THEOREM UsesTheTable == Spec => UsesLifecycle
  BY InitLife, StepLife, Invariant, AlwaysBounded, PTL DEF Spec, UsesLifecycle, Lifecycle!Spec

-----------------------------------------------------------------------------
(* Unwinding comes to its end, in a world of which nothing is left.          *)

\* What a frame can be at.
Staged(f) ==
  /\ f.kind \in Calls => f.at \in {"run", "dtor"}
  /\ f.kind = "start" => f.at \in {"build", "run", "occupied"}
  /\ f.kind = "free" => f.at = "dtor"

FramesAreStaged == \A k \in 1 .. Depth : Staged(stack[k])

\* The frame of n's instantiation, while n's slot is reserved.
Reserves(f, n) == f.kind = "start" /\ f.at # "occupied" /\ f.id = n

ReservedAreStarting ==
  \A n \in Ids : status[n] = "reserved" => \E k \in 1 .. Depth : Reserves(stack[k], n)

BeingDropped == world \in {"freeing", "fields"}

DropsAreOnStack == BeingDropped => \E k \in 1 .. Depth : stack[k].kind = "drop"

OnStack == FramesAreStaged /\ ReservedAreStarting /\ DropsAreOnStack

LEMMA PushOnStack ==
  ASSUME IInv, OnStack, NEW f \in Frames, Push(f), Staged(f),
         BeingDropped' => BeingDropped \/ f.kind = "drop",
         \A n \in Ids : status'[n] = "reserved" => status[n] = "reserved" \/ Reserves(f, n)
  PROVE  OnStack'
<1>1. Grown(f) /\ Depth \in Nat
  BY PushShape, StackShape DEF IInv
<1>2. /\ \A k \in 1 .. Depth' : (k \in 1 .. Depth /\ stack'[k] = stack[k]) \/ stack'[k] = f
      /\ \A k \in 1 .. Depth : k \in 1 .. Depth' /\ stack'[k] = stack[k]
      /\ Depth + 1 \in 1 .. Depth' /\ stack'[Depth + 1] = f
  BY <1>1 DEF Grown
<1>3. FramesAreStaged'
  BY <1>2 DEF OnStack, FramesAreStaged, Staged
<1>4. ReservedAreStarting'
  BY <1>2 DEF OnStack, ReservedAreStarting, Reserves
<1>5. DropsAreOnStack'
  BY <1>2 DEF OnStack, DropsAreOnStack
<1> QED BY <1>3, <1>4, <1>5 DEF OnStack

LEMMA PopOnStack ==
  ASSUME IInv, OnStack, stack # << >>, Pop,
         BeingDropped' => BeingDropped /\ Top.kind # "drop",
         \A n \in Ids : status'[n] = "reserved" => status[n] = "reserved" /\ ~Reserves(Top, n)
  PROVE  OnStack'
<1>1. Shrunk /\ Depth \in Nat \ {0} /\ Top = stack[Depth]
  BY PopShape, StackShape DEF IInv, Depth, Top
<1>2. /\ \A k \in 1 .. Depth' : k \in 1 .. Depth /\ stack'[k] = stack[k]
      /\ \A k \in 1 .. Depth : stack[k] = Top \/ (k \in 1 .. Depth' /\ stack'[k] = stack[k])
  BY <1>1 DEF Shrunk
<1>3. FramesAreStaged'
  BY <1>2 DEF OnStack, FramesAreStaged, Staged
<1>4. ReservedAreStarting'
  BY <1>2 DEF OnStack, ReservedAreStarting, Reserves
<1>5. DropsAreOnStack'
  BY <1>2 DEF OnStack, DropsAreOnStack
<1> QED BY <1>3, <1>4, <1>5 DEF OnStack

LEMMA ReplaceOnStack ==
  ASSUME IInv, OnStack, stack # << >>, NEW f, Replaced(f), Staged(f), f.kind = Top.kind,
         BeingDropped' => BeingDropped,
         \A n \in Ids : status'[n] = "reserved" =>
           status[n] = "reserved" /\ (Reserves(Top, n) => Reserves(f, n))
  PROVE  OnStack'
<1>1. Depth \in 1 .. Depth /\ Top = stack[Depth]
  BY StackShape DEF IInv, Depth, Top
<1>2. /\ \A k \in 1 .. Depth' : (k \in 1 .. Depth /\ stack'[k] = stack[k]) \/ stack'[k] = f
      /\ \A k \in 1 .. Depth : stack[k] = Top \/ (k \in 1 .. Depth' /\ stack'[k] = stack[k])
      /\ Depth \in 1 .. Depth' /\ stack'[Depth] = f
  BY <1>1 DEF Replaced
<1>3. FramesAreStaged'
  BY <1>2 DEF OnStack, FramesAreStaged, Staged
<1>4. ReservedAreStarting'
  BY <1>2 DEF OnStack, ReservedAreStarting, Reserves
<1>5. DropsAreOnStack'
  BY <1>2 DEF OnStack, DropsAreOnStack
<1> QED BY <1>3, <1>4, <1>5 DEF OnStack

LEMMA SameOnStack ==
  ASSUME OnStack, UNCHANGED stack, BeingDropped' => BeingDropped,
         \A n \in Ids : status'[n] = "reserved" => status[n] = "reserved"
  PROVE  OnStack'
<1>1. Depth' = Depth
  BY DEF Depth
<1> QED BY <1>1 DEF OnStack, FramesAreStaged, ReservedAreStarting, DropsAreOnStack

\* Nothing but an instantiation reserves.
LEMMA StatusSet ==
  ASSUME IInv, NEW n, NEW to, status' = [status EXCEPT ![n] = to], to # "reserved"
  PROVE  \A m \in Ids : status'[m] = "reserved" => status[m] = "reserved" /\ m # n
  BY DEF IInv, TypeOK

LEMMA CallsOnStack ==
  ASSUME IInv, OnStack, NEW n \in Ids,
         Invoke(n) \/ CallFacade(n) \/ InvokeAccess(n) \/ GuestCall(n)
  PROVE  OnStack'
<1>1. PICK kind \in Calls : Checkout(n) /\ Push(Frame(kind, n, "run")) /\ UNCHANGED world
  BY DEF Invoke, CallFacade, InvokeAccess, GuestCall, worldVars, Calls
<1>2. PICK f \in Frames : f = Frame(kind, n, "run") /\ f.kind = kind /\ f.at = "run"
  BY FrameType DEF Calls, Kinds, Stages
<1>3. Staged(f)
  BY <1>1, <1>2 DEF Staged, Calls
<1> QED BY <1>1, <1>2, <1>3, PushOnStack DEF Checkout, BeingDropped

LEMMA StartsOnStack ==
  ASSUME IInv, OnStack,
         \/ \E n \in Ids, t \in Tiers : Instantiate(n, t)
         \/ Abandon \/ RunStart \/ OccupySlot \/ InstantiateDone \/ InstantiatePartial
  PROVE  OnStack'
<1>1. ASSUME NEW n \in Ids, NEW t \in Tiers, Instantiate(n, t) PROVE OnStack'
  <2>1. PICK f \in Frames : /\ f = Frame("start", n, "build")
                            /\ f.kind = "start" /\ f.at = "build" /\ f.id = n
    BY FrameType DEF Kinds, Stages
  <2>2. Staged(f) /\ Reserves(f, n)
    BY <2>1 DEF Staged, Calls, Reserves
  <2>3. \A m \in Ids : status'[m] = "reserved" => status[m] = "reserved" \/ m = n
    BY <1>1 DEF Instantiate, IInv, TypeOK
  <2>4. Push(f) /\ world' = world
    BY <1>1, <2>1 DEF Instantiate, worldVars
  <2> QED BY <2>2, <2>3, <2>4, PushOnStack DEF BeingDropped
<1>2. ASSUME Abandon \/ InstantiateDone \/ InstantiatePartial PROVE OnStack'
  <2>1. /\ stack # << >> /\ Top.kind = "start" /\ Pop /\ world' = world
        /\ Top.at = "occupied" \/ status' = [status EXCEPT ![Top.id] = "dead"]
        /\ Top.at = "occupied" => UNCHANGED status
    BY <1>2 DEF Abandon, InstantiateDone, InstantiatePartial, TopIs, worldVars, tableVars
  <2>2. \A n \in Ids : status'[n] = "reserved" => status[n] = "reserved" /\ ~Reserves(Top, n)
    BY <2>1, StatusSet DEF Reserves
  <2> QED BY <2>1, <2>2, PopOnStack DEF BeingDropped
<1>3. ASSUME RunStart PROVE OnStack'
  <2>1. /\ stack # << >> /\ Top.kind = "start" /\ MoveTop("run")
        /\ UNCHANGED <<world, status>>
    BY <1>3 DEF RunStart, TopIs, worldVars, tableVars
  <2>2. PICK f : /\ f = Frame(Top.kind, Top.id, "run") /\ Replaced(f)
                 /\ f.kind = Top.kind /\ f.id = Top.id /\ f.at = "run"
    BY <2>1, MoveShape DEF IInv, Stages, Frame
  <2>3. Staged(f) /\ \A n : Reserves(Top, n) => Reserves(f, n)
    BY <2>1, <2>2 DEF Staged, Calls, Reserves
  <2> QED BY <2>1, <2>2, <2>3, ReplaceOnStack DEF BeingDropped
<1>4. ASSUME OccupySlot PROVE OnStack'
  <2>1. /\ stack # << >> /\ Top.kind = "start" /\ MoveTop("occupied") /\ world' = world
        /\ status' = [status EXCEPT ![Top.id] = "live"]
    BY <1>4 DEF OccupySlot, TopIs, worldVars
  <2>2. PICK f : /\ f = Frame(Top.kind, Top.id, "occupied") /\ Replaced(f)
                 /\ f.kind = Top.kind /\ f.at = "occupied"
    BY <2>1, MoveShape DEF IInv, Stages, Frame
  <2>3. Staged(f)
    BY <2>1, <2>2 DEF Staged, Calls
  <2>4. \A n \in Ids : status'[n] = "reserved" => status[n] = "reserved" /\ ~Reserves(Top, n)
    BY <2>1, StatusSet DEF Reserves
  <2> QED BY <2>1, <2>2, <2>3, <2>4, ReplaceOnStack DEF BeingDropped
<1> QED BY <1>1, <1>2, <1>3, <1>4

LEMMA ReturnsOnStack ==
  ASSUME IInv, OnStack, Return \/ ReturnReclaims \/ ReclaimedReturn
  PROVE  OnStack'
<1>1. CASE Return \/ ReclaimedReturn
  <2>1. stack # << >> /\ Top.kind \in Calls /\ Pop /\ UNCHANGED <<status, world>>
    BY <1>1 DEF Return, ReclaimedReturn, HoldsToken, tableVars, worldVars
  <2> QED BY <2>1, PopOnStack DEF BeingDropped, Reserves, Calls
<1>2. CASE ReturnReclaims
  <2>1. /\ stack # << >> /\ Top.kind \in Calls /\ MoveTop("dtor") /\ world' = world
        /\ status' = [status EXCEPT ![Top.id] = "dead"]
    BY <1>2 DEF ReturnReclaims, HoldsToken, worldVars
  <2>2. PICK f : /\ f = Frame(Top.kind, Top.id, "dtor") /\ Replaced(f)
                 /\ f.kind = Top.kind /\ f.at = "dtor"
    BY <2>1, MoveShape DEF IInv, Stages, Frame
  <2>3. Staged(f) /\ \A n : ~Reserves(Top, n)
    BY <2>1, <2>2 DEF Staged, Calls, Reserves
  <2>4. \A n \in Ids : status'[n] = "reserved" => status[n] = "reserved"
    BY <2>1, StatusSet
  <2> QED BY <2>1, <2>2, <2>3, <2>4, ReplaceOnStack DEF BeingDropped
<1> QED BY <1>1, <1>2

LEMMA ReleasesOnStack ==
  ASSUME IInv, OnStack,
         (\E n \in Ids : Free(n)) \/ FreeDone \/ DropWorld \/ DropStep \/ \E n \in Ids : DropTable(n)
  PROVE  OnStack'
<1>1. ASSUME NEW n \in Ids, Free(n) PROVE OnStack'
  <2>1. PICK f \in Frames : f = Frame("free", n, "dtor") /\ f.kind = "free" /\ f.at = "dtor"
    BY FrameType DEF Kinds, Stages
  <2>2. /\ Push(f) /\ world' = world
        /\ \E m : status' = [status EXCEPT ![m] = "dead"]
    BY <1>1, <2>1 DEF Free, FreeEntry, Release
  <2> QED BY <2>1, <2>2, StatusSet, PushOnStack DEF Staged, Calls, BeingDropped
<1>2. CASE DropWorld
  <2>1. PICK f \in Frames : f = Frame("drop", None, "run") /\ f.kind = "drop"
    BY FrameType DEF Kinds, Stages
  <2>2. Push(f) /\ UNCHANGED status
    BY <1>2, <2>1 DEF DropWorld, tableVars
  <2> QED BY <2>1, <2>2, PushOnStack DEF Staged, Calls
<1>3. CASE FreeDone
  <2>1. stack # << >> /\ Top.kind = "free" /\ Pop /\ UNCHANGED <<status, world>>
    BY <1>3 DEF FreeDone, TopIs, tableVars
  <2> QED BY <2>1, PopOnStack DEF BeingDropped, Reserves
<1>4. CASE DropDone
  <2>1. stack # << >> /\ Top.kind = "drop" /\ Pop /\ status' = status /\ world' = "gone"
    BY <1>4 DEF DropDone, TopIs, tableVars
  <2> QED BY <2>1, PopOnStack DEF BeingDropped, Reserves
<1>5. CASE DropBreaks \/ DropPutsOff \/ DropSkips \/ \E n \in Ids : DropTable(n)
  <2>1. /\ UNCHANGED stack /\ (world' = world \/ TopIs("drop", "run"))
        /\ status' = status \/ \E n, to : to # "reserved" /\ status' = [status EXCEPT ![n] = to]
    BY <1>5 DEF DropBreaks, DropPutsOff, DropSkips, DropTable, tableVars, worldVars
  <2>2. BeingDropped' => BeingDropped
    BY <1>5 DEF DropBreaks, DropPutsOff, DropSkips, DropTable, worldVars, BeingDropped
  <2> QED BY <2>1, <2>2, StatusSet, SameOnStack
<1>6. CASE DropFrees \/ DropReleases \/ DropResumes
  <2>1. /\ stack # << >> /\ Top.kind = "drop" /\ world' = world
        /\ status' = status \/ \E n : status' = [status EXCEPT ![n] = "dead"]
    BY <1>6 DEF DropFrees, DropReleases, DropResumes, TopIs, FreeEntry, Release, tableVars
  <2>2. PICK f : Replaced(f) /\ f.kind = "drop"
    <3>1. CASE DropReleases
      BY <2>1, <3>1, MoveShape DEF DropReleases, IInv, Stages, Frame
    <3>2. CASE DropFrees
      <4>1. instances[Len(instances)].id \in Ids
        BY <3>2, EntryShape DEF DropFrees, IInv
      <4>2. Last(instances).id \in Ids \cup {None}
        BY <4>1 DEF Last
      <4>3. PICK f \in Frames : f = Frame("drop", Last(instances).id, "dtor") /\ f.kind = "drop"
        BY <4>2, FrameType DEF Kinds, Stages
      <4> QED BY <2>1, <3>2, <4>3, ReplaceShape DEF DropFrees, IInv
    <3>3. CASE DropResumes
      <4>1. PICK f \in Frames : f = Frame("drop", None, "run") /\ f.kind = "drop"
        BY FrameType DEF Kinds, Stages
      <4> QED BY <2>1, <3>3, <4>1, ReplaceShape DEF DropResumes, IInv
    <3> QED BY <1>6, <3>1, <3>2, <3>3
  <2> QED BY <2>1, <2>2, StatusSet, ReplaceOnStack DEF Staged, Calls, Reserves, BeingDropped
<1> QED BY <1>1, <1>2, <1>3, <1>4, <1>5, <1>6 DEF DropStep

LEMMA StaysOnStack == IInv /\ OnStack /\ [Next]_vars => OnStack'
<1> SUFFICES ASSUME IInv, OnStack, [Next]_vars PROVE OnStack'
  OBVIOUS
<1>1. CASE Read \/ Write \/ DropReader \/ DropWriter \/ Done \/ UNCHANGED vars
  <2>1. UNCHANGED <<stack, status, world>>
    BY <1>1 DEF Read, Write, DropReader, DropWriter, Done, vars, tableVars, worldVars
  <2> QED BY <2>1, SameOnStack DEF BeingDropped
<1>2. CASE \E n \in Ids : Invoke(n) \/ CallFacade(n) \/ InvokeAccess(n) \/ GuestCall(n)
  BY <1>2, CallsOnStack
<1>3. CASE (\E n \in Ids, t \in Tiers : Instantiate(n, t))
  BY <1>3, StartsOnStack
<1>4. CASE (\E n \in Ids : Free(n)) \/ DropWorld
  BY <1>4, ReleasesOnStack
<1>5. CASE Unwind
  BY <1>5, StartsOnStack, ReturnsOnStack, ReleasesOnStack DEF Unwind
<1> QED BY <1>1, <1>2, <1>3, <1>4, <1>5 DEF Next

LEMMA AlwaysOnStack == Spec => []OnStack
<1>1. Init => OnStack
  BY DEF Init, OnStack, FramesAreStaged, ReservedAreStarting, DropsAreOnStack, BeingDropped, Depth
<1> QED BY <1>1, StaysOnStack, Invariant, PTL DEF Spec

-----------------------------------------------------------------------------
(* The guards of Unwind's steps.                                             *)

\* What the drop of the fields does with an entry has a step for each case.
LetsGo(e) == e.facade => in_use[e.id] > 1 \/ Freeable(e)

\* The guards of the steps of Unwind.
CanUnwind ==
  \/ stack # << >> /\ HoldsToken(Top)
  \/ stack # << >> /\ Top.kind \in Calls \cup {"free"} /\ Top.at = "dtor"
  \/ \E at \in {"build", "run", "occupied"} : TopIs("start", at)
  \/ TopIs("drop", "dtor")
  \/ TopIs("drop", "run") /\ world = "freeing"
  \/ TopIs("drop", "run") /\ world = "fields" /\ (instances # << >> => LetsGo(Head(instances)))
  \/ ~TableAlive /\ \E n \in Ids : Occupied(n)

\* What is on the stack can always go on, and where nothing can go on any more
\* a world that was dropped has no instance left.
NeverStuck ==
  /\ stack # << >> => CanUnwind
  /\ world # "open" /\ ~CanUnwind => \A n \in Ids : status[n] \in {"unborn", "dead"}

LEMMA HeadLetsGo ==
  ASSUME IInv, TopIs("drop", "run"), instances # << >>
  PROVE  LetsGo(Head(instances))
<1>1. 1 \in 1 .. Len(instances) /\ DOMAIN instances = 1 .. Len(instances)
  BY EntryShape DEF IInv
<1>2. /\ instances[1].id \in Ids /\ status[instances[1].id] = "live"
      /\ Head(instances) = instances[1]
  BY <1>1, DropIsBetween, HeadTailProperties DEF IInv, TypeOK
<1>3. CASE ~instances[1].facade
  BY <1>2, <1>3 DEF LetsGo
<1>4. CASE instances[1].facade
  <2>1. in_use[instances[1].id] = Cardinality(CallsOf(instances[1].id)) + 1
    BY <1>1, <1>2, <1>4 DEF IInv, CountsAreHolders, HasFacade
  <2>2. Cardinality(CallsOf(instances[1].id)) \in Nat
    BY Finite DEF IInv
  <2>3. in_use[instances[1].id] > 1 \/ in_use[instances[1].id] = 1
    BY <2>1, <2>2
  <2> QED BY <1>2, <1>4, <2>3 DEF LetsGo, Freeable, Occupied
<1> QED BY <1>3, <1>4

LEMMA StackCanUnwind ==
  ASSUME IInv, OnStack, stack # << >>
  PROVE  CanUnwind
<1>1. /\ Depth \in 1 .. Depth /\ Top = stack[Depth] /\ Top \in Frames
      /\ Staged(Top)
  BY StackShape DEF IInv, Top, Depth, OnStack, FramesAreStaged
<1>2. CASE Top.kind \in Calls \cup {"free"}
  BY <1>1, <1>2 DEF Staged, Calls, HoldsToken, CanUnwind
<1>3. CASE Top.kind = "start"
  BY <1>1, <1>3 DEF Staged, TopIs, CanUnwind
<1>4. CASE Top.kind = "drop"
  <2>1. Top.at \in {"run", "dtor"} /\ world \in {"freeing", "fields"}
    BY <1>4, DropIsTop
  <2> QED BY <1>4, <2>1, HeadLetsGo DEF TopIs, CanUnwind
<1> QED BY <1>1, <1>2, <1>3, <1>4 DEF Frames, Kinds, Calls

\* The part of DroppedWorldIsEmptied that is not about fairness: as long as a
\* world that was dropped has an instance in it, or a call is on the stack, a
\* step of Unwind has its guard -- RuntimeWorld::drop finds no entry it has no
\* way for, and no reservation outlives its instantiation (instance.rs).
THEOREM UnwindingGoesOn == Spec => []NeverStuck
<1>1. IInv /\ OnStack => NeverStuck
  <2> SUFFICES ASSUME IInv, OnStack PROVE NeverStuck
    OBVIOUS
  <2>1. stack # << >> => CanUnwind
    BY StackCanUnwind
  <2>2. ASSUME world # "open", ~CanUnwind, NEW n \in Ids PROVE status[n] \in {"unborn", "dead"}
    <3>1. stack = << >> /\ Depth = 0
      BY <2>1, <2>2, EmptySeq DEF Depth
    <3>2. ~TableAlive
      BY <2>2, <3>1 DEF OnStack, DropsAreOnStack, BeingDropped, IInv, TypeOK, TableAlive
    <3>3. ~Occupied(n)
      BY <2>2, <3>2 DEF CanUnwind
    <3>4. status[n] # "reserved"
      BY <3>1 DEF OnStack, ReservedAreStarting
    <3> QED BY <3>3, <3>4 DEF IInv, TypeOK, Occupied
  <2> QED BY <2>1, <2>2 DEF NeverStuck
<1> QED BY <1>1, Invariant, AlwaysOnStack, PTL

-----------------------------------------------------------------------------
(* What there is left to unwind.                                             *)

Undead == {n \in Ids : status[n] # "dead"}

\* The steps a frame has ahead of it before it goes, with the one more that a
\* drop between two entries has when it is at no entry.
Ahead(f) ==
  CASE f.at = "build" -> 3
    [] f.at = "run" -> IF f.kind = "start" THEN 2 ELSE 1
    [] f.at = "occupied" -> 1
    [] f.at = "dtor" -> IF f.kind = "drop" /\ ~(world = "freeing" /\ Listed(f.id)) THEN 2 ELSE 0

ToFree == IF world = "freeing" THEN 1 ELSE 0

AtTop == IF stack = << >> THEN 0 ELSE Ahead(Top)

\* An instantiation that ends leaves an entry and the frame below it, so a
\* frame outweighs both; an entry that is freed leaves its frame waiting.
Remaining ==
  Cardinality(Undead) + 6 * Depth + 2 * Len(instances) + ToFree + AtTop

\* A step of Unwind leaves less to unwind, and no other step adds to it but by
\* a new call.
Unwinds ==
  /\ Unwind => Remaining' < Remaining
  /\ Len(stack') <= Len(stack) => Remaining' <= Remaining

DeadStay == \A n \in Ids : status[n] = "dead" => status'[n] = "dead"

LEMMA LengthsAfter ==
  ASSUME IInv'
  PROVE  Depth' \in Nat /\ Len(instances') \in Nat /\ AtTop' \in 0 .. 3
<1>1. stack' \in Seq(Frames) /\ instances' \in Seq([id : Ids, facade : BOOLEAN])
  BY DEF IInv, TypeOK
<1>2. Depth' \in Nat /\ Len(instances') \in Nat
  BY <1>1, LenProperties DEF Depth
<1>3. stack' # << >> => Top' \in Frames
  BY <1>1, EmptySeq DEF Top
<1> QED BY <1>2, <1>3 DEF AtTop, Ahead, Frames, Stages

LEMMA AheadType ==
  ASSUME IInv
  PROVE  AtTop \in 0 .. 3
<1>1. stack # << >> => Top \in Frames
  BY StackShape DEF IInv, Top, Depth
<1> QED BY <1>1 DEF AtTop, Ahead, Frames, Stages

LEMMA RemainingType ==
  ASSUME IInv
  PROVE  /\ IsFiniteSet(Undead) /\ Cardinality(Undead) \in Nat
         /\ Depth \in Nat /\ Len(instances) \in Nat
         /\ Remaining \in Nat
<1>1. IsFiniteSet(Undead) /\ Cardinality(Undead) \in Nat
  BY IdsAssumption, FS_Subset, FS_CardinalityType DEF Undead
<1>2. Depth \in Nat /\ Len(instances) \in Nat
  BY StackShape, EntryShape DEF IInv
<1>3. AtTop \in Nat /\ ToFree \in Nat
  BY AheadType DEF ToFree
<1> QED BY <1>1, <1>2, <1>3 DEF Remaining

LEMMA UndeadFall ==
  ASSUME IInv, IInv', DeadStay
  PROVE  /\ Cardinality(Undead') <= Cardinality(Undead)
         /\ Cardinality(Undead) \in Nat /\ Cardinality(Undead') \in Nat
<1>1. Undead' \subseteq Undead
  BY DEF DeadStay, Undead
<1>2. IsFiniteSet(Undead) /\ IsFiniteSet(Ids)
  BY RemainingType, IdsAssumption
<1>3. Cardinality(Undead') <= Cardinality(Undead) /\ IsFiniteSet(Undead')
  BY <1>1, <1>2, FS_Subset
<1> QED BY <1>2, <1>3, FS_CardinalityType

\* A frame goes, and leaves no more than an entry.
LEMMA PopFalls ==
  ASSUME IInv, IInv', stack # << >>, Pop, DeadStay,
         Len(instances') <= Len(instances) + 1, world' = "freeing" => world = "freeing"
  PROVE  Remaining' < Remaining
<1>1. Depth \in Nat /\ Depth' = Depth - 1
  BY PopShape, StackShape DEF IInv, Shrunk
<1>2. /\ Cardinality(Undead') <= Cardinality(Undead)
      /\ Cardinality(Undead) \in Nat /\ Cardinality(Undead') \in Nat
  BY UndeadFall
<1>3. Len(instances) \in Nat /\ Len(instances') \in Nat /\ AtTop \in 0 .. 3 /\ AtTop' \in 0 .. 3
  BY AheadType, LengthsAfter, EntryShape DEF IInv
<1>4. ToFree \in 0 .. 1 /\ ToFree' \in 0 .. 1 /\ ToFree' <= ToFree
  BY DEF ToFree
<1>5. PICK u, v, l, m, d \in Nat, a, b \in 0 .. 3, c, e \in 0 .. 1 :
        /\ u = Cardinality(Undead') /\ l = Len(instances') /\ c = ToFree' /\ a = AtTop'
        /\ v = Cardinality(Undead) /\ m = Len(instances) /\ e = ToFree /\ b = AtTop
        /\ d = Depth
  BY <1>1, <1>2, <1>3, <1>4
<1>6. u <= v /\ l <= m + 1 /\ c <= e
  BY <1>2, <1>4, <1>5
<1>7. u + 6 * (d - 1) + 2 * l + c + a < v + 6 * d + 2 * m + e + b
  BY <1>6
<1>8. /\ Remaining' = u + 6 * (d - 1) + 2 * l + c + a
      /\ Remaining = v + 6 * d + 2 * m + e + b
  BY <1>1, <1>5 DEF Remaining
<1> QED BY <1>7, <1>8

\* The top goes on, in the frame f from here.
LEMMA ReplaceFalls ==
  ASSUME IInv, IInv', stack # << >>, NEW f, Replaced(f), DeadStay,
         NEW a \in 0 .. 3, a = Ahead(f)',
         2 * Len(instances') + ToFree' + a
           < 2 * Len(instances) + ToFree + AtTop
  PROVE  Remaining' < Remaining
<1>1. Depth' = Depth /\ Depth \in Nat \ {0} /\ Len(instances) \in Nat /\ Len(instances') \in Nat
  BY StackShape, EntryShape, LengthsAfter DEF IInv, Replaced
<1>2. /\ Cardinality(Undead') <= Cardinality(Undead)
      /\ Cardinality(Undead) \in Nat /\ Cardinality(Undead') \in Nat
  BY UndeadFall
<1>3. AtTop \in 0 .. 3 /\ ToFree \in 0 .. 1 /\ ToFree' \in 0 .. 1
  BY AheadType DEF ToFree
<1>4. stack' # << >> /\ Top' = f
  BY <1>1, EmptySeq DEF IInv, TypeOK, Depth, Top, Replaced
<1>5. AtTop' = a
  BY <1>4 DEF AtTop, Ahead
<1>6. PICK u, v, l, m, d \in Nat, b, g \in 0 .. 3, c, e \in 0 .. 1 :
        /\ u = Cardinality(Undead') /\ l = Len(instances') /\ c = ToFree' /\ g = AtTop'
        /\ v = Cardinality(Undead) /\ m = Len(instances) /\ e = ToFree /\ b = AtTop
        /\ d = Depth
  BY <1>1, <1>2, <1>3, <1>5
<1>7. u <= v /\ 2 * l + c + g < 2 * m + e + b
  BY <1>2, <1>6, <1>5
<1>8. u + 6 * d + 2 * l + c + g < v + 6 * d + 2 * m + e + b
  BY <1>7
<1>9. /\ Remaining' = u + 6 * d + 2 * l + c + g
      /\ Remaining = v + 6 * d + 2 * m + e + b
  BY <1>1, <1>6 DEF Remaining
<1> QED BY <1>8, <1>9

\* The top stays where it is.
LEMMA SameFalls ==
  ASSUME IInv, IInv', UNCHANGED stack, DeadStay,
         2 * Len(instances') + ToFree' + AtTop'
           < 2 * Len(instances) + ToFree + AtTop
  PROVE  Remaining' < Remaining
<1>1. Depth' = Depth /\ Depth \in Nat /\ Len(instances) \in Nat /\ Len(instances') \in Nat
  BY StackShape, EntryShape, LengthsAfter DEF IInv, Depth
<1>2. /\ Cardinality(Undead') <= Cardinality(Undead)
      /\ Cardinality(Undead) \in Nat /\ Cardinality(Undead') \in Nat
  BY UndeadFall
<1>3. AtTop \in 0 .. 3 /\ ToFree \in 0 .. 1 /\ ToFree' \in 0 .. 1
  BY AheadType DEF ToFree
<1>4. AtTop' \in 0 .. 3
  BY LengthsAfter
<1>6. PICK u, v, l, m, d \in Nat, b, g \in 0 .. 3, c, e \in 0 .. 1 :
        /\ u = Cardinality(Undead') /\ l = Len(instances') /\ c = ToFree' /\ g = AtTop'
        /\ v = Cardinality(Undead) /\ m = Len(instances) /\ e = ToFree /\ b = AtTop
        /\ d = Depth
  BY <1>1, <1>2, <1>3, <1>4
<1>7. u <= v /\ 2 * l + c + g < 2 * m + e + b
  BY <1>2, <1>6
<1>8. u + 6 * d + 2 * l + c + g < v + 6 * d + 2 * m + e + b
  BY <1>7
<1>9. /\ Remaining' = u + 6 * d + 2 * l + c + g
      /\ Remaining = v + 6 * d + 2 * m + e + b
  BY <1>1, <1>6 DEF Remaining
<1> QED BY <1>8, <1>9

LEMMA StatusKeepsDead ==
  ASSUME IInv, NEW n, NEW to, status' = [status EXCEPT ![n] = to],
         to = "dead" \/ status[n] # "dead"
  PROVE  DeadStay
  BY DEF IInv, TypeOK, DeadStay

\* A frame other than a drop's moves to its next stage.
LEMMA MoveFalls ==
  ASSUME IInv, IInv', stack # << >>, Top.kind # "drop", NEW at \in Stages, MoveTop(at), DeadStay,
         UNCHANGED <<instances, world>>,
         \/ Top.at = "build" /\ at \in {"run", "occupied"}
         \/ Top.at = "run" /\ at = "occupied" /\ Top.kind = "start"
         \/ Top.at = "run" /\ at = "dtor"
  PROVE  Remaining' < Remaining
<1>0. PICK f : f = Frame(Top.kind, Top.id, at)
  OBVIOUS
<1>1. Replaced(f) /\ f.kind = Top.kind /\ f.at = at
  BY <1>0, MoveShape DEF IInv, Frame
<1>2. PICK a \in 0 .. 3 : a = Ahead(f)' /\ a < AtTop
  BY <1>1 DEF Ahead, AtTop, Stages
<1>3. Len(instances) \in Nat /\ ToFree \in 0 .. 1
      /\ ToFree' = ToFree /\ AtTop \in 0 .. 3
  BY EntryShape, AheadType DEF IInv, ToFree
<1> QED BY <1>1, <1>2, <1>3, ReplaceFalls

LEMMA StartsUnwind ==
  ASSUME IInv, IInv', Abandon \/ RunStart \/ OccupySlot \/ InstantiateDone \/ InstantiatePartial
  PROVE  Remaining' < Remaining
<1>1. CASE Abandon
  <2>1. stack # << >> /\ Pop /\ world' = world /\ instances' = instances
    BY <1>1 DEF Abandon, TopIs, worldVars
  <2>2. DeadStay
    BY <1>1, StatusKeepsDead DEF Abandon
  <2>3. Len(instances) \in Nat
    BY EntryShape DEF IInv
  <2> QED BY <2>1, <2>2, <2>3, PopFalls
<1>2. CASE RunStart
  BY <1>2, MoveFalls DEF RunStart, TopIs, worldVars, tableVars, Stages, DeadStay
<1>3. CASE OccupySlot
  <2>1. stack # << >> /\ Top.kind = "start" /\ Top.at \in {"build", "run"} /\ status[Top.id] = "reserved"
    BY <1>3, StartIsTop DEF OccupySlot, TopIs
  <2>2. DeadStay
    BY <1>3, <2>1, StatusKeepsDead DEF OccupySlot
  <2> QED BY <1>3, <2>1, <2>2, MoveFalls DEF OccupySlot, worldVars, Stages
<1>4. CASE InstantiateDone \/ InstantiatePartial
  <2>1. /\ stack # << >> /\ Pop /\ DeadStay /\ world' = world
        /\ \E facade \in BOOLEAN : instances' = Append(instances, [id |-> Top.id, facade |-> facade])
    BY <1>4 DEF InstantiateDone, InstantiatePartial, TopIs, DeadStay, tableVars
  <2>2. Top.id \in Ids
    BY <1>4, StartIsTop DEF InstantiateDone, InstantiatePartial, TopIs
  <2>3. Len(instances') = Len(instances) + 1 /\ Len(instances) \in Nat
    BY <2>1, <2>2, AppendProperties, EntryShape DEF IInv, TypeOK
  <2> QED BY <2>1, <2>3, PopFalls
<1> QED BY <1>1, <1>2, <1>3, <1>4

LEMMA ReturnsUnwind ==
  ASSUME IInv, IInv', Return \/ ReturnReclaims \/ ReclaimedReturn
  PROVE  Remaining' < Remaining
<1>1. CASE Return \/ ReclaimedReturn
  BY <1>1, EntryShape, PopFalls DEF Return, ReclaimedReturn, tableVars, worldVars, DeadStay, IInv
<1>2. CASE ReturnReclaims
  <2>1. stack # << >> /\ Top.kind # "drop" /\ Top.at = "run"
    BY <1>2 DEF ReturnReclaims, HoldsToken, Calls
  <2>2. DeadStay
    BY <1>2, StatusKeepsDead DEF ReturnReclaims
  <2> QED BY <1>2, <2>1, <2>2, MoveFalls DEF ReturnReclaims, worldVars, Stages
<1> QED BY <1>1, <1>2

\* An entry that is freed goes at once, or is still to be taken off.
LEMMA FreeEntryFalls ==
  ASSUME IInv, IInv', NEW k \in 1 .. Len(instances), FreeEntry(k), NEW n, n = instances[k].id
  PROVE  /\ DeadStay
         /\ IF instances[k].facade
              THEN Len(instances') = Len(instances) - 1 /\ ~Listed(n)'
              ELSE instances' = instances /\ Listed(n)'
<1>1. DeadStay
  BY StatusKeepsDead DEF FreeEntry, Release
<1>2. CASE instances[k].facade
  <2>1. EntryLost(k)
    BY <1>2 DEF FreeEntry, EntryLost
  <2>2. Len(instances') = Len(instances) - 1
    BY <2>1, LostShape DEF IInv
  <2>3. ~Listed(n)'
    BY <2>1, LostEntry DEF IInv
  <2> QED BY <1>1, <1>2, <2>2, <2>3
<1>3. CASE ~instances[k].facade
  <2>1. instances' = instances /\ Listed(n)
    BY <1>3, EntryShape DEF FreeEntry, IInv, Listed
  <2>2. Listed(n)'
    BY <2>1 DEF Listed
  <2> QED BY <1>1, <1>3, <2>1, <2>2
<1> QED BY <1>2, <1>3

LEMMA TakeOffFalls ==
  ASSUME IInv, NEW n, TakeOff(n)
  PROVE  /\ Listed(n) => Len(instances') = Len(instances) - 1
         /\ ~Listed(n) => instances' = instances
<1>1. DOMAIN instances = 1 .. Len(instances)
  BY EntryShape DEF IInv
<1>2. ASSUME NEW k \in DOMAIN instances, instances' = RemoveAt(instances, k)
      PROVE  Len(instances') = Len(instances) - 1
  BY <1>1, <1>2, LostShape DEF IInv, EntryLost
<1> QED BY <1>2 DEF TakeOff, Listed

LEMMA DropFreesUnwinds == ASSUME IInv, IInv', DropFrees PROVE Remaining' < Remaining
<1>1. /\ stack # << >> /\ Top.kind = "drop" /\ Top.at = "run" /\ world = "freeing" /\ world' = world
      /\ instances # << >> /\ FreeEntry(Len(instances))
  BY DEF DropFrees, TopIs
<1>2. /\ Len(instances) \in 1 .. Len(instances) /\ Last(instances) = instances[Len(instances)]
      /\ instances[Len(instances)].id \in Ids
  BY <1>1, EntryShape DEF IInv, Last
<1>3. PICK n \in Ids : n = instances[Len(instances)].id
  BY <1>2
<1>4. PICK f \in Frames : /\ f = Frame("drop", n, "dtor")
                          /\ f.kind = "drop" /\ f.at = "dtor" /\ f.id = n
  BY FrameType DEF Kinds, Stages
<1>5. Replaced(f)
  BY <1>1, <1>2, <1>3, <1>4, ReplaceShape DEF DropFrees, IInv
<1>6. /\ DeadStay
      /\ IF instances[Len(instances)].facade
           THEN Len(instances') = Len(instances) - 1 /\ ~Listed(n)'
           ELSE instances' = instances /\ Listed(n)'
  BY <1>1, <1>2, <1>3, FreeEntryFalls
<1>7. Ahead(f)' = IF Listed(n)' THEN 0 ELSE 2
  BY <1>1, <1>4 DEF Ahead
<1>8. AtTop = 1 /\ ToFree = 1 /\ ToFree' = 1 /\ Len(instances) \in Nat \ {0}
  BY <1>1, EntryShape DEF AtTop, Ahead, ToFree, IInv
<1>9. CASE Listed(n)'
  <2>1. Ahead(f)' = 0 /\ instances' = instances
    BY <1>6, <1>7, <1>9
  <2> QED BY <1>1, <1>5, <1>6, <1>8, <2>1, ReplaceFalls
<1>10. CASE ~Listed(n)'
  <2>1. Ahead(f)' = 2 /\ Len(instances') = Len(instances) - 1
    BY <1>6, <1>7, <1>10
  <2> QED BY <1>1, <1>5, <1>6, <1>8, <2>1, ReplaceFalls
<1> QED BY <1>9, <1>10

LEMMA DropReleasesUnwinds == ASSUME IInv, IInv', DropReleases PROVE Remaining' < Remaining
<1>1. /\ stack # << >> /\ Top.kind = "drop" /\ Top.at = "run" /\ world = "fields" /\ world' = world
      /\ instances # << >> /\ instances' = Tail(instances) /\ DeadStay
  BY StatusKeepsDead DEF DropReleases, TopIs, Release
<1>2. Len(instances) \in Nat \ {0} /\ Len(instances') = Len(instances) - 1
  BY <1>1, EntryShape, LostShape DEF IInv, EntryLost
<1>3. PICK f : Replaced(f) /\ f.kind = "drop" /\ f.at = "dtor"
  BY <1>1, MoveShape DEF DropReleases, IInv, Stages, Frame
<1>4. Ahead(f)' = 2 /\ AtTop = 1 /\ ToFree = 0 /\ ToFree' = 0
  BY <1>1, <1>3 DEF Ahead, AtTop, ToFree
<1> QED BY <1>1, <1>2, <1>3, <1>4, ReplaceFalls

LEMMA DropResumesUnwinds == ASSUME IInv, IInv', DropResumes PROVE Remaining' < Remaining
<1>1. /\ stack # << >> /\ Top.kind = "drop" /\ Top.at = "dtor" /\ world' = world
      /\ world \in {"freeing", "fields"} /\ DeadStay
  BY DropIsTop DEF DropResumes, TopIs, tableVars, DeadStay
<1>2. PICK f \in Frames : /\ f = Frame("drop", None, "run") /\ f.kind = "drop" /\ f.at = "run"
  BY FrameType DEF Kinds, Stages
<1>3. Replaced(f)
  BY <1>1, <1>2, ReplaceShape DEF DropResumes, IInv
<1>4. Ahead(f)' = 1 /\ ToFree' = ToFree /\ ToFree \in 0 .. 1
  BY <1>1, <1>2 DEF Ahead, ToFree
<1>5. Len(instances) \in Nat
  BY EntryShape DEF IInv
<1>6. CASE world = "freeing" /\ Listed(Top.id)
  <2>1. AtTop = 0 /\ Len(instances') = Len(instances) - 1
    BY <1>1, <1>6, TakeOffFalls DEF DropResumes, AtTop, Ahead
  <2> QED BY <1>1, <1>3, <1>4, <1>5, <2>1, ReplaceFalls
<1>7. CASE ~(world = "freeing" /\ Listed(Top.id))
  <2>1. AtTop = 2 /\ instances' = instances
    BY <1>1, <1>7, TakeOffFalls DEF DropResumes, AtTop, Ahead
  <2> QED BY <1>1, <1>3, <1>4, <1>5, <2>1, ReplaceFalls
<1> QED BY <1>6, <1>7

LEMMA DropSteps ==
  ASSUME IInv, IInv', DropBreaks \/ DropPutsOff \/ DropSkips \/ DropDone
  PROVE  Remaining' < Remaining
<1>1. /\ stack # << >> /\ Top.kind = "drop" /\ Top.at = "run"
      /\ Len(instances) \in Nat /\ (instances # << >> => Len(instances) > 0)
      /\ ToFree \in 0 .. 1
  BY EntryShape DEF DropBreaks, DropPutsOff, DropSkips, DropDone, TopIs, IInv, ToFree
<1>2. AtTop = 1
  BY <1>1 DEF AtTop, Ahead
<1>3. UNCHANGED stack => AtTop' = 1
  BY <1>1 DEF AtTop, Ahead, Top
<1>4. CASE DropBreaks
  <2>1. /\ UNCHANGED <<stack, instances>> /\ DeadStay
        /\ ToFree = 1 /\ ToFree' = 0
    BY <1>4 DEF DropBreaks, tableVars, DeadStay, ToFree
  <2> QED BY <1>1, <1>2, <1>3, <2>1, SameFalls
<1>5. CASE DropPutsOff \/ DropSkips
  <2>1. /\ UNCHANGED <<stack, world>> /\ instances # << >> /\ instances' = Tail(instances)
        /\ ToFree' = ToFree
    BY <1>5 DEF DropPutsOff, DropSkips, ToFree
  <2>2. Len(instances') = Len(instances) - 1
    BY <1>1, <2>1, LostShape DEF IInv, EntryLost
  <2>3. DeadStay
    <3>1. CASE DropPutsOff
      <4>1. 1 \in 1 .. Len(instances) /\ Head(instances) = instances[1]
        BY <1>1, <2>1, HeadTailProperties DEF IInv, TypeOK
      <4>2. status[Head(instances).id] = "live"
        BY <3>1, <4>1, DropIsBetween DEF DropPutsOff
      <4> QED BY <3>1, <4>2, StatusKeepsDead DEF DropPutsOff
    <3>2. CASE DropSkips
      BY <3>2 DEF DropSkips, tableVars, DeadStay
    <3> QED BY <1>5, <3>1, <3>2
  <2> QED BY <1>1, <1>2, <1>3, <2>1, <2>2, <2>3, SameFalls
<1>6. CASE DropDone
  BY <1>1, <1>6, PopFalls DEF DropDone, tableVars, DeadStay
<1> QED BY <1>4, <1>5, <1>6

LEMMA FreeDoneUnwinds == ASSUME IInv, IInv', FreeDone PROVE Remaining' < Remaining
<1>1. PICK n : TakeOff(n)
  BY DEF FreeDone
<1>2. Len(instances) \in Nat /\ Len(instances') \in {Len(instances), Len(instances) - 1}
  BY <1>1, TakeOffFalls, EntryShape DEF IInv
<1> QED BY <1>2, PopFalls DEF FreeDone, TopIs, tableVars, DeadStay

LEMMA DropTableUnwinds == ASSUME IInv, IInv', NEW n \in Ids, DropTable(n) PROVE Remaining' < Remaining
<1>1. Undead' = Undead \ {n} /\ n \in Undead
  BY DEF DropTable, IInv, TypeOK, Undead, Occupied
<1>2. Cardinality(Undead') = Cardinality(Undead) - 1
  BY <1>1, RemainingType, FS_RemoveElement
<1>3. Depth' = Depth /\ instances' = instances /\ AtTop' = AtTop /\ world' = world
  BY DEF DropTable, worldVars, Depth, AtTop, Ahead, Top, Listed
<1>4. /\ Cardinality(Undead) \in Nat /\ Depth \in Nat /\ Len(instances) \in Nat
      /\ AtTop \in 0 .. 3 /\ ToFree \in 0 .. 1
      /\ ToFree' = ToFree
  BY <1>3, RemainingType, AheadType DEF ToFree
<1> QED BY <1>2, <1>3, <1>4 DEF Remaining

LEMMA UnwindFalls == ASSUME IInv, IInv', Unwind PROVE Remaining' < Remaining
  BY StartsUnwind, ReturnsUnwind, DropFreesUnwinds, DropReleasesUnwinds, DropResumesUnwinds,
     DropSteps, FreeDoneUnwinds, DropTableUnwinds DEF Unwind, DropStep

LEMMA RemainingAfter == ASSUME IInv' PROVE Remaining' \in Nat
<1>1. Undead' \subseteq Ids
  BY DEF Undead
<1>2. Cardinality(Undead') \in Nat
  BY <1>1, IdsAssumption, FS_Subset, FS_CardinalityType
<1>3. ToFree' \in Nat
  BY DEF ToFree
<1> QED BY <1>2, <1>3, LengthsAfter DEF Remaining

LEMMA PushesGrow ==
  ASSUME IInv,
         \/ \E n \in Ids, t \in Tiers : Instantiate(n, t)
         \/ \E n \in Ids : Invoke(n) \/ CallFacade(n) \/ InvokeAccess(n) \/ GuestCall(n)
         \/ (\E n \in Ids : Free(n)) \/ DropWorld
  PROVE  ~(Len(stack') <= Len(stack))
<1>1. PICK kind \in Kinds, n \in Ids \cup {None}, at \in Stages : Push(Frame(kind, n, at))
  BY DEF Instantiate, Invoke, CallFacade, InvokeAccess, GuestCall, Free, DropWorld, Kinds, Stages
<1>2. Len(stack') = Len(stack) + 1 /\ Len(stack) \in Nat
  BY <1>1, FrameType, PushShape, StackShape DEF Grown, Depth, IInv
<1> QED BY <1>2

\* The other half: no step of Unwind only moves the work about.  Unwind leaves
\* less of instances, frames and entries every time, and steps that push no
\* frame add nothing; so once the embedder's code makes no new call the world's
\* drop is over after finitely many steps (RuntimeWorld::drop, instance.rs).
THEOREM UnwindingEnds == Spec => [](Remaining \in Nat) /\ [][Unwinds]_vars
<1>1. IInv => Remaining \in Nat
  BY RemainingType
<1>2. IInv /\ IInv' /\ [Next]_vars => [Unwinds]_vars
  <2> SUFFICES ASSUME IInv, IInv', Next PROVE Unwinds
    OBVIOUS
  <2>1. Remaining \in Nat /\ Remaining' \in Nat
    BY RemainingType, RemainingAfter
  <2>2. CASE Unwind
    BY <2>1, <2>2, UnwindFalls DEF Unwinds
  <2>3. CASE ~Unwind /\ (Read \/ Write \/ DropReader \/ DropWriter \/ Done)
    <3>1. UNCHANGED <<stack, status, instances, world>>
      BY <2>3 DEF Read, Write, DropReader, DropWriter, Done, vars, tableVars, worldVars
    <3>2. Undead' = Undead /\ Depth' = Depth /\ ToFree' = ToFree /\ AtTop' = AtTop
      BY <3>1 DEF Undead, Depth, ToFree, AtTop, Ahead, Top, Listed
    <3>3. Remaining' = Remaining
      BY <3>1, <3>2 DEF Remaining
    <3> QED BY <2>1, <2>3, <3>3 DEF Unwinds
  <2>4. CASE ~Unwind /\ ~(Read \/ Write \/ DropReader \/ DropWriter \/ Done)
    BY <2>4, PushesGrow DEF Next, Unwinds
  <2> QED BY <2>2, <2>3, <2>4
<1> QED BY <1>1, <1>2, Invariant, PTL DEF Spec
=============================================================================
