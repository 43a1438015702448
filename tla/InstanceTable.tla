--------------------------- MODULE InstanceTable ---------------------------
(***************************************************************************)
(* The generational instance table of a runtime world, vm/link.rs.         *)
(*                                                                         *)
(* The table is a vector of slots.  A slot index is reused after the       *)
(* instance in it is released, so an instance is named by an InstanceId    *)
(* that also carries the slot's generation.  An instance is reached only   *)
(* through an InstanceToken, a counted checkout holding a raw pointer to   *)
(* the boxed body; a facade of the embedder owns an InstanceLease, a token *)
(* whose drop also releases the slot.                                      *)
(*                                                                         *)
(* Everything here runs on one thread (the table is an Rc), but releasing  *)
(* a slot drops the instance body, and with it host closures that may call *)
(* back into the table: `freeing' keeps a lease drop that is suspended at  *)
(* that point.                                                             *)
(***************************************************************************)
EXTENDS Naturals, Sequences, FiniteSets

CONSTANTS
  MaxSlots,   \* number of slot indices, for u32 (link.rs asserts the bound)
  MaxGen,     \* the retired generation, for u32::MAX
  MaxUse,     \* the largest checkout count, for u32::MAX
  Handles,    \* the places of the program that can hold a token
  Here,       \* identity of this table's world
  Elsewhere,  \* identity of some other world
  Vacant,     \* WorldSlot::Vacant
  NoToken     \* a handle that holds nothing

ASSUME MaxSlotsAssumption == MaxSlots \in Nat
ASSUME MaxGenAssumption == MaxGen \in Nat \ {0}
ASSUME MaxUseAssumption == MaxUse \in Nat
ASSUME HandlesAssumption == IsFiniteSet(Handles)
ASSUME WorldAssumption == Here # Elsewhere

Indexes == 0 .. MaxSlots - 1
Generations == 0 .. MaxGen
InstanceIds ==
  [world : {Here, Elsewhere}, index : Indexes, generation : Generations]

\* A body is named by the id it was built for (its InstanceBackref self_id);
\* a token carries its id and the pointer it was given.
Tokens == [id : InstanceIds, body : InstanceIds]

ASSUME VacantAssumption == Vacant \notin InstanceIds
ASSUME NoTokenAssumption == NoToken \notin Tokens

VARIABLES
  len,              \* length of the table's parallel vectors
  slots,            \* body in a slot, or Vacant
  generations,
  in_use,
  release_pending,
  reusable,         \* stack of slot indices that may be reserved again
  tokens,           \* what each handle holds
  leases,           \* the handles whose token belongs to an InstanceLease
  freeing           \* ids of lease drops suspended before their `table.free'

vars == <<len, slots, generations, in_use, release_pending, reusable,
          tokens, leases, freeing>>

tableVars == <<len, slots, generations, release_pending, reusable>>

-----------------------------------------------------------------------------
IdAt(i) == [world |-> Here, index |-> i, generation |-> generations[i]]

Pushed(i) == i < len

InReusable(i) == \E k \in DOMAIN reusable : reusable[k] = i

\* The generation check every operation makes before it touches a slot.
Resolves(id) ==
  /\ id.world = Here
  /\ Pushed(id.index)
  /\ generations[id.index] = id.generation

\* A reservation is nothing but an id in its caller's hands: the slot is
\* vacant, not offered for reuse, and not retired.
Reserved(i) ==
  /\ Pushed(i)
  /\ slots[i] = Vacant
  /\ generations[i] # MaxGen
  /\ ~InReusable(i)

\* The ids the program can present: those this table has handed out, and any
\* id of another world.
Issued(id) ==
  \/ id.world = Elsewhere
  \/ /\ id.world = Here
     /\ Pushed(id.index)
     /\ \/ id.generation < generations[id.index]
        \/ id = IdAt(id.index) /\ (slots[id.index] # Vacant \/ Reserved(id.index))

Held(h) == tokens[h] # NoToken

-----------------------------------------------------------------------------
Init ==
  /\ len = 0
  /\ slots = [i \in Indexes |-> Vacant]
  /\ generations = [i \in Indexes |-> 0]
  /\ in_use = [i \in Indexes |-> 0]
  /\ release_pending = [i \in Indexes |-> FALSE]
  /\ reusable = <<>>
  /\ tokens = [h \in Handles |-> NoToken]
  /\ leases = {}
  /\ freeing = {}

\* Positions of `reusable' whose slot is not retired; reserve pops retired
\* entries until it meets one of these.
UsablePositions == {k \in DOMAIN reusable : generations[reusable[k]] # MaxGen}

ReserveReused ==
  /\ \E k \in UsablePositions :
       /\ \A j \in UsablePositions : j <= k
       /\ reusable' = SubSeq(reusable, 1, k - 1)
  /\ UNCHANGED <<len, slots, generations, in_use, release_pending,
                 tokens, leases, freeing>>

ReservePushed ==
  /\ UsablePositions = {}
  /\ len < MaxSlots
  /\ reusable' = <<>>
  /\ len' = len + 1
  /\ slots' = [slots EXCEPT ![len] = Vacant]
  /\ generations' = [generations EXCEPT ![len] = 0]
  /\ in_use' = [in_use EXCEPT ![len] = 0]
  /\ release_pending' = [release_pending EXCEPT ![len] = FALSE]
  /\ UNCHANGED <<tokens, leases, freeing>>

\* Mutant: no saturation, the generation wraps around.
NextGenerationWraps(i) == (generations[i] + 1) % MaxGen

\* Mutant: release does not advance the generation.
NextGenerationStays(i) == generations[i]

NextGeneration(i) ==
  IF generations[i] # MaxGen THEN generations[i] + 1 ELSE generations[i]

\* Mutant: a retired slot is offered for reuse all the same.
RetireAlwaysReusable(i) ==
  /\ generations' = [generations EXCEPT ![i] = NextGeneration(i)]
  /\ reusable' = Append(reusable, i)

\* advance_generation, and the push on `reusable' it allows.
Retire(i) ==
  /\ generations' = [generations EXCEPT ![i] = NextGeneration(i)]
  /\ reusable' = IF NextGeneration(i) # MaxGen THEN Append(reusable, i) ELSE reusable

Abandon(id) ==
  /\ Resolves(id)
  /\ slots[id.index] = Vacant
  /\ in_use[id.index] = 0
  /\ Retire(id.index)
  /\ UNCHANGED <<len, slots, in_use, release_pending, tokens, leases, freeing>>

Occupy(id) ==
  /\ Resolves(id)
  /\ slots[id.index] = Vacant
  /\ slots' = [slots EXCEPT ![id.index] = id]
  /\ UNCHANGED <<len, generations, in_use, release_pending, reusable,
                 tokens, leases, freeing>>

\* Mutant: the count is added without checked_add.
CheckoutUnchecked(h, id) ==
  /\ ~Held(h)
  /\ Resolves(id)
  /\ slots[id.index] # Vacant
  /\ in_use' = [in_use EXCEPT ![id.index] = @ + 1]
  /\ tokens' = [tokens EXCEPT ![h] = [id |-> id, body |-> slots[id.index]]]
  /\ UNCHANGED <<tableVars, freeing>>

\* The token of handle h; the pointer it carries is the body found in the slot.
Checkout(h, id) ==
  /\ ~Held(h)
  /\ Resolves(id)
  /\ slots[id.index] # Vacant
  /\ in_use[id.index] < MaxUse
  /\ in_use' = [in_use EXCEPT ![id.index] = @ + 1]
  /\ tokens' = [tokens EXCEPT ![h] = [id |-> id, body |-> slots[id.index]]]
  /\ UNCHANGED <<tableVars, freeing>>

CheckoutToken(h, id) == Checkout(h, id) /\ UNCHANGED leases

LeaseCheckout(h, id) == Checkout(h, id) /\ leases' = leases \cup {h}

Reclaim(i) ==
  /\ slots' = [slots EXCEPT ![i] = Vacant]
  /\ release_pending' = [release_pending EXCEPT ![i] = FALSE]
  /\ Retire(i)

LastOfPending(i) == in_use[i] = 1 /\ release_pending[i]

\* The counter and the holder; what happens to the slot is the caller's.
ReturnToken(h) ==
  /\ in_use' = [in_use EXCEPT ![tokens[h].id.index] = @ - 1]
  /\ tokens' = [tokens EXCEPT ![h] = NoToken]

\* Mutant: the drop of the last token forgets the release that was put off.
TokenDropForgetsPending(h) ==
  /\ ReturnToken(h)
  /\ UNCHANGED tableVars

\* InstanceToken::drop.
TokenDrop(h) ==
  LET i == tokens[h].id.index IN
  /\ ReturnToken(h)
  /\ IF LastOfPending(i)
       THEN Reclaim(i)
       ELSE UNCHANGED <<slots, generations, release_pending, reusable>>
  /\ UNCHANGED len

DropToken(h) ==
  /\ Held(h)
  /\ h \notin leases
  /\ TokenDrop(h)
  /\ UNCHANGED <<leases, freeing>>

\* Mutant: the token is forgotten instead of dropped.
IntoOccupiedIdForgets(h) ==
  /\ h \in leases
  /\ tokens' = [tokens EXCEPT ![h] = NoToken]
  /\ leases' = leases \ {h}
  /\ UNCHANGED <<tableVars, in_use, freeing>>

IntoOccupiedId(h) ==
  /\ h \in leases
  /\ TokenDrop(h)
  /\ leases' = leases \ {h}
  /\ UNCHANGED freeing

\* InstanceLease::drop while others hold the instance: `free' answers InUse.
DropLeaseInUse(h) ==
  LET i == tokens[h].id.index IN
  /\ h \in leases
  /\ in_use[i] > 1
  /\ ReturnToken(h)
  /\ release_pending' = [release_pending EXCEPT ![i] = TRUE]
  /\ leases' = leases \ {h}
  /\ UNCHANGED <<len, slots, generations, reusable, freeing>>

\* InstanceLease::drop of the last holder, no release pending: `free' reclaims.
DropLeaseLast(h) ==
  LET i == tokens[h].id.index IN
  /\ h \in leases
  /\ in_use[i] = 1
  /\ ~release_pending[i]
  /\ ReturnToken(h)
  /\ Reclaim(i)
  /\ leases' = leases \ {h}
  /\ UNCHANGED <<len, freeing>>

\* InstanceLease::drop of the last holder after another lease asked for the
\* release: dropping the token reclaims, and the body's destructors run before
\* this drop reaches its own `free'.
DropLeasePending(h) ==
  LET i == tokens[h].id.index IN
  /\ h \in leases
  /\ LastOfPending(i)
  /\ TokenDrop(h)
  /\ leases' = leases \ {h}
  /\ freeing' = freeing \cup {tokens[h].id}

\* Mutant: `free' ignores the tokens that are out.
CanFreeInUse(id) == Resolves(id) /\ slots[id.index] # Vacant

CanFree(id) ==
  /\ Resolves(id)
  /\ in_use[id.index] = 0
  /\ slots[id.index] # Vacant

\* The trailing `free' of a suspended lease drop, with its three answers.
FinishLeaseDrop(id) ==
  /\ id \in freeing
  /\ freeing' = freeing \ {id}
  /\ IF CanFree(id)
       THEN Reclaim(id.index)
       ELSE /\ release_pending' =
                 IF Resolves(id) /\ in_use[id.index] # 0
                   THEN [release_pending EXCEPT ![id.index] = TRUE]
                   ELSE release_pending
            /\ UNCHANGED <<slots, generations, reusable>>
  /\ UNCHANGED <<len, in_use, tokens, leases>>

Free(id) ==
  /\ CanFree(id)
  /\ Reclaim(id.index)
  /\ UNCHANGED <<len, in_use, tokens, leases, freeing>>

Next ==
  \/ ReserveReused
  \/ ReservePushed
  \/ \E id \in InstanceIds : Issued(id) /\ Abandon(id)
  \/ \E id \in InstanceIds : Issued(id) /\ Occupy(id)
  \/ \E h \in Handles, id \in InstanceIds : Issued(id) /\ CheckoutToken(h, id)
  \/ \E h \in Handles, id \in InstanceIds : Issued(id) /\ LeaseCheckout(h, id)
  \/ \E h \in Handles : DropToken(h)
  \/ \E h \in Handles : IntoOccupiedId(h)
  \/ \E h \in Handles : DropLeaseInUse(h)
  \/ \E h \in Handles : DropLeaseLast(h)
  \/ \E h \in Handles : DropLeasePending(h)
  \/ \E id \in InstanceIds : FinishLeaseDrop(id)
  \/ \E id \in InstanceIds : Issued(id) /\ Free(id)

Spec == Init /\ [][Next]_vars

-----------------------------------------------------------------------------
\* Counters keep to their bounds -- no checkout count runs past u32::MAX, no
\* generation past the retired one (InstanceTableInner, link.rs) -- and the
\* parallel vectors have their element types.
TypeOK ==
  /\ len \in 0 .. MaxSlots
  /\ slots \in [Indexes -> InstanceIds \cup {Vacant}]
  /\ generations \in [Indexes -> Generations]
  /\ in_use \in [Indexes -> 0 .. MaxUse]
  /\ release_pending \in [Indexes -> BOOLEAN]
  /\ reusable \in Seq(Indexes)
  /\ tokens \in [Handles -> Tokens \cup {NoToken}]
  /\ leases \subseteq Handles
  /\ freeing \subseteq InstanceIds

\* Every live token points at the body that still sits in its slot, and that
\* body is the instance the token's id names: no checkout dangles after a
\* release and none is misdirected to the slot's next occupant
\* (InstanceToken, link.rs; the invariant that makes its raw pointer sound).
NoDanglingToken ==
  \A h \in Handles : Held(h) =>
    /\ slots[tokens[h].id.index] = tokens[h].body
    /\ tokens[h].body = tokens[h].id
    /\ Resolves(tokens[h].id)

HoldersOf(i) == {h \in Handles : Held(h) /\ tokens[h].id.index = i}

\* The checkout counter of a slot is the number of tokens on it, so the
\* decrement in InstanceToken::drop never underflows and `free' refuses
\* exactly while a token is out.
CountIsHolders ==
  \A i \in Indexes : in_use[i] = Cardinality(HoldersOf(i))

\* A release that was put off always has a token left whose drop performs it:
\* a slot is never left occupied, released by its owner and held by nobody.
PendingIsHeld ==
  \A i \in Indexes : release_pending[i] => HoldersOf(i) # {}

\* A slot offered for reuse is vacant, not retired, offered once, and no body
\* or reservation has it: two instantiations never share a slot.
ReusableIsFree ==
  /\ \A k \in DOMAIN reusable :
       /\ Pushed(reusable[k])
       /\ slots[reusable[k]] = Vacant
       /\ generations[reusable[k]] # MaxGen
  /\ \A j, k \in DOMAIN reusable : reusable[j] = reusable[k] => j = k

\* When a suspended lease drop reaches its own `free' the id is dead, whatever
\* the body's destructors did in between: the slot's next occupant is safe.
SuspendedDropIsDead == \A id \in freeing : ~Resolves(id)

-----------------------------------------------------------------------------
(* What the table promises about each id, stated without slots. *)

StatusOf(i, g) ==
  CASE ~Pushed(i) \/ g > generations[i] -> "unborn"
    [] Pushed(i) /\ g < generations[i] -> "dead"
    [] Pushed(i) /\ g = generations[i] /\ slots[i] # Vacant ->
         (IF release_pending[i] THEN "closing" ELSE "live")
    [] OTHER -> (IF Reserved(i) THEN "reserved" ELSE "unborn")

Names == [index : Indexes, generation : Generations]

NameOf(id) == [index |-> id.index, generation |-> id.generation]

StatusView == [n \in Names |-> StatusOf(n.index, n.generation)]

UsersView ==
  [n \in Names |-> {h \in Handles : Held(h) /\ NameOf(tokens[h].body) = n}]

Lifecycle == INSTANCE InstanceLifecycle
               WITH status <- StatusView, users <- UsersView

\* Each id lives once: it is reserved, occupied, and dies only when nobody
\* holds it, and it never comes back (the promise of RuntimeWorld's
\* documentation in instance.rs, kept by reserve, occupy, checkout, free,
\* reclaim and the drops of tokens and leases).
LifecycleSpec == Lifecycle!Spec
=============================================================================
