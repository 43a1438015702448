------------------------ MODULE InstanceTable_proofs ------------------------
(***************************************************************************)
(* Proofs about InstanceTable, for every number of slots, generations,     *)
(* checkout limit and set of handles: its invariants, that it implements   *)
(* InstanceLifecycle, and what follows from that for the ids.              *)
(***************************************************************************)
EXTENDS InstanceTable, FiniteSetTheorems, SequenceTheorems, TLAPS

\* A slot's occupant is the instance its current id names, and a retired slot
\* is never occupied.
OccupantIsCurrent ==
  \A i \in Indexes : slots[i] # Vacant =>
    /\ Pushed(i)
    /\ slots[i] = IdAt(i)
    /\ generations[i] # MaxGen

PendingIsCounted ==
  \A i \in Indexes : release_pending[i] => in_use[i] # 0

LeasesHoldTokens == \A h \in leases : Held(h)

SuspendedDropIsOld ==
  \A id \in freeing :
    /\ id.world = Here
    /\ Pushed(id.index)
    /\ id.generation < generations[id.index]

\* The inductive invariant.
IInv ==
  /\ TypeOK
  /\ OccupantIsCurrent
  /\ NoDanglingToken
  /\ CountIsHolders
  /\ PendingIsCounted
  /\ ReusableIsFree
  /\ LeasesHoldTokens
  /\ SuspendedDropIsOld

-----------------------------------------------------------------------------
(* The counter and its holders *)

\* A set of handles is finite, so the counting lemmas of the library apply.
LEMMA HandleSets ==
  ASSUME NEW S \in SUBSET Handles
  PROVE  /\ IsFiniteSet(S)
         /\ Cardinality(S) \in Nat
         /\ Cardinality(S) = 0 <=> S = {}
  <1>1. IsFiniteSet(S)
    BY HandlesAssumption, FS_Subset
  <1> QED
    BY <1>1, FS_CardinalityType, FS_EmptySet

\* What a held token says, under the invariant.
LEMMA HeldToken ==
  ASSUME IInv, NEW h \in Handles, Held(h)
  PROVE  /\ tokens[h].id \in InstanceIds
         /\ tokens[h].id.index \in Indexes
         /\ slots[tokens[h].id.index] # Vacant
         /\ tokens[h].id = IdAt(tokens[h].id.index)
         /\ in_use[tokens[h].id.index] \in Nat \ {0}
  <1> DEFINE i == tokens[h].id.index
  <1>1. /\ tokens[h].id \in InstanceIds
        /\ i \in Indexes
    BY DEF IInv, TypeOK, Held, Tokens, InstanceIds
  <1>2. slots[i] = tokens[h].id /\ Resolves(tokens[h].id)
    BY <1>1 DEF IInv, NoDanglingToken
  <1>3. slots[i] # Vacant
    BY <1>1, <1>2, VacantAssumption
  <1>4. tokens[h].id = IdAt(i)
    BY <1>1, <1>2, <1>3 DEF IInv, OccupantIsCurrent
  <1>5. h \in HoldersOf(i) /\ HoldersOf(i) \in SUBSET Handles
    BY DEF HoldersOf
  <1>6. Cardinality(HoldersOf(i)) \in Nat \ {0}
    BY <1>5, HandleSets
  <1>7. in_use[i] \in Nat \ {0}
    BY <1>1, <1>6 DEF IInv, CountIsHolders
  <1> QED
    BY <1>1, <1>3, <1>4, <1>7

\* Returning a token keeps the counter equal to the number of holders.
LEMMA ReturnCounts ==
  ASSUME IInv, NEW h \in Handles, Held(h), ReturnToken(h),
         NEW i, i = tokens[h].id.index
  PROVE  /\ i \in Indexes
         /\ CountIsHolders'
         /\ in_use' \in [Indexes -> 0 .. MaxUse]
         /\ tokens' \in [Handles -> Tokens \cup {NoToken}]
         /\ in_use'[i] = in_use[i] - 1
         /\ \A j \in Indexes : j # i => in_use'[j] = in_use[j]
         /\ ~Held(h)'
         /\ \A g \in Handles : g # h => tokens'[g] = tokens[g]
  <1>1. i \in Indexes /\ in_use[i] \in Nat \ {0}
    BY HeldToken
  <1>2. /\ in_use' \in [Indexes -> 0 .. MaxUse]
        /\ in_use'[i] = in_use[i] - 1
        /\ \A j \in Indexes : j # i => in_use'[j] = in_use[j]
    BY <1>1, MaxUseAssumption DEF IInv, TypeOK, ReturnToken
  <1>3. /\ tokens' \in [Handles -> Tokens \cup {NoToken}]
        /\ tokens'[h] = NoToken
        /\ \A g \in Handles : g # h => tokens'[g] = tokens[g]
    BY DEF IInv, TypeOK, ReturnToken
  <1>4. HoldersOf(i)' = HoldersOf(i) \ {h}
    BY <1>3 DEF HoldersOf, Held
  <1>5. h \in HoldersOf(i) /\ IsFiniteSet(HoldersOf(i))
    BY HandleSets DEF HoldersOf
  <1>6. Cardinality(HoldersOf(i)') = Cardinality(HoldersOf(i)) - 1
    BY <1>4, <1>5, FS_RemoveElement
  <1>7. ASSUME NEW j \in Indexes, j # i
        PROVE  HoldersOf(j)' = HoldersOf(j)
    BY <1>3, <1>7 DEF HoldersOf, Held
  <1>8. ASSUME NEW j \in Indexes
        PROVE  in_use'[j] = Cardinality(HoldersOf(j)')
    <2>1. in_use[j] = Cardinality(HoldersOf(j))
      BY DEF IInv, CountIsHolders
    <2> QED
      BY <1>2, <1>6, <1>7, <2>1
  <1> QED
    BY <1>1, <1>2, <1>3, <1>8 DEF Held, CountIsHolders

-----------------------------------------------------------------------------
(* Releasing a slot *)

\* Reclaiming an occupied slot that has no holder left keeps the invariant,
\* whatever was returned or suspended in the same step.
LEMMA ReclaimStep ==
  ASSUME IInv, NEW i \in Indexes, slots[i] # Vacant, Reclaim(i), len' = len,
         CountIsHolders',
         in_use' \in [Indexes -> 0 .. MaxUse],
         tokens' \in [Handles -> Tokens \cup {NoToken}],
         in_use'[i] = 0,
         \A j \in Indexes : j # i => in_use'[j] = in_use[j],
         \A g \in Handles : Held(g)' => tokens'[g] = tokens[g],
         leases' \subseteq leases, \A g \in leases' : Held(g)',
         \A id \in freeing' : id \in freeing \/ id = IdAt(i)
  PROVE  IInv'
  <1>1. /\ Pushed(i)
        /\ generations[i] # MaxGen
        /\ generations[i] \in Generations
        /\ NextGeneration(i) = generations[i] + 1
    BY DEF IInv, OccupantIsCurrent, TypeOK, NextGeneration
  <1>2. /\ slots' = [slots EXCEPT ![i] = Vacant]
        /\ release_pending' = [release_pending EXCEPT ![i] = FALSE]
        /\ generations' = [generations EXCEPT ![i] = generations[i] + 1]
        /\ reusable' = IF generations[i] + 1 # MaxGen
                         THEN Append(reusable, i) ELSE reusable
    BY <1>1 DEF Reclaim, Retire
  <1>3. reusable \in Seq(Indexes)
    BY DEF IInv, TypeOK
  <1>4. ~InReusable(i)
    BY <1>3 DEF IInv, ReusableIsFree, InReusable
  <1>5. /\ reusable' \in Seq(Indexes)
        /\ \A k \in DOMAIN reusable' :
             \/ k \in DOMAIN reusable /\ reusable'[k] = reusable[k]
             \/ /\ k = Len(reusable) + 1
                /\ reusable'[k] = i
                /\ generations[i] + 1 # MaxGen
    BY <1>2, <1>3
  <1>6. TypeOK'
    <2>1. generations[i] + 1 \in Generations
      BY <1>1, MaxGenAssumption DEF Generations
    <2>2. freeing' \subseteq InstanceIds
      <3>1. IdAt(i) \in InstanceIds
        BY <1>1 DEF IdAt, InstanceIds, Generations
      <3> QED
        BY <3>1 DEF IInv, TypeOK
    <2> QED
      BY <1>2, <1>5, <2>1, <2>2 DEF IInv, TypeOK
  <1>7. OccupantIsCurrent'
    BY <1>2 DEF IInv, OccupantIsCurrent, Pushed, IdAt, TypeOK
  <1>8. NoDanglingToken'
    <2> SUFFICES ASSUME NEW g \in Handles, Held(g)'
                 PROVE  /\ slots'[tokens'[g].id.index] = tokens'[g].body
                        /\ tokens'[g].body = tokens'[g].id
                        /\ Resolves(tokens[g].id)'
      BY DEF NoDanglingToken
    <2>1. tokens'[g] = tokens[g] /\ Held(g)
      BY DEF Held
    <2>2. PICK j \in Indexes : j = tokens[g].id.index
      BY <2>1, HeldToken
    <2>3. g \in HoldersOf(j)'
      BY <2>1, <2>2 DEF HoldersOf
    <2>4. HoldersOf(i)' = {}
      <3>1. HoldersOf(i)' \in SUBSET Handles
        BY DEF HoldersOf
      <3>2. Cardinality(HoldersOf(i)') = 0
        BY DEF CountIsHolders
      <3> QED
        BY <3>1, <3>2, HandleSets
    <2>5. j # i
      BY <2>3, <2>4
    <2>6. slots'[j] = slots[j] /\ generations'[j] = generations[j]
      BY <1>2, <2>2, <2>5 DEF IInv, TypeOK
    <2>7. Resolves(tokens[g].id)'
      BY <2>1, <2>2, <2>6 DEF IInv, NoDanglingToken, Resolves, Pushed
    <2> QED
      BY <2>1, <2>2, <2>6, <2>7 DEF IInv, NoDanglingToken
  <1>9. PendingIsCounted'
    BY <1>2 DEF IInv, PendingIsCounted, TypeOK
  <1>10. ReusableIsFree'
    <2>1. ASSUME NEW k \in DOMAIN reusable'
          PROVE  /\ Pushed(reusable[k])'
                 /\ slots'[reusable'[k]] = Vacant
                 /\ generations'[reusable'[k]] # MaxGen
      <3>1. CASE k \in DOMAIN reusable /\ reusable'[k] = reusable[k]
        <4>1. reusable[k] \in Indexes /\ reusable[k] # i
          BY <1>3, <1>4, <3>1 DEF InReusable
        <4> QED
          BY <1>2, <3>1, <4>1 DEF IInv, ReusableIsFree, TypeOK, Pushed
      <3>2. CASE reusable'[k] = i /\ generations[i] + 1 # MaxGen
        BY <1>1, <1>2, <3>2 DEF IInv, TypeOK, Pushed
      <3> QED
        BY <1>5, <2>1, <3>1, <3>2
    <2>2. ASSUME NEW j \in DOMAIN reusable', NEW k \in DOMAIN reusable',
                 reusable'[j] = reusable'[k]
          PROVE  j = k
      BY <1>4, <1>5, <2>2 DEF IInv, ReusableIsFree, InReusable
    <2> QED
      BY <2>1, <2>2 DEF ReusableIsFree, Pushed
  <1>11. LeasesHoldTokens'
    BY DEF LeasesHoldTokens, Held
  <1>12. SuspendedDropIsOld'
    <2> SUFFICES ASSUME NEW id \in freeing'
                 PROVE  /\ id.world = Here
                        /\ Pushed(id.index)'
                        /\ id.generation < generations'[id.index]
      BY DEF SuspendedDropIsOld, Pushed
    <2>1. CASE id \in freeing
      BY <1>1, <1>2, <2>1
      DEF IInv, SuspendedDropIsOld, TypeOK, InstanceIds, Generations, Pushed
    <2>2. CASE id = IdAt(i)
      BY <1>1, <1>2, <2>2 DEF IdAt, IInv, TypeOK, Generations, Pushed
    <2> QED
      BY <2>1, <2>2
  <1> QED
    BY <1>6, <1>7, <1>8, <1>9, <1>10, <1>11, <1>12 DEF IInv

\* Returning a token whose slot keeps a holder, or had no release pending,
\* keeps the invariant; a release may become pending in the same step.
LEMMA ReturnStep ==
  ASSUME IInv, NEW h \in Handles, Held(h), ReturnToken(h),
         NEW i, i = tokens[h].id.index,
         UNCHANGED <<len, slots, generations, reusable, freeing>>,
         release_pending' \in [Indexes -> BOOLEAN],
         \A j \in Indexes : j # i => release_pending'[j] = release_pending[j],
         release_pending'[i] => in_use[i] # 1,
         leases' = leases \ {h}
  PROVE  IInv'
  <1>1. /\ i \in Indexes
        /\ CountIsHolders'
        /\ in_use' \in [Indexes -> 0 .. MaxUse]
        /\ tokens' \in [Handles -> Tokens \cup {NoToken}]
        /\ in_use'[i] = in_use[i] - 1
        /\ \A j \in Indexes : j # i => in_use'[j] = in_use[j]
        /\ tokens'[h] = NoToken
        /\ \A g \in Handles : g # h => tokens'[g] = tokens[g]
    BY ReturnCounts DEF Held
  <1>2. in_use[i] \in Nat \ {0}
    BY HeldToken
  <1>3. TypeOK'
    BY <1>1 DEF IInv, TypeOK
  <1>4. OccupantIsCurrent'
    BY DEF IInv, OccupantIsCurrent, Pushed, IdAt
  <1>5. NoDanglingToken'
    BY <1>1 DEF IInv, NoDanglingToken, Held, Resolves, Pushed
  <1>6. PendingIsCounted'
    BY <1>1, <1>2 DEF IInv, PendingIsCounted
  <1>7. ReusableIsFree'
    BY DEF IInv, ReusableIsFree, Pushed
  <1>8. LeasesHoldTokens'
    BY <1>1 DEF IInv, TypeOK, LeasesHoldTokens, Held
  <1>9. SuspendedDropIsOld'
    BY DEF IInv, SuspendedDropIsOld, Pushed
  <1> QED
    BY <1>1, <1>3, <1>4, <1>5, <1>6, <1>7, <1>8, <1>9 DEF IInv

\* Dropping a token or a lease whose token reclaims the slot.
LEMMA ReturnAndReclaim ==
  ASSUME IInv, NEW h \in Handles, Held(h), ReturnToken(h),
         NEW i, i = tokens[h].id.index, in_use[i] = 1,
         Reclaim(i), len' = len,
         leases' = leases \ {h},
         \A id \in freeing' : id \in freeing \/ id = tokens[h].id
  PROVE  IInv'
  <1>1. /\ i \in Indexes
        /\ CountIsHolders'
        /\ in_use' \in [Indexes -> 0 .. MaxUse]
        /\ tokens' \in [Handles -> Tokens \cup {NoToken}]
        /\ in_use'[i] = in_use[i] - 1
        /\ \A j \in Indexes : j # i => in_use'[j] = in_use[j]
        /\ tokens'[h] = NoToken
        /\ \A g \in Handles : g # h => tokens'[g] = tokens[g]
    BY ReturnCounts DEF Held
  <1>2. slots[i] # Vacant /\ tokens[h].id = IdAt(i)
    BY HeldToken
  <1>3. \A g \in Handles : Held(g)' => tokens'[g] = tokens[g]
    BY <1>1 DEF Held
  <1>4. leases' \subseteq leases /\ \A g \in leases' : Held(g)'
    BY <1>1 DEF IInv, TypeOK, LeasesHoldTokens, Held
  <1> QED
    BY <1>1, <1>2, <1>3, <1>4, ReclaimStep

\* InstanceToken::drop, as part of any action that drops a token.
LEMMA TokenDropStep ==
  ASSUME IInv, NEW h \in Handles, Held(h), TokenDrop(h),
         leases' = leases \ {h},
         \/ freeing' = freeing
         \/ /\ LastOfPending(tokens[h].id.index)
            /\ freeing' = freeing \cup {tokens[h].id}
  PROVE  IInv'
  <1>1. PICK i \in Indexes : i = tokens[h].id.index
    BY HeldToken
  <1>2. CASE LastOfPending(i)
    BY <1>1, <1>2, ReturnAndReclaim DEF TokenDrop, LastOfPending
  <1>3. CASE ~LastOfPending(i)
    <2>1. /\ ReturnToken(h)
          /\ UNCHANGED <<len, slots, generations, reusable, freeing>>
          /\ release_pending' = release_pending
      BY <1>1, <1>3 DEF TokenDrop
    <2>2. release_pending'[i] => in_use[i] # 1
      BY <1>3, <2>1 DEF LastOfPending
    <2> QED
      BY <1>1, <2>1, <2>2, ReturnStep DEF IInv, TypeOK
  <1> QED
    BY <1>2, <1>3

-----------------------------------------------------------------------------
(* The steps *)

LEMMA InitStep == Init => IInv
  <1> SUFFICES ASSUME Init PROVE IInv
    OBVIOUS
  <1>1. TypeOK
    BY MaxSlotsAssumption, MaxGenAssumption, MaxUseAssumption
    DEF Init, TypeOK, Generations
  <1>2. CountIsHolders
    <2> SUFFICES ASSUME NEW i \in Indexes
                 PROVE  in_use[i] = Cardinality(HoldersOf(i))
      BY DEF CountIsHolders
    <2>1. HoldersOf(i) = {}
      BY DEF Init, HoldersOf, Held
    <2> QED
      BY <2>1, FS_EmptySet DEF Init
  <1> QED
    BY <1>1, <1>2
    DEF Init, IInv, OccupantIsCurrent, NoDanglingToken, PendingIsCounted,
        ReusableIsFree, LeasesHoldTokens, SuspendedDropIsOld, Held

LEMMA ReserveReusedStep ==
  ASSUME IInv, ReserveReused
  PROVE  IInv'
  <1>1. PICK k \in DOMAIN reusable : reusable' = SubSeq(reusable, 1, k - 1)
    BY DEF ReserveReused, UsablePositions
  <1>2. reusable \in Seq(Indexes)
    BY DEF IInv, TypeOK
  <1>3. /\ reusable' \in Seq(Indexes)
        /\ \A j \in DOMAIN reusable' :
             j \in DOMAIN reusable /\ reusable'[j] = reusable[j]
    BY <1>1, <1>2
  <1>4. /\ UNCHANGED <<len, slots, generations, in_use, release_pending,
                       tokens, leases, freeing>>
    BY DEF ReserveReused
  <1>5. ReusableIsFree'
    BY <1>3, <1>4 DEF IInv, ReusableIsFree, Pushed
  <1> QED
    BY <1>3, <1>4, <1>5
    DEF IInv, TypeOK, OccupantIsCurrent, NoDanglingToken, CountIsHolders,
        HoldersOf, PendingIsCounted, LeasesHoldTokens, SuspendedDropIsOld,
        Held, Resolves, Pushed, IdAt

LEMMA ReservePushedStep ==
  ASSUME IInv, ReservePushed
  PROVE  IInv'
  <1>1. /\ len \in Indexes
        /\ len' = len + 1
        /\ len' \in 0 .. MaxSlots
    BY MaxSlotsAssumption DEF IInv, TypeOK, ReservePushed, Indexes
  <1>2. /\ reusable' = <<>>
        /\ slots' = [slots EXCEPT ![len] = Vacant]
        /\ generations' = [generations EXCEPT ![len] = 0]
        /\ in_use' = [in_use EXCEPT ![len] = 0]
        /\ release_pending' = [release_pending EXCEPT ![len] = FALSE]
        /\ UNCHANGED <<tokens, leases, freeing>>
    BY DEF ReservePushed
  <1>3. HoldersOf(len) = {}
    BY <1>1 DEF IInv, NoDanglingToken, Resolves, Pushed, HoldersOf, TypeOK
  <1>4. TypeOK'
    BY <1>1, <1>2, MaxGenAssumption, MaxUseAssumption
    DEF IInv, TypeOK, Generations
  <1>5. OccupantIsCurrent'
    BY <1>1, <1>2 DEF IInv, OccupantIsCurrent, TypeOK, Pushed, IdAt, Indexes
  <1>6. NoDanglingToken'
    <2> SUFFICES ASSUME NEW h \in Handles, Held(h)
                 PROVE  /\ slots'[tokens[h].id.index] = tokens[h].body
                        /\ tokens[h].body = tokens[h].id
                        /\ tokens[h].id.world = Here
                        /\ tokens[h].id.index < len'
                        /\ generations'[tokens[h].id.index] = tokens[h].id.generation
      BY <1>2 DEF NoDanglingToken, Held, Resolves, Pushed
    <2>1. tokens[h].id.index \in Indexes /\ tokens[h].id.index < len
      BY HeldToken DEF IInv, NoDanglingToken, Resolves, Pushed
    <2> QED
      BY <1>1, <1>2, <2>1 DEF IInv, NoDanglingToken, Resolves, Pushed, TypeOK, Indexes
  <1>7. CountIsHolders'
    <2> SUFFICES ASSUME NEW i \in Indexes
                 PROVE  in_use'[i] = Cardinality(HoldersOf(i)')
      BY DEF CountIsHolders
    <2>1. HoldersOf(i)' = HoldersOf(i)
      BY <1>2 DEF HoldersOf, Held
    <2> QED
      BY <1>1, <1>2, <1>3, <2>1, FS_EmptySet DEF IInv, CountIsHolders, TypeOK
  <1>8. PendingIsCounted'
    BY <1>1, <1>2 DEF IInv, PendingIsCounted, TypeOK
  <1>9. ReusableIsFree'
    BY <1>2 DEF ReusableIsFree
  <1>10. LeasesHoldTokens'
    BY <1>2 DEF IInv, LeasesHoldTokens, Held
  <1>11. SuspendedDropIsOld'
    BY <1>1, <1>2
    DEF IInv, SuspendedDropIsOld, TypeOK, InstanceIds, Indexes, Pushed
  <1> QED
    BY <1>4, <1>5, <1>6, <1>7, <1>8, <1>9, <1>10, <1>11 DEF IInv

\* An id the program holds that resolves to a vacant slot is a reservation.
LEMMA IssuedVacant ==
  ASSUME IInv, NEW id \in InstanceIds, Issued(id), Resolves(id),
         NEW i \in Indexes, i = id.index, slots[i] = Vacant
  PROVE  /\ Pushed(i)
         /\ id = IdAt(i)
         /\ generations[i] # MaxGen
         /\ ~InReusable(i)
  <1>1. ~(id.generation < generations[i]) /\ id.world # Elsewhere
    BY WorldAssumption DEF IInv, TypeOK, InstanceIds, Generations, Resolves
  <1>2. id = IdAt(i) /\ Reserved(i)
    BY <1>1 DEF Issued
  <1> QED
    BY <1>2 DEF Reserved

LEMMA AbandonStep ==
  ASSUME IInv, NEW id \in InstanceIds, Issued(id), Abandon(id)
  PROVE  IInv'
  <1>1. PICK i \in Indexes : i = id.index
    BY DEF InstanceIds
  <1>2. /\ slots[i] = Vacant
        /\ Pushed(i)
        /\ id = IdAt(i)
        /\ generations[i] # MaxGen
        /\ ~InReusable(i)
    BY <1>1, IssuedVacant DEF Abandon
  <1>3. /\ generations' = [generations EXCEPT ![i] = generations[i] + 1]
        /\ reusable' = IF generations[i] + 1 # MaxGen
                         THEN Append(reusable, i) ELSE reusable
        /\ UNCHANGED <<len, slots, in_use, release_pending, tokens, leases, freeing>>
    BY <1>1, <1>2 DEF Abandon, Retire, NextGeneration
  <1>4. reusable \in Seq(Indexes)
    BY DEF IInv, TypeOK
  <1>5. /\ reusable' \in Seq(Indexes)
        /\ \A k \in DOMAIN reusable' :
             \/ /\ k \in DOMAIN reusable
                /\ reusable'[k] = reusable[k]
                /\ reusable[k] # i
             \/ /\ k = Len(reusable) + 1
                /\ reusable'[k] = i
                /\ generations[i] + 1 # MaxGen
    BY <1>2, <1>3, <1>4 DEF InReusable
  <1>6. TypeOK'
    BY <1>2, <1>3, <1>5, MaxGenAssumption DEF IInv, TypeOK, Generations
  <1>7. OccupantIsCurrent'
    BY <1>2, <1>3 DEF IInv, OccupantIsCurrent, TypeOK, Pushed, IdAt
  <1>8. NoDanglingToken'
    <2> SUFFICES ASSUME NEW h \in Handles, Held(h)
                 PROVE  /\ slots[tokens[h].id.index] = tokens[h].body
                        /\ tokens[h].body = tokens[h].id
                        /\ tokens[h].id.world = Here
                        /\ tokens[h].id.index < len
                        /\ generations'[tokens[h].id.index] = tokens[h].id.generation
      BY <1>3 DEF NoDanglingToken, Held, Resolves, Pushed
    <2>1. tokens[h].id.index # i /\ tokens[h].id.index \in Indexes
      BY <1>2, HeldToken
    <2> QED
      BY <1>3, <2>1 DEF IInv, NoDanglingToken, Resolves, Pushed, TypeOK
  <1>9. CountIsHolders' /\ PendingIsCounted' /\ LeasesHoldTokens'
    BY <1>3 DEF IInv, CountIsHolders, HoldersOf, Held, PendingIsCounted, LeasesHoldTokens
  <1>10. ReusableIsFree'
    BY <1>2, <1>3, <1>5 DEF IInv, ReusableIsFree, TypeOK, Pushed
  <1>11. SuspendedDropIsOld'
    BY <1>2, <1>3
    DEF IInv, SuspendedDropIsOld, TypeOK, InstanceIds, Generations, Pushed
  <1> QED
    BY <1>6, <1>7, <1>8, <1>9, <1>10, <1>11 DEF IInv

LEMMA OccupyStep ==
  ASSUME IInv, NEW id \in InstanceIds, Issued(id), Occupy(id)
  PROVE  IInv'
  <1>1. PICK i \in Indexes : i = id.index
    BY DEF InstanceIds
  <1>2. /\ slots[i] = Vacant
        /\ Pushed(i)
        /\ id = IdAt(i)
        /\ generations[i] # MaxGen
        /\ ~InReusable(i)
    BY <1>1, IssuedVacant DEF Occupy
  <1>3. /\ slots' = [slots EXCEPT ![i] = id]
        /\ UNCHANGED <<len, generations, in_use, release_pending, reusable,
                       tokens, leases, freeing>>
    BY <1>1 DEF Occupy
  <1>4. TypeOK'
    BY <1>3 DEF IInv, TypeOK
  <1>5. OccupantIsCurrent'
    BY <1>2, <1>3 DEF IInv, OccupantIsCurrent, TypeOK, Pushed, IdAt
  <1>6. NoDanglingToken'
    <2> SUFFICES ASSUME NEW h \in Handles, Held(h)
                 PROVE  slots'[tokens[h].id.index] = slots[tokens[h].id.index]
      BY <1>3 DEF IInv, NoDanglingToken, Held, Resolves, Pushed
    <2>1. tokens[h].id.index # i /\ tokens[h].id.index \in Indexes
      BY <1>2, HeldToken
    <2> QED
      BY <1>3, <2>1 DEF IInv, TypeOK
  <1>7. ReusableIsFree'
    <2>1. \A k \in DOMAIN reusable : reusable[k] \in Indexes /\ reusable[k] # i
      BY <1>2 DEF InReusable, IInv, TypeOK
    <2> QED
      BY <1>3, <2>1 DEF IInv, ReusableIsFree, TypeOK, Pushed
  <1>8. /\ CountIsHolders' /\ PendingIsCounted' /\ LeasesHoldTokens'
        /\ SuspendedDropIsOld'
    BY <1>3
    DEF IInv, CountIsHolders, HoldersOf, Held, PendingIsCounted, LeasesHoldTokens,
        SuspendedDropIsOld, Pushed
  <1> QED
    BY <1>4, <1>5, <1>6, <1>7, <1>8 DEF IInv

LEMMA CheckoutStep ==
  ASSUME IInv, NEW h \in Handles, NEW id \in InstanceIds, Checkout(h, id),
         leases' \in {leases, leases \cup {h}}
  PROVE  IInv'
  <1>1. PICK i \in Indexes : i = id.index
    BY DEF InstanceIds
  <1>2. /\ slots[i] # Vacant
        /\ slots[i] = id
        /\ Resolves(id)
        /\ in_use[i] < MaxUse
        /\ ~Held(h)
    BY <1>1 DEF Checkout, IInv, OccupantIsCurrent, Resolves, IdAt, InstanceIds
  <1>3. /\ in_use' = [in_use EXCEPT ![i] = @ + 1]
        /\ tokens' = [tokens EXCEPT ![h] = [id |-> id, body |-> id]]
        /\ UNCHANGED <<tableVars, freeing>>
    BY <1>1, <1>2 DEF Checkout
  <1>4. /\ tokens' \in [Handles -> Tokens \cup {NoToken}]
        /\ tokens'[h] = [id |-> id, body |-> id]
        /\ \A g \in Handles : g # h => tokens'[g] = tokens[g]
        /\ Held(h)'
    <2>1. [id |-> id, body |-> id] \in Tokens
      BY DEF Tokens
    <2> QED
      BY <1>3, <2>1, NoTokenAssumption DEF IInv, TypeOK, Held
  <1>5. TypeOK'
    BY <1>2, <1>3, <1>4, MaxUseAssumption DEF IInv, TypeOK, tableVars
  <1>6. OccupantIsCurrent' /\ ReusableIsFree' /\ SuspendedDropIsOld'
    BY <1>3
    DEF IInv, OccupantIsCurrent, ReusableIsFree, SuspendedDropIsOld, tableVars, Pushed, IdAt
  <1>7. NoDanglingToken'
    BY <1>1, <1>2, <1>3, <1>4 DEF IInv, NoDanglingToken, Held, Resolves, Pushed, tableVars
  <1>8. CountIsHolders'
    <2>1. HoldersOf(i)' = HoldersOf(i) \cup {h}
      BY <1>1, <1>4 DEF HoldersOf, Held
    <2>2. h \notin HoldersOf(i) /\ IsFiniteSet(HoldersOf(i))
      BY <1>2, HandleSets DEF HoldersOf
    <2>3. Cardinality(HoldersOf(i)') = Cardinality(HoldersOf(i)) + 1
      BY <2>1, <2>2, FS_AddElement
    <2>4. ASSUME NEW j \in Indexes, j # i
          PROVE  HoldersOf(j)' = HoldersOf(j)
      BY <1>1, <1>2, <1>4, <2>4 DEF HoldersOf, Held
    <2>5. ASSUME NEW j \in Indexes
          PROVE  in_use'[j] = Cardinality(HoldersOf(j)')
      <3>1. in_use[j] = Cardinality(HoldersOf(j)) /\ in_use[j] \in 0 .. MaxUse
        BY DEF IInv, CountIsHolders, TypeOK
      <3> QED
        BY <1>3, <2>3, <2>4, <3>1 DEF IInv, TypeOK
    <2> QED
      BY <2>5 DEF CountIsHolders
  <1>9. PendingIsCounted'
    BY <1>2, <1>3, MaxUseAssumption DEF IInv, PendingIsCounted, TypeOK, tableVars
  <1>10. LeasesHoldTokens'
    BY <1>4 DEF IInv, TypeOK, LeasesHoldTokens, Held
  <1> QED
    BY <1>5, <1>6, <1>7, <1>8, <1>9, <1>10 DEF IInv

LEMMA DropTokenStep ==
  ASSUME IInv, NEW h \in Handles, DropToken(h)
  PROVE  IInv'
  <1>1. Held(h) /\ TokenDrop(h) /\ freeing' = freeing /\ leases' = leases \ {h}
    BY DEF DropToken
  <1> QED
    BY <1>1, TokenDropStep

LEMMA IntoOccupiedIdStep ==
  ASSUME IInv, NEW h \in Handles, IntoOccupiedId(h)
  PROVE  IInv'
  <1>1. Held(h) /\ TokenDrop(h) /\ freeing' = freeing /\ leases' = leases \ {h}
    BY DEF IntoOccupiedId, IInv, LeasesHoldTokens
  <1> QED
    BY <1>1, TokenDropStep

LEMMA DropLeasePendingStep ==
  ASSUME IInv, NEW h \in Handles, DropLeasePending(h)
  PROVE  IInv'
  <1>1. /\ Held(h) /\ TokenDrop(h) /\ leases' = leases \ {h}
        /\ LastOfPending(tokens[h].id.index)
        /\ freeing' = freeing \cup {tokens[h].id}
    BY DEF DropLeasePending, IInv, LeasesHoldTokens
  <1> QED
    BY <1>1, TokenDropStep

LEMMA DropLeaseInUseStep ==
  ASSUME IInv, NEW h \in Handles, DropLeaseInUse(h)
  PROVE  IInv'
  <1>1. Held(h)
    BY DEF DropLeaseInUse, IInv, LeasesHoldTokens
  <1>2. PICK i \in Indexes : i = tokens[h].id.index
    BY <1>1, HeldToken
  <1>3. /\ in_use[i] > 1
        /\ ReturnToken(h)
        /\ release_pending' = [release_pending EXCEPT ![i] = TRUE]
        /\ leases' = leases \ {h}
        /\ UNCHANGED <<len, slots, generations, reusable, freeing>>
    BY <1>2 DEF DropLeaseInUse
  <1>4. /\ release_pending' \in [Indexes -> BOOLEAN]
        /\ \A j \in Indexes : j # i => release_pending'[j] = release_pending[j]
    BY <1>3 DEF IInv, TypeOK
  <1>5. in_use[i] # 1
    BY <1>3
  <1> QED
    BY <1>1, <1>2, <1>3, <1>4, <1>5, ReturnStep

LEMMA DropLeaseLastStep ==
  ASSUME IInv, NEW h \in Handles, DropLeaseLast(h)
  PROVE  IInv'
  <1>1. /\ Held(h)
        /\ ReturnToken(h)
        /\ in_use[tokens[h].id.index] = 1
        /\ Reclaim(tokens[h].id.index)
        /\ len' = len
        /\ leases' = leases \ {h}
        /\ freeing' = freeing
    BY DEF DropLeaseLast, IInv, LeasesHoldTokens
  <1> QED
    BY <1>1, ReturnAndReclaim

LEMMA FreeReclaims ==
  ASSUME IInv, NEW id \in InstanceIds, CanFree(id), Reclaim(id.index),
         UNCHANGED <<len, in_use, tokens, leases>>,
         freeing' \subseteq freeing
  PROVE  IInv'
  <1>1. PICK i \in Indexes : i = id.index
    BY DEF InstanceIds
  <1>2. slots[i] # Vacant /\ in_use[i] = 0
    BY <1>1 DEF CanFree
  <1>3. CountIsHolders'
    BY DEF IInv, CountIsHolders, HoldersOf, Held
  <1>4. \A g \in leases' : Held(g)'
    BY DEF IInv, LeasesHoldTokens, Held
  <1> QED
    BY <1>1, <1>2, <1>3, <1>4, ReclaimStep DEF IInv, TypeOK

LEMMA FinishLeaseDropStep ==
  ASSUME IInv, NEW id \in InstanceIds, FinishLeaseDrop(id)
  PROVE  IInv'
  <1>1. ~Resolves(id)
    <2>1. generations[id.index] \in Nat /\ id.generation \in Nat
      BY DEF IInv, TypeOK, InstanceIds, Generations
    <2> QED
      BY <2>1 DEF FinishLeaseDrop, IInv, SuspendedDropIsOld, Resolves
  <1>2. /\ UNCHANGED <<len, slots, generations, in_use, release_pending,
                       reusable, tokens, leases>>
        /\ freeing' \subseteq freeing
    BY <1>1 DEF FinishLeaseDrop, CanFree
  <1> QED
    BY <1>2
    DEF IInv, TypeOK, OccupantIsCurrent, NoDanglingToken, CountIsHolders,
        HoldersOf, PendingIsCounted, ReusableIsFree, LeasesHoldTokens,
        SuspendedDropIsOld, Held, Resolves, Pushed, IdAt

LEMMA Inductive == IInv /\ [Next]_vars => IInv'
  <1> SUFFICES ASSUME IInv, [Next]_vars PROVE IInv'
    OBVIOUS
  <1>1. CASE ReserveReused
    BY <1>1, ReserveReusedStep
  <1>2. CASE ReservePushed
    BY <1>2, ReservePushedStep
  <1>3. CASE \E id \in InstanceIds : Issued(id) /\ Abandon(id)
    BY <1>3, AbandonStep
  <1>4. CASE \E id \in InstanceIds : Issued(id) /\ Occupy(id)
    BY <1>4, OccupyStep
  <1>5. CASE \E h \in Handles, id \in InstanceIds : Issued(id) /\ CheckoutToken(h, id)
    BY <1>5, CheckoutStep DEF CheckoutToken
  <1>6. CASE \E h \in Handles, id \in InstanceIds : Issued(id) /\ LeaseCheckout(h, id)
    BY <1>6, CheckoutStep DEF LeaseCheckout
  <1>7. CASE \E h \in Handles : DropToken(h)
    BY <1>7, DropTokenStep
  <1>8. CASE \E h \in Handles : IntoOccupiedId(h)
    BY <1>8, IntoOccupiedIdStep
  <1>9. CASE \E h \in Handles : DropLeaseInUse(h)
    BY <1>9, DropLeaseInUseStep
  <1>10. CASE \E h \in Handles : DropLeaseLast(h)
    BY <1>10, DropLeaseLastStep
  <1>11. CASE \E h \in Handles : DropLeasePending(h)
    BY <1>11, DropLeasePendingStep
  <1>12. CASE \E id \in InstanceIds : FinishLeaseDrop(id)
    BY <1>12, FinishLeaseDropStep
  <1>13. CASE \E id \in InstanceIds : Issued(id) /\ Free(id)
    BY <1>13, FreeReclaims DEF Free
  <1>14. CASE UNCHANGED vars
    BY <1>14
    DEF vars, IInv, TypeOK, OccupantIsCurrent, NoDanglingToken, CountIsHolders,
        HoldersOf, PendingIsCounted, ReusableIsFree, LeasesHoldTokens,
        SuspendedDropIsOld, Held, Resolves, Pushed, IdAt
  <1> QED
    BY <1>1, <1>2, <1>3, <1>4, <1>5, <1>6, <1>7, <1>8, <1>9, <1>10, <1>11,
       <1>12, <1>13, <1>14 DEF Next

\* The inductive invariant holds in every reachable state.
LEMMA Invariance == Spec => []IInv
  BY InitStep, Inductive, PTL DEF Spec

-----------------------------------------------------------------------------
(* The theorems *)

\* Every field of the table keeps its type: the generation saturates at the
\* retired value and the checkout count at its limit.
THEOREM TypeCorrect == Spec => []TypeOK
  <1>1. IInv => TypeOK
    BY DEF IInv
  <1> QED
    BY <1>1, Invariance, PTL

\* No token dangles and none is misdirected: the body a token points at is
\* still in its slot and is the instance the token's id names.
THEOREM TokenSafety == Spec => []NoDanglingToken
  <1>1. IInv => NoDanglingToken
    BY DEF IInv
  <1> QED
    BY <1>1, Invariance, PTL

\* The checkout counter is the number of tokens: no underflow, no lost count.
THEOREM CountCorrect == Spec => []CountIsHolders
  <1>1. IInv => CountIsHolders
    BY DEF IInv
  <1> QED
    BY <1>1, Invariance, PTL

\* A slot whose release was put off still has a token that will perform it.
THEOREM PendingReleaseHeld == Spec => []PendingIsHeld
  <1>1. IInv => PendingIsHeld
    <2> SUFFICES ASSUME IInv, NEW i \in Indexes, release_pending[i]
                 PROVE  HoldersOf(i) # {}
      BY DEF PendingIsHeld
    <2>1. Cardinality(HoldersOf(i)) # 0
      BY DEF IInv, PendingIsCounted, CountIsHolders
    <2> QED
      BY <2>1, FS_EmptySet
  <1> QED
    BY <1>1, Invariance, PTL

\* A slot offered for reuse is free and offered once.
THEOREM ReuseSafety == Spec => []ReusableIsFree
  <1>1. IInv => ReusableIsFree
    BY DEF IInv
  <1> QED
    BY <1>1, Invariance, PTL

\* A lease drop suspended in a destructor finds its id dead when it resumes.
THEOREM SuspendedDropSafety == Spec => []SuspendedDropIsDead
  <1>1. IInv => SuspendedDropIsDead
    <2> SUFFICES ASSUME IInv, NEW id \in freeing
                 PROVE  ~Resolves(id)
      BY DEF SuspendedDropIsDead
    <2>1. /\ generations[id.index] \in Nat
          /\ id.generation \in Nat
          /\ id.generation < generations[id.index]
      BY DEF IInv, TypeOK, InstanceIds, Generations, SuspendedDropIsOld
    <2> QED
      BY <2>1 DEF Resolves
  <1> QED
    BY <1>1, Invariance, PTL

-----------------------------------------------------------------------------
(* The refinement: every step of the table is a step of one id's life, or   *)
(* none.  First the status of a name, read off the slot.                     *)

\* The cases of StatusOf are exclusive and cover every name.
LEMMA StatusCases ==
  ASSUME IInv, NEW i \in Indexes, NEW g \in Generations
  PROVE  /\ ~Pushed(i) \/ g > generations[i] => StatusOf(i, g) = "unborn"
         /\ Pushed(i) /\ g < generations[i] => StatusOf(i, g) = "dead"
         /\ Pushed(i) /\ g = generations[i] /\ slots[i] # Vacant =>
              StatusOf(i, g) = IF release_pending[i] THEN "closing" ELSE "live"
         /\ Pushed(i) /\ g = generations[i] /\ slots[i] = Vacant =>
              StatusOf(i, g) = IF Reserved(i) THEN "reserved" ELSE "unborn"
  <1>1. generations[i] \in Nat /\ g \in Nat
    BY DEF IInv, TypeOK, Generations
  <1> QED
    BY <1>1 DEF StatusOf

\* The same facts in the next state.
LEMMA StatusCasesNext ==
  ASSUME IInv', NEW i \in Indexes, NEW g \in Generations
  PROVE  /\ ~Pushed(i)' \/ g > generations'[i] => StatusOf(i, g)' = "unborn"
         /\ Pushed(i)' /\ g < generations'[i] => StatusOf(i, g)' = "dead"
         /\ Pushed(i)' /\ g = generations'[i] /\ slots'[i] # Vacant =>
              StatusOf(i, g)' = IF release_pending'[i] THEN "closing" ELSE "live"
         /\ Pushed(i)' /\ g = generations'[i] /\ slots'[i] = Vacant =>
              StatusOf(i, g)' = IF Reserved(i)' THEN "reserved" ELSE "unborn"
  <1>1. generations'[i] \in Nat /\ g \in Nat
    BY DEF IInv, TypeOK, Generations
  <1> QED
    BY <1>1 DEF StatusOf

SlotFieldsUnchanged(j) ==
  /\ Pushed(j)' = Pushed(j)
  /\ slots'[j] = slots[j]
  /\ generations'[j] = generations[j]
  /\ release_pending'[j] = release_pending[j]
  /\ InReusable(j)' = InReusable(j)

\* A slot that a step leaves alone keeps the status of all its names.
LEMMA StatusFrame ==
  ASSUME NEW j, SlotFieldsUnchanged(j), NEW g
  PROVE  StatusOf(j, g)' = StatusOf(j, g)
  <1>1. Reserved(j)' = Reserved(j)
    BY DEF SlotFieldsUnchanged, Reserved
  <1> QED
    BY <1>1 DEF SlotFieldsUnchanged, StatusOf

\* A step that touches one slot i and moves only its current name moves the
\* view at that name.
LEMMA MoveOne ==
  ASSUME NEW i \in Indexes, NEW g \in Generations, NEW to,
         \A j \in Indexes : j # i => SlotFieldsUnchanged(j),
         \A f \in Generations : f # g => StatusOf(i, f)' = StatusOf(i, f),
         StatusOf(i, g)' = to
  PROVE  StatusView' = [StatusView EXCEPT ![[index |-> i, generation |-> g]] = to]
  <1> DEFINE n0 == [index |-> i, generation |-> g]
  <1>1. ASSUME NEW n \in Names, n # n0
        PROVE  StatusOf(n.index, n.generation)' = StatusOf(n.index, n.generation)
    <2>1. CASE n.index # i
      BY <2>1, StatusFrame DEF Names
    <2>2. CASE n.index = i
      <3>1. n.generation # g /\ n.generation \in Generations
        BY <1>1, <2>2 DEF Names
      <3> QED
        BY <2>2, <3>1
    <2> QED
      BY <2>1, <2>2
  <1>2. n0 \in Names
    BY DEF Names
  <1>3. ASSUME NEW n \in Names
        PROVE  StatusView'[n] = IF n = n0 THEN to ELSE StatusView[n]
    <2>1. StatusView'[n] = StatusOf(n.index, n.generation)'
      BY DEF StatusView
    <2>2. StatusView[n] = StatusOf(n.index, n.generation)
      BY DEF StatusView
    <2> QED
      BY <1>1, <2>1, <2>2
  <1>4. /\ StatusView' = [n \in Names |-> StatusView'[n]]
        /\ StatusView = [n \in Names |-> StatusView[n]]
    BY DEF StatusView
  <1> HIDE DEF n0
  <1>5. StatusView' = [StatusView EXCEPT ![n0] = to]
    BY <1>2, <1>3, <1>4
  <1> QED
    BY <1>5 DEF n0

\* A step that leaves every slot alone leaves the view alone.
LEMMA MoveNone ==
  ASSUME \A j \in Indexes : SlotFieldsUnchanged(j)
  PROVE  StatusView' = StatusView
  BY StatusFrame DEF StatusView, Names

-----------------------------------------------------------------------------
(* What each kind of step does to the view *)

\* Releasing or abandoning a slot ends its current name and brings no other
\* name into being.
LEMMA RetireMoves ==
  ASSUME IInv, IInv', NEW i \in Indexes, Retire(i), len' = len,
         NEW g, g = generations[i],
         Pushed(i), g # MaxGen, ~InReusable(i),
         slots'[i] = Vacant,
         \A j \in Indexes : j # i => slots'[j] = slots[j],
         \A j \in Indexes : j # i => release_pending'[j] = release_pending[j]
  PROVE  StatusView' =
           [StatusView EXCEPT ![[index |-> i, generation |-> g]] = "dead"]
  <1>1. /\ g \in Generations
        /\ generations' = [generations EXCEPT ![i] = g + 1]
        /\ reusable' = IF g + 1 # MaxGen
                         THEN Append(reusable, i) ELSE reusable
    BY DEF Retire, NextGeneration, IInv, TypeOK
  <1>2. /\ generations'[i] = g + 1
        /\ g \in Nat
        /\ \A j \in Indexes : j # i => generations'[j] = generations[j]
    BY <1>1 DEF IInv, TypeOK, Generations
  <1>3. reusable \in Seq(Indexes)
    BY DEF IInv, TypeOK
  <1>4. ASSUME NEW j \in Indexes, j # i
        PROVE  SlotFieldsUnchanged(j)
    <2>1. InReusable(j)' = InReusable(j)
      BY <1>1, <1>3, <1>4 DEF InReusable
    <2> QED
      BY <1>2, <1>4, <2>1 DEF SlotFieldsUnchanged, Pushed
  <1>5. Pushed(i)'
    BY DEF Pushed
  <1>6. StatusOf(i, g)' = "dead"
    BY <1>1, <1>2, <1>5, StatusCasesNext
  <1>7. ~Reserved(i)'
    <2>1. CASE g + 1 = MaxGen
      BY <1>2, <2>1 DEF Reserved
    <2>2. CASE g + 1 # MaxGen
      <3>1. InReusable(i)'
        BY <1>1, <1>3, <2>2 DEF InReusable
      <3> QED
        BY <3>1 DEF Reserved
    <2> QED
      BY <2>1, <2>2
  <1>8. ASSUME NEW f \in Generations, f # g
        PROVE  StatusOf(i, f)' = StatusOf(i, f)
    <2>1. f \in Nat
      BY DEF Generations
    <2>2. CASE f < g
      BY <1>2, <1>5, <2>1, <2>2, StatusCases, StatusCasesNext
    <2>3. CASE f > g
      <3>1. StatusOf(i, f) = "unborn"
        BY <2>3, StatusCases
      <3>2. CASE f > g + 1
        BY <1>2, <3>1, <3>2, StatusCasesNext
      <3>3. CASE f = g + 1
        BY <1>2, <1>5, <1>7, <3>1, <3>3, StatusCasesNext
      <3> QED
        BY <1>2, <2>1, <2>3, <3>2, <3>3
    <2> QED
      BY <1>2, <1>8, <2>1, <2>2, <2>3
  <1> QED
    BY <1>1, <1>4, <1>6, <1>8, MoveOne

\* The users a name has, read off the tokens.
LEMMA UsersOf ==
  ASSUME IInv, NEW h \in Handles, Held(h)
  PROVE  /\ NameOf(tokens[h].body) = NameOf(tokens[h].id)
         /\ NameOf(tokens[h].id) \in Names
         /\ \A n \in Names : h \in UsersView[n] <=> n = NameOf(tokens[h].body)
  <1>1. tokens[h].body = tokens[h].id /\ tokens[h].id \in InstanceIds
    BY HeldToken DEF IInv, NoDanglingToken
  <1>2. NameOf(tokens[h].id) \in Names
    BY <1>1 DEF InstanceIds, NameOf, Names
  <1> QED
    BY <1>1, <1>2 DEF UsersView

\* Returning a token removes its holder from the name it was on.
LEMMA ReturnUsers ==
  ASSUME IInv, NEW h \in Handles, Held(h), ReturnToken(h)
  PROVE  UsersView' = [UsersView EXCEPT ![NameOf(tokens[h].id)] = @ \ {h}]
  <1> DEFINE n0 == NameOf(tokens[h].id)
  <1>1. /\ tokens'[h] = NoToken
        /\ \A g \in Handles : g # h => tokens'[g] = tokens[g]
    BY ReturnCounts DEF Held
  <1>2. n0 \in Names /\ \A n \in Names : h \in UsersView[n] <=> n = n0
    BY UsersOf
  <1>3. ASSUME NEW n \in Names
        PROVE  UsersView'[n] = UsersView[n] \ {h}
    BY <1>1 DEF UsersView, Held
  <1>4. ASSUME NEW n \in Names
        PROVE  UsersView'[n] = IF n = n0 THEN UsersView[n] \ {h} ELSE UsersView[n]
    BY <1>2, <1>3
  <1>5. /\ UsersView' = [n \in Names |-> UsersView'[n]]
        /\ UsersView = [n \in Names |-> UsersView[n]]
    BY DEF UsersView
  <1> HIDE DEF n0
  <1>6. UsersView' = [UsersView EXCEPT ![n0] = @ \ {h}]
    BY <1>2, <1>4, <1>5
  <1> QED
    BY <1>6 DEF n0

\* The users of the current name of an occupied slot are the holders of the
\* slot, so the counter says how many there are.
LEMMA UsersAreHolders ==
  ASSUME IInv, NEW i \in Indexes, slots[i] # Vacant
  PROVE  /\ NameOf(IdAt(i)) \in Names
         /\ UsersView[NameOf(IdAt(i))] = HoldersOf(i)
  <1>1. NameOf(IdAt(i)) \in Names
    BY DEF IInv, TypeOK, NameOf, IdAt, Names
  <1>2. ASSUME NEW h \in Handles, Held(h)
        PROVE  NameOf(tokens[h].body) = NameOf(IdAt(i)) <=> tokens[h].id.index = i
    <2>1. tokens[h].id = IdAt(tokens[h].id.index) /\ tokens[h].body = tokens[h].id
      BY <1>2, HeldToken DEF IInv, NoDanglingToken
    <2> QED
      BY <2>1 DEF NameOf, IdAt
  <1> QED
    BY <1>1, <1>2 DEF UsersView, HoldersOf

\* A handle that holds the only token of a slot is the only user.
LEMMA OnlyHolder ==
  ASSUME IInv, NEW h \in Handles, Held(h), NEW i, i = tokens[h].id.index
  PROVE  /\ i \in Indexes /\ slots[i] # Vacant
         /\ tokens[h].id = IdAt(i)
         /\ NameOf(tokens[h].id) = [index |-> i, generation |-> generations[i]]
         /\ NameOf(tokens[h].id) \in Names
         /\ h \in UsersView[NameOf(tokens[h].id)]
         /\ UsersView[NameOf(tokens[h].id)] = {h} <=> in_use[i] = 1
  <1>1. i \in Indexes /\ slots[i] # Vacant /\ tokens[h].id = IdAt(i)
    BY HeldToken
  <1>2. /\ NameOf(tokens[h].id) \in Names
        /\ UsersView[NameOf(tokens[h].id)] = HoldersOf(i)
    BY <1>1, UsersAreHolders
  <1>3. h \in HoldersOf(i) /\ IsFiniteSet(HoldersOf(i))
    BY HandleSets DEF HoldersOf
  <1>4. in_use[i] = Cardinality(HoldersOf(i))
    BY <1>1 DEF IInv, CountIsHolders
  <1>5. HoldersOf(i) = {h} <=> Cardinality(HoldersOf(i)) = 1
    BY <1>3, FS_Singleton
  <1> QED
    BY <1>1, <1>2, <1>3, <1>4, <1>5 DEF NameOf, IdAt

\* A slot without a holder has no release pending.
LEMMA IdleIsNotPending ==
  ASSUME IInv, NEW i \in Indexes, slots[i] = Vacant
  PROVE  ~release_pending[i]
  <1>1. HoldersOf(i) = {}
    BY HeldToken DEF HoldersOf
  <1>2. in_use[i] = Cardinality(HoldersOf(i))
    BY DEF IInv, CountIsHolders
  <1>3. in_use[i] = 0
    BY <1>1, <1>2, FS_EmptySet
  <1> QED
    BY <1>3 DEF IInv, PendingIsCounted

LEMMA StatusType == ASSUME IInv PROVE StatusView \in [Names -> Lifecycle!Stages]
  <1>1. ASSUME NEW i \in Indexes, NEW g \in Generations
        PROVE  StatusOf(i, g) \in Lifecycle!Stages
    <2>1. g > generations[i] \/ g < generations[i] \/ g = generations[i]
      BY DEF IInv, TypeOK, Generations
    <2> QED
      BY <2>1, StatusCases DEF Lifecycle!Stages
  <1> QED
    BY <1>1 DEF StatusView, Names

-----------------------------------------------------------------------------
(* The steps of the table as steps of a life *)

LEMMA ReserveReusedLife ==
  ASSUME IInv, IInv', ReserveReused
  PROVE  \E n \in Names : Lifecycle!Reserve(n)
  <1>1. PICK k \in UsablePositions :
          /\ \A j \in UsablePositions : j <= k
          /\ reusable' = SubSeq(reusable, 1, k - 1)
    BY DEF ReserveReused
  <1>2. /\ reusable \in Seq(Indexes)
        /\ k \in DOMAIN reusable
        /\ \A j \in DOMAIN reusable : j \in UsablePositions
    BY <1>1 DEF IInv, TypeOK, UsablePositions, ReusableIsFree
  <1>3. k = Len(reusable)
    BY <1>1, <1>2
  <1>4. PICK i \in Indexes : i = reusable[k]
    BY <1>2
  <1>5. PICK g \in Generations : g = generations[i]
    BY DEF IInv, TypeOK
  <1>6. /\ Pushed(i) /\ slots[i] = Vacant /\ g # MaxGen /\ InReusable(i)
    BY <1>2, <1>4, <1>5 DEF IInv, ReusableIsFree, InReusable
  <1>7. UNCHANGED <<len, slots, generations, in_use, release_pending,
                    tokens, leases, freeing>>
    BY DEF ReserveReused
  <1>8. /\ reusable' \in Seq(Indexes)
        /\ \A j \in DOMAIN reusable' : j \in 1 .. k - 1 /\ reusable'[j] = reusable[j]
        /\ \A j \in 1 .. k - 1 : j \in DOMAIN reusable' /\ reusable'[j] = reusable[j]
    BY <1>1, <1>2, <1>3
  <1>9. ~InReusable(i)'
    BY <1>2, <1>3, <1>4, <1>8 DEF IInv, ReusableIsFree, InReusable
  <1>10. ASSUME NEW j \in Indexes, j # i
         PROVE  SlotFieldsUnchanged(j)
    <2>1. InReusable(j)' = InReusable(j)
      BY <1>2, <1>3, <1>4, <1>8, <1>10 DEF InReusable
    <2> QED
      BY <1>7, <2>1 DEF SlotFieldsUnchanged, Pushed
  <1>11. StatusOf(i, g) = "unborn"
    BY <1>5, <1>6, StatusCases DEF Reserved
  <1>12. StatusOf(i, g)' = "reserved"
    BY <1>5, <1>6, <1>7, <1>9, StatusCasesNext DEF Reserved, Pushed
  <1>13. ASSUME NEW f \in Generations, f # g
         PROVE  StatusOf(i, f)' = StatusOf(i, f)
    <2>1. f < g \/ f > g
      BY <1>5, <1>13 DEF Generations
    <2> QED
      BY <1>5, <1>6, <1>7, <2>1, StatusCases, StatusCasesNext DEF Pushed
  <1> DEFINE n0 == [index |-> i, generation |-> g]
  <1>14. n0 \in Names /\ StatusView[n0] = "unborn"
    BY <1>11 DEF Names, StatusView
  <1>15. StatusView' = [StatusView EXCEPT ![n0] = "reserved"]
    BY <1>10, <1>12, <1>13, MoveOne
  <1>16. UsersView' = UsersView
    BY <1>7 DEF UsersView, Held
  <1> HIDE DEF n0
  <1> QED
    BY <1>14, <1>15, <1>16 DEF Lifecycle!Reserve, Lifecycle!Move

LEMMA ReservePushedLife ==
  ASSUME IInv, IInv', ReservePushed
  PROVE  \E n \in Names : Lifecycle!Reserve(n)
  <1>1. PICK i \in Indexes : i = len
    BY MaxSlotsAssumption DEF IInv, TypeOK, ReservePushed, Indexes
  <1>2. /\ len' = len + 1
        /\ reusable' = <<>>
        /\ slots' = [slots EXCEPT ![i] = Vacant]
        /\ generations' = [generations EXCEPT ![i] = 0]
        /\ release_pending' = [release_pending EXCEPT ![i] = FALSE]
        /\ UNCHANGED tokens
    BY <1>1 DEF ReservePushed
  <1>3. \A j \in Indexes : ~InReusable(j) /\ ~InReusable(j)'
    BY <1>2 DEF ReservePushed, UsablePositions, IInv, ReusableIsFree, InReusable
  <1>4. 0 \in Generations /\ 0 # MaxGen
    BY MaxGenAssumption DEF Generations
  <1>5. ASSUME NEW j \in Indexes, j # i
        PROVE  SlotFieldsUnchanged(j)
    <2>1. /\ slots'[j] = slots[j]
          /\ generations'[j] = generations[j]
          /\ release_pending'[j] = release_pending[j]
      BY <1>2, <1>5 DEF IInv, TypeOK
    <2>2. j \in Nat /\ len \in Nat /\ j # len
      BY <1>1, <1>5 DEF Indexes
    <2>3. Pushed(j)' = Pushed(j)
      BY <1>2, <2>2 DEF Pushed
    <2>4. InReusable(j)' = InReusable(j)
      BY <1>3 DEF InReusable
    <2> QED
      BY <2>1, <2>3, <2>4 DEF SlotFieldsUnchanged
  <1>6. ~Pushed(i) /\ Pushed(i)'
    BY <1>1, <1>2 DEF Pushed, Indexes
  <1>7. slots'[i] = Vacant /\ generations'[i] = 0
    BY <1>2 DEF IInv, TypeOK
  <1>8. StatusOf(i, 0) = "unborn"
    BY <1>4, <1>6, StatusCases
  <1>9. StatusOf(i, 0)' = "reserved"
    <2>1. Reserved(i)'
      BY <1>3, <1>4, <1>6, <1>7 DEF Reserved
    <2> QED
      BY <1>4, <1>6, <1>7, <2>1, StatusCasesNext
  <1>10. ASSUME NEW f \in Generations, f # 0
         PROVE  StatusOf(i, f)' = StatusOf(i, f)
    <2>1. f > 0
      BY <1>10 DEF Generations
    <2> QED
      BY <1>6, <1>7, <2>1, StatusCases, StatusCasesNext
  <1> DEFINE n0 == [index |-> i, generation |-> 0]
  <1>11. n0 \in Names /\ StatusView[n0] = "unborn"
    BY <1>4, <1>8 DEF Names, StatusView
  <1>12. StatusView' = [StatusView EXCEPT ![n0] = "reserved"]
    BY <1>4, <1>5, <1>9, <1>10, MoveOne
  <1>13. UsersView' = UsersView
    BY <1>2 DEF UsersView, Held
  <1> HIDE DEF n0
  <1> QED
    BY <1>11, <1>12, <1>13 DEF Lifecycle!Reserve, Lifecycle!Move

LEMMA AbandonLife ==
  ASSUME IInv, IInv', NEW id \in InstanceIds, Issued(id), Abandon(id)
  PROVE  \E n \in Names : Lifecycle!Abandon(n)
  <1>1. PICK i \in Indexes : i = id.index
    BY DEF InstanceIds
  <1>2. PICK g \in Generations : g = generations[i]
    BY DEF IInv, TypeOK
  <1>3. /\ slots[i] = Vacant /\ Pushed(i) /\ g # MaxGen /\ ~InReusable(i)
    BY <1>1, <1>2, IssuedVacant DEF Abandon
  <1>4. /\ Retire(i)
        /\ UNCHANGED <<len, slots, release_pending, tokens>>
    BY <1>1 DEF Abandon
  <1> DEFINE n0 == [index |-> i, generation |-> g]
  <1>5. n0 \in Names /\ StatusView[n0] = "reserved"
    BY <1>2, <1>3, StatusCases DEF Names, StatusView, Reserved
  <1>6. StatusView' = [StatusView EXCEPT ![n0] = "dead"]
    BY <1>2, <1>3, <1>4, RetireMoves
  <1>7. UsersView' = UsersView
    BY <1>4 DEF UsersView, Held
  <1> HIDE DEF n0
  <1> QED
    BY <1>5, <1>6, <1>7 DEF Lifecycle!Abandon, Lifecycle!Move

LEMMA OccupyLife ==
  ASSUME IInv, IInv', NEW id \in InstanceIds, Issued(id), Occupy(id)
  PROVE  \E n \in Names : Lifecycle!Occupy(n)
  <1>1. PICK i \in Indexes : i = id.index
    BY DEF InstanceIds
  <1>2. PICK g \in Generations : g = generations[i]
    BY DEF IInv, TypeOK
  <1>3. /\ slots[i] = Vacant /\ Pushed(i) /\ g # MaxGen /\ ~InReusable(i)
    BY <1>1, <1>2, IssuedVacant DEF Occupy
  <1>4. /\ slots' = [slots EXCEPT ![i] = id]
        /\ UNCHANGED <<len, generations, reusable, release_pending, tokens>>
    BY <1>1 DEF Occupy
  <1>5. slots'[i] # Vacant
    BY <1>4, VacantAssumption DEF IInv, TypeOK
  <1>6. ~release_pending[i]
    BY <1>3, IdleIsNotPending
  <1>7. ASSUME NEW j \in Indexes, j # i
        PROVE  SlotFieldsUnchanged(j)
    BY <1>4, <1>7 DEF SlotFieldsUnchanged, InReusable, Pushed, IInv, TypeOK
  <1>8. StatusOf(i, g)' = "live"
    BY <1>2, <1>3, <1>4, <1>5, <1>6, StatusCasesNext DEF Pushed
  <1>9. ASSUME NEW f \in Generations, f # g
        PROVE  StatusOf(i, f)' = StatusOf(i, f)
    <2>1. f < g \/ f > g
      BY <1>2, <1>9 DEF Generations
    <2> QED
      BY <1>2, <1>3, <1>4, <2>1, StatusCases, StatusCasesNext DEF Pushed
  <1> DEFINE n0 == [index |-> i, generation |-> g]
  <1>10. n0 \in Names /\ StatusView[n0] = "reserved"
    BY <1>2, <1>3, StatusCases DEF Names, StatusView, Reserved
  <1>11. StatusView' = [StatusView EXCEPT ![n0] = "live"]
    BY <1>7, <1>8, <1>9, MoveOne
  <1>12. UsersView' = UsersView
    BY <1>4 DEF UsersView, Held
  <1> HIDE DEF n0
  <1> QED
    BY <1>10, <1>11, <1>12 DEF Lifecycle!Occupy, Lifecycle!Move

LEMMA CheckoutLife ==
  ASSUME IInv, IInv', NEW h \in Handles, NEW id \in InstanceIds, Checkout(h, id)
  PROVE  \E n \in Names : Lifecycle!Acquire(h, n)
  <1>1. PICK i \in Indexes : i = id.index
    BY DEF InstanceIds
  <1>2. /\ slots[i] = id /\ slots[i] # Vacant /\ id = IdAt(i) /\ Pushed(i)
        /\ ~Held(h)
    BY <1>1 DEF Checkout, Resolves, IInv, OccupantIsCurrent, InstanceIds, IdAt
  <1>3. /\ tokens' = [tokens EXCEPT ![h] = [id |-> id, body |-> id]]
        /\ UNCHANGED tableVars
    BY <1>1, <1>2 DEF Checkout
  <1>4. /\ tokens'[h] = [id |-> id, body |-> id]
        /\ tokens'[h].body = id
        /\ Held(h)'
        /\ \A g \in Handles : g # h => tokens'[g] = tokens[g]
    <2>1. [id |-> id, body |-> id] \in Tokens
      BY DEF Tokens
    <2> QED
      BY <1>3, <2>1, NoTokenAssumption DEF IInv, TypeOK, Held
  <1> DEFINE n0 == NameOf(id)
  <1>5. n0 \in Names
    BY DEF NameOf, Names, InstanceIds
  <1>6. StatusView[n0] \in {"live", "closing"}
    <2>1. generations[i] \in Generations /\ n0 = [index |-> i, generation |-> generations[i]]
      BY <1>2 DEF IInv, TypeOK, NameOf, IdAt
    <2>2. StatusView[n0] = StatusOf(i, generations[i])
      BY <1>5, <2>1 DEF StatusView
    <2> QED
      BY <1>2, <2>1, <2>2, StatusCases
  <1>7. StatusView' = StatusView
    <2>1. \A j \in Indexes : SlotFieldsUnchanged(j)
      BY <1>3 DEF tableVars, SlotFieldsUnchanged, Pushed, InReusable
    <2> QED
      BY <2>1, MoveNone
  <1>8. \A m \in Names : h \notin UsersView[m]
    BY <1>2 DEF UsersView
  <1>9. ASSUME NEW n \in Names
        PROVE  UsersView'[n] = IF n = n0 THEN UsersView[n] \cup {h} ELSE UsersView[n]
    <2>1. UsersView'[n] = {g \in Handles : Held(g)' /\ NameOf(tokens'[g].body) = n}
      BY DEF UsersView, NameOf
    <2>2. UsersView[n] = {g \in Handles : Held(g) /\ NameOf(tokens[g].body) = n}
      BY DEF UsersView
    <2>3. NameOf(tokens'[h].body) = n0
      BY <1>4
    <2>4. \A g \in Handles : g # h => (Held(g)' <=> Held(g)) /\ tokens'[g].body = tokens[g].body
      BY <1>4 DEF Held
    <2>5. h \in UsersView'[n] <=> n = n0
      BY <1>4, <2>1, <2>3
    <2>6. \A g \in Handles : g # h => (g \in UsersView'[n] <=> g \in UsersView[n])
      BY <2>1, <2>2, <2>4
    <2>7. h \notin UsersView[n] /\ UsersView[n] \subseteq Handles
          /\ UsersView'[n] \subseteq Handles
      BY <1>8, <2>1, <2>2
    <2> QED
      BY <2>5, <2>6, <2>7
  <1>10. /\ UsersView' = [n \in Names |-> UsersView'[n]]
         /\ UsersView = [n \in Names |-> UsersView[n]]
    BY DEF UsersView
  <1> HIDE DEF n0
  <1>11. UsersView' = [UsersView EXCEPT ![n0] = @ \cup {h}]
    BY <1>5, <1>9, <1>10
  <1> QED
    BY <1>5, <1>6, <1>7, <1>8, <1>11 DEF Lifecycle!Acquire

\* A drop that leaves the slot occupied and its release as it was.
LEMMA LeaveLife ==
  ASSUME IInv, IInv', NEW h \in Handles, Held(h), ReturnToken(h),
         ~LastOfPending(tokens[h].id.index),
         UNCHANGED <<len, slots, generations, release_pending, reusable>>
  PROVE  \E n \in Names : Lifecycle!Leave(h, n)
  <1>1. PICK i \in Indexes : i = tokens[h].id.index
    BY HeldToken
  <1>2. PICK n0 \in Names : n0 = NameOf(tokens[h].id)
    BY <1>1, OnlyHolder
  <1>3. /\ n0 = [index |-> i, generation |-> generations[i]]
        /\ slots[i] # Vacant /\ Pushed(i) /\ generations[i] \in Generations
        /\ h \in UsersView[n0]
        /\ UsersView[n0] = {h} <=> in_use[i] = 1
    BY <1>1, <1>2, OnlyHolder DEF IInv, OccupantIsCurrent, TypeOK
  <1>4. UsersView' = [UsersView EXCEPT ![n0] = @ \ {h}]
    BY <1>2, ReturnUsers
  <1>5. StatusView' = StatusView
    <2>1. \A j \in Indexes : SlotFieldsUnchanged(j)
      BY DEF SlotFieldsUnchanged, Pushed, InReusable
    <2> QED
      BY <2>1, MoveNone
  <1>6. ~(StatusView[n0] = "closing" /\ UsersView[n0] = {h})
    <2>1. StatusView[n0] = IF release_pending[i] THEN "closing" ELSE "live"
      <3>1. StatusView[n0] = StatusOf(i, generations[i])
        BY <1>3 DEF StatusView
      <3> QED
        BY <1>3, <3>1, StatusCases
    <2> QED
      BY <1>1, <1>3, <2>1 DEF LastOfPending
  <1>7. StatusView' = [StatusView EXCEPT ![n0] =
                         IF @ = "closing" /\ UsersView[n0] = {h} THEN "dead" ELSE @]
    BY <1>5, <1>6, StatusType
  <1> QED
    BY <1>3, <1>4, <1>7 DEF Lifecycle!Leave

\* A drop that reclaims: the name dies with its last user.
LEMMA ReclaimLife ==
  ASSUME IInv, IInv', NEW h \in Handles, Held(h), ReturnToken(h),
         in_use[tokens[h].id.index] = 1, Reclaim(tokens[h].id.index), len' = len
  PROVE  /\ \E n \in Names : Lifecycle!DropOwner(h, n)
         /\ release_pending[tokens[h].id.index] =>
              \E n \in Names : Lifecycle!Leave(h, n)
  <1>1. PICK i \in Indexes : i = tokens[h].id.index
    BY HeldToken
  <1>2. PICK n0 \in Names : n0 = NameOf(tokens[h].id)
    BY <1>1, OnlyHolder
  <1>3. PICK g \in Generations : g = generations[i]
    BY DEF IInv, TypeOK
  <1>4. /\ n0 = [index |-> i, generation |-> g]
        /\ slots[i] # Vacant /\ Pushed(i) /\ g # MaxGen
        /\ h \in UsersView[n0]
        /\ UsersView[n0] = {h}
    BY <1>1, <1>2, <1>3, OnlyHolder DEF IInv, OccupantIsCurrent
  <1>5. UsersView' = [UsersView EXCEPT ![n0] = @ \ {h}]
    BY <1>2, ReturnUsers
  <1>6. /\ Retire(i)
        /\ slots' = [slots EXCEPT ![i] = Vacant]
        /\ release_pending' = [release_pending EXCEPT ![i] = FALSE]
    BY <1>1 DEF Reclaim
  <1>7. ~InReusable(i)
    BY <1>4 DEF IInv, ReusableIsFree, InReusable
  <1>8. StatusView' = [StatusView EXCEPT ![n0] = "dead"]
    <2>1. /\ slots'[i] = Vacant
          /\ \A j \in Indexes : j # i => slots'[j] = slots[j]
          /\ \A j \in Indexes : j # i => release_pending'[j] = release_pending[j]
      BY <1>6 DEF IInv, TypeOK
    <2> QED
      BY <1>3, <1>4, <1>6, <1>7, <2>1, RetireMoves
  <1>9. Lifecycle!DropOwner(h, n0)
    BY <1>4, <1>5, <1>8, StatusType DEF Lifecycle!DropOwner
  <1>10. ASSUME release_pending[i]
         PROVE  Lifecycle!Leave(h, n0)
    <2>1. StatusView[n0] = "closing"
      <3>1. StatusView[n0] = StatusOf(i, g)
        BY <1>4 DEF StatusView
      <3> QED
        BY <1>3, <1>4, <1>10, <3>1, StatusCases
    <2> QED
      BY <1>4, <1>5, <1>8, <2>1, StatusType DEF Lifecycle!Leave
  <1> QED
    BY <1>1, <1>9, <1>10

LEMMA TokenDropLife ==
  ASSUME IInv, IInv', NEW h \in Handles, Held(h), TokenDrop(h)
  PROVE  \E n \in Names : Lifecycle!Leave(h, n)
  <1>1. PICK i \in Indexes : i = tokens[h].id.index
    BY HeldToken
  <1>2. CASE LastOfPending(i)
    BY <1>1, <1>2, ReclaimLife DEF TokenDrop, LastOfPending
  <1>3. CASE ~LastOfPending(i)
    BY <1>1, <1>3, LeaveLife DEF TokenDrop
  <1> QED
    BY <1>2, <1>3

LEMMA DropLeaseInUseLife ==
  ASSUME IInv, IInv', NEW h \in Handles, DropLeaseInUse(h)
  PROVE  \E n \in Names : Lifecycle!DropOwner(h, n)
  <1>1. Held(h)
    BY DEF DropLeaseInUse, IInv, LeasesHoldTokens
  <1>2. PICK i \in Indexes : i = tokens[h].id.index
    BY <1>1, HeldToken
  <1>3. PICK n0 \in Names : n0 = NameOf(tokens[h].id)
    BY <1>1, <1>2, OnlyHolder
  <1>4. PICK g \in Generations : g = generations[i]
    BY DEF IInv, TypeOK
  <1>5. /\ in_use[i] > 1
        /\ ReturnToken(h)
        /\ release_pending' = [release_pending EXCEPT ![i] = TRUE]
        /\ UNCHANGED <<len, slots, generations, reusable>>
    BY <1>2 DEF DropLeaseInUse
  <1>6. /\ n0 = [index |-> i, generation |-> g]
        /\ slots[i] # Vacant /\ Pushed(i)
        /\ h \in UsersView[n0]
        /\ UsersView[n0] # {h}
    BY <1>1, <1>2, <1>3, <1>4, <1>5, OnlyHolder DEF IInv, OccupantIsCurrent
  <1>7. UsersView' = [UsersView EXCEPT ![n0] = @ \ {h}]
    BY <1>1, <1>3, <1>5, ReturnUsers
  <1>8. StatusView' = [StatusView EXCEPT ![n0] = "closing"]
    <2>1. ASSUME NEW j \in Indexes, j # i
          PROVE  SlotFieldsUnchanged(j)
      BY <1>5, <2>1 DEF SlotFieldsUnchanged, InReusable, Pushed, IInv, TypeOK
    <2>2. Pushed(i)' /\ generations'[i] = g /\ slots'[i] # Vacant /\ release_pending'[i]
      BY <1>4, <1>5, <1>6 DEF Pushed, IInv, TypeOK
    <2>3. StatusOf(i, g)' = "closing"
      BY <2>2, StatusCasesNext
    <2>4. ASSUME NEW f \in Generations, f # g
          PROVE  StatusOf(i, f)' = StatusOf(i, f)
      <3>1. f < g \/ f > g
        BY <1>4, <2>4 DEF Generations
      <3> QED
        BY <1>4, <1>6, <2>2, <3>1, StatusCases, StatusCasesNext
    <2> QED
      BY <1>6, <2>1, <2>3, <2>4, MoveOne
  <1> QED
    BY <1>6, <1>7, <1>8, StatusType DEF Lifecycle!DropOwner

LEMMA FreeLife ==
  ASSUME IInv, IInv', NEW id \in InstanceIds, Free(id)
  PROVE  \E n \in Names : Lifecycle!Free(n)
  <1>1. PICK i \in Indexes : i = id.index
    BY DEF InstanceIds
  <1>2. PICK g \in Generations : g = generations[i]
    BY DEF IInv, TypeOK
  <1>3. /\ slots[i] # Vacant /\ in_use[i] = 0
        /\ Reclaim(i)
        /\ UNCHANGED <<len, tokens>>
    BY <1>1 DEF Free, CanFree
  <1>4. Pushed(i) /\ g # MaxGen /\ ~InReusable(i) /\ ~release_pending[i]
    BY <1>2, <1>3
    DEF IInv, OccupantIsCurrent, PendingIsCounted, ReusableIsFree, InReusable
  <1> DEFINE n0 == [index |-> i, generation |-> g]
  <1>5. n0 \in Names /\ StatusView[n0] = "live"
    BY <1>2, <1>3, <1>4, StatusCases DEF Names, StatusView
  <1>6. UsersView[n0] = {}
    <2>1. UsersView[n0] = HoldersOf(i)
      BY <1>2, <1>3, UsersAreHolders DEF NameOf, IdAt
    <2>2. HoldersOf(i) \in SUBSET Handles /\ Cardinality(HoldersOf(i)) = 0
      BY <1>3 DEF HoldersOf, IInv, CountIsHolders
    <2> QED
      BY <2>1, <2>2, HandleSets
  <1>7. StatusView' = [StatusView EXCEPT ![n0] = "dead"]
    <2>1. /\ Retire(i)
          /\ slots'[i] = Vacant
          /\ \A j \in Indexes : j # i => slots'[j] = slots[j]
          /\ \A j \in Indexes : j # i => release_pending'[j] = release_pending[j]
      BY <1>3 DEF Reclaim, IInv, TypeOK
    <2> QED
      BY <1>2, <1>3, <1>4, <2>1, RetireMoves
  <1>8. UsersView' = UsersView
    BY <1>3 DEF UsersView, Held
  <1> HIDE DEF n0
  <1> QED
    BY <1>5, <1>6, <1>7, <1>8 DEF Lifecycle!Free, Lifecycle!Move

\* A step that leaves the slots and the tokens alone leaves every life alone.
LEMMA QuietLife ==
  ASSUME UNCHANGED <<len, slots, generations, release_pending, reusable, tokens>>
  PROVE  UNCHANGED Lifecycle!vars
  <1>1. \A j \in Indexes : SlotFieldsUnchanged(j)
    BY DEF SlotFieldsUnchanged, Pushed, InReusable
  <1>2. UsersView' = UsersView
    BY DEF UsersView, Held
  <1> QED
    BY <1>1, <1>2, MoveNone DEF Lifecycle!vars

LEMMA FinishLeaseDropLife ==
  ASSUME IInv, NEW id \in InstanceIds, FinishLeaseDrop(id)
  PROVE  UNCHANGED Lifecycle!vars
  <1>1. ~Resolves(id)
    <2>1. generations[id.index] \in Nat /\ id.generation \in Nat
      BY DEF IInv, TypeOK, InstanceIds, Generations
    <2> QED
      BY <2>1 DEF FinishLeaseDrop, IInv, SuspendedDropIsOld, Resolves
  <1>2. UNCHANGED <<len, slots, generations, release_pending, reusable, tokens>>
    BY <1>1 DEF FinishLeaseDrop, CanFree
  <1> QED
    BY <1>2, QuietLife

LEMMA InitLife == Init => Lifecycle!Init
  <1> SUFFICES ASSUME Init PROVE Lifecycle!Init
    OBVIOUS
  <1>1. \A n \in Names : ~Pushed(n.index)
    BY DEF Init, Names, Indexes, Pushed
  <1>2. StatusView = [n \in Names |-> "unborn"]
    <2>1. ASSUME NEW n \in Names PROVE StatusOf(n.index, n.generation) = "unborn"
      BY InitStep, <1>1, StatusCases DEF Names
    <2> QED
      BY <2>1 DEF StatusView
  <1>3. UsersView = [n \in Names |-> {}]
    BY DEF Init, UsersView, Held
  <1> QED
    BY <1>2, <1>3 DEF Lifecycle!Init

LEMMA StepLife == IInv /\ IInv' /\ [Next]_vars => [Lifecycle!Next]_(Lifecycle!vars)
  <1> SUFFICES ASSUME IInv, IInv', [Next]_vars
               PROVE  Lifecycle!Next \/ UNCHANGED Lifecycle!vars
    OBVIOUS
  <1>1. CASE ReserveReused
    BY <1>1, ReserveReusedLife DEF Lifecycle!Next
  <1>2. CASE ReservePushed
    BY <1>2, ReservePushedLife DEF Lifecycle!Next
  <1>3. CASE \E id \in InstanceIds : Issued(id) /\ Abandon(id)
    BY <1>3, AbandonLife DEF Lifecycle!Next
  <1>4. CASE \E id \in InstanceIds : Issued(id) /\ Occupy(id)
    BY <1>4, OccupyLife DEF Lifecycle!Next
  <1>5. CASE \E h \in Handles, id \in InstanceIds : Checkout(h, id)
    BY <1>5, CheckoutLife DEF Lifecycle!Next
  <1>6. CASE \E h \in Handles : DropToken(h)
    BY <1>6, TokenDropLife DEF DropToken, Lifecycle!Next
  <1>7. CASE \E h \in Handles : IntoOccupiedId(h)
    BY <1>7, TokenDropLife DEF IntoOccupiedId, IInv, LeasesHoldTokens, Lifecycle!Next
  <1>8. CASE \E h \in Handles : DropLeaseInUse(h)
    BY <1>8, DropLeaseInUseLife DEF Lifecycle!Next
  <1>9. CASE \E h \in Handles : DropLeaseLast(h)
    BY <1>9, ReclaimLife DEF DropLeaseLast, IInv, LeasesHoldTokens, Lifecycle!Next
  <1>10. CASE \E h \in Handles : DropLeasePending(h)
    BY <1>10, TokenDropLife DEF DropLeasePending, IInv, LeasesHoldTokens, Lifecycle!Next
  <1>11. CASE \E id \in InstanceIds : FinishLeaseDrop(id)
    BY <1>11, FinishLeaseDropLife
  <1>12. CASE \E id \in InstanceIds : Issued(id) /\ Free(id)
    BY <1>12, FreeLife DEF Lifecycle!Next
  <1>13. CASE UNCHANGED vars
    BY <1>13, QuietLife DEF vars
  <1> QED
    BY <1>1, <1>2, <1>3, <1>4, <1>5, <1>6, <1>7, <1>8, <1>9, <1>10, <1>11,
       <1>12, <1>13 DEF Next, CheckoutToken, LeaseCheckout

\* The table implements the life of an id: reserved once, occupied once, dead
\* only when nobody holds it, and never again.
THEOREM ImplementsLifecycle == Spec => LifecycleSpec
  BY InitLife, StepLife, Invariance, PTL DEF Spec, LifecycleSpec, Lifecycle!Spec

-----------------------------------------------------------------------------
(* What the life of an id promises its clients, proved of InstanceLifecycle *)
(* and carried over to the table by the refinement.                         *)

\* Only an instance that lives, or is about to die, is held by somebody.
UsersAreOfLive ==
  \A n \in Names : UsersView[n] # {} => StatusView[n] \in {"live", "closing"}

LifeInv == Lifecycle!TypeOK /\ UsersAreOfLive

LEMMA LifeInvInit == Lifecycle!Init => LifeInv
  BY DEF Lifecycle!Init, LifeInv, Lifecycle!TypeOK, Lifecycle!Stages, UsersAreOfLive

\* The stages, in the order in which an id goes through them.
Rank == [unborn |-> 0, reserved |-> 1, live |-> 2, closing |-> 3, dead |-> 4]
\* No step takes an id back to an earlier stage.
Advances == \A n \in Names : Rank[StatusView[n]] <= Rank[StatusView'[n]]

LEMMA LifeMoves ==
  ASSUME LifeInv, NEW n \in Names,
         \/ Lifecycle!Reserve(n) \/ Lifecycle!Abandon(n) \/ Lifecycle!Occupy(n)
         \/ Lifecycle!Free(n)
  PROVE  LifeInv' /\ Advances
  <1>1. PICK from \in Lifecycle!Stages, to \in Lifecycle!Stages :
          /\ Lifecycle!Move(n, from, to)
          /\ Rank[from] <= Rank[to]
          /\ to = "live" \/ UsersView[n] = {}
    BY DEF LifeInv, UsersAreOfLive, Lifecycle!Reserve, Lifecycle!Abandon, Lifecycle!Occupy,
           Lifecycle!Free, Lifecycle!Move, Lifecycle!Stages, Rank
  <1>2. /\ StatusView[n] = from
        /\ StatusView' = [StatusView EXCEPT ![n] = to]
        /\ UsersView' = UsersView
    BY <1>1 DEF Lifecycle!Move
  <1>3. Lifecycle!TypeOK'
    BY <1>2 DEF LifeInv, Lifecycle!TypeOK
  <1>4. /\ StatusView'[n] = to
        /\ \A m \in Names \ {n} : StatusView'[m] = StatusView[m]
    BY <1>2 DEF LifeInv, Lifecycle!TypeOK
  <1>5. UsersAreOfLive'
    BY <1>1, <1>2, <1>4 DEF LifeInv, UsersAreOfLive
  <1>6. Advances
    <2> SUFFICES ASSUME NEW m \in Names PROVE Rank[StatusView[m]] <= Rank[StatusView'[m]]
      BY DEF Advances
    <2>1. Rank[StatusView[m]] \in Nat
      BY DEF LifeInv, Lifecycle!TypeOK, Lifecycle!Stages, Rank
    <2> QED BY <1>1, <1>2, <1>4, <2>1
  <1> QED BY <1>3, <1>5, <1>6 DEF LifeInv

LEMMA LifeUses ==
  ASSUME LifeInv, NEW n \in Names, NEW h \in Handles,
         Lifecycle!Acquire(h, n) \/ Lifecycle!Leave(h, n) \/ Lifecycle!DropOwner(h, n)
  PROVE  LifeInv' /\ Advances
  <1>1. StatusView[n] \in {"live", "closing"}
    BY DEF LifeInv, UsersAreOfLive, Lifecycle!Acquire, Lifecycle!Leave, Lifecycle!DropOwner
  <1>2. PICK to \in {"live", "closing", "dead"}, u \in SUBSET Handles :
          /\ StatusView' = [StatusView EXCEPT ![n] = to]
          /\ UsersView' = [UsersView EXCEPT ![n] = u]
          /\ Rank[StatusView[n]] <= Rank[to]
          /\ to = "dead" => u = {}
    <2>1. /\ StatusView \in [Names -> Lifecycle!Stages]
          /\ UsersView \in [Names -> SUBSET Handles]
      BY DEF LifeInv, Lifecycle!TypeOK
    <2>2. /\ Rank["live"] <= Rank["live"] /\ Rank["closing"] <= Rank["closing"]
          /\ Rank["live"] <= Rank["closing"]
          /\ Rank["live"] <= Rank["dead"] /\ Rank["closing"] <= Rank["dead"]
      BY DEF Rank
    <2>3. CASE Lifecycle!Acquire(h, n)
      <3>1. StatusView' = [StatusView EXCEPT ![n] = StatusView[n]]
        BY <2>1, <2>3 DEF Lifecycle!Acquire
      <3>2. UsersView' = [UsersView EXCEPT ![n] = UsersView[n] \cup {h}]
        BY <2>3 DEF Lifecycle!Acquire
      <3>3. UsersView[n] \cup {h} \in SUBSET Handles
        BY <2>1
      <3> QED BY <1>1, <2>2, <3>1, <3>2, <3>3
    <2>4. CASE Lifecycle!Leave(h, n)
      <3> DEFINE to == IF StatusView[n] = "closing" /\ UsersView[n] = {h} THEN "dead"
                       ELSE StatusView[n]
      <3>1. StatusView' = [StatusView EXCEPT ![n] = to]
        BY <2>1, <2>4 DEF Lifecycle!Leave
      <3>2. UsersView' = [UsersView EXCEPT ![n] = UsersView[n] \ {h}]
        BY <2>4 DEF Lifecycle!Leave
      <3>3. UsersView[n] \ {h} \in SUBSET Handles
        BY <2>1
      <3>4. to \in {"live", "closing", "dead"} /\ Rank[StatusView[n]] <= Rank[to]
        BY <1>1, <2>2
      <3>5. to = "dead" => UsersView[n] \ {h} = {}
        BY <1>1
      <3> HIDE DEF to
      <3> QED BY <3>1, <3>2, <3>3, <3>4, <3>5
    <2>5. CASE Lifecycle!DropOwner(h, n)
      <3> DEFINE to == IF UsersView[n] = {h} THEN "dead" ELSE "closing"
      <3>1. StatusView' = [StatusView EXCEPT ![n] = to]
        BY <2>5 DEF Lifecycle!DropOwner
      <3>2. UsersView' = [UsersView EXCEPT ![n] = UsersView[n] \ {h}]
        BY <2>5 DEF Lifecycle!DropOwner
      <3>3. UsersView[n] \ {h} \in SUBSET Handles
        BY <2>1
      <3>4. to \in {"live", "closing", "dead"} /\ Rank[StatusView[n]] <= Rank[to]
        BY <1>1, <2>2
      <3>5. to = "dead" => UsersView[n] \ {h} = {}
        OBVIOUS
      <3> HIDE DEF to
      <3> QED BY <3>1, <3>2, <3>3, <3>4, <3>5
    <2> QED BY <2>3, <2>4, <2>5
  <1>3. Lifecycle!TypeOK'
    BY <1>2 DEF LifeInv, Lifecycle!TypeOK, Lifecycle!Stages
  <1>4. /\ StatusView'[n] = to /\ UsersView'[n] = u
        /\ \A m \in Names \ {n} : StatusView'[m] = StatusView[m] /\ UsersView'[m] = UsersView[m]
    BY <1>2 DEF LifeInv, Lifecycle!TypeOK
  <1>5. UsersAreOfLive'
    BY <1>2, <1>4 DEF LifeInv, UsersAreOfLive
  <1>6. Advances
    <2> SUFFICES ASSUME NEW m \in Names PROVE Rank[StatusView[m]] <= Rank[StatusView'[m]]
      BY DEF Advances
    <2>1. Rank[StatusView[m]] \in Nat
      BY DEF LifeInv, Lifecycle!TypeOK, Lifecycle!Stages, Rank
    <2> QED BY <1>2, <1>4, <2>1
  <1> QED BY <1>3, <1>5, <1>6 DEF LifeInv

LEMMA LifeStep ==
  ASSUME LifeInv, [Lifecycle!Next]_(Lifecycle!vars)
  PROVE  LifeInv' /\ Advances
  <1>1. CASE UNCHANGED Lifecycle!vars
    <2>1. StatusView' = StatusView /\ UsersView' = UsersView
      BY <1>1 DEF Lifecycle!vars
    <2>2. \A n \in Names : Rank[StatusView[n]] \in Nat
      BY DEF LifeInv, Lifecycle!TypeOK, Lifecycle!Stages, Rank
    <2> QED BY <2>1, <2>2 DEF LifeInv, Lifecycle!TypeOK, UsersAreOfLive, Advances
  <1>2. CASE Lifecycle!Next
    BY <1>2, LifeMoves, LifeUses DEF Lifecycle!Next
  <1> QED BY <1>1, <1>2

LEMMA LifeInvariance == Spec => []LifeInv
  <1>1. LifeInv /\ [Lifecycle!Next]_(Lifecycle!vars) => LifeInv'
    BY LifeStep
  <1> QED BY <1>1, LifeInvInit, ImplementsLifecycle, PTL DEF LifecycleSpec, Lifecycle!Spec

\* An id goes through its stages in their order, whatever is done with stale
\* copies of it: it never comes back from the dead and is never occupied twice.
THEOREM StagesOnlyAdvance == Spec => [][Advances]_vars
  <1>1. LifeInv /\ [Lifecycle!Next]_(Lifecycle!vars) => Advances
    BY LifeStep
  <1>2. IInv /\ IInv' /\ LifeInv /\ [Next]_vars => Advances
    BY <1>1, StepLife
  <1> QED BY <1>2, Invariance, LifeInvariance, PTL DEF Spec

\* Nothing that is unborn, reserved or dead is held by anybody.
THEOREM HeldInstancesLive == Spec => []UsersAreOfLive
  <1>1. LifeInv => UsersAreOfLive
    BY DEF LifeInv
  <1> QED BY <1>1, LifeInvariance, PTL

\* An id of this world that the table has done with.
Dead(id) == StatusView[NameOf(id)] = "dead"
\* A dead id resolves to nothing and stays dead.
NeverAgain == \A id \in InstanceIds : Dead(id) => ~Resolves(id) /\ Dead(id)'

\* A stale id resolves to nothing, now and for ever: what is put into its slot
\* later is under another generation (the check of checkout, free and abandon).
THEOREM StaleIdsNeverResolve == Spec => [][NeverAgain]_vars
  <1>1. ASSUME IInv, LifeInv, LifeInv', Advances, NEW id \in InstanceIds, Dead(id)
        PROVE  ~Resolves(id) /\ Dead(id)'
    <2>1. /\ NameOf(id) \in Names
          /\ id.index \in Indexes /\ id.generation \in Generations
      BY DEF NameOf, Names, InstanceIds
    <2>2. ~Resolves(id)
      <3> SUFFICES ASSUME Resolves(id) PROVE FALSE
        OBVIOUS
      <3>1. StatusView[NameOf(id)] = StatusOf(id.index, id.generation)
        BY <2>1 DEF StatusView, NameOf
      <3>2. StatusOf(id.index, id.generation) # "dead"
        <4>1. PICK i \in Indexes, g \in Generations : i = id.index /\ g = id.generation
          BY <2>1
        <4>2. Pushed(i) /\ g = generations[i]
          BY <4>1 DEF Resolves
        <4>3. CASE slots[i] = Vacant
          BY <1>1, <4>1, <4>2, <4>3, StatusCases
        <4>4. CASE slots[i] # Vacant
          BY <1>1, <4>1, <4>2, <4>4, StatusCases
        <4> QED BY <4>3, <4>4
      <3> QED BY <1>1, <3>1, <3>2 DEF Dead
    <2>3. StatusView'[NameOf(id)] \in Lifecycle!Stages
      BY <1>1, <2>1 DEF LifeInv, Lifecycle!TypeOK
    <2>4. Rank["dead"] <= Rank[StatusView'[NameOf(id)]]
      BY <1>1, <2>1 DEF Advances, Dead
    <2>5. StatusView'[NameOf(id)] = "dead"
      BY <2>3, <2>4 DEF Lifecycle!Stages, Rank
    <2> QED BY <2>2, <2>5 DEF Dead, NameOf
  <1>2. IInv /\ LifeInv /\ LifeInv' /\ Advances => NeverAgain
    BY <1>1 DEF NeverAgain
  <1> QED BY <1>2, Invariance, LifeInvariance, StagesOnlyAdvance, PTL
=============================================================================
