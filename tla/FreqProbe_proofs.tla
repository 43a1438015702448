-------------------------- MODULE FreqProbe_proofs --------------------------
(* Theorems about FreqProbe: the frequency that is printed is a number, and  *)
(* exceeds the core's by less than a tick's share, or falls short of it by   *)
(* more than that only for the time the core was lost.                       *)
EXTENDS FreqProbe, TLAPS

USE ProbeAssumption

Typed ==
    /\ target \in Targets \cup {Endless}
    /\ now \in Nat
    /\ t0 \in Nat
    /\ blocks \in Nat
    /\ ns \in Nat
    /\ pc \in {"start", "adds", "clock", "done"}

(* The adds made fit between the clock's first reading and now: its reading  *)
(* was rounded down, so some of what fits may lie before the loop.           *)
AddsFit == t0 * Tick + blocks * Block <= now

(* The loop is only ever left past a duration that can be reached.           *)
RanItsTime == pc = "done" => target # Endless /\ ns > target

IInv ==
    /\ Typed
    /\ pc = "start" => blocks = 0
    /\ pc \in {"adds", "clock"} => AddsFit
    /\ NeverOverstates
    /\ RanItsTime

-----------------------------------------------------------------------------
(* Lemmas on the clock and on products.                                      *)

(* The clock is the time rounded down to a tick.                             *)
LEMMA ClockRoundsDown ==
  ASSUME NEW time \in Nat
  PROVE  /\ Clock(time) \in Nat
         /\ Clock(time) * Tick <= time
         /\ time < (Clock(time) + 1) * Tick
<1> SUFFICES ASSUME NEW d \in Nat \ {0}
             PROVE  /\ time \div d \in Nat
                    /\ (time \div d) * d <= time
                    /\ time < (time \div d + 1) * d
  BY DEF Clock
<1> QED BY SMT

(* A block more is a block's adds more.                                      *)
LEMMA Distributes ==
  ASSUME NEW m \in Nat, NEW n \in Nat, NEW d \in Nat
  PROVE  /\ m * d \in Nat
         /\ (m + 1) * d = m * d + d
         /\ (m + n) * d = m * d + n * d
  BY SMT

-----------------------------------------------------------------------------
(* One lemma per action.                                                     *)

LEMMA InitEstablishes == Init => IInv
  BY DEF Init, IInv, Typed, NeverOverstates, RanItsTime

LEMMA StartStep ==
  ASSUME IInv, Start PROVE IInv'
<1>1. /\ pc' = "adds" /\ t0' = Clock(now) /\ blocks' = 0
      /\ UNCHANGED <<target, ns>>
      /\ now' \in Nat /\ now <= now'
  BY DEF Start, Takes, IInv, Typed
<1>2. Clock(now) \in Nat /\ Clock(now) * Tick <= now
  BY ClockRoundsDown DEF IInv, Typed
<1>3. Typed'
  BY <1>1, <1>2 DEF IInv, Typed
<1>4. AddsFit'
  <2>1. blocks' * Block = 0
    BY <1>1
  <2>2. t0' * Tick \in Nat /\ t0' * Tick <= now'
    BY <1>1, <1>2, Distributes DEF IInv, Typed
  <2> QED BY <2>1, <2>2 DEF AddsFit
<1> QED BY <1>1, <1>3, <1>4 DEF IInv, NeverOverstates, RanItsTime

LEMMA AddsStep ==
  ASSUME IInv, Adds PROVE IInv'
<1>1. /\ pc' = "clock" /\ blocks' = blocks + 1
      /\ UNCHANGED <<target, t0, ns>>
      /\ now' \in Nat /\ now + Block <= now'
  BY DEF Adds, Takes, IInv, Typed
<1>2. Typed'
  BY <1>1 DEF IInv, Typed
<1>3. AddsFit'
  <2>1. AddsFit
    BY DEF IInv, Adds
  <2>2. /\ blocks * Block \in Nat
        /\ t0 * Tick \in Nat
        /\ (blocks + 1) * Block = blocks * Block + Block
    BY Distributes DEF IInv, Typed
  <2> QED BY <1>1, <2>1, <2>2 DEF AddsFit, IInv, Typed
<1> QED BY <1>1, <1>2, <1>3 DEF IInv, NeverOverstates, RanItsTime

(* The loop is left with at least a tick passed, and what fits before now is *)
(* less than what the clock's next tick leaves room for.                     *)
LEMMA ReadStep ==
  ASSUME IInv, ReadClock PROVE IInv'
<1> DEFINE elapsed == Clock(now) - t0
<1>1. /\ pc = "clock" /\ AddsFit
      /\ UNCHANGED <<target, t0, blocks>>
      /\ now' \in Nat /\ now <= now'
  BY DEF ReadClock, Takes, IInv, Typed
<1>2. CASE Over(elapsed)
  <2>1. pc' = "done" /\ ns' = elapsed
    BY <1>2 DEF ReadClock
  <2>2. target \in Nat /\ target # Endless /\ elapsed > target
    BY <1>2 DEF Over, IInv, Typed
  <2>3. Clock(now) \in Nat /\ now < (Clock(now) + 1) * Tick
    BY ClockRoundsDown DEF IInv, Typed
  <2>4. elapsed \in Nat /\ elapsed > 0 /\ elapsed > target
    BY <2>2, <2>3 DEF IInv, Typed
  <2>5. (Clock(now) + 1) * Tick = t0 * Tick + (elapsed + 1) * Tick
    <3>1. t0 \in Nat /\ elapsed + 1 \in Nat /\ Clock(now) + 1 = t0 + (elapsed + 1)
      BY <2>3, <2>4 DEF IInv, Typed
    <3> HIDE DEF elapsed
    <3> QED BY <3>1, Distributes
  <2> HIDE DEF elapsed
  <2>6. blocks * Block < (elapsed + 1) * Tick
    <3>1. t0 * Tick \in Nat /\ blocks * Block \in Nat /\ (elapsed + 1) * Tick \in Nat
      BY <2>4, Distributes DEF IInv, Typed
    <3> QED BY <1>1, <2>3, <2>5, <3>1 DEF AddsFit, IInv, Typed
  <2>7. Typed'
    BY <1>1, <2>1, <2>4 DEF IInv, Typed
  <2> QED BY <1>1, <2>1, <2>2, <2>4, <2>6, <2>7 DEF IInv, NeverOverstates, RanItsTime
<1>3. CASE ~Over(elapsed)
  <2>1. pc' = "adds" /\ ns' = ns
    BY <1>3 DEF ReadClock
  <2>2. Typed'
    BY <1>1, <2>1 DEF IInv, Typed
  <2>3. AddsFit'
    <3>1. t0 * Tick \in Nat /\ blocks * Block \in Nat
      BY Distributes DEF IInv, Typed
    <3> QED BY <1>1, <3>1 DEF AddsFit, IInv, Typed
  <2> QED BY <1>1, <2>1, <2>2, <2>3 DEF IInv, NeverOverstates, RanItsTime
<1> QED BY <1>2, <1>3

LEMMA Invariant == Spec => []IInv
<1>1. Init => IInv
  BY InitEstablishes
<1>2. IInv /\ [Next]_vars => IInv'
  <2>1. ASSUME IInv, UNCHANGED vars PROVE IInv'
    BY <2>1 DEF vars, IInv, Typed, AddsFit, NeverOverstates, RanItsTime
  <2> QED BY <2>1, StartStep, AddsStep, ReadStep DEF Next, Stopped
<1> QED BY <1>1, <1>2, PTL DEF Spec

-----------------------------------------------------------------------------
(* The theorems.                                                             *)

(* The frequency printed is a number and exceeds the core's by less than a   *)
(* tick's share, whatever the block, the clock's grain and the time lost.    *)
THEOREM FrequencyIsNoMore == Spec => []NeverOverstates
<1>1. IInv => NeverOverstates
  BY DEF IInv
<1> QED BY <1>1, Invariant, PTL

(* A probe that ends was asked for a duration that can be reached, and has   *)
(* run for longer: with "nan" or "inf" the loop goes on.                     *)
THEOREM RunsItsTime == Spec => []RanItsTime
<1>1. IInv => RanItsTime
  BY DEF IInv
<1> QED BY <1>1, Invariant, PTL

-----------------------------------------------------------------------------
(* How much work the probe makes, and how much the core may lose.            *)

Cost == Block + 2 * MaxStall

(* No block is begun that the time asked for left no room for.               *)
WorkIsBounded ==
    target # Endless =>
        /\ pc \in {"start", "adds"} => blocks * Block < (target + 1) * Tick
        /\ blocks * Block < (target + 1) * Tick + Block

(* Short of the first tick, the time passed is what the steps took and lost. *)
TimeIsSpent ==
    /\ pc = "adds" => now < (t0 + 1) * Tick + blocks * Cost + MaxStall
    /\ pc = "clock" => now < (t0 + 1) * Tick + blocks * Cost

(* What the probe prints falls short by a tick's share and by the time lost. *)
NeverUnderstates == pc = "done" => (ns - 1) * Tick < blocks * Cost

Accounted == WorkIsBounded /\ TimeIsSpent /\ NeverUnderstates

LEMMA StartAccounts == ASSUME IInv, Accounted, Start PROVE Accounted'
<1>1. /\ pc' = "adds" /\ t0' = Clock(now) /\ blocks' = 0 /\ UNCHANGED <<target, ns>>
      /\ now' \in Nat /\ now' <= now + MaxStall /\ now \in Nat
  BY DEF Start, Takes, IInv, Typed
<1>2. Clock(now) \in Nat /\ now < (Clock(now) + 1) * Tick
  BY <1>1, ClockRoundsDown
<1>3. (t0' + 1) * Tick \in Nat
  BY <1>1, <1>2, Distributes
<1>4. blocks' * Block = 0 /\ blocks' * Cost = 0
  BY <1>1 DEF Cost
<1>5. TimeIsSpent' /\ NeverUnderstates'
  BY <1>1, <1>2, <1>3, <1>4 DEF TimeIsSpent, NeverUnderstates, Cost
<1>6. WorkIsBounded'
  <2>1. target # Endless => (target + 1) * Tick \in Nat /\ 0 < (target + 1) * Tick
    <3>1. ASSUME NEW t \in Nat PROVE (t + 1) * Tick = t * Tick + Tick /\ t * Tick \in Nat
      BY Distributes
    <3> QED BY <3>1 DEF IInv, Typed
  <2> QED BY <1>1, <1>4, <2>1 DEF WorkIsBounded
<1> QED BY <1>5, <1>6 DEF Accounted

LEMMA AddsAccounts == ASSUME IInv, Accounted, Adds PROVE Accounted'
<1>1. /\ pc = "adds" /\ pc' = "clock" /\ blocks' = blocks + 1 /\ UNCHANGED <<target, t0, ns>>
      /\ now \in Nat /\ now' \in Nat /\ now' <= now + Block + MaxStall
      /\ blocks \in Nat /\ t0 \in Nat
  BY DEF Adds, Takes, IInv, Typed
<1>2. /\ Cost \in Nat /\ (blocks + 1) * Cost = blocks * Cost + Cost /\ blocks * Cost \in Nat
      /\ (blocks + 1) * Block = blocks * Block + Block /\ blocks * Block \in Nat
      /\ (t0 + 1) * Tick \in Nat
  <2>1. Cost \in Nat
    BY DEF Cost
  <2> QED BY <1>1, <2>1, Distributes
<1>3. now < (t0 + 1) * Tick + blocks * Cost + MaxStall
  BY <1>1 DEF Accounted, TimeIsSpent
<1>4. now' < (t0' + 1) * Tick + blocks' * Cost
  <2>1. now' < (t0 + 1) * Tick + blocks * Cost + Cost
    BY <1>1, <1>2, <1>3 DEF Cost
  <2> QED BY <1>1, <1>2, <2>1
<1>5. target # Endless => (target + 1) * Tick \in Nat
  BY Distributes DEF IInv, Typed
<1>6. WorkIsBounded'
  BY <1>1, <1>2, <1>5 DEF Accounted, WorkIsBounded
<1> QED BY <1>1, <1>4, <1>6 DEF Accounted, TimeIsSpent, NeverUnderstates

LEMMA ReadAccounts == ASSUME IInv, Accounted, ReadClock PROVE Accounted'
<1>1. /\ pc = "clock" /\ AddsFit /\ UNCHANGED <<target, t0, blocks>>
      /\ now \in Nat /\ now' \in Nat /\ now' <= now + MaxStall
      /\ blocks \in Nat /\ t0 \in Nat
  BY DEF ReadClock, Takes, IInv, Typed
<1>2. now < (t0 + 1) * Tick + blocks * Cost
  BY <1>1 DEF Accounted, TimeIsSpent
<1>3. PICK c \in Nat : c = Clock(now) /\ c * Tick <= now /\ now < (c + 1) * Tick
  BY <1>1, ClockRoundsDown
<1>4. /\ Cost \in Nat /\ blocks * Cost \in Nat /\ blocks * Block \in Nat
      /\ t0 * Tick \in Nat /\ (t0 + 1) * Tick \in Nat /\ (t0 + 1) * Tick = t0 * Tick + Tick
  <2>1. Cost \in Nat
    BY DEF Cost
  <2> QED BY <1>1, <2>1, Distributes
<1>5. CASE Over(c - t0)
  <2>1. pc' = "done" /\ ns' = c - t0 /\ target # Endless /\ target \in Nat /\ c - t0 > target
    BY <1>3, <1>5 DEF ReadClock, Over, IInv, Typed
  <2>2. PICK k \in Nat : c = t0 + (k + 1) /\ ns' - 1 = k
    BY <1>1, <2>1
  <2>3. c * Tick = t0 * Tick + (k + 1) * Tick /\ (k + 1) * Tick = k * Tick + Tick /\ k * Tick \in Nat
    BY <1>1, <2>2, Distributes
  <2>4. (ns' - 1) * Tick < blocks' * Cost
    <3>1. k * Tick < blocks * Cost
      BY <1>1, <1>2, <1>3, <1>4, <2>3
    <3> QED BY <1>1, <2>2, <3>1
  <2> QED BY <1>1, <2>1, <2>4 DEF Accounted, WorkIsBounded, TimeIsSpent, NeverUnderstates
<1>6. CASE ~Over(c - t0)
  <2>1. pc' = "adds" /\ ns' = ns
    BY <1>3, <1>6 DEF ReadClock
  <2>2. TimeIsSpent'
    BY <1>1, <1>2, <1>4, <2>1 DEF TimeIsSpent
  <2>3. ASSUME target # Endless PROVE blocks * Block < (target + 1) * Tick
    <3>1. target \in Nat /\ ~(c - t0 > target)
      BY <1>6, <2>3 DEF Over, IInv, Typed
    <3>2. PICK e \in Nat : t0 + (target + 1) = c + 1 + e
      <4>1. target + t0 - c \in Nat
        BY <1>1, <1>3, <3>1
      <4> QED BY <1>1, <1>3, <3>1, <4>1
    <3>3. /\ (t0 + (target + 1)) * Tick = t0 * Tick + (target + 1) * Tick
          /\ ((c + 1) + e) * Tick = (c + 1) * Tick + e * Tick
          /\ e * Tick \in Nat /\ (c + 1) * Tick \in Nat /\ (target + 1) * Tick \in Nat
      BY <1>1, <3>1, Distributes
    <3>4. (c + 1) * Tick <= t0 * Tick + (target + 1) * Tick
      BY <1>4, <3>2, <3>3
    <3> QED BY <1>1, <1>3, <1>4, <3>3, <3>4 DEF AddsFit
  <2> QED BY <1>1, <2>1, <2>2, <2>3 DEF Accounted, WorkIsBounded, NeverUnderstates
<1> QED BY <1>5, <1>6

LEMMA AlwaysAccounted == Spec => []Accounted
<1>1. Init => Accounted
  <2> SUFFICES ASSUME Init PROVE Accounted
    OBVIOUS
  <2>1. pc = "start" /\ blocks * Block = 0
    BY DEF Init
  <2>2. target # Endless => (target + 1) * Tick \in Nat /\ 0 < (target + 1) * Tick
    <3>1. ASSUME NEW t \in Nat PROVE (t + 1) * Tick = t * Tick + Tick /\ t * Tick \in Nat
      BY Distributes
    <3> QED BY <3>1 DEF Init
  <2> QED BY <2>1, <2>2 DEF Accounted, WorkIsBounded, TimeIsSpent, NeverUnderstates
<1>2. IInv /\ Accounted /\ [Next]_vars => Accounted'
  <2>1. ASSUME Accounted, UNCHANGED vars PROVE Accounted'
    BY <2>1 DEF vars, Accounted, WorkIsBounded, TimeIsSpent, NeverUnderstates
  <2> QED BY <2>1, StartAccounts, AddsAccounts, ReadAccounts DEF Next, Stopped
<1> QED BY <1>1, <1>2, Invariant, PTL DEF Spec

(* The part of ProbeEnds that is not about fairness: a duration that can be  *)
(* reached bounds the blocks that are made, a block over the duration and a  *)
(* tick at most, whatever is lost in between -- the loop's condition, which  *)
(* is read between two blocks, is never passed by.                           *)
THEOREM WorkEnds == Spec => []WorkIsBounded
<1>1. Accounted => WorkIsBounded
  BY DEF Accounted
<1> QED BY <1>1, AlwaysAccounted, PTL

(* With FrequencyIsNoMore, how good the number is: it falls short of the     *)
(* core's frequency by a tick's share and by the time the process was off    *)
(* the core, and on a core that is never lost it is off by less than a tick  *)
(* either way.                                                               *)
THEOREM FrequencyIsNoLess == Spec => []NeverUnderstates
<1>1. Accounted => NeverUnderstates
  BY DEF Accounted
<1> QED BY <1>1, AlwaysAccounted, PTL
=============================================================================
