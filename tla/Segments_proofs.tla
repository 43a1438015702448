--------------------------- MODULE Segments_proofs ---------------------------
(***************************************************************************)
(* Proofs about Segments: what instantiations leave in a shared table and  *)
(* memory, for any number of instances and any modules.                    *)
(*                                                                         *)
(* The inductive invariant follows the one instance whose segments are     *)
(* being applied: what it is through with has been spent and is in place,  *)
(* what is before it has not been copied, and an instance that may still   *)
(* end without a body has put nothing into the table.  A second one leads  *)
(* each cell back to the segment it was copied from.                       *)
(***************************************************************************)
EXTENDS Segments, TLAPS

Statuses == {"none", "segments", "start", "whole", "partial", "abandoned", "freed"}
Cells == {Zero} \cup [owner : Ids, segment : Nat]

Typed ==
  /\ tier \in {"jit", "interp"}
  /\ module \in [Ids -> Modules \cup {Unknown}]
  /\ status \in [Ids -> Statuses]
  /\ applied \in [Ids -> Nat]
  /\ usable \in [Ids -> SUBSET Nat]
  /\ content \in [Places -> [0 .. Size - 1 -> Cells]]
  /\ DOMAIN copies = Ids
  /\ \A i \in Ids : copies[i] \in [SegmentsOf(i) -> 0 .. 2]

OneLoads == \A i, j \in Ids : status[i] = "segments" /\ status[j] = "segments" => i = j

Untouched == \A i \in Ids : status[i] = "none" => applied[i] = 0

\* An instance that has no body, or may end without one, is not in the table.
Bodiless(i) == status[i] \in {"none", "abandoned"} \/ (status[i] = "segments" /\ applied[i] = 0)
NotEntered == \A i \in Ids : Bodiless(i) => ~Owns(i)

\* The segments SpentOnce is about.
Covered(i, s) == IsActive(i, s) /\ (Segment(i, s).in = "table" \/ tier = "interp")

Taken ==
  \A i \in Ids : \A s \in SegmentsOf(i) :
    Covered(i, s) /\ s <= applied[i] => s \notin usable[i] /\ copies[i][s] <= 1

Fresh ==
  \A i \in Ids : \A s \in SegmentsOf(i) :
    status[i] = "segments" /\ s > applied[i] => copies[i][s] = 0

\* The JIT's element segments are usable once they have been passed over.
Promised(i, s) ==
  Segment(i, s).mode = "Passive" /\ (tier = "interp" \/ Segment(i, s).in = "memory" \/ s <= applied[i])

PassiveKept ==
  \A i \in Ids : \A s \in SegmentsOf(i) :
    status[i] = "segments" /\ Promised(i, s) => s \in usable[i]

\* The cell at index p is that of segment s of instance i, or of a later segment.
Holds(cells, i, s, p) == cells[p] # Zero /\ cells[p].owner = i /\ cells[p].segment >= s

InPlace(i, s) ==
  \A p \in Segment(i, s).at .. Segment(i, s).at + Segment(i, s).len - 1 :
    p < Size /\ Holds(content[Segment(i, s).in], i, s, p)

Placed ==
  \A i \in Ids : \A s \in SegmentsOf(i) :
    status[i] = "segments" /\ IsActive(i, s) /\ s <= applied[i] => InPlace(i, s)

IInv ==
  /\ Typed
  /\ OneLoads
  /\ Untouched
  /\ NotEntered
  /\ Taken
  /\ Fresh
  /\ PassiveKept
  /\ Placed

-----------------------------------------------------------------------------
(* The operators.                                                            *)

Segs == [in : Places, mode : Modes, at : Nat, len : Nat \ {0}]

(* The number of a segment is not 0, and a segment has the fields that the   *)
(* operations read.                                                          *)
LEMMA SequenceShape ==
  ASSUME NEW seq \in Seq(Segs)
  PROVE  /\ Len(seq) \in Nat
         /\ DOMAIN seq = 1 .. Len(seq)
         /\ \A s \in DOMAIN seq : seq[s] \in Segs
PROOF
  <1>1. Len(seq) \in Nat /\ DOMAIN seq = 1 .. Len(seq)
    OBVIOUS
  <1>2. \A s \in 1 .. Len(seq) : seq[s] \in Segs
    OBVIOUS
  <1> QED BY <1>1, <1>2

LEMMA ModuleShape ==
  ASSUME NEW m \in Modules \cup {Unknown}
  PROVE  m.segments \in Seq(Segs)
PROOF
  <1>1. CASE m = Unknown
    <2>1. m.segments = << >>
      BY <1>1 DEF Unknown
    <2>2. << >> \in Seq(Segs)
      OBVIOUS
    <2> QED BY <2>1, <2>2
  <1>2. CASE m \in Modules
    BY <1>2, ModulesAssumption DEF Segs
  <1> QED BY <1>1, <1>2

LEMMA SegmentShape ==
  ASSUME Typed, NEW i \in Ids, NEW s \in SegmentsOf(i)
  PROVE  /\ s \in Nat /\ s >= 1 /\ s <= Len(module[i].segments)
         /\ Segment(i, s).in \in Places
         /\ Segment(i, s).mode \in Modes
         /\ Segment(i, s).at \in Nat
         /\ Segment(i, s).len \in Nat
PROOF
  <1>1. module[i].segments \in Seq(Segs)
    BY ModuleShape DEF Typed
  <1>2. Segment(i, s) \in Segs
    BY <1>1, SequenceShape DEF Segment, SegmentsOf
  <1>3. s \in 1 .. Len(module[i].segments) /\ Len(module[i].segments) \in Nat
    BY <1>1, SequenceShape DEF SegmentsOf
  <1> QED BY <1>2, <1>3 DEF Segs

(* Copying a segment puts cells of its own into its range and leaves the     *)
(* rest alone, and counts one copy more, of it only.                         *)
LEMMA CopyPuts ==
  ASSUME Typed, NEW i \in Ids, NEW s \in SegmentsOf(i), NEW at \in Nat, Copy(i, s, at)
  PROVE  /\ content' \in [Places -> [0 .. Size - 1 -> Cells]]
         /\ \A p \in 0 .. Size - 1 :
              content'[Segment(i, s).in][p] =
                IF p \in at .. at + Segment(i, s).len - 1 THEN [owner |-> i, segment |-> s]
                ELSE content[Segment(i, s).in][p]
         /\ \A place \in Places : place # Segment(i, s).in => content'[place] = content[place]
PROOF
  <1> DEFINE in == Segment(i, s).in
             cells == [p \in 0 .. Size - 1 |->
                        IF p \in at .. at + Segment(i, s).len - 1
                          THEN [owner |-> i, segment |-> s] ELSE content[in][p]]
  <1>1. in \in Places /\ s \in Nat
    BY SegmentShape
  <1>2. content' = [content EXCEPT ![in] = cells]
    BY <1>1 DEF Copy, Typed
  <1>3. cells \in [0 .. Size - 1 -> Cells]
    <2>1. [owner |-> i, segment |-> s] \in Cells
      BY <1>1 DEF Cells
    <2>2. content[in] \in [0 .. Size - 1 -> Cells]
      BY <1>1 DEF Typed
    <2> QED BY <2>1, <2>2
  <1> QED BY <1>1, <1>2, <1>3 DEF Typed

LEMMA CopyCounts ==
  ASSUME Typed, NEW i \in Ids, NEW s \in SegmentsOf(i), NEW at \in Nat, Copy(i, s, at)
  PROVE  /\ DOMAIN copies' = Ids
         /\ \A j \in Ids : copies'[j] \in [SegmentsOf(j) -> 0 .. 2]
         /\ \A j \in Ids : \A t \in SegmentsOf(j) : ~(j = i /\ t = s) => copies'[j][t] = copies[j][t]
         /\ copies[i][s] = 0 => copies'[i][s] = 1
PROOF
  <1> DEFINE more == IF copies[i][s] = 2 THEN 2 ELSE copies[i][s] + 1
             counts == [copies[i] EXCEPT ![s] = more]
  <1>1. copies' = [copies EXCEPT ![i] = counts]
    BY DEF Copy, Typed
  <1>2. copies[i] \in [SegmentsOf(i) -> 0 .. 2]
    BY DEF Typed
  <1>3. more \in 0 .. 2 /\ (copies[i][s] = 0 => more = 1)
    BY <1>2
  <1>4. counts \in [SegmentsOf(i) -> 0 .. 2] /\ counts[s] = more
    BY <1>2, <1>3
  <1>5. \A t \in SegmentsOf(i) : t # s => counts[t] = copies[i][t]
    BY <1>2
  <1> HIDE DEF counts, more
  <1>6. DOMAIN copies' = Ids /\ copies'[i] = counts /\ \A j \in Ids : j # i => copies'[j] = copies[j]
    BY <1>1 DEF Typed
  <1> QED BY <1>3, <1>4, <1>5, <1>6 DEF Typed

-----------------------------------------------------------------------------
(* The invariant is kept.                                                    *)

LEMMA InitHolds == Init => IInv
PROOF
  <1> SUFFICES ASSUME Init PROVE IInv
    OBVIOUS
  <1>6. DOMAIN << >> = {} /\ << >> \in [{} -> 0 .. 2]
    OBVIOUS
  <1>7. Unknown.segments = << >>
    BY DEF Unknown
  <1>1. \A i \in Ids : module[i] = Unknown /\ SegmentsOf(i) = {}
    BY <1>6, <1>7 DEF Init, SegmentsOf
  <1>2. Typed
    <2>1. [p \in 0 .. Size - 1 |-> Zero] \in [0 .. Size - 1 -> Cells]
      BY DEF Cells
    <2>2. content \in [Places -> [0 .. Size - 1 -> Cells]]
      BY <2>1 DEF Init
    <2>3. \A i \in Ids : copies[i] = << >>
      BY DEF Init
    <2>4. \A i \in Ids : copies[i] \in [SegmentsOf(i) -> 0 .. 2]
      BY <2>3, <1>1, <1>6
    <2> QED BY <2>2, <2>4, TiersAssumption DEF Typed, Init, Statuses
  <1>3. NotEntered
    BY DEF NotEntered, Owns, Init, Places
  <1>4. OneLoads /\ Untouched
    BY DEF OneLoads, Untouched, Init
  <1>5. Taken /\ Fresh /\ PassiveKept /\ Placed
    BY <1>1 DEF Taken, Fresh, PassiveKept, Placed
  <1> QED BY <1>2, <1>3, <1>4, <1>5 DEF IInv

(* An instance moves on and its segments stay as they are, or become         *)
(* unusable: it is out of the way of the next instantiation.                 *)
LEMMA MovesOn ==
  ASSUME IInv, NEW i \in Ids, NEW st \in Statuses \ {"none", "segments"}, NEW u \in SUBSET usable[i],
         status' = [status EXCEPT ![i] = st],
         usable' = [usable EXCEPT ![i] = u],
         UNCHANGED <<tier, module, applied, content, copies>>,
         st = "abandoned" => ~Owns(i)
  PROVE  IInv'
PROOF
  <1>1. \A j \in Ids : status'[j] = IF j = i THEN st ELSE status[j]
    BY DEF IInv, Typed
  <1>2. \A j \in Ids : usable'[j] = IF j = i THEN u ELSE usable[j]
    BY DEF IInv, Typed
  <1>3. \A j \in Ids : SegmentsOf(j)' = SegmentsOf(j)
    BY DEF SegmentsOf
  <1>4. Typed'
    BY <1>3 DEF IInv, Typed
  <1>5. OneLoads' /\ Untouched'
    BY <1>1 DEF IInv, OneLoads, Untouched
  <1>6. NotEntered'
    BY <1>1 DEF IInv, NotEntered, Bodiless, Owns
  <1>7. Taken'
    BY <1>2, <1>3 DEF IInv, Taken, Covered, IsActive, Segment
  <1>8. Fresh'
    BY <1>1, <1>3 DEF IInv, Fresh
  <1>9. PassiveKept'
    BY <1>1, <1>2, <1>3 DEF IInv, PassiveKept, Promised, Segment
  <1>10. Placed'
    <2> SUFFICES ASSUME NEW j \in Ids, NEW s \in SegmentsOf(j)',
                        (status[j] = "segments" /\ IsActive(j, s) /\ s <= applied[j])'
                 PROVE  InPlace(j, s)'
      BY DEF Placed
    <2>1. IsActive(j, s) /\ s <= applied[j] /\ s \in SegmentsOf(j)
      BY <1>3 DEF IsActive, Segment
    <2>2. status[j] = "segments"
      BY <1>1
    <2>3. InPlace(j, s)
      BY <2>1, <2>2 DEF IInv, Placed
    <2> QED BY <2>3 DEF InPlace, Segment
  <1> QED BY <1>4, <1>5, <1>6, <1>7, <1>8, <1>9, <1>10 DEF IInv

(* The actions that are moves.                                               *)
LEMMA MoveSteps ==
  ASSUME IInv, NEW i \in Ids,
         \/ FailsEarly(i) \/ NoMemory(i) \/ SegmentsDone(i) \/ StartEnds(i) \/ Free(i)
         \/ \E s \in SegmentsOf(i) : DoesNotFit(i, s)
  PROVE  IInv'
PROOF
  <1> USE DEF Stopped
  <1>1. usable = [usable EXCEPT ![i] = usable[i]] /\ usable[i] \in SUBSET Nat
    BY DEF IInv, Typed
  <1>2. CASE FailsEarly(i)
    <2>1. ~Owns(i)
      BY <1>2 DEF FailsEarly, IInv, NotEntered, Bodiless
    <2> QED BY <1>1, <1>2, <2>1, MovesOn DEF FailsEarly, Statuses
  <1>3. CASE NoMemory(i)
    BY <1>1, <1>3, MovesOn DEF NoMemory, Statuses
  <1>4. CASE SegmentsDone(i)
    <2> DEFINE st == IF module[i].start THEN "start" ELSE "whole"
    <2>1. st \in Statuses \ {"none", "segments"} /\ st # "abandoned"
      BY DEF Statuses
    <2>2. status' = [status EXCEPT ![i] = st] /\ UNCHANGED <<tier, module, applied, usable, content, copies>>
      BY <1>4 DEF SegmentsDone
    <2> HIDE DEF st
    <2> QED BY <1>1, <2>1, <2>2, MovesOn
  <1>5. CASE StartEnds(i)
    BY <1>1, <1>5, MovesOn DEF StartEnds, Statuses
  <1>6. CASE Free(i)
    BY <1>1, <1>6, MovesOn DEF Free, Statuses
  <1>7. CASE \E s \in SegmentsOf(i) : DoesNotFit(i, s)
    BY <1>1, <1>7, MovesOn DEF DoesNotFit, Statuses
  <1> QED BY <1>2, <1>3, <1>4, <1>5, <1>6, <1>7

(* A new instance has nothing copied and holds what its module keeps.        *)
LEMMA BeginStep ==
  ASSUME IInv, NEW i \in Ids, NEW m \in Modules, Begin(i, m)
  PROVE  IInv'
PROOF
  <1>1. \A j \in Ids : /\ module'[j] = IF j = i THEN m ELSE module[j]
                       /\ status'[j] = IF j = i THEN "segments" ELSE status[j]
                       /\ usable'[j] = IF j = i THEN Held(m) ELSE usable[j]
                       /\ copies'[j] = IF j = i THEN [s \in DOMAIN m.segments |-> 0] ELSE copies[j]
    BY DEF Begin, IInv, Typed
  <1>2. UNCHANGED <<tier, applied, content>> /\ status[i] = "none" /\ ~Loading /\ applied[i] = 0
    BY DEF Begin, IInv, Untouched
  <1>3. \A s \in DOMAIN m.segments : s \in Nat /\ s >= 1
    BY ModuleShape, SequenceShape
  <1>4. \A j \in Ids : j # i => SegmentsOf(j)' = SegmentsOf(j)
    BY <1>1 DEF SegmentsOf
  <1>5. SegmentsOf(i)' = DOMAIN m.segments
    BY <1>1 DEF SegmentsOf
  <1>6. \A j \in Ids : status'[j] = "segments" => j = i
    BY <1>1, <1>2 DEF Loading
  <1>7. Typed'
    <2>1. Held(m) \subseteq Nat
      BY <1>3 DEF Held, Kept
    <2>2. \A j \in Ids : copies'[j] \in [SegmentsOf(j)' -> 0 .. 2]
      BY <1>1, <1>4, <1>5 DEF IInv, Typed
    <2>3. usable' \in [Ids -> SUBSET Nat]
      BY <2>1 DEF Begin, IInv, Typed
    <2> QED BY <1>2, <2>2, <2>3 DEF Begin, IInv, Typed, Statuses
  <1>8. OneLoads' /\ Untouched'
    BY <1>1, <1>2, <1>6 DEF IInv, OneLoads, Untouched
  <1>9. NotEntered'
    BY <1>1, <1>2 DEF IInv, NotEntered, Bodiless, Owns
  <1>10. Taken'
    <2> SUFFICES ASSUME NEW j \in Ids, NEW s \in SegmentsOf(j)', Covered(j, s)', s <= applied'[j]
                 PROVE  s \notin usable'[j] /\ copies'[j][s] <= 1
      BY DEF Taken
    <2>1. CASE j = i
      BY <2>1, <1>2, <1>3, <1>5
    <2>2. CASE j # i
      <3>1. Covered(j, s) /\ s \in SegmentsOf(j) /\ s <= applied[j]
        BY <2>2, <1>1, <1>2, <1>4 DEF Covered, IsActive, Segment
      <3> QED BY <3>1, <2>2, <1>1 DEF IInv, Taken
    <2> QED BY <2>1, <2>2
  <1>11. Fresh'
    BY <1>1, <1>5, <1>6 DEF Fresh
  <1>12. PassiveKept'
    <2> SUFFICES ASSUME NEW s \in SegmentsOf(i)', Promised(i, s)'
                 PROVE  s \in Held(m)
      BY <1>1, <1>6 DEF PassiveKept
    <2>1. s \in DOMAIN m.segments /\ m.segments[s].mode = "Passive"
          /\ (tier = "interp" \/ m.segments[s].in = "memory" \/ s <= 0)
      BY <1>1, <1>2, <1>5 DEF Promised, Segment
    <2> QED BY <2>1, <1>3 DEF Held, Kept
  <1>13. Placed'
    BY <1>2, <1>3, <1>5, <1>6 DEF Placed
  <1> QED BY <1>7, <1>8, <1>9, <1>10, <1>11, <1>12, <1>13 DEF IInv

(* Copying enters the instance that is copied from, and no other.            *)
LEMMA CopyEnters ==
  ASSUME Typed, NEW i \in Ids, NEW s \in SegmentsOf(i), NEW at \in Nat, Copy(i, s, at),
         NEW j \in Ids, j # i, ~Owns(j)
  PROVE  ~Owns(j)'
PROOF
  <1>1. DOMAIN content["table"] = 0 .. Size - 1 /\ DOMAIN content'["table"] = 0 .. Size - 1
    BY CopyPuts DEF Typed, Places
  <1>2. \A p \in 0 .. Size - 1 :
          content'["table"][p] \in {content["table"][p], [owner |-> i, segment |-> s]}
    <2>1. CASE Segment(i, s).in = "table"
      <3>1. \A p \in 0 .. Size - 1 :
              content'[Segment(i, s).in][p] \in {content[Segment(i, s).in][p], [owner |-> i, segment |-> s]}
        BY CopyPuts
      <3> QED BY <2>1, <3>1
    <2>2. CASE Segment(i, s).in # "table"
      BY <2>2, CopyPuts DEF Places
    <2> QED BY <2>1, <2>2
  <1> QED BY <1>1, <1>2 DEF Owns

LEMMA ApplyStep ==
  ASSUME IInv, NEW i \in Ids, NEW s \in SegmentsOf(i), ApplyActive(i, s)
  PROVE  IInv'
PROOF
  <1> DEFINE at == Segment(i, s).at
             len == Segment(i, s).len
             in == Segment(i, s).in
  <1>1. Typed /\ s \in Nat /\ s >= 1 /\ at \in Nat /\ len \in Nat /\ in \in Places
    BY SegmentShape DEF IInv
  <1>2. /\ Copy(i, s, at) /\ at + len <= Size /\ IsActive(i, s)
        /\ status[i] = "segments" /\ s = applied[i] + 1
        /\ UNCHANGED <<tier, module, status>>
    BY DEF ApplyActive, Current, Fits
  <1>3. \A j \in Ids : /\ applied'[j] = IF j = i THEN s ELSE applied[j]
                       /\ usable'[j] = IF j = i THEN Spent(i, s) ELSE usable[j]
    BY <1>1 DEF ApplyActive, Typed
  <1>4. \A j \in Ids : SegmentsOf(j)' = SegmentsOf(j)
    BY <1>2 DEF SegmentsOf
  <1>5. applied[i] \in Nat /\ usable[i] \in SUBSET Nat
    BY <1>1 DEF Typed
  <1>6. \A j \in Ids : \A t \in SegmentsOf(j) : t \in Nat /\ t >= 1
    BY <1>1, SegmentShape
  <1>7. \A j \in Ids : status[j] = "segments" => j = i
    BY <1>2 DEF IInv, OneLoads
  <1>8. usable[i] \ {s} \subseteq Spent(i, s) /\ Spent(i, s) \subseteq usable[i]
        /\ (Covered(i, s) => s \notin Spent(i, s))
    BY DEF Spent, Covered
  <1>9. \A j \in Ids : \A t \in SegmentsOf(j) : ~(j = i /\ t = s) => copies'[j][t] = copies[j][t]
    BY <1>1, <1>2, CopyCounts
  <1>10. copies'[i][s] = 1
    <2>1. copies[i][s] = 0
      BY <1>1, <1>2, <1>5 DEF IInv, Fresh
    <2> QED BY <1>1, <1>2, <2>1, CopyCounts
  <1> HIDE DEF at, len, in
  <1>11. Typed'
    <2>1. usable' \in [Ids -> SUBSET Nat]
      BY <1>1, <1>5, <1>8 DEF ApplyActive, Typed
    <2>2. applied' \in [Ids -> Nat]
      BY <1>1 DEF ApplyActive, Typed
    <2>3. \A j \in Ids : copies'[j] \in [SegmentsOf(j)' -> 0 .. 2]
      BY <1>1, <1>2, <1>4, CopyCounts
    <2> QED BY <1>1, <1>2, <2>1, <2>2, <2>3, CopyPuts, CopyCounts DEF Typed
  <1>12. OneLoads' /\ Untouched'
    BY <1>2, <1>3 DEF IInv, OneLoads, Untouched
  <1>13. NotEntered'
    <2> SUFFICES ASSUME NEW j \in Ids, Bodiless(j)' PROVE ~Owns(j)'
      BY DEF NotEntered
    <2>1. j # i
      BY <1>1, <1>2, <1>3 DEF Bodiless
    <2>2. ~Owns(j)
      BY <1>2, <1>3, <2>1 DEF Bodiless, IInv, NotEntered
    <2> QED BY <1>1, <1>2, <2>1, <2>2, CopyEnters
  <1>14. Taken'
    <2> SUFFICES ASSUME NEW j \in Ids, NEW t \in SegmentsOf(j), Covered(j, t), t <= applied'[j]
                 PROVE  t \notin usable'[j] /\ copies'[j][t] <= 1
      BY <1>2, <1>4 DEF Taken, Covered, IsActive, Segment
    <2>1. CASE j = i /\ t = s
      BY <2>1, <1>3, <1>8, <1>10
    <2>2. CASE ~(j = i /\ t = s)
      <3>1. t <= applied[j]
        <4>1. CASE j = i
          <5>1. t \in Nat /\ t <= applied[i] + 1 /\ t # applied[i] + 1
            BY <4>1, <2>2, <1>2, <1>3, <1>6
          <5> QED BY <4>1, <5>1, <1>5
        <4>2. CASE j # i
          BY <4>2, <1>3
        <4> QED BY <4>1, <4>2
      <3> QED BY <3>1, <2>2, <1>3, <1>8, <1>9 DEF IInv, Taken
    <2> QED BY <2>1, <2>2
  <1>15. Fresh'
    <2> SUFFICES ASSUME NEW t \in SegmentsOf(i), t > s PROVE copies'[i][t] = 0
      BY <1>2, <1>3, <1>4, <1>7 DEF Fresh
    <2>1. t \in Nat /\ t # s
      BY <1>1, <1>6
    <2>2. t > applied[i]
      BY <2>1, <1>1, <1>2, <1>5
    <2>3. copies[i][t] = 0
      BY <2>2, <1>2 DEF IInv, Fresh
    <2> QED BY <2>1, <2>3, <1>9
  <1>16. PassiveKept'
    <2> SUFFICES ASSUME NEW t \in SegmentsOf(i), Promised(i, t)' PROVE t \in usable'[i]
      BY <1>2, <1>4, <1>7 DEF PassiveKept
    <2>1. t # s
      BY <1>2 DEF Promised, IsActive, Segment
    <2>2. Promised(i, t)
      <3>1. t \in Nat /\ s = applied[i] + 1
        BY <1>2, <1>6
      <3>2. t <= s => t <= applied[i]
        BY <3>1, <1>5, <2>1
      <3> QED BY <1>2, <1>3, <3>2 DEF Promised, Segment
    <2> QED BY <1>2, <1>3, <1>8, <2>1, <2>2 DEF IInv, PassiveKept
  <1>17. Placed'
    <2> SUFFICES ASSUME NEW t \in SegmentsOf(i), IsActive(i, t), t <= s PROVE InPlace(i, t)'
      BY <1>2, <1>3, <1>4, <1>7 DEF Placed, IsActive, Segment
    <2> SUFFICES ASSUME NEW p \in Segment(i, t).at .. Segment(i, t).at + Segment(i, t).len - 1
                 PROVE  p < Size /\ Holds(content'[Segment(i, t).in], i, t, p)
      BY <1>2 DEF InPlace, Segment, Holds
    <2>1. /\ Segment(i, t).in \in Places /\ p \in Nat
          /\ [owner |-> i, segment |-> s] # Zero
      BY <1>1, SegmentShape, ZeroAssumption
    <2>2. CASE t = s
      <3>1. p \in at .. at + len - 1 /\ p < Size /\ p \in 0 .. Size - 1
        BY <2>1, <2>2, <1>1, <1>2, SizeAssumption DEF at, len
      <3>2. content'[in][p] = [owner |-> i, segment |-> s]
        BY <3>1, <1>1, <1>2, CopyPuts DEF at, len, in
      <3> QED BY <3>1, <3>2, <2>1, <2>2, <1>1 DEF Holds, in
    <2>3. CASE t # s
      <3>5. t \in Nat /\ s = applied[i] + 1
        BY <1>2, <1>6
      <3>0. t <= applied[i]
        BY <3>5, <2>3, <1>5
      <3>1. p < Size /\ Holds(content[Segment(i, t).in], i, t, p)
        BY <3>0, <1>2 DEF IInv, Placed, InPlace
      <3>2. p \in 0 .. Size - 1
        BY <3>1, <2>1, SizeAssumption
      <3>3. content'[Segment(i, t).in][p] \in {content[Segment(i, t).in][p], [owner |-> i, segment |-> s]}
        BY <3>2, <2>1, <1>1, <1>2, CopyPuts
      <3>4. s >= t
        OBVIOUS
      <3> QED BY <3>1, <3>3, <3>4, <2>1 DEF Holds
    <2> QED BY <2>2, <2>3
  <1> QED BY <1>11, <1>12, <1>13, <1>14, <1>15, <1>16, <1>17 DEF IInv

LEMMA PassStep ==
  ASSUME IInv, NEW i \in Ids, NEW s \in SegmentsOf(i), PassOver(i, s)
  PROVE  IInv'
PROOF
  <1>1. /\ Typed /\ s \in Nat /\ s >= 1 /\ applied[i] \in Nat /\ usable[i] \in SUBSET Nat
        /\ \A j \in Ids : \A t \in SegmentsOf(j) : t \in Nat /\ t >= 1
    BY SegmentShape DEF IInv, Typed
  <1>2. /\ ~IsActive(i, s) /\ status[i] = "segments" /\ s = applied[i] + 1
        /\ UNCHANGED <<tier, module, status, content, copies>>
    BY DEF PassOver, Current
  <1> DEFINE u == IF tier = "jit" /\ Segment(i, s).mode = "Passive" THEN usable[i] \cup {s} ELSE usable[i]
  <1>3. /\ usable' = [usable EXCEPT ![i] = u] /\ usable[i] \subseteq u /\ u \subseteq usable[i] \cup {s}
        /\ (tier = "jit" /\ Segment(i, s).mode = "Passive" => s \in u)
    BY DEF PassOver
  <1> HIDE DEF u
  <1>4. \A j \in Ids : /\ applied'[j] = IF j = i THEN s ELSE applied[j]
                       /\ usable'[j] = IF j = i THEN u ELSE usable[j]
                       /\ SegmentsOf(j)' = SegmentsOf(j)
    BY <1>1, <1>2, <1>3 DEF PassOver, Typed, SegmentsOf
  <1>5. \A j \in Ids : status[j] = "segments" => j = i
    BY <1>2 DEF IInv, OneLoads
  <1>6. Typed'
    <2>1. usable' \in [Ids -> SUBSET Nat]
      BY <1>1, <1>3 DEF Typed
    <2>2. applied' \in [Ids -> Nat]
      BY <1>1 DEF PassOver, Typed
    <2> QED BY <1>1, <1>2, <1>4, <2>1, <2>2 DEF Typed
  <1>7. OneLoads' /\ Untouched'
    BY <1>2, <1>4 DEF IInv, OneLoads, Untouched
  <1>8. NotEntered'
    BY <1>1, <1>2, <1>4 DEF IInv, NotEntered, Bodiless, Owns
  <1>9. Taken'
    <2> SUFFICES ASSUME NEW j \in Ids, NEW t \in SegmentsOf(j), Covered(j, t), t <= applied'[j]
                 PROVE  t \notin usable'[j] /\ copies[j][t] <= 1
      BY <1>2, <1>4 DEF Taken, Covered, IsActive, Segment
    <2>1. ~(j = i /\ t = s)
      BY <1>2 DEF Covered
    <2>2. CASE j = i
      <3>1. t <= applied[i]
        BY <2>1, <2>2, <1>1, <1>2, <1>4
      <3> QED BY <3>1, <2>1, <2>2, <1>1, <1>3, <1>4 DEF IInv, Taken
    <2>3. CASE j # i
      BY <2>3, <1>4 DEF IInv, Taken
    <2> QED BY <2>2, <2>3
  <1>10. Fresh'
    <2> SUFFICES ASSUME NEW t \in SegmentsOf(i), t > s PROVE copies[i][t] = 0
      BY <1>2, <1>4, <1>5 DEF Fresh
    <2>1. t > applied[i]
      BY <1>1, <1>2
    <2> QED BY <2>1, <1>2 DEF IInv, Fresh
  <1>11. PassiveKept'
    <2> SUFFICES ASSUME NEW t \in SegmentsOf(i), Promised(i, t)' PROVE t \in u
      BY <1>2, <1>4, <1>5 DEF PassiveKept
    <2>1. CASE Promised(i, t)
      BY <2>1, <1>2, <1>3 DEF IInv, PassiveKept
    <2>2. CASE ~Promised(i, t)
      <3>5. /\ Segment(i, t).mode = "Passive" /\ t <= s
            /\ ~(tier = "interp" \/ Segment(i, t).in = "memory" \/ t <= applied[i])
        BY <2>2, <1>2, <1>4 DEF Promised, Segment
      <3>6. t \in Nat /\ s = applied[i] + 1
        BY <1>1, <1>2
      <3>7. t = s
        BY <3>5, <3>6, <1>1
      <3>1. t = s /\ tier # "interp" /\ Segment(i, s).mode = "Passive"
        BY <3>5, <3>7
      <3> QED BY <3>1, <1>1, <1>3 DEF Typed
    <2> QED BY <2>1, <2>2
  <1>12. Placed'
    <2>0. \A t \in SegmentsOf(i) : InPlace(i, t)' = InPlace(i, t)
      BY <1>2 DEF InPlace, Segment, Holds
    <2> SUFFICES ASSUME NEW t \in SegmentsOf(i), IsActive(i, t), t <= s PROVE InPlace(i, t)
      BY <1>2, <1>4, <1>5, <2>0 DEF Placed, IsActive, Segment
    <2>1. t # s
      BY <1>2
    <2>2. t <= applied[i]
      BY <2>1, <1>1, <1>2
    <2> QED BY <2>2, <1>2 DEF IInv, Placed
  <1> QED BY <1>6, <1>7, <1>8, <1>9, <1>10, <1>11, <1>12 DEF IInv

-----------------------------------------------------------------------------
(* Code runs only between instantiations: the invariant's parts about the    *)
(* one under way say nothing then.                                           *)

LEMMA NoneLoading ==
  ASSUME ~Loading, UNCHANGED <<status, module>>, NEW i \in Ids
  PROVE  status'[i] # "segments"
  BY DEF Loading

LEMMA InitStep ==
  ASSUME IInv, NEW i \in Ids, NEW s \in SegmentsOf(i), NEW at \in 0 .. Size - 1, InitFrom(i, s, at)
  PROVE  IInv'
PROOF
  <1>1. /\ Typed /\ Copy(i, s, at) /\ s \in usable[i] /\ CanRun(i) /\ ~Loading
        /\ UNCHANGED <<tier, module, status, applied, usable>> /\ at \in Nat
    BY SizeAssumption DEF InitFrom, CanRun, IInv
  <1>2. \A j \in Ids : SegmentsOf(j)' = SegmentsOf(j)
    BY <1>1 DEF SegmentsOf
  <1>3. \A j \in Ids : status'[j] # "segments"
    BY <1>1, NoneLoading
  <1>4. Typed'
    BY <1>1, <1>2, CopyPuts, CopyCounts DEF Typed
  <1>5. OneLoads' /\ Untouched' /\ Fresh' /\ PassiveKept' /\ Placed'
    BY <1>1, <1>3 DEF IInv, OneLoads, Untouched, Fresh, PassiveKept, Placed
  <1>6. NotEntered'
    <2> SUFFICES ASSUME NEW j \in Ids, Bodiless(j)' PROVE ~Owns(j)'
      BY DEF NotEntered
    <2>1. Bodiless(j)
      BY <1>1 DEF Bodiless
    <2>2. j # i
      BY <2>1, <1>1 DEF Bodiless, CanRun
    <2>3. ~Owns(j)
      BY <2>1 DEF IInv, NotEntered
    <2> QED BY <1>1, <2>2, <2>3, CopyEnters
  <1>7. Taken'
    <2> SUFFICES ASSUME NEW j \in Ids, NEW t \in SegmentsOf(j), Covered(j, t), t <= applied[j]
                 PROVE  t \notin usable[j] /\ copies'[j][t] <= 1
      BY <1>1, <1>2 DEF Taken, Covered, IsActive, Segment
    <2>1. t \notin usable[j] /\ copies[j][t] <= 1
      BY DEF IInv, Taken
    <2>2. ~(j = i /\ t = s)
      BY <1>1, <2>1
    <2>3. copies'[j][t] = copies[j][t]
      BY <1>1, <2>2, CopyCounts
    <2> QED BY <2>1, <2>3
  <1> QED BY <1>4, <1>5, <1>6, <1>7 DEF IInv

LEMMA DropStep ==
  ASSUME IInv, NEW i \in Ids, NEW s \in SegmentsOf(i), DropSegment(i, s)
  PROVE  IInv'
PROOF
  <1>1. ~Loading /\ UNCHANGED <<tier, module, status, applied, content, copies>>
    BY DEF DropSegment, CanRun
  <1>2. \A j \in Ids : SegmentsOf(j)' = SegmentsOf(j) /\ usable'[j] \subseteq usable[j]
    BY <1>1 DEF DropSegment, SegmentsOf, IInv, Typed
  <1>3. \A j \in Ids : status'[j] # "segments"
    BY <1>1, NoneLoading
  <1>4. Typed'
    BY <1>1, <1>2 DEF DropSegment, IInv, Typed
  <1>5. OneLoads' /\ Untouched' /\ Fresh' /\ PassiveKept' /\ Placed'
    BY <1>1, <1>3 DEF IInv, OneLoads, Untouched, Fresh, PassiveKept, Placed
  <1>6. NotEntered'
    BY <1>1 DEF IInv, NotEntered, Bodiless, Owns
  <1>7. Taken'
    BY <1>1, <1>2 DEF IInv, Taken, Covered, IsActive, Segment
  <1> QED BY <1>4, <1>5, <1>6, <1>7 DEF IInv

LEMMA ClearStep ==
  ASSUME IInv, NEW p \in 0 .. Size - 1, Clear(p)
  PROVE  IInv'
PROOF
  <1>1. ~Loading /\ UNCHANGED <<tier, module, status, applied, usable, copies>>
    BY DEF Clear, CanRun
  <1>2. content' = [content EXCEPT !["table"] = [content["table"] EXCEPT ![p] = Zero]]
    BY DEF Clear, IInv, Typed, Places
  <1>3. \A j \in Ids : SegmentsOf(j)' = SegmentsOf(j) /\ status'[j] # "segments"
    BY <1>1, NoneLoading DEF SegmentsOf
  <1>4. Typed'
    <2>1. [content["table"] EXCEPT ![p] = Zero] \in [0 .. Size - 1 -> Cells]
      BY DEF IInv, Typed, Places, Cells
    <2> QED BY <1>1, <1>2, <1>3, <2>1 DEF IInv, Typed
  <1>5. OneLoads' /\ Untouched' /\ Fresh' /\ PassiveKept' /\ Placed'
    BY <1>1, <1>3 DEF IInv, OneLoads, Untouched, Fresh, PassiveKept, Placed
  <1>6. NotEntered'
    <2>1. \A j \in Ids : Owns(j)' => Owns(j)
      BY <1>2 DEF Owns, IInv, Typed, Places
    <2> QED BY <1>1, <2>1 DEF IInv, NotEntered, Bodiless
  <1>7. Taken'
    BY <1>1, <1>3 DEF IInv, Taken, Covered, IsActive, Segment
  <1> QED BY <1>4, <1>5, <1>6, <1>7 DEF IInv

LEMMA StutterStep == IInv /\ UNCHANGED vars => IInv'
PROOF
  <1> SUFFICES ASSUME IInv, UNCHANGED vars PROVE IInv'
    OBVIOUS
  <1> USE DEF vars
  <1>1. Typed' /\ OneLoads' /\ Untouched'
    BY DEF IInv, Typed, OneLoads, Untouched, SegmentsOf
  <1>2. NotEntered' /\ Taken' /\ Fresh'
    BY DEF IInv, NotEntered, Bodiless, Owns, Taken, Covered, IsActive, Segment, Fresh, SegmentsOf
  <1>3. PassiveKept'
    BY DEF IInv, PassiveKept, Promised, Segment, SegmentsOf
  <1>4. Placed'
    <2>1. \A j \in Ids : SegmentsOf(j)' = SegmentsOf(j)
      BY DEF SegmentsOf
    <2>2. ASSUME NEW j \in Ids, NEW s \in SegmentsOf(j)
          PROVE  (IsActive(j, s)' <=> IsActive(j, s)) /\ (InPlace(j, s)' <=> InPlace(j, s))
      BY DEF IsActive, InPlace, Segment
    <2> QED BY <2>1, <2>2 DEF IInv, Placed
  <1> QED BY <1>1, <1>2, <1>3, <1>4 DEF IInv

LEMMA NextHolds == IInv /\ [Next]_vars => IInv'
PROOF
  <1> SUFFICES ASSUME IInv, [Next]_vars PROVE IInv'
    OBVIOUS
  <1>1. CASE \E i \in Ids, m \in Modules : Begin(i, m)
    BY <1>1, BeginStep
  <1>2. CASE \E i \in Ids : FailsEarly(i) \/ NoMemory(i) \/ SegmentsDone(i) \/ StartEnds(i) \/ Free(i)
    BY <1>2, MoveSteps
  <1>3. CASE \E i \in Ids : \E s \in SegmentsOf(i) :
               \/ ApplyActive(i, s) \/ PassOver(i, s) \/ DoesNotFit(i, s) \/ DropSegment(i, s)
               \/ \E at \in 0 .. Size - 1 : InitFrom(i, s, at)
    <2> DEFINE Step(i, s) ==
               \/ ApplyActive(i, s) \/ PassOver(i, s) \/ DoesNotFit(i, s) \/ DropSegment(i, s)
               \/ \E at \in 0 .. Size - 1 : InitFrom(i, s, at)
    <2>a. PICK i \in Ids : \E s \in SegmentsOf(i) : Step(i, s)
      BY <1>3
    <2>b. PICK s \in SegmentsOf(i) : Step(i, s)
      BY <2>a
    <2>1. CASE DoesNotFit(i, s)
      BY <2>1, MoveSteps
    <2>2. CASE ~DoesNotFit(i, s)
      BY <2>2, <2>b, ApplyStep, PassStep, DropStep, InitStep
    <2> QED BY <2>1, <2>2
  <1>4. CASE \E p \in 0 .. Size - 1 : Clear(p)
    BY <1>4, ClearStep
  <1>5. CASE UNCHANGED vars
    BY <1>5, StutterStep
  <1> QED BY <1>1, <1>2, <1>3, <1>4, <1>5 DEF Next

LEMMA Invariance == Spec => []IInv
PROOF
  <1> QED BY InitHolds, NextHolds, PTL DEF Spec

-----------------------------------------------------------------------------
(* The theorems.                                                             *)

(* Whatever instantiations fail at, each reference left in the shared table  *)
(* leads to an instance with a body, or to one that had a body when it was   *)
(* freed (EntriesAreCallable), for any instances, modules and table size.    *)
THEOREM FailuresLeaveCallableEntries == Spec => []EntriesAreCallable
PROOF
  <1>1. IInv => EntriesAreCallable
    BY DEF IInv, Typed, Statuses, NotEntered, Bodiless, EntriesAreCallable
  <1> QED BY <1>1, Invariance, PTL

(* No active segment that is to be dropped after use is ever copied twice.   *)
THEOREM SegmentsAreSpent == Spec => []SpentOnce
PROOF
  <1>1. IInv => SpentOnce
    BY DEF IInv, Taken, Covered, SpentOnce, CopiedOnce
  <1> QED BY <1>1, Invariance, PTL

\* Only one action has an instance's segments done.
LEMMA DoneIsWhole ==
  ASSUME IInv, [Next]_vars, NEW i \in Ids, status[i] = "segments", status'[i] \in {"start", "whole"}
  PROVE  SegmentsDone(i)
PROOF
  <1>1. status' # status
    OBVIOUS
  <1>2. \A j \in Ids : SegmentsDone(j) => j = i
    BY DEF IInv, OneLoads, SegmentsDone
  <1>3. ~ \E j \in Ids, m \in Modules : Begin(j, m)
    BY DEF Begin, Loading
  <1>4. ~ \E j \in Ids : FailsEarly(j) \/ NoMemory(j)
    BY DEF FailsEarly, NoMemory, Stopped, IInv, OneLoads, Typed
  <1>5. ~ \E j \in Ids : StartEnds(j) \/ Free(j)
    BY DEF StartEnds, Free, Stopped, IInv, Typed
  <1>6. ~ \E j \in Ids : \E s \in SegmentsOf(j) : DoesNotFit(j, s)
    BY DEF DoesNotFit, Current, Stopped, IInv, Typed
  <1>7. ~ \E j \in Ids : \E s \in SegmentsOf(j) :
            ApplyActive(j, s) \/ PassOver(j, s) \/ DropSegment(j, s)
            \/ \E at \in 0 .. Size - 1 : InitFrom(j, s, at)
    BY <1>1 DEF ApplyActive, PassOver, DropSegment, InitFrom
  <1>8. ~ \E p \in 0 .. Size - 1 : Clear(p)
    BY <1>1 DEF Clear
  <1> QED BY <1>1, <1>2, <1>3, <1>4, <1>5, <1>6, <1>7, <1>8 DEF Next, vars

\* What makes a failed instance partial leaves its segments as they are.
LEMMA PartialKeeps ==
  ASSUME IInv, [Next]_vars, NEW i \in Ids, status[i] = "segments", status'[i] = "partial"
  PROVE  usable' = usable
PROOF
  <1>1. status' # status
    OBVIOUS
  <1>2. ~ \E j \in Ids, m \in Modules : Begin(j, m)
    BY DEF Begin, Loading
  <1>3. \A j \in Ids : FailsEarly(j) \/ NoMemory(j) \/ SegmentsDone(j) \/ StartEnds(j) => usable' = usable
    BY DEF FailsEarly, NoMemory, SegmentsDone, StartEnds
  <1>4. ~ \E j \in Ids : Free(j)
    BY DEF Free, Loading
  <1>5. \A j \in Ids : \A s \in SegmentsOf(j) : DoesNotFit(j, s) => usable' = usable
    BY DEF DoesNotFit
  <1>6. ~ \E j \in Ids : \E s \in SegmentsOf(j) :
            ApplyActive(j, s) \/ PassOver(j, s) \/ DropSegment(j, s)
            \/ \E at \in 0 .. Size - 1 : InitFrom(j, s, at)
    BY <1>1 DEF ApplyActive, PassOver, DropSegment, InitFrom
  <1>7. ~ \E p \in 0 .. Size - 1 : Clear(p)
    BY <1>1 DEF Clear
  <1> QED BY <1>1, <1>2, <1>3, <1>4, <1>5, <1>6, <1>7 DEF Next, vars

\* An instance that is through its segments has nothing left to promise.
LEMMA DoneHasAll ==
  ASSUME IInv, NEW i \in Ids, SegmentsDone(i), NEW s \in SegmentsOf(i)
  PROVE  s <= applied[i]
PROOF
  <1>1. s <= Len(module[i].segments)
    BY SegmentShape DEF IInv
  <1> QED BY <1>1 DEF SegmentsDone

(* The start function, or the embedder, finds every active segment of the    *)
(* module in its place, or under a later one (StartSeesAll).                 *)
THEOREM StartFindsSegments == Spec => StartSeesAll
PROOF
  <1> DEFINE Seen(i) ==
        status[i] = "segments" /\ status'[i] \in {"start", "whole"} =>
          \A s \in SegmentsOf(i) : IsActive(i, s) =>
            \A p \in Segment(i, s).at .. Segment(i, s).at + Segment(i, s).len - 1 :
              /\ p < Size
              /\ content'[Segment(i, s).in][p] # Zero
              /\ content'[Segment(i, s).in][p].owner = i
              /\ content'[Segment(i, s).in][p].segment >= s
  <1>1. ASSUME IInv, [Next]_vars, NEW i \in Ids PROVE Seen(i)
    <2> SUFFICES ASSUME status[i] = "segments", status'[i] \in {"start", "whole"},
                        NEW s \in SegmentsOf(i), IsActive(i, s)
                 PROVE  InPlace(i, s) /\ content' = content
      BY DEF InPlace, Holds
    <2>1. SegmentsDone(i)
      BY <1>1, DoneIsWhole
    <2>2. s <= applied[i]
      BY <1>1, <2>1, DoneHasAll
    <2> QED BY <1>1, <2>1, <2>2 DEF IInv, Placed, SegmentsDone
  <1>2. IInv /\ [Next]_vars => [\A i \in Ids : Seen(i)]_vars
    BY <1>1
  <1> QED BY <1>2, Invariance, PTL DEF Spec, StartSeesAll

(* Code of a module finds its passive segments, in the interpreter also the  *)
(* code that a failed instantiation left behind (PassiveReady).              *)
THEOREM PassiveSegmentsAreReady == Spec => PassiveReady
PROOF
  <1> DEFINE Ready(i) ==
        /\ status[i] = "segments"
        /\ status'[i] \in {"start", "whole"} \/ (status'[i] = "partial" /\ tier = "interp")
        => \A s \in SegmentsOf(i) : Segment(i, s).mode = "Passive" => s \in usable'[i]
  <1>1. ASSUME IInv, [Next]_vars, NEW i \in Ids PROVE Ready(i)
    <2> SUFFICES ASSUME status[i] = "segments",
                        status'[i] \in {"start", "whole"} \/ (status'[i] = "partial" /\ tier = "interp"),
                        NEW s \in SegmentsOf(i), Segment(i, s).mode = "Passive"
                 PROVE  s \in usable'[i]
      OBVIOUS
    <2>1. CASE status'[i] \in {"start", "whole"}
      <3>1. SegmentsDone(i)
        BY <1>1, <2>1, DoneIsWhole
      <3>2. s <= applied[i]
        BY <1>1, <3>1, DoneHasAll
      <3> QED BY <1>1, <3>1, <3>2 DEF IInv, PassiveKept, Promised, SegmentsDone
    <2>2. CASE status'[i] = "partial" /\ tier = "interp"
      <3>1. s \in usable[i]
        BY <1>1, <2>2 DEF IInv, PassiveKept, Promised
      <3>2. usable' = usable
        BY <1>1, <2>2, PartialKeeps
      <3> QED BY <3>1, <3>2
    <2> QED BY <2>1, <2>2
  <1>2. IInv /\ [Next]_vars => [\A i \in Ids : Ready(i)]_vars
    BY <1>1
  <1> QED BY <1>2, Invariance, PTL DEF Spec, PassiveReady

-----------------------------------------------------------------------------
(* Where the content comes from.                                             *)

\* Segment s is one of instance i that goes to this place, no declaration of the
\* table's, and i is not one that could still end without a body.
Sourced(place, i, s) ==
  /\ s \in SegmentsOf(i)
  /\ Segment(i, s).in = place
  /\ place = "table" => Segment(i, s).mode # "Declarative"
  /\ ~Bodiless(i)

CellsSourced ==
  \A place \in Places : \A p \in 0 .. Size - 1 :
    content[place][p] # Zero =>
      Sourced(place, content[place][p].owner, content[place][p].segment)

DeclarationsUnusable ==
  \A i \in Ids : \A s \in SegmentsOf(i) :
    s \in usable[i] /\ Segment(i, s).in = "table" => Segment(i, s).mode # "Declarative"

\* With IInv, inductive.
Provenance == CellsSourced /\ DeclarationsUnusable

LEMMA ProvenanceInit == Init => Provenance
PROOF
  <1> SUFFICES ASSUME Init PROVE Provenance
    OBVIOUS
  <1>1. CellsSourced
    BY DEF CellsSourced, Init
  <1>2. \A i \in Ids : usable[i] = {}
    BY DEF Init
  <1> QED BY <1>1, <1>2 DEF Provenance, DeclarationsUnusable

\* An instance that cannot end without a body any more keeps its module.
LEMMA EnteredStays ==
  ASSUME IInv, [Next]_vars, NEW i \in Ids, ~Bodiless(i)
  PROVE  ~Bodiless(i)' /\ module'[i] = module[i]
PROOF
  <1>1. ASSUME NEW j \in Ids, NEW m \in Modules, Begin(j, m)
        PROVE  ~Bodiless(i)' /\ module'[i] = module[i]
    <2>1. j # i
      BY <1>1 DEF Begin, Bodiless
    <2> QED BY <1>1, <2>1 DEF Begin, Bodiless, IInv, Typed
  <1>2. ASSUME NEW j \in Ids, FailsEarly(j) PROVE ~Bodiless(i)' /\ module'[i] = module[i]
    <2>1. j # i
      BY <1>2 DEF FailsEarly, Bodiless
    <2> QED BY <1>2, <2>1 DEF FailsEarly, Bodiless, IInv, Typed
  <1>3. ASSUME NEW j \in Ids,
               \/ NoMemory(j) \/ SegmentsDone(j) \/ StartEnds(j) \/ Free(j)
               \/ \E s \in SegmentsOf(j) : DoesNotFit(j, s)
        PROVE  ~Bodiless(i)' /\ module'[i] = module[i]
    <2>1. UNCHANGED <<module, applied>>
      BY <1>3 DEF NoMemory, SegmentsDone, StartEnds, Free, DoesNotFit
    <2>2. status'[i] \in {status[i], "partial", "start", "whole", "freed"}
      BY <1>3 DEF NoMemory, SegmentsDone, StartEnds, Free, DoesNotFit, Stopped, IInv, Typed
    <2> QED BY <2>1, <2>2 DEF Bodiless
  <1>4. ASSUME NEW j \in Ids, NEW s \in SegmentsOf(j), ApplyActive(j, s) \/ PassOver(j, s)
        PROVE  ~Bodiless(i)' /\ module'[i] = module[i]
    <2>1. UNCHANGED <<module, status>> /\ applied' = [applied EXCEPT ![j] = s]
      BY <1>4 DEF ApplyActive, PassOver
    <2>2. s \in Nat /\ s >= 1 /\ applied[i] \in Nat
      BY SegmentShape DEF IInv, Typed
    <2>3. applied'[i] = applied[i] \/ applied'[i] = s
      BY <2>1 DEF IInv, Typed
    <2> QED BY <2>1, <2>2, <2>3 DEF Bodiless
  <1>5. ASSUME NEW j \in Ids, NEW s \in SegmentsOf(j),
               DropSegment(j, s) \/ \E at \in 0 .. Size - 1 : InitFrom(j, s, at)
        PROVE  ~Bodiless(i)' /\ module'[i] = module[i]
    BY <1>5 DEF DropSegment, InitFrom, Bodiless
  <1>6. ASSUME NEW p \in 0 .. Size - 1, Clear(p) PROVE ~Bodiless(i)' /\ module'[i] = module[i]
    BY <1>6 DEF Clear, Bodiless
  <1>7. CASE UNCHANGED vars
    BY <1>7 DEF vars, Bodiless
  <1> QED BY <1>1, <1>2, <1>3, <1>4, <1>5, <1>6, <1>7 DEF Next

LEMMA SourceStays ==
  ASSUME IInv, [Next]_vars, NEW place, NEW i \in Ids, NEW s, Sourced(place, i, s)
  PROVE  Sourced(place, i, s)'
PROOF
  <1>1. ~Bodiless(i)' /\ module'[i] = module[i]
    BY EnteredStays DEF Sourced
  <1> QED BY <1>1 DEF Sourced, SegmentsOf, Segment

\* What a step puts into a cell is a copy of a segment, or nothing.
LEMMA CellsChange ==
  ASSUME IInv, DeclarationsUnusable, [Next]_vars, NEW place \in Places, NEW p \in 0 .. Size - 1
  PROVE  \/ content'[place][p] \in {content[place][p], Zero}
         \/ \E i \in Ids : \E s \in SegmentsOf(i) :
              content'[place][p] = [owner |-> i, segment |-> s] /\ Sourced(place, i, s)'
PROOF
  <1> DEFINE Stayed(c) == c \in {content[place][p], Zero}
             Copied(c) == \E i \in Ids : \E s \in SegmentsOf(i) :
                            c = [owner |-> i, segment |-> s] /\ Sourced(place, i, s)'
  <1>1. ASSUME NEW i \in Ids, NEW s \in SegmentsOf(i), NEW at \in Nat, Copy(i, s, at),
               ~Bodiless(i)', module' = module,
               Segment(i, s).in = "table" => Segment(i, s).mode # "Declarative"
        PROVE  Stayed(content'[place][p]) \/ Copied(content'[place][p])
    <2>1. CASE place = Segment(i, s).in
      <3>1. content'[place][p] \in {content[place][p], [owner |-> i, segment |-> s]}
        BY <1>1, <2>1, CopyPuts DEF IInv
      <3>2. Sourced(place, i, s)'
        BY <1>1, <2>1 DEF Sourced, SegmentsOf, Segment
      <3> QED BY <3>1, <3>2
    <2>2. CASE place # Segment(i, s).in
      BY <1>1, <2>2, CopyPuts DEF IInv
    <2> QED BY <2>1, <2>2
  <1>2. ASSUME NEW i \in Ids, NEW s \in SegmentsOf(i), ApplyActive(i, s)
        PROVE  Stayed(content'[place][p]) \/ Copied(content'[place][p])
    <2>1. /\ Segment(i, s).at \in Nat /\ s \in Nat /\ s >= 1
          /\ Copy(i, s, Segment(i, s).at) /\ UNCHANGED <<module, status>>
          /\ status[i] = "segments" /\ Segment(i, s).mode = "Active"
      BY <1>2, SegmentShape DEF ApplyActive, Current, IsActive, IInv
    <2>2. applied'[i] = s
      BY <1>2 DEF ApplyActive, IInv, Typed
    <2>3. ~Bodiless(i)'
      BY <2>1, <2>2 DEF Bodiless
    <2> QED BY <1>1, <2>1, <2>3
  <1>3. ASSUME NEW i \in Ids, NEW s \in SegmentsOf(i), NEW at \in 0 .. Size - 1, InitFrom(i, s, at)
        PROVE  Stayed(content'[place][p]) \/ Copied(content'[place][p])
    <2>1. /\ Copy(i, s, at) /\ at \in Nat /\ s \in usable[i]
          /\ UNCHANGED <<module, status, applied>>
          /\ status[i] \in {"start", "whole", "partial"}
      BY <1>3, SizeAssumption DEF InitFrom, CanRun
    <2>2. ~Bodiless(i)'
      BY <2>1 DEF Bodiless
    <2>3. Segment(i, s).in = "table" => Segment(i, s).mode # "Declarative"
      BY <2>1 DEF DeclarationsUnusable
    <2> QED BY <1>1, <2>1, <2>2, <2>3
  <1>4. ASSUME NEW q \in 0 .. Size - 1, Clear(q) PROVE Stayed(content'[place][p])
    <2>1. content' = [content EXCEPT !["table"] = [content["table"] EXCEPT ![q] = Zero]]
      BY <1>4 DEF Clear
    <2> QED BY <2>1 DEF IInv, Typed, Places
  <1>5. ASSUME NEW i \in Ids, NEW m \in Modules, Begin(i, m) PROVE content' = content
    BY <1>5 DEF Begin
  <1>6. ASSUME NEW i \in Ids, FailsEarly(i) \/ NoMemory(i) \/ SegmentsDone(i) \/ StartEnds(i) \/ Free(i)
        PROVE  content' = content
    BY <1>6 DEF FailsEarly, NoMemory, SegmentsDone, StartEnds, Free
  <1>7. ASSUME NEW i \in Ids, NEW s \in SegmentsOf(i), PassOver(i, s) \/ DoesNotFit(i, s) \/ DropSegment(i, s)
        PROVE  content' = content
    BY <1>7 DEF PassOver, DoesNotFit, DropSegment
  <1>8. ASSUME UNCHANGED vars PROVE content' = content
    BY <1>8 DEF vars
  <1>9. Stayed(content'[place][p]) \/ Copied(content'[place][p])
    <2>1. content' = content => Stayed(content'[place][p])
      OBVIOUS
    <2> HIDE DEF Stayed, Copied
    <2>2. CASE \/ UNCHANGED vars
               \/ \E i \in Ids, m \in Modules : Begin(i, m)
               \/ \E i \in Ids : FailsEarly(i) \/ NoMemory(i) \/ SegmentsDone(i) \/ StartEnds(i) \/ Free(i)
      BY <2>1, <2>2, <1>5, <1>6, <1>8
    <2>3. CASE \E i \in Ids : \E s \in SegmentsOf(i) :
                 \/ ApplyActive(i, s) \/ PassOver(i, s) \/ DoesNotFit(i, s) \/ DropSegment(i, s)
                 \/ \E at \in 0 .. Size - 1 : InitFrom(i, s, at)
      BY <2>1, <2>3, <1>2, <1>3, <1>7
    <2>4. CASE \E q \in 0 .. Size - 1 : Clear(q)
      BY <2>4, <1>4
    <2> QED BY <2>2, <2>3, <2>4 DEF Next
  <1> QED BY <1>9

\* A declarative element segment never becomes usable.
LEMMA DeclarationsStay ==
  ASSUME IInv, DeclarationsUnusable, [Next]_vars
  PROVE  DeclarationsUnusable'
PROOF
  <1> DEFINE Same(i) == module'[i] = module[i] /\ usable'[i] \subseteq usable[i]
  <1>1. ASSUME NEW i \in Ids, Same(i), NEW s \in SegmentsOf(i)', s \in usable'[i], Segment(i, s)'.in = "table"
        PROVE  Segment(i, s)'.mode # "Declarative"
    BY <1>1 DEF DeclarationsUnusable, SegmentsOf, Segment
  <1>2. ASSUME NEW i \in Ids, NEW m \in Modules, Begin(i, m) PROVE DeclarationsUnusable'
    <2>1. \A j \in Ids : j # i => Same(j)
      BY <1>2 DEF Begin, IInv, Typed
    <2>2. module'[i] = m /\ usable'[i] = Held(m)
      BY <1>2 DEF Begin, IInv, Typed
    <2>3. ASSUME NEW s \in SegmentsOf(i)', s \in usable'[i], Segment(i, s)'.in = "table"
          PROVE  Segment(i, s)'.mode # "Declarative"
      BY <2>2, <2>3 DEF Held, Kept, SegmentsOf, Segment
    <2> QED BY <1>1, <2>1, <2>3 DEF DeclarationsUnusable
  <1>3. ASSUME NEW i \in Ids, NEW s \in SegmentsOf(i), PassOver(i, s) PROVE DeclarationsUnusable'
    <2>1. module' = module /\ \A j \in Ids : j # i => usable'[j] = usable[j]
      BY <1>3 DEF PassOver, IInv, Typed
    <2>2. usable'[i] \subseteq usable[i] \/ (Segment(i, s).mode = "Passive" /\ usable'[i] = usable[i] \cup {s})
      BY <1>3 DEF PassOver, IInv, Typed
    <2>3. ASSUME NEW t \in SegmentsOf(i)', t \in usable'[i], Segment(i, t)'.in = "table"
          PROVE  Segment(i, t)'.mode # "Declarative"
      BY <2>1, <2>2, <2>3 DEF DeclarationsUnusable, SegmentsOf, Segment
    <2> QED BY <1>1, <2>1, <2>3 DEF DeclarationsUnusable
  <1>4. ASSUME NEW i \in Ids, FailsEarly(i) \/ NoMemory(i) \/ SegmentsDone(i) \/ StartEnds(i) \/ Free(i)
        PROVE  \A j \in Ids : Same(j)
    BY <1>4 DEF FailsEarly, NoMemory, SegmentsDone, StartEnds, Free, IInv, Typed
  <1>5. ASSUME NEW i \in Ids, NEW s \in SegmentsOf(i),
               \/ ApplyActive(i, s) \/ DoesNotFit(i, s) \/ DropSegment(i, s)
               \/ \E at \in 0 .. Size - 1 : InitFrom(i, s, at)
        PROVE  \A j \in Ids : Same(j)
    BY <1>5 DEF ApplyActive, Spent, DoesNotFit, DropSegment, InitFrom, IInv, Typed
  <1>6. ASSUME NEW p \in 0 .. Size - 1, Clear(p) PROVE \A j \in Ids : Same(j)
    BY <1>6 DEF Clear
  <1>7. CASE UNCHANGED vars
    BY <1>1, <1>7 DEF vars, DeclarationsUnusable
  <1>8. (\A j \in Ids : Same(j)) => DeclarationsUnusable'
    BY <1>1 DEF DeclarationsUnusable
  <1> HIDE DEF Same
  <1> QED BY <1>2, <1>3, <1>4, <1>5, <1>6, <1>7, <1>8 DEF Next

LEMMA ProvenanceStep == IInv /\ Provenance /\ [Next]_vars => Provenance'
PROOF
  <1> SUFFICES ASSUME IInv, Provenance, [Next]_vars PROVE Provenance'
    OBVIOUS
  <1>1. DeclarationsUnusable'
    BY DeclarationsStay DEF Provenance
  <1>2. ASSUME NEW place \in Places, NEW p \in 0 .. Size - 1, content'[place][p] # Zero
        PROVE  Sourced(place, content[place][p].owner, content[place][p].segment)'
    <2>1. CASE content'[place][p] = content[place][p]
      <3>1. PICK i, s : i = content[place][p].owner /\ s = content[place][p].segment
        OBVIOUS
      <3>2. i \in Ids
        <4>1. content[place][p] \in Cells
          BY DEF IInv, Typed
        <4>2. content[place][p] # Zero
          BY <1>2, <2>1
        <4>3. PICK c : c = content[place][p]
          OBVIOUS
        <4>4. c \in [owner : Ids, segment : Nat]
          BY <4>1, <4>2, <4>3 DEF Cells
        <4> QED BY <3>1, <4>3, <4>4
      <3>3. Sourced(place, i, s)
        BY <1>2, <2>1, <3>1 DEF Provenance, CellsSourced
      <3>4. Sourced(place, i, s)'
        BY <3>2, <3>3, SourceStays
      <3> QED BY <2>1, <3>1, <3>4
    <2>2. CASE \E i \in Ids : \E s \in SegmentsOf(i) :
                 content'[place][p] = [owner |-> i, segment |-> s] /\ Sourced(place, i, s)'
      <3>1. PICK i \in Ids : \E s \in SegmentsOf(i) :
              content'[place][p] = [owner |-> i, segment |-> s] /\ Sourced(place, i, s)'
        BY <2>2
      <3>2. PICK s \in SegmentsOf(i) :
              content'[place][p] = [owner |-> i, segment |-> s] /\ Sourced(place, i, s)'
        BY <3>1
      <3>3. content'[place][p].owner = i /\ content'[place][p].segment = s
        BY <3>2
      <3> QED BY <3>2, <3>3
    <2> QED BY <1>2, <2>1, <2>2, CellsChange DEF Provenance
  <1> QED BY <1>1, <1>2 DEF Provenance, CellsSourced

LEMMA ProvenanceHolds == Spec => []Provenance
PROOF
  <1> QED BY ProvenanceInit, ProvenanceStep, Invariance, PTL DEF Spec

(* Each cell that is in use holds a copy of a segment of its owner's module,  *)
(* of an element segment in the table and of a data segment in the memory,   *)
(* and never of a declarative element segment, which is there for ref.func   *)
(* only and is dropped from the beginning (vm/interpreter/exec.rs).          *)
ContentIsOfSegments ==
  \A place \in Places : \A p \in 0 .. Size - 1 :
    LET cell == content[place][p] IN
    cell # Zero =>
      /\ cell.segment \in SegmentsOf(cell.owner)
      /\ Segment(cell.owner, cell.segment).in = place
      /\ place = "table" => Segment(cell.owner, cell.segment).mode # "Declarative"

(* What the shared table and memory hold comes from segments that may be     *)
(* copied, whatever init instructions ran and wherever instantiations failed. *)
THEOREM ContentHasItsSegment == Spec => []ContentIsOfSegments
PROOF
  <1>1. Provenance => ContentIsOfSegments
    BY DEF Provenance, CellsSourced, Sourced, ContentIsOfSegments
  <1> QED BY <1>1, ProvenanceHolds, PTL

(* An instance that ends without a body has written nothing: no byte of the   *)
(* memory and no entry of the table is its own, so that giving the body up    *)
(* leaves nothing behind (InstanceTable::abandon, vm/link.rs).               *)
AbandonedLeavesNothing ==
  \A i \in Ids : status[i] = "abandoned" =>
    \A place \in Places : \A p \in 0 .. Size - 1 :
      content[place][p] # Zero => content[place][p].owner # i

(* An instantiation is undone completely or its body is kept: there is       *)
(* nothing in between, in the memory any less than in the table.             *)
THEOREM AbandonedIsAllGone == Spec => []AbandonedLeavesNothing
PROOF
  <1>1. Provenance => AbandonedLeavesNothing
    BY DEF Provenance, CellsSourced, Sourced, Bodiless, AbandonedLeavesNothing
  <1> QED BY <1>1, ProvenanceHolds, PTL
=============================================================================
