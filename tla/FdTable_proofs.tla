--------------------------- MODULE FdTable_proofs ---------------------------
(* Theorems about FdTable: no descriptor is hidden behind another, no object *)
(* has two numbers, the table implements FdMap, rights only shrink, and the  *)
(* text of a host path continues that of the directory it was opened in.     *)
EXTENDS FdTable, FiniteSets, FiniteSetTheorems, SequenceTheorems, WellFoundedInduction, TLAPS

IsEntry(e) == {"kind", "object", "base", "inh"} \subseteq DOMAIN e /\ e.kind \in {"Dir", "File"}

(* What an entry is, as far as numbers are concerned.  Paths come later.     *)
Shape ==
  /\ fds = [n \in Numbers |-> fds[n]]
  /\ \A n \in Numbers :
       fds[n] = NoEntry \/ (IsEntry(fds[n]) /\ fds[n].object \in 0 .. next_fd - 1)
  /\ closed_preopens \subseteq PreopenFds
  /\ closed_stdio \subseteq Stdio
  /\ next_fd \in Streams + Preopens .. MaxFd + 1

IInv == Shape /\ NothingHidden /\ OneNumberEach

USE NumbersAssumption

-----------------------------------------------------------------------------
(* Lemmas on looking a number up.                                            *)

(* A number that is found leads to an object that was handed out, which is   *)
(* not the value that stands for no object.                                  *)
LEMMA Looked ==
  ASSUME Shape, NEW n \in Numbers, Lookup(n) # NoEntry
  PROVE  /\ IsEntry(Lookup(n))
         /\ Lookup(n).object \in 0 .. next_fd - 1
         /\ Lookup(n).object # Nowhere
  BY NowhereAssumption
  DEF Shape, Lookup, IsPreopen, PreopenEntry, PreopenFds, NoEntry, Numbers, Stdio, IsEntry

(* Every number's object is one that was handed out, or none.                *)
LEMMA ObjectsTyped ==
  ASSUME Shape, NEW n \in Numbers
  PROVE  /\ ObjectOf(n) = Nowhere \/ ObjectOf(n) \in 0 .. next_fd - 1
         /\ ObjectOf(n) = Nowhere <=> (n \notin Stdio \ closed_stdio /\ Lookup(n) = NoEntry)
<1>1. CASE n \in Stdio \ closed_stdio
  BY <1>1, NowhereAssumption DEF ObjectOf, Stdio, Shape, Numbers
<1>2. CASE n \notin Stdio \ closed_stdio /\ Lookup(n) = NoEntry
  BY <1>2 DEF ObjectOf
<1>3. CASE n \notin Stdio \ closed_stdio /\ Lookup(n) # NoEntry
  BY <1>3, Looked DEF ObjectOf
<1> QED BY <1>1, <1>2, <1>3

(* A new entry has a kind, so it is not the absence of one.                  *)
LEMMA PreopenIsEntry ==
  ASSUME NEW n PROVE PreopenEntry(n) # NoEntry /\ PreopenEntry(n).object = n
  BY DEF PreopenEntry, NoEntry

-----------------------------------------------------------------------------
(* Each action, seen as a step of FdMap.                                     *)

(* path_open hands out a new number for a new object.                        *)
LEMMA OpenStep ==
  ASSUME IInv, NEW fd \in Numbers, NEW rel, NEW oflags, NEW base, NEW inh,
         PathOpen(fd, rel, oflags, base, inh)
  PROVE  Shape' /\ NothingHidden' /\ Map!Open(next_fd) /\ next_fd \in Numbers
<1>1. PICK entry : /\ AllocFd(entry)
                   /\ IsEntry(entry)
                   /\ entry.object = next_fd
  BY DEF PathOpen, OpenDir, OpenFile, IsEntry
<1>2. UNCHANGED <<closed_preopens, closed_stdio>>
  BY DEF PathOpen
<1>3. /\ next_fd \in Numbers
      /\ next_fd \notin Stdio \cup PreopenFds
      /\ next_fd' = next_fd + 1
      /\ fds' = [fds EXCEPT ![next_fd] = entry]
  BY <1>1 DEF AllocFd, IInv, Shape, Numbers, Stdio, PreopenFds
<1>4. entry # NoEntry
  BY <1>1 DEF NoEntry, IsEntry
<1>5. Shape'
  <2>1. /\ fds'[next_fd] = entry
        /\ \A n \in Numbers \ {next_fd} : fds'[n] = fds[n]
        /\ fds' = [n \in Numbers |-> fds'[n]]
    BY <1>3 DEF IInv, Shape
  <2>2. 0 .. next_fd - 1 \subseteq 0 .. next_fd' - 1 /\ next_fd \in 0 .. next_fd' - 1
    BY <1>3 DEF Numbers, IInv, Shape
  <2>3. \A n \in Numbers : fds'[n] = NoEntry \/ (IsEntry(fds'[n])
                                                 /\ fds'[n].object \in 0 .. next_fd' - 1)
    BY <1>1, <2>1, <2>2 DEF IInv, Shape
  <2>4. next_fd' \in Streams + Preopens .. MaxFd + 1
    BY <1>3 DEF Numbers, IInv, Shape
  <2> QED BY <1>2, <2>1, <2>3, <2>4 DEF IInv, Shape
<1>6. NothingHidden'
  BY <1>2, <1>3 DEF IInv, NothingHidden, IsPreopen, Shape, Numbers, Stdio, PreopenFds
<1>. PICK k : k = next_fd
  OBVIOUS
<1>7. /\ \A n \in Numbers : n # k => Lookup(n)' = Lookup(n)
      /\ Lookup(k)' = entry
  <2>1. \A n \in Numbers : IsPreopen(n)' <=> IsPreopen(n)
    BY <1>2 DEF IsPreopen
  <2>2. ~IsPreopen(k)
    BY <1>3 DEF IsPreopen
  <2>3. fds'[k] = entry /\ \A n \in Numbers \ {k} : fds'[n] = fds[n]
    BY <1>3 DEF IInv, Shape
  <2> QED BY <1>3, <2>1, <2>2, <2>3 DEF Lookup, PreopenEntry
<1>8. Objects' = [Objects EXCEPT ![k] = k]
  <2>1. ObjectOf(k)' = k
    BY <1>1, <1>2, <1>3, <1>4, <1>7 DEF ObjectOf
  <2>2. \A n \in Numbers \ {k} : ObjectOf(n)' = ObjectOf(n)
    BY <1>2, <1>7 DEF ObjectOf
  <2> QED BY <1>3, <2>1, <2>2 DEF Objects
<1>9. (0 .. next_fd - 1)' = (0 .. next_fd - 1) \cup {next_fd}
  BY <1>3 DEF Numbers, IInv, Shape
<1> QED BY <1>3, <1>5, <1>6, <1>8, <1>9 DEF Map!Open, IInv, Shape

(* fd_close ends the number's object; closing a stream twice does nothing.   *)
LEMMA CloseStep ==
  ASSUME IInv, NEW fd \in Numbers, FdClose(fd)
  PROVE  /\ Shape' /\ NothingHidden'
         /\ Map!Close(fd) \/ UNCHANGED Map!vars
<1>0. next_fd' = next_fd
  BY DEF FdClose
<1>1. CASE fd \in Stdio /\ closed_stdio' = closed_stdio \cup {fd} /\ UNCHANGED <<fds, closed_preopens>>
  <2>1. Shape' /\ NothingHidden'
    BY <1>0, <1>1 DEF IInv, Shape, NothingHidden, IsPreopen
  <2>2. \A n \in Numbers : Lookup(n)' = Lookup(n)
    BY <1>1 DEF Lookup, IsPreopen, PreopenEntry
  <2>3. CASE fd \in closed_stdio
    <3>1. closed_stdio' = closed_stdio
      BY <1>1, <2>3
    <3>2. Objects' = Objects
      BY <2>2, <3>1 DEF Objects, ObjectOf
    <3> QED BY <1>0, <2>1, <3>2 DEF Map!vars
  <2>4. CASE fd \notin closed_stdio
    <3>1. Lookup(fd) = NoEntry
      BY <1>1, <2>4 DEF Lookup, IInv, NothingHidden, IsPreopen, PreopenFds, Stdio
    <3>2. ObjectOf(fd) # Nowhere
      BY <1>1, <2>4, ObjectsTyped DEF IInv
    <3>3. Objects' = [Objects EXCEPT ![fd] = Nowhere]
      BY <1>1, <2>2, <3>1 DEF Objects, ObjectOf
    <3> QED BY <1>0, <2>1, <3>2, <3>3 DEF Map!Close, Objects
  <2> QED BY <2>3, <2>4
<1>2. CASE IsPreopen(fd) /\ closed_preopens' = closed_preopens \cup {fd} /\ UNCHANGED <<fds, closed_stdio>>
  <2>1. Shape' /\ NothingHidden'
    BY <1>0, <1>2 DEF IInv, Shape, NothingHidden, IsPreopen
  <2>2. /\ \A n \in Numbers : n # fd => Lookup(n)' = Lookup(n)
        /\ Lookup(fd)' = NoEntry
        /\ Lookup(fd) # NoEntry
        /\ fd \notin Stdio
    BY <1>2, PreopenIsEntry
    DEF Lookup, IsPreopen, PreopenEntry, IInv, NothingHidden, PreopenFds, Stdio
  <2>3. ObjectOf(fd) # Nowhere
    BY <2>2, ObjectsTyped DEF IInv
  <2>4. Objects' = [Objects EXCEPT ![fd] = Nowhere]
    BY <1>2, <2>2 DEF Objects, ObjectOf
  <2> QED BY <1>0, <2>1, <2>3, <2>4 DEF Map!Close, Objects
<1>3. CASE /\ fd \notin Stdio /\ ~IsPreopen(fd) /\ fds[fd] # NoEntry
           /\ fds' = [fds EXCEPT ![fd] = NoEntry]
           /\ UNCHANGED <<closed_preopens, closed_stdio>>
  <2>1. Shape' /\ NothingHidden'
    BY <1>0, <1>3 DEF IInv, Shape, NothingHidden, IsPreopen
  <2>2. /\ \A n \in Numbers : n # fd => Lookup(n)' = Lookup(n)
        /\ Lookup(fd)' = NoEntry
        /\ Lookup(fd) # NoEntry
    BY <1>3 DEF Lookup, IsPreopen, PreopenEntry, IInv, Shape
  <2>3. ObjectOf(fd) # Nowhere
    BY <2>2, ObjectsTyped DEF IInv
  <2>4. Objects' = [Objects EXCEPT ![fd] = Nowhere]
    BY <1>3, <2>2 DEF Objects, ObjectOf
  <2> QED BY <1>0, <2>1, <2>3, <2>4 DEF Map!Close, Objects
<1> QED BY <1>1, <1>2, <1>3 DEF FdClose

(* fd_renumber of an entry moves its object; of a stream, closes it.         *)
LEMMA RenumberStep ==
  ASSUME IInv, NEW from \in Numbers, NEW to \in Numbers, FdRenumber(from, to)
  PROVE  /\ Shape' /\ NothingHidden'
         /\ Map!Close(from) \/ Map!Renumber(from, to) \/ UNCHANGED Map!vars
<1>0. next_fd' = next_fd /\ from # to /\ DestValid(to)
  BY DEF FdRenumber
<1>1. CASE RenumberStdio(from, to)
  <2>1. FdClose(from)
    BY <1>0, <1>1 DEF RenumberStdio, FdClose
  <2> QED BY <2>1, CloseStep
<1>2. CASE RenumberEntry(from, to)
  <2> DEFINE entry == Lookup(from)
             left == IF IsPreopen(from) THEN fds ELSE [fds EXCEPT ![from] = NoEntry]
  <2>1. /\ from \notin Stdio
        /\ entry # NoEntry
        /\ fds' = [left EXCEPT ![to] = entry]
        /\ closed_stdio' = closed_stdio \cup ({to} \cap Stdio)
        /\ closed_preopens' = closed_preopens \cup Ended({from, to})
    BY <1>2 DEF RenumberEntry
  <2>2. /\ IsEntry(entry)
        /\ entry.object \in 0 .. next_fd - 1
        /\ entry.object # Nowhere
    BY <2>1, Looked DEF IInv
  <2>3. to < next_fd
    BY <1>0 DEF DestValid, IInv, Shape, NothingHidden, Lookup, IsPreopen, PreopenFds, Stdio, Numbers
  <2>4. /\ fds'[to] = entry
        /\ fds'[from] = NoEntry
        /\ \A n \in Numbers \ {from, to} : fds'[n] = fds[n]
        /\ fds' = [n \in Numbers |-> fds'[n]]
    BY <1>0, <2>1 DEF IInv, Shape, NothingHidden
  <2>5. \A n \in Numbers : IsPreopen(n)' <=> IsPreopen(n) /\ n \notin {from, to}
    BY <2>1 DEF IsPreopen, Ended
  <2>6. closed_preopens' \subseteq PreopenFds
    BY <2>1 DEF Ended, IsPreopen, IInv, Shape
  <2>7. Shape'
    <3>1. \A n \in Numbers : fds'[n] = NoEntry \/ (IsEntry(fds'[n])
                                                   /\ fds'[n].object \in 0 .. next_fd - 1)
      BY <2>2, <2>4 DEF IInv, Shape
    <3> QED BY <1>0, <2>1, <2>4, <2>6, <3>1 DEF IInv, Shape
  <2>8. NothingHidden'
    BY <1>0, <2>1, <2>3, <2>4, <2>5 DEF IInv, NothingHidden
  <2>9. /\ Lookup(to)' = entry
        /\ Lookup(from)' = NoEntry
        /\ \A n \in Numbers \ {from, to} : Lookup(n)' = Lookup(n)
    BY <2>4, <2>5 DEF Lookup, PreopenEntry
  <2>10. /\ ObjectOf(from) = entry.object
         /\ ObjectOf(from) # Nowhere
         /\ ObjectOf(to) # Nowhere
    <3>1. to \in Stdio \ closed_stdio \/ Lookup(to) # NoEntry
      BY <1>0 DEF DestValid
    <3> QED BY <2>1, <2>2, <3>1, ObjectsTyped DEF ObjectOf, IInv
  <2>11. /\ ObjectOf(to)' = entry.object
         /\ ObjectOf(from)' = Nowhere
         /\ \A n \in Numbers \ {from, to} : ObjectOf(n)' = ObjectOf(n)
    <3>1. to \notin Stdio \ closed_stdio'
      BY <2>1
    <3>2. \A n \in Numbers \ {from, to} : n \in Stdio \ closed_stdio' <=> n \in Stdio \ closed_stdio
      BY <2>1
    <3> QED BY <2>1, <2>9, <3>1, <3>2 DEF ObjectOf
  <2>12. Objects' = [Objects EXCEPT ![to] = Objects[from], ![from] = Nowhere]
    BY <1>0, <2>10, <2>11 DEF Objects
  <2>13. Map!Renumber(from, to)
    BY <1>0, <2>10, <2>12 DEF Map!Renumber, Objects
  <2> QED BY <2>7, <2>8, <2>13
<1> QED BY <1>0, <1>1, <1>2 DEF FdRenumber

(* Setting rights leaves every number with its object.                       *)
LEMMA RightsStep ==
  ASSUME IInv, NEW fd \in Numbers, NEW base, NEW inh, FdstatSetRights(fd, base, inh)
  PROVE  Shape' /\ NothingHidden' /\ UNCHANGED Map!vars
<1> DEFINE new == [fds[fd] EXCEPT !.base = base, !.inh = inh]
<1>1. /\ fds[fd] # NoEntry
      /\ fds' = [fds EXCEPT ![fd] = new]
      /\ UNCHANGED <<closed_preopens, closed_stdio, next_fd>>
  BY DEF FdstatSetRights, IInv, Shape
<1>2. IsEntry(fds[fd]) /\ fds[fd].object \in 0 .. next_fd - 1
  BY <1>1 DEF IInv, Shape
<1>3. IsEntry(new) /\ new.object = fds[fd].object
  BY <1>2 DEF IsEntry
<1>4. new # NoEntry
  BY <1>3 DEF IsEntry, NoEntry
<1>5. fd < next_fd /\ ~IsPreopen(fd) /\ fd \notin Stdio
  BY <1>1 DEF IInv, NothingHidden, FdstatSetRights
<1>6. /\ fds'[fd] = new
      /\ \A n \in Numbers \ {fd} : fds'[n] = fds[n]
      /\ fds' = [n \in Numbers |-> fds'[n]]
  BY <1>1 DEF IInv, Shape
<1>7. Shape'
  BY <1>1, <1>2, <1>3, <1>6 DEF IInv, Shape
<1>8. NothingHidden'
  BY <1>1, <1>5, <1>6 DEF IInv, NothingHidden, IsPreopen
<1>9. /\ \A n \in Numbers \ {fd} : Lookup(n)' = Lookup(n)
      /\ Lookup(fd)' = new
      /\ Lookup(fd) = fds[fd]
  BY <1>1, <1>5, <1>6 DEF Lookup, IsPreopen, PreopenEntry
<1>10. \A n \in Numbers : ObjectOf(n)' = ObjectOf(n)
  BY <1>1, <1>3, <1>4, <1>5, <1>9 DEF ObjectOf
<1> QED BY <1>1, <1>7, <1>8, <1>10 DEF Map!vars, Objects

-----------------------------------------------------------------------------
(* FdMap's own invariant is kept by FdMap's steps.                           *)

(* The objects, as FdMap types them.                                         *)
Typed ==
  /\ Objects = [n \in Numbers |-> Objects[n]]
  /\ \A n \in Numbers : Objects[n] = Nowhere \/ Objects[n] \in 0 .. next_fd - 1
  /\ Nowhere \notin Numbers

LEMMA ShapeIsTyped == Shape => Typed
  BY ObjectsTyped, NowhereAssumption DEF Typed, Objects, Numbers

LEMMA MapKeepsUnique ==
  ASSUME Typed, Map!OneNumberEach, [Map!Next]_(Map!vars)
  PROVE  Map!OneNumberEach'
<1>1. CASE UNCHANGED Map!vars
  BY <1>1 DEF Map!vars, Map!OneNumberEach
<1>2. ASSUME NEW n \in Numbers, Map!Open(n) PROVE Map!OneNumberEach'
  BY <1>2 DEF Map!Open, Map!OneNumberEach, Typed
<1>3. ASSUME NEW n \in Numbers, Map!Close(n) PROVE Map!OneNumberEach'
  BY <1>3 DEF Map!Close, Map!OneNumberEach, Typed
<1>4. ASSUME NEW from \in Numbers, NEW to \in Numbers, Map!Renumber(from, to)
      PROVE  Map!OneNumberEach'
  BY <1>4 DEF Map!Renumber, Map!OneNumberEach, Typed
<1> QED BY <1>1, <1>2, <1>3, <1>4 DEF Map!Next

-----------------------------------------------------------------------------
(* The invariant and the refinement.                                         *)

LEMMA InitEstablishes == Init => IInv /\ Map!Init
<1> SUFFICES ASSUME Init PROVE IInv /\ Map!Init
  OBVIOUS
<1>1. Shape
  BY DEF Init, Shape, Numbers
<1>2. NothingHidden
  BY DEF Init, NothingHidden
<1>3. \A n \in Numbers : ObjectOf(n) = IF n \in Stdio \cup PreopenFds THEN n ELSE Nowhere
  BY DEF Init, ObjectOf, Lookup, IsPreopen, PreopenEntry, NoEntry, Numbers, Stdio, PreopenFds
<1>4. 0 .. next_fd - 1 = Stdio \cup PreopenFds
  BY DEF Init, Stdio, PreopenFds
<1>5. Map!Init
  BY <1>3, <1>4 DEF Map!Init, Objects
<1>6. OneNumberEach
  BY <1>3, <1>4, NowhereAssumption
  DEF OneNumberEach, Map!OneNumberEach, Objects, Numbers
<1> QED BY <1>1, <1>2, <1>5, <1>6 DEF IInv

LEMMA StepPreserves == IInv /\ [Next]_vars => IInv' /\ [Map!Next]_(Map!vars)
<1> SUFFICES ASSUME IInv, [Next]_vars PROVE IInv' /\ [Map!Next]_(Map!vars)
  OBVIOUS
<1>1. Shape' /\ NothingHidden' /\ [Map!Next]_(Map!vars)
  <2>1. CASE UNCHANGED vars
    BY <2>1 DEF vars, IInv, Shape, NothingHidden, IsPreopen, Map!vars, Objects, ObjectOf,
                Lookup, PreopenEntry
  <2>2. ASSUME NEW fd \in Numbers, NEW rel \in RelativePaths, NEW oflags \in OpenFlags,
               NEW base \in RightsSets, NEW inh \in RightsSets,
               PathOpen(fd, rel, oflags, base, inh)
        PROVE  Shape' /\ NothingHidden' /\ [Map!Next]_(Map!vars)
    BY <2>2, OpenStep DEF Map!Next
  <2>3. ASSUME NEW fd \in Numbers, FdClose(fd)
        PROVE  Shape' /\ NothingHidden' /\ [Map!Next]_(Map!vars)
    BY <2>3, CloseStep DEF Map!Next
  <2>4. ASSUME NEW from \in Numbers, NEW to \in Numbers, FdRenumber(from, to)
        PROVE  Shape' /\ NothingHidden' /\ [Map!Next]_(Map!vars)
    BY <2>4, RenumberStep DEF Map!Next
  <2>5. ASSUME NEW fd \in Numbers, NEW base \in RightsSets, NEW inh \in RightsSets,
               FdstatSetRights(fd, base, inh)
        PROVE  Shape' /\ NothingHidden' /\ [Map!Next]_(Map!vars)
    BY <2>5, RightsStep DEF Map!Next
  <2> QED BY <2>1, <2>2, <2>3, <2>4, <2>5 DEF Next
<1>2. OneNumberEach'
  BY <1>1, ShapeIsTyped, MapKeepsUnique DEF IInv, OneNumberEach
<1> QED BY <1>1, <1>2 DEF IInv

LEMMA Invariant == Spec => []IInv
<1>1. Init => IInv
  BY InitEstablishes
<1>2. IInv /\ [Next]_vars => IInv'
  BY StepPreserves
<1> QED BY <1>1, <1>2, PTL DEF Spec

-----------------------------------------------------------------------------
(* Rights.                                                                   *)

(* What rights an entry may have after a step, for the object it leads to.   *)
Narrowed(before, after) == after.base \subseteq before.base /\ after.inh \subseteq before.inh
Shrunk ==
  \A m, n \in Numbers :
    Lookup(m) # NoEntry /\ fds'[n] # NoEntry /\ Lookup(m).object = fds'[n].object
      => Narrowed(Lookup(m), fds'[n])

(* An entry of fds is the only one its object is reached by.                 *)
LEMMA ReachedOnce ==
  ASSUME IInv, NEW m \in Numbers, NEW n \in Numbers,
         Lookup(m) # NoEntry, Lookup(n) # NoEntry, Lookup(m).object = Lookup(n).object
  PROVE  m = n
<1>1. \A k \in Numbers : Lookup(k) # NoEntry => k \notin Stdio \ closed_stdio
  BY DEF IInv, NothingHidden, Lookup, IsPreopen, PreopenFds, Stdio
<1>2. Objects[m] = Lookup(m).object /\ Objects[n] = Lookup(n).object
  BY <1>1 DEF Objects, ObjectOf
<1>3. Objects[n] # Nowhere
  BY <1>2, Looked DEF IInv
<1> QED BY <1>2, <1>3 DEF IInv, OneNumberEach, Map!OneNumberEach

LEMMA EntriesAreFound ==
  ASSUME IInv, NEW n \in Numbers, fds[n] # NoEntry
  PROVE  Lookup(n) = fds[n]
  BY DEF IInv, NothingHidden, Lookup

LEMMA RightsNarrow ==
  ASSUME IInv, Next PROVE Shrunk
<1> SUFFICES ASSUME NEW m \in Numbers, NEW n \in Numbers, Lookup(m) # NoEntry, fds'[n] # NoEntry,
                    Lookup(m).object = fds'[n].object
             PROVE  Narrowed(Lookup(m), fds'[n])
  BY DEF Shrunk
<1>1. CASE fds'[n] = fds[n]
  <2>1. Lookup(n) = fds[n]
    BY <1>1, EntriesAreFound
  <2>2. m = n
    BY <1>1, <2>1, ReachedOnce
  <2> QED BY <1>1, <2>1, <2>2 DEF Narrowed
<1>2. ASSUME NEW fd \in Numbers, NEW rel, NEW oflags, NEW base, NEW inh,
             PathOpen(fd, rel, oflags, base, inh), fds'[n] # fds[n]
      PROVE  FALSE
  <2>1. fds'[n].object = next_fd
    <3>1. PICK entry : AllocFd(entry) /\ entry.object = next_fd
      BY <1>2 DEF PathOpen, OpenDir, OpenFile
    <3> QED BY <1>2, <3>1 DEF AllocFd, IInv, Shape
  <2>2. Lookup(m).object \in 0 .. next_fd - 1
    BY Looked DEF IInv
  <2> QED BY <2>1, <2>2 DEF IInv, Shape
<1>3. ASSUME NEW fd \in Numbers, FdClose(fd), fds'[n] # fds[n]
      PROVE  FALSE
  BY <1>3 DEF FdClose, IInv, Shape
<1>4. ASSUME NEW from \in Numbers, NEW to \in Numbers, FdRenumber(from, to), fds'[n] # fds[n]
      PROVE  Narrowed(Lookup(m), fds'[n])
  <2>1. RenumberEntry(from, to)
    BY <1>4 DEF FdRenumber, RenumberStdio
  <2>2. fds'[n] = Lookup(from) /\ Lookup(from) # NoEntry
    BY <1>4, <2>1 DEF RenumberEntry, IInv, Shape
  <2>3. m = from
    BY <2>2, ReachedOnce
  <2> QED BY <2>2, <2>3 DEF Narrowed
<1>5. ASSUME NEW fd \in Numbers, NEW base, NEW inh, FdstatSetRights(fd, base, inh), fds'[n] # fds[n]
      PROVE  Narrowed(Lookup(m), fds'[n])
  <2>1. /\ n = fd
        /\ fds[n] # NoEntry
        /\ fds'[n] = [fds[n] EXCEPT !.base = base, !.inh = inh]
        /\ base \subseteq fds[n].base /\ inh \subseteq fds[n].inh
    BY <1>5 DEF FdstatSetRights, IInv, Shape
  <2>2. IsEntry(fds[n])
    BY <2>1 DEF IInv, Shape
  <2>3. fds'[n].object = fds[n].object /\ fds'[n].base = base /\ fds'[n].inh = inh
    BY <2>1, <2>2 DEF IsEntry
  <2>4. Lookup(n) = fds[n]
    BY <2>1, EntriesAreFound
  <2>5. m = n
    BY <2>1, <2>3, <2>4, ReachedOnce
  <2> QED BY <2>1, <2>3, <2>4, <2>5 DEF Narrowed
<1> QED BY <1>1, <1>2, <1>3, <1>4, <1>5 DEF Next

-----------------------------------------------------------------------------
(* Paths.  What a loop computes is proved by induction over its passes; the  *)
(* induction is over a set of numbers, that of the passes at which the claim *)
(* holds.                                                                    *)

(* Induction over the naturals, for a set instead of a predicate.            *)
LEMMA SetInduction ==
  ASSUME NEW T, 0 \in T, \A n \in Nat : n \in T => n + 1 \in T
  PROVE  Nat \subseteq T
<1> SUFFICES ASSUME Nat \ T # {} PROVE FALSE
  OBVIOUS
<1> DEFINE R == OpToRel(<, Nat)
<1>1. IsWellFoundedOn(R, Nat)
  BY NatLessThanWellFounded
<1>2. \A x, y \in Nat : x < y => <<x, y>> \in R
  BY DEF OpToRel
<1> HIDE DEF R
<1>3. PICK m \in Nat \ T : \A y \in Nat \ T : <<y, m>> \notin R
  <2> DEFINE S == Nat \ T
  <2>1. S \subseteq Nat /\ S # {}
    OBVIOUS
  <2> HIDE DEF S
  <2>2. \E x \in S : \A y \in S : ~ (<<y, x>> \in R)
    BY <1>1, <2>1, WFMin
  <2> QED BY <2>2 DEF S
<1>4. m - 1 \in Nat /\ m - 1 < m
  OBVIOUS
<1>5. m - 1 \in T
  BY <1>2, <1>3, <1>4
<1> QED BY <1>4, <1>5

\* The equation of the loop, for the first n components.
Loop(f, start, rel, n) ==
  f = [k \in 0 .. n |-> IF k = 0 THEN start ELSE Climb(f[k - 1], rel[k])]

(* The loop has a run of any length.                                         *)
LEMMA LoopRuns ==
  ASSUME NEW start, NEW rel, NEW n \in Nat
  PROVE  \E f : Loop(f, start, rel, n)
<1> DEFINE T == {m \in Nat : \E f : Loop(f, start, rel, m)}
<1>1. 0 \in T
  <2>1. Loop([k \in 0 .. 0 |-> start], start, rel, 0)
    BY DEF Loop
  <2> QED BY <2>1
<1>2. ASSUME NEW m \in Nat, m \in T PROVE m + 1 \in T
  <2>1. PICK f : Loop(f, start, rel, m)
    BY <1>2
  <2> DEFINE g == [k \in 0 .. m + 1 |-> IF k <= m THEN f[k] ELSE Climb(f[m], rel[m + 1])]
  <2>2. ASSUME NEW k \in 0 .. m + 1
        PROVE  g[k] = IF k = 0 THEN start ELSE Climb(g[k - 1], rel[k])
    <3>1. CASE k <= m
      <4>1. f[k] = IF k = 0 THEN start ELSE Climb(f[k - 1], rel[k])
        BY <2>1, <3>1 DEF Loop
      <4>2. k # 0 => g[k - 1] = f[k - 1]
        BY <3>1
      <4> QED BY <3>1, <4>1, <4>2
    <3>2. CASE k = m + 1
      BY <3>2
    <3> QED BY <3>1, <3>2
  <2>3. Loop(g, start, rel, m + 1)
    <3>1. g = [k \in 0 .. m + 1 |-> g[k]]
      OBVIOUS
    <3> HIDE DEF g
    <3> QED BY <2>2, <3>1 DEF Loop
  <2> HIDE DEF g
  <2> QED BY <2>3
<1> HIDE DEF T
<1>3. n \in T
  BY <1>1, <1>2, SetInduction
<1> QED BY <1>3 DEF T

(* Climbed is that run.                                                      *)
LEMMA ClimbedIsRun ==
  ASSUME NEW start, NEW rel, Len(rel) \in Nat
  PROVE  /\ Climbed(start, rel)[0] = start
         /\ \A k \in 1 .. Len(rel) :
              Climbed(start, rel)[k] = Climb(Climbed(start, rel)[k - 1], rel[k])
<1> DEFINE f == Climbed(start, rel)
<1>1. Loop(f, start, rel, Len(rel))
  <2>1. \E h : Loop(h, start, rel, Len(rel))
    BY LoopRuns
  <2> QED BY <2>1 DEF Climbed, Loop
<1> HIDE DEF f
<1>2. /\ f[0] = start
      /\ \A k \in 1 .. Len(rel) : f[k] = Climb(f[k - 1], rel[k])
  BY <1>1 DEF Loop
<1> QED BY <1>2 DEF f

\* How far a path's first k components lead down, taken together.
Downs(rel, k) == {j \in 1 .. k : rel[j] # Up}
Ups(rel, k) == {j \in 1 .. k : rel[j] = Up}
Height(rel, k) == Cardinality(Downs(rel, k)) - Cardinality(Ups(rel, k))

LEMMA HeightSteps ==
  ASSUME NEW rel, NEW k \in Nat
  PROVE  /\ Height(rel, 0) = 0
         /\ Height(rel, k) \in Int
         /\ Height(rel, k + 1) = Height(rel, k) + (IF rel[k + 1] = Up THEN 0 - 1 ELSE 1)
<1>1. /\ IsFiniteSet(Downs(rel, k)) /\ IsFiniteSet(Ups(rel, k))
      /\ k + 1 \notin Downs(rel, k) /\ k + 1 \notin Ups(rel, k)
  <2>1. IsFiniteSet(1 .. k)
    BY FS_Interval
  <2>2. Downs(rel, k) \subseteq 1 .. k /\ Ups(rel, k) \subseteq 1 .. k
    BY DEF Downs, Ups
  <2> QED BY <2>1, <2>2, FS_Subset
<1>2. Cardinality(Downs(rel, k)) \in Nat /\ Cardinality(Ups(rel, k)) \in Nat
  BY <1>1, FS_CardinalityType
<1>3. Height(rel, 0) = 0
  <2>1. Downs(rel, 0) = {} /\ Ups(rel, 0) = {}
    BY DEF Downs, Ups
  <2> QED BY <2>1, FS_EmptySet DEF Height
<1>4. CASE rel[k + 1] = Up
  <2>1. Downs(rel, k + 1) = Downs(rel, k) /\ Ups(rel, k + 1) = Ups(rel, k) \cup {k + 1}
    BY <1>4 DEF Downs, Ups
  <2>2. Cardinality(Ups(rel, k + 1)) = Cardinality(Ups(rel, k)) + 1
    BY <1>1, <2>1, FS_AddElement
  <2> QED BY <1>2, <1>3, <1>4, <2>1, <2>2 DEF Height
<1>5. CASE rel[k + 1] # Up
  <2>1. Ups(rel, k + 1) = Ups(rel, k) /\ Downs(rel, k + 1) = Downs(rel, k) \cup {k + 1}
    BY <1>5 DEF Downs, Ups
  <2>2. Cardinality(Downs(rel, k + 1)) = Cardinality(Downs(rel, k)) + 1
    BY <1>1, <2>1, FS_AddElement
  <2> QED BY <1>2, <1>3, <1>5, <2>1, <2>2 DEF Height
<1> QED BY <1>4, <1>5

(* The refusal is no path: it has a component that is not a name.             *)
LEMMA EscapedIsNoPath ==
  ASSUME NEW parts \in Seq(Names)
  PROVE  parts # Escaped
<1> SUFFICES ASSUME parts = Escaped PROVE FALSE
  OBVIOUS
<1>1. Len(parts) = 1 /\ parts[1] = Up
  BY DEF Escaped
<1>2. parts[1] \in Names
  BY <1>1
<1> QED BY <1>1, <1>2, NamesAssumption

(* One component: a name is added, ".." takes one back, or escapes.          *)
LEMMA ClimbStep ==
  ASSUME NEW parts \in Seq(Names), NEW c \in Names \cup {Up}
  PROVE  /\ parts # Escaped
         /\ c # Up => Climb(parts, c) \in Seq(Names) /\ Len(Climb(parts, c)) = Len(parts) + 1
         /\ c = Up /\ Len(parts) > 0 =>
              Climb(parts, c) \in Seq(Names) /\ Len(Climb(parts, c)) = Len(parts) - 1
         /\ c = Up /\ Len(parts) = 0 => Climb(parts, c) = Escaped
<1>1. parts # Escaped
  BY EscapedIsNoPath
<1>2. CASE c # Up
  <2>1. Climb(parts, c) = Append(parts, c)
    BY <1>1, <1>2 DEF Climb
  <2> QED BY <1>1, <1>2, <2>1
<1>3. CASE c = Up /\ Len(parts) > 0
  <2>1. parts # <<>>
    BY <1>3
  <2>2. Climb(parts, c) = SubSeq(parts, 1, Len(parts) - 1)
    BY <1>1, <1>3, <2>1 DEF Climb, Front
  <2> DEFINE n == Len(parts) - 1
  <2>3. n \in Nat /\ \A i \in 1 .. n : parts[i] \in Names
    BY <1>3
  <2>4. /\ SubSeq(parts, 1, n) \in Seq(Names)
        /\ Len(SubSeq(parts, 1, n)) = n
    <3> HIDE DEF n
    <3>1. /\ SubSeq(parts, 1, n) \in Seq(Names)
          /\ Len(SubSeq(parts, 1, n)) = IF 1 <= n THEN n - 1 + 1 ELSE 0
      BY <2>3, SubSeqProperties
    <3> QED BY <2>3, <3>1
  <2> QED BY <1>1, <1>3, <2>2, <2>4
<1>4. CASE c = Up /\ Len(parts) = 0
  BY <1>1, <1>4 DEF Climb
<1> QED BY <1>1, <1>2, <1>3, <1>4

\* What the loop has after k components of a path.
Counted(rel, k) ==
  LET parts == Climbed(<<>>, rel)[k] IN
  \/ /\ parts \in Seq(Names)
     /\ Len(parts) = Height(rel, k)
     /\ \A j \in 1 .. k : Height(rel, j) >= 0
  \/ /\ parts = Escaped
     /\ \E j \in 1 .. k : Height(rel, j) < 0

LEMMA LoopCounts ==
  ASSUME NEW rel \in Seq(Names \cup {Up}), NEW k \in 0 .. Len(rel)
  PROVE  Counted(rel, k)
<1> DEFINE f == Climbed(<<>>, rel)
           T == {m \in Nat : m <= Len(rel) => Counted(rel, m)}
<1>1. /\ f[0] = <<>>
      /\ \A m \in 1 .. Len(rel) : f[m] = Climb(f[m - 1], rel[m])
  BY ClimbedIsRun
<1>2. 0 \in T
  <2>1. f[0] \in Seq(Names) /\ Len(f[0]) = 0
    <3>1. <<>> \in Seq(Names) /\ Len(<<>>) = 0
      BY EmptySeq
    <3> HIDE DEF f
    <3> QED BY <1>1, <3>1
  <2>2. Height(rel, 0) = 0
    BY HeightSteps
  <2>3. \A j \in 1 .. 0 : Height(rel, j) >= 0
    OBVIOUS
  <2>4. Counted(rel, 0)
    BY <2>1, <2>2, <2>3 DEF Counted
  <2> QED BY <2>4
<1>3. ASSUME NEW m \in Nat, m \in T PROVE m + 1 \in T
  <2> SUFFICES ASSUME m + 1 <= Len(rel) PROVE Counted(rel, m + 1)
    OBVIOUS
  <2> DEFINE parts == f[m]
             c == rel[m + 1]
  <2>1. f[m + 1] = Climb(parts, c) /\ c \in Names \cup {Up}
    <3>1. m + 1 \in 1 .. Len(rel) /\ (m + 1) - 1 = m
      OBVIOUS
    <3> QED BY <1>1, <3>1
  <2>2. /\ Height(rel, m) \in Int
        /\ Height(rel, m + 1) = Height(rel, m) + (IF c = Up THEN 0 - 1 ELSE 1)
    BY HeightSteps
  <2>3. Counted(rel, m)
    BY <1>3
  <2>4. CASE /\ parts \in Seq(Names) /\ Len(parts) = Height(rel, m)
             /\ \A j \in 1 .. m : Height(rel, j) >= 0
    <3> HIDE DEF parts, c, f
    <3>1. /\ c # Up => Climb(parts, c) \in Seq(Names) /\ Len(Climb(parts, c)) = Len(parts) + 1
          /\ c = Up /\ Len(parts) > 0 =>
               Climb(parts, c) \in Seq(Names) /\ Len(Climb(parts, c)) = Len(parts) - 1
          /\ c = Up /\ Len(parts) = 0 => Climb(parts, c) = Escaped
      BY <2>1, <2>4, ClimbStep
    <3>2. Len(parts) \in Nat
      BY <2>4
    <3>3. CASE c = Up /\ Len(parts) = 0
      <4>1. Height(rel, m + 1) < 0 /\ m + 1 \in 1 .. m + 1
        BY <2>2, <2>4, <3>3
      <4>2. f[m + 1] = Escaped
        BY <2>1, <3>1, <3>3
      <4> QED BY <4>1, <4>2 DEF Counted, f
    <3>4. CASE c # Up \/ Len(parts) > 0
      <4>1. f[m + 1] \in Seq(Names) /\ Len(f[m + 1]) = Height(rel, m + 1)
        BY <2>1, <2>2, <2>4, <3>1, <3>2, <3>4
      <4>2. Height(rel, m + 1) >= 0
        BY <2>2, <2>4, <3>2, <3>4
      <4>3. \A j \in 1 .. m + 1 : j \in 1 .. m \/ j = m + 1
        OBVIOUS
      <4>4. \A j \in 1 .. m + 1 : Height(rel, j) >= 0
        BY <2>4, <4>2, <4>3
      <4> QED BY <4>1, <4>4 DEF Counted, f
    <3> QED BY <3>2, <3>3, <3>4
  <2>5. CASE parts = Escaped /\ \E j \in 1 .. m : Height(rel, j) < 0
    <3>1. f[m + 1] = Escaped
      BY <2>1, <2>5 DEF Climb
    <3>2. \E j \in 1 .. m + 1 : Height(rel, j) < 0
      BY <2>5
    <3> QED BY <3>1, <3>2 DEF Counted
  <2> QED BY <2>3, <2>4, <2>5 DEF Counted
<1> HIDE DEF T
<1>4. k \in T
  BY <1>2, <1>3, SetInduction
<1> QED BY <1>4 DEF T

(* A set of numbers that is bounded and not empty has a greatest one.        *)
LEMMA GreatestExists ==
  ASSUME NEW n \in Nat, NEW S, S \subseteq 1 .. n, S # {}
  PROVE  Max(S) \in S /\ \A y \in S : Max(S) >= y
<1> DEFINE T == {m \in Nat : \A R \in SUBSET (1 .. m) : R # {} => \E x \in R : \A y \in R : x >= y}
<1>1. 0 \in T
  <2>1. \A R \in SUBSET (1 .. 0) : R = {}
    OBVIOUS
  <2> QED BY <2>1
<1>2. ASSUME NEW m \in Nat, m \in T PROVE m + 1 \in T
  <2> SUFFICES ASSUME NEW R \in SUBSET (1 .. m + 1), R # {}
               PROVE  \E x \in R : \A y \in R : x >= y
    OBVIOUS
  <2>1. CASE m + 1 \in R
    BY <2>1
  <2>2. CASE m + 1 \notin R
    <3>1. R \in SUBSET (1 .. m)
      BY <2>2
    <3> QED BY <1>2, <3>1
  <2> QED BY <2>1, <2>2
<1> HIDE DEF T
<1>3. n \in T
  BY <1>1, <1>2, SetInduction
<1>4. \E x \in S : \A y \in S : x >= y
  BY <1>3 DEF T
<1> QED BY <1>4 DEF Max

(* What is pushed is a path of names: the base with the parts behind it, or  *)
(* the last of the parts that names a drive and those behind that one.       *)
LEMMA PushedBelow ==
  ASSUME NEW base \in Seq(Names), NEW parts \in Seq(Names)
  PROVE  /\ Pushed(base, parts) \in Seq(Names)
         /\ OnDrive(Pushed(base, parts)) \/ IsPrefix(base, Pushed(base, parts))
<1> DEFINE drives == {i \in 1 .. Len(parts) : parts[i] \in Prefixed}
<1>1. CASE drives = {}
  <2>1. Pushed(base, parts) = base \o parts
    BY <1>1 DEF Pushed
  <2>2. base \o parts \in Seq(Names) /\ Len(base \o parts) = Len(base) + Len(parts)
    OBVIOUS
  <2>3. SubSeq(base \o parts, 1, Len(base)) = base /\ SubSeq(base, 1, Len(base)) = base
    OBVIOUS
  <2> QED BY <2>1, <2>2, <2>3 DEF IsPrefix
<1>2. CASE drives # {}
  <2> DEFINE last == Max(drives)
  <2>1. Len(parts) \in Nat
    OBVIOUS
  <2>2. last \in drives
    <3>1. drives \subseteq 1 .. Len(parts)
      OBVIOUS
    <3> HIDE DEF drives
    <3> QED BY <1>2, <2>1, <3>1, GreatestExists
  <2>3. Pushed(base, parts) = SubSeq(parts, last, Len(parts))
    BY <1>2 DEF Pushed
  <2>4. PICK i \in 1 .. Len(parts) : i = last /\ parts[i] \in Prefixed
    BY <2>2
  <2>5. Pushed(base, parts) = SubSeq(parts, i, Len(parts))
    BY <2>3, <2>4
  <2> HIDE DEF last, drives
  <2>6. /\ SubSeq(parts, i, Len(parts)) \in Seq(Names)
        /\ Len(SubSeq(parts, i, Len(parts))) = Len(parts) - i + 1
        /\ SubSeq(parts, i, Len(parts))[1] = parts[i]
    OBVIOUS
  <2>7. SubSeq(parts, i, Len(parts)) # <<>>
    <3>1. Len(SubSeq(parts, i, Len(parts))) # 0
      BY <2>1, <2>6
    <3>2. Len(<<>>) = 0
      OBVIOUS
    <3> QED BY <3>1, <3>2
  <2> QED BY <2>4, <2>5, <2>6, <2>7 DEF OnDrive
<1> QED BY <1>1, <1>2

(* The parts of a path, counted: a path is refused when at some point more   *)
(* ".." than names have passed, and leaves as many parts as names are left.  *)
LEMMA PartsCounted ==
  ASSUME NEW rel \in Seq(Names \cup {Up})
  PROVE  \/ /\ Parts(rel) \in Seq(Names) /\ Parts(rel) # Escaped
            /\ Len(Parts(rel)) = Height(rel, Len(rel))
            /\ ~ \E k \in 1 .. Len(rel) : Height(rel, k) < 0
         \/ /\ Parts(rel) = Escaped
            /\ \E k \in 1 .. Len(rel) : Height(rel, k) < 0
<1>1. Counted(rel, Len(rel)) /\ \A k \in 1 .. Len(rel) : Height(rel, k) \in Int
  BY LoopCounts, HeightSteps
<1> QED BY <1>1, EscapedIsNoPath DEF Counted, Parts

(* What was resolved continues the base, unless it begins with a drive, and  *)
(* has no ".." left in it.                                                   *)
LEMMA ResolvesBelow ==
  ASSUME NEW base \in Seq(Names), NEW rel \in Seq(Names \cup {Up}),
         ResolveUnderBase(base, rel) # Escaped
  PROVE  /\ ResolveUnderBase(base, rel) \in Seq(Names)
         /\ OnDrive(ResolveUnderBase(base, rel)) \/ IsPrefix(base, ResolveUnderBase(base, rel))
<1>1. Parts(rel) \in Seq(Names) /\ ResolveUnderBase(base, rel) = Pushed(base, Parts(rel))
  BY PartsCounted DEF ResolveUnderBase
<1> QED BY <1>1, PushedBelow

(* The resolution refuses a path exactly when its components, counted from   *)
(* the left, have at some point more ".." among them than names; and the     *)
(* parts it pushes onto the base are as many as there are names left over.   *)
THEOREM RefusedWhenAbove ==
  ASSUME NEW base \in Seq(Names), NEW rel \in Seq(Names \cup {Up})
  PROVE  /\ ResolveUnderBase(base, rel) = Escaped <=> \E k \in 1 .. Len(rel) : Height(rel, k) < 0
         /\ ResolveUnderBase(base, rel) # Escaped =>
              /\ ResolveUnderBase(base, rel) = Pushed(base, Parts(rel))
              /\ Len(Parts(rel)) = Height(rel, Len(rel))
<1>1. CASE Parts(rel) = Escaped /\ \E k \in 1 .. Len(rel) : Height(rel, k) < 0
  BY <1>1 DEF ResolveUnderBase
<1>2. CASE /\ Parts(rel) \in Seq(Names) /\ Parts(rel) # Escaped
           /\ Len(Parts(rel)) = Height(rel, Len(rel))
           /\ ~ \E k \in 1 .. Len(rel) : Height(rel, k) < 0
  <2>1. ResolveUnderBase(base, rel) = Pushed(base, Parts(rel))
    BY <1>2 DEF ResolveUnderBase
  <2>2. Pushed(base, Parts(rel)) # Escaped
    BY <1>2, PushedBelow, EscapedIsNoPath
  <2> QED BY <1>2, <2>1, <2>2
<1> QED BY <1>1, <1>2, PartsCounted

-----------------------------------------------------------------------------
(* What was opened, and where.                                               *)

Placed(e) == e \in FdEntries /\ (OnDrive(e.path) \/ IsPrefix(e.under, e.path))
Paths == \A n \in Numbers : fds[n] # NoEntry => Placed(fds[n])

LEMMA RelativePathIsSeq ==
  ASSUME NEW rel \in RelativePaths PROVE rel \in Seq(Names \cup {Up})
<1>1. PICK n \in 1 .. MaxPath : rel \in [1 .. n -> Names \cup {Up}]
  BY DEF RelativePaths
<1>2. n \in Nat
  BY NamesAssumption
<1> QED BY <1>1, <1>2

(* A preopened directory is its own base.                                    *)
LEMMA LookedIsPlaced ==
  ASSUME Paths, NEW n \in Numbers, Lookup(n) # NoEntry
  PROVE  Placed(Lookup(n))
<1>1. CASE IsPreopen(n)
  <2>1. n \in PreopenFds /\ Lookup(n) = PreopenEntry(n)
    BY <1>1 DEF IsPreopen, Lookup
  <2>2. PreopenEntry(n) \in FdEntries
    BY <2>1 DEF PreopenEntry, FdEntries, RIGHTS_DIR_BASE, RIGHTS_DIR_INHERITING
  <2>3. IsPrefix(<<>>, <<>>)
    BY DEF IsPrefix
  <2>4. PreopenEntry(n).under = <<>> /\ PreopenEntry(n).path = <<>>
    BY DEF PreopenEntry
  <2> QED BY <2>1, <2>2, <2>3, <2>4 DEF Placed
<1>2. CASE ~IsPreopen(n)
  BY <1>2 DEF Lookup, Paths
<1> QED BY <1>1, <1>2

LEMMA OpenPlaces ==
  ASSUME Shape, Paths, NEW fd \in Numbers, NEW rel \in RelativePaths, NEW oflags,
         NEW base \in RightsSets, NEW inh \in RightsSets, PathOpen(fd, rel, oflags, base, inh)
  PROVE  Paths'
<1> DEFINE dir == Lookup(fd)
           path == ResolveUnderBase(dir.path, rel)
<1>1. /\ dir # NoEntry /\ path # Escaped /\ next_fd <= MaxFd
      /\ base \subseteq dir.inh /\ inh \subseteq dir.inh
  BY DEF PathOpen, MayOpen, OpenDir, OpenFile, AllocFd
<1>2. /\ dir \in FdEntries
      /\ dir.path \in Seq(Names)
      /\ dir.root \in PreopenFds
      /\ dir.inh \subseteq RIGHTS_DIR_INHERITING
  <2>1. dir \in FdEntries
    BY <1>1, LookedIsPlaced DEF Placed
  <2> QED BY <2>1 DEF FdEntries
<1>3. path \in Seq(Names) /\ (OnDrive(path) \/ IsPrefix(dir.path, path))
  <2>1. rel \in Seq(Names \cup {Up})
    BY RelativePathIsSeq
  <2> QED BY <1>1, <1>2, <2>1, ResolvesBelow
<1>4. next_fd \in Numbers
  BY <1>1 DEF Shape, Numbers
<1>5. PICK kind \in {"Dir", "File"}, b \in SUBSET RIGHTS_DIR_INHERITING :
        AllocFd([kind |-> kind, root |-> dir.root, path |-> path, under |-> dir.path,
                 object |-> next_fd, base |-> b, inh |-> inh])
  <2>1. CASE OpenDir(dir, path, oflags, base, inh)
    <3>1. base \cap PATH_RIGHTS \in SUBSET RIGHTS_DIR_INHERITING
      BY <1>1, <1>2
    <3> QED BY <2>1, <3>1 DEF OpenDir
  <2>2. CASE OpenFile(dir, path, oflags, base, inh)
    <3>1. base \ PATH_RIGHTS \in SUBSET RIGHTS_DIR_INHERITING
      BY <1>1, <1>2
    <3> QED BY <2>2, <3>1 DEF OpenFile
  <2> QED BY <2>1, <2>2 DEF PathOpen
<1> DEFINE entry == [kind |-> kind, root |-> dir.root, path |-> path, under |-> dir.path,
                     object |-> next_fd, base |-> b, inh |-> inh]
<1> HIDE DEF path, dir
<1>6. Placed(entry)
  <2>1. entry \in FdEntries
    BY <1>1, <1>2, <1>3, <1>4 DEF FdEntries
  <2> QED BY <1>3, <2>1 DEF Placed
<1>7. fds' = [fds EXCEPT ![next_fd] = entry]
  BY <1>5 DEF AllocFd
<1> HIDE DEF entry
<1> QED BY <1>6, <1>7 DEF Paths, Shape

LEMMA RenumberPlaces ==
  ASSUME Shape, Paths, NEW from \in Numbers, NEW to \in Numbers, FdRenumber(from, to)
  PROVE  Paths'
<1>1. CASE RenumberStdio(from, to)
  BY <1>1 DEF RenumberStdio, Paths
<1>2. CASE RenumberEntry(from, to)
  <2>1. \A n \in Numbers : fds'[n] \in {fds[n], NoEntry, Lookup(from)}
    BY <1>2 DEF RenumberEntry, Shape
  <2>2. Placed(Lookup(from))
    BY <1>2, LookedIsPlaced DEF RenumberEntry
  <2> QED BY <2>1, <2>2 DEF Paths
<1> QED BY <1>1, <1>2 DEF FdRenumber

LEMMA RightsPlaces ==
  ASSUME Shape, Paths, NEW fd \in Numbers, NEW base, NEW inh, FdstatSetRights(fd, base, inh)
  PROVE  Paths'
<1> DEFINE new == [fds[fd] EXCEPT !.base = base, !.inh = inh]
<1>1. /\ fds[fd] # NoEntry
      /\ fds' = [fds EXCEPT ![fd] = new]
      /\ base \subseteq fds[fd].base /\ inh \subseteq fds[fd].inh
  BY DEF FdstatSetRights, Shape
<1>2. fds[fd] \in FdEntries /\ (OnDrive(fds[fd].path) \/ IsPrefix(fds[fd].under, fds[fd].path))
  BY <1>1 DEF Paths, Placed
<1>3. new \in FdEntries
  BY <1>1, <1>2 DEF FdEntries
<1>4. new.under = fds[fd].under /\ new.path = fds[fd].path
  BY <1>2 DEF FdEntries
<1>5. Placed(new)
  BY <1>2, <1>3, <1>4 DEF Placed
<1> HIDE DEF new
<1> QED BY <1>1, <1>5 DEF Paths, Shape

LEMMA StepPlaces ==
  ASSUME Shape, Paths, [Next]_vars PROVE Paths'
<1>1. CASE UNCHANGED vars
  BY <1>1 DEF vars, Paths
<1>2. ASSUME NEW fd \in Numbers, FdClose(fd) PROVE Paths'
  BY <1>2 DEF FdClose, Paths, Shape
<1> QED BY <1>1, <1>2, OpenPlaces, RenumberPlaces, RightsPlaces DEF Next

LEMMA PathsInvariant == Spec => []Paths
<1>1. Init => Paths
  BY DEF Init, Paths
<1>2. IInv /\ Paths /\ [Next]_vars => Paths'
  BY StepPlaces DEF IInv
<1> QED BY <1>1, <1>2, Invariant, PTL DEF Spec

-----------------------------------------------------------------------------
(* The theorems.                                                             *)

(* No descriptor gains a right, whatever numbers it is moved through.        *)
THEOREM RightsNeverGrow == Spec => RightsOnlyShrink
<1>1. ASSUME IInv, Next PROVE
        \A m, n \in Numbers :
          /\ Lookup(m) # NoEntry
          /\ fds'[n] # NoEntry
          /\ Lookup(m).object = fds'[n].object
          => /\ fds'[n].base \subseteq Lookup(m).base
             /\ fds'[n].inh \subseteq Lookup(m).inh
  BY <1>1, RightsNarrow DEF Shrunk, Narrowed
<1> QED BY <1>1, Invariant, PTL DEF Spec, RightsOnlyShrink

(* No entry is hidden behind a stream or a preopen that owns its number.     *)
THEOREM NothingStaysHidden == Spec => []NothingHidden
<1>1. IInv => NothingHidden
  BY DEF IInv
<1> QED BY <1>1, Invariant, PTL

(* Two numbers never lead to one object.                                     *)
THEOREM ObjectsHaveOneNumber == Spec => []OneNumberEach
<1>1. IInv => OneNumberEach
  BY DEF IInv
<1> QED BY <1>1, Invariant, PTL

(* The three places a number is looked up in act as the one map FdMap has.   *)
THEOREM TableImplementsMap == Spec => ImplementsMap
<1>1. Init => Map!Init
  BY InitEstablishes
<1>2. IInv /\ [Next]_vars => [Map!Next]_(Map!vars)
  BY StepPreserves
<1> QED BY <1>1, <1>2, Invariant, PTL DEF Spec, ImplementsMap, Map!Spec

(* The host path of what was opened through a directory continues that of    *)
(* the directory or begins with a drive, for paths of any length.  This is   *)
(* about the text of the path, as resolve_under_base makes it; where the     *)
(* host's links lead is no part of the model.                                *)
THEOREM PathsContinue == Spec => []LexicallyBelow
<1>1. Paths => LexicallyBelow
  BY DEF Paths, Placed, LexicallyBelow
<1> QED BY <1>1, PathsInvariant, PTL

(* Every entry is of its type: in particular each path is made of names, so  *)
(* that no ".." is left in what the host is given, and no right is unknown.  *)
THEOREM EntriesAreTyped == Spec => [](fds \in [Numbers -> FdEntries \cup {NoEntry}])
<1>1. IInv /\ Paths => fds \in [Numbers -> FdEntries \cup {NoEntry}]
  BY DEF IInv, Shape, Paths, Placed
<1> QED BY <1>1, Invariant, PathsInvariant, PTL

\* A close leaves nothing under its number.
CloseEnds == \A n \in Numbers \ Stdio : FdClose(n) => Lookup(n)' = NoEntry

(* Closing a preopened directory's number ends what is found under it, and   *)
(* so does closing any other: an entry never waits below a preopen.          *)
THEOREM ClosesAreFinal == Spec => [][CloseEnds]_vars
<1>1. ASSUME IInv, NEW n \in Numbers \ Stdio, FdClose(n) PROVE Lookup(n)' = NoEntry
  <2>1. CASE IsPreopen(n)
    <3>1. closed_preopens' = closed_preopens \cup {n} /\ fds' = fds
      BY <1>1, <2>1 DEF FdClose
    <3>2. fds[n] = NoEntry
      BY <1>1, <2>1 DEF IInv, NothingHidden
    <3> QED BY <3>1, <3>2 DEF Lookup, IsPreopen
  <2>2. CASE ~IsPreopen(n)
    <3>1. fds' = [fds EXCEPT ![n] = NoEntry] /\ closed_preopens' = closed_preopens
      BY <1>1, <2>2 DEF FdClose
    <3> QED BY <1>1, <2>2, <3>1 DEF Lookup, IsPreopen, IInv, Shape
  <2> QED BY <2>1, <2>2
<1>2. IInv => CloseEnds
  BY <1>1 DEF CloseEnds
<1> QED BY <1>2, Invariant, PTL DEF Spec

\* No number leads to the object, which was handed out once.
Gone(o) == o \in 0 .. next_fd - 1 /\ \A n \in Numbers : ObjectOf(n) # o
\* What is gone is gone after every step.
GoneForGood == \A o \in 0 .. next_fd - 1 : Gone(o) => Gone(o)'

(* An object that was closed is not reached again, by a number that is       *)
(* handed out later or moved to: proved of FdMap, and true of the table by   *)
(* the refinement.                                                           *)
THEOREM ClosedStaysClosed == Spec => [][GoneForGood]_vars
<1>1. ASSUME IInv, [Map!Next]_(Map!vars), NEW o \in 0 .. next_fd - 1, Gone(o)
      PROVE  Gone(o)'
  <2>1. Typed
    BY <1>1, ShapeIsTyped DEF IInv
  <2>2. \A n \in Numbers : Objects[n] # o
    BY <1>1 DEF Gone, Objects
  <2>3. o # Nowhere
    BY NowhereAssumption DEF IInv, Shape
  <2>4. \A n \in Numbers : Objects'[n] # o
    <3>1. CASE UNCHANGED Map!vars
      BY <2>2, <3>1 DEF Map!vars
    <3>2. ASSUME NEW k \in Numbers, Map!Open(k) PROVE \A n \in Numbers : Objects'[n] # o
      <4>1. k # o /\ Objects' = [Objects EXCEPT ![k] = k]
        BY <3>2 DEF Map!Open
      <4> QED BY <2>1, <2>2, <4>1 DEF Typed
    <3>3. ASSUME NEW k \in Numbers, Map!Close(k) PROVE \A n \in Numbers : Objects'[n] # o
      BY <2>1, <2>2, <2>3, <3>3 DEF Map!Close, Typed
    <3>4. ASSUME NEW from \in Numbers, NEW to \in Numbers, Map!Renumber(from, to)
          PROVE  \A n \in Numbers : Objects'[n] # o
      BY <2>1, <2>2, <2>3, <3>4 DEF Map!Renumber, Typed
    <3> QED BY <1>1, <3>1, <3>2, <3>3, <3>4 DEF Map!Next
  <2>5. 0 .. next_fd - 1 \subseteq (0 .. next_fd - 1)'
    BY <1>1 DEF Map!Next, Map!vars, Map!Open, Map!Close, Map!Renumber
  <2>6. \A n \in Numbers : ObjectOf(n)' # o
    BY <2>4 DEF Objects
  <2> QED BY <2>5, <2>6 DEF Gone
<1>2. IInv /\ [Next]_vars => GoneForGood
  BY <1>1, StepPreserves DEF GoneForGood
<1> QED BY <1>2, Invariant, PTL DEF Spec
==============================================================================
