------------------------------- MODULE FdTable -------------------------------
(***************************************************************************)
(* The descriptor table of a WASI context, wasi/mod.rs and the operations  *)
(* of wasi/preview1.rs that change it.                                     *)
(*                                                                         *)
(* A number is looked up in three places: the first are the standard       *)
(* streams unless closed_stdio has them, those after them are the preopened *)
(* directories unless closed_preopens has them, and everything that was    *)
(* opened or moved is in fds.  Nothing but the order of the updates keeps  *)
(* the three from naming one object twice, or hiding one under another.    *)
(*                                                                         *)
(* A path here is the text of a host path, the one that path_open hands to *)
(* the host and keeps in the entry.  What the host finds there is its own  *)
(* affair and a choice of each call: it follows the symbolic links in the  *)
(* middle of a path, and the one at its end when the guest asks for that,  *)
(* so the place of the object that is opened is not in the model.          *)
(*                                                                         *)
(* Trailing slashes, the validation of path bytes and the test for a link  *)
(* at the end of a path only add refusals and are left out, as are the     *)
(* operations that change no descriptor; an operation that is refused      *)
(* changes nothing and is a stuttering step.                               *)
(***************************************************************************)
EXTENDS Naturals, Sequences, SequencesExt

CONSTANTS
  Streams,     \* how many standard streams there are, 3
  Preopens,    \* how many directories the embedder preopens
  MaxFd,       \* bound on the numbers handed out
  Names,       \* components of a path other than "..", and than ".", which is skipped
  Prefixed,    \* those that the host reads as beginning with a drive, on Windows
  Up,          \* the component ".."
  MaxPath,     \* bound on the length of a path
  RightsSets,  \* the sets of rights a guest asks for
  Nowhere      \* what a number without an object leads to

ASSUME NumbersAssumption == Streams \in Nat /\ Preopens \in Nat /\ MaxFd \in Nat /\ Streams + Preopens <= MaxFd
ASSUME RightsAssumption == RightsSets \subseteq SUBSET {"READ", "WRITE", "CREATE", "SET_SIZE"}
ASSUME NamesAssumption == Up \notin Names /\ Prefixed \subseteq Names /\ MaxPath \in Nat
ASSUME NowhereAssumption == Nowhere \notin Nat

Numbers == 0 .. MaxFd
Stdio == 0 .. Streams - 1
PreopenFds == Streams .. Streams + Preopens - 1

\* One right of each group the operations tell apart.
RIGHTS_DIR_BASE == {"CREATE", "SET_SIZE"}
PATH_RIGHTS == {"CREATE", "SET_SIZE"}
RIGHTS_DIR_INHERITING == RIGHTS_DIR_BASE \cup {"READ", "WRITE"}

\* The host path of an entry is that of the preopened directory "root", then the
\* names in "path"; but a "path" that begins with a drive is all of it.  "object" is the
\* number an open file or directory was first known under and "under" the path of the
\* directory it was opened in; no operation reads these two.
FdEntries == [kind : {"Dir", "File"}, root : PreopenFds, path : Seq(Names), under : Seq(Names),
              object : Numbers, base : SUBSET RIGHTS_DIR_INHERITING,
              inh : SUBSET RIGHTS_DIR_INHERITING]

\* What fds holds for a number it does not have.
NoEntry == [kind |-> "None"]

VARIABLES fds, closed_preopens, closed_stdio, next_fd

vars == <<fds, closed_preopens, closed_stdio, next_fd>>

Init ==
  /\ fds = [n \in Numbers |-> NoEntry]
  /\ closed_preopens = {}
  /\ closed_stdio = {}
  /\ next_fd = Streams + Preopens

-----------------------------------------------------------------------------
(* Looking up.                                                               *)

IsPreopen(fd) == fd \in PreopenFds \ closed_preopens

PreopenEntry(fd) ==
  [kind |-> "Dir", root |-> fd, path |-> <<>>, under |-> <<>>, object |-> fd,
   base |-> RIGHTS_DIR_BASE, inh |-> RIGHTS_DIR_INHERITING]

\* The entry that dir_fd_state, and every operation that resolves a number
\* through the preopen lookup, works on.
Lookup(fd) == IF IsPreopen(fd) THEN PreopenEntry(fd) ELSE fds[fd]

\* The numbers fd_fdstat_get answers for.
FdstatAnswers ==
  (Stdio \ closed_stdio)
    \cup (PreopenFds \ closed_preopens)
    \cup {fd \in Numbers \ (Stdio \cup PreopenFds) : fds[fd] # NoEntry}

-----------------------------------------------------------------------------
(* Paths.                                                                    *)

Escaped == <<Up>>

\* One component of a relative path; ".." takes back a name, or escapes.
Climb(parts, c) ==
  IF parts = Escaped \/ (c = Up /\ parts = <<>>) THEN Escaped
  ELSE IF c = Up THEN Front(parts) ELSE Append(parts, c)

\* The parts after each component of a path, from "start" on.
Climbed(start, rel) ==
  LET parts[n \in 0 .. Len(rel)] == IF n = 0 THEN start ELSE Climb(parts[n - 1], rel[n])
  IN  parts

\* Mutant: ".." is applied to the whole path.
ResolveInBase(base, rel) == Climbed(base, rel)[Len(rel)]

\* The components of a relative path, once every ".." has taken one back.
Parts(rel) == Climbed(<<>>, rel)[Len(rel)]

\* PathBuf::push of one part after the other: a part with a drive replaces what
\* came before it.
Pushed(base, parts) ==
  LET drives == {i \in 1 .. Len(parts) : parts[i] \in Prefixed}
  IN  IF drives = {} THEN base \o parts ELSE SubSeq(parts, Max(drives), Len(parts))

\* resolve_under_base, or Escaped for its refusal.
ResolveUnderBase(base, rel) ==
  IF Parts(rel) = Escaped THEN Escaped ELSE Pushed(base, Parts(rel))

\* An absolute path is refused before it is taken apart.  A path that starts with a
\* drive, absolute or not, is among these: one that climbs back first resolves alike.
RelativePaths == UNION {[1 .. n -> Names \cup {Up}] : n \in 1 .. MaxPath}

-----------------------------------------------------------------------------
(* Operations.                                                               *)

AllocFd(entry) ==
  /\ next_fd <= MaxFd
  /\ fds' = [fds EXCEPT ![next_fd] = entry]
  /\ next_fd' = next_fd + 1

\* What path_open refuses before it asks the host.
MayOpen(dir, oflags, base, inh) ==
  /\ base \subseteq dir.inh
  /\ inh \subseteq dir.inh
  /\ "TRUNC" \in oflags => "SET_SIZE" \in dir.base
  /\ "CREAT" \in oflags => "CREATE" \in dir.base

\* A path that leads to a directory, and one that leads to a file, that of a file
\* just created included.  The host's refusals are stuttering steps.
OpenDir(dir, path, oflags, base, inh) ==
  /\ ~ {"READ", "WRITE"} \subseteq base
  /\ AllocFd([kind |-> "Dir", root |-> dir.root, path |-> path, under |-> dir.path,
              object |-> next_fd,
              base |-> base \cap PATH_RIGHTS, inh |-> inh])

OpenFile(dir, path, oflags, base, inh) ==
  /\ "DIRECTORY" \notin oflags
  /\ AllocFd([kind |-> "File", root |-> dir.root, path |-> path, under |-> dir.path,
              object |-> next_fd,
              base |-> base \ PATH_RIGHTS, inh |-> inh])

PathOpen(fd, rel, oflags, base, inh) ==
  LET dir == Lookup(fd)
      path == ResolveUnderBase(dir.path, rel)
  IN  /\ dir # NoEntry
      /\ dir.kind = "Dir"
      /\ path # Escaped
      /\ Len(path) <= MaxPath
      /\ MayOpen(dir, oflags, base, inh)
      /\ \/ OpenDir(dir, path, oflags, base, inh)
         \/ OpenFile(dir, path, oflags, base, inh)
      /\ UNCHANGED <<closed_preopens, closed_stdio>>

\* Mutant: the number of a preopen is always taken for the preopen.
FdCloseByRange(fd) ==
  /\ UNCHANGED next_fd
  /\ \/ /\ fd \in Stdio
        /\ closed_stdio' = closed_stdio \cup {fd}
        /\ UNCHANGED <<fds, closed_preopens>>
     \/ /\ fd \in PreopenFds
        /\ closed_preopens' = closed_preopens \cup {fd}
        /\ UNCHANGED <<fds, closed_stdio>>
     \/ /\ fd \notin Stdio \cup PreopenFds /\ fds[fd] # NoEntry
        /\ fds' = [fds EXCEPT ![fd] = NoEntry]
        /\ UNCHANGED <<closed_preopens, closed_stdio>>

FdClose(fd) ==
  /\ UNCHANGED next_fd
  /\ \/ /\ fd \in Stdio
        /\ closed_stdio' = closed_stdio \cup {fd}
        /\ UNCHANGED <<fds, closed_preopens>>
     \/ /\ IsPreopen(fd)
        /\ closed_preopens' = closed_preopens \cup {fd}
        /\ UNCHANGED <<fds, closed_stdio>>
     \/ /\ fd \notin Stdio /\ ~IsPreopen(fd) /\ fds[fd] # NoEntry
        /\ fds' = [fds EXCEPT ![fd] = NoEntry]
        /\ UNCHANGED <<closed_preopens, closed_stdio>>

DestValid(to) == IF to \in Stdio THEN to \notin closed_stdio ELSE Lookup(to) # NoEntry

\* Mutant: a preopen keeps its number.
EndedNever(ends) == {}

\* The preopens among the numbers a move ends.
Ended(ends) == {n \in ends : IsPreopen(n)}

\* Moving a standard stream only closes it: there is no entry to move, and what
\* the target number led to stays.
RenumberStdio(from, to) ==
  /\ from \in Stdio
  /\ closed_stdio' = closed_stdio \cup {from}
  /\ UNCHANGED <<fds, closed_preopens>>

RenumberEntry(from, to) ==
  /\ from \notin Stdio
  /\ Lookup(from) # NoEntry
  /\ LET left == IF IsPreopen(from) THEN fds ELSE [fds EXCEPT ![from] = NoEntry]
     IN  fds' = [left EXCEPT ![to] = Lookup(from)]
  /\ closed_stdio' = closed_stdio \cup ({to} \cap Stdio)
  /\ closed_preopens' = closed_preopens \cup Ended({from, to})

FdRenumber(from, to) ==
  /\ from # to
  /\ DestValid(to)
  /\ RenumberStdio(from, to) \/ RenumberEntry(from, to)
  /\ UNCHANGED next_fd

\* Mutant: rights are set within those any descriptor can have.
FdstatSetAnyRights(fd, base, inh) ==
  /\ fd \notin Stdio
  /\ fds[fd] # NoEntry
  /\ fds' = [fds EXCEPT ![fd].base = base, ![fd].inh = inh]
  /\ UNCHANGED <<closed_preopens, closed_stdio, next_fd>>

FdstatSetRights(fd, base, inh) ==
  /\ fd \notin Stdio
  /\ fds[fd] # NoEntry
  /\ base \subseteq fds[fd].base
  /\ inh \subseteq fds[fd].inh
  /\ fds' = [fds EXCEPT ![fd].base = base, ![fd].inh = inh]
  /\ UNCHANGED <<closed_preopens, closed_stdio, next_fd>>

OpenFlags == SUBSET {"CREAT", "TRUNC", "DIRECTORY"}

\* Once the numbers up to the bound are handed out, no path is opened.
Next ==
  \/ /\ next_fd <= MaxFd
     /\ \E fd \in Numbers, rel \in RelativePaths, oflags \in OpenFlags, base, inh \in RightsSets :
          PathOpen(fd, rel, oflags, base, inh)
  \/ \E fd \in Numbers : FdClose(fd)
  \/ \E from, to \in Numbers : FdRenumber(from, to)
  \/ \E fd \in Numbers, base, inh \in RightsSets : FdstatSetRights(fd, base, inh)

Spec == Init /\ [][Next]_vars
-----------------------------------------------------------------------------
(* Properties.                                                               *)

(* No entry of fds is hidden behind a stream or a preopen that still owns its *)
(* number, where neither a read nor a close could reach it, and none waits   *)
(* under a number that alloc_fd is yet to hand out.                          *)
NothingHidden ==
  \A n \in Numbers : fds[n] # NoEntry =>
    /\ ~IsPreopen(n)
    /\ n \in Stdio => n \in closed_stdio
    /\ n < next_fd

(* An open file or directory never gains a right, whatever numbers it is     *)
(* moved through: fd_fdstat_set_rights and fd_renumber are the only ways to  *)
(* change an entry, and a preopened directory that is moved becomes one.     *)
RightsOnlyShrink ==
  [][\A m, n \in Numbers :
       /\ Lookup(m) # NoEntry
       /\ fds'[n] # NoEntry
       /\ Lookup(m).object = fds'[n].object
       => /\ fds'[n].base \subseteq Lookup(m).base
          /\ fds'[n].inh \subseteq Lookup(m).inh]_vars

\* A host path that begins with a drive of its own.
OnDrive(path) == path # <<>> /\ path[1] \in Prefixed

(* The host path of whatever was opened through a directory continues the    *)
(* host path of that directory, however many times ".." occurs in the path   *)
(* it was asked for by, unless a component of it names a drive.  This is     *)
(* what resolve_under_base does to the text of a path, and no more: it does  *)
(* not say that the object the host finds there, by way of links, is in the  *)
(* directory, and it says nothing of a path with a drive.                    *)
LexicallyBelow ==
  \A n \in Numbers : fds[n] # NoEntry =>
    OnDrive(fds[n].path) \/ IsPrefix(fds[n].under, fds[n].path)

(* fd_fdstat_get knows every descriptor the other operations accept.  The    *)
(* memory of the project asks it of every operation (wasi.md, 129-133): all  *)
(* are to resolve a number through the preopen lookup.                       *)
FdstatResolves ==
  \A n \in Numbers \ Stdio : Lookup(n) # NoEntry => n \in FdstatAnswers

-----------------------------------------------------------------------------
(* The promise of FdMap.  A closed stream's number leads to what was moved   *)
(* onto it, as fd_read and fd_seek have it.                                  *)

ObjectOf(n) ==
  IF n \in Stdio \ closed_stdio THEN n
  ELSE IF Lookup(n) = NoEntry THEN Nowhere ELSE Lookup(n).object

Objects == [n \in Numbers |-> ObjectOf(n)]

Map == INSTANCE FdMap WITH Initial <- Stdio \cup PreopenFds, Closed <- Nowhere,
                           object <- Objects, issued <- 0 .. next_fd - 1

(* The table implements FdMap: numbers are handed out once, no object is     *)
(* reached under two numbers, and an object moves whole.                     *)
ImplementsMap == Map!Spec

(* FdMap's invariant of the table: two numbers never lead to one object.     *)
OneNumberEach == Map!OneNumberEach
==============================================================================
