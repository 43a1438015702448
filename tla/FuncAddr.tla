------------------------------ MODULE FuncAddr ------------------------------
(***************************************************************************)
(* Function references of a runtime world: the shared function registry of *)
(* vm/link.rs and the two forms of vm/jit/value_encoding.rs.               *)
(*                                                                         *)
(* A reference is one machine word with no tag.  Small words are local     *)
(* function indices of whichever instance reads them; words from Top down  *)
(* are addresses in the world's registry.  A word in the wrong form, or a  *)
(* meeting of the two ranges, calls a wrong function without an error.     *)
(* Here every reference carries, next to its word, the function it was     *)
(* made for, which no definition reads: the words must not lose it.        *)
(*                                                                         *)
(* Both engines keep this discipline; the definitions follow the JIT's.    *)
(***************************************************************************)
EXTENDS Naturals, Sequences

CONSTANTS
  Ids,       \* the ids of the world's instances, each used once
  Nobody,    \* owner of nothing
  Top,       \* FUNCADDR_TOP
  MaxFuncs   \* bound on the functions of a module

ASSUME IdsAssumption == Nobody \notin Ids
ASSUME TopAssumption == Top \in Nat
ASSUME MaxFuncsAssumption == MaxFuncs \in Nat

\* usize::MAX: above every word of either form.
Null == Top + 1
Unregistered == Top + 1

Words == 0 .. Top + 1

FuncEntries == [owner : Ids, local_index : Nat]

Nothing == [owner |-> Nobody, local_index |-> 0]

\* A word and, for the specification alone, the function it was made for.
References == [word : Words, names : FuncEntries \cup {Nothing}]

NullReference == [word |-> Null, names |-> Nothing]

\* A function is the module's own, reachable by reference or not, or an import
\* linked to the function another instance exported.
FunctionKinds == {"escapable", "hidden", "linked"}

Definitions == [kind : FunctionKinds, handle : References]

Modules == UNION {[1 .. n -> FunctionKinds] : n \in 0 .. MaxFuncs}

VARIABLES
  entries,          \* SharedFunctionRegistry: funcaddr a is entries[a + 1]
  max_local_functions_ever,
  status,           \* stage of each instance
  functions,        \* the functions of each instance, index l at l + 1
  local_funcaddrs,  \* their funcaddrs, or Unregistered
  frame,            \* a slot of a frame of each instance
  private,          \* a table or global only its owner can reach
  shared,           \* a table or global that is exported or imported
  host              \* a Value in the embedder's hands

registryVars == <<entries, max_local_functions_ever>>
instanceVars == <<status, functions, local_funcaddrs>>
cellVars == <<frame, private, shared, host>>
vars == <<registryVars, instanceVars, cellVars>>

-----------------------------------------------------------------------------
Count(i) == Len(functions[i])

Name(i, l) == [owner |-> i, local_index |-> l]

\* Mutant: funcaddrs are numbered from Top up.
EncodeUpward(a) == Top + a

Encode(a) == Top - a

\* entry_for_handle, in its two halves.
Resolves(w) == w <= Top /\ Top - w < Len(entries)

EntryOf(w) == entries[Top - w + 1]

\* What instance i's word w is outside i's frames and private containers.
Absolutize(i, w) ==
  IF w < Count(i) /\ local_funcaddrs[i][w + 1] # Unregistered
    THEN Encode(local_funcaddrs[i][w + 1])
    ELSE w

\* What the word w is inside instance i's frames.
Localize(i, w) ==
  IF w >= Count(i) /\ Resolves(w) /\ EntryOf(w).owner = i
    THEN EntryOf(w).local_index
    ELSE w

\* The function a call through the word w, in instance i, reaches; Nothing is
\* a trap.
Dispatch(i, w) ==
  LET local == Localize(i, w) IN
  IF w = Null THEN Nothing
  ELSE IF local < Count(i) THEN Name(i, local)
  ELSE IF Resolves(local) THEN EntryOf(local)
  ELSE Nothing

\* The function a linked import forwards to.
Forward(i, l) == EntryOf(Absolutize(i, functions[i][l + 1].handle.word))

Outward(i, r) == [r EXCEPT !.word = Absolutize(i, @)]

Inward(i, r) == [r EXCEPT !.word = Localize(i, @)]

-----------------------------------------------------------------------------
Init ==
  /\ entries = <<>>
  /\ max_local_functions_ever = 0
  /\ status = [i \in Ids |-> "unborn"]
  /\ functions = [i \in Ids |-> <<>>]
  /\ local_funcaddrs = [i \in Ids |-> <<>>]
  /\ frame = [i \in Ids |-> NullReference]
  /\ private = [i \in Ids |-> NullReference]
  /\ shared = NullReference
  /\ host = NullReference

\* No code but the instantiation's own runs while it registers functions.
Idle == \A i \in Ids : status[i] # "building"

Higher(m, n) == IF m >= n THEN m ELSE n

\* Mutant: the local range of the new instance is not recorded.
ObserveNothing(count) == UNCHANGED max_local_functions_ever

\* observe_local_function_count; its assertion is the second conjunct.
Observe(count) ==
  /\ max_local_functions_ever' = Higher(max_local_functions_ever, count)
  /\ entries # <<>> =>
       /\ Len(entries) - 1 <= Top
       /\ Encode(Len(entries) - 1) >= max_local_functions_ever'

\* What a function of each kind is in an instance: a linked import keeps the
\* reference the embedder passes in.
Linked(kind) ==
  [kind |-> kind, handle |-> IF kind = "linked" THEN host ELSE NullReference]

Begin(i, module) ==
  /\ Idle
  /\ status[i] = "unborn"
  /\ host = NullReference => \A k \in DOMAIN module : module[k] # "linked"
  /\ Len(module) <= Top
  /\ Observe(Len(module))
  /\ status' = [status EXCEPT ![i] = "building"]
  /\ functions' = [functions EXCEPT ![i] = [k \in DOMAIN module |-> Linked(module[k])]]
  /\ UNCHANGED <<entries, local_funcaddrs, cellVars>>

\* The function the registration loop has come to.
NextFunc(i) == Len(local_funcaddrs[i]) + 1

\* register_local_function, with the assertions of observe and register.
Register(i) ==
  /\ status[i] = "building"
  /\ NextFunc(i) <= Count(i)
  /\ functions[i][NextFunc(i)].kind = "escapable"
  /\ Observe(Count(i))
  /\ Len(entries) <= Top
  /\ Encode(Len(entries)) >= max_local_functions_ever
  /\ entries' = Append(entries, Name(i, NextFunc(i) - 1))
  /\ local_funcaddrs' = [local_funcaddrs EXCEPT ![i] = Append(@, Len(entries))]
  /\ UNCHANGED <<status, functions, cellVars>>

\* A function no reference can reach, and a linked one, get no address.
Skip(i) ==
  /\ status[i] = "building"
  /\ NextFunc(i) <= Count(i)
  /\ functions[i][NextFunc(i)].kind # "escapable"
  /\ local_funcaddrs' = [local_funcaddrs EXCEPT ![i] = Append(@, Unregistered)]
  /\ UNCHANGED <<registryVars, status, functions, cellVars>>

Built(i) ==
  /\ status[i] = "building"
  /\ NextFunc(i) > Count(i)
  /\ status' = [status EXCEPT ![i] = "alive"]
  /\ UNCHANGED <<registryVars, functions, local_funcaddrs, cellVars>>

\* The instance's frames and containers go with it, its registry entries stay.
Free(i) ==
  /\ Idle
  /\ status[i] = "alive"
  /\ status' = [status EXCEPT ![i] = "dead"]
  /\ functions' = [functions EXCEPT ![i] = <<>>]
  /\ local_funcaddrs' = [local_funcaddrs EXCEPT ![i] = <<>>]
  /\ frame' = [frame EXCEPT ![i] = NullReference]
  /\ private' = [private EXCEPT ![i] = NullReference]
  /\ UNCHANGED <<registryVars, shared, host>>

-----------------------------------------------------------------------------
Runs(i) == Idle /\ status[i] = "alive"

ToFrame(i, r) ==
  /\ frame' = [frame EXCEPT ![i] = r]
  /\ UNCHANGED <<registryVars, instanceVars, private, shared, host>>

ToPrivate(i, r) ==
  /\ private' = [private EXCEPT ![i] = r]
  /\ UNCHANGED <<registryVars, instanceVars, frame, shared, host>>

ToShared(r) ==
  /\ shared' = r
  /\ UNCHANGED <<registryVars, instanceVars, frame, private, host>>

RefNull(i) == Runs(i) /\ ToFrame(i, NullReference)

\* ref.func, which validation allows on escapable functions only.
RefFunc(i, l) ==
  /\ Runs(i)
  /\ l < Count(i)
  /\ \/ /\ functions[i][l + 1].kind = "escapable"
        /\ ToFrame(i, [word |-> l, names |-> Name(i, l)])
     \/ /\ functions[i][l + 1].kind = "linked"
        /\ ToFrame(i, functions[i][l + 1].handle)

\* Mutant: a shared container takes the word as it is in the frame.
SetSharedRaw(i) == Runs(i) /\ ToShared(frame[i])

\* table.set, table.fill, table.grow and global.set on a reachable container.
SetShared(i) == Runs(i) /\ ToShared(Outward(i, frame[i]))

\* table.get and global.get copy the word; a private container takes it as it
\* is from compiled code, and in the local form from a runtime helper.
GetShared(i) == Runs(i) /\ ToFrame(i, shared)
SetPrivate(i) ==
  Runs(i) /\ (ToPrivate(i, frame[i]) \/ ToPrivate(i, Inward(i, frame[i])))
GetPrivate(i) == Runs(i) /\ ToFrame(i, private[i])

\* table.copy and table.init between containers of the two classes.
CopyToShared(i) == Runs(i) /\ ToShared(Outward(i, private[i]))
CopyToPrivate(i) == Runs(i) /\ ToPrivate(i, Inward(i, shared))

\* Mutant: the word is converted for the callee against the callee only.
PassNotOutward(i, j) == Runs(i) /\ Runs(j) /\ ToFrame(j, Inward(j, frame[i]))

\* An argument of a call from i to j, or a result of one from j to i: read
\* against the store that owns the frame read, written against the other's.
Pass(i, j) == Runs(i) /\ Runs(j) /\ ToFrame(j, Inward(j, Outward(i, frame[i])))

\* A result, a host call's argument, an export's handle.
ToHost(i) ==
  /\ Runs(i)
  /\ host' = Outward(i, frame[i])
  /\ UNCHANGED <<registryVars, instanceVars, frame, private, shared>>

\* A value of the embedder's comes back if the function's owner is still there.
FromHost(i) ==
  /\ Runs(i)
  /\ host.word # Null =>
       /\ Resolves(host.word)
       /\ status[EntryOf(host.word).owner] = "alive"
  /\ ToFrame(i, Inward(i, host))

Next ==
  \E i \in Ids :
    \/ \E module \in Modules : Begin(i, module)
    \/ Register(i) \/ Skip(i) \/ Built(i)
    \/ Free(i)
    \/ RefNull(i) \/ \E l \in 0 .. MaxFuncs - 1 : RefFunc(i, l)
    \/ SetShared(i) \/ GetShared(i) \/ SetPrivate(i) \/ GetPrivate(i)
    \/ CopyToShared(i) \/ CopyToPrivate(i)
    \/ \E j \in Ids : Pass(i, j)
    \/ ToHost(i) \/ FromHost(i)

Spec == Init /\ [][Next]_vars

-----------------------------------------------------------------------------
\* The registry, the instances and every place a reference can be in hold what
\* they are made for; above all each reference is a machine word, an encoded
\* funcaddr never running past Null (FUNCADDR_TOP, value.rs).
TypeOK ==
  /\ entries \in Seq(FuncEntries)
  /\ max_local_functions_ever \in Nat
  /\ status \in [Ids -> {"unborn", "building", "alive", "dead"}]
  /\ functions \in [Ids -> Seq(Definitions)]
  /\ local_funcaddrs \in [Ids -> Seq(Words)]
  /\ frame \in [Ids -> References]
  /\ private \in [Ids -> References]
  /\ shared \in References
  /\ host \in References

\* No word can be read as a local index by one instance and as a registry
\* address by another: the ranges do not meet, whatever instances came and went
\* (SharedFunctionRegistry's assertions, link.rs).
RangesDisjoint ==
  /\ Len(entries) <= Top + 1
  /\ \A i \in Ids, a \in 0 .. Len(entries) - 1 : Count(i) <= Encode(a)

\* Every reference an instance can read dispatches to the function it was made
\* for -- its own or a peer's, through any path of frames, containers, calls
\* and the embedder -- and one whose owner is gone still names that owner, so
\* that the checkout of it fails.  Linked imports forward likewise.
NoMisdispatch ==
  \A i \in Ids : status[i] = "alive" =>
    /\ \A r \in {frame[i], private[i], shared, host} : Dispatch(i, r.word) = r.names
    /\ \A l \in 0 .. Count(i) - 1 :
         functions[i][l + 1].kind = "linked" =>
           Forward(i, l) = functions[i][l + 1].handle.names

\* What more than one instance, or the embedder, can reach holds no local form:
\* RUNTIME_WORLD.md's rule that a local form lives only where its owner alone
\* can see it, kept by Absolutize at every crossing.
LocalFormsStayHome ==
  \A r \in {shared, host} :
    r # NullReference => Resolves(r.word) /\ EntryOf(r.word) = r.names
=============================================================================
