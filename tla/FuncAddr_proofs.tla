--------------------------- MODULE FuncAddr_proofs ---------------------------
(***************************************************************************)
(* Proofs about FuncAddr, for every number of instances, size of module    *)
(* and width of the encoding.  An instance that is built sees either its   *)
(* own registered functions in the local form or anybody's in the absolute *)
(* one; what is shared is absolute; and no absolute word is below the      *)
(* largest local range there ever was.                                     *)
(***************************************************************************)
EXTENDS FuncAddr, TLAPS

Absolute(r) == r = NullReference \/ (Resolves(r.word) /\ EntryOf(r.word) = r.names)

Own(i, r) ==
  /\ r.word + 1 \in 1 .. Len(local_funcaddrs[i])
  /\ local_funcaddrs[i][r.word + 1] # Unregistered
  /\ r.names = Name(i, r.word)

Good(i, r) == Own(i, r) \/ Absolute(r)

Ranges ==
  /\ max_local_functions_ever <= Top
  /\ max_local_functions_ever + Len(entries) <= Top + 1
  /\ \A i \in Ids : Count(i) <= max_local_functions_ever

\* The funcaddrs of an instance lead to its own functions, and every function
\* that validation lets a reference reach has one.
Addresses ==
  \A i \in Ids :
    /\ Len(local_funcaddrs[i]) <= Count(i)
    /\ status[i] = "alive" => Len(local_funcaddrs[i]) = Count(i)
    /\ status[i] \in {"unborn", "dead"} => Count(i) = 0
    /\ \A k \in 1 .. Len(local_funcaddrs[i]) :
         /\ local_funcaddrs[i][k] # Unregistered =>
              /\ local_funcaddrs[i][k] < Len(entries)
              /\ entries[local_funcaddrs[i][k] + 1] = Name(i, k - 1)
         /\ functions[i][k].kind = "escapable" => local_funcaddrs[i][k] # Unregistered

\* An entry whose owner lives is one of its owner's funcaddrs.
Owners ==
  \A a \in 1 .. Len(entries) :
    /\ status[entries[a].owner] # "unborn"
    /\ status[entries[a].owner] # "dead" =>
         /\ entries[a].local_index + 1 \in 1 .. Len(local_funcaddrs[entries[a].owner])
         /\ local_funcaddrs[entries[a].owner][entries[a].local_index + 1] # Unregistered

Cells ==
  /\ \A i \in Ids : Good(i, frame[i]) /\ Good(i, private[i])
  /\ Absolute(shared)
  /\ Absolute(host)

Links ==
  \A i \in Ids : \A k \in 1 .. Count(i) :
    functions[i][k].kind = "linked" =>
      Absolute(functions[i][k].handle) /\ functions[i][k].handle # NullReference

Inv == TypeOK /\ Ranges /\ Addresses /\ Owners /\ Cells /\ Links

USE IdsAssumption, TopAssumption, MaxFuncsAssumption

-----------------------------------------------------------------------------
(* The two conversions. *)

\* Nothing absolute is in anybody's local range.
LEMMA AbsoluteOutward ==
  ASSUME Inv, NEW i \in Ids, NEW r \in References, Absolute(r)
  PROVE  /\ Absolutize(i, r.word) = r.word
         /\ Outward(i, r) = r
         /\ r.word >= Count(i)
  <1>1. Count(i) \in Nat /\ Count(i) <= max_local_functions_ever
    BY DEF Inv, TypeOK, Ranges, Count
  <1>2. max_local_functions_ever \in Nat /\ Len(entries) \in Nat
    BY DEF Inv, TypeOK
  <1>3. r.word \in 0 .. Top + 1
    BY DEF References, Words
  <1>4. r.word >= Count(i)
    <2>1. CASE r = NullReference
      BY <2>1, <1>1, <1>2 DEF NullReference, Null, Inv, Ranges
    <2>2. CASE Resolves(r.word)
      BY <2>2, <1>1, <1>2, <1>3 DEF Resolves, Inv, Ranges
    <2> QED BY <2>1, <2>2 DEF Absolute
  <1>5. Absolutize(i, r.word) = r.word
    BY <1>1, <1>3, <1>4 DEF Absolutize
  <1>6. Outward(i, r) = r
    BY <1>5 DEF Outward, References
  <1> QED BY <1>4, <1>5, <1>6

\* absolutize makes the absolute form of an instance's own function.
LEMMA OwnOutward ==
  ASSUME Inv, NEW i \in Ids, NEW r \in References, Own(i, r)
  PROVE  Outward(i, r) \in References /\ Absolute(Outward(i, r))
  <1> DEFINE a == local_funcaddrs[i][r.word + 1]
  <1>1. r.word \in 0 .. Top + 1 /\ r.word + 1 \in 1 .. Len(local_funcaddrs[i])
    BY DEF References, Words, Own
  <1>2. a # Unregistered /\ r.names = Name(i, r.word)
    BY DEF Own
  <1>3. Len(entries) \in Nat /\ Len(local_funcaddrs[i]) \in Nat /\ Count(i) \in Nat
    BY DEF Inv, TypeOK, Count
  <1>4. a \in 0 .. Top + 1
    BY <1>1, <1>3 DEF Inv, TypeOK, Words
  <1>5. a < Len(entries) /\ entries[a + 1] = Name(i, r.word)
    BY <1>1, <1>2, <1>3 DEF Inv, Addresses
  <1>6. a <= Top
    BY <1>2, <1>4 DEF Unregistered
  <1>7. r.word < Count(i)
    BY <1>1, <1>3 DEF Inv, Addresses
  <1>8. Absolutize(i, r.word) = Top - a
    BY <1>2, <1>7 DEF Absolutize, Encode
  <1>9. Outward(i, r) = [word |-> Top - a, names |-> r.names]
    BY <1>8 DEF Outward, References
  <1>10. Top - a \in 0 .. Top /\ Top - (Top - a) = a
    BY <1>4, <1>6
  <1>11. Resolves(Top - a) /\ EntryOf(Top - a) = r.names
    BY <1>2, <1>3, <1>5, <1>10 DEF Resolves, EntryOf
  <1>12. Outward(i, r) \in References
    BY <1>9, <1>10 DEF References, Words
  <1> QED BY <1>9, <1>11, <1>12 DEF Absolute

LEMMA GoodOutward ==
  ASSUME Inv, NEW i \in Ids, NEW r \in References, Good(i, r)
  PROVE  Outward(i, r) \in References /\ Absolute(Outward(i, r))
  BY AbsoluteOutward, OwnOutward DEF Good

\* An absolute reference in instance i: the entry it resolves to, which is one
\* of i's registered functions where i owns it.
LEMMA AbsoluteEntry ==
  ASSUME Inv, NEW r \in References, Absolute(r), r # NullReference
  PROVE  /\ Resolves(r.word)
         /\ EntryOf(r.word) = r.names
         /\ r.names \in FuncEntries
         /\ status[r.names.owner] # "unborn"
         /\ status[r.names.owner] # "dead" =>
              /\ r.names.local_index + 1 \in 1 .. Len(local_funcaddrs[r.names.owner])
              /\ local_funcaddrs[r.names.owner][r.names.local_index + 1] # Unregistered
  <1>1. Resolves(r.word) /\ EntryOf(r.word) = r.names
    BY DEF Absolute
  <1>2. r.word \in 0 .. Top + 1 /\ Len(entries) \in Nat
    BY DEF References, Words, Inv, TypeOK
  <1>3. Top - r.word + 1 \in 1 .. Len(entries)
    BY <1>1, <1>2 DEF Resolves
  <1>4. r.names = entries[Top - r.word + 1]
    BY <1>1 DEF EntryOf
  <1>5. r.names \in FuncEntries
    BY <1>3, <1>4 DEF Inv, TypeOK
  <1> QED BY <1>1, <1>3, <1>4, <1>5 DEF Inv, Owners

\* localize makes, of what anybody may hold, what instance i may hold.
LEMMA AbsoluteInward ==
  ASSUME Inv, NEW i \in Ids, status[i] = "alive", NEW r \in References, Absolute(r)
  PROVE  Inward(i, r) \in References /\ Good(i, Inward(i, r))
  <1>1. CASE Localize(i, r.word) = r.word
    BY <1>1 DEF Inward, References, Good
  <1>2. CASE Localize(i, r.word) # r.word
    <2>1. Resolves(r.word) /\ EntryOf(r.word).owner = i
      BY <1>2 DEF Localize
    <2>2. r # NullReference
      BY <2>1 DEF Resolves, NullReference, Null
    <2> DEFINE l == r.names.local_index
    <2>3. r.names \in FuncEntries /\ r.names.owner = i /\ EntryOf(r.word) = r.names
      BY <2>1, <2>2, AbsoluteEntry
    <2>4. l + 1 \in 1 .. Len(local_funcaddrs[i]) /\ local_funcaddrs[i][l + 1] # Unregistered
      BY <2>2, <2>3, AbsoluteEntry
    <2>5. r.names = Name(i, l) /\ l \in Nat
      BY <2>3 DEF FuncEntries, Name
    <2>6. Localize(i, r.word) = l
      BY <1>2, <2>3 DEF Localize
    <2>7. Inward(i, r) = [word |-> l, names |-> r.names]
      BY <2>6 DEF Inward, References
    <2>8. l <= Top
      <3>1. Len(local_funcaddrs[i]) \in Nat /\ Count(i) \in Nat /\ max_local_functions_ever \in Nat
        BY DEF Inv, TypeOK, Count
      <3> QED BY <2>4, <2>5, <3>1 DEF Inv, Addresses, Ranges
    <2>9. Inward(i, r) \in References
      BY <2>3, <2>5, <2>7, <2>8 DEF References, Words
    <2> QED BY <2>4, <2>5, <2>7, <2>9 DEF Good, Own
  <1> QED BY <1>1, <1>2

LEMMA GoodInward ==
  ASSUME Inv, NEW i \in Ids, status[i] = "alive", NEW r \in References, Good(i, r)
  PROVE  Inward(i, r) \in References /\ Good(i, Inward(i, r))
  <1>1. CASE Absolute(r)
    BY <1>1, AbsoluteInward
  <1>2. CASE Own(i, r)
    <2>1. r.word < Count(i)
      <3>1. Len(local_funcaddrs[i]) \in Nat /\ Count(i) \in Nat /\ r.word \in 0 .. Top + 1
        BY DEF Inv, TypeOK, Count, References, Words
      <3> QED BY <1>2, <3>1 DEF Own, Inv, Addresses
    <2>2. Inward(i, r) = r
      <3>1. Count(i) \in Nat /\ r.word \in 0 .. Top + 1
        BY DEF Inv, TypeOK, Count, References, Words
      <3>2. Localize(i, r.word) = r.word
        BY <2>1, <3>1 DEF Localize
      <3> QED BY <3>2 DEF Inward, References
    <2> QED BY <1>2, <2>2 DEF Good
  <1> QED BY <1>1, <1>2 DEF Good

-----------------------------------------------------------------------------
(* A reference moves, and nothing else changes. *)

LEMMA FrameMove ==
  ASSUME Inv, NEW i \in Ids, NEW r \in References, Good(i, r), ToFrame(i, r)
  PROVE  Inv'
  <1> USE DEF ToFrame, registryVars, instanceVars
  <1>1. TypeOK'
    BY DEF Inv, TypeOK
  <1>2. Ranges' /\ Addresses' /\ Owners' /\ Links'
    BY DEF Inv, Ranges, Addresses, Owners, Links, Count, Name, Absolute, Resolves, EntryOf
  <1>3. Cells'
    <2>1. \A j \in Ids, q \in References : Good(j, q) => Good(j, q)'
      BY DEF Good, Own, Absolute, Name, Resolves, EntryOf
    <2>2. \A q \in References : Absolute(q) => Absolute(q)'
      BY DEF Absolute, Resolves, EntryOf
    <2>3. \A j \in Ids : frame'[j] = IF j = i THEN r ELSE frame[j]
      BY DEF Inv, TypeOK
    <2>4. \A j \in Ids : frame[j] \in References /\ private[j] \in References
      BY DEF Inv, TypeOK
    <2>5. shared \in References /\ host \in References
      BY DEF Inv, TypeOK
    <2>6. ASSUME NEW j \in Ids
          PROVE  Good(j, frame[j])' /\ Good(j, private[j])'
      <3>1. PICK q \in References : q = frame'[j]
        BY <2>3, <2>4
      <3>2. Good(j, q)
        BY <2>3, <3>1 DEF Inv, Cells
      <3>3. Good(j, q)'
        BY <2>1, <3>2
      <3>4. PICK p \in References : p = private[j]
        BY <2>4
      <3>5. Good(j, p)'
        BY <2>1, <3>4 DEF Inv, Cells
      <3> QED BY <3>1, <3>3, <3>4, <3>5 DEF Good, Own, Absolute
    <2>7. Absolute(shared)' /\ Absolute(host)'
      BY <2>2, <2>5 DEF Inv, Cells, Absolute, Resolves, EntryOf
    <2> QED BY <2>6, <2>7 DEF Cells
  <1> QED BY <1>1, <1>2, <1>3 DEF Inv

LEMMA PrivateMove ==
  ASSUME Inv, NEW i \in Ids, NEW r \in References, Good(i, r), ToPrivate(i, r)
  PROVE  Inv'
  <1> USE DEF ToPrivate, registryVars, instanceVars
  <1>1. TypeOK'
    BY DEF Inv, TypeOK
  <1>2. Ranges' /\ Addresses' /\ Owners' /\ Links'
    BY DEF Inv, Ranges, Addresses, Owners, Links, Count, Name, Absolute, Resolves, EntryOf
  <1>3. Cells'
    <2>1. \A j \in Ids, q \in References : Good(j, q) => Good(j, q)'
      BY DEF Good, Own, Absolute, Name, Resolves, EntryOf
    <2>2. \A j \in Ids : private'[j] = IF j = i THEN r ELSE private[j]
      BY DEF Inv, TypeOK
    <2>3. \A j \in Ids : frame[j] \in References /\ private[j] \in References
      BY DEF Inv, TypeOK
    <2>4. ASSUME NEW j \in Ids
          PROVE  Good(j, frame[j])' /\ Good(j, private[j])'
      <3>1. PICK q \in References : q = private'[j]
        BY <2>2, <2>3
      <3>2. Good(j, q)
        BY <2>2, <3>1 DEF Inv, Cells
      <3>3. Good(j, q)'
        BY <2>1, <3>2
      <3>4. PICK p \in References : p = frame[j]
        BY <2>3
      <3>5. Good(j, p)'
        BY <2>1, <3>4 DEF Inv, Cells
      <3> QED BY <3>1, <3>3, <3>4, <3>5 DEF Good, Own, Absolute
    <2>5. Absolute(shared)' /\ Absolute(host)'
      BY DEF Inv, Cells, Absolute, Resolves, EntryOf
    <2> QED BY <2>4, <2>5 DEF Cells
  <1> QED BY <1>1, <1>2, <1>3 DEF Inv

\* What reaches a shared container or the embedder is absolute.
LEMMA OutwardMove ==
  ASSUME Inv, NEW r \in References, Absolute(r),
         UNCHANGED <<registryVars, instanceVars, frame, private>>,
         \/ shared' = r /\ host' = host
         \/ shared' = shared /\ host' = r
  PROVE  Inv'
  <1> USE DEF registryVars, instanceVars
  <1>1. TypeOK'
    BY DEF Inv, TypeOK
  <1>2. Ranges' /\ Addresses' /\ Owners' /\ Links'
    BY DEF Inv, Ranges, Addresses, Owners, Links, Count, Name, Absolute, Resolves, EntryOf
  <1>3. Cells'
    <2>1. \A j \in Ids : Good(j, frame[j])' /\ Good(j, private[j])'
      BY DEF Inv, Cells, Good, Own, Absolute, Name, Resolves, EntryOf
    <2>2. Absolute(shared)' /\ Absolute(host)'
      BY DEF Inv, Cells, Absolute, Resolves, EntryOf
    <2> QED BY <2>1, <2>2 DEF Cells
  <1> QED BY <1>1, <1>2, <1>3 DEF Inv

-----------------------------------------------------------------------------
(* An instance comes and goes. *)

LEMMA InitInv == Init => Inv
  <1> SUFFICES ASSUME Init PROVE Inv
    OBVIOUS
  <1>1. NullReference \in References
    BY DEF NullReference, References, Null, Words
  <1>2. TypeOK
    BY <1>1 DEF Init, TypeOK
  <1>3. Ranges /\ Addresses /\ Owners /\ Links
    BY DEF Init, Ranges, Addresses, Owners, Links, Count
  <1>4. Cells
    BY DEF Init, Cells, Good, Absolute
  <1> QED BY <1>2, <1>3, <1>4 DEF Inv

\* observe_local_function_count keeps the ranges apart.
LEMMA Observed ==
  ASSUME Inv, NEW count \in Nat, count <= Top, Observe(count)
  PROVE  /\ max_local_functions_ever' \in Nat
         /\ max_local_functions_ever <= max_local_functions_ever'
         /\ count <= max_local_functions_ever'
         /\ max_local_functions_ever' <= Top
         /\ max_local_functions_ever' + Len(entries) <= Top + 1
  <1>1. max_local_functions_ever \in Nat /\ Len(entries) \in Nat
    BY DEF Inv, TypeOK
  <1>2. /\ max_local_functions_ever' \in Nat
        /\ max_local_functions_ever <= max_local_functions_ever'
        /\ count <= max_local_functions_ever'
        /\ max_local_functions_ever' <= Top
    BY <1>1 DEF Observe, Higher, Inv, Ranges
  <1>3. CASE entries = <<>>
    <2>1. Len(entries) = 0
      BY <1>3
    <2>2. PICK m \in Nat : m = max_local_functions_ever'
      BY <1>2
    <2>3. m + Len(entries) <= Top + 1
      <3>1. m <= Top
        BY <1>2, <2>2
      <3>2. m + 0 <= Top + 1
        BY <3>1
      <3> QED BY <2>1, <3>2
    <2> QED BY <1>2, <2>2, <2>3
  <1>4. CASE entries # <<>>
    BY <1>1, <1>2, <1>4 DEF Observe, Encode
  <1> QED BY <1>2, <1>3, <1>4

LEMMA BeginInv ==
  ASSUME Inv, NEW i \in Ids, NEW module \in Modules, Begin(i, module)
  PROVE  Inv'
  <1> USE DEF Begin, cellVars
  <1> DEFINE new == [k \in DOMAIN module |-> Linked(module[k])]
  <1>1. Len(module) \in Nat /\ DOMAIN module = 1 .. Len(module)
    BY DEF Modules
  <1>2. module \in [1 .. Len(module) -> FunctionKinds]
    BY <1>1 DEF Modules
  <1>3. host \in References /\ NullReference \in References
    BY DEF Inv, TypeOK, NullReference, References, Null, Words
  <1>4. new \in Seq(Definitions) /\ Len(new) = Len(module)
    <2>1. \A k \in 1 .. Len(module) : Linked(module[k]) \in Definitions
      BY <1>2, <1>3 DEF Linked, Definitions
    <2> QED BY <1>1, <2>1
  <1>5. \A j \in Ids : functions'[j] = IF j = i THEN new ELSE functions[j]
    BY DEF Inv, TypeOK
  <1>6. \A j \in Ids : status'[j] = IF j = i THEN "building" ELSE status[j]
    BY DEF Inv, TypeOK
  <1>7. /\ max_local_functions_ever' \in Nat
        /\ max_local_functions_ever <= max_local_functions_ever'
        /\ Len(module) <= max_local_functions_ever'
        /\ max_local_functions_ever' <= Top
        /\ max_local_functions_ever' + Len(entries) <= Top + 1
    BY <1>1, Observed
  <1>8. Len(local_funcaddrs[i]) = 0 /\ Count(i) = 0
    <2>1. Count(i) = 0 /\ Len(local_funcaddrs[i]) \in Nat
      BY DEF Inv, TypeOK, Addresses
    <2> QED BY <2>1 DEF Inv, Addresses
  <1>9. TypeOK'
    BY <1>4, <1>7 DEF Inv, TypeOK
  <1>10. Ranges'
    <2>1. \A j \in Ids : Count(j) \in Nat /\ Count(j) <= max_local_functions_ever
      BY DEF Inv, TypeOK, Ranges, Count
    <2>2. \A j \in Ids : Count(j)' <= max_local_functions_ever'
      BY <1>1, <1>4, <1>5, <1>7, <2>1 DEF Count, Inv, TypeOK
    <2> QED BY <1>7, <2>2 DEF Ranges
  <1>11. Addresses'
    <2> SUFFICES ASSUME NEW j \in Ids
                 PROVE (/\ Len(local_funcaddrs[j]) <= Count(j)
                        /\ status[j] = "alive" => Len(local_funcaddrs[j]) = Count(j)
                        /\ status[j] \in {"unborn", "dead"} => Count(j) = 0
                        /\ \A k \in 1 .. Len(local_funcaddrs[j]) :
                             /\ local_funcaddrs[j][k] # Unregistered =>
                                  /\ local_funcaddrs[j][k] < Len(entries)
                                  /\ entries[local_funcaddrs[j][k] + 1] = Name(j, k - 1)
                             /\ functions[j][k].kind = "escapable" =>
                                  local_funcaddrs[j][k] # Unregistered)'
      BY DEF Addresses
    <2>1. CASE j = i
      BY <1>1, <1>4, <1>5, <1>6, <1>8, <2>1 DEF Count
    <2>2. CASE j # i
      BY <1>5, <1>6, <2>2 DEF Count, Inv, Addresses, Name
    <2> QED BY <2>1, <2>2
  <1>12. Owners'
    BY <1>6 DEF Inv, TypeOK, Owners
  <1>13. \A r \in References : Absolute(r) => Absolute(r)'
    BY DEF Absolute, Resolves, EntryOf
  <1>14. Cells'
    BY <1>13 DEF Inv, TypeOK, Cells, Good, Own, Name, Absolute, Resolves, EntryOf
  <1>15. Links'
    <2> SUFFICES ASSUME NEW j \in Ids, NEW k \in 1 .. Count(j)',
                        functions'[j][k].kind = "linked"
                 PROVE  (Absolute(functions[j][k].handle)
                          /\ functions[j][k].handle # NullReference)'
      BY DEF Links
    <2>1. CASE j = i
      <3>1. functions'[j][k] = Linked(module[k]) /\ k \in DOMAIN module
        BY <1>1, <1>4, <1>5, <2>1 DEF Count
      <3>2. functions'[j][k].handle = host /\ module[k] = "linked"
        BY <3>1 DEF Linked
      <3>3. host # NullReference
        BY <3>1, <3>2
      <3> QED BY <3>2, <3>3 DEF Inv, Cells, Absolute, Resolves, EntryOf
    <2>2. CASE j # i
      BY <1>5, <2>2 DEF Count, Inv, Links, Absolute, Resolves, EntryOf
    <2> QED BY <2>1, <2>2
  <1> QED BY <1>9, <1>10, <1>11, <1>12, <1>14, <1>15 DEF Inv

\* The registration loop's own step: one more funcaddr of the instance that is
\* built, and at most one more entry.
LEMMA RegisterInv ==
  ASSUME Inv, NEW i \in Ids, Register(i)
  PROVE  Inv'
  <1> USE DEF Register, cellVars
  <1> DEFINE n == Len(local_funcaddrs[i])
             a == Len(entries)
  <1>1. n \in Nat /\ a \in Nat /\ Count(i) \in Nat /\ max_local_functions_ever \in Nat
    BY DEF Inv, TypeOK, Count
  <1>2. n < Count(i) /\ functions[i][n + 1].kind = "escapable" /\ NextFunc(i) - 1 = n
    BY <1>1 DEF NextFunc
  <1>3. Count(i) <= Top
    BY <1>1 DEF Inv, Ranges
  <1>4. /\ max_local_functions_ever' \in Nat
        /\ max_local_functions_ever <= max_local_functions_ever'
        /\ max_local_functions_ever' <= Top
    BY <1>1, <1>3, Observed
  <1>5. max_local_functions_ever' = max_local_functions_ever
    BY <1>1 DEF Observe, Higher, Inv, Ranges
  <1>6. a <= Top /\ Encode(a) >= max_local_functions_ever
    OBVIOUS
  <1>7. Name(i, n) \in FuncEntries
    BY <1>1 DEF Name, FuncEntries
  <1>8. entries' = Append(entries, Name(i, n)) /\ entries \in Seq(FuncEntries)
    BY <1>2 DEF Inv, TypeOK
  <1>9. /\ entries' \in Seq(FuncEntries)
        /\ Len(entries') = a + 1
        /\ entries'[a + 1] = Name(i, n)
        /\ \A b \in 1 .. a : entries'[b] = entries[b]
    BY <1>7, <1>8
  <1>10. \A j \in Ids : local_funcaddrs'[j] =
                          IF j = i THEN Append(local_funcaddrs[i], a) ELSE local_funcaddrs[j]
    BY DEF Inv, TypeOK
  <1>11. a \in Words /\ a # Unregistered /\ local_funcaddrs[i] \in Seq(Words)
    BY <1>1, <1>6 DEF Words, Unregistered, Inv, TypeOK
  <1>12. /\ local_funcaddrs'[i] \in Seq(Words)
         /\ Len(local_funcaddrs'[i]) = n + 1
         /\ local_funcaddrs'[i][n + 1] = a
         /\ \A k \in 1 .. n : local_funcaddrs'[i][k] = local_funcaddrs[i][k]
    <2> DEFINE s == local_funcaddrs[i]
    <2>1. s \in Seq(Words) /\ a \in Words /\ local_funcaddrs'[i] = Append(s, a)
      BY <1>10, <1>11
    <2> HIDE DEF s, a
    <2>2. /\ Append(s, a) \in Seq(Words)
          /\ Len(Append(s, a)) = Len(s) + 1
          /\ Append(s, a)[Len(s) + 1] = a
          /\ \A k \in 1 .. Len(s) : Append(s, a)[k] = s[k]
      BY <2>1
    <2> QED BY <2>1, <2>2 DEF s
  <1>13. TypeOK'
    BY <1>4, <1>9, <1>12 DEF Inv, TypeOK
  <1>14. Ranges'
    BY <1>1, <1>5, <1>6, <1>9 DEF Inv, Ranges, Encode, Count
  <1>15. Addresses'
    <2> SUFFICES ASSUME NEW j \in Ids
                 PROVE (/\ Len(local_funcaddrs[j]) <= Count(j)
                        /\ status[j] = "alive" => Len(local_funcaddrs[j]) = Count(j)
                        /\ status[j] \in {"unborn", "dead"} => Count(j) = 0
                        /\ \A k \in 1 .. Len(local_funcaddrs[j]) :
                             /\ local_funcaddrs[j][k] # Unregistered =>
                                  /\ local_funcaddrs[j][k] < Len(entries)
                                  /\ entries[local_funcaddrs[j][k] + 1] = Name(j, k - 1)
                             /\ functions[j][k].kind = "escapable" =>
                                  local_funcaddrs[j][k] # Unregistered)'
      BY DEF Addresses
    <2>1. Count(j)' = Count(j) /\ status'[j] = status[j] /\ functions'[j] = functions[j]
      BY DEF Count
    <2>2. ASSUME NEW k \in 1 .. Len(local_funcaddrs[j]), local_funcaddrs[j][k] # Unregistered
          PROVE  /\ local_funcaddrs[j][k] < Len(entries')
                 /\ entries'[local_funcaddrs[j][k] + 1] = Name(j, k - 1)
      <3>1. local_funcaddrs[j][k] < a /\ entries[local_funcaddrs[j][k] + 1] = Name(j, k - 1)
        BY <2>2 DEF Inv, Addresses
      <3>2. local_funcaddrs[j][k] \in Nat
        <4>1. local_funcaddrs[j] \in Seq(Words)
          BY DEF Inv, TypeOK
        <4> QED BY <4>1 DEF Words
      <3> DEFINE f == local_funcaddrs[j][k]
      <3>3. f < a /\ f \in Nat /\ entries[f + 1] = Name(j, k - 1)
        BY <3>1, <3>2
      <3> HIDE DEF f
      <3>4. f + 1 \in 1 .. a
        BY <1>1, <3>3
      <3>5. f < Len(entries')
        BY <1>1, <1>9, <3>3
      <3>6. entries'[f + 1] = Name(j, k - 1)
        BY <1>9, <3>3, <3>4
      <3> QED BY <3>5, <3>6 DEF f
    <2>3. CASE j = i
      <3>1. status[i] = "building"
        OBVIOUS
      <3>2. ASSUME NEW k \in 1 .. n + 1
            PROVE  /\ local_funcaddrs'[i][k] # Unregistered =>
                        /\ local_funcaddrs'[i][k] < Len(entries')
                        /\ entries'[local_funcaddrs'[i][k] + 1] = Name(i, k - 1)
                   /\ functions[i][k].kind = "escapable" =>
                        local_funcaddrs'[i][k] # Unregistered
        <4>1. CASE k = n + 1
          BY <1>1, <1>9, <1>11, <1>12, <4>1
        <4>2. CASE k \in 1 .. n
          BY <1>12, <2>2, <2>3, <4>2 DEF Inv, Addresses
        <4>3. k = n + 1 \/ k \in 1 .. n
          BY <1>1
        <4> QED BY <4>1, <4>2, <4>3
      <3>3. n + 1 <= Count(i)
        BY <1>1, <1>2
      <3>4. /\ Len(local_funcaddrs'[i]) <= Count(i)'
            /\ status'[i] = "building"
        BY <1>12, <2>1, <2>3, <3>1, <3>3
      <3> QED BY <1>12, <2>3, <3>2, <3>4
    <2>4. CASE j # i
      <3>1. local_funcaddrs'[j] = local_funcaddrs[j]
        BY <1>10, <2>4
      <3>2. /\ Len(local_funcaddrs[j]) <= Count(j)
            /\ status[j] = "alive" => Len(local_funcaddrs[j]) = Count(j)
            /\ status[j] \in {"unborn", "dead"} => Count(j) = 0
            /\ \A k \in 1 .. Len(local_funcaddrs[j]) :
                 functions[j][k].kind = "escapable" => local_funcaddrs[j][k] # Unregistered
        BY DEF Inv, Addresses
      <3> QED BY <2>1, <2>2, <3>1, <3>2
    <2> QED BY <2>3, <2>4
  <1>16. Owners'
    <2> SUFFICES ASSUME NEW b \in 1 .. a + 1
                 PROVE  /\ status[entries'[b].owner] # "unborn"
                        /\ status[entries'[b].owner] # "dead" =>
                             /\ entries'[b].local_index + 1
                                  \in 1 .. Len(local_funcaddrs'[entries'[b].owner])
                             /\ local_funcaddrs'[entries'[b].owner]
                                  [entries'[b].local_index + 1] # Unregistered
      BY <1>9 DEF Owners
    <2>1. CASE b = a + 1
      BY <1>1, <1>9, <1>11, <1>12, <2>1 DEF Name
    <2>2. CASE b \in 1 .. a
      <3>1. entries'[b] = entries[b] /\ entries[b] \in FuncEntries
        BY <1>8, <1>9, <2>2
      <3>2. PICK j \in Ids, l \in Nat : entries[b] = [owner |-> j, local_index |-> l]
        BY <3>1 DEF FuncEntries
      <3>3. /\ status[j] # "unborn"
            /\ status[j] # "dead" =>
                 /\ l + 1 \in 1 .. Len(local_funcaddrs[j])
                 /\ local_funcaddrs[j][l + 1] # Unregistered
        BY <2>2, <3>2 DEF Inv, Owners
      <3>4. CASE j = i
        <4>1. status[i] = "building"
          OBVIOUS
        <4>2. l + 1 \in 1 .. n /\ local_funcaddrs[i][l + 1] # Unregistered
          BY <3>3, <3>4, <4>1
        <4>3. l + 1 \in 1 .. n + 1
          BY <1>1, <4>2
        <4>4. local_funcaddrs'[i][l + 1] # Unregistered
          BY <1>12, <4>2
        <4>5. entries'[b].owner = i /\ entries'[b].local_index = l
          BY <3>1, <3>2, <3>4
        <4> QED BY <1>12, <4>1, <4>3, <4>4, <4>5
      <3>5. CASE j # i
        BY <1>10, <3>1, <3>2, <3>3, <3>5
      <3> QED BY <3>4, <3>5
    <2> QED BY <1>1, <2>1, <2>2
  <1>17. \A r \in References : Absolute(r) => Absolute(r)'
    <2> SUFFICES ASSUME NEW r \in References, Resolves(r.word), EntryOf(r.word) = r.names
                 PROVE  Resolves(r.word)' /\ EntryOf(r.word)' = r.names
      BY DEF Absolute
    <2>1. r.word \in 0 .. Top + 1
      BY DEF References, Words
    <2>2. r.word <= Top /\ Top - r.word + 1 \in 1 .. a /\ Top - r.word < a
      BY <1>1, <2>1 DEF Resolves
    <2>3. PICK b \in 1 .. a : b = Top - r.word + 1
      BY <2>2
    <2>4. entries'[b] = entries[b]
      BY <1>9
    <2>5. Top - r.word < Len(entries')
      BY <1>1, <1>9, <2>1, <2>2
    <2> QED BY <2>2, <2>3, <2>4, <2>5 DEF Resolves, EntryOf
  <1>18. \A j \in Ids, r \in References : Own(j, r) => Own(j, r)'
    <2> SUFFICES ASSUME NEW j \in Ids, NEW r \in References, Own(j, r)
                 PROVE  Own(j, r)'
      OBVIOUS
    <2>1. CASE j = i
      BY <1>1, <1>12, <2>1 DEF Own, Name, References, Words
    <2>2. CASE j # i
      BY <1>10, <2>2 DEF Own, Name
    <2> QED BY <2>1, <2>2
  <1>19. Cells'
    BY <1>17, <1>18 DEF Inv, TypeOK, Cells, Good, Own, Name, Absolute, Resolves, EntryOf
  <1>20. Links'
    <2> SUFFICES ASSUME NEW j \in Ids, NEW k \in 1 .. Count(j), functions[j][k].kind = "linked"
                 PROVE  Absolute(functions[j][k].handle)' /\ functions[j][k].handle # NullReference
      BY DEF Links, Count, Absolute, Resolves, EntryOf
    <2>1. functions[j][k] \in Definitions
      BY DEF Inv, TypeOK, Count
    <2>2. PICK r \in References : r = functions[j][k].handle
      BY <2>1 DEF Definitions
    <2>3. Absolute(r) /\ r # NullReference
      BY <2>2 DEF Inv, Links
    <2>4. Absolute(r)'
      BY <1>17, <2>3
    <2> QED BY <2>2, <2>3, <2>4 DEF Absolute
  <1> QED BY <1>13, <1>14, <1>15, <1>16, <1>19, <1>20 DEF Inv

LEMMA EntryOwners ==
  ASSUME Inv
  PROVE  \A b \in 1 .. Len(entries) : entries[b].owner \in Ids
  <1> SUFFICES ASSUME NEW b \in 1 .. Len(entries) PROVE entries[b].owner \in Ids
    OBVIOUS
  <1>1. entries[b] \in FuncEntries
    BY DEF Inv, TypeOK
  <1> QED BY <1>1 DEF FuncEntries

LEMMA SkipInv ==
  ASSUME Inv, NEW i \in Ids, Skip(i)
  PROVE  Inv'
  <1> USE DEF Skip, registryVars, cellVars
  <1> DEFINE n == Len(local_funcaddrs[i])
  <1>1. n \in Nat /\ Count(i) \in Nat
    BY DEF Inv, TypeOK, Count
  <1>2. n < Count(i) /\ functions[i][n + 1].kind # "escapable"
    BY <1>1 DEF NextFunc
  <1>3. \A j \in Ids : local_funcaddrs'[j] =
          IF j = i THEN Append(local_funcaddrs[i], Unregistered) ELSE local_funcaddrs[j]
    BY DEF Inv, TypeOK
  <1>4. /\ local_funcaddrs'[i] \in Seq(Words)
        /\ Len(local_funcaddrs'[i]) = n + 1
        /\ local_funcaddrs'[i][n + 1] = Unregistered
        /\ \A k \in 1 .. n : local_funcaddrs'[i][k] = local_funcaddrs[i][k]
    <2> DEFINE s == local_funcaddrs[i]
               a == Unregistered
    <2>1. s \in Seq(Words) /\ a \in Words /\ local_funcaddrs'[i] = Append(s, a)
      BY <1>3 DEF Inv, TypeOK, Unregistered, Words
    <2> HIDE DEF s, a
    <2>2. /\ Append(s, a) \in Seq(Words)
          /\ Len(Append(s, a)) = Len(s) + 1
          /\ Append(s, a)[Len(s) + 1] = a
          /\ \A k \in 1 .. Len(s) : Append(s, a)[k] = s[k]
      BY <2>1
    <2> QED BY <2>1, <2>2 DEF s, a
  <1>5. TypeOK'
    BY <1>4 DEF Inv, TypeOK
  <1>6. Ranges'
    BY DEF Inv, Ranges, Count
  <1>7. Addresses'
    <2> SUFFICES ASSUME NEW j \in Ids
                 PROVE (/\ Len(local_funcaddrs[j]) <= Count(j)
                        /\ status[j] = "alive" => Len(local_funcaddrs[j]) = Count(j)
                        /\ status[j] \in {"unborn", "dead"} => Count(j) = 0
                        /\ \A k \in 1 .. Len(local_funcaddrs[j]) :
                             /\ local_funcaddrs[j][k] # Unregistered =>
                                  /\ local_funcaddrs[j][k] < Len(entries)
                                  /\ entries[local_funcaddrs[j][k] + 1] = Name(j, k - 1)
                             /\ functions[j][k].kind = "escapable" =>
                                  local_funcaddrs[j][k] # Unregistered)'
      BY DEF Addresses
    <2>1. CASE j = i
      <3>1. ASSUME NEW k \in 1 .. n + 1
            PROVE  /\ local_funcaddrs'[i][k] # Unregistered =>
                        /\ local_funcaddrs'[i][k] < Len(entries)
                        /\ entries[local_funcaddrs'[i][k] + 1] = Name(i, k - 1)
                   /\ functions[i][k].kind = "escapable" =>
                        local_funcaddrs'[i][k] # Unregistered
        <4>1. CASE k = n + 1
          BY <1>1, <1>2, <1>4, <4>1
        <4>2. CASE k \in 1 .. n
          BY <1>4, <4>2 DEF Inv, Addresses
        <4>3. k = n + 1 \/ k \in 1 .. n
          BY <1>1
        <4> QED BY <4>1, <4>2, <4>3
      <3>2. n + 1 <= Count(i)
        BY <1>1, <1>2
      <3> QED BY <1>4, <2>1, <3>1, <3>2 DEF Count, Name
    <2>2. CASE j # i
      <3>1. local_funcaddrs'[j] = local_funcaddrs[j] /\ Count(j)' = Count(j)
        BY <1>3, <2>2 DEF Count
      <3> QED BY <3>1 DEF Inv, Addresses, Name
    <2> QED BY <2>1, <2>2
  <1>8. \A j \in Ids : \A k \in 1 .. Len(local_funcaddrs[j]) :
          /\ k \in 1 .. Len(local_funcaddrs'[j])
          /\ local_funcaddrs'[j][k] = local_funcaddrs[j][k]
    BY <1>1, <1>3, <1>4
  <1>9. Owners'
    <2> SUFFICES ASSUME NEW b \in 1 .. Len(entries)
                 PROVE  /\ status[entries[b].owner] # "unborn"
                        /\ status[entries[b].owner] # "dead" =>
                             /\ entries[b].local_index + 1
                                  \in 1 .. Len(local_funcaddrs'[entries[b].owner])
                             /\ local_funcaddrs'[entries[b].owner]
                                  [entries[b].local_index + 1] # Unregistered
      BY DEF Owners
    <2> QED BY <1>8, EntryOwners DEF Inv, Owners
  <1>10. Cells'
    <2>1. \A j \in Ids, r \in References : Own(j, r) => Own(j, r)'
      BY <1>8 DEF Own, Name
    <2> QED BY <2>1 DEF Inv, TypeOK, Cells, Good, Own, Name, Absolute, Resolves, EntryOf
  <1>11. Links'
    BY DEF Inv, Links, Count, Absolute, Resolves, EntryOf
  <1> QED BY <1>5, <1>6, <1>7, <1>9, <1>10, <1>11 DEF Inv

LEMMA BuiltInv ==
  ASSUME Inv, NEW i \in Ids, Built(i)
  PROVE  Inv'
  <1> USE DEF Built, registryVars, cellVars
  <1>1. \A j \in Ids : status'[j] = IF j = i THEN "alive" ELSE status[j]
    BY DEF Inv, TypeOK
  <1>2. Len(local_funcaddrs[i]) = Count(i)
    <2>1. Len(local_funcaddrs[i]) \in Nat /\ Count(i) \in Nat
      BY DEF Inv, TypeOK, Count
    <2> QED BY <2>1 DEF NextFunc, Inv, Addresses
  <1>3. TypeOK'
    BY DEF Inv, TypeOK
  <1>4. Ranges' /\ Cells' /\ Links'
    BY DEF Inv, Ranges, Cells, Links, Count, Good, Own, Name, Absolute, Resolves, EntryOf
  <1>5. Addresses'
    BY <1>1, <1>2 DEF Inv, Addresses, Count, Name
  <1>6. Owners'
    BY <1>1, EntryOwners DEF Inv, Owners
  <1> QED BY <1>3, <1>4, <1>5, <1>6 DEF Inv

\* The entries of the instance that goes resolve still, and to a dead owner.
LEMMA FreeInv ==
  ASSUME Inv, NEW i \in Ids, Free(i)
  PROVE  Inv'
  <1> USE DEF Free, registryVars
  <1>1. /\ status'[i] = "dead"
        /\ functions'[i] = <<>>
        /\ local_funcaddrs'[i] = <<>>
    BY DEF Inv, TypeOK
  <1>2. frame'[i] = NullReference /\ private'[i] = NullReference
    BY DEF Inv, TypeOK
  <1>3. \A j \in Ids : j # i => /\ status'[j] = status[j]
                                 /\ functions'[j] = functions[j]
                                 /\ local_funcaddrs'[j] = local_funcaddrs[j]
    BY DEF Inv, TypeOK
  <1>4. \A j \in Ids : j # i => frame'[j] = frame[j] /\ private'[j] = private[j]
    BY DEF Inv, TypeOK
  <1>5. /\ Len(local_funcaddrs'[i]) = 0
        /\ Count(i)' = 0
        /\ \A j \in Ids : j # i => Count(j)' = Count(j)
    <2>1. Len(<<>>) = 0
      OBVIOUS
    <2>2. functions' = [functions EXCEPT ![i] = <<>>] /\ functions'[i] = <<>>
      BY <1>1
    <2> HIDE DEF Free
    <2> QED BY <1>1, <1>3, <2>1, <2>2 DEF Count
  <1>6. NullReference \in References
    BY DEF NullReference, References, Null, Words
  <1>7. TypeOK'
    BY <1>6 DEF Inv, TypeOK
  <1>8. UNCHANGED <<entries, max_local_functions_ever, shared, host>>
    OBVIOUS
  <1> HIDE DEF Free
  <1>9. Ranges'
    <2>1. max_local_functions_ever \in Nat
      BY DEF Inv, TypeOK
    <2> QED BY <1>5, <1>8, <2>1 DEF Inv, Ranges
  <1>10. Addresses'
    BY <1>1, <1>3, <1>5, <1>8 DEF Inv, Addresses, Name
  <1>11. Owners'
    BY <1>1, <1>3, <1>8, EntryOwners DEF Inv, Owners
  <1>12. Cells'
    <2>1. ASSUME NEW j \in Ids PROVE Good(j, frame[j])' /\ Good(j, private[j])'
      <3>1. CASE j = i
        BY <1>2, <3>1 DEF Good, Absolute
      <3>2. CASE j # i
        BY <1>3, <1>4, <1>8, <3>2
        DEF Inv, Cells, Good, Own, Name, Absolute, Resolves, EntryOf
      <3> QED BY <3>1, <3>2
    <2> QED BY <1>8, <2>1 DEF Inv, Cells, Absolute, Resolves, EntryOf
  <1>13. Links'
    BY <1>1, <1>3, <1>5, <1>8 DEF Inv, Links, Absolute, Resolves, EntryOf
  <1> QED BY <1>7, <1>9, <1>10, <1>11, <1>12, <1>13 DEF Inv

-----------------------------------------------------------------------------
(* Every step. *)

\* A reference of the frame of a built instance in the form anybody may hold.
LEMMA FrameOutward ==
  ASSUME Inv, NEW i \in Ids
  PROVE  /\ frame[i] \in References /\ Good(i, frame[i])
         /\ private[i] \in References /\ Good(i, private[i])
         /\ shared \in References /\ Absolute(shared)
         /\ host \in References /\ Absolute(host)
  BY DEF Inv, TypeOK, Cells

LEMMA RefFuncInv ==
  ASSUME Inv, NEW i \in Ids, NEW l \in 0 .. MaxFuncs - 1, RefFunc(i, l)
  PROVE  Inv'
  <1>1. Count(i) \in Nat /\ Len(local_funcaddrs[i]) \in Nat /\ l \in Nat
    BY DEF Inv, TypeOK, Count
  <1>2. l < Count(i) /\ Len(local_funcaddrs[i]) = Count(i)
    BY DEF RefFunc, Runs, Inv, Addresses
  <1>3. l + 1 \in 1 .. Count(i)
    BY <1>1, <1>2
  <1>4. CASE /\ functions[i][l + 1].kind = "escapable"
             /\ ToFrame(i, [word |-> l, names |-> Name(i, l)])
    <2> DEFINE r == [word |-> l, names |-> Name(i, l)]
    <2>1. l <= Top
      <3>1. Count(i) <= max_local_functions_ever /\ max_local_functions_ever <= Top
        BY DEF Inv, Ranges
      <3>2. max_local_functions_ever \in Nat
        BY DEF Inv, TypeOK
      <3> QED BY <1>1, <1>2, <3>1, <3>2
    <2>2. r \in References
      BY <1>1, <2>1 DEF References, Words, Name, FuncEntries
    <2>3. local_funcaddrs[i][l + 1] # Unregistered
      BY <1>2, <1>3, <1>4 DEF Inv, Addresses
    <2>4. Good(i, r)
      BY <1>2, <1>3, <2>3 DEF Good, Own
    <2> QED BY <1>4, <2>2, <2>4, FrameMove
  <1>5. CASE /\ functions[i][l + 1].kind = "linked"
             /\ ToFrame(i, functions[i][l + 1].handle)
    <2>1. functions[i][l + 1] \in Definitions
      BY <1>3 DEF Inv, TypeOK, Count
    <2>2. functions[i][l + 1].handle \in References
      BY <2>1 DEF Definitions
    <2>3. Good(i, functions[i][l + 1].handle)
      BY <1>3, <1>5 DEF Inv, Links, Good
    <2> QED BY <1>5, <2>2, <2>3, FrameMove
  <1> QED BY <1>4, <1>5 DEF RefFunc

LEMMA NextInv == Inv /\ [Next]_vars => Inv'
  <1> SUFFICES ASSUME Inv, [Next]_vars PROVE Inv'
    OBVIOUS
  <1>1. CASE UNCHANGED vars
    BY <1>1 DEF vars, registryVars, instanceVars, cellVars, Inv, TypeOK, Ranges,
                Addresses, Owners, Cells, Links, Count, Name, Good, Own, Absolute,
                Resolves, EntryOf
  <1>2. CASE Next
    <2> PICK i \in Ids :
          \/ \E module \in Modules : Begin(i, module)
          \/ Register(i) \/ Skip(i) \/ Built(i)
          \/ Free(i)
          \/ RefNull(i) \/ \E l \in 0 .. MaxFuncs - 1 : RefFunc(i, l)
          \/ SetShared(i) \/ GetShared(i) \/ SetPrivate(i) \/ GetPrivate(i)
          \/ CopyToShared(i) \/ CopyToPrivate(i)
          \/ \E j \in Ids : Pass(i, j)
          \/ ToHost(i) \/ FromHost(i)
      BY <1>2 DEF Next
    <2>0. Good(i, shared) /\ Good(i, host)
      BY FrameOutward DEF Good
    <2>1. CASE \E module \in Modules : Begin(i, module)
      BY <2>1, BeginInv
    <2>2. CASE Register(i)
      BY <2>2, RegisterInv
    <2>3. CASE Skip(i)
      BY <2>3, SkipInv
    <2>4. CASE Built(i)
      BY <2>4, BuiltInv
    <2>5. CASE Free(i)
      BY <2>5, FreeInv
    <2>6. CASE RefNull(i)
      <3>1. NullReference \in References /\ Good(i, NullReference)
        BY DEF NullReference, References, Null, Words, Good, Absolute
      <3> QED BY <2>6, <3>1, FrameMove DEF RefNull
    <2>7. CASE \E l \in 0 .. MaxFuncs - 1 : RefFunc(i, l)
      BY <2>7, RefFuncInv
    <2>8. CASE SetShared(i)
      BY <2>8, FrameOutward, GoodOutward, OutwardMove DEF SetShared, ToShared
    <2>9. CASE GetShared(i)
      BY <2>0, <2>9, FrameOutward, FrameMove DEF GetShared
    <2>10. CASE SetPrivate(i)
      BY <2>10, FrameOutward, GoodInward, PrivateMove DEF SetPrivate, Runs
    <2>11. CASE GetPrivate(i)
      BY <2>11, FrameOutward, FrameMove DEF GetPrivate
    <2>12. CASE CopyToShared(i)
      BY <2>12, FrameOutward, GoodOutward, OutwardMove DEF CopyToShared, ToShared
    <2>13. CASE CopyToPrivate(i)
      BY <2>13, FrameOutward, AbsoluteInward, PrivateMove DEF CopyToPrivate, Runs
    <2>14. CASE \E j \in Ids : Pass(i, j)
      <3> PICK j \in Ids : Pass(i, j)
        BY <2>14
      <3>1. Outward(i, frame[i]) \in References /\ Absolute(Outward(i, frame[i]))
        BY FrameOutward, GoodOutward
      <3>2. status[j] = "alive"
        BY DEF Pass, Runs
      <3>3. /\ Inward(j, Outward(i, frame[i])) \in References
            /\ Good(j, Inward(j, Outward(i, frame[i])))
        BY <3>1, <3>2, AbsoluteInward
      <3> QED BY <3>3, FrameMove DEF Pass
    <2>15. CASE ToHost(i)
      BY <2>15, FrameOutward, GoodOutward, OutwardMove DEF ToHost
    <2>16. CASE FromHost(i)
      BY <2>16, FrameOutward, AbsoluteInward, FrameMove DEF FromHost, Runs
    <2> QED BY <2>1, <2>2, <2>3, <2>4, <2>5, <2>6, <2>7, <2>8, <2>9, <2>10,
               <2>11, <2>12, <2>13, <2>14, <2>15, <2>16
  <1> QED BY <1>1, <1>2

LEMMA Invariance == Spec => []Inv
  <1> QED BY InitInv, NextInv, PTL DEF Spec

\* What a good reference of a built instance dispatches to.
LEMMA GoodDispatch ==
  ASSUME Inv, NEW i \in Ids, status[i] = "alive", NEW r \in References, Good(i, r)
  PROVE  Dispatch(i, r.word) = r.names
  <1>1. /\ Count(i) \in Nat /\ Count(i) <= Top /\ r.word \in 0 .. Top + 1
        /\ Len(local_funcaddrs[i]) = Count(i)
    <2>1. max_local_functions_ever \in Nat /\ Count(i) \in Nat
      BY DEF Inv, TypeOK, Count
    <2>2. max_local_functions_ever <= Top /\ Count(i) <= max_local_functions_ever
      BY DEF Inv, Ranges
    <2> QED BY <2>1, <2>2 DEF Inv, Addresses, References, Words
  <1>2. CASE Own(i, r)
    <2>1. r.word < Count(i) /\ r.names = Name(i, r.word)
      BY <1>1, <1>2 DEF Own
    <2>2. Localize(i, r.word) = r.word /\ r.word # Null
      BY <1>1, <2>1 DEF Localize, Null
    <2> QED BY <2>1, <2>2 DEF Dispatch
  <1>3. CASE r = NullReference
    BY <1>3 DEF Dispatch, NullReference
  <1>4. CASE Absolute(r) /\ r # NullReference
    <2>1. /\ Resolves(r.word) /\ EntryOf(r.word) = r.names /\ r.names \in FuncEntries
          /\ r.names.owner = i => r.names.local_index + 1 \in 1 .. Count(i)
      BY <1>1, <1>4, AbsoluteEntry
    <2>2. r.word >= Count(i) /\ r.word # Null
      BY <1>1, <1>4, <2>1, AbsoluteOutward DEF Resolves, Null
    <2>3. CASE r.names.owner = i
      <3>1. r.names = Name(i, r.names.local_index) /\ r.names.local_index \in Nat
        BY <2>1, <2>3 DEF FuncEntries, Name
      <3>2. Localize(i, r.word) = r.names.local_index
        BY <2>1, <2>2, <2>3 DEF Localize
      <3>3. r.names.local_index < Count(i)
        BY <1>1, <2>1, <2>3, <3>1
      <3> QED BY <2>2, <3>1, <3>2, <3>3 DEF Dispatch
    <2>4. CASE r.names.owner # i
      <3>1. Localize(i, r.word) = r.word
        BY <2>1, <2>4 DEF Localize
      <3> QED BY <1>1, <2>1, <2>2, <3>1 DEF Dispatch
    <2> QED BY <2>3, <2>4
  <1> QED BY <1>2, <1>3, <1>4 DEF Good

-----------------------------------------------------------------------------
(* The theorems. *)

\* The registry's state stays in range of the encoding, however many instances
\* of whatever size a world creates: the assertions of link.rs are enough.
THEOREM TypeCorrect == Spec => []TypeOK
  <1>1. Inv => TypeOK
    BY DEF Inv
  <1> QED BY <1>1, Invariance, PTL

\* The local indices of an instance and the absolute addresses of the registry
\* never meet, which is why one untagged word can carry either.
THEOREM RangesStayDisjoint == Spec => []RangesDisjoint
  <1>1. Inv => RangesDisjoint
    <2> SUFFICES ASSUME Inv
                 PROVE  /\ Len(entries) <= Top + 1
                        /\ \A i \in Ids, a \in 0 .. Len(entries) - 1 : Count(i) <= Encode(a)
      BY DEF RangesDisjoint
    <2>1. max_local_functions_ever \in Nat /\ Len(entries) \in Nat
      BY DEF Inv, TypeOK
    <2>2. \A i \in Ids : Count(i) \in Nat
      BY DEF Inv, TypeOK, Count
    <2> QED BY <2>1, <2>2 DEF Inv, Ranges, Encode
  <1> QED BY <1>1, Invariance, PTL

\* A reference reaches the function it was made for, by every path between
\* frames, containers, calls and the embedder that the code converts on.
THEOREM DispatchIsFaithful == Spec => []NoMisdispatch
  <1>1. Inv => NoMisdispatch
    <2> SUFFICES ASSUME Inv, NEW i \in Ids, status[i] = "alive"
                 PROVE  /\ \A r \in {frame[i], private[i], shared, host} :
                             Dispatch(i, r.word) = r.names
                        /\ \A l \in 0 .. Count(i) - 1 :
                             functions[i][l + 1].kind = "linked" =>
                               Forward(i, l) = functions[i][l + 1].handle.names
      BY DEF NoMisdispatch
    <2>1. ASSUME NEW r \in {frame[i], private[i], shared, host}
          PROVE  Dispatch(i, r.word) = r.names
      <3>1. r \in References /\ Good(i, r)
        BY FrameOutward DEF Good
      <3> QED BY <3>1, GoodDispatch
    <2>2. ASSUME NEW l \in 0 .. Count(i) - 1, functions[i][l + 1].kind = "linked"
          PROVE  Forward(i, l) = functions[i][l + 1].handle.names
      <3>1. Count(i) \in Nat
        BY DEF Inv, TypeOK, Count
      <3>2. l + 1 \in 1 .. Count(i)
        BY <3>1
      <3>3. functions[i][l + 1] \in Definitions
        BY <3>2 DEF Inv, TypeOK, Count
      <3>4. PICK r \in References : r = functions[i][l + 1].handle
        BY <3>3 DEF Definitions
      <3>5. Absolute(r) /\ r # NullReference
        BY <2>2, <3>2, <3>4 DEF Inv, Links
      <3>6. Absolutize(i, r.word) = r.word /\ EntryOf(r.word) = r.names
        BY <3>5, AbsoluteOutward, AbsoluteEntry
      <3> QED BY <3>4, <3>6 DEF Forward
    <2> QED BY <2>1, <2>2
  <1> QED BY <1>1, Invariance, PTL

\* Nothing shared holds a local index.
THEOREM SharedFormsAreAbsolute == Spec => []LocalFormsStayHome
  <1>1. Inv => LocalFormsStayHome
    BY DEF Inv, Cells, Absolute, LocalFormsStayHome
  <1> QED BY <1>1, Invariance, PTL

-----------------------------------------------------------------------------
(* What becomes of a word in time. *)

\* The registry only ever grows.
Grows ==
  /\ Len(entries) <= Len(entries')
  /\ \A a \in 1 .. Len(entries) : entries'[a] = entries[a]

\* What a word that resolves leads to never changes, and what it reaches from
\* an instance does not as long as the instance lives.
WordsKeepTheirMeaning ==
  \A w \in Words :
    /\ Resolves(w) => Resolves(w)' /\ EntryOf(w)' = EntryOf(w)
    /\ \A i \in Ids :
         status[i] = "alive" /\ status'[i] = "alive" /\ Dispatch(i, w) # Nothing =>
           Dispatch(i, w)' = Dispatch(i, w)

\* A function has one funcaddr, so that two words of the absolute form are
\* equal if and only if they name the same function.
OneAddressEach == \A a, b \in 1 .. Len(entries) : entries[a] = entries[b] => a = b

\* Nothing but the registration of a function writes the registry.
LEMMA OnlyRegisterWrites ==
  ASSUME [Next]_vars
  PROVE  entries' = entries \/ \E i \in Ids : Register(i)
  BY DEF Next, vars, registryVars, Begin, Skip, Built, Free, RefNull, RefFunc, SetShared, GetShared,
         SetPrivate, GetPrivate, CopyToShared, CopyToPrivate, Pass, ToHost, FromHost,
         ToFrame, ToPrivate, ToShared

LEMMA RegistryGrows ==
  ASSUME Inv, [Next]_vars
  PROVE  Grows /\ entries' \in Seq(FuncEntries)
  <1>1. CASE entries' = entries
    BY <1>1 DEF Grows, Inv, TypeOK
  <1>2. ASSUME NEW i \in Ids, Register(i) PROVE Grows /\ entries' \in Seq(FuncEntries)
    <2>1. Name(i, NextFunc(i) - 1) \in FuncEntries
      BY DEF Name, NextFunc, FuncEntries, Inv, TypeOK
    <2>2. entries \in Seq(FuncEntries) /\ entries' = Append(entries, Name(i, NextFunc(i) - 1))
      BY <1>2 DEF Register, Inv, TypeOK
    <2> QED BY <2>1, <2>2 DEF Grows
  <1> QED BY <1>1, <1>2, OnlyRegisterWrites

LEMMA LivingKeepFunctions ==
  ASSUME Inv, [Next]_vars, NEW i \in Ids, status[i] = "alive", status'[i] = "alive"
  PROVE  Count(i)' = Count(i)
  <1>1. functions'[i] = functions[i]
    <2>1. CASE functions' = functions
      BY <2>1
    <2>2. ASSUME NEW j \in Ids, (\E module \in Modules : Begin(j, module)) \/ Free(j)
          PROVE  functions'[i] = functions[i]
      <3>1. i # j
        BY <2>2 DEF Begin, Free, Inv, TypeOK
      <3> QED BY <2>2, <3>1 DEF Begin, Free, Inv, TypeOK
    <2>3. functions' = functions
          \/ \E j \in Ids : (\E module \in Modules : Begin(j, module)) \/ Free(j)
      BY DEF Next, vars, instanceVars, Register, Skip, Built, RefNull, RefFunc, SetShared, GetShared,
             SetPrivate, GetPrivate, CopyToShared, CopyToPrivate, Pass, ToHost, FromHost,
             ToFrame, ToPrivate, ToShared
    <2> QED BY <2>1, <2>2, <2>3
  <1> QED BY <1>1 DEF Count

LEMMA ResolvedStay ==
  ASSUME Inv, Grows, entries' \in Seq(FuncEntries), NEW w \in Nat, Resolves(w)
  PROVE  Resolves(w)' /\ EntryOf(w)' = EntryOf(w)
  <1>1. w <= Top /\ Top - w + 1 \in 1 .. Len(entries) /\ Len(entries) \in Nat /\ Len(entries') \in Nat
    BY DEF Resolves, Inv, TypeOK
  <1> QED BY <1>1 DEF Grows, Resolves, EntryOf

LEMMA DispatchStays ==
  ASSUME Inv, Grows, entries' \in Seq(FuncEntries), NEW i \in Ids, Count(i)' = Count(i),
         NEW w \in Nat, Dispatch(i, w) # Nothing
  PROVE  Dispatch(i, w)' = Dispatch(i, w)
  <1>1. Count(i) \in Nat
    BY DEF Inv, TypeOK, Count
  <1>2. w # Null
    BY DEF Dispatch
  <1>3. CASE w < Count(i)
    <2>1. Localize(i, w) = w /\ Localize(i, w)' = w
      BY <1>1, <1>3 DEF Localize
    <2> QED BY <1>2, <1>3, <2>1 DEF Dispatch, Name
  <1>4. CASE w >= Count(i)
    <2>1. Resolves(w)
      BY <1>1, <1>4 DEF Dispatch, Localize
    <2>2. Resolves(w)' /\ EntryOf(w)' = EntryOf(w)
      BY <2>1, ResolvedStay
    <2>3. PICK l : l = Localize(i, w) /\ l = Localize(i, w)' /\ l \in Nat
      <3>1. EntryOf(w) \in FuncEntries
        BY <2>1 DEF Resolves, EntryOf, Inv, TypeOK
      <3> QED BY <1>4, <2>1, <2>2, <3>1 DEF Localize, FuncEntries
    <2>4. CASE l < Count(i)
      BY <1>2, <2>3, <2>4 DEF Dispatch, Name
    <2>5. CASE ~(l < Count(i))
      <3>1. Resolves(l)
        BY <2>3, <2>5 DEF Dispatch
      <3>2. Resolves(l)' /\ EntryOf(l)' = EntryOf(l)
        BY <2>3, <3>1, ResolvedStay
      <3> QED BY <1>2, <2>3, <2>5, <3>1, <3>2 DEF Dispatch
    <2> QED BY <2>4, <2>5
  <1> QED BY <1>1, <1>3, <1>4

\* A reference the embedder keeps means the same function at any later time,
\* or a dead one, however many instances come and go in between, and so does
\* one that lies in a table: the registry's entries are never removed nor
\* reused, and a module's local range never changes (SharedFunctionRegistry,
\* link.rs, and local_funcaddrs).
THEOREM MeaningsStay == Spec => [][WordsKeepTheirMeaning]_vars
  <1>1. ASSUME Inv, [Next]_vars, NEW w \in Words, Resolves(w)
        PROVE  Resolves(w)' /\ EntryOf(w)' = EntryOf(w)
    BY <1>1, RegistryGrows, ResolvedStay DEF Words
  <1>2. ASSUME Inv, [Next]_vars, NEW w \in Words, NEW i \in Ids,
               status[i] = "alive", status'[i] = "alive", Dispatch(i, w) # Nothing
        PROVE  Dispatch(i, w)' = Dispatch(i, w)
    BY <1>2, RegistryGrows, LivingKeepFunctions, DispatchStays DEF Words
  <1>3. Inv /\ [Next]_vars => WordsKeepTheirMeaning
    BY <1>1, <1>2 DEF WordsKeepTheirMeaning
  <1> QED BY <1>3, Invariance, PTL DEF Spec

LEMMA OneAddressMore ==
  ASSUME Inv, OneAddressEach, NEW i \in Ids, Register(i)
  PROVE  OneAddressEach'
  <1>1. /\ entries' = Append(entries, Name(i, NextFunc(i) - 1))
        /\ status[i] = "building" /\ entries \in Seq(FuncEntries)
    BY DEF Register, Inv, TypeOK
  <1>2. Len(local_funcaddrs[i]) \in Nat /\ NextFunc(i) - 1 = Len(local_funcaddrs[i])
    BY DEF NextFunc, Inv, TypeOK
  <1>3. \A a \in 1 .. Len(entries) : entries[a] # Name(i, NextFunc(i) - 1)
    <2> SUFFICES ASSUME NEW a \in 1 .. Len(entries), entries[a] = Name(i, NextFunc(i) - 1)
                 PROVE  FALSE
      OBVIOUS
    <2>1. entries[a].owner = i /\ entries[a].local_index = Len(local_funcaddrs[i])
      BY <1>2 DEF Name
    <2>2. entries[a].local_index + 1 \in 1 .. Len(local_funcaddrs[i])
      BY <1>1, <2>1 DEF Inv, Owners
    <2> QED BY <1>2, <2>1, <2>2
  <1>4. /\ Len(entries') = Len(entries) + 1 /\ Len(entries) \in Nat
        /\ \A a \in 1 .. Len(entries) : entries'[a] = entries[a]
        /\ entries'[Len(entries) + 1] = Name(i, NextFunc(i) - 1)
    BY <1>1
  <1>5. \A a \in 1 .. Len(entries') : a \in 1 .. Len(entries) \/ a = Len(entries) + 1
    BY <1>4
  <1> QED BY <1>3, <1>4, <1>5 DEF OneAddressEach

\* Comparing two references that crossed a boundary compares the functions:
\* the registration loop gives an address to each function once, in whatever
\* order instances are built (register_local_function, jit/instance.rs).
THEOREM AddressesAreUnique == Spec => []OneAddressEach
  <1>1. Init => OneAddressEach
    BY DEF Init, OneAddressEach
  <1>2. ASSUME Inv, OneAddressEach, [Next]_vars PROVE OneAddressEach'
    <2>1. CASE entries' = entries
      BY <1>2, <2>1 DEF OneAddressEach
    <2>2. CASE \E i \in Ids : Register(i)
      BY <1>2, <2>2, OneAddressMore
    <2> QED BY <1>2, <2>1, <2>2, OnlyRegisterWrites
  <1> QED BY <1>1, <1>2, Invariance, PTL DEF Spec
=============================================================================
