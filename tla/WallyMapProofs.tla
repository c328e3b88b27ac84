--------------------------- MODULE WallyMapProofs ---------------------------
(***************************************************************************)
(* Proofs about WallyMap for every number of maps, keys and values.        *)
(*                                                                         *)
(* The first part says what the operations on one array of items preserve; *)
(* the second is the inductive invariant of the module; the third derives  *)
(* the properties from it.                                                 *)
(***************************************************************************)
EXTENDS WallyMap, SequenceTheorems, FiniteSetTheorems, TLAPS

-----------------------------------------------------------------------------
(* Arrays of items.                                                        *)

(* What map_add appends was not there before, so keys stay unique.         *)
LEMMA AppendKeepsUnique ==
    ASSUME NEW items \in Seq(Items), UniqueKeys(items), NEW item \in Items,
           ~Has(items, item.key)
    PROVE  /\ Append(items, item) \in Seq(Items)
           /\ UniqueKeys(Append(items, item))
  BY SMT DEF Items, UniqueKeys, Has

(* map_remove keeps the items around the gap.                              *)
LEMMA WithoutKeepsUnique ==
    ASSUME NEW items \in Seq(Items), UniqueKeys(items), NEW i \in 1..Len(items)
    PROVE  /\ Without(items, i) \in Seq(Items)
           /\ Len(Without(items, i)) = Len(items) - 1
           /\ UniqueKeys(Without(items, i))
  <1>1. Without(items, i) \in [1..(Len(items) - 1) -> Items]
    BY DEF Without
  <1>2. Without(items, i) \in Seq(Items) /\ Len(Without(items, i)) = Len(items) - 1
    BY <1>1, SeqDef
  <1>3. UniqueKeys(Without(items, i))
    BY <1>2 DEF Without, UniqueKeys, Items
  <1> QED BY <1>2, <1>3

(* qsort only permutes.                                                    *)
LEMMA PermutedKeepsUnique ==
    ASSUME NEW items \in Seq(Items), UniqueKeys(items),
           NEW p \in Permutation(Len(items))
    PROVE  /\ Permuted(items, p) \in Seq(Items)
           /\ Len(Permuted(items, p)) = Len(items)
           /\ UniqueKeys(Permuted(items, p))
  <1>1. p \in [1..Len(items) -> 1..Len(items)]
    BY DEF Permutation
  <1>2. Permuted(items, p) \in [1..Len(items) -> Items]
    BY <1>1 DEF Permuted
  <1>3. Permuted(items, p) \in Seq(Items) /\ Len(Permuted(items, p)) = Len(items)
    BY <1>2, SeqDef
  <1>4. UniqueKeys(Permuted(items, p))
    <2>. DEFINE moved == Permuted(items, p)
    <2>1. \A i \in 1..Len(items) : moved[i] = items[p[i]]
      BY DEF Permuted
    <2>2. \A i, j \in 1..Len(items) : p[i] = p[j] => i = j
      BY DEF Permutation
    <2>. HIDE DEF moved
    <2>. SUFFICES ASSUME NEW i \in 1..Len(items), NEW j \in 1..Len(items),
                         moved[i].key = moved[j].key
                  PROVE  i = j
      BY <1>3 DEF UniqueKeys, moved
    <2>3. p[i] \in 1..Len(items) /\ p[j] \in 1..Len(items)
      BY <1>1
    <2>4. items[p[i]].key = items[p[j]].key
      BY <2>1
    <2>. QED
      BY <2>2, <2>3, <2>4 DEF UniqueKeys
  <1> QED BY <1>3, <1>4

(* Overwriting a value leaves the keys alone.                              *)
LEMMA OverwriteKeepsUnique ==
    ASSUME NEW items \in Seq(Items), UniqueKeys(items),
           NEW i \in 1..Len(items), NEW v \in Values
    PROVE  LET new == [items EXCEPT ![i].value = v]
           IN new \in Seq(Items) /\ Len(new) = Len(items) /\ UniqueKeys(new)
  <1> DEFINE item == [items[i] EXCEPT !.value = v]
             new == [items EXCEPT ![i] = item]
  <1>1. items[i] \in Items
    BY ElementOfSeq
  <1>2. item \in Items /\ item.key = items[i].key
    BY <1>1 DEF Items
  <1>3. /\ new \in Seq(Items) /\ Len(new) = Len(items)
        /\ \A j \in 1..Len(items) : new[j] = IF j = i THEN item ELSE items[j]
    BY <1>2, ExceptSeq
  <1>4. \A j \in 1..Len(items) : new[j].key = items[j].key
    BY <1>2, <1>3
  <1>5. UniqueKeys(new)
    BY <1>3, <1>4 DEF UniqueKeys
  <1> QED BY <1>3, <1>5

(* Whatever map_add answers, its map stays well-formed.                    *)
LEMMA AddOutcomeKeepsUnique ==
    ASSUME NEW m \in MapRec, UniqueKeys(m.items), NEW k \in Keys, NEW v \in Values,
           NEW ignoreDups \in BOOLEAN, NEW new, NEW r,
           AddOutcome(m, k, v, ignoreDups, new, r)
    PROVE  /\ new \in MapRec /\ UniqueKeys(new.items) /\ new.verify = m.verify
           /\ r \in {"OK", "EINVAL", "ENOMEM"}
  <1>1. CASE new = m
    BY <1>1 DEF AddOutcome
  <1>2. CASE /\ ~Has(m.items, k) /\ r = "OK"
             /\ new = [m EXCEPT !.items = Append(@, Item(k, v))]
    <2>1. Item(k, v) \in Items /\ Item(k, v).key = k
      BY DEF Item, Items
    <2>2. m.items \in Seq(Items)
      BY DEF MapRec
    <2>3. Append(m.items, Item(k, v)) \in Seq(Items)
          /\ UniqueKeys(Append(m.items, Item(k, v)))
      BY <1>2, <2>1, <2>2, AppendKeepsUnique
    <2> QED BY <1>2, <2>3 DEF MapRec
  <1> QED BY <1>1, <1>2 DEF AddOutcome

-----------------------------------------------------------------------------
(* The inductive invariant: an assign holds a verified copy of what the    *)
(* loop has read of its source, a combine has its keys in the destination. *)
LoopInv ==
    job # None =>
        /\ job.src # job.dst
        /\ job.op = "assign" =>
            /\ tmp.verify = maps[job.dst].verify
            /\ job.next = Len(tmp.items) + 1
            /\ Len(tmp.items) <= Len(maps[job.src].items)
            /\ \A i \in 1..Len(tmp.items) :
                /\ tmp.items[i] = maps[job.src].items[i]
                /\ ~VerifyFails(tmp, tmp.items[i].key, tmp.items[i].value)
        /\ job.op = "combine" =>
            \A i \in 1..Len(maps[job.src].items) : i < job.next =>
                Has(maps[job.dst].items, maps[job.src].items[i].key)

Inv == TypeOK /\ NoDuplicateKeys /\ UniqueKeys(tmp.items) /\ LoopInv

LEMMA EmptyMapIsUnique ==
    ASSUME NEW v \in BOOLEAN
    PROVE  EmptyMap(v) \in MapRec /\ UniqueKeys(EmptyMap(v).items)
  BY DEF EmptyMap, MapRec, UniqueKeys

(* A call that leaves one map well-formed leaves all of them well-formed.  *)
LEMMA OneMapChanges ==
    ASSUME maps \in [Maps -> MapRec], NoDuplicateKeys, NEW m \in Maps,
           NEW new \in MapRec, UniqueKeys(new.items),
           maps' = [maps EXCEPT ![m] = new]
    PROVE  maps' \in [Maps -> MapRec] /\ NoDuplicateKeys'
  BY DEF NoDuplicateKeys, UniqueKeys

(* A call outside the loops cannot disturb them: no loop is running.       *)
LEMMA CallKeepsInv ==
    ASSUME Inv, job = None, UNCHANGED <<job, tmp>>,
           ret' \in {"OK", "EINVAL", "ENOMEM"},
           NEW m \in Maps, NEW new \in MapRec, UniqueKeys(new.items),
           maps' = [maps EXCEPT ![m] = new]
    PROVE  Inv'
  <1>1. maps' \in [Maps -> MapRec] /\ NoDuplicateKeys'
    BY OneMapChanges DEF Inv, TypeOK
  <1> QED BY <1>1 DEF Inv, TypeOK, LoopInv, UniqueKeys

LEMMA MapInitInv ==
    ASSUME Inv, NEW m \in Maps, NEW v \in BOOLEAN, MapInit(m, v)
    PROVE  Inv'
  BY CallKeepsInv, EmptyMapIsUnique DEF MapInit

LEMMA MapClearInv ==
    ASSUME Inv, NEW m \in Maps, MapClear(m)
    PROVE  Inv'
  BY CallKeepsInv, EmptyMapIsUnique DEF MapClear

LEMMA MapAddInv ==
    ASSUME Inv, NEW m \in Maps, NEW p \in Pairs, NEW ignoreDups \in BOOLEAN,
           MapAdd(m, p[1], p[2], ignoreDups)
    PROVE  Inv'
  <1>1. p[1] \in Keys /\ p[2] \in Values
    BY PairsAssumption
  <1>2. maps[m] \in MapRec /\ UniqueKeys(maps[m].items)
    BY DEF Inv, TypeOK, NoDuplicateKeys
  <1>3. PICK new : /\ AddOutcome(maps[m], p[1], p[2], ignoreDups, new, ret')
                   /\ maps' = [maps EXCEPT ![m] = new]
    BY DEF MapAdd
  <1>4. /\ new \in MapRec /\ UniqueKeys(new.items)
        /\ ret' \in {"OK", "EINVAL", "ENOMEM"}
    BY <1>1, <1>2, <1>3, AddOutcomeKeepsUnique
  <1> QED BY <1>3, <1>4, CallKeepsInv DEF MapAdd

LEMMA MapRemoveInv ==
    ASSUME Inv, NEW m \in Maps, NEW k \in Keys, MapRemove(m, k)
    PROVE  Inv'
  <1> DEFINE items == maps[m].items
             i == CHOOSE i \in Find(items, k) : \A j \in Find(items, k) : i <= j
             new == [maps[m] EXCEPT !.items = Without(@, i)]
  <1>1. maps[m] \in MapRec /\ UniqueKeys(items) /\ items \in Seq(Items)
    BY DEF Inv, TypeOK, NoDuplicateKeys, MapRec
  <1>2. CASE ~Has(items, k)
    <2>1. maps' = [maps EXCEPT ![m] = maps[m]]
      BY <1>2 DEF MapRemove, Inv, TypeOK
    <2> QED BY <1>1, <2>1, CallKeepsInv DEF MapRemove
  <1>3. CASE Has(items, k)
    <2>1. PICK n \in 1..Len(items) : items[n].key = k
      BY <1>3 DEF Has
    <2>2. Find(items, k) = {n}
      BY <1>1, <2>1 DEF Find, UniqueKeys
    <2>3. i \in 1..Len(items)
      BY <1>1, <2>2
    <2>4. new \in MapRec /\ UniqueKeys(new.items)
      <3>1. Without(items, i) \in Seq(Items) /\ UniqueKeys(Without(items, i))
        BY <1>1, <2>3, WithoutKeepsUnique
      <3> HIDE DEF i
      <3> QED BY <1>1, <3>1 DEF MapRec
    <2>5. maps' = [maps EXCEPT ![m] = new]
      BY <1>3 DEF MapRemove
    <2> HIDE DEF new
    <2> QED BY <2>4, <2>5, CallKeepsInv DEF MapRemove
  <1> QED BY <1>2, <1>3

LEMMA MapReplaceInv ==
    ASSUME Inv, NEW m \in Maps, NEW p \in Pairs, MapReplace(m, p[1], p[2])
    PROVE  Inv'
  <1>1. p[2] \in Values
    BY PairsAssumption
  <1>2. maps[m] \in MapRec /\ UniqueKeys(maps[m].items) /\ maps[m].items \in Seq(Items)
    BY DEF Inv, TypeOK, NoDuplicateKeys, MapRec
  <1>3. PICK i \in Find(maps[m].items, p[1]) :
            \/ maps' = [maps EXCEPT ![m].items[i].value = p[2]] /\ ret' = "OK"
            \/ maps' = maps /\ ret' = "ENOMEM"
    BY DEF MapReplace
  <1>4. CASE maps' = maps /\ ret' = "ENOMEM"
    <2>1. maps' = [maps EXCEPT ![m] = maps[m]]
      BY <1>4 DEF Inv, TypeOK
    <2> QED BY <1>2, <1>4, <2>1, CallKeepsInv DEF MapReplace
  <1>5. CASE maps' = [maps EXCEPT ![m].items[i].value = p[2]] /\ ret' = "OK"
    <2> DEFINE items == [maps[m].items EXCEPT ![i].value = p[2]]
               new == [maps[m] EXCEPT !.items = items]
    <2>1. i \in 1..Len(maps[m].items)
      BY DEF Find
    <2>2. items \in Seq(Items) /\ UniqueKeys(items)
      BY <1>1, <1>2, <2>1, OverwriteKeepsUnique
    <2>3. maps' = [maps EXCEPT ![m] = new]
      BY <1>5
    <2>4. new \in MapRec /\ UniqueKeys(new.items)
      <3> HIDE DEF items
      <3> QED BY <1>2, <2>2 DEF MapRec
    <2> HIDE DEF new
    <2> QED BY <1>5, <2>3, <2>4, CallKeepsInv DEF MapReplace
  <1> QED BY <1>3, <1>4, <1>5

LEMMA MapSortInv ==
    ASSUME Inv, NEW m \in Maps, MapSort(m)
    PROVE  Inv'
  <1>1. maps[m] \in MapRec /\ UniqueKeys(maps[m].items) /\ maps[m].items \in Seq(Items)
    BY DEF Inv, TypeOK, NoDuplicateKeys, MapRec
  <1>2. PICK p \in Permutation(Len(maps[m].items)) :
            maps' = [maps EXCEPT ![m].items = Permuted(@, p)]
    BY DEF MapSort
  <1> DEFINE items == Permuted(maps[m].items, p)
             new == [maps[m] EXCEPT !.items = items]
  <1>3. items \in Seq(Items) /\ UniqueKeys(items)
    BY <1>1, PermutedKeepsUnique
  <1>4. maps' = [maps EXCEPT ![m] = new]
    BY <1>2
  <1>5. new \in MapRec /\ UniqueKeys(new.items)
    <2> HIDE DEF items
    <2> QED BY <1>1, <1>3 DEF MapRec
  <1> HIDE DEF new
  <1> QED BY <1>4, <1>5, CallKeepsInv DEF MapSort

LEMMA CombineStartInv ==
    ASSUME Inv, NEW m \in Maps, NEW src \in Maps, CombineStart(m, src)
    PROVE  Inv'
  <1>1. job' \in JobRec
    BY DEF CombineStart, JobRec
  <1>2. LoopInv'
    BY DEF CombineStart, LoopInv, Inv, TypeOK
  <1> QED BY <1>1, <1>2 DEF CombineStart, Inv, TypeOK, NoDuplicateKeys, UniqueKeys

LEMMA AssignStartInv ==
    ASSUME Inv, NEW m \in Maps, NEW src \in Maps, AssignStart(m, src)
    PROVE  Inv'
  <1>1. job' \in JobRec
    BY DEF AssignStart, JobRec
  <1>2. maps[m].verify \in BOOLEAN /\ maps[src] \in MapRec
    BY DEF Inv, TypeOK, MapRec
  <1>3. tmp' \in MapRec /\ UniqueKeys(tmp.items)'
    BY <1>2, EmptyMapIsUnique DEF AssignStart
  <1>4. LoopInv'
    BY <1>2 DEF AssignStart, LoopInv, EmptyMap, MapRec
  <1> QED BY <1>1, <1>3, <1>4 DEF AssignStart, Inv, TypeOK, NoDuplicateKeys, UniqueKeys

LEMMA JobDoneInv ==
    ASSUME Inv, JobDone
    PROVE  Inv'
  <1>1. job \in JobRec
    BY DEF JobDone, Inv, TypeOK
  <1>2. job' = None /\ ret' = "OK"
    BY DEF JobDone
  <1>3. CASE job.op = "combine"
    BY <1>2, <1>3 DEF JobDone, Inv, TypeOK, LoopInv, NoDuplicateKeys, UniqueKeys
  <1>4. CASE job.op # "combine"
    <2>1. maps' = [maps EXCEPT ![job.dst] = tmp] /\ tmp' = EmptyMap(FALSE)
      BY <1>4 DEF JobDone
    <2>2. maps' \in [Maps -> MapRec] /\ NoDuplicateKeys'
      BY <1>1, <2>1, OneMapChanges DEF Inv, TypeOK, JobRec
    <2>3. tmp' \in MapRec /\ UniqueKeys(tmp.items)'
      BY <2>1, EmptyMapIsUnique
    <2> QED BY <1>2, <2>2, <2>3 DEF Inv, TypeOK, LoopInv
  <1> QED BY <1>3, <1>4

(* One iteration that makes `new` of the map the loop adds to.             *)
Iteration(new, r) ==
    /\ AddOutcome(Target, maps[job.src].items[job.next].key,
                  maps[job.src].items[job.next].value, TRUE, new, r)
    /\ ret' = r
    /\ job' = IF r = "OK" THEN [job EXCEPT !.next = @ + 1] ELSE None
    /\ IF job.op = "combine"
       THEN maps' = [maps EXCEPT ![job.dst] = new] /\ tmp' = tmp
       ELSE maps' = maps /\ tmp' = IF r = "OK" THEN new ELSE EmptyMap(FALSE)

LEMMA LoopTypes ==
    ASSUME Inv, JobItem
    PROVE  /\ job # None /\ job \in JobRec
           /\ maps[job.src].items \in Seq(Items) /\ UniqueKeys(maps[job.src].items)
           /\ job.next \in 1..Len(maps[job.src].items)
           /\ maps[job.src].items[job.next] \in Items
           /\ Target \in MapRec /\ UniqueKeys(Target.items)
  <1>1. job # None /\ job \in JobRec /\ job.src \in Maps /\ job.dst \in Maps
    BY DEF JobItem, Inv, TypeOK, JobRec
  <1>2. maps[job.src].items \in Seq(Items) /\ UniqueKeys(maps[job.src].items)
    BY <1>1 DEF Inv, TypeOK, NoDuplicateKeys, MapRec
  <1>3. job.next \in 1..Len(maps[job.src].items)
    BY <1>1, <1>2 DEF JobItem, JobRec
  <1>4. maps[job.src].items[job.next] \in Items
    BY ONLY <1>2, <1>3, ElementOfSeq
  <1>5. Target \in MapRec /\ UniqueKeys(Target.items)
    BY <1>1 DEF Target, Inv, TypeOK, NoDuplicateKeys
  <1> QED BY <1>1, <1>2, <1>3, <1>4, <1>5

LEMMA JobItemIterates ==
    ASSUME Inv, JobItem
    PROVE  \E new, r : /\ Iteration(new, r)
                       /\ new \in MapRec /\ UniqueKeys(new.items)
                       /\ new.verify = Target.verify
                       /\ r \in {"OK", "EINVAL", "ENOMEM"}
  <1>1. PICK new, r : Iteration(new, r)
    BY DEF JobItem, Iteration
  <1>2. /\ maps[job.src].items[job.next].key \in Keys
        /\ maps[job.src].items[job.next].value \in Values
    BY LoopTypes DEF Items
  <1>3. /\ new \in MapRec /\ UniqueKeys(new.items) /\ new.verify = Target.verify
        /\ r \in {"OK", "EINVAL", "ENOMEM"}
    BY <1>1, <1>2, LoopTypes, AddOutcomeKeepsUnique DEF Iteration
  <1> QED BY <1>1, <1>3

(* An iteration that succeeds has the item in the map afterwards, and      *)
(* nothing that was in the map moves.                                      *)
LEMMA AddOutcomeAppends ==
    ASSUME NEW m \in MapRec, NEW k \in Keys, NEW v \in Values,
           NEW ignoreDups \in BOOLEAN, NEW new, NEW r,
           AddOutcome(m, k, v, ignoreDups, new, r)
    PROVE  /\ Len(m.items) <= Len(new.items)
           /\ \A i \in 1..Len(m.items) : new.items[i] = m.items[i]
           /\ r = "OK" => Has(new.items, k)
           /\ ~Has(m.items, k) /\ r = "OK" =>
                /\ ~VerifyFails(m, k, v)
                /\ new.items = Append(m.items, Item(k, v))
  <1>1. m.items \in Seq(Items)
    BY DEF MapRec
  <1>2. CASE new = m /\ (r # "OK" \/ Has(m.items, k))
    BY <1>1, <1>2
  <1>3. CASE /\ ~VerifyFails(m, k, v) /\ ~Has(m.items, k) /\ r = "OK"
             /\ new = [m EXCEPT !.items = Append(@, Item(k, v))]
    <2>1. Item(k, v) \in Items /\ Item(k, v).key = k
      BY DEF Item, Items
    <2>2. new.items = Append(m.items, Item(k, v))
      BY <1>3 DEF MapRec
    <2>3. /\ Len(new.items) = Len(m.items) + 1
          /\ \A i \in 1..Len(m.items) : new.items[i] = m.items[i]
          /\ new.items[Len(m.items) + 1] = Item(k, v)
      BY <1>1, <2>1, <2>2, AppendProperties
    <2>4. Has(new.items, k)
      BY <1>1, <2>1, <2>3 DEF Has
    <2> QED BY <1>1, <1>3, <2>2, <2>3, <2>4
  <1> QED BY <1>2, <1>3 DEF AddOutcome

(* The same, said of an iteration of the loop.                             *)
LEMMA IterationAppends ==
    ASSUME Inv, JobItem, NEW new, NEW r, Iteration(new, r)
    PROVE  LET item == maps[job.src].items[job.next]
           IN /\ Len(Target.items) <= Len(new.items)
              /\ \A i \in 1..Len(Target.items) : new.items[i] = Target.items[i]
              /\ r = "OK" => Has(new.items, item.key)
              /\ ~Has(Target.items, item.key) /\ r = "OK" =>
                    /\ ~VerifyFails(Target, item.key, item.value)
                    /\ new.items = Append(Target.items, Item(item.key, item.value))
  <1> DEFINE item == maps[job.src].items[job.next]
  <1>1. Target \in MapRec /\ item.key \in Keys /\ item.value \in Values
    BY LoopTypes DEF Items
  <1>2. AddOutcome(Target, item.key, item.value, TRUE, new, r)
    BY DEF Iteration
  <1> HIDE DEF item
  <1>3. PICK m \in MapRec, k \in Keys, v \in Values :
          m = Target /\ k = item.key /\ v = item.value
    BY <1>1
  <1>4. AddOutcome(m, k, v, TRUE, new, r)
    BY <1>2, <1>3
  <1>5. /\ Len(m.items) <= Len(new.items)
        /\ \A i \in 1..Len(m.items) : new.items[i] = m.items[i]
        /\ r = "OK" => Has(new.items, k)
        /\ ~Has(m.items, k) /\ r = "OK" =>
              /\ ~VerifyFails(m, k, v)
              /\ new.items = Append(m.items, Item(k, v))
    BY ONLY <1>4, AddOutcomeAppends, m \in MapRec, k \in Keys, v \in Values,
            TRUE \in BOOLEAN, ZenonT(90)
  <1>6. /\ Len(Target.items) <= Len(new.items)
        /\ \A i \in 1..Len(Target.items) : new.items[i] = Target.items[i]
        /\ r = "OK" => Has(new.items, item.key)
        /\ ~Has(Target.items, item.key) /\ r = "OK" =>
              /\ ~VerifyFails(Target, item.key, item.value)
              /\ new.items = Append(Target.items, Item(item.key, item.value))
    BY <1>3, <1>5, Zenon
  <1> QED BY <1>6 DEF item

LEMMA JobItemInv ==
    ASSUME Inv, JobItem
    PROVE  Inv'
  <1> DEFINE src == maps[job.src].items
             item == src[job.next]
  <1>1. PICK new, r : /\ Iteration(new, r)
                      /\ new \in MapRec /\ UniqueKeys(new.items)
                      /\ new.verify = Target.verify
                      /\ r \in {"OK", "EINVAL", "ENOMEM"}
    BY JobItemIterates
  <1>2. /\ job # None /\ job \in JobRec /\ src \in Seq(Items) /\ UniqueKeys(src)
        /\ job.next \in 1..Len(src) /\ item \in Items /\ job # None
        /\ Target \in MapRec /\ UniqueKeys(Target.items)
    BY LoopTypes
  <1>3. item.key \in Keys /\ item.value \in Values
    BY <1>2 DEF Items
  <1>4. /\ Len(Target.items) <= Len(new.items)
        /\ \A i \in 1..Len(Target.items) : new.items[i] = Target.items[i]
        /\ r = "OK" => Has(new.items, item.key)
        /\ ~Has(Target.items, item.key) /\ r = "OK" =>
                /\ ~VerifyFails(Target, item.key, item.value)
                /\ new.items = Append(Target.items, Item(item.key, item.value))
    BY <1>1, IterationAppends
  <1>5. job' \in JobRec \cup {None} /\ ret' \in {"OK", "EINVAL", "ENOMEM"}
    BY <1>1, <1>2 DEF Iteration, JobRec
  <1>6. CASE job.op = "combine"
    <2>1. maps' = [maps EXCEPT ![job.dst] = new] /\ tmp' = tmp
          /\ Target = maps[job.dst] /\ job.dst \in Maps /\ job.src \in Maps
      BY <1>1, <1>2, <1>6 DEF Iteration, Target, JobRec
    <2>2. maps' \in [Maps -> MapRec] /\ NoDuplicateKeys'
      BY <1>1, <2>1, OneMapChanges DEF Inv, TypeOK
    <2>3. CASE r # "OK"
      <3>1. job' = None
        BY <1>1, <2>3 DEF Iteration
      <3> QED BY <1>5, <2>1, <2>2, <3>1 DEF Inv, TypeOK, LoopInv, UniqueKeys
    <2>4. CASE r = "OK"
      <3>1. /\ job' # None /\ job'.src = job.src /\ job'.dst = job.dst
            /\ job'.op = "combine" /\ job'.next = job.next + 1
        BY <1>1, <1>2, <1>6, <2>4, NoneIsNoJob DEF Iteration, JobRec
      <3>2. job.src # job.dst
        BY <1>2 DEF Inv, LoopInv
      <3>3. maps'[job.src] = maps[job.src] /\ maps'[job.dst] = new
        BY <2>1, <3>2 DEF Inv, TypeOK
      <3>4. \A i \in 1..Len(src) : i < job.next => Has(Target.items, src[i].key)
        BY <1>2, <1>6, <2>1 DEF Inv, LoopInv
      <3>5. \A i \in 1..Len(src) : i < job.next => Has(new.items, src[i].key)
        <4>1. Len(Target.items) \in Nat /\ Len(new.items) \in Nat
          BY <1>1, <1>2 DEF MapRec
        <4>2. \A i \in 1..Len(Target.items) : i \in 1..Len(new.items)
          BY ONLY <1>4, <4>1
        <4> QED BY <1>4, <3>4, <4>2 DEF Has
      <3>6. \A i \in 1..Len(src) : i < job.next + 1 => Has(new.items, src[i].key)
        BY <1>2, <1>4, <2>4, <3>5
      <3>7. LoopInv'
        BY <3>1, <3>2, <3>3, <3>6 DEF LoopInv
      <3> QED BY <1>5, <2>1, <2>2, <3>7 DEF Inv, TypeOK, UniqueKeys
    <2> QED BY <2>3, <2>4
  <1>7. CASE job.op = "assign"
    <2>1. maps' = maps /\ tmp' = (IF r = "OK" THEN new ELSE EmptyMap(FALSE))
          /\ Target = tmp
      BY <1>1, <1>7 DEF Iteration, Target
    <2>2. tmp' \in MapRec /\ UniqueKeys(tmp.items)'
      BY <1>1, <2>1, EmptyMapIsUnique
    <2>3. CASE r # "OK"
      <3>1. job' = None
        BY <1>1, <2>3 DEF Iteration
      <3> QED BY <1>5, <2>1, <2>2, <3>1 DEF Inv, TypeOK, LoopInv, NoDuplicateKeys, UniqueKeys
    <2>4. CASE r = "OK"
      <3>1. /\ job' # None /\ job'.src = job.src /\ job'.dst = job.dst
            /\ job'.op = "assign" /\ job'.next = job.next + 1
        BY <1>1, <1>2, <1>7, <2>4, NoneIsNoJob DEF Iteration, JobRec
      <3>2. /\ job.src # job.dst /\ tmp.verify = maps[job.dst].verify
            /\ job.next = Len(tmp.items) + 1
            /\ \A i \in 1..Len(tmp.items) :
                tmp.items[i] = src[i]
                /\ ~VerifyFails(tmp, tmp.items[i].key, tmp.items[i].value)
        BY <1>2, <1>7 DEF Inv, LoopInv
      <3>3. tmp.items \in Seq(Items) /\ Len(tmp.items) \in Nat
        BY <1>2, <2>1 DEF MapRec
      <3>4. ~Has(tmp.items, item.key)
        <4>1. SUFFICES ASSUME NEW i \in 1..Len(tmp.items), tmp.items[i].key = item.key
                       PROVE  FALSE
          BY DEF Has
        <4>2. i \in 1..Len(src) /\ i < job.next /\ src[i].key = src[job.next].key
          BY <1>2, <3>2, <3>3, <4>1
        <4> QED BY <1>2, <4>2 DEF UniqueKeys
      <3>5. /\ ~VerifyFails(tmp, item.key, item.value)
            /\ new.items = Append(tmp.items, Item(item.key, item.value))
        BY <1>4, <2>1, <2>4, <3>4
      <3>6. Item(item.key, item.value) = item
        BY <1>2 DEF Item, Items
      <3>7. new.items = Append(tmp.items, item) /\ new.verify = tmp.verify
        BY <1>1, <2>1, <3>5, <3>6
      <3>8. /\ Len(new.items) = Len(tmp.items) + 1
            /\ \A i \in 1..Len(tmp.items) : new.items[i] = tmp.items[i]
            /\ new.items[Len(tmp.items) + 1] = item
        BY <1>2, <3>3, <3>7, AppendProperties
      <3>9. \A i \in 1..Len(new.items) :
                new.items[i] = src[i]
                /\ ~VerifyFails(new, new.items[i].key, new.items[i].value)
        <4>1. SUFFICES ASSUME NEW i \in 1..Len(new.items)
                       PROVE  /\ new.items[i] = src[i]
                              /\ ~VerifyFails(new, new.items[i].key, new.items[i].value)
          OBVIOUS
        <4>2. CASE i = Len(tmp.items) + 1
          BY <3>2, <3>5, <3>7, <3>8, <4>2 DEF VerifyFails
        <4>3. CASE i \in 1..Len(tmp.items)
          BY <3>2, <3>5, <3>7, <3>8, <4>3 DEF VerifyFails
        <4> QED BY <3>3, <3>8, <4>2, <4>3
      <3>10. LoopInv'
        <4>1. tmp' = new /\ maps' = maps
          BY <2>1, <2>4
        <4>2. Len(new.items) <= Len(src)
          BY <1>2, <3>2, <3>3, <3>8
        <4> QED BY <3>1, <3>2, <3>3, <3>7, <3>8, <3>9, <4>1, <4>2 DEF LoopInv, VerifyFails
      <3> QED BY <1>5, <2>1, <2>2, <3>10 DEF Inv, TypeOK, NoDuplicateKeys, UniqueKeys
    <2> QED BY <2>3, <2>4
  <1> QED BY <1>2, <1>6, <1>7 DEF JobRec

-----------------------------------------------------------------------------
LEMMA InitInv == Init => Inv
  <1> SUFFICES ASSUME Init PROVE Inv
    OBVIOUS
  <1>1. maps \in [Maps -> MapRec] /\ \A m \in Maps : maps[m].items = <<>>
    <2>1. /\ EmptyMap(TRUE) \in MapRec /\ EmptyMap(TRUE).items = <<>>
          /\ EmptyMap(FALSE) \in MapRec /\ EmptyMap(FALSE).items = <<>>
      BY EmptyMapIsUnique DEF EmptyMap
    <2>2. maps \in [Maps -> {EmptyMap(TRUE), EmptyMap(FALSE)}]
      BY DEF Init
    <2> QED BY <2>1, <2>2
  <1>2. tmp \in MapRec /\ UniqueKeys(tmp.items)
    BY EmptyMapIsUnique DEF Init
  <1>3. NoDuplicateKeys
    BY <1>1 DEF NoDuplicateKeys, UniqueKeys
  <1>4. LoopInv
    BY DEF Init, LoopInv
  <1> QED BY <1>1, <1>2, <1>3, <1>4 DEF Init, Inv, TypeOK

LEMMA NextInv == Inv /\ [Next]_vars => Inv'
  <1> SUFFICES ASSUME Inv, [Next]_vars PROVE Inv'
    OBVIOUS
  <1>1. CASE UNCHANGED vars
    BY <1>1 DEF vars, Inv, TypeOK, NoDuplicateKeys, UniqueKeys, LoopInv, VerifyFails, Has
  <1>2. CASE JobItem
    BY <1>2, JobItemInv
  <1>3. CASE JobDone
    BY <1>3, JobDoneInv
  <1>4. ASSUME NEW m \in Maps, NEW v \in BOOLEAN, MapInit(m, v) PROVE Inv'
    BY <1>4, MapInitInv
  <1>5. ASSUME NEW m \in Maps, MapClear(m) PROVE Inv'
    BY <1>5, MapClearInv
  <1>6. ASSUME NEW m \in Maps, NEW p \in Pairs, NEW ignoreDups \in BOOLEAN,
               MapAdd(m, p[1], p[2], ignoreDups)
        PROVE  Inv'
    BY <1>6, MapAddInv
  <1>7. ASSUME NEW m \in Maps, NEW p \in Pairs, MapReplace(m, p[1], p[2]) PROVE Inv'
    BY <1>7, MapReplaceInv
  <1>8. ASSUME NEW m \in Maps, NEW p \in Pairs, MapReplaceAbsent(m, p[1], p[2])
        PROVE  Inv'
    BY <1>8, MapAddInv DEF MapReplaceAbsent
  <1>9. ASSUME NEW m \in Maps, NEW k \in Keys, MapRemove(m, k) PROVE Inv'
    BY <1>9, MapRemoveInv
  <1>10. ASSUME NEW m \in Maps, MapSort(m) PROVE Inv'
    BY <1>10, MapSortInv
  <1>11. ASSUME NEW m \in Maps, NEW src \in Maps, CombineStart(m, src) PROVE Inv'
    BY <1>11, CombineStartInv
  <1>12. ASSUME NEW m \in Maps, NEW src \in Maps, AssignStart(m, src) PROVE Inv'
    BY <1>12, AssignStartInv
  <1> QED BY <1>1, <1>2, <1>3, <1>4, <1>5, <1>6, <1>7, <1>8, <1>9, <1>10, <1>11,
             <1>12 DEF Next

(* However calls follow each other and whichever of them fail, maps and    *)
(* the running loop are well-formed (src/map.c).                           *)
THEOREM TypeCorrect == Spec => []TypeOK
  BY InitInv, NextInv, PTL DEF Spec, Inv

(* No order of adds, replaces, removes, sorts, combines and assigns ever   *)
(* puts a key in a map twice, whatever the maps, keys and failures are.    *)
THEOREM KeysAreUnique == Spec => []NoDuplicateKeys
  BY InitInv, NextInv, PTL DEF Spec, Inv

-----------------------------------------------------------------------------
(* While a loop runs nothing else does: the library does not call back.    *)
LEMMA OnlyTheLoopRuns ==
    ASSUME Next, job # None
    PROVE  JobItem \/ JobDone
  BY DEF Next, MapInit, MapClear, MapAdd, MapReplace, MapReplaceAbsent, MapRemove,
         MapSort, CombineStart, AssignStart

(* wally_map_combine only ever appends to its destination, also when an    *)
(* item fails and it stops half way.                                       *)
THEOREM CombineAppends == Spec => CombineOnlyAppends
  <1> DEFINE Appends(m) ==
        /\ Len(maps[m].items) <= Len(maps'[m].items)
        /\ \A i \in 1..Len(maps[m].items) : maps'[m].items[i] = maps[m].items[i]
        /\ maps'[m].verify = maps[m].verify
  <1>1. Inv /\ Next => \A m \in Maps : job # None /\ job.op = "combine" => Appends(m)
    <2> SUFFICES ASSUME Inv, Next, NEW m \in Maps, job # None, job.op = "combine"
                 PROVE  Appends(m)
      OBVIOUS
    <2>1. Len(maps[m].items) \in Nat
      BY DEF Inv, TypeOK, MapRec
    <2>2. CASE maps'[m] = maps[m]
      BY <2>1, <2>2
    <2>3. CASE JobDone
      BY <2>2, <2>3 DEF JobDone
    <2>4. CASE JobItem
      <3>1. PICK new, r : Iteration(new, r) /\ new.verify = Target.verify
        BY <2>4, JobItemIterates
      <3>2. /\ Target = maps[job.dst] /\ job.dst \in Maps
            /\ maps' = [maps EXCEPT ![job.dst] = new]
        BY <3>1 DEF Iteration, Target, Inv, TypeOK, JobRec
      <3>3. /\ Len(Target.items) <= Len(new.items)
            /\ \A i \in 1..Len(Target.items) : new.items[i] = Target.items[i]
        BY <2>4, <3>1, IterationAppends
      <3>4. CASE m = job.dst
        BY <3>1, <3>2, <3>3, <3>4 DEF Inv, TypeOK
      <3>5. CASE m # job.dst
        BY <2>2, <3>2, <3>5 DEF Inv, TypeOK
      <3> QED BY <3>4, <3>5
    <2> QED BY <2>3, <2>4, OnlyTheLoopRuns
  <1>2. Inv /\ [Next]_vars =>
          [\A m \in Maps : job # None /\ job.op = "combine" => Appends(m)]_vars
    BY <1>1
  <1> QED BY <1>2, InitInv, NextInv, PTL DEF Spec, CombineOnlyAppends

(* A wally_map_combine that returns WALLY_OK has seen every item of its    *)
(* source: no key of it is missing from the destination.                   *)
THEOREM CombineCompletes == Spec => CombineIsComplete
  <1> DEFINE Complete ==
        job # None /\ job' = None /\ job.op = "combine" /\ ret' = "OK" =>
            \A i \in 1..Len(maps[job.src].items) :
                Has(maps'[job.dst].items, maps[job.src].items[i].key)
  <1>1. Inv /\ Next => Complete
    <2> SUFFICES ASSUME Inv, Next, job # None, job' = None, job.op = "combine",
                        ret' = "OK", NEW i \in 1..Len(maps[job.src].items)
                 PROVE  Has(maps'[job.dst].items, maps[job.src].items[i].key)
      OBVIOUS
    <2>1. CASE JobItem
      <3>1. PICK new, r : Iteration(new, r)
        BY <2>1, JobItemIterates
      <3>2. job' = [job EXCEPT !.next = @ + 1] /\ job \in JobRec
        BY <3>1 DEF Iteration, Inv, TypeOK
      <3>3. job' \in JobRec
        BY <3>2 DEF JobRec
      <3> QED BY <3>3, NoneIsNoJob
    <2>2. CASE JobDone
      <3>1. job \in JobRec
        BY DEF Inv, TypeOK
      <3>2. i < job.next /\ maps' = maps
        BY <2>2, <3>1 DEF JobDone, JobRec, Inv, TypeOK, MapRec
      <3> QED BY <3>2 DEF Inv, LoopInv
    <2> QED BY <2>1, <2>2, OnlyTheLoopRuns
  <1>2. Inv /\ [Next]_vars => [Complete]_vars
    BY <1>1
  <1> QED BY <1>2, InitInv, NextInv, PTL DEF Spec, CombineIsComplete

(* wally_map_assign verifies what it takes over, although its source need  *)
(* not have the verify function of the destination, or any.                *)
THEOREM AssignVerifies == Spec => AssignVerifiesAll
  <1> DEFINE Verifies == \A m \in Maps :
        /\ job # None /\ job.op = "assign"
        /\ maps'[m].verify /\ maps'[m] # maps[m]
        => \A i \in 1..Len(maps'[m].items) :
              ~VerifyFails(maps'[m], maps'[m].items[i].key, maps'[m].items[i].value)
  <1>1. Inv /\ Next => Verifies
    <2> SUFFICES ASSUME Inv, Next, NEW m \in Maps, job # None, job.op = "assign",
                        maps'[m].verify, maps'[m] # maps[m],
                        NEW i \in 1..Len(maps'[m].items)
                 PROVE  ~VerifyFails(maps'[m], maps'[m].items[i].key,
                                     maps'[m].items[i].value)
      OBVIOUS
    <2>1. CASE JobItem
      <3>1. PICK new, r : Iteration(new, r)
        BY <2>1, JobItemIterates
      <3> QED BY <3>1 DEF Iteration
    <2>2. CASE JobDone
      <3>1. maps' = [maps EXCEPT ![job.dst] = tmp] /\ job.dst \in Maps
        BY <2>2 DEF JobDone, Inv, TypeOK, JobRec
      <3>2. m = job.dst /\ maps'[m] = tmp
        BY <3>1 DEF Inv, TypeOK
      <3> QED BY <3>2 DEF Inv, LoopInv
    <2> QED BY <2>1, <2>2, OnlyTheLoopRuns
  <1>2. Inv /\ [Next]_vars => [Verifies]_vars
    BY <1>1
  <1> QED BY <1>2, InitInv, NextInv, PTL DEF Spec, AssignVerifiesAll

-----------------------------------------------------------------------------
(* What the maps hold, as the abstract stores see it.                      *)
View(items) == [k \in Keys |-> Lookup(items, k)]

LEMMA LookupAbsent ==
    ASSUME NEW items, NEW k, ~Has(items, k)
    PROVE  Lookup(items, k) = None
  BY DEF Lookup

LEMMA LookupAt ==
    ASSUME NEW items, UniqueKeys(items), NEW i \in 1..Len(items)
    PROVE  Has(items, items[i].key) /\ Lookup(items, items[i].key) = items[i].value
  <1>1. Has(items, items[i].key)
    BY DEF Has
  <1>2. \A j \in 1..Len(items) : items[j].key = items[i].key => j = i
    BY DEF UniqueKeys
  <1>3. (CHOOSE j \in 1..Len(items) : items[j].key = items[i].key) = i
    BY <1>2
  <1> QED BY <1>1, <1>3 DEF Lookup

LEMMA LookupPresent ==
    ASSUME NEW items \in Seq(Items), UniqueKeys(items), NEW k, Has(items, k)
    PROVE  Lookup(items, k) \in Values /\ Lookup(items, k) # None
  <1>1. PICK i \in 1..Len(items) : items[i].key = k
    BY DEF Has
  <1>2. items[i] \in Items
    BY ElementOfSeq
  <1>3. Lookup(items, k) = items[i].value
    BY <1>1, LookupAt
  <1> QED BY <1>2, <1>3, NoneAssumption DEF Items

(* Items that are the same under every key look the same.                  *)
LEMMA SameLookup ==
    ASSUME NEW a \in Seq(Items), UniqueKeys(a), NEW b \in Seq(Items), UniqueKeys(b),
           NEW k,
           \A i \in 1..Len(a) : a[i].key = k =>
                \E j \in 1..Len(b) : b[j].key = k /\ b[j].value = a[i].value,
           \A j \in 1..Len(b) : b[j].key = k => Has(a, k)
    PROVE  Lookup(a, k) = Lookup(b, k)
  <1>1. CASE Has(a, k)
    <2>1. PICK i \in 1..Len(a) : a[i].key = k
      BY <1>1 DEF Has
    <2>2. PICK j \in 1..Len(b) : b[j].key = k /\ b[j].value = a[i].value
      BY <2>1
    <2> QED BY <2>1, <2>2, LookupAt
  <1>2. CASE ~Has(a, k)
    <2>1. ~Has(b, k)
      BY <1>2 DEF Has
    <2> QED BY <1>2, <2>1, LookupAbsent
  <1> QED BY <1>1, <1>2

LEMMA ViewOfNothing == View(<<>>) = KV!Empty
  <1>1. \A k : ~Has(<<>>, k)
    BY DEF Has
  <1> QED BY <1>1, LookupAbsent DEF View, KV!Empty

LEMMA ViewOfAppended ==
    ASSUME NEW items \in Seq(Items), UniqueKeys(items), NEW k \in Keys, NEW v \in Values,
           ~Has(items, k)
    PROVE  View(Append(items, Item(k, v))) = [View(items) EXCEPT ![k] = v]
  <1> DEFINE item == Item(k, v)
             new == Append(items, item)
  <1>1. item \in Items /\ item.key = k /\ item.value = v
    BY DEF Item, Items
  <1> HIDE DEF item
  <1>2. new \in Seq(Items) /\ UniqueKeys(new)
    BY <1>1, AppendKeepsUnique
  <1>3. /\ Len(new) = Len(items) + 1 /\ Len(items) \in Nat
        /\ \A i \in 1..Len(items) : new[i] = items[i]
        /\ new[Len(items) + 1] = item
    BY <1>1, AppendProperties
  <1> HIDE DEF new
  <1>4. Lookup(new, k) = v
    BY <1>1, <1>2, <1>3, LookupAt
  <1>5. ASSUME NEW l \in Keys, l # k PROVE Lookup(new, l) = Lookup(items, l)
    <2>1. \A i \in 1..Len(new) : new[i].key = l =>
              \E j \in 1..Len(items) : items[j].key = l /\ items[j].value = new[i].value
      BY <1>1, <1>3, <1>5
    <2>2. \A j \in 1..Len(items) : items[j].key = l => Has(new, l)
      BY <1>3 DEF Has
    <2> QED BY <1>2, <2>1, <2>2, SameLookup
  <1>6. \A l \in Keys : Lookup(new, l) = IF l = k THEN v ELSE Lookup(items, l)
    BY <1>4, <1>5
  <1>7. View(new) = [View(items) EXCEPT ![k] = v]
    BY <1>6 DEF View
  <1> QED BY <1>7 DEF new, item

LEMMA ViewWithout ==
    ASSUME NEW items \in Seq(Items), UniqueKeys(items), NEW i \in 1..Len(items)
    PROVE  View(Without(items, i)) = [View(items) EXCEPT ![items[i].key] = None]
  <1> DEFINE new == Without(items, i)
             gone == items[i].key
  <1>1. new \in Seq(Items) /\ UniqueKeys(new) /\ Len(new) = Len(items) - 1
    BY WithoutKeepsUnique
  <1>2. Len(items) \in Nat
    OBVIOUS
  <1>3. \A j \in 1..Len(new) : new[j] = IF j < i THEN items[j] ELSE items[j + 1]
    BY <1>1 DEF Without
  <1> HIDE DEF new
  <1>4. ~Has(new, gone)
    <2> SUFFICES ASSUME NEW j \in 1..Len(new), new[j].key = gone PROVE FALSE
      BY DEF Has
    <2>1. CASE j < i
      BY <1>1, <1>2, <1>3, <2>1 DEF UniqueKeys
    <2>2. CASE ~(j < i)
      <3>1. j + 1 \in 1..Len(items) /\ j + 1 # i
        BY <1>1, <1>2, <2>2
      <3> QED BY <1>3, <2>2, <3>1 DEF UniqueKeys
    <2> QED BY <2>1, <2>2
  <1>5. ASSUME NEW l \in Keys, l # gone PROVE Lookup(new, l) = Lookup(items, l)
    <2>1. \A j \in 1..Len(new) : new[j].key = l =>
              \E n \in 1..Len(items) : items[n].key = l /\ items[n].value = new[j].value
      <3> TAKE j \in 1..Len(new)
      <3>1. j \in 1..Len(items) /\ j + 1 \in 1..Len(items)
        BY <1>1, <1>2
      <3> QED BY <1>3, <3>1
    <2>2. \A n \in 1..Len(items) : items[n].key = l => Has(new, l)
      <3> SUFFICES ASSUME NEW n \in 1..Len(items), items[n].key = l PROVE Has(new, l)
        OBVIOUS
      <3>1. n # i
        BY <1>5
      <3>2. CASE n < i
        <4>1. n \in 1..Len(new)
          BY <1>1, <1>2, <3>2
        <4> QED BY <1>3, <3>2, <4>1 DEF Has
      <3>3. CASE n > i
        <4>1. n - 1 \in 1..Len(new) /\ ~(n - 1 < i) /\ n - 1 + 1 = n
          BY <1>1, <1>2, <3>3
        <4> QED BY <1>3, <4>1 DEF Has
      <3> QED BY <1>2, <3>1, <3>2, <3>3
    <2> QED BY <1>1, <2>1, <2>2, SameLookup
  <1>6. \A l \in Keys : Lookup(new, l) = IF l = gone THEN None ELSE Lookup(items, l)
    BY <1>4, <1>5, LookupAbsent
  <1> HIDE DEF gone
  <1>7. View(new) = [View(items) EXCEPT ![gone] = None]
    BY <1>6 DEF View
  <1> QED BY <1>7 DEF new, gone

LEMMA ViewOverwritten ==
    ASSUME NEW items \in Seq(Items), UniqueKeys(items),
           NEW i \in 1..Len(items), NEW v \in Values
    PROVE  View([items EXCEPT ![i].value = v]) = [View(items) EXCEPT ![items[i].key] = v]
  <1> DEFINE item == [items[i] EXCEPT !.value = v]
             new == [items EXCEPT ![i] = item]
             key == items[i].key
  <1>1. items[i] \in Items
    BY ElementOfSeq
  <1>2. item \in Items /\ item.key = key /\ item.value = v
    BY <1>1 DEF Items
  <1>3. new \in Seq(Items) /\ UniqueKeys(new)
    BY OverwriteKeepsUnique
  <1>4. /\ Len(new) = Len(items)
        /\ \A j \in 1..Len(items) : new[j] = IF j = i THEN item ELSE items[j]
    BY <1>2, ExceptSeq
  <1> HIDE DEF item, new
  <1>5. Lookup(new, key) = v
    BY <1>2, <1>3, <1>4, LookupAt
  <1>6. ASSUME NEW l \in Keys, l # key PROVE Lookup(new, l) = Lookup(items, l)
    <2>1. \A j \in 1..Len(new) : new[j].key = l =>
              \E n \in 1..Len(items) : items[n].key = l /\ items[n].value = new[j].value
      BY <1>2, <1>4, <1>6
    <2>2. \A n \in 1..Len(items) : items[n].key = l => Has(new, l)
      BY <1>4, <1>6 DEF Has
    <2> QED BY <1>3, <2>1, <2>2, SameLookup
  <1>7. \A l \in Keys : Lookup(new, l) = IF l = key THEN v ELSE Lookup(items, l)
    BY <1>5, <1>6
  <1> HIDE DEF key
  <1>8. View(new) = [View(items) EXCEPT ![key] = v]
    BY <1>7 DEF View
  <1> QED BY <1>8 DEF new, item, key

(* A permutation leaves no item out.                                       *)
LEMMA PermutationIsOnto ==
    ASSUME NEW n \in Nat, NEW p \in Permutation(n), NEW j \in 1..n
    PROVE  \E i \in 1..n : p[i] = j
  <1> SUFFICES ASSUME \A i \in 1..n : p[i] # j PROVE FALSE
    OBVIOUS
  <1>1. p \in [1..n -> (1..n) \ {j}]
    BY DEF Permutation
  <1>2. IsFiniteSet(1..n) /\ Cardinality(1..n) = n
    BY FS_Interval
  <1>3. IsFiniteSet((1..n) \ {j}) /\ Cardinality((1..n) \ {j}) = n - 1
    BY <1>2, FS_RemoveElement
  <1>4. PICK x, y \in 1..n : x # y /\ p[x] = p[y]
    <2>1. Cardinality((1..n) \ {j}) < Cardinality(1..n)
      BY <1>2, <1>3
    <2> QED BY <1>1, <1>2, <1>3, <2>1, FS_PigeonHole, Zenon
  <1> QED BY <1>4 DEF Permutation

LEMMA ViewPermuted ==
    ASSUME NEW items \in Seq(Items), UniqueKeys(items),
           NEW p \in Permutation(Len(items))
    PROVE  View(Permuted(items, p)) = View(items)
  <1> DEFINE new == Permuted(items, p)
  <1>1. new \in Seq(Items) /\ UniqueKeys(new) /\ Len(new) = Len(items)
    BY PermutedKeepsUnique
  <1>2. \A i \in 1..Len(items) : p[i] \in 1..Len(items) /\ new[i] = items[p[i]]
    BY DEF Permuted, Permutation
  <1>3. \A j \in 1..Len(items) : \E i \in 1..Len(items) : p[i] = j
    <2>1. Len(items) \in Nat
      OBVIOUS
    <2> QED BY <2>1, PermutationIsOnto
  <1> HIDE DEF new
  <1>4. ASSUME NEW k \in Keys PROVE Lookup(new, k) = Lookup(items, k)
    <2>1. \A i \in 1..Len(new) : new[i].key = k =>
              \E j \in 1..Len(items) : items[j].key = k /\ items[j].value = new[i].value
      BY <1>1, <1>2
    <2>2. \A j \in 1..Len(items) : items[j].key = k => Has(new, k)
      <3> SUFFICES ASSUME NEW j \in 1..Len(items), items[j].key = k PROVE Has(new, k)
        OBVIOUS
      <3>1. PICK i \in 1..Len(items) : p[i] = j
        BY <1>3
      <3> QED BY <1>1, <1>2, <3>1 DEF Has
    <2> QED BY <1>1, <2>1, <2>2, SameLookup
  <1> QED BY <1>4 DEF View, new

-----------------------------------------------------------------------------
(* The refinement, call by call.                                           *)
LEMMA ContentIs ==
    /\ Content = [m \in Maps |-> View(maps[m].items)]
    /\ Content' = [m \in Maps |-> View(maps'[m].items)]
    /\ \A m \in Maps : Content[m] = View(maps[m].items)
    /\ \A m \in Maps, k \in Keys : Content[m][k] = Lookup(maps[m].items, k)
  BY DEF Content, View

LEMMA OneContentChanges ==
    ASSUME maps \in [Maps -> MapRec], NEW m \in Maps, NEW new,
           maps' = [maps EXCEPT ![m] = new]
    PROVE  Content' = [Content EXCEPT ![m] = View(new.items)]
  <1>1. \A n \in Maps : maps'[n] = IF n = m THEN new ELSE maps[n]
    OBVIOUS
  <1>2. Content' = [n \in Maps |-> View(maps'[n].items)]
    BY ContentIs
  <1>3. Content = [n \in Maps |-> View(maps[n].items)]
    BY ContentIs
  <1> QED BY <1>1, <1>2, <1>3

LEMMA SameMapsSameContent == maps' = maps => Content' = Content
  BY DEF Content

(* A step of an abstract store, or none.                                   *)
KVStep == KV!KVNext \/ UNCHANGED Content

LEMMA InitRefines == Init => KV!KVInit
  <1> SUFFICES ASSUME Init PROVE KV!KVInit
    OBVIOUS
  <1>1. \A m \in Maps : maps[m].items = <<>>
    BY DEF Init, EmptyMap
  <1>2. \A m \in Maps : View(maps[m].items) = KV!Empty
    BY <1>1, ViewOfNothing
  <1> QED BY <1>2, ContentIs DEF KV!KVInit

LEMMA EraseRefines ==
    ASSUME Inv, NEW m \in Maps, NEW v \in BOOLEAN, maps' = [maps EXCEPT ![m] = EmptyMap(v)]
    PROVE  KVStep
  <1>1. EmptyMap(v).items = <<>>
    BY DEF EmptyMap
  <1>2. Content' = [Content EXCEPT ![m] = KV!Empty]
    BY <1>1, OneContentChanges, ViewOfNothing DEF Inv, TypeOK
  <1> QED BY <1>2 DEF KVStep, KV!KVNext, KV!Erase

(* Whatever map_add answers, it inserts a key that is not there or does    *)
(* nothing.                                                                *)
LEMMA AddRefines ==
    ASSUME Inv, NEW m \in Maps, NEW k \in Keys, NEW v \in Values, NEW ignoreDups,
           NEW new, NEW r, AddOutcome(maps[m], k, v, ignoreDups, new, r),
           maps' = [maps EXCEPT ![m] = new]
    PROVE  KVStep
  <1>1. maps \in [Maps -> MapRec] /\ maps[m] \in MapRec
    BY DEF Inv, TypeOK
  <1>2. maps[m].items \in Seq(Items) /\ UniqueKeys(maps[m].items)
    BY <1>1 DEF MapRec, Inv, NoDuplicateKeys
  <1>3. CASE new = maps[m]
    <2>1. maps' = maps
      BY <1>1, <1>3
    <2> QED BY <2>1, SameMapsSameContent DEF KVStep
  <1>4. CASE /\ ~Has(maps[m].items, k)
             /\ new = [maps[m] EXCEPT !.items = Append(@, Item(k, v))]
    <2>1. new.items = Append(maps[m].items, Item(k, v))
      BY <1>1, <1>4 DEF MapRec
    <2>2. View(new.items) = [View(maps[m].items) EXCEPT ![k] = v]
      BY <1>2, <1>4, <2>1, ViewOfAppended
    <2>3. Content' = [Content EXCEPT ![m] = [View(maps[m].items) EXCEPT ![k] = v]]
      BY <1>1, <2>2, OneContentChanges
    <2>4. Content' = [Content EXCEPT ![m][k] = v]
      BY <2>3, ContentIs
    <2>5. Content[m][k] = None
      BY <1>4, LookupAbsent, ContentIs
    <2> QED BY <2>4, <2>5 DEF KVStep, KV!KVNext, KV!Insert
  <1> QED BY <1>3, <1>4 DEF AddOutcome

LEMMA RemoveRefines ==
    ASSUME Inv, NEW m \in Maps, NEW k \in Keys, MapRemove(m, k)
    PROVE  KVStep
  <1> DEFINE items == maps[m].items
             i == CHOOSE i \in Find(items, k) : \A j \in Find(items, k) : i <= j
             new == [maps[m] EXCEPT !.items = Without(@, i)]
  <1>1. /\ maps \in [Maps -> MapRec] /\ maps[m] \in MapRec
        /\ UniqueKeys(items) /\ items \in Seq(Items)
    BY DEF Inv, TypeOK, NoDuplicateKeys, MapRec
  <1>2. CASE ~Has(items, k)
    <2>1. maps' = maps
      BY <1>2 DEF MapRemove
    <2> QED BY <2>1, SameMapsSameContent DEF KVStep
  <1>3. CASE Has(items, k)
    <2>1. PICK n \in 1..Len(items) : items[n].key = k
      BY <1>3 DEF Has
    <2>2. Find(items, k) = {n}
      BY <1>1, <2>1 DEF Find, UniqueKeys
    <2>3. i \in 1..Len(items) /\ items[i].key = k
      BY <1>1, <2>1, <2>2
    <2>4. maps' = [maps EXCEPT ![m] = new]
      BY <1>3 DEF MapRemove
    <2> HIDE DEF i
    <2>5. new.items = Without(items, i)
      BY <1>1 DEF MapRec
    <2> HIDE DEF new, items
    <2>6. View(new.items) = [View(items) EXCEPT ![k] = None]
      BY <1>1, <2>3, <2>5, ViewWithout
    <2>7. Content' = [Content EXCEPT ![m] = [View(items) EXCEPT ![k] = None]]
      BY <1>1, <2>4, <2>6, OneContentChanges
    <2>8. Content' = [Content EXCEPT ![m][k] = None]
      BY <2>7, ContentIs DEF items
    <2> QED BY <2>8 DEF KVStep, KV!KVNext, KV!Delete
  <1> QED BY <1>2, <1>3

LEMMA ReplaceRefines ==
    ASSUME Inv, NEW m \in Maps, NEW p \in Pairs, MapReplace(m, p[1], p[2])
    PROVE  KVStep
  <1>1. p[1] \in Keys /\ p[2] \in Values
    BY PairsAssumption
  <1>2. /\ maps \in [Maps -> MapRec] /\ maps[m] \in MapRec
        /\ UniqueKeys(maps[m].items) /\ maps[m].items \in Seq(Items)
    BY DEF Inv, TypeOK, NoDuplicateKeys, MapRec
  <1>3. PICK i \in Find(maps[m].items, p[1]) :
            \/ maps' = [maps EXCEPT ![m].items[i].value = p[2]]
            \/ maps' = maps
    BY DEF MapReplace
  <1>4. CASE maps' = maps
    BY <1>4, SameMapsSameContent DEF KVStep
  <1>5. CASE maps' = [maps EXCEPT ![m].items[i].value = p[2]]
    <2> DEFINE items == [maps[m].items EXCEPT ![i].value = p[2]]
               new == [maps[m] EXCEPT !.items = items]
    <2>1. i \in 1..Len(maps[m].items) /\ maps[m].items[i].key = p[1]
      BY DEF Find
    <2>2. View(items) = [View(maps[m].items) EXCEPT ![p[1]] = p[2]]
      BY <1>1, <1>2, <2>1, ViewOverwritten
    <2>3. maps' = [maps EXCEPT ![m] = new]
      BY <1>5
    <2> HIDE DEF items
    <2>4. new.items = items
      BY <1>2 DEF MapRec
    <2> HIDE DEF new
    <2>5. Content' = [Content EXCEPT ![m] = [View(maps[m].items) EXCEPT ![p[1]] = p[2]]]
      BY <1>2, <2>2, <2>3, <2>4, OneContentChanges
    <2>6. Content' = [Content EXCEPT ![m][p[1]] = p[2]]
      BY <2>5, ContentIs
    <2>7. Content[m][p[1]] # None
      <3>1. Has(maps[m].items, p[1])
        BY <2>1 DEF Has
      <3> QED BY <1>1, <1>2, <3>1, LookupPresent, ContentIs
    <2> QED BY <1>1, <2>6, <2>7 DEF KVStep, KV!KVNext, KV!Overwrite
  <1> QED BY <1>3, <1>4, <1>5

LEMMA SortRefines ==
    ASSUME Inv, NEW m \in Maps, MapSort(m)
    PROVE  KVStep
  <1>1. /\ maps \in [Maps -> MapRec] /\ maps[m] \in MapRec
        /\ UniqueKeys(maps[m].items) /\ maps[m].items \in Seq(Items)
    BY DEF Inv, TypeOK, NoDuplicateKeys, MapRec
  <1>2. PICK p \in Permutation(Len(maps[m].items)) :
            maps' = [maps EXCEPT ![m].items = Permuted(@, p)]
    BY DEF MapSort
  <1> DEFINE items == Permuted(maps[m].items, p)
             new == [maps[m] EXCEPT !.items = items]
  <1>3. View(items) = View(maps[m].items)
    BY <1>1, ViewPermuted
  <1>4. maps' = [maps EXCEPT ![m] = new]
    BY <1>2
  <1> HIDE DEF items
  <1>5. new.items = items
    BY <1>1 DEF MapRec
  <1> HIDE DEF new
  <1>6. Content' = [Content EXCEPT ![m] = View(maps[m].items)]
    BY <1>1, <1>3, <1>4, <1>5, OneContentChanges
  <1>7. Content' = Content
    BY <1>6, ContentIs
  <1> QED BY <1>7 DEF KVStep

(* A combine inserts item by item; an assign does not touch the maps until *)
(* it is done.                                                             *)
LEMMA ItemRefines ==
    ASSUME Inv, JobItem
    PROVE  KVStep
  <1> DEFINE item == maps[job.src].items[job.next]
  <1>1. PICK new, r : Iteration(new, r)
    BY JobItemIterates
  <1>2. job \in JobRec /\ job.dst \in Maps /\ item.key \in Keys /\ item.value \in Values
    BY LoopTypes DEF JobRec, Items
  <1>3. CASE job.op = "combine"
    <2>1. maps' = [maps EXCEPT ![job.dst] = new]
      BY <1>1, <1>3 DEF Iteration
    <2>2. AddOutcome(maps[job.dst], item.key, item.value, TRUE, new, r)
      BY <1>1, <1>3 DEF Iteration, Target
    <2> HIDE DEF item
    <2> QED BY <1>2, <2>1, <2>2, AddRefines
  <1>4. CASE job.op # "combine"
    <2>1. maps' = maps
      BY <1>1, <1>4 DEF Iteration
    <2> QED BY <2>1, SameMapsSameContent DEF KVStep
  <1> QED BY <1>3, <1>4

LEMMA DoneRefines ==
    ASSUME Inv, JobDone
    PROVE  KVStep
  <1>1. /\ job # None /\ job \in JobRec /\ job.dst \in Maps /\ job.src \in Maps
        /\ maps \in [Maps -> MapRec]
    BY DEF JobDone, Inv, TypeOK, JobRec
  <1>2. CASE job.op = "combine"
    <2>1. maps' = maps
      BY <1>2 DEF JobDone
    <2> QED BY <2>1, SameMapsSameContent DEF KVStep
  <1>3. CASE job.op # "combine"
    <2> DEFINE src == maps[job.src].items
    <2>1. job.op = "assign"
      BY <1>1, <1>3 DEF JobRec
    <2>2. maps' = [maps EXCEPT ![job.dst] = tmp]
      BY <1>3 DEF JobDone
    <2>3. /\ tmp.items \in Seq(Items) /\ UniqueKeys(tmp.items)
          /\ src \in Seq(Items) /\ UniqueKeys(src)
      BY <1>1 DEF Inv, TypeOK, NoDuplicateKeys, MapRec
    <2>4. /\ job.next = Len(tmp.items) + 1 /\ Len(tmp.items) <= Len(src)
          /\ \A i \in 1..Len(tmp.items) : tmp.items[i] = src[i]
          /\ job.next > Len(src)
      BY <1>1, <2>1 DEF Inv, LoopInv, JobDone
    <2> HIDE DEF src
    <2>5. Len(tmp.items) = Len(src)
      BY <2>3, <2>4
    <2>6. \A k \in Keys : Lookup(tmp.items, k) = Lookup(src, k)
      <3> TAKE k \in Keys
      <3>1. \A i \in 1..Len(tmp.items) : tmp.items[i].key = k =>
                \E j \in 1..Len(src) : src[j].key = k /\ src[j].value = tmp.items[i].value
        BY <2>4, <2>5
      <3>2. \A j \in 1..Len(src) : src[j].key = k => Has(tmp.items, k)
        BY <2>4, <2>5 DEF Has
      <3> QED BY <2>3, <3>1, <3>2, SameLookup
    <2>7. View(tmp.items) = View(src)
      BY <2>6 DEF View
    <2>8. Content' = [Content EXCEPT ![job.dst] = Content[job.src]]
      BY <1>1, <2>2, <2>7, OneContentChanges, ContentIs DEF src
    <2> QED BY <1>1, <2>8 DEF KVStep, KV!KVNext, KV!CopyFrom
  <1> QED BY <1>2, <1>3

LEMMA NextRefines == Inv /\ [Next]_vars => KVStep
  <1> SUFFICES ASSUME Inv, [Next]_vars PROVE KVStep
    OBVIOUS
  <1>1. CASE UNCHANGED vars
    BY <1>1, SameMapsSameContent DEF vars, KVStep
  <1>2. CASE JobItem
    BY <1>2, ItemRefines
  <1>3. CASE JobDone
    BY <1>3, DoneRefines
  <1>4. ASSUME NEW m \in Maps, NEW v \in BOOLEAN, MapInit(m, v) PROVE KVStep
    BY <1>4, EraseRefines DEF MapInit
  <1>5. ASSUME NEW m \in Maps, MapClear(m) PROVE KVStep
    BY <1>5, EraseRefines DEF MapClear
  <1>6. ASSUME NEW m \in Maps, NEW p \in Pairs, NEW ignoreDups,
               MapAdd(m, p[1], p[2], ignoreDups)
        PROVE  KVStep
    <2>1. p[1] \in Keys /\ p[2] \in Values
      BY PairsAssumption
    <2>2. PICK new : /\ AddOutcome(maps[m], p[1], p[2], ignoreDups, new, ret')
                     /\ maps' = [maps EXCEPT ![m] = new]
      BY <1>6 DEF MapAdd
    <2> QED BY <2>1, <2>2, AddRefines
  <1>7. ASSUME NEW m \in Maps, NEW p \in Pairs, MapReplace(m, p[1], p[2]) PROVE KVStep
    BY <1>7, ReplaceRefines
  <1>8. ASSUME NEW m \in Maps, NEW p \in Pairs, MapReplaceAbsent(m, p[1], p[2])
        PROVE  KVStep
    BY <1>6, <1>8 DEF MapReplaceAbsent
  <1>9. ASSUME NEW m \in Maps, NEW k \in Keys, MapRemove(m, k) PROVE KVStep
    BY <1>9, RemoveRefines
  <1>10. ASSUME NEW m \in Maps, MapSort(m) PROVE KVStep
    BY <1>10, SortRefines
  <1>11. ASSUME NEW m \in Maps, NEW src \in Maps, CombineStart(m, src) PROVE KVStep
    BY <1>11, SameMapsSameContent DEF CombineStart, KVStep
  <1>12. ASSUME NEW m \in Maps, NEW src \in Maps, AssignStart(m, src) PROVE KVStep
    BY <1>12, SameMapsSameContent DEF AssignStart, KVStep
  <1> QED BY <1>1, <1>2, <1>3, <1>4, <1>5, <1>6, <1>7, <1>8, <1>9, <1>10, <1>11,
             <1>12 DEF Next

(* The maps are key-value stores: whatever the order of calls, whichever   *)
(* item of a wally_map_combine or wally_map_assign fails and wherever it   *)
(* stops, no call does to what the maps hold anything but insert,          *)
(* overwrite, delete, erase or copy.                                       *)
THEOREM MapsAreStores == Spec => ImplementsKeyValueStore
  <1>1. Inv /\ [Next]_vars => [KV!KVNext]_Content
    BY NextRefines DEF KVStep
  <1> QED BY <1>1, InitInv, NextInv, InitRefines, PTL
             DEF Spec, ImplementsKeyValueStore, KV!KVSpec

-----------------------------------------------------------------------------
(* The order of keys.                                                      *)

(* The first of the positions where two sequences differ.                  *)
LEMMA FirstDifference ==
    ASSUME NEW n \in Nat, NEW D, D \subseteq 1..n, D # {}
    PROVE  \E i \in D : \A j \in 1..(i - 1) : j \notin D
  <1>1. IsWellFoundedOn(OpToRel(<, Nat), Nat)
    BY NatLessThanWellFounded
  <1>2. D \subseteq Nat
    OBVIOUS
  <1>3. PICK i \in D : \A j \in D : <<j, i>> \notin OpToRel(<, Nat)
    BY <1>1, <1>2, WFMin, Zenon
  <1>4. \A j \in D : ~(j < i)
    BY <1>2, <1>3 DEF OpToRel
  <1>5. i \in Nat
    BY <1>2
  <1> QED BY <1>4, <1>5

LEMMA BytesAreOrdered ==
    ASSUME NEW s \in Seq(Nat), NEW t \in Seq(Nat), s # t
    PROVE  Lexicographic(s, t) \/ Lexicographic(t, s)
  <1> DEFINE n == IF Len(s) < Len(t) THEN Len(s) ELSE Len(t)
             D == {i \in 1..n : s[i] # t[i]}
  <1>1. n \in Nat /\ n <= Len(s) /\ n <= Len(t)
    OBVIOUS
  <1>2. CASE D = {}
    <2>1. \A i \in 1..n : s[i] = t[i]
      BY <1>2
    <2>2. CASE Len(s) < Len(t)
      <3>1. SubSeq(t, 1, Len(s)) = s
        BY <2>1, <2>2
      <3> QED BY <2>2, <3>1 DEF Lexicographic
    <2>3. CASE Len(t) < Len(s)
      <3>1. SubSeq(s, 1, Len(t)) = t
        BY <2>1, <2>3
      <3> QED BY <2>3, <3>1 DEF Lexicographic
    <2>4. CASE Len(s) = Len(t)
      BY <2>1, <2>4, SMTT(30)
    <2> QED BY <2>2, <2>3, <2>4
  <1>3. CASE D # {}
    <2>1. PICK i \in D : \A j \in 1..(i - 1) : j \notin D
      <3> D \subseteq 1..n
        OBVIOUS
      <3> HIDE DEF D
      <3> QED BY <1>1, <1>3, FirstDifference
    <2>2. i \in 1..n /\ s[i] # t[i] /\ \A j \in 1..(i - 1) : s[j] = t[j]
      BY <1>1, <2>1
    <2>3. i \in 1..Len(s) /\ i \in 1..Len(t) /\ s[i] \in Nat /\ t[i] \in Nat
      BY <1>1, <2>2
    <2>4. SubSeq(s, 1, i - 1) = SubSeq(t, 1, i - 1)
      BY <2>2, <2>3
    <2>5. s[i] < t[i] \/ t[i] < s[i]
      BY <2>2, <2>3
    <2> QED BY <2>3, <2>4, <2>5 DEF Lexicographic
  <1> QED BY <1>2, <1>3

LEMMA KeysAreOrdered ==
    ASSUME NEW k \in Keys, NEW l \in Keys, k # l
    PROVE  KeyLess(k, l) \/ KeyLess(l, k)
  <1>1. /\ k.kind \in {"int", "bytes"} /\ l.kind \in {"int", "bytes"}
        /\ k.bytes \in Seq(Nat) /\ l.bytes \in Seq(Nat)
    BY KeysAssumption
  <1>2. CASE k.kind # l.kind
    BY <1>1, <1>2 DEF KeyLess
  <1>3. CASE k.kind = l.kind
    <2>1. k.bytes # l.bytes
      BY <1>3, KeysAssumption
    <2> QED BY <1>1, <1>3, <2>1, BytesAreOrdered DEF KeyLess
  <1> QED BY <1>2, <1>3

(* Arrays with the same keys are equally long.                             *)
LEMMA SameKeysNotLonger ==
    ASSUME NEW a \in Seq(Items), UniqueKeys(a), NEW b \in Seq(Items),
           \A i \in 1..Len(a) : Has(b, a[i].key)
    PROVE  Len(a) <= Len(b)
  <1> SUFFICES ASSUME Len(b) < Len(a) PROVE FALSE
    OBVIOUS
  <1> DEFINE f == [i \in 1..Len(a) |-> CHOOSE j \in 1..Len(b) : b[j].key = a[i].key]
  <1>1. \A i \in 1..Len(a) : f[i] \in 1..Len(b) /\ b[f[i]].key = a[i].key
    BY DEF Has
  <1>2. f \in [1..Len(a) -> 1..Len(b)]
    BY <1>1
  <1> HIDE DEF f
  <1>3. /\ IsFiniteSet(1..Len(a)) /\ IsFiniteSet(1..Len(b))
        /\ Cardinality(1..Len(b)) < Cardinality(1..Len(a))
    <2>1. ASSUME NEW n \in Nat PROVE IsFiniteSet(1..n) /\ Cardinality(1..n) = n
      <3>1. 1 \in Int /\ n \in Int /\ (IF 1 > n THEN 0 ELSE n - 1 + 1) = n
        OBVIOUS
      <3> QED BY <3>1, FS_Interval
    <2>2. Len(a) \in Nat /\ Len(b) \in Nat
      OBVIOUS
    <2> QED BY <2>1, <2>2
  <1>4. PICK x, y \in 1..Len(a) : x # y /\ f[x] = f[y]
    BY <1>2, <1>3, FS_PigeonHole, Zenon
  <1>5. a[x].key = a[y].key
    BY <1>1, <1>4
  <1> QED BY <1>4, <1>5 DEF UniqueKeys

(* Of two sorted arrays with the same keys, the first key in which they    *)
(* differ would be out of place in the one where it comes later.           *)
LEMMA NoFirstDifference ==
    ASSUME NEW a \in Seq(Items), UniqueKeys(a), NEW b \in Seq(Items),
           IsSorted(b), \A i \in 1..Len(a) : Has(b, a[i].key),
           NEW i \in 1..Len(a), i \in 1..Len(b), a[i].key # b[i].key,
           \A j \in 1..(i - 1) : a[j].key = b[j].key
    PROVE  ~KeyLess(a[i].key, b[i].key)
  <1>1. PICK j \in 1..Len(b) : b[j].key = a[i].key
    BY DEF Has
  <1>2. CASE j < i
    <2>1. j \in 1..(i - 1) /\ j \in 1..Len(a)
      BY <1>2
    <2>2. a[j].key = a[i].key
      BY <1>1, <2>1
    <2> QED BY <1>2, <2>1, <2>2 DEF UniqueKeys
  <1>3. CASE j > i
    BY <1>1, <1>3 DEF IsSorted
  <1>4. CASE j = i
    BY <1>1, <1>4
  <1> QED BY <1>2, <1>3, <1>4

LEMMA SortedIsCanonical ==
    ASSUME NEW a \in Seq(Items), UniqueKeys(a), NEW b \in Seq(Items), UniqueKeys(b),
           IsSorted(a), IsSorted(b), KeySet(a) = KeySet(b)
    PROVE  \A i \in 1..Len(a) : a[i].key = b[i].key
  <1>1. /\ \A i \in 1..Len(a) : Has(b, a[i].key)
        /\ \A i \in 1..Len(b) : Has(a, b[i].key)
    BY DEF KeySet, Has
  <1>2. Len(a) = Len(b)
    <2>1. Len(a) <= Len(b) /\ Len(b) <= Len(a)
      BY <1>1, SameKeysNotLonger
    <2> QED BY <2>1
  <1> DEFINE D == {i \in 1..Len(a) : a[i].key # b[i].key}
  <1> SUFFICES ASSUME D # {} PROVE FALSE
    OBVIOUS
  <1>3. PICK i \in D : \A j \in 1..(i - 1) : j \notin D
    <2> Len(a) \in Nat /\ D \subseteq 1..Len(a)
      OBVIOUS
    <2> HIDE DEF D
    <2> QED BY FirstDifference
  <1>4. /\ i \in 1..Len(a) /\ i \in 1..Len(b) /\ a[i].key # b[i].key
        /\ \A j \in 1..(i - 1) : a[j].key = b[j].key
    BY <1>2, <1>3
  <1>5. ~KeyLess(a[i].key, b[i].key)
    BY <1>1, <1>4, NoFirstDifference
  <1>6. ~KeyLess(b[i].key, a[i].key)
    BY <1>1, <1>4, NoFirstDifference
  <1>7. a[i].key \in Keys /\ b[i].key \in Keys
    <2>1. a[i] \in Items /\ b[i] \in Items
      BY <1>4, ElementOfSeq
    <2> QED BY <2>1 DEF Items
  <1> QED BY <1>4, <1>5, <1>6, <1>7, KeysAreOrdered

(* What wally_map_sort makes of a map depends on its keys only, not on the *)
(* order in which they were added or on how qsort goes about it: keys are  *)
(* totally ordered by their kind, bytes and length.                        *)
THEOREM SortingIsCanonical == Spec => SortIsCanonical
  <1> DEFINE Canonical == \A m, n \in Maps :
        /\ maps'[m].items # maps[m].items
        /\ IsSorted(maps'[m].items) /\ IsSorted(maps'[n].items)
        /\ KeySet(maps'[m].items) = KeySet(maps'[n].items)
        => \A i \in 1..Len(maps'[m].items) :
              maps'[m].items[i].key = maps'[n].items[i].key
  <1>1. Inv' => Canonical
    <2> SUFFICES ASSUME Inv', NEW m \in Maps, NEW n \in Maps,
                        IsSorted(maps'[m].items), IsSorted(maps'[n].items),
                        KeySet(maps'[m].items) = KeySet(maps'[n].items)
                 PROVE  \A i \in 1..Len(maps'[m].items) :
                            maps'[m].items[i].key = maps'[n].items[i].key
      OBVIOUS
    <2>1. \A o \in Maps : maps'[o].items \in Seq(Items) /\ UniqueKeys(maps'[o].items)
      BY DEF Inv, TypeOK, NoDuplicateKeys, MapRec, UniqueKeys
    <2> QED BY <2>1, SortedIsCanonical
  <1>2. Inv /\ [Next]_vars => [Canonical]_vars
    BY <1>1, NextInv
  <1> QED BY <1>2, InitInv, NextInv, PTL DEF Spec, SortIsCanonical
=============================================================================
