------------------------------ MODULE WallyMap ------------------------------
(***************************************************************************)
(* struct wally_map (src/map.c): an array of key/value items in insertion  *)
(* order, searched linearly, with an optional function that verifies items *)
(* before they are stored.  Every PSBT input and output and the signing    *)
(* cache are made of these maps.                                           *)
(*                                                                         *)
(* A key is either an integer or a byte string; both are a tagged sequence *)
(* here (an integer key is the sequence of its one value).  wally_map      *)
(* calls are sequential, but wally_map_combine and wally_map_assign loop   *)
(* over the source map and any item can fail, by verification or by an     *)
(* allocation: their loop is a job of one step per item.                   *)
(***************************************************************************)
EXTENDS Naturals, Sequences

CONSTANTS
    Maps,        \* the struct wally_map objects
    Keys,        \* the keys callers use
    Values,      \* the values callers use
    Pairs,       \* the <<key, value>> pairs callers store
    Verified,    \* those of them that the verify function accepts
    None,        \* no job is running
    MaxItems     \* bound on the items callers add to one map

IntKey(n)   == [kind |-> "int", bytes |-> <<n>>]
ByteKey(bs) == [kind |-> "bytes", bytes |-> bs]

ASSUME KeysAssumption ==
    Keys \subseteq [kind : {"int", "bytes"}, bytes : Seq(Nat)]
ASSUME PairsAssumption ==
    Verified \subseteq Pairs /\ Pairs \subseteq Keys \X Values
ASSUME NoneAssumption == None \notin Values
ASSUME MaxItemsAssumption == MaxItems \in Nat \ {0}

VARIABLES
    maps,   \* maps[m]: the items of map m and whether it has a verify_fn
    job,    \* the running wally_map_combine or wally_map_assign, or None
    tmp,    \* the local `result` map of wally_map_assign
    ret     \* the return code of the last call

vars == <<maps, job, tmp, ret>>

Items  == [key : Keys, value : Values]
MapRec == [items : Seq(Items), verify : BOOLEAN]
JobRec == [op : {"combine", "assign"}, dst : Maps, src : Maps, next : Nat \ {0}]

ASSUME NoneIsNoJob == None \notin JobRec

EmptyMap(v) == [items |-> <<>>, verify |-> v]
Item(k, v)  == [key |-> k, value |-> v]

TypeOK ==
    /\ maps \in [Maps -> MapRec]
    /\ job \in JobRec \cup {None}
    /\ tmp \in MapRec
    /\ ret \in {"OK", "EINVAL", "ENOMEM"}

-----------------------------------------------------------------------------
(* map_find: the positions of a key; the code returns the first of them.   *)
Find(items, k) == {i \in 1..Len(items) : items[i].key = k}
HasExceptLast(items, k) == \E i \in 1..(Len(items) - 1) : items[i].key = k
Has(items, k)  == \E i \in 1..Len(items) : items[i].key = k

KeySet(items) == {items[i].key : i \in 1..Len(items)}

VerifyFails(m, k, v) == m.verify /\ <<k, v>> \notin Verified

AddOutcomeUnverified(m, k, v, ignoreDups, new, r) ==
    \/ /\ Has(m.items, k)
       /\ new = m /\ r = IF ignoreDups THEN "OK" ELSE "EINVAL"
    \/ /\ ~Has(m.items, k)
       /\ new = [m EXCEPT !.items = Append(@, Item(k, v))] /\ r = "OK"

(* What map_add may make of map m, as a relation of the new map and the    *)
(* return code.  An allocation may fail whenever something would be added. *)
AddOutcome(m, k, v, ignoreDups, new, r) ==
    \/ VerifyFails(m, k, v) /\ new = m /\ r = "EINVAL"
    \/ /\ ~VerifyFails(m, k, v) /\ Has(m.items, k)
       /\ new = m /\ r = IF ignoreDups THEN "OK" ELSE "EINVAL"
    \/ /\ ~VerifyFails(m, k, v) /\ ~Has(m.items, k)
       /\ \/ new = [m EXCEPT !.items = Append(@, Item(k, v))] /\ r = "OK"
          \/ new = m /\ r = "ENOMEM"

WithoutGap(items, i) == [items EXCEPT ![i].value = None]

(* map_remove: memmove closes the gap.                                     *)
Without(items, i) ==
    [j \in 1..(Len(items) - 1) |-> IF j < i THEN items[j] ELSE items[j + 1]]

(* map_item_compare: integers first; bytes in memcmp order, then shorter.  *)
Lexicographic(s, t) ==
    \/ Len(s) < Len(t) /\ SubSeq(t, 1, Len(s)) = s
    \/ \E i \in 1..Len(s) :
        /\ i <= Len(t) /\ s[i] < t[i]
        /\ SubSeq(s, 1, i - 1) = SubSeq(t, 1, i - 1)

KeyLessNoTieBreak(k, l) ==
    \/ k.kind = "int" /\ l.kind = "bytes"
    \/ k.kind = l.kind /\ \E i \in 1..Len(k.bytes) :
        /\ i <= Len(l.bytes) /\ k.bytes[i] < l.bytes[i]
        /\ SubSeq(k.bytes, 1, i - 1) = SubSeq(l.bytes, 1, i - 1)

KeyLess(k, l) ==
    \/ k.kind = "int" /\ l.kind = "bytes"
    \/ k.kind = l.kind /\ Lexicographic(k.bytes, l.bytes)

IsSorted(items) ==
    \A i, j \in 1..Len(items) : i < j => ~KeyLess(items[j].key, items[i].key)

Permuted(items, p) == [i \in 1..Len(items) |-> items[p[i]]]
Permutation(n) ==
    {p \in [1..n -> 1..n] : \A i, j \in 1..n : p[i] = p[j] => i = j}

-----------------------------------------------------------------------------
Init ==
    /\ maps \in [Maps -> {EmptyMap(TRUE), EmptyMap(FALSE)}]
    /\ job = None
    /\ tmp = EmptyMap(FALSE)
    /\ ret = "OK"

(* wally_map_init on a map that holds nothing.                             *)
MapInit(m, v) ==
    /\ job = None /\ maps[m].items = <<>>
    /\ maps' = [maps EXCEPT ![m] = EmptyMap(v)]
    /\ ret' = "OK"
    /\ UNCHANGED <<job, tmp>>

(* wally_map_clear: wally_clear wipes the struct, verify_fn included.      *)
MapClear(m) ==
    /\ job = None
    /\ maps' = [maps EXCEPT ![m] = EmptyMap(FALSE)]
    /\ ret' = "OK"
    /\ UNCHANGED <<job, tmp>>

(* wally_map_add ignores duplicates; the PSBT readers call map_add with    *)
(* ignore_dups false, so that a duplicate key is an error.                 *)
MapAdd(m, k, v, ignoreDups) ==
    /\ job = None
    /\ Len(maps[m].items) < MaxItems
    /\ \E new \in {maps[m], [maps[m] EXCEPT !.items = Append(@, Item(k, v))]} :
        /\ AddOutcome(maps[m], k, v, ignoreDups, new, ret')
        /\ maps' = [maps EXCEPT ![m] = new]
    /\ UNCHANGED <<job, tmp>>

MapRemove(m, k) ==
    /\ job = None
    /\ maps' = IF Has(maps[m].items, k)
               THEN LET i == CHOOSE i \in Find(maps[m].items, k) :
                                 \A j \in Find(maps[m].items, k) : i <= j
                    IN [maps EXCEPT ![m].items = Without(@, i)]
               ELSE maps
    /\ ret' = "OK"
    /\ UNCHANGED <<job, tmp>>

(* wally_map_replace of a key that is present: replace_bytes, without a    *)
(* call of verify_fn.                                                      *)
MapReplace(m, k, v) ==
    /\ job = None
    /\ \E i \in Find(maps[m].items, k) :
        /\ \A j \in Find(maps[m].items, k) : i <= j
        /\ \/ /\ maps' = [maps EXCEPT ![m].items[i].value = v]
              /\ ret' = "OK"
           \/ /\ maps' = maps
              /\ ret' = "ENOMEM"
    /\ UNCHANGED <<job, tmp>>

(* wally_map_replace of a key that is absent adds it.                      *)
MapReplaceAbsent(m, k, v) == ~Has(maps[m].items, k) /\ MapAdd(m, k, v, TRUE)

MapSort(m) ==
    /\ job = None
    /\ \E p \in Permutation(Len(maps[m].items)) :
        /\ IsSorted(Permuted(maps[m].items, p))
        /\ maps' = [maps EXCEPT ![m].items = Permuted(@, p)]
    /\ ret' = "OK"
    /\ UNCHANGED <<job, tmp>>

(* wally_map_combine(m, src) and wally_map_assign(m, src); both return at  *)
(* once when m is src.  assign fills a fresh map with m's verify_fn.       *)
CombineStart(m, src) ==
    /\ job = None /\ m # src
    /\ job' = [op |-> "combine", dst |-> m, src |-> src, next |-> 1]
    /\ ret' = "OK"
    /\ UNCHANGED <<maps, tmp>>

AssignStart(m, src) ==
    /\ job = None /\ m # src
    /\ job' = [op |-> "assign", dst |-> m, src |-> src, next |-> 1]
    /\ tmp' = EmptyMap(maps[m].verify)
    /\ ret' = "OK"
    /\ UNCHANGED maps

(* The map the loop of wally_map_combine adds to.                          *)
Target == IF job.op = "combine" THEN maps[job.dst] ELSE tmp

JobItemSkipsFailed ==
    /\ job # None /\ job.next <= Len(maps[job.src].items)
    /\ LET item == maps[job.src].items[job.next]
           added == [Target EXCEPT !.items = Append(@, item)]
       IN \E new \in {Target, added}, r \in {"OK", "EINVAL", "ENOMEM"} :
            /\ AddOutcome(Target, item.key, item.value, TRUE, new, r)
            /\ ret' = "OK"
            /\ job' = [job EXCEPT !.next = @ + 1]
            /\ IF job.op = "combine"
               THEN maps' = [maps EXCEPT ![job.dst] = new] /\ tmp' = tmp
               ELSE maps' = maps /\ tmp' = new

JobItemOverwrites ==
    /\ job # None /\ job.next <= Len(maps[job.src].items)
    /\ LET item == maps[job.src].items[job.next]
           kept == SelectSeq(Target.items, LAMBDA x : x.key # item.key)
           new == [Target EXCEPT !.items = Append(kept, item)]
       IN IF job.op = "combine"
          THEN maps' = [maps EXCEPT ![job.dst] = new] /\ tmp' = tmp
          ELSE maps' = maps /\ tmp' = new
    /\ ret' = "OK"
    /\ job' = [job EXCEPT !.next = @ + 1]

JobItemKeepsPartial ==
    /\ job # None /\ job.next <= Len(maps[job.src].items)
    /\ LET item == maps[job.src].items[job.next]
           added == [Target EXCEPT !.items = Append(@, item)]
       IN \E new \in {Target, added}, r \in {"OK", "EINVAL", "ENOMEM"} :
            /\ AddOutcome(Target, item.key, item.value, TRUE, new, r)
            /\ ret' = r
            /\ job' = IF r = "OK" THEN [job EXCEPT !.next = @ + 1] ELSE None
            /\ IF job.op = "combine" \/ r # "OK"
               THEN maps' = [maps EXCEPT ![job.dst] = new] /\ tmp' = tmp
               ELSE maps' = maps /\ tmp' = new

(* One iteration of the loop in wally_map_combine.  An item that fails     *)
(* ends it: combine keeps what it added, assign throws its result away.    *)
JobItem ==
    /\ job # None /\ job.next <= Len(maps[job.src].items)
    /\ LET item == maps[job.src].items[job.next]
           added == [Target EXCEPT !.items = Append(@, item)]
       IN \E new \in {Target, added}, r \in {"OK", "EINVAL", "ENOMEM"} :
            /\ AddOutcome(Target, item.key, item.value, TRUE, new, r)
            /\ ret' = r
            /\ job' = IF r = "OK" THEN [job EXCEPT !.next = @ + 1] ELSE None
            /\ IF job.op = "combine"
               THEN maps' = [maps EXCEPT ![job.dst] = new] /\ tmp' = tmp
               ELSE /\ maps' = maps
                    /\ tmp' = IF r = "OK" THEN new ELSE EmptyMap(FALSE)

(* The loop is over.  wally_map_assign moves its result into the map.      *)
JobDone ==
    /\ job # None /\ job.next > Len(maps[job.src].items)
    /\ ret' = "OK"
    /\ job' = None
    /\ IF job.op = "combine"
       THEN UNCHANGED <<maps, tmp>>
       ELSE maps' = [maps EXCEPT ![job.dst] = tmp] /\ tmp' = EmptyMap(FALSE)

Next ==
    \/ \E m \in Maps :
        \/ \E v \in BOOLEAN : MapInit(m, v)
        \/ MapClear(m)
        \/ \E p \in Pairs :
            \/ \E ignoreDups \in BOOLEAN : MapAdd(m, p[1], p[2], ignoreDups)
            \/ MapReplace(m, p[1], p[2])
            \/ MapReplaceAbsent(m, p[1], p[2])
        \/ \E k \in Keys : MapRemove(m, k)
        \/ MapSort(m)
        \/ \E src \in Maps : CombineStart(m, src) \/ AssignStart(m, src)
    \/ JobItem
    \/ JobDone

Spec == Init /\ [][Next]_vars

-----------------------------------------------------------------------------
UniqueKeys(items) ==
    \A i, j \in 1..Len(items) : items[i].key = items[j].key => i = j

(* Whatever the order of adds, replaces, sorts, combines and assigns, no   *)
(* map ever holds the same key twice: map_find returns the only match.     *)
NoDuplicateKeys == \A m \in Maps : UniqueKeys(maps[m].items)

(* wally_map_combine never changes or moves an item its destination        *)
(* already has, even when it stops half way: it only appends.              *)
CombineOnlyAppends ==
    [][\A m \in Maps : job # None /\ job.op = "combine" =>
            /\ Len(maps[m].items) <= Len(maps'[m].items)
            /\ \A i \in 1..Len(maps[m].items) :
                    maps'[m].items[i] = maps[m].items[i]
            /\ maps'[m].verify = maps[m].verify]_vars

(* A wally_map_combine that returns WALLY_OK has put every key of the      *)
(* source in the destination.                                              *)
CombineIsComplete ==
    [][job # None /\ job' = None /\ job.op = "combine" /\ ret' = "OK" =>
            \A i \in 1..Len(maps[job.src].items) :
                Has(maps'[job.dst].items, maps[job.src].items[i].key)]_vars

(* Sorting is canonical: whatever the order two maps were filled in, once  *)
(* both are sorted the same set of keys is in the same order.              *)
SortIsCanonical ==
    [][\A m, n \in Maps :
            /\ maps'[m].items # maps[m].items
            /\ IsSorted(maps'[m].items) /\ IsSorted(maps'[n].items)
            /\ KeySet(maps'[m].items) = KeySet(maps'[n].items)
            => \A i \in 1..Len(maps'[m].items) :
                  maps'[m].items[i].key = maps'[n].items[i].key]_vars

(* A map with a verify_fn takes over another map only if every item of it  *)
(* verifies, whatever the source map did or did not check.                 *)
AssignVerifiesAll ==
    [][\A m \in Maps :
            /\ job # None /\ job.op = "assign"
            /\ maps'[m].verify /\ maps'[m] # maps[m]
            => \A i \in 1..Len(maps'[m].items) :
                  ~VerifyFails(maps'[m], maps'[m].items[i].key,
                               maps'[m].items[i].value)]_vars

-----------------------------------------------------------------------------
(* The abstract content of the maps, and the promise that they implement.  *)
Lookup(items, k) ==
    IF Has(items, k)
    THEN items[CHOOSE i \in 1..Len(items) : items[i].key = k].value
    ELSE None

Content == [m \in Maps |-> [k \in Keys |-> Lookup(maps[m].items, k)]]

KV == INSTANCE KeyValueStore WITH store <- Content, Absent <- None

(* The maps implement the key-value stores: a combine is a series of       *)
(* single inserts, an assign is one step however many items fail.          *)
ImplementsKeyValueStore == KV!KVSpec
=============================================================================
