--------------------------- MODULE KeyValueStore ---------------------------
(***************************************************************************)
(* What a set of wally_map objects promises its callers, with nothing said *)
(* of how items are held: every map is a partial function from keys to     *)
(* values.  A key is written once and keeps its value until it is          *)
(* overwritten on purpose or deleted, and one map replaces another in a    *)
(* single step or not at all.                                              *)
(***************************************************************************)
CONSTANTS Maps, Keys, Values, Absent    \* Absent is not one of Values

VARIABLE store      \* store[m][k]: the value of key k in map m, or Absent

KVTypeOK == store \in [Maps -> [Keys -> Values \cup {Absent}]]

Empty == [k \in Keys |-> Absent]

KVInit == store = [m \in Maps |-> Empty]

(* A key that is already present is left alone.                            *)
Insert(m, k, v) ==
    /\ store[m][k] = Absent
    /\ store' = [store EXCEPT ![m][k] = v]

Overwrite(m, k, v) ==
    /\ store[m][k] # Absent
    /\ store' = [store EXCEPT ![m][k] = v]

Delete(m, k) == store' = [store EXCEPT ![m][k] = Absent]

Erase(m) == store' = [store EXCEPT ![m] = Empty]

CopyFrom(m, src) == store' = [store EXCEPT ![m] = store[src]]

KVNext ==
    \E m \in Maps :
        \/ \E k \in Keys, v \in Values : Insert(m, k, v) \/ Overwrite(m, k, v)
        \/ \E k \in Keys : Delete(m, k)
        \/ Erase(m)
        \/ \E src \in Maps : CopyFrom(m, src)

KVSpec == KVInit /\ [][KVNext]_store
=============================================================================
