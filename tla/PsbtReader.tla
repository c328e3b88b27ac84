----------------------------- MODULE PsbtReader -----------------------------
(***************************************************************************)
(* wally_psbt_from_bytes reading a stream from anywhere: the writer may    *)
(* put any known record next, end the map, or go on behind the last one.   *)
(***************************************************************************)
EXTENDS PsbtFormat

CONSTANT Records     \* Records[section]: the records a writer may put there

(* What the length checks and the lookup of the field leave of a record.   *)
ASSUME RecordsAssumption ==
    /\ \A r \in Records["global"] :
        /\ r.field \in {"UNSIGNED_TX", "VERSION", "TX_VERSION", "FALLBACK_LOCKTIME",
                        "INPUT_COUNT", "OUTPUT_COUNT", "TX_MODIFIABLE"}
        /\ r.field = "UNSIGNED_TX" =>
            r.value # None /\ Len(r.value.inputs) \in Nat /\ Len(r.value.outputs) \in Nat
        /\ r.field \in {"INPUT_COUNT", "OUTPUT_COUNT"} => r.value \in Nat
    /\ \A r \in Records["input"] :
        /\ r.field \in {"PREVIOUS_TXID", "OUTPUT_INDEX", "SEQUENCE",
                        "REQUIRED_TIME_LOCKTIME", "REQUIRED_HEIGHT_LOCKTIME",
                        "SIGHASH_TYPE", "WITNESS_UTXO", "WITNESS_SCRIPT",
                        "FINAL_SCRIPTWITNESS"} \cup HaveKeydata
        /\ r.field \in HaveKeydata => r.key \in Keys
        /\ r.field = "PARTIAL_SIG" => r.value # None
    /\ \A r \in Records["output"] :
        /\ r.field \in {"AMOUNT", "SCRIPT"}
        /\ r.field = "AMOUNT" => r.value # None

VARIABLES reader,
          loose      \* WALLY_PSBT_PARSE_FLAG_LOOSE is given
readerVars == <<reader, loose>>

Reading == reader.section \notin {"refused", "end"}

ReaderInit == reader = StartReading /\ loose \in BOOLEAN

Put(r) ==
    /\ Reading
    /\ reader' = ReadRecord(reader, r)
    /\ UNCHANGED loose

Separator ==
    /\ Reading
    /\ reader' = EndMap(reader, loose)
    /\ UNCHANGED loose

Trail ==
    /\ reader.section = "end" /\ ~reader.trailing
    /\ reader' = ReadMap(reader, <<>>, loose)
    /\ UNCHANGED loose

ReaderNext ==
    \/ Reading /\ \E r \in Records[reader.section] : Put(r)
    \/ Separator
    \/ Trail
ReaderSpec == ReaderInit /\ [][ReaderNext]_readerVars

-----------------------------------------------------------------------------
Read(complete) == Finished(reader, complete)

(* A transaction belongs to version 0.  A reader that gets one and the     *)
(* version 2 refuses in one order and is loosely content in the other.     *)
Contradict(r1, r2) ==
    /\ r1.field = "UNSIGNED_TX" \/ r2.field = "UNSIGNED_TX"
    /\ r1.field = "VERSION" \/ r2.field = "VERSION"

(* The order of the records of a map counts for nothing: any two that may  *)
(* come next may come in either order, and the map, when it ends there, is *)
(* taken for the same.                                                     *)
RecordsCommute ==
    Reading => \A r1, r2 \in Records[reader.section] :
        Contradict(r1, r2) \/
            EndMap(ReadRecord(ReadRecord(reader, r1), r2), loose)
                = EndMap(ReadRecord(ReadRecord(reader, r2), r1), loose)

(* What is read without the flag LOOSE is a PSBT as the calls of the       *)
(* interface make it: it passes psbt_is_valid, no signature contradicts    *)
(* the sighash of its input, a version 2 PSBT can be written again unless  *)
(* it was given a txid of zeros or an empty script, and a version 0 PSBT   *)
(* keeps in its inputs nothing that is of its transaction.                 *)
Anonymous(p) ==
    \/ \E n \in 1..Len(p.inputs) : p.inputs[n].txid = None
    \/ \E n \in 1..Len(p.outputs) : p.outputs[n].script = None
StrictIsSound ==
    LET p == Read(FALSE)
    IN p # None /\ ~loose =>
        /\ IsValid(p) /\ Consistent(p)
        /\ CanSerialize(p) \/ (p.version = 2 /\ Anonymous(p))
        /\ p.version = 0 => WrittenPart(p, TRUE) = p

(* A PSBT that was read is written and read again as it was, but for what  *)
(* a finalized input gives up: no field is lost, none takes another's      *)
(* place, and what a strict reader took, any reader takes again.           *)
WrittenIsReadBack ==
    LET p == Read(FALSE)
    IN p # None => \A redundant \in BOOLEAN : RoundTrips(p, redundant)
=============================================================================
