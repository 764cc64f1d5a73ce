------------------------------- MODULE TxLog -------------------------------
(***************************************************************************)
(* The transaction log of src/txlog.c as operators on a sequence of        *)
(* entries.  A log file is a header followed by tx_count fixed-size        *)
(* entries; the sequence is those entries, in file order, and its length   *)
(* is tx_count.  An entry is a record with at least the fields type and    *)
(* tid; a worker's entries also carry the old contents of its store.       *)
(* Entry i of the file (counted from 0) is element i+1 of the sequence.    *)
(***************************************************************************)
EXTENDS Naturals, Sequences

(* enum logEntryType.                                                      *)
LogEntryType == {"LOG_BEGIN", "LOG_COMMIT", "LOG_ABORT", "LOG_PREPARED",
                 "LOG_UPDATE"}

(* txentry_init for the entries that hold no object values.                *)
txentry_init(type, tid) == [type |-> type, tid |-> tid]

(* Mutant: the count in the header is not increased.                       *)
txlog_append_NotCounted(log, entry) == log

(* txlog_append: written at the offset given by tx_count, then counted.    *)
(* The write is made durable (fsync) before the count (msync), so a crash  *)
(* between the two leaves the log without the entry.                       *)
txlog_append(log, entry) == Append(log, entry)

(* Mutant: the id of a decided transaction is taken to be free again.      *)
txlog_free_id_Undecided(log, id) ==
    \A i \in 1..Len(log) :
        log[i].tid = id => \E j \in 1..Len(log) : j # i /\ log[j].tid = id

(* txlog_free_id: no entry of the log mentions the transaction id.         *)
txlog_free_id(log, id) == \A i \in 1..Len(log) : log[i].tid # id

(* txlog_last_tx as a relation: i is the position of the most recent entry *)
(* of transaction id.  The function returns false when there is none.      *)
txlog_last_tx(log, id, i) ==
    /\ i \in 1..Len(log)
    /\ log[i].tid = id
    /\ \A j \in 1..Len(log) : j > i => log[j].tid # id

(* Transaction id has an entry of the given type.                          *)
Logged(log, type, id) ==
    \E i \in 1..Len(log) : log[i].type = type /\ log[i].tid = id
=============================================================================
