------------------------------ MODULE Rollback ------------------------------
(***************************************************************************)
(* What update_rollback of src/tworker.c computes, as operators on the log *)
(* and the store of a worker.  TWorker takes a rollback as one step;       *)
(* WorkerThreads takes it entry by entry, and these operators are its      *)
(* reference.                                                              *)
(***************************************************************************)
EXTENDS TxLog, FiniteSetsExt

MarkType == {"LOG_BEGIN", "LOG_ABORT", "LOG_COMMIT"}

(* The entry at which update_rollback stops, 0 if it reads the whole log.  *)
StopsAt(log) ==
    Max({0} \cup {i \in 1..Len(log) : log[i].type \in MarkType})

(* The update entries that update_rollback meets before it stops.          *)
Undone(log) ==
    {i \in (StopsAt(log) + 1)..Len(log) : log[i].type = "LOG_UPDATE"}

(* Mutant: the newest update entry has the last word.                      *)
RolledBackStore_Newest(log, st) ==
    IF Undone(log) = {} THEN st ELSE log[Max(Undone(log))].old

(* From the newest entry back, each update entry puts its old values in    *)
(* the store, so the oldest one has the last word.                         *)
RolledBackStore(log, st) ==
    IF Undone(log) = {} THEN st ELSE log[Min(Undone(log))].old
=============================================================================
