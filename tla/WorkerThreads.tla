--------------------------- MODULE WorkerThreads ---------------------------
(***************************************************************************)
(* The two threads of one worker, statement by statement where they touch  *)
(* what they share: wstate, the store, and the log with its header and its *)
(* file offset (src/tworker.c, src/tx_worker_thread.c, src/txlog.c).       *)
(* TWorker takes a handler as one step; here a crash, or the other thread, *)
(* can come between any two accesses.                                      *)
(*                                                                         *)
(* Simplifications.  The store is one value, written in one step.  Reads   *)
(* that follow one another are one step.  The manager is an environment    *)
(* that keeps what TManagerSpec promises: it decides once, and commits a   *)
(* transaction that the worker takes part in only with its vote.  Commands *)
(* that are only passed on to the manager are left out; a PREPARE may come *)
(* as soon as the manager has let the worker in, because any participant   *)
(* may ask for the commit.  A transaction is entered once.  wstate is zero *)
(* when main starts.                                                       *)
(*                                                                         *)
(* The code has no lock and does not check what the client sends, so its   *)
(* guarantees rest on two assumptions, each a constant: Serial and         *)
(* PatientClient.                                                          *)
(***************************************************************************)
EXTENDS Rollback

CONSTANTS
    Tid,            \* transaction ids
    Value,          \* what the store may hold
    InitValue,      \* what a new store holds
    Serial,         \* does each thread wait while the other one is busy?
    PatientClient,  \* does the client leave the worker alone until the manager
                    \* has let it in, and once it has voted?
    MaxEntries      \* bound: no begin, update or abort with a longer log

ASSUME WorkerThreadsAssumption ==
    /\ Tid \subseteq Nat
    /\ InitValue \in Value
    /\ Serial \in BOOLEAN /\ PatientClient \in BOOLEAN
    /\ MaxEntries \in Nat

VARIABLES
    file,    \* the entries in the log file
    count,   \* header->tx_count
    offset,  \* the file offset, which the threads share, in entries
    store,   \* the object store
    wstate,  \* the fields of worker_state_t that the threads share
    local,   \* local[th]: where thread th is, and its local variables
    ballot,  \* ballot[t]: what the manager and the worker have said about t
    mark     \* history: the store without the updates of an open transaction

logVars    == <<file, count, offset>>
threadVars == <<logVars, store, wstate, local, ballot, mark>>

Thread == {"main", "tx"}

(* Labels.  "a_": inside txlog_append.  "r_": inside update_rollback.      *)
AppendPC   == {"a_count", "a_seek", "a_write", "a_load", "a_store"}
RollbackPC == {"r_seek", "r_read", "r_apply"}
MainPC     == {"down", "idle", "send", "set", "flags"}
TxPC       == {"none", "recv", "uncertain", "vote_prepared", "vote_abort",
               "voted", "conclude", "closing"}

Entry == [type : LogEntryType \cup {"ZERO"}, tid : Tid \cup {0}, old : Value]

ZeroEntry == [type |-> "ZERO", tid |-> 0, old |-> InitValue]

LocalState ==
    [pc : AppendPC \cup RollbackPC \cup MainPC \cup TxPC,
     ret : MainPC \cup TxPC,   \* where append and rollback return to
     entry : Entry,            \* the entry to append, or the one just read
     pos : Nat,                \* offset, tx_count or idx
     value : Value]            \* the value of an update command

(* The worker has asked to take part; the manager has let it in; the       *)
(* worker's vote; what the manager has answered in the end.                *)
Ballot == [joined : BOOLEAN, admitted : BOOLEAN,
           vote : {"none", "PREPARED", "ABORT"},
           outcome : {"none", "COMMIT", "ABORT", "TX_ERROR"}]

ThreadsTypeOK ==
    /\ file \in Seq(Entry)
    /\ count \in Nat /\ offset \in Nat
    /\ store \in Value /\ mark \in Value
    /\ wstate \in [is_active : BOOLEAN, uncertain : BOOLEAN,
                   do_commit : BOOLEAN, do_abort : BOOLEAN,
                   transaction : Tid \cup {0}]
    /\ local \in [Thread -> LocalState]
    /\ ballot \in [Tid -> Ballot]

(* The log as a reader sees it: tx_count entries, zero where nothing has   *)
(* been written.                                                           *)
Log == [i \in 1..count |-> IF i <= Len(file) THEN file[i] ELSE ZeroEntry]

NoState == [is_active |-> FALSE, uncertain |-> FALSE, do_commit |-> FALSE,
            do_abort |-> FALSE, transaction |-> 0]

At(l) == [pc |-> l, ret |-> "idle", entry |-> ZeroEntry, pos |-> 0,
          value |-> InitValue]

NotRunning == [th \in Thread |-> IF th = "main" THEN At("down") ELSE At("none")]

ThreadsInit ==
    /\ file = <<>> /\ count = 0 /\ offset = 0
    /\ store = InitValue /\ mark = InitValue
    /\ wstate = NoState
    /\ local = NotRunning
    /\ ballot = [t \in Tid |-> [joined |-> FALSE, admitted |-> FALSE,
                                vote |-> "none", outcome |-> "none"]]

-----------------------------------------------------------------------------
(* Control.                                                                *)

Goes(th, from, to) ==
    local[th].pc = from /\ local' = [local EXCEPT ![th].pc = to]

(* A call of txlog_append for entry e, and of update_rollback; control     *)
(* returns to ret.  The entry of update_rollback is not initialised.       *)
Appends(th, e, ret) ==
    local' = [local EXCEPT ![th] = [@ EXCEPT !.pc = "a_count", !.entry = e,
                                             !.ret = ret]]
RollsBack(th, ret) ==
    local' = [local EXCEPT ![th] = [@ EXCEPT !.pc = "r_seek", !.pos = count,
                                    !.entry = ZeroEntry, !.ret = ret]]

EntryOf(type, t) == [type |-> type, tid |-> t, old |-> InitValue]

(* The other thread is not in the middle of anything.                      *)
MainMayStart == Serial => local["tx"].pc \in {"none", "recv", "uncertain"}
TxMayStart   == Serial => local["main"].pc = "idle"

-----------------------------------------------------------------------------
(* txlog_append.                                                           *)

(* Mutant: the offset of the last entry, not of the one after it.          *)
AppendReadsCount_Last(th) ==
    /\ local[th].pc = "a_count"
    /\ local' = [local EXCEPT ![th] = [@ EXCEPT !.pc = "a_seek",
                               !.pos = IF count = 0 THEN 0 ELSE count - 1]]
    /\ UNCHANGED <<logVars, store, wstate, ballot, mark>>

(* Mutant: the offset does not allow for the header of the file.           *)
AppendReadsCount_NoHeader(th) ==
    /\ local[th].pc = "a_count"
    /\ local' = [local EXCEPT ![th] = [@ EXCEPT !.pc = "a_seek", !.pos = count - 1]]
    /\ UNCHANGED <<logVars, store, wstate, ballot, mark>>

(* off_t offset = ... tx_count ...                                         *)
AppendReadsCount(th) ==
    /\ local[th].pc = "a_count"
    /\ local' = [local EXCEPT ![th] = [@ EXCEPT !.pc = "a_seek", !.pos = count]]
    /\ UNCHANGED <<logVars, store, wstate, ballot, mark>>

AppendSeeks(th) ==
    /\ Goes(th, "a_seek", "a_write")
    /\ offset' = local[th].pos
    /\ UNCHANGED <<file, count, store, wstate, ballot, mark>>

(* write at the shared offset; a gap before it reads as zeros.             *)
AppendWrites(th) ==
    /\ Goes(th, "a_write", "a_load")
    /\ file' = [i \in 1..Max({Len(file), offset + 1}) |->
                   IF i = offset + 1 THEN local[th].entry
                   ELSE IF i <= Len(file) THEN file[i] ELSE ZeroEntry]
    /\ offset' = offset + 1
    /\ UNCHANGED <<count, store, wstate, ballot, mark>>

(* tx_count++ is a load and a store.                                       *)
AppendLoadsCount(th) ==
    /\ local[th].pc = "a_load"
    /\ local' = [local EXCEPT ![th] = [@ EXCEPT !.pc = "a_store", !.pos = count]]
    /\ UNCHANGED <<logVars, store, wstate, ballot, mark>>

AppendStoresCount(th) ==
    /\ Goes(th, "a_store", local[th].ret)
    /\ count' = local[th].pos + 1
    /\ mark' = IF local[th].entry.type = "LOG_COMMIT" THEN store ELSE mark
    /\ UNCHANGED <<file, offset, store, wstate, ballot>>

-----------------------------------------------------------------------------
(* update_rollback; pos is idx + 1.                                        *)

(* When the loop has read the whole log, no abort is logged.               *)
RollbackSeeks(th) ==
    /\ Goes(th, "r_seek", IF local[th].pos > 0 THEN "r_read" ELSE local[th].ret)
    /\ offset' = IF local[th].pos > 0 THEN local[th].pos - 1 ELSE offset
    /\ UNCHANGED <<file, count, store, wstate, ballot, mark>>

(* read past the end of the file leaves the entry as it was.               *)
RollbackReads(th) ==
    /\ local[th].pc = "r_read"
    /\ local' = [local EXCEPT ![th] = [@ EXCEPT !.pc = "r_apply",
                    !.entry = IF offset < Len(file) THEN file[offset + 1]
                              ELSE local[th].entry]]
    /\ offset' = IF offset < Len(file) THEN offset + 1 ELSE offset
    /\ UNCHANGED <<file, count, store, wstate, ballot, mark>>

RollbackApplies(th) ==
    LET e == local[th].entry
    IN  /\ local[th].pc = "r_apply"
        /\ store' = IF e.type = "LOG_UPDATE" THEN e.old ELSE store
        /\ IF e.type \in MarkType
             THEN Appends(th, EntryOf("LOG_ABORT", e.tid), local[th].ret)
             ELSE local' = [local EXCEPT ![th] = [@ EXCEPT !.pc = "r_seek",
                                                     !.pos = local[th].pos - 1]]
        /\ UNCHANGED <<logVars, wstate, ballot, mark>>

LogStep(th) ==
    \/ AppendReadsCount(th) \/ AppendSeeks(th) \/ AppendWrites(th)
    \/ AppendLoadsCount(th) \/ AppendStoresCount(th)
    \/ RollbackSeeks(th) \/ RollbackReads(th) \/ RollbackApplies(th)

-----------------------------------------------------------------------------
(* Starting and dying.                                                     *)

LastType == IF count = 0 THEN "ZERO" ELSE Log[count].type

(* main before its loop: the last entry decides.                           *)
StartsUncertain ==
    /\ local["main"].pc = "down" /\ LastType = "LOG_PREPARED"
    /\ wstate' = [is_active |-> TRUE, uncertain |-> TRUE, do_commit |-> TRUE,
                  do_abort |-> FALSE, transaction |-> Log[count].tid]
    /\ local' = [th \in Thread |-> IF th = "main" THEN At("idle")
                                                  ELSE At("uncertain")]
    /\ UNCHANGED <<logVars, store, ballot, mark>>

StartsWithRollback ==
    /\ local["main"].pc = "down" /\ LastType = "LOG_UPDATE"
    /\ RollsBack("main", "idle")
    /\ UNCHANGED <<logVars, store, wstate, ballot, mark>>

StartsClean ==
    /\ LastType \notin {"LOG_PREPARED", "LOG_UPDATE"}
    /\ Goes("main", "down", "idle")
    /\ UNCHANGED <<logVars, store, wstate, ballot, mark>>

(* The process ends, anywhere.  The files keep what was written.           *)
ProcessCrashes ==
    /\ local["main"].pc # "down"
    /\ local' = NotRunning
    /\ wstate' = NoState
    /\ offset' = 0
    /\ UNCHANGED <<file, count, store, ballot, mark>>

-----------------------------------------------------------------------------
(* The main thread.                                                        *)

TakesCommand == local["main"].pc = "idle" /\ MainMayStart

(* A patient client updates and aborts only what the manager has let in    *)
(* and the worker has not voted for.                                       *)
ClientMayDisturb ==
    PatientClient => /\ local["tx"].pc = "recv"
                     /\ ballot[wstate.transaction].admitted

(* BEGINTX and JOINTX: tx_manager_spawn; then the request; then the entry. *)
Enters(t) ==
    /\ TakesCommand /\ ~wstate.is_active /\ ~ballot[t].joined
    /\ count < MaxEntries
    /\ wstate' = [wstate EXCEPT !.is_active = TRUE, !.do_commit = TRUE,
                                !.do_abort = FALSE, !.transaction = t]
    /\ local' = [local EXCEPT !["main"].pc = "send", !["tx"] =
                    At(IF wstate.uncertain THEN "uncertain" ELSE "recv")]
    /\ UNCHANGED <<logVars, store, ballot, mark>>

SendsRequest ==
    /\ local["main"].pc = "send"
    /\ ballot' = [ballot EXCEPT ![wstate.transaction].joined = TRUE]
    /\ Appends("main", EntryOf("LOG_BEGIN", wstate.transaction), "idle")
    /\ UNCHANGED <<logVars, store, wstate, mark>>

(* Mutant: the store is written before the entry.                          *)
Updates_StoreFirst(v) ==
    /\ TakesCommand /\ wstate.is_active /\ ClientMayDisturb
    /\ count < MaxEntries
    /\ Appends("main", [type |-> "LOG_UPDATE", tid |-> wstate.transaction,
                        old |-> store], "idle")
    /\ store' = v
    /\ UNCHANGED <<logVars, wstate, ballot, mark>>

(* NEW_A, NEW_B, NEW_IDSTR in a transaction: the old value is logged, then *)
(* the new one stored.                                                     *)
Updates(v) ==
    /\ TakesCommand /\ wstate.is_active /\ ClientMayDisturb
    /\ count < MaxEntries
    /\ local' = [local EXCEPT !["main"] = [@ EXCEPT
          !.pc = "a_count", !.ret = "set", !.value = v,
          !.entry = [type |-> "LOG_UPDATE", tid |-> wstate.transaction,
                     old |-> store]]]
    /\ UNCHANGED <<logVars, store, wstate, ballot, mark>>

SetsStore ==
    /\ Goes("main", "set", "idle")
    /\ store' = local["main"].value
    /\ UNCHANGED <<logVars, wstate, ballot, mark>>

UpdatesOutside(v) ==
    /\ TakesCommand /\ ~wstate.is_active
    /\ store' = v /\ mark' = v
    /\ UNCHANGED <<logVars, wstate, local, ballot>>

(* ABORT: roll back, then change the flags.                                *)
AbortsLocally ==
    /\ TakesCommand /\ wstate.is_active /\ ClientMayDisturb
    /\ count < MaxEntries
    /\ RollsBack("main", "flags")
    /\ UNCHANGED <<logVars, store, wstate, ballot, mark>>

(* VOTE_ABORT only changes the flags.                                      *)
WillVoteAbort ==
    /\ TakesCommand
    /\ Goes("main", "idle", "flags")
    /\ UNCHANGED <<logVars, store, wstate, ballot, mark>>

SetsFlags ==
    /\ Goes("main", "flags", "idle")
    /\ wstate' = [wstate EXCEPT !.do_commit = FALSE, !.do_abort = TRUE]
    /\ UNCHANGED <<logVars, store, ballot, mark>>

-----------------------------------------------------------------------------
(* The transaction thread; t is its transaction.                           *)

Receives(where) == TxMayStart /\ local["tx"].pc \in where

(* The manager asks the participants, also before this one has logged its  *)
(* begin; and a PREPARE that is late may come after the outcome.           *)
Asked(t) == ballot[t].admitted

(* Mutant: the vote is sent without the entry.                             *)
PreparesToCommit_NotLogged(t) ==
    /\ Receives({"recv"}) /\ Asked(t) /\ wstate.do_commit
    /\ Goes("tx", "recv", "vote_prepared")
    /\ UNCHANGED <<logVars, store, wstate, ballot, mark>>

(* PREPARE_TO_COMMIT with do_commit: log PREPARED, then vote.              *)
PreparesToCommit(t) ==
    /\ Receives({"recv"}) /\ Asked(t) /\ wstate.do_commit
    /\ Appends("tx", EntryOf("LOG_PREPARED", t), "vote_prepared")
    /\ UNCHANGED <<logVars, store, wstate, ballot, mark>>

(* PREPARE_TO_COMMIT with do_abort: reset the flags, then vote.            *)
PreparesToAbort(t) ==
    /\ Receives({"recv"}) /\ Asked(t) /\ ~wstate.do_commit /\ wstate.do_abort
    /\ wstate' = [wstate EXCEPT !.do_abort = FALSE, !.do_commit = TRUE]
    /\ Goes("tx", "recv", "vote_abort")
    /\ UNCHANGED <<logVars, store, ballot, mark>>

SendsVote(t) ==
    /\ \E v \in {<<"vote_prepared", "PREPARED">>, <<"vote_abort", "ABORT">>} :
          /\ Goes("tx", v[1], "voted")
          /\ ballot' = [ballot EXCEPT ![t].vote = v[2]]
    /\ UNCHANGED <<logVars, store, wstate, mark>>

BecomesUncertain ==
    /\ Goes("tx", "voted", "uncertain")
    /\ wstate' = [wstate EXCEPT !.uncertain = TRUE]
    /\ UNCHANGED <<logVars, store, ballot, mark>>

(* TX_ERROR in the main loop; the uncertain loop ignores it.               *)
RefusedByManager(t) ==
    /\ Receives({"recv"}) /\ ballot[t].outcome = "TX_ERROR"
    /\ Goes("tx", "recv", "closing")
    /\ UNCHANGED <<logVars, store, wstate, ballot, mark>>

LearnsCommit(t) ==
    /\ Receives({"recv", "uncertain"}) /\ ballot[t].outcome = "COMMIT"
    /\ Appends("tx", EntryOf("LOG_COMMIT", t), "conclude")
    /\ UNCHANGED <<logVars, store, wstate, ballot, mark>>

LearnsAbort(t) ==
    /\ Receives({"recv", "uncertain"}) /\ ballot[t].outcome = "ABORT"
    /\ RollsBack("tx", "conclude")
    /\ UNCHANGED <<logVars, store, wstate, ballot, mark>>

Concludes ==
    /\ Goes("tx", "conclude", "closing")
    /\ wstate' = [wstate EXCEPT !.uncertain = FALSE]
    /\ UNCHANGED <<logVars, store, ballot, mark>>

(* The clean-up.                                                           *)
ThreadEnds ==
    /\ Goes("tx", "closing", "none")
    /\ wstate' = [wstate EXCEPT !.is_active = FALSE]
    /\ UNCHANGED <<logVars, store, ballot, mark>>

-----------------------------------------------------------------------------
(* The manager lets the worker take part: BEGINTX, or JOINTX before the    *)
(* vote.                                                                   *)
ManagerAdmits(t) ==
    /\ ballot[t].joined /\ ~ballot[t].admitted /\ ballot[t].outcome = "none"
    /\ ballot' = [ballot EXCEPT ![t].admitted = TRUE]
    /\ UNCHANGED <<logVars, store, wstate, local, mark>>

(* Or it does not: the worker comes too late, and is told so, or, when the *)
(* transaction is no longer in the table, its outcome, a commit too.       *)
ManagerTurnsAway(t, o) ==
    /\ ballot[t].joined /\ ~ballot[t].admitted /\ ballot[t].outcome = "none"
    /\ ballot' = [ballot EXCEPT ![t].outcome = o]
    /\ UNCHANGED <<logVars, store, wstate, local, mark>>

(* The outcome for a participant; a commit needs its vote.                 *)
ManagerDecides(t, o) ==
    /\ ballot[t].admitted /\ ballot[t].outcome = "none"
    /\ o = "COMMIT" => ballot[t].vote = "PREPARED"
    /\ ballot' = [ballot EXCEPT ![t].outcome = o]
    /\ UNCHANGED <<logVars, store, wstate, local, mark>>

ManagerStep(t) ==
    \/ ManagerAdmits(t)
    \/ \E o \in {"COMMIT", "ABORT", "TX_ERROR"} : ManagerTurnsAway(t, o)
    \/ \E o \in {"COMMIT", "ABORT"} : ManagerDecides(t, o)

ThreadsNext ==
    \/ StartsUncertain \/ StartsWithRollback \/ StartsClean \/ ProcessCrashes
    \/ \E th \in Thread : LogStep(th)
    \/ \E t \in Tid : Enters(t)
    \/ SendsRequest \/ SetsStore \/ AbortsLocally \/ WillVoteAbort \/ SetsFlags
    \/ \E v \in Value : Updates(v) \/ UpdatesOutside(v)
    \/ \E t \in {wstate.transaction} \ {0} :
          \/ PreparesToCommit(t) \/ PreparesToAbort(t) \/ SendsVote(t)
          \/ RefusedByManager(t) \/ LearnsCommit(t) \/ LearnsAbort(t)
    \/ BecomesUncertain \/ Concludes \/ ThreadEnds
    \/ \E t \in Tid : ManagerStep(t)

ThreadsSpec == ThreadsInit /\ [][ThreadsNext]_threadVars

-----------------------------------------------------------------------------
(* "appends a log entry to the log file": whatever the other thread does,  *)
(* and wherever the process dies, an entry that is in the log stays where  *)
(* it is and the log grows by one whole entry at a time.                   *)
AppendOnly ==
    [][/\ count' \in {count, count + 1}
       /\ count' <= Len(file')
       /\ \A i \in 1..count : Log'[i] = Log[i]]_threadVars

(* Write-ahead logging: at every instant, in the middle of an update or a  *)
(* rollback too, undoing the updates in the log yields the store as it was *)
(* before the open transaction, so a crash here loses nothing.             *)
Recoverable == RolledBackStore(Log, store) = mark

(* A vote in favour is a promise: as long as the outcome is not logged,    *)
(* the last entry of the log is its PREPARED, which makes the worker wait  *)
(* for the outcome when it starts again; and the outcome it logs is the    *)
(* manager's.                                                              *)
PromiseRemembered ==
    \A t \in Tid : ballot[t].vote = "PREPARED" =>
        \/ LastType = "LOG_PREPARED" /\ Log[count].tid = t
        \/ ballot[t].outcome = "COMMIT" /\ Logged(Log, "LOG_COMMIT", t)
        \/ /\ ballot[t].outcome = "ABORT" /\ Logged(Log, "LOG_ABORT", t)
           /\ ~Logged(Log, "LOG_COMMIT", t)
=============================================================================
