------------------------------ MODULE TWorker ------------------------------
(***************************************************************************)
(* The workers, src/tworker.c and src/tx_worker_thread.c.  A worker is a   *)
(* process with a main thread, which executes the commands of the client   *)
(* program, and, during a transaction, a transaction thread, which talks   *)
(* to the manager over a socket of its own.  The threads share wstate and  *)
(* the log.  Their handlers interleave here as wholes; the clean-up at the *)
(* end of the transaction thread is in two steps, because the main thread  *)
(* can run between the two.                                                *)
(*                                                                         *)
(* Simplifications.  The objects A, B and the id string are the fields of  *)
(* a function, and the three update commands are one action: they log and  *)
(* store alike (the store is a shared mapping, which a process crash does  *)
(* not lose, synced or not).  There is one manager, so its address is left *)
(* out.  A positive delay only makes a step later.  Vector clocks and      *)
(* ShiViz output are left out.  A command is an action of the environment, *)
(* so it may come at any time, in any order, repeatedly or never.          *)
(***************************************************************************)
EXTENDS Network, Rollback

CONSTANTS
    Worker,        \* the worker processes
    Field,         \* the objects of a store
    Value,         \* what they may hold
    InitValue,     \* what a new store holds
    NoPort,        \* port 0, and a server pointer that is NULL
    Commands,      \* the commands the client gives in this instance
    QuietAfterVote,\* does the client leave a worker alone between vote and outcome?
    StackFlag,     \* values of the bools of wstate that main never assigns
    StackDelay,    \* is wstate.delay, which nothing assigns, negative?
    MaxWorkerLog   \* bound: no begin, update or abort command beyond this log length

Command == {"BEGINTX", "JOINTX", "NEW", "CRASH", "COMMIT", "ABORT",
            "VOTE_ABORT", "DELAY_RESPONSE", "COMMIT_CRASH", "ABORT_CRASH"}

ASSUME TWorkerAssumption ==
    /\ NoPort \notin Port
    /\ InitValue \in Value
    /\ Commands \subseteq Command
    /\ QuietAfterVote \in BOOLEAN
    /\ StackFlag \subseteq BOOLEAN
    /\ StackDelay \subseteq BOOLEAN
    /\ MaxWorkerLog \in Nat

VARIABLES
    wstate,   \* wstate[w]: the memory of worker w, worker_state_t
    wlog,     \* wlog[w]: its transaction log
    listen,   \* listen[w]: tm_listen_port in the header of the log
    store,    \* store[w]: its object store
    mark      \* history: mark[w] is the store at the last begin, commit or
              \* abort entry of w's log

wVars == <<wstate, wlog, listen, store, bound, mark>>

Store == [Field -> Value]

(* The transaction thread: not there; in its main loop; in the uncertain   *)
(* loop; past its loops with the socket open, then closed.                 *)
ThreadState == {"none", "running", "uncertain", "closing", "closed"}

WorkerState ==
    [up : BOOLEAN, is_active : BOOLEAN, uncertain : BOOLEAN,
     do_commit : BOOLEAN, do_abort : BOOLEAN, negative_delay : BOOLEAN,
     transaction : Tid \cup {0}, server : Port \cup {NoPort},
     thread : ThreadState]

(* txlog_entry_t, as a worker uses it.                                     *)
WLogEntries == [type : LogEntryType, tid : Tid \cup {0}, old : Store]

WTypeOK ==
    /\ NetTypeOK
    /\ wstate \in [Worker -> WorkerState]
    /\ wlog \in [Worker -> Seq(WLogEntries)]
    /\ listen \in [Worker -> Port \cup {NoPort}]
    /\ store \in [Worker -> Store]
    /\ bound \in [Port -> SUBSET Tid]
    /\ mark \in [Worker -> Store]

EmptyStore == [f \in Field |-> InitValue]

Down == [up |-> FALSE, is_active |-> FALSE, uncertain |-> FALSE,
         do_commit |-> FALSE, do_abort |-> FALSE, negative_delay |-> FALSE,
         transaction |-> 0, server |-> NoPort, thread |-> "none"]

(* No worker has run yet: no log, no store.                                *)
WInit ==
    /\ wstate = [w \in Worker |-> Down]
    /\ wlog = [w \in Worker |-> <<>>]
    /\ listen = [w \in Worker |-> NoPort]
    /\ store = [w \in Worker |-> EmptyStore]
    /\ bound = [p \in Port |-> {}]
    /\ mark = [w \in Worker |-> EmptyStore]

-----------------------------------------------------------------------------
(* The log of a worker.                                                    *)

(* txentry_init clears the old values; an update entry has them filled in. *)
LogEntry(type, t)  == [type |-> type, tid |-> t, old |-> EmptyStore]
UpdateEntry(t, st) == [type |-> "LOG_UPDATE", tid |-> t, old |-> st]

(* update_rollback ends with an abort entry for the transaction of the     *)
(* entry that stopped it.                                                  *)
RolledBackLog(log) ==
    IF StopsAt(log) = 0 THEN log
    ELSE txlog_append(log, LogEntry("LOG_ABORT", log[StopsAt(log)].tid))

update_rollback(w) ==
    /\ store' = [store EXCEPT ![w] = RolledBackStore(wlog[w], @)]
    /\ wlog' = [wlog EXCEPT ![w] = RolledBackLog(@)]
    /\ mark' = IF StopsAt(wlog[w]) = 0 THEN mark
               ELSE [mark EXCEPT ![w] = store'[w]]

(* txlog_append of an entry that is not an update.                         *)
Logs(w, type, t) ==
    /\ wlog' = [wlog EXCEPT ![w] = txlog_append(@, LogEntry(type, t))]
    /\ mark' = IF type \in MarkType THEN [mark EXCEPT ![w] = store[w]]
               ELSE mark

(* The process ends: memory is gone, log, header and store stay.           *)
Dies(w) == wstate' = [wstate EXCEPT ![w] = Down]

-----------------------------------------------------------------------------
(* Starting up: main before its loop.                                      *)

(* wstate as main finds it on its stack.                                   *)
Uninitialised(active, unsure, delay) ==
    [Down EXCEPT !.up = TRUE, !.is_active = active, !.uncertain = unsure,
                 !.negative_delay = delay]

(* The log's last entry.  With an empty log txlog_last_entry reads past    *)
(* the end of the file and leaves last_entry as it was on the stack, which *)
(* the build leaves zero: none of the cases of main applies.               *)
LastIs(w, type) == wlog[w] # <<>> /\ wlog[w][Len(wlog[w])].type = type

(* Mutant: the thread does not look at uncertain and enters its main loop. *)
Spawned_Running(ws, t, p) ==
    [ws EXCEPT !.is_active = TRUE, !.transaction = t, !.server = p,
               !.do_abort = FALSE, !.do_commit = TRUE, !.thread = "running"]

(* tx_manager_spawn with the thread it starts, on port p.                  *)
Spawned(ws, t, p) ==
    [ws EXCEPT !.is_active = TRUE, !.transaction = t, !.server = p,
               !.do_abort = FALSE, !.do_commit = TRUE,
               !.thread = IF ws.uncertain THEN "uncertain" ELSE "running"]

(* The last entry is PREPARED: take the old port again and wait.           *)
StartsUncertain(w) ==
    /\ ~wstate[w].up
    /\ LastIs(w, "LOG_PREPARED")
    /\ \E d \in StackDelay :
          wstate' = [wstate EXCEPT ![w] =
              Spawned(Uninitialised(TRUE, TRUE, d),
                      wlog[w][Len(wlog[w])].tid, listen[w])]
    /\ UNCHANGED <<netVars, wlog, listen, store, bound, mark>>

(* The last entry is UPDATE: undo the updates.                             *)
StartsWithRollback(w) ==
    /\ ~wstate[w].up
    /\ LastIs(w, "LOG_UPDATE")
    /\ \E a, u \in StackFlag, d \in StackDelay :
          wstate' = [wstate EXCEPT ![w] = Uninitialised(a, u, d)]
    /\ update_rollback(w)
    /\ UNCHANGED <<netVars, listen, bound>>

StartsClean(w) ==
    /\ ~wstate[w].up
    /\ ~LastIs(w, "LOG_PREPARED") /\ ~LastIs(w, "LOG_UPDATE")
    /\ \E a, u \in StackFlag, d \in StackDelay :
          wstate' = [wstate EXCEPT ![w] = Uninitialised(a, u, d)]
    /\ UNCHANGED <<netVars, wlog, listen, store, bound, mark>>

-----------------------------------------------------------------------------
(* The main thread: one action per command.                                *)

(* Which port tx_manager_spawn binds: the one in the log header if wstate  *)
(* says uncertain, else (and if that is 0) one the kernel has free.  The   *)
(* kernel is assumed not to give out the same port twice.                  *)
Binds(w, p) ==
    IF wstate[w].uncertain /\ listen[w] # NoPort
      THEN p = listen[w]
      ELSE bound[p] = {}

(* BEGINTX and JOINTX, which differ in the request only.                   *)
EntersTransaction(w, t, p, type) ==
    /\ type \in Commands
    /\ wstate[w].up /\ ~wstate[w].is_active
    /\ Len(wlog[w]) < MaxWorkerLog
    /\ Binds(w, p)
    /\ wstate' = [wstate EXCEPT ![w] = Spawned(@, t, p)]
    /\ listen' = [listen EXCEPT ![w] = p]
    /\ bound' = [bound EXCEPT ![p] = @ \cup {t}]
    /\ WorkerSends(Request(type, p, t))
    /\ Logs(w, "LOG_BEGIN", t)
    /\ UNCHANGED <<toWorker, votes, store>>

(* A quiet client neither updates nor aborts while the worker waits for    *)
(* the outcome of a vote, that is, while its thread is in the uncertain    *)
(* loop.  The code has no such guard.                                      *)
ClientMayDisturb(w) == QuietAfterVote => wstate[w].thread # "uncertain"

(* NEW_A, NEW_B, NEW_IDSTR.                                                *)
UpdatesInTransaction(w, f, v) ==
    /\ "NEW" \in Commands
    /\ wstate[w].up /\ wstate[w].is_active
    /\ ClientMayDisturb(w)
    /\ Len(wlog[w]) < MaxWorkerLog
    /\ wlog' = [wlog EXCEPT ![w] = txlog_append(@,
                  UpdateEntry(wstate[w].transaction, store[w]))]
    /\ store' = [store EXCEPT ![w][f] = v]
    /\ UNCHANGED <<netVars, wstate, listen, bound, mark>>

UpdatesOutside(w, f, v) ==
    /\ "NEW" \in Commands
    /\ wstate[w].up /\ ~wstate[w].is_active
    /\ store' = [store EXCEPT ![w][f] = v]
    /\ UNCHANGED <<netVars, wstate, wlog, listen, bound, mark>>

(* CRASH, or the process is killed.                                        *)
WorkerCrashes(w) ==
    /\ "CRASH" \in Commands
    /\ wstate[w].up
    /\ Dies(w)
    /\ UNCHANGED <<netVars, wlog, listen, store, bound, mark>>

(* COMMIT, DELAY_RESPONSE, COMMIT_CRASH and ABORT_CRASH pass a message on  *)
(* to the manager.                                                         *)
PassesOn(w, type) ==
    /\ type \in Commands
    /\ wstate[w].up /\ wstate[w].is_active
    /\ wstate[w].server # NoPort
    /\ WorkerSends(Request(type, wstate[w].server,
                     IF type = "COMMIT" THEN wstate[w].transaction ELSE 0))
    /\ UNCHANGED <<toWorker, votes, wVars>>

(* The same when the transaction thread has closed the socket but has not  *)
(* yet cleared is_active: the server pointer is NULL.                      *)
PassesOnToNull(w, type) ==
    /\ type \in Commands \cap ({"COMMIT"} \cup TestRequest)
    /\ wstate[w].up /\ wstate[w].is_active
    /\ wstate[w].server = NoPort
    /\ Dies(w)
    /\ UNCHANGED <<netVars, wlog, listen, store, bound, mark>>

(* ABORT undoes the updates here and makes the next vote an abort.  The    *)
(* message it builds for the manager is not sent.                          *)
AbortsLocally(w) ==
    /\ "ABORT" \in Commands
    /\ wstate[w].up /\ wstate[w].is_active
    /\ ClientMayDisturb(w)
    /\ Len(wlog[w]) < MaxWorkerLog
    /\ update_rollback(w)
    /\ wstate' = [wstate EXCEPT ![w].do_commit = FALSE, ![w].do_abort = TRUE]
    /\ UNCHANGED <<netVars, listen, bound>>

(* VOTE_ABORT, which does not look at is_active.                           *)
WillVoteAbort(w) ==
    /\ "VOTE_ABORT" \in Commands
    /\ wstate[w].up
    /\ wstate' = [wstate EXCEPT ![w].do_commit = FALSE, ![w].do_abort = TRUE]
    /\ UNCHANGED <<netVars, wlog, listen, store, bound, mark>>

-----------------------------------------------------------------------------
(* The transaction thread.                                                 *)

(* server_recv on the transaction socket.                                  *)
ThreadReceives(w, type, where) ==
    /\ wstate[w].thread \in where
    /\ Reply(type, wstate[w].server) \in toWorker

(* Both votes end in the uncertain loop.                                   *)
SendsVote(w, type) ==
    LET vote == Request(type, wstate[w].server, wstate[w].transaction)
    IN  /\ WorkerSends(vote)
        /\ votes' = votes \cup {vote}

(* PREPARE_TO_COMMIT with do_commit: log PREPARED, then vote.  With a      *)
(* negative delay the process exits between the two.                       *)
VotesPrepared(w) ==
    /\ ThreadReceives(w, "PREPARE_TO_COMMIT", {"running"})
    /\ wstate[w].do_commit
    /\ Logs(w, "LOG_PREPARED", wstate[w].transaction)
    /\ IF wstate[w].negative_delay
         THEN Dies(w) /\ UNCHANGED netVars
         ELSE /\ SendsVote(w, "PREPARED")
              /\ wstate' = [wstate EXCEPT ![w].uncertain = TRUE,
                                          ![w].thread = "uncertain"]
              /\ UNCHANGED toWorker
    /\ UNCHANGED <<listen, store, bound>>

(* PREPARE_TO_COMMIT with do_abort: nothing is logged.                     *)
VotesAbort(w) ==
    /\ ThreadReceives(w, "PREPARE_TO_COMMIT", {"running"})
    /\ ~wstate[w].do_commit /\ wstate[w].do_abort
    /\ IF wstate[w].negative_delay
         THEN Dies(w) /\ UNCHANGED netVars
         ELSE /\ SendsVote(w, "ABORT")
              /\ wstate' = [wstate EXCEPT ![w].do_abort = FALSE,
                                          ![w].do_commit = TRUE,
                                          ![w].uncertain = TRUE,
                                          ![w].thread = "uncertain"]
              /\ UNCHANGED toWorker
    /\ UNCHANGED <<wlog, listen, store, bound, mark>>

(* TX_ERROR ends the thread; the uncertain loop does not know it.          *)
RefusedByManager(w) ==
    /\ ThreadReceives(w, "TX_ERROR", {"running"})
    /\ wstate' = [wstate EXCEPT ![w].thread = "closing"]
    /\ UNCHANGED <<netVars, wlog, listen, store, bound, mark>>

(* In the uncertain loop the flag uncertain is cleared; in the main loop   *)
(* it is already FALSE.                                                    *)
Concludes(w) ==
    wstate' = [wstate EXCEPT ![w].uncertain = FALSE, ![w].thread = "closing"]

LearnsCommit(w) ==
    /\ ThreadReceives(w, "COMMIT", {"running", "uncertain"})
    /\ Logs(w, "LOG_COMMIT", wstate[w].transaction)
    /\ Concludes(w)
    /\ UNCHANGED <<netVars, listen, store, bound>>

LearnsAbort(w) ==
    /\ ThreadReceives(w, "ABORT", {"running", "uncertain"})
    /\ update_rollback(w)
    /\ Concludes(w)
    /\ UNCHANGED <<netVars, listen, bound>>

(* server_recv times out in the uncertain loop.                            *)
Asks(w) ==
    /\ wstate[w].thread = "uncertain"
    /\ WorkerSends(Request("ASK", wstate[w].server, wstate[w].transaction))
    /\ UNCHANGED <<toWorker, votes, wVars>>

(* server_shutdown, then is_active = false.                                *)
ClosesSocket(w) ==
    /\ wstate[w].thread = "closing"
    /\ wstate' = [wstate EXCEPT ![w].server = NoPort, ![w].thread = "closed"]
    /\ UNCHANGED <<netVars, wlog, listen, store, bound, mark>>

ThreadEnds(w) ==
    /\ wstate[w].thread = "closed"
    /\ wstate' = [wstate EXCEPT ![w].is_active = FALSE, ![w].thread = "none"]
    /\ UNCHANGED <<netVars, wlog, listen, store, bound, mark>>

-----------------------------------------------------------------------------
Starts(w) == StartsUncertain(w) \/ StartsWithRollback(w) \/ StartsClean(w)

ClientCommand(w) ==
    \/ \E t \in Tid, p \in Port, type \in {"BEGINTX", "JOINTX"} :
           EntersTransaction(w, t, p, type)
    \/ \E f \in Field, v \in Value :
           UpdatesInTransaction(w, f, v) \/ UpdatesOutside(w, f, v)
    \/ \E type \in {"COMMIT"} \cup TestRequest :
           PassesOn(w, type) \/ PassesOnToNull(w, type)
    \/ AbortsLocally(w) \/ WillVoteAbort(w)

TransactionThread(w) ==
    \/ VotesPrepared(w) \/ VotesAbort(w) \/ RefusedByManager(w)
    \/ LearnsCommit(w) \/ LearnsAbort(w) \/ Asks(w)
    \/ ClosesSocket(w) \/ ThreadEnds(w)

WNext(w) ==
    Starts(w) \/ WorkerCrashes(w) \/ ClientCommand(w) \/ TransactionThread(w)
=============================================================================
