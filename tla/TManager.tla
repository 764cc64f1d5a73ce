------------------------------ MODULE TManager ------------------------------
(***************************************************************************)
(* The transaction manager, src/tmanager.c: a single-threaded process that *)
(* takes one datagram at a time from its socket and handles it to the end. *)
(* Its memory is the table of MAX_TRANSACTIONS slots and two test flags;   *)
(* its log survives a crash.                                               *)
(*                                                                         *)
(* Simplifications.  A worker_t is its port.  The nodes array is filled    *)
(* from the front and never shrinks, so it is the sequence of its non-zero *)
(* elements.  Vector clocks and ShiViz output are left out.  A crash       *)
(* inside a handler needs no action of its own: before the append it is a  *)
(* lost request, after it it is a crash with the replies lost.             *)
(***************************************************************************)
EXTENDS Network, TxLog

CONSTANTS
    MaxTransactions,  \* MAX_TRANSACTIONS, 4 in the code
    MaxNodes,         \* MAX_NODES, 10 in the code
    NodeCountMod      \* uint32_t nodeCount is taken modulo this, 2^32 in the code

ASSUME TManagerAssumption ==
    /\ MaxTransactions \in Nat \ {0}
    /\ MaxNodes \in Nat \ {0}
    /\ NodeCountMod \in Nat
    /\ NodeCountMod > MaxNodes

VARIABLES
    txs,           \* txmanager.transactions
    tmlog,         \* the log file
    mode,          \* "down", "restoring" (in restoreTransactions) or "up"
    restore,       \* loop index and bound of restoreTransactions
    commit_crash,  \* txmanager.commit_crash
    abort_crash    \* txmanager.abort_crash

tmMemory == <<txs, mode, restore, commit_crash, abort_crash>>
tmVars   == <<tmMemory, tmlog>>

Slot == 1..MaxTransactions

TransactionState == {"BEGIN_STATE", "COMMIT_STATE", "PREPARE_STATE",
                     "ABORT_STATE"}

(* struct transaction_t.                                                   *)
Transaction ==
    [state     : TransactionState,
     tid       : Tid \cup {0},
     nodes     : Seq(Port),
     nodeCount : 0..(NodeCountMod - 1)]

(* txlog_entry_t, as the manager uses it.                                  *)
LogEntries == [type : LogEntryType, tid : Tid]

TMTypeOK ==
    /\ NetTypeOK
    /\ txs \in [Slot -> Transaction]
    /\ tmlog \in Seq(LogEntries)
    /\ mode \in {"down", "restoring", "up"}
    /\ restore \in [next : Nat \ {0}, count : Nat]
    /\ commit_crash \in BOOLEAN
    /\ abort_crash \in BOOLEAN

Committed(t) == Logged(tmlog, "LOG_COMMIT", t)
Aborted(t)   == Logged(tmlog, "LOG_ABORT", t)
Begun(t)     == Logged(tmlog, "LOG_BEGIN", t)

-----------------------------------------------------------------------------
(* Zeroed memory.                                                          *)
EmptySlot == [state |-> "BEGIN_STATE", tid |-> 0, nodes |-> <<>>,
              nodeCount |-> 0]

EmptyTable == [i \in Slot |-> EmptySlot]

(* The manager has never run: its log file is empty.                       *)
TMInit ==
    /\ NetInit
    /\ txs = EmptyTable
    /\ tmlog = <<>>
    /\ mode = "down"
    /\ restore = [next |-> 1, count |-> 0]
    /\ commit_crash = FALSE
    /\ abort_crash = FALSE

(* Everything in memory is gone, the log stays.                            *)
ProcessDies ==
    /\ txs' = EmptyTable
    /\ mode' = "down"
    /\ restore' = [next |-> 1, count |-> 0]
    /\ commit_crash' = FALSE
    /\ abort_crash' = FALSE

-----------------------------------------------------------------------------
(* Starting up: main before its loop, and restoreTransactions.             *)

ManagerStarts ==
    /\ mode = "down"
    /\ mode' = "restoring"
    /\ restore' = [next |-> 1, count |-> Len(tmlog)]
    /\ UNCHANGED <<netVars, txs, tmlog, commit_crash, abort_crash>>

(* Mutant: recovery looks for aborts only.                                 *)
Unfinished_IgnoresCommit(log, i, count) ==
    /\ log[i].type = "LOG_BEGIN"
    /\ \A j \in i..count :
          ~(log[j].tid = log[i].tid /\ log[j].type = "LOG_ABORT")

(* The entry at i begins a transaction for which the entries from i up to  *)
(* count hold neither a commit nor an abort.                               *)
Unfinished(log, i, count) ==
    /\ log[i].type = "LOG_BEGIN"
    /\ \A j \in i..count :
          ~ /\ log[j].tid = log[i].tid
            /\ log[j].type \in {"LOG_ABORT", "LOG_COMMIT"}

(* One round of the outer loop of restoreTransactions.                     *)
RestoreEntry ==
    /\ mode = "restoring"
    /\ restore.next <= restore.count
    /\ tmlog' = IF Unfinished(tmlog, restore.next, restore.count)
                  THEN txlog_append(tmlog, txentry_init("LOG_ABORT",
                                                tmlog[restore.next].tid))
                  ELSE tmlog
    /\ restore' = [restore EXCEPT !.next = @ + 1]
    /\ UNCHANGED <<netVars, txs, mode, commit_crash, abort_crash>>

RestoreEnds ==
    /\ mode = "restoring"
    /\ restore.next > restore.count
    /\ mode' = "up"
    /\ UNCHANGED <<netVars, txs, tmlog, restore, commit_crash, abort_crash>>

(* The process is killed; it may be in the middle of restoreTransactions.  *)
ManagerCrashes ==
    /\ mode # "down"
    /\ ProcessDies
    /\ UNCHANGED <<netVars, tmlog>>

-----------------------------------------------------------------------------
(* Helpers of the handlers.                                                *)

(* findTransaction returns the slot i.                                     *)
findTransaction(t, i) ==
    /\ i \in Slot
    /\ txs[i].tid = t
    /\ \A j \in Slot : j < i => txs[j].tid # t

(* findTransaction returns NULL.                                           *)
NotInTable(t) == \A i \in Slot : txs[i].tid # t

(* Mutant: a slot whose vote is going on is taken for finished.            *)
Reusable_Preparing(tx) == tx.state # "BEGIN_STATE" \/ tx.tid = 0

(* A slot that addTransaction overwrites.                                  *)
Reusable(tx) == tx.state \in {"COMMIT_STATE", "ABORT_STATE"} \/ tx.tid = 0

(* addTransaction scans the table for the first slot that has this tid or  *)
(* can be overwritten, and stores the transaction if it is the latter.     *)
addTransaction(t, i) ==
    /\ i \in Slot
    /\ txs[i].tid # t
    /\ Reusable(txs[i])
    /\ \A j \in Slot : j < i => txs[j].tid # t /\ ~Reusable(txs[j])

(* Mutant: nodeCount is left as memset made it.                            *)
NewTransaction_NoCount(t, p) ==
    [state |-> "BEGIN_STATE", tid |-> t, nodes |-> <<p>>, nodeCount |-> 0]

NewTransaction(t, p) ==
    [state |-> "BEGIN_STATE", tid |-> t, nodes |-> <<p>>, nodeCount |-> 1]

(* joinTransaction finds a free element of nodes.                          *)
HasRoom(tx) == Len(tx.nodes) < MaxNodes

(* transaction->nodeCount++ and -- on a uint32_t.                          *)
CountUp(n)   == IF n = NodeCountMod - 1 THEN 0 ELSE n + 1
CountDown(n) == IF n = 0 THEN NodeCountMod - 1 ELSE n - 1

(* Mutant: the new node is not counted.                                    *)
joinTransaction_NotCounted(tx, p) == [tx EXCEPT !.nodes = Append(@, p)]

joinTransaction(tx, p) ==
    [tx EXCEPT !.nodes = Append(@, p), !.nodeCount = CountUp(@)]

(* sendToAllWorkers.                                                       *)
sendToAllWorkers(tx, type) ==
    {Reply(type, tx.nodes[k]) : k \in 1..Len(tx.nodes)}

(* The last entry of transaction t, if its type is in types.               *)
LastTypeIn(t, types) ==
    {i \in 1..Len(tmlog) : txlog_last_tx(tmlog, t, i) /\ tmlog[i].type \in types}

(* Mutants: an undecided transaction is answered with ABORT, or COMMIT; an *)
(* abort is not answered; the type of the answer is not set.               *)
checkTransactionLog_DefaultAbort(t, p) ==
    {Reply("COMMIT", p) : i \in LastTypeIn(t, {"LOG_COMMIT"})}
    \cup {Reply("ABORT", p) : i \in LastTypeIn(t, {"LOG_ABORT", "LOG_BEGIN"})}

checkTransactionLog_DefaultCommit(t, p) ==
    {Reply("COMMIT", p) : i \in LastTypeIn(t, {"LOG_COMMIT", "LOG_BEGIN"})}
    \cup {Reply("ABORT", p) : i \in LastTypeIn(t, {"LOG_ABORT"})}

checkTransactionLog_NoAbort(t, p) ==
    {Reply("COMMIT", p) : i \in LastTypeIn(t, {"LOG_COMMIT"})}

checkTransactionLog_NoType(t, p) ==
    {Reply("NONE", p) : i \in LastTypeIn(t, {"LOG_COMMIT", "LOG_ABORT"})}

(* checkTransactionLog, and the ASK handler, which repeats it: the outcome *)
(* in the last entry of the transaction, if there is one, goes to p.       *)
checkTransactionLog(t, p) ==
    {Reply("COMMIT", p) : i \in LastTypeIn(t, {"LOG_COMMIT"})}
    \cup {Reply("ABORT", p) : i \in LastTypeIn(t, {"LOG_ABORT"})}

-----------------------------------------------------------------------------
(* The message handlers of main's loop.                                    *)

HandleAsk(m) ==
    /\ mode = "up"
    /\ ManagerReceives(m, "ASK")
    /\ ManagerSends(checkTransactionLog(m.tid, m.from))
    /\ UNCHANGED <<votes, tmVars>>

BeginAccepted(m) ==
    /\ mode = "up"
    /\ ManagerReceives(m, "BEGINTX")
    /\ txlog_free_id(tmlog, m.tid)
    /\ \E i \in Slot :
          /\ addTransaction(m.tid, i)
          /\ txs' = [txs EXCEPT ![i] = NewTransaction(m.tid, m.from)]
    /\ tmlog' = txlog_append(tmlog, txentry_init("LOG_BEGIN", m.tid))
    /\ UNCHANGED <<toWorker, votes, mode, restore, commit_crash, abort_crash>>

(* The id is in the log or in the table, or every slot is in use.          *)
BeginRefused(m) ==
    /\ mode = "up"
    /\ ManagerReceives(m, "BEGINTX")
    /\ txlog_free_id(tmlog, m.tid) => \A i \in Slot : ~addTransaction(m.tid, i)
    /\ ManagerSends({Reply("TX_ERROR", m.from)})
    /\ UNCHANGED <<votes, tmVars>>

JoinAccepted(m) ==
    /\ mode = "up"
    /\ ManagerReceives(m, "JOINTX")
    /\ \E i \in Slot :
          /\ findTransaction(m.tid, i)
          /\ txs[i].state = "BEGIN_STATE"
          /\ HasRoom(txs[i])
          /\ txs' = [txs EXCEPT ![i] = joinTransaction(@, m.from)]
    /\ UNCHANGED <<toWorker, votes, tmlog, mode, restore, commit_crash,
                   abort_crash>>

JoinRefused(m) ==
    /\ mode = "up"
    /\ ManagerReceives(m, "JOINTX")
    /\ \E i \in Slot :
          /\ findTransaction(m.tid, i)
          /\ txs[i].state = "BEGIN_STATE" => ~HasRoom(txs[i])
    /\ ManagerSends({Reply("TX_ERROR", m.from)})
    /\ UNCHANGED <<votes, tmVars>>

JoinUnknown(m) ==
    /\ mode = "up"
    /\ ManagerReceives(m, "JOINTX")
    /\ NotInTable(m.tid)
    /\ ManagerSends(checkTransactionLog(m.tid, m.from))
    /\ UNCHANGED <<votes, tmVars>>

(* Any state but PREPARE_STATE, a decided one too, goes to PREPARE_STATE.  *)
CommitStartsVote(m) ==
    /\ mode = "up"
    /\ ManagerReceives(m, "COMMIT")
    /\ \E i \in Slot :
          /\ findTransaction(m.tid, i)
          /\ txs[i].state # "PREPARE_STATE"
          /\ txs' = [txs EXCEPT ![i].state = "PREPARE_STATE"]
          /\ ManagerSends(sendToAllWorkers(txs[i], "PREPARE_TO_COMMIT"))
    /\ UNCHANGED <<votes, tmlog, mode, restore, commit_crash, abort_crash>>

CommitRepeated(m) ==
    /\ mode = "up"
    /\ ManagerReceives(m, "COMMIT")
    /\ \E i \in Slot :
          /\ findTransaction(m.tid, i)
          /\ txs[i].state = "PREPARE_STATE"
    /\ UNCHANGED <<toWorker, votes, tmVars>>

CommitUnknown(m) ==
    /\ mode = "up"
    /\ ManagerReceives(m, "COMMIT")
    /\ NotInTable(m.tid)
    /\ ManagerSends(checkTransactionLog(m.tid, m.from))
    /\ UNCHANGED <<votes, tmVars>>

(* A vote against: log it and tell everyone, whatever the state was.       *)
AbortDecided(m) ==
    /\ mode = "up"
    /\ ManagerReceives(m, "ABORT")
    /\ tmlog' = txlog_append(tmlog, txentry_init("LOG_ABORT", m.tid))
    /\ \E i \in Slot :
          /\ findTransaction(m.tid, i)
          /\ IF abort_crash
               THEN /\ ProcessDies
                    /\ UNCHANGED toWorker
               ELSE /\ txs' = [txs EXCEPT ![i].state = "ABORT_STATE"]
                    /\ ManagerSends(sendToAllWorkers(txs[i], "ABORT"))
                    /\ UNCHANGED <<mode, restore, commit_crash, abort_crash>>
    /\ UNCHANGED votes

AbortUnknown(m) ==
    /\ mode = "up"
    /\ ManagerReceives(m, "ABORT")
    /\ NotInTable(m.tid)
    /\ ManagerSends(checkTransactionLog(m.tid, m.from))
    /\ UNCHANGED <<votes, tmVars>>

PreparedAfterAbort(m) ==
    /\ mode = "up"
    /\ ManagerReceives(m, "PREPARED")
    /\ \E i \in Slot :
          /\ findTransaction(m.tid, i)
          /\ txs[i].state = "ABORT_STATE"
    /\ ManagerSends({Reply("TX_ERROR", m.from)})
    /\ UNCHANGED <<votes, tmVars>>

(* A vote in favour is counted, and it is not the last one.                *)
PreparedCounted(m) ==
    /\ mode = "up"
    /\ ManagerReceives(m, "PREPARED")
    /\ \E i \in Slot :
          /\ findTransaction(m.tid, i)
          /\ txs[i].state # "ABORT_STATE"
          /\ CountDown(txs[i].nodeCount) # 0
          /\ txs' = [txs EXCEPT ![i].nodeCount = CountDown(@)]
    /\ UNCHANGED <<toWorker, votes, tmlog, mode, restore, commit_crash,
                   abort_crash>>

(* The count reaches zero: log the commit and tell everyone.               *)
CommitDecided(m) ==
    /\ mode = "up"
    /\ ManagerReceives(m, "PREPARED")
    /\ tmlog' = txlog_append(tmlog, txentry_init("LOG_COMMIT", m.tid))
    /\ \E i \in Slot :
          /\ findTransaction(m.tid, i)
          /\ txs[i].state # "ABORT_STATE"
          /\ CountDown(txs[i].nodeCount) = 0
          /\ IF commit_crash
               THEN /\ ProcessDies
                    /\ UNCHANGED toWorker
               ELSE /\ txs' = [txs EXCEPT ![i] = [@ EXCEPT
                                    !.state = "COMMIT_STATE", !.nodeCount = 0]]
                    /\ ManagerSends(sendToAllWorkers(txs[i], "COMMIT"))
                    /\ UNCHANGED <<mode, restore, commit_crash, abort_crash>>
    /\ UNCHANGED votes

(* The PREPARED handler answers from the log and then goes on to read      *)
(* transaction->state through the NULL pointer: the process is killed.     *)
PreparedUnknown(m) ==
    /\ mode = "up"
    /\ ManagerReceives(m, "PREPARED")
    /\ NotInTable(m.tid)
    /\ ManagerSends(checkTransactionLog(m.tid, m.from))
    /\ ProcessDies
    /\ UNCHANGED <<votes, tmlog>>

SetCommitCrash(m) ==
    /\ mode = "up"
    /\ ManagerReceives(m, "COMMIT_CRASH")
    /\ commit_crash' = TRUE
    /\ UNCHANGED <<toWorker, votes, txs, tmlog, mode, restore, abort_crash>>

SetAbortCrash(m) ==
    /\ mode = "up"
    /\ ManagerReceives(m, "ABORT_CRASH")
    /\ abort_crash' = TRUE
    /\ UNCHANGED <<toWorker, votes, txs, tmlog, mode, restore, commit_crash>>

(* The default case; DELAY_RESPONSE is the only such message a worker      *)
(* sends.                                                                  *)
UnknownCommand(m) ==
    /\ mode = "up"
    /\ ManagerReceives(m, "DELAY_RESPONSE")
    /\ UNCHANGED <<toWorker, votes, tmVars>>

HandleMessage(m) ==
    \/ HandleAsk(m)
    \/ BeginAccepted(m) \/ BeginRefused(m)
    \/ JoinAccepted(m) \/ JoinRefused(m) \/ JoinUnknown(m)
    \/ CommitStartsVote(m) \/ CommitRepeated(m) \/ CommitUnknown(m)
    \/ AbortDecided(m) \/ AbortUnknown(m)
    \/ PreparedAfterAbort(m) \/ PreparedCounted(m) \/ CommitDecided(m)
    \/ PreparedUnknown(m)
    \/ SetCommitCrash(m) \/ SetAbortCrash(m) \/ UnknownCommand(m)

TMNext ==
    \/ ManagerStarts \/ RestoreEntry \/ RestoreEnds \/ ManagerCrashes
    \/ \E m \in toManager : HandleMessage(m)
=============================================================================
