-------------------------- MODULE WorkerThreadsInv --------------------------
(***************************************************************************)
(* The inductive invariants of WorkerThreads.  With Serial, the thread     *)
(* that is inside txlog_append has the log, its header and its offset to   *)
(* itself.  With PatientClient as well, the log says at every instant what *)
(* has to be undone and what has been promised.                            *)
(***************************************************************************)
EXTENDS WorkerThreads

pc(th) == local[th].pc

Concluding ==
    \/ pc("tx") = "conclude"
    \/ pc("tx") \in AppendPC \cup RollbackPC /\ local["tx"].ret = "conclude"

(* Each thread is at one of its own labels; the index of the rollback loop *)
(* is that of an entry.                                                    *)
LabelOf(th, r) ==
    /\ IF th = "main"
         THEN /\ r.pc \in AppendPC \cup RollbackPC \cup MainPC
              /\ r.ret \in {"idle", "set", "flags"}
         ELSE /\ r.pc \in AppendPC \cup RollbackPC \cup TxPC
              /\ r.pc \in AppendPC => r.ret \in {"vote_prepared", "conclude"}
              /\ r.pc \in RollbackPC => r.ret = "conclude"
    /\ r.pc \in {"r_read", "r_apply"} => r.pos > 0

Labels == \A th \in Thread : LabelOf(th, local[th])

(* One thread at a time.                                                   *)
Exclusive ==
    pc("main") \in {"down", "idle"} \/ pc("tx") \in {"none", "recv", "uncertain"}

DownAlone == pc("main") = "down" => pc("tx") = "none"

(* What a thread inside txlog_append knows of the log.                     *)
InAppend(th) ==
    /\ pc(th) = "a_seek" => local[th].pos = count
    /\ pc(th) = "a_write" => offset = count
    /\ pc(th) \in {"a_load", "a_store"} =>
          count < Len(file) /\ file[count + 1] = local[th].entry
    /\ pc(th) = "a_store" => local[th].pos = count

SerialInv ==
    /\ ThreadsTypeOK /\ Labels /\ Exclusive /\ DownAlone
    /\ count <= Len(file) /\ \A th \in Thread : InAppend(th)

-----------------------------------------------------------------------------
(* The state of the transaction.                                           *)

(* The transaction thread is there while a transaction is active, and      *)
(* uncertain only until the outcome is known.                              *)
Active ==
    /\ wstate.is_active <=> pc("tx") # "none"
    /\ wstate.uncertain => pc("tx") = "uncertain" \/ Concluding

(* The main thread has opened the socket but not yet logged the begin.     *)
Beginning ==
    \/ pc("main") = "send"
    \/ pc("main") \in AppendPC /\ local["main"].entry.type = "LOG_BEGIN"

OutcomeIs(o) ==
    wstate.transaction \in Tid /\ ballot[wstate.transaction].outcome = o

(* The manager has let the worker take part in its transaction.            *)
Admitted ==
    wstate.transaction \in Tid /\ ballot[wstate.transaction].admitted

(* What each thread is appending, or rolling back for.                     *)
MainEntry ==
    /\ pc("main") \in AppendPC =>
        LET e == local["main"].entry
        IN  \/ /\ e.type = "LOG_BEGIN" /\ e.tid = wstate.transaction
               /\ local["main"].ret = "idle" /\ pc("tx") = "recv"
            \/ /\ e.type = "LOG_UPDATE" /\ e.old = store /\ Admitted
               /\ local["main"].ret = "set" /\ pc("tx") = "recv"
            \/ /\ e.type = "LOG_ABORT" /\ store = mark /\ count > 0
               /\ \/ local["main"].ret = "idle" /\ pc("tx") = "none"
                  \/ /\ local["main"].ret = "flags" /\ pc("tx") = "recv"
                     /\ e.tid = wstate.transaction
    /\ pc("main") \in RollbackPC =>
          \/ local["main"].ret = "idle" /\ pc("tx") = "none"
          \/ local["main"].ret = "flags" /\ pc("tx") = "recv"
    /\ pc("main") \in {"send", "set"} => pc("tx") = "recv"

TxEntry ==
    /\ pc("tx") \in AppendPC =>
        LET e == local["tx"].entry
        IN  /\ e.tid = wstate.transaction /\ e.tid \in Tid
            /\ \/ e.type = "LOG_PREPARED" /\ local["tx"].ret = "vote_prepared"
               \/ /\ e.type = "LOG_COMMIT" /\ local["tx"].ret = "conclude"
                  /\ OutcomeIs("COMMIT")
               \/ /\ e.type = "LOG_ABORT" /\ local["tx"].ret = "conclude"
                  /\ OutcomeIs("ABORT") /\ store = mark
    /\ pc("tx") \in RollbackPC => OutcomeIs("ABORT")
    /\ pc("tx") \in {"recv", "vote_prepared", "vote_abort", "voted"} =>
          wstate.transaction \in Tid

TxControl == Active /\ MainEntry /\ TxEntry

(* The manager answers only whom it knows, and keeps whom it has let in.   *)
DecidesJoined ==
    \A t \in Tid :
        /\ ballot[t].outcome # "none" \/ ballot[t].admitted => ballot[t].joined
        /\ ballot[t].outcome = "TX_ERROR" => ~ballot[t].admitted

-----------------------------------------------------------------------------
(* What the log says.                                                      *)

(* Every entry is one that was written, and the first is a begin.          *)
LogFilled ==
    /\ \A i \in 1..count : Log[i].type \in LogEntryType
    /\ count > 0 => Log[1].type = "LOG_BEGIN"

(* The last begin, commit or abort is of the transaction under way.        *)
MarkOfTransaction ==
    /\ pc("tx") # "none" /\ ~Beginning =>
          count > 0 /\ Log[StopsAt(Log)].tid = wstate.transaction
    /\ LastType = "LOG_PREPARED" => Log[StopsAt(Log)].tid = Log[count].tid

(* With PREPARED as the last entry, the thread is about to vote or waits   *)
(* for the outcome.                                                        *)
PreparedLast ==
    /\ LastType = "LOG_PREPARED" =>
          \/ pc("main") = "down"
          \/ /\ pc("tx") \in {"vote_prepared", "voted", "uncertain"} \/ Concluding
             /\ pc("tx") # "conclude"
             /\ Log[count].tid = wstate.transaction
    /\ pc("tx") = "vote_prepared" => LastType = "LOG_PREPARED"

(* Outside a transaction, and before the manager has let the worker in,    *)
(* nothing is open.                                                        *)
Settled == count = 0 \/ LastType \in MarkType

SettledWhen ==
    \/ pc("main") \in {"idle", "flags"} /\ pc("tx") = "none"
    \/ pc("tx") \in {"conclude", "closing"}
    \/ Beginning
    \/ pc("tx") = "recv" /\ ~Admitted

LogContent ==
    /\ LogFilled /\ MarkOfTransaction /\ PreparedLast
    /\ SettledWhen => Settled
    /\ pc("main") = "set" => Undone(Log) # {}

(* How far a rollback has come: no begin, commit or abort lies behind it,  *)
(* and the oldest update behind it is undone.                              *)
RolledBackTo(pos) ==
    /\ pos <= count
    /\ \A i \in (pos + 1)..count :
          /\ Log[i].type \notin MarkType
          /\ Log[i].type = "LOG_UPDATE"
               /\ (\A j \in (pos + 1)..(i - 1) : Log[j].type # "LOG_UPDATE")
             => store = Log[i].old

InRollback(th) ==
    /\ pc(th) \in RollbackPC => RolledBackTo(local[th].pos)
    /\ pc(th) = "r_read" => offset = local[th].pos - 1
    /\ pc(th) = "r_apply" => local[th].entry = Log[local[th].pos]

CommitsDecided ==
    \A t \in Tid : Logged(Log, "LOG_COMMIT", t) => ballot[t].outcome = "COMMIT"

ThreadsInv ==
    /\ SerialInv /\ TxControl /\ DecidesJoined /\ LogContent
    /\ \A th \in Thread : InRollback(th)
    /\ Recoverable /\ CommitsDecided /\ PromiseRemembered
=============================================================================
