---------------------------- MODULE TManagerSpec ----------------------------
(***************************************************************************)
(* The manager of TManager with the least it needs to know of the workers: *)
(* the discipline that src/tworker.c and src/tx_worker_thread.c keep on    *)
(* each transaction socket.  TxSystem, which models the workers in full,   *)
(* is checked to implement this specification.                             *)
(*                                                                         *)
(* A socket is opened for a transaction and sends BEGINTX or JOINTX for    *)
(* it.  Its thread votes when it is asked to prepare, once, because it     *)
(* leaves its main loop with the vote.  A socket that is opened a second   *)
(* time, on the port kept in the log header, belongs to a thread that      *)
(* starts in the uncertain loop and does not vote.                         *)
(***************************************************************************)
EXTENDS TManager

CONSTANTS
    Sends,   \* the kinds of request the clients of this instance send
    Reopens  \* may a socket be opened a second time on the same port?

ASSUME EnvAssumption ==
    /\ Sends \subseteq TxRequest \cup TestRequest
    /\ Reopens \in BOOLEAN

mVars == <<netVars, tmVars, envVars>>

EnvTypeOK ==
    /\ bound \in [Port -> SUBSET Tid]
    /\ mayVote \subseteq Port

MTypeOK == TMTypeOK /\ EnvTypeOK

-----------------------------------------------------------------------------
(* BEGINTX and JOINTX in the worker: tx_manager_spawn, then the request.   *)
SocketOpens(p, t, type) ==
    /\ bound[p] # {} => Reopens
    /\ bound' = [bound EXCEPT ![p] = @ \cup {t}]
    /\ \/ bound[p] = {} /\ mayVote' = mayVote \cup {p}
       \/ mayVote' = mayVote \ {p}
    /\ WorkerSends(Request(type, p, t))
    /\ UNCHANGED <<toWorker, votes, tmVars>>

(* PREPARE_TO_COMMIT in the transaction thread.                            *)
SocketVotes(p, t, type) ==
    /\ p \in mayVote
    /\ t \in bound[p]
    /\ Reply("PREPARE_TO_COMMIT", p) \in toWorker
    /\ mayVote' = mayVote \ {p}
    /\ WorkerSends(Request(type, p, t))
    /\ votes' = votes \cup {Request(type, p, t)}
    /\ UNCHANGED <<toWorker, bound, tmVars>>

(* COMMIT from the client, ASK from the uncertain loop.                    *)
SocketRequests(p, t, type) ==
    /\ t \in bound[p]
    /\ WorkerSends(Request(type, p, t))
    /\ UNCHANGED <<toWorker, votes, envVars, tmVars>>

(* DELAY_RESPONSE, COMMIT_CRASH, ABORT_CRASH passed on by the worker.      *)
SocketPassesOn(p, type) ==
    /\ bound[p] # {}
    /\ WorkerSends(Request(type, p, 0))
    /\ UNCHANGED <<toWorker, votes, envVars, tmVars>>

(* The thread leaves its main loop without a vote, or dies.                *)
SocketRetires(p) ==
    /\ mayVote' = mayVote \ {p}
    /\ UNCHANGED <<netVars, bound, tmVars>>

EnvNext ==
    \E p \in Port :
        \/ \E t \in Tid, type \in {"BEGINTX", "JOINTX"} \cap Sends :
               SocketOpens(p, t, type)
        \/ \E t \in Tid, type \in VoteType \cap Sends :
               SocketVotes(p, t, type)
        \/ \E t \in Tid, type \in ResentType \cap Sends :
               SocketRequests(p, t, type)
        \/ \E type \in TestRequest \cap Sends : SocketPassesOn(p, type)
        \/ SocketRetires(p)

MInit ==
    /\ TMInit
    /\ bound = [p \in Port |-> {}]
    /\ mayVote = {}

MNext == (TMNext /\ UNCHANGED envVars) \/ EnvNext

MSpec == MInit /\ [][MNext]_mVars

-----------------------------------------------------------------------------
(* A decision, once logged, is final: the log never holds a commit and an  *)
(* abort of the same transaction, whatever order votes, repeated commit    *)
(* requests, crashes and restarts come in.                                 *)
DecisionStable == \A t \in Tid : ~(Committed(t) /\ Aborted(t))

(* "Check if all workers are prepared": a commit is logged only when no    *)
(* socket has voted, or will vote, against the transaction.                *)
CommitUnanimous == \A v \in votes : v.type = "ABORT" => ~Committed(v.tid)

(* nodeCount, a uint32_t that is only ever counted down after the vote has *)
(* begun, never wraps round: it stays within the number of nodes.          *)
CountBounded == \A i \in Slot : txs[i].nodeCount <= Len(txs[i].nodes)

(* An outcome is sent to a socket only if the log records that outcome for *)
(* a transaction the socket was opened for.  The datagram itself carries   *)
(* no transaction id, so this is all a worker can rely on.                 *)
RepliesMatchLog ==
    \A m \in toWorker :
        /\ m.type = "COMMIT" => \E t \in bound[m.to] : Committed(t)
        /\ m.type = "ABORT"  => \E t \in bound[m.to] : Aborted(t)

(* When the manager serves requests, every transaction in its log is       *)
(* decided or still in the table: none is forgotten by a crash, by         *)
(* recovery, or by a slot given to another transaction.                    *)
NoOrphan ==
    mode = "up" =>
        \A t \in Tid : Begun(t) => Committed(t) \/ Aborted(t)
                                     \/ ~NotInTable(t)

(* A socket takes part in a transaction only while that transaction is in  *)
(* the log: "Join a worker to an existing transaction".                    *)
JoinsExisting ==
    \A i \in Slot : txs[i].nodes # <<>> => Begun(txs[i].tid)

(* What has become of transaction t, according to the log.  A log with a   *)
(* commit and an abort of t gives an outcome AtomicCommit does not know.   *)
OutcomeOf(t) ==
    CASE Committed(t) /\ Aborted(t) -> "contradictory"
      [] Committed(t) /\ ~Aborted(t) -> "committed"
      [] ~Committed(t) /\ Aborted(t) -> "aborted"
      [] ~Committed(t) /\ ~Aborted(t) /\ Begun(t) -> "open"
      [] OTHER -> "none"

AC == INSTANCE AtomicCommit WITH
        outcome <- [t \in Tid |-> OutcomeOf(t)],
        vetoed  <- {v.tid : v \in {v \in votes : v.type = "ABORT"}}

(* The manager, with its crashes, recoveries and lost messages, implements *)
(* atomic commitment.                                                      *)
ImplementsAtomicCommit == AC!ACSpec
=============================================================================
