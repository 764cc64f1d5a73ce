---------------------------- MODULE TxSystemInv ----------------------------
(***************************************************************************)
(* The inductive invariants of TxSystem.  DisciplineInv, which needs no    *)
(* assumption, says which socket a worker has and what it was opened for:  *)
(* it makes every step of a worker one that TManagerSpec allows.  The      *)
(* others rest on what is known of the stack and of the client.            *)
(***************************************************************************)
EXTENDS TxSystem, TManagerInv

LastEntry(w) == wlog[w][Len(wlog[w])]

(* A transaction thread belongs to an active worker and has an open socket *)
(* until it closes it; the port is the one in the header of the log, and   *)
(* it was opened for the worker's transaction.                             *)
ThreadActive(w) == wstate[w].thread = "none" \/ wstate[w].is_active

SocketOpen(w) ==
    wstate[w].thread \in {"none", "closed"} \/ wstate[w].server # NoPort

SocketBound(w) ==
    wstate[w].server # NoPort =>
        /\ wstate[w].server = listen[w]
        /\ wstate[w].transaction \in bound[listen[w]]

(* The port in the header was opened, and, while the last entry is a       *)
(* PREPARED, which makes the worker open it again, for that transaction.   *)
PortOpened(w) == listen[w] # NoPort => bound[listen[w]] # {}

PromisePort(w) ==
    LastIs(w, "LOG_PREPARED") =>
        listen[w] # NoPort /\ LastEntry(w).tid \in bound[listen[w]]

WorkerInv(w) ==
    /\ ThreadActive(w) /\ SocketOpen(w) /\ SocketBound(w)
    /\ PortOpened(w) /\ PromisePort(w)

(* No two workers have the same port.                                      *)
PortsApart ==
    \A v, w \in Worker : v # w /\ listen[w] # NoPort => listen[v] # listen[w]

SocketsKnown == mayVote = VotingSockets

DisciplineInv ==
    /\ MTypeOK /\ RestoreInLog /\ WTypeOK
    /\ SocketsKnown /\ PortsApart /\ \A w \in Worker : WorkerInv(w)

-----------------------------------------------------------------------------
(* With a clean stack a worker is uncertain only in the uncertain loop, so *)
(* that no port is opened for two transactions.                            *)
CleanStack == StackFlag \subseteq {FALSE}

UncertainInLoop ==
    \A w \in Worker : wstate[w].uncertain => wstate[w].thread = "uncertain"

OneTransaction == \A p \in Port : \A t, u \in bound[p] : t = u

PortInv == UncertainInLoop /\ OneTransaction

-----------------------------------------------------------------------------
(* Worker w has promised at position i, and the log has no outcome yet.    *)
OpenAt(w, i) ==
    /\ i \in 1..Len(wlog[w]) /\ wlog[w][i].type = "LOG_PREPARED"
    /\ \A k \in 1..Len(wlog[w]) : i < k => wlog[w][k].type \notin MarkType

(* With a client that leaves a worker alone between vote and outcome: an   *)
(* open promise is the last entry of the log.                              *)
PromiseLast == \A w \in Worker : \A i \in 1..Len(wlog[w]) :
    OpenAt(w, i) => i = Len(wlog[w])

(* A promise that was undone was one that the manager had aborted.         *)
UndoneAborted ==
    \A w \in Worker, t \in Tid : \A i, j \in 1..Len(wlog[w]) :
        PromisedAt(w, t, i) /\ NextMark(w, i, j) /\ wlog[w][j].type = "LOG_ABORT"
            => Aborted(t)

PromiseInv == PromiseLast /\ UndoneAborted

-----------------------------------------------------------------------------
(* With a clean stack: a log starts with a begin; a worker that runs with  *)
(* PREPARED as its last entry is in the uncertain loop; an active worker   *)
(* has begun a transaction; and while a worker is active or updates are in *)
(* the log, undoing them yields the marked store.                          *)
StartsWithBegin(w) == wlog[w] # <<>> => wlog[w][1].type = "LOG_BEGIN"

PreparedWaits(w) ==
    LastIs(w, "LOG_PREPARED") /\ wstate[w].up => wstate[w].thread = "uncertain"

ActiveLogged(w) == wstate[w].is_active => wlog[w] # <<>> /\ wstate[w].up

InTransaction(w) ==
    \/ wstate[w].is_active
    \/ LastIs(w, "LOG_PREPARED")
    \/ Undone(wlog[w]) # {}

MarkKept(w) == InTransaction(w) => RolledBackStore(wlog[w], store[w]) = mark[w]

StoreInv ==
    \A w \in Worker : /\ StartsWithBegin(w) /\ PreparedWaits(w)
                      /\ ActiveLogged(w) /\ MarkKept(w)
=============================================================================
