------------------------------ MODULE TxSystem ------------------------------
(***************************************************************************)
(* The whole system: one transaction manager (TManager), its workers       *)
(* (TWorker), the client that gives them commands, and the network between *)
(* them.  The processes share nothing but datagrams.                       *)
(***************************************************************************)
EXTENDS TManagerSpec, TWorker

(* The workers send every kind of request, and open a port again.          *)
ASSUME TxSystemAssumption == Sends = TxRequest \cup TestRequest /\ Reopens

sysVars == <<netVars, tmVars, wVars, mayVote>>

(* The sockets whose thread is in its main loop.                           *)
VotingSockets ==
    {wstate[w].server : w \in {w \in Worker : wstate[w].thread = "running"}}

SysTypeOK == TMTypeOK /\ WTypeOK

SysInit == TMInit /\ WInit /\ mayVote = {}

(* A step of the manager, and one of the workers.                          *)
ManagerDoes(A) == A /\ UNCHANGED <<wVars, mayVote>>
WorkerDoes(A)  == A /\ UNCHANGED tmVars /\ mayVote' = VotingSockets'

SysNext ==
    \/ ManagerDoes(TMNext)
    \/ \E w \in Worker : WorkerDoes(WNext(w))

SysSpec == SysInit /\ [][SysNext]_sysVars

-----------------------------------------------------------------------------
(* Fairness.  A process that died is started again, and runs; processes    *)
(* crash any number of times but not for ever; and the link is fair-lossy: *)
(* of a datagram sent again and again, some copy gets through.  Nothing is *)
(* assumed of the client, nor of the delivery of votes, which are sent     *)
(* only once.                                                              *)

ManagerRestarts == ManagerDoes(ManagerStarts \/ RestoreEntry \/ RestoreEnds)

AskAnswered(w) ==
    ManagerDoes(\E m \in toManager : m.from = wstate[w].server /\ HandleAsk(m))

LearnsOutcome(w) == WorkerDoes(LearnsCommit(w) \/ LearnsAbort(w))

CrashesEnd ==
    <>[][~ManagerCrashes /\ \A w \in Worker : ~WorkerCrashes(w)]_sysVars

Fairness ==
    /\ WF_sysVars(ManagerRestarts)
    /\ \A w \in Worker :
          /\ WF_sysVars(WorkerDoes(Starts(w)))
          /\ WF_sysVars(WorkerDoes(Asks(w)))
          /\ SF_sysVars(AskAnswered(w))
          /\ SF_sysVars(LearnsOutcome(w))
    /\ CrashesEnd

LossyNext == SysNext \/ (Loses /\ UNCHANGED <<tmVars, wVars, mayVote>>)

LiveSpec == SysInit /\ [][LossyNext]_sysVars /\ Fairness

(* The same on a network that loses nothing, so that a vote that is sent   *)
(* is counted and every thread does what it is asked to.                   *)
Reliable ==
    /\ SF_sysVars(ManagerDoes(\E m \in toManager : m.type \in VoteType
                                                    /\ HandleMessage(m)))
    /\ \A w \in Worker : SF_sysVars(WorkerDoes(TransactionThread(w)))

ReliableSpec == SysSpec /\ Fairness /\ Reliable

-----------------------------------------------------------------------------
(* The manager in this system is the manager of TManagerSpec: a socket     *)
(* votes at most once, only when asked to, and a thread recovered after a  *)
(* crash does not vote again.  So what is proved there of the manager, for *)
(* any number of sockets and transactions, holds here.                     *)
ManagerSpecification == MSpec

(* Atomicity, first half: a worker writes COMMIT for a transaction in its  *)
(* log only if the manager has committed it, although the datagrams that   *)
(* tell it so carry no transaction id.                                     *)
WorkerCommitsAgree ==
    \A w \in Worker, t \in Tid :
        Logged(wlog[w], "LOG_COMMIT", t) => Committed(t)

(* w has logged, at position i, its promise to commit transaction t.       *)
PromisedAt(w, t, i) ==
    /\ i \in 1..Len(wlog[w])
    /\ wlog[w][i].type = "LOG_PREPARED"
    /\ wlog[w][i].tid = t

(* The first begin, commit or abort entry after position i is at j.        *)
NextMark(w, i, j) ==
    /\ j \in 1..Len(wlog[w])
    /\ j > i /\ wlog[w][j].type \in MarkType
    /\ \A k \in 1..Len(wlog[w]) : i < k /\ k < j => wlog[w][k].type \notin MarkType

(* Atomicity, second half ("we're uncertain! force wait for a reply"): a   *)
(* worker that has logged PREPARED for a transaction does not undo it      *)
(* afterwards, across crashes and restarts of either side, unless the      *)
(* manager has not committed it.                                           *)
VoteHonoured ==
    \A w \in Worker, t \in Tid : \A i, j \in 1..Len(wlog[w]) :
        /\ PromisedAt(w, t, i)
        /\ NextMark(w, i, j)
        /\ wlog[w][j].type = "LOG_ABORT"
        => ~Committed(t)

(* Atomicity, end to end, from one worker to another and without the       *)
(* manager's log: once a worker has written COMMIT for a transaction, no   *)
(* worker has voted against it, and none that had promised to commit it    *)
(* has undone it, on whichever side of a crash.                            *)
AllOrNothing ==
    \A v \in Worker, t \in Tid : Logged(wlog[v], "LOG_COMMIT", t) =>
        /\ \A m \in votes : m.type = "ABORT" => m.tid # t
        /\ \A w \in Worker : \A i, j \in 1..Len(wlog[w]) :
              PromisedAt(w, t, i) /\ NextMark(w, i, j) =>
                  wlog[w][j].type # "LOG_ABORT"

(* "Workers handle crashes by rolling back to their previous state": when  *)
(* a worker logs ABORT, its store is as it was at the last begin, commit   *)
(* or abort entry of its log, however many updates, crashes and partial    *)
(* transactions lie between.                                               *)
RollbackRestores ==
    [][\A w \in Worker :
          (/\ Len(wlog'[w]) > Len(wlog[w])
           /\ wlog'[w][Len(wlog'[w])].type = "LOG_ABORT")
          => store'[w] = mark[w]]_sysVars

(* The worker has promised to commit t and has no outcome yet.             *)
InDoubt(w, t) ==
    \E i \in 1..Len(wlog[w]) :
        /\ PromisedAt(w, t, i)
        /\ \A j \in 1..Len(wlog[w]) : ~NextMark(w, i, j)

(* "If they were in the middle of a transaction they ask the transaction   *)
(* manager for the result": a worker in doubt about a transaction that is  *)
(* decided finds out, even if the first answers are lost and the processes *)
(* crash and restart meanwhile.                                            *)
DoubtEnds ==
    \A w \in Worker, t \in Tid :
        (InDoubt(w, t) /\ (Committed(t) \/ Aborted(t))) ~> ~InDoubt(w, t)

(* "Manager handles the situation where workers crash during a             *)
(* transaction": a worker in doubt finds out, whatever the other workers   *)
(* do.                                                                     *)
NoBlocking == \A w \in Worker, t \in Tid : InDoubt(w, t) ~> ~InDoubt(w, t)
=============================================================================
