--------------------------- MODULE TManagerProofs ---------------------------
(***************************************************************************)
(* Proofs about TManagerSpec, for any number of sockets, transactions,     *)
(* slots and nodes, and any set of requests.                               *)
(***************************************************************************)
EXTENDS TManagerInv, FiniteSetTheorems, TLAPS

-----------------------------------------------------------------------------
(* Facts about the log.                                                    *)

(* What txlog_append does to the entries and to the question whether a     *)
(* transaction has an entry of some type.                                  *)
LEMMA AppendLog ==
    ASSUME NEW log \in Seq(LogEntries), NEW ty \in LogEntryType, NEW t \in Tid
    PROVE  LET new == txlog_append(log, txentry_init(ty, t))
           IN  /\ new \in Seq(LogEntries)
               /\ Len(new) = Len(log) + 1
               /\ \A k \in 1..Len(log) : new[k] = log[k]
               /\ new[Len(log) + 1] = [type |-> ty, tid |-> t]
               /\ \A x, y : Logged(new, x, y)
                              <=> Logged(log, x, y) \/ (x = ty /\ y = t)
<1> DEFINE new == txlog_append(log, txentry_init(ty, t))
<1>1. /\ new \in Seq(LogEntries)
      /\ Len(new) = Len(log) + 1
      /\ \A k \in 1..Len(log) : new[k] = log[k]
      /\ new[Len(log) + 1] = [type |-> ty, tid |-> t]
  BY DEF txlog_append, txentry_init, LogEntries
<1>2. ASSUME NEW x, NEW y
      PROVE  Logged(new, x, y) <=> Logged(log, x, y) \/ (x = ty /\ y = t)
  <2> HIDE DEF new
  <2>1. 1..Len(new) = 1..Len(log) \cup {Len(log) + 1}
    BY <1>1
  <2> QED
    BY <1>1, <2>1 DEF Logged
<1> QED
  BY <1>1, <1>2

LEMMA EntryType ==
    ASSUME NEW log \in Seq(LogEntries),
           NEW k \in 1..Len(log)
    PROVE  log[k].type \in LogEntryType /\ log[k].tid \in Tid
<1>1. log[k] \in LogEntries
  OBVIOUS
<1> QED
  BY <1>1 DEF LogEntries

(* An entry of the log that mentions id makes the id not free.             *)
LEMMA FreeId ==
    ASSUME NEW log, NEW id, NEW ty, txlog_free_id(log, id)
    PROVE  ~Logged(log, ty, id)
  BY DEF txlog_free_id, Logged

-----------------------------------------------------------------------------
(* Type correctness.                                                       *)

LEMMA EmptyTableType == EmptyTable \in [Slot -> Transaction]
  BY TManagerAssumption
     DEF EmptyTable, EmptySlot, Transaction, TransactionState

LEMMA CountType ==
    ASSUME NEW n \in 0..(NodeCountMod - 1)
    PROVE  /\ CountUp(n) \in 0..(NodeCountMod - 1)
           /\ CountDown(n) \in 0..(NodeCountMod - 1)
  BY TManagerAssumption DEF CountUp, CountDown

LEMMA SendType ==
    ASSUME NEW tx \in Transaction, NEW type \in ReplyType
    PROVE  sendToAllWorkers(tx, type) \subseteq ToWorker
  BY DEF sendToAllWorkers, Reply, ToWorker, Transaction

LEMMA CheckType ==
    ASSUME NEW t, NEW p \in Port
    PROVE  checkTransactionLog(t, p) \subseteq ToWorker
  BY DEF checkTransactionLog, Reply, ToWorker, ReplyType

(* A request the manager takes from its socket.                            *)
LEMMA ReceiveType ==
    ASSUME MTypeOK, NEW m \in toManager, NEW type, ManagerReceives(m, type)
    PROVE  /\ m \in ToManager
           /\ m.from \in Port
           /\ m.type = type
           /\ type \in TxRequest => m.tid \in Tid
           /\ toManager' \subseteq toManager
           /\ toManager' \subseteq ToManager
  BY DEF MTypeOK, TMTypeOK, NetTypeOK, ManagerReceives, ToManager, TxRequest,
         TestRequest, VoteType, ResentType

LEMMA InitType == MInit => MTypeOK
<1> SUFFICES ASSUME MInit PROVE MTypeOK
  OBVIOUS
<1> USE DEF MInit, TMInit, NetInit
<1>1. NetTypeOK
  BY DEF NetTypeOK
<1>2. txs \in [Slot -> Transaction]
  BY EmptyTableType
<1>3. tmlog \in Seq(LogEntries)
  OBVIOUS
<1>4. restore \in [next : Nat \ {0}, count : Nat]
  OBVIOUS
<1>5. EnvTypeOK
  BY DEF EnvTypeOK
<1> QED
  BY <1>1, <1>2, <1>3, <1>4, <1>5 DEF MTypeOK, TMTypeOK

(* ProcessDies leaves memory well typed.                                   *)
LEMMA DeathType ==
    ASSUME ProcessDies
    PROVE  /\ txs' \in [Slot -> Transaction]
           /\ mode' = "down"
           /\ restore' \in [next : Nat \ {0}, count : Nat]
           /\ commit_crash' \in BOOLEAN
           /\ abort_crash' \in BOOLEAN
<1>1. txs' \in [Slot -> Transaction]
  BY EmptyTableType DEF ProcessDies
<1>2. restore' \in [next : Nat \ {0}, count : Nat]
  BY DEF ProcessDies
<1> QED
  BY <1>1, <1>2 DEF ProcessDies

LEMMA LogType ==
    ASSUME tmlog \in Seq(LogEntries),
           NEW ty \in LogEntryType, NEW t \in Tid,
           tmlog' = txlog_append(tmlog, txentry_init(ty, t))
    PROVE  /\ tmlog' \in Seq(LogEntries)
           /\ Len(tmlog') = Len(tmlog) + 1
  BY AppendLog

(* Changing one slot.                                                      *)
LEMMA SlotType ==
    ASSUME txs \in [Slot -> Transaction], NEW i \in Slot,
           NEW new \in Transaction
    PROVE  [txs EXCEPT ![i] = new] \in [Slot -> Transaction]
  OBVIOUS

TypeInv == MTypeOK /\ RestoreInLog

LEMMA StartType ==
    ASSUME TypeInv, UNCHANGED envVars,
           ManagerStarts \/ RestoreEntry \/ RestoreEnds \/ ManagerCrashes
    PROVE  TypeInv'
<1>0. EnvTypeOK'
  BY DEF TypeInv, MTypeOK, EnvTypeOK, envVars
<1> USE DEF TypeInv, MTypeOK, TMTypeOK, NetTypeOK, RestoreInLog, netVars
<1>1. CASE ManagerStarts
  <2>1. restore' \in [next : Nat \ {0}, count : Nat]
    BY <1>1 DEF ManagerStarts
  <2> QED
    BY <1>0, <1>1, <2>1 DEF ManagerStarts
<1>2. CASE RestoreEntry
  <2>1. /\ restore' \in [next : Nat \ {0}, count : Nat]
        /\ restore'.count = restore.count
    BY <1>2 DEF RestoreEntry
  <2>0. tmlog[restore.next].tid \in Tid
    <3>1. restore.next \in 1..Len(tmlog)
      BY <1>2 DEF RestoreEntry
    <3> QED
      BY <3>1, EntryType
  <2>2. /\ tmlog' \in Seq(LogEntries)
        /\ Len(tmlog') >= Len(tmlog)
    BY <1>2, <2>0, LogType DEF RestoreEntry, LogEntryType
  <2> QED
    BY <1>0, <1>2, <2>1, <2>2 DEF RestoreEntry
<1>3. CASE RestoreEnds
  BY <1>0, <1>3 DEF RestoreEnds
<1>4. CASE ManagerCrashes
  BY <1>0, <1>4, DeathType DEF ManagerCrashes
<1> QED
  BY <1>1, <1>2, <1>3, <1>4

(* Handlers that change neither the log nor the table.                     *)
Answers(m) ==
    \/ HandleAsk(m) \/ BeginRefused(m) \/ JoinRefused(m) \/ JoinUnknown(m)
    \/ CommitRepeated(m) \/ CommitUnknown(m) \/ AbortUnknown(m)
    \/ PreparedAfterAbort(m)
    \/ SetCommitCrash(m) \/ SetAbortCrash(m) \/ UnknownCommand(m)

LEMMA AnswersEffect ==
    ASSUME MTypeOK, NEW m \in toManager, Answers(m)
    PROVE  /\ mode = "up"
           /\ \E type \in TxRequest \cup TestRequest : ManagerReceives(m, type)
           /\ \/ toWorker' = toWorker
              \/ /\ m.type \in TxRequest
                 /\ \/ toWorker' = toWorker \cup checkTransactionLog(m.tid, m.from)
                    \/ toWorker' = toWorker \cup {Reply("TX_ERROR", m.from)}
           /\ UNCHANGED <<txs, tmlog, mode, restore, votes>>
           /\ commit_crash' \in BOOLEAN
           /\ abort_crash' \in BOOLEAN
<1> USE DEF ManagerSends, tmVars, tmMemory, MTypeOK, TMTypeOK, TxRequest,
            TestRequest, ResentType, VoteType
<1>1. CASE HandleAsk(m)
  BY <1>1 DEF HandleAsk, ManagerReceives
<1>2. CASE BeginRefused(m)
  BY <1>2 DEF BeginRefused, ManagerReceives
<1>3. CASE JoinRefused(m)
  BY <1>3 DEF JoinRefused, ManagerReceives
<1>4. CASE JoinUnknown(m)
  BY <1>4 DEF JoinUnknown, ManagerReceives
<1>5. CASE CommitRepeated(m)
  BY <1>5 DEF CommitRepeated, ManagerReceives
<1>6. CASE CommitUnknown(m)
  BY <1>6 DEF CommitUnknown, ManagerReceives
<1>7. CASE AbortUnknown(m)
  BY <1>7 DEF AbortUnknown, ManagerReceives
<1>8. CASE PreparedAfterAbort(m)
  BY <1>8 DEF PreparedAfterAbort, ManagerReceives
<1>9. CASE SetCommitCrash(m)
  BY <1>9 DEF SetCommitCrash, ManagerReceives
<1>10. CASE SetAbortCrash(m)
  BY <1>10 DEF SetAbortCrash, ManagerReceives
<1>11. CASE UnknownCommand(m)
  BY <1>11 DEF UnknownCommand, ManagerReceives
<1> QED
  BY <1>1, <1>2, <1>3, <1>4, <1>5, <1>6, <1>7, <1>8, <1>9, <1>10, <1>11
     DEF Answers

LEMMA HandleType ==
    ASSUME TypeInv, NEW m \in toManager, HandleMessage(m), UNCHANGED envVars
    PROVE  TypeInv'
<1>0. EnvTypeOK'
  BY DEF TypeInv, MTypeOK, EnvTypeOK, envVars
<1>r. ASSUME NEW type \in TxRequest, ManagerReceives(m, type)
      PROVE  /\ m.tid \in Tid
             /\ m.from \in Port
             /\ toManager' \subseteq ToManager
  BY <1>r, ReceiveType DEF TypeInv
<1>t. {"BEGINTX", "JOINTX", "COMMIT", "ABORT", "PREPARED"} \subseteq TxRequest
  BY DEF TxRequest, VoteType, ResentType
<1>l. {"LOG_BEGIN", "LOG_COMMIT", "LOG_ABORT"} \subseteq LogEntryType
  BY DEF LogEntryType
<1> USE DEF TypeInv, MTypeOK, TMTypeOK, NetTypeOK, RestoreInLog
<1>1. CASE Answers(m)
  <2>1. toManager' \subseteq ToManager /\ m.from \in Port
    BY <1>1, AnswersEffect, ReceiveType
  <2>2. toWorker' \subseteq ToWorker
    <3>1. checkTransactionLog(m.tid, m.from) \subseteq ToWorker
      BY <2>1, CheckType
    <3>2. Reply("TX_ERROR", m.from) \in ToWorker
      BY <2>1 DEF Reply, ToWorker, ReplyType
    <3> QED
      BY <1>1, <3>1, <3>2, AnswersEffect
  <2> QED
    BY <1>0, <1>1, <2>1, <2>2, AnswersEffect
<1>2. CASE BeginAccepted(m)
  <2>1. m.tid \in Tid /\ m.from \in Port /\ toManager' \subseteq ToManager
    BY <1>2, <1>r, <1>t DEF BeginAccepted
  <2>2. NewTransaction(m.tid, m.from) \in Transaction
    BY <2>1, TManagerAssumption DEF NewTransaction, Transaction, TransactionState
  <2>3. txs' \in [Slot -> Transaction]
    BY <1>2, <2>2 DEF BeginAccepted
  <2>4. tmlog' \in Seq(LogEntries) /\ Len(tmlog') = Len(tmlog) + 1
    BY <1>2, <2>1, <1>l, LogType DEF BeginAccepted
  <2> QED
    BY <1>0, <1>2, <2>1, <2>3, <2>4 DEF BeginAccepted
<1>3. CASE JoinAccepted(m)
  <2>1. m.from \in Port /\ toManager' \subseteq ToManager
    BY <1>3, <1>r, <1>t DEF JoinAccepted
  <2>2. ASSUME NEW tx \in Transaction
        PROVE  joinTransaction(tx, m.from) \in Transaction
    <3>1. Append(tx.nodes, m.from) \in Seq(Port)
      BY <2>1 DEF Transaction
    <3>2. CountUp(tx.nodeCount) \in 0..(NodeCountMod - 1)
      BY CountType DEF Transaction
    <3> QED
      BY <3>1, <3>2 DEF joinTransaction, Transaction
  <2>3. txs' \in [Slot -> Transaction]
    BY <1>3, <2>2 DEF JoinAccepted
  <2> QED
    BY <1>0, <1>3, <2>1, <2>3 DEF JoinAccepted
<1>4. CASE CommitStartsVote(m)
  <2>1. toManager' \subseteq ToManager
    BY <1>4, <1>r, <1>t DEF CommitStartsVote
  <2>2. PICK i \in Slot :
          /\ txs' = [txs EXCEPT ![i].state = "PREPARE_STATE"]
          /\ toWorker' = toWorker \cup sendToAllWorkers(txs[i], "PREPARE_TO_COMMIT")
    BY <1>4 DEF CommitStartsVote, ManagerSends
  <2>3. [txs[i] EXCEPT !.state = "PREPARE_STATE"] \in Transaction
    BY DEF Transaction, TransactionState
  <2>4. toWorker' \subseteq ToWorker
    BY <2>2, SendType DEF ReplyType
  <2> QED
    BY <1>0, <1>4, <2>1, <2>2, <2>3, <2>4 DEF CommitStartsVote
<1>5. CASE AbortDecided(m)
  <2>1. m.tid \in Tid /\ toManager' \subseteq ToManager
    BY <1>5, <1>r, <1>t DEF AbortDecided
  <2>2. tmlog' \in Seq(LogEntries) /\ Len(tmlog') = Len(tmlog) + 1
    BY <1>5, <2>1, <1>l, LogType DEF AbortDecided
  <2>3. CASE abort_crash
    BY <1>0, <1>5, <2>1, <2>2, <2>3, DeathType DEF AbortDecided
  <2>4. CASE ~abort_crash
    <3>1. PICK i \in Slot :
            /\ txs' = [txs EXCEPT ![i].state = "ABORT_STATE"]
            /\ toWorker' = toWorker \cup sendToAllWorkers(txs[i], "ABORT")
            /\ UNCHANGED <<mode, restore, commit_crash, abort_crash, votes>>
      BY <1>5, <2>4 DEF AbortDecided, ManagerSends
    <3>2. [txs[i] EXCEPT !.state = "ABORT_STATE"] \in Transaction
      BY DEF Transaction, TransactionState
    <3>3. toWorker' \subseteq ToWorker
      BY <3>1, SendType DEF ReplyType
    <3> QED
      BY <1>0, <2>1, <2>2, <3>1, <3>2, <3>3
  <2> QED
    BY <2>3, <2>4
<1>6. CASE PreparedCounted(m)
  <2>1. toManager' \subseteq ToManager
    BY <1>6, <1>r, <1>t DEF PreparedCounted
  <2>2. PICK i \in Slot :
          txs' = [txs EXCEPT ![i].nodeCount = CountDown(@)]
    BY <1>6 DEF PreparedCounted
  <2>3. [txs[i] EXCEPT !.nodeCount = CountDown(@)] \in Transaction
    BY CountType DEF Transaction
  <2> QED
    BY <1>0, <1>6, <2>1, <2>2, <2>3 DEF PreparedCounted
<1>7. CASE CommitDecided(m)
  <2>1. m.tid \in Tid /\ toManager' \subseteq ToManager
    BY <1>7, <1>r, <1>t DEF CommitDecided
  <2>2. tmlog' \in Seq(LogEntries) /\ Len(tmlog') = Len(tmlog) + 1
    BY <1>7, <2>1, <1>l, LogType DEF CommitDecided
  <2>3. CASE commit_crash
    BY <1>0, <1>7, <2>1, <2>2, <2>3, DeathType DEF CommitDecided
  <2>4. CASE ~commit_crash
    <3>1. PICK i \in Slot :
            /\ txs' = [txs EXCEPT ![i] = [@ EXCEPT
                                    !.state = "COMMIT_STATE", !.nodeCount = 0]]
            /\ toWorker' = toWorker \cup sendToAllWorkers(txs[i], "COMMIT")
            /\ UNCHANGED <<mode, restore, commit_crash, abort_crash, votes>>
      BY <1>7, <2>4 DEF CommitDecided, ManagerSends
    <3>2. [txs[i] EXCEPT !.state = "COMMIT_STATE", !.nodeCount = 0] \in Transaction
      <4>1. [txs[i] EXCEPT !.state = "COMMIT_STATE"] \in Transaction
        BY DEF Transaction, TransactionState
      <4>2. 0 \in 0..(NodeCountMod - 1)
        BY TManagerAssumption
      <4>3. \A tx \in Transaction : [tx EXCEPT !.nodeCount = 0] \in Transaction
        BY <4>2 DEF Transaction
      <4> QED
        BY <4>1, <4>3
    <3>4. txs' \in [Slot -> Transaction]
      BY <3>1, <3>2
    <3>5. toWorker' \subseteq ToWorker
      BY <3>1, SendType DEF ReplyType
    <3> QED
      BY <1>0, <2>1, <2>2, <3>1, <3>4, <3>5
  <2> QED
    BY <2>3, <2>4
<1>8. CASE PreparedUnknown(m)
  <2>1. m.from \in Port /\ toManager' \subseteq ToManager
    BY <1>8, <1>r, <1>t DEF PreparedUnknown
  <2>2. toWorker' \subseteq ToWorker
    BY <1>8, <2>1, CheckType DEF PreparedUnknown, ManagerSends
  <2> QED
    BY <1>0, <1>8, <2>1, <2>2, DeathType DEF PreparedUnknown
<1> QED
  BY <1>1, <1>2, <1>3, <1>4, <1>5, <1>6, <1>7, <1>8 DEF HandleMessage, Answers

LEMMA EnvType ==
    ASSUME TypeInv, EnvNext
    PROVE  TypeInv'
<1> USE DEF TypeInv, MTypeOK, TMTypeOK, NetTypeOK, EnvTypeOK, RestoreInLog,
            tmVars, tmMemory, envVars, netVars, WorkerSends
<1>q. ASSUME NEW p \in Port, NEW t \in Tid, NEW type \in TxRequest
      PROVE  /\ Request(type, p, t) \in ToManager
             /\ type \in VoteType => Request(type, p, t) \in Vote
  BY DEF Request, ToManager, Vote
<1>t. /\ {"BEGINTX", "JOINTX"} \subseteq TxRequest
      /\ VoteType \subseteq TxRequest
      /\ ResentType \subseteq TxRequest
  BY DEF TxRequest
<1>1. ASSUME NEW p \in Port, NEW t \in Tid, NEW type \in TxRequest,
             SocketOpens(p, t, type)
      PROVE  TypeInv'
  BY <1>1, <1>q DEF SocketOpens
<1>2. ASSUME NEW p \in Port, NEW t \in Tid, NEW type \in VoteType,
             SocketVotes(p, t, type)
      PROVE  TypeInv'
  BY <1>2, <1>q, <1>t DEF SocketVotes
<1>3. ASSUME NEW p \in Port, NEW t \in Tid, NEW type \in TxRequest,
             SocketRequests(p, t, type)
      PROVE  TypeInv'
  BY <1>3, <1>q DEF SocketRequests
<1>4. ASSUME NEW p \in Port, NEW type \in TestRequest, SocketPassesOn(p, type)
      PROVE  TypeInv'
  <2>1. Request(type, p, 0) \in ToManager
    BY DEF Request, ToManager
  <2> QED
    BY <1>4, <2>1 DEF SocketPassesOn
<1>5. ASSUME NEW p \in Port, SocketRetires(p)
      PROVE  TypeInv'
  BY <1>5 DEF SocketRetires
<1> QED
  BY <1>t, <1>1, <1>2, <1>3, <1>4, <1>5 DEF EnvNext

LEMMA TypeStep == TypeInv /\ [MNext]_mVars => TypeInv'
<1> SUFFICES ASSUME TypeInv, [MNext]_mVars PROVE TypeInv'
  OBVIOUS
<1>1. CASE TMNext /\ UNCHANGED envVars
  BY <1>1, StartType, HandleType DEF TMNext
<1>2. CASE EnvNext
  BY <1>2, EnvType
<1>3. CASE UNCHANGED mVars
  BY <1>3 DEF TypeInv, MTypeOK, TMTypeOK, NetTypeOK, EnvTypeOK, RestoreInLog,
              mVars, netVars, tmVars, tmMemory, envVars
<1> QED
  BY <1>1, <1>2, <1>3 DEF MNext

(* Every state of the manager is well typed: the table holds transactions, *)
(* the log holds entries of real transactions, and recovery never reads    *)
(* beyond the end of the log.  No assumption on the network or on the      *)
(* transaction ids is needed.                                              *)
THEOREM TypeCorrect == MSpec => [](MTypeOK /\ RestoreInLog)
<1>1. MInit => TypeInv
  BY InitType DEF TypeInv, RestoreInLog, MInit, TMInit
<1> QED
  BY <1>1, TypeStep, PTL DEF MSpec, TypeInv
=============================================================================
