--------------------------- MODULE TManagerSafety ---------------------------
(***************************************************************************)
(* The invariant of TManagerInv is inductive, and with it the safety       *)
(* properties of TManagerSpec hold for any number of sockets, transactions,*)
(* slots and nodes, on a network that does not duplicate datagrams and     *)
(* with clients that do not use transaction id 0.                          *)
(***************************************************************************)
EXTENDS TManagerProofs

(* The network does not duplicate, and 0, which marks an empty slot, is    *)
(* not a transaction.  Without the first CommitUnanimous fails, without    *)
(* the second JoinsExisting does.                                          *)
WellBehaved == Duplicates = FALSE /\ 0 \notin Tid

-----------------------------------------------------------------------------
(* Facts about requests, the log and the accounting.                       *)

LEMMA RequestFields ==
    ASSUME NEW type, NEW p, NEW t
    PROVE  /\ Request(type, p, t).type = type
           /\ Request(type, p, t).from = p
           /\ Request(type, p, t).tid = t
  BY DEF Request

LEMMA RequestIs ==
    ASSUME NEW m \in ToManager
    PROVE  m = Request(m.type, m.from, m.tid)
  BY DEF ToManager, Request

LEMMA LoggedTid ==
    ASSUME NEW log \in Seq(LogEntries), NEW ty, NEW t, Logged(log, ty, t)
    PROVE  t \in Tid
  BY EntryType DEF Logged

(* The participants of a transaction are finitely many.                    *)
LEMMA NodesFinite ==
    ASSUME NEW tx \in Transaction
    PROVE  IsFiniteSet(Nodes(tx))
<1>1. tx.nodes \in Seq(Port)
  BY DEF Transaction
<1>2. tx.nodes \in Surjection(1..Len(tx.nodes), Nodes(tx))
  BY <1>1 DEF Surjection, Nodes
<1>3. IsFiniteSet(1..Len(tx.nodes))
  BY <1>1, FS_Interval
<1> QED
  BY <1>2, <1>3, FS_Surjection

LEMMA PendingFinite ==
    ASSUME NEW tx \in Transaction, NEW vs, NEW net
    PROVE  /\ IsFiniteSet(Pending(tx, vs, net))
           /\ Cardinality(Pending(tx, vs, net)) \in Nat
<1>1. Pending(tx, vs, net) \subseteq Nodes(tx)
  BY DEF Pending
<1> QED
  BY <1>1, NodesFinite, FS_Subset, FS_CardinalityType

(* Fewer datagrams under way, fewer votes pending.                         *)
LEMMA CoveredKept ==
    ASSUME NEW tx \in Transaction, NEW vs, NEW net, NEW net2 \in SUBSET net
    PROVE  /\ Pending(tx, vs, net2) \subseteq Pending(tx, vs, net)
           /\ Covered(tx, vs, net) => Covered(tx, vs, net2)
<1>1. Pending(tx, vs, net2) \subseteq Pending(tx, vs, net)
  BY DEF Pending
<1>2. Cardinality(Pending(tx, vs, net2)) <= Cardinality(Pending(tx, vs, net))
  BY <1>1, PendingFinite, FS_Subset
<1>3. tx.nodeCount \in Nat
  BY TManagerAssumption DEF Transaction
<1> QED
  BY <1>1, <1>2, <1>3, PendingFinite DEF Covered

(* An empty slot owes nothing.                                             *)
LEMMA EmptySlotFacts ==
    /\ EmptySlot \in Transaction
    /\ EmptySlot.tid = 0
    /\ EmptySlot.state = "BEGIN_STATE"
    /\ Nodes(EmptySlot) = {}
    /\ \A vs, net : Pending(EmptySlot, vs, net) = {}
    /\ \A vs, net : Covered(EmptySlot, vs, net)
<1>1. EmptySlot \in Transaction
  BY TManagerAssumption DEF EmptySlot, Transaction, TransactionState
<1>2. Nodes(EmptySlot) = {}
  BY DEF EmptySlot, Nodes
<1>3. \A vs, net : Pending(EmptySlot, vs, net) = {}
  BY <1>2 DEF Pending
<1>4. \A vs, net : Covered(EmptySlot, vs, net)
  BY <1>3, FS_EmptySet, TManagerAssumption DEF Covered, EmptySlot
<1> QED
  BY <1>1, <1>2, <1>3, <1>4 DEF EmptySlot

(* What a step may leave alone of the log.                                 *)
LogGrows == \A ty, t : Logged(tmlog, ty, t) => Logged(tmlog', ty, t)

LEMMA LogChange ==
    ASSUME tmlog \in Seq(LogEntries), NEW type \in LogEntryType, NEW id \in Tid,
           tmlog' = txlog_append(tmlog, txentry_init(type, id))
    PROVE  \A ty, t : Logged(tmlog', ty, t)
                        <=> Logged(tmlog, ty, t) \/ (ty = type /\ t = id)
  BY AppendLog

LEMMA AppendKeepsBeginFirst ==
    ASSUME tmlog \in Seq(LogEntries), NEW ty \in LogEntryType, NEW t \in Tid,
           tmlog' = txlog_append(tmlog, txentry_init(ty, t)),
           BeginFirst,
           ty = "LOG_BEGIN" => txlog_free_id(tmlog, t)
    PROVE  BeginFirst'
<1>1. /\ Len(tmlog') = Len(tmlog) + 1
      /\ \A k \in 1..Len(tmlog) : tmlog'[k] = tmlog[k]
      /\ tmlog'[Len(tmlog) + 1] = [type |-> ty, tid |-> t]
  BY AppendLog
<1>2. SUFFICES ASSUME NEW k \in 1..Len(tmlog'), tmlog'[k].type = "LOG_BEGIN",
                      NEW j \in 1..Len(tmlog'), j < k
               PROVE  tmlog'[j].tid # tmlog'[k].tid
  BY DEF BeginFirst
<1>3. j \in 1..Len(tmlog) /\ tmlog'[j] = tmlog[j]
  BY <1>1, <1>2
<1>4. CASE k \in 1..Len(tmlog)
  BY <1>1, <1>2, <1>3, <1>4 DEF BeginFirst
<1>5. CASE k = Len(tmlog) + 1
  BY <1>1, <1>2, <1>3, <1>5 DEF txlog_free_id
<1> QED
  BY <1>1, <1>4, <1>5

-----------------------------------------------------------------------------
(* What the steps have in common.                                          *)

(* A step of the manager takes requests from the network and sends replies *)
(* to sockets that are bound.                                              *)
LEMMA SocketFrame ==
    ASSUME SocketInv, UNCHANGED <<votes, bound, mayVote>>,
           toManager' \subseteq toManager,
           \A r \in toWorker' : r \in toWorker \/ bound[r.to] # {}
    PROVE  SocketInv'
  BY DEF SocketInv, VotesBound, OneVote, VotersFresh, RequestsBound, RepliesBound

(* No step of the manager but CommitStartsVote asks anyone to prepare.     *)
NobodyAsked ==
    \A p \in Port : Reply("PREPARE_TO_COMMIT", p) \in toWorker'
                      => Reply("PREPARE_TO_COMMIT", p) \in toWorker

(* The manager dies.                                                       *)
LEMMA DeathKeeps ==
    ASSUME IInv, WellBehaved, TypeInv', ProcessDies, SocketInv',
           UNCHANGED <<votes, bound, mayVote>>, NobodyAsked, LogGrows,
           BeginFirst', DecisionStable', CommitUnanimous',
           \A p \in mayVote : Reply("PREPARE_TO_COMMIT", p) \in toWorker =>
               \A t \in bound[p] : ~Logged(tmlog', "LOG_COMMIT", t)
    PROVE  IInv'
<1> USE DEF IInv, WellBehaved
<1>1. mode' = "down" /\ \A i \in Slot : txs'[i] = EmptySlot
  BY DEF ProcessDies, EmptyTable
<1>2. \A ty : ~Logged(tmlog', ty, 0)
  BY LoggedTid DEF TypeInv, MTypeOK, TMTypeOK
<1>3. Restoring' /\ NoOrphan'
  BY <1>1 DEF Restoring, NoOrphan
<1>4. TableInv'
  <2>1. EmptyUnlessUp'
    BY DEF EmptyUnlessUp, ProcessDies, EmptyTable, Slot
  <2>2. StatesLogged'
    BY <1>1, <1>2, EmptySlotFacts DEF StatesLogged, Committed
  <2>3. FreeSlots' /\ SlotsDistinct' /\ SlotsBegun' /\ NodesBound'
    BY <1>1, EmptySlotFacts DEF FreeSlots, SlotsDistinct, SlotsBegun, NodesBound
  <2> QED
    BY <2>1, <2>2, <2>3 DEF TableInv
<1>5. VotersTakePart'
  <2>1. \A v \in votes : v.tid # 0
    BY DEF MTypeOK, TMTypeOK, NetTypeOK, Vote
  <2> QED
    BY <1>1, <2>1, EmptySlotFacts DEF VoteInv, VotersTakePart, Begun, LogGrows
<1>6. AskedTakePart'
  <2>1. \A p \in mayVote : p \in Port /\ bound[p] \subseteq Tid
    BY DEF MTypeOK, EnvTypeOK
  <2> QED
    BY <1>1, <2>1, EmptySlotFacts
       DEF VoteInv, AskedTakePart, Begun, Committed, LogGrows, NobodyAsked
<1>7. CountCovers' /\ CommitCounted' /\ AbortVoted'
  BY <1>1, <1>2, EmptySlotFacts DEF CountCovers, CommitCounted, AbortVoted, Aborted
<1> QED
  BY <1>3, <1>4, <1>5, <1>6, <1>7 DEF LogInv, VoteInv, TypeInv

(* The manager changes slot i, which goes on with the same transaction.    *)
LEMMA TouchKeeps ==
    ASSUME IInv, WellBehaved, TypeInv', SocketInv',
           mode = "up", UNCHANGED <<mode, votes, bound, mayVote>>,
           toManager' \subseteq toManager,
           NEW i \in Slot, NEW new \in Transaction,
           txs' = [txs EXCEPT ![i] = new],
           txs[i].tid \in Tid, new.tid = txs[i].tid,
           Nodes(txs[i]) \subseteq Nodes(new),
           \A p \in Nodes(new) : new.tid \in bound[p],
           LogGrows, BeginFirst', DecisionStable', CommitUnanimous',
           \A ty, t : Logged(tmlog', ty, t) => Logged(tmlog, ty, t) \/ t = new.tid,
           /\ new.state = "COMMIT_STATE" => Logged(tmlog', "LOG_COMMIT", new.tid)
           /\ new.state = "ABORT_STATE" => Logged(tmlog', "LOG_ABORT", new.tid)
           /\ new.state = "BEGIN_STATE" => ~Logged(tmlog', "LOG_COMMIT", new.tid),
           Covered(new, votes, toManager'),
           Logged(tmlog', "LOG_COMMIT", new.tid)
               => Pending(new, votes, toManager') = {},
           Logged(tmlog', "LOG_ABORT", new.tid)
               => \E v \in votes : v.type = "ABORT" /\ v.tid = new.tid,
           \A p \in mayVote : Reply("PREPARE_TO_COMMIT", p) \in toWorker' =>
               \A t \in bound[p] :
                   /\ Begun(t) /\ ~Logged(tmlog', "LOG_COMMIT", t)
                   /\ \A j \in Slot : txs[j].tid = t => p \in Nodes(txs[j])
    PROVE  IInv'
<1> USE DEF IInv, WellBehaved
<1>0. txs \in [Slot -> Transaction]
  BY DEF MTypeOK, TMTypeOK
<1>1. /\ txs'[i] = new
      /\ \A j \in Slot : j # i => txs'[j] = txs[j]
      /\ \A j \in Slot : txs'[j].tid = txs[j].tid
  BY <1>0
<1>2. \A j \in Slot : j # i => txs[j].tid # new.tid
  BY DEF TableInv, SlotsDistinct
<1>3. Restoring' /\ NoOrphan'
  <2>1. \A t : NotInTable(t)' => NotInTable(t)
    BY <1>1 DEF NotInTable
  <2>2. \A t : Logged(tmlog', "LOG_BEGIN", t) => Logged(tmlog, "LOG_BEGIN", t)
    BY DEF TableInv, SlotsBegun, Begun
  <2> QED
    BY <2>1, <2>2
       DEF Restoring, LogInv, NoOrphan, Begun, Committed, Aborted, LogGrows
<1>4. TableInv'
  <2>1. EmptyUnlessUp'
    BY DEF EmptyUnlessUp
  <2>2. FreeSlots' /\ SlotsDistinct'
    BY <1>1, <1>2 DEF TableInv, FreeSlots, SlotsDistinct
  <2>3. SlotsBegun'
    BY <1>1 DEF TableInv, SlotsBegun, Begun, LogGrows
  <2>4. StatesLogged'
    BY <1>1, <1>2 DEF TableInv, StatesLogged, Committed, Aborted, LogGrows
  <2>5. NodesBound'
    BY <1>1 DEF TableInv, NodesBound
  <2> QED
    BY <2>1, <2>2, <2>3, <2>4, <2>5 DEF TableInv
<1>5. \A j \in Slot : Nodes(txs[j]) \subseteq Nodes(txs'[j])
  BY <1>1
<1>6. VotersTakePart'
  BY <1>1, <1>5 DEF VoteInv, VotersTakePart, Begun, LogGrows
<1>7. AskedTakePart'
  BY <1>1, <1>5 DEF AskedTakePart, Begun, Committed, LogGrows
<1>8. CountCovers'
  BY <1>0, <1>1, CoveredKept DEF VoteInv, CountCovers
<1>9. CommitCounted'
  <2>1. \A j \in Slot : j # i => Pending(txs[j], votes, toManager')
                                   \subseteq Pending(txs[j], votes, toManager)
    BY <1>0, CoveredKept
  <2> QED
    BY <1>1, <1>2, <2>1 DEF VoteInv, CommitCounted, Committed
<1>10. AbortVoted'
  BY <1>1, <1>2 DEF VoteInv, AbortVoted, Aborted
<1> QED
  BY <1>3, <1>4, <1>6, <1>7, <1>8, <1>9, <1>10 DEF LogInv, VoteInv, TypeInv

-----------------------------------------------------------------------------
(* The steps of the manager, one by one.                                   *)

(* What the invariant says of a request that the manager handles.          *)
LEMMA Received ==
    ASSUME IInv, NEW m \in toManager, NEW type \in TxRequest,
           ManagerReceives(m, type)
    PROVE  /\ m.from \in Port /\ m.tid \in Tid /\ m.type = type
           /\ m.tid \in bound[m.from]
           /\ m = Request(type, m.from, m.tid)
           /\ type \in VoteType => m \in votes
           /\ toManager' \subseteq toManager
           /\ Duplicates = FALSE /\ type \notin ResentType => m \notin toManager'
<1>1. /\ m.from \in Port /\ m.tid \in Tid /\ m.type = type /\ m \in ToManager
      /\ toManager' \subseteq toManager
  BY ReceiveType DEF IInv
<1>2. m = Request(type, m.from, m.tid)
  BY <1>1, RequestIs
<1>3. m.tid \in bound[m.from] /\ (type \in VoteType => m \in votes)
  BY <1>1 DEF IInv, SocketInv, RequestsBound
<1>4. Duplicates = FALSE /\ type \notin ResentType => m \notin toManager'
  BY <1>1 DEF ManagerReceives, Redeliverable
<1> QED
  BY <1>1, <1>2, <1>3, <1>4

LEMMA TxRequests ==
    /\ "BEGINTX" \in TxRequest /\ "JOINTX" \in TxRequest
    /\ "COMMIT" \in TxRequest /\ "ASK" \in TxRequest
    /\ "ABORT" \in TxRequest /\ "PREPARED" \in TxRequest
    /\ "ABORT" \in VoteType /\ "PREPARED" \in VoteType
    /\ "ABORT" \notin ResentType /\ "PREPARED" \notin ResentType
  BY DEF TxRequest, VoteType, ResentType

LEMMA CheckReplies ==
    ASSUME NEW t, NEW p, NEW r \in checkTransactionLog(t, p)
    PROVE  r.to = p /\ r.type # "PREPARE_TO_COMMIT"
  BY DEF checkTransactionLog, Reply

LEMMA AnswersKeep ==
    ASSUME IInv, WellBehaved, TypeInv', UNCHANGED envVars,
           NEW m \in toManager, Answers(m)
    PROVE  IInv'
<1> USE DEF IInv
<1>1. /\ UNCHANGED <<txs, tmlog, mode, restore, votes, bound, mayVote>>
      /\ toManager' \subseteq toManager
  BY AnswersEffect, ReceiveType DEF envVars
<1>2. \A r \in toWorker' : \/ r \in toWorker
                           \/ bound[r.to] # {} /\ r.type # "PREPARE_TO_COMMIT"
  <2>1. CASE toWorker' = toWorker
    BY <2>1
  <2>2. CASE m.type \in TxRequest
    <3>1. bound[m.from] # {}
      BY <2>2 DEF SocketInv, RequestsBound
    <3>2. Reply("TX_ERROR", m.from).to = m.from
          /\ Reply("TX_ERROR", m.from).type # "PREPARE_TO_COMMIT"
      BY DEF Reply
    <3> QED
      BY <3>1, <3>2, AnswersEffect, CheckReplies
  <2> QED
    BY <2>1, <2>2, AnswersEffect
<1>3. SocketInv'
  BY <1>1, <1>2, SocketFrame
<1>4. NobodyAsked
  BY <1>2 DEF NobodyAsked, Reply
<1>5. LogInv' /\ TableInv'
  BY <1>1 DEF LogInv, BeginFirst, Restoring, NoOrphan, DecisionStable, TableInv,
              EmptyUnlessUp, FreeSlots, SlotsDistinct, SlotsBegun, StatesLogged,
              NodesBound, Begun, Committed, Aborted, NotInTable
<1>6. CountCovers' /\ CommitCounted'
  <2>0. txs \in [Slot -> Transaction]
    BY DEF MTypeOK, TMTypeOK
  <2> QED
    BY <1>1, <2>0, CoveredKept DEF VoteInv, CountCovers, CommitCounted, Committed
<1>7. AskedTakePart'
  <2>1. mayVote \subseteq Port
    BY DEF MTypeOK, EnvTypeOK
  <2> QED
    BY <1>1, <1>4, <2>1 DEF VoteInv, AskedTakePart, NobodyAsked, Begun, Committed
<1>8. VotersTakePart' /\ AbortVoted' /\ CommitUnanimous'
  BY <1>1 DEF VoteInv, VotersTakePart, AbortVoted, CommitUnanimous, Begun,
              Committed, Aborted
<1> QED
  BY <1>3, <1>5, <1>6, <1>7, <1>8 DEF VoteInv, TypeInv

LEMMA BeginKeeps ==
    ASSUME IInv, WellBehaved, TypeInv', UNCHANGED envVars,
           NEW m \in toManager, BeginAccepted(m)
    PROVE  IInv'
<1> USE DEF IInv, WellBehaved
<1>0. txs \in [Slot -> Transaction] /\ tmlog \in Seq(LogEntries)
  BY DEF MTypeOK, TMTypeOK
<1>1. /\ m.from \in Port /\ m.tid \in Tid /\ m.tid # 0
      /\ m.tid \in bound[m.from]
      /\ toManager' \subseteq toManager
  BY Received, TxRequests DEF BeginAccepted
<1>2. PICK i \in Slot :
        /\ Reusable(txs[i])
        /\ txs' = [txs EXCEPT ![i] = NewTransaction(m.tid, m.from)]
  BY DEF BeginAccepted, addTransaction
<1>3. /\ UNCHANGED <<toWorker, votes, mode, restore, bound, mayVote>>
      /\ mode = "up"
      /\ tmlog' = txlog_append(tmlog, txentry_init("LOG_BEGIN", m.tid))
      /\ txlog_free_id(tmlog, m.tid)
  BY DEF BeginAccepted, envVars
<1> DEFINE new == NewTransaction(m.tid, m.from)
<1>4. /\ new \in Transaction /\ new.tid = m.tid /\ new.state = "BEGIN_STATE"
      /\ new.nodes = <<m.from>> /\ new.nodeCount = 1 /\ Nodes(new) = {m.from}
  <2>1. new \in Transaction
    BY <1>1, TManagerAssumption DEF NewTransaction, Transaction, TransactionState
  <2> QED
    BY <2>1 DEF NewTransaction, Nodes
<1> HIDE DEF new
<1>5. txs'[i] = new /\ \A j \in Slot : j # i => txs'[j] = txs[j]
  BY <1>0, <1>2 DEF new
<1>6. \A ty, t : Logged(tmlog', ty, t)
                   <=> Logged(tmlog, ty, t) \/ (ty = "LOG_BEGIN" /\ t = m.tid)
  BY <1>0, <1>1, <1>3, LogChange DEF LogEntryType
<1>7. \A ty : ~Logged(tmlog, ty, m.tid)
  BY <1>3, FreeId
<1>8. \A j \in Slot : txs[j].tid # m.tid
  BY <1>1, <1>7 DEF TableInv, SlotsBegun, Begun
<1>9. SocketInv'
  BY <1>1, <1>3, SocketFrame
<1>10. LogInv'
  <2>1. BeginFirst'
    BY <1>0, <1>1, <1>3, AppendKeepsBeginFirst DEF LogInv, LogEntryType
  <2>2. Restoring'
    BY <1>3 DEF Restoring
  <2>3. DecisionStable'
    BY <1>6 DEF LogInv, DecisionStable, Committed, Aborted
  <2>4. ASSUME NEW t \in Tid, Begun(t)', ~Committed(t)', ~Aborted(t)'
        PROVE  ~NotInTable(t)'
    <3>1. CASE t = m.tid
      BY <1>4, <1>5, <3>1 DEF NotInTable
    <3>2. CASE t # m.tid
      <4>1. PICK j \in Slot : txs[j].tid = t
        BY <1>3, <1>6, <2>4, <3>2
           DEF LogInv, NoOrphan, Begun, Committed, Aborted, NotInTable
      <4>2. j # i
        BY <1>2, <1>6, <2>4, <4>1
           DEF Reusable, TableInv, StatesLogged, Committed, Aborted
      <4> QED
        BY <1>5, <4>1, <4>2 DEF NotInTable
    <3> QED
      BY <3>1, <3>2
  <2>5. NoOrphan'
    BY <2>4 DEF NoOrphan
  <2> QED
    BY <2>1, <2>2, <2>3, <2>5 DEF LogInv
<1>11. TableInv'
  <2>1. EmptyUnlessUp'
    BY <1>3 DEF EmptyUnlessUp
  <2>2. FreeSlots' /\ SlotsDistinct'
    BY <1>1, <1>4, <1>5, <1>8 DEF TableInv, FreeSlots, SlotsDistinct
  <2>3. SlotsBegun'
    BY <1>4, <1>5, <1>6 DEF TableInv, SlotsBegun, Begun
  <2>4. StatesLogged'
    BY <1>4, <1>5, <1>6, <1>7 DEF TableInv, StatesLogged, Committed, Aborted
  <2>5. NodesBound'
    BY <1>1, <1>3, <1>4, <1>5 DEF TableInv, NodesBound
  <2> QED
    BY <2>1, <2>2, <2>3, <2>4, <2>5 DEF TableInv
<1>12. VotersTakePart' /\ AskedTakePart'
  BY <1>3, <1>4, <1>5, <1>6, <1>7
     DEF VoteInv, VotersTakePart, AskedTakePart, Begun, Committed
<1>13. CountCovers'
  <2>1. Covered(new, votes, toManager')
    <3>1. Pending(new, votes, toManager') \in SUBSET {m.from}
      BY <1>4 DEF Pending
    <3>2. Cardinality(Pending(new, votes, toManager')) <= 1
      <4>1. IsFiniteSet({m.from}) /\ Cardinality({m.from}) = 1
        BY FS_Singleton
      <4> QED
        BY <3>1, <4>1, FS_Subset
    <3> QED
      BY <1>4, <3>2, TManagerAssumption DEF Covered
  <2> QED
    BY <1>0, <1>1, <1>3, <1>5, <2>1, CoveredKept DEF VoteInv, CountCovers
<1>14. CommitCounted'
  <2>1. \A j \in Slot : Pending(txs[j], votes, toManager')
                          \subseteq Pending(txs[j], votes, toManager)
    BY <1>0, <1>1, CoveredKept
  <2> QED
    BY <1>3, <1>4, <1>5, <1>6, <1>7, <2>1 DEF VoteInv, CommitCounted, Committed
<1>15. AbortVoted' /\ CommitUnanimous'
  BY <1>3, <1>4, <1>5, <1>6, <1>7
     DEF VoteInv, AbortVoted, CommitUnanimous, Aborted, Committed
<1> QED
  BY <1>9, <1>10, <1>11, <1>12, <1>13, <1>14, <1>15 DEF VoteInv, TypeInv

LEMMA JoinKeeps ==
    ASSUME IInv, WellBehaved, TypeInv', UNCHANGED envVars,
           NEW m \in toManager, JoinAccepted(m)
    PROVE  IInv'
<1> USE DEF IInv, WellBehaved
<1>0. txs \in [Slot -> Transaction]
  BY DEF MTypeOK, TMTypeOK
<1>1. /\ m.from \in Port /\ m.tid \in Tid
      /\ m.tid \in bound[m.from]
      /\ toManager' \subseteq toManager
  BY Received, TxRequests DEF JoinAccepted
<1>2. PICK i \in Slot :
        /\ txs[i].tid = m.tid
        /\ txs[i].state = "BEGIN_STATE"
        /\ Len(txs[i].nodes) < MaxNodes
        /\ txs' = [txs EXCEPT ![i] = joinTransaction(txs[i], m.from)]
  BY DEF JoinAccepted, findTransaction, HasRoom
<1>3. /\ UNCHANGED <<toWorker, votes, tmlog, mode, restore, bound, mayVote>>
      /\ mode = "up"
  BY DEF JoinAccepted, envVars
<1> DEFINE new == joinTransaction(txs[i], m.from)
<1>4. /\ new.tid = txs[i].tid /\ new.state = txs[i].state
      /\ new.nodes = Append(txs[i].nodes, m.from)
      /\ new.nodeCount = CountUp(txs[i].nodeCount)
  BY <1>0 DEF joinTransaction, Transaction
<1>5. new \in Transaction
  BY <1>0, <1>2 DEF TypeInv, MTypeOK, TMTypeOK
<1> HIDE DEF new
<1>6. Nodes(new) = Nodes(txs[i]) \cup {m.from}
  <2>1. txs[i].nodes \in Seq(Port)
    BY <1>0 DEF Transaction
  <2>2. 1..Len(new.nodes) = 1..Len(txs[i].nodes) \cup {Len(txs[i].nodes) + 1}
    BY <1>1, <1>4, <2>1
  <2> QED
    BY <1>1, <1>4, <2>1, <2>2 DEF Nodes
<1>7. Covered(new, votes, toManager')
  <2> DEFINE old == Pending(txs[i], votes, toManager')
  <2>1. Pending(new, votes, toManager') \in SUBSET (old \cup {m.from})
    BY <1>4, <1>6 DEF Pending
  <2>2. IsFiniteSet(old) /\ Cardinality(old) \in Nat
    BY <1>0, PendingFinite
  <2>3. Covered(txs[i], votes, toManager')
    BY <1>0, <1>1, CoveredKept DEF VoteInv, CountCovers
  <2>4. Cardinality(old) <= txs[i].nodeCount
        /\ txs[i].nodeCount <= Len(txs[i].nodes)
    BY <2>3 DEF Covered
  <2> HIDE DEF old
  <2>5. Cardinality(Pending(new, votes, toManager')) <= Cardinality(old) + 1
    <3>1. /\ IsFiniteSet(old \cup {m.from})
          /\ Cardinality(old \cup {m.from}) \in Nat
          /\ Cardinality(old \cup {m.from}) <= Cardinality(old) + 1
      BY <2>2, FS_AddElement
    <3>2. Cardinality(Pending(new, votes, toManager')) \in Nat
      BY <1>5, PendingFinite
    <3> QED
      BY <2>1, <2>2, <3>1, <3>2, FS_Subset
  <2>6. txs[i].nodeCount \in Nat /\ txs[i].nodes \in Seq(Port)
    BY <1>0 DEF Transaction
  <2>7. new.nodeCount = txs[i].nodeCount + 1
    BY <1>2, <1>4, <2>4, <2>6, TManagerAssumption DEF CountUp
  <2>8. Len(new.nodes) = Len(txs[i].nodes) + 1
    BY <1>1, <1>4, <2>6
  <2>9. Cardinality(Pending(new, votes, toManager')) \in Nat
    BY <1>5, PendingFinite
  <2> QED
    BY <1>2, <2>2, <2>4, <2>5, <2>6, <2>7, <2>8, <2>9, TManagerAssumption
       DEF Covered
<1>8. SocketInv'
  BY <1>1, <1>3, SocketFrame
<1>9. ~Committed(new.tid)
  BY <1>2, <1>4 DEF TableInv, StatesLogged
<1>10. \A p \in Nodes(new) : new.tid \in bound[p]
  BY <1>1, <1>2, <1>4, <1>6 DEF TableInv, NodesBound
<1>11. BeginFirst' /\ DecisionStable' /\ CommitUnanimous'
  BY <1>3 DEF LogInv, VoteInv, BeginFirst, DecisionStable, CommitUnanimous,
              Committed, Aborted
<1>12. \A p \in mayVote : Reply("PREPARE_TO_COMMIT", p) \in toWorker' =>
               \A t \in bound[p] :
                   /\ Begun(t) /\ ~Logged(tmlog', "LOG_COMMIT", t)
                   /\ \A j \in Slot : txs[j].tid = t => p \in Nodes(txs[j])
  BY <1>3 DEF VoteInv, AskedTakePart, Committed
<1>13. Logged(tmlog', "LOG_ABORT", new.tid)
         => \E v \in votes : v.type = "ABORT" /\ v.tid = new.tid
  BY <1>2, <1>3, <1>4 DEF VoteInv, AbortVoted, Aborted
<1>14. txs' = [txs EXCEPT ![i] = new]
  BY <1>2 DEF new
<1> QED
  BY <1>1, <1>2, <1>3, <1>4, <1>5, <1>6, <1>7, <1>8, <1>9, <1>10, <1>11,
     <1>12, <1>13, <1>14, TouchKeeps DEF LogGrows, Committed

(* sendToAllWorkers reaches the participants, which are bound.             *)
LEMMA Broadcast ==
    ASSUME IInv, NEW i \in Slot, txs[i].tid # 0, NEW type,
           NEW r \in sendToAllWorkers(txs[i], type)
    PROVE  r.type = type /\ r.to \in Nodes(txs[i]) /\ bound[r.to] # {}
<1>1. r.type = type /\ r.to \in Nodes(txs[i])
  BY DEF sendToAllWorkers, Nodes, Reply
<1> QED
  BY <1>1 DEF IInv, TableInv, NodesBound

(* The vote on a transaction begins, perhaps for a second time.  A socket  *)
(* that can still vote has not been counted, so the transaction is not     *)
(* committed.                                                              *)
LEMMA StartVoteKeeps ==
    ASSUME IInv, WellBehaved, TypeInv', UNCHANGED envVars,
           NEW m \in toManager, CommitStartsVote(m)
    PROVE  IInv'
<1> USE DEF IInv, WellBehaved
<1>0. txs \in [Slot -> Transaction] /\ mayVote \subseteq Port
  BY DEF MTypeOK, TMTypeOK, EnvTypeOK
<1>1. m.tid \in Tid /\ m.tid # 0 /\ toManager' \subseteq toManager
  BY Received, TxRequests DEF CommitStartsVote
<1>2. PICK i \in Slot :
        /\ txs[i].tid = m.tid
        /\ txs' = [txs EXCEPT ![i] = [txs[i] EXCEPT !.state = "PREPARE_STATE"]]
        /\ toWorker' = toWorker \cup sendToAllWorkers(txs[i], "PREPARE_TO_COMMIT")
  BY <1>0 DEF CommitStartsVote, findTransaction, ManagerSends
<1>3. UNCHANGED <<votes, tmlog, mode, restore, bound, mayVote>> /\ mode = "up"
  BY DEF CommitStartsVote, envVars
<1> DEFINE new == [txs[i] EXCEPT !.state = "PREPARE_STATE"]
<1>4. /\ new.tid = txs[i].tid /\ new.state = "PREPARE_STATE"
      /\ new.nodes = txs[i].nodes /\ new.nodeCount = txs[i].nodeCount
  BY <1>0 DEF Transaction
<1>5. new \in Transaction
  BY <1>0, <1>2 DEF TypeInv, MTypeOK, TMTypeOK
<1>6. txs' = [txs EXCEPT ![i] = new]
  BY <1>2
<1> HIDE DEF new
<1>7. /\ Nodes(new) = Nodes(txs[i])
      /\ \A vs, net : Pending(new, vs, net) = Pending(txs[i], vs, net)
      /\ \A vs, net : Covered(new, vs, net) <=> Covered(txs[i], vs, net)
  BY <1>4 DEF Nodes, Pending, Covered
<1>8. /\ Covered(txs[i], votes, toManager')
      /\ Pending(txs[i], votes, toManager') \subseteq Pending(txs[i], votes, toManager)
  BY <1>0, <1>1, CoveredKept DEF VoteInv, CountCovers
<1>9. SocketInv'
  BY <1>1, <1>2, <1>3, Broadcast, SocketFrame
<1>10. ASSUME NEW p \in mayVote, Reply("PREPARE_TO_COMMIT", p) \in toWorker',
              NEW t \in bound[p]
       PROVE  /\ Begun(t) /\ ~Committed(t)
              /\ \A j \in Slot : txs[j].tid = t => p \in Nodes(txs[j])
  <2>1. CASE Reply("PREPARE_TO_COMMIT", p) \in toWorker
    BY <1>10, <2>1 DEF VoteInv, AskedTakePart
  <2>2. CASE Reply("PREPARE_TO_COMMIT", p)
               \in sendToAllWorkers(txs[i], "PREPARE_TO_COMMIT")
    <3>1. p \in Nodes(txs[i])
      BY <1>1, <1>2, <2>2, Broadcast DEF Reply
    <3>2. t = txs[i].tid
      BY <1>10, <3>1 DEF TableInv, NodesBound, SocketInv, VotersFresh
    <3>3. Begun(t) /\ \A j \in Slot : txs[j].tid = t => j = i
      BY <1>1, <1>2, <3>2 DEF TableInv, SlotsBegun, SlotsDistinct
    <3>4. p \in Pending(txs[i], votes, toManager)
      BY <1>10, <3>1, RequestFields DEF Pending, SocketInv, VotersFresh
    <3>5. ~Committed(t)
      BY <3>2, <3>4 DEF VoteInv, CommitCounted
    <3> QED
      BY <3>1, <3>3, <3>5
  <2> QED
    BY <1>2, <1>10, <2>1, <2>2
<1>11. \A p \in Nodes(new) : new.tid \in bound[p]
  BY <1>4, <1>7 DEF TableInv, NodesBound
<1>12. BeginFirst' /\ DecisionStable' /\ CommitUnanimous'
  BY <1>3 DEF LogInv, VoteInv, BeginFirst, DecisionStable, CommitUnanimous,
              Committed, Aborted
<1>13. /\ Logged(tmlog', "LOG_ABORT", new.tid)
            => \E v \in votes : v.type = "ABORT" /\ v.tid = new.tid
       /\ Logged(tmlog', "LOG_COMMIT", new.tid)
            => Pending(new, votes, toManager') = {}
  BY <1>3, <1>4, <1>7, <1>8
     DEF VoteInv, AbortVoted, CommitCounted, Aborted, Committed
<1> QED
  BY <1>1, <1>2, <1>3, <1>4, <1>5, <1>6, <1>7, <1>8, <1>9, <1>10, <1>11,
     <1>12, <1>13, TouchKeeps DEF LogGrows, Committed

(* A vote against arrives.  Nobody has committed the transaction.          *)
LEMMA AbortKeeps ==
    ASSUME IInv, WellBehaved, TypeInv', UNCHANGED envVars,
           NEW m \in toManager, AbortDecided(m)
    PROVE  IInv'
<1> USE DEF IInv, WellBehaved
<1>0. txs \in [Slot -> Transaction] /\ tmlog \in Seq(LogEntries)
      /\ mayVote \subseteq Port
  BY DEF MTypeOK, TMTypeOK, EnvTypeOK
<1>1. /\ m.tid \in Tid /\ m.tid # 0 /\ toManager' \subseteq toManager
      /\ m \in votes /\ m.type = "ABORT"
  <2>1. ManagerReceives(m, "ABORT")
    BY DEF AbortDecided
  <2> QED
    BY <2>1, Received, TxRequests
<1>2. /\ UNCHANGED <<votes, bound, mayVote>> /\ mode = "up"
      /\ tmlog' = txlog_append(tmlog, txentry_init("LOG_ABORT", m.tid))
  BY DEF AbortDecided, envVars
<1>3. \A ty, t : Logged(tmlog', ty, t)
                   <=> Logged(tmlog, ty, t) \/ (ty = "LOG_ABORT" /\ t = m.tid)
  BY <1>0, <1>1, <1>2, LogChange DEF LogEntryType
<1>4. ~Committed(m.tid)
  BY <1>1 DEF VoteInv, CommitUnanimous
<1>5. /\ LogGrows /\ BeginFirst' /\ DecisionStable' /\ CommitUnanimous'
      /\ \A t : ~Committed(t) => ~Logged(tmlog', "LOG_COMMIT", t)
  <2>1. BeginFirst'
    BY <1>0, <1>1, <1>2, AppendKeepsBeginFirst DEF LogInv, LogEntryType
  <2> QED
    BY <1>2, <1>3, <1>4, <2>1 DEF LogInv, VoteInv, LogGrows, DecisionStable,
                                  CommitUnanimous, Committed, Aborted
<1>6. CASE abort_crash
  <2>1. ProcessDies /\ toWorker' = toWorker
    BY <1>6 DEF AbortDecided
  <2>2. SocketInv'
    BY <1>1, <1>2, <2>1, SocketFrame
  <2>3. NobodyAsked
    BY <2>1 DEF NobodyAsked
  <2>4. \A p \in mayVote : Reply("PREPARE_TO_COMMIT", p) \in toWorker =>
               \A t \in bound[p] : ~Logged(tmlog', "LOG_COMMIT", t)
    BY <1>5 DEF VoteInv, AskedTakePart
  <2> QED
    BY <1>2, <1>5, <2>1, <2>2, <2>3, <2>4, DeathKeeps
<1>7. CASE ~abort_crash
  <2>1. PICK i \in Slot :
          /\ txs[i].tid = m.tid
          /\ txs' = [txs EXCEPT ![i] = [txs[i] EXCEPT !.state = "ABORT_STATE"]]
          /\ toWorker' = toWorker \cup sendToAllWorkers(txs[i], "ABORT")
          /\ mode' = mode
    BY <1>0, <1>7 DEF AbortDecided, findTransaction, ManagerSends
  <2> DEFINE new == [txs[i] EXCEPT !.state = "ABORT_STATE"]
  <2>2. /\ new.tid = txs[i].tid /\ new.state = "ABORT_STATE"
        /\ new.nodes = txs[i].nodes /\ new.nodeCount = txs[i].nodeCount
    BY <1>0 DEF Transaction
  <2>3. new \in Transaction
    BY <1>0, <2>1 DEF TypeInv, MTypeOK, TMTypeOK
  <2>4. txs' = [txs EXCEPT ![i] = new]
    BY <2>1
  <2> HIDE DEF new
  <2>5. /\ Nodes(new) = Nodes(txs[i])
        /\ \A vs, net : Covered(new, vs, net) <=> Covered(txs[i], vs, net)
    BY <2>2 DEF Nodes, Pending, Covered
  <2>6. Covered(txs[i], votes, toManager')
    BY <1>0, <1>1, CoveredKept DEF VoteInv, CountCovers
  <2>7. SocketInv'
    BY <1>1, <1>2, <2>1, Broadcast, SocketFrame
  <2>8. \A p : Reply("PREPARE_TO_COMMIT", p) \in toWorker'
                 => Reply("PREPARE_TO_COMMIT", p) \in toWorker
    BY <1>1, <2>1, Broadcast DEF Reply
  <2>9. \A p \in mayVote : Reply("PREPARE_TO_COMMIT", p) \in toWorker' =>
            \A t \in bound[p] :
                /\ Begun(t) /\ ~Logged(tmlog', "LOG_COMMIT", t)
                /\ \A j \in Slot : txs[j].tid = t => p \in Nodes(txs[j])
    BY <1>5, <2>8 DEF VoteInv, AskedTakePart
  <2>10. \A p \in Nodes(new) : new.tid \in bound[p]
    BY <2>2, <2>5 DEF TableInv, NodesBound
  <2>11. /\ \E v \in votes : v.type = "ABORT" /\ v.tid = new.tid
         /\ Logged(tmlog', "LOG_ABORT", new.tid)
         /\ ~Logged(tmlog', "LOG_COMMIT", new.tid)
         /\ \A ty, t : Logged(tmlog', ty, t) => Logged(tmlog, ty, t) \/ t = new.tid
    BY <1>1, <1>3, <1>4, <2>1, <2>2 DEF Committed
  <2> QED
    BY <1>1, <1>2, <1>5, <2>1, <2>2, <2>3, <2>4, <2>5, <2>6, <2>7, <2>9,
       <2>10, <2>11, TouchKeeps
<1> QED
  BY <1>6, <1>7

(* A vote in favour arrives at a slot that is not aborted: the voter is a  *)
(* participant whose vote was pending, and now it is not.                  *)
LEMMA VoteArrives ==
    ASSUME IInv, WellBehaved, NEW m \in toManager, ManagerReceives(m, "PREPARED"),
           NEW i \in Slot, txs[i].tid = m.tid
    PROVE  /\ m.from \in Pending(txs[i], votes, toManager)
           /\ Pending(txs[i], votes, toManager')
                \subseteq Pending(txs[i], votes, toManager) \ {m.from}
           /\ txs[i].nodeCount \in Nat \ {0}
           /\ CountDown(txs[i].nodeCount) = txs[i].nodeCount - 1
<1> USE DEF IInv, WellBehaved
<1>0. txs[i] \in Transaction
  BY DEF MTypeOK, TMTypeOK
<1>1. /\ m = Request("PREPARED", m.from, m.tid) /\ m \in votes
      /\ toManager' \subseteq toManager /\ m \notin toManager'
  BY Received, TxRequests
<1>2. m.from \in Nodes(txs[i])
  BY <1>1 DEF VoteInv, VotersTakePart
<1>3. m.from \in Pending(txs[i], votes, toManager)
  BY <1>1, <1>2 DEF Pending
<1>4. /\ Pending(txs[i], votes, toManager')
            \subseteq Pending(txs[i], votes, toManager)
      /\ m.from \notin Pending(txs[i], votes, toManager')
  BY <1>0, <1>1, CoveredKept DEF Pending
<1>5. Cardinality(Pending(txs[i], votes, toManager)) # 0
  BY <1>0, <1>3, PendingFinite, FS_EmptySet
<1>6. txs[i].nodeCount \in Nat
      /\ Cardinality(Pending(txs[i], votes, toManager)) <= txs[i].nodeCount
  BY <1>0 DEF Transaction, VoteInv, CountCovers, Covered
<1>7. txs[i].nodeCount # 0
  BY <1>0, <1>5, <1>6, PendingFinite
<1> QED
  BY <1>3, <1>4, <1>6, <1>7 DEF CountDown

(* The vote is counted and others are missing.                             *)
LEMMA CountKeeps ==
    ASSUME IInv, WellBehaved, TypeInv', UNCHANGED envVars,
           NEW m \in toManager, PreparedCounted(m)
    PROVE  IInv'
<1> USE DEF IInv, WellBehaved
<1>0. txs \in [Slot -> Transaction]
  BY DEF MTypeOK, TMTypeOK
<1>1. m.tid \in Tid /\ toManager' \subseteq toManager
  BY Received, TxRequests DEF PreparedCounted
<1>2. PICK i \in Slot :
        /\ txs[i].tid = m.tid
        /\ txs' = [txs EXCEPT ![i] =
                     [txs[i] EXCEPT !.nodeCount = CountDown(txs[i].nodeCount)]]
  BY <1>0 DEF PreparedCounted, findTransaction
<1>3. /\ UNCHANGED <<toWorker, votes, tmlog, mode, restore, bound, mayVote>>
      /\ mode = "up"
  BY DEF PreparedCounted, envVars
<1> DEFINE new == [txs[i] EXCEPT !.nodeCount = CountDown(txs[i].nodeCount)]
<1>4. /\ new.tid = txs[i].tid /\ new.state = txs[i].state
      /\ new.nodes = txs[i].nodes
      /\ new.nodeCount = CountDown(txs[i].nodeCount)
  BY <1>0 DEF Transaction
<1>5. new \in Transaction
  BY <1>0, <1>2 DEF TypeInv, MTypeOK, TMTypeOK
<1>6. txs' = [txs EXCEPT ![i] = new]
  BY <1>2
<1> HIDE DEF new
<1>7. /\ Nodes(new) = Nodes(txs[i])
      /\ \A vs, net : Pending(new, vs, net) = Pending(txs[i], vs, net)
  BY <1>4 DEF Nodes, Pending
<1> DEFINE old == Pending(txs[i], votes, toManager)
<1>8. /\ m.from \in old
      /\ Pending(new, votes, toManager') \in SUBSET (old \ {m.from})
      /\ txs[i].nodeCount \in Nat \ {0}
      /\ new.nodeCount = txs[i].nodeCount - 1
  BY <1>2, <1>4, <1>7, VoteArrives DEF PreparedCounted
<1>9. IsFiniteSet(old) /\ Cardinality(old) \in Nat
  BY <1>0, PendingFinite
<1>10. Covered(txs[i], votes, toManager)
  BY DEF VoteInv, CountCovers
<1>11. Covered(new, votes, toManager')
  <2>1. /\ Cardinality(old) <= txs[i].nodeCount
        /\ txs[i].nodeCount <= Len(txs[i].nodes)
        /\ Len(txs[i].nodes) <= MaxNodes
        /\ Len(txs[i].nodes) \in Nat
    BY <1>0, <1>10 DEF Covered, Transaction
  <2> HIDE DEF old
  <2>2. IsFiniteSet(old \ {m.from}) /\ Cardinality(old \ {m.from}) = Cardinality(old) - 1
    BY <1>8, <1>9, FS_RemoveElement
  <2>3. /\ Cardinality(Pending(new, votes, toManager')) <= Cardinality(old) - 1
        /\ Cardinality(Pending(new, votes, toManager')) \in Nat
    BY <1>5, <1>8, <2>2, FS_Subset, PendingFinite
  <2> QED
    BY <1>4, <1>8, <1>9, <2>1, <2>3 DEF Covered
<1>12. SocketInv'
  BY <1>1, <1>3, SocketFrame
<1>13. ~Committed(new.tid)
  BY <1>4, <1>8 DEF VoteInv, CommitCounted
<1>14. /\ new.state = "ABORT_STATE" => Aborted(new.tid)
       /\ new.state # "COMMIT_STATE"
       /\ Aborted(new.tid) => \E v \in votes : v.type = "ABORT" /\ v.tid = new.tid
  BY <1>4, <1>13 DEF TableInv, StatesLogged, VoteInv, AbortVoted
<1>15. \A p \in Nodes(new) : new.tid \in bound[p]
  BY <1>4, <1>7 DEF TableInv, NodesBound
<1>16. BeginFirst' /\ DecisionStable' /\ CommitUnanimous'
  BY <1>3 DEF LogInv, VoteInv, BeginFirst, DecisionStable, CommitUnanimous,
              Committed, Aborted
<1>17. \A p \in mayVote : Reply("PREPARE_TO_COMMIT", p) \in toWorker' =>
               \A t \in bound[p] :
                   /\ Begun(t) /\ ~Logged(tmlog', "LOG_COMMIT", t)
                   /\ \A j \in Slot : txs[j].tid = t => p \in Nodes(txs[j])
  BY <1>3 DEF VoteInv, AskedTakePart, Committed
<1> HIDE DEF old
<1> QED
  BY <1>1, <1>2, <1>3, <1>4, <1>5, <1>6, <1>7, <1>11, <1>12, <1>13, <1>14,
     <1>15, <1>16, <1>17, TouchKeeps DEF LogGrows, Committed, Aborted

(* The last pending vote is counted: nobody has voted against.             *)
LEMMA CommitDecision ==
    ASSUME IInv, WellBehaved, NEW m \in toManager, ManagerReceives(m, "PREPARED"),
           NEW i \in Slot, txs[i].tid = m.tid, CountDown(txs[i].nodeCount) = 0
    PROVE  /\ Pending(txs[i], votes, toManager) = {m.from}
           /\ Pending(txs[i], votes, toManager') = {}
           /\ \A v \in votes : v.tid = m.tid => v.type # "ABORT"
           /\ ~Aborted(m.tid)
           /\ \A p \in mayVote : Reply("PREPARE_TO_COMMIT", p) \in toWorker
                 => m.tid \notin bound[p]
<1> USE DEF IInv, WellBehaved
<1> DEFINE old == Pending(txs[i], votes, toManager)
<1>0. txs[i] \in Transaction
  BY DEF MTypeOK, TMTypeOK
<1>1. m = Request("PREPARED", m.from, m.tid) /\ m \in votes
  BY Received, TxRequests
<1>2. /\ m.from \in old
      /\ Pending(txs[i], votes, toManager') \subseteq old \ {m.from}
      /\ txs[i].nodeCount \in Nat
      /\ CountDown(txs[i].nodeCount) = txs[i].nodeCount - 1
  BY VoteArrives
<1>3. IsFiniteSet(old) /\ Cardinality(old) \in Nat
  BY <1>0, PendingFinite
<1>4. Cardinality(old) <= 1
  <2>1. txs[i].nodeCount = 1
    BY <1>2
  <2> QED
    BY <2>1 DEF VoteInv, CountCovers, Covered
<1>5. old = {m.from}
  <2> HIDE DEF old
  <2>1. Cardinality({m.from}) = 1
    BY FS_Singleton
  <2>2. {m.from} \in SUBSET old
    BY <1>2
  <2>3. /\ Cardinality({m.from}) <= Cardinality(old)
        /\ Cardinality(old) = Cardinality({m.from}) => old = {m.from}
    BY <1>3, <2>2, FS_Subset
  <2> QED
    BY <1>3, <1>4, <2>1, <2>3
<1>6. ASSUME NEW v \in votes, v.tid = m.tid, v.type = "ABORT"
      PROVE  FALSE
  <2>1. v.from \in Nodes(txs[i])
    BY <1>6 DEF VoteInv, VotersTakePart
  <2>2. Request("PREPARED", v.from, m.tid) \notin votes
    BY <1>6, RequestFields DEF SocketInv, OneVote
  <2>3. v.from \in old
    BY <2>1, <2>2 DEF Pending
  <2> QED
    BY <1>1, <1>5, <2>2, <2>3
<1>7. ~Aborted(m.tid)
  BY <1>6 DEF VoteInv, AbortVoted
<1>8. ASSUME NEW p \in mayVote, Reply("PREPARE_TO_COMMIT", p) \in toWorker,
             m.tid \in bound[p]
      PROVE  FALSE
  <2>1. p \in Nodes(txs[i])
    BY <1>8 DEF VoteInv, AskedTakePart
  <2>2. p \in old
    BY <1>8, <2>1, RequestFields DEF Pending, SocketInv, VotersFresh
  <2> QED
    BY <1>1, <1>5, <1>8, <2>2 DEF SocketInv, VotersFresh
<1> QED
  BY <1>2, <1>5, <1>6, <1>7, <1>8

LEMMA CommitKeeps ==
    ASSUME IInv, WellBehaved, TypeInv', UNCHANGED envVars,
           NEW m \in toManager, CommitDecided(m)
    PROVE  IInv'
<1> USE DEF IInv, WellBehaved
<1>0. txs \in [Slot -> Transaction] /\ tmlog \in Seq(LogEntries)
  BY DEF MTypeOK, TMTypeOK
<1>2. /\ UNCHANGED <<votes, bound, mayVote>> /\ mode = "up"
      /\ ManagerReceives(m, "PREPARED")
      /\ tmlog' = txlog_append(tmlog, txentry_init("LOG_COMMIT", m.tid))
  BY DEF CommitDecided, envVars
<1>1. m.tid \in Tid /\ m.tid # 0 /\ toManager' \subseteq toManager
  <2>1. "PREPARED" \in TxRequest
    BY TxRequests
  <2>2. m.tid \in Tid /\ toManager' \subseteq toManager
    BY <1>2, <2>1, Received
  <2> QED
    BY <2>2
<1>3. PICK i \in Slot :
        /\ txs[i].tid = m.tid
        /\ CountDown(txs[i].nodeCount) = 0
        /\ IF commit_crash
             THEN ProcessDies /\ toWorker' = toWorker
             ELSE /\ txs' = [txs EXCEPT ![i] = [txs[i] EXCEPT
                                 !.state = "COMMIT_STATE", !.nodeCount = 0]]
                  /\ toWorker' = toWorker \cup sendToAllWorkers(txs[i], "COMMIT")
                  /\ mode' = mode
  BY <1>0 DEF CommitDecided, findTransaction, ManagerSends
<1>4. /\ Pending(txs[i], votes, toManager') = {}
      /\ \A v \in votes : v.tid = m.tid => v.type # "ABORT"
      /\ ~Aborted(m.tid)
      /\ \A p \in mayVote : Reply("PREPARE_TO_COMMIT", p) \in toWorker
            => m.tid \notin bound[p]
  BY <1>2, <1>3, CommitDecision
<1>5. \A ty, t : Logged(tmlog', ty, t)
                   <=> Logged(tmlog, ty, t) \/ (ty = "LOG_COMMIT" /\ t = m.tid)
  BY <1>0, <1>1, <1>2, LogChange DEF LogEntryType
<1>6. LogGrows /\ BeginFirst' /\ DecisionStable' /\ CommitUnanimous'
  <2>1. BeginFirst'
    BY <1>0, <1>1, <1>2, AppendKeepsBeginFirst DEF LogInv, LogEntryType
  <2> QED
    BY <1>2, <1>4, <1>5, <2>1 DEF LogInv, VoteInv, LogGrows, DecisionStable,
                                  CommitUnanimous, Committed, Aborted
<1>7. \A p \in mayVote : Reply("PREPARE_TO_COMMIT", p) \in toWorker =>
         \A t \in bound[p] :
             /\ Begun(t) /\ ~Logged(tmlog', "LOG_COMMIT", t)
             /\ \A j \in Slot : txs[j].tid = t => p \in Nodes(txs[j])
  BY <1>4, <1>5 DEF VoteInv, AskedTakePart, Committed
<1>8. CASE commit_crash
  <2>1. ProcessDies /\ toWorker' = toWorker
    BY <1>3, <1>8
  <2>2. SocketInv'
    BY <1>1, <1>2, <2>1, SocketFrame
  <2>3. NobodyAsked
    BY <2>1 DEF NobodyAsked
  <2> QED
    BY <1>2, <1>6, <1>7, <2>1, <2>2, <2>3, DeathKeeps
<1>9. CASE ~commit_crash
  <2> DEFINE new == [txs[i] EXCEPT !.state = "COMMIT_STATE", !.nodeCount = 0]
  <2>1. /\ txs' = [txs EXCEPT ![i] = new]
        /\ toWorker' = toWorker \cup sendToAllWorkers(txs[i], "COMMIT")
        /\ mode' = mode
    BY <1>3, <1>9
  <2>2. /\ new.tid = txs[i].tid /\ new.state = "COMMIT_STATE"
        /\ new.nodes = txs[i].nodes /\ new.nodeCount = 0
    BY <1>0 DEF Transaction
  <2>3. new \in Transaction
    <3>1. txs'[i] = new
      BY <1>0, <2>1
    <3> HIDE DEF new
    <3> QED
      BY <3>1 DEF TypeInv, MTypeOK, TMTypeOK
  <2> HIDE DEF new
  <2>4. /\ Nodes(new) = Nodes(txs[i])
        /\ \A vs, net : Pending(new, vs, net) = Pending(txs[i], vs, net)
    BY <2>2 DEF Nodes, Pending
  <2>5. Covered(new, votes, toManager')
    <3>1. Len(txs[i].nodes) \in Nat /\ Len(txs[i].nodes) <= MaxNodes
      BY <1>0 DEF Transaction, VoteInv, CountCovers, Covered
    <3> QED
      BY <1>4, <2>2, <2>4, <3>1, FS_EmptySet DEF Covered
  <2>6. SocketInv'
    BY <1>1, <1>2, <1>3, <2>1, Broadcast, SocketFrame
  <2>7. \A p : Reply("PREPARE_TO_COMMIT", p) \in toWorker'
                 => Reply("PREPARE_TO_COMMIT", p) \in toWorker
    BY <1>1, <1>3, <2>1, Broadcast DEF Reply
  <2>8. \A p \in Nodes(new) : new.tid \in bound[p]
    BY <2>2, <2>4 DEF TableInv, NodesBound
  <2>9. /\ ~Logged(tmlog', "LOG_ABORT", new.tid)
        /\ Logged(tmlog', "LOG_COMMIT", new.tid)
        /\ \A ty, t : Logged(tmlog', ty, t) => Logged(tmlog, ty, t) \/ t = new.tid
    BY <1>3, <1>4, <1>5, <2>2 DEF Aborted
  <2>10. \A p \in mayVote : Reply("PREPARE_TO_COMMIT", p) \in toWorker' =>
            \A t \in bound[p] :
                /\ Begun(t) /\ ~Logged(tmlog', "LOG_COMMIT", t)
                /\ \A j \in Slot : txs[j].tid = t => p \in Nodes(txs[j])
    BY <1>7, <2>7
  <2>11. txs[i].tid \in Tid /\ Pending(new, votes, toManager') = {}
    BY <1>1, <1>3, <1>4, <2>4
  <2> QED
    BY <1>1, <1>2, <1>6, <2>1, <2>2, <2>3, <2>4, <2>5, <2>6,
       <2>8, <2>9, <2>10, <2>11, TouchKeeps
<1> QED
  BY <1>8, <1>9

(* The manager dies with its log as it is.                                 *)
LEMMA CrashKeeps ==
    ASSUME IInv, WellBehaved, TypeInv', UNCHANGED envVars,
           \/ ManagerCrashes
           \/ \E m \in toManager : PreparedUnknown(m)
    PROVE  IInv'
<1> USE DEF IInv, WellBehaved
<1>1. ProcessDies /\ UNCHANGED <<votes, tmlog, bound, mayVote>>
  BY DEF ManagerCrashes, PreparedUnknown, netVars, envVars
<1>2. /\ toManager' \subseteq toManager
      /\ \A r \in toWorker' : \/ r \in toWorker
                              \/ bound[r.to] # {} /\ r.type # "PREPARE_TO_COMMIT"
  <2>1. CASE ManagerCrashes
    BY <2>1 DEF ManagerCrashes, netVars
  <2>2. CASE \E m \in toManager : PreparedUnknown(m)
    <3>1. PICK m \in toManager : PreparedUnknown(m)
      BY <2>2
    <3>2. /\ ManagerReceives(m, "PREPARED")
          /\ toWorker' = toWorker \cup checkTransactionLog(m.tid, m.from)
      BY <3>1 DEF PreparedUnknown, ManagerSends
    <3>3. toManager' \subseteq toManager /\ bound[m.from] # {}
      BY <3>2, Received, TxRequests
    <3> QED
      BY <3>2, <3>3, CheckReplies
  <2> QED
    BY <2>1, <2>2
<1>3. SocketInv'
  BY <1>1, <1>2, SocketFrame
<1>4. NobodyAsked
  BY <1>2 DEF NobodyAsked, Reply
<1>5. /\ LogGrows /\ BeginFirst' /\ DecisionStable' /\ CommitUnanimous'
      /\ \A p \in mayVote : Reply("PREPARE_TO_COMMIT", p) \in toWorker =>
               \A t \in bound[p] : ~Logged(tmlog', "LOG_COMMIT", t)
  BY <1>1 DEF LogInv, VoteInv, LogGrows, BeginFirst, DecisionStable,
              CommitUnanimous, AskedTakePart, Committed, Aborted
<1> QED
  BY <1>1, <1>3, <1>4, <1>5, DeathKeeps

(* restoreTransactions aborts a transaction.  The begin is its first entry *)
(* and what lies beyond the bound of the loop are aborts, so the inner     *)
(* loop, from the begin to the bound, would have seen a commit.            *)
LEMMA RestoreAborts ==
    ASSUME IInv, mode = "restoring", restore.next <= restore.count,
           Unfinished(tmlog, restore.next, restore.count)
    PROVE  /\ restore.next \in 1..Len(tmlog)
           /\ tmlog[restore.next].tid \in Tid
           /\ Begun(tmlog[restore.next].tid)
           /\ ~Committed(tmlog[restore.next].tid)
<1> DEFINE n == restore.next
           t == tmlog[n].tid
<1>0. /\ tmlog \in Seq(LogEntries) /\ restore \in [next : Nat \ {0}, count : Nat]
      /\ restore.count <= Len(tmlog)
  BY DEF IInv, MTypeOK, TMTypeOK, RestoreInLog
<1>1. n \in 1..Len(tmlog) /\ t \in Tid
  BY <1>0, EntryType
<1>2. Begun(t)
  BY <1>1 DEF Unfinished, Begun, Logged
<1>3. ~Committed(t)
  <2>1. SUFFICES ASSUME NEW j \in 1..Len(tmlog), tmlog[j].tid = t,
                        tmlog[j].type = "LOG_COMMIT"
                 PROVE  FALSE
    BY DEF Committed, Logged
  <2>2. j <= restore.count
    BY <1>0, <2>1 DEF IInv, LogInv, Restoring
  <2>3. j >= n
    BY <1>0, <1>1, <2>1 DEF IInv, LogInv, BeginFirst, Unfinished
  <2> QED
    BY <1>0, <2>1, <2>2, <2>3 DEF Unfinished
<1> QED
  BY <1>1, <1>2, <1>3

LEMMA RestoreKeeps ==
    ASSUME IInv, WellBehaved, TypeInv', UNCHANGED envVars, RestoreEntry
    PROVE  IInv'
<1> USE DEF IInv, WellBehaved
<1> DEFINE n == restore.next
           t == tmlog[n].tid
<1>0. /\ tmlog \in Seq(LogEntries) /\ restore \in [next : Nat \ {0}, count : Nat]
      /\ mode = "restoring" /\ restore.count <= Len(tmlog) /\ n <= restore.count
      /\ UNCHANGED <<votes, toManager, toWorker, txs, mode, bound, mayVote>>
      /\ restore'.count = restore.count /\ restore'.next = n + 1
  BY DEF MTypeOK, TMTypeOK, RestoreInLog, RestoreEntry, netVars, envVars
<1>1. n \in 1..Len(tmlog) /\ t \in Tid
  BY <1>0, EntryType
<1>2. \A i \in Slot : txs[i] = EmptySlot
  BY <1>0 DEF TableInv, EmptyUnlessUp, EmptyTable
<1>3. /\ \A ty, u : Logged(tmlog', ty, u)
              => Logged(tmlog, ty, u) \/ (ty = "LOG_ABORT" /\ u = t /\ ~Committed(t))
      /\ LogGrows
      /\ BeginFirst' /\ Restoring'
  <2>1. CASE Unfinished(tmlog, n, restore.count)
    <3>1. tmlog' = txlog_append(tmlog, txentry_init("LOG_ABORT", t))
      BY <2>1 DEF RestoreEntry
    <3>2. \A ty, u : Logged(tmlog', ty, u)
                       <=> Logged(tmlog, ty, u) \/ (ty = "LOG_ABORT" /\ u = t)
      BY <1>0, <1>1, <3>1, LogChange DEF LogEntryType
    <3>3. ~Committed(t)
      BY <1>0, <2>1, RestoreAborts
    <3>4. BeginFirst'
      BY <1>0, <1>1, <3>1, AppendKeepsBeginFirst DEF LogInv, LogEntryType
    <3>5. /\ Len(tmlog') = Len(tmlog) + 1
          /\ \A k \in 1..Len(tmlog) : tmlog'[k] = tmlog[k]
          /\ tmlog'[Len(tmlog) + 1].type = "LOG_ABORT"
      <4>1. "LOG_ABORT" \in LogEntryType
        BY DEF LogEntryType
      <4>2. tmlog'[Len(tmlog) + 1] = [type |-> "LOG_ABORT", tid |-> t]
        BY <1>0, <1>1, <3>1, <4>1, AppendLog
      <4> QED
        BY <1>0, <1>1, <3>1, <4>1, <4>2, AppendLog
    <3>6. Restoring'
      <4>1. SUFFICES ASSUME NEW j \in 1..Len(tmlog')
                     PROVE  /\ j > restore.count => tmlog'[j].type = "LOG_ABORT"
                            /\ tmlog'[j].type = "LOG_BEGIN" /\ j < n + 1 =>
                                  \/ Logged(tmlog', "LOG_COMMIT", tmlog'[j].tid)
                                  \/ Logged(tmlog', "LOG_ABORT", tmlog'[j].tid)
        BY <1>0 DEF Restoring, Committed, Aborted
      <4>2. CASE j = Len(tmlog) + 1
        BY <3>5, <4>2
      <4>3. CASE j \in 1..Len(tmlog) /\ j # n
        BY <1>0, <3>2, <3>5, <4>3 DEF LogInv, Restoring, Committed, Aborted
      <4>4. CASE j = n
        BY <1>0, <1>1, <3>2, <3>5, <4>4
      <4> QED
        BY <1>0, <3>5, <4>2, <4>3, <4>4
    <3> QED
      BY <3>2, <3>3, <3>4, <3>6 DEF LogGrows
  <2>2. CASE ~Unfinished(tmlog, n, restore.count)
    <3>1. tmlog' = tmlog
      BY <2>2 DEF RestoreEntry
    <3>2. tmlog[n].type = "LOG_BEGIN" => Committed(t) \/ Aborted(t)
      BY <1>0, <1>1, <2>2 DEF Unfinished, Committed, Aborted, Logged
    <3>3. Restoring'
      BY <1>0, <1>1, <3>1, <3>2 DEF LogInv, Restoring, Committed, Aborted
    <3> QED
      BY <3>1, <3>3 DEF LogInv, LogGrows, BeginFirst
  <2> QED
    BY <2>1, <2>2
<1> HIDE DEF n, t
<1>4. SocketInv'
  BY <1>0, SocketFrame
<1>5. LogInv'
  BY <1>0, <1>3 DEF LogInv, NoOrphan, DecisionStable, LogGrows, Committed, Aborted
<1>6. \A ty : ~Logged(tmlog', ty, 0)
  BY LoggedTid DEF TypeInv, MTypeOK, TMTypeOK
<1>7. TableInv'
  <2>1. StatesLogged'
    BY <1>0, <1>2, <1>6, EmptySlotFacts DEF StatesLogged, Committed
  <2> QED
    BY <1>0, <1>2, <2>1, EmptySlotFacts
       DEF TableInv, EmptyUnlessUp, FreeSlots, SlotsDistinct, SlotsBegun,
           NodesBound
<1>8. VotersTakePart' /\ AskedTakePart' /\ CommitUnanimous'
  BY <1>0, <1>3 DEF VoteInv, VotersTakePart, AskedTakePart, CommitUnanimous,
                    LogGrows, Begun, Committed
<1>9. CountCovers' /\ CommitCounted' /\ AbortVoted'
  BY <1>0, <1>2, <1>6, EmptySlotFacts
     DEF CountCovers, CommitCounted, AbortVoted, Aborted
<1> QED
  BY <1>4, <1>5, <1>7, <1>8, <1>9 DEF VoteInv, TypeInv

(* Recovery begins and ends: when it ends, every begin has been dealt with.*)
LEMMA StartAndEndKeep ==
    ASSUME IInv, WellBehaved, TypeInv', UNCHANGED envVars,
           ManagerStarts \/ RestoreEnds
    PROVE  IInv'
<1> USE DEF IInv, WellBehaved
<1>0. /\ UNCHANGED <<votes, toManager, toWorker, txs, tmlog, bound, mayVote>>
      /\ tmlog \in Seq(LogEntries)
      /\ restore \in [next : Nat \ {0}, count : Nat]
  BY DEF ManagerStarts, RestoreEnds, netVars, envVars, MTypeOK, TMTypeOK
<1>1. mode # "up"
  BY DEF ManagerStarts, RestoreEnds
<1>2. SocketInv'
  BY <1>0, SocketFrame
<1>3. Restoring' /\ NoOrphan'
  <2>1. CASE ManagerStarts
    BY <1>0, <2>1 DEF ManagerStarts, Restoring, NoOrphan
  <2>2. CASE RestoreEnds
    <3>1. ASSUME NEW t \in Tid, Begun(t)
          PROVE  Committed(t) \/ Aborted(t)
      <4>1. PICK j \in 1..Len(tmlog) : tmlog[j].type = "LOG_BEGIN" /\ tmlog[j].tid = t
        BY <3>1 DEF Begun, Logged
      <4>2. j <= restore.count /\ restore.count < restore.next
        BY <1>0, <2>2, <4>1 DEF RestoreEnds, LogInv, Restoring
      <4>3. j < restore.next
        BY <1>0, <4>2
      <4> QED
        BY <2>2, <4>1, <4>3 DEF RestoreEnds, LogInv, Restoring
    <3> QED
      BY <1>0, <2>2, <3>1
         DEF RestoreEnds, Restoring, NoOrphan, Begun, Committed, Aborted
  <2> QED
    BY <2>1, <2>2
<1>4. EmptyUnlessUp'
  BY <1>0, <1>1 DEF TableInv, EmptyUnlessUp, EmptyTable, Slot
<1>5. /\ BeginFirst' /\ DecisionStable' /\ FreeSlots' /\ SlotsDistinct'
      /\ SlotsBegun' /\ StatesLogged' /\ NodesBound'
  BY <1>0 DEF LogInv, BeginFirst, DecisionStable, TableInv, FreeSlots,
              SlotsDistinct, SlotsBegun, StatesLogged, NodesBound, Begun,
              Committed, Aborted
<1>6. VoteInv'
  BY <1>0 DEF VoteInv, VotersTakePart, AskedTakePart, CountCovers, CommitCounted,
              AbortVoted, CommitUnanimous, Begun, Committed, Aborted
<1> QED
  BY <1>2, <1>3, <1>4, <1>5, <1>6 DEF LogInv, TableInv, TypeInv

-----------------------------------------------------------------------------
(* The steps of the workers.                                               *)

(* A request that is not a vote changes no count.                          *)
LEMMA OtherRequest ==
    ASSUME NEW tx, NEW vs, NEW net, NEW m, m.type # "PREPARED"
    PROVE  /\ Pending(tx, vs, net \cup {m}) = Pending(tx, vs, net)
           /\ Covered(tx, vs, net \cup {m}) <=> Covered(tx, vs, net)
<1>1. Pending(tx, vs, net \cup {m}) = Pending(tx, vs, net)
  BY RequestFields DEF Pending
<1> QED
  BY <1>1 DEF Covered

(* Steps of the workers leave log and table alone.                         *)
LEMMA EnvFrame ==
    ASSUME LogInv, TableInv, VotersTakePart, AbortVoted, EnvTypeOK,
           UNCHANGED tmVars,
           votes \subseteq votes', \A p \in Port : bound[p] \subseteq bound'[p],
           txs \in [Slot -> Transaction]
    PROVE  LogInv' /\ TableInv' /\ AbortVoted'
<1>0. UNCHANGED <<txs, tmlog, mode, restore>>
  BY DEF tmVars, tmMemory
<1>1. LogInv'
  BY <1>0 DEF LogInv, BeginFirst, Restoring, NoOrphan, DecisionStable, NotInTable,
              Begun, Committed, Aborted
<1>2. NodesBound'
  <2>1. \A i \in Slot : Nodes(txs[i]) \subseteq Port
    BY DEF Nodes, Transaction
  <2> QED
    BY <1>0, <2>1 DEF TableInv, NodesBound
<1>3. TableInv'
  BY <1>0, <1>2 DEF TableInv, EmptyUnlessUp, FreeSlots, SlotsDistinct, SlotsBegun,
              StatesLogged, EmptyTable, Slot, Begun, Committed, Aborted
<1>4. AbortVoted'
  BY <1>0 DEF AbortVoted, Aborted
<1> QED
  BY <1>1, <1>3, <1>4

(* A socket that is opened: if its thread may vote, the port is new, so it *)
(* has no votes and has not been asked for one.                            *)
LEMMA OpenKeeps ==
    ASSUME IInv, WellBehaved, TypeInv', NEW p \in Port, NEW t \in Tid,
           NEW type \in {"BEGINTX", "JOINTX"}, SocketOpens(p, t, type)
    PROVE  IInv'
<1> USE DEF IInv
<1> DEFINE m == Request(type, p, t)
<1>0. /\ UNCHANGED <<toWorker, votes, txs, tmlog>> /\ UNCHANGED tmVars
      /\ toManager' = toManager \cup {m}
      /\ bound \in [Port -> SUBSET Tid]
      /\ bound' = [bound EXCEPT ![p] = bound[p] \cup {t}]
      /\ \/ bound[p] = {} /\ mayVote' = mayVote \cup {p}
         \/ mayVote' = mayVote \ {p}
      /\ txs \in [Slot -> Transaction]
      /\ votes \subseteq Vote /\ toManager \subseteq ToManager
      /\ toWorker \subseteq ToWorker
      /\ mayVote \subseteq Port
  BY DEF SocketOpens, tmVars, tmMemory, WorkerSends, MTypeOK, TMTypeOK, NetTypeOK,
         EnvTypeOK
<1>1. /\ m.type = type /\ m.from = p /\ m.tid = t
      /\ m.type \notin VoteType /\ m.type # "PREPARED"
  BY RequestFields DEF VoteType
<1> HIDE DEF m
<1>2. /\ \A q \in Port : bound[q] \subseteq bound'[q]
      /\ \A q \in Port : q # p => bound'[q] = bound[q]
      /\ bound'[p] = bound[p] \cup {t}
  BY <1>0
<1>3. \A v \in votes : v.from \in Port
  BY <1>0 DEF Vote
<1>4. VotesBound' /\ OneVote'
  BY <1>0, <1>2, <1>3 DEF SocketInv, VotesBound, OneVote
<1>5. \A q \in mayVote' : (q \in mayVote /\ q # p) \/ (q = p /\ bound[p] = {})
  <2>1. CASE bound[p] = {} /\ mayVote' = mayVote \cup {p}
    BY <2>1
  <2>2. CASE mayVote' = mayVote \ {p}
    BY <2>2
  <2> QED
    BY <1>0, <2>1, <2>2
<1>6. VotersFresh'
  BY <1>0, <1>2, <1>3, <1>5 DEF SocketInv, VotesBound, VotersFresh
<1>7. RequestsBound'
  <2>1. \A r \in toManager : r.from \in Port
    BY <1>0 DEF ToManager
  <2> QED
    BY <1>0, <1>1, <1>2, <2>1 DEF SocketInv, RequestsBound
<1>8. RepliesBound'
  <2>1. \A r \in toWorker : r.to \in Port
    BY <1>0 DEF ToWorker
  <2> QED
    BY <1>0, <1>2, <2>1 DEF SocketInv, RepliesBound
<1>9. LogInv' /\ TableInv' /\ AbortVoted'
  BY <1>0, <1>2, EnvFrame DEF MTypeOK, VoteInv
<1>10. VotersTakePart' /\ CommitUnanimous'
  BY <1>0 DEF VoteInv, VotersTakePart, CommitUnanimous, Begun, Committed
<1>11. AskedTakePart'
  <2>1. bound[p] = {} => Reply("PREPARE_TO_COMMIT", p) \notin toWorker
    BY DEF SocketInv, RepliesBound, Reply
  <2> QED
    BY <1>0, <1>2, <1>5, <2>1 DEF VoteInv, AskedTakePart, Begun, Committed
<1>12. CountCovers' /\ CommitCounted'
  <2>1. \A tx : /\ Pending(tx, votes, toManager') = Pending(tx, votes, toManager)
                /\ Covered(tx, votes, toManager') <=> Covered(tx, votes, toManager)
    BY <1>0, <1>1, OtherRequest
  <2> QED
    BY <1>0, <2>1 DEF VoteInv, CountCovers, CommitCounted, Committed
<1> QED
  BY <1>4, <1>6, <1>7, <1>8, <1>9, <1>10, <1>11, <1>12
     DEF SocketInv, VoteInv, TypeInv

(* A socket votes.  It was asked to, so it is a participant and nobody has *)
(* committed; the vote is under way, so no count changes.                  *)
LEMMA VoteKeeps ==
    ASSUME IInv, WellBehaved, TypeInv', NEW p \in Port, NEW t \in Tid,
           NEW type \in VoteType, SocketVotes(p, t, type)
    PROVE  IInv'
<1> USE DEF IInv
<1> DEFINE m == Request(type, p, t)
<1>0. /\ UNCHANGED <<toWorker, txs, tmlog, bound>> /\ UNCHANGED tmVars
      /\ toManager' = toManager \cup {m} /\ votes' = votes \cup {m}
      /\ p \in mayVote /\ mayVote' = mayVote \ {p}
      /\ t \in bound[p] /\ Reply("PREPARE_TO_COMMIT", p) \in toWorker
      /\ txs \in [Slot -> Transaction]
  BY DEF SocketVotes, tmVars, tmMemory, WorkerSends, MTypeOK, TMTypeOK
<1>1. m.type = type /\ m.from = p /\ m.tid = t
  BY RequestFields
<1> HIDE DEF m
<1>2. m \notin votes /\ \A v \in votes : v.from # p
  BY <1>0, <1>1 DEF SocketInv, VotersFresh
<1>3. /\ Begun(t) /\ ~Committed(t)
      /\ \A i \in Slot : txs[i].tid = t => p \in Nodes(txs[i])
  BY <1>0 DEF VoteInv, AskedTakePart
<1>4. VotesBound' /\ OneVote'
  BY <1>0, <1>1, <1>2 DEF SocketInv, VotesBound, OneVote
<1>5. VotersFresh'
  BY <1>0, <1>1 DEF SocketInv, VotersFresh
<1>6. RequestsBound' /\ RepliesBound'
  BY <1>0, <1>1 DEF SocketInv, RequestsBound, RepliesBound
<1>7. LogInv' /\ TableInv' /\ AbortVoted'
  BY <1>0, EnvFrame DEF MTypeOK, VoteInv
<1>8. VotersTakePart' /\ CommitUnanimous' /\ AskedTakePart'
  BY <1>0, <1>1, <1>3
     DEF VoteInv, VotersTakePart, CommitUnanimous, AskedTakePart, Begun, Committed
<1>9. CountCovers' /\ CommitCounted'
  <2>1. votes' \ toManager' = votes \ toManager
    BY <1>0, <1>2
  <2>2. \A tx : /\ Pending(tx, votes', toManager') = Pending(tx, votes, toManager)
                /\ Covered(tx, votes', toManager') <=> Covered(tx, votes, toManager)
    BY <2>1 DEF Pending, Covered
  <2> QED
    BY <1>0, <2>2 DEF VoteInv, CountCovers, CommitCounted, Committed
<1> QED
  BY <1>4, <1>5, <1>6, <1>7, <1>8, <1>9 DEF SocketInv, VoteInv, TypeInv

(* A socket sends something that is no vote, or nothing.                   *)
LEMMA QuietEnvKeeps ==
    ASSUME IInv, WellBehaved, TypeInv', UNCHANGED <<toWorker, votes, bound>>,
           UNCHANGED tmVars, mayVote' \subseteq mayVote, NEW m,
           toManager' = toManager \/ toManager' = toManager \cup {m},
           m.type \notin VoteType,
           m.type \in TxRequest => m.tid \in bound[m.from]
    PROVE  IInv'
<1> USE DEF IInv
<1>0. UNCHANGED <<txs, tmlog>> /\ txs \in [Slot -> Transaction]
  BY DEF tmVars, tmMemory, MTypeOK, TMTypeOK
<1>1. SocketInv'
  <2>1. RequestsBound'
    BY DEF SocketInv, RequestsBound
  <2> QED
    BY <2>1 DEF SocketInv, VotesBound, OneVote, VotersFresh, RepliesBound
<1>2. LogInv' /\ TableInv' /\ AbortVoted'
  BY <1>0, EnvFrame DEF MTypeOK, VoteInv
<1>3. VotersTakePart' /\ CommitUnanimous' /\ AskedTakePart'
  BY <1>0 DEF VoteInv, VotersTakePart, CommitUnanimous, AskedTakePart, Begun,
              Committed
<1>4. CountCovers' /\ CommitCounted'
  <2>1. m.type # "PREPARED"
    BY DEF VoteType
  <2>2. \A tx : /\ Pending(tx, votes, toManager') = Pending(tx, votes, toManager)
                /\ Covered(tx, votes, toManager') <=> Covered(tx, votes, toManager)
    BY <2>1, OtherRequest
  <2> QED
    BY <1>0, <2>2 DEF VoteInv, CountCovers, CommitCounted, Committed
<1> QED
  BY <1>1, <1>2, <1>3, <1>4 DEF VoteInv, TypeInv

LEMMA OtherEnvKeeps ==
    ASSUME IInv, WellBehaved, TypeInv', NEW p \in Port,
           \/ \E t \in Tid, type \in ResentType : SocketRequests(p, t, type)
           \/ \E type \in TestRequest : SocketPassesOn(p, type)
           \/ SocketRetires(p)
    PROVE  IInv'
<1>1. CASE \E t \in Tid, type \in ResentType : SocketRequests(p, t, type)
  <2>1. PICK t \in Tid, type \in ResentType : SocketRequests(p, t, type)
    BY <1>1
  <2>2. type \notin VoteType
    BY DEF ResentType, VoteType
  <2> QED
    BY <2>1, <2>2, RequestFields, QuietEnvKeeps
       DEF SocketRequests, WorkerSends, envVars
<1>2. CASE \E type \in TestRequest : SocketPassesOn(p, type)
  <2>1. PICK type \in TestRequest : SocketPassesOn(p, type)
    BY <1>2
  <2>2. type \notin TxRequest /\ type \notin VoteType
    BY DEF TestRequest, TxRequest, ResentType, VoteType
  <2> QED
    BY <2>1, <2>2, RequestFields, QuietEnvKeeps
       DEF SocketPassesOn, WorkerSends, envVars
<1>3. CASE SocketRetires(p)
  <2> DEFINE none == Request("NONE", p, 0)
  <2>1. none.type \notin TxRequest /\ none.type \notin VoteType
    BY RequestFields DEF TxRequest, ResentType, VoteType
  <2>2. /\ UNCHANGED <<toWorker, votes, bound>> /\ UNCHANGED tmVars
        /\ mayVote' \subseteq mayVote /\ toManager' = toManager
    BY <1>3 DEF SocketRetires, netVars
  <2> HIDE DEF none
  <2> QED
    BY <2>1, <2>2, QuietEnvKeeps
<1> QED
  BY <1>1, <1>2, <1>3

-----------------------------------------------------------------------------
(* The invariant and what follows from it.                                 *)

LEMMA InitInv == WellBehaved /\ MInit => IInv
<1> SUFFICES ASSUME WellBehaved, MInit PROVE IInv
  OBVIOUS
<1>1. /\ toManager = {} /\ toWorker = {} /\ votes = {} /\ tmlog = <<>>
      /\ txs = EmptyTable /\ mode = "down" /\ mayVote = {}
  BY DEF MInit, TMInit, NetInit
<1>2. \A i \in Slot : txs[i] = EmptySlot
  BY <1>1 DEF EmptyTable
<1>3. \A ty, t : ~Logged(tmlog, ty, t)
  BY <1>1 DEF Logged
<1>4. MTypeOK /\ RestoreInLog
  BY <1>1, InitType DEF RestoreInLog
<1>5. SocketInv
  BY <1>1 DEF SocketInv, VotesBound, OneVote, VotersFresh, RequestsBound,
              RepliesBound
<1>6. LogInv
  BY <1>1, <1>3 DEF LogInv, BeginFirst, Restoring, NoOrphan, DecisionStable,
                    Committed
<1>7. TableInv
  BY <1>1, <1>2, <1>3, EmptySlotFacts
     DEF TableInv, EmptyUnlessUp, FreeSlots, SlotsDistinct, SlotsBegun,
         StatesLogged, NodesBound, Committed
<1>8. VoteInv
  BY <1>1, <1>2, <1>3, EmptySlotFacts
     DEF VoteInv, VotersTakePart, AskedTakePart, CountCovers, CommitCounted,
         AbortVoted, CommitUnanimous, Committed, Aborted
<1> QED
  BY <1>4, <1>5, <1>6, <1>7, <1>8 DEF IInv

LEMMA StepInv == WellBehaved /\ IInv /\ [MNext]_mVars => IInv'
<1> SUFFICES ASSUME WellBehaved, IInv, [MNext]_mVars PROVE IInv'
  OBVIOUS
<1>0. TypeInv'
  BY TypeStep DEF IInv, TypeInv
<1>1. CASE TMNext /\ UNCHANGED envVars
  <2>1. ASSUME NEW m \in toManager, HandleMessage(m)
        PROVE  IInv'
    BY <1>0, <1>1, <2>1, AnswersKeep, BeginKeeps, JoinKeeps, StartVoteKeeps,
       AbortKeeps, CountKeeps, CommitKeeps, CrashKeeps
       DEF HandleMessage, Answers
  <2> QED
    BY <1>0, <1>1, <2>1, StartAndEndKeep, RestoreKeeps, CrashKeeps DEF TMNext
<1>2. CASE EnvNext
  BY <1>0, <1>2, OpenKeeps, VoteKeeps, OtherEnvKeeps DEF EnvNext
<1>3. CASE UNCHANGED mVars
  <2>1. /\ UNCHANGED <<toManager, toWorker, votes, txs, tmlog, mode, restore>>
        /\ UNCHANGED <<bound, mayVote>>
    BY <1>3 DEF mVars, netVars, tmVars, tmMemory, envVars
  <2>2. SocketInv' /\ LogInv' /\ TableInv'
    BY <2>1 DEF IInv, SocketInv, VotesBound, OneVote, VotersFresh, RequestsBound,
                RepliesBound, LogInv, BeginFirst, Restoring, NoOrphan,
                DecisionStable, TableInv, EmptyUnlessUp, FreeSlots, SlotsDistinct,
                SlotsBegun, StatesLogged, NodesBound, NotInTable, EmptyTable, Slot,
                Begun, Committed, Aborted
  <2>3. VoteInv'
    BY <2>1 DEF IInv, VoteInv, VotersTakePart, AskedTakePart, CountCovers,
                CommitCounted, AbortVoted, CommitUnanimous, Begun, Committed, Aborted
  <2> QED
    BY <1>0, <2>2, <2>3 DEF IInv, TypeInv
<1> QED
  BY <1>1, <1>2, <1>3 DEF MNext

(* The invariant holds in every state, whatever the order of begins,       *)
(* joins, commit requests and votes, and whenever the manager dies and     *)
(* comes back.                                                             *)
THEOREM Invariance ==
    ASSUME WellBehaved PROVE MSpec => []IInv
<1>1. MInit => IInv
  BY InitInv
<1>2. IInv /\ [MNext]_mVars => IInv'
  BY StepInv
<1> QED
  BY <1>1, <1>2, PTL DEF MSpec

(* The log never holds a commit and an abort of one transaction.           *)
THEOREM DecisionsFinal ==
    ASSUME WellBehaved PROVE MSpec => []DecisionStable
<1>1. IInv => DecisionStable
  BY DEF IInv, LogInv
<1> QED
  BY <1>1, Invariance, PTL

(* A commit is logged only if no socket has voted, or will vote, against.  *)
THEOREM CommitsUnanimous ==
    ASSUME WellBehaved PROVE MSpec => []CommitUnanimous
<1>1. IInv => CommitUnanimous
  BY DEF IInv, VoteInv
<1> QED
  BY <1>1, Invariance, PTL

(* nodeCount never wraps round.                                            *)
THEOREM CountNeverWraps ==
    ASSUME WellBehaved PROVE MSpec => []CountBounded
<1>1. IInv => CountBounded
  BY DEF IInv, VoteInv, CountCovers, Covered, CountBounded
<1> QED
  BY <1>1, Invariance, PTL

(* A manager that serves requests has forgotten no undecided transaction.  *)
THEOREM NothingForgotten ==
    ASSUME WellBehaved PROVE MSpec => []NoOrphan
<1>1. IInv => NoOrphan
  BY DEF IInv, LogInv
<1> QED
  BY <1>1, Invariance, PTL

(* Nobody takes part in a transaction that was not begun.                  *)
THEOREM JoinersKnown ==
    ASSUME WellBehaved PROVE MSpec => []JoinsExisting
<1>1. IInv => JoinsExisting
  <2>1. EmptySlot.nodes = <<>>
    BY DEF EmptySlot
  <2> QED
    BY <2>1 DEF IInv, TableInv, FreeSlots, SlotsBegun, JoinsExisting
<1> QED
  BY <1>1, Invariance, PTL

-----------------------------------------------------------------------------
(* What the manager tells the sockets.                                     *)

(* A reply r is backed by the log and by what its socket was opened for.   *)
Backed(r, log, bnd) ==
    /\ r.type = "COMMIT" => \E t \in bnd[r.to] : Logged(log, "LOG_COMMIT", t)
    /\ r.type = "ABORT"  => \E t \in bnd[r.to] : Logged(log, "LOG_ABORT", t)

LEMMA CheckBacked ==
    ASSUME NEW t, NEW p, t \in bound[p], NEW r \in checkTransactionLog(t, p)
    PROVE  Backed(r, tmlog, bound)
  BY DEF checkTransactionLog, LastTypeIn, txlog_last_tx, Backed, Reply, Logged

LEMMA RepliesStep ==
    ASSUME WellBehaved, IInv, RepliesMatchLog, [MNext]_mVars
    PROVE  RepliesMatchLog'
<1>0. /\ tmlog \in Seq(LogEntries) /\ toWorker \subseteq ToWorker
      /\ bound \in [Port -> SUBSET Tid] /\ txs \in [Slot -> Transaction]
      /\ MTypeOK
  BY DEF IInv, MTypeOK, TMTypeOK, NetTypeOK, EnvTypeOK
<1>1. SUFFICES \A r \in toWorker' : Backed(r, tmlog', bound')
  BY DEF RepliesMatchLog, Backed, Committed, Aborted
<1>2. \A r \in toWorker : Backed(r, tmlog, bound) /\ r.to \in Port
  BY <1>0 DEF RepliesMatchLog, Backed, Committed, Aborted, ToWorker
<1>3. ASSUME LogGrows, \A p \in Port : bound[p] \subseteq bound'[p]
      PROVE  \A r \in toWorker : Backed(r, tmlog', bound')
  BY <1>2, <1>3 DEF Backed, LogGrows
<1>4. ASSUME NEW ty \in LogEntryType, NEW t \in Tid,
             tmlog' = txlog_append(tmlog, txentry_init(ty, t))
      PROVE  LogGrows /\ Logged(tmlog', ty, t)
  BY <1>0, <1>4, LogChange DEF LogGrows
<1>5. ASSUME NEW m \in toManager, HandleMessage(m), UNCHANGED envVars
      PROVE  \A r \in toWorker' : Backed(r, tmlog', bound')
  <2>0. /\ bound' = bound
        /\ "LOG_BEGIN" \in LogEntryType /\ "LOG_COMMIT" \in LogEntryType
        /\ "LOG_ABORT" \in LogEntryType
    BY <1>5 DEF envVars, LogEntryType
  <2>1. CASE Answers(m)
    <3>1. tmlog' = tmlog
      BY <1>0, <2>1, AnswersEffect
    <3>2. ASSUME NEW r \in toWorker', r \notin toWorker
          PROVE  Backed(r, tmlog, bound)
      <4>1. /\ m.type \in TxRequest
            /\ r \in checkTransactionLog(m.tid, m.from)
               \/ r = Reply("TX_ERROR", m.from)
        BY <1>0, <2>1, <3>2, AnswersEffect
      <4>2. m.tid \in bound[m.from]
        BY <4>1 DEF IInv, SocketInv, RequestsBound
      <4>3. Backed(Reply("TX_ERROR", m.from), tmlog, bound)
        BY DEF Backed, Reply
      <4> QED
        BY <4>1, <4>2, <4>3, CheckBacked
    <3> QED
      BY <1>2, <2>0, <3>1, <3>2
  <2>2. CASE BeginAccepted(m) \/ JoinAccepted(m) \/ PreparedCounted(m)
    <3>1. toWorker' = toWorker
      BY <2>2 DEF BeginAccepted, JoinAccepted, PreparedCounted
    <3>2. LogGrows
      <4>1. BeginAccepted(m) => m.tid \in Tid
        BY Received, TxRequests DEF BeginAccepted
      <4> QED
        BY <1>4, <2>0, <2>2, <4>1
           DEF BeginAccepted, JoinAccepted, PreparedCounted, LogGrows
    <3> QED
      BY <1>3, <2>0, <3>1, <3>2
  <2>3. ASSUME NEW i \in Slot, txs[i].tid = m.tid, m.tid \in Tid,
               NEW type, LogGrows,
               toWorker' = toWorker \cup sendToAllWorkers(txs[i], type),
               \/ type = "PREPARE_TO_COMMIT"
               \/ type = "COMMIT" /\ Logged(tmlog', "LOG_COMMIT", m.tid)
               \/ type = "ABORT" /\ Logged(tmlog', "LOG_ABORT", m.tid)
        PROVE  \A r \in toWorker' : Backed(r, tmlog', bound')
    <3>1. m.tid # 0
      BY <2>3 DEF WellBehaved
    <3>2. ASSUME NEW r \in sendToAllWorkers(txs[i], type)
          PROVE  Backed(r, tmlog', bound')
      <4>1. r.type = type /\ r.to \in Nodes(txs[i])
        BY <2>3, <3>1, Broadcast
      <4>2. m.tid \in bound'[r.to]
        BY <2>0, <2>3, <4>1 DEF IInv, TableInv, NodesBound
      <4> QED
        BY <2>3, <4>1, <4>2 DEF Backed
    <3> QED
      BY <1>3, <2>0, <2>3, <3>2
  <2>4. CASE CommitStartsVote(m)
    <3>1. m.tid \in Tid
      BY <2>4, Received, TxRequests DEF CommitStartsVote
    <3> QED
      BY <2>3, <2>4, <3>1
         DEF CommitStartsVote, findTransaction, ManagerSends, LogGrows
  <2>5. CASE AbortDecided(m)
    <3>1. m.tid \in Tid
      BY <2>5, Received, TxRequests DEF AbortDecided
    <3>2. LogGrows /\ Logged(tmlog', "LOG_ABORT", m.tid)
      BY <1>4, <2>0, <2>5, <3>1 DEF AbortDecided
    <3>3. CASE abort_crash
      BY <1>3, <2>0, <2>5, <3>2, <3>3 DEF AbortDecided
    <3>4. CASE ~abort_crash
      BY <2>3, <2>5, <3>1, <3>2, <3>4 DEF AbortDecided, findTransaction, ManagerSends
    <3> QED
      BY <3>3, <3>4
  <2>6. CASE CommitDecided(m)
    <3>1. m.tid \in Tid
      BY <2>6, Received, TxRequests DEF CommitDecided
    <3>2. LogGrows /\ Logged(tmlog', "LOG_COMMIT", m.tid)
      BY <1>4, <2>0, <2>6, <3>1 DEF CommitDecided
    <3>3. CASE commit_crash
      BY <1>3, <2>0, <2>6, <3>2, <3>3 DEF CommitDecided
    <3>4. CASE ~commit_crash
      BY <2>3, <2>6, <3>1, <3>2, <3>4 DEF CommitDecided, findTransaction, ManagerSends
    <3> QED
      BY <3>3, <3>4
  <2>7. CASE PreparedUnknown(m)
    <3>1. m.tid \in bound[m.from]
      BY <2>7, Received, TxRequests DEF PreparedUnknown
    <3> QED
      BY <1>2, <2>0, <2>7, <3>1, CheckBacked DEF PreparedUnknown, ManagerSends
  <2> QED
    BY <1>5, <2>1, <2>2, <2>4, <2>5, <2>6, <2>7 DEF HandleMessage, Answers
<1>6. CASE TMNext /\ UNCHANGED envVars
  <2>1. CASE ManagerStarts \/ RestoreEnds \/ ManagerCrashes
    BY <1>2, <1>6, <2>1
       DEF ManagerStarts, RestoreEnds, ManagerCrashes, netVars, envVars
  <2>2. CASE RestoreEntry
    <3>1. restore.next \in 1..Len(tmlog)
      BY <2>2 DEF RestoreEntry, IInv, RestoreInLog, MTypeOK, TMTypeOK
    <3>2. tmlog[restore.next].tid \in Tid /\ "LOG_ABORT" \in LogEntryType
      BY <1>0, <3>1, EntryType DEF LogEntryType
    <3>3. LogGrows
      BY <1>4, <2>2, <3>2 DEF RestoreEntry, LogGrows
    <3> QED
      BY <1>3, <1>6, <2>2, <3>3 DEF RestoreEntry, netVars, envVars
  <2> QED
    BY <1>5, <1>6, <2>1, <2>2 DEF TMNext
<1>7. CASE EnvNext
  <2>1. toWorker' = toWorker /\ tmlog' = tmlog
        /\ \A p \in Port : bound[p] \subseteq bound'[p]
    BY <1>0, <1>7 DEF EnvNext, SocketOpens, SocketVotes, SocketRequests,
                      SocketPassesOn, SocketRetires, tmVars, envVars, netVars
  <2> QED
    BY <1>3, <2>1 DEF LogGrows
<1>8. CASE UNCHANGED mVars
  BY <1>2, <1>8 DEF mVars, netVars, tmVars, envVars
<1> QED
  BY <1>6, <1>7, <1>8 DEF MNext

(* An outcome is sent to a socket only if the log records that outcome for *)
(* a transaction the socket was opened for.                                *)
THEOREM RepliesTruthful ==
    ASSUME WellBehaved PROVE MSpec => []RepliesMatchLog
<1>1. MInit => RepliesMatchLog
  BY DEF MInit, TMInit, NetInit, RepliesMatchLog
<1>2. IInv /\ RepliesMatchLog /\ [MNext]_mVars => RepliesMatchLog'
  BY RepliesStep
<1> QED
  BY <1>1, <1>2, Invariance, PTL DEF MSpec
=============================================================================
