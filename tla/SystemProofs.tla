---------------------------- MODULE SystemProofs ----------------------------
(***************************************************************************)
(* Proofs about TxSystem, for any number of workers, ports, transactions,  *)
(* slots and objects, and any set of commands.                             *)
(***************************************************************************)
EXTENDS TxSystemInv, TManagerRefines, RollbackProofs

-----------------------------------------------------------------------------
(* The log of a worker.                                                    *)

LEMMA EntryTyped ==
    ASSUME NEW ty \in LogEntryType, NEW t \in Tid \cup {0}
    PROVE  LogEntry(ty, t) \in WLogEntries
  BY TWorkerAssumption DEF LogEntry, WLogEntries, EmptyStore, Store

(* What an append does to a log.                                           *)
LEMMA WorkerAppends ==
    ASSUME NEW log \in Seq(WLogEntries), NEW e \in WLogEntries
    PROVE  LET new == txlog_append(log, e)
           IN  /\ new \in Seq(WLogEntries) /\ new # <<>>
               /\ Len(new) = Len(log) + 1 /\ Len(log) \in Nat
               /\ \A k \in 1..Len(log) : new[k] = log[k]
               /\ new[Len(log) + 1] = e /\ new[Len(new)] = e
<1> DEFINE new == txlog_append(log, e)
<1>1. new = Append(log, e)
  BY DEF txlog_append
<1>2. Len(new) = Len(log) + 1 /\ Len(log) \in Nat
  BY <1>1
<1>3. new \in Seq(WLogEntries) /\ new # <<>>
  BY <1>1
<1>4. new[Len(log) + 1] = e /\ \A k \in 1..Len(log) : new[k] = log[k]
  BY <1>1
<1>5. new[Len(new)] = e
  BY <1>2, <1>4
<1> QED
  BY <1>2, <1>3, <1>4, <1>5

(* What a rollback does to the log and the store.                          *)
LEMMA RollbackTyped ==
    ASSUME NEW log \in Seq(WLogEntries), NEW st \in Store
    PROVE  /\ RolledBackStore(log, st) \in Store
           /\ RolledBackLog(log) \in Seq(WLogEntries)
           /\ StopsAt(log) = 0 => RolledBackLog(log) = log
           /\ StopsAt(log) # 0 =>
                \E t \in Tid \cup {0} :
                   RolledBackLog(log) = txlog_append(log, LogEntry("LOG_ABORT", t))
<1>1. \A i \in 1..Len(log) : log[i].old \in Store /\ log[i].tid \in Tid \cup {0}
  <2> SUFFICES ASSUME NEW i \in 1..Len(log)
               PROVE  log[i].old \in Store /\ log[i].tid \in Tid \cup {0}
    OBVIOUS
  <2>1. log[i] \in WLogEntries
    OBVIOUS
  <2> QED
    BY <2>1 DEF WLogEntries
<1>2. StopsAt(log) \in 0..Len(log)
  BY StopsAtIs
<1>3. RolledBackStore(log, st) \in Store
  BY <1>1, <1>2, RestoredIs DEF Undone
<1>4. CASE StopsAt(log) = 0
  BY <1>3, <1>4 DEF RolledBackLog
<1>5. CASE StopsAt(log) # 0
  <2>1. log[StopsAt(log)].tid \in Tid \cup {0}
    BY <1>1, <1>2, <1>5
  <2>2. LogEntry("LOG_ABORT", log[StopsAt(log)].tid) \in WLogEntries
    BY <2>1, EntryTyped DEF LogEntryType
  <2> QED
    BY <1>3, <1>5, <2>1, <2>2, WorkerAppends DEF RolledBackLog
<1> QED
  BY <1>4, <1>5

-----------------------------------------------------------------------------
(* The workers and the sockets.                                            *)

(* A socket that may vote is that of a worker, whose port it is; it has    *)
(* been opened.                                                            *)
LEMMA VoterIs ==
    ASSUME DisciplineInv, NEW p \in mayVote
    PROVE  /\ p \in Port /\ bound[p] # {}
           /\ \E w \in Worker : /\ wstate[w].thread = "running"
                                /\ wstate[w].server = p /\ listen[w] = p
<1>1. PICK w \in Worker : wstate[w].thread = "running" /\ wstate[w].server = p
  BY DEF DisciplineInv, SocketsKnown, VotingSockets
<1>2. p # NoPort /\ p = listen[w]
  BY <1>1 DEF DisciplineInv, WorkerInv, SocketOpen, SocketBound
<1>3. bound[p] # {}
  BY <1>2 DEF DisciplineInv, WorkerInv, PortOpened
<1>4. p \in Port
  BY DEF DisciplineInv, MTypeOK, EnvTypeOK
<1> QED
  BY <1>1, <1>2, <1>3, <1>4

(* How the memory of one worker decides which sockets may vote.            *)
LEMMA VotersChange ==
    ASSUME DisciplineInv, NEW w \in Worker, NEW ws,
           wstate' = [wstate EXCEPT ![w] = ws], mayVote' = VotingSockets'
    PROVE  /\ wstate[w].thread # "running" => wstate[w].server \notin mayVote
           /\ ws.thread # "running" => mayVote' = mayVote \ {wstate[w].server}
           /\ ws.thread = "running" =>
                 mayVote' = (mayVote \ {wstate[w].server}) \cup {ws.server}
<1>0. /\ wstate \in [Worker -> WorkerState]
      /\ mayVote = VotingSockets
  BY DEF DisciplineInv, WTypeOK, SocketsKnown
<1>1. ASSUME NEW v \in Worker, v # w, wstate[v].thread = "running"
      PROVE  wstate[v].server # wstate[w].server
  <2>1. /\ wstate[v].server # NoPort /\ wstate[v].server = listen[v]
        /\ wstate[w].server # NoPort => wstate[w].server = listen[w]
    BY <1>1 DEF DisciplineInv, WorkerInv, SocketOpen, SocketBound
  <2> QED
    BY <1>1, <2>1 DEF DisciplineInv, PortsApart
<1>2. wstate[w].thread # "running" => wstate[w].server \notin mayVote
  BY <1>0, <1>1 DEF VotingSockets
<1>3. /\ \A v \in Worker : v # w => wstate'[v] = wstate[v]
      /\ wstate'[w] = ws
  BY <1>0
<1>4. mayVote' = {wstate'[v].server : v \in {v \in Worker :
                                              wstate'[v].thread = "running"}}
  BY DEF VotingSockets
<1>5. ws.thread # "running" => mayVote' = mayVote \ {wstate[w].server}
  BY <1>0, <1>1, <1>3, <1>4 DEF VotingSockets
<1>6. ws.thread = "running" =>
        mayVote' = (mayVote \ {wstate[w].server}) \cup {ws.server}
  BY <1>0, <1>1, <1>3, <1>4 DEF VotingSockets
<1> QED
  BY <1>2, <1>5, <1>6

(* What a step of worker w has to establish for its own state, so that     *)
(* what is known of the workers is known afterwards.                       *)
LEMMA WorkerStep ==
    ASSUME DisciplineInv, NEW w \in Worker,
           NEW ws \in WorkerState, NEW log \in Seq(WLogEntries),
           NEW pt \in Port \cup {NoPort},
           wstate' = [wstate EXCEPT ![w] = ws],
           wlog' = [wlog EXCEPT ![w] = log],
           listen' = [listen EXCEPT ![w] = pt],
           bound' \in [Port -> SUBSET Tid],
           \A p \in Port : bound[p] \subseteq bound'[p],
           mayVote' = VotingSockets',
           ws.thread = "none" \/ ws.is_active,
           ws.thread \in {"none", "closed"} \/ ws.server # NoPort,
           ws.server # NoPort => ws.server = pt /\ ws.transaction \in bound'[pt],
           pt = listen[w] \/ (bound[pt] = {} /\ bound'[pt] # {}),
           log # <<>> /\ log[Len(log)].type = "LOG_PREPARED" =>
               pt # NoPort /\ log[Len(log)].tid \in bound'[pt]
    PROVE  /\ wstate' \in [Worker -> WorkerState]
           /\ wlog' \in [Worker -> Seq(WLogEntries)]
           /\ listen' \in [Worker -> Port \cup {NoPort}]
           /\ SocketsKnown' /\ PortsApart' /\ \A v \in Worker : WorkerInv(v)'
<1>0. /\ wstate \in [Worker -> WorkerState]
      /\ wlog \in [Worker -> Seq(WLogEntries)]
      /\ listen \in [Worker -> Port \cup {NoPort}]
  BY DEF DisciplineInv, WTypeOK
<1>1. /\ wstate' \in [Worker -> WorkerState]
      /\ wlog' \in [Worker -> Seq(WLogEntries)]
      /\ listen' \in [Worker -> Port \cup {NoPort}]
      /\ wstate'[w] = ws /\ wlog'[w] = log /\ listen'[w] = pt
      /\ \A v \in Worker : v # w => /\ wstate'[v] = wstate[v]
                                    /\ wlog'[v] = wlog[v]
                                    /\ listen'[v] = listen[v]
  BY <1>0
<1>2. PortsApart'
  <2>1. ASSUME NEW v \in Worker, v # w, pt # NoPort
        PROVE  listen[v] # pt
    <3>1. CASE pt = listen[w]
      BY <2>1, <3>1 DEF DisciplineInv, PortsApart
    <3>2. CASE bound[pt] = {}
      BY <2>1, <3>2 DEF DisciplineInv, WorkerInv, PortOpened
    <3> QED
      BY <3>1, <3>2
  <2> SUFFICES ASSUME NEW u \in Worker, NEW v \in Worker, u # v,
                      listen'[v] # NoPort, listen'[u] = listen'[v]
               PROVE  FALSE
    BY DEF PortsApart
  <2>2. CASE u = w
    BY <1>1, <2>1, <2>2
  <2>3. CASE v = w
    BY <1>1, <2>1, <2>3
  <2>4. CASE u # w /\ v # w
    BY <1>1, <2>4 DEF DisciplineInv, PortsApart
  <2> QED
    BY <2>2, <2>3, <2>4
<1>3. ASSUME NEW v \in Worker, v # w PROVE WorkerInv(v)'
  <2>1. WorkerInv(v)
    BY DEF DisciplineInv
  <2>2. listen[v] \in Port \cup {NoPort}
    BY <1>0
  <2>3. ThreadActive(v)' /\ SocketOpen(v)'
    BY <1>1, <1>3, <2>1 DEF WorkerInv, ThreadActive, SocketOpen
  <2>4. SocketBound(v)'
    <3>1. wstate[v].server # NoPort => /\ wstate[v].server = listen[v]
                                       /\ listen[v] \in Port
                                       /\ wstate[v].transaction \in bound[listen[v]]
      BY <2>1, <2>2 DEF WorkerInv, SocketBound
    <3> QED
      BY <1>1, <1>3, <3>1 DEF SocketBound
  <2>5. PortOpened(v)'
    BY <1>1, <1>3, <2>1, <2>2 DEF WorkerInv, PortOpened
  <2>6. PromisePort(v)'
    BY <1>1, <1>3, <2>1, <2>2 DEF WorkerInv, PromisePort, LastIs, LastEntry
  <2> QED
    BY <2>3, <2>4, <2>5, <2>6 DEF WorkerInv
<1>4. WorkerInv(w)'
  <2>1. ThreadActive(w)' /\ SocketOpen(w)' /\ SocketBound(w)'
    BY <1>1 DEF ThreadActive, SocketOpen, SocketBound
  <2>2. PromisePort(w)'
    BY <1>1 DEF PromisePort, LastIs, LastEntry
  <2>3. PortOpened(w)'
    <3>1. CASE pt = listen[w]
      BY <1>1, <3>1 DEF DisciplineInv, WorkerInv, PortOpened
    <3>2. CASE bound'[pt] # {}
      BY <1>1, <3>2 DEF PortOpened
    <3> QED
      BY <3>1, <3>2
  <2> QED
    BY <2>1, <2>2, <2>3 DEF WorkerInv
<1>5. SocketsKnown'
  BY DEF SocketsKnown
<1> QED
  BY <1>1, <1>2, <1>3, <1>4, <1>5

-----------------------------------------------------------------------------
(* The steps of a worker, one by one: each keeps what is known of the      *)
(* workers and is a step of a socket in TManagerSpec, or none.             *)
WorkersKept ==
    /\ [EnvNext]_mVars
    /\ wstate' \in [Worker -> WorkerState]
    /\ wlog' \in [Worker -> Seq(WLogEntries)]
    /\ listen' \in [Worker -> Port \cup {NoPort}]
    /\ store' \in [Worker -> Store] /\ mark' \in [Worker -> Store]
    /\ bound' \in [Port -> SUBSET Tid]
    /\ SocketsKnown' /\ PortsApart' /\ \A v \in Worker : WorkerInv(v)'

LEMMA Types ==
    ASSUME DisciplineInv
    PROVE  /\ wstate \in [Worker -> WorkerState]
           /\ wlog \in [Worker -> Seq(WLogEntries)]
           /\ listen \in [Worker -> Port \cup {NoPort}]
           /\ store \in [Worker -> Store] /\ mark \in [Worker -> Store]
           /\ bound \in [Port -> SUBSET Tid]
           /\ mayVote \subseteq Port
           /\ \A w \in Worker : WorkerInv(w)
  BY DEF DisciplineInv, WTypeOK, MTypeOK, EnvTypeOK

(* A step that sends nothing and opens no socket.                          *)
LEMMA QuietStep ==
    ASSUME DisciplineInv, NEW w \in Worker,
           NEW ws \in WorkerState, NEW log \in Seq(WLogEntries),
           wstate' = [wstate EXCEPT ![w] = ws],
           wlog' = [wlog EXCEPT ![w] = log],
           UNCHANGED <<netVars, listen, bound>>, UNCHANGED tmVars,
           store' \in [Worker -> Store], mark' \in [Worker -> Store],
           mayVote' = VotingSockets',
           \/ ws.thread # "running"
           \/ wstate[w].thread = "running" /\ ws.server = wstate[w].server,
           ws.thread = "none" \/ ws.is_active,
           ws.thread \in {"none", "closed"} \/ ws.server # NoPort,
           ws.server # NoPort =>
               ws.server = listen[w] /\ ws.transaction \in bound[listen[w]],
           log # <<>> /\ log[Len(log)].type = "LOG_PREPARED" =>
               listen[w] # NoPort /\ log[Len(log)].tid \in bound[listen[w]]
    PROVE  WorkersKept
<1>0. /\ listen' = [listen EXCEPT ![w] = listen[w]]
      /\ listen[w] \in Port \cup {NoPort}
      /\ bound' \in [Port -> SUBSET Tid] /\ bound' = bound
  BY Types
<1>1. /\ wstate' \in [Worker -> WorkerState]
      /\ wlog' \in [Worker -> Seq(WLogEntries)]
      /\ listen' \in [Worker -> Port \cup {NoPort}]
      /\ SocketsKnown' /\ PortsApart' /\ \A v \in Worker : WorkerInv(v)'
  BY <1>0, WorkerStep
<1>2. [EnvNext]_mVars
  <2> DEFINE s == wstate[w].server
  <2>1. CASE s \in Port /\ ws.thread # "running"
    <3>1. mayVote' = mayVote \ {s}
      BY <2>1, VotersChange
    <3>2. SocketRetires(s)
      BY <3>1 DEF SocketRetires
    <3> QED
      BY <2>1, <3>2 DEF EnvNext
  <2>2. CASE s \notin Port /\ ws.thread # "running"
    <3>1. mayVote' = mayVote \ {s}
      BY <2>2, VotersChange
    <3>2. mayVote' = mayVote
      BY <2>2, <3>1, Types
    <3> QED
      BY <3>2 DEF mVars, envVars
  <2>3. CASE ws.thread = "running"
    <3>1. mayVote' = (mayVote \ {s}) \cup {s}
      BY <2>3, VotersChange
    <3>2. s \in mayVote
      BY <2>3 DEF DisciplineInv, SocketsKnown, VotingSockets
    <3>3. mayVote' = mayVote
      BY <3>1, <3>2
    <3> QED
      BY <3>3 DEF mVars, envVars
  <2> QED
    BY <2>1, <2>2, <2>3
<1> QED
  BY <1>0, <1>1, <1>2 DEF WorkersKept

(* A log that a worker starts with or leaves alone.                        *)
LEMMA LogAsItWas ==
    ASSUME DisciplineInv, NEW w \in Worker
    PROVE  /\ wlog[w] \in Seq(WLogEntries)
           /\ wlog[w] # <<>> /\ wlog[w][Len(wlog[w])].type = "LOG_PREPARED" =>
                 /\ listen[w] # NoPort
                 /\ wlog[w][Len(wlog[w])].tid \in bound[listen[w]]
  BY Types DEF WorkerInv, PromisePort, LastIs, LastEntry

(* A step in memory only.                                                  *)
LEMMA MemoryStep ==
    ASSUME DisciplineInv, NEW w \in Worker, NEW ws \in WorkerState,
           wstate' = [wstate EXCEPT ![w] = ws],
           UNCHANGED <<netVars, wlog, listen, store, bound, mark>>,
           UNCHANGED tmVars, mayVote' = VotingSockets',
           \/ ws.thread # "running"
           \/ wstate[w].thread = "running" /\ ws.server = wstate[w].server,
           ws.thread = "none" \/ ws.is_active,
           ws.thread \in {"none", "closed"} \/ ws.server # NoPort,
           ws.server # NoPort =>
               ws.server = listen[w] /\ ws.transaction \in bound[listen[w]]
    PROVE  WorkersKept
<1>1. wlog' = [wlog EXCEPT ![w] = wlog[w]]
  BY Types
<1>2. store' \in [Worker -> Store] /\ mark' \in [Worker -> Store]
  BY Types
<1> QED
  BY <1>1, <1>2, LogAsItWas, QuietStep

(* A rollback, whatever becomes of the memory.                             *)
LEMMA RollbackStep ==
    ASSUME DisciplineInv, NEW w \in Worker, NEW ws \in WorkerState,
           wstate' = [wstate EXCEPT ![w] = ws], update_rollback(w),
           UNCHANGED <<netVars, listen, bound>>,
           UNCHANGED tmVars, mayVote' = VotingSockets',
           \/ ws.thread # "running"
           \/ wstate[w].thread = "running" /\ ws.server = wstate[w].server,
           ws.thread = "none" \/ ws.is_active,
           ws.thread \in {"none", "closed"} \/ ws.server # NoPort,
           ws.server # NoPort =>
               ws.server = listen[w] /\ ws.transaction \in bound[listen[w]]
    PROVE  WorkersKept
<1> DEFINE log == RolledBackLog(wlog[w])
           st  == RolledBackStore(wlog[w], store[w])
<1>1. wlog[w] \in Seq(WLogEntries) /\ store[w] \in Store
  BY Types
<1>2. log \in Seq(WLogEntries) /\ st \in Store
  BY <1>1, RollbackTyped
<1>3. wlog' = [wlog EXCEPT ![w] = log] /\ store' = [store EXCEPT ![w] = st]
  BY DEF update_rollback
<1>4. store' \in [Worker -> Store] /\ mark' \in [Worker -> Store]
  <2>1. store' \in [Worker -> Store] /\ store'[w] = st
    BY <1>2, <1>3, Types
  <2>2. mark' = mark \/ mark' = [mark EXCEPT ![w] = st]
    BY <2>1 DEF update_rollback
  <2> QED
    BY <1>2, <2>1, <2>2, Types
<1>5. log # <<>> /\ log[Len(log)].type = "LOG_PREPARED" =>
        listen[w] # NoPort /\ log[Len(log)].tid \in bound[listen[w]]
  <2>1. CASE StopsAt(wlog[w]) = 0
    BY <1>1, <2>1, RollbackTyped, LogAsItWas
  <2>2. CASE StopsAt(wlog[w]) # 0
    <3>1. PICK t \in Tid \cup {0} :
             log = txlog_append(wlog[w], LogEntry("LOG_ABORT", t))
      BY <1>1, <2>2, RollbackTyped
    <3>2. LogEntry("LOG_ABORT", t) \in WLogEntries
      BY EntryTyped DEF LogEntryType
    <3>3. log[Len(log)] = LogEntry("LOG_ABORT", t)
      BY <1>1, <3>1, <3>2, WorkerAppends
    <3> QED
      BY <3>3 DEF LogEntry
  <2> QED
    BY <2>1, <2>2
<1> HIDE DEF log, st
<1> QED
  BY <1>2, <1>3, <1>4, <1>5, QuietStep

(* The kinds of memory a worker starts with.                               *)
LEMMA StartMemory ==
    ASSUME NEW a \in BOOLEAN, NEW u \in BOOLEAN, NEW d \in BOOLEAN
    PROVE  /\ Uninitialised(a, u, d) \in WorkerState
           /\ Uninitialised(a, u, d).thread = "none"
           /\ Uninitialised(a, u, d).server = NoPort
           /\ Uninitialised(a, u, d).uncertain = u
           /\ Uninitialised(a, u, d).is_active = a
           /\ Down \in WorkerState /\ Down.thread = "none"
           /\ Down.server = NoPort /\ Down.uncertain = FALSE
  BY DEF Uninitialised, Down, WorkerState, ThreadState

LEMMA SpawnedIs ==
    ASSUME NEW ws \in WorkerState, NEW t \in Tid \cup {0}, NEW p \in Port
    PROVE  /\ Spawned(ws, t, p) \in WorkerState
           /\ Spawned(ws, t, p).is_active
           /\ Spawned(ws, t, p).transaction = t
           /\ Spawned(ws, t, p).server = p
           /\ Spawned(ws, t, p).up = ws.up
           /\ Spawned(ws, t, p).uncertain = ws.uncertain
           /\ Spawned(ws, t, p).thread = IF ws.uncertain THEN "uncertain"
                                                         ELSE "running"
  BY DEF Spawned, WorkerState, ThreadState

LEMMA StartsKept ==
    ASSUME DisciplineInv, NEW w \in Worker, Starts(w),
           UNCHANGED tmVars, mayVote' = VotingSockets'
    PROVE  WorkersKept
<1>1. CASE StartsUncertain(w)
  <2>1. PICK d \in StackDelay :
          wstate' = [wstate EXCEPT ![w] =
              Spawned(Uninitialised(TRUE, TRUE, d), LastEntry(w).tid, listen[w])]
    BY <1>1 DEF StartsUncertain, LastEntry
  <2> DEFINE u  == Uninitialised(TRUE, TRUE, d)
             t  == LastEntry(w).tid
             ws == Spawned(u, t, listen[w])
  <2>2. listen[w] \in Port /\ t \in bound[listen[w]]
    BY <1>1, Types DEF StartsUncertain, WorkerInv, PromisePort
  <2>3. t \in Tid \cup {0}
    BY <2>2, Types
  <2>4. u \in WorkerState /\ u.uncertain = TRUE
    BY StartMemory, TWorkerAssumption
  <2>5. wstate' = [wstate EXCEPT ![w] = ws]
    BY <2>1
  <2>6. /\ ws \in WorkerState /\ ws.is_active
        /\ ws.server = listen[w] /\ ws.transaction = t
        /\ ws.thread = IF u.uncertain THEN "uncertain" ELSE "running"
    <3> HIDE DEF u, t
    <3> QED
      BY <2>2, <2>3, <2>4, SpawnedIs
  <2>7. ws.thread = "uncertain"
    BY <2>4, <2>6
  <2>8. UNCHANGED <<netVars, wlog, listen, store, bound, mark>>
    BY <1>1 DEF StartsUncertain
  <2>9. ws.server # NoPort
    BY <2>2, <2>6, TWorkerAssumption
  <2> HIDE DEF ws, u, t
  <2> QED
    BY <2>2, <2>5, <2>6, <2>7, <2>8, <2>9, MemoryStep
<1>2. CASE StartsWithRollback(w)
  <2>1. PICK a \in StackFlag, u \in StackFlag, d \in StackDelay :
          wstate' = [wstate EXCEPT ![w] = Uninitialised(a, u, d)]
    BY <1>2 DEF StartsWithRollback
  <2>2. a \in BOOLEAN /\ u \in BOOLEAN /\ d \in BOOLEAN
    BY TWorkerAssumption
  <2>3. update_rollback(w) /\ UNCHANGED <<netVars, listen, bound>>
    BY <1>2 DEF StartsWithRollback
  <2> QED
    BY <2>1, <2>2, <2>3, StartMemory, RollbackStep
<1>3. CASE StartsClean(w)
  <2>1. PICK a \in StackFlag, u \in StackFlag, d \in StackDelay :
          wstate' = [wstate EXCEPT ![w] = Uninitialised(a, u, d)]
    BY <1>3 DEF StartsClean
  <2>2. a \in BOOLEAN /\ u \in BOOLEAN /\ d \in BOOLEAN
    BY TWorkerAssumption
  <2>3. UNCHANGED <<netVars, wlog, listen, store, bound, mark>>
    BY <1>3 DEF StartsClean
  <2> QED
    BY <2>1, <2>2, <2>3, StartMemory, MemoryStep
<1> QED
  BY <1>1, <1>2, <1>3 DEF Starts

LEMMA DiesKept ==
    ASSUME DisciplineInv, NEW w \in Worker,
           \/ WorkerCrashes(w)
           \/ \E type \in {"COMMIT"} \cup TestRequest : PassesOnToNull(w, type),
           UNCHANGED tmVars, mayVote' = VotingSockets'
    PROVE  WorkersKept
<1>1. /\ wstate' = [wstate EXCEPT ![w] = Down]
      /\ UNCHANGED <<netVars, wlog, listen, store, bound, mark>>
  BY DEF WorkerCrashes, PassesOnToNull, Dies
<1>2. Down \in WorkerState /\ Down.thread = "none" /\ Down.server = NoPort
  BY StartMemory
<1> QED
  BY <1>1, <1>2, MemoryStep

LEMMA EntersKept ==
    ASSUME DisciplineInv, NEW w \in Worker, NEW t \in Tid, NEW p \in Port,
           NEW type \in {"BEGINTX", "JOINTX"}, EntersTransaction(w, t, p, type),
           UNCHANGED tmVars, mayVote' = VotingSockets'
    PROVE  WorkersKept
<1> DEFINE ws  == Spawned(wstate[w], t, p)
           log == txlog_append(wlog[w], LogEntry("LOG_BEGIN", t))
<1>0. /\ wstate[w] \in WorkerState /\ wlog[w] \in Seq(WLogEntries)
      /\ ~wstate[w].is_active /\ wstate[w].thread = "none"
  BY Types DEF EntersTransaction, WorkerInv, ThreadActive
<1>1. /\ ws \in WorkerState /\ ws.is_active /\ ws.server = p /\ ws.transaction = t
      /\ ws.thread = IF wstate[w].uncertain THEN "uncertain" ELSE "running"
  BY <1>0, SpawnedIs
<1>2. LogEntry("LOG_BEGIN", t) \in WLogEntries
  BY EntryTyped DEF LogEntryType
<1>3. /\ log \in Seq(WLogEntries) /\ log[Len(log)] = LogEntry("LOG_BEGIN", t)
  BY <1>0, <1>2, WorkerAppends
<1>4. /\ wstate' = [wstate EXCEPT ![w] = ws]
      /\ wlog' = [wlog EXCEPT ![w] = log]
      /\ listen' = [listen EXCEPT ![w] = p]
      /\ bound' = [bound EXCEPT ![p] = bound[p] \cup {t}]
      /\ mark' = [mark EXCEPT ![w] = store[w]] /\ store' = store
      /\ WorkerSends(Request(type, p, t)) /\ UNCHANGED <<toWorker, votes>>
      /\ Binds(w, p)
  BY DEF EntersTransaction, Logs, MarkType
<1>5. /\ bound' \in [Port -> SUBSET Tid] /\ t \in bound'[p]
      /\ \A q \in Port : bound[q] \subseteq bound'[q]
  BY <1>4, Types
<1>6. store' \in [Worker -> Store] /\ mark' \in [Worker -> Store]
  BY <1>4, Types
<1>7. p = listen[w] \/ bound[p] = {}
  BY <1>4 DEF Binds
<1>8. log[Len(log)].type # "LOG_PREPARED"
  BY <1>3 DEF LogEntry
<1>9. NoPort \notin Port
  BY TWorkerAssumption
<1> HIDE DEF ws, log
<1>10. /\ wstate' \in [Worker -> WorkerState]
       /\ wlog' \in [Worker -> Seq(WLogEntries)]
       /\ listen' \in [Worker -> Port \cup {NoPort}]
       /\ SocketsKnown' /\ PortsApart' /\ \A v \in Worker : WorkerInv(v)'
  BY <1>1, <1>3, <1>4, <1>5, <1>7, <1>8, <1>9, WorkerStep
<1>11. SocketOpens(p, t, type)
  <2>1. /\ wstate[w].uncertain => mayVote' = mayVote
        /\ ~wstate[w].uncertain => mayVote' = mayVote \cup {p}
    <3>1. wstate[w].server \notin mayVote
      BY <1>0, <1>4, VotersChange
    <3>2. /\ ws.thread # "running" => mayVote' = mayVote \ {wstate[w].server}
          /\ ws.thread = "running" =>
                mayVote' = (mayVote \ {wstate[w].server}) \cup {p}
      BY <1>1, <1>4, VotersChange
    <3>3. mayVote \ {wstate[w].server} = mayVote
      BY <3>1
    <3> QED
      BY <1>1, <3>2, <3>3
  <2>2. p \notin mayVote
    <3>1. SUFFICES ASSUME p \in mayVote PROVE FALSE
      OBVIOUS
    <3>2. PICK v \in Worker : wstate[v].thread = "running" /\ listen[v] = p
      BY <3>1, VoterIs
    <3>3. bound[p] # {}
      BY <3>1, VoterIs
    <3>4. v = w
      BY <1>7, <1>9, <3>2, <3>3 DEF DisciplineInv, PortsApart
    <3> QED
      BY <1>0, <3>2, <3>4
  <2>3. ~wstate[w].uncertain => bound[p] = {}
    BY <1>4 DEF Binds
  <2>4. \/ bound[p] = {} /\ mayVote' = mayVote \cup {p}
        \/ mayVote' = mayVote \ {p}
    BY <2>1, <2>2, <2>3
  <2> QED
    BY <1>4, <2>4, TxSystemAssumption DEF SocketOpens
<1>12. type \in Sends
  BY TxSystemAssumption DEF TxRequest
<1>13. EnvNext
  BY <1>11, <1>12 DEF EnvNext
<1> QED
  BY <1>5, <1>6, <1>10, <1>13 DEF WorkersKept

(* The updates, whose log entry is not PREPARED.                           *)
LEMMA UpdatesKept ==
    ASSUME DisciplineInv, NEW w \in Worker, NEW f \in Field, NEW v \in Value,
           UpdatesInTransaction(w, f, v) \/ UpdatesOutside(w, f, v),
           UNCHANGED tmVars, mayVote' = VotingSockets'
    PROVE  WorkersKept
<1>0. /\ wstate[w] \in WorkerState /\ wlog[w] \in Seq(WLogEntries)
      /\ store[w] \in Store /\ WorkerInv(w)
  BY Types
<1>1. /\ wstate' = [wstate EXCEPT ![w] = wstate[w]]
      /\ UNCHANGED <<netVars, listen, bound, mark>>
      /\ store' = [store EXCEPT ![w] = [store[w] EXCEPT ![f] = v]]
  BY Types DEF UpdatesInTransaction, UpdatesOutside
<1>2. store' \in [Worker -> Store] /\ mark' \in [Worker -> Store]
  <2>1. [store[w] EXCEPT ![f] = v] \in Store
    BY <1>0 DEF Store
  <2> QED
    BY <1>1, <2>1, Types
<1>3. /\ \/ wstate[w].thread # "running"
         \/ wstate[w].thread = "running" /\ wstate[w].server = wstate[w].server
      /\ wstate[w].thread = "none" \/ wstate[w].is_active
      /\ wstate[w].thread \in {"none", "closed"} \/ wstate[w].server # NoPort
      /\ wstate[w].server # NoPort =>
            /\ wstate[w].server = listen[w]
            /\ wstate[w].transaction \in bound[listen[w]]
  BY <1>0 DEF WorkerInv, ThreadActive, SocketOpen, SocketBound
<1>4. CASE UpdatesInTransaction(w, f, v)
  <2> DEFINE e   == UpdateEntry(wstate[w].transaction, store[w])
             log == txlog_append(wlog[w], e)
  <2>1. e \in WLogEntries /\ e.type = "LOG_UPDATE"
    BY <1>0 DEF UpdateEntry, WLogEntries, WorkerState, LogEntryType
  <2>2. log \in Seq(WLogEntries) /\ log[Len(log)] = e
    <3> HIDE DEF e
    <3> QED
      BY <1>0, <2>1, WorkerAppends
  <2>3. wlog' = [wlog EXCEPT ![w] = log]
    BY <1>4 DEF UpdatesInTransaction
  <2>4. log[Len(log)].type # "LOG_PREPARED"
    BY <2>1, <2>2
  <2> HIDE DEF e, log
  <2> QED
    BY <1>0, <1>1, <1>2, <1>3, <2>2, <2>3, <2>4, QuietStep
<1>5. CASE UpdatesOutside(w, f, v)
  <2>1. wlog' = [wlog EXCEPT ![w] = wlog[w]]
    BY <1>5, Types DEF UpdatesOutside
  <2> QED
    BY <1>0, <1>1, <1>2, <1>3, <2>1, LogAsItWas, QuietStep
<1> QED
  BY <1>4, <1>5

(* The steps that only send: what the client passes on, and the ASK.       *)
LEMMA SendsKept ==
    ASSUME DisciplineInv, NEW w \in Worker,
           \/ \E type \in {"COMMIT"} \cup TestRequest : PassesOn(w, type)
           \/ Asks(w),
           UNCHANGED tmVars, mayVote' = VotingSockets'
    PROVE  WorkersKept
<1> DEFINE p == wstate[w].server
           t == wstate[w].transaction
<1>0. WorkerInv(w)
  BY Types
<1>1. UNCHANGED wVars /\ UNCHANGED <<toWorker, votes>>
  BY DEF PassesOn, Asks
<1>2. mayVote' = mayVote
  BY <1>1 DEF wVars, VotingSockets, DisciplineInv, SocketsKnown
<1>3. p # NoPort
  BY <1>0 DEF PassesOn, Asks, WorkerInv, SocketOpen
<1>4. p = listen[w] /\ p \in Port /\ t \in bound[p] /\ t \in Tid
  <2>1. p = listen[w] /\ t \in bound[listen[w]]
    BY <1>0, <1>3 DEF WorkerInv, SocketBound
  <2>2. p \in Port
    BY <1>3, <2>1, Types
  <2> QED
    BY <2>1, <2>2, Types
<1>5. EnvNext
  <2>1. CASE PassesOn(w, "COMMIT") \/ Asks(w)
    <3>1. PICK type \in ResentType : WorkerSends(Request(type, p, t))
      BY <2>1 DEF PassesOn, Asks, ResentType
    <3>2. type \in ResentType \cap Sends
      BY TxSystemAssumption DEF TxRequest
    <3>3. SocketRequests(p, t, type)
      BY <1>1, <1>2, <1>4, <3>1 DEF SocketRequests, wVars, envVars
    <3> QED
      BY <1>4, <3>2, <3>3 DEF EnvNext
  <2>2. CASE \E type \in TestRequest : PassesOn(w, type)
    <3>1. PICK type \in TestRequest : PassesOn(w, type)
      BY <2>2
    <3>2. WorkerSends(Request(type, p, 0))
      BY <3>1 DEF PassesOn, TestRequest
    <3>3. SocketPassesOn(p, type)
      BY <1>1, <1>2, <1>4, <3>2 DEF SocketPassesOn, wVars, envVars
    <3> QED
      BY <1>4, <3>3, TxSystemAssumption DEF EnvNext
  <2> QED
    BY <2>1, <2>2
<1>6. /\ wstate' = wstate /\ wlog' = wlog /\ listen' = listen
      /\ store' = store /\ mark' = mark /\ bound' = bound
  BY <1>1 DEF wVars
<1>7. SocketsKnown' /\ PortsApart' /\ \A v \in Worker : WorkerInv(v)'
  BY <1>6 DEF SocketsKnown, DisciplineInv, PortsApart, WorkerInv, ThreadActive,
              SocketOpen, SocketBound, PortOpened, PromisePort, LastIs, LastEntry
<1> QED
  BY <1>5, <1>6, <1>7, Types DEF WorkersKept

(* ABORT and VOTE_ABORT of the client.                                     *)
LEMMA AbortsKept ==
    ASSUME DisciplineInv, NEW w \in Worker,
           AbortsLocally(w) \/ WillVoteAbort(w),
           UNCHANGED tmVars, mayVote' = VotingSockets'
    PROVE  WorkersKept
<1> DEFINE ws == [wstate[w] EXCEPT !.do_commit = FALSE, !.do_abort = TRUE]
<1>0. wstate[w] \in WorkerState /\ WorkerInv(w)
  BY Types
<1>1. /\ ws \in WorkerState /\ ws.thread = wstate[w].thread
      /\ ws.server = wstate[w].server /\ ws.is_active = wstate[w].is_active
      /\ ws.transaction = wstate[w].transaction
  BY <1>0 DEF WorkerState
<1>2. wstate' = [wstate EXCEPT ![w] = ws]
  BY DEF AbortsLocally, WillVoteAbort
<1>3. /\ ws.thread # "running"
         \/ (wstate[w].thread = "running" /\ ws.server = wstate[w].server)
      /\ ws.thread = "none" \/ ws.is_active
      /\ ws.thread \in {"none", "closed"} \/ ws.server # NoPort
      /\ ws.server # NoPort =>
            ws.server = listen[w] /\ ws.transaction \in bound[listen[w]]
  BY <1>0, <1>1 DEF WorkerInv, ThreadActive, SocketOpen, SocketBound
<1>4. CASE AbortsLocally(w)
  <2>1. update_rollback(w) /\ UNCHANGED <<netVars, listen, bound>>
    BY <1>4 DEF AbortsLocally
  <2> HIDE DEF ws
  <2> QED
    BY <1>1, <1>2, <1>3, <2>1, RollbackStep
<1>5. CASE WillVoteAbort(w)
  <2>1. UNCHANGED <<netVars, wlog, listen, store, bound, mark>>
    BY <1>5 DEF WillVoteAbort
  <2> HIDE DEF ws
  <2> QED
    BY <1>1, <1>2, <1>3, <2>1, MemoryStep
<1> QED
  BY <1>4, <1>5

(* Where a transaction thread has its socket.                              *)
LEMMA ThreadSocket ==
    ASSUME DisciplineInv, NEW w \in Worker,
           wstate[w].thread \in {"running", "uncertain", "closing"}
    PROVE  /\ wstate[w].is_active
           /\ wstate[w].server = listen[w] /\ wstate[w].server \in Port
           /\ wstate[w].server # NoPort
           /\ wstate[w].transaction \in bound[listen[w]]
           /\ wstate[w].transaction \in Tid
           /\ wstate[w].thread = "running" => wstate[w].server \in mayVote
<1>0. WorkerInv(w) /\ wstate[w] \in WorkerState
  BY Types
<1>1. wstate[w].server # NoPort /\ wstate[w].is_active
  BY <1>0 DEF WorkerInv, SocketOpen, ThreadActive
<1>2. wstate[w].server = listen[w] /\ wstate[w].transaction \in bound[listen[w]]
  BY <1>0, <1>1 DEF WorkerInv, SocketBound
<1>3. listen[w] \in Port
  BY <1>1, <1>2, Types
<1>4. wstate[w].transaction \in Tid
  BY <1>2, <1>3, Types
<1>5. wstate[w].thread = "running" => wstate[w].server \in mayVote
  BY DEF DisciplineInv, SocketsKnown, VotingSockets
<1> QED
  BY <1>1, <1>2, <1>3, <1>4, <1>5

(* A vote, with what it leaves in the log.                                 *)
LEMMA VoteStep ==
    ASSUME DisciplineInv, NEW w \in Worker, NEW type \in VoteType,
           NEW ws \in WorkerState, NEW log \in Seq(WLogEntries),
           ThreadReceives(w, "PREPARE_TO_COMMIT", {"running"}),
           SendsVote(w, type), UNCHANGED toWorker,
           wstate' = [wstate EXCEPT ![w] = ws],
           wlog' = [wlog EXCEPT ![w] = log],
           ws.thread = "uncertain", ws.is_active = wstate[w].is_active,
           ws.server = wstate[w].server, ws.transaction = wstate[w].transaction,
           log # <<>> /\ log[Len(log)].type = "LOG_PREPARED" =>
               log[Len(log)].tid \in bound[listen[w]],
           UNCHANGED <<listen, store, bound>>, UNCHANGED tmVars,
           mark' = mark, mayVote' = VotingSockets'
    PROVE  WorkersKept
<1> DEFINE p == wstate[w].server
           t == wstate[w].transaction
<1>0. wstate[w].thread = "running" /\ Reply("PREPARE_TO_COMMIT", p) \in toWorker
  BY DEF ThreadReceives
<1>1. /\ wstate[w].is_active /\ p = listen[w] /\ p \in Port /\ p # NoPort
      /\ t \in bound[p] /\ t \in Tid /\ p \in mayVote
  BY <1>0, ThreadSocket
<1>2. mayVote' = mayVote \ {p}
  BY VotersChange
<1>3. /\ WorkerSends(Request(type, p, t))
      /\ votes' = votes \cup {Request(type, p, t)}
  BY DEF SendsVote
<1>4. SocketVotes(p, t, type)
  BY <1>0, <1>1, <1>2, <1>3 DEF SocketVotes
<1>5. type \in VoteType \cap Sends
  BY TxSystemAssumption DEF TxRequest
<1>6. EnvNext
  BY <1>1, <1>4, <1>5 DEF EnvNext
<1>7. /\ listen' = [listen EXCEPT ![w] = listen[w]]
      /\ listen[w] \in Port \cup {NoPort} /\ bound' = bound
      /\ bound' \in [Port -> SUBSET Tid]
      /\ store' \in [Worker -> Store] /\ mark' \in [Worker -> Store]
  BY Types
<1>8. /\ wstate' \in [Worker -> WorkerState]
      /\ wlog' \in [Worker -> Seq(WLogEntries)]
      /\ listen' \in [Worker -> Port \cup {NoPort}]
      /\ SocketsKnown' /\ PortsApart' /\ \A v \in Worker : WorkerInv(v)'
  BY <1>1, <1>7, WorkerStep
<1> QED
  BY <1>6, <1>7, <1>8 DEF WorkersKept

(* The log when a thread appends an entry for its transaction.             *)
LEMMA ThreadLogs ==
    ASSUME DisciplineInv, NEW w \in Worker, NEW type \in LogEntryType,
           wstate[w].thread \in {"running", "uncertain"},
           Logs(w, type, wstate[w].transaction), store' = store
    PROVE  LET log == txlog_append(wlog[w], LogEntry(type, wstate[w].transaction))
           IN  /\ log \in Seq(WLogEntries) /\ log # <<>>
               /\ wlog' = [wlog EXCEPT ![w] = log]
               /\ log[Len(log)].type = type
               /\ log[Len(log)].tid = wstate[w].transaction
               /\ store' \in [Worker -> Store] /\ mark' \in [Worker -> Store]
<1> DEFINE e   == LogEntry(type, wstate[w].transaction)
           log == txlog_append(wlog[w], e)
<1>1. e \in WLogEntries /\ e.type = type /\ e.tid = wstate[w].transaction
  <2>1. wstate[w].transaction \in Tid
    BY ThreadSocket
  <2> QED
    BY <2>1, EntryTyped DEF LogEntry
<1>2. wlog[w] \in Seq(WLogEntries) /\ store[w] \in Store
  BY Types
<1>3. wlog' = [wlog EXCEPT ![w] = log]
  BY DEF Logs
<1>4. store' \in [Worker -> Store] /\ mark' \in [Worker -> Store]
  BY <1>2, Types DEF Logs
<1>5. log \in Seq(WLogEntries) /\ log # <<>> /\ log[Len(log)] = e
  <2> HIDE DEF e
  <2> QED
    BY <1>1, <1>2, WorkerAppends
<1> QED
  BY <1>1, <1>3, <1>4, <1>5

LEMMA VotesKept ==
    ASSUME DisciplineInv, NEW w \in Worker, VotesPrepared(w) \/ VotesAbort(w),
           UNCHANGED tmVars, mayVote' = VotingSockets'
    PROVE  WorkersKept
<1>0. /\ wstate[w] \in WorkerState /\ wstate[w].thread = "running"
      /\ ThreadReceives(w, "PREPARE_TO_COMMIT", {"running"})
      /\ UNCHANGED <<listen, bound, store>> /\ mark' = mark
  BY Types DEF VotesPrepared, VotesAbort, ThreadReceives, Logs, MarkType
<1>1. /\ wstate[w].transaction \in bound[listen[w]] /\ listen[w] # NoPort
  BY <1>0, ThreadSocket
<1>2. CASE VotesPrepared(w)
  <2> DEFINE log == txlog_append(wlog[w], LogEntry("LOG_PREPARED", wstate[w].transaction))
  <2>1. /\ log \in Seq(WLogEntries) /\ wlog' = [wlog EXCEPT ![w] = log]
        /\ log[Len(log)].tid = wstate[w].transaction
        /\ store' \in [Worker -> Store] /\ mark' \in [Worker -> Store]
    <3>1. Logs(w, "LOG_PREPARED", wstate[w].transaction)
      BY <1>2 DEF VotesPrepared
    <3> QED
      BY <1>0, <3>1, ThreadLogs DEF LogEntryType
  <2> HIDE DEF log
  <2>2. CASE wstate[w].negative_delay
    <3>1. wstate' = [wstate EXCEPT ![w] = Down] /\ UNCHANGED netVars
      BY <1>2, <2>2 DEF VotesPrepared, Dies
    <3>2. Down \in WorkerState /\ Down.thread = "none" /\ Down.server = NoPort
      BY StartMemory
    <3> QED
      BY <1>0, <1>1, <2>1, <3>1, <3>2, QuietStep
  <2>3. CASE ~wstate[w].negative_delay
    <3> DEFINE ws == [wstate[w] EXCEPT !.uncertain = TRUE, !.thread = "uncertain"]
    <3>1. /\ wstate' = [wstate EXCEPT ![w] = ws] /\ SendsVote(w, "PREPARED")
          /\ UNCHANGED toWorker
      BY <1>2, <2>3 DEF VotesPrepared
    <3>2. /\ ws \in WorkerState /\ ws.thread = "uncertain"
          /\ ws.is_active = wstate[w].is_active /\ ws.server = wstate[w].server
          /\ ws.transaction = wstate[w].transaction
      BY <1>0 DEF WorkerState, ThreadState
    <3> HIDE DEF ws
    <3> QED
      BY <1>0, <1>1, <2>1, <3>1, <3>2, VoteStep DEF VoteType
  <2> QED
    BY <2>2, <2>3
<1>3. CASE VotesAbort(w)
  <2>1. CASE wstate[w].negative_delay
    <3>1. /\ wstate' = [wstate EXCEPT ![w] = Down]
          /\ UNCHANGED <<netVars, wlog, listen, store, bound, mark>>
      BY <1>3, <2>1 DEF VotesAbort, Dies
    <3>2. Down \in WorkerState /\ Down.thread = "none" /\ Down.server = NoPort
      BY StartMemory
    <3> QED
      BY <3>1, <3>2, MemoryStep
  <2>2. CASE ~wstate[w].negative_delay
    <3> DEFINE ws == [wstate[w] EXCEPT !.do_abort = FALSE, !.do_commit = TRUE,
                                       !.uncertain = TRUE, !.thread = "uncertain"]
    <3>1. /\ wstate' = [wstate EXCEPT ![w] = ws] /\ SendsVote(w, "ABORT")
          /\ UNCHANGED toWorker
      BY <1>3, <2>2 DEF VotesAbort
    <3>2. wlog' = [wlog EXCEPT ![w] = wlog[w]]
      BY <1>3, Types DEF VotesAbort
    <3>3. /\ ws \in WorkerState /\ ws.thread = "uncertain"
          /\ ws.is_active = wstate[w].is_active /\ ws.server = wstate[w].server
          /\ ws.transaction = wstate[w].transaction
      BY <1>0 DEF WorkerState, ThreadState
    <3> HIDE DEF ws
    <3> QED
      BY <1>0, <1>1, <3>1, <3>2, <3>3, LogAsItWas, VoteStep DEF VoteType
  <2> QED
    BY <2>1, <2>2
<1> QED
  BY <1>2, <1>3

(* What the manager decides, and the end of the thread.                    *)
LEMMA OutcomeKept ==
    ASSUME DisciplineInv, NEW w \in Worker,
           RefusedByManager(w) \/ LearnsCommit(w) \/ LearnsAbort(w),
           UNCHANGED tmVars, mayVote' = VotingSockets'
    PROVE  WorkersKept
<1>0. /\ wstate[w] \in WorkerState
      /\ wstate[w].thread \in {"running", "uncertain"}
  BY Types DEF RefusedByManager, LearnsCommit, LearnsAbort, ThreadReceives
<1>1. /\ wstate[w].is_active /\ wstate[w].server = listen[w]
      /\ wstate[w].server # NoPort
      /\ wstate[w].transaction \in bound[listen[w]]
  BY <1>0, ThreadSocket
<1>2. CASE RefusedByManager(w)
  <2> DEFINE ws == [wstate[w] EXCEPT !.thread = "closing"]
  <2>1. /\ wstate' = [wstate EXCEPT ![w] = ws]
        /\ UNCHANGED <<netVars, wlog, listen, store, bound, mark>>
    BY <1>2 DEF RefusedByManager
  <2>2. /\ ws \in WorkerState /\ ws.thread = "closing" /\ ws.is_active
        /\ ws.server = listen[w] /\ ws.server # NoPort
        /\ ws.transaction \in bound[listen[w]]
    BY <1>0, <1>1 DEF WorkerState, ThreadState
  <2> HIDE DEF ws
  <2> QED
    BY <2>1, <2>2, MemoryStep
<1>3. CASE LearnsCommit(w) \/ LearnsAbort(w)
  <2> DEFINE ws == [wstate[w] EXCEPT !.uncertain = FALSE, !.thread = "closing"]
  <2>1. /\ wstate' = [wstate EXCEPT ![w] = ws]
        /\ UNCHANGED <<netVars, listen, bound>>
    BY <1>3 DEF LearnsCommit, LearnsAbort, Concludes
  <2>2. /\ ws \in WorkerState /\ ws.thread = "closing" /\ ws.is_active
        /\ ws.server = listen[w] /\ ws.server # NoPort
        /\ ws.transaction \in bound[listen[w]]
    BY <1>0, <1>1 DEF WorkerState, ThreadState
  <2> HIDE DEF ws
  <2>3. CASE LearnsAbort(w)
    <3>1. update_rollback(w)
      BY <2>3 DEF LearnsAbort
    <3> QED
      BY <2>1, <2>2, <3>1, RollbackStep
  <2>4. CASE LearnsCommit(w)
    <3> DEFINE log == txlog_append(wlog[w], LogEntry("LOG_COMMIT", wstate[w].transaction))
    <3>1. /\ log \in Seq(WLogEntries) /\ wlog' = [wlog EXCEPT ![w] = log]
          /\ log[Len(log)].type = "LOG_COMMIT"
          /\ store' \in [Worker -> Store] /\ mark' \in [Worker -> Store]
      <4>1. Logs(w, "LOG_COMMIT", wstate[w].transaction) /\ store' = store
        BY <2>4 DEF LearnsCommit
      <4> QED
        BY <1>0, <4>1, ThreadLogs DEF LogEntryType
    <3> HIDE DEF log
    <3> QED
      BY <2>1, <2>2, <3>1, QuietStep
  <2> QED
    BY <1>3, <2>3, <2>4
<1> QED
  BY <1>2, <1>3

LEMMA EndsKept ==
    ASSUME DisciplineInv, NEW w \in Worker, ClosesSocket(w) \/ ThreadEnds(w),
           UNCHANGED tmVars, mayVote' = VotingSockets'
    PROVE  WorkersKept
<1>0. /\ wstate[w] \in WorkerState /\ WorkerInv(w)
      /\ UNCHANGED <<netVars, wlog, listen, store, bound, mark>>
  BY Types DEF ClosesSocket, ThreadEnds
<1>1. CASE ClosesSocket(w)
  <2> DEFINE ws == [wstate[w] EXCEPT !.server = NoPort, !.thread = "closed"]
  <2>1. wstate' = [wstate EXCEPT ![w] = ws] /\ wstate[w].thread = "closing"
    BY <1>1 DEF ClosesSocket
  <2>2. /\ ws \in WorkerState /\ ws.thread = "closed" /\ ws.is_active
        /\ ws.server = NoPort
    BY <1>0, <2>1, ThreadSocket DEF WorkerState, ThreadState
  <2> HIDE DEF ws
  <2> QED
    BY <1>0, <2>1, <2>2, MemoryStep
<1>2. CASE ThreadEnds(w)
  <2> DEFINE ws == [wstate[w] EXCEPT !.is_active = FALSE, !.thread = "none"]
  <2>1. wstate' = [wstate EXCEPT ![w] = ws] /\ wstate[w].thread = "closed"
    BY <1>2 DEF ThreadEnds
  <2>2. /\ ws \in WorkerState /\ ws.thread = "none"
        /\ ws.server = wstate[w].server /\ ws.transaction = wstate[w].transaction
    BY <1>0 DEF WorkerState, ThreadState
  <2>3. ws.server # NoPort =>
          ws.server = listen[w] /\ ws.transaction \in bound[listen[w]]
    BY <1>0, <2>2 DEF WorkerInv, SocketBound
  <2> HIDE DEF ws
  <2> QED
    BY <1>0, <2>1, <2>2, <2>3, MemoryStep
<1> QED
  BY <1>1, <1>2

LEMMA WorkerNextKept ==
    ASSUME DisciplineInv, NEW w \in Worker, WNext(w),
           UNCHANGED tmVars, mayVote' = VotingSockets'
    PROVE  WorkersKept
<1>1. CASE Starts(w)
  BY <1>1, StartsKept
<1>2. CASE WorkerCrashes(w)
  BY <1>2, DiesKept
<1>3. CASE ClientCommand(w)
  <2>1. CASE \E t \in Tid, p \in Port, type \in {"BEGINTX", "JOINTX"} :
               EntersTransaction(w, t, p, type)
    BY <2>1, EntersKept
  <2>2. CASE \E f \in Field, v \in Value :
               UpdatesInTransaction(w, f, v) \/ UpdatesOutside(w, f, v)
    BY <2>2, UpdatesKept
  <2>3. CASE \E type \in {"COMMIT"} \cup TestRequest : PassesOn(w, type)
    BY <2>3, SendsKept
  <2>4. CASE \E type \in {"COMMIT"} \cup TestRequest : PassesOnToNull(w, type)
    BY <2>4, DiesKept
  <2>5. CASE AbortsLocally(w) \/ WillVoteAbort(w)
    BY <2>5, AbortsKept
  <2> QED
    BY <1>3, <2>1, <2>2, <2>3, <2>4, <2>5 DEF ClientCommand
<1>4. CASE TransactionThread(w)
  BY <1>4, VotesKept, OutcomeKept, SendsKept, EndsKept DEF TransactionThread
<1> QED
  BY <1>1, <1>2, <1>3, <1>4 DEF WNext

(* A step of the manager leaves the workers alone.                         *)
LEMMA ManagerKeeps ==
    ASSUME DisciplineInv, UNCHANGED <<wVars, mayVote>>
    PROVE  SocketsKnown' /\ PortsApart' /\ \A v \in Worker : WorkerInv(v)'
  BY DEF wVars, DisciplineInv, SocketsKnown, VotingSockets, PortsApart,
         WorkerInv, ThreadActive, SocketOpen, SocketBound, PortOpened,
         PromisePort, LastIs, LastEntry

(* Every step of the system is one of the manager's specification.         *)
LEMMA DisciplineStep ==
    ASSUME DisciplineInv, [SysNext]_sysVars
    PROVE  [MNext]_mVars /\ DisciplineInv'
<1>1. [MNext]_mVars /\ SocketsKnown' /\ PortsApart'
      /\ (\A v \in Worker : WorkerInv(v)')
      /\ wstate' \in [Worker -> WorkerState]
      /\ wlog' \in [Worker -> Seq(WLogEntries)]
      /\ listen' \in [Worker -> Port \cup {NoPort}]
      /\ store' \in [Worker -> Store] /\ mark' \in [Worker -> Store]
      /\ bound' \in [Port -> SUBSET Tid]
  <2>1. CASE UNCHANGED sysVars
    <3>1. UNCHANGED mVars /\ UNCHANGED <<wVars, mayVote>>
      BY <2>1 DEF sysVars, wVars, mVars, envVars
    <3> QED
      BY <3>1, ManagerKeeps, Types DEF wVars
  <2>2. CASE ManagerDoes(TMNext)
    <3>1. TMNext /\ UNCHANGED <<wVars, mayVote>>
      BY <2>2 DEF ManagerDoes
    <3>2. MNext
      BY <3>1 DEF MNext, envVars, wVars
    <3> QED
      BY <3>1, <3>2, ManagerKeeps, Types DEF wVars
  <2>3. CASE \E w \in Worker : WorkerDoes(WNext(w))
    <3>1. WorkersKept
      BY <2>3, WorkerNextKept DEF WorkerDoes
    <3>2. [MNext]_mVars
      BY <3>1 DEF WorkersKept, MNext
    <3> QED
      BY <3>1, <3>2 DEF WorkersKept
  <2> QED
    BY <2>1, <2>2, <2>3 DEF SysNext
<1>2. MTypeOK' /\ RestoreInLog'
  BY <1>1, TypeStep DEF DisciplineInv, TypeInv
<1>3. WTypeOK'
  BY <1>1, <1>2 DEF WTypeOK, MTypeOK, TMTypeOK
<1> QED
  BY <1>1, <1>2, <1>3 DEF DisciplineInv

LEMMA DisciplineInit == SysInit => MInit /\ DisciplineInv
<1> SUFFICES ASSUME SysInit PROVE MInit /\ DisciplineInv
  OBVIOUS
<1>1. MInit
  BY DEF SysInit, MInit, WInit
<1>2. MTypeOK /\ RestoreInLog
  BY <1>1, InitType DEF MInit, TMInit, RestoreInLog
<1>3. Down \in WorkerState /\ Down.thread = "none" /\ Down.server = NoPort
  BY StartMemory
<1>4. EmptyStore \in Store
  BY TWorkerAssumption DEF EmptyStore, Store
<1>5. WTypeOK
  BY <1>2, <1>3, <1>4 DEF SysInit, WInit, WTypeOK, MTypeOK, TMTypeOK
<1>6. \A w \in Worker : /\ wstate[w].thread = "none" /\ wstate[w].server = NoPort
                        /\ listen[w] = NoPort /\ wlog[w] = <<>>
  BY <1>3 DEF SysInit, WInit
<1>7. SocketsKnown /\ PortsApart
  BY <1>6 DEF SysInit, SocketsKnown, VotingSockets, PortsApart
<1>8. \A w \in Worker : WorkerInv(w)
  BY <1>6 DEF WorkerInv, ThreadActive, SocketOpen, SocketBound, PortOpened,
              PromisePort, LastIs
<1> QED
  BY <1>1, <1>2, <1>5, <1>7, <1>8 DEF DisciplineInv

(* In every reachable state the workers keep to their sockets.             *)
THEOREM Discipline == SysSpec => []DisciplineInv
  BY DisciplineInit, DisciplineStep, PTL DEF SysSpec

(* The variables of the manager and of every worker, the threads included, *)
(* hold values of their types in every reachable state: the port a         *)
(* recovered worker opens again, and the transaction it resumes, are ones  *)
(* that its log really holds.                                              *)
THEOREM SystemTypes == SysSpec => []SysTypeOK
<1>1. DisciplineInv => SysTypeOK
  BY DEF DisciplineInv, SysTypeOK, MTypeOK
<1> QED
  BY <1>1, Discipline, PTL

(* Whatever the workers, their threads and their client do, crashes and    *)
(* restarts included, the manager sees no more than TManagerSpec allows:   *)
(* what is proved of the manager there holds in the system.                *)
THEOREM WorkersKeepDiscipline == SysSpec => ManagerSpecification
<1>1. SysInit => MInit /\ DisciplineInv
  BY DisciplineInit
<1>2. DisciplineInv /\ [SysNext]_sysVars => [MNext]_mVars /\ DisciplineInv'
  BY DisciplineStep
<1> QED
  BY <1>1, <1>2, PTL DEF SysSpec, MSpec, ManagerSpecification

(* The system as a whole, with real workers, implements atomic commitment. *)
THEOREM SystemImplementsAtomicCommit ==
    ASSUME WellBehaved PROVE SysSpec => ImplementsAtomicCommit
  BY WorkersKeepDiscipline, Refinement DEF ManagerSpecification

-----------------------------------------------------------------------------
(* The logs.                                                               *)

(* Nothing is ever removed from the manager's log.                         *)
LEMMA ManagerLogGrows ==
    ASSUME TypeInv, [MNext]_mVars
    PROVE  LogGrows
<1>0. MTypeOK /\ tmlog \in Seq(LogEntries)
  BY DEF TypeInv, MTypeOK, TMTypeOK
<1>1. ASSUME NEW ty \in LogEntryType, NEW t \in Tid,
             tmlog' = txlog_append(tmlog, txentry_init(ty, t))
      PROVE  LogGrows
  BY <1>0, <1>1, LogChange DEF LogGrows
<1>2. ASSUME tmlog' = tmlog PROVE LogGrows
  BY <1>2 DEF LogGrows
<1>3. CASE TMNext
  <2>1. CASE ManagerStarts \/ RestoreEnds \/ ManagerCrashes
    BY <1>2, <2>1 DEF ManagerStarts, RestoreEnds, ManagerCrashes
  <2>2. CASE RestoreEntry
    <3>1. restore.next \in 1..Len(tmlog)
      BY <2>2 DEF RestoreEntry, TypeInv, RestoreInLog, MTypeOK, TMTypeOK
    <3>2. tmlog[restore.next].tid \in Tid /\ "LOG_ABORT" \in LogEntryType
      BY <1>0, <3>1, EntryType DEF LogEntryType
    <3> QED
      BY <1>1, <1>2, <2>2, <3>2 DEF RestoreEntry
  <2>3. ASSUME NEW m \in toManager, HandleMessage(m) PROVE LogGrows
    <3>1. CASE Answers(m)
      BY <1>0, <1>2, <3>1, AnswersEffect
    <3>2. CASE JoinAccepted(m) \/ CommitStartsVote(m) \/ PreparedCounted(m)
                 \/ PreparedUnknown(m)
      BY <1>2, <3>2
         DEF JoinAccepted, CommitStartsVote, PreparedCounted, PreparedUnknown
    <3>3. CASE BeginAccepted(m) \/ AbortDecided(m) \/ CommitDecided(m)
      <4>1. m.tid \in Tid
        BY <1>0, <3>3, ReceiveType, TxRequests
           DEF BeginAccepted, AbortDecided, CommitDecided
      <4>2. PICK ty \in {"LOG_BEGIN", "LOG_ABORT", "LOG_COMMIT"} :
              tmlog' = txlog_append(tmlog, txentry_init(ty, m.tid))
        BY <3>3 DEF BeginAccepted, AbortDecided, CommitDecided
      <4> QED
        BY <1>1, <4>1, <4>2 DEF LogEntryType
    <3> QED
      BY <2>3, <3>1, <3>2, <3>3 DEF HandleMessage, Answers
  <2> QED
    BY <1>3, <2>1, <2>2, <2>3 DEF TMNext
<1>4. CASE EnvNext
  BY <1>2, <1>4 DEF EnvNext, SocketOpens, SocketVotes, SocketRequests,
                    SocketPassesOn, SocketRetires, tmVars
<1>5. CASE UNCHANGED mVars
  BY <1>2, <1>5 DEF mVars, tmVars
<1> QED
  BY <1>3, <1>4, <1>5 DEF MNext

(* Why a worker writes an entry in its log.                                *)
Entered(w, e) ==
    \/ e.type = "LOG_BEGIN"
    \/ e.type = "LOG_UPDATE" /\ wstate[w].up /\ ClientMayDisturb(w)
    \/ e.type = "LOG_PREPARED" /\ wstate[w].thread = "running"
    \/ e.type = "LOG_COMMIT" /\ e.tid = wstate[w].transaction /\ LearnsCommit(w)
    \/ /\ e.type = "LOG_ABORT"
       /\ AbortsLocally(w) \/ LearnsAbort(w) \/ StartsWithRollback(w)

(* A worker writes only in its own log, one entry at a time.               *)
LEMMA LogStep ==
    ASSUME DisciplineInv, NEW w \in Worker, WNext(w)
    PROVE  /\ \A v \in Worker : v # w => /\ wlog'[v] = wlog[v]
                                         /\ wstate'[v] = wstate[v]
           /\ \/ wlog'[w] = wlog[w]
              \/ \E e \in WLogEntries :
                    /\ wlog'[w] = txlog_append(wlog[w], e)
                    /\ Entered(w, e)
<1>0. /\ wstate \in [Worker -> WorkerState] /\ wlog \in [Worker -> Seq(WLogEntries)]
      /\ store \in [Worker -> Store]
      /\ wstate[w] \in WorkerState /\ wlog[w] \in Seq(WLogEntries)
      /\ store[w] \in Store
  BY Types
<1>r. ASSUME update_rollback(w),
             AbortsLocally(w) \/ LearnsAbort(w) \/ StartsWithRollback(w)
      PROVE  \/ wlog' = wlog
             \/ \E e \in WLogEntries :
                   /\ wlog' = [wlog EXCEPT ![w] = txlog_append(wlog[w], e)]
                   /\ Entered(w, e)
  <2>1. wlog' = [wlog EXCEPT ![w] = RolledBackLog(wlog[w])]
    BY <1>r DEF update_rollback
  <2>2. CASE StopsAt(wlog[w]) = 0
    BY <1>0, <2>1, <2>2, RollbackTyped
  <2>3. CASE StopsAt(wlog[w]) # 0
    <3>1. PICK t \in Tid \cup {0} :
            RolledBackLog(wlog[w]) = txlog_append(wlog[w], LogEntry("LOG_ABORT", t))
      BY <1>0, <2>3, RollbackTyped
    <3>2. LogEntry("LOG_ABORT", t) \in WLogEntries
      BY EntryTyped DEF LogEntryType
    <3>3. LogEntry("LOG_ABORT", t).type = "LOG_ABORT"
      BY DEF LogEntry
    <3> QED
      BY <1>r, <2>1, <3>1, <3>2, <3>3 DEF Entered
  <2> QED
    BY <2>2, <2>3
<1>l. ASSUME NEW type \in LogEntryType, NEW t \in Tid \cup {0}, Logs(w, type, t)
      PROVE  \E e \in WLogEntries :
                /\ e.type = type /\ e.tid = t
                /\ wlog' = [wlog EXCEPT ![w] = txlog_append(wlog[w], e)]
  <2>1. LogEntry(type, t).type = type /\ LogEntry(type, t).tid = t
    BY DEF LogEntry
  <2> QED
    BY <1>l, <2>1, EntryTyped DEF Logs
<1>w. wstate[w].transaction \in Tid \cup {0}
  BY <1>0 DEF WorkerState
<1>q. ASSUME \/ wlog' = wlog
             \/ \E e \in WLogEntries :
                   /\ wlog' = [wlog EXCEPT ![w] = txlog_append(wlog[w], e)]
                   /\ Entered(w, e),
             wstate' = wstate \/ \E ws : wstate' = [wstate EXCEPT ![w] = ws]
      PROVE  /\ \A v \in Worker : v # w => /\ wlog'[v] = wlog[v]
                                           /\ wstate'[v] = wstate[v]
             /\ \/ wlog'[w] = wlog[w]
                \/ \E e \in WLogEntries :
                      /\ wlog'[w] = txlog_append(wlog[w], e)
                      /\ Entered(w, e)
  <2>1. CASE wlog' = wlog
    BY <1>0, <1>q, <2>1
  <2>2. CASE wlog' # wlog
    BY <1>0, <1>q, <2>2
  <2> QED
    BY <2>1, <2>2
<1>1. CASE StartsUncertain(w)
  BY <1>1, <1>q DEF StartsUncertain
<1>2. CASE StartsWithRollback(w)
  <2>1. PICK a \in StackFlag, u \in StackFlag, d \in StackDelay :
          wstate' = [wstate EXCEPT ![w] = Uninitialised(a, u, d)]
    BY <1>2 DEF StartsWithRollback
  <2>2. update_rollback(w)
    BY <1>2 DEF StartsWithRollback
  <2> QED
    BY <1>2, <1>q, <1>r, <2>1, <2>2
<1>3. CASE StartsClean(w)
  BY <1>3, <1>q DEF StartsClean
<1>4. CASE WorkerCrashes(w) \/ \E type \in {"COMMIT"} \cup TestRequest : PassesOnToNull(w, type)
  BY <1>4, <1>q DEF WorkerCrashes, PassesOnToNull, Dies
<1>5. ASSUME NEW t \in Tid, NEW p \in Port, NEW type \in {"BEGINTX", "JOINTX"},
             EntersTransaction(w, t, p, type)
      PROVE  \E e \in WLogEntries :
                /\ wlog' = [wlog EXCEPT ![w] = txlog_append(wlog[w], e)]
                /\ Entered(w, e)
                /\ \E ws : wstate' = [wstate EXCEPT ![w] = ws]
  <2>1. PICK e \in WLogEntries : 
                /\ e.type = "LOG_BEGIN"
                /\ wlog' = [wlog EXCEPT ![w] = txlog_append(wlog[w], e)]
    BY <1>5, <1>l DEF EntersTransaction, LogEntryType
  <2> QED
    BY <1>5, <2>1 DEF EntersTransaction, Entered
<1>6. ASSUME NEW f \in Field, NEW v \in Value, UpdatesInTransaction(w, f, v)
      PROVE  \E e \in WLogEntries :
                /\ wlog' = [wlog EXCEPT ![w] = txlog_append(wlog[w], e)]
                /\ Entered(w, e) /\ wstate' = wstate
  <2> DEFINE e == UpdateEntry(wstate[w].transaction, store[w])
  <2>1. e \in WLogEntries /\ e.type = "LOG_UPDATE"
    BY <1>0 DEF UpdateEntry, WLogEntries, WorkerState, LogEntryType
  <2> QED
    BY <1>6, <2>1 DEF UpdatesInTransaction, Entered
<1>7. CASE \E f \in Field, v \in Value : UpdatesOutside(w, f, v)
  BY <1>7, <1>q DEF UpdatesOutside
<1>8. CASE Asks(w) \/ \E type \in {"COMMIT"} \cup TestRequest : PassesOn(w, type)
  BY <1>8, <1>q DEF PassesOn, Asks, wVars
<1>9. CASE AbortsLocally(w) \/ WillVoteAbort(w)
  <2> DEFINE ws == [wstate[w] EXCEPT !.do_commit = FALSE, !.do_abort = TRUE]
  <2>1. wstate' = [wstate EXCEPT ![w] = ws]
    BY <1>9 DEF AbortsLocally, WillVoteAbort
  <2>2. AbortsLocally(w) => update_rollback(w)
    BY DEF AbortsLocally
  <2>3. WillVoteAbort(w) => wlog' = wlog
    BY DEF WillVoteAbort
  <2> QED
    BY <1>9, <1>q, <1>r, <2>1, <2>2, <2>3
<1>10. CASE VotesPrepared(w)
  <2>1. PICK e \in WLogEntries :
                /\ e.type = "LOG_PREPARED"
                /\ wlog' = [wlog EXCEPT ![w] = txlog_append(wlog[w], e)]
    BY <1>10, <1>l, <1>w DEF VotesPrepared, LogEntryType
  <2>2. PICK ws : wstate' = [wstate EXCEPT ![w] = ws]
    BY <1>10 DEF VotesPrepared, Dies
  <2>3. wstate[w].thread = "running"
    BY <1>10 DEF VotesPrepared, ThreadReceives
  <2> QED
    BY <1>q, <2>1, <2>2, <2>3 DEF Entered
<1>11. CASE VotesAbort(w) \/ RefusedByManager(w) \/ ClosesSocket(w) \/ ThreadEnds(w)
  <2>1. wlog' = wlog
    BY <1>11 DEF VotesAbort, RefusedByManager, ClosesSocket, ThreadEnds
  <2>2. PICK ws : wstate' = [wstate EXCEPT ![w] = ws]
    BY <1>11 DEF VotesAbort, RefusedByManager, ClosesSocket, ThreadEnds, Dies
  <2> QED
    BY <1>q, <2>1, <2>2
<1>12. CASE LearnsCommit(w) \/ LearnsAbort(w)
  <2>1. PICK ws : wstate' = [wstate EXCEPT ![w] = ws]
    BY <1>12 DEF LearnsCommit, LearnsAbort, Concludes
  <2>2. CASE LearnsAbort(w)
    <3>1. update_rollback(w)
      BY <2>2 DEF LearnsAbort
    <3> QED
      BY <1>q, <1>r, <2>1, <2>2, <3>1
  <2>3. CASE LearnsCommit(w)
    <3>1. PICK e \in WLogEntries :
                /\ e.type = "LOG_COMMIT" /\ e.tid = wstate[w].transaction
                /\ wlog' = [wlog EXCEPT ![w] = txlog_append(wlog[w], e)]
      BY <1>l, <1>w, <2>3 DEF LearnsCommit, LogEntryType
    <3> QED
      BY <1>q, <2>1, <2>3, <3>1 DEF Entered
  <2> QED
    BY <1>12, <2>2, <2>3
<1>13. CASE Starts(w)
  BY <1>1, <1>2, <1>3, <1>13 DEF Starts
<1>14. CASE ClientCommand(w)
  BY <1>4, <1>5, <1>6, <1>7, <1>8, <1>9, <1>14, <1>q DEF ClientCommand
<1>15. CASE TransactionThread(w)
  BY <1>8, <1>10, <1>11, <1>12, <1>15 DEF TransactionThread
<1> QED
  BY <1>4, <1>13, <1>14, <1>15 DEF WNext

-----------------------------------------------------------------------------
(* Atomicity, first half: what a worker is told is about its transaction.  *)

LEMMA PortStep ==
    ASSUME CleanStack, DisciplineInv, PortInv, NEW w \in Worker, WNext(w)
    PROVE  PortInv'
<1>0. /\ wstate \in [Worker -> WorkerState] /\ wstate[w] \in WorkerState
      /\ bound \in [Port -> SUBSET Tid] /\ ThreadActive(w)
      /\ wstate[w].uncertain => wstate[w].thread = "uncertain"
  BY Types DEF PortInv, UncertainInLoop, WorkerInv
<1>1. SUFFICES /\ \/ bound' = bound
                  \/ \E p \in Port, t \in Tid :
                        bound[p] = {} /\ bound' = [bound EXCEPT ![p] = @ \cup {t}]
               /\ \/ wstate' = wstate
                  \/ \E ws : /\ wstate' = [wstate EXCEPT ![w] = ws]
                             /\ ws.uncertain => ws.thread = "uncertain"
  <2>1. UncertainInLoop'
    BY <1>0, <1>1 DEF PortInv, UncertainInLoop
  <2>2. OneTransaction'
    <3>1. CASE bound' = bound
      BY <3>1 DEF PortInv, OneTransaction
    <3>2. ASSUME NEW p \in Port, NEW t \in Tid, bound[p] = {},
                 bound' = [bound EXCEPT ![p] = @ \cup {t}]
          PROVE  OneTransaction'
      <4>1. bound'[p] = {t} /\ \A q \in Port : q # p => bound'[q] = bound[q]
        BY <1>0, <3>2
      <4> QED
        BY <4>1 DEF PortInv, OneTransaction
    <3> QED
      BY <1>1, <3>1, <3>2
  <2> QED
    BY <2>1, <2>2 DEF PortInv
<1>u. \A a, u \in StackFlag, d \in StackDelay : ~Uninitialised(a, u, d).uncertain
  BY DEF CleanStack, Uninitialised, Down
<1>d. ~Down.uncertain
  BY DEF Down
<1>2. CASE Starts(w)
  <2>1. bound' = bound
    BY <1>2 DEF Starts, StartsUncertain, StartsWithRollback, StartsClean
  <2>2. CASE StartsUncertain(w)
    <3>1. PICK d \in StackDelay : wstate' = [wstate EXCEPT ![w] =
              Spawned(Uninitialised(TRUE, TRUE, d), LastEntry(w).tid, listen[w])]
      BY <2>2 DEF StartsUncertain, LastEntry
    <3>2. Spawned(Uninitialised(TRUE, TRUE, d), LastEntry(w).tid, listen[w]).thread
            = "uncertain"
      BY DEF Spawned, Uninitialised, Down
    <3> QED
      BY <2>1, <3>1, <3>2
  <2>3. CASE StartsWithRollback(w) \/ StartsClean(w)
    BY <1>u, <2>1, <2>3 DEF StartsWithRollback, StartsClean
  <2> QED
    BY <1>2, <2>2, <2>3 DEF Starts
<1>3. CASE WorkerCrashes(w) \/ \E type \in {"COMMIT"} \cup TestRequest : PassesOnToNull(w, type)
  BY <1>3, <1>d DEF WorkerCrashes, PassesOnToNull, Dies
<1>4. ASSUME NEW t \in Tid, NEW p \in Port, NEW type \in {"BEGINTX", "JOINTX"},
             EntersTransaction(w, t, p, type)
      PROVE  /\ bound[p] = {} /\ bound' = [bound EXCEPT ![p] = @ \cup {t}]
             /\ \E ws : /\ wstate' = [wstate EXCEPT ![w] = ws]
                        /\ ws.uncertain => ws.thread = "uncertain"
  <2>1. ~wstate[w].uncertain
    BY <1>0, <1>4 DEF EntersTransaction, ThreadActive
  <2>2. bound[p] = {} /\ bound' = [bound EXCEPT ![p] = @ \cup {t}]
    BY <1>4, <2>1 DEF EntersTransaction, Binds
  <2>3. Spawned(wstate[w], t, p).uncertain = wstate[w].uncertain
    BY <1>0 DEF Spawned, WorkerState
  <2> QED
    BY <1>4, <2>1, <2>2, <2>3 DEF EntersTransaction
<1>5. CASE Asks(w) \/ \E type \in {"COMMIT"} \cup TestRequest : PassesOn(w, type)
  BY <1>5 DEF PassesOn, Asks, wVars
<1>6. CASE \E f \in Field, v \in Value :
             UpdatesInTransaction(w, f, v) \/ UpdatesOutside(w, f, v)
  BY <1>6 DEF UpdatesInTransaction, UpdatesOutside
<1>7. CASE AbortsLocally(w) \/ WillVoteAbort(w)
  BY <1>0, <1>7 DEF AbortsLocally, WillVoteAbort, WorkerState
<1>8. CASE VotesPrepared(w) \/ VotesAbort(w)
  BY <1>0, <1>8, <1>d DEF VotesPrepared, VotesAbort, Dies, WorkerState
<1>9. CASE RefusedByManager(w) \/ LearnsCommit(w) \/ LearnsAbort(w)
  <2>1. RefusedByManager(w) => ~wstate[w].uncertain
    BY <1>0 DEF RefusedByManager, ThreadReceives
  <2> QED
    BY <1>0, <1>9, <2>1
       DEF RefusedByManager, LearnsCommit, LearnsAbort, Concludes, WorkerState
<1>10. CASE ClosesSocket(w) \/ ThreadEnds(w)
  BY <1>0, <1>10 DEF ClosesSocket, ThreadEnds, WorkerState
<1>11. CASE ClientCommand(w)
  BY <1>3, <1>4, <1>5, <1>6, <1>7, <1>11 DEF ClientCommand
<1>12. CASE TransactionThread(w)
  BY <1>5, <1>8, <1>9, <1>10, <1>12 DEF TransactionThread
<1> QED
  BY <1>2, <1>3, <1>11, <1>12 DEF WNext

(* What a socket is told holds of the transaction its thread is in.        *)
LEMMA OutcomeTrue ==
    ASSUME DisciplineInv, PortInv, RepliesMatchLog, NEW w \in Worker,
           wstate[w].thread \in {"running", "uncertain"}
    PROVE  /\ Reply("COMMIT", wstate[w].server) \in toWorker =>
                 \A t \in bound[listen[w]] : Committed(t)
           /\ Reply("ABORT", wstate[w].server) \in toWorker =>
                 \A t \in bound[listen[w]] : Aborted(t)
<1>1. wstate[w].server = listen[w] /\ listen[w] \in Port
  BY ThreadSocket
<1>2. \A t, u \in bound[listen[w]] : t = u
  BY <1>1 DEF PortInv, OneTransaction
<1>3. \A type, p : Reply(type, p).type = type /\ Reply(type, p).to = p
  BY DEF Reply
<1> QED
  BY <1>1, <1>2, <1>3 DEF RepliesMatchLog

(* What one more entry adds to what a worker has logged.                   *)
LEMMA WorkerLogged ==
    ASSUME NEW log \in Seq(WLogEntries), NEW e \in WLogEntries
    PROVE  \A ty, t : Logged(txlog_append(log, e), ty, t)
                        <=> Logged(log, ty, t) \/ (e.type = ty /\ e.tid = t)
<1> DEFINE new == txlog_append(log, e)
<1>1. /\ Len(new) = Len(log) + 1 /\ Len(log) \in Nat
      /\ \A k \in 1..Len(log) : new[k] = log[k]
      /\ new[Len(log) + 1] = e
  BY WorkerAppends
<1> HIDE DEF new
<1>2. \A k : k \in 1..Len(new) <=> k \in 1..Len(log) \/ k = Len(log) + 1
  BY <1>1
<1>3. \A ty, t : Logged(new, ty, t)
                   <=> Logged(log, ty, t) \/ (e.type = ty /\ e.tid = t)
  BY <1>1, <1>2 DEF Logged
<1> QED
  BY <1>3 DEF new

LEMMA AgreeStep ==
    ASSUME DisciplineInv, PortInv, RepliesMatchLog, WorkerCommitsAgree,
           [SysNext]_sysVars
    PROVE  WorkerCommitsAgree'
<1>1. LogGrows
  BY DisciplineStep, ManagerLogGrows DEF DisciplineInv, TypeInv
<1>2. ASSUME wlog' = wlog PROVE WorkerCommitsAgree'
  BY <1>1, <1>2 DEF WorkerCommitsAgree, LogGrows, Committed
<1>3. ASSUME NEW w \in Worker, WNext(w) PROVE WorkerCommitsAgree'
  <2>1. \A v \in Worker : v # w => wlog'[v] = wlog[v]
    BY <1>3, LogStep
  <2>2. \A t \in Tid : Logged(wlog[w], "LOG_COMMIT", t) => Committed(t)
    BY DEF WorkerCommitsAgree
  <2>3. \A t \in Tid : Logged(wlog'[w], "LOG_COMMIT", t) => Committed(t)
    <3>1. CASE wlog'[w] = wlog[w]
      BY <2>2, <3>1
    <3>2. ASSUME NEW e \in WLogEntries, wlog'[w] = txlog_append(wlog[w], e),
                 Entered(w, e)
          PROVE  \A t \in Tid : Logged(wlog'[w], "LOG_COMMIT", t) => Committed(t)
      <4>1. \A t \in Tid : Logged(wlog'[w], "LOG_COMMIT", t) =>
               Logged(wlog[w], "LOG_COMMIT", t) \/ (e.type = "LOG_COMMIT" /\ e.tid = t)
        BY <3>2, WorkerLogged, Types
      <4>2. e.type = "LOG_COMMIT" => Committed(e.tid)
        <5>1. SUFFICES ASSUME e.type = "LOG_COMMIT" PROVE Committed(e.tid)
          OBVIOUS
        <5>2. e.tid = wstate[w].transaction /\ LearnsCommit(w)
          BY <3>2, <5>1 DEF Entered
        <5>3. /\ wstate[w].thread \in {"running", "uncertain"}
              /\ Reply("COMMIT", wstate[w].server) \in toWorker
          BY <5>2 DEF LearnsCommit, ThreadReceives
        <5> QED
          BY <5>2, <5>3, ThreadSocket, OutcomeTrue
      <4> QED
        BY <2>2, <4>1, <4>2
    <3> QED
      BY <1>3, <3>1, <3>2, LogStep
  <2>4. \A v \in Worker, t \in Tid :
          Logged(wlog'[v], "LOG_COMMIT", t) => Committed(t)
    BY <2>1, <2>3 DEF WorkerCommitsAgree
  <2> QED
    BY <1>1, <2>4 DEF WorkerCommitsAgree, LogGrows, Committed
<1> QED
  BY <1>2, <1>3 DEF SysNext, sysVars, ManagerDoes, WorkerDoes, wVars

(* What is known of the ports once the stack is clean.                     *)
THEOREM PortsKept == ASSUME CleanStack PROVE SysSpec => []PortInv
<1>1. SysInit => PortInv
  BY DEF SysInit, WInit, PortInv, UncertainInLoop, OneTransaction, Down
<1>2. DisciplineInv /\ PortInv /\ [SysNext]_sysVars => PortInv'
  <2> SUFFICES ASSUME DisciplineInv, PortInv, [SysNext]_sysVars PROVE PortInv'
    OBVIOUS
  <2>1. CASE UNCHANGED wVars
    BY <2>1 DEF wVars, PortInv, UncertainInLoop, OneTransaction
  <2>2. CASE \E w \in Worker : WNext(w)
    BY <2>2, PortStep
  <2> QED
    BY <2>1, <2>2 DEF SysNext, sysVars, ManagerDoes, WorkerDoes
<1> QED
  BY <1>1, <1>2, Discipline, PTL DEF SysSpec

(* Atomicity, first half: a worker that logs COMMIT for a transaction is   *)
(* in agreement with the manager, although the datagram that told it so    *)
(* names no transaction.                                                   *)
THEOREM WorkersAgree ==
    ASSUME WellBehaved, CleanStack PROVE SysSpec => []WorkerCommitsAgree
<1>1. SysInit => WorkerCommitsAgree
  BY DEF SysInit, WInit, WorkerCommitsAgree, Logged
<1>2. DisciplineInv /\ PortInv /\ RepliesMatchLog /\ WorkerCommitsAgree
        /\ [SysNext]_sysVars => WorkerCommitsAgree'
  BY AgreeStep
<1>3. SysSpec => []RepliesMatchLog
  BY WorkersKeepDiscipline, RepliesTruthful, PTL DEF ManagerSpecification
<1> QED
  BY <1>1, <1>2, <1>3, Discipline, PortsKept, PTL DEF SysSpec

-----------------------------------------------------------------------------
(* A rollback restores the store.                                          *)

StoreKept(w) ==
    StartsWithBegin(w) /\ PreparedWaits(w) /\ ActiveLogged(w) /\ MarkKept(w)

(* A step that leaves log, store and mark alone.                           *)
LEMMA StoreSame ==
    ASSUME StoreInv, NEW w \in Worker,
           wlog'[w] = wlog[w], store'[w] = store[w], mark'[w] = mark[w],
           LastIs(w, "LOG_PREPARED") /\ wstate'[w].up =>
               wstate'[w].thread = "uncertain",
           wstate'[w].is_active =>
               wlog[w] # <<>> /\ wstate'[w].up /\ InTransaction(w)
    PROVE  StoreKept(w)'
<1>1. StoreKept(w)
  BY DEF StoreInv, StoreKept
<1>2. LastIs(w, "LOG_PREPARED")' <=> LastIs(w, "LOG_PREPARED")
  BY DEF LastIs
<1>3. StartsWithBegin(w)' /\ PreparedWaits(w)' /\ ActiveLogged(w)'
  BY <1>1, <1>2 DEF StoreKept, StartsWithBegin, PreparedWaits, ActiveLogged
<1>4. InTransaction(w)' => InTransaction(w)
  BY <1>2 DEF InTransaction
<1>5. MarkKept(w)'
  BY <1>1, <1>4 DEF StoreKept, MarkKept
<1> QED
  BY <1>3, <1>5 DEF StoreKept

(* A step that writes a begin, commit or abort entry.                      *)
LEMMA StoreMarked ==
    ASSUME StoreInv, NEW w \in Worker, wlog[w] \in Seq(WLogEntries),
           NEW e \in WLogEntries, e.type \in MarkType,
           wlog'[w] = txlog_append(wlog[w], e), mark'[w] = store'[w],
           wlog[w] # <<>> \/ e.type = "LOG_BEGIN",
           wstate'[w].is_active => wstate'[w].up
    PROVE  StoreKept(w)'
<1> DEFINE new == txlog_append(wlog[w], e)
<1>1. /\ new \in Seq(WLogEntries) /\ new # <<>> /\ new[Len(new)] = e
      /\ Len(new) = Len(wlog[w]) + 1 /\ Len(wlog[w]) \in Nat
      /\ \A k \in 1..Len(wlog[w]) : new[k] = wlog[w][k]
      /\ new[Len(wlog[w]) + 1] = e
  BY WorkerAppends
<1>2. wlog'[w] = new
  OBVIOUS
<1> HIDE DEF new
<1>3. RolledBackStore(new, store'[w]) = store'[w]
  <2>1. \A st : RolledBackStore(new, st) = st
    BY <1>1, GrownLog
  <2> QED
    BY <2>1
<1>4. MarkKept(w)'
  BY <1>2, <1>3 DEF MarkKept
<1>5. ~LastIs(w, "LOG_PREPARED")'
  BY <1>1, <1>2 DEF LastIs, MarkType
<1>6. PreparedWaits(w)' /\ ActiveLogged(w)'
  BY <1>1, <1>2, <1>5 DEF PreparedWaits, ActiveLogged
<1>7. StartsWithBegin(w)'
  <2>1. CASE wlog[w] = <<>>
    <3>1. Len(wlog[w]) = 0
      BY <2>1
    <3> QED
      BY <1>1, <1>2, <2>1, <3>1 DEF StartsWithBegin
  <2>2. CASE wlog[w] # <<>>
    <3>1. 1 \in 1..Len(wlog[w])
      BY <2>2
    <3>2. wlog[w][1].type = "LOG_BEGIN"
      BY <2>2 DEF StoreInv, StartsWithBegin
    <3> QED
      BY <1>1, <1>2, <3>1, <3>2 DEF StartsWithBegin
  <2> QED
    BY <2>1, <2>2
<1> QED
  BY <1>4, <1>6, <1>7 DEF StoreKept

(* A step that writes another entry, while the transaction is going on.    *)
LEMMA StoreLogged ==
    ASSUME StoreInv, NEW w \in Worker, wlog[w] \in Seq(WLogEntries),
           wstate[w].is_active,
           NEW e \in WLogEntries, e.type \in {"LOG_UPDATE", "LOG_PREPARED"},
           wlog'[w] = txlog_append(wlog[w], e), mark'[w] = mark[w],
           e.type = "LOG_UPDATE" => e.old = store[w],
           e.type = "LOG_PREPARED" => store'[w] = store[w],
           e.type = "LOG_PREPARED" /\ wstate'[w].up =>
               wstate'[w].thread = "uncertain",
           wstate'[w].is_active => wstate'[w].up
    PROVE  StoreKept(w)'
<1> DEFINE new == txlog_append(wlog[w], e)
<1>0. StoreKept(w) /\ InTransaction(w)
  BY DEF StoreInv, StoreKept, InTransaction
<1>1. /\ new \in Seq(WLogEntries) /\ new # <<>> /\ new[Len(new)] = e
      /\ Len(new) = Len(wlog[w]) + 1 /\ Len(wlog[w]) \in Nat
      /\ \A k \in 1..Len(wlog[w]) : new[k] = wlog[w][k]
      /\ new[Len(wlog[w]) + 1] = e
  BY WorkerAppends
<1>2. wlog'[w] = new
  OBVIOUS
<1> HIDE DEF new
<1>3. RolledBackStore(new, store'[w]) = RolledBackStore(wlog[w], store[w])
  <2>1. /\ e.type \notin MarkType \cup {"LOG_UPDATE"} =>
             \A st : RolledBackStore(new, st) = RolledBackStore(wlog[w], st)
        /\ e.type = "LOG_UPDATE" =>
             \A st : RolledBackStore(new, st) = RolledBackStore(wlog[w], e.old)
    BY <1>1, GrownLog
  <2>2. CASE e.type = "LOG_UPDATE"
    BY <2>1, <2>2
  <2>3. CASE e.type = "LOG_PREPARED"
    BY <2>1, <2>3 DEF MarkType
  <2> QED
    BY <2>2, <2>3
<1>4. MarkKept(w)'
  BY <1>0, <1>2, <1>3 DEF StoreKept, MarkKept
<1>5. wlog[w] # <<>> /\ wlog[w][1].type = "LOG_BEGIN"
  BY <1>0 DEF StoreKept, ActiveLogged, StartsWithBegin
<1>6. StartsWithBegin(w)'
  <2>1. 1 \in 1..Len(wlog[w])
    BY <1>5
  <2> QED
    BY <1>1, <1>2, <1>5, <2>1 DEF StartsWithBegin
<1>7. PreparedWaits(w)' /\ ActiveLogged(w)'
  BY <1>1, <1>2 DEF PreparedWaits, ActiveLogged, LastIs
<1> QED
  BY <1>4, <1>6, <1>7 DEF StoreKept

(* A rollback during a transaction brings the marked store back, and marks *)
(* it again.                                                               *)
LEMMA RollbackMarks ==
    ASSUME DisciplineInv, StoreInv, NEW w \in Worker, update_rollback(w),
           InTransaction(w), wlog[w] # <<>>
    PROVE  /\ store'[w] = mark[w] /\ mark'[w] = store'[w]
           /\ \E e \in WLogEntries : /\ e.type = "LOG_ABORT"
                                     /\ wlog'[w] = txlog_append(wlog[w], e)
<1>0. /\ wlog[w] \in Seq(WLogEntries) /\ store[w] \in Store
      /\ wlog \in [Worker -> Seq(WLogEntries)]
      /\ store \in [Worker -> Store] /\ mark \in [Worker -> Store]
      /\ StoreKept(w)
  BY Types DEF StoreInv, StoreKept
<1>1. StopsAt(wlog[w]) # 0
  <2>1. wlog[w][1].type = "LOG_BEGIN" /\ 1 \in 1..Len(wlog[w])
    BY <1>0 DEF StoreKept, StartsWithBegin
  <2>2. 1 <= StopsAt(wlog[w])
    BY <1>0, <2>1, StopsAtIs DEF MarkType
  <2> QED
    BY <2>2
<1>2. store'[w] = RolledBackStore(wlog[w], store[w])
  BY <1>0 DEF update_rollback
<1>3. RolledBackStore(wlog[w], store[w]) = mark[w]
  BY <1>0 DEF StoreKept, MarkKept
<1>4. mark'[w] = store'[w]
  BY <1>0, <1>1 DEF update_rollback
<1>5. PICK t \in Tid \cup {0} :
         RolledBackLog(wlog[w]) = txlog_append(wlog[w], LogEntry("LOG_ABORT", t))
  BY <1>0, <1>1, RollbackTyped
<1>6. /\ LogEntry("LOG_ABORT", t) \in WLogEntries
      /\ LogEntry("LOG_ABORT", t).type = "LOG_ABORT"
  BY EntryTyped DEF LogEntryType, LogEntry
<1>7. wlog'[w] = RolledBackLog(wlog[w])
  BY <1>0 DEF update_rollback
<1> QED
  BY <1>2, <1>3, <1>4, <1>5, <1>6, <1>7

(* Where rollbacks happen, a transaction is under way.                     *)
LEMMA RollbackWhen ==
    ASSUME DisciplineInv, StoreInv, NEW w \in Worker,
           StartsWithRollback(w) \/ AbortsLocally(w) \/ LearnsAbort(w)
    PROVE  update_rollback(w) /\ InTransaction(w) /\ wlog[w] # <<>>
<1>0. /\ wlog[w] \in Seq(WLogEntries) /\ StoreKept(w) /\ ThreadActive(w)
  BY Types DEF StoreInv, StoreKept, WorkerInv
<1>1. update_rollback(w)
  BY DEF StartsWithRollback, AbortsLocally, LearnsAbort
<1>2. CASE AbortsLocally(w) \/ LearnsAbort(w)
  <2>1. wstate[w].is_active
    BY <1>0, <1>2 DEF AbortsLocally, LearnsAbort, ThreadReceives, ThreadActive
  <2> QED
    BY <1>0, <1>1, <2>1 DEF InTransaction, StoreKept, ActiveLogged
<1>3. CASE StartsWithRollback(w)
  <2> DEFINE n == Len(wlog[w])
  <2>1. wlog[w] # <<>> /\ wlog[w][n].type = "LOG_UPDATE"
    BY <1>3 DEF StartsWithRollback, LastIs
  <2>2. n \in Nat /\ n # 0
    BY <1>0, <2>1
  <2>3. StopsAt(wlog[w]) \in 0..n
        /\ (StopsAt(wlog[w]) # 0 => wlog[w][StopsAt(wlog[w])].type \in MarkType)
    BY <1>0, StopsAtIs
  <2>4. StopsAt(wlog[w]) # n
    BY <2>1, <2>2, <2>3 DEF MarkType
  <2>5. n \in (StopsAt(wlog[w]) + 1)..n
    BY <2>2, <2>3, <2>4
  <2>6. n \in Undone(wlog[w])
    BY <2>1, <2>5 DEF Undone
  <2> QED
    BY <1>1, <2>1, <2>6 DEF InTransaction
<1> QED
  BY <1>2, <1>3

LEMMA StoreStep ==
    ASSUME CleanStack, DisciplineInv, StoreInv, NEW w \in Worker, WNext(w)
    PROVE  StoreKept(w)'
<1>0. /\ wstate \in [Worker -> WorkerState] /\ wlog \in [Worker -> Seq(WLogEntries)]
      /\ store \in [Worker -> Store] /\ mark \in [Worker -> Store]
      /\ wstate[w] \in WorkerState /\ wlog[w] \in Seq(WLogEntries)
      /\ store[w] \in Store /\ ThreadActive(w)
  BY Types DEF WorkerInv
<1>k. /\ LastIs(w, "LOG_PREPARED") /\ wstate[w].up => wstate[w].thread = "uncertain"
      /\ wstate[w].is_active =>
            wlog[w] # <<>> /\ wstate[w].up /\ InTransaction(w)
      /\ MarkKept(w)
  BY DEF StoreInv, PreparedWaits, ActiveLogged, InTransaction
<1>d. Down.thread = "none" /\ ~Down.up /\ ~Down.is_active
  BY DEF Down
<1>u. \A a, u \in StackFlag, d \in StackDelay : ~Uninitialised(a, u, d).is_active
  BY DEF CleanStack, Uninitialised, Down
<1>r. ASSUME StartsWithRollback(w) \/ AbortsLocally(w) \/ LearnsAbort(w),
             wstate'[w].is_active => wstate'[w].up
      PROVE  StoreKept(w)'
  <2>1. update_rollback(w) /\ InTransaction(w) /\ wlog[w] # <<>>
    BY <1>r, RollbackWhen
  <2>2. PICK e \in WLogEntries :
          e.type = "LOG_ABORT" /\ wlog'[w] = txlog_append(wlog[w], e)
    BY <2>1, RollbackMarks
  <2>3. mark'[w] = store'[w]
    BY <2>1, RollbackMarks
  <2>4. e.type \in MarkType
    BY <2>2 DEF MarkType
  <2> QED
    BY <1>0, <1>r, <2>1, <2>2, <2>3, <2>4, StoreMarked
<1>1. CASE StartsUncertain(w)
  <2>1. PICK d \in StackDelay : wstate' = [wstate EXCEPT ![w] =
              Spawned(Uninitialised(TRUE, TRUE, d), LastEntry(w).tid, listen[w])]
    BY <1>1 DEF StartsUncertain, LastEntry
  <2>2. wstate'[w].thread = "uncertain" /\ wstate'[w].up
    <3>1. wstate'[w] = Spawned(Uninitialised(TRUE, TRUE, d), LastEntry(w).tid, listen[w])
      BY <1>0, <2>1
    <3> QED
      BY <3>1 DEF Spawned, Uninitialised, Down
  <2>3. wlog' = wlog /\ store' = store /\ mark' = mark
    BY <1>1 DEF StartsUncertain
  <2>4. wlog[w] # <<>> /\ InTransaction(w)
    BY <1>1 DEF StartsUncertain, LastIs, InTransaction
  <2> QED
    BY <2>2, <2>3, <2>4, StoreSame
<1>2. CASE StartsWithRollback(w)
  <2>1. ~wstate'[w].is_active
    BY <1>0, <1>2, <1>u DEF StartsWithRollback
  <2> QED
    BY <1>2, <1>r, <2>1
<1>3. CASE StartsClean(w)
  <2>1. ~wstate'[w].is_active /\ ~LastIs(w, "LOG_PREPARED")
    BY <1>0, <1>3, <1>u DEF StartsClean
  <2>2. wlog' = wlog /\ store' = store /\ mark' = mark
    BY <1>3 DEF StartsClean
  <2> QED
    BY <2>1, <2>2, StoreSame
<1>4. CASE WorkerCrashes(w) \/ \E type \in {"COMMIT"} \cup TestRequest : PassesOnToNull(w, type)
  <2>1. wstate'[w] = Down
    BY <1>0, <1>4 DEF WorkerCrashes, PassesOnToNull, Dies
  <2>2. wlog' = wlog /\ store' = store /\ mark' = mark
    BY <1>4 DEF WorkerCrashes, PassesOnToNull
  <2> QED
    BY <1>d, <2>1, <2>2, StoreSame
<1>5. ASSUME NEW t \in Tid, NEW p \in Port, NEW type \in {"BEGINTX", "JOINTX"},
             EntersTransaction(w, t, p, type)
      PROVE  StoreKept(w)'
  <2> DEFINE e == LogEntry("LOG_BEGIN", t)
  <2>1. e \in WLogEntries /\ e.type = "LOG_BEGIN" /\ e.type \in MarkType
    BY EntryTyped DEF LogEntryType, LogEntry, MarkType
  <2>2. wlog'[w] = txlog_append(wlog[w], e)
    BY <1>0, <1>5 DEF EntersTransaction, Logs
  <2>3. mark'[w] = store'[w]
    BY <1>0, <1>5 DEF EntersTransaction, Logs, MarkType
  <2>4. wstate'[w] = Spawned(wstate[w], t, p) /\ wstate[w].up
    BY <1>0, <1>5 DEF EntersTransaction
  <2>5. wstate'[w].up
    BY <1>0, <2>4, SpawnedIs
  <2> HIDE DEF e
  <2> QED
    BY <1>0, <2>1, <2>2, <2>3, <2>5, StoreMarked
<1>6. ASSUME NEW f \in Field, NEW v \in Value, UpdatesInTransaction(w, f, v)
      PROVE  StoreKept(w)'
  <2> DEFINE e == UpdateEntry(wstate[w].transaction, store[w])
  <2>1. e \in WLogEntries /\ e.type = "LOG_UPDATE" /\ e.old = store[w]
    BY <1>0 DEF UpdateEntry, WLogEntries, WorkerState, LogEntryType
  <2>2. wstate[w].is_active /\ wstate' = wstate /\ mark' = mark
    BY <1>6 DEF UpdatesInTransaction
  <2>3. wlog'[w] = txlog_append(wlog[w], e)
    BY <1>0, <1>6 DEF UpdatesInTransaction
  <2> HIDE DEF e
  <2> QED
    BY <1>0, <1>k, <2>1, <2>2, <2>3, StoreLogged
<1>7. ASSUME NEW f \in Field, NEW v \in Value, UpdatesOutside(w, f, v)
      PROVE  StoreKept(w)'
  <2>1. /\ wlog' = wlog /\ wstate' = wstate /\ mark' = mark
        /\ wstate[w].up /\ ~wstate[w].is_active /\ wstate[w].thread = "none"
    BY <1>0, <1>7 DEF UpdatesOutside, ThreadActive
  <2>2. ~LastIs(w, "LOG_PREPARED")
    BY <1>k, <2>1
  <2>3. MarkKept(w)'
    <3>1. SUFFICES ASSUME InTransaction(w)'
                   PROVE  RolledBackStore(wlog[w], store'[w]) = mark[w]
      BY <2>1 DEF MarkKept
    <3>2. Undone(wlog[w]) # {}
      BY <2>1, <2>2, <3>1 DEF InTransaction, LastIs
    <3>3. RolledBackStore(wlog[w], store'[w]) = RolledBackStore(wlog[w], store[w])
      BY <3>2 DEF RolledBackStore
    <3> QED
      BY <1>k, <3>2, <3>3 DEF MarkKept, InTransaction
  <2>4. StartsWithBegin(w)' /\ PreparedWaits(w)' /\ ActiveLogged(w)'
    BY <2>1 DEF StoreInv, StartsWithBegin, PreparedWaits, ActiveLogged, LastIs
  <2> QED
    BY <2>3, <2>4 DEF StoreKept
<1>8. CASE Asks(w) \/ \E type \in {"COMMIT"} \cup TestRequest : PassesOn(w, type)
  <2>1. wlog' = wlog /\ store' = store /\ mark' = mark /\ wstate' = wstate
    BY <1>8 DEF PassesOn, Asks, wVars
  <2> QED
    BY <1>k, <2>1, StoreSame
<1>9. CASE AbortsLocally(w) \/ WillVoteAbort(w)
  <2>1. wstate'[w] = [wstate[w] EXCEPT !.do_commit = FALSE, !.do_abort = TRUE]
    BY <1>0, <1>9 DEF AbortsLocally, WillVoteAbort
  <2>2. /\ wstate'[w].thread = wstate[w].thread /\ wstate'[w].up = wstate[w].up
        /\ wstate'[w].is_active = wstate[w].is_active
    BY <1>0, <2>1 DEF WorkerState
  <2>3. CASE AbortsLocally(w)
    BY <1>k, <1>r, <2>2, <2>3
  <2>4. CASE WillVoteAbort(w)
    <3>1. wlog' = wlog /\ store' = store /\ mark' = mark
      BY <2>4 DEF WillVoteAbort
    <3> QED
      BY <1>k, <2>2, <3>1, StoreSame
  <2> QED
    BY <1>9, <2>3, <2>4
<1>v. CASE VotesPrepared(w) \/ VotesAbort(w)
  <2>1. wstate[w].thread = "running" /\ wstate[w].is_active
    BY <1>0, <1>v DEF VotesPrepared, VotesAbort, ThreadReceives, ThreadActive
  <2>2. /\ wstate'[w].up => wstate'[w].thread = "uncertain"
        /\ wstate'[w].is_active => wstate'[w].up
    <3>1. CASE wstate[w].negative_delay
      <4>1. wstate'[w] = Down
        BY <1>0, <1>v, <3>1 DEF VotesPrepared, VotesAbort, Dies
      <4> QED
        BY <1>d, <4>1
    <3>2. CASE ~wstate[w].negative_delay
      <4>1. wstate'[w].thread = "uncertain" /\ wstate'[w].up = wstate[w].up
        BY <1>0, <1>v, <3>2 DEF VotesPrepared, VotesAbort, WorkerState
      <4> QED
        BY <1>k, <2>1, <4>1
    <3> QED
      BY <3>1, <3>2
  <2>3. CASE VotesPrepared(w)
    <3> DEFINE e == LogEntry("LOG_PREPARED", wstate[w].transaction)
    <3>1. e \in WLogEntries /\ e.type = "LOG_PREPARED"
      <4>1. wstate[w].transaction \in Tid \cup {0}
        BY <1>0 DEF WorkerState
      <4> QED
        BY <4>1, EntryTyped DEF LogEntryType, LogEntry
    <3>2. wlog'[w] = txlog_append(wlog[w], e)
      BY <1>0, <2>3 DEF VotesPrepared, Logs
    <3>3. mark' = mark /\ store' = store
      BY <2>3 DEF VotesPrepared, Logs, MarkType
    <3> HIDE DEF e
    <3> QED
      BY <1>0, <2>1, <2>2, <3>1, <3>2, <3>3, StoreLogged
  <2>4. CASE VotesAbort(w)
    <3>1. wlog' = wlog /\ store' = store /\ mark' = mark
      BY <2>4 DEF VotesAbort
    <3> QED
      BY <1>k, <2>1, <2>2, <3>1, StoreSame
  <2> QED
    BY <1>v, <2>3, <2>4
<1>10. CASE RefusedByManager(w) \/ ClosesSocket(w) \/ ThreadEnds(w)
  <2>1. /\ wlog' = wlog /\ store' = store /\ mark' = mark
        /\ wstate[w].thread # "uncertain"
    BY <1>10 DEF RefusedByManager, ClosesSocket, ThreadEnds, ThreadReceives
  <2>2. wstate'[w].up = wstate[w].up
    BY <1>0, <1>10 DEF RefusedByManager, ClosesSocket, ThreadEnds, WorkerState
  <2>3. wstate[w].is_active
    BY <1>0, <1>10 DEF RefusedByManager, ClosesSocket, ThreadEnds,
                       ThreadReceives, ThreadActive
  <2> QED
    BY <1>k, <2>1, <2>2, <2>3, StoreSame
<1>11. CASE LearnsCommit(w) \/ LearnsAbort(w)
  <2>1. wstate[w].is_active /\ wstate'[w].up = wstate[w].up
    BY <1>0, <1>11 DEF LearnsCommit, LearnsAbort, Concludes, ThreadReceives,
                       ThreadActive, WorkerState
  <2>2. CASE LearnsAbort(w)
    BY <1>k, <1>r, <2>1, <2>2
  <2>3. CASE LearnsCommit(w)
    <3> DEFINE e == LogEntry("LOG_COMMIT", wstate[w].transaction)
    <3>1. e \in WLogEntries /\ e.type \in MarkType
      <4>1. wstate[w].transaction \in Tid \cup {0}
        BY <1>0 DEF WorkerState
      <4> QED
        BY <4>1, EntryTyped DEF LogEntryType, LogEntry, MarkType
    <3>2. wlog'[w] = txlog_append(wlog[w], e)
      BY <1>0, <2>3 DEF LearnsCommit, Logs
    <3>3. mark'[w] = store'[w]
      BY <1>0, <2>3 DEF LearnsCommit, Logs, MarkType
    <3> HIDE DEF e
    <3> QED
      BY <1>0, <1>k, <2>1, <3>1, <3>2, <3>3, StoreMarked
  <2> QED
    BY <1>11, <2>2, <2>3
<1>12. CASE Starts(w)
  BY <1>1, <1>2, <1>3, <1>12 DEF Starts
<1>13. CASE ClientCommand(w)
  BY <1>4, <1>5, <1>6, <1>7, <1>8, <1>9, <1>13 DEF ClientCommand
<1>14. CASE TransactionThread(w)
  BY <1>8, <1>v, <1>10, <1>11, <1>14 DEF TransactionThread
<1> QED
  BY <1>4, <1>12, <1>13, <1>14 DEF WNext

(* A step of a worker leaves the stores of the others alone.               *)
LEMMA OtherStores ==
    ASSUME DisciplineInv, NEW w \in Worker, WNext(w), NEW v \in Worker, v # w
    PROVE  store'[v] = store[v] /\ mark'[v] = mark[v]
<1>0. store \in [Worker -> Store] /\ mark \in [Worker -> Store]
  BY Types
<1>1. \/ store' = store
      \/ \E st : store' = [store EXCEPT ![w] = st]
  BY DEF WNext, Starts, StartsUncertain, StartsWithRollback, StartsClean,
         WorkerCrashes, ClientCommand, EntersTransaction, UpdatesInTransaction,
         UpdatesOutside, PassesOn, PassesOnToNull, AbortsLocally, WillVoteAbort,
         TransactionThread, VotesPrepared, VotesAbort, RefusedByManager,
         LearnsCommit, LearnsAbort, Asks, ClosesSocket, ThreadEnds,
         update_rollback, wVars
<1>2. \/ mark' = mark
      \/ \E st : mark' = [mark EXCEPT ![w] = st]
  BY DEF WNext, Starts, StartsUncertain, StartsWithRollback, StartsClean,
         WorkerCrashes, ClientCommand, EntersTransaction, UpdatesInTransaction,
         UpdatesOutside, PassesOn, PassesOnToNull, AbortsLocally, WillVoteAbort,
         TransactionThread, VotesPrepared, VotesAbort, RefusedByManager,
         LearnsCommit, LearnsAbort, Asks, ClosesSocket, ThreadEnds,
         update_rollback, Logs, wVars
<1> QED
  BY <1>0, <1>1, <1>2

(* What update_rollback would restore is the store at the last begin,      *)
(* commit or abort entry, in every state in which it can be called.        *)
THEOREM StoresKept == ASSUME CleanStack PROVE SysSpec => []StoreInv
<1>1. SysInit => StoreInv
  <2> SUFFICES ASSUME SysInit, NEW w \in Worker PROVE StoreKept(w)
    BY DEF StoreInv, StoreKept
  <2>1. wlog[w] = <<>> /\ wstate[w] = Down
    BY DEF SysInit, WInit
  <2>2. ~Down.is_active
    BY DEF Down
  <2>3. Undone(wlog[w]) = {}
    <3>1. wlog[w] \in Seq(WLogEntries) /\ Len(wlog[w]) = 0
      BY <2>1
    <3>2. StopsAt(wlog[w]) \in 0..Len(wlog[w])
      BY <3>1, StopsAtIs
    <3> QED
      BY <3>1, <3>2 DEF Undone
  <2> QED
    BY <2>1, <2>2, <2>3 DEF StoreKept, StartsWithBegin, PreparedWaits, LastIs,
                            ActiveLogged, MarkKept, InTransaction
<1>2. DisciplineInv /\ StoreInv /\ [SysNext]_sysVars => StoreInv'
  <2> SUFFICES ASSUME DisciplineInv, StoreInv, [SysNext]_sysVars PROVE StoreInv'
    OBVIOUS
  <2>1. CASE UNCHANGED wVars
    BY <2>1 DEF wVars, StoreInv, StartsWithBegin, PreparedWaits, LastIs,
                ActiveLogged, MarkKept, InTransaction
  <2>2. ASSUME NEW w \in Worker, WNext(w) PROVE StoreInv'
    <3>1. ASSUME NEW v \in Worker, v # w PROVE StoreKept(v)'
      <4>1. /\ wlog'[v] = wlog[v] /\ wstate'[v] = wstate[v]
            /\ store'[v] = store[v] /\ mark'[v] = mark[v]
        BY <2>2, <3>1, LogStep, OtherStores
      <4> QED
        BY <4>1 DEF StoreInv, StoreKept, StartsWithBegin, PreparedWaits, LastIs,
                    ActiveLogged, MarkKept, InTransaction
    <3> QED
      BY <2>2, <3>1, StoreStep DEF StoreInv, StoreKept
  <2> QED
    BY <2>1, <2>2 DEF SysNext, sysVars, ManagerDoes, WorkerDoes
<1> QED
  BY <1>1, <1>2, Discipline, PTL DEF SysSpec

(* "Workers handle crashes by rolling back to their previous state": when  *)
(* a worker logs ABORT, because the client or the manager says so or       *)
(* because it finds an unfinished transaction when it starts, its store is *)
(* as it was at the last begin, commit or abort entry of its log.  The     *)
(* client may update and abort at any time, also between vote and outcome  *)
(* and while the thread ends; but is_active must not be garbage at start.  *)
THEOREM RollbacksRestore ==
    ASSUME CleanStack PROVE SysSpec => RollbackRestores
<1> DEFINE Restores == \A w \in Worker :
              (/\ Len(wlog'[w]) > Len(wlog[w])
               /\ wlog'[w][Len(wlog'[w])].type = "LOG_ABORT")
              => store'[w] = mark[w]
<1>1. ASSUME DisciplineInv, StoreInv, [SysNext]_sysVars PROVE [Restores]_sysVars
  <2> SUFFICES ASSUME NEW v \in Worker, Len(wlog'[v]) > Len(wlog[v]),
                      wlog'[v][Len(wlog'[v])].type = "LOG_ABORT"
               PROVE  store'[v] = mark[v]
    OBVIOUS
  <2>0. wlog[v] \in Seq(WLogEntries) /\ Len(wlog[v]) \in Nat
    BY <1>1, Types
  <2>1. wlog'[v] # wlog[v]
    BY <2>0
  <2>2. PICK w \in Worker : WNext(w)
    BY <1>1, <2>1 DEF SysNext, sysVars, ManagerDoes, WorkerDoes, wVars
  <2>3. v = w
    BY <1>1, <2>1, <2>2, LogStep
  <2>4. PICK e \in WLogEntries : wlog'[v] = txlog_append(wlog[v], e) /\ Entered(v, e)
    BY <1>1, <2>1, <2>2, <2>3, LogStep
  <2>5. e.type = "LOG_ABORT"
    <3> DEFINE new == txlog_append(wlog[v], e)
    <3>1. new[Len(new)] = e
      BY <2>0, WorkerAppends
    <3> HIDE DEF new
    <3>2. wlog'[v] = new
      BY <2>4 DEF new
    <3> QED
      BY <3>1, <3>2
  <2>6. StartsWithRollback(v) \/ AbortsLocally(v) \/ LearnsAbort(v)
    BY <2>4, <2>5 DEF Entered
  <2> QED
    BY <1>1, <2>6, RollbackWhen, RollbackMarks
<1> QED
  BY <1>1, Discipline, StoresKept, PTL DEF SysSpec, RollbackRestores

-----------------------------------------------------------------------------
(* Atomicity, second half: a promise is kept.                              *)

(* One more entry in the log of w: the promises and outcomes that were     *)
(* there are still there, an open promise is one that was open or is the   *)
(* new entry, and a new outcome is that of an open promise.                *)
LEMMA PromisesGrow ==
    ASSUME NEW w \in Worker, wlog[w] \in Seq(WLogEntries),
           NEW e \in WLogEntries, wlog'[w] = txlog_append(wlog[w], e)
    PROVE  /\ \A i : OpenAt(w, i)' =>
                 /\ e.type \notin MarkType
                 /\ \/ OpenAt(w, i)
                    \/ i = Len(wlog[w]) + 1 /\ e.type = "LOG_PREPARED"
           /\ Len(wlog'[w]) = Len(wlog[w]) + 1
           /\ \A t, i, j :
                 PromisedAt(w, t, i)' /\ NextMark(w, i, j)'
                     /\ wlog'[w][j].type = "LOG_ABORT" =>
                   \/ PromisedAt(w, t, i) /\ NextMark(w, i, j)
                        /\ wlog[w][j].type = "LOG_ABORT"
                   \/ e.type = "LOG_ABORT" /\ PromisedAt(w, t, i) /\ OpenAt(w, i)
<1> DEFINE n   == Len(wlog[w])
           new == wlog'[w]
<1>1. /\ Len(new) = n + 1 /\ n \in Nat
      /\ \A k \in 1..n : new[k] = wlog[w][k]
      /\ new[n + 1] = e
  <2> DEFINE app == txlog_append(wlog[w], e)
  <2>1. /\ Len(app) = n + 1 /\ n \in Nat
        /\ \A k \in 1..n : app[k] = wlog[w][k]
        /\ app[n + 1] = e
    BY WorkerAppends
  <2> HIDE DEF app
  <2>2. new = app
    BY DEF app
  <2> QED
    BY <2>1, <2>2
<1>2. \A k : k \in 1..Len(new) <=> k \in 1..n \/ k = n + 1
  BY <1>1
<1>3. ASSUME NEW i, OpenAt(w, i)'
      PROVE  /\ e.type \notin MarkType
             /\ OpenAt(w, i) \/ (i = n + 1 /\ e.type = "LOG_PREPARED")
  <2>1. /\ i \in 1..Len(new) /\ new[i].type = "LOG_PREPARED"
        /\ \A k \in 1..Len(new) : i < k => new[k].type \notin MarkType
    BY <1>3 DEF OpenAt
  <2>2. CASE i = n + 1
    BY <1>1, <2>1, <2>2 DEF MarkType
  <2>3. CASE i \in 1..n
    <3>1. i < n + 1 /\ n + 1 \in 1..Len(new)
      BY <1>1, <2>3
    <3>2. e.type \notin MarkType
      BY <1>1, <2>1, <3>1
    <3>3. OpenAt(w, i)
      BY <1>1, <1>2, <2>1, <2>3 DEF OpenAt
    <3> QED
      BY <3>2, <3>3
  <2> QED
    BY <1>2, <2>1, <2>2, <2>3
<1>4. ASSUME NEW t, NEW i, NEW j, PromisedAt(w, t, i)', NextMark(w, i, j)',
             new[j].type = "LOG_ABORT"
      PROVE  \/ PromisedAt(w, t, i) /\ NextMark(w, i, j)
                  /\ wlog[w][j].type = "LOG_ABORT"
             \/ e.type = "LOG_ABORT" /\ PromisedAt(w, t, i) /\ OpenAt(w, i)
  <2>1. /\ i \in 1..Len(new) /\ new[i].type = "LOG_PREPARED" /\ new[i].tid = t
        /\ j \in 1..Len(new) /\ j > i /\ new[j].type \in MarkType
        /\ \A k \in 1..Len(new) : i < k /\ k < j => new[k].type \notin MarkType
    BY <1>4 DEF PromisedAt, NextMark
  <2>2. i \in 1..n
    BY <1>1, <2>1
  <2>3. PromisedAt(w, t, i)
    BY <1>1, <2>1, <2>2 DEF PromisedAt
  <2>4. CASE j \in 1..n
    <3>1. NextMark(w, i, j) /\ wlog[w][j].type = "LOG_ABORT"
      BY <1>1, <1>2, <1>4, <2>1, <2>4 DEF NextMark
    <3> QED
      BY <2>3, <3>1
  <2>5. CASE j = n + 1
    <3>1. \A k \in 1..n : k < j /\ k \in 1..Len(new)
      BY <1>1, <2>5
    <3>2. OpenAt(w, i)
      BY <1>1, <2>1, <2>2, <3>1 DEF OpenAt
    <3> QED
      BY <1>1, <1>4, <2>3, <2>5, <3>2
  <2> QED
    BY <1>2, <2>1, <2>4, <2>5
<1> QED
  BY <1>1, <1>3, <1>4

LEMMA PromiseStep ==
    ASSUME QuietAfterVote, DisciplineInv, PortInv, StoreInv, RepliesMatchLog,
           PromiseInv, NEW w \in Worker, WNext(w), LogGrows
    PROVE  PromiseInv'
<1>0. /\ \A v \in Worker : v # w => wlog'[v] = wlog[v] /\ wstate'[v] = wstate[v]
      /\ wlog[w] \in Seq(WLogEntries)
  BY LogStep, Types
<1>1. \A v \in Worker : v # w =>
        /\ \A i : OpenAt(v, i)' <=> OpenAt(v, i)
        /\ \A t, i, j : /\ PromisedAt(v, t, i)' <=> PromisedAt(v, t, i)
                        /\ NextMark(v, i, j)' <=> NextMark(v, i, j)
  BY <1>0 DEF OpenAt, PromisedAt, NextMark
<1>2. \A t \in Tid : Aborted(t) => Aborted(t)'
  BY DEF LogGrows, Aborted
<1>3. SUFFICES
        /\ \A i : OpenAt(w, i)' => i = Len(wlog'[w])
        /\ \A t \in Tid, i, j \in 1..Len(wlog'[w]) :
              PromisedAt(w, t, i)' /\ NextMark(w, i, j)'
                  /\ wlog'[w][j].type = "LOG_ABORT" => Aborted(t)
  <2>1. PromiseLast'
    BY <1>0, <1>1, <1>3 DEF PromiseInv, PromiseLast
  <2>2. UndoneAborted'
    BY <1>0, <1>1, <1>2, <1>3 DEF PromiseInv, UndoneAborted
  <2> QED
    BY <2>1, <2>2 DEF PromiseInv
<1>4. /\ \A i : OpenAt(w, i) => i = Len(wlog[w])
      /\ \A t \in Tid : \A i, j \in 1..Len(wlog[w]) :
            PromisedAt(w, t, i) /\ NextMark(w, i, j)
                /\ wlog[w][j].type = "LOG_ABORT" => Aborted(t)
  BY DEF PromiseInv, PromiseLast, UndoneAborted, OpenAt
<1>w. ASSUME NEW i, OpenAt(w, i)
      PROVE  wstate[w].up => wstate[w].thread = "uncertain"
  <2>1. LastIs(w, "LOG_PREPARED")
    BY <1>0, <1>4, <1>w DEF OpenAt, LastIs
  <2> QED
    BY <2>1 DEF StoreInv, PreparedWaits
<1>5. CASE wlog'[w] = wlog[w]
  BY <1>4, <1>5 DEF OpenAt, PromisedAt, NextMark
<1>6. ASSUME NEW e \in WLogEntries, wlog'[w] = txlog_append(wlog[w], e),
             Entered(w, e)
      PROVE  /\ \A i : OpenAt(w, i)' => i = Len(wlog'[w])
             /\ \A t \in Tid, i, j \in 1..Len(wlog'[w]) :
                   PromisedAt(w, t, i)' /\ NextMark(w, i, j)'
                       /\ wlog'[w][j].type = "LOG_ABORT" => Aborted(t)
  <2>1. /\ \A i : OpenAt(w, i)' =>
                 /\ e.type \notin MarkType
                 /\ OpenAt(w, i) \/ (i = Len(wlog[w]) + 1 /\ e.type = "LOG_PREPARED")
        /\ Len(wlog'[w]) = Len(wlog[w]) + 1
        /\ \A t, i, j :
              PromisedAt(w, t, i)' /\ NextMark(w, i, j)'
                  /\ wlog'[w][j].type = "LOG_ABORT" =>
                \/ PromisedAt(w, t, i) /\ NextMark(w, i, j)
                     /\ wlog[w][j].type = "LOG_ABORT"
                \/ e.type = "LOG_ABORT" /\ PromisedAt(w, t, i) /\ OpenAt(w, i)
    BY <1>0, <1>6, PromisesGrow
  <2>2. ASSUME NEW i, OpenAt(w, i)'
        PROVE  i = Len(wlog'[w])
    <3>1. e.type \notin MarkType
      BY <2>1, <2>2
    <3>2. CASE e.type = "LOG_UPDATE"
      <4>1. wstate[w].up /\ wstate[w].thread # "uncertain"
        BY <1>6, <3>2 DEF Entered, ClientMayDisturb
      <4> QED
        BY <1>w, <2>1, <2>2, <3>2, <4>1
    <3>3. CASE e.type = "LOG_PREPARED"
      <4>1. wstate[w].thread = "running"
        BY <1>6, <3>3 DEF Entered
      <4>2. wstate[w].up
        BY <4>1, Types DEF WorkerInv, ThreadActive, StoreInv, ActiveLogged
      <4> QED
        BY <1>w, <2>1, <2>2, <4>1, <4>2
    <3> QED
      BY <1>6, <3>1, <3>2, <3>3 DEF Entered, MarkType
  <2>3. ASSUME NEW t \in Tid, NEW i, e.type = "LOG_ABORT",
               PromisedAt(w, t, i), OpenAt(w, i)
        PROVE  Aborted(t)
    <3>1. i = Len(wlog[w])
      BY <1>4, <2>3
    <3>2. LastIs(w, "LOG_PREPARED") /\ LastEntry(w).tid = t
      BY <1>0, <2>3, <3>1 DEF LastIs, LastEntry, PromisedAt
    <3>3. CASE AbortsLocally(w)
      BY <1>w, <2>3, <3>3 DEF AbortsLocally, ClientMayDisturb
    <3>4. CASE StartsWithRollback(w)
      BY <3>2, <3>4 DEF StartsWithRollback, LastIs
    <3>5. CASE LearnsAbort(w)
      <4>1. /\ wstate[w].thread \in {"running", "uncertain"}
            /\ Reply("ABORT", wstate[w].server) \in toWorker
        BY <3>5 DEF LearnsAbort, ThreadReceives
      <4>2. t \in bound[listen[w]]
        BY <3>2, Types DEF WorkerInv, PromisePort
      <4> QED
        BY <4>1, <4>2, OutcomeTrue
    <3> QED
      BY <1>6, <2>3, <3>3, <3>4, <3>5 DEF Entered
  <2>4. ASSUME NEW t \in Tid, NEW i, NEW j, PromisedAt(w, t, i)',
               NextMark(w, i, j)', wlog'[w][j].type = "LOG_ABORT"
        PROVE  Aborted(t)
    <3>1. CASE /\ PromisedAt(w, t, i) /\ NextMark(w, i, j)
               /\ wlog[w][j].type = "LOG_ABORT"
      BY <1>4, <3>1 DEF PromisedAt, NextMark
    <3> QED
      BY <2>1, <2>3, <2>4, <3>1
  <2> QED
    BY <2>2, <2>4
<1> QED
  BY <1>5, <1>6, LogStep

(* With a client that leaves a worker alone once it has voted, a promise   *)
(* that a worker has undone is one that the manager has aborted.           *)
THEOREM PromisesKept ==
    ASSUME WellBehaved, CleanStack, QuietAfterVote PROVE SysSpec => []PromiseInv
<1>1. SysInit => PromiseInv
  BY DEF SysInit, WInit, PromiseInv, PromiseLast, UndoneAborted
<1>2. DisciplineInv /\ PortInv /\ StoreInv /\ RepliesMatchLog /\ PromiseInv
        /\ [SysNext]_sysVars => PromiseInv'
  <2> SUFFICES ASSUME DisciplineInv, PortInv, StoreInv, RepliesMatchLog,
                      PromiseInv, [SysNext]_sysVars
               PROVE  PromiseInv'
    OBVIOUS
  <2>1. LogGrows
    BY DisciplineStep, ManagerLogGrows DEF DisciplineInv, TypeInv
  <2>2. CASE UNCHANGED wVars
    <3>1. PromiseLast'
      BY <2>2 DEF wVars, PromiseInv, PromiseLast, OpenAt
    <3>2. UndoneAborted'
      BY <2>1, <2>2 DEF wVars, PromiseInv, UndoneAborted, PromisedAt, NextMark,
                        LogGrows, Aborted
    <3> QED
      BY <3>1, <3>2 DEF PromiseInv
  <2>3. CASE \E w \in Worker : WNext(w)
    BY <2>1, <2>3, PromiseStep
  <2> QED
    BY <2>2, <2>3 DEF SysNext, sysVars, ManagerDoes, WorkerDoes
<1>3. SysSpec => []RepliesMatchLog
  BY WorkersKeepDiscipline, RepliesTruthful, PTL DEF ManagerSpecification
<1> QED
  BY <1>1, <1>2, <1>3, Discipline, PortsKept, StoresKept, PTL DEF SysSpec

(* Atomicity, second half: a worker that has promised to commit does not   *)
(* undo a transaction that the manager commits, before or afterwards.      *)
THEOREM VotesHonoured ==
    ASSUME WellBehaved, CleanStack, QuietAfterVote PROVE SysSpec => []VoteHonoured
<1>1. PromiseInv /\ DecisionStable => VoteHonoured
  BY DEF PromiseInv, UndoneAborted, DecisionStable, VoteHonoured
<1>2. SysSpec => []DecisionStable
  BY WorkersKeepDiscipline, DecisionsFinal, PTL DEF ManagerSpecification
<1> QED
  BY <1>1, <1>2, PromisesKept, PTL

(* All or nothing: with a logged COMMIT of one worker goes a commit of the *)
(* manager, against which nobody has voted and which nobody undoes.        *)
THEOREM Atomicity ==
    ASSUME WellBehaved, CleanStack, QuietAfterVote PROVE SysSpec => []AllOrNothing
<1>1. ASSUME WorkerCommitsAgree, VoteHonoured, CommitUnanimous
      PROVE  AllOrNothing
  <2> SUFFICES ASSUME NEW v \in Worker, NEW t \in Tid,
                      Logged(wlog[v], "LOG_COMMIT", t)
               PROVE  /\ \A m \in votes : m.type = "ABORT" => m.tid # t
                      /\ \A w \in Worker : \A i, j \in 1..Len(wlog[w]) :
                            PromisedAt(w, t, i) /\ NextMark(w, i, j) =>
                                wlog[w][j].type # "LOG_ABORT"
    BY DEF AllOrNothing
  <2>1. Committed(t)
    BY <1>1 DEF WorkerCommitsAgree
  <2>2. \A m \in votes : m.type = "ABORT" => m.tid # t
    BY <1>1, <2>1 DEF CommitUnanimous
  <2>3. \A w \in Worker : \A i, j \in 1..Len(wlog[w]) :
            PromisedAt(w, t, i) /\ NextMark(w, i, j) =>
                wlog[w][j].type # "LOG_ABORT"
    BY <1>1, <2>1 DEF VoteHonoured
  <2> QED
    BY <2>2, <2>3
<1>2. SysSpec => []CommitUnanimous
  BY WorkersKeepDiscipline, CommitsUnanimous, PTL DEF ManagerSpecification
<1> QED
  BY <1>1, <1>2, WorkersAgree, VotesHonoured, PTL
=============================================================================
