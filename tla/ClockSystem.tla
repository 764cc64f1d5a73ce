---------------------------- MODULE ClockSystem ----------------------------
(***************************************************************************)
(* What the manager and the workers do with their vector clocks: the clock *)
(* in memory, the copy in the header of the log, the datagrams that carry  *)
(* it, and the restarts that read it back (src/tmanager.c, src/tworker.c,  *)
(* src/tx_worker_thread.c, src/txlog.c).                                   *)
(*                                                                         *)
(* Of the handlers only what concerns clocks is kept: whether they append  *)
(* to the log, roll back, send, or end the process.  Which of these a      *)
(* datagram causes is a free choice; TManager and TWorker have the         *)
(* conditions.  A worker that has once begun a transaction may be in one.  *)
(* A process ends where the code says exit, where the manager follows a    *)
(* NULL pointer, and when it is killed.  A kill inside a handler leaves    *)
(* what some handler and a kill after it leave: before its tick is in the  *)
(* header, or for the manager before it answers, nobody has seen anything  *)
(* of it.  Handlers are single steps, so the two threads do not race for a *)
(* clock.  Datagrams may be lost, delayed, reordered and duplicated.       *)
(***************************************************************************)
EXTENDS VClock

CONSTANTS
    Manager,   \* the manager's port
    Worker,    \* the workers' ports
    MaxTime,   \* bound: node n takes nothing in once it has had time MaxTime[n]
    MaxLosses  \* bound: MaxLosses[n]: how often n dies with its header behind

Node == {Manager} \cup Worker

ASSUME ClockSystemAssumption ==
    /\ Node \subseteq Nat \ {0}
    /\ Manager \notin Worker
    /\ MaxTime \in [Node -> Nat] /\ MaxLosses \in [Node -> Nat]
    /\ IsFiniteSet(Node) /\ Cardinality(Node) <= MaxNodes

VARIABLES
    up,        \* up[n]: is the process running?
    clock,     \* clock[n]: its vector clock
    saved,     \* saved[n]: the clock in the header of its log
    began,     \* began[w]: has the log a BEGIN, ABORT or COMMIT entry?
    mark,      \* mark[w]: the clock of the last such entry
    dirty,     \* dirty[w]: is the last entry an UPDATE?
    known,     \* the workers that have written to the manager since it started
    datagrams, \* every datagram ever sent
    past,      \* history: past[n][m] is the last time of m that n has been
               \* told of, directly or not, past[n][n] the last it has had
    unsaved,   \* history: unsaved[n]: what has happened since the header of n
               \* last had the clock of n
    losses     \* history: losses[n]: how often n has died with its header behind

clockVars == <<up, clock, saved, began, mark, dirty, known, datagrams, past,
               unsaved, losses>>
logVars   == <<began, mark, dirty>>

Past == [Node -> Nat]

(* A start is not in the header, but another start makes up for it.  What  *)
(* a rollback rewinds, or the manager does not log, only the memory has.   *)
Behind  == {"rollback", "datagram"}
Unsaved == {"nothing", "start"} \cup Behind

ClockTypeOK ==
    /\ up \in [Node -> BOOLEAN]
    /\ clock \in [Node -> Clock] /\ saved \in [Node -> Clock]
    /\ began \in [Worker -> BOOLEAN] /\ mark \in [Worker -> Clock]
    /\ dirty \in [Worker -> BOOLEAN]
    /\ known \subseteq Worker
    /\ datagrams \subseteq [from : Node, to : Node, vclock : Clock, past : Past]
    /\ past \in [Node -> Past]
    /\ unsaved \in [Node -> Unsaved] /\ losses \in [Node -> Nat]

ClockInit ==
    /\ up = [n \in Node |-> FALSE]
    /\ clock = [n \in Node |-> vclock_init]
    /\ saved = [n \in Node |-> vclock_init]
    /\ began = [w \in Worker |-> FALSE]
    /\ mark = [w \in Worker |-> vclock_init]
    /\ dirty = [w \in Worker |-> FALSE]
    /\ known = {}
    /\ datagrams = {}
    /\ past = [n \in Node |-> [m \in Node |-> 0]]
    /\ unsaved = [n \in Node |-> "nothing"]
    /\ losses = [n \in Node |-> 0]

-----------------------------------------------------------------------------
(* The history of node n, whose clock is c after it has heard of heard.    *)
Records(n, c, heard) ==
    past' = [past EXCEPT ![n] = [m \in Node |->
                IF m = n THEN Max({past[n][n], TimeOf(c, n)})
                ELSE Max({past[n][m], heard[m]})]]

(* Node n has clock c from now on.                                         *)
Becomes(n, c, heard) ==
    /\ clock' = [clock EXCEPT ![n] = c]
    /\ Records(n, c, heard)

(* Datagrams from n, whose clock is c, to the nodes in dest.               *)
Sends(n, c, dest) ==
    datagrams' = datagrams \cup
        {[from |-> n, to |-> d, vclock |-> message_init(c),
          past |-> [past'[n] EXCEPT ![n] = TimeOf(c, n)]] : d \in dest}

(* The clock in the header.  txlog_append writes that of its entry.        *)
txlog_read_clock(n) == saved[n]
txlog_write_clock(n, c) ==
    /\ saved' = [saved EXCEPT ![n] = c]
    /\ unsaved' = [unsaved EXCEPT ![n] = "nothing"]

(* The process goes on, or exits: then its memory is gone.                 *)
Stays == UNCHANGED <<up, losses, known>>

Exits(n) ==
    /\ up' = [up EXCEPT ![n] = FALSE]
    /\ clock' = [clock EXCEPT ![n] = vclock_init]
    /\ losses' = [losses EXCEPT ![n] = IF unsaved'[n] \in Behind THEN @ + 1 ELSE @]
    /\ losses'[n] <= MaxLosses[n]
    /\ UNCHANGED known

(* A kill, at any time.                                                    *)
Killed(n) ==
    /\ up[n]
    /\ UNCHANGED <<saved, logVars, datagrams, past, unsaved>>
    /\ Exits(n)

(* Mutant: a recovered clock is not incremented.                           *)
Recovered_SameTime(n) ==
    LET read == txlog_read_clock(n)
    IN  IF vclock_has(read, n) THEN read ELSE vclock_add(read, n)

(* Mutant: the pair is added without a look at what the header has.        *)
Recovered_Again(n) == vclock_add(txlog_read_clock(n), n)

(* What the first lines of the two main functions make of the header.      *)
Recovered(n) ==
    LET read == txlog_read_clock(n)
    IN  IF ~vclock_has(read, n) THEN vclock_add(read, n)
        ELSE IF n = Manager THEN read ELSE vclock_increment(n, read)

-----------------------------------------------------------------------------
(* Workers.  Every command and every datagram first moves the clock and    *)
(* writes it to the header; a command brings no clock.                     *)
MayTick(n) == up[n] /\ past[n][n] < MaxTime[n]

Ticked(n, vclock) == vclock_increment(n, vclock_update(n, clock[n], vclock))

Nothing == [m \in Node |-> 0]

(* What the handler then does to the log, whose header takes the clock of  *)
(* the entry.                                                              *)
AppendsNothing(w, c) ==
    txlog_write_clock(w, c) /\ UNCHANGED logVars

(* BEGIN or COMMIT.                                                        *)
AppendsMark(w, c) ==
    /\ txlog_write_clock(w, c)
    /\ began' = [began EXCEPT ![w] = TRUE]
    /\ mark' = [mark EXCEPT ![w] = c]
    /\ dirty' = [dirty EXCEPT ![w] = FALSE]

(* UPDATE, or PREPARED.                                                    *)
AppendsOther(w, c, isUpdate) ==
    /\ txlog_write_clock(w, c)
    /\ dirty' = [dirty EXCEPT ![w] = isUpdate]
    /\ UNCHANGED <<began, mark>>

(* update_rollback appends ABORT with the clock of the entry it stops at.  *)
RollsBack(w) ==
    /\ began[w]
    /\ saved' = [saved EXCEPT ![w] = mark[w]]
    /\ unsaved' = [unsaved EXCEPT ![w] = "rollback"]
    /\ dirty' = [dirty EXCEPT ![w] = FALSE]
    /\ UNCHANGED <<began, mark>>

(* The log and the header after the start of n: as they are, and behind.   *)
HeaderStays(n) ==
    /\ unsaved' = [unsaved EXCEPT ![n] = "start"]
    /\ UNCHANGED <<saved, logVars>>

(* A log that ends with UPDATE is rolled back.                             *)
WorkerStarts(w) ==
    /\ ~up[w]
    /\ up' = [up EXCEPT ![w] = TRUE]
    /\ Becomes(w, Recovered(w), Nothing)
    /\ IF dirty[w] THEN RollsBack(w) ELSE HeaderStays(w)
    /\ UNCHANGED <<datagrams, known, losses>>

(* BEGINTX and JOINTX.                                                     *)
Enters(w) ==
    LET c == Ticked(w, vclock_init)
    IN  /\ MayTick(w)
        /\ Becomes(w, c, Nothing) /\ AppendsMark(w, c) /\ Sends(w, c, {Manager})
        /\ Stays

(* NEW_A, NEW_B, NEW_IDSTR in a transaction.                               *)
Updates(w) ==
    LET c == Ticked(w, vclock_init)
    IN  /\ MayTick(w) /\ began[w]
        /\ Becomes(w, c, Nothing) /\ AppendsOther(w, c, TRUE)
        /\ Stays /\ UNCHANGED datagrams

(* COMMIT, COMMIT_CRASH, ABORT_CRASH, DELAY_RESPONSE.                      *)
PassesOn(w) ==
    LET c == Ticked(w, vclock_init)
    IN  /\ MayTick(w) /\ began[w]
        /\ Becomes(w, c, Nothing) /\ AppendsNothing(w, c) /\ Sends(w, c, {Manager})
        /\ Stays

(* VOTE_ABORT, an update outside a transaction, a command that is refused. *)
TakesOther(w) ==
    LET c == Ticked(w, vclock_init)
    IN  /\ MayTick(w)
        /\ Becomes(w, c, Nothing) /\ AppendsNothing(w, c)
        /\ Stays /\ UNCHANGED datagrams

(* ABORT.                                                                  *)
AbortsLocally(w) ==
    /\ MayTick(w)
    /\ Becomes(w, Ticked(w, vclock_init), Nothing) /\ RollsBack(w)
    /\ Stays /\ UNCHANGED datagrams

(* CRASH; a command for the manager when wstate.server is NULL.  The tick  *)
(* reaches the header before.                                              *)
WorkerCrashes(w) ==
    LET c == Ticked(w, vclock_init)
    IN  /\ MayTick(w)
        /\ Records(w, c, Nothing) /\ AppendsNothing(w, c)
        /\ Exits(w) /\ UNCHANGED datagrams

(* PREPARE_TO_COMMIT; a vote against is not logged.                        *)
Votes(w, m) ==
    LET c == Ticked(w, m.vclock)
    IN  /\ MayTick(w) /\ m.to = w /\ began[w]
        /\ Becomes(w, c, m.past) /\ Sends(w, c, {Manager})
        /\ AppendsOther(w, c, FALSE) \/ AppendsNothing(w, c)
        /\ Stays

(* With a negative delay the process exits when it would send its vote.    *)
VotesAndExits(w, m) ==
    LET c == Ticked(w, m.vclock)
    IN  /\ MayTick(w) /\ m.to = w /\ began[w]
        /\ Records(w, c, m.past)
        /\ AppendsOther(w, c, FALSE) \/ AppendsNothing(w, c)
        /\ Exits(w) /\ UNCHANGED datagrams

(* COMMIT; TX_ERROR and what is not expected; ABORT.                       *)
LearnsCommit(w, m) ==
    LET c == Ticked(w, m.vclock)
    IN  /\ MayTick(w) /\ m.to = w /\ began[w]
        /\ Becomes(w, c, m.past) /\ AppendsMark(w, c)
        /\ Stays /\ UNCHANGED datagrams

LearnsOther(w, m) ==
    LET c == Ticked(w, m.vclock)
    IN  /\ MayTick(w) /\ m.to = w
        /\ Becomes(w, c, m.past) /\ AppendsNothing(w, c)
        /\ Stays /\ UNCHANGED datagrams

LearnsAbort(w, m) ==
    /\ MayTick(w) /\ m.to = w
    /\ Becomes(w, Ticked(w, m.vclock), m.past) /\ RollsBack(w)
    /\ Stays /\ UNCHANGED datagrams

(* The timeout in tx_worker_uncertain: no tick.                            *)
Asks(w) ==
    /\ up[w] /\ began[w]
    /\ Stays /\ UNCHANGED <<clock, saved, unsaved, logVars, past>>
    /\ Sends(w, clock[w], {Manager})

-----------------------------------------------------------------------------
(* The manager.                                                            *)

(* restoreTransactions may append to a log that has entries.               *)
ManagerStarts ==
    /\ ~up[Manager]
    /\ up' = [up EXCEPT ![Manager] = TRUE] /\ known' = {}
    /\ Becomes(Manager, Recovered(Manager), Nothing)
    /\ \/ HeaderStays(Manager)
       \/ /\ vclock_has(txlog_read_clock(Manager), Manager)
          /\ txlog_write_clock(Manager, Recovered(Manager)) /\ UNCHANGED logVars
    /\ UNCHANGED <<datagrams, losses>>

(* The manager takes a datagram and ticks.                                 *)
ManagerTakes(m) == MayTick(Manager) /\ m.to = Manager

(* The answers to it: to its sender, or to workers that it has from        *)
(* earlier datagrams.                                                      *)
ManagerSends(m, dest, c) ==
    /\ known' = known \cup {m.from}
    /\ dest \subseteq known'
    /\ Sends(Manager, c, dest)
    /\ UNCHANGED <<up, losses>>

(* A datagram that is not logged.                                          *)
ManagerAnswers(m, dest) ==
    LET c == Ticked(Manager, m.vclock)
    IN  /\ ManagerTakes(m) /\ Becomes(Manager, c, m.past)
        /\ unsaved' = [unsaved EXCEPT ![Manager] = "datagram"]
        /\ ManagerSends(m, dest, c)
        /\ UNCHANGED <<saved, logVars>>

(* BEGIN, COMMIT or ABORT is logged.                                       *)
ManagerLogs(m, dest) ==
    LET c == Ticked(Manager, m.vclock)
    IN  /\ ManagerTakes(m) /\ Becomes(Manager, c, m.past)
        /\ txlog_write_clock(Manager, c) /\ UNCHANGED logVars
        /\ ManagerSends(m, dest, c)

(* Mutant: txlog_append leaves the clock in the header alone.              *)
ManagerCrashes_NotSaved(m) ==
    LET c == Ticked(Manager, m.vclock)
    IN  /\ ManagerTakes(m) /\ Records(Manager, c, m.past)
        /\ unsaved' = [unsaved EXCEPT ![Manager] = "nothing"]
        /\ UNCHANGED <<saved, logVars, datagrams>>
        /\ Exits(Manager)

(* commit_crash and abort_crash: exit after the entry.                     *)
ManagerCrashes(m) ==
    LET c == Ticked(Manager, m.vclock)
    IN  /\ ManagerTakes(m) /\ Records(Manager, c, m.past)
        /\ txlog_write_clock(Manager, c) /\ UNCHANGED <<logVars, datagrams>>
        /\ Exits(Manager)

(* PREPARED for a transaction that is not in the table: its sender gets    *)
(* the outcome if the log has one, then the NULL pointer is followed.      *)
ManagerFaults(m, dest) ==
    LET c == Ticked(Manager, m.vclock)
    IN  /\ ManagerTakes(m) /\ Records(Manager, c, m.past)
        /\ unsaved' = [unsaved EXCEPT ![Manager] = "datagram"]
        /\ dest \subseteq {m.from} /\ Sends(Manager, c, dest)
        /\ UNCHANGED <<saved, logVars>>
        /\ Exits(Manager)

ClockNext ==
    \/ \E n \in Node : Killed(n)
    \/ \E w \in Worker :
          \/ WorkerStarts(w) \/ Enters(w) \/ Updates(w) \/ PassesOn(w)
          \/ TakesOther(w) \/ AbortsLocally(w) \/ WorkerCrashes(w) \/ Asks(w)
          \/ \E m \in datagrams : \/ Votes(w, m) \/ VotesAndExits(w, m)
                                  \/ LearnsCommit(w, m) \/ LearnsOther(w, m)
                                  \/ LearnsAbort(w, m)
    \/ ManagerStarts
    \/ \E m \in datagrams :
          \/ ManagerCrashes(m)
          \/ \E dest \in SUBSET Worker : \/ ManagerAnswers(m, dest)
                                         \/ ManagerLogs(m, dest)
                                         \/ ManagerFaults(m, dest)

ClockSpec == ClockInit /\ [][ClockNext]_clockVars

-----------------------------------------------------------------------------
(* message_init sends the first element for the sender's own: in every     *)
(* clock, in memory, in a log and in a datagram, a node's own pair comes   *)
(* first, no node has two pairs, and nothing follows a free one.           *)
WellFormed(c, n) ==
    /\ c = vclock_init \/ c[1].nodeId = n
    /\ \A i, j \in Slot : i < j => /\ c[i].nodeId = 0 => c[j] = Free
                                   /\ c[i].nodeId = c[j].nodeId => c[j] = Free

OwnFirst ==
    /\ \A n \in Node : WellFormed(clock[n], n) /\ WellFormed(saved[n], n)
    /\ \A w \in Worker : WellFormed(mark[w], w)
    /\ \A m \in datagrams : m.vclock[1].nodeId # m.to /\ m.vclock[1].time > 0

(* "Cannot update vector clock" is never printed, and no process exits for *)
(* want of a pair: a running one finds its own pair when it increments and *)
(* a place for every node it can hear of, one that starts a place for      *)
(* itself, whatever the clock in its log is by then.                       *)
RoomKept ==
    \A n \in Node :
        IF up[n]
          THEN /\ vclock_has(clock[n], n)
               /\ \A k \in Node : vclock_has(clock[n], k) \/ vclock_has(clock[n], 0)
          ELSE vclock_has(saved[n], n) \/ vclock_has(saved[n], 0)

(* No event of a process that has never died with its header behind (see   *)
(* Behind) has the time of an earlier one, whatever crashes, restarts and  *)
(* rollbacks lie between, but for two restarts that repeat the last time.  *)
(* A worker does when it has taken nothing in since it started before (an  *)
(* ASK may have carried that time).  The manager always does: the code     *)
(* does not increment a recovered clock, although in ShiVizLog.dat2 it     *)
(* moves from 7 at "COMMIT" to 8 at "Started manager".                     *)
TimeMovesOn ==
    [][\A n \in Node : losses[n] = 0 /\ clock'[n] \notin {clock[n], vclock_init} =>
          \/ TimeOf(clock'[n], n) > past[n][n]
          \/ /\ ~up[n] /\ TimeOf(clock'[n], n) = past[n][n]
             /\ n = Manager \/ unsaved[n] = "start"
      ]_clockVars

(* No process ever knows a later time of another than that one knows       *)
(* itself, unless that one has died with its header behind: no other       *)
(* restart, after a kill or an exit, falls behind what has been sent.      *)
NobodyAhead ==
    \A n \in Node : up[n] /\ losses[n] = 0 =>
        /\ \A k \in Node : TimeOf(clock[k], n) <= TimeOf(clock[n], n)
        /\ \A m \in datagrams : TimeOf(m.vclock, n) <= TimeOf(clock[n], n)

(* What one process has heard from another, in whatever order it came, it  *)
(* knows across its restarts until it dies with its header behind: every   *)
(* worker of the manager, the manager of every worker, also of one that    *)
(* has fallen back to earlier times.                                       *)
HeardRemembered ==
    \A n \in Node : up[n] /\ losses[n] = 0 =>
        \A k \in Node \ {n} : Manager \in {n, k} => TimeOf(clock[n], k) = past[n][k]

(* "If we passed a vector clock, copy it to the message": a process knows  *)
(* of every event that happened before its present, as with a vector clock *)
(* it should, those of the other workers included.                         *)
CausalKnowledge ==
    \A n \in Node : up[n] /\ losses[n] = 0 =>
        \A k \in Node \ {n} : TimeOf(clock[n], k) = past[n][k]
=============================================================================
