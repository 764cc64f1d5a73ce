# A verification of the distributed transaction manager

The repository is a two-phase commit system in C: a transaction manager
(`tmanager`), workers (`tworker`) and a client (`cmd`) that gives the workers
commands. This directory holds a TLA+ model of it, the TLC configurations that
check the model on small instances, and proofs, checked by TLAPS, that hold for
every instance.

To run a check: `tlc -workers 2 -config manager.cfg MCTManager`; the module of
each configuration is in the table of runs below. To check the proofs: `tlapm` on
`TManagerProofs.tla`, `TManagerSafety.tla`, `TManagerRefines.tla`,
`RollbackProofs.tla`, `SystemProofs.tla`, `ThreadsProofs.tla`, `ClockProofs.tla`
and `ClientProofs.tla`.

## The system

| Part | State | Operations | Talks to |
|---|---|---|---|
| Manager, `tmanager.c` | table of 4 slots (tid, state, up to 10 nodes, `nodeCount`), test flags `commit_crash`, `abort_crash`; log file | one handler per datagram: ASK, BEGINTX, COMMIT, ABORT, PREPARED, JOINTX, two test settings; `restoreTransactions` at start | workers' transaction sockets, by port |
| Worker main thread, `tworker.c` | `wstate`: `is_active`, `uncertain`, `do_commit`, `do_abort`, the transaction socket; object store and log in files | one handler per command; recovery at start; `update_rollback` | client (commands), manager (requests), its own thread through `wstate` and the log |
| Transaction thread, `tx_worker_thread.c` | the same `wstate` | main loop (PREPARE_TO_COMMIT, TX_ERROR, COMMIT, ABORT), uncertain loop (COMMIT, ABORT, ASK after each timeout), closing of the socket | manager |
| Log, `txlog.c` | entries, `tx_count`, the last clock, the last port | append, read, last entry, last entry of a transaction, is an id free | used by manager and worker |
| Sockets and messages, `server.c`, `msg.c` | none | bind, send, receive with timeout | UDP |
| Object store, `objstore.c` | A, B, an id string, in a mapped file | set, sync | worker |
| Vector clocks, `common.c` | in every process an array of 10 pairs (port, time), a copy of it in the log's header and in every entry | add, increment, update, has | moved by every command and datagram, sent with every datagram |
| Client, `command.c` | `cmd_args`, `cmd_arg_count` | read and split a line, find the command, build and send one datagram | worker main threads |
| ShiViz output, `shitviz.c`; dump tools | | | output only, not modelled |

What makes the system hard, and where each point is listed in `PROJECT.json`
under *hazards*:

* The manager counts votes; it does not remember who voted. The count is right
  only if no socket's vote arrives twice, nobody joins once the vote has begun,
  and the count does not wrap round.
* A COMMIT request after the decision reopens the vote on a decided slot.
* A slot of a decided transaction is given to the next transaction that begins
  while messages about the old one are still under way.
* Datagrams from the manager carry no transaction id; only the port ties them to
  a transaction.
* The manager may die between log entry and broadcast, or in the middle of its
  recovery. A worker may die between any two steps, and decides from the last
  entry of its log what to do when it starts.
* A worker that has voted must wait for the outcome, and asks for it again and
  again over a network that loses messages.
* The two threads of a worker share `wstate`, the store, the clock and the log,
  with its one file offset, without a lock.
* A worker can die between an entry and the update it announces, or halfway
  through a rollback, and has only the log to find out.
* A clock lives in memory and in the log's header; the header's copy lags behind
  in the manager, and a rollback takes it back in a worker, so a process that dies
  at the wrong moment has lost times that others know.
* The client keeps the words of earlier lines, and splits a line with indices that
  odd spacing and too many words lead astray.

What correctness means: a decision is final and unanimous, everyone who commits
or aborts agrees with the manager's log, no transaction is forgotten, a worker
that rolls back has its old store, a worker in doubt finds out; the log only
grows and always has what recovery needs; clocks move on and forget nothing; the
client sends what it was told to.

## The modules

| Module | Models | How |
|---|---|---|
| `TxLog` | `txlog.c` | operators on the sequence of entries |
| `Network` | `server.c`, `msg.h`; UDP | sets of datagrams to the manager and to the sockets, with loss, delay, reordering and, if `Duplicates`, duplication; `votes`, `bound` and `mayVote` are history: the votes sent, what a port was opened for, and the sockets whose thread is in its main loop |
| `TManager` | `tmanager.c` | one action per handler and outcome: a handler that accepts, refuses or does not know the transaction is three actions; `restoreTransactions` takes one step per log entry, so a crash can come in between |
| `TManagerSpec` | the manager with its environment | the least the manager needs to know of the workers: a socket is opened for a transaction, votes at most once and only when asked. The properties of the manager are stated here |
| `AtomicCommit` | what the manager promises | the abstract specification: begin once, one outcome, no commit against a vote |
| `TManagerInv` | | the inductive invariant of the manager |
| `Rollback` | the loop of `update_rollback` | which entries it undoes and what the store is then |
| `TWorker` | `tworker.c`, `tx_worker_thread.c`, `objstore.c` | one action per command and per message of the transaction thread; start-up with its three cases; the end of the thread in two steps, `ClosesSocket` and `ThreadEnds` |
| `TxSystem` | manager, workers and network together | properties of the whole, fairness; `ManagerSpecification` says that the workers keep the discipline of `TManagerSpec` |
| `TxSystemInv` | | the inductive invariants of the system |
| `WorkerThreads` | the same two files and `txlog.c`, one worker | every access to shared state is a step: `txlog_append` takes five, `update_rollback` three per entry; the process may be killed at each; the manager is an environment that lets the worker in or turns it away, also with the outcome of a transaction that is over, decides once, and commits only with the vote of a worker it has let in |
| `WorkerThreadsInv` | | its inductive invariants |
| `VClock` | `common.c`, `message_init` | operators on arrays of pairs |
| `ClockSystem` | what manager and workers do with their clocks | one action per kind of command and datagram, as far as clocks are concerned, every exit of the code, the manager's NULL pointer, and a kill at any time; `past` is the history that a perfect vector clock would have, `unsaved` and `losses` say what the header of the log lacks and how often a process has died in such a state |
| `ClockSystemInv` | | its inductive invariant |
| `Client` | `command.c`, the `message_write` functions | the loop of `read_command` step by step, then one action for the command |
| `ClientInv` | | its inductive invariants |
| `TManagerProofs` | | type correctness, and facts about the log |
| `TManagerSafety` | | the invariant is inductive; the safety theorems |
| `TManagerRefines` | | the manager implements `AtomicCommit` |
| `RollbackProofs` | | lemmas: least and greatest elements, and what the loop of `update_rollback` yields when the log grows |
| `SystemProofs` | | the workers keep their discipline; the theorems about the whole system |
| `ThreadsProofs` | | the theorems about the two threads of a worker |
| `ClockProofs` | | what the operations on clocks compute; the theorems about clocks |
| `ClientProofs` | | the theorems about the client |
| `MCTManager`, `MCTxSystem` | | symmetry sets for TLC |
| `MCClockSystem`, `MCClient` | | bounds on times, the lines that are typed |

`TxSystem` extends `TManagerSpec` and `TWorker`, which share the variables of
`Network`. In it the actions of the environment of `TManagerSpec` are replaced by
those of the workers, and `mayVote` becomes, at each step of a worker, the set of
sockets of threads in their main loop. That every step is one that `TManagerSpec`
allows is the property `ManagerSpecification`, which is that specification itself.
`TManagerSpec` in turn implements `AtomicCommit` (property
`ImplementsAtomicCommit`), reading the outcome of a transaction from the log.
`Sends` and `Reopens` of `TManagerSpec` bound what its environment does; the
workers of `TxSystem` send every kind of request and open ports again, so there
both are given their largest value.

`TWorker` and `WorkerThreads` model the same code at two grains and share
`Rollback`. `TWorker` runs with the real manager and takes a handler as one step;
`WorkerThreads` opens the handlers up, which is affordable for one worker with the
manager reduced to what `TManagerSpec` promises.

Reading the state against the code: `txs` is `txmanager.transactions`, a slot
with tid 0 is an empty one; `tmlog` and `wlog` are log files and survive a crash;
`mode` says whether the process is down, in `restoreTransactions`, or in its
loop; `wstate[w]` is the struct of that name, and its field `thread` says where
the transaction thread is; `listen` is `tm_listen_port` in the log header.
`votes`, `bound` and `mark` are history: what has been sent, what a port has been
opened for, and the store at the last begin, commit or abort entry.

Decisions of the model worth knowing:

* COMMIT and ASK requests, and all datagrams to workers, are never used up: an
  element of the set stands for any number of copies. The code may send each of
  them any number of times.
* A datagram a loop ignores is a step that changes nothing and is not written.
* A crash inside a manager handler needs no action of its own: before the append
  it is a lost request, after it a crash with the replies lost. The two test
  settings are modelled as the code has them.
* `nodeCount` is an unsigned number modulo `NodeCountMod` (2^32 in the code), so
  an excess decrement wraps round.
* PREPARED for a transaction that is not in the table kills the manager: the code
  answers and then reads the state through a NULL pointer.
* `worker_state_t wstate` in the worker's `main` is not initialised, and neither
  is `last_entry` when the log is empty. The build of the Makefile (gcc, no
  optimisation) was observed to leave both zero. `StackFlag` and `StackDelay` are
  the values the unassigned fields may have: zero in most runs, any flags in
  `sys_stack`, a negative delay, with which the worker exits between logging
  PREPARED and voting, in `sys_live`.
* `QuietAfterVote` keeps updates and aborts away from a worker whose thread is in
  the uncertain loop, and from no other. Where it is FALSE, in `sys_live`,
  `sys_stack` and `vote_undone`, the client may send them at any time, as the code
  lets it.
* `WorkerThreads` has the two assumptions without which the code's guarantees do
  not hold as constants. `Serial`: a thread starts on a command or datagram only
  when the other is waiting for one. `PatientClient`: no update or abort until the
  manager has let the worker in, nor once it has voted (a refused worker keeps its
  updates, see the hazards). It guards commands only; the manager there may refuse
  a worker, or answer its JOINTX with the COMMIT or ABORT of a transaction that is
  no longer in the table. A write of one entry is one step, and so is a store of
  all its objects; `tx_count++` is a load and a store.
* `ClockSystem` has every way in which a process ends: CRASH, a command that is
  passed on through a NULL `wstate.server`, the exit of a worker with a negative
  delay in place of its vote, the manager's exits after an entry, its NULL pointer
  after it has answered a PREPARED (`tmanager.c:212-218`), and a kill at any time.
  A death with its header `Behind` (after a rollback that rewound it, or after a
  datagram that the manager did not log) loses times for good; `losses` counts
  these deaths. `NobodyAhead`, `HeardRemembered` and `TimeMovesOn` say what holds of
  a process until its first loss; `OwnFirst` and `RoomKept` hold after it as well.
  The manager writes only to workers that have written to it since it started
  (`known`).
* In `Client` a word takes one place of the line, so the text of a word plays no
  part but for names that begin with other names; between two words there is at
  least one blank. Lines fit the buffer and words fit an argument.
* The three update commands are one action; a store is a function from fields to
  values.
* `Tid`, `Port`, `MaxTransactions` and so on are CONSTANTS, with the code's values
  in comments.

## The runs

All with `-workers 2`; "states" are distinct states.

| Run | Instance | Checks | States |
|---|---|---|---|
| `manager` | 2 transactions, 2 sockets, 1 slot | `MTypeOK`, `IInv`, `DecisionStable`, `CommitUnanimous`, `CountBounded`, `NoOrphan`, `RepliesMatchLog`, `JoinsExisting`, `ImplementsAtomicCommit` | 98,591 |
| `sys_commit` | 2 workers, 2 ports, 1 transaction, crashes everywhere | `WorkerCommitsAgree`, `VoteHonoured`, `AllOrNothing`, `ManagerSpecification` | 572,968 |
| `sys_stack` | 1 worker, 1 port, updates, local aborts, any stack flags, the test settings that kill the manager | `ManagerSpecification` | 611,772 |
| `sys_live` | 1 worker, lossy network, crash between log entry and vote, updates with two values, local aborts | `SysTypeOK`, `DoubtEnds`, `RollbackRestores` | 329,966 |
| `threads` | 1 worker, 2 transactions, 2 values, log bound 5, killed anywhere | `ThreadsTypeOK`, `Recoverable`, `PromiseRemembered`, `AppendOnly` | 1,531,766 |
| `clocks` | manager and 1 worker, 2 pairs in a clock, each may have a loss | `ClockTypeOK`, `OwnFirst`, `RoomKept`, `NobodyAhead`, `HeardRemembered`, `TimeMovesOn` | 309,411 |
| `client` | 70 lines in any order and number | `ArgsInBounds`, `SendsWhatIsAsked` | 173,393 |
| `dup_votes` | 1 transaction, 2 sockets, duplicating network | `CommitUnanimous` fails | |
| `vote_undone` | 1 worker, the client aborts after the vote | `VoteHonoured` fails | |
| `blocking` | 2 workers, 2 ports, nothing lost | `NoBlocking` fails | |
| `append_race` | as `threads`, 1 transaction, threads not serial | `AppendOnly` fails | |
| `clock_causality` | manager and 2 workers, 3 pairs in a clock | `CausalKnowledge` fails | |

Why the bounds are enough for the questions asked. A wrong count needs a vote
that is missing and a vote or a join too many, so two participants show it. Reuse
of a slot needs two transactions and one slot. The manager crashes any number of
times, also in recovery. `NodeCountMod` is `MaxNodes + 2`, so a wrapped count
cannot be mistaken for a correct one. Larger tables, more sockets, sockets opened
again and the test settings are covered by the theorems, which state all nine
properties of this run for every instance. A rollback that goes wrong needs two
updates of one object, and a log bound of 3 (begin, update, update; `MaxWorkerLog`
bounds only the client's commands) has them. In `sys_stack` one port is enough: the
second transaction of the worker is the one that garbage puts on the port of the first.

In `threads` a log of 5 entries, again a bound on the client's commands only,
has a transaction that ends in either way and another after it with an update, or
one with several updates and a rollback that is interrupted and repeated. In
`clocks` the worker takes something in until it has had time 4, and starts may
follow: begin, receive or roll back, die with or without a loss, and start again; the
manager takes two datagrams. Each may have one loss (`MaxLosses`), so the times of a
process after a loss, and what a loss does to the other, are in the run too. A clock
has as many pairs as there are nodes, so it is full when everyone knows everyone. In
`client` `MaxArgs` is the code's 10, and there are lines with 10 and 11 words. The
number of lines is not bounded.

Deadlock is checked in every run but those of the clocks and the client, and never
occurs: in a manager run a socket may always retire, and in a system run a process may always start, ask or
crash. The clock runs stop when the times are used up, and `client` when the program
has ended.

What some of the properties mean in the code:

* `AllOrNothing`: atomicity from one worker to another. `WorkerCommitsAgree` and
  `VoteHonoured` each compare a worker with the manager's log; this one does not
  mention it, so it also fails when the manager is consistently wrong, as with a
  join that is not counted.
* `AppendOnly`: an entry that is counted is never changed, and `tx_count` grows by
  one and only over an entry that is in the file.
* `Recoverable`: write-ahead logging. At every instant, inside an update or a
  rollback too, undoing the log yields the store as it was before the open
  transaction, which is what main does with it after a crash.
* `PromiseRemembered`: from the PREPARED datagram to the logged outcome the last
  entry of the log is PREPARED, the one thing that makes main start in the
  uncertain state; and the outcome is the manager's.
* `OwnFirst`: `message_init` relies on the sender's own pair being the first.
* `RoomKept`: `vclock_increment` finds the process's own pair and `vclock_update` a
  pair for whoever it hears of, so the branches of `common.c` that print an error,
  and those that exit on it, are never taken.
* `TimeMovesOn`, `NobodyAhead`: until a process has a loss, no time is used for two
  events and no process falls behind what others know of it, although the saved
  clock may be older than the one in memory. Two restarts repeat the last time. A
  worker that starts and dies before it has taken anything in starts again at the
  same time, because the increment of a start is not saved, although an ASK may have
  carried it. And the manager's start repeats the time of its last entry: it does not
  increment a recovered clock (`tmanager.c:53-56`), whereas in the recorded run of just
  this case, a crash after the commit was logged, COMMIT is at 7 and "Started manager"
  at 8 (`ShiVizLog.dat2:15-18`). The code and that record disagree; `TimeMovesOn`
  allows the repetition and nothing else.
* `HeardRemembered`: late datagrams do not take a clock back, and a restart, again
  without a loss, does not forget what was heard.
* `SendsWhatIsAsked`: compared with a definition of what a line asks for by its
  words alone, with the longest name that fits.

### Fairness

`sys_live` assumes: a process that died is started again and gets through its
start-up (weak fairness of `ManagerRestarts`, `Starts`); the uncertain loop keeps
asking, because `server_recv` times out (`Asks`, weak); of an ASK, or an answer, that is sent
again and again some copy arrives (`AskAnswered`, `LearnsOutcome`, strong); and
crashes end some day. Nothing is assumed of the client or of the votes, which are
sent once. `blocking` adds that votes are delivered and that threads run, so that
what fails there is the protocol and not the network.

### What the failing runs show

* `dup_votes`: a PREPARED that the network delivers twice is counted twice, and
  the transaction commits while the other participant votes against it
  (`tmanager.c:232`; the comment at 236 says "Check if all workers are prepared").
* `vote_undone`: the abort command is obeyed by a worker that has voted PREPARED,
  whose transaction then commits (`tworker.c:302`). In `sys_commit` the client
  leaves a worker alone once it has voted (`QuietAfterVote`).
* `blocking`: a worker that crashes before its vote leaves the other worker, which
  has voted, in doubt for ever, although the README says that the manager handles it.
* `append_race`: the transaction thread appends PREPARED while the main thread is
  still appending BEGIN, and overwrites it (`txlog.c:118`).
* `clock_causality`: `message_init` copies the first pair ten times instead of ten
  pairs, so no worker ever learns of another one (`msg.c:19`), although the README
  says that the clocks keep track of other workers' transactions.

A loss, which the properties of `clocks` leave room for, looks like this: a worker
begins (2), updates (3), passes COMMIT on (4) and is told to abort (5); the rollback
logs ABORT with the clock of BEGIN (`tworker.c:371`), which puts 2 back into the
header. Killed there, the worker starts again at 3, behind the 4 it has sent, and uses
times a second time. TLC finds it when `NobodyAhead` is checked for the worker without
`losses[n] = 0` and `MaxTime` is 5 for it.

## The proofs

No theorem bounds the number of workers, sockets, transactions, slots, log entries,
crashes, restarts or events. What each needs beyond the assumptions on the
constants is a hypothesis of its statement:

| Hypothesis | Means | Without it |
|---|---|---|
| `WellBehaved` | the network does not duplicate datagrams, and 0 is not a transaction id | `dup_votes`; and `findTransaction(0)` finds an empty slot, so that a join of transaction 0 succeeds though nobody began it (`tmanager.c:390`) |
| `CleanStack` | the flags of `wstate` that nobody assigns are 0 | a thread may start as uncertain, and its port is opened for a second transaction; an ABORT command to a worker whose `is_active` is garbage logs ABORT after an update outside a transaction, over a store that is not the one of the last entry |
| `QuietAfterVote` | no update and no abort command for a worker that has voted | `vote_undone` |
| `Serial` | a worker's thread starts on a command or datagram only when the other is waiting for one | `append_race` |
| `PatientClient` | no update or abort for a worker until the manager has let it in, nor once it has voted | a worker that is refused keeps its updates, with nothing in the log to say so; one that has voted is told to undo them |
| `RoomForArgs` | every command wants fewer arguments (6 at most) than `cmd_args` has slots (10) | a line with more words than slots would be taken for a complete `begin` |

Each hypothesis holds in a run that passes, so none is empty.

### The manager

| Theorem | Hypotheses | Says |
|---|---|---|
| `TypeCorrect` | none | `MTypeOK`, and recovery reads only entries that are in the log |
| `Invariance` | `WellBehaved` | `IInv` holds in every state |
| `DecisionsFinal` | `WellBehaved` | `DecisionStable` |
| `CommitsUnanimous` | `WellBehaved` | `CommitUnanimous` |
| `CountNeverWraps` | `WellBehaved` | `CountBounded` |
| `NothingForgotten` | `WellBehaved` | `NoOrphan` |
| `JoinersKnown` | `WellBehaved` | `JoinsExisting` |
| `RepliesTruthful` | `WellBehaved` | `RepliesMatchLog` |
| `Refinement` | `WellBehaved` | the manager implements `AtomicCommit` |

The assumptions on constants are that there is a slot, a node, and that `nodeCount`
can hold more than `MAX_NODES`.

The argument. None of the safety properties is inductive: that a commit is
unanimous depends on the count, the count on who has voted and whose vote is
still under way, and that on what happened to the slot before. `IInv` in
`TManagerInv` says it all:

* *Sockets* (`SocketInv`): a socket votes once, for a transaction it is bound to;
  one that may still vote is bound to one transaction and has never voted.
* *Log* (`LogInv`): a begin is the first entry of its transaction; while the
  manager recovers, all it has added are aborts, and every begin before the loop
  index is decided. So when the inner loop of `restoreTransactions` finds no
  commit between the begin and the bound of the loop, there is none.
* *Table* (`TableInv`): distinct transactions in distinct slots, all of them
  begun; the state of a slot agrees with the log.
* *Votes* (`VoteInv`): whoever has voted is a participant. `Covered`: the number
  of participants whose vote in favour has not been counted is at most
  `nodeCount`. A commit leaves nobody uncounted, and an abort of a live slot has a
  vote behind it.

The key lemma is `CommitDecision`: when `nodeCount` goes from 1 to 0, the sender
of this vote was the only participant not yet counted; a socket that voted
against, or could still do so, would be another one. `StartVoteKeeps` is the
case of a vote that is opened a second time: a socket that could answer has not
been counted, so the transaction cannot be committed already. `TouchKeeps` and
`DeathKeeps` collect what the handlers have in common; `StepInv` puts the actions
together.

### The system

| Theorem | Hypotheses | Says |
|---|---|---|
| `SystemTypes` | none | `SysTypeOK` |
| `WorkersKeepDiscipline` | none | `ManagerSpecification`: the system implements `TManagerSpec` |
| `SystemImplementsAtomicCommit` | `WellBehaved` | and with it `AtomicCommit` |
| `WorkersAgree` | `WellBehaved`, `CleanStack` | `WorkerCommitsAgree` |
| `VotesHonoured` | `WellBehaved`, `CleanStack`, `QuietAfterVote` | `VoteHonoured` |
| `Atomicity` | `WellBehaved`, `CleanStack`, `QuietAfterVote` | `AllOrNothing` |
| `RollbacksRestore` | `CleanStack` | `RollbackRestores` |

The heart is `WorkersKeepDiscipline`: a step of a worker is a step that the
environment of `TManagerSpec` may take, or changes nothing the manager sees. From
there the theorems about the manager hold in the system as they stand. It rests on
`DisciplineInv` (`TxSystemInv`), which needs no hypothesis: a thread has a socket
until it closes it, the socket is the port in the header of the log, that port was
opened for the worker's transaction, no two workers have the same, and a log that
ends with PREPARED names a port opened for that transaction; the last is what a
recovery needs, which opens the port again and must not get to vote.

`WorkersAgree` then joins two facts: an outcome that a socket is sent is that of a
transaction its port was opened for (`RepliesTruthful`, a theorem about the
manager), and a port is opened for one transaction only (`PortInv`). For
`VotesHonoured` the invariant `PromiseInv` says that a promise without outcome is
the last entry of its log, and that a promise undone is one the manager aborted;
`DecisionsFinal` does the rest. `Atomicity` is what the theorems about manager and
workers are for: a worker's commit is one of the manager (`WorkersAgree`), against
which nobody voted (`CommitsUnanimous`) and which nobody who promised it undoes
(`VotesHonoured`). `StoreInv`, for `RollbacksRestore`, says that undoing
the log yields the marked store whenever a rollback may come; that it is kept is what
the lemmas in `RollbackProofs` are for.

### The threads of a worker

| Theorem | Hypotheses | Says |
|---|---|---|
| `ThreadTypes` | none | `ThreadsTypeOK` |
| `OneThreadAtATime` | `Serial` | `SerialInv`: the thread inside `txlog_append` has count, offset and next entry to itself |
| `LogOnlyGrows` | `Serial` | `AppendOnly` |
| `CrashLosesNothing` | `Serial`, `PatientClient` | `Recoverable` |
| `VoteIsLogged` | `Serial`, `PatientClient` | `PromiseRemembered` |

`ThreadsInv` in `WorkerThreadsInv` has a part for what each label means:
`InAppend`, what is in the file at each of the five steps of an append;
`InRollback`, that the oldest update behind the loop index is undone; `MainEntry` and
`TxEntry`, what each thread is appending and for whom; `LogContent`, which entry may
be the last one while each thread is where it is. Neither `Recoverable` nor
`PromiseRemembered` is inductive without them: between the entry and the update, or
in the middle of a rollback, the store is right only because of where the thread is.

### The clocks

| Theorem | Says |
|---|---|
| `ClockTypes` | `ClockTypeOK` |
| `OwnPairFirst` | `OwnFirst` |
| `RoomIsKept` | `RoomKept` |
| `NobodyIsAhead` | `NobodyAhead` |
| `HeardIsRemembered` | `HeardRemembered` |
| `TimeAlwaysMovesOn` | `TimeMovesOn` |
| `UpdateMerges` | `vclock_update` keeps the caller's own time and takes the later one for every other node, whatever pairs the two clocks have and in whatever order |

None has a hypothesis, and none leaves a death of a process out: what a loss costs
is in the statement of the properties. The assumptions on constants are that node ids
are positive and that a clock has room for all nodes. The first half of `ClockProofs` says what
`vclock_add`, `vclock_increment`, one round of `vclock_update` (`LearnIs`) and the whole
of it (`UpdateMerges`, which the datagrams of this program, with their one pair, use
only a part of) do to the time of every node. The rounds of its loop are a function
(`RoundsExist`, `RoundsAre`), and what holds after all of them is shown by the first
round after which it would not. `RoomForAll` is the pigeonhole argument that a node
not yet known finds a free pair. The second half shows that every handler, crash and restart is an event of one
node (`StepIsEvent`) and that an event keeps `ClocksInv` (`EventKeeps`). That invariant
ties clocks to the history `past`. `PresentIsPast` says where the last times of a
process without a loss are: in its memory while it runs; in the header when nothing
is unsaved; when only a start is, in what another start makes of the header; and when
the header is behind, the process is running. This is what makes a kill harmless in the
first two cases, and a loss in the third. `NothingAhead`, which losses do not touch:
nobody's clock, log or datagram has a later time of a node than the node has ever had,
neither has the older clock to which a rollback may take the log back; and a datagram
has exactly one pair, its sender's. `HeardViaManager` is needed because what a worker
hears of another has come through the manager, which therefore loses nothing when it
takes over only one pair of a datagram.

### The client

| Theorem | Hypotheses | Says |
|---|---|---|
| `ArgumentsInBounds` | none | `ArgsInBounds` |
| `ArgumentsAreWritten` | none | a handler reads only arguments that have been written |
| `AskedIsSent` | `RoomForArgs` | `SendsWhatIsAsked` |

For the first two the point of `SlotsInv` is that when the slots are full nothing
lies between `last` and `i`, so the copy after the loop, which does not check for
room, is not made.

`AskedIsSent` compares two readings of a line: the loop of `read_command`, with its
two indices and the slots that earlier lines have filled, and the words of the line
taken by themselves. `WordsInv` connects them at every step: the slots below `arg`
hold the words before `last`, and between `last` and `i` is nothing or one word
(`SplitInv`). When the loop ends, either every word is in its slot and the count is
the number of words, or there are at least as many words as slots (`CommandInv`);
`RoomForArgs` is for that second case, in which no command is complete. That the
first name that matches, the one the chain of comparisons in `main` takes, is the
longest one that matches is `MatchIs`; it depends on the order of the names there.
What `WordsUpTo` computes, for lines of any length, is shown by the first position
for which it would not hold (`WordsUpToIs`, `WordsGrow`, `ArgsAreWords`).

### How the invariants were found

TLC checked every inductive invariant on the instances of the runs before it was
proved. To repeat that, add `DisciplineInv`, `PortInv`, `PromiseInv` and `StoreInv` to the
invariants of `sys_commit.cfg`, `ClocksInv` to those of `clocks.cfg` (for two workers,
in place of `CausalKnowledge` in `clock_causality.cfg`) and `SlotsInv`, `ArgsWritten`
and `WordsInv` to those of `client.cfg`, or run `WorkerThreadsInv` with `threads.cfg`
and `ThreadsInv`.

## What is only model-checked, and what is not modelled

Every safety and action property of the passing runs is a theorem. Only TLC checks
`DoubtEnds`, because liveness under fairness is beyond the prover. The library's
induction theorems cannot be used with the installed provers either; where a proof
is an induction over data (the rounds of `vclock_update`, the places of a line, the
entries of a log), it takes the least counterexample instead. The
theorems about `TxSystem` are about `SysSpec`; the step that drops a datagram, which
only liveness needs, is not part of it, since a datagram may always go undelivered.

Not modelled: ShiViz output and the dump tools, which only print; byte order; the
file mapping, closing of files (which nothing calls) and failing system calls
(`bind` on the old port, a full disk); the copy of the clock in the object store,
which only the dump tool reads. The kernel is assumed not to give out the same
port twice. The race of a worker's two threads for their clock, and the one
between the flags and a PREPARE, are listed as hazards; the models have them only
as far as `Serial` excludes them.

## Plan

1. Done: the manager, the workers by handler and by statement, the whole system, the
   clocks, the client; proofs of every safety and action property that the runs check.
2. Left: the race of a worker's two threads for their clock (`tworker.c:114`), which
   `ClockSystem` leaves out because a handler is one step there.
