-------------------------- MODULE TManagerRefines --------------------------
(***************************************************************************)
(* The manager implements AtomicCommit: read the outcome of a transaction  *)
(* from the log, and every step is a step of atomic commitment or changes  *)
(* no outcome.                                                             *)
(***************************************************************************)
EXTENDS TManagerSafety

outcomes == [t \in Tid |-> OutcomeOf(t)]
vetoes   == {v.tid : v \in {v \in votes : v.type = "ABORT"}}

(* A step that logs nothing new and counts no vote against is a stutter.   *)
LEMMA Stutters ==
    ASSUME votes' = votes,
           \A ty \in {"LOG_BEGIN", "LOG_COMMIT", "LOG_ABORT"}, t \in Tid :
               Logged(tmlog', ty, t) <=> Logged(tmlog, ty, t)
    PROVE  UNCHANGED <<outcomes, vetoes>>
<1>1. \A t \in Tid : OutcomeOf(t)' = OutcomeOf(t)
  BY DEF OutcomeOf, Committed, Aborted, Begun
<1> QED
  BY <1>1 DEF outcomes, vetoes

(* A step that appends one entry changes the outcome of one transaction.   *)
LEMMA OneOutcome ==
    ASSUME NEW type, NEW id \in Tid,
           \A ty, t : Logged(tmlog', ty, t)
                        <=> Logged(tmlog, ty, t) \/ (ty = type /\ t = id)
    PROVE  outcomes' = [outcomes EXCEPT ![id] = OutcomeOf(id)']
<1>1. \A t \in Tid : t # id => OutcomeOf(t)' = OutcomeOf(t)
  BY DEF OutcomeOf, Committed, Aborted, Begun
<1> QED
  BY <1>1 DEF outcomes

(* An abort entry for a transaction that is begun and not committed.       *)
LEMMA LogsAbort ==
    ASSUME IInv, votes' = votes, NEW id \in Tid, Begun(id), ~Committed(id),
           tmlog' = txlog_append(tmlog, txentry_init("LOG_ABORT", id))
    PROVE  [AC!ACNext]_(AC!acVars)
<1>0. \A ty, t : Logged(tmlog', ty, t)
                   <=> Logged(tmlog, ty, t) \/ (ty = "LOG_ABORT" /\ t = id)
  BY LogChange DEF LogEntryType, IInv, MTypeOK, TMTypeOK
<1>1. CASE Aborted(id)
  <2>1. UNCHANGED <<outcomes, vetoes>>
    BY <1>0, <1>1, Stutters DEF Aborted
  <2> QED
    BY <2>1 DEF outcomes, vetoes, AC!acVars
<1>2. CASE ~Aborted(id)
  <2>1. OutcomeOf(id) = "open" /\ OutcomeOf(id)' = "aborted"
    BY <1>0, <1>2 DEF OutcomeOf, Committed, Aborted, Begun
  <2>2. outcomes' = [outcomes EXCEPT ![id] = "aborted"]
    BY <1>0, <2>1, OneOutcome
  <2>3. outcomes[id] = "open" /\ vetoes' = vetoes
    BY <2>1 DEF outcomes, vetoes
  <2>4. AC!Abort(id)
    BY <2>2, <2>3 DEF AC!Abort, AC!Decides, outcomes, vetoes
  <2> QED
    BY <2>4 DEF AC!ACNext
<1> QED
  BY <1>1, <1>2

LEMMA HandleRefines ==
    ASSUME WellBehaved, IInv, NEW m \in toManager, HandleMessage(m)
    PROVE  [AC!ACNext]_(AC!acVars)
<1>t. tmlog \in Seq(LogEntries) /\ MTypeOK
  BY DEF IInv, MTypeOK, TMTypeOK
<1>s. ASSUME votes' = votes, tmlog' = tmlog
      PROVE  [AC!ACNext]_(AC!acVars)
  <2>1. UNCHANGED <<outcomes, vetoes>>
    BY <1>s, Stutters
  <2> QED
    BY <2>1 DEF outcomes, vetoes, AC!acVars
<1>1. CASE Answers(m)
  BY <1>1, <1>s, <1>t, AnswersEffect
<1>2. CASE JoinAccepted(m) \/ CommitStartsVote(m) \/ PreparedCounted(m)
             \/ PreparedUnknown(m)
  BY <1>2, <1>s DEF JoinAccepted, CommitStartsVote, PreparedCounted, PreparedUnknown
<1>3. CASE BeginAccepted(m)
  <2>1. /\ m.tid \in Tid /\ votes' = votes
        /\ txlog_free_id(tmlog, m.tid)
        /\ tmlog' = txlog_append(tmlog, txentry_init("LOG_BEGIN", m.tid))
    BY <1>3, Received, TxRequests DEF BeginAccepted
  <2>2. \A ty, t : Logged(tmlog', ty, t)
                     <=> Logged(tmlog, ty, t) \/ (ty = "LOG_BEGIN" /\ t = m.tid)
    BY <1>t, <2>1, LogChange DEF LogEntryType
  <2>3. OutcomeOf(m.tid) = "none" /\ OutcomeOf(m.tid)' = "open"
    <3>1. m' = m
      OBVIOUS
    <3>2. \A ty : ~Logged(tmlog, ty, m.tid)
      BY <2>1, FreeId
    <3> QED
      BY <2>2, <3>1, <3>2 DEF OutcomeOf, Committed, Aborted, Begun
  <2>4. outcomes' = [outcomes EXCEPT ![m.tid] = "open"]
    BY <2>1, <2>2, <2>3, OneOutcome
  <2>5. outcomes[m.tid] = "none" /\ vetoes' = vetoes
    BY <2>1, <2>3 DEF outcomes, vetoes
  <2>6. AC!Begin(m.tid)
    BY <2>4, <2>5 DEF AC!Begin, AC!Decides, outcomes, vetoes
  <2> QED
    BY <2>1, <2>6 DEF AC!ACNext
<1>4. CASE AbortDecided(m)
  <2>1. ManagerReceives(m, "ABORT") /\ votes' = votes
        /\ tmlog' = txlog_append(tmlog, txentry_init("LOG_ABORT", m.tid))
    BY <1>4 DEF AbortDecided
  <2>2. m.tid \in Tid /\ m \in votes /\ m.type = "ABORT"
    BY <2>1, Received, TxRequests
  <2>3. Begun(m.tid) /\ ~Committed(m.tid)
    BY <2>2 DEF IInv, VoteInv, VotersTakePart, CommitUnanimous
  <2> QED
    BY <2>1, <2>2, <2>3, LogsAbort
<1>5. CASE CommitDecided(m)
  <2>1. /\ ManagerReceives(m, "PREPARED") /\ votes' = votes
        /\ tmlog' = txlog_append(tmlog, txentry_init("LOG_COMMIT", m.tid))
    BY <1>5 DEF CommitDecided
  <2>2. m.tid \in Tid /\ m \in votes
    BY <2>1, Received, TxRequests
  <2>3. PICK i \in Slot : txs[i].tid = m.tid /\ CountDown(txs[i].nodeCount) = 0
    BY <1>5 DEF CommitDecided, findTransaction
  <2>4. /\ Pending(txs[i], votes, toManager) = {m.from}
        /\ \A v \in votes : v.tid = m.tid => v.type # "ABORT"
        /\ ~Aborted(m.tid)
    BY <2>1, <2>3, CommitDecision
  <2>5. Begun(m.tid) /\ ~Committed(m.tid) /\ m.tid \notin vetoes
    BY <2>2, <2>3, <2>4 DEF IInv, VoteInv, VotersTakePart, CommitCounted, vetoes
  <2>6. \A ty, t : Logged(tmlog', ty, t)
                     <=> Logged(tmlog, ty, t) \/ (ty = "LOG_COMMIT" /\ t = m.tid)
    BY <1>t, <2>1, <2>2, LogChange DEF LogEntryType
  <2>7. OutcomeOf(m.tid) = "open" /\ OutcomeOf(m.tid)' = "committed"
    BY <2>4, <2>5, <2>6 DEF OutcomeOf, Committed, Aborted, Begun
  <2>8. outcomes' = [outcomes EXCEPT ![m.tid] = "committed"]
    BY <2>2, <2>6, <2>7, OneOutcome
  <2>9. outcomes[m.tid] = "open" /\ vetoes' = vetoes
    BY <2>1, <2>2, <2>7 DEF outcomes, vetoes
  <2>10. AC!Commit(m.tid)
    BY <2>5, <2>8, <2>9 DEF AC!Commit, AC!Decides, outcomes, vetoes
  <2> QED
    BY <2>2, <2>10 DEF AC!ACNext
<1> QED
  BY <1>1, <1>2, <1>3, <1>4, <1>5 DEF HandleMessage, Answers

LEMMA VoteRefines ==
    ASSUME IInv, NEW p \in Port, NEW t \in Tid, NEW type \in VoteType,
           SocketVotes(p, t, type)
    PROVE  [AC!ACNext]_(AC!acVars)
<1>1. /\ tmlog' = tmlog /\ votes' = votes \cup {Request(type, p, t)}
      /\ Begun(t) /\ ~Committed(t)
  BY DEF SocketVotes, tmVars, IInv, VoteInv, AskedTakePart
<1>2. outcomes' = outcomes
  BY <1>1 DEF outcomes, OutcomeOf, Begun, Committed, Aborted
<1>3. CASE type = "ABORT"
  <2>1. vetoes' = vetoes \cup {t}
    BY <1>1, <1>3, RequestFields DEF vetoes
  <2>2. outcomes[t] \in {"open", "aborted"}
    BY <1>1 DEF outcomes, OutcomeOf
  <2>3. AC!Veto(t)
    BY <1>2, <2>1, <2>2 DEF AC!Veto, outcomes, vetoes
  <2> QED
    BY <2>3 DEF AC!ACNext
<1>4. CASE type # "ABORT"
  <2>1. vetoes' = vetoes
    BY <1>1, <1>4, RequestFields DEF vetoes
  <2> QED
    BY <1>2, <2>1 DEF outcomes, vetoes, AC!acVars
<1> QED
  BY <1>3, <1>4

LEMMA StepRefines ==
    ASSUME WellBehaved, IInv, [MNext]_mVars
    PROVE  [AC!ACNext]_(AC!acVars)
<1>s. ASSUME votes' = votes, tmlog' = tmlog
      PROVE  [AC!ACNext]_(AC!acVars)
  <2>1. UNCHANGED <<outcomes, vetoes>>
    BY <1>s, Stutters
  <2> QED
    BY <2>1 DEF outcomes, vetoes, AC!acVars
<1>1. CASE TMNext
  <2>1. CASE ManagerStarts \/ RestoreEnds \/ ManagerCrashes
    BY <1>s, <2>1 DEF ManagerStarts, RestoreEnds, ManagerCrashes, netVars
  <2>2. CASE RestoreEntry
    <3>0. votes' = votes
      BY <2>2 DEF RestoreEntry, netVars
    <3>1. CASE Unfinished(tmlog, restore.next, restore.count)
      BY <2>2, <3>0, <3>1, RestoreAborts, LogsAbort DEF RestoreEntry
    <3>2. CASE ~Unfinished(tmlog, restore.next, restore.count)
      BY <1>s, <2>2, <3>0, <3>2 DEF RestoreEntry
    <3> QED
      BY <3>1, <3>2
  <2> QED
    BY <1>1, <2>1, <2>2, HandleRefines DEF TMNext
<1>2. CASE EnvNext
  <2>1. ASSUME NEW p \in Port,
               \/ \E t \in Tid, type \in {"BEGINTX", "JOINTX"} : SocketOpens(p, t, type)
               \/ \E t \in Tid, type \in ResentType : SocketRequests(p, t, type)
               \/ \E type \in TestRequest : SocketPassesOn(p, type)
               \/ SocketRetires(p)
        PROVE  [AC!ACNext]_(AC!acVars)
    <3>1. votes' = votes /\ tmlog' = tmlog
      BY <2>1 DEF SocketOpens, SocketRequests, SocketPassesOn, SocketRetires,
                  tmVars, netVars
    <3> QED
      BY <1>s, <3>1
  <2> QED
    BY <1>2, <2>1, VoteRefines DEF EnvNext
<1>3. CASE UNCHANGED mVars
  BY <1>s, <1>3 DEF mVars, netVars, tmVars
<1> QED
  BY <1>1, <1>2, <1>3 DEF MNext

(* The manager, with its crashes, recoveries and lost messages, implements *)
(* atomic commitment: each transaction is begun once, gets one outcome for *)
(* good, and is never committed against a vote.                            *)
THEOREM Refinement ==
    ASSUME WellBehaved PROVE MSpec => ImplementsAtomicCommit
<1>1. MInit => AC!ACInit
  <2> SUFFICES ASSUME MInit PROVE AC!ACInit
    OBVIOUS
  <2>1. votes = {} /\ tmlog = <<>>
    BY DEF MInit, TMInit, NetInit
  <2>2. \A t \in Tid : OutcomeOf(t) = "none"
    BY <2>1 DEF OutcomeOf, Committed, Aborted, Begun, Logged
  <2> QED
    BY <2>1, <2>2 DEF AC!ACInit
<1>2. IInv /\ [MNext]_mVars => [AC!ACNext]_(AC!acVars)
  BY StepRefines
<1> QED
  BY <1>1, <1>2, Invariance, PTL DEF MSpec, ImplementsAtomicCommit, AC!ACSpec
=============================================================================
