---------------------------- MODULE ThreadsProofs ----------------------------
(***************************************************************************)
(* Proofs about WorkerThreads, for any number of transactions, any values  *)
(* and a log of any length.                                                *)
(***************************************************************************)
EXTENDS WorkerThreadsInv, RollbackProofs

-----------------------------------------------------------------------------
(* Types.  They need no assumption on the threads or the client.           *)

TypesInv == ThreadsTypeOK /\ Labels

(* A step of one thread.                                                   *)
LEMMA LocalChange ==
    ASSUME TypesInv, NEW th \in Thread,
           NEW r \in LocalState, local' = [local EXCEPT ![th] = r]
    PROVE  /\ local' \in [Thread -> LocalState] /\ local'[th] = r
           /\ \A o \in Thread : o # th => local'[o] = local[o]
           /\ LabelOf(th, r) => Labels'
<1>1. /\ local' \in [Thread -> LocalState] /\ local'[th] = r
      /\ \A o \in Thread : o # th => local'[o] = local[o]
  BY DEF TypesInv, ThreadsTypeOK
<1> QED
  BY <1>1 DEF TypesInv, Labels

LEMMA EntriesTyped ==
    /\ ZeroEntry \in Entry
    /\ \A type \in LogEntryType, t \in Tid \cup {0} : EntryOf(type, t) \in Entry
    /\ \A t \in Tid \cup {0}, v \in Value :
          [type |-> "LOG_UPDATE", tid |-> t, old |-> v] \in Entry
  BY WorkerThreadsAssumption DEF ZeroEntry, Entry, EntryOf, LogEntryType

LEMMA AtTyped ==
    ASSUME NEW l \in MainPC \cup TxPC
    PROVE  At(l) \in LocalState /\ At(l).pc = l /\ At(l).ret = "idle"
  BY EntriesTyped, WorkerThreadsAssumption DEF At, LocalState, MainPC

LEMMA StartLocal ==
    /\ NotRunning \in [Thread -> LocalState]
    /\ NotRunning["main"] = At("down") /\ NotRunning["tx"] = At("none")
  BY AtTyped DEF NotRunning, Thread, MainPC, TxPC

(* A step to another label of the same thread, and the calls.              *)
LEMMA GoesTo ==
    ASSUME TypesInv, NEW th \in Thread, NEW from, NEW to, Goes(th, from, to),
           IF th = "main" THEN to \in MainPC ELSE to \in TxPC
    PROVE  local' \in [Thread -> LocalState] /\ Labels'
<1> DEFINE r == [local[th] EXCEPT !.pc = to]
<1>0. local[th] \in LocalState /\ LabelOf(th, local[th])
  BY DEF TypesInv, ThreadsTypeOK, Labels
<1>1. local' = [local EXCEPT ![th] = r]
  BY DEF Goes
<1>2. r \in LocalState /\ r.pc = to /\ r.ret = local[th].ret
  BY <1>0 DEF LocalState
<1>3. LabelOf(th, r)
  BY <1>0, <1>2 DEF LabelOf, AppendPC, RollbackPC, MainPC, TxPC
<1> HIDE DEF r
<1> QED
  BY <1>1, <1>2, <1>3, LocalChange

LEMMA Calls ==
    ASSUME TypesInv, NEW th \in Thread, NEW e \in Entry, NEW ret,
           IF th = "main" THEN ret \in {"idle", "set", "flags"}
                          ELSE ret \in {"vote_prepared", "conclude"},
           \/ Appends(th, e, ret)
           \/ RollsBack(th, ret) /\ (th = "tx" => ret = "conclude")
    PROVE  local' \in [Thread -> LocalState] /\ Labels'
<1>0. /\ local[th] \in LocalState /\ count \in Nat
      /\ ret \in MainPC \cup TxPC
  BY DEF TypesInv, ThreadsTypeOK, MainPC, TxPC
<1>1. CASE Appends(th, e, ret)
  <2> DEFINE r == [local[th] EXCEPT !.pc = "a_count", !.entry = e, !.ret = ret]
  <2>1. local' = [local EXCEPT ![th] = r]
    BY <1>1 DEF Appends
  <2>2. r \in LocalState /\ r.pc = "a_count" /\ r.ret = ret
    BY <1>0 DEF LocalState, AppendPC
  <2>3. LabelOf(th, r)
    BY <2>2 DEF LabelOf, AppendPC, RollbackPC
  <2> HIDE DEF r
  <2> QED
    BY <2>1, <2>2, <2>3, LocalChange
<1>2. CASE RollsBack(th, ret) /\ (th = "tx" => ret = "conclude")
  <2> DEFINE r == [local[th] EXCEPT !.pc = "r_seek", !.pos = count,
                                    !.entry = ZeroEntry, !.ret = ret]
  <2>1. local' = [local EXCEPT ![th] = r]
    BY <1>2 DEF RollsBack
  <2>2. r \in LocalState /\ r.pc = "r_seek" /\ r.ret = ret
    BY <1>0, EntriesTyped DEF LocalState, RollbackPC
  <2>3. LabelOf(th, r)
    BY <1>2, <2>2 DEF LabelOf, AppendPC, RollbackPC, Thread
  <2> HIDE DEF r
  <2> QED
    BY <2>1, <2>2, <2>3, LocalChange
<1> QED
  BY <1>1, <1>2

(* The write of txlog_append.                                              *)
LEMMA WriteIs ==
    ASSUME TypesInv, NEW th \in Thread, AppendWrites(th)
    PROVE  /\ file' \in Seq(Entry)
           /\ Len(file') >= Len(file) /\ Len(file') >= offset + 1
           /\ file'[offset + 1] = local[th].entry
           /\ \A i \in 1..Len(file) : i # offset + 1 => file'[i] = file[i]
<1> DEFINE n == Max({Len(file), offset + 1})
<1>0. /\ file \in Seq(Entry) /\ Len(file) \in Nat /\ offset \in Nat
      /\ local[th].entry \in Entry
  BY DEF TypesInv, ThreadsTypeOK, LocalState
<1>1. n \in Nat /\ Len(file) <= n /\ offset + 1 <= n
  <2> DEFINE S == {Len(file), offset + 1}
  <2>1. /\ S \subseteq Nat /\ S # {}
        /\ Len(file) + offset + 1 \in Nat
        /\ \A y \in S : y <= Len(file) + offset + 1
    BY <1>0
  <2>2. Max(S) \in S /\ \A y \in S : y <= Max(S)
    BY <2>1, MaxIs
  <2> QED
    BY <1>0, <2>2
<1>2. file' = [i \in 1..n |-> IF i = offset + 1 THEN local[th].entry
                              ELSE IF i <= Len(file) THEN file[i] ELSE ZeroEntry]
  BY DEF AppendWrites
<1> HIDE DEF n
<1>3. \A i \in 1..n : (IF i = offset + 1 THEN local[th].entry
                       ELSE IF i <= Len(file) THEN file[i] ELSE ZeroEntry) \in Entry
  BY <1>0, <1>1, EntriesTyped
<1>4. file' \in Seq(Entry) /\ Len(file') = n
  BY <1>1, <1>2, <1>3
<1> QED
  BY <1>0, <1>1, <1>2, <1>4

LEMMA LogStepTypes ==
    ASSUME TypesInv, NEW th \in Thread, LogStep(th)
    PROVE  TypesInv'
<1> DEFINE l == local[th]
<1>0. /\ l \in LocalState /\ LabelOf(th, l)
      /\ file \in Seq(Entry) /\ count \in Nat /\ offset \in Nat /\ store \in Value
      /\ mark \in Value
  BY DEF TypesInv, ThreadsTypeOK, Labels
<1>f. /\ l.pc \in AppendPC \cup RollbackPC \cup MainPC \cup TxPC
      /\ l.ret \in MainPC \cup TxPC /\ l.entry \in Entry
      /\ l.pos \in Nat /\ l.value \in Value
  BY <1>0 DEF LocalState
<1>1. UNCHANGED <<wstate, ballot>>
  BY DEF LogStep, AppendReadsCount, AppendSeeks, AppendWrites, AppendLoadsCount,
         AppendStoresCount, RollbackSeeks, RollbackReads, RollbackApplies
<1>2. count' \in Nat /\ offset' \in Nat /\ store' \in Value /\ mark' \in Value
  <2>1. l.entry.old \in Value
    BY <1>f DEF Entry
  <2> QED
    BY <1>0, <1>f, <2>1
       DEF LogStep, AppendReadsCount, AppendSeeks, AppendWrites, AppendLoadsCount,
           AppendStoresCount, RollbackSeeks, RollbackReads, RollbackApplies, logVars
<1>3. file' \in Seq(Entry)
  <2>1. CASE AppendWrites(th)
    BY <2>1, WriteIs
  <2>2. CASE ~AppendWrites(th)
    BY <1>0, <2>2
       DEF LogStep, AppendReadsCount, AppendSeeks, AppendLoadsCount,
           AppendStoresCount, RollbackSeeks, RollbackReads, RollbackApplies, logVars
  <2> QED
    BY <2>1, <2>2
<1>4. local' \in [Thread -> LocalState] /\ Labels'
  <2>r. ASSUME NEW r \in LocalState, local' = [local EXCEPT ![th] = r],
               LabelOf(th, r)
        PROVE  local' \in [Thread -> LocalState] /\ Labels'
    BY <2>r, LocalChange
  <2>1. CASE AppendReadsCount(th) \/ AppendLoadsCount(th)
    <3>1. PICK q \in {"a_seek", "a_store"} : l.pc \in {"a_count", "a_load"} /\
            local' = [local EXCEPT ![th] = [l EXCEPT !.pc = q, !.pos = count]]
      BY <2>1 DEF AppendReadsCount, AppendLoadsCount
    <3> DEFINE r == [l EXCEPT !.pc = q, !.pos = count]
    <3>2. r \in LocalState /\ r.pc = q /\ r.ret = l.ret
      BY <1>0 DEF LocalState, AppendPC
    <3>3. LabelOf(th, r)
      BY <1>0, <3>1, <3>2 DEF LabelOf, AppendPC, RollbackPC
    <3> HIDE DEF r
    <3> QED
      BY <2>r, <3>1, <3>2, <3>3 DEF r
  <2>2. CASE AppendSeeks(th) \/ AppendWrites(th)
    <3>1. PICK q \in {"a_write", "a_load"} : l.pc \in {"a_seek", "a_write"} /\
            local' = [local EXCEPT ![th] = [l EXCEPT !.pc = q]]
      BY <2>2 DEF AppendSeeks, AppendWrites, Goes
    <3> DEFINE r == [l EXCEPT !.pc = q]
    <3>2. r \in LocalState /\ r.pc = q /\ r.ret = l.ret
      BY <1>0 DEF LocalState, AppendPC
    <3>3. LabelOf(th, r)
      BY <1>0, <3>1, <3>2 DEF LabelOf, AppendPC, RollbackPC
    <3> HIDE DEF r
    <3> QED
      BY <2>r, <3>1, <3>2, <3>3 DEF r
  <2>3. CASE AppendStoresCount(th) \/ (RollbackSeeks(th) /\ l.pos = 0)
    <3>1. PICK from \in {"a_store", "r_seek"} : Goes(th, from, l.ret)
      BY <1>f, <2>3 DEF AppendStoresCount, RollbackSeeks
    <3>2. IF th = "main" THEN l.ret \in MainPC ELSE l.ret \in TxPC
      BY <1>0, <3>1 DEF Goes, LabelOf, MainPC, TxPC, AppendPC, RollbackPC
    <3> QED
      BY <3>1, <3>2, GoesTo
  <2>4. CASE RollbackSeeks(th) /\ l.pos > 0
    <3> DEFINE r == [l EXCEPT !.pc = "r_read"]
    <3>1. local' = [local EXCEPT ![th] = r] /\ l.pc = "r_seek"
      BY <2>4 DEF RollbackSeeks, Goes
    <3>2. r \in LocalState /\ r.pc = "r_read" /\ r.ret = l.ret /\ r.pos = l.pos
      BY <1>0 DEF LocalState, RollbackPC
    <3>3. LabelOf(th, r)
      BY <1>0, <2>4, <3>1, <3>2 DEF LabelOf, AppendPC, RollbackPC
    <3> HIDE DEF r
    <3> QED
      BY <2>r, <3>1, <3>2, <3>3
  <2>5. CASE RollbackReads(th)
    <3> DEFINE e == IF offset < Len(file) THEN file[offset + 1] ELSE l.entry
               r == [l EXCEPT !.pc = "r_apply", !.entry = e]
    <3>1. local' = [local EXCEPT ![th] = r] /\ l.pc = "r_read"
      BY <2>5 DEF RollbackReads
    <3>2. e \in Entry
      BY <1>0, <1>f
    <3> HIDE DEF e
    <3>3. r \in LocalState /\ r.pc = "r_apply" /\ r.ret = l.ret /\ r.pos = l.pos
      BY <1>0, <3>2 DEF LocalState, RollbackPC
    <3>4. LabelOf(th, r)
      BY <1>0, <3>1, <3>3 DEF LabelOf, AppendPC, RollbackPC
    <3> HIDE DEF r
    <3> QED
      BY <2>r, <3>1, <3>3, <3>4
  <2>6. CASE RollbackApplies(th)
    <3>0. l.pc = "r_apply" /\ l.pos > 0
      BY <1>0, <2>6 DEF RollbackApplies, LabelOf
    <3>1. CASE l.entry.type \in MarkType
      <4>1. Appends(th, EntryOf("LOG_ABORT", l.entry.tid), l.ret)
        BY <2>6, <3>1 DEF RollbackApplies
      <4>2. EntryOf("LOG_ABORT", l.entry.tid) \in Entry
        <5>1. l.entry.tid \in Tid \cup {0}
          BY <1>f DEF Entry
        <5> QED
          BY <5>1, EntriesTyped DEF LogEntryType
      <4>3. IF th = "main" THEN l.ret \in {"idle", "set", "flags"}
                           ELSE l.ret \in {"vote_prepared", "conclude"}
        BY <1>0, <3>0 DEF LabelOf, RollbackPC
      <4> QED
        BY <4>1, <4>2, <4>3, Calls
    <3>2. CASE l.entry.type \notin MarkType
      <4> DEFINE r == [l EXCEPT !.pc = "r_seek", !.pos = l.pos - 1]
      <4>1. local' = [local EXCEPT ![th] = r]
        BY <2>6, <3>2 DEF RollbackApplies
      <4>2. r \in LocalState /\ r.pc = "r_seek" /\ r.ret = l.ret
        <5>1. l.pos - 1 \in Nat
          BY <1>f, <3>0
        <5> QED
          BY <1>0, <5>1 DEF LocalState, RollbackPC
      <4>3. LabelOf(th, r)
        BY <1>0, <3>0, <4>2 DEF LabelOf, AppendPC, RollbackPC
      <4> HIDE DEF r
      <4> QED
        BY <2>r, <4>1, <4>2, <4>3
    <3> QED
      BY <3>1, <3>2
  <2> QED
    BY <1>f, <2>1, <2>2, <2>3, <2>4, <2>5, <2>6 DEF LogStep
<1> QED
  BY <1>1, <1>2, <1>3, <1>4 DEF TypesInv, ThreadsTypeOK

(* Every other step of a thread goes to a label of its own, or calls.      *)
LEMMA StartTypes ==
    ASSUME TypesInv,
           StartsUncertain \/ StartsWithRollback \/ StartsClean \/ ProcessCrashes
    PROVE  TypesInv'
<1>0. /\ count \in Nat /\ file \in Seq(Entry)
      /\ "main" \in Thread /\ "tx" \in Thread
  BY DEF TypesInv, ThreadsTypeOK, Thread
<1>1. /\ UNCHANGED <<file, count, store, ballot, mark>>
      /\ offset' \in Nat
  BY DEF StartsUncertain, StartsWithRollback, StartsClean, ProcessCrashes, logVars,
         TypesInv, ThreadsTypeOK
<1>2. /\ wstate' \in [is_active : BOOLEAN, uncertain : BOOLEAN,
                      do_commit : BOOLEAN, do_abort : BOOLEAN,
                      transaction : Tid \cup {0}]
      /\ local' \in [Thread -> LocalState] /\ Labels'
  <2>1. CASE StartsUncertain
    <3>1. count > 0
      BY <1>0, <2>1 DEF StartsUncertain, LastType
    <3>2. Log[count] \in Entry
      BY <1>0, <3>1, EntriesTyped DEF Log
    <3>3. Log[count].tid \in Tid \cup {0}
      BY <3>2 DEF Entry
    <3>4. /\ local' \in [Thread -> LocalState]
          /\ local'["main"] = At("idle") /\ local'["tx"] = At("uncertain")
      BY <2>1, AtTyped DEF StartsUncertain, Thread, MainPC, TxPC
    <3>5. LabelOf("main", At("idle")) /\ LabelOf("tx", At("uncertain"))
      BY AtTyped DEF LabelOf, MainPC, TxPC, AppendPC, RollbackPC
    <3> QED
      BY <2>1, <3>3, <3>4, <3>5 DEF StartsUncertain, Labels, Thread
  <2>2. CASE StartsWithRollback
    <3>1. RollsBack("main", "idle") /\ UNCHANGED wstate
      BY <2>2 DEF StartsWithRollback
    <3> QED
      BY <1>0, <3>1, Calls, EntriesTyped DEF TypesInv, ThreadsTypeOK
  <2>3. CASE StartsClean
    <3>1. Goes("main", "down", "idle") /\ UNCHANGED wstate
      BY <2>3 DEF StartsClean
    <3>2. local' \in [Thread -> LocalState] /\ Labels'
      BY <1>0, <3>1, GoesTo DEF MainPC
    <3> QED
      BY <3>1, <3>2 DEF TypesInv, ThreadsTypeOK
  <2>4. CASE ProcessCrashes
    <3>1. LabelOf("main", At("down")) /\ LabelOf("tx", At("none"))
      BY AtTyped DEF LabelOf, MainPC, TxPC, AppendPC, RollbackPC
    <3> QED
      BY <2>4, <3>1, StartLocal DEF ProcessCrashes, Labels, Thread, NoState
  <2> QED
    BY <2>1, <2>2, <2>3, <2>4
<1> QED
  BY <1>1, <1>2 DEF TypesInv, ThreadsTypeOK

LEMMA MainTypes ==
    ASSUME TypesInv,
           \/ SendsRequest \/ SetsStore \/ AbortsLocally \/ WillVoteAbort \/ SetsFlags
           \/ \E t \in Tid : Enters(t)
           \/ \E v \in Value : Updates(v) \/ UpdatesOutside(v)
    PROVE  TypesInv'
<1>0. /\ count \in Nat /\ store \in Value /\ wstate.transaction \in Tid \cup {0}
      /\ "main" \in Thread /\ "tx" \in Thread
      /\ local["main"] \in LocalState /\ LabelOf("main", local["main"])
      /\ local["tx"] \in LocalState /\ LabelOf("tx", local["tx"])
  BY DEF TypesInv, ThreadsTypeOK, Thread, Labels
<1>1. UNCHANGED logVars
  BY DEF SendsRequest, SetsStore, AbortsLocally, WillVoteAbort, SetsFlags, Enters,
         Updates, UpdatesOutside
<1>2. store' \in Value /\ mark' \in Value
  <2>1. local["main"].value \in Value
    BY <1>0 DEF LocalState
  <2> QED
    BY <2>1
       DEF SendsRequest, SetsStore, AbortsLocally, WillVoteAbort, SetsFlags, Enters,
           Updates, UpdatesOutside, TypesInv, ThreadsTypeOK
<1>3. wstate' \in [is_active : BOOLEAN, uncertain : BOOLEAN,
                   do_commit : BOOLEAN, do_abort : BOOLEAN,
                   transaction : Tid \cup {0}]
  BY DEF SendsRequest, SetsStore, AbortsLocally, WillVoteAbort, SetsFlags, Enters,
         Updates, UpdatesOutside, TypesInv, ThreadsTypeOK
<1>4. ballot' \in [Tid -> Ballot]
  <2>1. CASE SendsRequest
    <3>1. ballot' = [ballot EXCEPT ![wstate.transaction].joined = TRUE]
      BY <2>1 DEF SendsRequest
    <3> QED
      BY <3>1 DEF TypesInv, ThreadsTypeOK, Ballot
  <2> QED
    BY <2>1
       DEF SetsStore, AbortsLocally, WillVoteAbort, SetsFlags, Enters,
           Updates, UpdatesOutside, TypesInv, ThreadsTypeOK
<1>5. local' \in [Thread -> LocalState] /\ Labels'
  <2>1. CASE SendsRequest
    <3>1. Appends("main", EntryOf("LOG_BEGIN", wstate.transaction), "idle")
      BY <2>1 DEF SendsRequest
    <3>2. EntryOf("LOG_BEGIN", wstate.transaction) \in Entry
      BY <1>0, EntriesTyped DEF LogEntryType
    <3> QED
      BY <1>0, <3>1, <3>2, Calls
  <2>2. CASE SetsStore \/ WillVoteAbort \/ SetsFlags
    <3>1. PICK from \in {"set", "idle", "flags"}, to \in {"idle", "flags"} :
             Goes("main", from, to)
      BY <2>2 DEF SetsStore, WillVoteAbort, SetsFlags
    <3> QED
      BY <1>0, <3>1, GoesTo DEF MainPC
  <2>3. CASE AbortsLocally
    <3>1. RollsBack("main", "flags")
      BY <2>3 DEF AbortsLocally
    <3> QED
      BY <1>0, <3>1, Calls, EntriesTyped
  <2>4. ASSUME NEW t \in Tid, Enters(t)
        PROVE  local' \in [Thread -> LocalState] /\ Labels'
    <3> DEFINE r == [local["main"] EXCEPT !.pc = "send"]
               q == At(IF wstate.uncertain THEN "uncertain" ELSE "recv")
    <3>1. /\ local' = [local EXCEPT !["main"] = r, !["tx"] = q]
          /\ local["main"].pc = "idle"
      BY <2>4 DEF Enters, TakesCommand
    <3>2. r \in LocalState /\ r.pc = "send" /\ r.ret = local["main"].ret
      BY <1>0 DEF LocalState, MainPC
    <3>3. q \in LocalState /\ q.pc \in {"uncertain", "recv"}
      BY AtTyped DEF TxPC
    <3>4. LabelOf("main", r)
      BY <1>0, <3>2 DEF LabelOf, AppendPC, RollbackPC, MainPC
    <3>5. LabelOf("tx", q)
      BY <3>3 DEF LabelOf, AppendPC, RollbackPC, TxPC
    <3> HIDE DEF r, q
    <3>6. /\ local' \in [Thread -> LocalState]
          /\ local'["main"] = r /\ local'["tx"] = q
      BY <3>1, <3>2, <3>3 DEF TypesInv, ThreadsTypeOK, Thread
    <3> QED
      BY <3>4, <3>5, <3>6 DEF Labels, Thread
  <2>5. ASSUME NEW v \in Value, Updates(v)
        PROVE  local' \in [Thread -> LocalState] /\ Labels'
    <3> DEFINE e == [type |-> "LOG_UPDATE", tid |-> wstate.transaction,
                     old |-> store]
               r == [local["main"] EXCEPT !.pc = "a_count", !.ret = "set",
                                          !.value = v, !.entry = e]
    <3>1. local' = [local EXCEPT !["main"] = r]
      BY <2>5 DEF Updates
    <3>2. e \in Entry
      BY <1>0, EntriesTyped
    <3> HIDE DEF e
    <3>3. r \in LocalState /\ r.pc = "a_count" /\ r.ret = "set"
      BY <1>0, <3>2 DEF LocalState, AppendPC, MainPC
    <3>4. LabelOf("main", r)
      BY <3>3 DEF LabelOf, AppendPC, RollbackPC, MainPC
    <3> HIDE DEF r
    <3> QED
      BY <1>0, <3>1, <3>3, <3>4, LocalChange
  <2>6. ASSUME NEW v \in Value, UpdatesOutside(v)
        PROVE  local' \in [Thread -> LocalState] /\ Labels'
    BY <2>6 DEF UpdatesOutside, TypesInv, ThreadsTypeOK, Labels
  <2> QED
    BY <2>1, <2>2, <2>3, <2>4, <2>5, <2>6
<1> QED
  BY <1>1, <1>2, <1>3, <1>4, <1>5 DEF TypesInv, ThreadsTypeOK, logVars

LEMMA VoteIs ==
    ASSUME NEW t, SendsVote(t)
    PROVE  \/ /\ Goes("tx", "vote_prepared", "voted")
              /\ ballot' = [ballot EXCEPT ![t].vote = "PREPARED"]
           \/ /\ Goes("tx", "vote_abort", "voted")
              /\ ballot' = [ballot EXCEPT ![t].vote = "ABORT"]
<1>1. PICK v \in {<<"vote_prepared", "PREPARED">>, <<"vote_abort", "ABORT">>} :
        Goes("tx", v[1], "voted") /\ ballot' = [ballot EXCEPT ![t].vote = v[2]]
  BY Zenon DEF SendsVote
<1>2. CASE v = <<"vote_prepared", "PREPARED">>
  <2>1. v[1] = "vote_prepared" /\ v[2] = "PREPARED"
    BY <1>2
  <2> QED
    BY <1>1, <2>1, Zenon
<1>3. CASE v = <<"vote_abort", "ABORT">>
  <2>1. v[1] = "vote_abort" /\ v[2] = "ABORT"
    BY <1>3
  <2> QED
    BY <1>1, <2>1, Zenon
<1> QED
  BY <1>2, <1>3

(* The manager changes the ballot only: it admits or it answers.           *)
LEMMA ManagerStepIs ==
    ASSUME NEW t, ManagerStep(t)
    PROVE  /\ UNCHANGED <<file, count, offset, store, mark, wstate, local>>
           /\ ballot[t].joined \/ ballot[t].admitted
           /\ \/ ballot' = [ballot EXCEPT ![t].admitted = TRUE]
                 /\ ballot[t].outcome = "none"
              \/ \E o \in {"COMMIT", "ABORT", "TX_ERROR"} :
                    /\ ballot' = [ballot EXCEPT ![t].outcome = o]
                    /\ ballot[t].outcome = "none"
                    /\ o = "TX_ERROR" => ~ballot[t].admitted
  BY DEF ManagerStep, ManagerAdmits, ManagerTurnsAway, ManagerDecides, logVars

LEMMA TxTypes ==
    ASSUME TypesInv,
           \/ \E t \in {wstate.transaction} \ {0} :
                \/ PreparesToCommit(t) \/ PreparesToAbort(t) \/ SendsVote(t)
                \/ RefusedByManager(t) \/ LearnsCommit(t) \/ LearnsAbort(t)
           \/ BecomesUncertain \/ Concludes \/ ThreadEnds
           \/ \E t \in Tid : ManagerStep(t)
    PROVE  TypesInv'
<1>0. /\ "tx" \in Thread
      /\ \A t \in {wstate.transaction} \ {0} : t \in Tid
  BY DEF TypesInv, ThreadsTypeOK, Thread
<1>1. UNCHANGED <<file, count, offset, store, mark>>
  BY DEF PreparesToCommit, PreparesToAbort, SendsVote, RefusedByManager,
         LearnsCommit, LearnsAbort, BecomesUncertain, Concludes, ThreadEnds,
         ManagerStep, ManagerAdmits, ManagerTurnsAway, ManagerDecides, logVars
<1>2. wstate' \in [is_active : BOOLEAN, uncertain : BOOLEAN,
                   do_commit : BOOLEAN, do_abort : BOOLEAN,
                   transaction : Tid \cup {0}]
  BY DEF PreparesToCommit, PreparesToAbort, SendsVote, RefusedByManager,
         LearnsCommit, LearnsAbort, BecomesUncertain, Concludes, ThreadEnds,
         ManagerStep, ManagerAdmits, ManagerTurnsAway, ManagerDecides,
         TypesInv, ThreadsTypeOK
<1>3. ballot' \in [Tid -> Ballot]
  <2>1. ASSUME NEW t \in Tid, SendsVote(t)
        PROVE  ballot' \in [Tid -> Ballot]
    <3>1. \/ ballot' = [ballot EXCEPT ![t].vote = "PREPARED"]
          \/ ballot' = [ballot EXCEPT ![t].vote = "ABORT"]
      BY <2>1, VoteIs
    <3>2. CASE ballot' = [ballot EXCEPT ![t].vote = "PREPARED"]
      BY <3>2 DEF TypesInv, ThreadsTypeOK, Ballot
    <3>3. CASE ballot' = [ballot EXCEPT ![t].vote = "ABORT"]
      BY <3>3 DEF TypesInv, ThreadsTypeOK, Ballot
    <3> QED
      BY <3>1, <3>2, <3>3
  <2>2. ASSUME NEW t \in Tid, ManagerStep(t)
        PROVE  ballot' \in [Tid -> Ballot]
    <3>1. CASE ballot' = [ballot EXCEPT ![t].admitted = TRUE]
      BY <3>1 DEF TypesInv, ThreadsTypeOK, Ballot
    <3>2. ASSUME NEW o \in {"COMMIT", "ABORT", "TX_ERROR"},
                 ballot' = [ballot EXCEPT ![t].outcome = o]
          PROVE  ballot' \in [Tid -> Ballot]
      BY <3>2 DEF TypesInv, ThreadsTypeOK, Ballot
    <3> QED
      BY <2>2, <3>1, <3>2, ManagerStepIs
  <2>3. CASE UNCHANGED ballot
    BY <2>3 DEF TypesInv, ThreadsTypeOK
  <2> QED
    BY <1>0, <2>1, <2>2, <2>3
       DEF PreparesToCommit, PreparesToAbort, RefusedByManager,
           LearnsCommit, LearnsAbort, BecomesUncertain, Concludes, ThreadEnds
<1>4. local' \in [Thread -> LocalState] /\ Labels'
  <2>1. ASSUME NEW from, NEW to \in TxPC, Goes("tx", from, to)
        PROVE  local' \in [Thread -> LocalState] /\ Labels'
    BY <1>0, <2>1, GoesTo
  <2>2. ASSUME NEW t \in Tid,
               \/ PreparesToAbort(t) \/ SendsVote(t) \/ RefusedByManager(t)
               \/ BecomesUncertain \/ Concludes \/ ThreadEnds
        PROVE  \E from, to : to \in TxPC /\ Goes("tx", from, to)
    BY <2>2 DEF PreparesToAbort, SendsVote, RefusedByManager, BecomesUncertain,
                Concludes, ThreadEnds, TxPC
  <2>3. ASSUME NEW t \in Tid, PreparesToCommit(t) \/ LearnsCommit(t)
        PROVE  local' \in [Thread -> LocalState] /\ Labels'
    <3>1. PICK type \in LogEntryType, ret \in {"vote_prepared", "conclude"} :
             Appends("tx", EntryOf(type, t), ret)
      BY <2>3 DEF PreparesToCommit, LearnsCommit, LogEntryType
    <3>2. EntryOf(type, t) \in Entry
      BY EntriesTyped
    <3> QED
      BY <1>0, <3>1, <3>2, Calls
  <2>4. ASSUME NEW t \in Tid, LearnsAbort(t)
        PROVE  local' \in [Thread -> LocalState] /\ Labels'
    <3>1. RollsBack("tx", "conclude")
      BY <2>4 DEF LearnsAbort
    <3> QED
      BY <1>0, <3>1, Calls, EntriesTyped
  <2>5. ASSUME NEW t \in Tid, ManagerStep(t)
        PROVE  local' \in [Thread -> LocalState] /\ Labels'
    BY <2>5 DEF ManagerStep, ManagerAdmits, ManagerTurnsAway, ManagerDecides,
                TypesInv, ThreadsTypeOK, Labels
  <2>6. CASE BecomesUncertain \/ Concludes \/ ThreadEnds
    <3>1. \E from, to : to \in TxPC /\ Goes("tx", from, to)
      BY <2>6 DEF BecomesUncertain, Concludes, ThreadEnds, TxPC
    <3> QED
      BY <2>1, <3>1
  <2> QED
    BY <1>0, <2>1, <2>2, <2>3, <2>4, <2>5, <2>6
<1> QED
  BY <1>1, <1>2, <1>3, <1>4 DEF TypesInv, ThreadsTypeOK

LEMMA TypeStep ==
    ASSUME TypesInv, [ThreadsNext]_threadVars
    PROVE  TypesInv'
<1>1. CASE UNCHANGED threadVars
  BY <1>1 DEF TypesInv, ThreadsTypeOK, Labels, threadVars, logVars
<1>2. CASE ThreadsNext
  <2>1. ASSUME NEW th \in Thread, LogStep(th)
        PROVE  TypesInv'
    BY <2>1, LogStepTypes
  <2> QED
    BY <1>2, <2>1, StartTypes, MainTypes, TxTypes DEF ThreadsNext
<1> QED
  BY <1>1, <1>2

LEMMA TypeInit ==
    ASSUME ThreadsInit
    PROVE  TypesInv
<1>1. LabelOf("main", At("down")) /\ LabelOf("tx", At("none"))
  BY AtTyped DEF LabelOf, MainPC, TxPC, AppendPC, RollbackPC
<1>2. local \in [Thread -> LocalState] /\ Labels
  BY <1>1, StartLocal DEF ThreadsInit, Labels, Thread
<1> QED
  BY <1>2, WorkerThreadsAssumption
     DEF ThreadsInit, TypesInv, ThreadsTypeOK, NoState, Ballot

(* Whatever the two threads and the client do, every variable keeps its    *)
(* type; the index of the rollback loop never becomes negative.            *)
THEOREM ThreadTypes == ThreadsSpec => []ThreadsTypeOK
<1>1. ThreadsInit => TypesInv
  BY TypeInit
<1>2. TypesInv /\ [ThreadsNext]_threadVars => TypesInv'
  BY TypeStep
<1>3. TypesInv => ThreadsTypeOK
  BY DEF TypesInv
<1> QED
  BY <1>1, <1>2, <1>3, PTL DEF ThreadsSpec

-----------------------------------------------------------------------------
(* What the steps do to the local variables.                               *)

LEMMA GoesIs ==
    ASSUME TypesInv, NEW th \in Thread, NEW from, NEW to, Goes(th, from, to)
    PROVE  /\ local[th].pc = from /\ local'[th].pc = to
           /\ local'[th].ret = local[th].ret
           /\ local'[th].entry = local[th].entry
           /\ local'[th].pos = local[th].pos
           /\ local'[th].value = local[th].value
           /\ \A o \in Thread : o # th => local'[o] = local[o]
<1> DEFINE r == [local[th] EXCEPT !.pc = to]
<1>1. local[th].pc = from /\ local' = [local EXCEPT ![th] = r]
  BY DEF Goes
<1>2. local'[th] = r /\ \A o \in Thread : o # th => local'[o] = local[o]
  BY <1>1 DEF TypesInv, ThreadsTypeOK
<1>3. local[th] \in LocalState
  BY DEF TypesInv, ThreadsTypeOK
<1>4. /\ r.pc = to /\ r.ret = local[th].ret /\ r.entry = local[th].entry
      /\ r.pos = local[th].pos /\ r.value = local[th].value
  BY <1>3 DEF LocalState
<1> QED
  BY <1>1, <1>2, <1>4

LEMMA AppendsIs ==
    ASSUME TypesInv, NEW th \in Thread, NEW e, NEW ret, Appends(th, e, ret)
    PROVE  /\ local'[th].pc = "a_count" /\ local'[th].ret = ret
           /\ local'[th].entry = e
           /\ \A o \in Thread : o # th => local'[o] = local[o]
<1> DEFINE r == [local[th] EXCEPT !.pc = "a_count", !.entry = e, !.ret = ret]
<1>1. local' = [local EXCEPT ![th] = r]
  BY DEF Appends
<1>2. local'[th] = r /\ \A o \in Thread : o # th => local'[o] = local[o]
  BY <1>1 DEF TypesInv, ThreadsTypeOK
<1>3. local[th] \in LocalState
  BY DEF TypesInv, ThreadsTypeOK
<1>4. r.pc = "a_count" /\ r.ret = ret /\ r.entry = e
  BY <1>3 DEF LocalState
<1> QED
  BY <1>2, <1>4

LEMMA RollsBackIs ==
    ASSUME TypesInv, NEW th \in Thread, NEW ret, RollsBack(th, ret)
    PROVE  /\ local'[th].pc = "r_seek" /\ local'[th].ret = ret
           /\ local'[th].pos = count
           /\ \A o \in Thread : o # th => local'[o] = local[o]
<1> DEFINE r == [local[th] EXCEPT !.pc = "r_seek", !.pos = count,
                                  !.entry = ZeroEntry, !.ret = ret]
<1>1. local' = [local EXCEPT ![th] = r]
  BY DEF RollsBack
<1>2. local'[th] = r /\ \A o \in Thread : o # th => local'[o] = local[o]
  BY <1>1 DEF TypesInv, ThreadsTypeOK
<1>3. local[th] \in LocalState
  BY DEF TypesInv, ThreadsTypeOK
<1>4. r.pc = "r_seek" /\ r.ret = ret /\ r.pos = count
  BY <1>3 DEF LocalState
<1> QED
  BY <1>2, <1>4

LEMMA EntersIs ==
    ASSUME TypesInv, NEW t, Enters(t)
    PROVE  /\ local'["main"].pc = "send"
           /\ local'["tx"].pc = IF wstate.uncertain THEN "uncertain" ELSE "recv"
<1> DEFINE r == [local["main"] EXCEPT !.pc = "send"]
           q == At(IF wstate.uncertain THEN "uncertain" ELSE "recv")
<1>1. local' = [local EXCEPT !["main"] = r, !["tx"] = q]
  BY DEF Enters
<1>2. local'["main"] = r /\ local'["tx"] = q
  BY <1>1 DEF TypesInv, ThreadsTypeOK, Thread
<1>3. local["main"] \in LocalState
  BY DEF TypesInv, ThreadsTypeOK, Thread
<1>4. r.pc = "send"
  BY <1>3 DEF LocalState
<1>5. q.pc = IF wstate.uncertain THEN "uncertain" ELSE "recv"
  BY DEF At
<1> QED
  BY <1>2, <1>4, <1>5

LEMMA UpdatesIs ==
    ASSUME TypesInv, NEW v, Updates(v)
    PROVE  /\ local'["main"].pc = "a_count" /\ local'["main"].ret = "set"
           /\ local'["main"].entry = [type |-> "LOG_UPDATE",
                                      tid |-> wstate.transaction, old |-> store]
           /\ local'["tx"] = local["tx"]
<1> DEFINE e == [type |-> "LOG_UPDATE", tid |-> wstate.transaction, old |-> store]
           r == [local["main"] EXCEPT !.pc = "a_count", !.ret = "set",
                                      !.value = v, !.entry = e]
<1>1. local' = [local EXCEPT !["main"] = r]
  BY DEF Updates
<1>2. local'["main"] = r /\ local'["tx"] = local["tx"]
  BY <1>1 DEF TypesInv, ThreadsTypeOK, Thread
<1>3. local["main"] \in LocalState
  BY DEF TypesInv, ThreadsTypeOK, Thread
<1>4. r.pc = "a_count" /\ r.ret = "set" /\ r.entry = e
  BY <1>3 DEF LocalState
<1> QED
  BY <1>2, <1>4

(* A step inside txlog_append or update_rollback.                          *)
LEMMA LogStepIs ==
    ASSUME TypesInv, NEW th \in Thread, LogStep(th)
    PROVE  /\ pc(th) \in AppendPC \cup RollbackPC
           /\ \A o \in Thread : o # th => local'[o] = local[o]
           /\ local'[th].ret = local[th].ret
           /\ AppendReadsCount(th) =>
                 /\ pc(th) = "a_count" /\ pc(th)' = "a_seek"
                 /\ local'[th].pos = count /\ local'[th].entry = local[th].entry
           /\ AppendSeeks(th) =>
                 /\ pc(th) = "a_seek" /\ pc(th)' = "a_write"
                 /\ local'[th].entry = local[th].entry
           /\ AppendWrites(th) =>
                 /\ pc(th) = "a_write" /\ pc(th)' = "a_load"
                 /\ local'[th].entry = local[th].entry
           /\ AppendLoadsCount(th) =>
                 /\ pc(th) = "a_load" /\ pc(th)' = "a_store"
                 /\ local'[th].pos = count /\ local'[th].entry = local[th].entry
           /\ AppendStoresCount(th) =>
                 pc(th) = "a_store" /\ pc(th)' = local[th].ret
           /\ RollbackSeeks(th) =>
                 /\ pc(th) = "r_seek" /\ local'[th].pos = local[th].pos
                 /\ pc(th)' = IF local[th].pos > 0 THEN "r_read" ELSE local[th].ret
           /\ RollbackReads(th) =>
                 /\ pc(th) = "r_read" /\ pc(th)' = "r_apply"
                 /\ local'[th].pos = local[th].pos
                 /\ local'[th].entry = IF offset < Len(file) THEN file[offset + 1]
                                       ELSE local[th].entry
           /\ RollbackApplies(th) =>
                 /\ pc(th) = "r_apply"
                 /\ IF local[th].entry.type \in MarkType
                      THEN /\ pc(th)' = "a_count"
                           /\ local'[th].entry =
                                 EntryOf("LOG_ABORT", local[th].entry.tid)
                      ELSE /\ pc(th)' = "r_seek"
                           /\ local'[th].pos = local[th].pos - 1
<1>0. local[th] \in LocalState
  BY DEF TypesInv, ThreadsTypeOK
<1>r. ASSUME NEW r, local' = [local EXCEPT ![th] = r]
      PROVE  local'[th] = r /\ \A o \in Thread : o # th => local'[o] = local[o]
  BY <1>r DEF TypesInv, ThreadsTypeOK
<1>g. ASSUME NEW from, NEW to, Goes(th, from, to)
      PROVE  /\ pc(th) = from /\ pc(th)' = to
             /\ local'[th].ret = local[th].ret
             /\ local'[th].entry = local[th].entry
             /\ local'[th].pos = local[th].pos
             /\ \A o \in Thread : o # th => local'[o] = local[o]
  BY <1>g, GoesIs DEF pc
<1>a. ASSUME AppendReadsCount(th) \/ AppendLoadsCount(th)
      PROVE  /\ \A o \in Thread : o # th => local'[o] = local[o]
             /\ local'[th].ret = local[th].ret
             /\ local'[th].pos = count /\ local'[th].entry = local[th].entry
             /\ AppendReadsCount(th) => pc(th) = "a_count" /\ pc(th)' = "a_seek"
             /\ AppendLoadsCount(th) => pc(th) = "a_load" /\ pc(th)' = "a_store"
  <2>1. ASSUME NEW q, local' = [local EXCEPT ![th] =
                                   [local[th] EXCEPT !.pc = q, !.pos = count]]
        PROVE  /\ \A o \in Thread : o # th => local'[o] = local[o]
               /\ local'[th].ret = local[th].ret
               /\ local'[th].pos = count /\ local'[th].entry = local[th].entry
               /\ local'[th].pc = q
    <3> DEFINE r == [local[th] EXCEPT !.pc = q, !.pos = count]
    <3>1. /\ r.ret = local[th].ret /\ r.entry = local[th].entry
          /\ r.pos = count /\ r.pc = q
      BY <1>0 DEF LocalState
    <3> HIDE DEF r
    <3> QED
      BY <1>r, <2>1, <3>1 DEF r
  <2>2. CASE AppendReadsCount(th)
    <3>1. /\ local[th].pc = "a_count"
          /\ local' = [local EXCEPT ![th] =
                         [local[th] EXCEPT !.pc = "a_seek", !.pos = count]]
      BY <2>2 DEF AppendReadsCount
    <3>2. ~AppendLoadsCount(th)
      BY <3>1 DEF AppendLoadsCount
    <3> QED
      BY <2>1, <3>1, <3>2 DEF pc
  <2>3. CASE AppendLoadsCount(th)
    <3>1. /\ local[th].pc = "a_load"
          /\ local' = [local EXCEPT ![th] =
                         [local[th] EXCEPT !.pc = "a_store", !.pos = count]]
      BY <2>3 DEF AppendLoadsCount
    <3>2. ~AppendReadsCount(th)
      BY <3>1 DEF AppendReadsCount
    <3> QED
      BY <2>1, <3>1, <3>2 DEF pc
  <2> QED
    BY <1>a, <2>2, <2>3
<1>b. ASSUME RollbackReads(th)
      PROVE  /\ \A o \in Thread : o # th => local'[o] = local[o]
             /\ local'[th].ret = local[th].ret
             /\ pc(th) = "r_read" /\ pc(th)' = "r_apply"
             /\ local'[th].pos = local[th].pos
             /\ local'[th].entry = IF offset < Len(file) THEN file[offset + 1]
                                   ELSE local[th].entry
  <2> DEFINE e == IF offset < Len(file) THEN file[offset + 1] ELSE local[th].entry
             r == [local[th] EXCEPT !.pc = "r_apply", !.entry = e]
  <2>1. local[th].pc = "r_read" /\ local' = [local EXCEPT ![th] = r]
    BY <1>b DEF RollbackReads
  <2> HIDE DEF e
  <2>2. /\ r.ret = local[th].ret /\ r.entry = e
        /\ r.pos = local[th].pos /\ r.pc = "r_apply"
    BY <1>0 DEF LocalState
  <2> HIDE DEF r
  <2>3. local'[th] = r /\ \A o \in Thread : o # th => local'[o] = local[o]
    BY <1>r, <2>1
  <2> QED
    BY <2>1, <2>2, <2>3 DEF pc, e
<1>c. ASSUME RollbackApplies(th)
      PROVE  /\ \A o \in Thread : o # th => local'[o] = local[o]
             /\ local'[th].ret = local[th].ret
             /\ pc(th) = "r_apply"
             /\ IF local[th].entry.type \in MarkType
                  THEN /\ pc(th)' = "a_count"
                       /\ local'[th].entry = EntryOf("LOG_ABORT", local[th].entry.tid)
                  ELSE /\ pc(th)' = "r_seek"
                       /\ local'[th].pos = local[th].pos - 1
  <2>1. CASE local[th].entry.type \in MarkType
    <3>1. /\ local[th].pc = "r_apply"
          /\ Appends(th, EntryOf("LOG_ABORT", local[th].entry.tid), local[th].ret)
      BY <1>c, <2>1 DEF RollbackApplies
    <3> QED
      BY <2>1, <3>1, AppendsIs DEF pc
  <2>2. CASE local[th].entry.type \notin MarkType
    <3> DEFINE r == [local[th] EXCEPT !.pc = "r_seek", !.pos = local[th].pos - 1]
    <3>1. local[th].pc = "r_apply" /\ local' = [local EXCEPT ![th] = r]
      BY <1>c, <2>2 DEF RollbackApplies
    <3>2. r.ret = local[th].ret /\ r.pos = local[th].pos - 1 /\ r.pc = "r_seek"
      BY <1>0 DEF LocalState
    <3> HIDE DEF r
    <3>3. local'[th] = r /\ \A o \in Thread : o # th => local'[o] = local[o]
      BY <1>r, <3>1
    <3> QED
      BY <2>2, <3>1, <3>2, <3>3 DEF pc
  <2> QED
    BY <2>1, <2>2
<1>1. AppendSeeks(th) => Goes(th, "a_seek", "a_write")
  BY DEF AppendSeeks
<1>2. AppendWrites(th) => Goes(th, "a_write", "a_load")
  BY DEF AppendWrites
<1>3. AppendStoresCount(th) => Goes(th, "a_store", local[th].ret)
  BY DEF AppendStoresCount
<1>4. RollbackSeeks(th) =>
         Goes(th, "r_seek", IF local[th].pos > 0 THEN "r_read" ELSE local[th].ret)
  BY DEF RollbackSeeks
<1>5. /\ \A o \in Thread : o # th => local'[o] = local[o]
      /\ local'[th].ret = local[th].ret
      /\ pc(th) \in AppendPC \cup RollbackPC
  BY <1>g, <1>a, <1>b, <1>c, <1>1, <1>2, <1>3, <1>4 DEF LogStep, AppendPC, RollbackPC
<1> QED
  BY <1>g, <1>a, <1>b, <1>c, <1>1, <1>2, <1>3, <1>4, <1>5

-----------------------------------------------------------------------------
(* One thread at a time.                                                   *)

(* A thread inside txlog_append or update_rollback is alone.               *)
LEMMA Alone ==
    ASSUME SerialInv, NEW th \in Thread, pc(th) \in AppendPC \cup RollbackPC
    PROVE  /\ th = "main" => pc("tx") \in {"none", "recv", "uncertain"}
           /\ th = "tx" => pc("main") = "idle"
  BY DEF SerialInv, Exclusive, DownAlone, pc, AppendPC, RollbackPC

(* What a step of txlog_append does to the log.                            *)
LEMMA LogEffect ==
    ASSUME SerialInv, NEW th \in Thread, LogStep(th)
    PROVE  /\ AppendStoresCount(th) =>
                 count' = count + 1 /\ Log'[count + 1] = local[th].entry
           /\ ~AppendStoresCount(th) => count' = count
           /\ count' <= Len(file')
           /\ \A i \in 1..count : Log'[i] = Log[i]
<1>t. TypesInv /\ count <= Len(file) /\ InAppend(th)
  BY DEF SerialInv, TypesInv
<1>0. file \in Seq(Entry) /\ count \in Nat /\ Len(file) \in Nat /\ count <= Len(file)
  BY <1>t DEF TypesInv, ThreadsTypeOK
<1>1. CASE AppendStoresCount(th)
  <2>1. /\ local[th].pc = "a_store" /\ file' = file
        /\ count' = local[th].pos + 1
    BY <1>1 DEF AppendStoresCount, Goes
  <2>2. local[th].pos = count /\ count < Len(file) /\ file[count + 1] = local[th].entry
    BY <1>t, <2>1 DEF InAppend, pc
  <2> QED
    BY <1>0, <1>1, <2>1, <2>2 DEF Log
<1>2. CASE AppendWrites(th)
  <2>1. pc(th) = "a_write" /\ count' = count
    BY <1>2 DEF AppendWrites, Goes, pc
  <2>2. offset = count
    BY <1>t, <2>1 DEF InAppend
  <2>3. /\ Len(file') >= Len(file)
        /\ \A i \in 1..Len(file) : i # offset + 1 => file'[i] = file[i]
        /\ file' \in Seq(Entry)
    BY <1>2, <1>t, WriteIs
  <2>4. Len(file') \in Nat
    BY <2>3
  <2>5. \A i \in 1..count : file'[i] = file[i]
    BY <1>0, <2>2, <2>3
  <2>6. ~AppendStoresCount(th)
    BY <2>1 DEF AppendStoresCount, Goes, pc
  <2>7. \A i \in 1..count : i <= Len(file) /\ i <= Len(file')
    BY <1>0, <2>3, <2>4
  <2>8. \A i \in 1..count : Log'[i] = Log[i]
    BY <2>1, <2>5, <2>7 DEF Log
  <2> QED
    BY <1>0, <2>1, <2>3, <2>4, <2>6, <2>8
<1>3. CASE ~AppendStoresCount(th) /\ ~AppendWrites(th)
  <2>1. file' = file /\ count' = count
    BY <1>3 DEF LogStep, AppendReadsCount, AppendSeeks, AppendLoadsCount,
               RollbackSeeks, RollbackReads, RollbackApplies, logVars
  <2> QED
    BY <1>0, <1>3, <2>1 DEF Log
<1> QED
  BY <1>1, <1>2, <1>3

LEMMA LogStepSerial ==
    ASSUME SerialInv, NEW th \in Thread, LogStep(th)
    PROVE  SerialInv'
<1>t. TypesInv /\ count <= Len(file) /\ InAppend(th) /\ LabelOf(th, local[th])
  BY DEF SerialInv, TypesInv, Labels
<1>0. /\ file \in Seq(Entry) /\ count \in Nat /\ Len(file) \in Nat /\ offset \in Nat
      /\ local[th].ret \in MainPC \cup TxPC
  BY <1>t DEF TypesInv, ThreadsTypeOK, LocalState
<1>1. TypesInv'
  BY <1>t, LogStepTypes
<1>2. /\ pc(th) \in AppendPC \cup RollbackPC
      /\ \A o \in Thread : o # th => local'[o] = local[o]
  BY <1>t, LogStepIs
<1>3. Exclusive' /\ DownAlone'
  <2>1. CASE th = "main"
    <3>1. pc("tx") \in {"none", "recv", "uncertain"}
      BY <1>2, <2>1, Alone
    <3>2. pc("tx")' = pc("tx")
      BY <1>2, <2>1 DEF pc, Thread
    <3>3. pc("main")' # "down"
      BY <1>t, <1>2, <2>1, LogStepIs DEF LogStep, LabelOf, pc
    <3> QED
      BY <3>1, <3>2, <3>3 DEF Exclusive, DownAlone, pc
  <2>2. CASE th = "tx"
    <3>1. pc("main")' = "idle"
      BY <1>2, <2>2, Alone DEF pc, Thread
    <3> QED
      BY <3>1 DEF Exclusive, DownAlone, pc
  <2> QED
    BY <2>1, <2>2 DEF Thread
<1>4. count' <= Len(file')
  BY LogEffect
<1>5. ASSUME NEW o \in Thread, o # th
      PROVE  InAppend(o)'
  <2>1. pc(o)' = pc(o) /\ pc(o) \in {"none", "recv", "uncertain", "idle"}
    BY <1>2, <1>5, Alone DEF pc, Thread
  <2> QED
    BY <2>1 DEF InAppend, pc
<1>6. InAppend(th)'
  <2>1. CASE AppendReadsCount(th)
    <3>1. pc(th)' = "a_seek" /\ local'[th].pos = count /\ count' = count
      BY <2>1, <1>t, LogStepIs DEF AppendReadsCount, logVars
    <3> QED
      BY <3>1 DEF InAppend, pc
  <2>2. CASE AppendSeeks(th)
    <3>1. /\ pc(th) = "a_seek" /\ pc(th)' = "a_write" /\ offset' = local[th].pos
          /\ count' = count
      BY <2>2, <1>t, LogStepIs DEF AppendSeeks
    <3> QED
      BY <1>t, <3>1 DEF InAppend, pc
  <2>3. CASE AppendWrites(th)
    <3>1. /\ pc(th) = "a_write" /\ pc(th)' = "a_load" /\ count' = count
          /\ local'[th].entry = local[th].entry
      BY <2>3, <1>t, LogStepIs DEF AppendWrites
    <3>2. offset = count
      BY <1>t, <3>1 DEF InAppend
    <3>3. /\ Len(file') >= offset + 1 /\ file'[offset + 1] = local[th].entry
          /\ file' \in Seq(Entry)
      BY <1>t, <2>3, WriteIs
    <3>4. Len(file') \in Nat
      BY <3>3
    <3>5. count < Len(file')
      BY <1>0, <3>2, <3>3, <3>4
    <3> QED
      BY <3>1, <3>2, <3>3, <3>5 DEF InAppend, pc
  <2>4. CASE AppendLoadsCount(th)
    <3>1. /\ pc(th) = "a_load" /\ pc(th)' = "a_store" /\ count' = count
          /\ local'[th].entry = local[th].entry /\ local'[th].pos = count
          /\ file' = file
      BY <2>4, <1>t, LogStepIs DEF AppendLoadsCount, logVars
    <3> QED
      BY <1>t, <3>1 DEF InAppend, pc
  <2>5. CASE \/ AppendStoresCount(th) \/ RollbackSeeks(th) \/ RollbackReads(th)
             \/ RollbackApplies(th)
    <3>1. pc(th)' \in MainPC \cup TxPC \cup RollbackPC \cup {"a_count"}
      BY <1>t, <1>0, <2>5, LogStepIs DEF RollbackPC
    <3> QED
      BY <3>1 DEF InAppend, pc, MainPC, TxPC, RollbackPC
  <2> QED
    BY <2>1, <2>2, <2>3, <2>4, <2>5 DEF LogStep
<1> QED
  BY <1>1, <1>3, <1>4, <1>5, <1>6 DEF SerialInv, TypesInv

(* Every other step leaves the log alone; a thread that it moves is not    *)
(* then in the middle of txlog_append.                                     *)
OutsideAppend == {"a_count", "r_seek"} \cup MainPC \cup TxPC

OtherStep ==
    \/ StartsUncertain \/ StartsWithRollback \/ StartsClean \/ ProcessCrashes
    \/ \E t \in Tid : Enters(t)
    \/ SendsRequest \/ SetsStore \/ AbortsLocally \/ WillVoteAbort \/ SetsFlags
    \/ \E v \in Value : Updates(v) \/ UpdatesOutside(v)
    \/ \E t \in {wstate.transaction} \ {0} :
          \/ PreparesToCommit(t) \/ PreparesToAbort(t) \/ SendsVote(t)
          \/ RefusedByManager(t) \/ LearnsCommit(t) \/ LearnsAbort(t)
    \/ BecomesUncertain \/ Concludes \/ ThreadEnds
    \/ \E t \in Tid : ManagerStep(t)

LEMMA OtherStepIs ==
    ASSUME OtherStep
    PROVE  UNCHANGED <<file, count>>
  BY DEF OtherStep, StartsUncertain, StartsWithRollback, StartsClean, ProcessCrashes,
         Enters, SendsRequest, SetsStore, AbortsLocally, WillVoteAbort, SetsFlags,
         Updates, UpdatesOutside, PreparesToCommit, PreparesToAbort, SendsVote,
         RefusedByManager, LearnsCommit, LearnsAbort, BecomesUncertain, Concludes,
         ThreadEnds, ManagerStep, ManagerAdmits, ManagerTurnsAway,
         ManagerDecides, logVars

LEMMA NextSteps ==
    ThreadsNext => OtherStep \/ \E th \in Thread : LogStep(th)
  BY DEF ThreadsNext, OtherStep

LEMMA OtherStepTypes ==
    ASSUME TypesInv, OtherStep
    PROVE  TypesInv'
  BY StartTypes, MainTypes, TxTypes DEF OtherStep

(* Who moves, from where and to where.                                     *)
MainStep ==
    /\ local'["tx"] = local["tx"]
    /\ pc("main") \in MainPC /\ pc("main")' \in OutsideAppend
    /\ pc("main")' # "down" /\ (pc("main") = "idle" => MainMayStart)
    /\ UNCHANGED offset

TxStep ==
    /\ local'["main"] = local["main"]
    /\ pc("tx") \in TxPC \ {"none"} /\ pc("tx")' \in OutsideAppend
    /\ (pc("tx") \in {"recv", "uncertain"} => TxMayStart)
    /\ UNCHANGED offset

LEMMA WhoMoves ==
    ASSUME TypesInv, OtherStep
    PROVE  \/ MainStep \/ TxStep
           \/ UNCHANGED <<local, offset>>
           \/ pc("main")' = "down" /\ pc("tx")' = "none"
           \/ /\ pc("main")' = "idle" /\ pc("tx")' = "uncertain"
              /\ UNCHANGED offset
           \/ /\ pc("main")' = "send" /\ pc("tx")' \in {"recv", "uncertain"}
              /\ UNCHANGED offset
<1>0. "main" \in Thread /\ "tx" \in Thread /\ "main" # "tx"
  BY DEF Thread
<1>g. ASSUME NEW th \in Thread, NEW from, NEW to, Goes(th, from, to)
      PROVE  /\ pc(th) = from /\ pc(th)' = to
             /\ \A o \in Thread : o # th => local'[o] = local[o]
  BY <1>g, GoesIs DEF pc
<1>a. ASSUME NEW th \in Thread, NEW e, NEW ret, Appends(th, e, ret)
      PROVE  /\ pc(th)' = "a_count"
             /\ \A o \in Thread : o # th => local'[o] = local[o]
  BY <1>a, AppendsIs DEF pc
<1>r. ASSUME NEW th \in Thread, NEW ret, RollsBack(th, ret)
      PROVE  /\ pc(th)' = "r_seek"
             /\ \A o \in Thread : o # th => local'[o] = local[o]
  BY <1>r, RollsBackIs DEF pc
<1>1. CASE StartsUncertain
  <2>1. local'["main"] = At("idle") /\ local'["tx"] = At("uncertain") /\ UNCHANGED offset
    BY <1>1 DEF StartsUncertain, Thread, logVars
  <2> QED
    BY <2>1 DEF pc, At
<1>2. CASE ProcessCrashes
  <2>1. local'["main"] = At("down") /\ local'["tx"] = At("none")
    BY <1>2, StartLocal DEF ProcessCrashes
  <2> QED
    BY <2>1 DEF pc, At
<1>3. ASSUME NEW t \in Tid, Enters(t)
      PROVE  /\ pc("main")' = "send" /\ pc("tx")' \in {"recv", "uncertain"}
             /\ UNCHANGED offset
  BY <1>3, EntersIs DEF pc, Enters, logVars
<1>4. CASE StartsWithRollback \/ AbortsLocally
  <2>1. PICK ret : RollsBack("main", ret)
    BY <1>4 DEF StartsWithRollback, AbortsLocally
  <2>2. /\ pc("main") \in {"down", "idle"} /\ UNCHANGED offset
        /\ pc("main") = "idle" => MainMayStart
    BY <1>4 DEF StartsWithRollback, AbortsLocally, TakesCommand, pc, logVars
  <2> QED
    BY <1>0, <1>r, <2>1, <2>2 DEF MainStep, MainPC, OutsideAppend
<1>5. CASE StartsClean \/ SetsStore \/ WillVoteAbort \/ SetsFlags
  <2>1. PICK from \in MainPC, to \in {"idle", "flags"} : Goes("main", from, to)
    BY <1>5 DEF StartsClean, SetsStore, WillVoteAbort, SetsFlags, MainPC
  <2>2. UNCHANGED offset /\ (pc("main") = "idle" => MainMayStart)
    BY <1>5 DEF StartsClean, SetsStore, WillVoteAbort, SetsFlags, TakesCommand,
                pc, logVars, Goes
  <2> QED
    BY <1>0, <1>g, <2>1, <2>2 DEF MainStep, MainPC, OutsideAppend
<1>6. CASE SendsRequest
  <2>1. Appends("main", EntryOf("LOG_BEGIN", wstate.transaction), "idle")
    BY <1>6 DEF SendsRequest
  <2>2. pc("main") = "send" /\ UNCHANGED offset
    BY <1>6 DEF SendsRequest, pc, logVars
  <2> QED
    BY <1>0, <1>a, <2>1, <2>2 DEF MainStep, MainPC, OutsideAppend
<1>7. ASSUME NEW v \in Value, Updates(v)
      PROVE  MainStep
  <2>1. pc("main") = "idle" /\ MainMayStart /\ UNCHANGED offset
    BY <1>7 DEF Updates, TakesCommand, pc, logVars
  <2>2. pc("main")' = "a_count" /\ local'["tx"] = local["tx"]
    BY <1>7, UpdatesIs DEF pc
  <2> QED
    BY <2>1, <2>2 DEF MainStep, MainPC, OutsideAppend
<1>8. ASSUME NEW v \in Value, UpdatesOutside(v)
      PROVE  UNCHANGED <<local, offset>>
  BY <1>8 DEF UpdatesOutside, logVars
<1>9. ASSUME NEW t \in Tid, ManagerStep(t)
      PROVE  UNCHANGED <<local, offset>>
  BY <1>9, ManagerStepIs
<1>10. ASSUME NEW t, PreparesToCommit(t) \/ LearnsCommit(t)
       PROVE  TxStep
  <2>1. PICK e, ret : Appends("tx", e, ret)
    BY <1>10 DEF PreparesToCommit, LearnsCommit
  <2>2. pc("tx") \in {"recv", "uncertain"} /\ TxMayStart /\ UNCHANGED offset
    BY <1>10 DEF PreparesToCommit, LearnsCommit, Receives, pc, logVars
  <2> QED
    BY <1>0, <1>a, <2>1, <2>2 DEF TxStep, TxPC, OutsideAppend
<1>11. ASSUME NEW t, LearnsAbort(t)
       PROVE  TxStep
  <2>1. RollsBack("tx", "conclude")
    BY <1>11 DEF LearnsAbort
  <2>2. pc("tx") \in {"recv", "uncertain"} /\ TxMayStart /\ UNCHANGED offset
    BY <1>11 DEF LearnsAbort, Receives, pc, logVars
  <2> QED
    BY <1>0, <1>r, <2>1, <2>2 DEF TxStep, TxPC, OutsideAppend
<1>12. ASSUME NEW t, PreparesToAbort(t) \/ RefusedByManager(t)
       PROVE  TxStep
  <2>1. PICK to \in {"vote_abort", "closing"} : Goes("tx", "recv", to)
    BY <1>12 DEF PreparesToAbort, RefusedByManager
  <2>2. TxMayStart /\ UNCHANGED offset
    BY <1>12 DEF PreparesToAbort, RefusedByManager, Receives, logVars
  <2> QED
    BY <1>0, <1>g, <2>1, <2>2 DEF TxStep, TxPC, OutsideAppend
<1>13. ASSUME NEW t, SendsVote(t)
       PROVE  TxStep
  <2>1. PICK from \in {"vote_prepared", "vote_abort"} : Goes("tx", from, "voted")
    BY <1>13, VoteIs
  <2>2. UNCHANGED offset
    BY <1>13 DEF SendsVote, logVars
  <2> QED
    BY <1>0, <1>g, <2>1, <2>2 DEF TxStep, TxPC, OutsideAppend
<1>14. ASSUME BecomesUncertain \/ Concludes \/ ThreadEnds
       PROVE  TxStep
  <2>1. PICK from \in {"voted", "conclude", "closing"},
             to \in {"uncertain", "closing", "none"} : Goes("tx", from, to)
    BY <1>14 DEF BecomesUncertain, Concludes, ThreadEnds
  <2>2. UNCHANGED offset
    BY <1>14 DEF BecomesUncertain, Concludes, ThreadEnds, logVars
  <2> QED
    BY <1>0, <1>g, <2>1, <2>2 DEF TxStep, TxPC, OutsideAppend
<1> QED
  BY <1>1, <1>2, <1>3, <1>4, <1>5, <1>6, <1>7, <1>8, <1>9, <1>10, <1>11, <1>12,
     <1>13, <1>14 DEF OtherStep

LEMMA OtherStepSerial ==
    ASSUME Serial, SerialInv, OtherStep
    PROVE  SerialInv'
<1>t. TypesInv /\ count <= Len(file)
  BY DEF SerialInv, TypesInv
<1>1. TypesInv'
  BY <1>t, OtherStepTypes
<1>2. UNCHANGED <<file, count>>
  BY OtherStepIs
<1>3. /\ MainMayStart => pc("tx") \in {"none", "recv", "uncertain"}
      /\ TxMayStart => pc("main") = "idle"
  BY DEF MainMayStart, TxMayStart, pc
<1>4. Exclusive' /\ DownAlone'
  <2>1. CASE MainStep
    <3>1. pc("tx")' = pc("tx")
      BY <2>1 DEF MainStep, pc
    <3>2. pc("tx") \in {"none", "recv", "uncertain"}
      BY <1>3, <2>1 DEF MainStep, SerialInv, Exclusive, DownAlone
    <3> QED
      BY <2>1, <3>1, <3>2 DEF Exclusive, DownAlone, MainStep, pc
  <2>2. CASE TxStep
    <3>1. pc("main")' = pc("main")
      BY <2>2 DEF TxStep, pc
    <3>2. pc("main") = "idle"
      BY <1>3, <2>2 DEF TxStep, SerialInv, Exclusive, DownAlone
    <3> QED
      BY <3>1, <3>2 DEF Exclusive, DownAlone, pc
  <2>3. CASE UNCHANGED local
    BY <2>3 DEF SerialInv, Exclusive, DownAlone, pc
  <2>4. CASE pc("main")' \in {"down", "idle"} /\ pc("tx")' \in {"none", "uncertain"}
             /\ (pc("main")' = "down" => pc("tx")' = "none")
    BY <2>4 DEF Exclusive, DownAlone, pc
  <2>5. CASE pc("main")' = "send" /\ pc("tx")' \in {"recv", "uncertain"}
    BY <2>5 DEF Exclusive, DownAlone, pc
  <2> QED
    BY <1>t, <2>1, <2>2, <2>3, <2>4, <2>5, WhoMoves
<1>5. ASSUME NEW th \in Thread
      PROVE  InAppend(th)'
  <2>1. CASE pc(th)' \in OutsideAppend
    BY <2>1 DEF InAppend, pc, OutsideAppend, MainPC, TxPC
  <2>2. CASE local'[th] = local[th] /\ UNCHANGED offset
    <3>1. InAppend(th)
      BY DEF SerialInv
    <3> QED
      BY <1>2, <2>2, <3>1 DEF InAppend, pc
  <2>3. th = "main" \/ th = "tx"
    BY DEF Thread
  <2> QED
    BY <1>t, <2>1, <2>2, <2>3, WhoMoves DEF MainStep, TxStep, OutsideAppend, MainPC, TxPC
<1> QED
  BY <1>t, <1>1, <1>2, <1>4, <1>5 DEF SerialInv, TypesInv

LEMMA SerialStep ==
    ASSUME Serial, SerialInv, [ThreadsNext]_threadVars
    PROVE  SerialInv'
<1>1. CASE UNCHANGED threadVars
  BY <1>1 DEF SerialInv, ThreadsTypeOK, Labels, Exclusive, DownAlone, InAppend, pc,
              threadVars, logVars
<1>2. CASE ThreadsNext
  BY <1>2, NextSteps, LogStepSerial, OtherStepSerial
<1> QED
  BY <1>1, <1>2

LEMMA SerialInit ==
    ASSUME ThreadsInit
    PROVE  SerialInv
<1>1. local["main"].pc = "down" /\ local["tx"].pc = "none"
  BY StartLocal DEF ThreadsInit, At
<1> QED
  BY <1>1, TypeInit DEF SerialInv, TypesInv, Exclusive, DownAlone, InAppend, pc,
                        Thread, ThreadsInit

(* With one thread at a time in the log, an append is whole: the count is  *)
(* never ahead of the file, and the thread inside txlog_append has the     *)
(* offset and the next entry to itself.                                    *)
THEOREM OneThreadAtATime ==
    ASSUME Serial
    PROVE  ThreadsSpec => []SerialInv
<1>1. ThreadsInit => SerialInv
  BY SerialInit
<1>2. SerialInv /\ [ThreadsNext]_threadVars => SerialInv'
  BY SerialStep
<1> QED
  BY <1>1, <1>2, PTL DEF ThreadsSpec

(* "appends a log entry to the log file": for any number of transactions   *)
(* and crashes at any point, the log only grows, by one whole entry, and   *)
(* what is in it never changes.  Serial is needed: see append_race.        *)
THEOREM LogOnlyGrows ==
    ASSUME Serial
    PROVE  ThreadsSpec => AppendOnly
<1> DEFINE Grows == /\ count' \in {count, count + 1}
                    /\ count' <= Len(file')
                    /\ \A i \in 1..count : Log'[i] = Log[i]
<1>1. SerialInv /\ [ThreadsNext]_threadVars => [Grows]_threadVars
  <2> SUFFICES ASSUME SerialInv, ThreadsNext PROVE Grows
    OBVIOUS
  <2>1. CASE OtherStep
    <3>1. UNCHANGED <<file, count>> /\ count <= Len(file)
      BY <2>1, OtherStepIs DEF SerialInv
    <3> QED
      BY <3>1 DEF Log
  <2>2. ASSUME NEW th \in Thread, LogStep(th)
        PROVE  Grows
    BY <2>2, LogEffect
  <2> QED
    BY <2>1, <2>2, NextSteps
<1>2. ThreadsSpec => []SerialInv
  BY OneThreadAtATime
<1> QED
  BY <1>1, <1>2, PTL DEF ThreadsSpec, AppendOnly

-----------------------------------------------------------------------------
(* The content of the log, with a patient client as well.                  *)

LEMMA LogTyped ==
    ASSUME SerialInv
    PROVE  /\ Log \in Seq(Entry) /\ Len(Log) = count /\ count \in Nat
           /\ \A i \in 1..count : Log[i] = file[i] /\ Log[i] \in Entry
<1>0. file \in Seq(Entry) /\ count \in Nat /\ Len(file) \in Nat /\ count <= Len(file)
  BY DEF SerialInv, ThreadsTypeOK
<1>1. \A i \in 1..count : i <= Len(file) /\ file[i] \in Entry
  BY <1>0
<1>2. Log = [i \in 1..count |-> IF i <= Len(file) THEN file[i] ELSE ZeroEntry]
  BY DEF Log
<1>3. \A i \in 1..count : Log[i] = file[i] /\ Log[i] \in Entry
  BY <1>1, <1>2
<1>4. Log \in Seq(Entry) /\ Len(Log) = count
  BY <1>0, <1>1, <1>2, EntriesTyped
<1> QED
  BY <1>0, <1>3, <1>4

LEMMA SameLog ==
    ASSUME UNCHANGED <<file, count>>
    PROVE  Log' = Log /\ count' = count /\ LastType' = LastType
<1>1. Log' = Log
  BY DEF Log
<1> QED
  BY <1>1 DEF LastType

(* The log begins with a begin, so a rollback always stops at an entry.    *)
LEMMA StopsInLog ==
    ASSUME SerialInv, LogFilled, count > 0
    PROVE  /\ StopsAt(Log) \in 1..count /\ Log[StopsAt(Log)].type \in MarkType
           /\ \A i \in 1..count : Log[i].type \in MarkType => i <= StopsAt(Log)
<1>1. Log \in Seq(Entry) /\ Len(Log) = count /\ count \in Nat
  BY LogTyped
<1>2. Log[1].type \in MarkType /\ 1 \in 1..count
  BY <1>1 DEF LogFilled, MarkType
<1> QED
  BY <1>1, <1>2, StopsAtIs

(* After a begin, a commit or an abort nothing is open.                    *)
LEMMA SettledIs ==
    ASSUME SerialInv, Settled
    PROVE  /\ Undone(Log) = {} /\ LastType # "LOG_PREPARED"
           /\ \A st : RolledBackStore(Log, st) = st
<1>1. Log \in Seq(Entry) /\ Len(Log) = count /\ count \in Nat
  BY LogTyped
<1>2. StopsAt(Log) = count
  <2>1. count # 0 => Log[count].type \in MarkType
    BY DEF Settled, LastType
  <2> QED
    BY <1>1, <2>1, StopsAtWhere
<1>3. Undone(Log) = {}
  BY <1>1, <1>2 DEF Undone
<1>4. LastType # "LOG_PREPARED"
  BY DEF Settled, LastType, MarkType
<1> QED
  BY <1>1, <1>3, <1>4, RestoredIs

(* Which rollback the conclusion leaves as it was.                         *)
LEMMA RollbackKept ==
    ASSUME NEW th \in Thread, InRollback(th), UNCHANGED <<file, count, store, offset>>,
           local'[th] = local[th]
    PROVE  InRollback(th)'
<1>1. Log' = Log /\ count' = count
  BY SameLog
<1> QED
  BY <1>1 DEF InRollback, RolledBackTo, pc

LEMMA RollbackFree ==
    ASSUME NEW th \in Thread, local'[th].pc \notin RollbackPC
    PROVE  InRollback(th)'
  BY DEF InRollback, RollbackPC, pc

LEMMA RollbackStarts ==
    ASSUME NEW th \in Thread, SerialInv', local'[th].pc = "r_seek",
           local'[th].pos = count, UNCHANGED count
    PROVE  InRollback(th)'
<1>1. count' \in Nat
  BY DEF SerialInv, ThreadsTypeOK
<1>2. RolledBackTo(local[th].pos)'
  BY <1>1 DEF RolledBackTo
<1> QED
  BY <1>2 DEF InRollback, pc

(* A step that changes neither the log, nor the store, nor a ballot.       *)
LEMMA ControlStep ==
    ASSUME ThreadsInv, SerialInv', Log' = Log, count' = count, LastType' = LastType,
           UNCHANGED <<store, ballot, mark>>,
           TxControl', MarkOfTransaction', PreparedLast',
           SettledWhen' => Settled, pc("main")' # "set",
           \A th \in Thread : InRollback(th)'
    PROVE  ThreadsInv'
<1>1. LogContent'
  BY DEF ThreadsInv, LogContent, LogFilled, Settled
<1>2. DecidesJoined' /\ Recoverable' /\ CommitsDecided' /\ PromiseRemembered'
  BY DEF ThreadsInv, DecidesJoined, Recoverable, CommitsDecided, PromiseRemembered
<1> QED
  BY <1>1, <1>2 DEF ThreadsInv

(* Starting and dying.                                                     *)
LEMMA StartKeeps ==
    ASSUME ThreadsInv, SerialInv',
           StartsUncertain \/ StartsWithRollback \/ StartsClean \/ ProcessCrashes
    PROVE  ThreadsInv'
<1>0. /\ TypesInv /\ UNCHANGED <<file, count, store, ballot, mark>>
      /\ "main" \in Thread /\ "tx" \in Thread /\ "main" # "tx"
  BY DEF StartsUncertain, StartsWithRollback, StartsClean, ProcessCrashes, logVars,
         ThreadsInv, SerialInv, TypesInv, Thread
<1>1. Log' = Log /\ count' = count /\ LastType' = LastType
  BY <1>0, SameLog
<1>2. \A th \in Thread : th = "main" \/ th = "tx"
  BY DEF Thread
<1>3. CASE StartsUncertain
  <2>1. /\ local'["main"].pc = "idle" /\ local'["tx"].pc = "uncertain"
        /\ wstate'.is_active = TRUE /\ wstate'.transaction = Log[count].tid
        /\ LastType = "LOG_PREPARED" /\ count # 0
    <3>1. local'["main"] = At("idle") /\ local'["tx"] = At("uncertain")
      BY <1>3 DEF StartsUncertain, Thread
    <3> QED
      BY <1>3, <3>1 DEF StartsUncertain, At, LastType
  <2>2. TxControl'
    BY <2>1 DEF TxControl, Active, MainEntry, TxEntry, pc, AppendPC, RollbackPC
  <2>3. count > 0 /\ Log[StopsAt(Log)].tid = Log[count].tid
    BY <2>1 DEF ThreadsInv, SerialInv, ThreadsTypeOK, LogContent, MarkOfTransaction
  <2>4. MarkOfTransaction' /\ PreparedLast'
    BY <1>1, <2>1, <2>3 DEF MarkOfTransaction, PreparedLast, pc
  <2>5. ~SettledWhen'
    BY <2>1 DEF SettledWhen, Beginning, pc, AppendPC
  <2>6. \A th \in Thread : InRollback(th)'
    BY <1>2, <2>1, RollbackFree DEF RollbackPC
  <2> QED
    BY <1>0, <1>1, <2>1, <2>2, <2>4, <2>5, <2>6, ControlStep DEF pc
<1>4. CASE StartsWithRollback
  <2>0. RollsBack("main", "idle")
    BY <1>4 DEF StartsWithRollback
  <2>1. /\ local["main"].pc = "down" /\ LastType = "LOG_UPDATE" /\ wstate' = wstate
        /\ local'["main"].pc = "r_seek" /\ local'["main"].ret = "idle"
        /\ local'["main"].pos = count /\ local'["tx"] = local["tx"]
    BY <1>0, <1>4, <2>0, RollsBackIs DEF StartsWithRollback
  <2>2. local["tx"].pc = "none"
    BY <2>1 DEF ThreadsInv, SerialInv, DownAlone, pc
  <2>3. TxControl'
    BY <2>1, <2>2 DEF TxControl, Active, MainEntry, TxEntry, Concluding, pc, AppendPC,
                      RollbackPC, ThreadsInv
  <2>4. MarkOfTransaction' /\ PreparedLast' /\ ~SettledWhen'
    BY <1>1, <2>1, <2>2 DEF MarkOfTransaction, PreparedLast, SettledWhen, Beginning, pc,
                            AppendPC
  <2>5. InRollback("main")'
    BY <1>0, <2>1, RollbackStarts
  <2>6. InRollback("tx")'
    BY <1>0, <2>1, <2>2, RollbackFree DEF RollbackPC
  <2> QED
    BY <1>0, <1>1, <1>2, <2>1, <2>3, <2>4, <2>5, <2>6, ControlStep DEF pc
<1>5. CASE StartsClean
  <2>0. Goes("main", "down", "idle")
    BY <1>5 DEF StartsClean
  <2>1. /\ local["main"].pc = "down" /\ wstate' = wstate
        /\ local'["main"].pc = "idle" /\ local'["tx"] = local["tx"]
    BY <1>0, <1>5, <2>0, GoesIs DEF StartsClean
  <2>2. local["tx"].pc = "none"
    BY <2>1 DEF ThreadsInv, SerialInv, DownAlone, pc
  <2>3. Settled
    <3>1. count # 0 => count \in 1..count /\ LastType = Log[count].type
      BY DEF LastType, ThreadsInv, SerialInv, ThreadsTypeOK
    <3>2. LastType \notin {"LOG_PREPARED", "LOG_UPDATE"}
      BY <1>5 DEF StartsClean
    <3> QED
      BY <3>1, <3>2 DEF ThreadsInv, LogContent, LogFilled, Settled, MarkType, LogEntryType
  <2>4. TxControl'
    BY <2>1, <2>2 DEF TxControl, Active, MainEntry, TxEntry, Concluding, pc, AppendPC,
                      RollbackPC, ThreadsInv
  <2>5. LastType # "LOG_PREPARED"
    BY <2>3, SettledIs DEF ThreadsInv
  <2>6. MarkOfTransaction' /\ PreparedLast'
    BY <1>1, <2>1, <2>2, <2>5 DEF MarkOfTransaction, PreparedLast, pc
  <2>7. \A th \in Thread : InRollback(th)'
    BY <1>2, <2>1, <2>2, RollbackFree DEF RollbackPC
  <2> QED
    BY <1>0, <1>1, <2>1, <2>3, <2>4, <2>6, <2>7, ControlStep DEF pc
<1>6. CASE ProcessCrashes
  <2>1. /\ local'["main"].pc = "down" /\ local'["tx"].pc = "none"
        /\ wstate'.is_active = FALSE /\ wstate'.uncertain = FALSE
    BY <1>6, StartLocal DEF ProcessCrashes, At, NoState
  <2>2. TxControl'
    BY <2>1 DEF TxControl, Active, MainEntry, TxEntry, pc, AppendPC, RollbackPC
  <2>3. MarkOfTransaction' /\ PreparedLast' /\ ~SettledWhen'
    BY <1>1, <2>1 DEF MarkOfTransaction, PreparedLast, SettledWhen, Beginning, pc,
                      AppendPC, ThreadsInv, LogContent
  <2>4. \A th \in Thread : InRollback(th)'
    BY <1>2, <2>1, RollbackFree DEF RollbackPC
  <2> QED
    BY <1>0, <1>1, <2>1, <2>2, <2>3, <2>4, ControlStep DEF pc
<1> QED
  BY <1>3, <1>4, <1>5, <1>6

(* The main thread.                                                        *)
LEMMA EnterKeeps ==
    ASSUME ThreadsInv, SerialInv', NEW t \in Tid, Enters(t)
    PROVE  ThreadsInv'
<1>0. TypesInv /\ UNCHANGED <<file, count, store, ballot, mark>>
  BY DEF Enters, logVars, ThreadsInv, SerialInv, TypesInv
<1>1. Log' = Log /\ count' = count /\ LastType' = LastType
  BY <1>0, SameLog
<1>2. local["main"].pc = "idle" /\ local["tx"].pc = "none" /\ ~wstate.uncertain
  BY DEF Enters, TakesCommand, ThreadsInv, TxControl, Active, Concluding, pc,
         AppendPC, RollbackPC
<1>3. /\ local'["main"].pc = "send" /\ local'["tx"].pc = "recv"
      /\ wstate'.is_active = TRUE /\ wstate'.transaction = t
      /\ wstate'.uncertain = wstate.uncertain
  BY <1>0, <1>2, EntersIs DEF Enters, TypesInv, ThreadsTypeOK
<1>4. Settled
  BY <1>2 DEF ThreadsInv, LogContent, SettledWhen, pc
<1>5. TxControl'
  BY <1>2, <1>3 DEF TxControl, Active, MainEntry, TxEntry, pc, AppendPC, RollbackPC
<1>6. LastType # "LOG_PREPARED"
  BY <1>4, SettledIs DEF ThreadsInv
<1>7. MarkOfTransaction' /\ PreparedLast'
  BY <1>1, <1>3, <1>6 DEF MarkOfTransaction, PreparedLast, Beginning, pc
<1>8. \A th \in Thread : InRollback(th)'
  BY <1>3, RollbackFree DEF RollbackPC, Thread
<1> QED
  BY <1>0, <1>1, <1>3, <1>4, <1>5, <1>7, <1>8, ControlStep DEF pc

LEMMA RequestKeeps ==
    ASSUME ThreadsInv, SerialInv', SendsRequest
    PROVE  ThreadsInv'
<1>0. TypesInv /\ UNCHANGED <<file, count, offset, store, mark, wstate>>
  BY DEF SendsRequest, logVars, ThreadsInv, SerialInv, TypesInv
<1>1. Log' = Log /\ count' = count /\ LastType' = LastType
  BY <1>0, SameLog
<1>2. local["main"].pc = "send" /\ local["tx"].pc = "recv"
  BY DEF SendsRequest, ThreadsInv, TxControl, MainEntry, pc
<1>e. Appends("main", EntryOf("LOG_BEGIN", wstate.transaction), "idle")
  BY DEF SendsRequest
<1>3. /\ local'["main"].pc = "a_count" /\ local'["main"].ret = "idle"
      /\ local'["main"].entry = EntryOf("LOG_BEGIN", wstate.transaction)
      /\ local'["tx"] = local["tx"]
  BY <1>0, <1>e, AppendsIs DEF Thread
<1>4. \A t \in Tid : /\ ballot'[t].vote = ballot[t].vote
                     /\ ballot'[t].outcome = ballot[t].outcome
                     /\ ballot[t].joined => ballot'[t].joined
                     /\ ballot'[t].admitted = ballot[t].admitted
  <2>1. ballot' = [ballot EXCEPT ![wstate.transaction].joined = TRUE]
    BY DEF SendsRequest
  <2> QED
    BY <1>0, <2>1 DEF TypesInv, ThreadsTypeOK, Ballot
<1>5. Settled
  BY <1>2 DEF ThreadsInv, LogContent, SettledWhen, Beginning, pc
<1>6. TxControl'
  BY <1>0, <1>2, <1>3 DEF TxControl, Active, MainEntry, TxEntry, Concluding, pc, AppendPC,
                    RollbackPC, EntryOf, ThreadsInv
<1>7. LastType # "LOG_PREPARED"
  BY <1>5, SettledIs DEF ThreadsInv
<1>8. MarkOfTransaction' /\ PreparedLast'
  BY <1>1, <1>2, <1>3, <1>7 DEF MarkOfTransaction, PreparedLast, Beginning, pc, AppendPC, EntryOf
<1>9. \A th \in Thread : InRollback(th)'
  BY <1>2, <1>3, RollbackFree DEF RollbackPC, Thread
<1>10. LogContent'
  BY <1>1, <1>3, <1>5, <1>8 DEF ThreadsInv, LogContent, LogFilled, Settled, pc
<1>11. DecidesJoined' /\ Recoverable' /\ CommitsDecided' /\ PromiseRemembered'
  BY <1>0, <1>1, <1>4
     DEF ThreadsInv, DecidesJoined, Recoverable, CommitsDecided, PromiseRemembered
<1> QED
  BY <1>6, <1>9, <1>10, <1>11 DEF ThreadsInv

LEMMA UpdateKeeps ==
    ASSUME PatientClient, ThreadsInv, SerialInv', NEW v \in Value, Updates(v)
    PROVE  ThreadsInv'
<1>0. TypesInv /\ UNCHANGED <<file, count, offset, store, mark, wstate, ballot>>
  BY DEF Updates, logVars, ThreadsInv, SerialInv, TypesInv
<1>1. Log' = Log /\ count' = count /\ LastType' = LastType
  BY <1>0, SameLog
<1>2. /\ local["main"].pc = "idle" /\ local["tx"].pc = "recv"
      /\ Admitted
  BY DEF Updates, TakesCommand, ClientMayDisturb, Admitted, ThreadsInv, TxControl,
         TxEntry, pc
<1>3. /\ local'["main"].pc = "a_count" /\ local'["main"].ret = "set"
      /\ local'["main"].entry.type = "LOG_UPDATE" /\ local'["main"].entry.old = store
      /\ local'["tx"] = local["tx"]
  BY <1>0, UpdatesIs
<1>4. TxControl'
  BY <1>0, <1>2, <1>3 DEF TxControl, Active, MainEntry, TxEntry, Concluding, pc, AppendPC,
                    RollbackPC, ThreadsInv, OutcomeIs, Admitted
<1>5. MarkOfTransaction' /\ PreparedLast' /\ ~SettledWhen'
  BY <1>0, <1>1, <1>2, <1>3 DEF MarkOfTransaction, PreparedLast, Beginning, SettledWhen,
           Concluding, OutcomeIs, Admitted, pc, AppendPC, RollbackPC, ThreadsInv, LogContent
<1>6. \A th \in Thread : InRollback(th)'
  BY <1>2, <1>3, RollbackFree DEF RollbackPC, Thread
<1> QED
  BY <1>0, <1>1, <1>3, <1>4, <1>5, <1>6, ControlStep DEF pc

LEMMA AbortKeeps ==
    ASSUME PatientClient, ThreadsInv, SerialInv', AbortsLocally
    PROVE  ThreadsInv'
<1>0. TypesInv /\ UNCHANGED <<file, count, offset, store, mark, wstate, ballot>>
  BY DEF AbortsLocally, logVars, ThreadsInv, SerialInv, TypesInv
<1>1. Log' = Log /\ count' = count /\ LastType' = LastType
  BY <1>0, SameLog
<1>2. /\ local["main"].pc = "idle" /\ local["tx"].pc = "recv"
      /\ Admitted /\ RollsBack("main", "flags")
  BY DEF AbortsLocally, TakesCommand, ClientMayDisturb, Admitted, ThreadsInv,
         TxControl, TxEntry, pc
<1>3. /\ local'["main"].pc = "r_seek" /\ local'["main"].ret = "flags"
      /\ local'["main"].pos = count /\ local'["tx"] = local["tx"]
  BY <1>0, <1>2, RollsBackIs DEF Thread
<1>4. TxControl'
  BY <1>0, <1>2, <1>3 DEF TxControl, Active, MainEntry, TxEntry, Concluding, pc, AppendPC,
                    RollbackPC, ThreadsInv, OutcomeIs, Admitted
<1>5. MarkOfTransaction' /\ PreparedLast' /\ ~SettledWhen'
  BY <1>0, <1>1, <1>2, <1>3 DEF MarkOfTransaction, PreparedLast, Beginning, SettledWhen,
           Concluding, OutcomeIs, Admitted, pc, AppendPC, RollbackPC, ThreadsInv, LogContent
<1>6. \A th \in Thread : InRollback(th)'
  BY <1>0, <1>2, <1>3, RollbackFree, RollbackStarts DEF RollbackPC, Thread
<1> QED
  BY <1>0, <1>1, <1>3, <1>4, <1>5, <1>6, ControlStep DEF pc

LEMMA FlagsKeep ==
    ASSUME ThreadsInv, SerialInv', WillVoteAbort \/ SetsFlags
    PROVE  ThreadsInv'
<1>0. /\ TypesInv /\ UNCHANGED <<file, count, offset, store, mark, ballot>>
      /\ wstate'.is_active = wstate.is_active /\ wstate'.uncertain = wstate.uncertain
      /\ wstate'.transaction = wstate.transaction
  BY DEF WillVoteAbort, SetsFlags, logVars, ThreadsInv, SerialInv, TypesInv, ThreadsTypeOK
<1>1. Log' = Log /\ count' = count /\ LastType' = LastType
  BY <1>0, SameLog
<1>2. PICK from \in {"idle", "flags"}, to \in {"idle", "flags"} : Goes("main", from, to)
  BY DEF WillVoteAbort, SetsFlags
<1>3. /\ local["main"].pc \in {"idle", "flags"} /\ local'["main"].pc \in {"idle", "flags"}
      /\ local'["tx"] = local["tx"]
  BY <1>0, <1>2, GoesIs DEF Thread
<1>4. TxControl'
  BY <1>0, <1>3 DEF TxControl, Active, MainEntry, TxEntry, Concluding, pc, AppendPC,
                    RollbackPC, ThreadsInv, OutcomeIs, Admitted
<1>5. MarkOfTransaction' /\ PreparedLast' /\ (SettledWhen' => Settled)
  BY <1>0, <1>1, <1>3 DEF MarkOfTransaction, PreparedLast, Beginning, SettledWhen,
           Concluding, OutcomeIs, Admitted, pc, AppendPC, RollbackPC, ThreadsInv, LogContent
<1>6. \A th \in Thread : InRollback(th)'
  <2>1. InRollback("tx")
    BY DEF ThreadsInv, Thread
  <2>2. InRollback("tx")'
    BY <1>0, <1>3, <2>1, RollbackKept DEF Thread
  <2> QED
    BY <1>3, <2>2, RollbackFree DEF RollbackPC, Thread
<1> QED
  BY <1>0, <1>1, <1>3, <1>4, <1>5, <1>6, ControlStep DEF pc

(* The store, inside and outside a transaction.                            *)
LEMMA StoreKeeps ==
    ASSUME ThreadsInv, SerialInv', SetsStore
    PROVE  ThreadsInv'
<1>0. TypesInv /\ UNCHANGED <<file, count, offset, mark, wstate, ballot>>
  BY DEF SetsStore, logVars, ThreadsInv, SerialInv, TypesInv
<1>1. Log' = Log /\ count' = count /\ LastType' = LastType
  BY <1>0, SameLog
<1>2. Goes("main", "set", "idle")
  BY DEF SetsStore
<1>3. /\ local["main"].pc = "set" /\ local'["main"].pc = "idle"
      /\ local'["tx"] = local["tx"]
  BY <1>0, <1>2, GoesIs DEF Thread
<1>4. local["tx"].pc = "recv" /\ Undone(Log) # {}
  BY <1>3 DEF ThreadsInv, TxControl, MainEntry, LogContent, pc
<1>5. TxControl'
  BY <1>0, <1>3, <1>4 DEF TxControl, Active, MainEntry, TxEntry, Concluding, pc, AppendPC,
                    RollbackPC, ThreadsInv, OutcomeIs, Admitted
<1>6. MarkOfTransaction' /\ PreparedLast' /\ (SettledWhen' => Settled)
  BY <1>0, <1>1, <1>3, <1>4 DEF MarkOfTransaction, PreparedLast, Beginning, SettledWhen,
           Concluding, OutcomeIs, Admitted, pc, AppendPC, RollbackPC, ThreadsInv, LogContent
<1>7. LogContent'
  BY <1>1, <1>3, <1>6 DEF ThreadsInv, LogContent, LogFilled, Settled, pc
<1>8. \A th \in Thread : InRollback(th)'
  BY <1>3, <1>4, RollbackFree DEF RollbackPC, Thread
<1>9. Recoverable'
  BY <1>0, <1>1, <1>4 DEF ThreadsInv, Recoverable, RolledBackStore
<1>10. DecidesJoined' /\ CommitsDecided' /\ PromiseRemembered'
  BY <1>0, <1>1 DEF ThreadsInv, DecidesJoined, CommitsDecided, PromiseRemembered
<1> QED
  BY <1>5, <1>7, <1>8, <1>9, <1>10 DEF ThreadsInv

LEMMA OutsideKeeps ==
    ASSUME ThreadsInv, SerialInv', NEW v \in Value, UpdatesOutside(v)
    PROVE  ThreadsInv'
<1>0. TypesInv /\ UNCHANGED <<file, count, offset, wstate, ballot, local>>
  BY DEF UpdatesOutside, logVars, ThreadsInv, SerialInv, TypesInv
<1>1. Log' = Log /\ count' = count /\ LastType' = LastType
  BY <1>0, SameLog
<1>2. local["main"].pc = "idle" /\ local["tx"].pc = "none"
  BY DEF UpdatesOutside, TakesCommand, ThreadsInv, TxControl, Active, pc
<1>3. TxControl'
  BY <1>0, <1>2 DEF TxControl, Active, MainEntry, TxEntry, Concluding, pc, AppendPC,
                    RollbackPC, ThreadsInv, OutcomeIs, Admitted
<1>4. LogContent'
  BY <1>0, <1>1 DEF ThreadsInv, LogContent, LogFilled, Settled, pc, MarkOfTransaction,
          PreparedLast, SettledWhen, Beginning, Concluding, OutcomeIs, Admitted
<1>5. \A th \in Thread : InRollback(th)'
  BY <1>0, <1>2, RollbackFree DEF RollbackPC, Thread
<1>6. Recoverable'
  <2>1. Settled
    BY <1>2 DEF ThreadsInv, LogContent, SettledWhen, pc
  <2>2. RolledBackStore(Log, v) = v
    BY <2>1, SettledIs DEF ThreadsInv
  <2> QED
    BY <1>1, <2>2 DEF Recoverable, UpdatesOutside
<1>7. DecidesJoined' /\ CommitsDecided' /\ PromiseRemembered'
  BY <1>0, <1>1 DEF ThreadsInv, DecidesJoined, CommitsDecided, PromiseRemembered
<1> QED
  BY <1>3, <1>4, <1>5, <1>6, <1>7 DEF ThreadsInv

(* The transaction thread.                                                 *)
LEMMA PrepareKeeps ==
    ASSUME Serial, ThreadsInv, SerialInv', NEW t \in Tid, t = wstate.transaction,
           PreparesToCommit(t)
    PROVE  ThreadsInv'
<1>0. TypesInv /\ UNCHANGED <<file, count, offset, store, mark, wstate, ballot>>
  BY DEF PreparesToCommit, logVars, ThreadsInv, SerialInv, TypesInv
<1>1. Log' = Log /\ count' = count /\ LastType' = LastType
  BY <1>0, SameLog
<1>2. /\ local["main"].pc = "idle" /\ local["tx"].pc = "recv"
      /\ Appends("tx", EntryOf("LOG_PREPARED", t), "vote_prepared")
  BY DEF PreparesToCommit, Receives, TxMayStart
<1>3. /\ local'["tx"].pc = "a_count" /\ local'["tx"].ret = "vote_prepared"
      /\ local'["tx"].entry.type = "LOG_PREPARED" /\ local'["tx"].entry.tid = t
      /\ local'["main"] = local["main"]
  BY <1>0, <1>2, AppendsIs DEF Thread, EntryOf
<1>4. TxControl'
  BY <1>0, <1>2, <1>3 DEF TxControl, Active, MainEntry, TxEntry, Concluding, pc, AppendPC,
                    RollbackPC, ThreadsInv, OutcomeIs, Admitted
<1>5. MarkOfTransaction' /\ PreparedLast' /\ ~SettledWhen'
  BY <1>0, <1>1, <1>2, <1>3 DEF MarkOfTransaction, PreparedLast, Beginning, SettledWhen,
           Concluding, OutcomeIs, Admitted, pc, AppendPC, RollbackPC, ThreadsInv, LogContent
<1>6. \A th \in Thread : InRollback(th)'
  BY <1>2, <1>3, RollbackFree DEF RollbackPC, Thread
<1> QED
  BY <1>0, <1>1, <1>2, <1>3, <1>4, <1>5, <1>6, ControlStep DEF pc

LEMMA RefuseKeeps ==
    ASSUME Serial, ThreadsInv, SerialInv', NEW t \in Tid, t = wstate.transaction,
           PreparesToAbort(t) \/ RefusedByManager(t)
    PROVE  ThreadsInv'
<1>0. /\ TypesInv /\ UNCHANGED <<file, count, offset, store, mark, ballot>>
      /\ wstate'.is_active = wstate.is_active /\ wstate'.uncertain = wstate.uncertain
      /\ wstate'.transaction = wstate.transaction
  BY DEF PreparesToAbort, RefusedByManager, logVars, ThreadsInv, SerialInv, TypesInv,
         ThreadsTypeOK
<1>1. Log' = Log /\ count' = count /\ LastType' = LastType
  BY <1>0, SameLog
<1>2. PICK to \in {"vote_abort", "closing"} :
         Goes("tx", "recv", to) /\ (to = "closing" => ~Admitted)
  BY DEF PreparesToAbort, RefusedByManager, Admitted, ThreadsInv, DecidesJoined
<1>3. /\ local["main"].pc = "idle" /\ local["tx"].pc = "recv"
      /\ local'["tx"].pc = to /\ local'["main"] = local["main"]
  BY <1>0, <1>2, GoesIs DEF PreparesToAbort, RefusedByManager, Receives, TxMayStart, Thread
<1>4. TxControl'
  BY <1>0, <1>3 DEF TxControl, Active, MainEntry, TxEntry, Concluding, pc, AppendPC,
                    RollbackPC, ThreadsInv, OutcomeIs, Admitted
<1>5. MarkOfTransaction' /\ PreparedLast' /\ (SettledWhen' => Settled)
  BY <1>0, <1>1, <1>2, <1>3 DEF MarkOfTransaction, PreparedLast, Beginning, SettledWhen,
           Concluding, OutcomeIs, Admitted, pc, AppendPC, RollbackPC, ThreadsInv, LogContent
<1>6. \A th \in Thread : InRollback(th)'
  BY <1>3, RollbackFree DEF RollbackPC, Thread
<1> QED
  BY <1>0, <1>1, <1>3, <1>4, <1>5, <1>6, ControlStep DEF pc

LEMMA VoteKeeps ==
    ASSUME ThreadsInv, SerialInv', NEW t \in Tid, t = wstate.transaction, SendsVote(t)
    PROVE  ThreadsInv'
<1>0. TypesInv /\ UNCHANGED <<file, count, offset, store, mark, wstate>>
  BY DEF SendsVote, logVars, ThreadsInv, SerialInv, TypesInv
<1>1. Log' = Log /\ count' = count /\ LastType' = LastType
  BY <1>0, SameLog
<1>2. PICK from \in {"vote_prepared", "vote_abort"} : Goes("tx", from, "voted")
  BY VoteIs
<1>3. /\ local["tx"].pc = from /\ local'["tx"].pc = "voted"
      /\ local'["main"] = local["main"]
  BY <1>0, <1>2, GoesIs DEF Thread
<1>4. local["main"].pc = "idle"
  BY <1>3 DEF ThreadsInv, SerialInv, Exclusive, DownAlone, pc
<1>5. /\ ballot'[t].vote = "PREPARED" => local["tx"].pc = "vote_prepared"
      /\ \A s \in Tid : /\ s # t => ballot'[s] = ballot[s]
                        /\ ballot'[s].outcome = ballot[s].outcome
                        /\ ballot'[s].joined = ballot[s].joined
                        /\ ballot'[s].admitted = ballot[s].admitted
  <2>1. CASE local["tx"].pc = "vote_prepared"
    <3>1. ballot' = [ballot EXCEPT ![t].vote = "PREPARED"]
      BY <2>1, VoteIs DEF Goes
    <3> QED
      BY <1>0, <2>1, <3>1 DEF TypesInv, ThreadsTypeOK, Ballot
  <2>2. CASE local["tx"].pc = "vote_abort"
    <3>1. ballot' = [ballot EXCEPT ![t].vote = "ABORT"]
      BY <2>2, VoteIs DEF Goes
    <3> QED
      BY <1>0, <3>1 DEF TypesInv, ThreadsTypeOK, Ballot
  <2> QED
    BY <1>3, <2>1, <2>2
<1>6. TxControl'
  BY <1>0, <1>3, <1>4 DEF TxControl, Active, MainEntry, TxEntry, Concluding, pc,
                    AppendPC, RollbackPC, ThreadsInv, OutcomeIs, Admitted
<1>7. MarkOfTransaction' /\ PreparedLast' /\ ~SettledWhen'
  BY <1>0, <1>1, <1>3, <1>4 DEF MarkOfTransaction, PreparedLast, Beginning, SettledWhen,
           Concluding, pc, AppendPC, RollbackPC, ThreadsInv, LogContent
<1>8. LogContent'
  BY <1>1, <1>3, <1>4, <1>7 DEF ThreadsInv, LogContent, LogFilled, pc
<1>9. \A th \in Thread : InRollback(th)'
  BY <1>3, <1>4, RollbackFree DEF RollbackPC, Thread
<1>10. PromiseRemembered'
  <2>1. ballot'[t].vote = "PREPARED" =>
           LastType = "LOG_PREPARED" /\ Log[count].tid = t
    BY <1>4, <1>5 DEF ThreadsInv, LogContent, PreparedLast, pc
  <2> QED
    BY <1>1, <1>5, <2>1 DEF ThreadsInv, PromiseRemembered
<1>11. DecidesJoined' /\ Recoverable' /\ CommitsDecided'
  BY <1>0, <1>1, <1>5 DEF ThreadsInv, DecidesJoined, Recoverable, CommitsDecided
<1> QED
  BY <1>6, <1>8, <1>9, <1>10, <1>11 DEF ThreadsInv

LEMMA LearnKeeps ==
    ASSUME Serial, ThreadsInv, SerialInv', NEW t \in Tid, t = wstate.transaction,
           LearnsCommit(t) \/ LearnsAbort(t)
    PROVE  ThreadsInv'
<1>0. TypesInv /\ UNCHANGED <<file, count, offset, store, mark, wstate, ballot>>
  BY DEF LearnsCommit, LearnsAbort, logVars, ThreadsInv, SerialInv, TypesInv
<1>1. Log' = Log /\ count' = count /\ LastType' = LastType
  BY <1>0, SameLog
<1>2. local["main"].pc = "idle" /\ local["tx"].pc \in {"recv", "uncertain"}
  BY DEF LearnsCommit, LearnsAbort, Receives, TxMayStart
<1>3. /\ local'["tx"].ret = "conclude" /\ local'["main"] = local["main"]
      /\ \/ /\ local'["tx"].pc = "a_count" /\ OutcomeIs("COMMIT")
            /\ local'["tx"].entry.type = "LOG_COMMIT" /\ local'["tx"].entry.tid = t
         \/ /\ local'["tx"].pc = "r_seek" /\ OutcomeIs("ABORT")
            /\ local'["tx"].pos = count
  <2>1. CASE LearnsCommit(t)
    <3>1. Appends("tx", EntryOf("LOG_COMMIT", t), "conclude") /\ OutcomeIs("COMMIT")
      BY <2>1 DEF LearnsCommit, OutcomeIs, Admitted
    <3> QED
      BY <1>0, <3>1, AppendsIs DEF Thread, EntryOf
  <2>2. CASE LearnsAbort(t)
    <3>1. RollsBack("tx", "conclude") /\ OutcomeIs("ABORT")
      BY <2>2 DEF LearnsAbort, OutcomeIs, Admitted
    <3> QED
      BY <1>0, <3>1, RollsBackIs DEF Thread
  <2> QED
    BY <2>1, <2>2
<1>4. TxControl'
  BY <1>0, <1>2, <1>3 DEF TxControl, Active, MainEntry, TxEntry, Concluding, pc, AppendPC,
                    RollbackPC, ThreadsInv, OutcomeIs, Admitted
<1>5. MarkOfTransaction' /\ PreparedLast' /\ ~SettledWhen'
  BY <1>0, <1>1, <1>2, <1>3 DEF MarkOfTransaction, PreparedLast, Beginning, SettledWhen,
           Concluding, OutcomeIs, Admitted, pc, AppendPC, RollbackPC, ThreadsInv, LogContent
<1>6. \A th \in Thread : InRollback(th)'
  BY <1>0, <1>2, <1>3, RollbackFree, RollbackStarts DEF RollbackPC, Thread
<1> QED
  BY <1>0, <1>1, <1>2, <1>3, <1>4, <1>5, <1>6, ControlStep DEF pc

LEMMA ConcludeKeeps ==
    ASSUME ThreadsInv, SerialInv', BecomesUncertain \/ Concludes \/ ThreadEnds
    PROVE  ThreadsInv'
<1>0. /\ TypesInv /\ UNCHANGED <<file, count, offset, store, mark, ballot>>
      /\ wstate'.transaction = wstate.transaction
  BY DEF BecomesUncertain, Concludes, ThreadEnds, logVars, ThreadsInv, SerialInv,
         TypesInv, ThreadsTypeOK
<1>1. Log' = Log /\ count' = count /\ LastType' = LastType
  BY <1>0, SameLog
<1>2. /\ local'["main"] = local["main"]
      /\ \/ /\ local["tx"].pc = "voted" /\ local'["tx"].pc = "uncertain"
            /\ wstate'.is_active = wstate.is_active
         \/ /\ local["tx"].pc = "conclude" /\ local'["tx"].pc = "closing"
            /\ wstate'.is_active = wstate.is_active /\ wstate'.uncertain = FALSE
         \/ /\ local["tx"].pc = "closing" /\ local'["tx"].pc = "none"
            /\ wstate'.is_active = FALSE /\ wstate'.uncertain = wstate.uncertain
  <2>1. wstate \in [is_active : BOOLEAN, uncertain : BOOLEAN,
                    do_commit : BOOLEAN, do_abort : BOOLEAN,
                    transaction : Tid \cup {0}]
    BY <1>0 DEF TypesInv, ThreadsTypeOK
  <2>2. CASE BecomesUncertain
    <3>1. Goes("tx", "voted", "uncertain") /\ wstate' = [wstate EXCEPT !.uncertain = TRUE]
      BY <2>2 DEF BecomesUncertain
    <3> QED
      BY <1>0, <2>1, <3>1, GoesIs DEF Thread
  <2>3. CASE Concludes
    <3>1. Goes("tx", "conclude", "closing") /\ wstate' = [wstate EXCEPT !.uncertain = FALSE]
      BY <2>3 DEF Concludes
    <3> QED
      BY <1>0, <2>1, <3>1, GoesIs DEF Thread
  <2>4. CASE ThreadEnds
    <3>1. Goes("tx", "closing", "none") /\ wstate' = [wstate EXCEPT !.is_active = FALSE]
      BY <2>4 DEF ThreadEnds
    <3> QED
      BY <1>0, <2>1, <3>1, GoesIs DEF Thread
  <2> QED
    BY <2>2, <2>3, <2>4
<1>3. local["main"].pc = "idle"
  BY <1>2 DEF ThreadsInv, SerialInv, Exclusive, DownAlone, pc
<1>4. TxControl'
  BY <1>0, <1>2, <1>3 DEF TxControl, Active, MainEntry, TxEntry, Concluding, pc, AppendPC,
                    RollbackPC, ThreadsInv, OutcomeIs, Admitted
<1>5. SettledWhen' => Settled
  BY <1>0, <1>2, <1>3 DEF Beginning, SettledWhen, pc, AppendPC, ThreadsInv, LogContent
<1>6. MarkOfTransaction' /\ PreparedLast'
  <2>1. Settled => LastType # "LOG_PREPARED"
    BY SettledIs DEF ThreadsInv
  <2>2. local["tx"].pc \in {"conclude", "closing"} => Settled
    BY DEF ThreadsInv, LogContent, SettledWhen, pc
  <2> QED
    BY <1>0, <1>1, <1>2, <1>3, <2>1, <2>2
       DEF MarkOfTransaction, PreparedLast, Beginning, Concluding, pc, AppendPC,
           RollbackPC, ThreadsInv, LogContent
<1>7. \A th \in Thread : InRollback(th)'
  BY <1>2, <1>3, RollbackFree DEF RollbackPC, Thread
<1> QED
  BY <1>0, <1>1, <1>2, <1>3, <1>4, <1>5, <1>6, <1>7, ControlStep DEF pc

(* The manager.                                                            *)
LEMMA DecisionKeeps ==
    ASSUME ThreadsInv, SerialInv', NEW t \in Tid, ManagerStep(t)
    PROVE  ThreadsInv'
<1>0. TypesInv /\ UNCHANGED <<file, count, offset, store, mark, wstate, local>>
  BY ManagerStepIs DEF ThreadsInv, SerialInv, TypesInv
<1>1. Log' = Log /\ count' = count /\ LastType' = LastType
  BY <1>0, SameLog
<1>2. \A s \in Tid :
         /\ ballot'[s].vote = ballot[s].vote
         /\ ballot'[s].joined = ballot[s].joined
         /\ ballot[s].admitted => ballot'[s].admitted
         /\ ballot'[s].admitted # ballot[s].admitted =>
               ballot[s].joined /\ ballot'[s].outcome = "none"
         /\ \/ ballot'[s].outcome = ballot[s].outcome
            \/ /\ ballot[s].outcome = "none" /\ ballot[s].joined
               /\ ballot'[s].outcome = "TX_ERROR" => ~ballot'[s].admitted
  <2>0. ballot \in [Tid -> Ballot]
    BY <1>0 DEF TypesInv, ThreadsTypeOK
  <2>j. ballot[t].joined
    BY ManagerStepIs DEF ThreadsInv, DecidesJoined
  <2>1. CASE ballot' = [ballot EXCEPT ![t].admitted = TRUE]
    BY <2>0, <2>1, <2>j, ManagerStepIs DEF Ballot
  <2>2. ASSUME NEW o \in {"COMMIT", "ABORT", "TX_ERROR"},
               ballot' = [ballot EXCEPT ![t].outcome = o],
               ballot[t].outcome = "none",
               o = "TX_ERROR" => ~ballot[t].admitted
        PROVE  <1>2
    BY <2>0, <2>2, <2>j DEF Ballot
  <2> QED
    BY <2>1, <2>2, ManagerStepIs
<1>4. /\ OutcomeIs("COMMIT") => OutcomeIs("COMMIT")'
      /\ OutcomeIs("ABORT") => OutcomeIs("ABORT")'
      /\ Admitted => Admitted'
  BY <1>0, <1>2 DEF OutcomeIs, Admitted
<1>5. TxControl'
  <2>1. Active'
    BY <1>0 DEF ThreadsInv, TxControl, Active, Concluding, pc
  <2>2. MainEntry'
    BY <1>0, <1>4 DEF ThreadsInv, TxControl, MainEntry, pc, AppendPC, RollbackPC
  <2>3. TxEntry'
    BY <1>0, <1>4 DEF ThreadsInv, TxControl, TxEntry, pc
  <2> QED
    BY <2>1, <2>2, <2>3 DEF TxControl
<1>6. SettledWhen' => SettledWhen
  BY <1>0, <1>4 DEF SettledWhen, Beginning, pc
<1>7. LogContent'
  <2>1. MarkOfTransaction' /\ PreparedLast'
    BY <1>0, <1>1 DEF ThreadsInv, LogContent, MarkOfTransaction, PreparedLast, Beginning,
                     Concluding, pc
  <2> QED
    BY <1>0, <1>1, <1>6, <2>1 DEF ThreadsInv, LogContent, LogFilled, Settled, pc
<1>8. \A th \in Thread : InRollback(th)'
  BY <1>0, RollbackKept DEF ThreadsInv
<1>9. Recoverable' /\ CommitsDecided' /\ DecidesJoined'
  BY <1>0, <1>1, <1>2 DEF ThreadsInv, Recoverable, CommitsDecided, DecidesJoined
<1>10. PromiseRemembered'
  BY <1>1, <1>2 DEF ThreadsInv, PromiseRemembered
<1> QED
  BY <1>5, <1>7, <1>8, <1>9, <1>10 DEF ThreadsInv

LEMMA OtherStepKeeps ==
    ASSUME Serial, PatientClient, ThreadsInv, OtherStep
    PROVE  ThreadsInv'
<1>0. SerialInv'
  BY OtherStepSerial DEF ThreadsInv
<1>1. \A t \in {wstate.transaction} \ {0} : t \in Tid /\ t = wstate.transaction
  BY DEF ThreadsInv, SerialInv, ThreadsTypeOK
<1> QED
  BY <1>0, <1>1, StartKeeps, EnterKeeps, RequestKeeps, UpdateKeeps, AbortKeeps,
     FlagsKeep, StoreKeeps, OutsideKeeps, PrepareKeeps, RefuseKeeps, VoteKeeps,
     LearnKeeps, ConcludeKeeps, DecisionKeeps DEF OtherStep

(* Inside txlog_append and update_rollback.                                *)
LEMMA LogUnchanged ==
    ASSUME SerialInv, NEW th \in Thread, LogStep(th), ~AppendStoresCount(th)
    PROVE  Log' = Log /\ count' = count /\ LastType' = LastType
<1>1. count' = count /\ \A i \in 1..count : Log'[i] = Log[i]
  BY LogEffect
<1>2. Log' = Log
  <2>1. Log = [i \in 1..count |-> Log[i]]
    BY DEF Log
  <2>2. Log' = [i \in 1..count |-> Log'[i]]
    BY <1>1 DEF Log
  <2> QED
    BY <1>1, <2>1, <2>2
<1> QED
  BY <1>1, <1>2 DEF LastType

LEMMA InsideAppendKeeps ==
    ASSUME ThreadsInv, SerialInv', NEW th \in Thread, LogStep(th),
           \/ AppendReadsCount(th) \/ AppendSeeks(th) \/ AppendWrites(th)
           \/ AppendLoadsCount(th)
    PROVE  ThreadsInv'
<1>0. /\ TypesInv /\ SerialInv
      /\ UNCHANGED <<store, mark, wstate, ballot>>
  BY DEF AppendReadsCount, AppendSeeks, AppendWrites, AppendLoadsCount,
         ThreadsInv, SerialInv, TypesInv
<1>2. /\ local[th].pc \in AppendPC /\ local'[th].pc \in AppendPC
      /\ local'[th].ret = local[th].ret /\ local'[th].entry = local[th].entry
      /\ \A o \in Thread : o # th => local'[o] = local[o]
  BY <1>0, LogStepIs DEF pc, AppendPC
<1>1. Log' = Log /\ count' = count /\ LastType' = LastType
  <2>1. ~AppendStoresCount(th)
    <3>1. local'[th].pc # local[th].ret
      BY <1>0, <1>2 DEF TypesInv, ThreadsTypeOK, LocalState, AppendPC, MainPC, TxPC
    <3> QED
      BY <1>0, <3>1, LogStepIs DEF pc
  <2> QED
    BY <1>0, <2>1, LogUnchanged
<1>3. \A o \in Thread : InRollback(o)'
  <2>1. \A o \in Thread : local'[o].pc \notin RollbackPC
    <3>1. \A o \in Thread : o # th => local[o].pc \in {"none", "recv", "uncertain", "idle"}
      BY <1>0, <1>2, Alone DEF pc, Thread
    <3> QED
      BY <1>2, <3>1 DEF AppendPC, RollbackPC
  <2> QED
    BY <2>1, RollbackFree
<1>4. /\ local'["main"].ret = local["main"].ret
      /\ local'["main"].entry = local["main"].entry
      /\ local'["tx"].ret = local["tx"].ret
      /\ local'["tx"].entry = local["tx"].entry
      /\ \/ local'["main"].pc = local["main"].pc
         \/ local'["main"].pc \in AppendPC /\ local["main"].pc \in AppendPC
      /\ \/ local'["tx"].pc = local["tx"].pc
         \/ local'["tx"].pc \in AppendPC /\ local["tx"].pc \in AppendPC
  BY <1>2 DEF Thread
<1>5. TxControl'
  BY <1>0, <1>1, <1>4 DEF TxControl, Active, MainEntry, TxEntry, Concluding, pc, AppendPC,
                    RollbackPC, ThreadsInv, OutcomeIs, Admitted
<1>6. MarkOfTransaction' /\ PreparedLast' /\ (SettledWhen' => Settled)
  BY <1>0, <1>1, <1>4 DEF MarkOfTransaction, PreparedLast, Beginning, SettledWhen,
           Concluding, OutcomeIs, Admitted, pc, AppendPC, RollbackPC, ThreadsInv, LogContent
<1>7. pc("main")' # "set"
  <2>1. th = "main" \/ th = "tx"
    BY DEF Thread
  <2>2. CASE th = "main"
    BY <1>2, <2>2 DEF pc, AppendPC
  <2>3. CASE th = "tx"
    <3>1. pc("main") = "idle" /\ local'["main"] = local["main"]
      BY <1>0, <1>2, <2>3, Alone DEF pc, Thread
    <3> QED
      BY <3>1 DEF pc
  <2> QED
    BY <2>1, <2>2, <2>3
<1> QED
  BY <1>0, <1>1, <1>3, <1>5, <1>6, <1>7, ControlStep

(* The head of the rollback loop; a whole log without a begin, commit or   *)
(* abort is an empty one.                                                  *)
LEMMA SeekKeeps ==
    ASSUME ThreadsInv, SerialInv', NEW th \in Thread, LogStep(th), RollbackSeeks(th)
    PROVE  ThreadsInv'
<1>0. TypesInv /\ SerialInv /\ UNCHANGED <<file, store, mark, wstate, ballot>>
  BY DEF RollbackSeeks, ThreadsInv, SerialInv, TypesInv
<1>t. /\ local[th].pos \in Nat /\ count \in Nat
      /\ local[th].ret \in MainPC \cup TxPC /\ LabelOf(th, local[th])
  BY <1>0 DEF TypesInv, ThreadsTypeOK, LocalState, Labels
<1>2. /\ local[th].pc = "r_seek" /\ local'[th].pos = local[th].pos
      /\ local'[th].pc = IF local[th].pos > 0 THEN "r_read" ELSE local[th].ret
      /\ local'[th].ret = local[th].ret
      /\ \A o \in Thread : o # th => local'[o] = local[o]
  BY <1>0, LogStepIs DEF pc
<1>a. /\ th = "main" => local["tx"].pc \in {"none", "recv", "uncertain"}
      /\ th = "tx" => local["main"].pc = "idle"
  BY <1>0, <1>2, Alone DEF pc, RollbackPC
<1>1. Log' = Log /\ count' = count /\ LastType' = LastType
  BY <1>0, SameLog DEF RollbackSeeks
<1>3. RolledBackTo(local[th].pos)
  BY <1>2 DEF ThreadsInv, InRollback, pc, RollbackPC
<1>4. ASSUME NEW o \in Thread, o # th PROVE InRollback(o)'
  BY <1>2, <1>4, <1>a, RollbackFree DEF RollbackPC, Thread
<1>5. CASE local[th].pos > 0
  <2>1. local'[th].pc = "r_read" /\ offset' = local[th].pos - 1
    BY <1>2, <1>5 DEF RollbackSeeks
  <2>2. InRollback(th)'
    <3>1. RolledBackTo(local[th].pos)'
      BY <1>0, <1>1, <1>2, <1>3 DEF RolledBackTo
    <3> QED
      BY <1>2, <2>1, <3>1 DEF InRollback, pc
  <2>3. /\ local'["main"].ret = local["main"].ret
        /\ local'["tx"].ret = local["tx"].ret
        /\ \/ local'["main"] = local["main"]
           \/ /\ local'["main"].pc = "r_read" /\ local["main"].pc = "r_seek"
              /\ local'["tx"] = local["tx"]
        /\ \/ local'["tx"] = local["tx"]
           \/ /\ local'["tx"].pc = "r_read" /\ local["tx"].pc = "r_seek"
              /\ local'["main"] = local["main"]
        /\ local'["main"].pc # "set"
    BY <1>2, <1>a, <2>1 DEF Thread
  <2>4. TxControl'
    BY <1>0, <1>1, <2>3 DEF TxControl, Active, MainEntry, TxEntry, Concluding, pc, AppendPC,
                    RollbackPC, ThreadsInv, OutcomeIs, Admitted
  <2>5. MarkOfTransaction' /\ PreparedLast' /\ (SettledWhen' => Settled)
    BY <1>0, <1>1, <2>3 DEF MarkOfTransaction, PreparedLast, Beginning, SettledWhen,
           Concluding, OutcomeIs, Admitted, pc, AppendPC, RollbackPC, ThreadsInv, LogContent
  <2> QED
    BY <1>0, <1>1, <1>4, <2>2, <2>3, <2>4, <2>5, ControlStep DEF pc
<1>6. CASE local[th].pos = 0
  <2>1. count = 0
    <3>1. SUFFICES ASSUME count > 0 PROVE FALSE
      BY <1>t
    <3>2. Log[1].type \in MarkType
      BY <3>1 DEF ThreadsInv, LogContent, LogFilled, MarkType
    <3> QED
      BY <1>t, <1>3, <1>6, <3>1, <3>2 DEF RolledBackTo
  <2>2. /\ th = "main" /\ local["tx"].pc = "none" /\ local["main"].ret = "idle"
    <3>1. local["tx"].pc = "none" \/ Beginning
      BY <1>t, <2>1 DEF ThreadsInv, LogContent, MarkOfTransaction, pc
    <3>2. th = "main"
      BY <1>2, <1>a, <3>1 DEF Thread, Beginning, pc, AppendPC
    <3>3. ~Beginning
      BY <1>2, <3>2 DEF Beginning, pc, AppendPC
    <3> QED
      BY <1>2, <3>1, <3>2, <3>3 DEF ThreadsInv, TxControl, MainEntry, pc, RollbackPC
  <2>3. /\ local["main"].pc = "r_seek" /\ local'["main"].pc = "idle"
        /\ local'["tx"] = local["tx"]
    BY <1>2, <1>6, <2>2 DEF Thread
  <2>4. LastType # "LOG_PREPARED" /\ Settled
    BY <2>1 DEF LastType, Settled
  <2>5. TxControl'
    BY <1>0, <1>1, <2>2, <2>3 DEF TxControl, Active, MainEntry, TxEntry, Concluding, pc,
              AppendPC, RollbackPC, ThreadsInv, OutcomeIs, Admitted
  <2>6. MarkOfTransaction' /\ PreparedLast'
    BY <1>0, <1>1, <2>2, <2>3, <2>4 DEF MarkOfTransaction, PreparedLast, pc
  <2>7. InRollback("main")'
    BY <2>3, RollbackFree DEF RollbackPC, Thread
  <2> QED
    BY <1>0, <1>1, <1>4, <2>2, <2>3, <2>4, <2>5, <2>6, <2>7, ControlStep DEF pc
<1> QED
  BY <1>t, <1>5, <1>6

LEMMA ReadKeeps ==
    ASSUME ThreadsInv, SerialInv', NEW th \in Thread, LogStep(th), RollbackReads(th)
    PROVE  ThreadsInv'
<1>0. TypesInv /\ SerialInv /\ UNCHANGED <<file, count, store, mark, wstate, ballot>>
  BY DEF RollbackReads, ThreadsInv, SerialInv, TypesInv
<1>t. /\ local[th].pos \in Nat /\ count \in Nat /\ LabelOf(th, local[th])
      /\ Len(file) \in Nat /\ count <= Len(file)
  BY <1>0 DEF TypesInv, ThreadsTypeOK, LocalState, Labels, SerialInv
<1>2. /\ local[th].pc = "r_read" /\ local'[th].pos = local[th].pos
      /\ local'[th].pc = "r_apply" /\ local'[th].ret = local[th].ret
      /\ local'[th].entry = IF offset < Len(file) THEN file[offset + 1]
                            ELSE local[th].entry
      /\ \A o \in Thread : o # th => local'[o] = local[o]
  BY <1>0, LogStepIs DEF pc
<1>a. /\ th = "main" => local["tx"].pc \in {"none", "recv", "uncertain"}
      /\ th = "tx" => local["main"].pc = "idle"
  BY <1>0, <1>2, Alone DEF pc, RollbackPC
<1>1. Log' = Log /\ count' = count /\ LastType' = LastType
  BY <1>0, SameLog
<1>3. RolledBackTo(local[th].pos) /\ offset = local[th].pos - 1
  BY <1>2 DEF ThreadsInv, InRollback, pc, RollbackPC
<1>4. local[th].pos \in 1..count
  BY <1>t, <1>2, <1>3 DEF RolledBackTo, LabelOf
<1>5. local'[th].entry = Log[local[th].pos]
  BY <1>t, <1>0, <1>2, <1>3, <1>4, LogTyped
<1>6. InRollback(th)'
  <2>1. RolledBackTo(local[th].pos)'
    BY <1>0, <1>1, <1>2, <1>3 DEF RolledBackTo
  <2> QED
    BY <1>1, <1>2, <1>5, <2>1 DEF InRollback, pc
<1>7. ASSUME NEW o \in Thread, o # th PROVE InRollback(o)'
  BY <1>2, <1>7, <1>a, RollbackFree DEF RollbackPC, Thread
<1>8. /\ local'["main"].ret = local["main"].ret
      /\ local'["tx"].ret = local["tx"].ret
      /\ \/ local'["main"] = local["main"]
         \/ /\ local'["main"].pc = "r_apply" /\ local["main"].pc = "r_read"
            /\ local'["tx"] = local["tx"]
      /\ \/ local'["tx"] = local["tx"]
         \/ /\ local'["tx"].pc = "r_apply" /\ local["tx"].pc = "r_read"
            /\ local'["main"] = local["main"]
      /\ local'["main"].pc # "set"
  BY <1>2, <1>a DEF Thread
<1>9. TxControl'
  BY <1>0, <1>1, <1>8 DEF TxControl, Active, MainEntry, TxEntry, Concluding, pc, AppendPC,
                    RollbackPC, ThreadsInv, OutcomeIs, Admitted
<1>10. MarkOfTransaction' /\ PreparedLast' /\ (SettledWhen' => Settled)
  BY <1>0, <1>1, <1>8 DEF MarkOfTransaction, PreparedLast, Beginning, SettledWhen,
           Concluding, OutcomeIs, Admitted, pc, AppendPC, RollbackPC, ThreadsInv, LogContent
<1> QED
  BY <1>0, <1>1, <1>6, <1>7, <1>8, <1>9, <1>10, ControlStep DEF pc

(* When the loop meets the mark it has restored the store.                 *)
LEMMA RolledBackIs ==
    ASSUME SerialInv, Recoverable, NEW pos \in 1..count, RolledBackTo(pos),
           Log[pos].type \in MarkType
    PROVE  StopsAt(Log) = pos /\ store = mark
<1>0. Log \in Seq(Entry) /\ Len(Log) = count /\ count \in Nat
  BY LogTyped
<1>1. StopsAt(Log) = pos
  <2>1. \A i \in 1..Len(Log) : Log[i].type \in MarkType => i <= pos
    BY <1>0 DEF RolledBackTo
  <2> QED
    BY <1>0, <2>1, StopsAtWhere
<1>2. CASE Undone(Log) = {}
  BY <1>0, <1>1, <1>2, RestoredIs DEF Recoverable
<1>3. CASE Undone(Log) # {}
  <2>1. PICK i \in Undone(Log) : /\ \A j \in Undone(Log) : i <= j
                                 /\ RolledBackStore(Log, store) = Log[i].old
    BY <1>0, <1>3, RestoredIs
  <2>2. i \in (pos + 1)..count /\ Log[i].type = "LOG_UPDATE"
    BY <1>0, <1>1 DEF Undone
  <2>3. \A j \in (pos + 1)..(i - 1) : Log[j].type # "LOG_UPDATE"
    BY <1>0, <1>1, <2>1, <2>2 DEF Undone
  <2>4. store = Log[i].old
    BY <2>2, <2>3 DEF RolledBackTo
  <2> QED
    BY <1>1, <2>1, <2>4 DEF Recoverable
<1> QED
  BY <1>1, <1>2, <1>3

LEMMA ApplyKeeps ==
    ASSUME ThreadsInv, SerialInv', NEW th \in Thread, LogStep(th), RollbackApplies(th)
    PROVE  ThreadsInv'
<1> DEFINE p == local[th].pos
           e == local[th].entry
<1>0. TypesInv /\ SerialInv /\ UNCHANGED <<file, count, offset, mark, wstate, ballot>>
  BY DEF RollbackApplies, ThreadsInv, SerialInv, TypesInv, logVars
<1>t. p \in Nat /\ count \in Nat /\ LabelOf(th, local[th])
  BY <1>0 DEF TypesInv, ThreadsTypeOK, LocalState, Labels
<1>2. /\ local[th].pc = "r_apply" /\ local'[th].ret = local[th].ret
      /\ \A o \in Thread : o # th => local'[o] = local[o]
      /\ IF e.type \in MarkType
           THEN /\ local'[th].pc = "a_count"
                /\ local'[th].entry = EntryOf("LOG_ABORT", e.tid)
           ELSE local'[th].pc = "r_seek" /\ local'[th].pos = p - 1
  BY <1>0, LogStepIs DEF pc
<1>a. /\ th = "main" => local["tx"].pc \in {"none", "recv", "uncertain"}
      /\ th = "tx" => local["main"].pc = "idle"
  BY <1>0, <1>2, Alone DEF pc, RollbackPC
<1>1. Log' = Log /\ count' = count /\ LastType' = LastType
  BY <1>0, SameLog
<1>3. RolledBackTo(p) /\ e = Log[p]
  BY <1>2 DEF ThreadsInv, InRollback, pc, RollbackPC
<1>4. p \in 1..count
  BY <1>t, <1>2, <1>3 DEF RolledBackTo, LabelOf
<1>5. ASSUME NEW o \in Thread, o # th PROVE InRollback(o)'
  BY <1>2, <1>5, <1>a, RollbackFree DEF RollbackPC, Thread
<1>6. store' = IF e.type = "LOG_UPDATE" THEN e.old ELSE store
  BY DEF RollbackApplies
<1>7. CASE e.type \in MarkType
  <2>1. StopsAt(Log) = p /\ store = mark
    BY <1>0, <1>3, <1>4, <1>7, RolledBackIs DEF ThreadsInv
  <2>2. store' = store /\ count > 0
    BY <1>t, <1>4, <1>6, <1>7 DEF MarkType
  <2>3. local["tx"].pc # "none" => e.tid = wstate.transaction
    <3>1. ~Beginning
      BY <1>2, <1>a DEF Beginning, pc, AppendPC, Thread
    <3> QED
      BY <1>3, <2>1, <3>1 DEF ThreadsInv, LogContent, MarkOfTransaction, pc
  <2>4. /\ local'[th].entry.type = "LOG_ABORT" /\ local'[th].entry.tid = e.tid
        /\ local'[th].pc = "a_count"
    BY <1>2, <1>7 DEF EntryOf
  <2>5. TxControl'
    <3>1. CASE th = "main"
      <4>1. /\ local["main"].pc = "r_apply" /\ local'["main"].pc = "a_count"
            /\ local'["main"].entry.type = "LOG_ABORT"
            /\ local'["main"].entry.tid = e.tid
            /\ local'["main"].ret = local["main"].ret /\ local'["tx"] = local["tx"]
            /\ local["tx"].pc \in {"none", "recv", "uncertain"}
        BY <1>2, <1>a, <2>4, <3>1 DEF Thread
      <4> QED
        BY <1>0, <1>1, <2>1, <2>2, <2>3, <4>1
           DEF TxControl, Active, MainEntry, TxEntry, Concluding, pc, AppendPC,
               RollbackPC, ThreadsInv, OutcomeIs, Admitted
    <3>2. CASE th = "tx"
      <4>1. /\ local["tx"].pc = "r_apply" /\ local'["tx"].pc = "a_count"
            /\ local'["tx"].entry.type = "LOG_ABORT"
            /\ local'["tx"].entry.tid = e.tid
            /\ local'["tx"].ret = local["tx"].ret /\ local'["main"] = local["main"]
            /\ local["main"].pc = "idle" /\ local["tx"].ret = "conclude"
        BY <1>2, <1>a, <1>t, <2>4, <3>2 DEF Thread, LabelOf, RollbackPC
      <4> QED
        BY <1>0, <1>1, <2>1, <2>2, <2>3, <4>1
           DEF TxControl, Active, MainEntry, TxEntry, Concluding, pc, AppendPC,
               RollbackPC, ThreadsInv, OutcomeIs, Admitted
    <3> QED
      BY <3>1, <3>2 DEF Thread
  <2>6. /\ local'["main"].ret = local["main"].ret
        /\ local'["tx"].ret = local["tx"].ret
        /\ \/ local'["main"] = local["main"]
           \/ /\ local'["main"].pc = "a_count" /\ local["main"].pc = "r_apply"
              /\ local'["main"].entry.type = "LOG_ABORT"
              /\ local'["tx"] = local["tx"]
        /\ \/ local'["tx"] = local["tx"]
           \/ /\ local'["tx"].pc = "a_count" /\ local["tx"].pc = "r_apply"
              /\ local'["main"] = local["main"]
        /\ local'["main"].pc # "set"
    BY <1>2, <1>a, <2>4 DEF Thread
  <2>7. MarkOfTransaction' /\ PreparedLast' /\ (SettledWhen' => Settled)
    BY <1>0, <1>1, <2>6 DEF MarkOfTransaction, PreparedLast, Beginning, SettledWhen,
           Concluding, OutcomeIs, Admitted, pc, AppendPC, RollbackPC, ThreadsInv, LogContent
  <2>8. InRollback(th)'
    BY <2>4, RollbackFree DEF RollbackPC
  <2> QED
    BY <1>0, <1>1, <1>5, <2>2, <2>5, <2>6, <2>7, <2>8, ControlStep DEF pc
<1>8. CASE e.type \notin MarkType
  <2>1. local'[th].pc = "r_seek" /\ local'[th].pos = p - 1
    BY <1>2, <1>8
  <2>2. RolledBackTo(local[th].pos)'
    <3>1. p - 1 <= count
      BY <1>t, <1>4
    <3>2. ASSUME NEW i \in p..count
          PROVE  /\ Log[i].type \notin MarkType
                 /\ Log[i].type = "LOG_UPDATE"
                      /\ (\A j \in p..(i - 1) : Log[j].type # "LOG_UPDATE")
                    => store' = Log[i].old
      <4>1. CASE i = p
        BY <1>3, <1>6, <1>8, <4>1
      <4>2. CASE i # p
        <5>1. i \in (p + 1)..count
          BY <1>t, <3>2, <4>2
        <5>2. p \in p..(i - 1) /\ (p + 1)..(i - 1) \subseteq p..(i - 1)
          BY <1>t, <5>1
        <5> QED
          BY <1>3, <1>6, <5>1, <5>2 DEF RolledBackTo
      <4> QED
        BY <4>1, <4>2
    <3>3. (p - 1) + 1 = p
      BY <1>t
    <3> QED
      BY <1>1, <2>1, <3>1, <3>2, <3>3 DEF RolledBackTo
  <2>3. InRollback(th)'
    BY <2>1, <2>2 DEF InRollback, pc
  <2>4. Recoverable'
    <3>1. CASE e.type = "LOG_UPDATE"
      <4>0. Log \in Seq(Entry) /\ Len(Log) = count
        BY <1>0, LogTyped
      <4>1. StopsAt(Log) \in 0..count /\ StopsAt(Log) < p
        <5>1. /\ StopsAt(Log) \in 0..count
              /\ StopsAt(Log) # 0 => Log[StopsAt(Log)].type \in MarkType
          BY <4>0, StopsAtIs
        <5> QED
          BY <1>t, <1>3, <1>4, <1>8, <5>1 DEF RolledBackTo
      <4>2. p \in Undone(Log)
        BY <1>t, <1>3, <1>4, <3>1, <4>0, <4>1 DEF Undone
      <4> QED
        BY <1>0, <1>1, <4>2 DEF ThreadsInv, Recoverable, RolledBackStore
    <3>2. CASE e.type # "LOG_UPDATE"
      BY <1>0, <1>1, <1>6, <3>2 DEF ThreadsInv, Recoverable
    <3> QED
      BY <3>1, <3>2
  <2>5. /\ local'["main"].ret = local["main"].ret
        /\ local'["tx"].ret = local["tx"].ret
        /\ \/ local'["main"] = local["main"] /\ local["main"].pc = "idle"
           \/ /\ local'["main"].pc = "r_seek" /\ local["main"].pc = "r_apply"
              /\ local'["tx"] = local["tx"]
        /\ \/ /\ local'["tx"] = local["tx"]
              /\ local["tx"].pc \in {"none", "recv", "uncertain"}
           \/ /\ local'["tx"].pc = "r_seek" /\ local["tx"].pc = "r_apply"
              /\ local'["main"] = local["main"]
        /\ local'["main"].pc # "set"
    BY <1>2, <1>a, <2>1 DEF Thread
  <2>6. TxControl'
    BY <1>0, <1>1, <2>5 DEF TxControl, Active, MainEntry, TxEntry, Concluding, pc, AppendPC,
                    RollbackPC, ThreadsInv, OutcomeIs, Admitted
  <2>7. MarkOfTransaction' /\ PreparedLast' /\ (SettledWhen' => Settled)
    BY <1>0, <1>1, <2>5 DEF MarkOfTransaction, PreparedLast, Beginning, SettledWhen,
           Concluding, OutcomeIs, Admitted, pc, AppendPC, RollbackPC, ThreadsInv, LogContent
  <2>8. LogContent'
    BY <1>1, <2>5, <2>7 DEF ThreadsInv, LogContent, LogFilled, Settled, pc
  <2>9. DecidesJoined' /\ CommitsDecided' /\ PromiseRemembered'
    BY <1>0, <1>1 DEF ThreadsInv, DecidesJoined, CommitsDecided, PromiseRemembered
  <2> QED
    BY <1>5, <2>3, <2>4, <2>6, <2>8, <2>9 DEF ThreadsInv
<1> QED
  BY <1>7, <1>8

(* The step that makes an entry part of the log.                           *)
LEMMA EntryAdded ==
    ASSUME ThreadsInv, SerialInv', NEW th \in Thread, LogStep(th),
           AppendStoresCount(th), NEW e, e = local[th].entry, e.type \in LogEntryType,
           count = 0 => e.type = "LOG_BEGIN"
    PROVE  /\ count' = count + 1 /\ Log'[count + 1] = e /\ LastType' = e.type
           /\ LogFilled'
           /\ \A type, t : Logged(Log', type, t) <=>
                 Logged(Log, type, t) \/ (e.type = type /\ e.tid = t)
           /\ e.type \in MarkType =>
                 /\ StopsAt(Log') = count + 1 /\ Undone(Log') = {} /\ Settled'
                 /\ \A st : RolledBackStore(Log', st) = st
           /\ e.type \notin MarkType =>
                 /\ StopsAt(Log') = StopsAt(Log)
                 /\ Log'[StopsAt(Log)] = Log[StopsAt(Log)]
           /\ e.type = "LOG_PREPARED" =>
                 \A st : RolledBackStore(Log', st) = RolledBackStore(Log, st)
           /\ e.type = "LOG_UPDATE" =>
                 /\ Undone(Log') # {}
                 /\ \A st : RolledBackStore(Log', st) = RolledBackStore(Log, e.old)
<1>0. SerialInv /\ LogFilled
  BY DEF ThreadsInv, LogContent
<1>1. Log \in Seq(Entry) /\ Len(Log) = count /\ count \in Nat
  BY <1>0, LogTyped
<1>2. /\ count' = count + 1 /\ Log'[count + 1] = e
      /\ \A i \in 1..count : Log'[i] = Log[i]
  BY <1>0, LogEffect
<1>3. Log' \in Seq(Entry) /\ Len(Log') = count + 1
  <2>1. Log' = [i \in 1..(count + 1) |-> Log'[i]]
    BY <1>2 DEF Log
  <2>2. e \in Entry
    BY <1>0 DEF SerialInv, ThreadsTypeOK, LocalState
  <2>3. \A i \in 1..(count + 1) : Log'[i] \in Entry
    BY <1>1, <1>2, <2>2
  <2> QED
    BY <1>1, <2>1, <2>3
<1>4. LastType' = e.type
  BY <1>1, <1>2 DEF LastType
<1>5. LogFilled'
  <2>1. \A i \in 1..(count + 1) : Log'[i].type \in LogEntryType
    BY <1>0, <1>1, <1>2 DEF LogFilled
  <2>2. Log'[1].type = "LOG_BEGIN"
    BY <1>0, <1>1, <1>2 DEF LogFilled
  <2> QED
    BY <1>2, <2>1, <2>2 DEF LogFilled
<1>6. ASSUME NEW type, NEW t
      PROVE  Logged(Log', type, t) <=>
                Logged(Log, type, t) \/ (e.type = type /\ e.tid = t)
  <2>1. 1..Len(Log') = 1..Len(Log) \cup {count + 1}
    BY <1>1, <1>3
  <2> QED
    BY <1>1, <1>2, <2>1 DEF Logged
<1>7. /\ e.type \in MarkType =>
            /\ StopsAt(Log') = count + 1 /\ Undone(Log') = {}
            /\ \A st : RolledBackStore(Log', st) = st
      /\ e.type \notin MarkType => StopsAt(Log') = StopsAt(Log)
      /\ e.type \notin MarkType \cup {"LOG_UPDATE"} =>
            \A st : RolledBackStore(Log', st) = RolledBackStore(Log, st)
      /\ e.type = "LOG_UPDATE" =>
            /\ Undone(Log') = Undone(Log) \cup {count + 1}
            /\ \A st : RolledBackStore(Log', st) = RolledBackStore(Log, e.old)
  BY <1>1, <1>2, <1>3, GrownLog
<1>8. e.type \notin MarkType => Log'[StopsAt(Log)] = Log[StopsAt(Log)]
  <2>1. e.type \notin MarkType => count > 0
    BY <1>1 DEF MarkType
  <2> QED
    BY <1>0, <1>2, <2>1, StopsInLog
<1>9. e.type \in MarkType => Settled'
  BY <1>4 DEF Settled
<1> QED
  BY <1>2, <1>4, <1>5, <1>6, <1>7, <1>8, <1>9 DEF MarkType

LEMMA MainAppendKeeps ==
    ASSUME ThreadsInv, SerialInv', LogStep("main"), AppendStoresCount("main")
    PROVE  ThreadsInv'
<1> DEFINE e == local["main"].entry
<1>0. /\ TypesInv /\ SerialInv /\ UNCHANGED <<store, wstate, ballot>>
      /\ mark' = IF e.type = "LOG_COMMIT" THEN store ELSE mark
      /\ "main" \in Thread /\ count \in Nat
  BY DEF AppendStoresCount, ThreadsInv, SerialInv, TypesInv, ThreadsTypeOK, Thread
<1>1. /\ local["main"].pc = "a_store" /\ local'["main"].pc = local["main"].ret
      /\ local'["main"].ret = local["main"].ret /\ local'["tx"] = local["tx"]
  BY <1>0, LogStepIs DEF pc, Thread
<1>2. \/ /\ e.type = "LOG_BEGIN" /\ e.tid = wstate.transaction
         /\ local["main"].ret = "idle" /\ local["tx"].pc = "recv"
      \/ /\ e.type = "LOG_UPDATE" /\ e.old = store /\ Admitted
         /\ local["main"].ret = "set" /\ local["tx"].pc = "recv"
      \/ /\ e.type = "LOG_ABORT" /\ store = mark /\ count > 0
         /\ \/ local["main"].ret = "idle" /\ local["tx"].pc = "none"
            \/ /\ local["main"].ret = "flags" /\ local["tx"].pc = "recv"
               /\ e.tid = wstate.transaction
  BY <1>1 DEF ThreadsInv, TxControl, MainEntry, pc, AppendPC
<1> HIDE DEF e
<1>3. local["tx"].pc \in {"none", "recv"} /\ local["main"].ret \in {"idle", "set", "flags"}
  BY <1>2
<1>4. e.type \in LogEntryType /\ (count = 0 => e.type = "LOG_BEGIN")
  <2>1. e.type = "LOG_UPDATE" => count > 0
    <3>1. e.type = "LOG_UPDATE" => ~Beginning
      BY <1>1 DEF Beginning, pc, e
    <3> QED
      BY <1>2, <3>1 DEF ThreadsInv, LogContent, MarkOfTransaction, pc
  <2> QED
    BY <1>0, <1>2, <2>1 DEF LogEntryType
<1>5. /\ count' = count + 1 /\ Log'[count + 1] = e /\ LastType' = e.type
      /\ LogFilled'
      /\ \A type, t : Logged(Log', type, t) <=>
            Logged(Log, type, t) \/ (e.type = type /\ e.tid = t)
      /\ e.type \in MarkType =>
            /\ StopsAt(Log') = count + 1 /\ Undone(Log') = {} /\ Settled'
            /\ \A st : RolledBackStore(Log', st) = st
      /\ e.type \notin MarkType =>
            /\ StopsAt(Log') = StopsAt(Log)
            /\ Log'[StopsAt(Log)] = Log[StopsAt(Log)]
      /\ e.type = "LOG_UPDATE" =>
            /\ Undone(Log') # {}
            /\ \A st : RolledBackStore(Log', st) = RolledBackStore(Log, e.old)
  BY <1>0, <1>4, EntryAdded DEF e
<1>6. LastType # "LOG_PREPARED" /\ e.type # "LOG_COMMIT" /\ e.type # "LOG_PREPARED"
  BY <1>1, <1>2, <1>3 DEF ThreadsInv, LogContent, PreparedLast, Concluding, pc, AppendPC,
                   RollbackPC
<1>7. TxControl'
  BY <1>0, <1>1, <1>3 DEF TxControl, Active, MainEntry, TxEntry, Concluding, pc, AppendPC,
                   RollbackPC, ThreadsInv, OutcomeIs, Admitted
<1>8. MarkOfTransaction' /\ PreparedLast'
  <2>1. e.type \in MarkType /\ local["tx"].pc # "none"
           => Log'[StopsAt(Log')].tid = wstate.transaction
    BY <1>2, <1>5 DEF MarkType
  <2>2. e.type \notin MarkType /\ local["tx"].pc # "none"
           => Log'[StopsAt(Log')].tid = wstate.transaction
    <3>1. e.type \notin MarkType => ~Beginning
      BY <1>1 DEF Beginning, pc, MarkType, e
    <3> QED
      BY <1>5, <3>1 DEF ThreadsInv, LogContent, MarkOfTransaction, pc
  <2>3. count' > 0
    BY <1>0, <1>5
  <2> QED
    BY <1>0, <1>1, <1>3, <1>5, <1>6, <2>1, <2>2, <2>3 DEF MarkOfTransaction, PreparedLast, pc
<1>9. LogContent'
  <2>1. CASE e.type \in MarkType
    <3>1. local'["main"].pc # "set"
      BY <1>1, <1>2, <2>1 DEF MarkType
    <3> QED
      BY <1>5, <1>8, <2>1, <3>1 DEF LogContent, pc
  <2>2. CASE e.type \notin MarkType
    <3>1. /\ local'["main"].pc = "set" /\ local'["tx"].pc = "recv"
          /\ Admitted' /\ Undone(Log') # {}
      BY <1>0, <1>1, <1>2, <1>5, <2>2 DEF MarkType, OutcomeIs, Admitted
    <3>2. ~SettledWhen'
      BY <3>1 DEF SettledWhen, Beginning, pc, AppendPC
    <3> QED
      BY <1>5, <1>8, <3>1, <3>2 DEF LogContent, pc
  <2> QED
    BY <2>1, <2>2
<1>10. Recoverable'
  <2>0. mark' = mark /\ store' = store /\ RolledBackStore(Log, store) = mark
    BY <1>0, <1>6 DEF ThreadsInv, Recoverable
  <2>1. CASE e.type = "LOG_BEGIN"
    <3>1. Settled
      BY <1>1, <2>1 DEF ThreadsInv, LogContent, SettledWhen, Beginning, pc, AppendPC, e
    <3>2. RolledBackStore(Log, store) = store
      BY <1>0, <3>1, SettledIs
    <3> QED
      BY <1>5, <2>0, <2>1, <3>2 DEF Recoverable, MarkType
  <2>2. CASE e.type = "LOG_UPDATE"
    BY <1>2, <1>5, <2>0, <2>2 DEF Recoverable
  <2>3. CASE e.type = "LOG_ABORT"
    BY <1>2, <1>5, <2>0, <2>3 DEF Recoverable, MarkType
  <2> QED
    BY <1>2, <2>1, <2>2, <2>3
<1>11. DecidesJoined' /\ CommitsDecided'
  BY <1>0, <1>5, <1>6 DEF ThreadsInv, DecidesJoined, CommitsDecided
<1>12. PromiseRemembered'
  BY <1>0, <1>5, <1>6 DEF ThreadsInv, PromiseRemembered
<1>13. \A th \in Thread : InRollback(th)'
  BY <1>1, <1>3, RollbackFree DEF RollbackPC, Thread
<1> QED
  BY <1>7, <1>9, <1>10, <1>11, <1>12, <1>13 DEF ThreadsInv

LEMMA TxAppendKeeps ==
    ASSUME ThreadsInv, SerialInv', LogStep("tx"), AppendStoresCount("tx")
    PROVE  ThreadsInv'
<1> DEFINE e == local["tx"].entry
<1>0. /\ TypesInv /\ SerialInv /\ UNCHANGED <<store, wstate, ballot>>
      /\ mark' = IF e.type = "LOG_COMMIT" THEN store ELSE mark
      /\ "tx" \in Thread /\ count \in Nat
  BY DEF AppendStoresCount, ThreadsInv, SerialInv, TypesInv, ThreadsTypeOK, Thread
<1>1. /\ local["tx"].pc = "a_store" /\ local'["tx"].pc = local["tx"].ret
      /\ local'["tx"].ret = local["tx"].ret /\ local'["main"] = local["main"]
  BY <1>0, LogStepIs DEF pc, Thread
<1>a. local["main"].pc = "idle"
  BY <1>0, <1>1, Alone DEF pc, AppendPC
<1>2. /\ e.tid = wstate.transaction
      /\ \/ e.type = "LOG_PREPARED" /\ local["tx"].ret = "vote_prepared"
         \/ /\ e.type = "LOG_COMMIT" /\ local["tx"].ret = "conclude"
            /\ OutcomeIs("COMMIT")
         \/ /\ e.type = "LOG_ABORT" /\ local["tx"].ret = "conclude"
            /\ OutcomeIs("ABORT") /\ store = mark
  BY <1>1 DEF ThreadsInv, TxControl, TxEntry, pc, AppendPC
<1> HIDE DEF e
<1>3. count > 0 /\ Log[StopsAt(Log)].tid = wstate.transaction
  BY <1>1, <1>a DEF ThreadsInv, LogContent, MarkOfTransaction, Beginning, pc, AppendPC
<1>4. e.type \in LogEntryType /\ (count = 0 => e.type = "LOG_BEGIN")
  BY <1>0, <1>2, <1>3 DEF LogEntryType
<1>5. /\ count' = count + 1 /\ Log'[count + 1] = e /\ LastType' = e.type
      /\ LogFilled'
      /\ \A type, t : Logged(Log', type, t) <=>
            Logged(Log, type, t) \/ (e.type = type /\ e.tid = t)
      /\ e.type \in MarkType =>
            /\ StopsAt(Log') = count + 1 /\ Undone(Log') = {} /\ Settled'
            /\ \A st : RolledBackStore(Log', st) = st
      /\ e.type \notin MarkType =>
            /\ StopsAt(Log') = StopsAt(Log)
            /\ Log'[StopsAt(Log)] = Log[StopsAt(Log)]
      /\ e.type = "LOG_PREPARED" =>
            \A st : RolledBackStore(Log', st) = RolledBackStore(Log, st)
  BY <1>0, <1>4, EntryAdded DEF e
<1>6. /\ LastType = "LOG_PREPARED" =>
            local["tx"].ret = "conclude" /\ Log[count].tid = wstate.transaction
  BY <1>1, <1>a DEF ThreadsInv, LogContent, PreparedLast, Concluding, pc, AppendPC,
                   RollbackPC
<1>7. TxControl'
  <2>1. wstate.transaction \in Tid
    BY <1>1 DEF ThreadsInv, TxControl, TxEntry, pc, AppendPC
  <2> QED
    BY <1>0, <1>1, <1>a, <1>2, <2>1 DEF TxControl, Active, MainEntry, TxEntry, Concluding,
              pc, AppendPC, RollbackPC, ThreadsInv, OutcomeIs, Admitted
<1>8. MarkOfTransaction' /\ PreparedLast'
  <2>1. Log'[StopsAt(Log')].tid = wstate.transaction
    BY <1>2, <1>3, <1>5
  <2>2. count' > 0 /\ Log'[count'].tid = wstate.transaction
    BY <1>0, <1>2, <1>5
  <2> QED
    BY <1>0, <1>1, <1>a, <1>2, <1>5, <2>1, <2>2 DEF MarkOfTransaction, PreparedLast, pc
<1>9. LogContent'
  <2>1. e.type \notin MarkType => ~SettledWhen'
    BY <1>1, <1>a, <1>2 DEF SettledWhen, Beginning, pc, AppendPC, MarkType
  <2> QED
    BY <1>1, <1>a, <1>5, <1>8, <2>1 DEF LogContent, pc
<1>10. Recoverable'
  <2>0. store' = store /\ RolledBackStore(Log, store) = mark
    BY <1>0 DEF ThreadsInv, Recoverable
  <2>1. CASE e.type = "LOG_PREPARED"
    BY <1>0, <1>5, <2>0, <2>1 DEF Recoverable
  <2>2. CASE e.type \in {"LOG_COMMIT", "LOG_ABORT"}
    BY <1>0, <1>2, <1>5, <2>0, <2>2 DEF Recoverable, MarkType
  <2> QED
    BY <1>2, <2>1, <2>2
<1>11. DecidesJoined' /\ CommitsDecided'
  BY <1>0, <1>2, <1>5 DEF ThreadsInv, DecidesJoined, CommitsDecided, OutcomeIs, Admitted
<1>12. PromiseRemembered'
  <2> SUFFICES ASSUME NEW t \in Tid, ballot[t].vote = "PREPARED"
               PROVE  \/ LastType' = "LOG_PREPARED" /\ Log'[count'].tid = t
                      \/ ballot[t].outcome = "COMMIT" /\ Logged(Log', "LOG_COMMIT", t)
                      \/ /\ ballot[t].outcome = "ABORT" /\ Logged(Log', "LOG_ABORT", t)
                         /\ ~Logged(Log', "LOG_COMMIT", t)
    BY <1>0 DEF PromiseRemembered
  <2>1. \/ LastType = "LOG_PREPARED" /\ Log[count].tid = t
        \/ ballot[t].outcome = "COMMIT" /\ Logged(Log, "LOG_COMMIT", t)
        \/ /\ ballot[t].outcome = "ABORT" /\ Logged(Log, "LOG_ABORT", t)
           /\ ~Logged(Log, "LOG_COMMIT", t)
    BY DEF ThreadsInv, PromiseRemembered
  <2>2. CASE t = wstate.transaction /\ e.type \in {"LOG_COMMIT", "LOG_ABORT"}
    <3>1. Logged(Log, "LOG_COMMIT", t) => ballot[t].outcome = "COMMIT"
      BY DEF ThreadsInv, CommitsDecided
    <3> QED
      BY <1>2, <1>5, <2>2, <3>1 DEF OutcomeIs, Admitted
  <2>3. CASE ~(t = wstate.transaction /\ e.type \in {"LOG_COMMIT", "LOG_ABORT"})
    <3>1. ~(e.type = "LOG_COMMIT" /\ e.tid = t)
      BY <1>2, <2>3
    <3>2. ~(LastType = "LOG_PREPARED" /\ Log[count].tid = t)
      BY <1>2, <1>6, <2>3
    <3> QED
      BY <1>5, <2>1, <3>1, <3>2
  <2> QED
    BY <2>2, <2>3
<1>13. \A th \in Thread : InRollback(th)'
  BY <1>1, <1>a, <1>2, RollbackFree DEF RollbackPC, Thread
<1> QED
  BY <1>7, <1>9, <1>10, <1>11, <1>12, <1>13 DEF ThreadsInv

LEMMA ThreadsStep ==
    ASSUME Serial, PatientClient, ThreadsInv, [ThreadsNext]_threadVars
    PROVE  ThreadsInv'
<1>1. CASE UNCHANGED threadVars
  <2>1. UNCHANGED <<file, count, offset, store, wstate, local, ballot, mark>>
    BY <1>1 DEF threadVars, logVars
  <2>2. Log' = Log /\ LastType' = LastType
    BY <2>1, SameLog
  <2>3. SerialInv'
    BY <1>1, SerialStep DEF ThreadsInv
  <2>4. TxControl' /\ MarkOfTransaction' /\ PreparedLast' /\ (SettledWhen' => Settled)
    BY <2>1, <2>2 DEF TxControl, Active, MainEntry, TxEntry, Concluding, pc, OutcomeIs, Admitted,
           MarkOfTransaction, PreparedLast, Beginning, SettledWhen, ThreadsInv, LogContent
  <2>5. \A th \in Thread : InRollback(th)'
    BY <2>1, RollbackKept DEF ThreadsInv
  <2>6. LogContent'
    BY <2>1, <2>2, <2>4 DEF ThreadsInv, LogContent, LogFilled, Settled, pc
  <2> QED
    BY <2>1, <2>2, <2>3, <2>4, <2>5, <2>6
       DEF ThreadsInv, DecidesJoined, Recoverable, CommitsDecided, PromiseRemembered
<1>2. CASE OtherStep
  BY <1>2, OtherStepKeeps
<1>3. ASSUME NEW th \in Thread, LogStep(th)
      PROVE  ThreadsInv'
  <2>1. SerialInv'
    BY <1>3, LogStepSerial DEF ThreadsInv
  <2>2. CASE AppendStoresCount(th)
    BY <1>3, <2>1, <2>2, MainAppendKeeps, TxAppendKeeps DEF Thread
  <2>3. CASE ~AppendStoresCount(th)
    BY <1>3, <2>1, <2>3, InsideAppendKeeps, SeekKeeps, ReadKeeps, ApplyKeeps DEF LogStep
  <2> QED
    BY <2>2, <2>3
<1> QED
  BY <1>1, <1>2, <1>3, NextSteps

LEMMA ThreadsStart ==
    ASSUME ThreadsInit
    PROVE  ThreadsInv
<1>0. SerialInv
  BY SerialInit
<1>1. /\ local["main"].pc = "down" /\ local["tx"].pc = "none"
      /\ wstate.is_active = FALSE /\ wstate.uncertain = FALSE
      /\ count = 0 /\ store = mark
  BY StartLocal DEF ThreadsInit, At, NoState
<1>2. Log \in Seq(Entry) /\ Len(Log) = 0
  BY <1>0, <1>1, LogTyped
<1>3. TxControl
  BY <1>1 DEF TxControl, Active, MainEntry, TxEntry, pc, AppendPC, RollbackPC
<1>4. LastType = "ZERO"
  BY <1>1 DEF LastType
<1>5. LogContent
  BY <1>1, <1>4 DEF LogContent, LogFilled, MarkOfTransaction, PreparedLast, Settled, pc
<1>6. \A th \in Thread : InRollback(th)
  BY <1>1 DEF InRollback, pc, RollbackPC, Thread
<1>7. Recoverable
  BY <1>0, <1>1, SettledIs DEF Recoverable, Settled
<1>8. DecidesJoined /\ CommitsDecided /\ PromiseRemembered
  BY <1>2 DEF ThreadsInit, DecidesJoined, CommitsDecided, PromiseRemembered, Logged
<1> QED
  BY <1>0, <1>3, <1>5, <1>6, <1>7, <1>8 DEF ThreadsInv

LEMMA ThreadsAlways ==
    ASSUME Serial, PatientClient
    PROVE  ThreadsSpec => []ThreadsInv
<1>1. ThreadsInit => ThreadsInv
  BY ThreadsStart
<1>2. ThreadsInv /\ [ThreadsNext]_threadVars => ThreadsInv'
  BY ThreadsStep
<1> QED
  BY <1>1, <1>2, PTL DEF ThreadsSpec

(* Write-ahead logging, for a log of any length and a crash between any    *)
(* two accesses: what update_rollback would make of the store now is the   *)
(* store as it was before the open transaction.                            *)
THEOREM CrashLosesNothing ==
    ASSUME Serial, PatientClient
    PROVE  ThreadsSpec => []Recoverable
<1>1. ThreadsInv => Recoverable
  BY DEF ThreadsInv
<1> QED
  BY <1>1, ThreadsAlways, PTL

(* A vote in favour is in the log from before it is sent until the         *)
(* manager's outcome is, and that outcome is the manager's.                *)
THEOREM VoteIsLogged ==
    ASSUME Serial, PatientClient
    PROVE  ThreadsSpec => []PromiseRemembered
<1>1. ThreadsInv => PromiseRemembered
  BY DEF ThreadsInv
<1> QED
  BY <1>1, ThreadsAlways, PTL
=============================================================================
