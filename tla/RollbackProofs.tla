--------------------------- MODULE RollbackProofs ---------------------------
(***************************************************************************)
(* Facts about Max and Min of sets of numbers, and, with them, about what  *)
(* update_rollback computes from a log, when the log grows by an entry.    *)
(***************************************************************************)
EXTENDS Rollback, WellFoundedInduction, TLAPS

(* Every set of natural numbers that is not empty has a least element.     *)
(* This is the only induction the proofs of this project need.             *)
LEMMA LeastExists ==
    ASSUME NEW S, S \subseteq Nat, S # {}
    PROVE  \E x \in S : \A y \in S : x <= y
<1> DEFINE R == OpToRel(<, Nat)
<1>1. IsWellFoundedOn(R, Nat)
  BY NatLessThanWellFounded
<1>2. \A a, b \in Nat : a < b => <<a, b>> \in R
  BY DEF OpToRel
<1> HIDE DEF R
<1>3. PICK x \in S : \A y \in S : ~(<<y, x>> \in R)
  BY <1>1, WFMin
<1>4. ASSUME NEW y \in S PROVE x <= y
  <2>1. x \in Nat /\ y \in Nat
    OBVIOUS
  <2>2. ~(y < x)
    BY <1>2, <1>3, <2>1
  <2> QED
    BY <2>1, <2>2
<1> QED
  BY <1>4

LEMMA MinIs ==
    ASSUME NEW S, S \subseteq Nat, S # {}
    PROVE  Min(S) \in S /\ \A y \in S : Min(S) <= y
  BY LeastExists DEF Min

(* A bounded set has a greatest element.                                   *)
LEMMA MaxIs ==
    ASSUME NEW S, S \subseteq Nat, S # {}, NEW n \in Nat,
           \A y \in S : y <= n
    PROVE  Max(S) \in S /\ \A y \in S : y <= Max(S)
<1> DEFINE D == {n - y : y \in S}
<1>1. D \subseteq Nat
  <2>1. ASSUME NEW y \in S PROVE n - y \in Nat
    <3>1. y \in Nat /\ y <= n
      OBVIOUS
    <3> QED
      BY <3>1
  <2> QED
    BY <2>1
<1>0. D # {}
  OBVIOUS
<1>2. PICK d \in D : \A e \in D : d <= e
  BY <1>0, <1>1, LeastExists
<1>3. PICK x \in S : d = n - x
  BY <1>2
<1>4. ASSUME NEW y \in S PROVE x >= y
  <2>1. x \in Nat /\ y \in Nat
    OBVIOUS
  <2>2. n - x <= n - y
    BY <1>2, <1>3
  <2> QED
    BY <2>1, <2>2
<1> QED
  BY <1>4 DEF Max

-----------------------------------------------------------------------------
(* Where update_rollback stops.                                            *)
LEMMA StopsAtIs ==
    ASSUME NEW E, NEW log \in Seq(E)
    PROVE  /\ StopsAt(log) \in 0..Len(log)
           /\ StopsAt(log) # 0 => log[StopsAt(log)].type \in MarkType
           /\ \A i \in 1..Len(log) : log[i].type \in MarkType => i <= StopsAt(log)
<1> DEFINE S == {0} \cup {i \in 1..Len(log) : log[i].type \in MarkType}
<1>1. S \subseteq Nat /\ S # {} /\ Len(log) \in Nat
  OBVIOUS
<1>2. \A y \in S : y <= Len(log)
  OBVIOUS
<1>3. Max(S) \in S /\ \A y \in S : y <= Max(S)
  BY <1>1, <1>2, MaxIs
<1>4. StopsAt(log) = Max(S)
  BY DEF StopsAt
<1> QED
  BY <1>3, <1>4

LEMMA StopsAtWhere ==
    ASSUME NEW E, NEW log \in Seq(E), NEW n \in 0..Len(log),
           n # 0 => log[n].type \in MarkType,
           \A i \in 1..Len(log) : log[i].type \in MarkType => i <= n
    PROVE  StopsAt(log) = n
<1>1. StopsAt(log) <= n
  BY StopsAtIs
<1>2. n <= StopsAt(log)
  BY StopsAtIs
<1>3. StopsAt(log) \in Int /\ n \in Int
  BY StopsAtIs
<1> QED
  BY <1>1, <1>2, <1>3

(* The oldest update entry after that point has the last word.             *)
LEMMA RestoredIs ==
    ASSUME NEW E, NEW log \in Seq(E), NEW st
    PROVE  /\ Undone(log) = {} => RolledBackStore(log, st) = st
           /\ Undone(log) # {} =>
                 \E i \in Undone(log) : /\ \A j \in Undone(log) : i <= j
                                        /\ RolledBackStore(log, st) = log[i].old
<1>1. Undone(log) \subseteq Nat
  BY StopsAtIs DEF Undone
<1>2. Undone(log) # {} =>
        /\ Min(Undone(log)) \in Undone(log)
        /\ \A j \in Undone(log) : Min(Undone(log)) <= j
  BY <1>1, MinIs
<1> QED
  BY <1>2 DEF RolledBackStore

(* A log that grows by entry e.                                            *)
LEMMA GrownLog ==
    ASSUME NEW E, NEW log \in Seq(E), NEW new \in Seq(E),
           Len(new) = Len(log) + 1,
           \A i \in 1..Len(log) : new[i] = log[i],
           NEW e, e = new[Len(log) + 1]
    PROVE  /\ e.type \in MarkType =>
                 /\ StopsAt(new) = Len(new) /\ Undone(new) = {}
                 /\ \A st : RolledBackStore(new, st) = st
           /\ e.type \notin MarkType => StopsAt(new) = StopsAt(log)
           /\ e.type \notin MarkType \cup {"LOG_UPDATE"} =>
                 /\ Undone(new) = Undone(log)
                 /\ \A st : RolledBackStore(new, st) = RolledBackStore(log, st)
           /\ e.type = "LOG_UPDATE" =>
                 /\ Undone(new) = Undone(log) \cup {Len(log) + 1}
                 /\ \A st : RolledBackStore(new, st) = RolledBackStore(log, e.old)
<1>0. Len(log) \in Nat /\ 1..Len(new) = 1..Len(log) \cup {Len(log) + 1}
  OBVIOUS
<1>1. CASE e.type \in MarkType
  <2>1. StopsAt(new) = Len(new)
    BY <1>0, <1>1, StopsAtWhere
  <2>2. Undone(new) = {}
    BY <1>0, <2>1 DEF Undone
  <2> QED
    BY <1>1, <2>1, <2>2, RestoredIs DEF MarkType
<1>2. CASE e.type \notin MarkType
  <2>1. StopsAt(new) = StopsAt(log)
    <3> DEFINE n == StopsAt(log)
    <3>1. n \in 0..Len(new)
      BY <1>0, StopsAtIs
    <3>2. n # 0 => new[n].type \in MarkType
      BY <1>0, StopsAtIs
    <3>3. \A i \in 1..Len(new) : new[i].type \in MarkType => i <= n
      BY <1>0, <1>2, StopsAtIs
    <3> HIDE DEF n
    <3>4. StopsAt(new) = n
      BY <3>1, <3>2, <3>3, StopsAtWhere
    <3> QED
      BY <3>4 DEF n
  <2>2. StopsAt(log) \in 0..Len(log)
    BY StopsAtIs
  <2>3. CASE e.type # "LOG_UPDATE"
    <3>1. Undone(new) = Undone(log)
      BY <1>0, <2>1, <2>2, <2>3 DEF Undone
    <3>2. \A i \in Undone(log) : new[i] = log[i] /\ i \in Nat
      BY <2>2 DEF Undone
    <3>3. ASSUME NEW st
          PROVE  RolledBackStore(new, st) = RolledBackStore(log, st)
      BY <3>1, <3>2, <2>2, MinIs DEF RolledBackStore
    <3> QED
      BY <1>2, <2>1, <2>3, <3>1, <3>3
  <2>4. CASE e.type = "LOG_UPDATE"
    <3>1. Undone(new) = Undone(log) \cup {Len(log) + 1}
      BY <1>0, <2>1, <2>2, <2>4 DEF Undone
    <3>2. \A i \in Undone(log) : i \in 1..Len(log)
      BY <2>2 DEF Undone
    <3>3. ASSUME NEW st
          PROVE  RolledBackStore(new, st) = RolledBackStore(log, e.old)
      <4>1. PICK i \in Undone(new) : /\ \A j \in Undone(new) : i <= j
                                     /\ RolledBackStore(new, st) = new[i].old
        BY <3>1, RestoredIs
      <4>2. CASE Undone(log) = {}
        <5>1. RolledBackStore(log, e.old) = e.old
          BY <4>2, RestoredIs
        <5>2. i = Len(log) + 1
          BY <3>1, <4>2
        <5> QED
          BY <4>1, <5>1, <5>2
      <4>3. CASE Undone(log) # {}
        <5>1. PICK k \in Undone(log) :
                /\ \A j \in Undone(log) : k <= j
                /\ RolledBackStore(log, e.old) = log[k].old
          BY <4>3, RestoredIs
        <5>2. i <= k /\ k < Len(log) + 1 /\ i \in Nat /\ k \in Nat
          BY <1>0, <3>1, <3>2, <4>1
        <5>3. i \in Undone(log)
          BY <1>0, <3>1, <5>2
        <5>4. i = k
          BY <5>1, <5>2, <5>3
        <5> QED
          BY <3>2, <4>1, <5>1, <5>4
      <4> QED
        BY <4>2, <4>3
    <3> QED
      BY <1>2, <2>1, <2>4, <3>1, <3>3
  <2> QED
    BY <2>3, <2>4
<1> QED
  BY <1>1, <1>2
=============================================================================
