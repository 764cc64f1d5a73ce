---------------------------- MODULE ClockProofs ----------------------------
(***************************************************************************)
(* Proofs about the vector clocks, for any number of workers and any       *)
(* number of events.                                                       *)
(***************************************************************************)
EXTENDS ClockSystemInv, RollbackProofs, FiniteSetTheorems

Pair == [nodeId : Nat, time : Nat]

(* No pair follows a free one, and no node has two.                        *)
Shape(c) == \A i, j \in Slot : i < j => /\ c[i].nodeId = 0 => c[j] = Free
                                        /\ c[i].nodeId = c[j].nodeId => c[j] = Free

LEMMA NodesAre ==
    /\ \A n \in Node : n \in Nat /\ n # 0
    /\ Manager \in Node /\ Worker \subseteq Node /\ Manager \notin Worker
    /\ \A n \in Node : n = Manager \/ n \in Worker
    /\ 1 \in Slot /\ MaxNodes \in Nat /\ Slot \subseteq Nat
  BY ClockSystemAssumption, VClockAssumption DEF Node, Slot

LEMMA MaxOfTwo ==
    ASSUME NEW a \in Nat, NEW b \in Nat
    PROVE  Max({a, b}) = IF a >= b THEN a ELSE b
<1> DEFINE S == {a, b}
<1>1. S \subseteq Nat /\ S # {} /\ a + b \in Nat /\ \A y \in S : y <= a + b
  OBVIOUS
<1>2. Max(S) \in S /\ \A y \in S : y <= Max(S)
  BY <1>1, MaxIs
<1> QED
  BY <1>2

LEMMA ClockFields ==
    ASSUME NEW c \in Clock, NEW i \in Slot
    PROVE  c[i] \in Pair /\ c[i].nodeId \in Nat /\ c[i].time \in Nat
  BY DEF Clock, Pair

LEMMA InitClock ==
    /\ vclock_init \in Clock /\ Free \in Pair /\ Free.nodeId = 0 /\ Free.time = 0
    /\ \A i \in Slot : vclock_init[i] = Free
    /\ \A n \in Nat : n # 0 => TimeOf(vclock_init, n) = 0 /\ ~vclock_has(vclock_init, n)
  BY DEF vclock_init, Clock, Free, Pair, TimeOf, vclock_has, Having

-----------------------------------------------------------------------------
(* Looking a node up.                                                      *)

LEMMA SlotOf ==
    ASSUME NEW c \in Clock, Shape(c), NEW i \in Slot, NEW id \in Nat, id # 0,
           c[i].nodeId = id
    PROVE  Having(c, id) = {i} /\ Min(Having(c, id)) = i /\ vclock_has(c, id)
           /\ TimeOf(c, id) = c[i].time
<1>1. Having(c, id) = {i}
  <2>1. ASSUME NEW j \in Slot, c[j].nodeId = id, j # i PROVE FALSE
    <3>1. i \in Nat /\ j \in Nat
      BY NodesAre
    <3>2. i < j \/ j < i
      BY <2>1, <3>1
    <3>3. c[i] = Free \/ c[j] = Free
      BY <2>1, <3>2 DEF Shape
    <3> QED
      BY <2>1, <3>3, InitClock
  <2> QED
    BY <2>1 DEF Having
<1>2. Min(Having(c, id)) = i
  <2>1. {i} \subseteq Nat /\ {i} # {}
    BY NodesAre
  <2>2. Min({i}) \in {i}
    BY <2>1, MinIs
  <2> QED
    BY <1>1, <2>2
<1> QED
  BY <1>1, <1>2 DEF vclock_has, TimeOf

LEMMA NoSlotOf ==
    ASSUME NEW c, NEW id, \A i \in Slot : c[i].nodeId # id
    PROVE  ~vclock_has(c, id) /\ TimeOf(c, id) = 0
  BY DEF vclock_has, Having, TimeOf

LEMMA HasSlot ==
    ASSUME NEW c, NEW id, vclock_has(c, id)
    PROVE  Min(Having(c, id)) \in Slot /\ c[Min(Having(c, id))].nodeId = id
           /\ \A j \in Slot : c[j].nodeId = id => Min(Having(c, id)) <= j
<1>1. Having(c, id) \subseteq Nat /\ Having(c, id) # {}
  BY NodesAre DEF Having, vclock_has
<1>2. /\ Min(Having(c, id)) \in Having(c, id)
      /\ \A j \in Having(c, id) : Min(Having(c, id)) <= j
  BY <1>1, MinIs
<1> QED
  BY <1>2 DEF Having

LEMMA TimeTyped ==
    ASSUME NEW c \in Clock, NEW id
    PROVE  TimeOf(c, id) \in Nat
  BY HasSlot, ClockFields DEF TimeOf

-----------------------------------------------------------------------------
(* The operations.                                                         *)

(* A change of the time of one pair, that of node id.                      *)
LEMMA TimeChanged ==
    ASSUME NEW c \in Clock, Shape(c), NEW i \in Slot, NEW id \in Nat, id # 0,
           c[i].nodeId = id, NEW t \in Nat, NEW d \in Clock,
           d[i] = [nodeId |-> id, time |-> t],
           \A j \in Slot : j # i => d[j] = c[j]
    PROVE  /\ Shape(d) /\ TimeOf(d, id) = t
           /\ \A j \in Slot : d[j].nodeId = c[j].nodeId
           /\ \A k \in Nat : k \notin {0, id} => TimeOf(d, k) = TimeOf(c, k)
<1>1. \A j \in Slot : d[j].nodeId = c[j].nodeId
  OBVIOUS
<1>2. Shape(d)
  <2>1. ASSUME NEW j, NEW k \in Slot, j \in Slot, j < k,
               d[j].nodeId = 0 \/ d[j].nodeId = d[k].nodeId
        PROVE  d[k] = Free
    <3>1. c[k] = Free
      BY <1>1, <2>1 DEF Shape
    <3>2. k # i
      BY <3>1, InitClock
    <3> QED
      BY <3>1, <3>2
  <2> QED
    BY <2>1 DEF Shape
<1>3. TimeOf(d, id) = t
  <2>1. TimeOf(d, id) = d[i].time
    BY <1>2, SlotOf
  <2> QED
    BY <2>1
<1>4. ASSUME NEW k \in Nat, k \notin {0, id} PROVE TimeOf(d, k) = TimeOf(c, k)
  <2>1. CASE \E j \in Slot : c[j].nodeId = k
    <3>1. PICK j \in Slot : c[j].nodeId = k
      BY <2>1
    <3>2. j # i /\ d[j] = c[j]
      BY <1>4, <3>1
    <3>3. TimeOf(c, k) = c[j].time
      BY <1>4, <3>1, SlotOf
    <3>4. TimeOf(d, k) = d[j].time
      BY <1>2, <1>4, <3>1, <3>2, SlotOf
    <3> QED
      BY <3>2, <3>3, <3>4
  <2>2. CASE \A j \in Slot : c[j].nodeId # k
    BY <1>1, <2>2, NoSlotOf
  <2> QED
    BY <2>1, <2>2
<1> QED
  BY <1>1, <1>2, <1>3, <1>4

(* A new pair, in the first free slot.                                     *)
LEMMA PairAdded ==
    ASSUME NEW c \in Clock, Shape(c), vclock_has(c, 0), NEW p \in Pair,
           p.nodeId # 0, \A j \in Slot : c[j].nodeId # p.nodeId, NEW d \in Clock,
           d[Min(Having(c, 0))] = p,
           \A j \in Slot : j # Min(Having(c, 0)) => d[j] = c[j]
    PROVE  /\ Shape(d)
           /\ \A j \in Slot : c[j].nodeId # 0 => d[j] = c[j]
           /\ \A j \in Slot : d[j] = c[j] \/ d[j] = p
           /\ TimeOf(d, p.nodeId) = p.time
           /\ \A k \in Nat : k \notin {0, p.nodeId} => TimeOf(d, k) = TimeOf(c, k)
<1> DEFINE i == Min(Having(c, 0))
<1>0. i \in Slot /\ c[i].nodeId = 0 /\ \A j \in Slot : c[j].nodeId = 0 => i <= j
  BY HasSlot
<1>n. p.nodeId \in Nat /\ i \in Nat
  BY <1>0, NodesAre DEF Pair
<1>1. d[i] = p /\ \A j \in Slot : j # i => d[j] = c[j]
  OBVIOUS
<1> HIDE DEF i
<1>2. Shape(d)
  <2>1. ASSUME NEW j \in Slot, NEW k \in Slot, j < k,
               d[j].nodeId = 0 \/ d[j].nodeId = d[k].nodeId
        PROVE  d[k] = Free
    <3>0. j \in Nat /\ k \in Nat
      BY NodesAre
    <3>1. CASE k = i
      <4>1. j # i /\ d[j] = c[j] /\ d[k] = p
        BY <1>1, <2>1, <3>0, <3>1
      <4>2. c[j].nodeId # 0
        BY <1>0, <1>n, <2>1, <3>0, <3>1
      <4> QED
        BY <2>1, <4>1, <4>2
    <3>2. CASE j = i
      <4>1. k # i /\ d[k] = c[k] /\ d[j] = p
        BY <1>1, <2>1, <3>0, <3>2
      <4> QED
        BY <2>1, <4>1
    <3>3. CASE k # i /\ j # i
      BY <1>1, <2>1, <3>3 DEF Shape
    <3> QED
      BY <3>1, <3>2, <3>3
  <2> QED
    BY <2>1 DEF Shape
<1>3. TimeOf(d, p.nodeId) = p.time
  BY <1>0, <1>n, <1>1, <1>2, SlotOf
<1>4. ASSUME NEW k \in Nat, k \notin {0, p.nodeId} PROVE TimeOf(d, k) = TimeOf(c, k)
  <2>1. CASE \E j \in Slot : c[j].nodeId = k
    <3>1. PICK j \in Slot : c[j].nodeId = k
      BY <2>1
    <3>2. j # i /\ d[j] = c[j]
      BY <1>0, <1>1, <1>4, <3>1
    <3>3. TimeOf(c, k) = c[j].time
      BY <1>4, <3>1, SlotOf
    <3>4. TimeOf(d, k) = d[j].time
      BY <1>1, <1>2, <1>4, <3>1, <3>2, SlotOf
    <3> QED
      BY <3>2, <3>3, <3>4
  <2>2. CASE \A j \in Slot : c[j].nodeId # k
    <3>1. \A j \in Slot : d[j].nodeId # k
      BY <1>1, <1>4, <2>2
    <3> QED
      BY <2>2, <3>1, NoSlotOf
  <2> QED
    BY <2>1, <2>2
<1> QED
  BY <1>0, <1>1, <1>2, <1>3, <1>4 DEF i

(* A clock of node n that has n in it.                                     *)
Own(c, n) == c \in Clock /\ Sound(c, n) /\ c # vclock_init

LEMMA OwnIs ==
    ASSUME NEW n \in Node, NEW c, Own(c, n)
    PROVE  /\ c \in Clock /\ Shape(c) /\ c[1].nodeId = n
           /\ Having(c, n) = {1} /\ Min(Having(c, n)) = 1 /\ vclock_has(c, n)
           /\ TimeOf(c, n) = c[1].time /\ c[1].time \in Nat /\ c[1].time > 0
           /\ \A i \in Slot : c[i].nodeId \in Node \cup {0}
<1>1. /\ c \in Clock /\ Shape(c) /\ c[1].nodeId = n /\ c[1].time > 0
      /\ \A i \in Slot : c[i].nodeId \in Node \cup {0}
  BY DEF Own, Sound, WellFormed, Shape
<1>2. n \in Nat /\ n # 0 /\ 1 \in Slot
  BY NodesAre
<1>3. c[1].time \in Nat
  BY <1>1, <1>2, ClockFields
<1> QED
  BY <1>1, <1>2, <1>3, SlotOf

LEMMA OwnWhen ==
    ASSUME NEW n \in Node, NEW c \in Clock, Shape(c), c[1].nodeId = n, c[1].time > 0,
           \A i \in Slot : c[i].nodeId \in Node \cup {0}
    PROVE  Own(c, n)
<1>1. c # vclock_init
  <2>1. vclock_init[1] = Free /\ n # 0
    BY InitClock, NodesAre
  <2> QED
    BY <2>1, InitClock
<1> QED
  BY <1>1 DEF Own, Sound, WellFormed, Shape

LEMMA SoundIs ==
    ASSUME NEW n \in Node, NEW c \in Clock, Sound(c, n)
    PROVE  vclock_has(c, n) <=> Own(c, n)
<1>1. Own(c, n) => vclock_has(c, n)
  BY OwnIs
<1>2. ~Own(c, n) => c = vclock_init
  BY DEF Own
<1>3. n \in Nat /\ n # 0
  BY NodesAre
<1> QED
  BY <1>1, <1>2, <1>3, InitClock

LEMMA IncrementIs ==
    ASSUME NEW n \in Node, NEW c, Own(c, n)
    PROVE  /\ Own(vclock_increment(n, c), n)
           /\ TimeOf(vclock_increment(n, c), n) = TimeOf(c, n) + 1
           /\ \A k \in Node : k # n =>
                 TimeOf(vclock_increment(n, c), k) = TimeOf(c, k)
<1> DEFINE d == vclock_increment(n, c)
           t == c[1].time + 1
<1>0. /\ c \in Clock /\ Shape(c) /\ c[1].nodeId = n /\ Min(Having(c, n)) = 1
      /\ TimeOf(c, n) = c[1].time /\ c[1].time \in Nat
      /\ \A i \in Slot : c[i].nodeId \in Node \cup {0}
      /\ n \in Nat /\ n # 0 /\ 1 \in Slot
  BY OwnIs, NodesAre
<1>1. d = [c EXCEPT ![1] = [nodeId |-> n, time |-> t]]
  <2>1. d = [c EXCEPT ![1] = [c[1] EXCEPT !.time = t]]
    BY <1>0 DEF vclock_increment
  <2>2. c[1] \in Pair
    BY <1>0, ClockFields
  <2>3. [c[1] EXCEPT !.time = t] = [nodeId |-> n, time |-> t]
    BY <1>0, <2>2 DEF Pair
  <2> QED
    BY <2>1, <2>3
<1>2. t \in Nat /\ t > 0 /\ [nodeId |-> n, time |-> t] \in Pair
  BY <1>0 DEF Pair
<1>3. /\ d \in Clock /\ d[1] = [nodeId |-> n, time |-> t]
      /\ \A j \in Slot : j # 1 => d[j] = c[j]
  BY <1>0, <1>1, <1>2 DEF Clock, Pair
<1> HIDE DEF d
<1>4. /\ Shape(d) /\ TimeOf(d, n) = t
      /\ \A j \in Slot : d[j].nodeId = c[j].nodeId
      /\ \A k \in Nat : k \notin {0, n} => TimeOf(d, k) = TimeOf(c, k)
  <2> HIDE DEF t
  <2> QED
    BY <1>0, <1>2, <1>3, TimeChanged
<1>5. Own(d, n)
  BY <1>0, <1>2, <1>3, <1>4, OwnWhen
<1> QED
  BY <1>0, <1>4, <1>5, NodesAre DEF d

(* vclock_add, to a clock without any pair.                                *)
LEMMA AddIs ==
    ASSUME NEW n \in Node
    PROVE  /\ Own(vclock_add(vclock_init, n), n)
           /\ TimeOf(vclock_add(vclock_init, n), n) = 1
           /\ \A k \in Node : k # n => TimeOf(vclock_add(vclock_init, n), k) = 0
<1> DEFINE d == vclock_add(vclock_init, n)
           p == [nodeId |-> n, time |-> 1]
           c == vclock_init
<1>0. n \in Nat /\ n # 0 /\ 1 \in Slot
  BY NodesAre
<1>1. /\ c \in Clock /\ Shape(c) /\ \A j \in Slot : c[j].nodeId = 0
      /\ vclock_has(c, 0)
  BY <1>0, InitClock DEF Shape, vclock_has, Having
<1>2. Min(Having(c, 0)) = 1
  <2>1. Min(Having(c, 0)) \in Slot /\ Min(Having(c, 0)) <= 1
    BY <1>0, <1>1, HasSlot
  <2> QED
    BY <2>1, VClockAssumption DEF Slot
<1>3. p \in Pair /\ p.nodeId = n /\ p.time = 1
  BY <1>0 DEF Pair
<1>4. d = [c EXCEPT ![1] = p]
  BY <1>2 DEF vclock_add
<1> HIDE DEF p, c
<1>5. d \in Clock /\ d[1] = p /\ \A j \in Slot : j # 1 => d[j] = c[j]
  BY <1>0, <1>1, <1>3, <1>4 DEF Clock, Pair
<1> HIDE DEF d
<1>6. /\ Shape(d) /\ TimeOf(d, n) = 1
      /\ \A k \in Nat : k \notin {0, n} => TimeOf(d, k) = TimeOf(c, k)
      /\ \A j \in Slot : d[j] = c[j] \/ d[j] = p
  BY <1>0, <1>1, <1>2, <1>3, <1>5, PairAdded
<1>7. \A j \in Slot : d[j].nodeId \in Node \cup {0}
  BY <1>1, <1>3, <1>6
<1>8. Own(d, n)
  BY <1>3, <1>5, <1>6, <1>7, OwnWhen
<1>9. \A k \in Node : TimeOf(c, k) = 0
  BY InitClock, NodesAre DEF c
<1> QED
  BY <1>6, <1>8, <1>9, NodesAre DEF d

(* MAX_NODES is room for all.                                              *)
LEMMA RoomForAll ==
    ASSUME NEW n \in Node, NEW c, Own(c, n), NEW k \in Node,
           \A i \in Slot : c[i].nodeId # k
    PROVE  vclock_has(c, 0)
<1> SUFFICES ASSUME \A i \in Slot : c[i].nodeId # 0
             PROVE  FALSE
  BY DEF vclock_has, Having
<1>1. c \in Clock /\ Shape(c) /\ \A i \in Slot : c[i].nodeId \in Node \cup {0}
  BY OwnIs
<1> DEFINE f == [i \in Slot |-> c[i].nodeId]
           T == Node \ {k}
<1>2. f \in [Slot -> T]
  BY <1>1
<1>3. /\ IsFiniteSet(T) /\ Cardinality(T) = Cardinality(Node) - 1
      /\ Cardinality(Node) \in Nat /\ Cardinality(Node) <= MaxNodes
  BY ClockSystemAssumption, FS_RemoveElement, FS_CardinalityType
<1>4. IsFiniteSet(Slot) /\ Cardinality(Slot) = MaxNodes /\ MaxNodes \in Nat
  <2>1. MaxNodes \in Nat /\ MaxNodes >= 1 /\ 1 \in Int /\ MaxNodes \in Int
    BY VClockAssumption
  <2>2. /\ IsFiniteSet(1..MaxNodes)
        /\ Cardinality(1..MaxNodes) = IF 1 > MaxNodes THEN 0 ELSE MaxNodes - 1 + 1
    BY <2>1, FS_Interval
  <2> QED
    BY <2>1, <2>2 DEF Slot
<1>5. Cardinality(T) < Cardinality(Slot)
  BY <1>3, <1>4
<1> HIDE DEF T, f
<1>6. PICK i, j \in Slot : i # j /\ f[i] = f[j]
  BY <1>2, <1>3, <1>4, <1>5, FS_PigeonHole
<1>7. c[i].nodeId = c[j].nodeId
  BY <1>6 DEF f
<1>8. i < j \/ j < i
  BY <1>6, NodesAre
<1>9. c[i] = Free \/ c[j] = Free
  BY <1>1, <1>7, <1>8 DEF Shape
<1> QED
  BY <1>9, InitClock

(* A pair of another node is learnt: the later time of the two is kept.    *)
Later(c, p, k) == IF k = p.nodeId THEN Max({TimeOf(c, k), p.time}) ELSE TimeOf(c, k)

LEMMA LearnIs ==
    ASSUME NEW n \in Node, NEW c, Own(c, n), NEW p \in Pair,
           p.nodeId \in Node, p.nodeId # n
    PROVE  /\ Own(Learn(n, c, p), n)
           /\ TimeOf(Learn(n, c, p), n) = TimeOf(c, n)
           /\ \A k \in Node : TimeOf(Learn(n, c, p), k) = Later(c, p, k)
<1> DEFINE d == Learn(n, c, p)
           id == p.nodeId
<1>0. /\ c \in Clock /\ Shape(c) /\ c[1].nodeId = n /\ c[1].time > 0
      /\ TimeOf(c, n) = c[1].time
      /\ \A i \in Slot : c[i].nodeId \in Node \cup {0}
      /\ n \in Nat /\ n # 0 /\ 1 \in Slot /\ id \in Nat /\ id # 0 /\ id # n
      /\ p.time \in Nat
  BY OwnIs, NodesAre DEF Pair
<1>1. CASE vclock_has(c, id)
  <2> DEFINE i == Min(Having(c, id))
             t == Max({c[i].time, p.time})
  <2>1. i \in Slot /\ c[i].nodeId = id /\ i # 1
    BY <1>0, <1>1, HasSlot
  <2>2. c[i] \in Pair /\ c[i].time \in Nat
    BY <1>0, <2>1, ClockFields
  <2>3. t \in Nat
    BY <1>0, <2>2, MaxOfTwo
  <2>4. d = [c EXCEPT ![i] = [nodeId |-> id, time |-> t]]
    <3>1. d = [c EXCEPT ![i] = [c[i] EXCEPT !.time = t]]
      <4>1. ~(id \in {0, n})
        BY <1>0
      <4>2. d = [c EXCEPT ![i].time = Max({@, p.time})]
        BY <1>1, <4>1, Zenon DEF Learn
      <4> QED
        BY <4>2
    <3>2. [c[i] EXCEPT !.time = t] = [nodeId |-> id, time |-> t]
      <4> HIDE DEF t, i
      <4> QED
        BY <2>1, <2>2 DEF Pair
    <3> QED
      BY <3>1, <3>2
  <2>5. TimeOf(c, id) = c[i].time
    <3> HIDE DEF i
    <3> QED
      BY <1>0, <2>1, SlotOf
  <2> HIDE DEF t, i
  <2>6. /\ d \in Clock /\ d[i] = [nodeId |-> id, time |-> t]
        /\ \A j \in Slot : j # i => d[j] = c[j]
    BY <1>0, <2>1, <2>3, <2>4 DEF Clock
  <2> HIDE DEF d, id
  <2>7. /\ Shape(d) /\ TimeOf(d, id) = t
        /\ \A j \in Slot : d[j].nodeId = c[j].nodeId
        /\ \A k \in Nat : k \notin {0, id} => TimeOf(d, k) = TimeOf(c, k)
    BY <1>0, <2>1, <2>3, <2>6, TimeChanged
  <2>8. Own(d, n)
    <3>1. d[1] = c[1]
      BY <1>0, <2>1, <2>6
    <3> QED
      BY <1>0, <2>6, <2>7, <3>1, OwnWhen
  <2>9. ASSUME NEW k \in Node PROVE TimeOf(d, k) = Later(c, p, k)
    <3>1. k \in Nat /\ k # 0
      BY NodesAre
    <3>2. CASE k = id
      BY <2>5, <2>7, <3>2 DEF Later, t, id
    <3>3. CASE k # id
      BY <2>7, <3>1, <3>3 DEF Later, id
    <3> QED
      BY <3>2, <3>3
  <2> QED
    BY <1>0, <2>7, <2>8, <2>9 DEF d
<1>2. CASE ~vclock_has(c, id)
  <2> DEFINE i == Min(Having(c, 0))
  <2>1. \A j \in Slot : c[j].nodeId # id
    BY <1>2 DEF vclock_has, Having
  <2>2. vclock_has(c, 0)
    BY <2>1, RoomForAll
  <2>3. d = [c EXCEPT ![i] = p]
    BY <1>0, <1>2, <2>2 DEF Learn
  <2>4. i \in Slot /\ c[i].nodeId = 0
    BY <2>2, HasSlot
  <2>5. TimeOf(c, id) = 0
    BY <2>1, NoSlotOf
  <2>6. /\ d \in Clock /\ d[i] = p /\ \A j \in Slot : j # i => d[j] = c[j]
    <3> HIDE DEF i
    <3> QED
      BY <1>0, <2>3, <2>4 DEF Clock, Pair
  <2> HIDE DEF d
  <2>7. /\ Shape(d) /\ TimeOf(d, id) = p.time
        /\ \A j \in Slot : c[j].nodeId # 0 => d[j] = c[j]
        /\ \A j \in Slot : d[j] = c[j] \/ d[j] = p
        /\ \A k \in Nat : k \notin {0, id} => TimeOf(d, k) = TimeOf(c, k)
    BY <1>0, <2>1, <2>2, <2>6, PairAdded
  <2>8. Own(d, n)
    <3>1. d[1] = c[1]
      BY <1>0, <2>7
    <3>2. \A j \in Slot : d[j].nodeId \in Node \cup {0}
      BY <1>0, <2>7
    <3> QED
      BY <1>0, <2>6, <2>7, <3>1, <3>2, OwnWhen
  <2>9. ASSUME NEW k \in Node PROVE TimeOf(d, k) = Later(c, p, k)
    <3>1. k \in Nat /\ k # 0
      BY NodesAre
    <3>2. CASE k = id
      <4>1. Max({0, p.time}) = p.time
        BY <1>0, MaxOfTwo
      <4> QED
        BY <2>5, <2>7, <3>2, <4>1 DEF Later
    <3>3. CASE k # id
      BY <2>7, <3>1, <3>3 DEF Later
    <3> QED
      BY <3>2, <3>3
  <2> QED
    BY <1>0, <2>7, <2>8, <2>9 DEF d
<1> QED
  BY <1>1, <1>2

(* The rounds of vclock_update with any clock: a pair after the other.     *)
Rounds(n, mine, other, m, f) ==
    f = [i \in 0..m |-> IF i = 0 THEN mine ELSE Learn(n, f[i - 1], other[i])]

(* They exist: a least number of rounds that did not would follow one that *)
(* does.                                                                   *)
LEMMA RoundsExist ==
    ASSUME NEW n, NEW mine, NEW other, NEW m \in 0..MaxNodes
    PROVE  \E f : Rounds(n, mine, other, m, f)
<1> DEFINE S == {k \in 0..MaxNodes : ~\E f : Rounds(n, mine, other, k, f)}
<1>1. SUFFICES ASSUME S # {} PROVE FALSE
  OBVIOUS
<1>2. S \subseteq Nat /\ MaxNodes \in Nat
  BY VClockAssumption
<1> HIDE DEF S
<1>3. PICK k \in S : \A y \in S : k <= y
  BY <1>1, <1>2, LeastExists
<1>4. k \in 0..MaxNodes /\ ~\E f : Rounds(n, mine, other, k, f)
  BY DEF S
<1>5. CASE k = 0
  <2>1. Rounds(n, mine, other, 0, [i \in 0..0 |-> mine])
    BY DEF Rounds
  <2> QED
    BY <1>4, <1>5, <2>1
<1>6. CASE k # 0
  <2>1. k \in Nat /\ k - 1 \in 0..MaxNodes /\ ~(k <= k - 1)
    BY <1>2, <1>4, <1>6
  <2>2. PICK f : Rounds(n, mine, other, k - 1, f)
    BY <1>3, <2>1 DEF S
  <2> DEFINE g == [i \in 0..k |-> IF i = k THEN Learn(n, f[k - 1], other[k]) ELSE f[i]]
  <2>3. \A i \in 0..(k - 1) : f[i] = IF i = 0 THEN mine ELSE Learn(n, f[i - 1], other[i])
    BY <2>2 DEF Rounds
  <2>4. \A i \in 0..k : g[i] = IF i = 0 THEN mine ELSE Learn(n, g[i - 1], other[i])
    <3>1. TAKE i \in 0..k
    <3>2. CASE i = k
      BY <1>6, <2>1, <3>2
    <3>3. CASE i \in 0..(k - 1)
      <4>1. g[i] = f[i] /\ (i # 0 => g[i - 1] = f[i - 1])
        BY <2>1, <3>3
      <4> QED
        BY <2>3, <3>3, <4>1
    <3> QED
      BY <2>1, <3>2, <3>3
  <2>5. g = [i \in 0..k |-> g[i]]
    OBVIOUS
  <2> HIDE DEF g
  <2>6. Rounds(n, mine, other, k, g)
    BY <2>4, <2>5 DEF Rounds
  <2> QED
    BY <1>4, <2>6
<1> QED
  BY <1>5, <1>6

LEMMA RoundsAre ==
    ASSUME NEW n, NEW mine, NEW other
    PROVE  \E a : /\ a[0] = mine
                  /\ \A i \in Slot : a[i] = Learn(n, a[i - 1], other[i])
                  /\ vclock_update(n, mine, other) = a[MaxNodes]
<1> DEFINE a == CHOOSE f : Rounds(n, mine, other, MaxNodes, f)
<1>0. MaxNodes \in Nat /\ MaxNodes \in 0..MaxNodes /\ 0 \in 0..MaxNodes
  BY VClockAssumption
<1>1. vclock_update(n, mine, other) = a[MaxNodes]
  BY DEF vclock_update, Rounds
<1>2. Rounds(n, mine, other, MaxNodes, a)
  BY <1>0, RoundsExist
<1> HIDE DEF a
<1>3. \A i \in 0..MaxNodes :
         a[i] = IF i = 0 THEN mine ELSE Learn(n, a[i - 1], other[i])
  BY <1>2 DEF Rounds
<1>4. a[0] = mine
  BY <1>0, <1>3
<1>5. ASSUME NEW i \in Slot PROVE a[i] = Learn(n, a[i - 1], other[i])
  <2>1. i \in 0..MaxNodes /\ i # 0
    BY <1>0 DEF Slot
  <2> QED
    BY <1>3, <2>1
<1> QED
  BY <1>1, <1>4, <1>5

(* vclock_update with a clock that has one pair: what message_init sends,  *)
(* or nothing at all.                                                      *)
LEMMA UpdateIs ==
    ASSUME NEW n \in Node, NEW mine, NEW other,
           \A i \in Slot : i # 1 => other[i].nodeId = 0
    PROVE  vclock_update(n, mine, other) = Learn(n, mine, other[1])
<1>0. MaxNodes \in Nat /\ MaxNodes >= 1 /\ 1 \in Slot
  BY VClockAssumption DEF Slot
<1>1. \A c, p : p.nodeId = 0 => Learn(n, c, p) = c
  BY DEF Learn
<1>2. PICK a : /\ a[0] = mine
               /\ \A i \in Slot : a[i] = Learn(n, a[i - 1], other[i])
               /\ vclock_update(n, mine, other) = a[MaxNodes]
  BY RoundsAre
<1>3. a[1] = Learn(n, mine, other[1])
  <2>1. a[1] = Learn(n, a[1 - 1], other[1]) /\ 1 - 1 = 0
    BY <1>0, <1>2
  <2> QED
    BY <1>2, <2>1
<1>4. a[MaxNodes] = a[1]
  <2> DEFINE S == {i \in 1..MaxNodes : a[i] # a[1]}
  <2>1. SUFFICES ASSUME S # {} PROVE FALSE
    BY <1>0
  <2>2. S \subseteq Nat
    BY <1>0
  <2> HIDE DEF S
  <2>3. PICK i \in S : \A j \in S : i <= j
    BY <2>1, <2>2, LeastExists
  <2>4. i \in 1..MaxNodes /\ i # 1 /\ a[i] # a[1]
    BY DEF S
  <2>5. i \in Slot /\ i - 1 \in 1..MaxNodes /\ ~(i <= i - 1)
    BY <1>0, <2>4 DEF Slot
  <2>6. a[i - 1] = a[1]
    BY <2>3, <2>5 DEF S
  <2>7. a[i] = a[i - 1]
    BY <1>1, <1>2, <2>4, <2>5
  <2> QED
    BY <2>4, <2>6, <2>7
<1> QED
  BY <1>2, <1>3, <1>4

(* What node n has learnt when the first i pairs of other are taken.       *)
Learnt(n, mine, other, i, d) ==
    /\ Own(d, n) /\ TimeOf(d, n) = TimeOf(mine, n)
    /\ \A k \in Node \ {n} :
          TimeOf(d, k) = IF \E j \in 1..i : other[j].nodeId = k
                         THEN Max({TimeOf(mine, k), TimeOf(other, k)})
                         ELSE TimeOf(mine, k)

LEMMA LearntNext ==
    ASSUME NEW n \in Node, NEW mine, NEW other \in Clock, Shape(other),
           \A i \in Slot : other[i].nodeId \in Node \cup {0},
           NEW i \in Slot, NEW c, Learnt(n, mine, other, i - 1, c)
    PROVE  Learnt(n, mine, other, i, Learn(n, c, other[i]))
<1> DEFINE p == other[i]
           d == Learn(n, c, p)
<1>0. /\ i \in Nat /\ i # 0 /\ n \in Nat /\ n # 0
      /\ p \in Pair /\ p.nodeId \in Node \cup {0}
  BY NodesAre, ClockFields DEF Slot
<1>1. \A k : (\E j \in 1..i : other[j].nodeId = k)
             <=> (\E j \in 1..(i - 1) : other[j].nodeId = k) \/ p.nodeId = k
  <2>1. \A j : j \in 1..i <=> j \in 1..(i - 1) \/ j = i
    BY <1>0
  <2> QED
    BY <2>1
<1>2. CASE p.nodeId \in {0, n}
  <2>1. d = c
    BY <1>2 DEF Learn
  <2>2. \A k \in Node \ {n} : p.nodeId # k
    BY <1>2, NodesAre
  <2> HIDE DEF p, d
  <2>3. Learnt(n, mine, other, i, c)
    BY <1>1, <2>2 DEF Learnt
  <2> QED
    BY <2>1, <2>3 DEF d, p
<1>3. CASE p.nodeId \notin {0, n}
  <2>1. p.nodeId \in Node /\ p.nodeId # n /\ Own(c, n)
    BY <1>0, <1>3 DEF Learnt
  <2>2. /\ Own(d, n) /\ TimeOf(d, n) = TimeOf(c, n)
        /\ \A k \in Node : TimeOf(d, k) = Later(c, p, k)
    <3> HIDE DEF p
    <3> QED
      BY <1>0, <2>1, LearnIs
  <2>3. TimeOf(other, p.nodeId) = p.time /\ Having(other, p.nodeId) = {i}
    <3>1. p.nodeId \in Nat /\ p.nodeId # 0
      BY <2>1, NodesAre
    <3> QED
      BY <3>1, SlotOf
  <2>4. ~\E j \in 1..(i - 1) : other[j].nodeId = p.nodeId
    <3>1. ASSUME NEW j \in 1..(i - 1), other[j].nodeId = p.nodeId PROVE FALSE
      <4>1. j \in Slot /\ j # i
        BY <1>0, VClockAssumption DEF Slot
      <4> QED
        BY <2>3, <3>1, <4>1 DEF Having
    <3> QED
      BY <3>1
  <2>5. ASSUME NEW k \in Node \ {n}
        PROVE  TimeOf(d, k) = IF \E j \in 1..i : other[j].nodeId = k
                              THEN Max({TimeOf(mine, k), TimeOf(other, k)})
                              ELSE TimeOf(mine, k)
    <3> HIDE DEF d, p
    <3>1. TimeOf(d, k) = Later(c, p, k)
      BY <2>2
    <3>2. CASE k = p.nodeId
      <4>1. TimeOf(c, k) = TimeOf(mine, k)
        BY <2>4, <3>2 DEF Learnt
      <4> QED
        BY <1>1, <2>3, <3>1, <3>2, <4>1 DEF Later
    <3>3. CASE k # p.nodeId
      <4>1. TimeOf(d, k) = TimeOf(c, k)
        BY <3>1, <3>3 DEF Later
      <4> QED
        BY <1>1, <3>3, <4>1 DEF Learnt
    <3> QED
      BY <3>2, <3>3
  <2> HIDE DEF d
  <2>6. Learnt(n, mine, other, i, d)
    BY <2>2, <2>5 DEF Learnt
  <2> QED
    BY <2>6 DEF d
<1> QED
  BY <1>2, <1>3

(* vclock_update merges: for any two clocks of nodes that fit into one, in *)
(* whatever order their pairs stand, node n has afterwards the later time  *)
(* of the two for every other node, its own time as before, and a clock    *)
(* with its own pair first and no node twice.                              *)
THEOREM UpdateMerges ==
    ASSUME NEW n \in Node, NEW mine, Own(mine, n),
           NEW other \in Clock, Shape(other),
           \A i \in Slot : other[i].nodeId \in Node \cup {0}
    PROVE  /\ Own(vclock_update(n, mine, other), n)
           /\ TimeOf(vclock_update(n, mine, other), n) = TimeOf(mine, n)
           /\ \A k \in Node \ {n} :
                 TimeOf(vclock_update(n, mine, other), k)
                    = Max({TimeOf(mine, k), TimeOf(other, k)})
<1>0. MaxNodes \in Nat /\ 0 \in 0..MaxNodes /\ MaxNodes \in 0..MaxNodes
  BY VClockAssumption
<1>1. PICK a : /\ a[0] = mine
               /\ \A i \in Slot : a[i] = Learn(n, a[i - 1], other[i])
               /\ vclock_update(n, mine, other) = a[MaxNodes]
  BY RoundsAre
<1>2. Learnt(n, mine, other, 0, a[0])
  <2>1. \A j \in 1..0 : FALSE
    OBVIOUS
  <2> QED
    BY <1>1, <2>1 DEF Learnt
<1>3. Learnt(n, mine, other, MaxNodes, a[MaxNodes])
  <2> DEFINE S == {i \in 0..MaxNodes : ~Learnt(n, mine, other, i, a[i])}
  <2>1. SUFFICES ASSUME S # {} PROVE FALSE
    BY <1>0
  <2>2. S \subseteq Nat
    BY <1>0
  <2> HIDE DEF S
  <2>3. PICK i \in S : \A y \in S : i <= y
    BY <2>1, <2>2, LeastExists
  <2>4. i \in 0..MaxNodes /\ ~Learnt(n, mine, other, i, a[i])
    BY DEF S
  <2>5. i \in Slot /\ i - 1 \in 0..MaxNodes /\ ~(i <= i - 1)
    BY <1>0, <1>2, <2>4 DEF Slot
  <2>6. Learnt(n, mine, other, i - 1, a[i - 1])
    BY <2>3, <2>5 DEF S
  <2>7. Learnt(n, mine, other, i, Learn(n, a[i - 1], other[i]))
    BY <2>5, <2>6, LearntNext
  <2> QED
    BY <1>1, <2>4, <2>5, <2>7
<1>4. ASSUME NEW k \in Node \ {n}
      PROVE  TimeOf(a[MaxNodes], k) = Max({TimeOf(mine, k), TimeOf(other, k)})
  <2>1. CASE \E j \in 1..MaxNodes : other[j].nodeId = k
    BY <1>3, <2>1 DEF Learnt
  <2>2. CASE \A j \in Slot : other[j].nodeId # k
    <3>1. TimeOf(other, k) = 0 /\ TimeOf(mine, k) \in Nat
      BY <2>2, NoSlotOf, OwnIs, TimeTyped
    <3>2. Max({TimeOf(mine, k), 0}) = TimeOf(mine, k)
      <4>1. 0 \in Nat /\ TimeOf(mine, k) >= 0
        BY <3>1
      <4> QED
        BY <3>1, <4>1, MaxOfTwo
    <3>3. TimeOf(a[MaxNodes], k) = TimeOf(mine, k)
      BY <1>3, <2>2 DEF Learnt, Slot
    <3> QED
      BY <3>1, <3>2, <3>3
  <2> QED
    BY <2>1, <2>2 DEF Slot
<1> QED
  BY <1>1, <1>3, <1>4 DEF Learnt

-----------------------------------------------------------------------------
(* Every step is an event of one node n, at which its clock becomes c, or  *)
(* is c when it dies, after it has heard of heard.                         *)

(* c is a clock that n may have next.                                      *)
Knows(n, c, heard) ==
    /\ Own(c, n) /\ heard \in Past
    /\ \A k \in Node : k # n =>
          /\ TimeOf(c, k) <= past[k][k] /\ heard[k] <= past[k][k]
          /\ n \in Worker /\ k \in Worker => heard[k] <= past[Manager][k]
    /\ losses[n] = 0 =>
          /\ TimeOf(c, n) >= past[n][n]
          /\ \A k \in Node : k # n /\ Manager \in {n, k} =>
                TimeOf(c, k) = Max({past[n][k], heard[k]})

PastMoves(n, c, heard) ==
    /\ past' \in [Node -> Past]
    /\ past'[n][n] = Max({past[n][n], TimeOf(c, n)})
    /\ \A k \in Node : k # n => /\ past'[k] = past[k]
                                /\ past'[n][k] = Max({past[n][k], heard[k]})

LogMoves(n, c) ==
    /\ saved' \in [Node -> Clock] /\ unsaved' \in [Node -> Unsaved]
    /\ \A k \in Node : k # n => saved'[k] = saved[k] /\ unsaved'[k] = unsaved[k]
    /\ \/ saved'[n] = c /\ unsaved'[n] = "nothing"
       \/ n \in Worker /\ saved'[n] = mark[n] /\ unsaved'[n] = "rollback"
       \/ saved'[n] = saved[n] /\ unsaved'[n] = "datagram"
       \/ saved'[n] = saved[n] /\ unsaved'[n] = "start" /\ c = Recovered(n)
       \/ saved'[n] = saved[n] /\ unsaved'[n] = unsaved[n] /\ past'[n] = past[n]
    /\ began' \in [Worker -> BOOLEAN] /\ dirty' \in [Worker -> BOOLEAN]
    /\ mark' \in [Worker -> Clock]
    /\ \A w \in Worker : mark'[w] = mark[w] \/ (w = n /\ mark'[w] = c)

SendMoves(n, c) ==
    \A m \in datagrams' : m \notin datagrams =>
        /\ m.to \in Node /\ m.to # n /\ Manager \in {n, m.to}
        /\ m = [from |-> n, to |-> m.to, vclock |-> message_init(c),
                past |-> [past'[n] EXCEPT ![n] = TimeOf(c, n)]]

RunMoves(n, c) ==
    /\ up' \in [Node -> BOOLEAN] /\ clock' \in [Node -> Clock]
    /\ losses' \in [Node -> Nat] /\ known' \subseteq Worker
    /\ \A k \in Node : k # n => /\ up'[k] = up[k] /\ clock'[k] = clock[k]
                                /\ losses'[k] = losses[k]
    /\ \/ up'[n] /\ clock'[n] = c
       \/ ~up'[n] /\ clock'[n] = vclock_init
    /\ losses'[n] = 0 => /\ losses[n] = 0
                         /\ unsaved'[n] \in Behind => up'[n]

Event(n, c, heard) ==
    /\ PastMoves(n, c, heard) /\ LogMoves(n, c) /\ SendMoves(n, c)
    /\ RunMoves(n, c)

LEMMA PastTyped ==
    ASSUME ClockTypeOK, NEW n \in Node, NEW k \in Node
    PROVE  /\ past[n][k] \in Nat /\ past[n] \in Past
           /\ clock[n] \in Clock /\ saved[n] \in Clock
           /\ TimeOf(clock[n], k) \in Nat /\ TimeOf(saved[n], k) \in Nat
           /\ n \in Worker => mark[n] \in Clock /\ TimeOf(mark[n], k) \in Nat
<1>1. /\ past[n][k] \in Nat /\ past[n] \in Past /\ clock[n] \in Clock /\ saved[n] \in Clock
      /\ n \in Worker => mark[n] \in Clock
  BY DEF ClockTypeOK, Past
<1> QED
  BY <1>1, TimeTyped

(* Time only moves on, in the history too.                                 *)
LEMMA PastGrows ==
    ASSUME ClocksInv, NEW n \in Node, NEW c, NEW heard, Knows(n, c, heard),
           Event(n, c, heard), NEW j \in Node, NEW k \in Node
    PROVE  past'[j][k] \in Nat /\ past[j][k] <= past'[j][k]
<1>0. ClockTypeOK /\ c \in Clock
  BY DEF ClocksInv, Knows, Own
<1>1. past[j][k] \in Nat /\ TimeOf(c, n) \in Nat
  BY <1>0, PastTyped, TimeTyped
<1>2. past'[j][k] \in Nat
  BY DEF Event, PastMoves, Past
<1>3. CASE j # n
  <2>1. past'[j] = past[j]
    BY <1>3 DEF Event, PastMoves
  <2> QED
    BY <1>1, <2>1
<1>4. CASE j = n /\ k = n
  <2>1. past'[n][n] = Max({past[n][n], TimeOf(c, n)})
    BY DEF Event, PastMoves
  <2>2. past[n][n] \in Nat
    BY <1>1, <1>4
  <2>3. Max({past[n][n], TimeOf(c, n)}) >= past[n][n]
    BY <1>1, <2>2, MaxOfTwo
  <2> QED
    BY <1>2, <1>4, <2>1, <2>2, <2>3
<1>5. CASE j = n /\ k # n
  <2>1. past'[n][k] = Max({past[n][k], heard[k]}) /\ heard[k] \in Nat
    BY <1>5 DEF Event, PastMoves, Knows, Past
  <2>2. past[n][k] \in Nat
    BY <1>1, <1>5
  <2>3. Max({past[n][k], heard[k]}) >= past[n][k]
    BY <2>1, <2>2, MaxOfTwo
  <2> QED
    BY <1>2, <1>5, <2>1, <2>2, <2>3
<1> QED
  BY <1>2, <1>3, <1>4, <1>5

(* Where a node has lost nothing, the history is in its clock.             *)
LEMMA EventUpToDate ==
    ASSUME ClocksInv, NEW n \in Node, NEW c, NEW heard, Knows(n, c, heard),
           Event(n, c, heard), losses[n] = 0
    PROVE  UpToDate(c, n)' /\ past'[n][n] = TimeOf(c, n)
<1>0. ClockTypeOK /\ c \in Clock
  BY DEF ClocksInv, Knows, Own
<1>1. past[n][n] \in Nat /\ TimeOf(c, n) \in Nat /\ TimeOf(c, n) >= past[n][n]
  BY <1>0, PastTyped, TimeTyped DEF Knows
<1>2. past'[n][n] = TimeOf(c, n)
  <2>1. past'[n][n] = Max({past[n][n], TimeOf(c, n)})
    BY DEF Event, PastMoves
  <2> QED
    BY <1>1, <2>1, MaxOfTwo
<1>3. \A k \in Node : k # n /\ Manager \in {n, k} => TimeOf(c, k) = past'[n][k]
  BY DEF Event, PastMoves, Knows
<1> QED
  BY <1>2, <1>3 DEF UpToDate

LEMMA EventTypes ==
    ASSUME ClocksInv, NEW n \in Node, NEW c, NEW heard, Knows(n, c, heard),
           Event(n, c, heard)
    PROVE  ClockTypeOK'
<1>1. c \in Clock /\ c[1] \in Pair /\ TimeOf(c, n) \in Nat
  BY ClockFields, NodesAre, TimeTyped DEF Knows, Own
<1>2. message_init(c) \in Clock
  BY <1>1, InitClock DEF message_init, Clock, Pair
<1>3. [past'[n] EXCEPT ![n] = TimeOf(c, n)] \in Past
  <2>1. past'[n] \in [Node -> Nat]
    BY DEF Event, PastMoves, Past
  <2> QED
    BY <1>1, <2>1 DEF Past
<1>4. datagrams' \subseteq [from : Node, to : Node, vclock : Clock, past : Past]
  <2>1. ASSUME NEW m \in datagrams'
        PROVE  m \in [from : Node, to : Node, vclock : Clock, past : Past]
    <3>1. CASE m \in datagrams
      BY <3>1 DEF ClocksInv, ClockTypeOK
    <3>2. CASE m \notin datagrams
      BY <1>2, <1>3, <2>1, <3>2 DEF Event, SendMoves
    <3> QED
      BY <3>1, <3>2
  <2> QED
    BY <2>1
<1> QED
  BY <1>4 DEF Event, PastMoves, LogMoves, RunMoves, ClockTypeOK

LEMMA EventSound ==
    ASSUME ClocksInv, NEW n \in Node, NEW c, NEW heard, Knows(n, c, heard),
           Event(n, c, heard)
    PROVE  SoundClocks'
<1>1. Sound(c, n) /\ c # vclock_init /\ Sound(vclock_init, n)
  <2>1. Sound(c, n) /\ c # vclock_init
    BY DEF Knows, Own
  <2>2. Sound(vclock_init, n)
    BY InitClock DEF Sound, WellFormed
  <2> QED
    BY <2>1, <2>2
<1>2. ASSUME NEW k \in Node
      PROVE  /\ Sound(clock'[k], k) /\ Sound(saved'[k], k)
             /\ up'[k] => clock'[k] # vclock_init
  BY <1>1 DEF Event, LogMoves, RunMoves, ClocksInv, SoundClocks
<1>3. ASSUME NEW w \in Worker PROVE Sound(mark'[w], w)
  BY <1>1 DEF Event, LogMoves, ClocksInv, SoundClocks
<1> QED
  BY <1>2, <1>3 DEF SoundClocks

LEMMA EventPresent ==
    ASSUME ClocksInv, NEW n \in Node, NEW c, NEW heard, Knows(n, c, heard),
           Event(n, c, heard)
    PROVE  PresentIsPast'
<1> SUFFICES ASSUME NEW j \in Node, losses'[j] = 0
             PROVE  /\ up'[j] => UpToDate(clock[j], j)'
                    /\ unsaved'[j] = "nothing" => UpToDate(saved[j], j)'
                    /\ unsaved'[j] = "start" => UpToDate(Recovered(j), j)'
                    /\ unsaved'[j] \in Behind => up'[j]
  BY DEF PresentIsPast
<1>1. losses[j] = 0
  BY DEF Event, RunMoves
<1>2. /\ up[j] => UpToDate(clock[j], j)
      /\ unsaved[j] = "nothing" => UpToDate(saved[j], j)
      /\ unsaved[j] = "start" => UpToDate(Recovered(j), j)
      /\ unsaved[j] \in Behind => up[j]
  BY <1>1 DEF ClocksInv, PresentIsPast
<1>3. saved'[j] = saved[j] => Recovered(j)' = Recovered(j)
  BY DEF Recovered, txlog_read_clock
<1>4. past'[j] = past[j] => \A d : UpToDate(d, j) <=>
         \A k \in Node : j = k \/ Manager \in {j, k} => TimeOf(d, k) = past'[j][k]
  BY DEF UpToDate
<1>5. CASE j # n
  <2>1. /\ up'[j] = up[j] /\ clock'[j] = clock[j] /\ saved'[j] = saved[j]
        /\ unsaved'[j] = unsaved[j] /\ past'[j] = past[j]
    BY <1>5 DEF Event, PastMoves, LogMoves, RunMoves
  <2>2. Recovered(j)' = Recovered(j)
    BY <1>3, <2>1
  <2> QED
    BY <1>2, <2>1, <2>2 DEF UpToDate
<1>6. CASE j = n
  <2>1. UpToDate(c, n)'
    BY <1>1, <1>6, EventUpToDate
  <2>2. up'[n] => UpToDate(clock[n], n)'
    <3>1. up'[n] => clock'[n] = c
      BY DEF Event, RunMoves
    <3> QED
      BY <2>1, <3>1 DEF UpToDate
  <2>3. unsaved'[n] \in Behind => up'[n]
    BY <1>6 DEF Event, RunMoves
  <2>4. CASE saved'[n] = c /\ unsaved'[n] = "nothing"
    BY <1>6, <2>1, <2>2, <2>3, <2>4 DEF UpToDate
  <2>5. CASE unsaved'[n] \in {"rollback", "datagram"}
    BY <1>6, <2>2, <2>3, <2>5
  <2>6. CASE saved'[n] = saved[n] /\ unsaved'[n] = "start" /\ c = Recovered(n)
    <3>1. Recovered(n)' = c
      BY <1>3, <1>6, <2>6
    <3> QED
      BY <1>6, <2>1, <2>2, <2>3, <2>6, <3>1 DEF UpToDate
  <2>7. CASE saved'[n] = saved[n] /\ unsaved'[n] = unsaved[n] /\ past'[n] = past[n]
    <3>1. Recovered(n)' = Recovered(n)
      BY <1>3, <1>6, <2>7
    <3> QED
      BY <1>2, <1>6, <2>2, <2>3, <2>7, <3>1 DEF UpToDate
  <2> QED
    BY <2>4, <2>5, <2>6, <2>7 DEF Event, LogMoves
<1> QED
  BY <1>5, <1>6

LEMMA EventAhead ==
    ASSUME ClocksInv, NEW n \in Node, NEW c, NEW heard, Knows(n, c, heard),
           Event(n, c, heard)
    PROVE  NothingAhead'
<1>0. ClockTypeOK /\ c \in Clock /\ heard \in [Node -> Nat]
  BY DEF ClocksInv, Knows, Own, Past
<1>1. ASSUME NEW j \in Node, NEW k \in Node
      PROVE  /\ past'[k][j] <= past'[j][j]
             /\ TimeOf(clock'[k], j) <= past'[j][j]
             /\ TimeOf(saved'[k], j) <= past'[j][j]
             /\ k \in Worker => TimeOf(mark'[k], j) <= past'[j][j]
  <2>1. past[j][j] <= past'[j][j] /\ past'[j][j] \in Nat /\ past[j][j] \in Nat
    BY <1>0, PastGrows, PastTyped
  <2>2. /\ past[k][j] \in Nat /\ TimeOf(clock[k], j) \in Nat
        /\ TimeOf(saved[k], j) \in Nat
        /\ k \in Worker => TimeOf(mark[k], j) \in Nat
    BY <1>0, PastTyped
  <2>3. /\ past[k][j] <= past[j][j] /\ TimeOf(clock[k], j) <= past[j][j]
        /\ TimeOf(saved[k], j) <= past[j][j]
        /\ k \in Worker => TimeOf(mark[k], j) <= past[j][j]
    BY DEF ClocksInv, NothingAhead
  <2>4. /\ past[k][j] <= past'[j][j] /\ TimeOf(clock[k], j) <= past'[j][j]
        /\ TimeOf(saved[k], j) <= past'[j][j]
        /\ k \in Worker => TimeOf(mark[k], j) <= past'[j][j]
    BY <2>1, <2>2, <2>3
  <2>5. k = n => TimeOf(c, j) <= past'[j][j]
    <3>1. TimeOf(c, j) \in Nat
      BY <1>0, TimeTyped
    <3>2. CASE j = n
      <4>1. past'[n][n] = Max({past[n][n], TimeOf(c, n)})
        BY DEF Event, PastMoves
      <4> QED
        BY <2>1, <3>1, <3>2, <4>1, MaxOfTwo
    <3>3. CASE j # n
      <4>1. TimeOf(c, j) <= past[j][j]
        BY <3>3 DEF Knows
      <4> QED
        BY <2>1, <3>1, <4>1
    <3> QED
      BY <3>2, <3>3
  <2>6. TimeOf(vclock_init, j) = 0
    BY InitClock, NodesAre
  <2>7. past'[k][j] <= past'[j][j]
    <3>1. CASE k = n /\ j # n
      <4>1. past'[n][j] = Max({past[n][j], heard[j]}) /\ heard[j] <= past[j][j]
            /\ heard[j] \in Nat
        BY <1>0, <3>1 DEF Event, PastMoves, Knows
      <4> QED
        BY <2>1, <2>2, <2>3, <3>1, <4>1, MaxOfTwo
    <3>2. CASE k = j
      BY <2>1, <3>2
    <3>3. CASE k # n
      BY <2>4, <3>3 DEF Event, PastMoves
    <3> QED
      BY <3>1, <3>2, <3>3
  <2>8. TimeOf(clock'[k], j) <= past'[j][j]
    <3>1. clock'[k] = clock[k] \/ (k = n /\ clock'[k] \in {c, vclock_init})
      BY DEF Event, RunMoves
    <3>2. 0 <= past'[j][j]
      BY <2>1
    <3> QED
      BY <2>4, <2>5, <2>6, <3>1, <3>2
  <2>9. TimeOf(saved'[k], j) <= past'[j][j]
    <3>1. \/ saved'[k] = saved[k]
          \/ k = n /\ saved'[k] = c
          \/ k \in Worker /\ saved'[k] = mark[k]
      BY DEF Event, LogMoves
    <3> QED
      BY <2>4, <2>5, <3>1
  <2>10. k \in Worker => TimeOf(mark'[k], j) <= past'[j][j]
    <3>1. k \in Worker => mark'[k] = mark[k] \/ (k = n /\ mark'[k] = c)
      BY DEF Event, LogMoves
    <3> QED
      BY <2>4, <2>5, <3>1
  <2> QED
    BY <2>7, <2>8, <2>9, <2>10
<1> QED
  BY <1>1 DEF NothingAhead

LEMMA EventHeard ==
    ASSUME ClocksInv, NEW n \in Node, NEW c, NEW heard, Knows(n, c, heard),
           Event(n, c, heard)
    PROVE  HeardViaManager'
<1>1. ASSUME NEW w \in Worker, NEW k \in Worker, w # k
      PROVE  past'[w][k] <= past'[Manager][k]
  <2>0. w \in Node /\ k \in Node /\ Manager \in Node /\ w # Manager /\ ClockTypeOK
    BY NodesAre DEF ClocksInv
  <2>1. /\ past[Manager][k] <= past'[Manager][k] /\ past'[Manager][k] \in Nat
        /\ past[Manager][k] \in Nat /\ past[w][k] \in Nat
    BY <2>0, PastGrows, PastTyped
  <2>2. past[w][k] <= past[Manager][k]
    BY <1>1 DEF ClocksInv, HeardViaManager
  <2>3. CASE w = n
    <3>1. /\ past'[n][k] = Max({past[n][k], heard[k]}) /\ heard[k] \in Nat
          /\ heard[k] <= past[Manager][k]
      BY <1>1, <2>0, <2>3 DEF Event, PastMoves, Knows, Past
    <3> QED
      BY <2>1, <2>2, <2>3, <3>1, MaxOfTwo
  <2>4. CASE w # n
    <3>1. past'[w][k] = past[w][k]
      BY <2>0, <2>4 DEF Event, PastMoves
    <3> QED
      BY <2>1, <2>2, <3>1
  <2> QED
    BY <2>3, <2>4
<1> QED
  BY <1>1 DEF HeardViaManager

LEMMA EventCarries ==
    ASSUME ClocksInv, NEW n \in Node, NEW c, NEW heard, Knows(n, c, heard),
           Event(n, c, heard)
    PROVE  (\A m \in datagrams : \E s \in Node : Carries(m, s))'
<1> SUFFICES ASSUME NEW m \in datagrams'
             PROVE  \E s \in Node : Carries(m, s)'
  OBVIOUS
<1>0. ClockTypeOK /\ Manager \in Node /\ Worker \subseteq Node
  BY NodesAre DEF ClocksInv
<1>1. CASE m \in datagrams
  <2>1. PICK s \in Node : Carries(m, s)
    BY <1>1 DEF ClocksInv
  <2>2. m.past \in [Node -> Nat]
    BY <1>0, <1>1 DEF ClockTypeOK, Past
  <2>3. ASSUME NEW k \in Node PROVE m.past[k] <= past'[k][k]
    <3>1. m.past[k] <= past[k][k] /\ m.past[k] \in Nat
      BY <2>1, <2>2 DEF Carries
    <3>2. past[k][k] <= past'[k][k] /\ past'[k][k] \in Nat /\ past[k][k] \in Nat
      BY <1>0, PastGrows, PastTyped
    <3> QED
      BY <3>1, <3>2
  <2>4. ASSUME NEW k \in Worker, k # s PROVE m.past[k] <= past'[Manager][k]
    <3>1. m.past[k] <= past[Manager][k] /\ m.past[k] \in Nat
      BY <1>0, <2>1, <2>2, <2>4 DEF Carries
    <3>2. /\ past[Manager][k] <= past'[Manager][k] /\ past'[Manager][k] \in Nat
          /\ past[Manager][k] \in Nat
      BY <1>0, PastGrows, PastTyped
    <3> QED
      BY <3>1, <3>2
  <2> QED
    BY <2>1, <2>3, <2>4 DEF Carries
<1>2. CASE m \notin datagrams
  <2> DEFINE t == TimeOf(c, n)
  <2>0. past'[n] \in [Node -> Nat]
    BY DEF Event, PastMoves, Past
  <2>1. /\ m.to # n /\ Manager \in {n, m.to} /\ m.from = n
        /\ m.vclock = message_init(c) /\ m.past = [past'[n] EXCEPT ![n] = t]
    BY <1>2 DEF Event, SendMoves
  <2>2. /\ c \in Clock /\ c[1].nodeId = n /\ t = c[1].time
        /\ c[1].time > 0 /\ 1 \in Slot /\ t \in Nat
    BY OwnIs, NodesAre DEF Knows
  <2> HIDE DEF t
  <2>3. c[1] = [nodeId |-> n, time |-> t]
    <3>1. c[1] \in Pair
      BY <2>2, ClockFields
    <3> QED
      BY <2>2, <3>1 DEF Pair
  <2>4. /\ message_init(c)[1] = c[1]
        /\ \A i \in Slot : i # 1 => message_init(c)[i] = Free
    BY <2>2, InitClock DEF message_init, vclock_init
  <2>5. m.past[n] = t /\ \A k \in Node : k # n => m.past[k] = past'[n][k]
    BY <2>0, <2>1
  <2>6. \A k \in Node : m.past[k] <= past'[k][k]
    <3>1. \A k \in Node : past'[n][k] <= past'[k][k]
      BY EventAhead DEF NothingAhead
    <3>2. t <= past'[n][n]
      <4>1. past'[n][n] = Max({past[n][n], t}) /\ past[n][n] \in Nat
        BY <1>0, PastTyped DEF Event, PastMoves, t
      <4> QED
        BY <2>2, <4>1, MaxOfTwo
    <3> QED
      BY <2>5, <3>1, <3>2
  <2>7. ASSUME NEW k \in Worker, k # n PROVE m.past[k] <= past'[Manager][k]
    <3>0. m.past[k] = past'[n][k]
      BY <1>0, <2>5, <2>7
    <3>1. CASE n = Manager
      <4>1. past'[Manager][k] \in Nat
        BY <1>0, PastGrows
      <4> QED
        BY <3>0, <3>1, <4>1
    <3>2. CASE n \in Worker
      BY <2>7, <3>0, <3>2, EventHeard DEF HeardViaManager
    <3> QED
      BY <3>1, <3>2, NodesAre
  <2>8. Carries(m, n)'
    BY <2>1, <2>2, <2>3, <2>4, <2>5, <2>6, <2>7 DEF Carries
  <2> QED
    BY <2>8
<1> QED
  BY <1>1, <1>2

LEMMA EventKeeps ==
    ASSUME ClocksInv, NEW n \in Node, NEW c, NEW heard, Knows(n, c, heard),
           Event(n, c, heard)
    PROVE  ClocksInv'
  BY EventTypes, EventSound, EventPresent, EventAhead, EventHeard, EventCarries
  DEF ClocksInv

-----------------------------------------------------------------------------
(* The clocks that the code computes are clocks that the node may have.    *)

LEMMA NothingHeard == Nothing \in Past /\ \A k \in Node : Nothing[k] = 0
  BY DEF Nothing, Past

(* A running node knows its past, and nobody's future.                     *)
LEMMA RunningIs ==
    ASSUME ClocksInv, NEW n \in Node, up[n]
    PROVE  /\ ClockTypeOK /\ Own(clock[n], n)
           /\ past[n][n] \in Nat /\ TimeOf(clock[n], n) \in Nat
           /\ TimeOf(clock[n], n) <= past[n][n]
           /\ losses[n] = 0 => TimeOf(clock[n], n) = past[n][n]
           /\ \A k \in Node : k # n =>
                 /\ TimeOf(clock[n], k) <= past[k][k]
                 /\ losses[n] = 0 /\ Manager \in {n, k} =>
                       TimeOf(clock[n], k) = past[n][k]
<1>1. ClockTypeOK /\ Own(clock[n], n)
  BY DEF ClocksInv, SoundClocks, Own, ClockTypeOK
<1>2. losses[n] = 0 => UpToDate(clock[n], n)
  BY DEF ClocksInv, PresentIsPast
<1>3. \A k \in Node : TimeOf(clock[n], k) <= past[k][k]
  BY DEF ClocksInv, NothingAhead
<1>4. past[n][n] \in Nat /\ TimeOf(clock[n], n) \in Nat
  BY <1>1, PastTyped
<1> QED
  BY <1>1, <1>2, <1>3, <1>4 DEF UpToDate

(* What nothing has been heard of leaves as it is.                         *)
LEMMA NothingAdds ==
    ASSUME ClocksInv, NEW n \in Node, NEW k \in Node
    PROVE  /\ Nothing[k] <= past[k][k] /\ Nothing[k] <= past[Manager][k]
           /\ Max({past[n][k], Nothing[k]}) = past[n][k]
<1>1. /\ past[k][k] \in Nat /\ past[n][k] \in Nat /\ past[Manager][k] \in Nat
      /\ Nothing[k] = 0
  BY PastTyped, NothingHeard, NodesAre DEF ClocksInv
<1>2. Max({past[n][k], Nothing[k]}) = past[n][k]
  BY <1>1, MaxOfTwo
<1> QED
  BY <1>1, <1>2

LEMMA CommandKnows ==
    ASSUME ClocksInv, NEW n \in Node, up[n]
    PROVE  /\ Knows(n, Ticked(n, vclock_init), Nothing)
           /\ losses[n] = 0 => TimeOf(Ticked(n, vclock_init), n) > past[n][n]
<1> DEFINE c == Ticked(n, vclock_init)
<1>0. /\ Own(clock[n], n) /\ past[n][n] \in Nat
      /\ losses[n] = 0 => TimeOf(clock[n], n) = past[n][n]
  BY RunningIs
<1>1. vclock_update(n, clock[n], vclock_init) = clock[n]
  <2>1. /\ \A i \in Slot : vclock_init[i].nodeId = 0
        /\ vclock_init[1].nodeId = 0
    BY InitClock, NodesAre
  <2>2. Learn(n, clock[n], vclock_init[1]) = clock[n]
    BY <2>1 DEF Learn
  <2>3. vclock_update(n, clock[n], vclock_init) = Learn(n, clock[n], vclock_init[1])
    BY <2>1, UpdateIs
  <2> QED
    BY <2>2, <2>3
<1>2. c = vclock_increment(n, clock[n])
  BY <1>1 DEF Ticked
<1> HIDE DEF c
<1>3. /\ Own(c, n) /\ TimeOf(c, n) = TimeOf(clock[n], n) + 1
      /\ \A k \in Node : k # n => TimeOf(c, k) = TimeOf(clock[n], k)
  BY <1>0, <1>2, IncrementIs
<1>4. losses[n] = 0 => TimeOf(c, n) > past[n][n] /\ TimeOf(c, n) >= past[n][n]
  BY <1>0, <1>3
<1>5. ASSUME NEW k \in Node, k # n
      PROVE  /\ TimeOf(c, k) <= past[k][k] /\ Nothing[k] <= past[k][k]
             /\ n \in Worker /\ k \in Worker => Nothing[k] <= past[Manager][k]
             /\ losses[n] = 0 /\ Manager \in {n, k} =>
                   TimeOf(c, k) = Max({past[n][k], Nothing[k]})
  BY <1>3, <1>5, RunningIs, NothingAdds
<1> QED
  BY <1>3, <1>4, <1>5, NothingHeard DEF Knows, c

LEMMA AskKnows ==
    ASSUME ClocksInv, NEW n \in Node, up[n]
    PROVE  /\ Knows(n, clock[n], Nothing)
           /\ Max({past[n][n], TimeOf(clock[n], n)}) = past[n][n]
           /\ \A k \in Node : Max({past[n][k], Nothing[k]}) = past[n][k]
<1>1. /\ Own(clock[n], n) /\ past[n][n] \in Nat /\ TimeOf(clock[n], n) \in Nat
      /\ TimeOf(clock[n], n) <= past[n][n]
      /\ losses[n] = 0 => TimeOf(clock[n], n) >= past[n][n]
  BY RunningIs
<1>2. ASSUME NEW k \in Node, k # n
      PROVE  /\ TimeOf(clock[n], k) <= past[k][k] /\ Nothing[k] <= past[k][k]
             /\ n \in Worker /\ k \in Worker => Nothing[k] <= past[Manager][k]
             /\ losses[n] = 0 /\ Manager \in {n, k} =>
                   TimeOf(clock[n], k) = Max({past[n][k], Nothing[k]})
  BY <1>2, RunningIs, NothingAdds
<1>3. Knows(n, clock[n], Nothing)
  BY <1>1, <1>2, NothingHeard DEF Knows
<1>4. Max({past[n][n], TimeOf(clock[n], n)}) = past[n][n]
  BY <1>1, MaxOfTwo
<1> QED
  BY <1>3, <1>4, NothingAdds

LEMMA DatagramKnows ==
    ASSUME ClocksInv, NEW n \in Node, up[n], NEW m \in datagrams, m.to = n
    PROVE  /\ Knows(n, Ticked(n, m.vclock), m.past)
           /\ losses[n] = 0 => TimeOf(Ticked(n, m.vclock), n) > past[n][n]
<1> DEFINE c == Ticked(n, m.vclock)
           p == m.vclock[1]
           d == Learn(n, clock[n], p)
<1>0. /\ ClockTypeOK /\ Own(clock[n], n) /\ m.past \in Past
      /\ past[n][n] \in Nat
      /\ losses[n] = 0 => TimeOf(clock[n], n) = past[n][n]
  BY RunningIs DEF ClocksInv, ClockTypeOK
<1>1. PICK s \in Node : Carries(m, s)
  BY DEF ClocksInv
<1>2. /\ s # n /\ Manager \in {s, n} /\ p = [nodeId |-> s, time |-> m.past[s]]
      /\ \A i \in Slot : i # 1 => m.vclock[i].nodeId = 0
  BY <1>1, InitClock DEF Carries
<1>3. p \in Pair /\ p.nodeId = s /\ p.time = m.past[s]
  BY <1>0, <1>2, NodesAre DEF Pair, Past
<1>4. vclock_update(n, clock[n], m.vclock) = d
  BY <1>2, UpdateIs
<1>5. c = vclock_increment(n, d)
  BY <1>4 DEF Ticked
<1> HIDE DEF c
<1>6. /\ Own(d, n) /\ TimeOf(d, n) = TimeOf(clock[n], n)
      /\ \A k \in Node : TimeOf(d, k) = Later(clock[n], p, k)
  <2> HIDE DEF p
  <2> QED
    BY <1>0, <1>2, <1>3, LearnIs
<1> HIDE DEF d
<1>7. /\ Own(c, n) /\ TimeOf(c, n) = TimeOf(d, n) + 1
      /\ \A k \in Node : k # n => TimeOf(c, k) = TimeOf(d, k)
  BY <1>5, <1>6, IncrementIs
<1>8. losses[n] = 0 => TimeOf(c, n) > past[n][n] /\ TimeOf(c, n) >= past[n][n]
  BY <1>0, <1>6, <1>7
<1>9. ASSUME NEW k \in Node, k # n
      PROVE  /\ TimeOf(c, k) <= past[k][k] /\ m.past[k] <= past[k][k]
             /\ n \in Worker /\ k \in Worker => m.past[k] <= past[Manager][k]
             /\ losses[n] = 0 /\ Manager \in {n, k} =>
                   TimeOf(c, k) = Max({past[n][k], m.past[k]})
  <2>1. /\ past[k][k] \in Nat /\ past[n][k] \in Nat /\ past[Manager][k] \in Nat
        /\ m.past[k] \in Nat /\ TimeOf(clock[n], k) \in Nat
    BY <1>0, PastTyped, NodesAre DEF Past
  <2>2. TimeOf(clock[n], k) <= past[k][k]
    BY DEF ClocksInv, NothingAhead
  <2>3. losses[n] = 0 /\ Manager \in {n, k} => TimeOf(clock[n], k) = past[n][k]
    BY <1>9, RunningIs
  <2>4. m.past[k] <= past[k][k] /\ (k \in Worker /\ k # s => m.past[k] <= past[Manager][k])
    BY <1>1 DEF Carries
  <2>5. TimeOf(c, k) = IF k = s THEN Max({TimeOf(clock[n], k), m.past[k]})
                                ELSE TimeOf(clock[n], k)
    BY <1>3, <1>6, <1>7, <1>9 DEF Later
  <2>6. TimeOf(c, k) <= past[k][k]
    <3>1. CASE k = s
      BY <2>1, <2>2, <2>4, <2>5, <3>1, MaxOfTwo
    <3>2. CASE k # s
      BY <2>2, <2>5, <3>2
    <3> QED
      BY <3>1, <3>2
  <2>7. ASSUME losses[n] = 0, Manager \in {n, k}
        PROVE  TimeOf(c, k) = Max({past[n][k], m.past[k]})
    <3>1. CASE k = s
      BY <2>3, <2>5, <2>7, <3>1
    <3>2. CASE k # s
      <4>1. n = Manager /\ k \in Worker
        BY <1>2, <1>9, <2>7, <3>2, NodesAre
      <4>2. m.past[k] <= past[n][k]
        BY <2>4, <3>2, <4>1
      <4>3. Max({past[n][k], m.past[k]}) = past[n][k]
        BY <2>1, <4>2, MaxOfTwo
      <4> QED
        BY <2>3, <2>5, <2>7, <3>2, <4>3
    <3> QED
      BY <3>1, <3>2
  <2>8. n \in Worker /\ k \in Worker => k # s
    BY <1>2, NodesAre
  <2> QED
    BY <2>4, <2>6, <2>7, <2>8
<1> QED
  BY <1>0, <1>7, <1>8, <1>9 DEF Knows, c

(* What a start makes of a header.                                         *)
LEMMA RecoveredIs ==
    ASSUME ClocksInv, NEW n \in Node
    PROVE  /\ Own(Recovered(n), n)
           /\ TimeOf(Recovered(n), n) \in Nat /\ TimeOf(saved[n], n) \in Nat
           /\ TimeOf(Recovered(n), n) >= TimeOf(saved[n], n)
           /\ n # Manager => TimeOf(Recovered(n), n) > TimeOf(saved[n], n)
           /\ \A k \in Node : k # n => TimeOf(Recovered(n), k) = TimeOf(saved[n], k)
<1>0. /\ ClockTypeOK /\ saved[n] \in Clock /\ Sound(saved[n], n)
      /\ TimeOf(saved[n], n) \in Nat
  BY PastTyped DEF ClocksInv, SoundClocks
<1>1. CASE ~vclock_has(saved[n], n)
  <2>1. saved[n] = vclock_init
    BY <1>0, <1>1, SoundIs DEF Own
  <2>2. \A k \in Node : TimeOf(saved[n], k) = 0
    BY <2>1, InitClock, NodesAre
  <2>3. Recovered(n) = vclock_add(vclock_init, n)
    BY <1>1, <2>1 DEF Recovered, txlog_read_clock
  <2>4. /\ Own(Recovered(n), n) /\ TimeOf(Recovered(n), n) = 1
        /\ \A k \in Node : k # n => TimeOf(Recovered(n), k) = 0
    BY <2>3, AddIs
  <2> QED
    BY <2>2, <2>4
<1>2. CASE vclock_has(saved[n], n) /\ n = Manager
  <2>1. Own(saved[n], n) /\ Recovered(n) = saved[n]
    BY <1>0, <1>2, SoundIs DEF Recovered, txlog_read_clock
  <2> QED
    BY <1>0, <1>2, <2>1
<1>3. CASE vclock_has(saved[n], n) /\ n # Manager
  <2>1. Own(saved[n], n) /\ Recovered(n) = vclock_increment(n, saved[n])
    BY <1>0, <1>3, SoundIs DEF Recovered, txlog_read_clock
  <2>2. /\ Own(Recovered(n), n) /\ TimeOf(Recovered(n), n) = TimeOf(saved[n], n) + 1
        /\ \A k \in Node : k # n => TimeOf(Recovered(n), k) = TimeOf(saved[n], k)
    BY <2>1, IncrementIs
  <2> QED
    BY <1>0, <2>2
<1> QED
  BY <1>1, <1>2, <1>3

LEMMA StartKnows ==
    ASSUME ClocksInv, NEW n \in Node, ~up[n]
    PROVE  /\ Knows(n, Recovered(n), Nothing)
           /\ losses[n] = 0 =>
                 \/ TimeOf(Recovered(n), n) > past[n][n]
                 \/ /\ TimeOf(Recovered(n), n) = past[n][n]
                    /\ n = Manager \/ unsaved[n] = "start"
<1> DEFINE c == Recovered(n)
<1>0. /\ ClockTypeOK /\ Own(c, n) /\ past[n][n] \in Nat
      /\ TimeOf(c, n) \in Nat /\ TimeOf(saved[n], n) \in Nat
      /\ TimeOf(c, n) >= TimeOf(saved[n], n)
      /\ n # Manager => TimeOf(c, n) > TimeOf(saved[n], n)
      /\ \A k \in Node : k # n => TimeOf(c, k) = TimeOf(saved[n], k)
  BY RecoveredIs, PastTyped DEF ClocksInv
<1>1. losses[n] = 0 =>
         \/ unsaved[n] = "nothing" /\ UpToDate(saved[n], n)
         \/ unsaved[n] = "start" /\ UpToDate(c, n)
  <2>1. unsaved[n] \in Unsaved
    BY <1>0 DEF ClockTypeOK
  <2>2. losses[n] = 0 => unsaved[n] \in {"nothing", "start"}
    BY <2>1 DEF ClocksInv, PresentIsPast, Unsaved
  <2> QED
    BY <2>2 DEF ClocksInv, PresentIsPast
<1> HIDE DEF c
<1>2. losses[n] = 0 =>
         \/ TimeOf(c, n) > past[n][n]
         \/ TimeOf(c, n) = past[n][n] /\ (n = Manager \/ unsaved[n] = "start")
  BY <1>0, <1>1 DEF UpToDate
<1>3. losses[n] = 0 => TimeOf(c, n) >= past[n][n]
  BY <1>0, <1>2
<1>4. ASSUME NEW k \in Node, k # n
      PROVE  /\ TimeOf(c, k) <= past[k][k] /\ Nothing[k] <= past[k][k]
             /\ n \in Worker /\ k \in Worker => Nothing[k] <= past[Manager][k]
             /\ losses[n] = 0 /\ Manager \in {n, k} =>
                   TimeOf(c, k) = Max({past[n][k], Nothing[k]})
  <2>1. TimeOf(saved[n], k) <= past[k][k]
    BY DEF ClocksInv, NothingAhead
  <2>2. losses[n] = 0 /\ Manager \in {n, k} => TimeOf(c, k) = past[n][k]
    BY <1>0, <1>1, <1>4 DEF UpToDate
  <2> QED
    BY <1>0, <1>4, <2>1, <2>2, NothingAdds
<1> QED
  BY <1>0, <1>2, <1>3, <1>4, NothingHeard DEF Knows, c

-----------------------------------------------------------------------------
(* The parts of a handler, as parts of an event.                           *)

LEMMA RecordsMoves ==
    ASSUME ClockTypeOK, NEW n \in Node, NEW c, NEW heard, Knows(n, c, heard),
           Records(n, c, heard)
    PROVE  PastMoves(n, c, heard)
<1>1. c \in Clock /\ heard \in [Node -> Nat] /\ TimeOf(c, n) \in Nat
      /\ past[n][n] \in Nat
  BY TimeTyped, PastTyped DEF Knows, Own, Past
<1>2. Max({past[n][n], TimeOf(c, n)}) \in Nat
  BY <1>1, MaxOfTwo
<1>3. ASSUME NEW k \in Node PROVE Max({past[n][k], heard[k]}) \in Nat
  <2>1. past[n][k] \in Nat /\ heard[k] \in Nat
    BY <1>1, PastTyped
  <2> QED
    BY <2>1, MaxOfTwo
<1> DEFINE new == [k \in Node |-> IF k = n THEN Max({past[n][n], TimeOf(c, n)})
                                  ELSE Max({past[n][k], heard[k]})]
<1>4. past' = [past EXCEPT ![n] = new]
  BY DEF Records
<1>5. new \in Past /\ new[n] = Max({past[n][n], TimeOf(c, n)})
      /\ \A k \in Node : k # n => new[k] = Max({past[n][k], heard[k]})
  BY <1>2, <1>3 DEF Past
<1> HIDE DEF new
<1> QED
  BY <1>4, <1>5 DEF PastMoves, ClockTypeOK

LEMMA LogMovesWhen ==
    ASSUME ClockTypeOK, NEW n \in Node, NEW c \in Clock,
           \/ txlog_write_clock(n, c) /\ UNCHANGED logVars
           \/ n \in Worker /\ AppendsMark(n, c)
           \/ n \in Worker /\ \E b \in BOOLEAN : AppendsOther(n, c, b)
           \/ n \in Worker /\ RollsBack(n)
           \/ HeaderStays(n) /\ c = Recovered(n)
           \/ /\ unsaved' = [unsaved EXCEPT ![n] = "datagram"]
              /\ UNCHANGED <<saved, logVars>>
           \/ UNCHANGED <<saved, unsaved, logVars, past>>
    PROVE  LogMoves(n, c)
<1>0. \A u \in {"nothing", "start", "rollback", "datagram"} :
         unsaved' = [unsaved EXCEPT ![n] = u] =>
            /\ unsaved' \in [Node -> Unsaved] /\ unsaved'[n] = u
            /\ \A k \in Node : k # n => unsaved'[k] = unsaved[k]
  BY DEF ClockTypeOK, Unsaved, Behind
<1>1. CASE txlog_write_clock(n, c) /\ UNCHANGED logVars
  BY <1>0, <1>1 DEF LogMoves, ClockTypeOK, logVars, txlog_write_clock
<1>2. CASE n \in Worker /\ AppendsMark(n, c)
  BY <1>0, <1>2 DEF LogMoves, ClockTypeOK, AppendsMark, txlog_write_clock
<1>3. CASE n \in Worker /\ \E b \in BOOLEAN : AppendsOther(n, c, b)
  BY <1>0, <1>3 DEF LogMoves, ClockTypeOK, AppendsOther, txlog_write_clock
<1>4. CASE n \in Worker /\ RollsBack(n)
  BY <1>0, <1>4 DEF LogMoves, ClockTypeOK, RollsBack
<1>5. CASE HeaderStays(n) /\ c = Recovered(n)
  BY <1>0, <1>5 DEF LogMoves, ClockTypeOK, HeaderStays, logVars
<1>6. CASE unsaved' = [unsaved EXCEPT ![n] = "datagram"] /\ UNCHANGED <<saved, logVars>>
  BY <1>0, <1>6 DEF LogMoves, ClockTypeOK, logVars
<1>7. CASE UNCHANGED <<saved, unsaved, logVars, past>>
  BY <1>7 DEF LogMoves, ClockTypeOK, logVars
<1> QED
  BY <1>1, <1>2, <1>3, <1>4, <1>5, <1>6, <1>7

LEMMA SendMovesWhen ==
    ASSUME NEW n \in Node, NEW c,
           \/ UNCHANGED datagrams
           \/ n \in Worker /\ Sends(n, c, {Manager})
           \/ n = Manager /\ \E dest \in SUBSET Worker : Sends(n, c, dest)
    PROVE  SendMoves(n, c)
<1>1. CASE UNCHANGED datagrams
  BY <1>1 DEF SendMoves
<1>2. CASE n \in Worker /\ Sends(n, c, {Manager})
  BY <1>2, NodesAre DEF SendMoves, Sends
<1>3. CASE n = Manager /\ \E dest \in SUBSET Worker : Sends(n, c, dest)
  BY <1>3, NodesAre DEF SendMoves, Sends
<1> QED
  BY <1>1, <1>2, <1>3

LEMMA RunMovesUp ==
    ASSUME ClockTypeOK, NEW n \in Node, NEW c \in Clock,
           clock' = [clock EXCEPT ![n] = c], up' = [up EXCEPT ![n] = TRUE],
           UNCHANGED losses, known' \subseteq Worker
    PROVE  RunMoves(n, c)
  BY DEF ClockTypeOK, RunMoves

LEMMA StaysUp ==
    ASSUME ClockTypeOK, NEW n \in Node, up[n], UNCHANGED up
    PROVE  up' = [up EXCEPT ![n] = TRUE]
  BY DEF ClockTypeOK

LEMMA RunMovesDown ==
    ASSUME ClockTypeOK, NEW n \in Node, NEW c, Exits(n)
    PROVE  RunMoves(n, c)
<1>1. losses[n] \in Nat /\ losses \in [Node -> Nat]
  BY DEF ClockTypeOK
<1> DEFINE l == IF unsaved'[n] \in Behind THEN losses[n] + 1 ELSE losses[n]
<1>2. losses' = [losses EXCEPT ![n] = l]
  BY DEF Exits
<1>3. l \in Nat /\ (l = 0 => losses[n] = 0 /\ unsaved'[n] \notin Behind)
  BY <1>1
<1> HIDE DEF l
<1>4. /\ losses' \in [Node -> Nat] /\ losses'[n] = l
      /\ \A k \in Node : k # n => losses'[k] = losses[k]
  BY <1>1, <1>2, <1>3
<1>5. /\ up' \in [Node -> BOOLEAN] /\ ~up'[n]
      /\ \A k \in Node : k # n => up'[k] = up[k]
  BY DEF ClockTypeOK, Exits
<1>6. /\ clock' \in [Node -> Clock] /\ clock'[n] = vclock_init
      /\ \A k \in Node : k # n => clock'[k] = clock[k]
      /\ known' \subseteq Worker
  BY InitClock DEF ClockTypeOK, Exits
<1> QED
  BY <1>3, <1>4, <1>5, <1>6 DEF RunMoves

(* An event, and what it does to the time of its node.                     *)
IsEvent(n, c, heard) ==
    /\ Knows(n, c, heard) /\ Event(n, c, heard)
    /\ losses[n] = 0 =>
          \/ TimeOf(c, n) > past[n][n]
          \/ clock'[n] \in {clock[n], vclock_init}
          \/ /\ ~up[n] /\ TimeOf(c, n) = past[n][n]
             /\ n = Manager \/ unsaved[n] = "start"

LEMMA CommandEvent ==
    ASSUME ClocksInv, NEW n \in Node, MayTick(n),
           Records(n, Ticked(n, vclock_init), Nothing),
           LogMoves(n, Ticked(n, vclock_init)), SendMoves(n, Ticked(n, vclock_init)),
           \/ clock' = [clock EXCEPT ![n] = Ticked(n, vclock_init)] /\ Stays
           \/ Exits(n)
    PROVE  IsEvent(n, Ticked(n, vclock_init), Nothing)
<1> DEFINE c == Ticked(n, vclock_init)
<1>1. ClockTypeOK /\ up[n]
  BY DEF ClocksInv, MayTick
<1>2. Knows(n, c, Nothing) /\ (losses[n] = 0 => TimeOf(c, n) > past[n][n])
  BY <1>1, CommandKnows
<1> HIDE DEF c
<1>3. c \in Clock
  BY <1>2 DEF Knows, Own
<1>4. PastMoves(n, c, Nothing)
  BY <1>1, <1>2, RecordsMoves DEF c
<1>5. RunMoves(n, c)
  <2>1. CASE clock' = [clock EXCEPT ![n] = c] /\ Stays
    <3>1. /\ UNCHANGED losses /\ known' \subseteq Worker
          /\ up' = [up EXCEPT ![n] = TRUE]
      BY <1>1, <2>1, StaysUp DEF Stays, ClockTypeOK
    <3> QED
      BY <1>1, <1>3, <2>1, <3>1, RunMovesUp
  <2>2. CASE Exits(n)
    BY <1>1, <2>2, RunMovesDown
  <2> QED
    BY <2>1, <2>2 DEF c
<1>6. LogMoves(n, c) /\ SendMoves(n, c)
  BY DEF c
<1> QED
  BY <1>2, <1>4, <1>5, <1>6 DEF IsEvent, Event, c

LEMMA DatagramEvent ==
    ASSUME ClocksInv, NEW n \in Node, MayTick(n), NEW m \in datagrams, m.to = n,
           Records(n, Ticked(n, m.vclock), m.past),
           LogMoves(n, Ticked(n, m.vclock)), SendMoves(n, Ticked(n, m.vclock)),
           \/ /\ clock' = [clock EXCEPT ![n] = Ticked(n, m.vclock)]
              /\ UNCHANGED <<up, losses>> /\ known' \subseteq Worker
           \/ Exits(n)
    PROVE  IsEvent(n, Ticked(n, m.vclock), m.past)
<1> DEFINE c == Ticked(n, m.vclock)
           heard == m.past
<1>1. ClockTypeOK /\ up[n]
  BY DEF ClocksInv, MayTick
<1>2. Knows(n, c, heard) /\ (losses[n] = 0 => TimeOf(c, n) > past[n][n])
  BY <1>1, DatagramKnows
<1> HIDE DEF c, heard
<1>3. c \in Clock
  BY <1>2 DEF Knows, Own
<1>4. PastMoves(n, c, heard)
  BY <1>1, <1>2, RecordsMoves DEF c, heard
<1>5. RunMoves(n, c)
  <2>1. CASE /\ clock' = [clock EXCEPT ![n] = c]
             /\ UNCHANGED <<up, losses>> /\ known' \subseteq Worker
    <3>1. up' = [up EXCEPT ![n] = TRUE]
      BY <1>1, <2>1, StaysUp
    <3> QED
      BY <1>1, <1>3, <2>1, <3>1, RunMovesUp
  <2>2. CASE Exits(n)
    BY <1>1, <2>2, RunMovesDown
  <2> QED
    BY <2>1, <2>2 DEF c
<1>6. LogMoves(n, c) /\ SendMoves(n, c)
  BY DEF c
<1> QED
  BY <1>2, <1>4, <1>5, <1>6 DEF IsEvent, Event, c, heard

LEMMA StartEvent ==
    ASSUME ClocksInv, NEW n \in Node, ~up[n],
           Becomes(n, Recovered(n), Nothing), up' = [up EXCEPT ![n] = TRUE],
           UNCHANGED <<datagrams, losses>>, known' \subseteq Worker,
           \/ HeaderStays(n)
           \/ txlog_write_clock(n, Recovered(n)) /\ UNCHANGED logVars
           \/ n \in Worker /\ RollsBack(n)
    PROVE  IsEvent(n, Recovered(n), Nothing)
<1> DEFINE c == Recovered(n)
<1>1. ClockTypeOK
  BY DEF ClocksInv
<1>2. /\ Knows(n, c, Nothing)
      /\ losses[n] = 0 => \/ TimeOf(c, n) > past[n][n]
                          \/ /\ TimeOf(c, n) = past[n][n]
                             /\ n = Manager \/ unsaved[n] = "start"
  BY StartKnows
<1>3. c \in Clock
  BY <1>2 DEF Knows, Own
<1>4. LogMoves(n, c)
  BY <1>1, <1>3, LogMovesWhen
<1> HIDE DEF c
<1>5. PastMoves(n, c, Nothing)
  BY <1>1, <1>2, RecordsMoves DEF Becomes, c
<1>6. RunMoves(n, c)
  BY <1>1, <1>3, RunMovesUp DEF Becomes, c
<1>7. SendMoves(n, c)
  BY SendMovesWhen
<1> QED
  BY <1>2, <1>4, <1>5, <1>6, <1>7 DEF IsEvent, Event, c

(* The events at which no time passes: a question, and a kill.             *)
LEMMA QuietEvent ==
    ASSUME ClocksInv, NEW n \in Node, Killed(n) \/ (n \in Worker /\ Asks(n))
    PROVE  IsEvent(n, clock[n], Nothing)
<1> DEFINE c == clock[n]
<1>1. /\ ClockTypeOK /\ up[n] /\ UNCHANGED <<saved, unsaved, logVars, past>>
      /\ UNCHANGED datagrams \/ (n \in Worker /\ Sends(n, c, {Manager}))
      /\ Exits(n) \/ (Stays /\ UNCHANGED clock)
  BY DEF ClocksInv, Asks, Killed
<1>2. /\ Knows(n, c, Nothing)
      /\ Max({past[n][n], TimeOf(c, n)}) = past[n][n]
      /\ \A k \in Node : Max({past[n][k], Nothing[k]}) = past[n][k]
  BY <1>1, AskKnows
<1>3. c \in Clock
  BY <1>1, PastTyped
<1>4. PastMoves(n, c, Nothing)
  BY <1>1, <1>2 DEF PastMoves, ClockTypeOK
<1>5. LogMoves(n, c) /\ SendMoves(n, c)
  BY <1>1, <1>3, LogMovesWhen, SendMovesWhen
<1>6. RunMoves(n, c) /\ clock'[n] \in {c, vclock_init}
  <2>1. CASE Exits(n)
    <3>1. clock'[n] = vclock_init
      BY <1>1, <2>1 DEF Exits, ClockTypeOK
    <3> QED
      BY <1>1, <2>1, <3>1, RunMovesDown
  <2>2. CASE Stays /\ UNCHANGED clock
    BY <1>1, <2>2 DEF RunMoves, Stays, ClockTypeOK
  <2> QED
    BY <1>1, <2>1, <2>2
<1> QED
  BY <1>2, <1>4, <1>5, <1>6 DEF IsEvent, Event

(* Each handler of a worker.                                               *)
LEMMA WorkerStep ==
    ASSUME ClocksInv, NEW w \in Worker,
           \/ WorkerStarts(w) \/ Enters(w) \/ Updates(w) \/ PassesOn(w)
           \/ TakesOther(w) \/ AbortsLocally(w) \/ WorkerCrashes(w) \/ Asks(w)
    PROVE  \E c, heard : IsEvent(w, c, heard)
<1> DEFINE c == Ticked(w, vclock_init)
<1>0. w \in Node /\ ClockTypeOK
  BY NodesAre DEF ClocksInv
<1>1. CASE WorkerStarts(w)
  <2>1. /\ ~up[w] /\ up' = [up EXCEPT ![w] = TRUE] /\ Becomes(w, Recovered(w), Nothing)
        /\ UNCHANGED <<datagrams, losses>> /\ known' \subseteq Worker
        /\ RollsBack(w) \/ HeaderStays(w)
    BY <1>0, <1>1 DEF WorkerStarts, ClockTypeOK
  <2>2. IsEvent(w, Recovered(w), Nothing)
    BY <1>0, <2>1, StartEvent
  <2> QED
    BY <2>2
<1>2. CASE \/ Enters(w) \/ Updates(w) \/ PassesOn(w)
           \/ TakesOther(w) \/ AbortsLocally(w) \/ WorkerCrashes(w)
  <2>1. /\ MayTick(w) /\ Records(w, c, Nothing)
        /\ UNCHANGED datagrams \/ Sends(w, c, {Manager})
        /\ \/ AppendsMark(w, c) \/ AppendsOther(w, c, TRUE) \/ RollsBack(w)
           \/ txlog_write_clock(w, c) /\ UNCHANGED logVars
        /\ (clock' = [clock EXCEPT ![w] = c] /\ Stays) \/ Exits(w)
    BY <1>2 DEF Enters, Updates, PassesOn, TakesOther, AbortsLocally,
                WorkerCrashes, AppendsNothing, Becomes
  <2>2. c \in Clock
    BY <1>0, <2>1, CommandKnows DEF MayTick, Knows, Own
  <2>3. LogMoves(w, c) /\ SendMoves(w, c)
    <3> HIDE DEF c
    <3>1. \/ txlog_write_clock(w, c) /\ UNCHANGED logVars
          \/ w \in Worker /\ AppendsMark(w, c)
          \/ w \in Worker /\ \E b \in BOOLEAN : AppendsOther(w, c, b)
          \/ w \in Worker /\ RollsBack(w)
      BY <2>1
    <3> QED
      BY <1>0, <2>1, <2>2, <3>1, LogMovesWhen, SendMovesWhen
  <2>4. IsEvent(w, c, Nothing)
    BY <1>0, <2>1, <2>3, CommandEvent
  <2> QED
    BY <2>4
<1>3. CASE Asks(w)
  BY <1>0, <1>3, QuietEvent
<1> QED
  BY <1>1, <1>2, <1>3

(* Each handler of the worker's transaction thread.                        *)
LEMMA ThreadStep ==
    ASSUME ClocksInv, NEW w \in Worker, NEW m \in datagrams,
           \/ Votes(w, m) \/ VotesAndExits(w, m)
           \/ LearnsCommit(w, m) \/ LearnsOther(w, m) \/ LearnsAbort(w, m)
    PROVE  \E c, heard : IsEvent(w, c, heard)
<1> DEFINE c == Ticked(w, m.vclock)
<1>1. /\ MayTick(w) /\ m.to = w /\ Records(w, c, m.past)
      /\ UNCHANGED datagrams \/ Sends(w, c, {Manager})
      /\ \/ AppendsOther(w, c, FALSE) \/ AppendsMark(w, c) \/ RollsBack(w)
         \/ txlog_write_clock(w, c) /\ UNCHANGED logVars
      /\ (clock' = [clock EXCEPT ![w] = c] /\ Stays) \/ Exits(w)
  BY DEF Votes, VotesAndExits, LearnsCommit, LearnsOther, LearnsAbort,
         AppendsNothing, Becomes
<1>2. w \in Node /\ ClockTypeOK /\ up[w]
  BY <1>1, NodesAre DEF ClocksInv, MayTick
<1>3. c \in Clock
  BY <1>1, <1>2, DatagramKnows DEF Knows, Own
<1>4. LogMoves(w, c) /\ SendMoves(w, c)
  <2> HIDE DEF c
  <2>1. \/ txlog_write_clock(w, c) /\ UNCHANGED logVars
        \/ w \in Worker /\ AppendsMark(w, c)
        \/ w \in Worker /\ \E b \in BOOLEAN : AppendsOther(w, c, b)
        \/ w \in Worker /\ RollsBack(w)
    BY <1>1
  <2> QED
    BY <1>1, <1>2, <1>3, <2>1, LogMovesWhen, SendMovesWhen
<1>5. Stays => UNCHANGED <<up, losses>> /\ known' \subseteq Worker
  BY <1>2 DEF Stays, ClockTypeOK
<1>6. IsEvent(w, c, m.past)
  BY <1>1, <1>2, <1>4, <1>5, DatagramEvent
<1> QED
  BY <1>6

(* Each handler of the manager.                                            *)
LEMMA ManagerStep ==
    ASSUME ClocksInv,
           \/ ManagerStarts
           \/ \E m \in datagrams :
                 \/ ManagerCrashes(m)
                 \/ \E dest \in SUBSET Worker : \/ ManagerAnswers(m, dest)
                                                \/ ManagerLogs(m, dest)
                                                \/ ManagerFaults(m, dest)
    PROVE  \E c, heard : IsEvent(Manager, c, heard)
<1>0. Manager \in Node /\ ClockTypeOK
  BY NodesAre DEF ClocksInv
<1>1. CASE ManagerStarts
  <2>1. /\ ~up[Manager] /\ up' = [up EXCEPT ![Manager] = TRUE]
        /\ Becomes(Manager, Recovered(Manager), Nothing)
        /\ UNCHANGED <<datagrams, losses>> /\ known' \subseteq Worker
        /\ \/ HeaderStays(Manager)
           \/ txlog_write_clock(Manager, Recovered(Manager)) /\ UNCHANGED logVars
    BY <1>1 DEF ManagerStarts
  <2>2. IsEvent(Manager, Recovered(Manager), Nothing)
    BY <1>0, <2>1, StartEvent
  <2> QED
    BY <2>2
<1>2. ASSUME NEW m \in datagrams, NEW dest \in SUBSET Worker,
             \/ ManagerAnswers(m, dest) \/ ManagerLogs(m, dest)
             \/ ManagerFaults(m, dest) \/ ManagerCrashes(m)
      PROVE  \E c, heard : IsEvent(Manager, c, heard)
  <2> DEFINE c == Ticked(Manager, m.vclock)
  <2>1. /\ MayTick(Manager) /\ m.to = Manager /\ Records(Manager, c, m.past)
        /\ Sends(Manager, c, dest) \/ UNCHANGED datagrams
        /\ \/ /\ unsaved' = [unsaved EXCEPT ![Manager] = "datagram"]
              /\ UNCHANGED <<saved, logVars>>
           \/ txlog_write_clock(Manager, c) /\ UNCHANGED logVars
        /\ \/ /\ clock' = [clock EXCEPT ![Manager] = c]
              /\ UNCHANGED <<up, losses>> /\ known' = known \cup {m.from}
           \/ Exits(Manager)
    BY <1>2 DEF ManagerAnswers, ManagerLogs, ManagerFaults, ManagerCrashes,
                ManagerTakes, ManagerSends, Becomes
  <2>2. c \in Clock
    BY <1>0, <2>1, DatagramKnows DEF Knows, Own, MayTick
  <2>3. LogMoves(Manager, c) /\ SendMoves(Manager, c)
    <3> HIDE DEF c
    <3> QED
      BY <1>0, <2>1, <2>2, LogMovesWhen, SendMovesWhen
  <2>4. known \cup {m.from} \subseteq Worker
    <3>1. m.from # m.to /\ m.from \in Node
      BY DEF ClocksInv, Carries
    <3> QED
      BY <1>0, <2>1, <3>1, NodesAre DEF ClockTypeOK
  <2>5. IsEvent(Manager, c, m.past)
    BY <1>0, <2>1, <2>3, <2>4, DatagramEvent
  <2> QED
    BY <2>5
<1> QED
  BY <1>1, <1>2

LEMMA StepIsEvent ==
    ASSUME ClocksInv, ClockNext
    PROVE  \E n \in Node : \E c, heard : IsEvent(n, c, heard)
<1>1. CASE \E n \in Node : Killed(n)
  BY <1>1, QuietEvent
<1> QED
  BY <1>1, WorkerStep, ThreadStep, ManagerStep, NodesAre DEF ClockNext

LEMMA StutterKeeps ==
    ASSUME ClocksInv, UNCHANGED clockVars
    PROVE  ClocksInv'
<1>1. /\ up' = up /\ clock' = clock /\ saved' = saved /\ began' = began
      /\ mark' = mark /\ dirty' = dirty /\ datagrams' = datagrams /\ past' = past
      /\ known' = known /\ unsaved' = unsaved /\ losses' = losses
  BY DEF clockVars
<1>2. ClockTypeOK'
  BY <1>1 DEF ClocksInv, ClockTypeOK
<1>3. SoundClocks'
  BY <1>1 DEF ClocksInv, SoundClocks
<1>4. PresentIsPast'
  BY <1>1 DEF ClocksInv, PresentIsPast, UpToDate, Recovered, txlog_read_clock
<1>5. NothingAhead' /\ HeardViaManager'
  BY <1>1 DEF ClocksInv, NothingAhead, HeardViaManager
<1>6. ASSUME NEW m \in datagrams, NEW s, Carries(m, s)
      PROVE  Carries(m, s)'
  BY <1>1, <1>6 DEF Carries
<1>7. (\A m \in datagrams : \E s \in Node : Carries(m, s))'
  BY <1>1, <1>6 DEF ClocksInv
<1> QED
  BY <1>2, <1>3, <1>4, <1>5, <1>7 DEF ClocksInv

LEMMA InitClocks ==
    ASSUME ClockInit
    PROVE  ClocksInv
<1>0. vclock_init \in Clock /\ \A n \in Node : TimeOf(vclock_init, n) = 0
  BY InitClock, NodesAre
<1>1. ClockTypeOK
  BY <1>0 DEF ClockInit, ClockTypeOK, Past, Unsaved
<1>2. \A n \in Node : Sound(vclock_init, n)
  BY InitClock DEF Sound, WellFormed
<1>3. SoundClocks
  BY <1>2, NodesAre DEF SoundClocks, ClockInit
<1>4. PresentIsPast
  BY <1>0 DEF PresentIsPast, UpToDate, ClockInit, Behind
<1>5. NothingAhead
  BY <1>0 DEF NothingAhead, ClockInit
<1>6. HeardViaManager
  BY NodesAre DEF HeardViaManager, ClockInit
<1>7. \A m \in datagrams : \E s \in Node : Carries(m, s)
  BY DEF ClockInit
<1> QED
  BY <1>1, <1>3, <1>4, <1>5, <1>6, <1>7 DEF ClocksInv

-----------------------------------------------------------------------------
(* The theorems.                                                           *)

(* The clocks of every run, of any number of nodes, satisfy the inductive  *)
(* invariant.                                                              *)
THEOREM ClocksKept == ClockSpec => []ClocksInv
<1>1. ClockInit => ClocksInv
  BY InitClocks
<1>2. ClocksInv /\ [ClockNext]_clockVars => ClocksInv'
  <2> SUFFICES ASSUME ClocksInv, [ClockNext]_clockVars
               PROVE  ClocksInv'
    OBVIOUS
  <2>1. CASE ClockNext
    <3>1. PICK n \in Node : \E c, heard : IsEvent(n, c, heard)
      BY <2>1, StepIsEvent
    <3>2. PICK c, heard : IsEvent(n, c, heard)
      BY <3>1
    <3> QED
      BY <3>2, EventKeeps DEF IsEvent
  <2>2. CASE UNCHANGED clockVars
    BY <2>2, StutterKeeps
  <2> QED
    BY <2>1, <2>2
<1> QED
  BY <1>1, <1>2, PTL DEF ClockSpec

(* Type correctness: an increment, a merge, and a restart from the log     *)
(* leave arrays of MAX_NODES pairs, and datagrams carry such arrays.       *)
THEOREM ClockTypes == ClockSpec => []ClockTypeOK
<1>1. ClocksInv => ClockTypeOK
  BY DEF ClocksInv
<1> QED
  BY <1>1, ClocksKept, PTL

(* A node's own pair stays first, in memory, in every log and in every     *)
(* datagram: message_init, which only ever copies element 0, sends the     *)
(* sender's own time.                                                      *)
THEOREM OwnPairFirst == ClockSpec => []OwnFirst
<1>1. ClocksInv => OwnFirst
  <2> SUFFICES ASSUME ClocksInv
               PROVE  OwnFirst
    OBVIOUS
  <2>1. /\ \A n \in Node : WellFormed(clock[n], n) /\ WellFormed(saved[n], n)
        /\ \A w \in Worker : WellFormed(mark[w], w)
    BY DEF ClocksInv, SoundClocks, Sound
  <2>2. \A m \in datagrams : m.vclock[1].nodeId # m.to /\ m.vclock[1].time > 0
    <3>1. ASSUME NEW m \in datagrams, NEW s \in Node, Carries(m, s)
          PROVE  m.vclock[1].nodeId # m.to /\ m.vclock[1].time > 0
      BY <3>1 DEF Carries
    <3> QED
      BY <3>1 DEF ClocksInv
  <2> QED
    BY <2>1, <2>2 DEF OwnFirst
<1> QED
  BY <1>1, ClocksKept, PTL

(* No clock and no datagram is ahead of a running node in the time of that *)
(* node, unless it has once died while its header lacked the time of an    *)
(* event: after a rollback that rewound it, or after a datagram that the   *)
(* manager did not log.  Its other exits and kills lose nothing.           *)
THEOREM NobodyIsAhead == ClockSpec => []NobodyAhead
<1>1. ClocksInv => NobodyAhead
  <2> SUFFICES ASSUME ClocksInv, NEW n \in Node, up[n], losses[n] = 0
               PROVE  /\ \A k \in Node : TimeOf(clock[k], n) <= TimeOf(clock[n], n)
                      /\ \A m \in datagrams : TimeOf(m.vclock, n) <= TimeOf(clock[n], n)
    BY DEF NobodyAhead
  <2>0. ClockTypeOK /\ n \in Nat /\ n # 0
    BY NodesAre DEF ClocksInv
  <2>1. TimeOf(clock[n], n) = past[n][n] /\ past[n][n] \in Nat
    BY RunningIs
  <2>2. \A k \in Node : TimeOf(clock[k], n) <= past[n][n]
    BY DEF ClocksInv, NothingAhead
  <2>3. ASSUME NEW m \in datagrams PROVE TimeOf(m.vclock, n) <= past[n][n]
    <3>1. PICK s \in Node : Carries(m, s)
      BY DEF ClocksInv
    <3>2. /\ m.vclock \in Clock
          /\ m.vclock[1].nodeId = s /\ m.vclock[1].time = m.past[s]
          /\ \A i \in Slot : i # 1 => m.vclock[i] = Free
          /\ m.past[s] <= past[s][s] /\ 1 \in Slot
      <4>1. m.vclock \in Clock
        BY <2>0 DEF ClockTypeOK
      <4>2. /\ m.vclock[1] = [nodeId |-> s, time |-> m.past[s]]
            /\ \A i \in Slot : i # 1 => m.vclock[i] = Free
            /\ m.past[s] <= past[s][s]
        BY <3>1 DEF Carries
      <4> QED
        BY <4>1, <4>2, NodesAre
    <3>3. CASE n = s
      <4>1. Shape(m.vclock)
        <5>1. \A i, j \in Slot : i < j => j # 1
          BY VClockAssumption DEF Slot
        <5> QED
          BY <3>2, <5>1 DEF Shape
      <4>2. TimeOf(m.vclock, n) = m.past[s]
        BY <2>0, <3>2, <3>3, <4>1, SlotOf
      <4> QED
        BY <3>2, <3>3, <4>2
    <3>4. CASE n # s
      <4>1. \A i \in Slot : m.vclock[i].nodeId # n
        BY <2>0, <3>2, <3>4, InitClock
      <4>2. TimeOf(m.vclock, n) = 0
        BY <4>1, NoSlotOf
      <4> QED
        BY <2>1, <4>2
    <3> QED
      BY <3>3, <3>4
  <2> QED
    BY <2>1, <2>2, <2>3
<1> QED
  BY <1>1, ClocksKept, PTL

(* A worker knows the last time it has heard of from the manager, and the  *)
(* manager that of every worker, whatever order the datagrams came in and  *)
(* whatever restarts there were, until it dies with its header behind.     *)
THEOREM HeardIsRemembered == ClockSpec => []HeardRemembered
<1>1. ClocksInv => HeardRemembered
  BY DEF ClocksInv, PresentIsPast, UpToDate, HeardRemembered
<1> QED
  BY <1>1, ClocksKept, PTL

(* MAX_NODES pairs are enough for as many nodes, all along: no clock ever  *)
(* lacks its owner's pair or a place for a node that it has not heard of.  *)
THEOREM RoomIsKept == ClockSpec => []RoomKept
<1>1. ClocksInv => RoomKept
  <2> SUFFICES ASSUME ClocksInv, NEW n \in Node
               PROVE  IF up[n]
                        THEN /\ vclock_has(clock[n], n)
                             /\ \A k \in Node : \/ vclock_has(clock[n], k)
                                                \/ vclock_has(clock[n], 0)
                        ELSE vclock_has(saved[n], n) \/ vclock_has(saved[n], 0)
    BY DEF RoomKept
  <2>1. /\ clock[n] \in Clock /\ saved[n] \in Clock
        /\ Sound(clock[n], n) /\ Sound(saved[n], n)
        /\ up[n] => clock[n] # vclock_init
    BY DEF ClocksInv, ClockTypeOK, SoundClocks
  <2>2. CASE up[n]
    <3>1. Own(clock[n], n)
      BY <2>1, <2>2 DEF Own
    <3>2. ASSUME NEW k \in Node, ~vclock_has(clock[n], k)
          PROVE  vclock_has(clock[n], 0)
      <4>1. \A i \in Slot : clock[n][i].nodeId # k
        BY <3>2 DEF vclock_has, Having
      <4> QED
        BY <3>1, <4>1, RoomForAll
    <3> QED
      BY <2>2, <3>1, <3>2, OwnIs
  <2>3. CASE ~up[n]
    <3>1. CASE vclock_has(saved[n], n)
      BY <2>3, <3>1
    <3>2. CASE ~vclock_has(saved[n], n)
      <4>1. saved[n] = vclock_init
        BY <2>1, <3>2, SoundIs DEF Own
      <4>2. vclock_init[1].nodeId = 0 /\ 1 \in Slot
        BY InitClock, NodesAre
      <4> QED
        BY <2>3, <4>1, <4>2 DEF vclock_has, Having
    <3> QED
      BY <3>1, <3>2
  <2> QED
    BY <2>2, <2>3
<1> QED
  BY <1>1, ClocksKept, PTL

(* Every event of a process that has not died with its header behind has a *)
(* new time, but for the manager's restart and a worker's restart right    *)
(* after another: vclock_increment, the header that each handler writes    *)
(* and the increment after a recovery together never reuse a time.         *)
THEOREM TimeAlwaysMovesOn == ClockSpec => TimeMovesOn
<1>1. ClocksInv /\ [ClockNext]_clockVars =>
         [\A n \in Node : losses[n] = 0 /\ clock'[n] \notin {clock[n], vclock_init} =>
             \/ TimeOf(clock'[n], n) > past[n][n]
             \/ /\ ~up[n] /\ TimeOf(clock'[n], n) = past[n][n]
                /\ n = Manager \/ unsaved[n] = "start"
         ]_clockVars
  <2> SUFFICES ASSUME ClocksInv, ClockNext, NEW n \in Node, losses[n] = 0,
                      clock'[n] \notin {clock[n], vclock_init}
               PROVE  \/ TimeOf(clock'[n], n) > past[n][n]
                      \/ /\ ~up[n] /\ TimeOf(clock'[n], n) = past[n][n]
                         /\ n = Manager \/ unsaved[n] = "start"
    OBVIOUS
  <2>1. PICK k \in Node : \E c, heard : IsEvent(k, c, heard)
    BY StepIsEvent
  <2>2. PICK c, heard : IsEvent(k, c, heard)
    BY <2>1
  <2>3. k = n
    BY <2>2 DEF IsEvent, Event, RunMoves
  <2>4. clock'[n] = c
    BY <2>2, <2>3 DEF IsEvent, Event, RunMoves
  <2> QED
    BY <2>2, <2>3, <2>4 DEF IsEvent
<1> QED
  BY <1>1, ClocksKept, PTL DEF ClockSpec, TimeMovesOn
=============================================================================
