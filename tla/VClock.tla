------------------------------- MODULE VClock -------------------------------
(***************************************************************************)
(* Vector clocks (src/common.c) and the part of one that a datagram takes  *)
(* along (src/msg.c).  A clock is an array of MaxNodes pairs of a node id  *)
(* (its port) and a time; a pair whose nodeId is 0 is free.  C's index 0   *)
(* is 1 here.                                                              *)
(***************************************************************************)
EXTENDS Naturals, FiniteSetsExt

CONSTANT MaxNodes   \* MAX_NODES

ASSUME VClockAssumption == MaxNodes \in Nat \ {0}

Slot  == 1..MaxNodes
Free  == [nodeId |-> 0, time |-> 0]
Clock == [Slot -> [nodeId : Nat, time : Nat]]

(* vclock_init, and what a new log file holds.                             *)
vclock_init == [i \in Slot |-> Free]

Having(vclock, id) == {i \in Slot : vclock[i].nodeId = id}

vclock_has(vclock, id) == Having(vclock, id) # {}

(* The process exits when there is no free slot, or no slot of its own in  *)
(* vclock_increment: the callers' guards.                                  *)
vclock_add(vclock, id) ==
    [vclock EXCEPT ![Min(Having(vclock, 0))] = [nodeId |-> id, time |-> 1]]

(* Mutant: time-- for time++.                                              *)
vclock_increment_Down(my_id, vclock) ==
    [vclock EXCEPT ![Min(Having(vclock, my_id))].time = @ - 1]

vclock_increment(my_id, vclock) ==
    [vclock EXCEPT ![Min(Having(vclock, my_id))].time = @ + 1]

(* Mutant: what arrives replaces what is known, old or new.                *)
Learn_Last(my_id, mine, other) ==
    IF other.nodeId \in {0, my_id} THEN mine
    ELSE IF vclock_has(mine, other.nodeId)
      THEN [mine EXCEPT ![Min(Having(mine, other.nodeId))] = other]
    ELSE IF vclock_has(mine, 0) THEN [mine EXCEPT ![Min(Having(mine, 0))] = other]
    ELSE mine

(* One round of vclock_update, for one pair of the other clock.            *)
Learn(my_id, mine, other) ==
    IF other.nodeId \in {0, my_id} THEN mine
    ELSE IF vclock_has(mine, other.nodeId)
      THEN [mine EXCEPT ![Min(Having(mine, other.nodeId))].time =
                           Max({@, other.time})]
    ELSE IF vclock_has(mine, 0) THEN [mine EXCEPT ![Min(Having(mine, 0))] = other]
    ELSE mine

vclock_update(my_id, mine, other) ==
    LET after[i \in 0..MaxNodes] ==
            IF i = 0 THEN mine ELSE Learn(my_id, after[i - 1], other[i])
    IN  after[MaxNodes]

(* message_init: its loop copies the first element every time.             *)
message_init(vclock) == [vclock_init EXCEPT ![1] = vclock[1]]

(* What the clock says of node id, 0 when it does not know the node.       *)
TimeOf(vclock, id) ==
    IF vclock_has(vclock, id) THEN vclock[Min(Having(vclock, id))].time ELSE 0
=============================================================================
