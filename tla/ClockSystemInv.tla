--------------------------- MODULE ClockSystemInv ---------------------------
(***************************************************************************)
(* The inductive invariant of ClockSystem.  It says of every clock which   *)
(* pairs it has, ties the clock that a process has, or will have when it   *)
(* starts again, to its history, and says what a datagram carries.         *)
(***************************************************************************)
EXTENDS ClockSystem

(* A clock of node n: its own pair first, a time in it, and only ids of    *)
(* nodes.                                                                  *)
Sound(c, n) ==
    /\ WellFormed(c, n)
    /\ c # vclock_init => c[1].time > 0
    /\ \A i \in Slot : c[i].nodeId \in Node \cup {0}

SoundClocks ==
    /\ \A n \in Node : /\ Sound(clock[n], n) /\ Sound(saved[n], n)
                       /\ up[n] => clock[n] # vclock_init
    /\ \A w \in Worker : Sound(mark[w], w)

(* Clock c has the last time of n itself, and the last it has heard across *)
(* its link to the manager.                                                *)
UpToDate(c, n) ==
    \A k \in Node : n = k \/ Manager \in {n, k} => TimeOf(c, k) = past[n][k]

(* Where the last times of n are, unless it has lost them: in its memory,  *)
(* and in what a start makes of the header, or in the header already.      *)
PresentIsPast ==
    \A n \in Node : losses[n] = 0 =>
        /\ up[n] => UpToDate(clock[n], n)
        /\ unsaved[n] = "nothing" => UpToDate(saved[n], n)
        /\ unsaved[n] = "start" => UpToDate(Recovered(n), n)
        /\ unsaved[n] \in Behind => up[n]

(* Nobody is ahead of a node, anywhere: not in a log either.               *)
NothingAhead ==
    \A n, k \in Node : /\ past[k][n] <= past[n][n]
                       /\ TimeOf(clock[k], n) <= past[n][n]
                       /\ TimeOf(saved[k], n) <= past[n][n]
                       /\ k \in Worker => TimeOf(mark[k], n) <= past[n][n]

(* What a worker knows of another it has from the manager.                 *)
HeardViaManager ==
    \A w, k \in Worker : w # k => past[w][k] <= past[Manager][k]

(* A datagram between a worker and the manager: one pair, the sender's,    *)
(* with the time of its sending, and nothing that the manager has not      *)
(* heard of.                                                               *)
Carries(m, s) ==
    /\ s = m.from /\ s # m.to /\ Manager \in {s, m.to}
    /\ m.vclock[1] = [nodeId |-> s, time |-> m.past[s]] /\ m.past[s] > 0
    /\ \A i \in Slot : i # 1 => m.vclock[i] = Free
    /\ \A k \in Node : m.past[k] <= past[k][k]
    /\ \A k \in Worker : k # s => m.past[k] <= past[Manager][k]

ClocksInv ==
    /\ ClockTypeOK /\ SoundClocks /\ PresentIsPast /\ NothingAhead
    /\ HeardViaManager
    /\ \A m \in datagrams : \E s \in Node : Carries(m, s)
=============================================================================
