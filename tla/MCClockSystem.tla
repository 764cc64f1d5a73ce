--------------------------- MODULE MCClockSystem ---------------------------
(* Small instances of ClockSystem: the manager on port 9, the workers on   *)
(* 1 and 2.                                                                *)
EXTENDS ClockSystemInv

(* One worker, with the events for a rollback and a restart after it; it   *)
(* and the manager may each die once with the header behind.               *)
MCOneWorker == {1}
MCOneMaxTime == [n \in MCOneWorker \cup {9} |-> IF n = 1 THEN 4 ELSE 3]
MCOneMaxLosses == [n \in MCOneWorker \cup {9} |-> 1]

(* Two workers; the manager hears of both.                                 *)
MCWorker == {1, 2}
MCMaxTime == [n \in MCWorker \cup {9} |-> IF n = 2 THEN 2 ELSE 3]
MCMaxLosses == [n \in MCWorker \cup {9} |-> IF n = 1 THEN 1 ELSE 0]
=============================================================================
