---------------------------- MODULE AtomicCommit ----------------------------
(***************************************************************************)
(* What the transaction manager promises its workers: each transaction is  *)
(* begun at most once, gets at most one outcome, and that outcome never    *)
(* changes; a transaction somebody has voted against is never committed.   *)
(***************************************************************************)
CONSTANT Tid

VARIABLES
    outcome,  \* outcome[t]: what has become of transaction t
    vetoed    \* the transactions with a vote against them

acVars == <<outcome, vetoed>>

Outcome == {"none", "open", "committed", "aborted"}

ACInit ==
    /\ outcome = [t \in Tid |-> "none"]
    /\ vetoed = {}

Decides(t, from, to) ==
    /\ outcome[t] = from
    /\ outcome' = [outcome EXCEPT ![t] = to]
    /\ UNCHANGED vetoed

Begin(t)  == Decides(t, "none", "open")
Abort(t)  == Decides(t, "open", "aborted")
Commit(t) == t \notin vetoed /\ Decides(t, "open", "committed")

(* A vote against.  It may come when the transaction is aborted already,   *)
(* but not once it is committed.                                           *)
Veto(t) ==
    /\ outcome[t] \in {"open", "aborted"}
    /\ vetoed' = vetoed \cup {t}
    /\ UNCHANGED outcome

ACNext == \E t \in Tid : Begin(t) \/ Veto(t) \/ Commit(t) \/ Abort(t)

ACSpec == ACInit /\ [][ACNext]_acVars
=============================================================================
