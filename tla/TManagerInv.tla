---------------------------- MODULE TManagerInv ----------------------------
(***************************************************************************)
(* The inductive invariant of TManagerSpec.  What makes the manager right  *)
(* is an accounting argument: nodeCount is at least the number of          *)
(* participants whose vote in favour has not been counted.  The rest of    *)
(* the invariant is what this argument rests on: which sockets can still   *)
(* vote, who the participants are, and what a crash and recovery leave in  *)
(* the log.                                                                *)
(*                                                                         *)
(* It needs a network that does not duplicate votes and clients that do    *)
(* not use transaction id 0.                                               *)
(***************************************************************************)
EXTENDS TManagerSpec, FiniteSets

Nodes(tx) == {tx.nodes[k] : k \in 1..Len(tx.nodes)}

(* The participants whose vote in favour has not been counted: it has not  *)
(* been sent, or it is still in the network.                               *)
Pending(tx, vs, net) ==
    {p \in Nodes(tx) : Request("PREPARED", p, tx.tid) \notin vs \ net}

-----------------------------------------------------------------------------
(* The sockets.  One vote per socket, for a transaction it is bound to; a  *)
(* socket that may still vote is bound to one transaction only.            *)
VotesBound == \A v \in votes : v.tid \in bound[v.from]

OneVote == \A u, v \in votes : u.from = v.from => u = v

VotersFresh ==
    \A p \in mayVote :
        /\ \A v \in votes : v.from # p
        /\ \A t, u \in bound[p] : t = u

RequestsBound ==
    \A m \in toManager :
        /\ m.type \in VoteType => m \in votes
        /\ m.type \in TxRequest => m.tid \in bound[m.from]

RepliesBound == \A r \in toWorker : bound[r.to] # {}

SocketInv ==
    VotesBound /\ OneVote /\ VotersFresh /\ RequestsBound /\ RepliesBound

-----------------------------------------------------------------------------
(* The log: a begin is the first entry of its transaction.                 *)
BeginFirst ==
    \A k \in 1..Len(tmlog) : tmlog[k].type = "LOG_BEGIN" =>
        \A j \in 1..Len(tmlog) : j < k => tmlog[j].tid # tmlog[k].tid

(* While the manager restores, it reads entries that are there, it only    *)
(* adds aborts, and it has dealt with every entry before restore.next.     *)
RestoreInLog == mode = "restoring" => restore.count <= Len(tmlog)

Restoring ==
    mode = "restoring" =>
        \A j \in 1..Len(tmlog) :
            /\ j > restore.count => tmlog[j].type = "LOG_ABORT"
            /\ tmlog[j].type = "LOG_BEGIN" /\ j < restore.next =>
                  Committed(tmlog[j].tid) \/ Aborted(tmlog[j].tid)

LogInv == BeginFirst /\ Restoring /\ NoOrphan /\ DecisionStable

-----------------------------------------------------------------------------
(* The table.                                                              *)
EmptyUnlessUp == mode # "up" => txs = EmptyTable

FreeSlots == \A i \in Slot : txs[i].tid = 0 => txs[i] = EmptySlot

SlotsDistinct ==
    \A i, j \in Slot : txs[i].tid # 0 /\ txs[i].tid = txs[j].tid => i = j

SlotsBegun == \A i \in Slot : txs[i].tid # 0 => Begun(txs[i].tid)

StatesLogged ==
    \A i \in Slot :
        /\ txs[i].state = "COMMIT_STATE" => Committed(txs[i].tid)
        /\ txs[i].state = "ABORT_STATE" => Aborted(txs[i].tid)
        /\ txs[i].state = "BEGIN_STATE" => ~Committed(txs[i].tid)

NodesBound == \A i \in Slot : \A p \in Nodes(txs[i]) : txs[i].tid \in bound[p]

TableInv ==
    /\ EmptyUnlessUp /\ FreeSlots /\ SlotsDistinct /\ SlotsBegun
    /\ StatesLogged /\ NodesBound

-----------------------------------------------------------------------------
(* The votes.  Whoever has voted is a participant, if the manager still    *)
(* knows the transaction.                                                  *)
VotersTakePart ==
    \A v \in votes :
        /\ Begun(v.tid)
        /\ \A i \in Slot : txs[i].tid = v.tid => v.from \in Nodes(txs[i])

(* Whoever may still vote against has not been left out of a commit.       *)
AskedTakePart ==
    \A p \in mayVote : Reply("PREPARE_TO_COMMIT", p) \in toWorker =>
        \A t \in bound[p] :
            /\ Begun(t) /\ ~Committed(t)
            /\ \A i \in Slot : txs[i].tid = t => p \in Nodes(txs[i])

(* The accounting.                                                         *)
Covered(tx, vs, net) ==
    /\ tx.nodeCount <= Len(tx.nodes)
    /\ Len(tx.nodes) <= MaxNodes
    /\ Cardinality(Pending(tx, vs, net)) <= tx.nodeCount

CountCovers == \A i \in Slot : Covered(txs[i], votes, toManager)

CommitCounted ==
    \A i \in Slot :
        Committed(txs[i].tid) => Pending(txs[i], votes, toManager) = {}

(* A transaction is aborted while its slot lives because of a vote.        *)
AbortVoted ==
    \A i \in Slot : Aborted(txs[i].tid) =>
        \E v \in votes : v.type = "ABORT" /\ v.tid = txs[i].tid

VoteInv ==
    /\ VotersTakePart /\ AskedTakePart /\ CountCovers /\ CommitCounted
    /\ AbortVoted /\ CommitUnanimous

IInv == MTypeOK /\ RestoreInLog /\ SocketInv /\ LogInv /\ TableInv /\ VoteInv
=============================================================================
