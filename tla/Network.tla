------------------------------ MODULE Network ------------------------------
(***************************************************************************)
(* The UDP datagrams between the workers' transaction sockets and the      *)
(* manager (src/server.c, src/msg.c).  Datagrams may be reordered,         *)
(* delayed or never delivered; with Duplicates = TRUE the network may also *)
(* deliver one several times.                                              *)
(*                                                                         *)
(* A worker's transaction socket is known to the manager by its port, and  *)
(* that is the only thing that ties a datagram from the manager to a       *)
(* transaction: PREPARE_TO_COMMIT, COMMIT and ABORT are broadcast with     *)
(* tid 0 (message_init clears the record and sendToAllWorkers does not set *)
(* tid) and the workers never read the field, so it is not represented.    *)
(*                                                                         *)
(* COMMIT requests and ASKs can be sent any number of times by the same    *)
(* socket, and the manager can send the same datagram to a socket many     *)
(* times.  An element of toWorker, and a COMMIT or ASK in toManager,       *)
(* stands for any number of copies and is not used up by a delivery.  The  *)
(* other requests are sent once by a socket and are used up, unless the    *)
(* network duplicates.                                                     *)
(***************************************************************************)
EXTENDS Naturals

CONSTANTS
    Tid,         \* transaction ids a client uses
    Port,        \* ports the kernel gives to transaction sockets
    Duplicates   \* may the network deliver a datagram more than once?

ASSUME NetworkAssumption ==
    /\ Tid \subseteq Nat
    /\ Duplicates \in BOOLEAN

VARIABLES
    toManager,   \* datagrams on their way to the manager
    toWorker,    \* datagrams on their way to transaction sockets
    votes,       \* history: every vote a transaction socket has sent
    bound,       \* history: bound[p] are the transactions port p was opened for
    mayVote      \* history: the sockets whose thread is in its main loop

netVars == <<toManager, toWorker, votes>>
envVars == <<bound, mayVote>>

(* enum cmdType, the part that travels between workers and manager.        *)
VoteType    == {"PREPARED", "ABORT"}
ResentType  == {"COMMIT", "ASK"}
TxRequest   == VoteType \cup ResentType \cup {"BEGINTX", "JOINTX"}
TestRequest == {"DELAY_RESPONSE", "COMMIT_CRASH", "ABORT_CRASH"}
ReplyType   == {"PREPARE_TO_COMMIT", "COMMIT", "ABORT", "TX_ERROR"}

(* message_t, from a transaction socket to the manager and back.  The      *)
(* requests that concern no transaction carry tid 0 (message_init).        *)
ToManager == [type : TxRequest, from : Port, tid : Tid]
             \cup [type : TestRequest, from : Port, tid : {0}]
ToWorker  == [type : ReplyType, to : Port]
Vote      == [type : VoteType, from : Port, tid : Tid]

Request(type, p, t) == [type |-> type, from |-> p, tid |-> t]
Reply(type, p)      == [type |-> type, to |-> p]

NetTypeOK ==
    /\ toManager \subseteq ToManager
    /\ toWorker  \subseteq ToWorker
    /\ votes     \subseteq Vote

NetInit ==
    /\ toManager = {}
    /\ toWorker = {}
    /\ votes = {}

(* Which requests a delivery leaves in the network.                        *)
Redeliverable(m) == Duplicates \/ m.type \in ResentType

(* server_recv at the manager: one datagram of the given type is taken     *)
(* from the socket.                                                        *)
ManagerReceives(m, type) ==
    /\ m \in toManager
    /\ m.type = type
    /\ toManager' = IF Redeliverable(m) THEN toManager ELSE toManager \ {m}

(* server_send by the manager of a set of datagrams.                       *)
ManagerSends(S) == toWorker' = toWorker \cup S

(* server_send_to by a worker.                                             *)
WorkerSends(m) == toManager' = toManager \cup {m}

(* The network drops what it holds of a datagram.  Only the liveness       *)
(* checks need this as a step: for safety a datagram that is never         *)
(* delivered is as good as lost.                                           *)
Loses ==
    \/ /\ \E m \in toManager : toManager' = toManager \ {m}
       /\ UNCHANGED <<toWorker, votes>>
    \/ /\ \E m \in toWorker : toWorker' = toWorker \ {m}
       /\ UNCHANGED <<toManager, votes>>
=============================================================================
