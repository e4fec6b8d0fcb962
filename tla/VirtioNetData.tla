---------------------------- MODULE VirtioNetData ----------------------------
(***************************************************************************)
(* The two queues of VirtioNetDxe's data path: `queue' says which of them  *)
(* a behaviour is about.  They share no state (VirtioNet runs them side by *)
(* side, with the life cycle), so each is checked on its own, on larger    *)
(* rings.                                                                  *)
(***************************************************************************)
EXTENDS VirtioNetTx, VirtioNetRx, TLC

VARIABLE queue

dataVars == <<queue, txVars, rxVars>>

DataInit == queue \in {"tx", "rx"} /\ TxInit /\ RxInit

TxQueueNext == queue = "tx" /\ TxNext /\ UNCHANGED <<queue, rxVars>>

RxQueueNext == queue = "rx" /\ RxNext /\ UNCHANGED <<queue, txVars>>

\* No definition tells one client buffer from another: the safety run explores
\* one of the states that differ by a permutation of Bufs.
BufSymmetry == Permutations(Bufs)

DataNext == TxQueueNext \/ RxQueueNext

DataSpec == DataInit /\ [][DataNext]_dataVars

\* The fairness of VirtioNetTx and of VirtioNetRx, for the queue that runs.
DataFairSpec == /\ DataSpec
                /\ queue = "tx" => TxFairness
                /\ queue = "rx" => RxFairness

-----------------------------------------------------------------------------
(* Properties.                                                             *)

(***************************************************************************)
(* The receive queue never runs dry for good: as long as the client polls, *)
(* the host again and again gets hold of a buffer to put a packet into     *)
(* (RecycleDesc publishes and announces every chain it takes).             *)
(***************************************************************************)
HostGetsBuffers == queue = "rx" => []<>(rxHost.held # {})
=============================================================================
