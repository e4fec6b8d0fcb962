---------------------------- MODULE VirtioNetDev ----------------------------
(***************************************************************************)
(* What the two queues of VirtioNetDxe have in common: each uses chains of *)
(* two descriptors (the virtio-net request header and the packet), and at  *)
(* most VNET_MAX_PENDING of them.                                          *)
(***************************************************************************)
EXTENDS VRing, FiniteSets

CONSTANT VNET_MAX_PENDING  \* 64 in VirtioNet.h

ASSUME PendingAssumption == VNET_MAX_PENDING \in Nat \ {0}

\* TxMaxPending and RxAlwaysPending: MIN (QueueSize / 2, VNET_MAX_PENDING).
PendingLimit(QueueSize) ==
  IF QueueSize \div 2 < VNET_MAX_PENDING THEN QueueSize \div 2 ELSE VNET_MAX_PENDING

\* The heads of the chains of a queue: every second descriptor.
ChainHeads(QueueSize) == {2 * i : i \in 0 .. PendingLimit(QueueSize) - 1}
=============================================================================
