----------------------------- MODULE VirtioNetRx -----------------------------
(***************************************************************************)
(* The receive side of VirtioNetDxe: the chains VirtioNetInitRx posts,     *)
(* VirtioNetReceive, and the host that fills buffers with packets.         *)
(*                                                                         *)
(* Every chain owns a fixed part of Dev->RxBuf, so rxBuf is indexed by the *)
(* chain's head.  Packets are numbered in the order in which the host      *)
(* returns them; a packet has a length, in units that make the media       *)
(* header one unit long (a packet of length 0 is shorter than its media    *)
(* header).  The host respects Desc[].Len (the two ASSERTs on RxLen are    *)
(* assumptions about it).                                                  *)
(***************************************************************************)
EXTENDS VirtioNetDev, Sequences

CONSTANTS
  RxQueueSize,      \* GetQueueNumMax() of the RX queue
  Lens,             \* the packet and the client buffer lengths considered
  MaxPackets,       \* bound: the packets the host delivers in a behaviour
  RxNotifyMayFail   \* whether SetQueueNotify(RX) can return an error

ASSUME RxAssumption ==
  /\ RxQueueSize \in Nat /\ RxQueueSize >= 2   \* VirtioNetInitRing: QueueSize < 2
  /\ ValidQueueSize(RxQueueSize)
  /\ Lens \subseteq Nat
  /\ MaxPackets \in Nat
  /\ RxNotifyMayFail \in BOOLEAN

VARIABLES
  rxRing,      \* Dev->RxRing, shared with the host
  rxHost,      \* the host's position in the queue and the chains it holds
  rxKicked,    \* the host has been notified and has not gone idle since
  rxBuf,       \* Dev->RxBuf: the number of the packet in each chain's part
  rxLastUsed,  \* Dev->RxLastUsed
  rxPc,        \* where VirtioNetReceive is
  rxSeen,      \* its RxCurUsed
  rxCap,       \* its OrigBufferSize
  rxSent,      \* the lengths of the packets the host has delivered, in order
  rxTaken,     \* how many packets VirtioNetReceive has consumed
  rxGot        \* client: the packets copied to it, by number

rxVars == <<rxRing, rxHost, rxKicked, rxBuf, rxLastUsed, rxPc, rxSeen, rxCap,
            rxSent, rxTaken, rxGot>>

MediaHeaderSize == 1

RxAlwaysPending == PendingLimit(RxQueueSize)

RxHeads == ChainHeads(RxQueueSize)

-----------------------------------------------------------------------------
(***************************************************************************)
(* VirtioNetInitRx: all chains are put in the available ring (PktIdx-th    *)
(* slot, head 2 * PktIdx) and published with one write of the index.       *)
(***************************************************************************)
RxPosted(r) ==
  PublishAvail([r EXCEPT !.availRing =
                  [i \in DOMAIN r.availRing |->
                     IF i < RxAlwaysPending THEN 2 * i ELSE r.availRing[i]]],
               RxAlwaysPending)

RxInit ==
  /\ rxRing = RxPosted(ZeroRing(RxQueueSize))
  /\ rxHost = IdleHost
  /\ rxKicked = TRUE
  /\ rxBuf = [d \in RxHeads |-> 0]
  /\ rxLastUsed = 0
  /\ rxPc = "idle"
  /\ rxSeen = 0
  /\ rxCap = 0
  /\ rxSent = << >>
  /\ rxTaken = 0
  /\ rxGot = << >>

-----------------------------------------------------------------------------
(* VirtioNetReceive, called with a buffer of n units.                      *)

\* RxCurUsed = *Dev->RxRing.Used.Idx, between two fences.
Receive(n) ==
  /\ rxPc = "idle"
  /\ rxSeen' = rxRing.usedIdx
  /\ rxCap' = n
  /\ rxPc' = "check"
  /\ UNCHANGED <<rxRing, rxHost, rxKicked, rxBuf, rxLastUsed, rxSent, rxTaken, rxGot>>

RxElem == NextUsed(rxRing, rxLastUsed)

\* The rest of the call reads neither local again.
ForgetLocals == rxSeen' = 0 /\ rxCap' = 0

\* EFI_NOT_READY.
ReceiveNotReady ==
  /\ rxPc = "check"
  /\ rxLastUsed = rxSeen
  /\ rxPc' = "idle"
  /\ ForgetLocals
  /\ UNCHANGED <<rxRing, rxHost, rxKicked, rxBuf, rxLastUsed, rxSent, rxTaken,
                 rxGot>>

NextRxLastUsed == IdxAdd(rxLastUsed, 1)

\* Mutant: chains are taken to come back in the order of their posting.
RxDescIdx_Fifo == 2 * (rxLastUsed % RxAlwaysPending)

\* DescIdx = Dev->RxRing.Used.UsedElem[UsedElemIdx].Id
RxDescIdx == RxElem.id

\* RecycleDesc, up to the first fence.
RecycleDesc ==
  /\ rxLastUsed' = NextRxLastUsed
  /\ rxRing' = PutAvail(rxRing, RxDescIdx)
  /\ rxTaken' = rxTaken + 1
  /\ rxPc' = "publish"

\* goto Exit, past RecycleDesc.
KeepPacket == rxPc' = "idle" /\ UNCHANGED <<rxRing, rxLastUsed, rxTaken>>

\* EFI_BUFFER_TOO_SMALL: "keep the packet".
ReceiveTooSmall ==
  /\ rxPc = "check"
  /\ rxLastUsed # rxSeen
  /\ rxCap < RxElem.len
  /\ KeepPacket
  /\ ForgetLocals
  /\ UNCHANGED <<rxHost, rxKicked, rxBuf, rxSent, rxGot>>

\* Mutant: a packet shorter than the media header is kept, too.
DropPacket_Not == KeepPacket

DropPacket == RecycleDesc

\* A packet shorter than the media header is dropped: EFI_DEVICE_ERROR.
ReceiveShort ==
  /\ rxPc = "check"
  /\ rxLastUsed # rxSeen
  /\ rxCap >= RxElem.len
  /\ RxElem.len < MediaHeaderSize
  /\ DropPacket
  /\ ForgetLocals
  /\ UNCHANGED <<rxHost, rxKicked, rxBuf, rxSent, rxGot>>

\* Mutant: the packet is looked for in the chain posted first.
CopiedPacket_Fifo == rxBuf[2 * (rxLastUsed % RxAlwaysPending)]

\* What RxPtr points to.
CopiedPacket == rxBuf[RxElem.id]

\* The packet is copied to the client before its chain is recycled.
ReceiveCopy ==
  /\ rxPc = "check"
  /\ rxLastUsed # rxSeen
  /\ rxCap >= RxElem.len
  /\ RxElem.len >= MediaHeaderSize
  /\ rxGot' = Append(rxGot, CopiedPacket)
  /\ RecycleDesc
  /\ ForgetLocals
  /\ UNCHANGED <<rxHost, rxKicked, rxBuf, rxSent>>

ReceivePublish ==
  /\ rxPc = "publish"
  /\ rxRing' = PublishAvail(rxRing, 1)
  /\ rxPc' = "notify"
  /\ UNCHANGED <<rxHost, rxKicked, rxBuf, rxLastUsed, rxSeen, rxCap, rxSent,
                 rxTaken, rxGot>>

\* Mutant: the notification is missing.
NotifyRx_Not == rxKicked' = rxKicked

\* SetQueueNotify (VIRTIO_NET_Q_RX)
NotifyRx == rxKicked' = TRUE

ReceiveNotify ==
  /\ rxPc = "notify"
  /\ NotifyRx
  /\ rxPc' = "idle"
  /\ UNCHANGED <<rxRing, rxHost, rxBuf, rxLastUsed, rxSeen, rxCap, rxSent,
                 rxTaken, rxGot>>

\* A failing notification: the packet stays consumed, the chain published.
ReceiveNotifyFails ==
  /\ RxNotifyMayFail
  /\ rxPc = "notify"
  /\ rxPc' = "idle"
  /\ UNCHANGED <<rxRing, rxHost, rxKicked, rxBuf, rxLastUsed, rxSeen, rxCap,
                 rxSent, rxTaken, rxGot>>

-----------------------------------------------------------------------------
(* The host, which may look at the queue at any time.                      *)

RxHostFetch ==
  /\ HostCanFetch(rxRing, rxHost)
  /\ rxHost' = HostFetch(rxRing, rxHost)
  /\ UNCHANGED <<rxRing, rxKicked, rxBuf, rxLastUsed, rxPc, rxSeen, rxCap,
                 rxSent, rxTaken, rxGot>>

\* A packet of length n arrives and goes into one of the chains held.
RxHostFill(d, n) ==
  /\ d \in rxHost.held
  /\ Len(rxSent) < MaxPackets
  /\ rxSent' = Append(rxSent, n)
  /\ rxBuf' = [rxBuf EXCEPT ![d] = Len(rxSent) + 1]
  /\ rxRing' = PutUsed(rxRing, d, n)
  /\ rxHost' = HostRelease(rxHost, d)
  /\ UNCHANGED <<rxKicked, rxLastUsed, rxPc, rxSeen, rxCap, rxTaken, rxGot>>

RxHostIdle ==
  /\ rxKicked
  /\ ~HostCanFetch(rxRing, rxHost)
  /\ rxKicked' = FALSE
  /\ UNCHANGED <<rxRing, rxHost, rxBuf, rxLastUsed, rxPc, rxSeen, rxCap,
                 rxSent, rxTaken, rxGot>>

-----------------------------------------------------------------------------
ReceiveSteps == \/ ReceiveNotReady \/ ReceiveTooSmall \/ ReceiveShort \/ ReceiveCopy
                \/ ReceivePublish \/ ReceiveNotify \/ ReceiveNotifyFails

RxHostSteps == \/ RxHostFetch
               \/ \E d \in RxHeads, n \in Lens : RxHostFill(d, n)
               \/ RxHostIdle

RxNext == \/ \E n \in Lens : Receive(n)
          \/ ReceiveSteps
          \/ RxHostSteps

RxSpec == RxInit /\ [][RxNext]_rxVars

(***************************************************************************)
(* Fairness.  Receive runs on and returns; the client polls it, and does   *)
(* so again and again with a buffer that is large enough (it learns the    *)
(* size from EFI_BUFFER_TOO_SMALL).  A kicked host fetches what is posted. *)
(* Packets need not arrive.                                                *)
(***************************************************************************)
RxFairness ==
  /\ WF_rxVars(ReceiveSteps)
  /\ SF_rxVars(\E n \in Lens : (\A m \in Lens : m <= n) /\ Receive(n))
  /\ WF_rxVars(rxKicked /\ RxHostFetch)

RxFairSpec == RxSpec /\ RxFairness

-----------------------------------------------------------------------------
(* Properties.                                                             *)

\* Type correctness of the receive state of VNET_DEV and of the RX ring.
RxTypeOK ==
  /\ rxRing \in VRingType(RxQueueSize, RxHeads, Lens \cup {0})
  /\ rxHost \in HostType(RxHeads)
  /\ rxKicked \in BOOLEAN
  /\ rxBuf \in [RxHeads -> 0 .. MaxPackets]
  /\ rxLastUsed \in Idx
  /\ rxPc \in {"idle", "check", "publish", "notify"}
  /\ rxSeen \in Idx
  /\ rxCap \in Lens \cup {0}
  /\ rxSent \in Seq(Lens) /\ Len(rxSent) <= MaxPackets
  /\ rxTaken \in 0 .. MaxPackets
  /\ rxGot \in Seq(1 .. MaxPackets)

\* The chain RecycleDesc has taken from the used ring and not published yet.
RxInHand == IF rxPc = "publish" THEN {rxRing.availRing[rxRing.availIdx % rxRing.size]}
            ELSE {}

(***************************************************************************)
(* Receive buffers are never leaked and never posted twice: RxAlwaysPending*)
(* chains are at all times published, with the host, returned by it, or in *)
(* the hands of RecycleDesc, each in exactly one of these places.          *)
(***************************************************************************)
RxChains ==
  /\ RxTypeOK
  /\ ChainsPartitioned(rxRing, rxHost, rxLastUsed, RxInHand, RxHeads)

(***************************************************************************)
(* A packet that waits in the used ring is intact: its part of RxBuf still *)
(* holds it, with the length the used element says, and the packets wait   *)
(* in the order in which they arrived, none missing since the last one     *)
(* that was consumed.                                                      *)
(***************************************************************************)
WaitingPacketsIntact ==
  LET u == UsedWindow(rxRing, rxLastUsed)
  IN  /\ rxTaken + Ahead(rxLastUsed, rxRing.usedIdx) = Len(rxSent)
      /\ \A k \in DOMAIN u : /\ rxBuf[u[k].id] = rxTaken + k + 1
                             /\ rxSent[rxTaken + k + 1] = u[k].len

(***************************************************************************)
(* The client has got every packet that VirtioNetReceive consumed, once    *)
(* and in order, except those shorter than the media header; the packets   *)
(* it has not consumed, the one kept with EFI_BUFFER_TOO_SMALL included,   *)
(* wait intact.                                                            *)
(***************************************************************************)
DeliveredInOrder ==
  /\ WaitingPacketsIntact
  /\ \A j, k \in DOMAIN rxGot : j < k => rxGot[j] < rxGot[k]
  /\ {rxGot[k] : k \in DOMAIN rxGot} = {i \in 1 .. rxTaken : rxSent[i] >= MediaHeaderSize}

\* Every packet the host delivers is eventually consumed by the client.
PacketsAreConsumed ==
  \A k \in 1 .. MaxPackets : Len(rxSent) >= k ~> rxTaken >= k
=============================================================================
