----------------------------- MODULE VirtioNetTx -----------------------------
(***************************************************************************)
(* The transmit side of VirtioNetDxe: VirtioNetTransmit, the TxBuf half of *)
(* VirtioNetGetStatus, VirtioNetMapTxBuf/UnmapTxBuf and the state that     *)
(* VirtioNetInitTx lays out, with the host that consumes the TX queue and  *)
(* the SNP client that lends packet buffers.                               *)
(*                                                                         *)
(* The SNP functions raise the TPL to TPL_CALLBACK, so they do not         *)
(* interrupt one another; the host runs concurrently with all of them. A   *)
(* function is therefore split exactly where the host can see a            *)
(* difference: at its memory fences and at the notification.               *)
(*                                                                         *)
(* Each packet uses the two descriptors DescIdx (the constant virtio-net   *)
(* request header) and DescIdx + 1 (the client's buffer), DescIdx even.    *)
(* Only the address in the second one ever changes: txDesc.  A device      *)
(* address is the client's buffer itself (the identity mapping that the    *)
(* comment in VirtioNetMapTxBuf discusses); a bouncing IOMMU gives each    *)
(* mapping an address of its own, which only makes collisions rarer.       *)
(***************************************************************************)
EXTENDS VirtioNetDev

CONSTANTS
  TxQueueSize,       \* GetQueueNumMax() of the TX queue
  Bufs,              \* the packet buffers of the SNP client
  NoBuf,             \* the address in a descriptor never written
  TxNotifyMayFail    \* whether SetQueueNotify(TX) can return an error

ASSUME TxAssumption ==
  /\ TxQueueSize \in Nat /\ TxQueueSize >= 2   \* VirtioNetInitRing: QueueSize < 2
  /\ ValidQueueSize(TxQueueSize)
  /\ NoBuf \notin Bufs
  /\ TxNotifyMayFail \in BOOLEAN

VARIABLES
  txRing,        \* Dev->TxRing, shared with the host
  txDesc,        \* Dev->TxRing.Desc[DescIdx + 1].Addr, by DescIdx
  txHost,        \* the host's position in the queue and the chains it holds
  txKicked,      \* the host has been notified and has not gone idle since
  txFreeStack,   \* Dev->TxFreeStack
  txCurPending,  \* Dev->TxCurPending
  txLastUsed,    \* Dev->TxLastUsed
  txBufs,        \* Dev->TxBufCollection: the buffers that are mapped
  txPc,          \* where the running SNP function is
  txArg,         \* Transmit's Buffer while it runs
  txSeen,        \* GetStatus's TxCurUsed
  lent           \* client: the buffers it knows to be queued

txVars == <<txRing, txDesc, txHost, txKicked, txFreeStack, txCurPending,
            txLastUsed, txBufs, txPc, txArg, txSeen, lent>>

TxMaxPending == PendingLimit(TxQueueSize)

TxHeads == ChainHeads(TxQueueSize)

TxSlots == 0 .. TxMaxPending - 1

-----------------------------------------------------------------------------
(* VirtioNetInitTx: what it leaves behind when it succeeds.                *)

InitialFreeStack == [i \in TxSlots |-> 2 * i]

TxInit ==
  /\ txRing = ZeroRing(TxQueueSize)
  /\ txDesc = [d \in TxHeads |-> NoBuf]
  /\ txHost = IdleHost
  /\ txKicked = FALSE
  /\ txFreeStack = InitialFreeStack
  /\ txCurPending = 0
  /\ txLastUsed = 0
  /\ txBufs = {}
  /\ txPc = "idle"
  /\ txArg = NoBuf
  /\ txSeen = 0
  /\ lent = {}

-----------------------------------------------------------------------------
\* Mutant: a buffer that is in TxBufCollection is mapped again.
MapTxBuf_Twice(b) == txBufs' = txBufs \cup {b}

\* VirtioNetMapTxBuf on success; EFI_ALREADY_STARTED if the buffer is mapped.
MapTxBuf(b) == b \notin txBufs /\ txBufs' = txBufs \cup {b}

\* VirtioNetUnmapTxBuf for the buffer found under a device address.
UnmapTxBuf(b) == txBufs' = txBufs \ {b}

(***************************************************************************)
(* VirtioNetTransmit.  The client never queues a buffer it knows to be     *)
(* queued (UEFI 2.7, GetStatus).  The early returns (bad arguments, wrong  *)
(* state, TxCurPending = TxMaxPending, a failing MapTxBuf, which rolls     *)
(* back everything it did and includes a buffer that is mapped already)    *)
(* change nothing.  Otherwise the buffer is mapped, a chain is popped from *)
(* the free stack and its head goes into the next slot of the available    *)
(* ring.                                                                   *)
(***************************************************************************)
Transmit(b) ==
  /\ txPc = "idle"
  /\ b \notin lent
  /\ txCurPending # TxMaxPending
  /\ MapTxBuf(b)
  /\ LET DescIdx == txFreeStack[txCurPending]
     IN  /\ txDesc' = [txDesc EXCEPT ![DescIdx] = b]
         /\ txRing' = PutAvail(txRing, DescIdx)
  /\ txCurPending' = txCurPending + 1
  /\ txArg' = b
  /\ txPc' = "publish"
  /\ UNCHANGED <<txHost, txKicked, txFreeStack, txLastUsed, txSeen, lent>>

\* Between the two fences: *Dev->TxRing.Avail.Idx = AvailIdx.
TransmitPublish ==
  /\ txPc = "publish"
  /\ txRing' = PublishAvail(txRing, 1)
  /\ txPc' = "notify"
  /\ UNCHANGED <<txDesc, txHost, txKicked, txFreeStack, txCurPending, txLastUsed,
                 txBufs, txArg, txSeen, lent>>

\* Mutant: the notification is missing.
NotifyTx_Not == txKicked' = txKicked

\* SetQueueNotify (VIRTIO_NET_Q_TX)
NotifyTx == txKicked' = TRUE

\* SetQueueNotify succeeds and Transmit returns EFI_SUCCESS.
TransmitNotify ==
  /\ txPc = "notify"
  /\ NotifyTx
  /\ lent' = lent \cup {txArg}
  /\ txArg' = NoBuf
  /\ txPc' = "idle"
  /\ UNCHANGED <<txRing, txDesc, txHost, txFreeStack, txCurPending, txLastUsed,
                 txBufs, txSeen>>

\* SetQueueNotify fails: its error is returned, and nothing is taken back.
TransmitNotifyFails ==
  /\ TxNotifyMayFail
  /\ txPc = "notify"
  /\ txArg' = NoBuf
  /\ txPc' = "idle"
  /\ UNCHANGED <<txRing, txDesc, txHost, txKicked, txFreeStack, txCurPending,
                 txLastUsed, txBufs, txSeen, lent>>

-----------------------------------------------------------------------------
(* VirtioNetGetStatus with a TxBuf argument.                               *)

\* TxCurUsed = *Dev->TxRing.Used.Idx, between two fences.
GetStatus ==
  /\ txPc = "idle"
  /\ txSeen' = txRing.usedIdx
  /\ txPc' = "reap"
  /\ UNCHANGED <<txRing, txDesc, txHost, txKicked, txFreeStack, txCurPending,
                 txLastUsed, txBufs, txArg, lent>>

\* Mutant: anything pending is taken to be done.
TxBufReady_Pending == txCurPending > 0

\* TxLastUsed != TxCurUsed
TxBufReady == txLastUsed # txSeen

UsedDescIdx == NextUsed(txRing, txLastUsed).id

\* Mutant: the address is taken from the chain that was popped last.
UsedBuf_LastPopped == txDesc[txFreeStack[txCurPending - 1]]

\* DeviceAddress = Dev->TxRing.Desc[DescIdx + 1].Addr
UsedBuf == txDesc[UsedDescIdx]

\* Mutant: nothing is pushed, as if chains came back last in, first out.
PushDescIdx_Lifo == txFreeStack' = txFreeStack

\* Dev->TxFreeStack[--Dev->TxCurPending] = DescIdx
PushDescIdx == txFreeStack' = [txFreeStack EXCEPT ![txCurPending - 1] = UsedDescIdx]

NextTxLastUsed == IdxAdd(txLastUsed, 1)

\* Nothing to return: *TxBuf = NULL.
GetStatusNone ==
  /\ txPc = "reap"
  /\ ~TxBufReady
  /\ txPc' = "idle"
  /\ txSeen' = 0
  /\ UNCHANGED <<txRing, txDesc, txHost, txKicked, txFreeStack, txCurPending,
                 txLastUsed, txBufs, txArg, lent>>

(***************************************************************************)
(* One chain is taken from the used ring and pushed on the free stack, and *)
(* VirtioNetUnmapTxBuf turns its device address back into the buffer that  *)
(* the client gets.                                                        *)
(***************************************************************************)
GetStatusTxBuf ==
  /\ txPc = "reap"
  /\ TxBufReady
  /\ PushDescIdx
  /\ UnmapTxBuf(UsedBuf)
  /\ lent' = lent \ {UsedBuf}
  /\ txLastUsed' = NextTxLastUsed
  /\ txCurPending' = txCurPending - 1
  /\ txPc' = "idle"
  /\ txSeen' = 0
  /\ UNCHANGED <<txRing, txDesc, txHost, txKicked, txArg>>

-----------------------------------------------------------------------------
(* The host.  It may look at the queue at any time, not only when kicked.  *)

TxHostFetch ==
  /\ HostCanFetch(txRing, txHost)
  /\ txHost' = HostFetch(txRing, txHost)
  /\ UNCHANGED <<txRing, txDesc, txKicked, txFreeStack, txCurPending, txLastUsed,
                 txBufs, txPc, txArg, txSeen, lent>>

\* Chains may be completed in any order (TechNotes.txt, "Packet transmission").
TxHostComplete(d) ==
  /\ d \in txHost.held
  /\ txRing' = PutUsed(txRing, d, 0)
  /\ txHost' = HostRelease(txHost, d)
  /\ UNCHANGED <<txDesc, txKicked, txFreeStack, txCurPending, txLastUsed,
                 txBufs, txPc, txArg, txSeen, lent>>

\* A kicked host that finds the queue empty waits for the next notification.
TxHostIdle ==
  /\ txKicked
  /\ ~HostCanFetch(txRing, txHost)
  /\ txKicked' = FALSE
  /\ UNCHANGED <<txRing, txDesc, txHost, txFreeStack, txCurPending, txLastUsed,
                 txBufs, txPc, txArg, txSeen, lent>>

-----------------------------------------------------------------------------
TransmitSteps == TransmitPublish \/ TransmitNotify \/ TransmitNotifyFails

GetStatusSteps == GetStatusNone \/ GetStatusTxBuf

TxHostSteps == \/ TxHostFetch
               \/ \E d \in TxHeads : TxHostComplete(d)
               \/ TxHostIdle

TxNext == \/ \E b \in Bufs : Transmit(b)
          \/ TransmitSteps
          \/ GetStatus
          \/ GetStatusSteps
          \/ TxHostSteps

TxSpec == TxInit /\ [][TxNext]_txVars

(***************************************************************************)
(* Fairness.  A called function runs on and returns.  A host that has been *)
(* notified drains the queue, and completes each packet it has taken.  The *)
(* client (MNP) polls GetStatus from a timer for as long as it has packets *)
(* queued.  Nothing is assumed about the host without a kick.              *)
(***************************************************************************)
TxFairness ==
  /\ WF_txVars(TransmitSteps)
  /\ WF_txVars(GetStatusSteps)
  /\ WF_txVars(txKicked /\ TxHostFetch)
  /\ \A d \in TxHeads : WF_txVars(TxHostComplete(d))
  /\ SF_txVars(GetStatus)

TxFairSpec == TxSpec /\ TxFairness

-----------------------------------------------------------------------------
(* Properties.                                                             *)

\* Type correctness of the transmit state of VNET_DEV and of the TX ring.
TxTypeOK ==
  /\ txRing \in VRingType(TxQueueSize, TxHeads, {0})
  /\ txDesc \in [TxHeads -> Bufs \cup {NoBuf}]
  /\ txHost \in HostType(TxHeads)
  /\ txKicked \in BOOLEAN
  /\ txFreeStack \in [TxSlots -> TxHeads]
  /\ txCurPending \in 0 .. TxMaxPending
  /\ txLastUsed \in Idx
  /\ txBufs \subseteq Bufs
  /\ txPc \in {"idle", "publish", "notify", "reap"}
  /\ txArg \in Bufs \cup {NoBuf}
  /\ txSeen \in Idx
  /\ lent \subseteq Bufs

TxFree == {txFreeStack[i] : i \in txCurPending .. TxMaxPending - 1}

\* The chain Transmit has popped and not published yet.
TxInHand == IF txPc = "publish" THEN {txFreeStack[txCurPending - 1]} ELSE {}

(***************************************************************************)
(* Every descriptor chain is in exactly one place: on the free stack, in   *)
(* Transmit's hands, published, with the host or returned by it.  The      *)
(* driver keeps no such account: it relies on the free stack, the two      *)
(* wrapping indices and the ids the host writes, out of order, agreeing.   *)
(***************************************************************************)
TxChains ==
  /\ TxTypeOK
  /\ \A i, j \in txCurPending .. TxMaxPending - 1 :
        txFreeStack[i] = txFreeStack[j] => i = j
  /\ TxInHand \cap TxFree = {}
  /\ ChainsPartitioned(txRing, txHost, txLastUsed, TxFree \cup TxInHand, TxHeads)

(***************************************************************************)
(* The host never reads a client buffer that has been unmapped, and no two *)
(* chains it can reach carry the same buffer: what GetStatus unmaps is     *)
(* exactly a buffer the host has finished with.                            *)
(***************************************************************************)
TxDmaMapped ==
  /\ \A d \in HostHeads(txRing, txHost) : txDesc[d] \in txBufs
  /\ \A d, e \in HostHeads(txRing, txHost) \cup UsedHeads(txRing, txLastUsed) :
        txDesc[d] = txDesc[e] => d = e

(***************************************************************************)
(* The ASSERTs of VirtioNetTransmit and VirtioNetGetStatus: while the used *)
(* ring is ahead of TxLastUsed something is pending, the id found there is *)
(* in range, and UnmapTxBuf finds its device address in TxBufCollection.   *)
(***************************************************************************)
TxAsserts ==
  /\ txCurPending <= TxMaxPending
  /\ txLastUsed # txRing.usedIdx =>
       LET id == NextUsed(txRing, txLastUsed).id
       IN  /\ txCurPending > 0
           /\ id < 2 * TxMaxPending - 1
           /\ txDesc[id] \in txBufs

(***************************************************************************)
(* OrderedCollectionInsert in VirtioNetMapTxBuf never meets the buffer it  *)
(* is inserting ("This should never happen"): a buffer the client may      *)
(* queue, one it does not know to be queued, is not in TxBufCollection.    *)
(***************************************************************************)
NeverAlreadyStarted == txPc = "idle" => txBufs \subseteq lent

\* GetStatus eventually hands back every buffer that Transmit accepted.
LentIsReturned == \A b \in Bufs : b \in lent ~> b \notin lent

\* The abstract owner of each buffer, read off the ring and the collection.
OwnerOf(b) ==
  IF b \notin txBufs THEN "client"
  ELSE IF \E d \in UsedHeads(txRing, txLastUsed) : txDesc[d] = b THEN "sent"
  ELSE "queued"

TxOwner == [b \in Bufs |-> OwnerOf(b)]

Pool == INSTANCE TxPool WITH MaxPending <- TxMaxPending, owner <- TxOwner

(***************************************************************************)
(* Transmit, GetStatus and the host implement the pool of TxPool: a buffer *)
(* is sent once, returned once and only after it was sent, with at most    *)
(* TxMaxPending away, whatever happens to the notifications.               *)
(***************************************************************************)
ImplementsTxPool == Pool!Spec
=============================================================================
