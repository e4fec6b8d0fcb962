---------------------- MODULE VirtioNetQueues_proofs ------------------------
(***************************************************************************)
(* Proofs about the two queues of VirtioNetDxe, for every queue size that  *)
(* divides the range of the indices.  TxInv and RxInv are inductive, each  *)
(* for its own specification; the lemmas ...StepPreserves and              *)
(* ...Establishes are stated for a step so that VirtioNet_proofs can use   *)
(* them for the driver as a whole.                                         *)
(***************************************************************************)
EXTENDS VirtioNetTx, VirtioNetRx, VRing_proofs

-----------------------------------------------------------------------------
(***************************************************************************)
(* Transmit: every set of client buffers and any behaviour of the host and *)
(* of the notifications.  TxInv adds to the account of the chains          *)
(* (TxChains) what the code relies on between its steps: the slot filled   *)
(* before the index is published, the used index sampled by GetStatus, and *)
(* that TxBufCollection holds the buffers of the chains that are away, one *)
(* for each of them.                                                       *)
(***************************************************************************)

\* The chains that are not on the free stack.
TxBusy == TxHeads \ TxFree

\* What a step of Transmit or GetStatus has left for the next one.
TxBetween ==
  /\ txPc = "publish" =>
       /\ txCurPending > 0
       /\ txRing.availRing[txRing.availIdx % TxQueueSize] = txFreeStack[txCurPending - 1]
  /\ txPc = "reap" => Ahead(txLastUsed, txSeen) <= Ahead(txLastUsed, txRing.usedIdx)
  /\ txPc \in {"publish", "notify"} => txArg \in Bufs

\* Each chain that is away carries a buffer of its own, and these are mapped.
TxMapped ==
  /\ txBufs = {txDesc[d] : d \in TxBusy}
  /\ \A d, e \in TxBusy : txDesc[d] = txDesc[e] => d = e

TxInv == TxChains /\ TxBetween /\ TxMapped

-----------------------------------------------------------------------------
\* The queue has at least one chain and twice as many descriptors as chains.
LEMMA TxSizes ==
  /\ ValidQueueSize(TxQueueSize) /\ TxQueueSize \in Nat /\ IdxMod \in Nat
  /\ TxMaxPending \in Nat \ {0} /\ 2 * TxMaxPending <= TxQueueSize
  /\ TxMaxPending < TxQueueSize /\ TxMaxPending < IdxMod
  /\ TxHeads = {2 * i : i \in TxSlots}
  /\ IsFiniteSet(TxHeads) /\ Cardinality(TxHeads) = TxMaxPending
  <1>1. /\ ValidQueueSize(TxQueueSize) /\ TxQueueSize \in Nat /\ IdxMod \in Nat
        /\ TxQueueSize >= 2
    BY TxAssumption DEF ValidQueueSize
  <1>2. TxMaxPending \in Nat \ {0} /\ 2 * TxMaxPending <= TxQueueSize
    BY <1>1, PendingAssumption DEF TxMaxPending, PendingLimit
  <1>3. TxMaxPending < TxQueueSize /\ TxMaxPending < IdxMod
    BY <1>1, <1>2 DEF ValidQueueSize
  <1>4. TxHeads = {2 * i : i \in TxSlots}
    BY DEF TxHeads, ChainHeads, TxSlots, TxMaxPending
  <1>5. IsFiniteSet(TxHeads) /\ Cardinality(TxHeads) = TxMaxPending
    BY <1>2, <1>4, EvenHeads DEF TxSlots
  <1> QED
    BY <1>1, <1>2, <1>3, <1>4, <1>5

\* Nothing is pending on the queue that VirtioNetInitTx lays out.
LEMMA TxInitEstablishes == TxInit => TxInv
  <1> SUFFICES ASSUME TxInit PROVE TxInv
    OBVIOUS
  <1> USE TxSizes DEF TxInit
  <1>1. 0 \in TxHeads /\ 0 \in Idx /\ InitialFreeStack \in [TxSlots -> TxHeads]
    BY DEF TxSlots, Idx, ValidQueueSize, InitialFreeStack
  <1>2. ZeroRing(TxQueueSize) \in VRingType(TxQueueSize, TxHeads, {0})
    BY <1>1 DEF ZeroRing, VRingType, UsedElem
  <1>3. IdleHost \in HostType(TxHeads)
    BY <1>1 DEF IdleHost, HostType
  <1>4. TxTypeOK
    <2>1. txDesc \in [TxHeads -> Bufs \cup {NoBuf}] /\ txCurPending \in 0 .. TxMaxPending
      OBVIOUS
    <2> QED
      BY <1>1, <1>2, <1>3, <2>1 DEF TxTypeOK
  <1>5. \A i, j \in TxSlots : txFreeStack[i] = txFreeStack[j] => i = j
    BY DEF InitialFreeStack, TxSlots
  <1>6. TxFree = TxHeads /\ TxInHand = {}
    BY DEF TxFree, TxInHand, InitialFreeStack, TxSlots
  <1>7. Ahead(0, 0) = 0
    BY <1>1, AheadType DEF ValidQueueSize
  <1>8. /\ AvailHeads(txRing, txHost) = {} /\ UsedHeads(txRing, txLastUsed) = {}
        /\ DOMAIN AvailWindow(txRing, txHost) = {} /\ DOMAIN UsedWindow(txRing, txLastUsed) = {}
        /\ txHost.held = {}
    BY <1>7 DEF AvailHeads, UsedHeads, AvailWindow, UsedWindow, ZeroRing, IdleHost
  <1>9. ChainsPartitioned(txRing, txHost, txLastUsed, TxFree \cup TxInHand, TxHeads)
    BY <1>6, <1>8 DEF ChainsPartitioned, HostHeads
  <1>10. TxChains
    BY <1>4, <1>5, <1>6, <1>9 DEF TxChains, TxSlots
  <1>11. TxBetween /\ TxMapped
    BY <1>6 DEF TxBetween, TxMapped, TxBusy
  <1> QED
    BY <1>10, <1>11 DEF TxInv

\* What TxInv says about where the chains are.
LEMMA TxPlaces ==
  ASSUME TxInv
  PROVE  /\ TxFree \subseteq TxHeads /\ TxInHand \subseteq TxHeads
         /\ TxBusy = TxInHand \cup HostHeads(txRing, txHost) \cup UsedHeads(txRing, txLastUsed)
         /\ HostHeads(txRing, txHost) \cap UsedHeads(txRing, txLastUsed) = {}
         /\ TxInHand \cap (HostHeads(txRing, txHost) \cup UsedHeads(txRing, txLastUsed)) = {}
         /\ txHost.held \subseteq HostHeads(txRing, txHost)
  BY DEF TxInv, TxChains, ChainsPartitioned, HostHeads, TxBusy

\* While a chain is away something is pending, and while a slot of the stack
\* is free its chain is not away.
LEMMA TxCounts ==
  ASSUME TxInv
  PROVE  /\ TxBusy # {} => txCurPending > 0
         /\ txCurPending # TxMaxPending =>
              /\ txCurPending \in TxSlots
              /\ txFreeStack[txCurPending] \in TxFree
  <1> USE TxSizes
  <1>1. /\ txFreeStack \in [TxSlots -> TxHeads] /\ txCurPending \in 0 .. TxMaxPending
        /\ \A i, j \in txCurPending .. TxMaxPending - 1 : txFreeStack[i] = txFreeStack[j] => i = j
    BY DEF TxInv, TxChains, TxTypeOK
  <1>2. ASSUME NEW d \in TxBusy, txCurPending = 0 PROVE FALSE
    <2>1. d \in TxHeads /\ \A i \in 0 .. TxMaxPending - 1 : txFreeStack[i] # d
      BY <1>2 DEF TxBusy, TxFree
    <2>2. txFreeStack \in [0 .. TxMaxPending - 1 -> TxHeads \ {d}]
      BY <1>1, <2>1 DEF TxSlots
    <2>3. IsFiniteSet(TxHeads \ {d}) /\ Cardinality(TxHeads \ {d}) = TxMaxPending - 1
      BY <2>1, FS_RemoveElement
    <2>4. \A i, j \in 0 .. TxMaxPending - 1 : txFreeStack[i] = txFreeStack[j] => i = j
      BY <1>1, <1>2
    <2>5. TxMaxPending <= Cardinality(TxHeads \ {d})
      BY <2>2, <2>3, <2>4, WindowFits
    <2> QED
      BY <2>3, <2>5
  <1>3. ASSUME txCurPending # TxMaxPending
        PROVE  txCurPending \in TxSlots /\ txFreeStack[txCurPending] \in TxFree
    BY <1>1, <1>3 DEF TxSlots, TxFree
  <1> QED
    BY <1>1, <1>2, <1>3

-----------------------------------------------------------------------------
(* Every step preserves TxInv.                                             *)

\* Transmit takes the chain on top of the free stack and maps a new buffer.
LEMMA TransmitPreserves ==
  ASSUME TxInv, NEW b \in Bufs, Transmit(b)
  PROVE  TxInv'
  <1> DEFINE D == txFreeStack[txCurPending]
  <1>1. TxTypeOK /\ txPc = "idle" /\ txCurPending # TxMaxPending /\ b \notin txBufs
    BY DEF TxInv, TxChains, Transmit, MapTxBuf
  <1>2. /\ txBufs' = txBufs \cup {b} /\ txDesc' = [txDesc EXCEPT ![D] = b]
        /\ txRing' = PutAvail(txRing, D) /\ txCurPending' = txCurPending + 1
        /\ txArg' = b /\ txPc' = "publish"
        /\ UNCHANGED <<txHost, txKicked, txFreeStack, txLastUsed, txSeen, lent>>
    BY DEF Transmit, MapTxBuf
  <1>3. txCurPending \in TxSlots /\ D \in TxFree /\ D \in TxHeads
    BY <1>1, TxCounts, TxPlaces
  <1>4. TxInHand = {} /\ TxInHand' = {D}
    <2>1. (txCurPending + 1) - 1 = txCurPending
      BY <1>3, TxSizes DEF TxSlots
    <2> QED
      BY <1>1, <1>2, <2>1 DEF TxInHand
  <1>5. TxFree' = TxFree \ {D}
    <2>1. \A i \in txCurPending .. TxMaxPending - 1 :
             i = txCurPending \/ (i \in txCurPending + 1 .. TxMaxPending - 1 /\ txFreeStack[i] # D)
      BY <1>3, TxSizes DEF TxInv, TxChains, TxSlots
    <2>2. \A i \in txCurPending + 1 .. TxMaxPending - 1 :
             i \in txCurPending .. TxMaxPending - 1 /\ txFreeStack[i] # D
      BY <1>3, TxSizes DEF TxInv, TxChains, TxSlots
    <2>3. TxFree' = {txFreeStack[i] : i \in txCurPending + 1 .. TxMaxPending - 1}
      BY <1>2 DEF TxFree
    <2> QED
      BY <2>1, <2>2, <2>3 DEF TxFree
  <1>6. /\ txRing \in VRingType(TxQueueSize, TxHeads, {0}) /\ txHost \in HostType(TxHeads)
        /\ txLastUsed \in Idx
        /\ ChainsPartitioned(txRing, txHost, txLastUsed, TxFree, TxHeads)
    BY <1>1, <1>4 DEF TxInv, TxChains, TxTypeOK
  <1>7. Ahead(txHost.idx, txRing.availIdx) < TxQueueSize
    <2>1. Ahead(txHost.idx, txRing.availIdx) < Cardinality(TxHeads)
      BY <1>3, <1>6, TxSizes, PartitionFits
    <2>2. Ahead(txHost.idx, txRing.availIdx) \in Nat
      BY <1>6, TxSizes, WindowTypes
    <2> QED
      BY <2>1, <2>2, TxSizes
  <1>8. /\ txRing' \in VRingType(TxQueueSize, TxHeads, {0})
        /\ txRing'.availIdx = txRing.availIdx /\ txRing'.usedIdx = txRing.usedIdx
        /\ txRing'.availRing[txRing.availIdx % TxQueueSize] = D
    BY <1>2, <1>3, <1>6, <1>7, TxSizes, PutAvailWindows
  <1>9. ChainsPartitioned(txRing', txHost, txLastUsed, TxFree, TxHeads)
    BY <1>2, <1>3, <1>6, <1>7, TxSizes, PutAvailPartition
  <1>10. TxFree' \cup TxInHand' = TxFree
    BY <1>3, <1>4, <1>5
  <1>11. TxTypeOK'
    <2>1. txDesc' \in [TxHeads -> Bufs \cup {NoBuf}] /\ txBufs' \subseteq Bufs
      BY <1>1, <1>2, <1>3 DEF TxTypeOK
    <2>2. txCurPending' \in 0 .. TxMaxPending
      BY <1>1, <1>2, TxSizes DEF TxTypeOK
    <2> QED
      BY <1>1, <1>2, <1>8, <2>1, <2>2 DEF TxTypeOK
  <1>12. TxChains'
    <2>1. \A i, j \in txCurPending' .. TxMaxPending - 1 :
             txFreeStack'[i] = txFreeStack'[j] => i = j
      <3>1. \A i \in txCurPending' .. TxMaxPending - 1 : i \in txCurPending .. TxMaxPending - 1
        BY <1>2, <1>3, TxSizes DEF TxSlots
      <3> QED
        BY <1>2, <3>1 DEF TxInv, TxChains
    <2>2. ChainsPartitioned(txRing', txHost', txLastUsed', TxFree' \cup TxInHand', TxHeads)
      BY <1>2, <1>9, <1>10
    <2>3. TxInHand' \cap TxFree' = {}
      BY <1>4, <1>5
    <2> QED
      BY <1>11, <2>1, <2>2, <2>3 DEF TxChains
  <1>13. TxBetween'
    <2>1. txCurPending' > 0 /\ txCurPending' - 1 = txCurPending
      BY <1>2, <1>3, TxSizes DEF TxSlots
    <2> QED
      BY <1>2, <1>8, <2>1 DEF TxBetween
  <1>14. TxMapped'
    <2>1. TxBusy' = TxBusy \cup {D} /\ D \notin TxBusy
      BY <1>3, <1>5 DEF TxBusy
    <2>2. txDesc'[D] = b /\ \A d \in TxBusy : txDesc'[d] = txDesc[d] /\ txDesc[d] \in txBufs
      BY <1>1, <1>2, <1>3, <2>1 DEF TxTypeOK, TxInv, TxMapped, TxBusy
    <2>3. txBufs = {txDesc[d] : d \in TxBusy}
      BY DEF TxInv, TxMapped
    <2>4. txBufs' = {txDesc'[d] : d \in TxBusy'}
      BY <1>2, <2>1, <2>2, <2>3
    <2>5. \A d, e \in TxBusy' : txDesc'[d] = txDesc'[e] => d = e
      BY <1>1, <2>1, <2>2 DEF TxInv, TxMapped
    <2> QED
      BY <2>4, <2>5 DEF TxMapped
  <1> QED
    BY <1>12, <1>13, <1>14 DEF TxInv

\* The write of the available index hands the chain over.
LEMMA PublishPreserves ==
  ASSUME TxInv, TransmitPublish
  PROVE  TxInv'
  <1> DEFINE D == txFreeStack[txCurPending - 1]
  <1>1. /\ TxTypeOK /\ txPc = "publish" /\ txCurPending > 0
        /\ txRing.availRing[txRing.availIdx % TxQueueSize] = D
        /\ txArg \in Bufs
    BY DEF TxInv, TxChains, TxBetween, TransmitPublish
  <1>2. /\ txRing' = PublishAvail(txRing, 1) /\ txPc' = "notify"
        /\ UNCHANGED <<txDesc, txHost, txKicked, txFreeStack, txCurPending, txLastUsed,
                       txBufs, txArg, txSeen, lent>>
    BY DEF TransmitPublish
  <1>3. TxInHand = {D} /\ D \notin TxFree /\ D \in TxHeads
    BY <1>1, TxPlaces DEF TxInHand, TxInv, TxChains
  <1>4. TxInHand' = {} /\ TxFree' = TxFree /\ TxBusy' = TxBusy
    BY <1>2 DEF TxInHand, TxFree, TxBusy
  <1>5. /\ txRing \in VRingType(TxQueueSize, TxHeads, {0}) /\ txHost \in HostType(TxHeads)
        /\ txLastUsed \in Idx
        /\ ChainsPartitioned(txRing, txHost, txLastUsed, TxFree \cup {D}, TxHeads)
    BY <1>1, <1>3 DEF TxInv, TxChains, TxTypeOK
  <1>6. Ahead(txHost.idx, txRing.availIdx) + 1 < IdxMod
    <2>1. Ahead(txHost.idx, txRing.availIdx) < Cardinality(TxHeads)
      <3>1. TxFree \cup {D} # {}
        OBVIOUS
      <3> QED
        BY <1>5, <3>1, TxSizes, PartitionFits
    <2>2. Ahead(txHost.idx, txRing.availIdx) \in Nat
      BY <1>5, TxSizes, WindowTypes
    <2> QED
      BY <2>1, <2>2, TxSizes DEF ValidQueueSize
  <1>7. txRing' \in VRingType(TxQueueSize, TxHeads, {0})
    BY <1>2, <1>5, <1>6, TxSizes, PublishWindows
  <1>8. ChainsPartitioned(txRing', txHost, txLastUsed, TxFree, TxHeads)
    BY <1>1, <1>2, <1>3, <1>5, <1>6, TxSizes, PublishPartition
  <1>9. TxFree' \cup TxInHand' = TxFree /\ TxInHand' \cap TxFree' = {}
    BY <1>4
  <1>10. TxTypeOK'
    BY <1>1, <1>2, <1>7 DEF TxTypeOK
  <1>11. TxChains'
    BY <1>2, <1>8, <1>9, <1>10 DEF TxInv, TxChains
  <1>12. TxBetween' /\ TxMapped'
    BY <1>1, <1>2, <1>4 DEF TxInv, TxBetween, TxMapped
  <1> QED
    BY <1>11, <1>12 DEF TxInv

\* The notification, whether it succeeds or fails, moves no chain.
LEMMA NotifyPreserves ==
  ASSUME TxInv, TransmitNotify \/ TransmitNotifyFails
  PROVE  TxInv'
  <1>1. /\ TxTypeOK /\ txPc = "notify" /\ txArg \in Bufs
        /\ txKicked' \in BOOLEAN /\ lent' \in {lent, lent \cup {txArg}}
        /\ txPc' = "idle" /\ txArg' = NoBuf
        /\ UNCHANGED <<txRing, txDesc, txHost, txFreeStack, txCurPending, txLastUsed,
                       txBufs, txSeen>>
    BY DEF TxInv, TxChains, TxTypeOK, TxBetween, TransmitNotify, TransmitNotifyFails, NotifyTx
  <1>2. TxInHand' = TxInHand /\ TxFree' = TxFree /\ TxBusy' = TxBusy
    BY <1>1 DEF TxInHand, TxFree, TxBusy
  <1>3. TxTypeOK'
    BY <1>1 DEF TxTypeOK
  <1> QED
    BY <1>1, <1>2, <1>3 DEF TxInv, TxChains, TxBetween, TxMapped

\* GetStatus samples the used index, or finds nothing new.
LEMMA GetStatusPreserves ==
  ASSUME TxInv, GetStatus \/ GetStatusNone
  PROVE  TxInv'
  <1>1. /\ TxTypeOK /\ txRing.usedIdx \in Idx /\ 0 \in Idx
        /\ UNCHANGED <<txRing, txDesc, txHost, txKicked, txFreeStack, txCurPending,
                       txLastUsed, txBufs, txArg, lent>>
    BY TxSizes DEF TxInv, TxChains, TxTypeOK, VRingType, Idx, ValidQueueSize, GetStatus, GetStatusNone
  <1>2. /\ txPc' \in {"reap", "idle"} /\ txSeen' \in Idx /\ txPc \in {"idle", "reap"}
        /\ txPc' = "reap" => txSeen' = txRing.usedIdx
    BY <1>1 DEF GetStatus, GetStatusNone
  <1>3. TxInHand' = TxInHand /\ TxFree' = TxFree /\ TxBusy' = TxBusy
    BY <1>1, <1>2 DEF TxInHand, TxFree, TxBusy
  <1>4. TxTypeOK'
    BY <1>1, <1>2 DEF TxTypeOK
  <1>5. Ahead(txLastUsed, txRing.usedIdx) \in Nat
    BY <1>1, TxSizes, RingIndex DEF TxTypeOK
  <1>6. TxBetween'
    BY <1>1, <1>2, <1>5 DEF TxBetween
  <1> QED
    BY <1>1, <1>3, <1>4, <1>6 DEF TxInv, TxChains, TxMapped

\* GetStatus finds a used element only where the host has put one.
LEMMA ReadyMeansReturned ==
  ASSUME TxInv, txPc = "reap", TxBufReady
  PROVE  txLastUsed # txRing.usedIdx
  <1>1. txLastUsed \in Idx /\ txSeen \in Idx /\ txRing.usedIdx \in Idx /\ IdxMod \in Nat \ {0}
    BY TxSizes DEF TxInv, TxChains, TxTypeOK, VRingType, ValidQueueSize
  <1>2. Ahead(txLastUsed, txSeen) <= Ahead(txLastUsed, txRing.usedIdx)
    BY DEF TxInv, TxBetween
  <1>3. Ahead(txLastUsed, txSeen) # 0
    BY <1>1, AheadType DEF TxBufReady
  <1>4. Ahead(txLastUsed, txRing.usedIdx) # 0
    <2>1. Ahead(txLastUsed, txSeen) \in Nat /\ Ahead(txLastUsed, txRing.usedIdx) \in Nat
      BY <1>1, TxSizes, RingIndex
    <2> QED
      BY <1>2, <1>3, <2>1
  <1> QED
    BY <1>1, <1>4, AheadType

\* GetStatus returns a chain to the free stack and unmaps its buffer.
LEMMA ReapPreserves ==
  ASSUME TxInv, GetStatusTxBuf
  PROVE  TxInv'
  <1> DEFINE D == UsedDescIdx
             p == txCurPending - 1
  <1>1. TxTypeOK /\ txPc = "reap" /\ TxBufReady
    BY DEF TxInv, TxChains, GetStatusTxBuf
  <1>2. /\ txFreeStack' = [txFreeStack EXCEPT ![p] = D] /\ txBufs' = txBufs \ {txDesc[D]}
        /\ lent' = lent \ {txDesc[D]} /\ txLastUsed' = IdxAdd(txLastUsed, 1)
        /\ txCurPending' = p /\ txPc' = "idle" /\ txSeen' = 0
        /\ UNCHANGED <<txRing, txDesc, txHost, txKicked, txArg>>
    BY DEF GetStatusTxBuf, PushDescIdx, UnmapTxBuf, UsedBuf, NextTxLastUsed
  <1>3. TxInHand = {} /\ TxInHand' = {}
    BY <1>1, <1>2 DEF TxInHand
  <1>4. /\ txRing \in VRingType(TxQueueSize, TxHeads, {0}) /\ txHost \in HostType(TxHeads)
        /\ txLastUsed \in Idx
        /\ ChainsPartitioned(txRing, txHost, txLastUsed, TxFree, TxHeads)
    BY <1>1, <1>3 DEF TxInv, TxChains, TxTypeOK
  <1>5. txLastUsed # txRing.usedIdx
    BY <1>1, ReadyMeansReturned
  <1>6. /\ D \in TxHeads /\ D \in UsedHeads(txRing, txLastUsed) /\ D \notin TxFree
        /\ ChainsPartitioned(txRing, txHost, txLastUsed', TxFree \cup {D}, TxHeads)
    BY <1>2, <1>4, <1>5, TxSizes, ConsumePartition DEF UsedDescIdx
  <1>7. D \in TxBusy /\ txCurPending > 0
    BY <1>6, TxCounts DEF TxBusy
  <1>8. p \in TxSlots /\ p \in 0 .. TxMaxPending /\ 0 \in Idx /\ txLastUsed' \in Idx
    <2>1. txLastUsed' \in Idx
      BY <1>2, <1>4, TxSizes, RingIndex
    <2> QED
      BY <1>1, <1>7, <2>1, TxSizes DEF TxTypeOK, TxSlots, Idx, ValidQueueSize
  <1> HIDE DEF D
  <1>9. /\ \A i \in p .. TxMaxPending - 1 : i = p \/ i \in txCurPending .. TxMaxPending - 1
        /\ p \in p .. TxMaxPending - 1
        /\ \A i \in txCurPending .. TxMaxPending - 1 : i # p /\ i \in p .. TxMaxPending - 1 /\ i \in TxSlots
    BY <1>1, <1>7, <1>8, TxSizes DEF TxTypeOK, TxSlots
  <1>10. /\ txFreeStack'[p] = D
         /\ \A i \in txCurPending .. TxMaxPending - 1 : txFreeStack'[i] = txFreeStack[i]
    BY <1>1, <1>2, <1>8, <1>9 DEF TxTypeOK
  <1> DEFINE N == p .. TxMaxPending - 1
             O == txCurPending .. TxMaxPending - 1
  <1> HIDE DEF p
  <1>11. TxFree' = {txFreeStack'[i] : i \in N} /\ TxFree = {txFreeStack[i] : i \in O}
    BY <1>2 DEF TxFree
  <1> HIDE DEF N, O
  <1>12. TxFree' = TxFree \cup {D}
    BY <1>9, <1>10, <1>11 DEF N, O
  <1>13. TxTypeOK'
    <2>1. txFreeStack' \in [TxSlots -> TxHeads]
      BY <1>1, <1>2, <1>6, <1>8 DEF TxTypeOK
    <2> QED
      BY <1>1, <1>2, <1>8, <2>1 DEF TxTypeOK
  <1>14. TxChains'
    <2>1. \A i, j \in O : txFreeStack[i] = txFreeStack[j] => i = j
      BY DEF TxInv, TxChains, O
    <2>2. \A i \in O : txFreeStack[i] # D
      BY <1>6, <1>11
    <2>3. \A i, j \in N : txFreeStack'[i] = txFreeStack'[j] => i = j
      BY <1>9, <1>10, <2>1, <2>2 DEF N, O
    <2>4. ChainsPartitioned(txRing', txHost', txLastUsed', TxFree' \cup TxInHand', TxHeads)
      <3>1. TxFree' \cup TxInHand' = TxFree \cup {D}
        BY <1>3, <1>12
      <3> QED
        BY <1>2, <1>6, <3>1
    <2> QED
      BY <1>2, <1>3, <1>13, <2>3, <2>4 DEF TxChains, N
  <1>15. TxBetween'
    BY <1>2 DEF TxBetween
  <1>16. TxMapped'
    <2>1. TxBusy' = TxBusy \ {D}
      BY <1>12 DEF TxBusy
    <2>2. /\ txBufs = {txDesc[d] : d \in TxBusy}
          /\ \A d, e \in TxBusy : txDesc[d] = txDesc[e] => d = e
      BY DEF TxInv, TxMapped
    <2>3. txBufs' = {txDesc[d] : d \in TxBusy \ {D}}
      BY <1>2, <1>7, <2>2
    <2> QED
      BY <1>2, <2>1, <2>2, <2>3 DEF TxMapped
  <1> QED
    BY <1>14, <1>15, <1>16 DEF TxInv

\* The host fetches a chain, completes one, or goes idle.
LEMMA TxHostPreserves ==
  ASSUME TxInv, TxHostSteps
  PROVE  TxInv'
  <1>1. /\ TxTypeOK
        /\ txRing \in VRingType(TxQueueSize, TxHeads, {0}) /\ txHost \in HostType(TxHeads)
        /\ txLastUsed \in Idx
        /\ ChainsPartitioned(txRing, txHost, txLastUsed, TxFree \cup TxInHand, TxHeads)
    BY DEF TxInv, TxChains, TxTypeOK
  <1>2. UNCHANGED <<txDesc, txFreeStack, txCurPending, txLastUsed, txBufs, txPc, txArg, txSeen, lent>>
    BY DEF TxHostSteps, TxHostFetch, TxHostComplete, TxHostIdle
  <1>3. TxInHand' = TxInHand /\ TxFree' = TxFree /\ TxBusy' = TxBusy
    BY <1>2 DEF TxInHand, TxFree, TxBusy
  <1>4. TxMapped'
    BY <1>2, <1>3 DEF TxInv, TxMapped
  <1>5. ASSUME txRing' = txRing, txHost' \in HostType(TxHeads), txKicked' \in BOOLEAN,
               ChainsPartitioned(txRing, txHost', txLastUsed, TxFree \cup TxInHand, TxHeads)
        PROVE  TxInv'
    <2>1. TxTypeOK'
      BY <1>1, <1>2, <1>5 DEF TxTypeOK
    <2>2. TxChains'
      BY <1>2, <1>3, <1>5, <2>1 DEF TxInv, TxChains
    <2> QED
      BY <1>2, <1>4, <1>5, <2>2 DEF TxInv, TxBetween
  <1>6. CASE TxHostFetch
    <2>1. HostCanFetch(txRing, txHost) /\ txHost' = HostFetch(txRing, txHost)
          /\ txRing' = txRing /\ txKicked' = txKicked
      BY <1>6 DEF TxHostFetch
    <2>2. txHost' \in HostType(TxHeads)
      BY <1>1, <2>1, TxSizes, FetchWindows
    <2>3. ChainsPartitioned(txRing, txHost', txLastUsed, TxFree \cup TxInHand, TxHeads)
      BY <1>1, <2>1, TxSizes, FetchPartition
    <2> QED
      BY <1>1, <1>5, <2>1, <2>2, <2>3 DEF TxTypeOK
  <1>7. CASE TxHostIdle
    BY <1>1, <1>5, <1>7 DEF TxHostIdle
  <1>8. ASSUME NEW d \in TxHeads, TxHostComplete(d) PROVE TxInv'
    <2>1. /\ d \in txHost.held /\ txRing' = PutUsed(txRing, d, 0)
          /\ txHost' = HostRelease(txHost, d) /\ txKicked' = txKicked
      BY <1>8 DEF TxHostComplete
    <2> DEFINE n == Ahead(txLastUsed, txRing.usedIdx)
    <2>2. n < TxQueueSize /\ n + 1 < IdxMod /\ n \in Nat
      <3>1. txHost.held # {}
        BY <2>1
      <3>2. n < Cardinality(TxHeads)
        BY <1>1, <3>1, TxSizes, PartitionFits
      <3>3. n \in Nat
        BY <1>1, TxSizes, WindowTypes
      <3> QED
        BY <3>2, <3>3, TxSizes DEF ValidQueueSize
    <2>3. /\ txRing' \in VRingType(TxQueueSize, TxHeads, {0})
          /\ txRing'.availRing = txRing.availRing /\ txRing'.availIdx = txRing.availIdx
          /\ txRing'.usedIdx = IdxAdd(txRing.usedIdx, 1)
      <3>1. 0 \in {0} /\ d \in TxHeads /\ ValidQueueSize(TxQueueSize)
        BY <1>8, TxSizes
      <3> HIDE DEF n
      <3>2. Ahead(txLastUsed, txRing.usedIdx) < TxQueueSize /\ Ahead(txLastUsed, txRing.usedIdx) + 1 < IdxMod
        BY <2>2 DEF n
      <3>3. /\ PutUsed(txRing, d, 0) \in VRingType(TxQueueSize, TxHeads, {0})
            /\ PutUsed(txRing, d, 0).availRing = txRing.availRing
            /\ PutUsed(txRing, d, 0).availIdx = txRing.availIdx
            /\ PutUsed(txRing, d, 0).usedIdx = IdxAdd(txRing.usedIdx, 1)
        BY <1>1, <3>1, <3>2, PutUsedWindows
      <3> QED
        BY <2>1, <3>3
    <2>4. /\ txHost' \in HostType(TxHeads)
          /\ ChainsPartitioned(txRing', txHost', txLastUsed, TxFree \cup TxInHand, TxHeads)
      BY <1>1, <2>1, <2>2, TxSizes, PutUsedPartition
    <2>5. TxTypeOK'
      BY <1>1, <1>2, <2>1, <2>3, <2>4 DEF TxTypeOK
    <2>6. TxChains'
      BY <1>2, <1>3, <2>4, <2>5 DEF TxInv, TxChains
    <2>7. Ahead(txLastUsed, txRing'.usedIdx) = n + 1
      <3>1. txRing.usedIdx \in Idx /\ IdxMod \in Nat \ {0}
        BY <1>1, TxSizes DEF VRingType, ValidQueueSize
      <3> QED
        BY <1>1, <2>2, <2>3, <3>1, AheadAdd
    <2>8. txSeen \in Idx /\ Ahead(txLastUsed, txSeen) \in Nat
      BY <1>1, TxSizes, RingIndex DEF TxTypeOK
    <2>9. TxBetween'
      <3>1. txPc = "reap" => Ahead(txLastUsed, txSeen) <= n + 1
        BY <2>2, <2>8 DEF TxInv, TxBetween
      <3> QED
        BY <1>2, <2>3, <2>7, <3>1 DEF TxInv, TxBetween
    <2> QED
      BY <1>4, <2>6, <2>9 DEF TxInv
  <1> QED
    BY <1>6, <1>7, <1>8 DEF TxHostSteps
-----------------------------------------------------------------------------
(* The theorems.                                                           *)

\* TxInv is inductive.
LEMMA TxStepPreserves == TxInv /\ [TxNext]_txVars => TxInv'
  <1> SUFFICES ASSUME TxInv, [TxNext]_txVars PROVE TxInv'
    OBVIOUS
  <1>1. ASSUME NEW b \in Bufs, Transmit(b) PROVE TxInv'
    BY <1>1, TransmitPreserves
  <1>2. CASE TransmitSteps
    BY <1>2, PublishPreserves, NotifyPreserves DEF TransmitSteps
  <1>3. CASE GetStatus
    BY <1>3, GetStatusPreserves
  <1>4. CASE GetStatusSteps
    BY <1>4, GetStatusPreserves, ReapPreserves DEF GetStatusSteps
  <1>5. CASE TxHostSteps
    BY <1>5, TxHostPreserves
  <1>6. CASE UNCHANGED txVars
    <2>1. TxInHand' = TxInHand /\ TxFree' = TxFree /\ TxBusy' = TxBusy
      BY <1>6 DEF TxInHand, TxFree, TxBusy, txVars
    <2>2. TxTypeOK'
      BY <1>6 DEF TxInv, TxChains, TxTypeOK, txVars
    <2> QED
      BY <1>6, <2>1, <2>2 DEF TxInv, TxChains, TxBetween, TxMapped, txVars
  <1> QED
    BY <1>1, <1>2, <1>3, <1>4, <1>5, <1>6 DEF TxNext

\* TxInv holds throughout: whatever Transmit, GetStatus and the host do, in
\* whatever order.
THEOREM TxInvariant == TxSpec => []TxInv
  BY TxInitEstablishes, TxStepPreserves, PTL DEF TxSpec

\* Every descriptor chain of the TX queue is in exactly one place, for every
\* queue size.
THEOREM TxChainsAccounted == TxSpec => []TxChains
  <1>1. TxInv => TxChains
    BY DEF TxInv
  <1> QED
    BY <1>1, TxInvariant, PTL

\* TxInv gives what the DMA needs.
LEMMA TxInvMapped == TxInv => TxDmaMapped
  <1> SUFFICES ASSUME TxInv PROVE TxDmaMapped
    OBVIOUS
  <1>1. HostHeads(txRing, txHost) \cup UsedHeads(txRing, txLastUsed) \subseteq TxBusy
    BY TxPlaces
  <1> QED
    BY <1>1 DEF TxDmaMapped, TxInv, TxMapped

\* The host never reads a client buffer that VirtioNetUnmapTxBuf has unmapped,
\* and no two chains it can reach carry the same buffer.
THEOREM TxDmaStaysMapped == TxSpec => []TxDmaMapped
  BY TxInvMapped, TxInvariant, PTL

\* TxInv gives what the ASSERTs say.
LEMMA TxInvAsserts == TxInv => TxAsserts
  <1> SUFFICES ASSUME TxInv PROVE TxAsserts
    OBVIOUS
  <1> DEFINE id == NextUsed(txRing, txLastUsed).id
  <1>1. /\ txRing \in VRingType(TxQueueSize, TxHeads, {0}) /\ txHost \in HostType(TxHeads)
        /\ txLastUsed \in Idx /\ txCurPending \in 0 .. TxMaxPending
        /\ ChainsPartitioned(txRing, txHost, txLastUsed, TxFree \cup TxInHand, TxHeads)
    BY DEF TxInv, TxChains, TxTypeOK
  <1>2. ASSUME txLastUsed # txRing.usedIdx
        PROVE  txCurPending > 0 /\ id < 2 * TxMaxPending - 1 /\ txDesc[id] \in txBufs
    <2>1. id \in TxHeads /\ id \notin TxFree
      <3>1. id \in TxHeads /\ id \notin TxFree \cup TxInHand
        BY <1>1, <1>2, TxSizes, ConsumePartition
      <3> QED
        BY <3>1
    <2>2. id \in TxBusy
      BY <2>1 DEF TxBusy
    <2> HIDE DEF id
    <2>3. id < 2 * TxMaxPending - 1
      BY <2>1, TxSizes DEF TxSlots
    <2>4. txDesc[id] \in txBufs
      BY <2>2 DEF TxInv, TxMapped
    <2> QED
      BY <2>2, <2>3, <2>4, TxCounts
  <1> QED
    BY <1>1, <1>2, TxSizes DEF TxAsserts

\* The ASSERTs of VirtioNetTransmit, VirtioNetGetStatus and VirtioNetUnmapTxBuf
\* never fire.
THEOREM TxAssertsHold == TxSpec => []TxAsserts
  BY TxInvAsserts, TxInvariant, PTL

-----------------------------------------------------------------------------
(* The refinement: each step of the transmit side is a step of TxPool on   *)
(* the buffers, or leaves every buffer where it was.                       *)

\* The buffers that are away are the mapped ones, and while Transmit may pop a
\* chain there are fewer of them than chains.
LEMMA TxAway ==
  ASSUME TxInv, txCurPending # TxMaxPending
  PROVE  Cardinality(Pool!Away) < TxMaxPending
  <1> DEFINE D == txFreeStack[txCurPending]
             f == [d \in TxBusy |-> txDesc[d]]
  <1>1. Pool!Away = txBufs
    BY DEF Pool!Away, TxOwner, OwnerOf, TxInv, TxChains, TxTypeOK
  <1>2. D \in TxHeads /\ TxBusy \subseteq TxHeads \ {D}
    BY TxCounts, TxPlaces DEF TxBusy
  <1>3. IsFiniteSet(TxHeads \ {D}) /\ Cardinality(TxHeads \ {D}) = TxMaxPending - 1
    BY <1>2, TxSizes, FS_RemoveElement
  <1>4. IsFiniteSet(TxBusy) /\ Cardinality(TxBusy) <= TxMaxPending - 1
    BY <1>2, <1>3, FS_Subset
  <1>5. f \in Surjection(TxBusy, txBufs)
    BY DEF Surjection, TxInv, TxMapped
  <1>6. IsFiniteSet(txBufs) /\ Cardinality(txBufs) <= Cardinality(TxBusy)
    BY <1>4, <1>5, FS_Surjection
  <1>7. Cardinality(txBufs) \in Nat /\ Cardinality(TxBusy) \in Nat
    BY <1>4, <1>6, FS_CardinalityType
  <1> QED
    BY <1>1, <1>4, <1>6, <1>7, TxSizes

\* A step that leaves the collection, the addresses and the returned chains
\* alone moves no buffer.
LEMMA SameOwner ==
  ASSUME txBufs' = txBufs, txDesc' = txDesc,
         UsedHeads(txRing', txLastUsed') = UsedHeads(txRing, txLastUsed)
  PROVE  TxOwner' = TxOwner
  BY DEF TxOwner, OwnerOf

\* Transmit maps and queues a buffer that was the client's.
LEMMA TransmitQueues ==
  ASSUME TxInv, NEW b \in Bufs, Transmit(b)
  PROVE  Pool!Queue(b)
  <1> DEFINE D == txFreeStack[txCurPending]
             U == UsedHeads(txRing, txLastUsed)
  <1>1. TxTypeOK /\ txPc = "idle" /\ txCurPending # TxMaxPending /\ b \notin txBufs
    BY DEF TxInv, TxChains, Transmit, MapTxBuf
  <1>2. /\ txBufs' = txBufs \cup {b} /\ txDesc' = [txDesc EXCEPT ![D] = b]
        /\ txRing' = PutAvail(txRing, D) /\ txLastUsed' = txLastUsed
    BY DEF Transmit, MapTxBuf
  <1>3. D \in TxFree /\ D \in TxHeads /\ U \subseteq TxBusy /\ D \notin U
    BY <1>1, TxCounts, TxPlaces DEF TxBusy
  <1>4. UsedHeads(txRing', txLastUsed') = U
    BY <1>1, <1>2 DEF UsedHeads, UsedWindow, PutAvail, TxTypeOK, VRingType
  <1> HIDE DEF D, U
  <1>5. \A d \in U : txDesc'[d] = txDesc[d] /\ txDesc[d] \in txBufs
    BY <1>1, <1>2, <1>3 DEF TxTypeOK, TxInv, TxMapped, TxBusy
  <1>6. \A c \in Bufs : OwnerOf(c) = IF c \notin txBufs THEN "client"
                          ELSE IF \E d \in U : txDesc[d] = c THEN "sent" ELSE "queued"
    BY DEF OwnerOf, U
  <1>7. \A c \in Bufs : OwnerOf(c)' = IF c \notin txBufs' THEN "client"
                          ELSE IF \E d \in U : txDesc'[d] = c THEN "sent" ELSE "queued"
    BY <1>4 DEF OwnerOf
  <1>8. OwnerOf(b) = "client" /\ OwnerOf(b)' = "queued"
    <2>1. \A d \in U : txDesc'[d] # b
      BY <1>1, <1>5
    <2> QED
      BY <1>1, <1>2, <1>6, <1>7, <2>1
  <1>9. \A c \in Bufs \ {b} : OwnerOf(c)' = OwnerOf(c)
    BY <1>2, <1>5, <1>6, <1>7
  <1>10. TxOwner' = [TxOwner EXCEPT ![b] = "queued"]
    BY <1>8, <1>9 DEF TxOwner
  <1>11. TxOwner[b] = "client"
    BY <1>8 DEF TxOwner
  <1> QED
    <2>1. Pool!Cardinality(Pool!Away) = Cardinality(Pool!Away)
      BY DEF Pool!Cardinality, Cardinality
    <2> QED
      BY <1>1, <1>10, <1>11, <2>1, TxAway DEF Pool!Queue

\* The host's completion of a chain sends the buffer the chain carries.
LEMMA CompleteSends ==
  ASSUME TxInv, NEW d \in TxHeads, TxHostComplete(d)
  PROVE  txDesc[d] \in Bufs /\ Pool!Send(txDesc[d])
  <1> DEFINE U == UsedHeads(txRing, txLastUsed)
             B == txDesc[d]
  <1>1. /\ TxTypeOK
        /\ txRing \in VRingType(TxQueueSize, TxHeads, {0}) /\ txHost \in HostType(TxHeads)
        /\ txLastUsed \in Idx
        /\ ChainsPartitioned(txRing, txHost, txLastUsed, TxFree \cup TxInHand, TxHeads)
    BY DEF TxInv, TxChains, TxTypeOK
  <1>2. /\ d \in txHost.held /\ txRing' = PutUsed(txRing, d, 0)
        /\ txHost' = HostRelease(txHost, d)
        /\ txDesc' = txDesc /\ txBufs' = txBufs /\ txLastUsed' = txLastUsed
    BY DEF TxHostComplete
  <1>3. Ahead(txLastUsed, txRing.usedIdx) < TxQueueSize /\ Ahead(txLastUsed, txRing.usedIdx) + 1 < IdxMod
    <2>1. txHost.held # {}
      BY <1>2
    <2>2. Ahead(txLastUsed, txRing.usedIdx) < Cardinality(TxHeads)
      BY <1>1, <2>1, TxSizes, PartitionFits
    <2>3. Ahead(txLastUsed, txRing.usedIdx) \in Nat
      BY <1>1, TxSizes, WindowTypes
    <2> QED
      BY <2>2, <2>3, TxSizes DEF ValidQueueSize
  <1>4. UsedHeads(txRing', txLastUsed') = U \cup {d}
    <2>1. 0 \in {0} /\ ValidQueueSize(TxQueueSize)
      BY TxSizes
    <2>2. UsedHeads(PutUsed(txRing, d, 0), txLastUsed) = U \cup {d}
      BY <1>1, <1>2, <1>3, <2>1, PutUsedPartition
    <2> QED
      BY <1>2, <2>2
  <1>5. d \in TxBusy /\ U \subseteq TxBusy /\ d \notin U
    BY <1>2, TxPlaces
  <1> HIDE DEF U
  <1>6. B \in txBufs /\ B \in Bufs /\ \A e \in U : txDesc[e] # B
    BY <1>1, <1>5 DEF TxInv, TxMapped, TxTypeOK
  <1>7. \A c \in Bufs : OwnerOf(c) = IF c \notin txBufs THEN "client"
                          ELSE IF \E e \in U : txDesc[e] = c THEN "sent" ELSE "queued"
    BY DEF OwnerOf, U
  <1>8. \A c \in Bufs : OwnerOf(c)' = IF c \notin txBufs THEN "client"
                          ELSE IF \E e \in U \cup {d} : txDesc[e] = c THEN "sent" ELSE "queued"
    BY <1>2, <1>4 DEF OwnerOf
  <1>9. \A c \in Bufs : c = B => OwnerOf(c) = "queued" /\ OwnerOf(c)' = "sent"
    BY <1>6, <1>7, <1>8
  <1>10. \A c \in Bufs : c # B => OwnerOf(c)' = OwnerOf(c)
    BY <1>7, <1>8
  <1> HIDE DEF B
  <1>11. TxOwner' = [TxOwner EXCEPT ![B] = "sent"]
    BY <1>6, <1>9, <1>10 DEF TxOwner
  <1>12. TxOwner[B] = "queued"
    BY <1>6, <1>9 DEF TxOwner
  <1> QED
    BY <1>6, <1>11, <1>12 DEF Pool!Send, B

\* GetStatus returns a buffer that was sent.
LEMMA ReapReturns ==
  ASSUME TxInv, GetStatusTxBuf
  PROVE  UsedBuf \in Bufs /\ Pool!Return(UsedBuf)
  <1> DEFINE U == UsedHeads(txRing, txLastUsed)
             D == UsedDescIdx
             B == txDesc[D]
  <1>1. /\ TxTypeOK /\ txPc = "reap" /\ TxBufReady
        /\ txRing \in VRingType(TxQueueSize, TxHeads, {0}) /\ txHost \in HostType(TxHeads)
        /\ txLastUsed \in Idx
        /\ ChainsPartitioned(txRing, txHost, txLastUsed, TxFree \cup TxInHand, TxHeads)
    BY DEF TxInv, TxChains, TxTypeOK, GetStatusTxBuf
  <1>2. /\ txBufs' = txBufs \ {B} /\ txLastUsed' = IdxAdd(txLastUsed, 1)
        /\ txRing' = txRing /\ txDesc' = txDesc
    BY DEF GetStatusTxBuf, UnmapTxBuf, UsedBuf, NextTxLastUsed
  <1>3. txLastUsed # txRing.usedIdx
    BY <1>1, ReadyMeansReturned
  <1>4. D \in U /\ UsedHeads(txRing', txLastUsed') = U \ {D}
    BY <1>1, <1>2, <1>3, TxSizes, ConsumePartition DEF UsedDescIdx
  <1>5. U \subseteq TxBusy
    BY TxPlaces
  <1> HIDE DEF U, D
  <1>6. B \in txBufs /\ B \in Bufs
    BY <1>1, <1>4, <1>5 DEF TxInv, TxMapped, TxTypeOK
  <1>7. \A c \in Bufs : OwnerOf(c) = IF c \notin txBufs THEN "client"
                          ELSE IF \E e \in U : txDesc[e] = c THEN "sent" ELSE "queued"
    BY DEF OwnerOf, U
  <1>8. \A c \in Bufs : OwnerOf(c)' = IF c \notin txBufs \ {B} THEN "client"
                          ELSE IF \E e \in U \ {D} : txDesc[e] = c THEN "sent" ELSE "queued"
    BY <1>2, <1>4 DEF OwnerOf
  <1>9. \A c \in Bufs : c = B => OwnerOf(c) = "sent" /\ OwnerOf(c)' = "client"
    BY <1>4, <1>6, <1>7, <1>8
  <1>10. \A c \in Bufs : c # B => OwnerOf(c)' = OwnerOf(c)
    BY <1>7, <1>8
  <1> HIDE DEF B
  <1>11. TxOwner' = [TxOwner EXCEPT ![B] = "client"]
    BY <1>6, <1>9, <1>10 DEF TxOwner
  <1>12. TxOwner[B] = "sent"
    BY <1>6, <1>9 DEF TxOwner
  <1>13. UsedBuf = B
    BY DEF UsedBuf, B, D
  <1> QED
    BY <1>6, <1>11, <1>12, <1>13 DEF Pool!Return

\* VirtioNetDxe's transmit side implements TxPool: a buffer is sent once,
\* returned once and only after it was sent, and at most TxMaxPending are away,
\* for every queue size and whatever happens to the notifications.
THEOREM TxRefinesPool == TxSpec => ImplementsTxPool
  <1>1. TxInit => Pool!Init
    BY DEF TxInit, Pool!Init, TxOwner, OwnerOf
  <1>2. TxInv /\ [TxNext]_txVars => [Pool!Next]_TxOwner
    <2> SUFFICES ASSUME TxInv, [TxNext]_txVars PROVE Pool!Next \/ TxOwner' = TxOwner
      OBVIOUS
    <2>1. ASSUME NEW b \in Bufs, Transmit(b) PROVE Pool!Next
      BY <2>1, TransmitQueues DEF Pool!Next
    <2>2. CASE TransmitPublish
      <3>1. txRing \in VRingType(TxQueueSize, TxHeads, {0})
        BY DEF TxInv, TxChains, TxTypeOK
      <3>2. UsedHeads(txRing', txLastUsed') = UsedHeads(txRing, txLastUsed)
        BY <2>2, <3>1 DEF TransmitPublish, UsedHeads, UsedWindow, PublishAvail, VRingType
      <3> QED
        BY <2>2, <3>2, SameOwner DEF TransmitPublish
    <2>3. CASE TransmitNotify \/ TransmitNotifyFails \/ GetStatus \/ GetStatusNone
      BY <2>3, SameOwner DEF TransmitNotify, TransmitNotifyFails, GetStatus, GetStatusNone
    <2>4. CASE GetStatusTxBuf
      BY <2>4, ReapReturns DEF Pool!Next
    <2>5. CASE TxHostFetch \/ TxHostIdle
      BY <2>5, SameOwner DEF TxHostFetch, TxHostIdle
    <2>6. ASSUME NEW d \in TxHeads, TxHostComplete(d) PROVE Pool!Next
      BY <2>6, CompleteSends DEF Pool!Next
    <2>7. CASE UNCHANGED txVars
      BY <2>7, SameOwner DEF txVars
    <2> QED
      BY <2>1, <2>2, <2>3, <2>4, <2>5, <2>6, <2>7
      DEF TxNext, TransmitSteps, GetStatusSteps, TxHostSteps
  <1> QED
    BY <1>1, <1>2, TxInvariant, PTL DEF TxSpec, ImplementsTxPool, Pool!Spec

-----------------------------------------------------------------------------
(***************************************************************************)
(* Receive: every set of packet lengths and any number of packets.  RxInv  *)
(* joins the account of the chains and the order of the packets, each of   *)
(* which needs the other: the host overwrites the part of RxBuf that       *)
(* belongs to the chain it fills, so a waiting packet is intact because    *)
(* its chain is not the host's, and the chain Receive recycles is the      *)
(* right one because the packets wait in order.                            *)
(***************************************************************************)

\* The used index sampled by Receive is one the host has really reached.
RxSampled ==
  rxPc = "check" => Ahead(rxLastUsed, rxSeen) <= Ahead(rxLastUsed, rxRing.usedIdx)

RxInv == RxChains /\ RxSampled /\ DeliveredInOrder

-----------------------------------------------------------------------------
\* The queue has at least one chain and twice as many descriptors as chains.
LEMMA RxSizes ==
  /\ ValidQueueSize(RxQueueSize) /\ RxQueueSize \in Nat /\ IdxMod \in Nat
  /\ RxAlwaysPending \in Nat \ {0} /\ 2 * RxAlwaysPending <= RxQueueSize
  /\ RxAlwaysPending < RxQueueSize /\ RxAlwaysPending < IdxMod
  /\ RxHeads = {2 * i : i \in 0 .. RxAlwaysPending - 1}
  /\ IsFiniteSet(RxHeads) /\ Cardinality(RxHeads) = RxAlwaysPending
  /\ MaxPackets \in Nat /\ Lens \subseteq Nat
  <1>1. /\ ValidQueueSize(RxQueueSize) /\ RxQueueSize \in Nat /\ IdxMod \in Nat
        /\ RxQueueSize >= 2
    BY RxAssumption DEF ValidQueueSize
  <1>2. RxAlwaysPending \in Nat \ {0} /\ 2 * RxAlwaysPending <= RxQueueSize
    BY <1>1, PendingAssumption DEF RxAlwaysPending, PendingLimit
  <1>3. RxAlwaysPending < RxQueueSize /\ RxAlwaysPending < IdxMod
    BY <1>1, <1>2 DEF ValidQueueSize
  <1>4. RxHeads = {2 * i : i \in 0 .. RxAlwaysPending - 1}
    BY DEF RxHeads, ChainHeads, RxAlwaysPending
  <1>5. IsFiniteSet(RxHeads) /\ Cardinality(RxHeads) = RxAlwaysPending
    BY <1>2, <1>4, EvenHeads
  <1> QED
    BY <1>1, <1>2, <1>3, <1>4, <1>5, RxAssumption

\* The facts about the ring that every step starts from.
LEMMA RxRingFacts ==
  ASSUME RxInv
  PROVE  /\ rxRing \in VRingType(RxQueueSize, RxHeads, Lens \cup {0})
         /\ rxHost \in HostType(RxHeads) /\ rxLastUsed \in Idx
         /\ ChainsPartitioned(rxRing, rxHost, rxLastUsed, RxInHand, RxHeads)
         /\ Ahead(rxLastUsed, rxRing.usedIdx) \in Nat
         /\ Ahead(rxHost.idx, rxRing.availIdx) \in Nat
         /\ Ahead(rxHost.idx, rxRing.availIdx) < RxQueueSize
         /\ Ahead(rxHost.idx, rxRing.availIdx) <= RxAlwaysPending
         /\ rxRing.size = RxQueueSize
  <1>1. /\ rxRing \in VRingType(RxQueueSize, RxHeads, Lens \cup {0})
        /\ rxHost \in HostType(RxHeads) /\ rxLastUsed \in Idx
        /\ ChainsPartitioned(rxRing, rxHost, rxLastUsed, RxInHand, RxHeads)
    BY DEF RxInv, RxChains, RxTypeOK
  <1>2. Ahead(rxLastUsed, rxRing.usedIdx) \in Nat /\ Ahead(rxHost.idx, rxRing.availIdx) \in Nat
    BY <1>1, RxSizes, WindowTypes
  <1>3. Ahead(rxHost.idx, rxRing.availIdx) <= Cardinality(RxHeads)
    BY <1>1, RxSizes, PartitionFits
  <1>4. rxRing.size = RxQueueSize
    BY <1>1 DEF VRingType
  <1> QED
    BY <1>1, <1>2, <1>3, <1>4, RxSizes

\* What VirtioNetInitRx has done when it comes to notify the host.
RxReady ==
  /\ rxRing = RxPosted(ZeroRing(RxQueueSize))
  /\ rxHost = IdleHost
  /\ rxKicked \in BOOLEAN
  /\ rxBuf = [d \in RxHeads |-> 0]
  /\ rxLastUsed = 0
  /\ rxPc = "idle"
  /\ rxSeen = 0
  /\ rxCap = 0
  /\ rxSent = << >>
  /\ rxTaken = 0
  /\ rxGot = << >>

\* VirtioNetInitRx posts every chain, and no packet has arrived.
LEMMA RxReadyEstablishes == RxReady => RxInv
  <1> SUFFICES ASSUME RxReady PROVE RxInv
    OBVIOUS
  <1> DEFINE n == RxAlwaysPending
             S == 0 .. RxQueueSize - 1
             f == [i \in S |-> IF i < n THEN 2 * i ELSE 0]
  <1>1. /\ n \in Nat \ {0} /\ n < RxQueueSize /\ n < IdxMod /\ RxQueueSize \in Nat /\ IdxMod \in Nat
        /\ RxQueueSize <= IdxMod
    BY RxSizes DEF ValidQueueSize
  <1>2. 0 \in RxHeads /\ 0 \in Idx /\ n \in Idx /\ \A i \in 0 .. n - 1 : 2 * i \in RxHeads
    BY <1>1, RxSizes DEF Idx
  <1>3. f \in [S -> RxHeads]
    BY <1>1, <1>2
  <1>4. IdxAdd(0, n) = n /\ Ahead(0, n) = n /\ Ahead(0, 0) = 0
    BY <1>1, <1>2, IdxAddCases, AheadCases DEF Idx
  <1>5. rxRing = [ size |-> RxQueueSize, availRing |-> f, availIdx |-> n,
                   usedRing |-> [i \in S |-> [id |-> 0, len |-> 0]], usedIdx |-> 0 ]
    BY <1>4 DEF RxReady, RxPosted, PublishAvail, ZeroRing
  <1> HIDE DEF n, f
  <1>6. RxTypeOK
    <2>1. rxRing \in VRingType(RxQueueSize, RxHeads, Lens \cup {0})
      BY <1>2, <1>3, <1>5 DEF VRingType, UsedElem
    <2>2. rxHost \in HostType(RxHeads)
      BY <1>2 DEF RxReady, IdleHost, HostType
    <2>3. rxBuf \in [RxHeads -> 0 .. MaxPackets] /\ rxTaken \in 0 .. MaxPackets
      BY RxSizes DEF RxReady
    <2>4. rxSent \in Seq(Lens) /\ Len(rxSent) <= MaxPackets /\ rxGot \in Seq(1 .. MaxPackets)
      BY RxSizes DEF RxReady
    <2> QED
      BY <1>2, <2>1, <2>2, <2>3, <2>4 DEF RxTypeOK, RxReady
  <1>7. AvailWindow(rxRing, rxHost) = [k \in 0 .. n - 1 |-> 2 * k]
    <2>1. Ahead(rxHost.idx, rxRing.availIdx) = n /\ rxHost.idx = 0
      BY <1>4, <1>5 DEF RxReady, IdleHost
    <2>2. ASSUME NEW k \in 0 .. n - 1 PROVE rxRing.availRing[IdxAdd(0, k) % rxRing.size] = 2 * k
      <3>1. k \in Nat /\ k < n /\ k \in S /\ k \in Idx
        BY <1>1 DEF Idx
      <3>2. IdxAdd(0, k) = k
        BY <1>1, <1>2, <3>1, IdxAddCases DEF Idx
      <3>3. (k % RxQueueSize) = k
        BY <1>1, <3>1
      <3> QED
        BY <1>5, <3>1, <3>2, <3>3 DEF f
    <2> QED
      BY <2>1, <2>2 DEF AvailWindow
  <1>8. DOMAIN UsedWindow(rxRing, rxLastUsed) = {} /\ Ahead(rxLastUsed, rxRing.usedIdx) = 0
    BY <1>4, <1>5 DEF RxReady, UsedWindow
  <1>9. AvailHeads(rxRing, rxHost) = RxHeads /\ UsedHeads(rxRing, rxLastUsed) = {} /\ rxHost.held = {}
    <2>1. AvailHeads(rxRing, rxHost) = {2 * k : k \in 0 .. n - 1}
      BY <1>7 DEF AvailHeads
    <2> QED
      BY <1>8, <2>1, RxSizes DEF UsedHeads, RxReady, IdleHost, n
  <1>10. RxInHand = {}
    BY DEF RxReady, RxInHand
  <1>11. \A i, j \in 0 .. n - 1 : 2 * i = 2 * j => i = j
    BY <1>1
  <1>12. ChainsPartitioned(rxRing, rxHost, rxLastUsed, RxInHand, RxHeads)
    BY <1>7, <1>8, <1>9, <1>10, <1>11 DEF ChainsPartitioned, HostHeads
  <1>13. RxSampled
    BY DEF RxSampled, RxReady
  <1>14. DeliveredInOrder
    <2>1. WaitingPacketsIntact
      BY <1>8 DEF WaitingPacketsIntact, RxReady
    <2>2. DOMAIN rxGot = {} /\ 1 .. rxTaken = {}
      BY DEF RxReady
    <2> QED
      BY <2>1, <2>2 DEF DeliveredInOrder
  <1> QED
    BY <1>6, <1>12, <1>13, <1>14 DEF RxInv, RxChains

\* The receive side starts out notified.
LEMMA RxInitEstablishes == RxInit => RxInv
  BY RxReadyEstablishes DEF RxInit, RxReady

-----------------------------------------------------------------------------
(* Every step preserves RxInv.                                             *)

\* Receive samples the used index, or returns without touching the queue.
LEMMA ReceiveLooksPreserves ==
  ASSUME RxInv, (\E n \in Lens : Receive(n)) \/ ReceiveNotReady \/ ReceiveTooSmall
  PROVE  RxInv'
  <1>1. /\ rxPc \in {"idle", "check"} /\ rxPc' \in {"idle", "check"}
        /\ rxPc' = "check" => rxSeen' = rxRing.usedIdx
        /\ rxSeen' \in {rxRing.usedIdx, 0} /\ rxCap' \in Lens \cup {0}
        /\ UNCHANGED <<rxRing, rxHost, rxKicked, rxBuf, rxLastUsed, rxSent, rxTaken, rxGot>>
    BY DEF Receive, ReceiveNotReady, ReceiveTooSmall, KeepPacket, ForgetLocals
  <1>2. rxRing.usedIdx \in Idx /\ 0 \in Idx
    BY RxRingFacts, RxSizes DEF VRingType, Idx, ValidQueueSize
  <1>3. RxTypeOK'
    BY <1>1, <1>2 DEF RxInv, RxChains, RxTypeOK
  <1>4. RxInHand' = RxInHand
    BY <1>1 DEF RxInHand
  <1>5. RxSampled'
    BY <1>1, RxRingFacts DEF RxSampled
  <1> QED
    BY <1>1, <1>3, <1>4, <1>5 DEF RxInv, RxChains, DeliveredInOrder, WaitingPacketsIntact

\* Receive consumes an element only where the host has put one.
LEMMA SampledMeansReturned ==
  ASSUME RxInv, rxPc = "check", rxLastUsed # rxSeen
  PROVE  rxLastUsed # rxRing.usedIdx
  <1>1. rxLastUsed \in Idx /\ rxSeen \in Idx /\ rxRing.usedIdx \in Idx /\ IdxMod \in Nat \ {0}
    BY RxSizes DEF RxInv, RxChains, RxTypeOK, VRingType, ValidQueueSize
  <1>2. Ahead(rxLastUsed, rxSeen) <= Ahead(rxLastUsed, rxRing.usedIdx)
    BY DEF RxInv, RxSampled
  <1>3. Ahead(rxLastUsed, rxSeen) # 0
    BY <1>1, AheadType
  <1>4. Ahead(rxLastUsed, rxRing.usedIdx) # 0
    <2>1. Ahead(rxLastUsed, rxSeen) \in Nat /\ Ahead(rxLastUsed, rxRing.usedIdx) \in Nat
      BY <1>1, RxSizes, RingIndex
    <2> QED
      BY <1>2, <1>3, <2>1
  <1> QED
    BY <1>1, <1>4, AheadType

\* RecycleDesc moves one chain from the used ring to the slot that is published
\* next; the element consumed is the packet after the last one taken.
LEMMA RecycleKeepsChains ==
  ASSUME RxInv, rxPc = "check", rxLastUsed # rxSeen, RecycleDesc, ForgetLocals,
         UNCHANGED <<rxHost, rxKicked, rxBuf, rxSent>>, rxGot' \in Seq(1 .. MaxPackets)
  PROVE  /\ RxChains' /\ RxSampled' /\ WaitingPacketsIntact'
         /\ rxTaken \in Nat /\ rxTaken' = rxTaken + 1 /\ rxTaken + 1 \in 1 .. MaxPackets
         /\ rxBuf[RxElem.id] = rxTaken + 1 /\ rxSent[rxTaken + 1] = RxElem.len
         /\ RxElem.len \in Nat
  <1> DEFINE D == RxElem.id
             L == Lens \cup {0}
             n == Ahead(rxLastUsed, rxRing.usedIdx)
             u == UsedWindow(rxRing, rxLastUsed)
             s == PutAvail(rxRing, D)
  <1>1. /\ rxRing \in VRingType(RxQueueSize, RxHeads, L)
        /\ rxHost \in HostType(RxHeads) /\ rxLastUsed \in Idx
        /\ ChainsPartitioned(rxRing, rxHost, rxLastUsed, RxInHand, RxHeads)
        /\ Ahead(rxHost.idx, rxRing.availIdx) < RxQueueSize
        /\ rxRing.size = RxQueueSize
    BY RxRingFacts
  <1>2. /\ rxLastUsed' = IdxAdd(rxLastUsed, 1) /\ rxRing' = s /\ rxTaken' = rxTaken + 1
        /\ rxPc' = "publish" /\ rxSeen' = 0 /\ rxCap' = 0
        /\ UNCHANGED <<rxHost, rxKicked, rxBuf, rxSent>>
    BY DEF RecycleDesc, NextRxLastUsed, RxDescIdx, ForgetLocals
  <1>3. rxLastUsed # rxRing.usedIdx
    BY SampledMeansReturned
  <1>4. /\ D \in RxHeads
        /\ ChainsPartitioned(rxRing, rxHost, IdxAdd(rxLastUsed, 1), RxInHand \cup {D}, RxHeads)
    <2>1. ValidQueueSize(RxQueueSize) /\ D = NextUsed(rxRing, rxLastUsed).id
      BY RxSizes DEF RxElem
    <2> HIDE DEF D, L
    <2>2. /\ NextUsed(rxRing, rxLastUsed).id \in RxHeads
          /\ ChainsPartitioned(rxRing, rxHost, IdxAdd(rxLastUsed, 1),
                               RxInHand \cup {NextUsed(rxRing, rxLastUsed).id}, RxHeads)
      BY <1>1, <1>3, <2>1, ConsumePartition
    <2> QED
      BY <2>1, <2>2
  <1>5. /\ n \in Nat \ {0} /\ IdxAdd(rxLastUsed, 1) \in Idx
        /\ Ahead(IdxAdd(rxLastUsed, 1), rxRing.usedIdx) = n - 1
        /\ u[0] = RxElem /\ RxElem \in UsedElem(RxHeads, L)
        /\ UsedWindow(rxRing, IdxAdd(rxLastUsed, 1)) = [k \in 0 .. n - 2 |-> u[k + 1]]
    BY <1>1, <1>3, RxSizes, ConsumeWindows DEF RxElem
  <1> HIDE DEF D, L
  <1>6. /\ s \in VRingType(RxQueueSize, RxHeads, L)
        /\ s.availIdx = rxRing.availIdx /\ s.availRing[rxRing.availIdx % RxQueueSize] = D
        /\ s.usedRing = rxRing.usedRing /\ s.usedIdx = rxRing.usedIdx
    BY <1>1, <1>4, RxSizes, PutAvailWindows
  <1>7. ChainsPartitioned(s, rxHost, IdxAdd(rxLastUsed, 1), RxInHand \cup {D}, RxHeads)
    BY <1>1, <1>4, <1>5, RxSizes, PutAvailPartition
  <1> HIDE DEF s
  <1>8. s.size = RxQueueSize
    BY <1>6 DEF VRingType
  <1>9. RxInHand' = RxInHand \cup {D}
    BY <1>2, <1>6, <1>8 DEF RxInHand
  <1>10. ChainsPartitioned(rxRing', rxHost', rxLastUsed', RxInHand', RxHeads)
    BY <1>2, <1>7, <1>9
  <1>11. /\ rxTaken \in Nat /\ rxTaken + n = Len(rxSent) /\ Len(rxSent) <= MaxPackets
         /\ rxTaken + 1 \in 1 .. MaxPackets /\ Len(rxSent) \in Nat
         /\ \A k \in 0 .. n - 1 : rxBuf[u[k].id] = rxTaken + k + 1 /\ rxSent[rxTaken + k + 1] = u[k].len
    <2>1. rxTaken \in Nat /\ rxSent \in Seq(Lens) /\ Len(rxSent) <= MaxPackets
      BY RxSizes DEF RxInv, RxChains, RxTypeOK
    <2>2. /\ rxTaken + n = Len(rxSent)
          /\ \A k \in 0 .. n - 1 : rxBuf[u[k].id] = rxTaken + k + 1 /\ rxSent[rxTaken + k + 1] = u[k].len
      BY DEF RxInv, DeliveredInOrder, WaitingPacketsIntact, UsedWindow
    <2> HIDE DEF n, u
    <2>3. rxTaken + 1 \in 1 .. MaxPackets /\ Len(rxSent) \in Nat
      BY <1>5, <2>1, <2>2, RxSizes
    <2> QED
      BY <2>1, <2>2, <2>3
  <1>12. RxTypeOK'
    <2>1. rxTaken' \in 0 .. MaxPackets /\ 0 \in Idx
      BY <1>2, <1>11, RxSizes DEF Idx, ValidQueueSize
    <2> QED
      BY <1>2, <1>5, <1>6, <2>1 DEF RxInv, RxChains, RxTypeOK, L
  <1>13. RxSampled'
    BY <1>2 DEF RxSampled
  <1>14. WaitingPacketsIntact'
    <2>1. UsedWindow(s, IdxAdd(rxLastUsed, 1)) = [k \in 0 .. n - 2 |-> u[k + 1]]
      BY <1>1, <1>5, <1>6, <1>8 DEF UsedWindow
    <2>2. Ahead(rxLastUsed', rxRing'.usedIdx) = n - 1
      BY <1>2, <1>5, <1>6
    <2>3. rxTaken' + (n - 1) = Len(rxSent)
      BY <1>2, <1>5, <1>11
    <2> HIDE DEF n, u
    <2>4. ASSUME NEW k \in 0 .. n - 2
          PROVE  rxBuf[u[k + 1].id] = rxTaken' + k + 1 /\ rxSent[rxTaken' + k + 1] = u[k + 1].len
      <3>1. k + 1 \in 0 .. n - 1
        BY <1>5
      <3>2. rxTaken' + k + 1 = rxTaken + (k + 1) + 1
        BY <1>2, <1>11
      <3> QED
        BY <1>11, <3>1, <3>2
    <2>5. UsedWindow(rxRing', rxLastUsed') = [k \in 0 .. n - 2 |-> u[k + 1]]
      BY <1>2, <2>1
    <2>6. rxTaken' + Ahead(rxLastUsed', rxRing'.usedIdx) = Len(rxSent')
      BY <1>2, <2>2, <2>3
    <2> QED
      BY <1>2, <2>4, <2>5, <2>6 DEF WaitingPacketsIntact
  <1>15. rxBuf[D] = rxTaken + 1 /\ rxSent[rxTaken + 1] = RxElem.len
    <2>1. 0 \in 0 .. n - 1 /\ rxTaken + 0 + 1 = rxTaken + 1
      BY <1>5, <1>11
    <2> HIDE DEF n, u
    <2> QED
      BY <1>5, <1>11, <2>1 DEF D
  <1>16. RxElem.len \in Nat
    BY <1>5, RxSizes DEF UsedElem, L
  <1> QED
    BY <1>2, <1>10, <1>11, <1>12, <1>13, <1>14, <1>15, <1>16 DEF RxChains, D

\* A packet shorter than the media header is dropped.
LEMMA ReceiveShortPreserves ==
  ASSUME RxInv, ReceiveShort
  PROVE  RxInv'
  <1>1. /\ rxPc = "check" /\ rxLastUsed # rxSeen /\ RecycleDesc /\ ForgetLocals
        /\ RxElem.len < MediaHeaderSize
        /\ UNCHANGED <<rxHost, rxKicked, rxBuf, rxSent, rxGot>>
    BY DEF ReceiveShort, DropPacket
  <1>2. rxGot' \in Seq(1 .. MaxPackets)
    BY <1>1 DEF RxInv, RxChains, RxTypeOK
  <1>3. /\ RxChains' /\ RxSampled' /\ WaitingPacketsIntact'
        /\ rxTaken \in Nat /\ rxTaken' = rxTaken + 1
        /\ rxSent[rxTaken + 1] = RxElem.len /\ RxElem.len \in Nat
    BY <1>1, <1>2, RecycleKeepsChains
  <1> DEFINE long(i) == rxSent[i] >= MediaHeaderSize
  <1>4. ~long(rxTaken + 1)
    BY <1>1, <1>3 DEF MediaHeaderSize
  <1> HIDE DEF long
  <1>5. 1 .. rxTaken' = (1 .. rxTaken) \cup {rxTaken + 1}
    BY <1>3
  <1>6. {i \in 1 .. rxTaken' : long(i)} = {i \in 1 .. rxTaken : long(i)}
    BY <1>4, <1>5
  <1>7. DeliveredInOrder'
    BY <1>1, <1>3, <1>6 DEF DeliveredInOrder, RxInv, long
  <1> QED
    BY <1>3, <1>7 DEF RxInv

\* A packet that is copied is the next one, and is copied once.
LEMMA ReceiveCopyPreserves ==
  ASSUME RxInv, ReceiveCopy
  PROVE  RxInv'
  <1> DEFINE t == rxTaken + 1
  <1>1. /\ rxPc = "check" /\ rxLastUsed # rxSeen /\ RecycleDesc /\ ForgetLocals
        /\ RxElem.len >= MediaHeaderSize /\ rxGot' = Append(rxGot, rxBuf[RxElem.id])
        /\ UNCHANGED <<rxHost, rxKicked, rxBuf, rxSent>>
    BY DEF ReceiveCopy, CopiedPacket
  <1>2. /\ rxGot \in Seq(1 .. MaxPackets) /\ DeliveredInOrder /\ WaitingPacketsIntact
        /\ rxTaken \in 0 .. MaxPackets
    BY DEF RxInv, RxChains, RxTypeOK, DeliveredInOrder
  <1>3. rxBuf[RxElem.id] = t /\ t \in 1 .. MaxPackets
    <2>1. rxLastUsed # rxRing.usedIdx
      BY <1>1, SampledMeansReturned
    <2>2. /\ Ahead(rxLastUsed, rxRing.usedIdx) \in Nat \ {0}
          /\ UsedWindow(rxRing, rxLastUsed)[0] = RxElem
      BY <2>1, RxRingFacts, RxSizes, ConsumeWindows DEF RxElem
    <2>3. 0 \in DOMAIN UsedWindow(rxRing, rxLastUsed)
      BY <2>2 DEF UsedWindow
    <2>4. rxBuf[RxElem.id] = rxTaken + 0 + 1
      BY <1>2, <2>2, <2>3 DEF WaitingPacketsIntact
    <2>5. rxTaken + Ahead(rxLastUsed, rxRing.usedIdx) <= MaxPackets
      BY <1>2 DEF WaitingPacketsIntact, RxInv, RxChains, RxTypeOK
    <2> QED
      BY <1>2, <2>2, <2>4, <2>5, RxSizes
  <1>4. rxGot' \in Seq(1 .. MaxPackets)
    BY <1>1, <1>2, <1>3
  <1>5. /\ RxChains' /\ RxSampled' /\ WaitingPacketsIntact'
        /\ rxTaken \in Nat /\ rxTaken' = t
        /\ rxSent[t] = RxElem.len /\ RxElem.len \in Nat
    BY <1>1, <1>4, RecycleKeepsChains
  <1> DEFINE long(i) == rxSent[i] >= MediaHeaderSize
             m == Len(rxGot)
  <1>6. long(t)
    BY <1>1, <1>5
  <1>7. /\ {rxGot[k] : k \in 1 .. m} = {i \in 1 .. rxTaken : long(i)}
        /\ \A j, k \in 1 .. m : j < k => rxGot[j] < rxGot[k]
        /\ m \in Nat
    BY <1>2 DEF DeliveredInOrder
  <1>8. \A k \in 1 .. m : rxGot[k] \in 1 .. rxTaken
    BY <1>7
  <1>9. /\ DOMAIN rxGot' = 1 .. m + 1 /\ rxGot'[m + 1] = t
        /\ \A k \in 1 .. m : rxGot'[k] = rxGot[k]
    BY <1>1, <1>2, <1>3
  <1> HIDE DEF long, m, t
  <1>10. /\ 1 .. m + 1 = (1 .. m) \cup {m + 1}
         /\ 1 .. t = (1 .. rxTaken) \cup {t}
         /\ \A j \in 1 .. m : ~(m + 1 < j)
         /\ ~(m + 1 < m + 1)
         /\ \A i \in 1 .. rxTaken : i < t
    BY <1>5, <1>7 DEF t
  <1>11. {rxGot'[k] : k \in 1 .. m + 1} = {i \in 1 .. t : long(i)}
    <2>1. {rxGot'[k] : k \in 1 .. m + 1} = {rxGot[k] : k \in 1 .. m} \cup {t}
      BY <1>9, <1>10
    <2>2. {i \in 1 .. t : long(i)} = {i \in 1 .. rxTaken : long(i)} \cup {t}
      BY <1>6, <1>10
    <2> QED
      BY <1>7, <2>1, <2>2
  <1>12. \A j, k \in 1 .. m + 1 : j < k => rxGot'[j] < rxGot'[k]
    <2> SUFFICES ASSUME NEW j \in 1 .. m + 1, NEW k \in 1 .. m + 1, j < k
                 PROVE  rxGot'[j] < rxGot'[k]
      OBVIOUS
    <2>1. j \in 1 .. m
      BY <1>10
    <2>2. CASE k = m + 1
      BY <1>8, <1>9, <1>10, <2>1, <2>2
    <2>3. CASE k \in 1 .. m
      BY <1>7, <1>9, <2>1, <2>3
    <2> QED
      BY <1>10, <2>2, <2>3
  <1>13. DeliveredInOrder'
    BY <1>1, <1>5, <1>9, <1>11, <1>12 DEF DeliveredInOrder, long
  <1> QED
    BY <1>5, <1>13 DEF RxInv

\* The recycled chain is published, and the host notified or not.
LEMMA ReceivePublishPreserves ==
  ASSUME RxInv, ReceivePublish \/ ReceiveNotify \/ ReceiveNotifyFails
  PROVE  RxInv'
  <1>1. CASE ReceivePublish
    <2> DEFINE x == rxRing.availRing[rxRing.availIdx % RxQueueSize]
               L == Lens \cup {0}
    <2>1. /\ rxPc = "publish" /\ rxPc' = "notify" /\ rxRing' = PublishAvail(rxRing, 1)
          /\ UNCHANGED <<rxHost, rxKicked, rxBuf, rxLastUsed, rxSeen, rxCap, rxSent, rxTaken, rxGot>>
      BY <1>1 DEF ReceivePublish
    <2>2. RxInHand = {} \cup {x} /\ RxInHand' = {}
      BY <2>1, RxRingFacts DEF RxInHand
    <2>3. x \in RxHeads
      BY <2>2, RxRingFacts DEF ChainsPartitioned
    <2>4. Ahead(rxHost.idx, rxRing.availIdx) + 1 < IdxMod
      <3>1. RxInHand # {}
        BY <2>2
      <3>2. Ahead(rxHost.idx, rxRing.availIdx) < Cardinality(RxHeads)
        BY <3>1, RxRingFacts, RxSizes, PartitionFits
      <3> QED
        BY <3>2, RxRingFacts, RxSizes
    <2>5. /\ PublishAvail(rxRing, 1) \in VRingType(RxQueueSize, RxHeads, L)
          /\ PublishAvail(rxRing, 1).usedRing = rxRing.usedRing
          /\ PublishAvail(rxRing, 1).usedIdx = rxRing.usedIdx
      BY <2>4, RxRingFacts, RxSizes, PublishWindows
    <2>6. ChainsPartitioned(PublishAvail(rxRing, 1), rxHost, rxLastUsed, {}, RxHeads)
      <3> DEFINE mine == {}
      <3>1. x \notin mine /\ ChainsPartitioned(rxRing, rxHost, rxLastUsed, mine \cup {x}, RxHeads)
        BY <2>2, RxRingFacts
      <3> HIDE DEF mine, x
      <3>2. x = rxRing.availRing[rxRing.availIdx % RxQueueSize]
        BY DEF x
      <3>3. ChainsPartitioned(PublishAvail(rxRing, 1), rxHost, rxLastUsed, mine, RxHeads)
        BY <2>3, <2>4, <3>1, <3>2, RxRingFacts, RxSizes, PublishPartition
      <3> QED
        BY <3>3 DEF mine
    <2>7. RxTypeOK'
      BY <2>1, <2>5 DEF RxInv, RxChains, RxTypeOK
    <2>8. RxChains' /\ RxSampled'
      BY <2>1, <2>2, <2>6, <2>7 DEF RxChains, RxSampled
    <2>9. rxRing'.size = rxRing.size
      BY <2>1, <2>5, RxRingFacts DEF VRingType
    <2>10. UsedWindow(rxRing', rxLastUsed') = UsedWindow(rxRing, rxLastUsed)
      BY <2>1, <2>5, <2>9 DEF UsedWindow
    <2>11. DeliveredInOrder'
      BY <2>1, <2>5, <2>10 DEF RxInv, DeliveredInOrder, WaitingPacketsIntact
    <2> QED
      BY <2>8, <2>11 DEF RxInv
  <1>2. CASE ReceiveNotify \/ ReceiveNotifyFails
    <2>1. /\ rxPc = "notify" /\ rxPc' = "idle" /\ rxKicked' \in BOOLEAN
          /\ UNCHANGED <<rxRing, rxHost, rxBuf, rxLastUsed, rxSeen, rxCap, rxSent, rxTaken, rxGot>>
      BY <1>2 DEF ReceiveNotify, ReceiveNotifyFails, NotifyRx, RxInv, RxChains, RxTypeOK
    <2>2. RxTypeOK'
      BY <2>1 DEF RxInv, RxChains, RxTypeOK
    <2>3. RxInHand' = RxInHand
      BY <2>1 DEF RxInHand
    <2> QED
      BY <2>1, <2>2, <2>3 DEF RxInv, RxChains, RxSampled, DeliveredInOrder, WaitingPacketsIntact
  <1> QED
    BY <1>1, <1>2

\* The host fills a chain it holds: no waiting packet is overwritten, and the
\* new one waits behind the others.
LEMMA RxHostFillPreserves ==
  ASSUME RxInv, NEW d \in RxHeads, NEW len \in Lens, RxHostFill(d, len)
  PROVE  RxInv'
  <1> DEFINE n == Ahead(rxLastUsed, rxRing.usedIdx)
             u == UsedWindow(rxRing, rxLastUsed)
             v == UsedWindow(rxRing', rxLastUsed')
             L == Lens \cup {0}
             p == Len(rxSent) + 1
  <1>1. /\ d \in rxHost.held /\ Len(rxSent) < MaxPackets /\ rxSent' = Append(rxSent, len)
        /\ rxBuf' = [rxBuf EXCEPT ![d] = p] /\ rxRing' = PutUsed(rxRing, d, len)
        /\ rxHost' = HostRelease(rxHost, d)
        /\ UNCHANGED <<rxKicked, rxLastUsed, rxPc, rxSeen, rxCap, rxTaken, rxGot>>
    BY DEF RxHostFill
  <1>2. n \in Nat /\ n < RxQueueSize /\ n + 1 < IdxMod
    <2>1. rxHost.held # {}
      BY <1>1
    <2>2. n < Cardinality(RxHeads)
      BY <2>1, RxRingFacts, RxSizes, PartitionFits
    <2> QED
      BY <2>2, RxRingFacts, RxSizes
  <1>3. len \in L /\ d \in RxHeads /\ ValidQueueSize(RxQueueSize)
    BY RxSizes
  <1>4. /\ rxRing' \in VRingType(RxQueueSize, RxHeads, L)
        /\ rxRing'.availRing = rxRing.availRing /\ rxRing'.availIdx = rxRing.availIdx
        /\ rxRing'.usedIdx = IdxAdd(rxRing.usedIdx, 1)
        /\ UsedWindow(rxRing', rxLastUsed) =
             [k \in 0 .. n |-> IF k < n THEN u[k] ELSE [id |-> d, len |-> len]]
    <2> HIDE DEF n, L
    <2>1. Ahead(rxLastUsed, rxRing.usedIdx) < RxQueueSize /\ Ahead(rxLastUsed, rxRing.usedIdx) + 1 < IdxMod
      BY <1>2 DEF n
    <2>2. rxRing \in VRingType(RxQueueSize, RxHeads, L) /\ rxLastUsed \in Idx
      BY RxRingFacts DEF L
    <2>3. /\ PutUsed(rxRing, d, len) \in VRingType(RxQueueSize, RxHeads, L)
          /\ PutUsed(rxRing, d, len).availRing = rxRing.availRing
          /\ PutUsed(rxRing, d, len).availIdx = rxRing.availIdx
          /\ PutUsed(rxRing, d, len).usedIdx = IdxAdd(rxRing.usedIdx, 1)
      BY <1>3, <2>1, <2>2, PutUsedWindows
    <2>4. UsedWindow(PutUsed(rxRing, d, len), rxLastUsed) =
             [k \in 0 .. n |-> IF k < n THEN u[k] ELSE [id |-> d, len |-> len]]
      BY <1>3, <2>1, <2>2, PutUsedWindows DEF n
    <2> QED
      BY <1>1, <2>3, <2>4
  <1>5. /\ rxHost' \in HostType(RxHeads)
        /\ ChainsPartitioned(rxRing', rxHost', rxLastUsed, RxInHand, RxHeads)
    <2>1. /\ HostRelease(rxHost, d) \in HostType(RxHeads)
          /\ ChainsPartitioned(PutUsed(rxRing, d, len), HostRelease(rxHost, d), rxLastUsed, RxInHand, RxHeads)
      BY <1>1, <1>2, <1>3, RxRingFacts, PutUsedPartition
    <2> QED
      BY <1>1, <2>1
  <1>6. RxInHand' = RxInHand
    <2>1. rxRing'.size = rxRing.size
      BY <1>4, RxRingFacts DEF VRingType
    <2> QED
      BY <1>1, <1>4, <2>1 DEF RxInHand
  <1>7. /\ rxSent \in Seq(Lens) /\ Len(rxSent) \in Nat /\ rxTaken \in Nat
        /\ rxBuf \in [RxHeads -> 0 .. MaxPackets] /\ p \in 0 .. MaxPackets
    BY <1>1, RxSizes DEF RxInv, RxChains, RxTypeOK
  <1>8. /\ rxSent' \in Seq(Lens) /\ Len(rxSent') = p /\ rxSent'[p] = len
        /\ \A i \in 1 .. Len(rxSent) : rxSent'[i] = rxSent[i]
    BY <1>1, <1>7
  <1>9. RxTypeOK'
    <2>1. rxBuf' \in [RxHeads -> 0 .. MaxPackets] /\ Len(rxSent') <= MaxPackets
      BY <1>1, <1>7, <1>8, RxSizes
    <2> QED
      BY <1>1, <1>4, <1>5, <1>8, <2>1 DEF RxInv, RxChains, RxTypeOK
  <1>10. RxChains'
    BY <1>1, <1>5, <1>6, <1>9 DEF RxChains
  <1>11. Ahead(rxLastUsed', rxRing'.usedIdx) = n + 1
    <2>1. rxRing.usedIdx \in Idx /\ IdxMod \in Nat \ {0} /\ rxLastUsed \in Idx
      BY RxRingFacts, RxSizes DEF VRingType, ValidQueueSize
    <2> QED
      BY <1>1, <1>2, <1>4, <2>1, AheadAdd
  <1>12. RxSampled'
    <2>1. rxSeen \in Idx /\ Ahead(rxLastUsed, rxSeen) \in Nat
      BY RxRingFacts, RxSizes, RingIndex DEF RxInv, RxChains, RxTypeOK
    <2>2. rxPc = "check" => Ahead(rxLastUsed, rxSeen) <= n + 1
      BY <1>2, <2>1 DEF RxInv, RxSampled
    <2> QED
      BY <1>1, <1>11, <2>2 DEF RxSampled
  <1>13. /\ rxTaken + n = Len(rxSent)
         /\ \A k \in 0 .. n - 1 : rxBuf[u[k].id] = rxTaken + k + 1 /\ rxSent[rxTaken + k + 1] = u[k].len
    BY DEF RxInv, DeliveredInOrder, WaitingPacketsIntact, UsedWindow
  <1>14. \A k \in 0 .. n - 1 : u[k].id # d
    <2>1. d \notin UsedHeads(rxRing, rxLastUsed)
      BY <1>1, RxRingFacts DEF ChainsPartitioned
    <2>2. DOMAIN UsedWindow(rxRing, rxLastUsed) = 0 .. n - 1
      BY DEF UsedWindow
    <2> HIDE DEF n
    <2> QED
      BY <2>1, <2>2 DEF UsedHeads
  <1>15. \A k \in 0 .. n - 1 : u[k].id \in RxHeads
    <2>1. u \in [0 .. n - 1 -> UsedElem(RxHeads, L)]
      BY RxRingFacts, RxSizes, WindowTypes
    <2> HIDE DEF n, u, L
    <2> QED
      BY <2>1 DEF UsedElem
  <1> HIDE DEF n, u, L
  <1>16. WaitingPacketsIntact'
    <2>1. v = [k \in 0 .. n |-> IF k < n THEN u[k] ELSE [id |-> d, len |-> len]]
      BY <1>1, <1>4
    <2>2. rxTaken' + Ahead(rxLastUsed', rxRing'.usedIdx) = Len(rxSent')
      BY <1>1, <1>2, <1>7, <1>8, <1>11, <1>13
    <2>3. ASSUME NEW k \in 0 .. n
          PROVE  rxBuf'[v[k].id] = rxTaken + k + 1 /\ rxSent'[rxTaken + k + 1] = v[k].len
      <3>1. CASE k = n
        <4>1. v[k] = [id |-> d, len |-> len] /\ rxTaken + k + 1 = p
          BY <1>2, <1>7, <1>13, <2>1, <3>1
        <4>2. rxBuf'[d] = p
          BY <1>1, <1>7
        <4> HIDE DEF v
        <4> QED
          BY <1>8, <4>1, <4>2
      <3>2. CASE k # n
        <4>1. k \in 0 .. n - 1 /\ k < n
          BY <1>2, <3>2
        <4>2. v[k] = u[k]
          BY <2>1, <4>1
        <4>3. rxBuf'[u[k].id] = rxBuf[u[k].id]
          BY <1>1, <1>7, <1>14, <1>15, <4>1
        <4>4. rxTaken + k + 1 \in 1 .. Len(rxSent)
          BY <1>2, <1>7, <1>13, <4>1
        <4> HIDE DEF v
        <4> QED
          BY <1>8, <1>13, <4>1, <4>2, <4>3, <4>4
      <3> QED
        BY <3>1, <3>2
    <2>4. DOMAIN v = 0 .. n
      BY <2>1
    <2>5. \A k \in DOMAIN v : rxBuf'[v[k].id] = rxTaken' + k + 1 /\ rxSent'[rxTaken' + k + 1] = v[k].len
      BY <1>1, <2>3, <2>4
    <2> QED
      BY <2>2, <2>5 DEF WaitingPacketsIntact
  <1>17. DeliveredInOrder'
    <2> DEFINE long(i) == rxSent[i] >= MediaHeaderSize
               lonh(i) == rxSent'[i] >= MediaHeaderSize
    <2>1. \A i \in 1 .. rxTaken : i \in 1 .. Len(rxSent)
      BY <1>2, <1>7, <1>13
    <2>2. \A i \in 1 .. rxTaken : lonh(i) <=> long(i)
      BY <1>8, <2>1
    <2> HIDE DEF long, lonh
    <2>3. {i \in 1 .. rxTaken : lonh(i)} = {i \in 1 .. rxTaken : long(i)}
      BY <2>2
    <2> QED
      BY <1>1, <1>16, <2>3 DEF RxInv, DeliveredInOrder, long, lonh
  <1> QED
    BY <1>10, <1>12, <1>17 DEF RxInv

\* The host fetches a chain or goes idle: packets and buffers stay as they are.
LEMMA RxHostLooksPreserves ==
  ASSUME RxInv, RxHostFetch \/ RxHostIdle
  PROVE  RxInv'
  <1>1. /\ UNCHANGED <<rxRing, rxBuf, rxLastUsed, rxPc, rxSeen, rxCap, rxSent, rxTaken, rxGot>>
        /\ rxKicked' \in BOOLEAN
    BY DEF RxHostFetch, RxHostIdle, RxInv, RxChains, RxTypeOK
  <1>2. rxHost' \in HostType(RxHeads) /\ ChainsPartitioned(rxRing, rxHost', rxLastUsed, RxInHand, RxHeads)
    <2>1. CASE RxHostFetch
      <3>1. HostCanFetch(rxRing, rxHost) /\ rxHost' = HostFetch(rxRing, rxHost)
        BY <2>1 DEF RxHostFetch
      <3>2. HostFetch(rxRing, rxHost) \in HostType(RxHeads)
        BY <3>1, RxRingFacts, RxSizes, FetchWindows
      <3>3. ChainsPartitioned(rxRing, HostFetch(rxRing, rxHost), rxLastUsed, RxInHand, RxHeads)
        BY <3>1, RxRingFacts, RxSizes, FetchPartition
      <3> QED
        BY <3>1, <3>2, <3>3
    <2>2. CASE RxHostIdle
      BY <2>2, RxRingFacts DEF RxHostIdle
    <2> QED
      BY <2>1, <2>2
  <1>3. RxTypeOK'
    BY <1>1, <1>2 DEF RxInv, RxChains, RxTypeOK
  <1>4. RxInHand' = RxInHand
    BY <1>1 DEF RxInHand
  <1> QED
    BY <1>1, <1>2, <1>3, <1>4 DEF RxInv, RxChains, RxSampled, DeliveredInOrder, WaitingPacketsIntact

-----------------------------------------------------------------------------
(* The theorems.                                                           *)

\* RxInv is inductive.
LEMMA RxStepPreserves == RxInv /\ [RxNext]_rxVars => RxInv'
  <1> SUFFICES ASSUME RxInv, [RxNext]_rxVars PROVE RxInv'
    OBVIOUS
  <1>1. CASE (\E n \in Lens : Receive(n)) \/ ReceiveNotReady \/ ReceiveTooSmall
    BY <1>1, ReceiveLooksPreserves
  <1>2. CASE ReceiveShort
    BY <1>2, ReceiveShortPreserves
  <1>3. CASE ReceiveCopy
    BY <1>3, ReceiveCopyPreserves
  <1>4. CASE ReceivePublish \/ ReceiveNotify \/ ReceiveNotifyFails
    BY <1>4, ReceivePublishPreserves
  <1>5. ASSUME NEW d \in RxHeads, NEW n \in Lens, RxHostFill(d, n) PROVE RxInv'
    BY <1>5, RxHostFillPreserves
  <1>6. CASE RxHostFetch \/ RxHostIdle
    BY <1>6, RxHostLooksPreserves
  <1>7. CASE UNCHANGED rxVars
    <2>1. RxTypeOK' /\ RxInHand' = RxInHand
      BY <1>7 DEF RxInv, RxChains, RxTypeOK, RxInHand, rxVars
    <2> QED
      BY <1>7, <2>1 DEF RxInv, RxChains, RxSampled, DeliveredInOrder, WaitingPacketsIntact, rxVars
  <1> QED
    BY <1>1, <1>2, <1>3, <1>4, <1>5, <1>6, <1>7 DEF RxNext, ReceiveSteps, RxHostSteps

\* RxInv holds throughout, in whatever order Receive and the host run.
THEOREM RxInvariant == RxSpec => []RxInv
  BY RxInitEstablishes, RxStepPreserves, PTL DEF RxSpec

\* Receive buffers are never leaked and never posted twice, for every queue size.
THEOREM RxChainsAccounted == RxSpec => []RxChains
  <1>1. RxInv => RxChains
    BY DEF RxInv
  <1> QED
    BY <1>1, RxInvariant, PTL

\* Every packet reaches the client once, in order and intact, unless it is
\* shorter than the media header.
THEOREM RxDeliversInOrder == RxSpec => []DeliveredInOrder
  <1>1. RxInv => DeliveredInOrder
    BY DEF RxInv
  <1> QED
    BY <1>1, RxInvariant, PTL
=============================================================================
