------------------------------ MODULE VirtioNet ------------------------------
(***************************************************************************)
(* The whole of VirtioNetDxe: the life cycle (VirtioNetLife) composed with *)
(* the transmit and the receive side (VirtioNetTx, VirtioNetRx) over one   *)
(* device.                                                                 *)
(*                                                                         *)
(*   - An SNP function runs at TPL_CALLBACK, so one starts only when no    *)
(*     other function of the driver is running.                            *)
(*   - The host works on the queues while DRIVER_OK is set, and forgets    *)
(*     them when the status register is set to zero.                       *)
(*   - Initialize, Shutdown and their error paths create and destroy the   *)
(*     state that the data path uses.                                      *)
(*                                                                         *)
(* Buffers still queued when the interface is shut down are unmapped by    *)
(* VirtioNetShutdownTx and belong to the client again.  The packet         *)
(* numbers of the receive side start anew with every receive ring.         *)
(***************************************************************************)
EXTENDS VirtioNetLife, VirtioNetTx, VirtioNetRx

vars == <<lifeVars, txVars, rxVars>>

Running == "DRIVER_OK" \in devStatus

\* No data-path function is in the middle of its work.
DataIdle == txPc = "idle" /\ rxPc = "idle"

\* An SNP data-path function may be entered.
Callable == pc = "idle" /\ ~exited /\ snpState = "Initialized" /\ DataIdle

-----------------------------------------------------------------------------
(* Before the first Initialize there is no ring and no buffer.             *)

NetInit ==
  /\ LifeInit
  /\ TxInit
  /\ rxRing = ZeroRing(RxQueueSize)
  /\ rxHost = IdleHost
  /\ rxKicked = FALSE
  /\ rxBuf = [d \in RxHeads |-> 0]
  /\ rxLastUsed = 0
  /\ rxPc = "idle"
  /\ rxSeen = 0
  /\ rxCap = 0
  /\ rxSent = << >>
  /\ rxTaken = 0
  /\ rxGot = << >>

-----------------------------------------------------------------------------
(* What a life-cycle step does to the state of the data path.              *)

\* Writing zero to the status register makes the host drop everything.
HostAfter(h) == IF devStatus' = {} THEN IdleHost ELSE h

\* VirtioRingUninit zeroes the VRING; VirtioRingInit zeroes new pages.
TxRingEffect ==
  /\ txRing' = IF held'["txRing"] = 0 THEN ZeroRing(TxQueueSize) ELSE txRing
  /\ txDesc' = IF held'["txRing"] = 0 THEN [d \in TxHeads |-> NoBuf] ELSE txDesc
  /\ txHost' = HostAfter(txHost)
  /\ txKicked' = (txKicked /\ devStatus' # {})

\* Mutant: VirtioNetInitTx does not set TxLastUsed.
TxStateEffect_StaleIndex ==
  /\ IF pc = "TxSharedReqMap" /\ pc' = "RxBuffer"
     THEN /\ txFreeStack' = InitialFreeStack
          /\ txCurPending' = 0
          /\ txLastUsed' = txLastUsed
     ELSE UNCHANGED <<txFreeStack, txCurPending, txLastUsed>>
  /\ IF held'["txColl"] = 0 THEN txBufs' = {} /\ lent' = {}
                            ELSE UNCHANGED <<txBufs, lent>>
  /\ UNCHANGED <<txPc, txArg, txSeen>>

\* VirtioNetInitTx on its success; VirtioNetShutdownTx empties the collection.
TxStateEffect ==
  /\ IF pc = "TxSharedReqMap" /\ pc' = "RxBuffer"
     THEN /\ txFreeStack' = InitialFreeStack
          /\ txCurPending' = 0
          /\ txLastUsed' = txRing.usedIdx
     ELSE UNCHANGED <<txFreeStack, txCurPending, txLastUsed>>
  /\ IF held'["txColl"] = 0 THEN txBufs' = {} /\ lent' = {}
                            ELSE UNCHANGED <<txBufs, lent>>
  /\ UNCHANGED <<txPc, txArg, txSeen>>

\* VirtioNetInitRx: the posting, the kick, and the end of the ring's life.
RxEffect ==
  /\ rxRing' = CASE held'["rxRing"] = 0 -> ZeroRing(RxQueueSize)
                 [] pc = "RxPost"       -> RxPosted(rxRing)
                 [] OTHER               -> rxRing
  /\ rxLastUsed' = IF pc = "RxBufMap" THEN rxRing.usedIdx ELSE rxLastUsed
  /\ rxBuf' = IF held'["rxBuf"] = 0 THEN [d \in RxHeads |-> 0] ELSE rxBuf
  /\ rxHost' = HostAfter(rxHost)
  /\ rxKicked' = ((rxKicked \/ (pc = "RxKick" /\ pc' = "idle")) /\ devStatus' # {})
  /\ IF held'["rxRing"] = 0
     THEN rxSent' = << >> /\ rxTaken' = 0 /\ rxGot' = << >>
     ELSE UNCHANGED <<rxSent, rxTaken, rxGot>>
  /\ UNCHANGED <<rxPc, rxSeen, rxCap>>

LifeStep ==
  /\ DataIdle
  /\ \/ BindingSteps \/ SnpStart \/ SnpStop \/ InitSteps
     \/ Shutdown \/ ShutdownSteps \/ ShutdownDone
     \/ ExitBoot \/ OsRuns
  /\ TxRingEffect /\ TxStateEffect /\ RxEffect

-----------------------------------------------------------------------------
(* The data path.                                                          *)

TxStep ==
  /\ \/ Callable /\ ((\E b \in Bufs : Transmit(b)) \/ GetStatus)
     \/ TransmitSteps \/ GetStatusSteps
  /\ posted' = IF txPc = "publish" THEN posted \cup {"tx"} ELSE posted
  /\ UNCHANGED <<snpState, pc, q, devStatus, held, modern, exited, rxVars>>

RxStep ==
  /\ \/ Callable /\ \E n \in Lens : Receive(n)
     \/ ReceiveSteps
  /\ UNCHANGED <<lifeVars, txVars>>

HostStep ==
  /\ Running
  /\ \/ TxHostSteps /\ UNCHANGED rxVars
     \/ RxHostSteps /\ UNCHANGED txVars
  /\ UNCHANGED lifeVars

NetNext == LifeStep \/ TxStep \/ RxStep \/ HostStep

NetSpec == NetInit /\ [][NetNext]_vars

-----------------------------------------------------------------------------
(* Properties.                                                             *)

(***************************************************************************)
(* Memory the host may touch.  While the device runs, its rings are mapped *)
(* (RunningDeviceIsBacked), every transmit chain it can reach leads to a   *)
(* mapped request header and a mapped client buffer, and every receive     *)
(* chain into mapped receive buffers: on no path does the driver unmap or  *)
(* free what the host still reaches, and ExitBootServices() ends it all.   *)
(***************************************************************************)
NoDmaToReleasedMemory ==
  Running =>
    /\ ~exited
    /\ HostHeads(txRing, txHost) # {} => Holds({"txReq", "txReqMap"})
    /\ \A d \in HostHeads(txRing, txHost) : txDesc[d] \in txBufs
    /\ HostHeads(rxRing, rxHost) # {} => Holds(RxAux)

(***************************************************************************)
(* The data path's accounts are right in every session: whenever the       *)
(* interface is Initialized, also for the second time, no chain and no     *)
(* packet is lost, duplicated or left over from before; and once it no     *)
(* longer is, no buffer is mapped or lent, as Shutdown undoes the mapping  *)
(* of whatever is still queued.                                            *)
(***************************************************************************)
SessionsAreIndependent ==
  /\ pc = "idle" /\ snpState = "Initialized" /\ ~exited =>
       /\ TxChains /\ TxAsserts /\ TxDmaMapped
       /\ RxChains /\ DeliveredInOrder
  /\ held["txColl"] = 0 \/ (pc = "idle" /\ snpState # "Initialized") =>
       txBufs = {} /\ lent = {}
=============================================================================
