---------------------------- MODULE VirtioNetLife ----------------------------
(***************************************************************************)
(* The life cycle of a VirtioNetDxe driver instance: DriverBinding.c       *)
(* (Start, SnpPopulate, GetFeatures, SnpEvacuate, Stop), SnpStart.c,       *)
(* SnpInitialize.c (InitRing, InitTx, InitRx, Initialize), SnpShutdown.c,  *)
(* SnpStop.c and the ExitBootServices callback of Events.c, with the       *)
(* status register of the device.                                          *)
(*                                                                         *)
(* The steps have the shapes of VirtioDriver.  `q' is the queue that       *)
(* VirtioNetInitRing works on.  Writing zero to the status register is     *)
(* taken to succeed: the code ignores its result wherever it resets the    *)
(* device.  No client uses the SNP interface before Start has returned.    *)
(***************************************************************************)
EXTENDS VirtioDriver

VARIABLES
  snpState,   \* Dev->Snm.State, "absent" when there is no driver instance
  q,          \* the queue that VirtioNetInitRing sets up
  posted,     \* the queues with chains published since their ring was zeroed
  modern,     \* Dev->VirtIo->Revision >= 1.0.0
  exited      \* ExitBootServices() has been called

lifeVars == <<snpState, pc, q, devStatus, held, posted, modern, exited>>

Queues == {"rx", "tx"}

RingOf(i) == IF i = "rx" THEN "rxRing" ELSE "txRing"
RingMapOf(i) == IF i = "rx" THEN "rxRingMap" ELSE "txRingMap"

RingResources == {"rxRing", "rxRingMap", "txRing", "txRingMap"}
TxAux == {"txStack", "txColl", "txReq", "txReqMap"}
RxAux == {"rxBuf", "rxBufMap"}

\* "resources ... allocated for traffic" in the state diagram of VirtioNet.h
TrafficResources == RingResources \cup TxAux \cup RxAux

\* What VirtioNetDriverBindingStart acquires, in its order.
BindResources == {"dev", "virtIo", "waitForPacket", "exitBoot", "macPath",
                  "snp", "child"}

Resources == TrafficResources \cup BindResources

LifeInit ==
  /\ snpState = "absent"
  /\ pc = "idle"
  /\ q = "rx"
  /\ devStatus = {}
  /\ held = [r \in Resources |-> 0]
  /\ posted = {}
  /\ modern \in BOOLEAN
  /\ exited = FALSE

-----------------------------------------------------------------------------
\* What the steps inside a driver function leave alone.
Rest == <<snpState, q, posted, modern, exited>>

Enter(state, label) ==
  /\ pc = "idle" /\ ~exited
  /\ snpState = state
  /\ pc' = label
  /\ UNCHANGED <<devStatus, held, Rest>>

-----------------------------------------------------------------------------
(* VirtioNetDriverBindingStart, offered by Supported() only while nobody   *)
(* has the device open BY_DRIVER.                                          *)

BindingStart == held["virtIo"] = 0 /\ Enter("absent", "AllocDev")

BindingStartSteps ==
  /\ \/ Try("AllocDev", "OpenVirtIo", "idle", {"dev"})
     \/ Try("OpenVirtIo", "CreateWaitForPacket", "FreeVirtioNet", {"virtIo"})
     \/ Try("OpenDevicePath", "AppendMac", "Evacuate", {})
     \/ Try("AppendMac", "InstallSnp", "Evacuate", {"macPath"})
     \/ Try("InstallSnp", "OpenChild", "FreeMacDevicePath", {"snp"})
     \/ Undo("UninstallMultiple", "FreeMacDevicePath", {"snp"})
     \/ Undo("FreeMacDevicePath", "Evacuate", {"macPath"})
     \/ Undo("Evacuate", "CloseVirtIo", {"exitBoot", "waitForPacket"})
     \/ Undo("CloseVirtIo", "FreeVirtioNet", {"virtIo"})
     \/ Undo("FreeVirtioNet", "idle", {"dev"})
  /\ UNCHANGED Rest

\* The last call of Start: the instance, Stopped since SnpPopulate, is there.
BindingStartOpenChild ==
  /\ pc = "OpenChild"
  /\ \/ pc' = "idle" /\ Acquire({"child"}) /\ snpState' = "Stopped"
     \/ pc' = "UninstallMultiple" /\ UNCHANGED <<held, snpState>>
  /\ UNCHANGED <<q, devStatus, posted, modern, exited>>

\* VirtioNetSnpPopulate.
SnpPopulateSteps ==
  /\ \/ Try("CreateWaitForPacket", "FeatReset", "CloseVirtIo", {"waitForPacket"})
     \/ Try("CreateExitBoot", "OpenDevicePath", "CloseWaitForPacket", {"exitBoot"})
     \/ Undo("CloseWaitForPacket", "CloseVirtIo", {"waitForPacket"})
  /\ UNCHANGED Rest

\* The reset of VirtioNetGetFeatures, the only one whose failure is noticed.
FeatReset ==
  /\ pc = "FeatReset"
  /\ \/ pc' = "FeatAck" /\ devStatus' = {}
     \/ pc' = "CloseWaitForPacket" /\ devStatus' = devStatus
  /\ held' = held

\* The rest of VirtioNetGetFeatures: YieldDevice is reached on every path.
GetFeaturesSteps ==
  /\ \/ FeatReset
     \/ SetBit("FeatAck", "FeatDriver", "YieldFailed", "ACK")
     \/ SetBit("FeatDriver", "FeatRead", "YieldFailed", "DRIVER")
     \/ Try("FeatRead", "YieldReset", "YieldFailed", {})
     \/ WriteStatus("YieldReset", "CreateExitBoot", {})
     \/ WriteStatus("YieldFailed", "CloseWaitForPacket", {"FAILED"})
  /\ UNCHANGED Rest

(***************************************************************************)
(* VirtioNetDriverBindingStop.  With the child handle it refuses unless    *)
(* the instance is Stopped, and destroys it; the call without children     *)
(* closes VirtIo.                                                          *)
(***************************************************************************)
BindingStopChild ==
  /\ pc = "idle" /\ ~exited
  /\ snpState = "Stopped"
  /\ snpState' = "absent"
  /\ Release({"child", "snp", "macPath", "exitBoot", "waitForPacket", "dev"})
  /\ UNCHANGED <<pc, q, devStatus, posted, modern, exited>>

BindingStopParent ==
  /\ pc = "idle" /\ ~exited
  /\ snpState = "absent"
  /\ held["virtIo"] > 0
  /\ Release({"virtIo"})
  /\ UNCHANGED <<snpState, pc, q, devStatus, posted, modern, exited>>

-----------------------------------------------------------------------------
SetState(from, to) ==
  /\ pc = "idle" /\ ~exited
  /\ snpState = from
  /\ snpState' = to
  /\ UNCHANGED <<pc, q, devStatus, held, posted, modern, exited>>

SnpStart == SetState("Stopped", "Started")
SnpStop  == SetState("Started", "Stopped")

-----------------------------------------------------------------------------
(* VirtioNetInitialize.                                                    *)

Initialize == Enter("Started", "InitAck")

\* The prologue: status bits, page size, features; Virtio10WriteFeatures when
\* the device is modern, which may refuse them by not keeping FEATURES_OK.
InitPrologueSteps ==
  /\ \/ SetBit("InitAck", "InitDriver", "idle", "ACK")   \* goto InitFailed
     \/ SetBit("InitDriver", "InitFeatures", "DeviceFailed", "DRIVER")
     \/ Try("InitFeatures", IF modern THEN "FeaturesOk" ELSE "RxQueue", "DeviceFailed", {})
     \/ SetBit("FeaturesOk", "FeaturesCheck", "DeviceFailed", "FEATURES_OK")
     \/ Try("FeaturesCheck", "RxQueue", "DeviceFailed", {})
  /\ UNCHANGED Rest

\* Calling VirtioNetInitRing for a queue.
InitRingCall(at, i) ==
  /\ Goto(at, "QueueSel")
  /\ q' = i
  /\ UNCHANGED <<snpState, posted, modern, exited>>

InitRingCalls == InitRingCall("RxQueue", "rx") \/ InitRingCall("TxQueue", "tx")

\* Where VirtioNetInitialize goes on when VirtioNetInitRing returns.
InitRingReturn == IF q = "rx" THEN "TxQueue"
                  ELSE IF modern THEN "InitDriverOk" ELSE "GuestFeatures"
\* Mutant: a failure for the TX queue goes to DeviceFailed, too.
InitRingError_SkipsRx  == "DeviceFailed"

InitRingError  == IF q = "rx" THEN "DeviceFailed" ELSE "ReleaseRxRing"

\* VirtioNetInitRing: SetQueueSel, GetQueueNumMax (>= 2), VirtioRingInit, ...
InitRingSteps ==
  /\ \/ Try("QueueSel", "RingInit", InitRingError, {})
     \/ Try("RingInit", "RingMap", InitRingError, {RingOf(q)})
     \/ Try("RingMap", "QueueAddress", "ReleaseQueue", {RingMapOf(q)})
     \/ Try("QueueAddress", InitRingReturn, "UnmapQueue", {})
     \/ Undo("UnmapQueue", "ReleaseQueue", {RingMapOf(q)})
     \/ Undo("ReleaseQueue", InitRingError, {RingOf(q)})
  /\ UNCHANGED Rest

\* Steps 5 and 6: features (virtio 0.9.5) and DRIVER_OK.
InitDriverOkSteps ==
  /\ \/ Try("GuestFeatures", "InitDriverOk", "ReleaseTxRing", {})
     \/ SetBit("InitDriverOk", "TxFreeStack", "ReleaseTxRing", "DRIVER_OK")
  /\ UNCHANGED Rest

\* VirtioNetInitTx.
InitTxSteps ==
  /\ \/ Try("TxFreeStack", "TxCollection", "AbortDevice", {"txStack"})
     \/ Try("TxCollection", "TxSharedReq", "FreeTxFreeStack", {"txColl"})
     \/ Try("TxSharedReq", "TxSharedReqMap", "UninitTxBufCollection", {"txReq"})
     \/ Try("TxSharedReqMap", "RxBuffer", "FreeTxSharedReqBuffer", {"txReqMap"})
     \/ Undo("FreeTxSharedReqBuffer", "UninitTxBufCollection", {"txReq"})
     \/ Undo("UninitTxBufCollection", "FreeTxFreeStack", {"txColl"})
     \/ Undo("FreeTxFreeStack", "AbortDevice", {"txStack"})
  /\ UNCHANGED Rest

\* *Dev->RxRing.Avail.Idx = RxAlwaysPending: "reception may already be running".
InitRxPost ==
  /\ Goto("RxPost", "RxKick")
  /\ posted' = posted \cup {"rx"}
  /\ UNCHANGED <<snpState, q, modern, exited>>

\* The notification ends VirtioNetInitRx and, with it, VirtioNetInitialize.
InitRxKick ==
  /\ pc = "RxKick"
  /\ \/ pc' = "idle" /\ snpState' = "Initialized"
     \/ pc' = "RxAbort" /\ snpState' = snpState
  /\ UNCHANGED <<q, devStatus, held, posted, modern, exited>>

\* Mutant: the device is not reset when the notification fails.
InitRxSteps_NoAbort ==
  /\ \/ Try("RxBuffer", "RxBufMap", "ReleaseTxAux", {"rxBuf"})
     \/ Try("RxBufMap", "RxPost", "FreeSharedBuffer", {"rxBufMap"})
     \/ Goto("RxAbort", "UnmapSharedBuffer")
     \/ Undo("UnmapSharedBuffer", "FreeSharedBuffer", {"rxBufMap"})
     \/ Undo("FreeSharedBuffer", "ReleaseTxAux", {"rxBuf"})
  /\ UNCHANGED Rest

\* VirtioNetInitRx.
InitRxSteps ==
  /\ \/ Try("RxBuffer", "RxBufMap", "ReleaseTxAux", {"rxBuf"})
     \/ Try("RxBufMap", "RxPost", "FreeSharedBuffer", {"rxBufMap"})
     \/ WriteStatus("RxAbort", "UnmapSharedBuffer", {})
     \/ Undo("UnmapSharedBuffer", "FreeSharedBuffer", {"rxBufMap"})
     \/ Undo("FreeSharedBuffer", "ReleaseTxAux", {"rxBuf"})
  /\ UNCHANGED Rest

\* Mutant: the ring is freed and not unmapped.
UninitRing_KeepsMapping(at, next, i) ==
  /\ Undo(at, next, {RingOf(i)})
  /\ posted' = posted \ {i}
  /\ UNCHANGED <<snpState, q, modern, exited>>

\* VirtioNetUninitRing: unmap, free and zero the ring.
UninitRing(at, next, i) ==
  /\ Undo(at, next, {RingMapOf(i), RingOf(i)})
  /\ posted' = posted \ {i}
  /\ UNCHANGED <<snpState, q, modern, exited>>

\* The cleanup labels of VirtioNetInitialize.
InitCleanupSteps ==
  \/ UninitRing("ReleaseTxRing", "ReleaseRxRing", "tx")
  \/ UninitRing("ReleaseRxRing", "DeviceFailed", "rx")
  \/ /\ \/ Undo("ReleaseTxAux", "AbortDevice", TxAux)
        \/ WriteStatus("AbortDevice", "ReleaseTxRing", {})
        \/ WriteStatus("DeviceFailed", "idle", {})
     /\ UNCHANGED Rest

-----------------------------------------------------------------------------
(* VirtioNetShutdown.                                                      *)

\* Mutant: Shutdown does not reset the device first.
Shutdown_NoReset == Enter("Initialized", "ShutdownRx")

Shutdown == Enter("Initialized", "ShutdownReset")

ShutdownSteps ==
  \/ UninitRing("ShutdownTxRing", "ShutdownRxRing", "tx")
  \/ UninitRing("ShutdownRxRing", "ShutdownDone", "rx")
  \/ /\ \/ WriteStatus("ShutdownReset", "ShutdownRx", {})
        \/ Undo("ShutdownRx", "ShutdownTx", RxAux)
        \/ Undo("ShutdownTx", "ShutdownTxRing", TxAux)
     /\ UNCHANGED Rest

ShutdownDone ==
  /\ Goto("ShutdownDone", "idle")
  /\ snpState' = "Started"
  /\ UNCHANGED <<q, posted, modern, exited>>

\* VirtioNetTransmit, as far as the life cycle sees it.
TransmitPosts ==
  /\ pc = "idle" /\ ~exited
  /\ snpState = "Initialized"
  /\ posted' = posted \cup {"tx"}
  /\ UNCHANGED <<snpState, pc, q, devStatus, held, modern, exited>>

(***************************************************************************)
(* ExitBootServices(): VirtioNetExitBoot runs if its event exists, and     *)
(* resets the device if the instance is Initialized.  Nothing of the       *)
(* driver runs afterwards.                                                 *)
(***************************************************************************)
ExitBoot ==
  /\ pc = "idle" /\ ~exited
  /\ exited' = TRUE
  /\ devStatus' = IF held["exitBoot"] > 0 /\ snpState = "Initialized"
                  THEN {} ELSE devStatus
  /\ UNCHANGED <<snpState, pc, q, held, posted, modern>>

OsRuns == exited /\ UNCHANGED lifeVars

-----------------------------------------------------------------------------
BindingSteps == \/ BindingStart \/ BindingStartSteps \/ BindingStartOpenChild
                \/ SnpPopulateSteps \/ GetFeaturesSteps
                \/ BindingStopChild \/ BindingStopParent

InitSteps == \/ Initialize \/ InitPrologueSteps \/ InitRingCalls \/ InitRingSteps
             \/ InitDriverOkSteps
             \/ InitTxSteps \/ InitRxSteps \/ InitRxPost \/ InitRxKick
             \/ InitCleanupSteps

LifeNext == \/ BindingSteps
            \/ SnpStart \/ SnpStop
            \/ InitSteps
            \/ Shutdown \/ ShutdownSteps \/ ShutdownDone
            \/ TransmitPosts
            \/ ExitBoot \/ OsRuns

LifeSpec == LifeInit /\ [][LifeNext]_lifeVars

-----------------------------------------------------------------------------
(* Properties.                                                             *)

Labels == {"idle", "AllocDev", "OpenVirtIo", "CreateWaitForPacket", "FeatReset",
  "FeatAck", "FeatDriver", "FeatRead", "YieldReset", "YieldFailed",
  "CreateExitBoot", "CloseWaitForPacket", "OpenDevicePath", "AppendMac",
  "InstallSnp", "OpenChild", "UninstallMultiple", "FreeMacDevicePath", "Evacuate",
  "CloseVirtIo", "FreeVirtioNet",
  "InitAck", "InitDriver", "InitFeatures", "FeaturesOk", "FeaturesCheck",
  "RxQueue", "TxQueue", "QueueSel", "RingInit", "RingMap", "QueueAddress",
  "UnmapQueue", "ReleaseQueue", "GuestFeatures", "InitDriverOk",
  "TxFreeStack", "TxCollection", "TxSharedReq", "TxSharedReqMap",
  "FreeTxSharedReqBuffer", "UninitTxBufCollection", "FreeTxFreeStack",
  "RxBuffer", "RxBufMap", "RxPost", "RxKick", "RxAbort", "UnmapSharedBuffer",
  "FreeSharedBuffer", "ReleaseTxAux", "AbortDevice", "ReleaseTxRing",
  "ReleaseRxRing", "DeviceFailed",
  "ShutdownReset", "ShutdownRx", "ShutdownTx", "ShutdownTxRing",
  "ShutdownRxRing", "ShutdownDone"}

(***************************************************************************)
(* Type correctness; the part on `held' says that nothing is released that *)
(* is not held, and that nothing is acquired a second time while the first *)
(* is still there (a leak), on any of the error paths.                     *)
(***************************************************************************)
LifeTypeOK ==
  /\ snpState \in {"absent", "Stopped", "Started", "Initialized"}
  /\ pc \in Labels
  /\ q \in Queues
  /\ devStatus \subseteq StatusBits
  /\ held \in [Resources -> 0 .. 1]
  /\ posted \subseteq Queues
  /\ modern \in BOOLEAN
  /\ exited \in BOOLEAN

(***************************************************************************)
(* The state diagram of VirtioNet.h and the comment in VirtioNetInitialize *)
(* ("In the EfiSimpleNetworkStarted state the virtio-net device has status *)
(* value 0"): between calls, an instance that is stopped or started has    *)
(* its device reset and holds nothing for traffic, whichever of the calls  *)
(* of a failed Initialize it was that failed.  An instance that is not     *)
(* there has leaked nothing (VirtIo stays open between the two calls of    *)
(* VirtioNetDriverBindingStop).                                            *)
(***************************************************************************)
QuietUnlessInitialized ==
  /\ pc = "idle" /\ snpState \in {"Stopped", "Started"} =>
       /\ devStatus = {}
       /\ Lacks(TrafficResources)
       /\ Holds(BindResources)
  /\ pc = "idle" /\ snpState = "absent" => Lacks(Resources \ {"virtIo"})

(***************************************************************************)
(* The contract of VirtioRingUninit ("the VSTAT_DRIVER_OK bit must be      *)
(* clear"), and the same for the packet buffers: while the device runs,    *)
(* the rings exist and are mapped, and so is the memory that the chains    *)
(* published on them refer to.                                             *)
(***************************************************************************)
RunningDeviceIsBacked ==
  "DRIVER_OK" \in devStatus =>
    /\ Holds(RingResources)
    /\ "rx" \in posted => Holds(RxAux)
    /\ "tx" \in posted => Holds({"txReq", "txReqMap"})

(***************************************************************************)
(* When ExitBootServices() has returned, the device does no more DMA: the  *)
(* operating system may reuse the rings and buffers, which are not freed.  *)
(***************************************************************************)
QuietAfterExitBoot == exited => "DRIVER_OK" \notin devStatus

(***************************************************************************)
(* The device is never started a second time without a reset in between:   *)
(* the write of DRIVER_OK finds the bits of this bring-up and neither      *)
(* DRIVER_OK nor FAILED from one before, and nothing published on the      *)
(* rings; and a device that runs is never taken through a bring-up, since  *)
(* the only thing written to its status register is zero.                  *)
(***************************************************************************)
ResetBetweenRuns ==
  [][ /\ pc = "InitDriverOk" /\ pc' = "TxFreeStack" =>
           /\ posted = {}
           /\ devStatus = {"ACK", "DRIVER"} \cup (IF modern THEN {"FEATURES_OK"} ELSE {})
      /\ "DRIVER_OK" \in devStatus => devStatus' \in {devStatus, {}} ]_lifeVars

-----------------------------------------------------------------------------
(***************************************************************************)
(* The inductive invariant behind all of the above: what is held, what the *)
(* status register shows and what has been published at every label.       *)
(***************************************************************************)
HeldIs(S) == \A r \in Resources : held[r] = IF r \in S THEN 1 ELSE 0

RxRingRes == {"rxRing", "rxRingMap"}
WithRings == BindResources \cup RingResources

BindLabels == {"AllocDev", "OpenVirtIo", "CreateWaitForPacket", "FeatReset",
  "FeatAck", "FeatDriver", "FeatRead", "YieldReset", "YieldFailed",
  "CreateExitBoot", "CloseWaitForPacket", "OpenDevicePath", "AppendMac",
  "InstallSnp", "OpenChild", "UninstallMultiple", "FreeMacDevicePath", "Evacuate",
  "CloseVirtIo", "FreeVirtioNet"}

ShutdownLabels == {"ShutdownReset", "ShutdownRx", "ShutdownTx", "ShutdownTxRing",
                   "ShutdownRxRing", "ShutdownDone"}

\* The labels of VirtioNetInitRing.
RingLabels == {"QueueSel", "RingInit", "RingMap", "QueueAddress", "UnmapQueue",
               "ReleaseQueue"}

\* The labels of VirtioNetInitialize at which the device may be running.
RunLabels == {"TxFreeStack", "TxCollection", "TxSharedReq", "TxSharedReqMap",
  "FreeTxSharedReqBuffer", "UninitTxBufCollection", "FreeTxFreeStack",
  "RxBuffer", "RxBufMap", "RxPost", "RxKick", "RxAbort",
  "FreeSharedBuffer", "ReleaseTxAux", "AbortDevice"}

InitLabels == {"InitAck", "InitDriver", "InitFeatures", "FeaturesOk",
  "FeaturesCheck", "RxQueue", "TxQueue", "GuestFeatures", "InitDriverOk",
  "UnmapSharedBuffer", "ReleaseTxRing", "ReleaseRxRing", "DeviceFailed"}
  \cup RingLabels \cup RunLabels

\* Dev->Snm.State while a function of the driver runs.
StateAt ==
  /\ pc \in BindLabels => snpState = "absent"
  /\ pc \in InitLabels => snpState = "Started"
  /\ pc \in ShutdownLabels => snpState = "Initialized"
  /\ exited => pc = "idle"

\* What is held between functions and in VirtioNetDriverBindingStart.
BindHeldAt ==
  /\ pc = "idle" /\ snpState = "absent" => HeldIs({}) \/ HeldIs({"virtIo"})
  /\ pc = "idle" /\ snpState \in {"Stopped", "Started"} => HeldIs(BindResources)
  /\ pc = "idle" /\ snpState = "Initialized" => HeldIs(Resources)
  /\ pc = "AllocDev" => HeldIs({})
  /\ pc \in {"OpenVirtIo", "FreeVirtioNet"} => HeldIs({"dev"})
  /\ pc \in {"CreateWaitForPacket", "CloseVirtIo"} => HeldIs({"dev", "virtIo"})
  /\ pc \in {"FeatReset", "FeatAck", "FeatDriver", "FeatRead", "YieldReset",
             "YieldFailed", "CreateExitBoot", "CloseWaitForPacket"} =>
       HeldIs({"dev", "virtIo", "waitForPacket"})
  /\ pc \in {"OpenDevicePath", "AppendMac", "Evacuate"} =>
       HeldIs({"dev", "virtIo", "waitForPacket", "exitBoot"})
  /\ pc \in {"InstallSnp", "FreeMacDevicePath"} =>
       HeldIs({"dev", "virtIo", "waitForPacket", "exitBoot", "macPath"})
  /\ pc \in {"OpenChild", "UninstallMultiple"} => HeldIs(BindResources \ {"child"})

\* What is held in VirtioNetInitialize up to DRIVER_OK.
RingHeldAt ==
  /\ pc \in {"InitAck", "InitDriver", "InitFeatures", "FeaturesOk",
             "FeaturesCheck", "RxQueue", "DeviceFailed"} => HeldIs(BindResources)
  /\ pc \in {"TxQueue", "ReleaseRxRing"} => HeldIs(BindResources \cup RxRingRes)
  /\ pc \in {"QueueSel", "RingInit"} =>
       HeldIs(IF q = "rx" THEN BindResources ELSE BindResources \cup RxRingRes)
  /\ pc \in {"RingMap", "ReleaseQueue"} =>
       HeldIs(IF q = "rx" THEN BindResources \cup {"rxRing"}
              ELSE BindResources \cup RxRingRes \cup {"txRing"})
  /\ pc \in {"QueueAddress", "UnmapQueue"} =>
       HeldIs(IF q = "rx" THEN BindResources \cup RxRingRes ELSE WithRings)
  /\ pc \in {"GuestFeatures", "InitDriverOk", "AbortDevice", "ReleaseTxRing"} =>
       HeldIs(WithRings)

\* What is held in VirtioNetInitTx, VirtioNetInitRx and VirtioNetShutdown.
AuxHeldAt ==
  /\ pc = "TxFreeStack" => HeldIs(WithRings)
  /\ pc \in {"TxCollection", "FreeTxFreeStack"} => HeldIs(WithRings \cup {"txStack"})
  /\ pc \in {"TxSharedReq", "UninitTxBufCollection"} =>
       HeldIs(WithRings \cup {"txStack", "txColl"})
  /\ pc \in {"TxSharedReqMap", "FreeTxSharedReqBuffer"} =>
       HeldIs(WithRings \cup {"txStack", "txColl", "txReq"})
  /\ pc \in {"RxBuffer", "ReleaseTxAux"} => HeldIs(WithRings \cup TxAux)
  /\ pc \in {"RxBufMap", "FreeSharedBuffer"} => HeldIs(WithRings \cup TxAux \cup {"rxBuf"})
  /\ pc \in {"RxPost", "RxKick", "RxAbort", "UnmapSharedBuffer", "ShutdownReset",
             "ShutdownRx"} => HeldIs(Resources)
  /\ pc = "ShutdownTx" => HeldIs(Resources \ RxAux)
  /\ pc = "ShutdownTxRing" => HeldIs(WithRings)
  /\ pc = "ShutdownRxRing" => HeldIs(BindResources \cup RxRingRes)
  /\ pc = "ShutdownDone" => HeldIs(BindResources)

\* What the status register shows.
StatusAt ==
  /\ "DRIVER_OK" \in devStatus =>
       \/ pc \in RunLabels \cup {"ShutdownReset"}
       \/ pc = "idle" /\ snpState = "Initialized" /\ ~exited
  /\ pc = "idle" /\ snpState \in {"Stopped", "Started"} => devStatus = {}
  /\ pc \in {"InitAck", "ShutdownRx", "ShutdownTx", "ShutdownTxRing",
             "ShutdownRxRing", "ShutdownDone", "FeatAck", "CreateExitBoot",
             "OpenDevicePath", "AppendMac", "InstallSnp", "OpenChild"} => devStatus = {}
  /\ pc \in InitLabels => "FAILED" \notin devStatus
  /\ pc \in {"InitDriver"} => "ACK" \in devStatus
  /\ pc \in {"InitFeatures", "FeaturesOk", "FeaturesCheck", "RxQueue", "TxQueue",
             "QueueSel", "RingInit", "RingMap", "QueueAddress", "GuestFeatures",
             "InitDriverOk"} => {"ACK", "DRIVER"} \subseteq devStatus
  /\ pc \in {"RxQueue", "TxQueue", "QueueSel", "RingInit", "RingMap", "QueueAddress",
             "GuestFeatures", "InitDriverOk"} => (modern => "FEATURES_OK" \in devStatus)
  /\ pc = "FeaturesCheck" => "FEATURES_OK" \in devStatus
  /\ pc \in {"FeaturesOk", "FeaturesCheck"} => modern
  /\ pc \in InitLabels /\ ~modern => "FEATURES_OK" \notin devStatus
  /\ pc \in {"TxFreeStack", "TxCollection", "TxSharedReq", "TxSharedReqMap",
             "RxBuffer", "RxBufMap", "RxPost", "RxKick"} =>
       {"ACK", "DRIVER", "DRIVER_OK"} \subseteq devStatus
  /\ pc = "idle" /\ snpState = "Initialized" /\ ~exited =>
       {"ACK", "DRIVER", "DRIVER_OK"} \subseteq devStatus
  /\ pc \in {"FreeSharedBuffer", "ReleaseTxAux", "AbortDevice"} /\ "rx" \in posted =>
       "DRIVER_OK" \notin devStatus

\* Which queues have chains published on them.
PostedAt ==
  /\ "rx" \in posted =>
       \/ snpState = "Initialized"
       \/ pc \in {"RxKick", "RxAbort", "UnmapSharedBuffer", "FreeSharedBuffer",
                 "ReleaseTxAux", "AbortDevice", "ReleaseTxRing", "ReleaseRxRing"}
  /\ "tx" \in posted => snpState = "Initialized" /\ pc \notin {"ShutdownRxRing", "ShutdownDone"}
  /\ pc = "idle" /\ snpState = "Initialized" => "rx" \in posted
  /\ pc = "RxKick" => "rx" \in posted
  /\ pc = "ShutdownDone" => posted = {}

LifeInv == /\ LifeTypeOK /\ StateAt
           /\ BindHeldAt /\ RingHeldAt /\ AuxHeldAt
           /\ StatusAt /\ PostedAt
=============================================================================
