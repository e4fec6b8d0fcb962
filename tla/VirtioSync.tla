----------------------------- MODULE VirtioSync ------------------------------
(***************************************************************************)
(* What the three synchronous virtio drivers (VirtioBlkDxe, VirtioScsiDxe, *)
(* VirtioRngDxe) have in common: the driver binding, the initialization    *)
(* sequence of virtio-0.9.5, 2.2.1, its cleanup labels, the ExitBoot       *)
(* callback and the shape of a request.  The modules VirtioBlk, VirtioScsi *)
(* and VirtioRng add what is particular to each of them.                   *)
(*                                                                         *)
(* Lengths are in units, SectorUnits of them in a 512-byte sector; UINT32  *)
(* lengths wrap at LenMod.                                                 *)
(***************************************************************************)
EXTENDS VirtioLib, FiniteSets

CONSTANTS
  QueueSizes,       \* the queue sizes that devices offer
  DriverOkMayFail,  \* whether SetDeviceStatus(DRIVER_OK) can fail
  SectorUnits, LenMod, SIZE_1GB

ASSUME SyncAssumption ==
  /\ \A qs \in QueueSizes : ValidQueueSize(qs)
  /\ QueueSize \in QueueSizes
  /\ DriverOkMayFail \in BOOLEAN
  /\ MaxKickFailures \in Nat /\ MaxKickFailures + 1 < IdxMod
  /\ SectorUnits \in Nat \ {0} /\ {LenMod, SIZE_1GB} \subseteq Nat
  /\ SIZE_1GB + SectorUnits <= LenMod

VARIABLES
  drv,       \* the driver: "blk", "scsi" or "rng"
  modern,    \* VirtIo->Revision >= 1.0.0
  nextStat,  \* Init: NextDevStat
  exited,    \* ExitBootServices() has been called
  media,     \* what Init has found out about the device
  req,       \* the running or last request: where and how much
  pkt,       \* the transfer lengths the caller sees
  res,       \* its status: "ok", or "err" as long as it is not successful
  answer,    \* the status or response buffer shared with the host
  moved,     \* host: how much of the request it has transferred
  index      \* VirtioRngGetRNG: Index

libVars  == <<ring, desc, hostVars, flushVars>>
reqVars  == <<req, pkt, res, answer, moved, index>>
confVars == <<drv, modern, exited, media>>
syncVars == <<pc, devStatus, held, nextStat, confVars, reqVars, libVars>>

BindRes == {"dev", "virtIo", "exitBoot", "iface"}
RingRes == {"ring", "ringMap"}
ReqRes  == {"reqMap", "hostStatus", "statusMap", "dataMap",
            "inBuf", "inMap", "outMap", "resp", "respMap", "buf", "bufMap"}
SyncResources == BindRes \cup RingRes \cup ReqRes

NoMedia  == [sectors |-> 0, spb |-> 0, ro |-> FALSE, flush |-> FALSE,
             maxSectors |-> 0, inout |-> FALSE]
NoAnswer == [st |-> "none", residual |-> 0]
NoReq    == [pos |-> 0, in |-> 0, out |-> 0]

SyncInit ==
  /\ pc = "idle" /\ devStatus = {} /\ held = [r \in SyncResources |-> 0]
  /\ nextStat = {} /\ exited = FALSE
  /\ drv \in {"blk", "scsi", "rng"} /\ modern \in BOOLEAN
  /\ media = NoMedia
  /\ req = NoReq /\ pkt = NoReq /\ res = "err" /\ answer = NoAnswer
  /\ moved = 0 /\ index = 0
  /\ LibInit

\* Nothing is left of the last request.
NoRequest == /\ req' = NoReq /\ pkt' = NoReq /\ res' = "err" /\ answer' = NoAnswer
             /\ moved' = 0 /\ index' = 0

-----------------------------------------------------------------------------
(* What a step of bring-up or tear-down does to the queue: a reset makes   *)
(* the host forget it, freeing the ring zeroes the VRING.                  *)

QueueEffect ==
  /\ IF devStatus' = {} THEN ForgetQueue ELSE UNCHANGED hostVars
  /\ IF held'["ring"] = 0 THEN ring' = ZeroRing(ring.size) /\ desc' = NoChain
                          ELSE UNCHANGED <<ring, desc>>
  /\ UNCHANGED flushVars

\* NextDevStat |= bit; SetDeviceStatus (NextDevStat).
SetNext(at, next, fail, bit, mayFail) ==
  /\ pc = at
  /\ nextStat' = nextStat \cup {bit}
  /\ \/ pc' = next /\ devStatus' = nextStat'
     \/ mayFail /\ pc' = fail /\ devStatus' = devStatus
  /\ held' = held

\* NextDevStat = 0: step 1, reset device.
InitReset ==
  /\ pc = "InitReset"
  /\ nextStat' = {}
  /\ \/ pc' = "InitAck" /\ devStatus' = {}
     \/ pc' = "Failed" /\ devStatus' = devStatus
  /\ held' = held

\* The end of Virtio10WriteFeatures: the status is read back, and the device
\* may have cleared FEATURES_OK.
FeaturesCheck ==
  /\ pc = "FeaturesCheck"
  /\ \/ pc' = "QueueSel" /\ nextStat' = devStatus /\ devStatus' = devStatus
     \/ pc' = "Failed" /\ devStatus' = devStatus \ {"FEATURES_OK"} /\ nextStat' = devStatus'
     \/ pc' = "Failed" /\ UNCHANGED <<devStatus, nextStat>>
  /\ held' = held

\* The Failed label: the result of SetDeviceStatus is ignored.
InitFailed ==
  /\ pc = "Failed"
  /\ pc' = "CloseVirtIo"
  /\ nextStat' = nextStat \cup {"FAILED"}
  /\ devStatus' \in {nextStat', devStatus}
  /\ held' = held

\* SetQueueSel, GetQueueNumMax and the check of the queue's size.
QueueSel(minDescs) ==
  /\ pc = "QueueSel"
  /\ \/ \E qs \in QueueSizes : /\ qs >= minDescs
                               /\ ring' = ZeroRing(qs)
                               /\ pc' = "RingInit"
     \/ pc' = "Failed" /\ ring' = ring
  /\ UNCHANGED <<devStatus, held, nextStat, desc, hostVars, flushVars>>

(***************************************************************************)
(* The part of Virtio{Blk,Scsi,Rng}Init that is the same in all three:     *)
(* everything but the validation of the configuration ("InitConfig", which *)
(* ends at AfterConfig) and what scsi does after step 5 (afterFeatures).   *)
(***************************************************************************)
AfterConfig == IF modern THEN "FeaturesOk" ELSE "QueueSel"

InitSteps(minDescs, afterFeatures) ==
  \/ QueueSel(minDescs)
  \/ /\ \/ InitReset
        \/ SetNext("InitAck", "InitDriver", "Failed", "ACK", TRUE)
        \/ SetNext("InitDriver", "InitConfig", "Failed", "DRIVER", TRUE)
        \/ SetNext("FeaturesOk", "FeaturesCheck", "Failed", "FEATURES_OK", TRUE)
        \/ FeaturesCheck
        \/ SetNext("InitDriverOk", "CreateExitBoot", "UnmapQueue", "DRIVER_OK", DriverOkMayFail)
        \/ InitFailed
        \/ /\ \/ Try("RingInit", "RingMap", "Failed", {"ring"})
              \/ Try("RingMap", "QueueAddress", "ReleaseQueue", {"ringMap"})
              \/ Try("QueueAddress", IF modern THEN afterFeatures ELSE "GuestFeatures",
                     "UnmapQueue", {})
              \/ Try("GuestFeatures", afterFeatures, "UnmapQueue", {})
              \/ Undo("UnmapQueue", "ReleaseQueue", {"ringMap"})
              \/ Undo("ReleaseQueue", "Failed", {"ring"})
           /\ UNCHANGED nextStat
     /\ QueueEffect

\* InitConfig: the device is described by a member of Media, or is refused.
InitConfig(Media) ==
  /\ pc = "InitConfig"
  /\ \/ pc' = AfterConfig /\ media' \in Media
     \/ pc' = "Failed" /\ media' = media
  /\ UNCHANGED <<devStatus, held, nextStat, drv, modern, exited, reqVars, libVars>>

\* Mutant: the ring is released before the device is reset.
UninitSteps_FreesFirst ==
  \/ Undo("UninitReset", "UninitRing", {"ringMap", "ring"})
  \/ WriteStatus("UninitRing", "CloseVirtIo", {})

\* Virtio*Uninit: reset, then unmap and free the ring.
UninitSteps ==
  \/ WriteStatus("UninitReset", "UninitRing", {})
  \/ Undo("UninitRing", "CloseVirtIo", {"ringMap", "ring"})

-----------------------------------------------------------------------------
(* The driver binding.  Stop replays the error path of Start.              *)

StartSteps ==
  /\ \/ Try("AllocDev", "OpenVirtIo", "idle", {"dev"})
     \/ Try("OpenVirtIo", "InitReset", "FreeDev", {"virtIo"})
     \/ Try("CreateExitBoot", "Install", "UninitReset", {"exitBoot"})
     \/ Try("Install", "idle", "CloseExitBoot", {"iface"})
     \/ Undo("CloseExitBoot", "UninitReset", {"exitBoot"})
     \/ UninitSteps
     \/ Undo("CloseVirtIo", "FreeDev", {"virtIo"})
     \/ Undo("FreeDev", "idle", {"dev"})
  /\ UNCHANGED nextStat
  /\ QueueEffect

\* Supported() offers the device only while nobody has it open BY_DRIVER.
Start ==
  /\ pc = "idle" /\ ~exited /\ held["virtIo"] = 0
  /\ pc' = "AllocDev"
  /\ media' = NoMedia
  /\ UNCHANGED <<devStatus, held, nextStat, drv, modern, exited, reqVars, libVars>>

\* UninstallProtocolInterface succeeds; if it fails, Stop returns its error.
Stop ==
  /\ pc = "idle" /\ ~exited /\ held["iface"] = 1
  /\ pc' = "CloseExitBoot"
  /\ Release({"iface"})
  /\ NoRequest
  /\ UNCHANGED <<devStatus, nextStat, confVars, libVars>>

\* ExitBootServices(): the callback, if its event exists, resets the device.
ExitBootCallback ==
  /\ pc = "idle" /\ ~exited
  /\ exited' = TRUE
  /\ devStatus' = IF held["exitBoot"] = 1 THEN {} ELSE devStatus
  /\ NoRequest
  /\ UNCHANGED <<pc, held, nextStat, drv, modern, media>>
  /\ QueueEffect

OsOwnsDevice == exited /\ UNCHANGED syncVars

-----------------------------------------------------------------------------
(* The shape of a request.                                                 *)

\* The interface is there to be called.
Callable == pc = "idle" /\ ~exited /\ held["iface"] = 1

\* A call that passes the driver's checks: Status is an error until set.
Call(label, r) ==
  /\ pc' = label
  /\ req' = r /\ pkt' = r /\ res' = "err"
  /\ answer' = NoAnswer /\ moved' = 0 /\ index' = 0
  /\ UNCHANGED <<devStatus, held, nextStat, confVars, libVars>>

\* The chain for the request goes to VirtioFlush.
Submit(at, parts, pos, in, out) ==
  /\ Goto(at, "FlushPublish")
  /\ SubmitChain([parts |-> parts, pos |-> pos, in |-> in, out |-> out, stale |-> FALSE])
  /\ UNCHANGED <<nextStat, confVars, reqVars>>

Flush == FlushSteps /\ UNCHANGED <<nextStat, confVars, reqVars>>

\* The last cleanup step of a request that releases S and returns.
Return(at, S) ==
  /\ Undo(at, "idle", S)
  /\ RetireChains
  /\ UNCHANGED <<nextStat, confVars, reqVars, ring>>

\* Frame of the steps that only acquire and release.
MemoryStep == UNCHANGED <<nextStat, confVars, reqVars, libVars>>

-----------------------------------------------------------------------------
(* The host (external).                                                    *)

HostFrame == UNCHANGED <<pc, devStatus, held, nextStat, confVars, req, pkt, res, index>>

\* Chain i is completed with UsedElem.Len = n and m units transferred: Ans is
\* what the host puts in the status or response buffer.  The buffers of a stale
\* chain are no longer the driver's.
HostCompletes(i, n, m, Ans) ==
  /\ Running
  /\ i \in DOMAIN taken
  /\ LibHostComplete(i, n)
  /\ IF taken[i].stale THEN UNCHANGED <<answer, moved>>
     ELSE answer' = Ans /\ moved' = m
  /\ HostFrame

HostLooks == /\ Running
             /\ LibHostFetch \/ LibHostIdle
             /\ HostFrame /\ UNCHANGED <<answer, moved>>
=============================================================================
