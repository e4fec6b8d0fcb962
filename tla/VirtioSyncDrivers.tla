-------------------------- MODULE VirtioSyncDrivers --------------------------
(***************************************************************************)
(* The three synchronous virtio drivers, each with its device: `drv' says  *)
(* which of them a behaviour is about.  BlockIo, ExtScsiPassThru and Rng   *)
(* calls come one at a time.                                               *)
(***************************************************************************)
EXTENDS VirtioBlk, VirtioScsi, VirtioRng

DriverSteps == \/ drv = "blk"  /\ BlkSteps
               \/ drv = "scsi" /\ ScsiSteps
               \/ drv = "rng"  /\ RngSteps

HostWorks == \/ drv = "blk"  /\ BlkHost
             \/ drv = "scsi" /\ ScsiHost
             \/ drv = "rng"  /\ RngHost

Calls == /\ Callable
         /\ \/ drv = "blk"  /\ BlkCalls
            \/ drv = "scsi" /\ ScsiCalls
            \/ drv = "rng"  /\ RngCalls

SyncNext == \/ Start \/ Stop \/ Calls \/ DriverSteps
            \/ HostWorks \/ HostLooks
            \/ ExitBootCallback \/ OsOwnsDevice

SyncSpec == SyncInit /\ [][SyncNext]_syncVars

(***************************************************************************)
(* Fairness.  A function of the driver runs on, except that VirtioFlush    *)
(* waits for the host.  A notified host fetches what has been published    *)
(* and completes what it has fetched.  Nothing is assumed about the host   *)
(* without a notification.                                                 *)
(***************************************************************************)
SyncFairSpec == /\ SyncSpec
                /\ WF_syncVars(DriverSteps)
                /\ WF_syncVars(kicked /\ HostLooks)
                /\ WF_syncVars(HostWorks)

-----------------------------------------------------------------------------
(* Properties.                                                             *)

(***************************************************************************)
(* Type correctness; nothing is released that is not held, and nothing is  *)
(* acquired twice, on any error path of any of the drivers.                *)
(***************************************************************************)
SyncTypeOK ==
  /\ held \in [SyncResources -> 0 .. 1]
  /\ devStatus \subseteq StatusBits /\ nextStat \subseteq StatusBits
  /\ ring.availIdx \in Idx /\ ring.usedIdx \in Idx /\ ring.size \in QueueSizes
  /\ hostIdx \in Idx /\ nextAvail \in Idx
  /\ kicked \in BOOLEAN /\ flushOk \in BOOLEAN /\ exited \in BOOLEAN
  /\ kickFails \in 0 .. MaxKickFailures
  /\ res \in {"ok", "err"}
  /\ drv # "rng" => pkt.in \in 0 .. LenMod - 1 /\ pkt.out \in 0 .. LenMod - 1

(***************************************************************************)
(* "we support only one in-flight descriptor chain" (VirtioPrepare): there *)
(* is at most one chain that is published and that the host has not        *)
(* returned.                                                               *)
(***************************************************************************)
OneInFlight == InFlight <= 1

(***************************************************************************)
(* As long as no notification has failed: one chain in flight at most and  *)
(* none between two requests, and whatever chain the host can reach        *)
(* belongs to the request that is running and points to memory that is     *)
(* still mapped for it.                                                    *)
(***************************************************************************)
LockStep ==
  kickFails = 0 /\ Running =>
    /\ OneInFlight
    /\ InFlight = 1 => pc \in {"FlushNotify", "FlushPoll"}
    /\ \A c \in Reachable : ~c.stale /\ \A r \in c.parts : held[r] = 1

(***************************************************************************)
(* A request that reports success has been carried out by the host, as far *)
(* as the lengths reported to the caller say, also when an earlier request *)
(* has been given up on with its chain still published.  (Only GetRNG      *)
(* takes a length from the used ring, where such a leftover shows.)        *)
(***************************************************************************)
SuccessMeansDone ==
  pc = "idle" /\ res = "ok" /\ (drv = "rng" => kickFails = 0) =>
    moved = pkt.in + pkt.out

(***************************************************************************)
(* What the host is asked for is within the limits that the checks in      *)
(* VerifyReadWriteRequest and PopulateRequest are there for, and its chain *)
(* fits the descriptor table ("ensures we don't have to track free         *)
(* descriptors").                                                          *)
(***************************************************************************)
WithinLimits ==
  pc = "FlushPublish" =>
    /\ Cardinality(desc.parts) <= ring.size
    /\ drv = "blk" => BlkChainOk(desc)
    /\ drv = "scsi" => ScsiChainOk(desc)
    /\ drv = "rng" => RngChainOk(desc)

(***************************************************************************)
(* Between calls a bound driver holds its ring and its protocols and       *)
(* nothing of any request, a driver that is not bound holds nothing; and   *)
(* no error path releases what it does not hold.                           *)
(***************************************************************************)
SyncNothingLeaks ==
  /\ SyncTypeOK
  /\ pc = "idle" => \/ Holds(BindRes \cup RingRes) /\ Lacks(ReqRes)
                    \/ Lacks(SyncResources)

(***************************************************************************)
(* "the VSTAT_DRIVER_OK bit must be clear in VhdrDeviceStatus" when a ring *)
(* is torn down (VirtioRingUninit), and after ExitBootServices(): a device *)
(* that may run has a ring, mapped, and firmware to own it.                *)
(***************************************************************************)
RingBacksDevice == Running => Holds(RingRes) /\ ~exited

\* Every call returns, although VirtioFlush polls without a time limit.
CallsReturn == pc # "idle" ~> pc = "idle"
=============================================================================
