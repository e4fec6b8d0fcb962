-------------------------- MODULE VirtioSync_proofs --------------------------
(***************************************************************************)
(* Proofs about the synchronous virtio drivers, for every size of the      *)
(* queue, every number of failing notifications and every disk, limit and  *)
(* length.  The inductive invariant has five parts: what is held at each   *)
(* label (Ledger), where the device is between reset and DRIVER_OK         *)
(* (Bringup), how many chains are in flight (Queue), whose they are        *)
(* (Chains), and what has been transferred for the request (Data).         *)
(***************************************************************************)
EXTENDS VirtioSyncDrivers, VRing_proofs, SequenceTheorems

-----------------------------------------------------------------------------
(* Labels.                                                                 *)

FlushLabels == {"FlushPublish", "FlushNotify", "FlushPoll", "Flushed"}
Published   == {"FlushNotify", "FlushPoll"}

\* Labels of a request before its chain is built, and after VirtioFlush.
BeforeSubmit ==
  {"BlkAllocStatus", "BlkMapRequest", "BlkMapData", "BlkMapStatus", "BlkSubmit",
   "ScsiMapRequest", "ScsiAllocIn", "ScsiMapIn", "ScsiMapOut", "ScsiAllocResponse", "ScsiMapResponse",
   "ScsiSubmit", "RngAlloc", "RngMap", "RngLoop"}
Cleanup ==
  {"BlkUnmapStatus", "BlkUnmapData", "BlkUnmapRequest", "BlkFreeStatus",
   "ScsiUnmapResponse", "ScsiFreeResponse", "ScsiUnmapOut", "ScsiUnmapIn", "ScsiFreeIn", "ScsiUnmapRequest",
   "RngUnmapBuffer", "RngFree"}
RequestLabels == BeforeSubmit \cup FlushLabels \cup Cleanup

\* Labels of Start, Init and Stop: before there is a ring that the device may use,
\* with the ring set up, and with the device running.
NoRingLabels ==
  {"AllocDev", "OpenVirtIo", "InitReset", "InitAck", "InitDriver", "InitConfig", "FeaturesOk",
   "FeaturesCheck", "QueueSel", "RingInit", "Failed", "CloseVirtIo", "FreeDev"}
SetupLabels == {"RingMap", "QueueAddress", "GuestFeatures", "CfgWrite", "InitDriverOk", "UnmapQueue", "ReleaseQueue"}
UpLabels    == {"CreateExitBoot", "Install", "CloseExitBoot", "UninitReset"} \cup RequestLabels

-----------------------------------------------------------------------------
(* Ledger: what is held at each label.                                     *)

Exact(h, S) == h = [r \in SyncResources |-> IF r \in S THEN 1 ELSE 0]

Base == BindRes \cup RingRes

\* The labels of the driver binding and of Init by what is held there.
DevLabels   == {"OpenVirtIo", "FreeDev"}
OpenLabels  == {"InitReset", "InitAck", "InitDriver", "InitConfig", "FeaturesOk", "FeaturesCheck", "QueueSel",
                "RingInit", "Failed", "CloseVirtIo"}
RingLabels  == {"RingMap", "ReleaseQueue"}
MapLabels   == {"QueueAddress", "GuestFeatures", "CfgWrite", "InitDriverOk", "UnmapQueue", "CreateExitBoot",
                "UninitReset", "UninitRing"}
EventLabels == {"Install", "CloseExitBoot"}
BindingLabels == {"AllocDev"} \cup DevLabels \cup OpenLabels \cup RingLabels \cup MapLabels \cup EventLabels

BindingHeld(l, h) ==
  \/ l = "AllocDev" /\ Exact(h, {})
  \/ l \in DevLabels /\ Exact(h, {"dev"})
  \/ l \in OpenLabels /\ Exact(h, {"dev", "virtIo"})
  \/ l \in RingLabels /\ Exact(h, {"dev", "virtIo", "ring"})
  \/ l \in MapLabels /\ Exact(h, {"dev", "virtIo", "ring", "ringMap"})
  \/ l \in EventLabels /\ Exact(h, {"dev", "virtIo", "ring", "ringMap", "exitBoot"})

\* The labels of a request; q is what it asks for.
DataOf(q)  == IF q.in + q.out > 0 THEN {"dataMap"} ELSE {}
InBufOf(q) == IF q.in > 0 THEN {"inBuf"} ELSE {}
InOf(q)    == IF q.in > 0 THEN {"inBuf", "inMap"} ELSE {}
OutOf(q)   == IF q.out > 0 THEN {"outMap"} ELSE {}

BlkHeld(l, h, q) ==
  \/ l = "BlkAllocStatus" /\ Exact(h, Base)
  \/ l \in {"BlkMapRequest", "BlkFreeStatus"} /\ Exact(h, Base \cup {"hostStatus"})
  \/ l \in {"BlkMapData", "BlkUnmapRequest"} /\ Exact(h, Base \cup {"hostStatus", "reqMap"})
  \/ l \in {"BlkMapStatus", "BlkUnmapData"} /\ Exact(h, Base \cup ({"hostStatus", "reqMap"} \cup DataOf(q)))
  \/ l \in {"BlkSubmit", "BlkUnmapStatus"} \cup FlushLabels
     /\ Exact(h, Base \cup ({"hostStatus", "reqMap", "statusMap"} \cup DataOf(q)))

ScsiHeld(l, h, q) ==
  \/ l = "ScsiMapRequest" /\ Exact(h, Base)
  \/ l \in {"ScsiAllocIn", "ScsiUnmapRequest"} /\ Exact(h, Base \cup {"reqMap"})
  \/ l \in {"ScsiMapIn", "ScsiFreeIn"} /\ Exact(h, Base \cup ({"reqMap"} \cup InBufOf(q)))
  \/ l \in {"ScsiMapOut", "ScsiUnmapIn"} /\ Exact(h, Base \cup ({"reqMap"} \cup InOf(q)))
  \/ l \in {"ScsiAllocResponse", "ScsiUnmapOut"} /\ Exact(h, Base \cup ({"reqMap"} \cup InOf(q) \cup OutOf(q)))
  \/ l \in {"ScsiMapResponse", "ScsiFreeResponse"}
     /\ Exact(h, Base \cup ({"reqMap", "resp"} \cup InOf(q) \cup OutOf(q)))
  \/ l \in {"ScsiSubmit", "ScsiUnmapResponse"} \cup FlushLabels
     /\ Exact(h, Base \cup ({"reqMap", "resp", "respMap"} \cup InOf(q) \cup OutOf(q)))

RngHeld(l, h) ==
  \/ l = "RngAlloc" /\ Exact(h, Base)
  \/ l \in {"RngMap", "RngFree"} /\ Exact(h, Base \cup {"buf"})
  \/ l \in {"RngLoop", "RngUnmapBuffer"} \cup FlushLabels /\ Exact(h, Base \cup {"buf", "bufMap"})

Bound   == Exact(held, Base)
Unbound == Exact(held, {})

\* What the labels say about the lengths asked for.
LabelLengths ==
  /\ pc \in {"ScsiMapRequest", "ScsiAllocIn", "ScsiMapIn", "ScsiMapOut", "ScsiAllocResponse",
             "ScsiMapResponse", "ScsiSubmit"} => pkt = req
  /\ pc \in {"ScsiAllocIn", "ScsiMapIn"} => req.in > 0
  /\ pc = "ScsiMapOut" => req.out > 0
  /\ pc = "BlkMapData" => req.in + req.out > 0

Ledger ==
  /\ drv \in {"blk", "scsi", "rng"}
  /\ \/ pc = "idle" /\ (Bound \/ Unbound)
     \/ BindingHeld(pc, held)
     \/ drv = "blk" /\ BlkHeld(pc, held, req)
     \/ drv = "scsi" /\ ScsiHeld(pc, held, req)
     \/ drv = "rng" /\ RngHeld(pc, held)
  /\ req \in [pos : Nat, in : Nat, out : Nat] /\ LabelLengths

-----------------------------------------------------------------------------
(* Bringup: the device's status.                                           *)

\* The device may use the ring.
Up == pc \in UpLabels \/ (pc = "idle" /\ Bound /\ ~exited)

\* VirtioBlkInit, VirtioScsiInit and VirtioRngInit have looked at the configuration.
Configured == \/ pc \in {"FeaturesOk", "FeaturesCheck", "QueueSel", "RingInit"} \cup SetupLabels \cup UpLabels
              \/ pc = "idle" /\ Bound

MediaOf(d) == CASE d = "blk" -> BlkMediaOk [] d = "scsi" -> ScsiMedia [] OTHER -> {NoMedia}

Bringup ==
  /\ Configured => media \in MediaOf(drv)
  /\ devStatus \subseteq StatusBits /\ nextStat \subseteq StatusBits
  /\ exited \in BOOLEAN /\ (exited => pc = "idle")
  /\ Up => Running
  /\ pc = "UninitRing" \/ (exited /\ Bound) => devStatus = {}

\* As long as the write that sets DRIVER_OK does not fail: only then it is set.
OnlyThenRunning ==
  /\ Running => Up
  /\ pc \in (NoRingLabels \ {"AllocDev", "OpenVirtIo", "InitReset", "CloseVirtIo", "FreeDev"}) \cup SetupLabels =>
       "DRIVER_OK" \notin nextStat

-----------------------------------------------------------------------------
(* Queue: how many chains are in flight.                                   *)

MinDescs == CASE drv = "blk" -> 3 [] drv = "scsi" -> 4 [] OTHER -> 1

ChainType == [parts : SUBSET SyncResources, pos : Nat, in : Nat, out : Nat, stale : BOOLEAN]

Untouched == ring.availIdx = 0 /\ ring.usedIdx = 0 /\ hostIdx = 0 /\ taken = << >>

Counted ==
  /\ Ahead(hostIdx, ring.availIdx) + Len(taken) = InFlight
  /\ InFlight <= kickFails + (IF pc \in Published THEN 1 ELSE 0)

QueueTypes ==
  /\ ring \in VRingType(ring.size, {0}, Nat) /\ ring.size \in QueueSizes
  /\ hostIdx \in Idx /\ nextAvail \in Idx /\ usedLen \in Nat
  /\ kicked \in BOOLEAN /\ flushOk \in BOOLEAN /\ kickFails \in 0 .. MaxKickFailures
  /\ taken \in Seq(ChainType) /\ desc \in ChainType

\* There is no ring, or it has not been handed to the device.
Bare == pc \in NoRingLabels \cup SetupLabels \/ (pc = "idle" /\ Unbound)

\* The size of the ring has been checked.
Sized == pc \in {"RingInit"} \cup SetupLabels \cup UpLabels \/ (pc = "idle" /\ Bound)

QueuePlace ==
  /\ Bare => Untouched
  /\ pc = "UninitRing" \/ (exited /\ Bound) => hostIdx = 0 /\ taken = << >>
  /\ Up => Counted
  /\ Sized => ring.size >= MinDescs
  /\ pc = "FlushPublish" => nextAvail = IdxAdd(ring.availIdx, 1)
  /\ pc \in Published => nextAvail = ring.availIdx
  /\ pc = "Flushed" /\ flushOk => InFlight = 0

Queue == QueueTypes /\ QueuePlace

-----------------------------------------------------------------------------
(* Chains and Data: the chains, and what has been transferred.             *)

\* A chain whose request has not returned is the one in the descriptor table.
Chains ==
  /\ \A i \in DOMAIN taken : /\ taken[i].stale \/ taken[i] = desc
                             /\ kickFails = 0 => ~taken[i].stale
  /\ pc \notin FlushLabels \cup Cleanup => \A i \in DOMAIN taken : taken[i].stale
  /\ pc \notin FlushLabels \cup Cleanup => desc.stale \/ InFlight = 0
  /\ pc \in FlushLabels => ~desc.stale /\ \A r \in desc.parts : held[r] = 1

\* The caller sees UINT32 lengths; the chain is for what it has asked for, and
\* that is something that the driver lets through; an answer "ok" means that
\* everything, less the residual, has been transferred; and a request that is
\* going to report success is done with the host.
DataTypes ==
  /\ pkt \in [pos : Nat, in : Nat, out : Nat]
  /\ answer \in [st : {"none", "preset", "ok", "err"}, residual : Nat]
  /\ moved \in Nat /\ index \in Nat /\ res \in {"ok", "err"}
  /\ pc \in BeforeSubmit \cup FlushLabels => res = "err"

BlkData ==
  /\ pkt.in < LenMod /\ pkt.out < LenMod
  /\ pc \in BeforeSubmit \cup FlushLabels => pkt = req /\ BlkChainOk(req)
  /\ pc = "BlkSubmit" => answer.st = "preset"
  /\ pc \in FlushLabels => /\ desc.pos = req.pos /\ desc.in = req.in /\ desc.out = req.out
                           /\ desc.parts \subseteq {"reqMap", "statusMap", "dataMap"}
                           /\ answer.st = "ok" => moved = req.in + req.out
  /\ pc \in Cleanup /\ res = "ok" => InFlight = 0
  /\ res = "ok" => moved = pkt.in + pkt.out

ScsiData ==
  /\ pkt.in < LenMod /\ pkt.out < LenMod
  /\ pc \in BeforeSubmit \cup FlushLabels => pkt = req /\ ScsiChainOk(req)
  /\ pc = "ScsiSubmit" => answer.st = "preset" /\ answer.residual = 0
  /\ pc \in FlushLabels => /\ desc.in = req.in /\ desc.out = req.out
                           /\ desc.parts \subseteq {"reqMap", "respMap", "outMap", "inMap"}
                           /\ answer.residual <= req.in + req.out
                           /\ answer.st = "ok" => moved = req.in + req.out - answer.residual
  /\ pc \in Cleanup /\ res = "ok" => InFlight = 0
  /\ res = "ok" => moved = pkt.in + pkt.out

\* GetRNG goes by the length in the used ring, which is that of its own chain as
\* long as no notification has failed.
RngCount ==
  /\ pc \in {"RngAlloc", "RngMap"} => index = 0
  /\ pc \in RequestLabels => req.in > 0 /\ index <= req.in
  /\ pc = "RngLoop" /\ index > 0 => moved = index
  /\ pc \in Published /\ InFlight = 0 =>
       LET n == NextUsed(ring, nextAvail + IdxMod - 1).len IN n <= desc.in /\ moved = index + n
  /\ pc = "Flushed" /\ flushOk => usedLen <= desc.in /\ moved = index + usedLen
  /\ pc \in Cleanup /\ res = "ok" => InFlight = 0
  /\ res = "ok" => moved = pkt.in

RngData ==
  /\ pkt = req /\ req.out = 0
  /\ pc \in FlushLabels => /\ desc.parts = {"bufMap"} /\ desc.pos = index
                           /\ index + desc.in <= req.in /\ desc.out = 0
  /\ kickFails = 0 => RngCount

Data == /\ DataTypes
        /\ drv = "blk" => BlkData
        /\ drv = "scsi" => ScsiData
        /\ drv = "rng" => RngData

SyncInv == Ledger /\ Bringup /\ Queue /\ Chains /\ Data

-----------------------------------------------------------------------------
(* Ledger.                                                                 *)

\* Acquiring what is not held, and releasing what is.
LEMMA ExactAcquire ==
  ASSUME NEW h, NEW S, NEW T, Exact(h, S), T \subseteq SyncResources, T \cap S = {}
  PROVE  Exact([r \in DOMAIN h |-> IF r \in T THEN h[r] + 1 ELSE h[r]], S \cup T)
  <1>1. DOMAIN h = SyncResources /\ \A r \in SyncResources : h[r] = IF r \in S THEN 1 ELSE 0
    BY DEF Exact
  <1>2. \A r \in SyncResources : (IF r \in T THEN h[r] + 1 ELSE h[r]) = IF r \in S \cup T THEN 1 ELSE 0
    BY <1>1
  <1> QED
    BY <1>1, <1>2 DEF Exact

\* What is released is held no more.
LEMMA ExactRelease ==
  ASSUME NEW h, NEW S, NEW T, Exact(h, S), S \subseteq SyncResources, T \subseteq S
  PROVE  Exact([r \in DOMAIN h |-> IF r \in T THEN h[r] - 1 ELSE h[r]], S \ T)
  <1>1. DOMAIN h = SyncResources /\ \A r \in SyncResources : h[r] = IF r \in S THEN 1 ELSE 0
    BY DEF Exact
  <1>2. \A r \in SyncResources : (IF r \in T THEN h[r] - 1 ELSE h[r]) = IF r \in S \ T THEN 1 ELSE 0
    BY <1>1
  <1> QED
    BY <1>1, <1>2 DEF Exact

\* The count of a resource says whether it is held.
LEMMA ExactCounts ==
  ASSUME NEW h, NEW S, Exact(h, S)
  PROVE  /\ h \in [SyncResources -> 0 .. 1]
         /\ \A r \in SyncResources : (h[r] = 1 <=> r \in S) /\ (h[r] = 0 <=> r \notin S)
  BY DEF Exact

\* A call that can fail.
LEMMA Tried ==
  ASSUME NEW at, NEW next, NEW fail, NEW S, NEW T, Try(at, next, fail, T),
         Exact(held, S), T \subseteq SyncResources, T \cap S = {}
  PROVE  /\ pc = at /\ devStatus' = devStatus
         /\ \/ pc' = next /\ Exact(held', S \cup T)
            \/ pc' = fail /\ Exact(held', S)
  <1>1. Exact([r \in DOMAIN held |-> IF r \in T THEN held[r] + 1 ELSE held[r]], S \cup T)
    BY ExactAcquire
  <1> QED
    BY <1>1 DEF Try, Acquire

\* A cleanup step.
LEMMA Undone ==
  ASSUME NEW at, NEW next, NEW S, NEW T, Undo(at, next, T),
         Exact(held, S), S \subseteq SyncResources, T \subseteq S
  PROVE  pc = at /\ devStatus' = devStatus /\ pc' = next /\ Exact(held', S \ T)
  <1>1. Exact([r \in DOMAIN held |-> IF r \in T THEN held[r] - 1 ELSE held[r]], S \ T)
    BY ExactRelease
  <1> QED
    BY <1>1 DEF Undo, Release

\* What is held between calls by a driver that is bound.
LEMMA HeldBound ==
  /\ Base = {"dev", "virtIo", "ring", "ringMap", "exitBoot", "iface"}
  /\ Base \subseteq SyncResources /\ ReqRes \subseteq SyncResources /\ ReqRes \cap Base = {}
  /\ Bound => held["ring"] = 1 /\ held["virtIo"] = 1 /\ held["exitBoot"] = 1 /\ held["iface"] = 1
  /\ Unbound => held["ring"] = 0 /\ held["virtIo"] = 0 /\ held["exitBoot"] = 0 /\ held["iface"] = 0
  <1>1. /\ Base = {"dev", "virtIo", "ring", "ringMap", "exitBoot", "iface"}
        /\ Base \subseteq SyncResources /\ ReqRes \subseteq SyncResources /\ ReqRes \cap Base = {}
    BY DEF Base, BindRes, RingRes, ReqRes, SyncResources
  <1>2. {"dev", "virtIo", "ring", "ringMap", "exitBoot", "iface"} \subseteq SyncResources
    BY <1>1
  <1> QED
    BY <1>1, <1>2, ExactCounts DEF Bound, Unbound

\* At the labels of the driver binding and of Init the ledger says this ...
LEMMA HeldBinding ==
  ASSUME Ledger, pc \in BindingLabels
  PROVE  BindingHeld(pc, held)
  BY DEF Ledger, BlkHeld, ScsiHeld, RngHeld, FlushLabels,
         BindingLabels, DevLabels, OpenLabels, RingLabels, MapLabels, EventLabels

\* ... and it is kept by a step that makes it so.
LEMMA LedgerBinding ==
  ASSUME Ledger, UNCHANGED <<drv, req>>, BindingHeld(pc', held')
  PROVE  Ledger'
  <1>1. LabelLengths'
    BY DEF LabelLengths, BindingHeld, DevLabels, OpenLabels, RingLabels, MapLabels, EventLabels
  <1> QED
    BY <1>1 DEF Ledger

\* A step that ends between two calls keeps the ledger if nothing, or all that a
\* bound driver has, is held.
LEMMA LedgerIdle ==
  ASSUME Ledger, drv' = drv, req' \in [pos : Nat, in : Nat, out : Nat], pc' = "idle",
         Exact(held', {}) \/ Exact(held', Base)
  PROVE  Ledger'
  <1>1. Bound' \/ Unbound'
    BY DEF Bound, Unbound
  <1>2. LabelLengths'
    BY DEF LabelLengths
  <1> QED
    BY <1>1, <1>2 DEF Ledger

\* The steps of Init.
LEMMA LedgerInit ==
  ASSUME Ledger, NEW m, NEW after \in {"InitDriverOk", "CfgWrite"}, InitSteps(m, after),
         UNCHANGED <<drv, req>>
  PROVE  Ledger'
  <1> USE DEF BindingLabels, DevLabels, OpenLabels, RingLabels, MapLabels, EventLabels
  <1>1. CASE Try("RingInit", "RingMap", "Failed", {"ring"})
    <2>1. Exact(held, {"dev", "virtIo"})
      BY <1>1, HeldBinding DEF Try, BindingHeld
    <2>2. \/ pc' = "RingMap" /\ Exact(held', {"dev", "virtIo"} \cup {"ring"})
          \/ pc' = "Failed" /\ Exact(held', {"dev", "virtIo"})
      BY <1>1, <2>1, Tried DEF SyncResources, BindRes, RingRes
    <2>3. {"dev", "virtIo"} \cup {"ring"} = {"dev", "virtIo", "ring"}
      OBVIOUS
    <2> QED
      BY <2>2, <2>3, LedgerBinding DEF BindingHeld
  <1>2. CASE Try("RingMap", "QueueAddress", "ReleaseQueue", {"ringMap"})
    <2>1. Exact(held, {"dev", "virtIo", "ring"})
      BY <1>2, HeldBinding DEF Try, BindingHeld
    <2>2. \/ pc' = "QueueAddress" /\ Exact(held', {"dev", "virtIo", "ring"} \cup {"ringMap"})
          \/ pc' = "ReleaseQueue" /\ Exact(held', {"dev", "virtIo", "ring"})
      BY <1>2, <2>1, Tried DEF SyncResources, BindRes, RingRes
    <2>3. {"dev", "virtIo", "ring"} \cup {"ringMap"} = {"dev", "virtIo", "ring", "ringMap"}
      OBVIOUS
    <2> QED
      BY <2>2, <2>3, LedgerBinding DEF BindingHeld
  <1>3. CASE Try("QueueAddress", IF modern THEN after ELSE "GuestFeatures", "UnmapQueue", {})
    <2>1. Exact(held, {"dev", "virtIo", "ring", "ringMap"})
      BY <1>3, HeldBinding DEF Try, BindingHeld
    <2>2. /\ pc' \in {after, "GuestFeatures", "UnmapQueue"}
          /\ Exact(held', {"dev", "virtIo", "ring", "ringMap"} \cup {}) \/ Exact(held', {"dev", "virtIo", "ring", "ringMap"})
      BY <1>3, <2>1, Tried
    <2>3. {"dev", "virtIo", "ring", "ringMap"} \cup {} = {"dev", "virtIo", "ring", "ringMap"}
      OBVIOUS
    <2> QED
      BY <2>2, <2>3, LedgerBinding DEF BindingHeld
  <1>4. CASE Try("GuestFeatures", after, "UnmapQueue", {})
    <2>1. Exact(held, {"dev", "virtIo", "ring", "ringMap"})
      BY <1>4, HeldBinding DEF Try, BindingHeld
    <2>2. /\ pc' \in {after, "UnmapQueue"}
          /\ Exact(held', {"dev", "virtIo", "ring", "ringMap"} \cup {}) \/ Exact(held', {"dev", "virtIo", "ring", "ringMap"})
      BY <1>4, <2>1, Tried
    <2>3. {"dev", "virtIo", "ring", "ringMap"} \cup {} = {"dev", "virtIo", "ring", "ringMap"}
      OBVIOUS
    <2> QED
      BY <2>2, <2>3, LedgerBinding DEF BindingHeld
  <1>5. CASE Undo("UnmapQueue", "ReleaseQueue", {"ringMap"})
    <2>1. Exact(held, {"dev", "virtIo", "ring", "ringMap"})
      BY <1>5, HeldBinding DEF Undo, BindingHeld
    <2>2. pc' = "ReleaseQueue" /\ Exact(held', {"dev", "virtIo", "ring", "ringMap"} \ {"ringMap"})
      BY <1>5, <2>1, Undone DEF SyncResources, BindRes, RingRes
    <2>3. {"dev", "virtIo", "ring", "ringMap"} \ {"ringMap"} = {"dev", "virtIo", "ring"}
      OBVIOUS
    <2> QED
      BY <2>2, <2>3, LedgerBinding DEF BindingHeld
  <1>6. CASE Undo("ReleaseQueue", "Failed", {"ring"})
    <2>1. Exact(held, {"dev", "virtIo", "ring"})
      BY <1>6, HeldBinding DEF Undo, BindingHeld
    <2>2. pc' = "Failed" /\ Exact(held', {"dev", "virtIo", "ring"} \ {"ring"})
      BY <1>6, <2>1, Undone DEF SyncResources, BindRes, RingRes
    <2>3. {"dev", "virtIo", "ring"} \ {"ring"} = {"dev", "virtIo"}
      OBVIOUS
    <2> QED
      BY <2>2, <2>3, LedgerBinding DEF BindingHeld
  <1>7. ASSUME held' = held, pc \in OpenLabels, pc' \in OpenLabels PROVE Ledger'
    BY <1>7, HeldBinding, LedgerBinding DEF BindingHeld
  <1>8. CASE SetNext("InitDriverOk", "CreateExitBoot", "UnmapQueue", "DRIVER_OK", DriverOkMayFail)
    BY <1>8, HeldBinding, LedgerBinding DEF SetNext, BindingHeld
  <1>9. CASE QueueSel(m) \/ InitReset \/ FeaturesCheck \/ InitFailed
    BY <1>7, <1>9 DEF QueueSel, InitReset, FeaturesCheck, InitFailed
  <1>10. CASE \/ SetNext("InitAck", "InitDriver", "Failed", "ACK", TRUE)
              \/ SetNext("InitDriver", "InitConfig", "Failed", "DRIVER", TRUE)
              \/ SetNext("FeaturesOk", "FeaturesCheck", "Failed", "FEATURES_OK", TRUE)
    BY <1>7, <1>10 DEF SetNext
  <1> QED
    BY <1>1, <1>2, <1>3, <1>4, <1>5, <1>6, <1>8, <1>9, <1>10 DEF InitSteps

\* The steps of Start and of Stop.
LEMMA LedgerStart ==
  ASSUME Ledger, StartSteps, UNCHANGED <<drv, req>>
  PROVE  Ledger'
  <1> USE DEF BindingLabels, DevLabels, OpenLabels, RingLabels, MapLabels, EventLabels
  <1>0. req' \in [pos : Nat, in : Nat, out : Nat] /\ drv' = drv
    BY DEF Ledger
  <1>1. CASE Try("AllocDev", "OpenVirtIo", "idle", {"dev"})
    <2>1. Exact(held, {})
      BY <1>1, HeldBinding DEF Try, BindingHeld
    <2>2. \/ pc' = "OpenVirtIo" /\ Exact(held', {} \cup {"dev"})
          \/ pc' = "idle" /\ Exact(held', {})
      BY <1>1, <2>1, Tried DEF SyncResources, BindRes, RingRes
    <2>3. {} \cup {"dev"} = {"dev"}
      OBVIOUS
    <2> QED
      BY <2>2, <2>3, <1>0, LedgerBinding, LedgerIdle DEF BindingHeld
  <1>2. CASE Try("OpenVirtIo", "InitReset", "FreeDev", {"virtIo"})
    <2>1. Exact(held, {"dev"})
      BY <1>2, HeldBinding DEF Try, BindingHeld
    <2>2. \/ pc' = "InitReset" /\ Exact(held', {"dev"} \cup {"virtIo"})
          \/ pc' = "FreeDev" /\ Exact(held', {"dev"})
      BY <1>2, <2>1, Tried DEF SyncResources, BindRes, RingRes
    <2>3. {"dev"} \cup {"virtIo"} = {"dev", "virtIo"}
      OBVIOUS
    <2> QED
      BY <2>2, <2>3, LedgerBinding DEF BindingHeld
  <1>3. CASE Try("CreateExitBoot", "Install", "UninitReset", {"exitBoot"})
    <2>1. Exact(held, {"dev", "virtIo", "ring", "ringMap"})
      BY <1>3, HeldBinding DEF Try, BindingHeld
    <2>2. \/ pc' = "Install" /\ Exact(held', {"dev", "virtIo", "ring", "ringMap"} \cup {"exitBoot"})
          \/ pc' = "UninitReset" /\ Exact(held', {"dev", "virtIo", "ring", "ringMap"})
      BY <1>3, <2>1, Tried DEF SyncResources, BindRes, RingRes
    <2>3. {"dev", "virtIo", "ring", "ringMap"} \cup {"exitBoot"} = {"dev", "virtIo", "ring", "ringMap", "exitBoot"}
      OBVIOUS
    <2> QED
      BY <2>2, <2>3, LedgerBinding DEF BindingHeld
  <1>4. CASE Try("Install", "idle", "CloseExitBoot", {"iface"})
    <2>1. Exact(held, {"dev", "virtIo", "ring", "ringMap", "exitBoot"})
      BY <1>4, HeldBinding DEF Try, BindingHeld
    <2>2. \/ pc' = "idle" /\ Exact(held', {"dev", "virtIo", "ring", "ringMap", "exitBoot"} \cup {"iface"})
          \/ pc' = "CloseExitBoot" /\ Exact(held', {"dev", "virtIo", "ring", "ringMap", "exitBoot"})
      BY <1>4, <2>1, Tried DEF SyncResources, BindRes, RingRes
    <2>3. {"dev", "virtIo", "ring", "ringMap", "exitBoot"} \cup {"iface"} = {"dev", "virtIo", "ring", "ringMap", "exitBoot", "iface"}
      OBVIOUS
    <2> QED
      BY <2>2, <2>3, <1>0, HeldBound, LedgerBinding, LedgerIdle DEF BindingHeld
  <1>5. CASE Undo("CloseExitBoot", "UninitReset", {"exitBoot"})
    <2>1. Exact(held, {"dev", "virtIo", "ring", "ringMap", "exitBoot"})
      BY <1>5, HeldBinding DEF Undo, BindingHeld
    <2>2. pc' = "UninitReset" /\ Exact(held', {"dev", "virtIo", "ring", "ringMap", "exitBoot"} \ {"exitBoot"})
      BY <1>5, <2>1, Undone DEF SyncResources, BindRes, RingRes
    <2>3. {"dev", "virtIo", "ring", "ringMap", "exitBoot"} \ {"exitBoot"} = {"dev", "virtIo", "ring", "ringMap"}
      OBVIOUS
    <2> QED
      BY <2>2, <2>3, LedgerBinding DEF BindingHeld
  <1>6. CASE Undo("UninitRing", "CloseVirtIo", {"ringMap", "ring"})
    <2>1. Exact(held, {"dev", "virtIo", "ring", "ringMap"})
      BY <1>6, HeldBinding DEF Undo, BindingHeld
    <2>2. pc' = "CloseVirtIo" /\ Exact(held', {"dev", "virtIo", "ring", "ringMap"} \ {"ringMap", "ring"})
      BY <1>6, <2>1, Undone DEF SyncResources, BindRes, RingRes
    <2>3. {"dev", "virtIo", "ring", "ringMap"} \ {"ringMap", "ring"} = {"dev", "virtIo"}
      OBVIOUS
    <2> QED
      BY <2>2, <2>3, LedgerBinding DEF BindingHeld
  <1>7. CASE Undo("CloseVirtIo", "FreeDev", {"virtIo"})
    <2>1. Exact(held, {"dev", "virtIo"})
      BY <1>7, HeldBinding DEF Undo, BindingHeld
    <2>2. pc' = "FreeDev" /\ Exact(held', {"dev", "virtIo"} \ {"virtIo"})
      BY <1>7, <2>1, Undone DEF SyncResources, BindRes, RingRes
    <2>3. {"dev", "virtIo"} \ {"virtIo"} = {"dev"}
      OBVIOUS
    <2> QED
      BY <2>2, <2>3, LedgerBinding DEF BindingHeld
  <1>8. CASE Undo("FreeDev", "idle", {"dev"})
    <2>1. Exact(held, {"dev"})
      BY <1>8, HeldBinding DEF Undo, BindingHeld
    <2>2. pc' = "idle" /\ Exact(held', {"dev"} \ {"dev"})
      BY <1>8, <2>1, Undone DEF SyncResources, BindRes, RingRes
    <2>3. {"dev"} \ {"dev"} = {}
      OBVIOUS
    <2> QED
      BY <2>2, <2>3, <1>0, LedgerBinding, LedgerIdle DEF BindingHeld
  <1>9. CASE WriteStatus("UninitReset", "UninitRing", {})
    BY <1>9, HeldBinding, LedgerBinding DEF WriteStatus, BindingHeld
  <1> QED
    BY <1>1, <1>2, <1>3, <1>4, <1>5, <1>6, <1>7, <1>8, <1>9 DEF StartSteps, UninitSteps

\* The same for what a request acquires and releases on top of the binding.
LEMMA TriedReq ==
  ASSUME NEW at, NEW next, NEW fail, NEW S, NEW T, Try(at, next, fail, T),
         Exact(held, Base \cup S), T \subseteq ReqRes, T \cap S = {}
  PROVE  /\ pc = at /\ devStatus' = devStatus
         /\ \/ pc' = next /\ Exact(held', Base \cup (S \cup T))
            \/ pc' = fail /\ Exact(held', Base \cup S)
  <1>1. T \subseteq SyncResources /\ T \cap (Base \cup S) = {}
    BY HeldBound
  <1>2. (Base \cup S) \cup T = Base \cup (S \cup T)
    OBVIOUS
  <1> QED
    BY <1>1, <1>2, Tried

\* A cleanup step of a request.
LEMMA UndoneReq ==
  ASSUME NEW at, NEW next, NEW S, NEW T, Undo(at, next, T),
         Exact(held, Base \cup S), S \subseteq ReqRes, T \subseteq S
  PROVE  pc = at /\ devStatus' = devStatus /\ pc' = next /\ Exact(held', Base \cup (S \ T))
  <1>1. Base \cup S \subseteq SyncResources /\ T \subseteq Base \cup S
    BY HeldBound
  <1>2. (Base \cup S) \ T = Base \cup (S \ T)
    BY HeldBound
  <1> QED
    BY <1>1, <1>2, Undone

BlkLabels  == {"BlkAllocStatus", "BlkMapRequest", "BlkMapData", "BlkMapStatus", "BlkSubmit",
               "BlkUnmapStatus", "BlkUnmapData", "BlkUnmapRequest", "BlkFreeStatus"}
ScsiLabels == {"ScsiMapRequest", "ScsiAllocIn", "ScsiMapIn", "ScsiMapOut", "ScsiAllocResponse",
               "ScsiMapResponse", "ScsiSubmit", "ScsiUnmapResponse", "ScsiFreeResponse", "ScsiUnmapOut",
               "ScsiUnmapIn", "ScsiFreeIn", "ScsiUnmapRequest"}
RngLabels  == {"RngAlloc", "RngMap", "RngLoop", "RngUnmapBuffer", "RngFree"}

\* What is held at the labels of a request ...
LEMMA HeldBlk ==
  ASSUME Ledger, pc \in BlkLabels \/ (drv = "blk" /\ pc \in FlushLabels)
  PROVE  drv = "blk" /\ BlkHeld(pc, held, req)
  BY DEF Ledger, BlkLabels, BindingHeld, ScsiHeld, RngHeld, FlushLabels,
         DevLabels, OpenLabels, RingLabels, MapLabels, EventLabels

\* The same at the labels of VirtioScsiPassThru ...
LEMMA HeldScsi ==
  ASSUME Ledger, pc \in ScsiLabels \/ (drv = "scsi" /\ pc \in FlushLabels)
  PROVE  drv = "scsi" /\ ScsiHeld(pc, held, req)
  BY DEF Ledger, ScsiLabels, BindingHeld, BlkHeld, RngHeld, FlushLabels,
         DevLabels, OpenLabels, RingLabels, MapLabels, EventLabels

\* ... and at those of VirtioRngGetRNG.
LEMMA HeldRng ==
  ASSUME Ledger, pc \in RngLabels \/ (drv = "rng" /\ pc \in FlushLabels)
  PROVE  drv = "rng" /\ RngHeld(pc, held)
  BY DEF Ledger, RngLabels, BindingHeld, BlkHeld, ScsiHeld, FlushLabels,
         DevLabels, OpenLabels, RingLabels, MapLabels, EventLabels

\* ... and the steps that keep the ledger.
LEMMA LedgerBlk ==
  ASSUME Ledger, UNCHANGED <<drv, req>>, drv = "blk", BlkHeld(pc', held', req),
         pc' = "BlkMapData" => req.in + req.out > 0
  PROVE  Ledger'
  <1>1. BlkHeld(pc', held', req')
    OBVIOUS
  <1>2. LabelLengths'
    BY DEF LabelLengths, BlkHeld, FlushLabels
  <1> QED
    BY <1>1, <1>2 DEF Ledger

\* The same for VirtioScsiPassThru ...
LEMMA LedgerScsi ==
  ASSUME Ledger, UNCHANGED <<drv, req>>, drv = "scsi", ScsiHeld(pc', held', req),
         pc' \in {"ScsiAllocIn", "ScsiMapIn", "ScsiMapOut", "ScsiAllocResponse", "ScsiMapResponse", "ScsiSubmit"} =>
           pkt' = req,
         pc' \in {"ScsiAllocIn", "ScsiMapIn"} => req.in > 0, pc' = "ScsiMapOut" => req.out > 0,
         pc' # "ScsiMapRequest"
  PROVE  Ledger'
  <1>1. ScsiHeld(pc', held', req')
    OBVIOUS
  <1>2. LabelLengths'
    BY DEF LabelLengths, ScsiHeld, FlushLabels
  <1> QED
    BY <1>1, <1>2 DEF Ledger

\* ... and for VirtioRngGetRNG.
LEMMA LedgerRng ==
  ASSUME Ledger, UNCHANGED <<drv, req>>, drv = "rng", RngHeld(pc', held')
  PROVE  Ledger'
  <1>1. LabelLengths'
    BY DEF LabelLengths, RngHeld, FlushLabels
  <1> QED
    BY <1>1 DEF Ledger

\* SynchronousRequest.
LEMMA LedgerBlkRequest ==
  ASSUME Ledger, drv = "blk", SynchronousRequest
  PROVE  Ledger'
  <1>0. /\ UNCHANGED <<drv, req>> /\ req' \in [pos : Nat, in : Nat, out : Nat]
    BY DEF SynchronousRequest, BlkMapSteps, BlkMapStatus, BlkSubmit, Flush, BlkFlushed, BlkUnmapData,
           BlkUnmapSteps, MemoryStep, Submit, Return, reqVars, confVars, Ledger
  <1>a. /\ DataOf(req) \subseteq {"dataMap"} /\ DataOf(req) = DataMap
        /\ HasData => DataOf(req) = {"dataMap"} /\ req.in + req.out > 0
        /\ ~HasData => DataOf(req) = {}
        /\ pc = "BlkMapData" => HasData
    BY DEF DataOf, DataMap, HasData, Ledger, LabelLengths
  <1>b. Base \cup {} = Base
    OBVIOUS
  <1>1. CASE Try("BlkAllocStatus", "BlkMapRequest", "idle", {"hostStatus"})
    <2>1. Exact(held, Base \cup {})
      BY <1>1, HeldBlk, <1>b DEF Try, BlkHeld, BlkLabels, FlushLabels
    <2>2. \/ pc' = "BlkMapRequest" /\ Exact(held', Base \cup ({} \cup {"hostStatus"}))
          \/ pc' = "idle" /\ Exact(held', Base \cup {})
      <3>1. {"hostStatus"} \subseteq ReqRes /\ {"hostStatus"} \cap {} = {}
        BY <1>a DEF ReqRes
      <3> QED
        BY <1>1, <2>1, <3>1, TriedReq
    <2>3. {} \cup {"hostStatus"} = {"hostStatus"}
      BY <1>a
    <2> QED
      BY <1>0, <1>a, <1>b, <2>2, <2>3, LedgerBlk, LedgerIdle DEF BlkHeld, BlkLabels, FlushLabels
  <1>2. CASE Try("BlkMapRequest", IF HasData THEN "BlkMapData" ELSE "BlkMapStatus", "BlkFreeStatus", {"reqMap"})
    <2> DEFINE next == IF HasData THEN "BlkMapData" ELSE "BlkMapStatus"
    <2>1. Exact(held, Base \cup {"hostStatus"}) /\ Try("BlkMapRequest", next, "BlkFreeStatus", {"reqMap"})
      BY <1>2, HeldBlk DEF Try, BlkHeld, BlkLabels, FlushLabels
    <2>2. (HasData => next = "BlkMapData") /\ (~HasData => next = "BlkMapStatus")
      OBVIOUS
    <2> HIDE DEF next
    <2>3. \/ pc' = next /\ Exact(held', Base \cup ({"hostStatus"} \cup {"reqMap"}))
          \/ pc' = "BlkFreeStatus" /\ Exact(held', Base \cup {"hostStatus"})
      <3>1. {"reqMap"} \subseteq ReqRes /\ {"reqMap"} \cap {"hostStatus"} = {}
        BY DEF ReqRes
      <3> QED
        BY <2>1, <3>1, TriedReq
    <2>4. /\ {"hostStatus"} \cup {"reqMap"} = {"hostStatus", "reqMap"}
          /\ ~HasData => {"hostStatus"} \cup {"reqMap"} = {"hostStatus", "reqMap"} \cup DataOf(req)
      BY <1>a
    <2>5. BlkHeld(pc', held', req) /\ (pc' = "BlkMapData" => HasData)
      <3>1. CASE pc' = "BlkFreeStatus" /\ Exact(held', Base \cup {"hostStatus"})
        BY <3>1 DEF BlkHeld
      <3>2. CASE HasData /\ pc' = next /\ Exact(held', Base \cup ({"hostStatus"} \cup {"reqMap"}))
        BY <2>2, <2>4, <3>2 DEF BlkHeld
      <3>3. CASE ~HasData /\ pc' = next /\ Exact(held', Base \cup ({"hostStatus"} \cup {"reqMap"}))
        <4>1. pc' = "BlkMapStatus" /\ Exact(held', Base \cup ({"hostStatus", "reqMap"} \cup DataOf(req)))
          BY <2>2, <2>4, <3>3
        <4> QED
          BY <4>1 DEF BlkHeld
      <3> QED
        BY <2>3, <3>1, <3>2, <3>3
    <2> QED
      BY <1>0, <1>a, <2>5, LedgerBlk
  <1>3. CASE Try("BlkMapData", "BlkMapStatus", "BlkUnmapRequest", {"dataMap"})
    <2>1. Exact(held, Base \cup {"hostStatus", "reqMap"})
      BY <1>3, HeldBlk, <1>b DEF Try, BlkHeld, BlkLabels, FlushLabels
    <2>2. \/ pc' = "BlkMapStatus" /\ Exact(held', Base \cup ({"hostStatus", "reqMap"} \cup {"dataMap"}))
          \/ pc' = "BlkUnmapRequest" /\ Exact(held', Base \cup {"hostStatus", "reqMap"})
      <3>1. {"dataMap"} \subseteq ReqRes /\ {"dataMap"} \cap {"hostStatus", "reqMap"} = {}
        BY <1>a DEF ReqRes
      <3> QED
        BY <1>3, <2>1, <3>1, TriedReq
    <2>3. {"hostStatus", "reqMap"} \cup {"dataMap"} = {"hostStatus", "reqMap"} \cup DataOf(req)
      BY <1>3, <1>a DEF Try
    <2> QED
      BY <1>0, <1>a, <1>b, <2>2, <2>3, LedgerBlk DEF BlkHeld, BlkLabels, FlushLabels
  <1>4. CASE Try("BlkMapStatus", "BlkSubmit", "BlkUnmapData", {"statusMap"})
    <2>1. Exact(held, Base \cup ({"hostStatus", "reqMap"} \cup DataOf(req)))
      BY <1>4, HeldBlk, <1>b DEF Try, BlkHeld, BlkLabels, FlushLabels
    <2>2. \/ pc' = "BlkSubmit" /\ Exact(held', Base \cup (({"hostStatus", "reqMap"} \cup DataOf(req)) \cup {"statusMap"}))
          \/ pc' = "BlkUnmapData" /\ Exact(held', Base \cup ({"hostStatus", "reqMap"} \cup DataOf(req)))
      <3>1. {"statusMap"} \subseteq ReqRes /\ {"statusMap"} \cap ({"hostStatus", "reqMap"} \cup DataOf(req)) = {}
        BY <1>a DEF ReqRes
      <3> QED
        BY <1>4, <2>1, <3>1, TriedReq
    <2>3. ({"hostStatus", "reqMap"} \cup DataOf(req)) \cup {"statusMap"} = ({"hostStatus", "reqMap", "statusMap"} \cup DataOf(req))
      BY <1>a
    <2> QED
      BY <1>0, <1>a, <1>b, <2>2, <2>3, LedgerBlk DEF BlkHeld, BlkLabels, FlushLabels
  <1>5. CASE Undo("BlkUnmapStatus", "BlkUnmapData", {"statusMap"})
    <2>1. Exact(held, Base \cup ({"hostStatus", "reqMap", "statusMap"} \cup DataOf(req)))
      BY <1>5, HeldBlk, <1>b DEF Undo, BlkHeld, BlkLabels, FlushLabels
    <2>2. pc' = "BlkUnmapData" /\ Exact(held', Base \cup (({"hostStatus", "reqMap", "statusMap"} \cup DataOf(req)) \ {"statusMap"}))
      <3>1. ({"hostStatus", "reqMap", "statusMap"} \cup DataOf(req)) \subseteq ReqRes /\ {"statusMap"} \subseteq ({"hostStatus", "reqMap", "statusMap"} \cup DataOf(req))
        BY <1>a DEF ReqRes
      <3> QED
        BY <1>5, <2>1, <3>1, UndoneReq
    <2>3. ({"hostStatus", "reqMap", "statusMap"} \cup DataOf(req)) \ {"statusMap"} = ({"hostStatus", "reqMap"} \cup DataOf(req))
      BY <1>a
    <2> QED
      BY <1>0, <1>a, <1>b, <2>2, <2>3, LedgerBlk DEF BlkHeld, BlkLabels, FlushLabels
  <1>6. CASE Undo("BlkUnmapData", "BlkUnmapRequest", DataMap)
    <2>1. Exact(held, Base \cup ({"hostStatus", "reqMap"} \cup DataOf(req)))
      BY <1>6, HeldBlk, <1>b DEF Undo, BlkHeld, BlkLabels, FlushLabels
    <2>2. pc' = "BlkUnmapRequest" /\ Exact(held', Base \cup (({"hostStatus", "reqMap"} \cup DataOf(req)) \ DataMap))
      <3>1. ({"hostStatus", "reqMap"} \cup DataOf(req)) \subseteq ReqRes /\ DataMap \subseteq ({"hostStatus", "reqMap"} \cup DataOf(req))
        BY <1>a DEF ReqRes
      <3> QED
        BY <1>6, <2>1, <3>1, UndoneReq
    <2>3. ({"hostStatus", "reqMap"} \cup DataOf(req)) \ DataMap = {"hostStatus", "reqMap"}
      BY <1>a
    <2> QED
      BY <1>0, <1>a, <1>b, <2>2, <2>3, LedgerBlk DEF BlkHeld, BlkLabels, FlushLabels
  <1>7. CASE Undo("BlkUnmapRequest", "BlkFreeStatus", {"reqMap"})
    <2>1. Exact(held, Base \cup {"hostStatus", "reqMap"})
      BY <1>7, HeldBlk, <1>b DEF Undo, BlkHeld, BlkLabels, FlushLabels
    <2>2. pc' = "BlkFreeStatus" /\ Exact(held', Base \cup ({"hostStatus", "reqMap"} \ {"reqMap"}))
      <3>1. {"hostStatus", "reqMap"} \subseteq ReqRes /\ {"reqMap"} \subseteq {"hostStatus", "reqMap"}
        BY <1>a DEF ReqRes
      <3> QED
        BY <1>7, <2>1, <3>1, UndoneReq
    <2>3. {"hostStatus", "reqMap"} \ {"reqMap"} = {"hostStatus"}
      BY <1>a
    <2> QED
      BY <1>0, <1>a, <1>b, <2>2, <2>3, LedgerBlk DEF BlkHeld, BlkLabels, FlushLabels
  <1>8. CASE Undo("BlkFreeStatus", "idle", {"hostStatus"})
    <2>1. Exact(held, Base \cup {"hostStatus"})
      BY <1>8, HeldBlk, <1>b DEF Undo, BlkHeld, BlkLabels, FlushLabels
    <2>2. pc' = "idle" /\ Exact(held', Base \cup ({"hostStatus"} \ {"hostStatus"}))
      <3>1. {"hostStatus"} \subseteq ReqRes /\ {"hostStatus"} \subseteq {"hostStatus"}
        BY <1>a DEF ReqRes
      <3> QED
        BY <1>8, <2>1, <3>1, UndoneReq
    <2>3. {"hostStatus"} \ {"hostStatus"} = {}
      BY <1>a
    <2> QED
      BY <1>0, <1>a, <1>b, <2>2, <2>3, LedgerBlk, LedgerIdle DEF BlkHeld, BlkLabels, FlushLabels
  <1>9. ASSUME held' = held, pc \in {"BlkSubmit"} \cup FlushLabels, pc' \in FlushLabels \cup {"BlkUnmapStatus"}
        PROVE  Ledger'
    BY <1>0, <1>9, HeldBlk, LedgerBlk DEF BlkHeld, BlkLabels, FlushLabels
  <1>10. CASE BlkSubmit \/ Flush \/ BlkFlushed
    BY <1>9, <1>10 DEF BlkSubmit, Submit, Goto, Flush, FlushSteps, FlushPublish, FlushNotify,
                       FlushNotifyFails, FlushPoll, BlkFlushed, FlushLabels
  <1> QED
    BY <1>1, <1>2, <1>3, <1>4, <1>5, <1>6, <1>7, <1>8, <1>10
       DEF SynchronousRequest, BlkMapSteps, BlkMapStatus, BlkUnmapData, BlkUnmapSteps, Return

\* VirtioScsiPassThru.  The maps and the bounce buffer for a direction are there
\* exactly if the packet had a length for it.
LEMMA ScsiSets ==
  ASSUME Ledger
  PROVE  /\ req.in \in Nat /\ req.out \in Nat
         /\ req.in > 0 => InOf(req) = {"inBuf", "inMap"} /\ InBufOf(req) = {"inBuf"}
         /\ ~(req.in > 0) => InOf(req) = {} /\ InBufOf(req) = {}
         /\ req.out > 0 => OutOf(req) = {"outMap"}
         /\ ~(req.out > 0) => OutOf(req) = {}
         /\ InOf(req) \subseteq {"inBuf", "inMap"} /\ InBufOf(req) \subseteq {"inBuf"}
         /\ OutOf(req) \subseteq {"outMap"}
  BY DEF Ledger, InOf, InBufOf, OutOf

\* The steps of VirtioScsiPassThru keep the ledger: its cleanup goes by what is held, not
\* by the lengths in the packet, which may have been zeroed.
LEMMA LedgerScsiRequest ==
  ASSUME Ledger, drv = "scsi", PassThruSteps
  PROVE  Ledger'
  <1>0. /\ UNCHANGED <<drv, req>> /\ req' \in [pos : Nat, in : Nat, out : Nat]
    BY DEF PassThruSteps, ScsiMapSteps, ScsiTry, ScsiMapResponse, ScsiSubmit, Flush, ScsiFlushed, ScsiUnmapSteps,
           MemoryStep, Submit, Return, reqVars, confVars, Ledger
  <1>a. /\ req.in > 0 => InOf(req) = {"inBuf", "inMap"} /\ InBufOf(req) = {"inBuf"}
        /\ ~(req.in > 0) => InOf(req) = {} /\ InBufOf(req) = {}
        /\ req.out > 0 => OutOf(req) = {"outMap"}
        /\ ~(req.out > 0) => OutOf(req) = {}
        /\ InOf(req) \subseteq {"inBuf", "inMap"} /\ InBufOf(req) \subseteq {"inBuf"}
        /\ OutOf(req) \subseteq {"outMap"}
    BY ScsiSets
  <1>b. Base \cup {} = Base
    OBVIOUS
  <1>c. /\ pc \in {"ScsiMapRequest", "ScsiAllocIn", "ScsiMapIn", "ScsiMapOut", "ScsiAllocResponse",
                   "ScsiMapResponse", "ScsiSubmit"} => pkt = req
        /\ pc \in {"ScsiAllocIn", "ScsiMapIn"} => req.in > 0
        /\ pc = "ScsiMapOut" => req.out > 0
    BY DEF Ledger, LabelLengths
  <1>1. CASE ScsiTry("ScsiMapRequest", AfterReq, "idle", {"reqMap"})
    <2>0. /\ pc = "ScsiMapRequest" /\ Try("ScsiMapRequest", AfterReq, "idle", {"reqMap"})
          /\ pc' = AfterReq /\ pc' # "idle" => pkt' = req
      BY <1>1, <1>c DEF ScsiTry, Try
    <2>1. Exact(held, Base \cup {})
      BY <1>b, <2>0, HeldScsi DEF ScsiHeld, ScsiLabels, FlushLabels
    <2>2. \/ pc' = AfterReq /\ Exact(held', Base \cup ({} \cup {"reqMap"}))
          \/ pc' = "idle" /\ Exact(held', Base \cup {})
      <3>1. {"reqMap"} \subseteq ReqRes /\ {"reqMap"} \cap {} = {}
        BY <1>a DEF ReqRes
      <3> QED
        BY <2>0, <2>1, <3>1, TriedReq
    <2>3. /\ req.in > 0 => AfterReq = "ScsiAllocIn"
          /\ ~(req.in > 0) /\ req.out > 0 => AfterReq = "ScsiMapOut"
          /\ ~(req.in > 0) /\ ~(req.out > 0) => AfterReq = "ScsiAllocResponse"
      BY <1>c, <2>0 DEF AfterReq, AfterIn
    <2>4. CASE pc' = "idle" /\ Exact(held', Base \cup {})
      BY <1>0, <1>b, <2>4, LedgerIdle
    <2>5. CASE pc' = AfterReq /\ Exact(held', Base \cup ({} \cup {"reqMap"}))
      <3>1. /\ pc' = "ScsiAllocIn" => {} \cup {"reqMap"} = {"reqMap"}
            /\ pc' = "ScsiMapOut" => {} \cup {"reqMap"} = {"reqMap"} \cup InOf(req)
            /\ pc' = "ScsiAllocResponse" => {} \cup {"reqMap"} = {"reqMap"} \cup InOf(req) \cup OutOf(req)
        BY <1>a, <2>3, <2>5
      <3>2. ScsiHeld(pc', held', req)
        <4>1. CASE pc' = "ScsiAllocIn"
          BY <2>5, <3>1, <4>1 DEF ScsiHeld
        <4>2. CASE pc' = "ScsiMapOut"
          <5>1. Exact(held', Base \cup ({"reqMap"} \cup InOf(req)))
            BY <2>5, <3>1, <4>2
          <5> QED
            BY <4>2, <5>1 DEF ScsiHeld
        <4>3. CASE pc' = "ScsiAllocResponse"
          <5>1. Exact(held', Base \cup ({"reqMap"} \cup InOf(req) \cup OutOf(req)))
            BY <2>5, <3>1, <4>3
          <5> QED
            BY <4>3, <5>1 DEF ScsiHeld
        <4> QED
          BY <2>3, <2>5, <4>1, <4>2, <4>3
      <3> QED
        BY <1>0, <2>0, <2>3, <2>5, <3>2, LedgerScsi
    <2> QED
      BY <2>2, <2>4, <2>5
  <1>2. CASE ScsiTry("ScsiAllocIn", "ScsiMapIn", "ScsiUnmapRequest", {"inBuf"})
    <2>0. /\ pc = "ScsiAllocIn" /\ Try("ScsiAllocIn", "ScsiMapIn", "ScsiUnmapRequest", {"inBuf"})
          /\ pc' = "ScsiMapIn" /\ pc' # "ScsiUnmapRequest" => pkt' = req
      BY <1>2, <1>c DEF ScsiTry, Try
    <2>1. Exact(held, Base \cup {"reqMap"})
      BY <1>b, <2>0, HeldScsi DEF ScsiHeld, ScsiLabels, FlushLabels
    <2>2. \/ pc' = "ScsiMapIn" /\ Exact(held', Base \cup ({"reqMap"} \cup {"inBuf"}))
          \/ pc' = "ScsiUnmapRequest" /\ Exact(held', Base \cup {"reqMap"})
      <3>1. {"inBuf"} \subseteq ReqRes /\ {"inBuf"} \cap {"reqMap"} = {}
        BY <1>a DEF ReqRes
      <3> QED
        BY <2>0, <2>1, <3>1, TriedReq
    <2>3. {"reqMap"} \cup {"inBuf"} = ({"reqMap"} \cup InBufOf(req))
      BY <1>a, <1>c, <2>0
    <2> QED
      BY <1>0, <1>b, <1>c, <2>0, <2>2, <2>3, LedgerScsi DEF ScsiHeld, ScsiLabels, FlushLabels
  <1>3. CASE ScsiTry("ScsiMapIn", AfterIn, "ScsiFreeIn", {"inMap"})
    <2>0. /\ pc = "ScsiMapIn" /\ Try("ScsiMapIn", AfterIn, "ScsiFreeIn", {"inMap"})
          /\ pc' = AfterIn /\ pc' # "ScsiFreeIn" => pkt' = req
      BY <1>3, <1>c DEF ScsiTry, Try
    <2>1. Exact(held, Base \cup ({"reqMap"} \cup InBufOf(req)))
      BY <1>b, <2>0, HeldScsi DEF ScsiHeld, ScsiLabels, FlushLabels
    <2>2. \/ pc' = AfterIn /\ Exact(held', Base \cup (({"reqMap"} \cup InBufOf(req)) \cup {"inMap"}))
          \/ pc' = "ScsiFreeIn" /\ Exact(held', Base \cup ({"reqMap"} \cup InBufOf(req)))
      <3>1. {"inMap"} \subseteq ReqRes /\ {"inMap"} \cap ({"reqMap"} \cup InBufOf(req)) = {}
        BY <1>a DEF ReqRes
      <3> QED
        BY <2>0, <2>1, <3>1, TriedReq
    <2>3. /\ req.out > 0 => AfterIn = "ScsiMapOut"
          /\ ~(req.out > 0) => AfterIn = "ScsiAllocResponse"
      BY <1>c, <2>0 DEF AfterIn
    <2>4. CASE pc' = "ScsiFreeIn" /\ Exact(held', Base \cup ({"reqMap"} \cup InBufOf(req)))
      <3>1. ScsiHeld(pc', held', req)
        BY <2>4 DEF ScsiHeld
      <3> QED
        BY <1>0, <2>4, <3>1, LedgerScsi
    <2>5. CASE pc' = AfterIn /\ Exact(held', Base \cup (({"reqMap"} \cup InBufOf(req)) \cup {"inMap"}))
      <3>1. /\ pc' = "ScsiMapOut" => ({"reqMap"} \cup InBufOf(req)) \cup {"inMap"} = {"reqMap"} \cup InOf(req)
            /\ pc' = "ScsiAllocResponse" =>
                 ({"reqMap"} \cup InBufOf(req)) \cup {"inMap"} = {"reqMap"} \cup InOf(req) \cup OutOf(req)
        BY <1>a, <1>c, <2>0, <2>3, <2>5
      <3>2. ScsiHeld(pc', held', req)
        <4>2. CASE pc' = "ScsiMapOut"
          <5>1. Exact(held', Base \cup ({"reqMap"} \cup InOf(req)))
            BY <2>5, <3>1, <4>2
          <5> QED
            BY <4>2, <5>1 DEF ScsiHeld
        <4>3. CASE pc' = "ScsiAllocResponse"
          <5>1. Exact(held', Base \cup ({"reqMap"} \cup InOf(req) \cup OutOf(req)))
            BY <2>5, <3>1, <4>3
          <5> QED
            BY <4>3, <5>1 DEF ScsiHeld
        <4> QED
          BY <2>3, <2>5, <4>2, <4>3
      <3> QED
        BY <1>0, <2>0, <2>3, <2>5, <3>2, LedgerScsi
    <2> QED
      BY <2>2, <2>4, <2>5
  <1>4. CASE ScsiTry("ScsiMapOut", "ScsiAllocResponse", "ScsiUnmapIn", {"outMap"})
    <2>0. /\ pc = "ScsiMapOut" /\ Try("ScsiMapOut", "ScsiAllocResponse", "ScsiUnmapIn", {"outMap"})
          /\ pc' = "ScsiAllocResponse" /\ pc' # "ScsiUnmapIn" => pkt' = req
      BY <1>4, <1>c DEF ScsiTry, Try
    <2>1. Exact(held, Base \cup ({"reqMap"} \cup InOf(req)))
      BY <1>b, <2>0, HeldScsi DEF ScsiHeld, ScsiLabels, FlushLabels
    <2>2. \/ pc' = "ScsiAllocResponse" /\ Exact(held', Base \cup (({"reqMap"} \cup InOf(req)) \cup {"outMap"}))
          \/ pc' = "ScsiUnmapIn" /\ Exact(held', Base \cup ({"reqMap"} \cup InOf(req)))
      <3>1. {"outMap"} \subseteq ReqRes /\ {"outMap"} \cap ({"reqMap"} \cup InOf(req)) = {}
        BY <1>a DEF ReqRes
      <3> QED
        BY <2>0, <2>1, <3>1, TriedReq
    <2>3. ({"reqMap"} \cup InOf(req)) \cup {"outMap"} = ({"reqMap"} \cup InOf(req) \cup OutOf(req))
      BY <1>a, <1>c, <2>0
    <2> QED
      BY <1>0, <1>b, <1>c, <2>0, <2>2, <2>3, LedgerScsi DEF ScsiHeld, ScsiLabels, FlushLabels
  <1>5. CASE ScsiTry("ScsiAllocResponse", "ScsiMapResponse", "ScsiUnmapOut", {"resp"})
    <2>0. /\ pc = "ScsiAllocResponse" /\ Try("ScsiAllocResponse", "ScsiMapResponse", "ScsiUnmapOut", {"resp"})
          /\ pc' = "ScsiMapResponse" /\ pc' # "ScsiUnmapOut" => pkt' = req
      BY <1>5, <1>c DEF ScsiTry, Try
    <2>1. Exact(held, Base \cup ({"reqMap"} \cup InOf(req) \cup OutOf(req)))
      BY <1>b, <2>0, HeldScsi DEF ScsiHeld, ScsiLabels, FlushLabels
    <2>2. \/ pc' = "ScsiMapResponse" /\ Exact(held', Base \cup (({"reqMap"} \cup InOf(req) \cup OutOf(req)) \cup {"resp"}))
          \/ pc' = "ScsiUnmapOut" /\ Exact(held', Base \cup ({"reqMap"} \cup InOf(req) \cup OutOf(req)))
      <3>1. {"resp"} \subseteq ReqRes /\ {"resp"} \cap ({"reqMap"} \cup InOf(req) \cup OutOf(req)) = {}
        BY <1>a DEF ReqRes
      <3> QED
        BY <2>0, <2>1, <3>1, TriedReq
    <2>3. ({"reqMap"} \cup InOf(req) \cup OutOf(req)) \cup {"resp"} = ({"reqMap", "resp"} \cup InOf(req) \cup OutOf(req))
      BY <1>a, <1>c, <2>0
    <2> QED
      BY <1>0, <1>b, <1>c, <2>0, <2>2, <2>3, LedgerScsi DEF ScsiHeld, ScsiLabels, FlushLabels
  <1>6. CASE ScsiMapResponse
    <2>0. /\ pc = "ScsiMapResponse" /\ Try("ScsiMapResponse", "ScsiSubmit", "ScsiFreeResponse", {"respMap"})
          /\ pc' = "ScsiSubmit" /\ pc' # "ScsiFreeResponse" => pkt' = req
      BY <1>6, <1>c DEF ScsiMapResponse, Try
    <2>1. Exact(held, Base \cup ({"reqMap", "resp"} \cup InOf(req) \cup OutOf(req)))
      BY <1>b, <2>0, HeldScsi DEF ScsiHeld, ScsiLabels, FlushLabels
    <2>2. \/ pc' = "ScsiSubmit" /\ Exact(held', Base \cup (({"reqMap", "resp"} \cup InOf(req) \cup OutOf(req)) \cup {"respMap"}))
          \/ pc' = "ScsiFreeResponse" /\ Exact(held', Base \cup ({"reqMap", "resp"} \cup InOf(req) \cup OutOf(req)))
      <3>1. {"respMap"} \subseteq ReqRes /\ {"respMap"} \cap ({"reqMap", "resp"} \cup InOf(req) \cup OutOf(req)) = {}
        BY <1>a DEF ReqRes
      <3> QED
        BY <2>0, <2>1, <3>1, TriedReq
    <2>3. ({"reqMap", "resp"} \cup InOf(req) \cup OutOf(req)) \cup {"respMap"} = ({"reqMap", "resp", "respMap"} \cup InOf(req) \cup OutOf(req))
      BY <1>a, <1>c, <2>0
    <2> QED
      BY <1>0, <1>b, <1>c, <2>0, <2>2, <2>3, LedgerScsi DEF ScsiHeld, ScsiLabels, FlushLabels
  <1>7. CASE Undo("ScsiUnmapResponse", "ScsiFreeResponse", {"respMap"})
    <2>1. pc = "ScsiUnmapResponse" /\ Exact(held, Base \cup ({"reqMap", "resp", "respMap"} \cup InOf(req) \cup OutOf(req)))
      BY <1>7, HeldScsi DEF Undo, ScsiHeld, ScsiLabels, FlushLabels
    <2>2. pc' = "ScsiFreeResponse" /\ Exact(held', Base \cup (({"reqMap", "resp", "respMap"} \cup InOf(req) \cup OutOf(req)) \ ({"respMap"})))
      <3>1. ({"reqMap", "resp", "respMap"} \cup InOf(req) \cup OutOf(req)) \subseteq ReqRes /\ ({"respMap"}) \subseteq ({"reqMap", "resp", "respMap"} \cup InOf(req) \cup OutOf(req))
        BY <1>a DEF ReqRes
      <3> QED
        BY <1>7, <2>1, <3>1, UndoneReq
    <2>3. ({"reqMap", "resp", "respMap"} \cup InOf(req) \cup OutOf(req)) \ ({"respMap"}) = ({"reqMap", "resp"} \cup InOf(req) \cup OutOf(req))
      BY <1>a
    <2> QED
      BY <1>0, <1>b, <2>2, <2>3, LedgerScsi DEF ScsiHeld, ScsiLabels, FlushLabels
  <1>8. CASE Undo("ScsiFreeResponse", "ScsiUnmapOut", {"resp"})
    <2>1. pc = "ScsiFreeResponse" /\ Exact(held, Base \cup ({"reqMap", "resp"} \cup InOf(req) \cup OutOf(req)))
      BY <1>8, HeldScsi DEF Undo, ScsiHeld, ScsiLabels, FlushLabels
    <2>2. pc' = "ScsiUnmapOut" /\ Exact(held', Base \cup (({"reqMap", "resp"} \cup InOf(req) \cup OutOf(req)) \ ({"resp"})))
      <3>1. ({"reqMap", "resp"} \cup InOf(req) \cup OutOf(req)) \subseteq ReqRes /\ ({"resp"}) \subseteq ({"reqMap", "resp"} \cup InOf(req) \cup OutOf(req))
        BY <1>a DEF ReqRes
      <3> QED
        BY <1>8, <2>1, <3>1, UndoneReq
    <2>3. ({"reqMap", "resp"} \cup InOf(req) \cup OutOf(req)) \ ({"resp"}) = ({"reqMap"} \cup InOf(req) \cup OutOf(req))
      BY <1>a
    <2> QED
      BY <1>0, <1>b, <2>2, <2>3, LedgerScsi DEF ScsiHeld, ScsiLabels, FlushLabels
  <1>9. CASE Undo("ScsiUnmapOut", "ScsiUnmapIn", OutMapped)
    <2>1. pc = "ScsiUnmapOut" /\ Exact(held, Base \cup ({"reqMap"} \cup InOf(req) \cup OutOf(req)))
      BY <1>9, HeldScsi DEF Undo, ScsiHeld, ScsiLabels, FlushLabels
    <2>p. OutMapped = OutOf(req)
      <3>1. held["outMap"] = 1 <=> "outMap" \in OutOf(req)
        BY <1>a, <2>1, HeldBound, ExactCounts DEF ReqRes
      <3> QED
        BY <1>a, <3>1 DEF OutMapped, InDataBuffer
    <2>2. pc' = "ScsiUnmapIn" /\ Exact(held', Base \cup (({"reqMap"} \cup InOf(req) \cup OutOf(req)) \ (OutMapped)))
      <3>1. ({"reqMap"} \cup InOf(req) \cup OutOf(req)) \subseteq ReqRes /\ (OutMapped) \subseteq ({"reqMap"} \cup InOf(req) \cup OutOf(req))
        BY <1>a, <2>p DEF ReqRes
      <3> QED
        BY <1>9, <2>1, <3>1, UndoneReq
    <2>3. ({"reqMap"} \cup InOf(req) \cup OutOf(req)) \ (OutMapped) = ({"reqMap"} \cup InOf(req))
      BY <1>a, <2>p
    <2> QED
      BY <1>0, <1>b, <2>2, <2>3, LedgerScsi DEF ScsiHeld, ScsiLabels, FlushLabels
  <1>10. CASE Undo("ScsiUnmapIn", "ScsiFreeIn", IF InDataBuffer THEN {"inMap"} ELSE {})
    <2>1. pc = "ScsiUnmapIn" /\ Exact(held, Base \cup ({"reqMap"} \cup InOf(req)))
      BY <1>10, HeldScsi DEF Undo, ScsiHeld, ScsiLabels, FlushLabels
    <2>p. InDataBuffer <=> req.in > 0
      <3>1. held["inBuf"] = 1 <=> "inBuf" \in InOf(req)
        BY <1>a, <2>1, HeldBound, ExactCounts DEF ReqRes
      <3> QED
        BY <1>a, <3>1 DEF OutMapped, InDataBuffer
    <2>2. pc' = "ScsiFreeIn" /\ Exact(held', Base \cup (({"reqMap"} \cup InOf(req)) \ (IF InDataBuffer THEN {"inMap"} ELSE {})))
      <3>1. ({"reqMap"} \cup InOf(req)) \subseteq ReqRes /\ (IF InDataBuffer THEN {"inMap"} ELSE {}) \subseteq ({"reqMap"} \cup InOf(req))
        BY <1>a, <2>p DEF ReqRes
      <3> QED
        BY <1>10, <2>1, <3>1, UndoneReq
    <2>3. ({"reqMap"} \cup InOf(req)) \ (IF InDataBuffer THEN {"inMap"} ELSE {}) = ({"reqMap"} \cup InBufOf(req))
      BY <1>a, <2>p
    <2> QED
      BY <1>0, <1>b, <2>2, <2>3, LedgerScsi DEF ScsiHeld, ScsiLabels, FlushLabels
  <1>11. CASE Undo("ScsiFreeIn", "ScsiUnmapRequest", IF InDataBuffer THEN {"inBuf"} ELSE {})
    <2>1. pc = "ScsiFreeIn" /\ Exact(held, Base \cup ({"reqMap"} \cup InBufOf(req)))
      BY <1>11, HeldScsi DEF Undo, ScsiHeld, ScsiLabels, FlushLabels
    <2>p. InDataBuffer <=> req.in > 0
      <3>1. held["inBuf"] = 1 <=> "inBuf" \in InBufOf(req)
        BY <1>a, <2>1, HeldBound, ExactCounts DEF ReqRes
      <3> QED
        BY <1>a, <3>1 DEF OutMapped, InDataBuffer
    <2>2. pc' = "ScsiUnmapRequest" /\ Exact(held', Base \cup (({"reqMap"} \cup InBufOf(req)) \ (IF InDataBuffer THEN {"inBuf"} ELSE {})))
      <3>1. ({"reqMap"} \cup InBufOf(req)) \subseteq ReqRes /\ (IF InDataBuffer THEN {"inBuf"} ELSE {}) \subseteq ({"reqMap"} \cup InBufOf(req))
        BY <1>a, <2>p DEF ReqRes
      <3> QED
        BY <1>11, <2>1, <3>1, UndoneReq
    <2>3. ({"reqMap"} \cup InBufOf(req)) \ (IF InDataBuffer THEN {"inBuf"} ELSE {}) = {"reqMap"}
      BY <1>a, <2>p
    <2> QED
      BY <1>0, <1>b, <2>2, <2>3, LedgerScsi DEF ScsiHeld, ScsiLabels, FlushLabels
  <1>12. CASE Undo("ScsiUnmapRequest", "idle", {"reqMap"})
    <2>1. pc = "ScsiUnmapRequest" /\ Exact(held, Base \cup {"reqMap"})
      BY <1>12, HeldScsi DEF Undo, ScsiHeld, ScsiLabels, FlushLabels
    <2>2. pc' = "idle" /\ Exact(held', Base \cup ({"reqMap"} \ ({"reqMap"})))
      <3>1. {"reqMap"} \subseteq ReqRes /\ ({"reqMap"}) \subseteq {"reqMap"}
        BY <1>a DEF ReqRes
      <3> QED
        BY <1>12, <2>1, <3>1, UndoneReq
    <2>3. {"reqMap"} \ ({"reqMap"}) = {}
      BY <1>a
    <2> QED
      BY <1>0, <1>b, <2>2, <2>3, LedgerScsi, LedgerIdle DEF ScsiHeld, ScsiLabels, FlushLabels
  <1>13. ASSUME held' = held, pc \in {"ScsiSubmit"} \cup FlushLabels, pc' \in FlushLabels \cup {"ScsiUnmapResponse"}
         PROVE  Ledger'
    BY <1>0, <1>13, HeldScsi, LedgerScsi DEF ScsiHeld, ScsiLabels, FlushLabels
  <1>14. CASE ScsiSubmit \/ Flush \/ ScsiFlushed
    BY <1>13, <1>14 DEF ScsiSubmit, Submit, Goto, Flush, FlushSteps, FlushPublish, FlushNotify,
                        FlushNotifyFails, FlushPoll, ScsiFlushed, FlushLabels
  <1> QED
    BY <1>1, <1>2, <1>3, <1>4, <1>5, <1>6, <1>7, <1>8, <1>9, <1>10, <1>11, <1>12, <1>14
       DEF PassThruSteps, ScsiMapSteps, ScsiUnmapSteps, Return

\* VirtioRngGetRNG.
LEMMA LedgerRngRequest ==
  ASSUME Ledger, drv = "rng", GetRNGSteps
  PROVE  Ledger'
  <1>0. /\ UNCHANGED <<drv, req>> /\ req' \in [pos : Nat, in : Nat, out : Nat]
    BY DEF GetRNGSteps, RngMapSteps, RngSubmit, Flush, RngFlushed, RngDone, RngUnmapSteps,
           MemoryStep, Submit, Return, reqVars, confVars, Ledger
  <1>b. Base \cup {} = Base
    OBVIOUS
  <1>1. CASE Try("RngAlloc", "RngMap", "idle", {"buf"})
    <2>1. Exact(held, Base \cup {})
      BY <1>1, <1>b, HeldRng DEF Try, RngHeld, RngLabels, FlushLabels
    <2>2. \/ pc' = "RngMap" /\ Exact(held', Base \cup ({} \cup {"buf"}))
          \/ pc' = "idle" /\ Exact(held', Base \cup {})
      <3>1. {"buf"} \subseteq ReqRes /\ {"buf"} \cap {} = {}
        BY DEF ReqRes
      <3> QED
        BY <1>1, <2>1, <3>1, TriedReq
    <2>3. {} \cup {"buf"} = {"buf"}
      OBVIOUS
    <2> QED
      BY <1>0, <1>b, <2>2, <2>3, LedgerRng, LedgerIdle DEF RngHeld
  <1>2. CASE Try("RngMap", "RngLoop", "RngFree", {"bufMap"})
    <2>1. Exact(held, Base \cup {"buf"})
      BY <1>2, HeldRng DEF Try, RngHeld, RngLabels, FlushLabels
    <2>2. \/ pc' = "RngLoop" /\ Exact(held', Base \cup ({"buf"} \cup {"bufMap"}))
          \/ pc' = "RngFree" /\ Exact(held', Base \cup {"buf"})
      <3>1. {"bufMap"} \subseteq ReqRes /\ {"bufMap"} \cap {"buf"} = {}
        BY DEF ReqRes
      <3> QED
        BY <1>2, <2>1, <3>1, TriedReq
    <2>3. {"buf"} \cup {"bufMap"} = {"buf", "bufMap"}
      OBVIOUS
    <2> QED
      BY <1>0, <2>2, <2>3, LedgerRng DEF RngHeld
  <1>3. ASSUME NEW at \in {"RngLoop", "RngUnmapBuffer"}, Undo(at, "RngFree", {"bufMap"})
        PROVE  Ledger'
    <2>1. Exact(held, Base \cup {"buf", "bufMap"})
      BY <1>3, HeldRng DEF Undo, RngHeld, RngLabels, FlushLabels
    <2>2. pc' = "RngFree" /\ Exact(held', Base \cup ({"buf", "bufMap"} \ {"bufMap"}))
      <3>1. {"buf", "bufMap"} \subseteq ReqRes /\ {"bufMap"} \subseteq {"buf", "bufMap"}
        BY DEF ReqRes
      <3> QED
        BY <1>3, <2>1, <3>1, UndoneReq
    <2>3. {"buf", "bufMap"} \ {"bufMap"} = {"buf"}
      OBVIOUS
    <2> QED
      BY <1>0, <2>2, <2>3, LedgerRng DEF RngHeld
  <1>4. CASE Undo("RngFree", "idle", {"buf"})
    <2>1. Exact(held, Base \cup {"buf"})
      BY <1>4, HeldRng DEF Undo, RngHeld, RngLabels, FlushLabels
    <2>2. pc' = "idle" /\ Exact(held', Base \cup ({"buf"} \ {"buf"}))
      <3>1. {"buf"} \subseteq ReqRes /\ {"buf"} \subseteq {"buf"}
        BY DEF ReqRes
      <3> QED
        BY <1>4, <2>1, <3>1, UndoneReq
    <2>3. {"buf"} \ {"buf"} = {}
      OBVIOUS
    <2> QED
      BY <1>0, <1>b, <2>2, <2>3, LedgerIdle
  <1>5. ASSUME held' = held, pc \in {"RngLoop"} \cup FlushLabels,
               pc' \in FlushLabels \cup {"RngLoop", "RngUnmapBuffer"}
        PROVE  Ledger'
    BY <1>0, <1>5, HeldRng, LedgerRng DEF RngHeld, RngLabels, FlushLabels
  <1>6. CASE RngSubmit \/ Flush \/ RngFlushed
    BY <1>5, <1>6 DEF RngSubmit, Submit, Goto, Flush, FlushSteps, FlushPublish, FlushNotify,
                      FlushNotifyFails, FlushPoll, RngFlushed, FlushLabels
  <1> QED
    BY <1>1, <1>2, <1>3, <1>4, <1>6 DEF GetRNGSteps, RngMapSteps, RngDone, RngUnmapSteps, Return

\* A call finds a driver that is bound and has no request.
LEMMA CalledBound ==
  ASSUME Ledger, Callable
  PROVE  pc = "idle" /\ ~exited /\ Bound
  <1>1. pc = "idle" /\ ~exited /\ held["iface"] = 1
    BY DEF Callable
  <1>2. Bound \/ Unbound
    BY <1>1 DEF Ledger, BindingHeld, BlkHeld, ScsiHeld, RngHeld, FlushLabels,
                DevLabels, OpenLabels, RingLabels, MapLabels, EventLabels
  <1> QED
    BY <1>1, <1>2, HeldBound

\* What a driver lets through is a request with lengths that are numbers.
LEMMA LedgerCalls ==
  ASSUME Ledger, Bringup, Calls
  PROVE  Ledger'
  <1>1. pc = "idle" /\ Bound /\ Exact(held, Base)
    BY CalledBound DEF Calls, Bound
  <1>2. drv' = drv /\ held' = held
    BY DEF Calls, BlkCalls, ScsiCalls, RngCalls, VirtioBlkReadBlocks, VirtioBlkWriteBlocks, VirtioBlkFlushBlocks,
           VirtioScsiPassThru, BadBufferSize, VirtioRngGetRNG, Call, confVars
  <1>3. NoReq \in [pos : Nat, in : Nat, out : Nat]
    BY DEF NoReq
  <1>4. ASSUME NEW lba \in 0 .. LbaMod - 1, NEW size \in 0 .. LenMod - 1, drv = "blk"
        PROVE  Sector(lba) \in Nat /\ size \in Nat
    <2>1. media \in BlkMediaOk
      BY <1>1, <1>4 DEF Bringup, Configured, MediaOf
    <2>2. media.spb \in Nat
      BY <2>1 DEF BlkMediaOk, BlkMedia
    <2>3. LbaMod \in Nat \ {0} /\ LenMod \in Nat
      BY BlkAssumption, SyncAssumption
    <2> HIDE <2>1
    <2>4. lba * media.spb \in Int /\ size \in Nat
      BY <2>2, <2>3
    <2>5. (lba * media.spb) % LbaMod \in 0 .. LbaMod - 1
      BY <2>3, <2>4, DivMod
    <2> QED
      BY <2>3, <2>4, <2>5 DEF Sector
  <1>5. CASE drv = "blk" /\ BlkCalls
    <2>1. pc' = "BlkAllocStatus" /\ req' \in [pos : Nat, in : Nat, out : Nat]
      <3>1. CASE VirtioBlkFlushBlocks
        BY <1>3, <3>1 DEF VirtioBlkFlushBlocks, Call
      <3>2. ASSUME NEW lba \in 0 .. LbaMod - 1, NEW size \in 0 .. LenMod - 1,
                   VirtioBlkReadBlocks(lba, size) \/ VirtioBlkWriteBlocks(lba, size)
            PROVE  pc' = "BlkAllocStatus" /\ req' \in [pos : Nat, in : Nat, out : Nat]
        <4>1. Sector(lba) \in Nat /\ size \in Nat
          BY <1>4, <1>5
        <4>2. /\ pc' = "BlkAllocStatus"
              /\ \/ req' = [pos |-> Sector(lba), in |-> size, out |-> 0]
                 \/ req' = [pos |-> Sector(lba), in |-> 0, out |-> size]
          BY <3>2 DEF VirtioBlkReadBlocks, VirtioBlkWriteBlocks, Call
        <4> QED
          BY <4>1, <4>2
      <3> QED
        BY <1>5, <3>1, <3>2 DEF BlkCalls
    <2>2. BlkHeld(pc', held', req')
      BY <1>1, <1>2, <2>1 DEF BlkHeld
    <2>3. LabelLengths'
      BY <2>1 DEF LabelLengths
    <2> QED
      BY <1>2, <1>5, <2>1, <2>2, <2>3 DEF Ledger
  <1>6. CASE drv = "scsi" /\ ScsiCalls
    <2>1. PICK in \in 0 .. LenMod - 1, out \in 0 .. LenMod - 1 : VirtioScsiPassThru(in, out) \/ BadBufferSize(in, out)
      BY <1>6 DEF ScsiCalls
    <2>2. in \in Nat /\ out \in Nat
      BY SyncAssumption
    <2>3. CASE VirtioScsiPassThru(in, out)
      <3>1. pc' = "ScsiMapRequest" /\ req' \in [pos : Nat, in : Nat, out : Nat] /\ pkt' = req'
        BY <2>2, <2>3 DEF VirtioScsiPassThru, Call
      <3>2. ScsiHeld(pc', held', req')
        BY <1>1, <1>2, <3>1 DEF ScsiHeld
      <3>3. LabelLengths'
        BY <3>1 DEF LabelLengths
      <3> QED
        BY <1>2, <1>6, <3>1, <3>2, <3>3 DEF Ledger
    <2>4. CASE BadBufferSize(in, out)
      BY <1>1, <1>2, <1>3, <2>4, LedgerIdle DEF BadBufferSize
    <2> QED
      BY <2>1, <2>3, <2>4
  <1>7. CASE drv = "rng" /\ RngCalls
    <2>1. pc' = "RngAlloc" /\ req' \in [pos : Nat, in : Nat, out : Nat]
      BY <1>7, RngAssumption DEF RngCalls, VirtioRngGetRNG, Call
    <2>2. RngHeld(pc', held')
      BY <1>1, <1>2, <2>1 DEF RngHeld
    <2>3. LabelLengths'
      BY <2>1 DEF LabelLengths
    <2> QED
      BY <1>2, <1>7, <2>1, <2>2, <2>3 DEF Ledger
  <1> QED
    BY <1>5, <1>6, <1>7 DEF Calls

\* Every step keeps the ledger.
LEMMA LedgerStep ==
  ASSUME Ledger, Bringup, [SyncNext]_syncVars
  PROVE  Ledger'
  <1>1. CASE Start
    <2>1. Exact(held, {}) /\ UNCHANGED <<drv, req, held>> /\ pc' = "AllocDev"
      <3>1. pc = "idle" /\ held["virtIo"] = 0
        BY <1>1 DEF Start
      <3>2. Bound \/ Unbound
        BY <3>1 DEF Ledger, BindingHeld, BlkHeld, ScsiHeld, RngHeld, FlushLabels,
                    DevLabels, OpenLabels, RingLabels, MapLabels, EventLabels
      <3> QED
        BY <1>1, <3>1, <3>2, HeldBound DEF Start, reqVars, Unbound
    <2> QED
      BY <2>1, LedgerBinding DEF BindingHeld
  <1>2. CASE Stop
    <2>1. pc = "idle" /\ ~exited /\ held["iface"] = 1 /\ Release({"iface"})
          /\ pc' = "CloseExitBoot" /\ drv' = drv /\ req' = NoReq
      BY <1>2 DEF Stop, NoRequest, confVars
    <2>2. Exact(held, Base)
      BY <2>1, CalledBound DEF Callable, Bound
    <2>3. Exact(held', Base \ {"iface"})
      <3>1. {"iface"} \subseteq Base
        BY DEF Base, BindRes
      <3> QED
        BY <2>1, <2>2, <3>1, ExactRelease, HeldBound DEF Release
    <2>4. Base \ {"iface"} = {"dev", "virtIo", "ring", "ringMap", "exitBoot"}
      BY DEF Base, BindRes, RingRes
    <2>5. BindingHeld(pc', held')
      BY <2>1, <2>3, <2>4 DEF BindingHeld, EventLabels
    <2>6. LabelLengths' /\ req' \in [pos : Nat, in : Nat, out : Nat]
      BY <2>1 DEF LabelLengths, NoReq
    <2> QED
      BY <2>1, <2>5, <2>6 DEF Ledger
  <1>3. CASE Calls
    BY <1>3, LedgerCalls
  <1>4. CASE DriverSteps
    <2>1. ASSUME InitSteps(3, "InitDriverOk") \/ InitSteps(1, "InitDriverOk") \/ InitSteps(4, "CfgWrite"),
                 UNCHANGED <<confVars, reqVars>>
          PROVE  Ledger'
      BY <2>1, LedgerInit DEF confVars, reqVars
    <2>2. ASSUME StartSteps, UNCHANGED <<confVars, reqVars>> PROVE Ledger'
      BY <2>2, LedgerStart DEF confVars, reqVars
    <2>3. ASSUME NEW M, InitConfig(M) PROVE Ledger'
      BY <2>3, HeldBinding, LedgerBinding
         DEF InitConfig, AfterConfig, reqVars, BindingHeld, BindingLabels, DevLabels, OpenLabels, RingLabels,
             MapLabels, EventLabels
    <2>4. ASSUME Try("CfgWrite", "InitDriverOk", "UnmapQueue", {}), MemoryStep PROVE Ledger'
      <3>1. Exact(held, {"dev", "virtIo", "ring", "ringMap"})
        BY <2>4, HeldBinding DEF Try, BindingHeld, BindingLabels, DevLabels, OpenLabels, RingLabels, MapLabels,
                                 EventLabels
      <3>2. /\ pc' \in {"InitDriverOk", "UnmapQueue"}
            /\ \/ Exact(held', {"dev", "virtIo", "ring", "ringMap"} \cup {})
               \/ Exact(held', {"dev", "virtIo", "ring", "ringMap"})
        BY <2>4, <3>1, Tried
      <3>3. {"dev", "virtIo", "ring", "ringMap"} \cup {} = {"dev", "virtIo", "ring", "ringMap"}
        OBVIOUS
      <3> QED
        BY <2>4, <3>2, <3>3, LedgerBinding DEF BindingHeld, MapLabels, MemoryStep, confVars, reqVars
    <2>5. CASE drv = "blk" /\ BlkSteps
      BY <2>1, <2>2, <2>3, <2>5, LedgerBlkRequest DEF BlkSteps, VirtioBlkDriverBinding, VirtioBlkInit
    <2>6. CASE drv = "scsi" /\ ScsiSteps
      BY <2>1, <2>2, <2>3, <2>4, <2>6, LedgerScsiRequest DEF ScsiSteps, VirtioScsiDriverBinding, VirtioScsiInit
    <2>7. CASE drv = "rng" /\ RngSteps
      BY <2>1, <2>2, <2>3, <2>7, LedgerRngRequest DEF RngSteps, VirtioRngDriverBinding, VirtioRngInit
    <2> QED
      BY <1>4, <2>5, <2>6, <2>7 DEF DriverSteps
  <1>5. ASSUME UNCHANGED <<pc, held, drv, req, pkt>> PROVE Ledger'
    BY <1>5 DEF Ledger, Bound, Unbound, LabelLengths
  <1>6. CASE HostWorks \/ HostLooks
    BY <1>5, <1>6 DEF HostWorks, HostLooks, BlkHost, ScsiHost, RngHost, HostCompletes, HostFrame, confVars
  <1>7. CASE ExitBootCallback
    <2>1. pc = "idle" /\ pc' = "idle" /\ held' = held /\ drv' = drv /\ req' = NoReq
      BY <1>7 DEF ExitBootCallback, NoRequest
    <2>2. Bound \/ Unbound
      BY <2>1 DEF Ledger, BindingHeld, BlkHeld, ScsiHeld, RngHeld, FlushLabels,
                  DevLabels, OpenLabels, RingLabels, MapLabels, EventLabels
    <2>3. NoReq \in [pos : Nat, in : Nat, out : Nat]
      BY DEF NoReq
    <2> QED
      BY <2>1, <2>2, <2>3, LedgerIdle DEF Bound, Unbound
  <1>8. CASE OsOwnsDevice \/ UNCHANGED syncVars
    BY <1>5, <1>8 DEF OsOwnsDevice, syncVars, confVars, reqVars
  <1> QED
    BY <1>1, <1>2, <1>3, <1>4, <1>6, <1>7, <1>8 DEF SyncNext

-----------------------------------------------------------------------------
(* The moves of a request, whichever driver it is.                         *)

\* Memory is acquired, mapped, unmapped or released, or VirtioFlush has returned.
MemoryMove ==
  /\ UNCHANGED libVars
  /\ pc \in BeforeSubmit \cup Cleanup \cup {"Flushed"}
  /\ pc' \in BeforeSubmit \cup Cleanup \cup {"idle"}
  /\ pc \in Cleanup => pc' \in Cleanup
  /\ pc = "Flushed" => pc' \in Cleanup \/ (pc' = "RngLoop" /\ flushOk)

\* A chain over what is mapped for the request is built.
SubmitMove ==
  /\ pc \in {"BlkSubmit", "ScsiSubmit", "RngLoop"} /\ pc' = "FlushPublish" /\ held' = held
  /\ \E c \in ChainType : ~c.stale /\ (\A r \in c.parts : held[r] = 1) /\ SubmitChain(c)

\* The request returns.
ReturnMove ==
  /\ pc \in {"BlkFreeStatus", "ScsiUnmapRequest", "RngFree"} /\ pc' = "idle"
  /\ RetireChains /\ UNCHANGED ring

RequestMove == MemoryMove \/ SubmitMove \/ FlushSteps \/ ReturnMove

\* A request leaves the status of the device and the binding alone.
BindingKept == UNCHANGED <<devStatus, nextStat, confVars>> /\ held'["iface"] = held["iface"]

\* A call that can fail, for memory of the request: the interface stays installed.
LEMMA TryKeeps ==
  ASSUME NEW at, NEW next, NEW fail, NEW T, T \subseteq ReqRes, Try(at, next, fail, T),
         NEW S, Exact(held, S)
  PROVE  devStatus' = devStatus /\ held'["iface"] = held["iface"] /\ pc = at /\ pc' \in {next, fail}
  <1>1. "iface" \notin T /\ "iface" \in SyncResources
    BY DEF ReqRes, SyncResources, BindRes
  <1>2. DOMAIN held = SyncResources
    BY DEF Exact
  <1> QED
    BY <1>1, <1>2 DEF Try, Acquire

\* A cleanup step of the request: the interface stays installed.
LEMMA UndoKeeps ==
  ASSUME NEW at, NEW next, NEW T, T \subseteq ReqRes, Undo(at, next, T), NEW S, Exact(held, S)
  PROVE  devStatus' = devStatus /\ held'["iface"] = held["iface"] /\ pc = at /\ pc' = next
  <1>1. "iface" \notin T /\ "iface" \in SyncResources
    BY DEF ReqRes, SyncResources, BindRes
  <1>2. DOMAIN held = SyncResources
    BY DEF Exact
  <1> QED
    BY <1>1, <1>2 DEF Undo, Release

\* There is always a set of what is held.
LEMMA LedgerExact ==
  ASSUME Ledger
  PROVE  \E S : Exact(held, S)
  BY DEF Ledger, Bound, Unbound, BindingHeld, BlkHeld, ScsiHeld, RngHeld

\* What is mapped when the chain is built.
LEMMA BlkMapped ==
  ASSUME Ledger, pc = "BlkSubmit"
  PROVE  \A r \in {"reqMap", "statusMap"} \cup DataMap : held[r] = 1 /\ r \in SyncResources
  <1>1. Exact(held, Base \cup ({"hostStatus", "reqMap", "statusMap"} \cup DataOf(req)))
    BY HeldBlk DEF BlkHeld, BlkLabels, FlushLabels
  <1>2. DataOf(req) = DataMap /\ DataMap \subseteq {"dataMap"}
    BY DEF DataOf, DataMap, HasData
  <1>3. {"reqMap", "statusMap"} \cup DataMap \subseteq SyncResources
    BY <1>2 DEF SyncResources, ReqRes
  <1> QED
    BY <1>1, <1>2, <1>3, ExactCounts

\* The steps of SynchronousRequest are moves of a request.
LEMMA BlkMoves ==
  ASSUME Ledger, drv = "blk", SynchronousRequest
  PROVE  RequestMove /\ BindingKept
  <1>a. DataMap \subseteq ReqRes /\ {"hostStatus"} \subseteq ReqRes /\ {"reqMap"} \subseteq ReqRes
        /\ {"dataMap"} \subseteq ReqRes /\ {"statusMap"} \subseteq ReqRes
    BY DEF DataMap, ReqRes
  <1>b. PICK S : Exact(held, S)
    BY LedgerExact
  <1> DEFINE next == IF HasData THEN "BlkMapData" ELSE "BlkMapStatus"
  <1>c. next \in {"BlkMapData", "BlkMapStatus"}
    OBVIOUS
  <1>d. UNCHANGED <<nextStat, confVars>>
    BY DEF SynchronousRequest, BlkMapSteps, BlkMapStatus, BlkSubmit, Flush, BlkFlushed, BlkUnmapData,
           BlkUnmapSteps, MemoryStep, Submit, Return
  <1>1. CASE BlkMapSteps
    <2>1. UNCHANGED libVars
      BY <1>1 DEF BlkMapSteps, MemoryStep
    <2>2. CASE Try("BlkAllocStatus", "BlkMapRequest", "idle", {"hostStatus"})
      BY <1>a, <1>b, <1>d, <2>1, <2>2, TryKeeps DEF BindingKept, RequestMove, MemoryMove, BeforeSubmit, Cleanup
    <2>3. CASE Try("BlkMapRequest", next, "BlkFreeStatus", {"reqMap"})
      <3> HIDE DEF next
      <3>1. devStatus' = devStatus /\ held'["iface"] = held["iface"] /\ pc = "BlkMapRequest"
            /\ pc' \in {next, "BlkFreeStatus"}
        BY <1>a, <1>b, <2>3, TryKeeps
      <3> QED
        BY <1>c, <1>d, <2>1, <3>1 DEF BindingKept, RequestMove, MemoryMove, BeforeSubmit, Cleanup
    <2>4. CASE Try("BlkMapData", "BlkMapStatus", "BlkUnmapRequest", {"dataMap"})
      BY <1>a, <1>b, <1>d, <2>1, <2>4, TryKeeps DEF BindingKept, RequestMove, MemoryMove, BeforeSubmit, Cleanup
    <2> QED
      BY <1>1, <2>2, <2>3, <2>4 DEF BlkMapSteps
  <1>2. CASE BlkMapStatus
    BY <1>a, <1>b, <1>d, <1>2, TryKeeps DEF BlkMapStatus, BindingKept, RequestMove, MemoryMove, BeforeSubmit, Cleanup
  <1>3. CASE BlkSubmit
    <2> DEFINE c == [parts |-> {"reqMap", "statusMap"} \cup DataMap, pos |-> req.pos, in |-> req.in, out |-> req.out,
                     stale |-> FALSE]
    <2>1. pc = "BlkSubmit" /\ pc' = "FlushPublish" /\ UNCHANGED <<devStatus, held>> /\ SubmitChain(c)
      BY <1>3 DEF BlkSubmit, Submit, Goto
    <2>2. \A r \in c.parts : held[r] = 1 /\ r \in SyncResources
      BY <2>1, BlkMapped
    <2>3. c \in ChainType /\ ~c.stale
      BY <2>2 DEF ChainType, Ledger
    <2> HIDE DEF c
    <2>4. SubmitMove
      BY <2>1, <2>2, <2>3 DEF SubmitMove
    <2> QED
      BY <1>d, <2>1, <2>4 DEF RequestMove, BindingKept
  <1>4. CASE Flush
    BY <1>d, <1>4 DEF Flush, FlushSteps, FlushPublish, FlushNotify, FlushNotifyFails, FlushPoll, RequestMove, BindingKept
  <1>5. CASE BlkFlushed
    BY <1>d, <1>5 DEF BlkFlushed, Goto, RequestMove, MemoryMove, BindingKept, BeforeSubmit, Cleanup
  <1>6. CASE BlkUnmapData
    BY <1>a, <1>b, <1>d, <1>6, UndoKeeps DEF BlkUnmapData, BindingKept, RequestMove, MemoryMove, BeforeSubmit, Cleanup
  <1>7. CASE BlkUnmapSteps
    <2>1. CASE Undo("BlkUnmapStatus", "BlkUnmapData", {"statusMap"}) /\ MemoryStep
      BY <1>a, <1>b, <1>d, <2>1, UndoKeeps DEF MemoryStep, BindingKept, RequestMove, MemoryMove, BeforeSubmit, Cleanup
    <2>2. CASE Undo("BlkUnmapRequest", "BlkFreeStatus", {"reqMap"}) /\ MemoryStep
      BY <1>a, <1>b, <1>d, <2>2, UndoKeeps DEF MemoryStep, BindingKept, RequestMove, MemoryMove, BeforeSubmit, Cleanup
    <2>3. CASE Return("BlkFreeStatus", {"hostStatus"})
      BY <1>a, <1>b, <1>d, <2>3, UndoKeeps DEF Return, BindingKept, RequestMove, ReturnMove
    <2> QED
      BY <1>7, <2>1, <2>2, <2>3 DEF BlkUnmapSteps
  <1> QED
    BY <1>1, <1>2, <1>3, <1>4, <1>5, <1>6, <1>7 DEF SynchronousRequest

\* What is mapped when the chain of VirtioScsiPassThru is built.
LEMMA ScsiMapped ==
  ASSUME Ledger, pc = "ScsiSubmit"
  PROVE  \A r \in {"reqMap", "respMap"} \cup (IF req.out > 0 THEN {"outMap"} ELSE {})
                                       \cup (IF req.in > 0 THEN {"inMap"} ELSE {}) :
           held[r] = 1 /\ r \in SyncResources
  <1>1. Exact(held, Base \cup ({"reqMap", "resp", "respMap"} \cup InOf(req) \cup OutOf(req)))
    BY HeldScsi DEF ScsiHeld, ScsiLabels, FlushLabels
  <1> DEFINE O == IF req.out > 0 THEN {"outMap"} ELSE {}
             I == IF req.in > 0 THEN {"inMap"} ELSE {}
  <1>2. OutOf(req) = O /\ I \subseteq InOf(req) /\ O \subseteq {"outMap"} /\ I \subseteq {"inMap"}
    BY DEF OutOf, InOf
  <1> HIDE DEF O, I
  <1>3. {"reqMap", "respMap"} \cup O \cup I \subseteq SyncResources
    BY <1>2 DEF SyncResources, ReqRes
  <1>4. \A r \in {"reqMap", "respMap"} \cup O \cup I : held[r] = 1 /\ r \in SyncResources
    BY <1>1, <1>2, <1>3, ExactCounts
  <1> QED
    BY <1>4 DEF O, I

\* The steps of VirtioScsiPassThru are moves of a request.
LEMMA ScsiMoves ==
  ASSUME Ledger, drv = "scsi", PassThruSteps
  PROVE  RequestMove /\ BindingKept
  <1>b. PICK S : Exact(held, S)
    BY LedgerExact
  <1>d. UNCHANGED <<nextStat, confVars>>
    BY DEF PassThruSteps, ScsiMapSteps, ScsiTry, ScsiMapResponse, ScsiSubmit, Flush, ScsiFlushed, ScsiUnmapSteps,
           MemoryStep, Submit, Return
  <1>1. ASSUME NEW at \in BeforeSubmit, NEW next \in BeforeSubmit, NEW fail \in Cleanup \cup {"idle"}, NEW T,
               T \subseteq ReqRes, Try(at, next, fail, T), UNCHANGED libVars
        PROVE  RequestMove /\ BindingKept
    <2>1. devStatus' = devStatus /\ held'["iface"] = held["iface"] /\ pc = at /\ pc' \in {next, fail}
      BY <1>b, <1>1, TryKeeps
    <2>2. at \notin Cleanup /\ at # "Flushed"
      BY DEF BeforeSubmit, Cleanup
    <2> QED
      BY <1>1, <1>d, <2>1, <2>2 DEF BindingKept, RequestMove, MemoryMove
  <1>2. ASSUME NEW at \in Cleanup, NEW next \in Cleanup, NEW T, T \subseteq ReqRes, Undo(at, next, T),
               UNCHANGED libVars
        PROVE  RequestMove /\ BindingKept
    <2>1. devStatus' = devStatus /\ held'["iface"] = held["iface"] /\ pc = at /\ pc' = next
      BY <1>b, <1>2, UndoKeeps
    <2>2. at # "Flushed"
      BY DEF Cleanup
    <2> QED
      BY <1>2, <1>d, <2>1, <2>2 DEF BindingKept, RequestMove, MemoryMove
  <1>3. CASE ScsiMapSteps
    <2>1. AfterReq \in BeforeSubmit /\ AfterIn \in BeforeSubmit
      BY DEF AfterReq, AfterIn, BeforeSubmit
    <2>2. UNCHANGED libVars
      BY <1>3 DEF ScsiMapSteps, ScsiTry
    <2>3. \/ Try("ScsiMapRequest", AfterReq, "idle", {"reqMap"})
          \/ Try("ScsiAllocIn", "ScsiMapIn", "ScsiUnmapRequest", {"inBuf"})
          \/ Try("ScsiMapIn", AfterIn, "ScsiFreeIn", {"inMap"})
          \/ Try("ScsiMapOut", "ScsiAllocResponse", "ScsiUnmapIn", {"outMap"})
          \/ Try("ScsiAllocResponse", "ScsiMapResponse", "ScsiUnmapOut", {"resp"})
      BY <1>3 DEF ScsiMapSteps, ScsiTry
    <2>4. /\ {"ScsiMapRequest", "ScsiAllocIn", "ScsiMapIn", "ScsiMapOut", "ScsiAllocResponse", "ScsiMapResponse"}
               \subseteq BeforeSubmit
          /\ {"ScsiUnmapRequest", "ScsiFreeIn", "ScsiUnmapIn", "ScsiUnmapOut"} \subseteq Cleanup
          /\ {"reqMap"} \subseteq ReqRes /\ {"inBuf"} \subseteq ReqRes /\ {"inMap"} \subseteq ReqRes
          /\ {"outMap"} \subseteq ReqRes /\ {"resp"} \subseteq ReqRes
      BY DEF BeforeSubmit, Cleanup, ReqRes
    <2> QED
      BY <1>1, <2>1, <2>2, <2>3, <2>4
  <1>4. CASE ScsiMapResponse
    <2>1. "ScsiMapResponse" \in BeforeSubmit /\ "ScsiSubmit" \in BeforeSubmit /\ "ScsiFreeResponse" \in Cleanup
          /\ {"respMap"} \subseteq ReqRes
      BY DEF BeforeSubmit, Cleanup, ReqRes
    <2> QED
      BY <1>1, <1>4, <2>1 DEF ScsiMapResponse
  <1>5. CASE ScsiSubmit
    <2>0. pc = "ScsiSubmit" /\ pkt = req
      BY <1>5 DEF ScsiSubmit, Submit, Goto, Ledger, LabelLengths
    <2> DEFINE P == {"reqMap", "respMap"} \cup (IF req.out > 0 THEN {"outMap"} ELSE {})
                                          \cup (IF req.in > 0 THEN {"inMap"} ELSE {})
               c == [parts |-> P, pos |-> 0, in |-> req.in, out |-> req.out, stale |-> FALSE]
    <2>1. pc' = "FlushPublish" /\ UNCHANGED <<devStatus, held>> /\ SubmitChain(c)
      BY <1>5, <2>0 DEF ScsiSubmit, Submit, Goto
    <2>2. \A r \in P : held[r] = 1 /\ r \in SyncResources
      BY <2>0, ScsiMapped
    <2> HIDE DEF P
    <2>3. c \in ChainType /\ ~c.stale /\ \A r \in c.parts : held[r] = 1
      BY <2>2 DEF ChainType, Ledger
    <2> HIDE DEF c
    <2>4. SubmitMove
      BY <2>0, <2>1, <2>3 DEF SubmitMove
    <2> QED
      BY <1>d, <2>1, <2>4 DEF RequestMove, BindingKept
  <1>6. CASE Flush
    BY <1>d, <1>6 DEF Flush, FlushSteps, FlushPublish, FlushNotify, FlushNotifyFails, FlushPoll, RequestMove, BindingKept
  <1>7. CASE ScsiFlushed
    BY <1>d, <1>7 DEF ScsiFlushed, Goto, RequestMove, MemoryMove, BindingKept, BeforeSubmit, Cleanup
  <1>8. CASE ScsiUnmapSteps
    <2> DEFINE IM == IF InDataBuffer THEN {"inMap"} ELSE {}
               IB == IF InDataBuffer THEN {"inBuf"} ELSE {}
    <2>1. IM \subseteq ReqRes /\ IB \subseteq ReqRes /\ OutMapped \subseteq ReqRes
          /\ {"respMap"} \subseteq ReqRes /\ {"resp"} \subseteq ReqRes /\ {"reqMap"} \subseteq ReqRes
      BY DEF OutMapped, ReqRes
    <2>2. {"ScsiUnmapResponse", "ScsiFreeResponse", "ScsiUnmapOut", "ScsiUnmapIn", "ScsiFreeIn", "ScsiUnmapRequest"}
            \subseteq Cleanup
      BY DEF Cleanup
    <2>3. CASE Return("ScsiUnmapRequest", {"reqMap"})
      BY <1>b, <1>d, <2>1, <2>3, UndoKeeps DEF Return, BindingKept, RequestMove, ReturnMove
    <2>4. CASE /\ \/ Undo("ScsiUnmapResponse", "ScsiFreeResponse", {"respMap"})
                  \/ Undo("ScsiFreeResponse", "ScsiUnmapOut", {"resp"})
                  \/ Undo("ScsiUnmapOut", "ScsiUnmapIn", OutMapped)
                  \/ Undo("ScsiUnmapIn", "ScsiFreeIn", IM)
                  \/ Undo("ScsiFreeIn", "ScsiUnmapRequest", IB)
               /\ MemoryStep
      <3> HIDE DEF IM, IB
      <3> QED
        BY <1>2, <2>1, <2>2, <2>4 DEF MemoryStep
    <2> QED
      BY <1>8, <2>3, <2>4 DEF ScsiUnmapSteps
  <1> QED
    BY <1>3, <1>4, <1>5, <1>6, <1>7, <1>8 DEF PassThruSteps

\* The steps of VirtioRngGetRNG are moves of a request.
LEMMA RngMoves ==
  ASSUME Ledger, drv = "rng", index \in Nat, GetRNGSteps
  PROVE  RequestMove /\ BindingKept
  <1>a. {"buf"} \subseteq ReqRes /\ {"bufMap"} \subseteq ReqRes
    BY DEF ReqRes
  <1>b. PICK S : Exact(held, S)
    BY LedgerExact
  <1>d. UNCHANGED <<nextStat, confVars>>
    BY DEF GetRNGSteps, RngMapSteps, RngSubmit, Flush, RngFlushed, RngDone, RngUnmapSteps,
           MemoryStep, Submit, Return
  <1>1. CASE RngMapSteps
    <2>1. CASE Try("RngAlloc", "RngMap", "idle", {"buf"}) /\ MemoryStep
      BY <1>a, <1>b, <1>d, <2>1, TryKeeps DEF MemoryStep, BindingKept, RequestMove, MemoryMove, BeforeSubmit, Cleanup
    <2>2. CASE Try("RngMap", "RngLoop", "RngFree", {"bufMap"}) /\ MemoryStep
      BY <1>a, <1>b, <1>d, <2>2, TryKeeps DEF MemoryStep, BindingKept, RequestMove, MemoryMove, BeforeSubmit, Cleanup
    <2> QED
      BY <1>1, <2>1, <2>2 DEF RngMapSteps
  <1>2. CASE RngSubmit
    <2> DEFINE c == [parts |-> {"bufMap"}, pos |-> index, in |-> BufferSize, out |-> 0, stale |-> FALSE]
    <2>1. pc = "RngLoop" /\ pc' = "FlushPublish" /\ UNCHANGED <<devStatus, held>> /\ SubmitChain(c)
          /\ index < req.in
      BY <1>2 DEF RngSubmit, Submit, Goto
    <2>2. BufferSize \in Nat
      BY <2>1, RngAssumption DEF BufferSize, Ledger
    <2>3. Exact(held, Base \cup {"buf", "bufMap"})
      BY <2>1, HeldRng DEF RngHeld, RngLabels, FlushLabels
    <2>4. held["bufMap"] = 1 /\ "bufMap" \in SyncResources
      BY <2>3, ExactCounts DEF SyncResources, ReqRes
    <2>5. c \in ChainType /\ ~c.stale /\ \A r \in c.parts : held[r] = 1
      BY <2>2, <2>4 DEF ChainType
    <2> HIDE DEF c
    <2>6. SubmitMove
      BY <2>1, <2>5 DEF SubmitMove
    <2> QED
      BY <1>d, <2>1, <2>6 DEF RequestMove, BindingKept
  <1>3. CASE Flush
    BY <1>d, <1>3 DEF Flush, FlushSteps, FlushPublish, FlushNotify, FlushNotifyFails, FlushPoll, RequestMove, BindingKept
  <1>4. CASE RngFlushed
    BY <1>d, <1>4 DEF RngFlushed, Goto, RequestMove, MemoryMove, BindingKept, BeforeSubmit, Cleanup
  <1>5. CASE RngDone
    BY <1>a, <1>b, <1>d, <1>5, UndoKeeps DEF RngDone, BindingKept, RequestMove, MemoryMove, BeforeSubmit, Cleanup
  <1>6. CASE RngUnmapSteps
    <2>1. CASE Undo("RngUnmapBuffer", "RngFree", {"bufMap"}) /\ MemoryStep
      BY <1>a, <1>b, <1>d, <2>1, UndoKeeps DEF MemoryStep, BindingKept, RequestMove, MemoryMove, BeforeSubmit, Cleanup
    <2>2. CASE Return("RngFree", {"buf"})
      BY <1>a, <1>b, <1>d, <2>2, UndoKeeps DEF Return, BindingKept, RequestMove, ReturnMove
    <2> QED
      BY <1>6, <2>1, <2>2 DEF RngUnmapSteps
  <1> QED
    BY <1>1, <1>2, <1>3, <1>4, <1>5, <1>6 DEF GetRNGSteps

-----------------------------------------------------------------------------
(* The kinds of steps, whichever driver it is.                             *)

\* A call that the driver lets through, or answers at once.
CallMove ==
  /\ pc = "idle" /\ Bound /\ ~exited
  /\ pc' \in {"BlkAllocStatus", "ScsiMapRequest", "RngAlloc", "idle"}
  /\ held' = held /\ UNCHANGED <<devStatus, nextStat, confVars, libVars>>

RequestStep == /\ \/ drv = "blk" /\ SynchronousRequest
                  \/ drv = "scsi" /\ PassThruSteps
                  \/ drv = "rng" /\ GetRNGSteps
               /\ RequestMove /\ BindingKept

InitStep == /\ \E after \in {"InitDriverOk", "CfgWrite"} : InitSteps(MinDescs, after)
            /\ UNCHANGED <<confVars, reqVars>>

ConfigStep == InitConfig(MediaOf(drv))

CfgWriteStep == Try("CfgWrite", "InitDriverOk", "UnmapQueue", {}) /\ MemoryStep

BindingStep == StartSteps /\ UNCHANGED <<confVars, reqVars>>

HostStep == HostWorks \/ HostLooks

\* Only a bound driver is called.
LEMMA CallMoves ==
  ASSUME Ledger, Calls
  PROVE  CallMove
  <1>1. pc = "idle" /\ Bound /\ ~exited
    BY CalledBound DEF Calls
  <1>2. CASE BlkCalls
    BY <1>1, <1>2 DEF BlkCalls, VirtioBlkReadBlocks, VirtioBlkWriteBlocks, VirtioBlkFlushBlocks, Call, CallMove
  <1>3. CASE ScsiCalls
    BY <1>1, <1>3 DEF ScsiCalls, VirtioScsiPassThru, BadBufferSize, Call, CallMove
  <1>4. CASE RngCalls
    BY <1>1, <1>4 DEF RngCalls, VirtioRngGetRNG, Call, CallMove
  <1> QED
    BY <1>2, <1>3, <1>4 DEF Calls

\* Every step is of one of the kinds above.
LEMMA Kinds ==
  ASSUME Ledger, index \in Nat, [SyncNext]_syncVars
  PROVE  \/ Start \/ Stop \/ (Calls /\ CallMove) \/ RequestStep \/ InitStep \/ ConfigStep \/ CfgWriteStep
         \/ BindingStep \/ HostStep \/ ExitBootCallback \/ UNCHANGED syncVars
  <1>1. CASE drv = "blk" /\ BlkSteps
    <2>1. MinDescs = 3 /\ MediaOf(drv) = BlkMediaOk
      BY <1>1 DEF MinDescs, MediaOf
    <2> QED
      BY <1>1, <2>1, BlkMoves DEF BlkSteps, VirtioBlkDriverBinding, VirtioBlkInit, RequestStep, InitStep, ConfigStep,
                                  BindingStep
  <1>2. CASE drv = "scsi" /\ ScsiSteps
    <2>1. MinDescs = 4 /\ MediaOf(drv) = ScsiMedia
      BY <1>2 DEF MinDescs, MediaOf
    <2> QED
      BY <1>2, <2>1, ScsiMoves DEF ScsiSteps, VirtioScsiDriverBinding, VirtioScsiInit, RequestStep, InitStep, ConfigStep,
                                   BindingStep, CfgWriteStep
  <1>3. CASE drv = "rng" /\ RngSteps
    <2>1. MinDescs = 1 /\ MediaOf(drv) = {NoMedia}
      BY <1>3 DEF MinDescs, MediaOf
    <2> QED
      BY <1>3, <2>1, RngMoves DEF RngSteps, VirtioRngDriverBinding, VirtioRngInit, RequestStep, InitStep, ConfigStep,
                                  BindingStep
  <1> QED
    BY <1>1, <1>2, <1>3, CallMoves DEF SyncNext, DriverSteps, HostStep, OsOwnsDevice

\* A driver that is working on a request is bound, and is bound after it.
LEMMA RequestBound ==
  ASSUME Ledger
  PROVE  /\ pc \in RequestLabels => held["iface"] = 1 /\ held["ring"] = 1 /\ held["ringMap"] = 1
         /\ pc = "idle" => Bound \/ Unbound
         /\ Bound => ~Unbound
  <1>1. pc = "idle" => Bound \/ Unbound
    BY DEF Ledger, BindingHeld, BlkHeld, ScsiHeld, RngHeld, FlushLabels,
           DevLabels, OpenLabels, RingLabels, MapLabels, EventLabels
  <1>2. Bound => ~Unbound
    BY HeldBound
  <1>3. ASSUME pc \in RequestLabels PROVE \E S : Exact(held, Base \cup S)
    <2>1. Base = Base \cup {}
      OBVIOUS
    <2>2. BlkHeld(pc, held, req) \/ ScsiHeld(pc, held, req) \/ RngHeld(pc, held)
      BY <1>3 DEF Ledger, BindingHeld, RequestLabels, BeforeSubmit, FlushLabels, Cleanup,
                  DevLabels, OpenLabels, RingLabels, MapLabels, EventLabels
    <2>3. CASE BlkHeld(pc, held, req)
      BY <2>1, <2>3 DEF BlkHeld
    <2>4. CASE ScsiHeld(pc, held, req)
      BY <2>1, <2>4 DEF ScsiHeld
    <2>5. CASE RngHeld(pc, held)
      BY <2>1, <2>5 DEF RngHeld
    <2> QED
      BY <2>2, <2>3, <2>4, <2>5
  <1>4. ASSUME NEW S, Exact(held, Base \cup S)
        PROVE  held["iface"] = 1 /\ held["ring"] = 1 /\ held["ringMap"] = 1
    <2>1. {"iface", "ring", "ringMap"} \subseteq Base \cup S /\ {"iface", "ring", "ringMap"} \subseteq SyncResources
      BY HeldBound
    <2> QED
      BY <1>4, <2>1, ExactCounts
  <1> QED
    BY <1>1, <1>2, <1>3, <1>4

\* A step of a request stays within it, or returns to a driver that is still bound.
LEMMA RequestStays ==
  ASSUME Ledger, Ledger', RequestStep
  PROVE  /\ pc \in RequestLabels
         /\ pc' \in RequestLabels \/ (pc' = "idle" /\ Bound')
  <1>1. pc \in RequestLabels /\ pc' \in RequestLabels \cup {"idle"}
    BY DEF RequestStep, RequestMove, MemoryMove, SubmitMove, FlushSteps, FlushPublish, FlushNotify, FlushNotifyFails,
           FlushPoll, ReturnMove, RequestLabels, BeforeSubmit, FlushLabels, Cleanup
  <1>2. held'["iface"] = 1
    BY <1>1, RequestBound DEF RequestStep, BindingKept
  <1>3. (pc = "idle" => Bound \/ Unbound)'
    BY RequestBound, PTL
  <1>4. (Unbound => held["iface"] = 0)'
    BY HeldBound, PTL
  <1> QED
    BY <1>1, <1>2, <1>3, <1>4

-----------------------------------------------------------------------------
(* Bringup.                                                                *)

\* Steps within the use of a device that is up.
LEMMA BringupInUse ==
  ASSUME Ledger, Bringup, UNCHANGED <<devStatus, nextStat, confVars>>,
         pc \in RequestLabels \/ (pc = "idle" /\ Bound /\ ~exited),
         pc' \in RequestLabels \/ (pc' = "idle" /\ Bound')
  PROVE  Bringup'
  <1>1. Configured /\ Up /\ ~exited
    BY DEF Bringup, Configured, Up, UpLabels, RequestLabels, BeforeSubmit, FlushLabels, Cleanup
  <1>2. pc' # "UninitRing"
    BY DEF RequestLabels, BeforeSubmit, FlushLabels, Cleanup
  <1>3. drv' = drv /\ media' = media /\ exited' = exited
    BY DEF confVars
  <1>4. MediaOf(drv)' = MediaOf(drv)
    BY <1>3 DEF MediaOf, BlkMediaOk, BlkMedia, ScsiMedia, NoMedia
  <1>5. devStatus \subseteq StatusBits /\ nextStat \subseteq StatusBits /\ Running /\ media \in MediaOf(drv)
    BY <1>1 DEF Bringup
  <1> QED
    BY <1>1, <1>2, <1>3, <1>4, <1>5 DEF Bringup, Running

\* Steps of Init and of the driver binding.
LEMMA BringupInit ==
  ASSUME Ledger, Ledger', Bringup, InitStep
  PROVE  Bringup'
  <1> USE DEF Configured, Up, UpLabels, SetupLabels, NoRingLabels, RequestLabels, BeforeSubmit, FlushLabels, Cleanup
  <1>1. drv' = drv /\ media' = media /\ exited' = exited /\ modern' = modern
    BY DEF InitStep, confVars
  <1>2. MediaOf(drv)' = MediaOf(drv)
    BY <1>1 DEF MediaOf, BlkMediaOk, BlkMedia, ScsiMedia, NoMedia
  <1>3. PICK after \in {"InitDriverOk", "CfgWrite"} : InitSteps(MinDescs, after)
    BY DEF InitStep
  <1>4. ASSUME pc # "idle", pc' \notin {"idle", "UninitRing"}, Up' => Running',
               devStatus' \subseteq StatusBits, nextStat' \subseteq StatusBits,
               Configured' => Configured
        PROVE  Bringup'
    BY <1>1, <1>2, <1>4 DEF Bringup
  <1>5. devStatus \subseteq StatusBits /\ nextStat \subseteq StatusBits
    BY DEF Bringup
  <1>6. CASE QueueSel(MinDescs)
    BY <1>4, <1>5, <1>6 DEF QueueSel
  <1>7. CASE InitReset
    BY <1>4, <1>5, <1>7 DEF InitReset
  <1>8. ASSUME NEW at, NEW next, NEW fail, NEW bit \in StatusBits, NEW b, SetNext(at, next, fail, bit, b)
        PROVE  nextStat' \subseteq StatusBits /\ devStatus' \subseteq StatusBits /\ pc = at /\ pc' \in {next, fail}
               /\ (pc' = next /\ next # fail => bit \in devStatus')
    BY <1>5, <1>8 DEF SetNext
  <1>9. "ACK" \in StatusBits /\ "DRIVER" \in StatusBits /\ "FEATURES_OK" \in StatusBits /\ "DRIVER_OK" \in StatusBits
        /\ "FAILED" \in StatusBits
    BY DEF StatusBits
  <1>10. CASE SetNext("InitAck", "InitDriver", "Failed", "ACK", TRUE)
    BY <1>4, <1>5, <1>9, <1>10 DEF SetNext
  <1>11. CASE SetNext("InitDriver", "InitConfig", "Failed", "DRIVER", TRUE)
    BY <1>4, <1>5, <1>9, <1>11 DEF SetNext
  <1>12. CASE SetNext("FeaturesOk", "FeaturesCheck", "Failed", "FEATURES_OK", TRUE)
    BY <1>4, <1>5, <1>9, <1>12 DEF SetNext
  <1>13. CASE FeaturesCheck
    BY <1>4, <1>5, <1>13 DEF FeaturesCheck
  <1>14. CASE SetNext("InitDriverOk", "CreateExitBoot", "UnmapQueue", "DRIVER_OK", DriverOkMayFail)
    BY <1>4, <1>8, <1>9, <1>14 DEF Running
  <1>15. CASE InitFailed
    BY <1>4, <1>5, <1>9, <1>15 DEF InitFailed
  <1>16. CASE /\ \/ Try("RingInit", "RingMap", "Failed", {"ring"})
                 \/ Try("RingMap", "QueueAddress", "ReleaseQueue", {"ringMap"})
                 \/ Try("QueueAddress", IF modern THEN after ELSE "GuestFeatures", "UnmapQueue", {})
                 \/ Try("GuestFeatures", after, "UnmapQueue", {})
                 \/ Undo("UnmapQueue", "ReleaseQueue", {"ringMap"})
                 \/ Undo("ReleaseQueue", "Failed", {"ring"})
              /\ UNCHANGED nextStat
    <2>1. /\ pc \in {"RingInit", "RingMap", "QueueAddress", "GuestFeatures", "UnmapQueue", "ReleaseQueue"}
          /\ pc' \in {"RingMap", "Failed", "QueueAddress", "ReleaseQueue", "InitDriverOk", "CfgWrite", "GuestFeatures",
                      "UnmapQueue"}
          /\ UNCHANGED <<devStatus, nextStat>>
      BY <1>16 DEF Try, Undo
    <2> QED
      BY <1>4, <1>5, <2>1
  <1> QED
    BY <1>3, <1>6, <1>7, <1>10, <1>11, <1>12, <1>13, <1>14, <1>15, <1>16 DEF InitSteps

\* The steps of the driver binding take the device down before its ring.
LEMMA BringupBinding ==
  ASSUME Ledger, Ledger', Bringup, BindingStep
  PROVE  Bringup'
  <1> USE DEF Configured, Up, UpLabels, SetupLabels, NoRingLabels, RequestLabels, BeforeSubmit, FlushLabels, Cleanup
  <1>1. drv' = drv /\ media' = media /\ exited' = exited /\ nextStat' = nextStat
    BY DEF BindingStep, StartSteps, confVars
  <1>2. MediaOf(drv)' = MediaOf(drv)
    BY <1>1 DEF MediaOf, BlkMediaOk, BlkMedia, ScsiMedia, NoMedia
  <1>3. ASSUME pc # "idle", Up' => Running', pc' = "UninitRing" => devStatus' = {},
               devStatus' \subseteq StatusBits, Configured' => Configured
        PROVE  Bringup'
    BY <1>1, <1>2, <1>3 DEF Bringup
  <1>4. devStatus \subseteq StatusBits /\ nextStat \subseteq StatusBits
    BY DEF Bringup
  <1>5. CASE Try("AllocDev", "OpenVirtIo", "idle", {"dev"})
    <2>1. pc = "AllocDev" /\ pc' \in {"OpenVirtIo", "idle"} /\ devStatus' = devStatus /\ (pc' = "idle" => held' = held)
      BY <1>5 DEF Try
    <2>2. Unbound
      BY <2>1, HeldBinding DEF BindingHeld, BindingLabels, DevLabels, OpenLabels, RingLabels, MapLabels, EventLabels,
                               Unbound
    <2>3. pc' = "idle" => ~Bound'
      <3>1. Bound => ~Unbound
        BY RequestBound
      <3> QED
        BY <2>1, <2>2, <3>1 DEF Bound
    <2> QED
      BY <1>3, <1>4, <2>1, <2>3
  <1>6. CASE \/ Try("OpenVirtIo", "InitReset", "FreeDev", {"virtIo"})
             \/ Undo("CloseVirtIo", "FreeDev", {"virtIo"})
    BY <1>3, <1>4, <1>6 DEF Try, Undo
  <1>7. CASE \/ Try("CreateExitBoot", "Install", "UninitReset", {"exitBoot"})
             \/ Undo("CloseExitBoot", "UninitReset", {"exitBoot"})
    <2>1. Up /\ Running /\ UNCHANGED devStatus /\ pc' \in {"Install", "UninitReset"} /\ Configured
      BY <1>7 DEF Bringup, Try, Undo
    <2> QED
      BY <1>3, <1>4, <1>7, <2>1 DEF Running, Try, Undo
  <1>8. CASE Try("Install", "idle", "CloseExitBoot", {"iface"})
    <2>1. Up /\ Running /\ UNCHANGED devStatus /\ pc' \in {"idle", "CloseExitBoot"} /\ Configured /\ pc = "Install"
      BY <1>8 DEF Bringup, Try
    <2> QED
      BY <1>3, <1>4, <2>1 DEF Running
  <1>9. CASE UninitSteps
    BY <1>3, <1>4, <1>9 DEF UninitSteps, WriteStatus, Undo
  <1>10. CASE Undo("FreeDev", "idle", {"dev"})
    <2>1. pc = "FreeDev" /\ pc' = "idle" /\ devStatus' = devStatus /\ Release({"dev"})
      BY <1>10 DEF Undo
    <2>2. Exact(held, {"dev"})
      BY <2>1, HeldBinding DEF BindingHeld, BindingLabels, DevLabels, OpenLabels, RingLabels, MapLabels, EventLabels
    <2>3. held'["iface"] = 0
      <3>1. "iface" \in SyncResources /\ DOMAIN held = SyncResources
        BY <2>2 DEF Exact, SyncResources, BindRes
      <3>2. held["iface"] = 0
        BY <2>2, <3>1, ExactCounts
      <3> QED
        BY <2>1, <3>1, <3>2 DEF Release
    <2>4. (Bound => held["iface"] = 1)'
      BY HeldBound, PTL
    <2> QED
      BY <1>3, <1>4, <2>1, <2>3, <2>4
  <1> QED
    BY <1>5, <1>6, <1>7, <1>8, <1>9, <1>10 DEF BindingStep, StartSteps

\* No step disturbs what is known about the status of the device.
LEMMA BringupStep ==
  ASSUME Ledger, Ledger', Bringup, index \in Nat, [SyncNext]_syncVars
  PROVE  Bringup'
  <1> USE DEF Configured, Up, UpLabels, SetupLabels, NoRingLabels, RequestLabels, BeforeSubmit, FlushLabels, Cleanup
  <1>0. devStatus \subseteq StatusBits /\ nextStat \subseteq StatusBits /\ exited \in BOOLEAN
    BY DEF Bringup
  <1>1. CASE Start
    BY <1>0, <1>1 DEF Start, Bringup
  <1>2. CASE Stop
    <2>1. pc = "idle" /\ Bound /\ ~exited /\ pc' = "CloseExitBoot" /\ UNCHANGED <<devStatus, nextStat, drv, media, exited>>
      BY <1>2, CalledBound DEF Stop, Callable, confVars
    <2>2. MediaOf(drv)' = MediaOf(drv)
      BY <2>1 DEF MediaOf, BlkMediaOk, BlkMedia, ScsiMedia, NoMedia
    <2> QED
      BY <1>0, <2>1, <2>2 DEF Bringup, Running
  <1>3. CASE CallMove
    <2>1. Bound' /\ (pc' \in RequestLabels \/ pc' = "idle")
      BY <1>3 DEF CallMove, Bound
    <2> QED
      BY <1>3, <2>1, BringupInUse DEF CallMove
  <1>4. CASE RequestStep
    BY <1>4, RequestStays, BringupInUse DEF RequestStep, BindingKept
  <1>5. CASE InitStep
    BY <1>5, BringupInit
  <1>6. CASE ConfigStep
    <2>1. pc = "InitConfig" /\ UNCHANGED <<devStatus, nextStat, drv, exited>>
          /\ (pc' = "Failed" \/ (pc' \in {"FeaturesOk", "QueueSel"} /\ media' \in MediaOf(drv)))
      BY <1>6 DEF ConfigStep, InitConfig, AfterConfig
    <2>2. MediaOf(drv)' = MediaOf(drv)
      BY <2>1 DEF MediaOf, BlkMediaOk, BlkMedia, ScsiMedia, NoMedia
    <2> QED
      BY <1>0, <2>1, <2>2 DEF Bringup
  <1>7. CASE CfgWriteStep
    <2>1. pc = "CfgWrite" /\ UNCHANGED <<devStatus, nextStat, drv, media, exited>> /\ pc' \in {"InitDriverOk", "UnmapQueue"}
      BY <1>7 DEF CfgWriteStep, Try, MemoryStep, confVars
    <2>2. MediaOf(drv)' = MediaOf(drv)
      BY <2>1 DEF MediaOf, BlkMediaOk, BlkMedia, ScsiMedia, NoMedia
    <2> QED
      BY <1>0, <2>1, <2>2 DEF Bringup
  <1>8. CASE BindingStep
    BY <1>8, BringupBinding
  <1>9. ASSUME UNCHANGED <<pc, held, devStatus, nextStat, drv, media, exited>> PROVE Bringup'
    <2>1. MediaOf(drv)' = MediaOf(drv)
      BY <1>9 DEF MediaOf, BlkMediaOk, BlkMedia, ScsiMedia, NoMedia
    <2>2. Configured' = Configured /\ Up' = Up /\ Bound' = Bound
      BY <1>9 DEF Bound
    <2> QED
      BY <1>0, <1>9, <2>1, <2>2 DEF Bringup, Running
  <1>10. CASE HostStep
    BY <1>9, <1>10 DEF HostStep, HostWorks, HostLooks, BlkHost, ScsiHost, RngHost, HostCompletes, HostFrame, confVars
  <1>11. CASE ExitBootCallback
    <2>1. pc = "idle" /\ pc' = "idle" /\ exited' = TRUE /\ UNCHANGED <<held, nextStat, drv, media>>
          /\ devStatus' = IF held["exitBoot"] = 1 THEN {} ELSE devStatus
      BY <1>11 DEF ExitBootCallback
    <2>2. MediaOf(drv)' = MediaOf(drv)
      BY <2>1 DEF MediaOf, BlkMediaOk, BlkMedia, ScsiMedia, NoMedia
    <2>3. Bound' = Bound /\ (Bound => devStatus' = {}) /\ devStatus' \subseteq StatusBits
      BY <1>0, <2>1, HeldBound DEF Bound
    <2> QED
      BY <1>0, <2>1, <2>2, <2>3 DEF Bringup
  <1>12. CASE UNCHANGED syncVars
    BY <1>9, <1>12 DEF syncVars, confVars
  <1> QED
    BY <1>1, <1>2, <1>3, <1>4, <1>5, <1>6, <1>7, <1>8, <1>10, <1>11, <1>12, Kinds

-----------------------------------------------------------------------------
(* Queue.                                                                  *)

\* The sizes of rings.
LEMMA QueueSizesValid ==
  /\ IdxMod \in Nat \ {0} /\ MaxKickFailures \in Nat /\ MaxKickFailures + 1 < IdxMod /\ 0 \in Idx
  /\ \A qs \in QueueSizes : ValidQueueSize(qs) /\ qs \in Nat \ {0}
                            /\ ZeroRing(qs) \in VRingType(qs, {0}, Nat) /\ ZeroRing(qs).size = qs
                            /\ ZeroRing(qs).availIdx = 0 /\ ZeroRing(qs).usedIdx = 0
  <1>1. \A qs \in QueueSizes : ValidQueueSize(qs)
    BY SyncAssumption
  <1>2. QueueSize \in QueueSizes /\ MaxKickFailures \in Nat /\ MaxKickFailures + 1 < IdxMod
    BY SyncAssumption
  <1>3. IdxMod \in Nat \ {0} /\ 0 \in Idx
    BY <1>1, <1>2 DEF ValidQueueSize, Idx
  <1>4. ASSUME NEW qs \in QueueSizes
        PROVE  /\ ValidQueueSize(qs) /\ qs \in Nat \ {0}
               /\ ZeroRing(qs) \in VRingType(qs, {0}, Nat) /\ ZeroRing(qs).size = qs
               /\ ZeroRing(qs).availIdx = 0 /\ ZeroRing(qs).usedIdx = 0
    BY <1>1, <1>3 DEF ValidQueueSize, ZeroRing, VRingType, UsedElem
  <1> QED
    BY <1>2, <1>3, <1>4

\* The fields of a ring.
LEMMA RingFields ==
  ASSUME NEW qs \in QueueSizes, NEW r \in VRingType(qs, {0}, Nat)
  PROVE  /\ r.size = qs /\ r.availRing \in [0 .. qs - 1 -> {0}] /\ r.availIdx \in Idx
         /\ r.usedRing \in [0 .. qs - 1 -> [id : {0}, len : Nat]] /\ r.usedIdx \in Idx
         /\ r = [size |-> r.size, availRing |-> r.availRing, availIdx |-> r.availIdx,
                 usedRing |-> r.usedRing, usedIdx |-> r.usedIdx]
         /\ r.availIdx % qs \in 0 .. qs - 1 /\ r.usedIdx % qs \in 0 .. qs - 1 /\ IdxAdd(r.usedIdx, 1) \in Idx
         /\ IdxAdd(r.availIdx, 1) \in Idx
  <1>1. ValidQueueSize(qs)
    BY QueueSizesValid
  <1>2. /\ r.size = qs /\ r.availRing \in [0 .. qs - 1 -> {0}] /\ r.availIdx \in Idx
        /\ r.usedRing \in [0 .. qs - 1 -> [id : {0}, len : Nat]] /\ r.usedIdx \in Idx
        /\ r = [size |-> r.size, availRing |-> r.availRing, availIdx |-> r.availIdx,
                usedRing |-> r.usedRing, usedIdx |-> r.usedIdx]
    BY DEF VRingType, UsedElem
  <1> QED
    BY <1>1, <1>2, RingIndex

\* What VirtioFlush and the host write into a ring.
LEMMA RingPutAvail ==
  ASSUME NEW qs \in QueueSizes, NEW r \in VRingType(qs, {0}, Nat)
  PROVE  /\ PutAvail(r, 0) \in VRingType(qs, {0}, Nat) /\ PutAvail(r, 0).size = qs
         /\ PutAvail(r, 0).availIdx = r.availIdx /\ PutAvail(r, 0).usedIdx = r.usedIdx
         /\ PutAvail(r, 0).usedRing = r.usedRing
  BY RingFields DEF PutAvail, VRingType, UsedElem

\* Publishing a chain moves the available index only.
LEMMA RingPublish ==
  ASSUME NEW qs \in QueueSizes, NEW r \in VRingType(qs, {0}, Nat), NEW i \in Idx
  PROVE  /\ [r EXCEPT !.availIdx = i] \in VRingType(qs, {0}, Nat) /\ [r EXCEPT !.availIdx = i].size = qs
         /\ [r EXCEPT !.availIdx = i].availIdx = i /\ [r EXCEPT !.availIdx = i].usedIdx = r.usedIdx
         /\ [r EXCEPT !.availIdx = i].usedRing = r.usedRing
  BY RingFields DEF VRingType, UsedElem

\* A completed chain is in the slot that the used index was at.
LEMMA RingPutUsed ==
  ASSUME NEW qs \in QueueSizes, NEW r \in VRingType(qs, {0}, Nat), NEW n \in Nat
  PROVE  /\ PutUsed(r, 0, n) \in VRingType(qs, {0}, Nat) /\ PutUsed(r, 0, n).size = qs
         /\ PutUsed(r, 0, n).availIdx = r.availIdx /\ PutUsed(r, 0, n).usedIdx = IdxAdd(r.usedIdx, 1)
         /\ PutUsed(r, 0, n).usedRing[r.usedIdx % qs].len = n
  BY RingFields DEF PutUsed, VRingType, UsedElem

\* What completing a chain does to the chains that the host has.
LEMMA SeqRemoved ==
  ASSUME NEW S, NEW s \in Seq(S), NEW i \in DOMAIN s
  PROVE  LET t == SubSeq(s, 1, i - 1) \o SubSeq(s, i + 1, Len(s))
         IN  /\ t \in Seq(S) /\ Len(t) = Len(s) - 1
             /\ \A k \in DOMAIN t : \E j \in DOMAIN s : t[k] = s[j]
  <1> DEFINE a == SubSeq(s, 1, i - 1)
             b == SubSeq(s, i + 1, Len(s))
             t == a \o b
  <1>1. Len(s) \in Nat /\ DOMAIN s = 1 .. Len(s) /\ i \in 1 .. Len(s) /\ \A j \in 1 .. Len(s) : s[j] \in S
    BY LenProperties
  <1>2. a \in Seq(S) /\ Len(a) = i - 1 /\ \A j \in 1 .. i - 1 : a[j] = s[j]
    <2>1. \A j \in 1 .. i - 1 : s[j] \in S
      BY <1>1
    <2>2. /\ a \in Seq(S) /\ Len(a) = (IF 1 <= i - 1 THEN (i - 1) - 1 + 1 ELSE 0)
          /\ \A j \in 1 .. (i - 1) - 1 + 1 : a[j] = s[1 + j - 1]
      BY <1>1, <2>1, SubSeqProperties
    <2> HIDE DEF a
    <2>3. Len(a) = i - 1
      BY <1>1, <2>2
    <2>4. \A j \in 1 .. i - 1 : 1 + j - 1 = j /\ j \in 1 .. (i - 1) - 1 + 1
      BY <1>1
    <2>5. ASSUME NEW j \in 1 .. i - 1 PROVE a[j] = s[j]
      BY <2>2, <2>4
    <2> QED
      BY <2>2, <2>3, <2>5
  <1>3. b \in Seq(S) /\ Len(b) = Len(s) - i /\ \A j \in 1 .. Len(s) - i : b[j] = s[i + j]
    <2>1. \A j \in i + 1 .. Len(s) : s[j] \in S
      BY <1>1
    <2>2. /\ b \in Seq(S) /\ Len(b) = (IF i + 1 <= Len(s) THEN Len(s) - (i + 1) + 1 ELSE 0)
          /\ \A j \in 1 .. Len(s) - (i + 1) + 1 : b[j] = s[(i + 1) + j - 1]
      BY <1>1, <2>1, SubSeqProperties
    <2> HIDE DEF b
    <2>3. Len(b) = Len(s) - i
      BY <1>1, <2>2
    <2>4. \A j \in 1 .. Len(s) - i : (i + 1) + j - 1 = i + j /\ j \in 1 .. Len(s) - (i + 1) + 1
      BY <1>1
    <2>5. ASSUME NEW j \in 1 .. Len(s) - i PROVE b[j] = s[i + j]
      BY <2>2, <2>4
    <2> QED
      BY <2>2, <2>3, <2>5
  <1> HIDE DEF a, b
  <1>4. /\ t \in Seq(S) /\ Len(t) = Len(a) + Len(b)
        /\ \A k \in 1 .. Len(a) + Len(b) : t[k] = IF k <= Len(a) THEN a[k] ELSE b[k - Len(a)]
    BY <1>2, <1>3, ConcatProperties
  <1> HIDE DEF t
  <1>5. /\ Len(t) = Len(s) - 1 /\ Len(a) + Len(b) = Len(s) - 1
        /\ DOMAIN t = 1 .. Len(s) - 1 /\ DOMAIN t = 1 .. Len(a) + Len(b)
    <2>1. Len(a) + Len(b) = Len(s) - 1
      BY <1>1, <1>2, <1>3
    <2>2. DOMAIN t = 1 .. Len(t)
      BY <1>4, LenProperties
    <2> QED
      BY <1>4, <2>1, <2>2
  <1>6. ASSUME NEW k \in DOMAIN t PROVE \E j \in DOMAIN s : t[k] = s[j]
    <2>1. k \in 1 .. Len(s) - 1 /\ k \in 1 .. Len(a) + Len(b)
      BY <1>5
    <2>2. CASE k <= i - 1
      <3>1. t[k] = s[k] /\ k \in DOMAIN s
        BY <1>1, <1>2, <1>4, <2>1, <2>2
      <3> QED
        BY <3>1
    <2>3. CASE k > i - 1
      <3>1. k - (i - 1) \in 1 .. Len(s) - i /\ i + (k - (i - 1)) = k + 1 /\ k + 1 \in DOMAIN s
        BY <1>1, <2>1, <2>3
      <3>2. t[k] = b[k - (i - 1)]
        BY <1>1, <1>2, <1>4, <2>1, <2>3
      <3>3. b[k - (i - 1)] = s[i + (k - (i - 1))]
        BY <1>3, <3>1
      <3> QED
        BY <3>1, <3>2, <3>3
    <2> QED
      BY <1>1, <2>1, <2>2, <2>3
  <1> QED
    BY <1>4, <1>5, <1>6 DEF a, b, t

\* The chains that the host has, retired.
LEMMA SeqRetired ==
  ASSUME NEW s \in Seq(ChainType), NEW c \in ChainType
  PROVE  LET t == [i \in DOMAIN s |-> Retire(s[i])]
         IN  /\ t \in Seq(ChainType) /\ Len(t) = Len(s) /\ DOMAIN t = DOMAIN s
             /\ \A k \in DOMAIN t : t[k].stale
             /\ Retire(c) \in ChainType /\ Retire(c).stale
  <1> DEFINE t == [i \in DOMAIN s |-> Retire(s[i])]
  <1>1. Len(s) \in Nat /\ DOMAIN s = 1 .. Len(s) /\ \A j \in 1 .. Len(s) : s[j] \in ChainType
    BY LenProperties
  <1>2. \A d \in ChainType : Retire(d) \in ChainType /\ Retire(d).stale
    BY DEF Retire, ChainType
  <1>3. t \in [1 .. Len(s) -> ChainType]
    BY <1>1, <1>2
  <1>4. t \in Seq(ChainType) /\ Len(t) = Len(s)
    BY <1>1, <1>3
  <1> QED
    BY <1>1, <1>2, <1>4

\* The kinds of effects on the queue.
HostMove ==
  /\ Running /\ UNCHANGED <<pc, devStatus, held, exited, drv, media>>
  /\ LibHostFetch \/ LibHostIdle \/ \E i \in DOMAIN taken : \E n \in Nat : LibHostComplete(i, n)

\* The steps of the host leave everything but the queue alone.
LEMMA HostMoves ==
  ASSUME QueueTypes, HostStep
  PROVE  HostMove
  <1>1. CASE HostLooks
    BY <1>1 DEF HostLooks, HostFrame, confVars, HostMove
  <1>2. ASSUME NEW i \in DOMAIN taken, NEW n \in Nat, NEW m, NEW A, HostCompletes(i, n, m, A)
        PROVE  HostMove
    BY <1>2 DEF HostCompletes, HostFrame, confVars, HostMove
  <1>3. CASE BlkHost
    BY <1>2, <1>3 DEF BlkHost
  <1>4. CASE ScsiHost
    BY <1>2, <1>4 DEF ScsiHost
  <1>5. CASE RngHost
    <2>1. PICK i \in DOMAIN taken : \E n \in 1 .. taken[i].in : HostCompletes(i, n, taken[i].pos + n, NoAnswer)
      BY <1>5 DEF RngHost
    <2>2. taken[i].in \in Nat
      <3>1. taken[i] \in ChainType
        BY LenProperties DEF QueueTypes
      <3> QED
        BY <3>1 DEF ChainType
    <2>3. PICK n \in 1 .. taken[i].in : HostCompletes(i, n, taken[i].pos + n, NoAnswer)
      BY <2>1
    <2>4. n \in Nat
      BY <2>2
    <2> QED
      BY <1>2, <2>3, <2>4
  <1> QED
    BY <1>1, <1>3, <1>4, <1>5 DEF HostStep, HostWorks

\* The effect of bring-up and tear-down on the queue keeps its types ...
LEMMA TypesEffect ==
  ASSUME QueueTypes, QueueEffect
  PROVE  QueueTypes'
  <1>1. 0 \in Idx /\ << >> \in Seq(ChainType) /\ NoChain \in ChainType
    BY QueueSizesValid DEF ChainType, NoChain
  <1>2. /\ hostIdx' \in Idx /\ taken' \in Seq(ChainType) /\ kicked' \in BOOLEAN /\ kickFails' \in 0 .. MaxKickFailures
    BY <1>1 DEF QueueTypes, QueueEffect, ForgetQueue, hostVars
  <1>3. ring' \in VRingType(ring'.size, {0}, Nat) /\ ring'.size \in QueueSizes /\ desc' \in ChainType
    BY <1>1, QueueSizesValid DEF QueueTypes, QueueEffect
  <1>4. UNCHANGED <<nextAvail, flushOk, usedLen>>
    BY DEF QueueEffect, flushVars
  <1> QED
    BY <1>2, <1>3, <1>4 DEF QueueTypes

\* ... so do the moves of a request ...
LEMMA TypesMove ==
  ASSUME QueueTypes, RequestMove, pc = "FlushPoll" => nextAvail = ring.availIdx
  PROVE  QueueTypes'
  <1>0. IdxMod \in Nat \ {0} /\ 0 \in Idx /\ MaxKickFailures \in Nat
    BY QueueSizesValid
  <1>1. CASE MemoryMove
    BY <1>1 DEF MemoryMove, libVars, hostVars, flushVars, QueueTypes
  <1>2. CASE SubmitMove
    <2>1. PICK c \in ChainType : SubmitChain(c)
      BY <1>2 DEF SubmitMove
    <2>2. ring' = PutAvail(ring, 0) /\ desc' = c /\ nextAvail' = IdxAdd(ring.availIdx, 1)
          /\ UNCHANGED <<flushOk, usedLen, hostIdx, taken, kicked, kickFails>>
      BY <2>1 DEF SubmitChain, hostVars
    <2>3. ring.availIdx \in Idx
      BY DEF QueueTypes, VRingType
    <2>4. nextAvail' \in Idx
      <3>1. ring.availIdx \in Int
        BY <2>3 DEF Idx
      <3> QED
        BY <1>0, <2>2, <3>1, IdxAddType
    <2>5. ring' \in VRingType(ring'.size, {0}, Nat) /\ ring'.size \in QueueSizes
      BY <2>2, <2>3, RingPutAvail DEF QueueTypes
    <2> QED
      BY <2>2, <2>4, <2>5 DEF QueueTypes
  <1>3. CASE FlushPublish
    <2>1. ring' \in VRingType(ring'.size, {0}, Nat) /\ ring'.size \in QueueSizes
      <3>1. ring \in VRingType(ring.size, {0}, Nat) /\ ring.size \in QueueSizes /\ nextAvail \in Idx
        BY DEF QueueTypes
      <3>2. ring' = [ring EXCEPT !.availIdx = nextAvail]
        BY <1>3 DEF FlushPublish
      <3>3. ring' \in VRingType(ring.size, {0}, Nat) /\ ring'.size = ring.size
        BY <3>1, <3>2, RingPublish
      <3> QED
        BY <3>1, <3>3
    <2> QED
      BY <1>3, <2>1 DEF QueueTypes, FlushPublish, hostVars, flushVars
  <1>4. CASE FlushNotify
    BY <1>4 DEF QueueTypes, FlushNotify, flushVars
  <1>5. CASE FlushNotifyFails
    <2>1. kickFails' \in 0 .. MaxKickFailures
      BY <1>0, <1>5 DEF QueueTypes, FlushNotifyFails
    <2> QED
      BY <1>5, <2>1 DEF QueueTypes, FlushNotifyFails
  <1>6. CASE FlushPoll
    <2>1. usedLen' = NextUsed(ring, nextAvail + IdxMod - 1).len /\ flushOk' = TRUE
          /\ UNCHANGED <<ring, desc, nextAvail, hostIdx, taken, kicked, kickFails>>
      BY <1>6 DEF FlushPoll, hostVars
    <2> DEFINE qs == ring.size
    <2>2. ValidQueueSize(qs) /\ qs \in Nat \ {0} /\ nextAvail \in Nat
      BY QueueSizesValid DEF QueueTypes, Idx
    <2>3. (nextAvail + IdxMod - 1) % qs \in 0 .. qs - 1
      <3>1. nextAvail + IdxMod - 1 \in Int
        BY <1>0, <2>2
      <3> HIDE DEF qs
      <3> QED
        BY <2>2, <3>1, DivMod
    <2>4. ring.usedRing \in [0 .. qs - 1 -> [id : {0}, len : Nat]]
      BY DEF QueueTypes, VRingType, UsedElem
    <2> HIDE DEF qs
    <2>5. usedLen' \in Nat
      BY <2>1, <2>3, <2>4 DEF NextUsed, qs
    <2> QED
      BY <2>1, <2>5 DEF QueueTypes
  <1>7. CASE ReturnMove
    <2>1. /\ desc' = Retire(desc) /\ taken' = [i \in DOMAIN taken |-> Retire(taken[i])]
          /\ nextAvail' = 0 /\ flushOk' = FALSE /\ usedLen' = 0 /\ UNCHANGED <<ring, hostIdx, kicked, kickFails>>
      BY <1>7 DEF ReturnMove, RetireChains
    <2>2. taken' \in Seq(ChainType) /\ desc' \in ChainType
      BY <2>1, SeqRetired DEF QueueTypes
    <2> QED
      BY <1>0, <2>1, <2>2 DEF QueueTypes
  <1> QED
    BY <1>1, <1>2, <1>3, <1>4, <1>5, <1>6, <1>7 DEF RequestMove, FlushSteps

\* ... the host ...
LEMMA TypesHost ==
  ASSUME QueueTypes, HostMove
  PROVE  QueueTypes'
  <1>0. IdxMod \in Nat \ {0} /\ ring.availIdx \in Idx /\ ring.usedIdx \in Idx
    BY QueueSizesValid DEF QueueTypes, VRingType
  <1>1. CASE LibHostFetch
    <2>1. hostIdx' \in Idx
      BY <1>0, <1>1, IdxAddType DEF LibHostFetch, QueueTypes, Idx
    <2>2. taken' \in Seq(ChainType)
      BY <1>1, AppendProperties DEF LibHostFetch, QueueTypes
    <2> QED
      BY <1>1, <2>1, <2>2 DEF LibHostFetch, QueueTypes, flushVars
  <1>2. CASE LibHostIdle
    BY <1>2 DEF LibHostIdle, QueueTypes, flushVars
  <1>3. ASSUME NEW i \in DOMAIN taken, NEW n \in Nat, LibHostComplete(i, n) PROVE QueueTypes'
    <2>1. taken' = SubSeq(taken, 1, i - 1) \o SubSeq(taken, i + 1, Len(taken)) /\ ring' = PutUsed(ring, 0, n)
          /\ UNCHANGED <<desc, hostIdx, kicked, kickFails, nextAvail, flushOk, usedLen>>
      BY <1>3 DEF LibHostComplete, flushVars
    <2>2. taken' \in Seq(ChainType)
      BY <2>1, SeqRemoved DEF QueueTypes
    <2>3. ring' \in VRingType(ring'.size, {0}, Nat) /\ ring'.size \in QueueSizes
      <3>1. ring \in VRingType(ring.size, {0}, Nat) /\ ring.size \in QueueSizes
        BY DEF QueueTypes
      <3>2. ring' \in VRingType(ring.size, {0}, Nat) /\ ring'.size = ring.size
        BY <2>1, <3>1, RingPutUsed
      <3> QED
        BY <3>1, <3>2
    <2> QED
      BY <2>1, <2>2, <2>3 DEF QueueTypes
  <1> QED
    BY <1>1, <1>2, <1>3 DEF HostMove

\* ... and with them every step.
LEMMA TypesStep ==
  ASSUME Ledger, Queue, index \in Nat, [SyncNext]_syncVars
  PROVE  QueueTypes'
  <1>0. QueueTypes /\ (pc = "FlushPoll" => nextAvail = ring.availIdx)
    BY DEF Queue, QueuePlace, Published
  <1>1. ASSUME UNCHANGED libVars PROVE QueueTypes'
    BY <1>0, <1>1 DEF QueueTypes, libVars, hostVars, flushVars
  <1>2. CASE InitStep
    <2>1. PICK after \in {"InitDriverOk", "CfgWrite"} : InitSteps(MinDescs, after)
      BY <1>2 DEF InitStep
    <2>2. CASE QueueSel(MinDescs)
      <3>1. ring' \in VRingType(ring'.size, {0}, Nat) /\ ring'.size \in QueueSizes
        BY <1>0, <2>2, QueueSizesValid DEF QueueSel, QueueTypes
      <3> QED
        BY <1>0, <2>2, <3>1 DEF QueueSel, QueueTypes, hostVars, flushVars
    <2> QED
      BY <1>0, <2>1, <2>2, TypesEffect DEF InitSteps
  <1>3. CASE BindingStep
    BY <1>0, <1>3, TypesEffect DEF BindingStep, StartSteps
  <1>4. CASE RequestStep
    BY <1>0, <1>4, TypesMove DEF RequestStep
  <1>5. CASE HostStep
    BY <1>0, <1>5, HostMoves, TypesHost
  <1>6. CASE ExitBootCallback
    BY <1>0, <1>6, TypesEffect DEF ExitBootCallback
  <1>7. CASE Start \/ Stop \/ CallMove \/ ConfigStep \/ CfgWriteStep \/ UNCHANGED syncVars
    BY <1>1, <1>7 DEF Start, Stop, CallMove, ConfigStep, InitConfig, CfgWriteStep, MemoryStep, syncVars
  <1> QED
    BY <1>2, <1>3, <1>4, <1>5, <1>6, <1>7, Kinds

\* Where the driver can be, and where it has a ring.
LEMMA RingAt ==
  ASSUME Ledger
  PROVE  /\ Bare \/ pc = "UninitRing" \/ pc \in UpLabels \/ (pc = "idle" /\ Bound)
         /\ pc \in SetupLabels \cup UpLabels \cup {"UninitRing"} \/ (pc = "idle" /\ Bound) => held["ring"] = 1
         /\ pc \in NoRingLabels \/ (pc = "idle" /\ Unbound) => held["ring"] = 0
  <1>1. pc \in RequestLabels => held["ring"] = 1
    BY RequestBound
  <1>2. pc = "idle" => Bound \/ Unbound
    BY RequestBound
  <1>3. (Bound => held["ring"] = 1) /\ (Unbound => held["ring"] = 0)
    BY HeldBound
  <1>4. pc \in BindingLabels \cup RequestLabels \cup {"idle"}
    BY DEF Ledger, BindingHeld, BlkHeld, ScsiHeld, RngHeld, RequestLabels, BeforeSubmit, FlushLabels, Cleanup,
           BindingLabels, DevLabels, OpenLabels, RingLabels, MapLabels, EventLabels
  <1>5. ASSUME pc \in BindingLabels
        PROVE  /\ pc \in RingLabels \cup MapLabels \cup EventLabels => held["ring"] = 1
               /\ pc \notin RingLabels \cup MapLabels \cup EventLabels => held["ring"] = 0
    <2>1. BindingHeld(pc, held)
      BY <1>5, HeldBinding
    <2>2. \E S : Exact(held, S) /\ ("ring" \in S <=> pc \in RingLabels \cup MapLabels \cup EventLabels)
      BY <2>1 DEF BindingHeld, BindingLabels, DevLabels, OpenLabels, RingLabels, MapLabels, EventLabels
    <2>3. "ring" \in SyncResources
      BY DEF SyncResources, RingRes
    <2> QED
      BY <2>2, <2>3, ExactCounts
  <1>6. pc \in SetupLabels \cup UpLabels \cup {"UninitRing"} => held["ring"] = 1
    BY <1>1, <1>5 DEF SetupLabels, UpLabels, BindingLabels, RingLabels, MapLabels, EventLabels
  <1>7. pc \in NoRingLabels => held["ring"] = 0
    BY <1>5 DEF NoRingLabels, BindingLabels, DevLabels, OpenLabels, RingLabels, MapLabels, EventLabels
  <1>8. Bare \/ pc = "UninitRing" \/ pc \in UpLabels \/ (pc = "idle" /\ Bound)
    BY <1>2, <1>4 DEF Bare, NoRingLabels, SetupLabels, UpLabels, BindingLabels, DevLabels, OpenLabels, RingLabels,
                      MapLabels, EventLabels
  <1> QED
    BY <1>2, <1>3, <1>6, <1>7, <1>8

\* The labels are in one class each.
LEMMA LabelClasses ==
  /\ "idle" \notin NoRingLabels \cup SetupLabels \cup UpLabels
  /\ "UninitRing" \notin NoRingLabels \cup SetupLabels \cup UpLabels
  /\ \A l \in UpLabels : l \notin NoRingLabels \cup SetupLabels
  /\ RequestLabels \subseteq UpLabels /\ FlushLabels \subseteq RequestLabels /\ Published \subseteq FlushLabels
  /\ \A l \in NoRingLabels \cup SetupLabels : l \notin FlushLabels
  /\ BeforeSubmit \subseteq RequestLabels /\ Cleanup \subseteq RequestLabels
  /\ \A l \in BeforeSubmit \cup Cleanup \cup {"idle", "UninitRing"} : l \notin FlushLabels
  /\ \A l \in Cleanup : l \notin BeforeSubmit
  BY DEF NoRingLabels, SetupLabels, UpLabels, RequestLabels, BeforeSubmit, FlushLabels, Cleanup, Published

\* A queue that nobody has touched has nothing in flight.
LEMMA UntouchedCounted ==
  ASSUME QueueTypes, Untouched
  PROVE  Counted /\ InFlight = 0 /\ Ahead(hostIdx, ring.availIdx) = 0 /\ Len(taken) = 0
  <1>1. Ahead(0, 0) = 0
    BY QueueSizesValid, AheadType
  <1>2. InFlight = 0 /\ Ahead(hostIdx, ring.availIdx) = 0 /\ Len(taken) = 0
    BY <1>1 DEF Untouched, InFlight
  <1>3. kickFails \in Nat
    BY QueueSizesValid DEF QueueTypes
  <1> QED
    BY <1>2, <1>3 DEF Counted

\* The queue is left alone by a step that leaves the class of the label alone.
LEMMA PlaceSame ==
  ASSUME QueuePlace, drv' = drv, UNCHANGED <<ring, hostIdx, kickFails>>, Len(taken') = Len(taken),
         taken = << >> => taken' = << >>,
         Bare' => Bare, pc' # "UninitRing", exited' /\ Bound' => exited /\ Bound, Up' => Up, Sized' => Sized,
         pc \notin Published, pc' \notin FlushLabels
  PROVE  QueuePlace'
  <1>1. pc' \notin Published /\ pc' # "FlushPublish" /\ pc' # "Flushed"
    BY DEF Published, FlushLabels
  <1>2. Counted => Counted'
    BY <1>1 DEF Counted, InFlight
  <1>3. MinDescs' = MinDescs
    BY DEF MinDescs
  <1>4. Untouched => Untouched'
    BY DEF Untouched
  <1> QED
    BY <1>1, <1>2, <1>3, <1>4 DEF QueuePlace

\* The moves of a request keep count of the chains in flight.
LEMMA PlaceMove ==
  ASSUME Ledger, Ledger', Bringup, Queue, RequestStep
  PROVE  QueuePlace'
  <1>0. /\ pc \in RequestLabels /\ (pc' \in RequestLabels \/ (pc' = "idle" /\ Bound'))
        /\ ~exited /\ exited' = exited /\ drv' = drv
    BY RequestStays, LabelClasses DEF RequestStep, BindingKept, confVars, Bringup
  <1>1. Up /\ Sized /\ pc' # "UninitRing" /\ ~Bare'
    <2>1. (Bound => ~Unbound)'
      BY RequestBound, PTL
    <2> QED
      BY <1>0, <2>1, LabelClasses DEF Up, Sized, Bare
  <1>2. QueueTypes /\ QueuePlace
    BY DEF Queue
  <1>3. Counted /\ ring.size >= MinDescs
    BY <1>1, <1>2 DEF QueuePlace
  <1>t. /\ IdxMod \in Nat \ {0} /\ hostIdx \in Idx /\ ring.availIdx \in Idx /\ ring.usedIdx \in Idx
        /\ Ahead(hostIdx, ring.availIdx) \in Idx /\ InFlight \in Idx /\ Len(taken) \in Nat
        /\ kickFails \in Nat /\ kickFails <= MaxKickFailures /\ MaxKickFailures \in Nat
        /\ MaxKickFailures + 1 < IdxMod
    <2>1. hostIdx \in Idx /\ ring.availIdx \in Idx /\ ring.usedIdx \in Idx
      BY <1>2, RingFields DEF QueueTypes
    <2>2. Ahead(hostIdx, ring.availIdx) \in Idx /\ InFlight \in Idx
      BY <2>1, AheadType, QueueSizesValid DEF InFlight
    <2>3. Len(taken) \in Nat
      BY <1>2, LenProperties DEF QueueTypes
    <2> QED
      BY <1>2, <2>1, <2>2, <2>3, QueueSizesValid DEF QueueTypes
  <1>4. ASSUME Counted', MinDescs' = MinDescs, ring'.size = ring.size,
               pc' = "FlushPublish" => nextAvail' = IdxAdd(ring'.availIdx, 1),
               pc' \in Published => nextAvail' = ring'.availIdx,
               pc' = "Flushed" /\ flushOk' => InFlight' = 0
        PROVE  QueuePlace'
    BY <1>0, <1>1, <1>3, <1>4 DEF QueuePlace
  <1>5. MinDescs' = MinDescs
    BY <1>0 DEF MinDescs
  <1>6. CASE MemoryMove
    <2>1. UNCHANGED <<ring, hostIdx, taken, kickFails>>
      BY <1>6 DEF MemoryMove, libVars, hostVars
    <2>2. pc \notin Published /\ pc' \notin FlushLabels
      BY <1>6 DEF MemoryMove, BeforeSubmit, Cleanup, Published, FlushLabels
    <2>3. Up' => Up
      BY <1>1
    <2> QED
      BY <1>0, <1>1, <1>2, <2>1, <2>2, PlaceSame
  <1>7. CASE SubmitMove
    <2>1. PICK c : SubmitChain(c)
      BY <1>7 DEF SubmitMove
    <2>2. ring' = PutAvail(ring, 0) /\ nextAvail' = IdxAdd(ring.availIdx, 1)
          /\ UNCHANGED <<hostIdx, taken, kickFails>>
      BY <2>1 DEF SubmitChain, hostVars
    <2>3. ring'.availIdx = ring.availIdx /\ ring'.usedIdx = ring.usedIdx /\ ring'.size = ring.size
      BY <1>2, <2>2, RingPutAvail DEF QueueTypes
    <2>4. pc' = "FlushPublish" /\ pc \notin Published /\ pc' \notin Published
      BY <1>7 DEF SubmitMove, Published
    <2>5. Counted'
      BY <1>3, <2>2, <2>3, <2>4 DEF Counted, InFlight
    <2> QED
      BY <1>4, <1>5, <2>2, <2>3, <2>4, <2>5
  <1>8. CASE FlushPublish
    <2>1. /\ pc = "FlushPublish" /\ pc' = "FlushNotify" /\ ring' = [ring EXCEPT !.availIdx = nextAvail]
          /\ UNCHANGED <<hostIdx, taken, kickFails, nextAvail>>
      BY <1>8 DEF FlushPublish, hostVars, flushVars
    <2>2. ring'.availIdx = nextAvail /\ ring'.usedIdx = ring.usedIdx /\ ring'.size = ring.size
      BY <1>2, <2>1, RingPublish DEF QueueTypes
    <2>3. nextAvail = IdxAdd(ring.availIdx, 1)
      BY <1>2, <2>1 DEF QueuePlace
    <2>4. InFlight <= kickFails /\ Ahead(hostIdx, ring.availIdx) + Len(taken) = InFlight
      BY <1>3, <1>t, <2>1 DEF Counted, Published
    <2>5. InFlight + 1 < IdxMod /\ Ahead(hostIdx, ring.availIdx) + 1 < IdxMod
      BY <1>t, <2>4 DEF Idx
    <2>6. InFlight' = InFlight + 1
      BY <1>t, <2>2, <2>3, <2>5, AheadAdd DEF InFlight
    <2>7. Ahead(hostIdx', ring'.availIdx) = Ahead(hostIdx, ring.availIdx) + 1
      BY <1>t, <2>1, <2>2, <2>3, <2>5, AheadAdd
    <2>8. Counted'
      <3>1. Ahead(hostIdx', ring'.availIdx) + Len(taken') = InFlight'
        BY <1>t, <2>1, <2>4, <2>6, <2>7 DEF Idx
      <3>2. InFlight' <= kickFails' + 1
        BY <1>t, <2>1, <2>4, <2>6 DEF Idx
      <3> QED
        BY <2>1, <3>1, <3>2 DEF Counted, Published
    <2> QED
      BY <1>4, <1>5, <2>1, <2>2, <2>8
  <1>9. CASE FlushNotify
    <2>1. pc = "FlushNotify" /\ pc' = "FlushPoll" /\ UNCHANGED <<ring, hostIdx, taken, kickFails, nextAvail>>
      BY <1>9 DEF FlushNotify, flushVars
    <2>2. nextAvail = ring.availIdx
      BY <1>2, <2>1 DEF QueuePlace, Published
    <2>3. Counted'
      BY <1>3, <2>1 DEF Counted, InFlight, Published
    <2> QED
      BY <1>4, <1>5, <2>1, <2>2, <2>3
  <1>10. CASE FlushNotifyFails
    <2>1. pc = "FlushNotify" /\ pc' = "Flushed" /\ UNCHANGED <<ring, hostIdx, taken, nextAvail>>
          /\ kickFails' = kickFails + 1 /\ flushOk' = FALSE
      BY <1>10 DEF FlushNotifyFails
    <2>2. InFlight' = InFlight /\ InFlight <= kickFails + 1
      BY <1>3, <2>1 DEF Counted, InFlight, Published
    <2>3. Counted'
      <3>1. pc' \notin Published
        BY <2>1 DEF Published
      <3>2. InFlight' <= kickFails'
        BY <2>1, <2>2
      <3>3. Ahead(hostIdx', ring'.availIdx) + Len(taken') = InFlight'
        BY <1>3, <2>1, <2>2 DEF Counted
      <3>4. kickFails' + 0 = kickFails'
        BY <1>t, <2>1
      <3> QED
        BY <3>1, <3>2, <3>3, <3>4 DEF Counted
    <2> QED
      BY <1>4, <1>5, <2>1, <2>3 DEF Published
  <1>11. CASE FlushPoll
    <2>1. pc = "FlushPoll" /\ pc' = "Flushed" /\ UNCHANGED <<ring, hostIdx, taken, kickFails, nextAvail>>
          /\ ring.usedIdx = nextAvail
      BY <1>11 DEF FlushPoll, hostVars
    <2>2. nextAvail = ring.availIdx
      BY <1>2, <2>1 DEF QueuePlace, Published
    <2>3. InFlight = 0 /\ InFlight' = 0
      BY <1>t, <2>1, <2>2, AheadType DEF InFlight
    <2>4. Counted'
      <3>1. pc' \notin Published
        BY <2>1 DEF Published
      <3>2. InFlight' <= kickFails' + 0
        BY <1>t, <2>1, <2>3
      <3>3. Ahead(hostIdx', ring'.availIdx) + Len(taken') = InFlight'
        BY <1>3, <2>1, <2>3 DEF Counted
      <3> QED
        BY <3>1, <3>2, <3>3 DEF Counted
    <2> QED
      BY <1>4, <1>5, <2>1, <2>3, <2>4 DEF Published
  <1>12. CASE ReturnMove
    <2>1. /\ taken' = [i \in DOMAIN taken |-> Retire(taken[i])] /\ UNCHANGED <<ring, hostIdx, kickFails>>
          /\ pc \in Cleanup /\ pc' = "idle"
      BY <1>12 DEF ReturnMove, RetireChains, Cleanup
    <2>2. Len(taken') = Len(taken)
      BY <1>2, <2>1, SeqRetired DEF QueueTypes
    <2>3. taken = << >> => taken' = << >>
      BY <2>1
    <2>4. pc \notin Published /\ pc' \notin FlushLabels
      BY <2>1, LabelClasses
    <2>5. Up' => Up
      BY <1>1
    <2> QED
      BY <1>0, <1>1, <1>2, <2>1, <2>2, <2>3, <2>4, PlaceSame
  <1> QED
    BY <1>6, <1>7, <1>8, <1>9, <1>10, <1>11, <1>12 DEF RequestStep, RequestMove, FlushSteps

\* The host keeps count of them.
LEMMA PlaceHost ==
  ASSUME Ledger, Bringup, Queue, HostMove
  PROVE  QueuePlace'
  <1>0. UNCHANGED <<pc, devStatus, held, exited, drv>> /\ Running /\ QueueTypes /\ QueuePlace
    BY DEF HostMove, Queue
  <1>1. Bare' = Bare /\ Up' = Up /\ Sized' = Sized /\ Bound' = Bound /\ MinDescs' = MinDescs
    BY <1>0 DEF Bare, Up, Sized, Bound, Unbound, MinDescs
  <1>2. Bare \/ Up
    <2>1. pc # "UninitRing" /\ ~(exited /\ Bound)
      BY <1>0 DEF Bringup, Running
    <2> QED
      BY <2>1, RingAt DEF Up
  <1>t. /\ IdxMod \in Nat \ {0} /\ hostIdx \in Idx /\ ring.availIdx \in Idx /\ ring.usedIdx \in Idx
        /\ Ahead(hostIdx, ring.availIdx) \in Nat /\ InFlight \in Nat /\ InFlight < IdxMod /\ Len(taken) \in Nat
        /\ DOMAIN taken = 1 .. Len(taken)
    <2>1. hostIdx \in Idx /\ ring.availIdx \in Idx /\ ring.usedIdx \in Idx
      BY <1>0, RingFields DEF QueueTypes
    <2>2. Ahead(hostIdx, ring.availIdx) \in Idx /\ InFlight \in Idx
      BY <2>1, AheadType, QueueSizesValid DEF InFlight
    <2>3. Len(taken) \in Nat /\ DOMAIN taken = 1 .. Len(taken)
      BY <1>0, LenProperties DEF QueueTypes
    <2> QED
      BY <2>1, <2>2, <2>3, QueueSizesValid DEF Idx
  <1>3. CASE LibHostIdle
    <2>1. UNCHANGED <<ring, hostIdx, taken, kickFails, nextAvail, flushOk>>
      BY <1>3 DEF LibHostIdle, flushVars
    <2>2. Counted' = Counted /\ Untouched' = Untouched /\ InFlight' = InFlight
      BY <1>0, <2>1 DEF Counted, Untouched, InFlight
    <2> QED
      BY <1>0, <1>1, <2>1, <2>2 DEF QueuePlace
  <1>4. CASE LibHostFetch
    <2>1. hostIdx # ring.availIdx /\ hostIdx' = IdxAdd(hostIdx, 1) /\ taken' = Append(taken, desc)
          /\ UNCHANGED <<ring, kickFails, nextAvail, flushOk>>
      BY <1>4 DEF LibHostFetch, flushVars
    <2>2. ~Bare
      BY <1>0, <2>1 DEF QueuePlace, Untouched
    <2>3. Up /\ Counted /\ pc # "UninitRing" /\ ~(exited /\ Bound)
      BY <1>0, <1>2, <2>2 DEF QueuePlace, Bringup, Running
    <2>4. Ahead(hostIdx', ring.availIdx) = Ahead(hostIdx, ring.availIdx) - 1
      BY <1>t, <2>1, AheadSub
    <2>5. Len(taken') = Len(taken) + 1
      BY <1>0, <2>1, AppendProperties DEF QueueTypes
    <2>6. InFlight' = InFlight
      BY <2>1 DEF InFlight
    <2>7. Counted'
      <3>1. Ahead(hostIdx', ring'.availIdx) + Len(taken') = InFlight'
        BY <1>t, <2>1, <2>3, <2>4, <2>5, <2>6 DEF Counted
      <3> QED
        BY <1>0, <2>1, <2>3, <2>6, <3>1 DEF Counted
    <2> QED
      BY <1>0, <1>1, <2>1, <2>2, <2>3, <2>6, <2>7 DEF QueuePlace
  <1>5. ASSUME NEW i \in DOMAIN taken, NEW n \in Nat, LibHostComplete(i, n) PROVE QueuePlace'
    <2>1. taken' = SubSeq(taken, 1, i - 1) \o SubSeq(taken, i + 1, Len(taken)) /\ ring' = PutUsed(ring, 0, n)
          /\ UNCHANGED <<hostIdx, kickFails, nextAvail, flushOk>>
      BY <1>5 DEF LibHostComplete, flushVars
    <2>2. taken # << >> /\ Len(taken) >= 1
      BY <1>t, <1>5
    <2>3. ~Bare
      BY <1>0, <2>2 DEF QueuePlace, Untouched
    <2>4. Up /\ Counted /\ pc # "UninitRing" /\ ~(exited /\ Bound)
      BY <1>0, <1>2, <2>3 DEF QueuePlace, Bringup, Running
    <2>5. ring'.usedIdx = IdxAdd(ring.usedIdx, 1) /\ ring'.availIdx = ring.availIdx /\ ring'.size = ring.size
      BY <1>0, <2>1, RingPutUsed DEF QueueTypes
    <2>6. Len(taken') = Len(taken) - 1
      BY <1>0, <2>1, SeqRemoved DEF QueueTypes
    <2>7. Ahead(hostIdx, ring.availIdx) + Len(taken) = InFlight /\ InFlight >= 1
      <3>1. Ahead(hostIdx, ring.availIdx) + Len(taken) = InFlight
        BY <2>4 DEF Counted
      <3> QED
        BY <1>t, <2>2, <3>1
    <2>8. InFlight' = InFlight - 1
      <3>1. ring.usedIdx # ring.availIdx
        BY <1>t, <2>7, AheadType DEF InFlight
      <3> QED
        BY <1>t, <2>5, <3>1, AheadSub DEF InFlight
    <2>9. Counted'
      <3>1. Ahead(hostIdx', ring'.availIdx) + Len(taken') = InFlight'
        <4>1. Ahead(hostIdx', ring'.availIdx) = Ahead(hostIdx, ring.availIdx)
          BY <2>1, <2>5
        <4> QED
          BY <1>t, <2>6, <2>7, <2>8, <4>1
      <3>2. kickFails \in Nat
        BY <1>0, QueueSizesValid DEF QueueTypes
      <3>3. CASE pc \in Published
        <4>1. InFlight' <= kickFails' + 1
          BY <1>t, <2>1, <2>4, <2>8, <3>2, <3>3 DEF Counted
        <4> QED
          BY <1>0, <3>1, <3>3, <4>1 DEF Counted
      <3>4. CASE pc \notin Published
        <4>1. InFlight' <= kickFails' + 0
          BY <1>t, <2>1, <2>4, <2>8, <3>2, <3>4 DEF Counted
        <4> QED
          BY <1>0, <3>1, <3>4, <4>1 DEF Counted
      <3> QED
        BY <3>3, <3>4
    <2>10. ~(pc = "Flushed" /\ flushOk)
      BY <1>0, <1>t, <2>7 DEF QueuePlace
    <2> QED
      BY <1>0, <1>1, <2>1, <2>3, <2>4, <2>5, <2>9, <2>10 DEF QueuePlace
  <1> QED
    BY <1>3, <1>4, <1>5 DEF HostMove

\* Bring-up does not touch the queue.
LEMMA PlaceBare ==
  ASSUME QueueTypes', drv' = drv, Untouched', pc' # "UninitRing", ~(exited' /\ Bound'), pc' \notin RequestLabels,
         Sized' => ring'.size >= MinDescs
  PROVE  QueuePlace'
  <1>1. Counted'
    BY UntouchedCounted, PTL
  <1>2. pc' # "FlushPublish" /\ pc' \notin Published /\ pc' # "Flushed"
    BY DEF RequestLabels, FlushLabels, Published
  <1>3. MinDescs' = MinDescs
    BY DEF MinDescs
  <1> QED
    BY <1>1, <1>2, <1>3 DEF QueuePlace

\* Bring-up leaves a queue alone that nobody has touched.
LEMMA UntouchedEffect ==
  ASSUME QueueTypes, Untouched, QueueEffect
  PROVE  Untouched' /\ ring'.size = ring.size
  <1>1. hostIdx' = 0 /\ taken' = << >>
    BY DEF Untouched, QueueEffect, ForgetQueue, hostVars
  <1>2. ring'.availIdx = 0 /\ ring'.usedIdx = 0 /\ ring'.size = ring.size
    BY QueueSizesValid DEF QueueTypes, Untouched, QueueEffect
  <1> QED
    BY <1>1, <1>2 DEF Untouched

\* The steps of Init do not touch the queue.
LEMMA PlaceInit ==
  ASSUME Ledger, Bringup, Queue, QueueTypes', InitStep
  PROVE  QueuePlace'
  <1> USE DEF Sized, Bare, NoRingLabels, SetupLabels
  <1>0. QueueTypes /\ QueuePlace /\ exited' = exited /\ drv' = drv
    BY DEF Queue, InitStep, confVars
  <1>1. PICK after \in {"InitDriverOk", "CfgWrite"} : InitSteps(MinDescs, after)
    BY DEF InitStep
  <1>2. CASE QueueSel(MinDescs)
    <2>1. pc = "QueueSel" /\ UNCHANGED <<hostIdx, taken>>
      BY <1>2 DEF QueueSel, hostVars
    <2>2. Untouched /\ ~exited
      BY <1>0, <2>1 DEF QueuePlace, Bringup
    <2>3. CASE \E qs \in QueueSizes : qs >= MinDescs /\ ring' = ZeroRing(qs) /\ pc' = "RingInit"
      <3>1. ring'.availIdx = 0 /\ ring'.usedIdx = 0 /\ ring'.size >= MinDescs /\ pc' = "RingInit"
        BY <2>3, QueueSizesValid
      <3>2. Untouched'
        BY <2>1, <2>2, <3>1 DEF Untouched
      <3> QED
        BY <1>0, <2>2, <3>1, <3>2, PlaceBare DEF RequestLabels, BeforeSubmit, FlushLabels, Cleanup
    <2>4. CASE pc' = "Failed" /\ ring' = ring
      <3>1. Untouched'
        BY <2>1, <2>2, <2>4 DEF Untouched
      <3>2. ~Sized'
        BY <2>4 DEF UpLabels, RequestLabels, BeforeSubmit, FlushLabels, Cleanup
      <3> QED
        BY <1>0, <2>2, <2>4, <3>1, <3>2, PlaceBare DEF RequestLabels, BeforeSubmit, FlushLabels, Cleanup
    <2> QED
      BY <1>2, <2>3, <2>4 DEF QueueSel
  <1>3. CASE QueueEffect /\ ~QueueSel(MinDescs)
    <2>1. /\ pc \in NoRingLabels \cup SetupLabels
          /\ pc' \in (NoRingLabels \ {"RingInit"}) \cup SetupLabels \cup {"CreateExitBoot"}
          /\ pc' \in SetupLabels \cup {"CreateExitBoot"} => pc \in SetupLabels \cup {"RingInit"}
      <3>1. CASE InitReset \/ FeaturesCheck \/ InitFailed
        BY <3>1 DEF InitReset, FeaturesCheck, InitFailed
      <3>2. CASE \/ SetNext("InitAck", "InitDriver", "Failed", "ACK", TRUE)
                 \/ SetNext("InitDriver", "InitConfig", "Failed", "DRIVER", TRUE)
                 \/ SetNext("FeaturesOk", "FeaturesCheck", "Failed", "FEATURES_OK", TRUE)
                 \/ SetNext("InitDriverOk", "CreateExitBoot", "UnmapQueue", "DRIVER_OK", DriverOkMayFail)
        BY <3>2 DEF SetNext
      <3>3. CASE \/ Try("RingInit", "RingMap", "Failed", {"ring"})
                 \/ Try("RingMap", "QueueAddress", "ReleaseQueue", {"ringMap"})
                 \/ Try("QueueAddress", IF modern THEN after ELSE "GuestFeatures", "UnmapQueue", {})
                 \/ Try("GuestFeatures", after, "UnmapQueue", {})
        BY <3>3 DEF Try
      <3>4. CASE \/ Undo("UnmapQueue", "ReleaseQueue", {"ringMap"})
                 \/ Undo("ReleaseQueue", "Failed", {"ring"})
        BY <3>4 DEF Undo
      <3> QED
        BY <1>1, <1>3, <3>1, <3>2, <3>3, <3>4 DEF InitSteps
    <2>2. Untouched /\ ~exited
      BY <1>0, <2>1 DEF QueuePlace, Bringup
    <2>3. Untouched' /\ ring'.size = ring.size
      BY <1>0, <1>3, <2>2, UntouchedEffect
    <2>4. Sized' => Sized
      BY <2>1 DEF UpLabels, RequestLabels, BeforeSubmit, FlushLabels, Cleanup
    <2>5. Sized' => ring'.size >= MinDescs
      BY <1>0, <2>3, <2>4 DEF QueuePlace
    <2>6. pc' # "UninitRing" /\ pc' \notin RequestLabels
      BY <2>1 DEF RequestLabels, BeforeSubmit, FlushLabels, Cleanup
    <2> QED
      BY <1>0, <2>2, <2>3, <2>5, <2>6, PlaceBare
  <1> QED
    BY <1>1, <1>2, <1>3 DEF InitSteps

\* The kinds of steps of the driver binding.
NoRingMove == /\ pc \in NoRingLabels
              /\ (pc' \in {"OpenVirtIo", "InitReset", "FreeDev"}) \/ (pc' = "idle" /\ Unbound')
              /\ QueueEffect
UpMove     == /\ pc \in {"CreateExitBoot", "Install", "CloseExitBoot"}
              /\ pc' \in {"Install", "CloseExitBoot", "UninitReset"} \/ (pc' = "idle" /\ Bound')
              /\ UNCHANGED libVars
ResetMove  == /\ pc = "UninitReset" /\ pc' = "UninitRing"
              /\ ForgetQueue /\ UNCHANGED <<ring, desc, flushVars>>
FreeMove   == /\ pc = "UninitRing" /\ pc' = "CloseVirtIo"
              /\ ForgetQueue /\ ring' = ZeroRing(ring.size) /\ desc' = NoChain /\ UNCHANGED flushVars

\* The steps of the driver binding are of these kinds.
LEMMA BindingMoves ==
  ASSUME Ledger, Ledger', Bringup, BindingStep
  PROVE  NoRingMove \/ UpMove \/ ResetMove \/ FreeMove
  <1>0. QueueEffect
    BY DEF BindingStep, StartSteps
  <1>a. \E S : Exact(held, S)
    BY LedgerExact
  <1>b. (pc = "idle" => Bound \/ Unbound)'
    BY RequestBound, PTL
  <1>c. (Unbound => held["iface"] = 0)' /\ (Bound => held["iface"] = 1)'
    BY HeldBound, PTL
  <1>d. (pc \in SetupLabels \cup UpLabels \cup {"UninitRing"} \/ (pc = "idle" /\ Bound) => held["ring"] = 1)'
    BY RingAt, PTL
  <1>e. (pc \in NoRingLabels \/ (pc = "idle" /\ Unbound) => held["ring"] = 0)'
    BY RingAt, PTL
  <1>f. "iface" \in SyncResources /\ DOMAIN held = SyncResources
    BY <1>a DEF SyncResources, BindRes, Exact
  <1>1. CASE Try("AllocDev", "OpenVirtIo", "idle", {"dev"})
    <2>1. pc = "AllocDev" /\ pc' \in {"OpenVirtIo", "idle"} /\ (pc' = "idle" => held' = held)
      BY <1>1 DEF Try
    <2>2. Unbound
      BY <2>1, HeldBinding DEF BindingHeld, BindingLabels, DevLabels, OpenLabels, RingLabels, MapLabels, EventLabels,
                               Unbound
    <2>3. pc' = "idle" => Unbound'
      BY <2>1, <2>2 DEF Unbound
    <2> QED
      BY <1>0, <2>1, <2>3 DEF NoRingMove, NoRingLabels
  <1>2. CASE \/ Try("OpenVirtIo", "InitReset", "FreeDev", {"virtIo"})
             \/ Undo("CloseVirtIo", "FreeDev", {"virtIo"})
    BY <1>0, <1>2 DEF Try, Undo, NoRingMove, NoRingLabels
  <1>3. CASE Undo("FreeDev", "idle", {"dev"})
    <2>1. pc = "FreeDev" /\ pc' = "idle" /\ Release({"dev"})
      BY <1>3 DEF Undo
    <2>2. Exact(held, {"dev"})
      BY <2>1, HeldBinding DEF BindingHeld, BindingLabels, DevLabels, OpenLabels, RingLabels, MapLabels, EventLabels
    <2>3. held'["iface"] = 0
      <3>1. held["iface"] = 0
        BY <1>f, <2>2, ExactCounts
      <3> QED
        BY <1>f, <2>1, <3>1 DEF Release
    <2> QED
      BY <1>0, <1>b, <1>c, <2>1, <2>3 DEF NoRingMove, NoRingLabels
  <1>4. ASSUME pc \in {"CreateExitBoot", "Install", "CloseExitBoot"},
               pc' \in {"Install", "CloseExitBoot", "UninitReset"} \/ (pc' = "idle" /\ Bound'),
               devStatus' = devStatus
        PROVE  UpMove
    <2>1. Running
      BY <1>4 DEF Bringup, Up, UpLabels
    <2>2. devStatus' # {}
      BY <1>4, <2>1 DEF Running
    <2>3. held'["ring"] = 1
      BY <1>4, <1>d DEF UpLabels
    <2>4. UNCHANGED libVars
      BY <1>0, <2>2, <2>3 DEF QueueEffect, libVars
    <2> QED
      BY <1>4, <2>4 DEF UpMove
  <1>5. CASE \/ Try("CreateExitBoot", "Install", "UninitReset", {"exitBoot"})
             \/ Undo("CloseExitBoot", "UninitReset", {"exitBoot"})
    BY <1>4, <1>5 DEF Try, Undo
  <1>6. CASE Try("Install", "idle", "CloseExitBoot", {"iface"})
    <2>1. pc = "Install" /\ devStatus' = devStatus /\ (pc' = "CloseExitBoot" \/ (pc' = "idle" /\ Acquire({"iface"})))
      BY <1>6 DEF Try
    <2>2. ASSUME pc' = "idle" /\ Acquire({"iface"}) PROVE Bound'
      <3>1. Exact(held, {"dev", "virtIo", "ring", "ringMap", "exitBoot"})
        BY <2>1, HeldBinding DEF BindingHeld, BindingLabels, DevLabels, OpenLabels, RingLabels, MapLabels, EventLabels
      <3>2. held["iface"] = 0
        BY <1>f, <3>1, ExactCounts
      <3>3. held'["iface"] = 1
        BY <1>f, <2>2, <3>2 DEF Acquire
      <3> QED
        BY <1>b, <1>c, <2>2, <3>3
    <2> QED
      BY <1>4, <2>1, <2>2
  <1>7. CASE WriteStatus("UninitReset", "UninitRing", {})
    <2>1. pc = "UninitReset" /\ pc' = "UninitRing" /\ devStatus' = {}
      BY <1>7 DEF WriteStatus
    <2>2. held'["ring"] = 1
      BY <1>d, <2>1
    <2> QED
      BY <1>0, <2>1, <2>2 DEF ResetMove, QueueEffect
  <1>8. CASE Undo("UninitRing", "CloseVirtIo", {"ringMap", "ring"})
    <2>1. pc = "UninitRing" /\ pc' = "CloseVirtIo" /\ devStatus' = {}
      BY <1>8 DEF Undo, Bringup
    <2>2. held'["ring"] = 0
      BY <1>e, <2>1 DEF NoRingLabels
    <2> QED
      BY <1>0, <2>1, <2>2 DEF FreeMove, QueueEffect
  <1> QED
    BY <1>1, <1>2, <1>3, <1>5, <1>6, <1>7, <1>8 DEF BindingStep, StartSteps, UninitSteps

\* The steps of the driver binding keep the count: the reset empties the queue.
LEMMA PlaceBinding ==
  ASSUME Ledger, Ledger', Bringup, Queue, QueueTypes', BindingStep
  PROVE  QueuePlace'
  <1>0. QueueTypes /\ QueuePlace /\ exited' = exited /\ drv' = drv
    BY DEF Queue, BindingStep, confVars
  <1>a. (Bound => ~Unbound)'
    BY RequestBound, PTL
  <1>1. CASE NoRingMove
    <2>1. pc \in NoRingLabels /\ QueueEffect
          /\ (pc' \in {"OpenVirtIo", "InitReset", "FreeDev"} \/ (pc' = "idle" /\ Unbound'))
      BY <1>1 DEF NoRingMove
    <2>2. Untouched /\ ~exited
      BY <1>0, <2>1, LabelClasses DEF QueuePlace, Bringup, Bare
    <2>3. Untouched' /\ ring'.size = ring.size
      BY <1>0, <2>1, <2>2, UntouchedEffect
    <2>4. ~Sized' /\ pc' # "UninitRing" /\ pc' \notin RequestLabels
      BY <1>a, <2>1 DEF Sized, SetupLabels, UpLabels, RequestLabels, BeforeSubmit, FlushLabels, Cleanup
    <2> QED
      BY <1>0, <2>2, <2>3, <2>4, PlaceBare
  <1>2. CASE UpMove
    <2>1. /\ pc \in {"CreateExitBoot", "Install", "CloseExitBoot"} /\ UNCHANGED <<ring, hostIdx, taken, kickFails>>
          /\ pc' \in {"Install", "CloseExitBoot", "UninitReset"} \/ (pc' = "idle" /\ Bound')
      BY <1>2 DEF UpMove, libVars, hostVars
    <2>2. Up /\ Sized /\ ~exited
      BY <2>1 DEF Up, Sized, UpLabels, Bringup
    <2>3. ~Bare' /\ pc' # "UninitRing" /\ pc \notin Published /\ pc' \notin FlushLabels
      BY <1>a, <2>1 DEF Bare, NoRingLabels, SetupLabels, Published, FlushLabels
    <2> QED
      BY <1>0, <2>1, <2>2, <2>3, PlaceSame
  <1>3. CASE ResetMove
    <2>1. pc' = "UninitRing" /\ hostIdx' = 0 /\ taken' = << >>
      BY <1>3 DEF ResetMove, ForgetQueue
    <2>2. ~Bare' /\ ~Up' /\ ~Sized' /\ pc' \notin Published /\ pc' # "FlushPublish" /\ pc' # "Flushed"
      BY <2>1, LabelClasses DEF Bare, Up, Sized, Published
    <2> QED
      BY <2>1, <2>2 DEF QueuePlace
  <1>4. CASE FreeMove
    <2>1. pc = "UninitRing" /\ pc' = "CloseVirtIo" /\ hostIdx' = 0 /\ taken' = << >> /\ ring' = ZeroRing(ring.size)
      BY <1>4 DEF FreeMove, ForgetQueue
    <2>2. ring'.availIdx = 0 /\ ring'.usedIdx = 0
      BY <1>0, <2>1, QueueSizesValid DEF QueueTypes
    <2>3. Untouched' /\ ~exited
      BY <2>1, <2>2 DEF Untouched, Bringup
    <2>4. ~Sized' /\ pc' # "UninitRing" /\ pc' \notin RequestLabels
      BY <2>1 DEF Sized, SetupLabels, UpLabels, RequestLabels, BeforeSubmit, FlushLabels, Cleanup
    <2> QED
      BY <1>0, <2>3, <2>4, PlaceBare
  <1> QED
    BY <1>1, <1>2, <1>3, <1>4, BindingMoves

\* No step disturbs what is known about the queue.
LEMMA QueueStep ==
  ASSUME Ledger, Ledger', Bringup, Queue, index \in Nat, [SyncNext]_syncVars
  PROVE  Queue'
  <1>0. QueueTypes /\ QueuePlace /\ QueueTypes'
    BY TypesStep DEF Queue
  <1> SUFFICES QueuePlace'
    BY <1>0 DEF Queue
  <1>a. (Bound => ~Unbound)' /\ (Bound => ~Unbound)
    BY RequestBound, PTL
  <1>1. ASSUME UNCHANGED <<drv, libVars>>, Bare' => Bare, pc' # "UninitRing", exited' /\ Bound' => exited /\ Bound,
               Up' => Up, Sized' => Sized, pc \notin Published, pc' \notin FlushLabels
        PROVE  QueuePlace'
    BY <1>0, <1>1, PlaceSame DEF libVars, hostVars
  <1>2. CASE Start
    <2>1. pc = "idle" /\ held["virtIo"] = 0 /\ pc' = "AllocDev" /\ UNCHANGED <<drv, libVars, exited>> /\ ~exited
      BY <1>2 DEF Start
    <2>2. Bare
      BY <2>1, RequestBound, HeldBound DEF Bare
    <2>3. ~Up' /\ ~Sized'
      BY <2>1 DEF Up, Sized, SetupLabels, UpLabels, RequestLabels, BeforeSubmit, FlushLabels, Cleanup
    <2> QED
      BY <1>1, <2>1, <2>2, <2>3 DEF Published, FlushLabels
  <1>3. CASE Stop
    <2>1. pc = "idle" /\ Bound /\ ~exited /\ pc' = "CloseExitBoot" /\ UNCHANGED <<drv, libVars, exited>>
      BY <1>3, CalledBound DEF Stop, Callable, confVars
    <2>2. Up /\ Sized /\ ~Bare'
      BY <2>1 DEF Up, Sized, Bare, NoRingLabels, SetupLabels
    <2> QED
      BY <1>1, <2>1, <2>2 DEF Published, FlushLabels
  <1>4. CASE CallMove
    <2>1. /\ pc = "idle" /\ Bound /\ Bound' /\ ~exited /\ UNCHANGED <<drv, libVars, exited>>
          /\ pc' \in {"BlkAllocStatus", "ScsiMapRequest", "RngAlloc", "idle"}
      BY <1>4 DEF CallMove, confVars, Bound
    <2>2. Up /\ Sized /\ ~Bare'
      BY <1>a, <2>1 DEF Up, Sized, Bare, NoRingLabels, SetupLabels
    <2> QED
      BY <1>1, <2>1, <2>2 DEF Published, FlushLabels
  <1>5. CASE RequestStep
    BY <1>5, PlaceMove
  <1>6. CASE InitStep
    BY <1>0, <1>6, PlaceInit
  <1>7. CASE ConfigStep
    <2>1. pc = "InitConfig" /\ pc' \in {"Failed", "FeaturesOk", "QueueSel"} /\ UNCHANGED <<drv, libVars, exited, held>>
      BY <1>7 DEF ConfigStep, InitConfig, AfterConfig
    <2>2. Bare /\ ~Up' /\ ~Sized'
      BY <2>1 DEF Bare, NoRingLabels, Up, Sized, SetupLabels, UpLabels, RequestLabels, BeforeSubmit, FlushLabels, Cleanup
    <2>3. Bound' => Bound
      BY <2>1 DEF Bound
    <2> QED
      BY <1>1, <2>1, <2>2, <2>3 DEF Published, FlushLabels
  <1>8. CASE CfgWriteStep
    <2>1. pc = "CfgWrite" /\ pc' \in {"InitDriverOk", "UnmapQueue"} /\ UNCHANGED <<drv, libVars, exited>>
      BY <1>8 DEF CfgWriteStep, Try, MemoryStep, confVars
    <2>2. Bare /\ ~Up' /\ Sized /\ ~exited
      BY <2>1 DEF Bare, NoRingLabels, Up, Sized, SetupLabels, UpLabels, RequestLabels, BeforeSubmit, FlushLabels, Cleanup,
                  Bringup
    <2> QED
      BY <1>1, <2>1, <2>2 DEF Published, FlushLabels
  <1>9. CASE BindingStep
    BY <1>0, <1>9, PlaceBinding
  <1>10. CASE HostStep
    BY <1>0, <1>10, HostMoves, PlaceHost
  <1>11. CASE ExitBootCallback
    <2>1. pc = "idle" /\ pc' = "idle" /\ ~exited /\ exited' /\ UNCHANGED <<held, drv>> /\ QueueEffect
          /\ devStatus' = IF held["exitBoot"] = 1 THEN {} ELSE devStatus
      BY <1>11 DEF ExitBootCallback
    <2>2. ~Up'
      BY <2>1 DEF Up, UpLabels, RequestLabels, BeforeSubmit, FlushLabels, Cleanup
    <2>3. pc' # "FlushPublish" /\ pc' \notin Published /\ pc' # "Flushed" /\ pc' # "UninitRing"
      BY <2>1 DEF Published
    <2>4. CASE Bound
      <3>1. devStatus' = {} /\ held'["ring"] = 1 /\ Bound'
        BY <2>1, <2>4, HeldBound DEF Bound
      <3>2. hostIdx' = 0 /\ taken' = << >> /\ ring' = ring
        BY <2>1, <3>1 DEF QueueEffect, ForgetQueue
      <3>3. ~Bare' /\ Sized
        BY <1>a, <2>1, <2>4, <3>1 DEF Bare, Sized, NoRingLabels, SetupLabels
      <3>4. MinDescs' = MinDescs
        BY <2>1 DEF MinDescs
      <3> QED
        BY <1>0, <2>2, <2>3, <3>2, <3>3, <3>4 DEF QueuePlace
    <2>5. CASE Unbound
      <3>1. Untouched
        BY <1>0, <2>1, <2>5 DEF QueuePlace, Bare
      <3>2. Untouched' /\ ~Bound'
        BY <1>0, <1>a, <2>1, <2>5, <3>1, UntouchedEffect DEF Bound, Unbound
      <3>3. ~Sized'
        BY <2>1, <3>2 DEF Sized, SetupLabels, UpLabels, RequestLabels, BeforeSubmit, FlushLabels, Cleanup
      <3> QED
        BY <2>2, <2>3, <3>2, <3>3 DEF QueuePlace
    <2> QED
      BY <2>1, <2>4, <2>5, RequestBound
  <1>12. CASE UNCHANGED syncVars
    <2>1. UNCHANGED <<pc, held, exited, drv, ring, hostIdx, taken, kickFails, nextAvail, flushOk>>
      BY <1>12 DEF syncVars, confVars, libVars, hostVars, flushVars
    <2>2. /\ Bare' = Bare /\ Up' = Up /\ Sized' = Sized /\ Bound' = Bound /\ MinDescs' = MinDescs
          /\ Counted' = Counted /\ Untouched' = Untouched /\ InFlight' = InFlight
      BY <2>1 DEF Bare, Up, Sized, Bound, Unbound, MinDescs, Counted, Untouched, InFlight
    <2> QED
      BY <1>0, <2>1, <2>2 DEF QueuePlace
  <1> QED
    BY <1>2, <1>3, <1>4, <1>5, <1>6, <1>7, <1>8, <1>9, <1>10, <1>11, <1>12, Kinds

-----------------------------------------------------------------------------
(* Chains.                                                                 *)

\* What the counts say where the host may use the queue.
LEMMA CountFacts ==
  ASSUME Ledger, Bringup, Queue
  PROVE  /\ InFlight \in Nat /\ Len(taken) \in Nat /\ kickFails \in Nat /\ DOMAIN taken = 1 .. Len(taken)
         /\ Running => Up \/ Untouched
         /\ Up \/ Untouched => /\ Len(taken) <= InFlight
                               /\ hostIdx # ring.availIdx => InFlight >= 1
                               /\ kickFails = 0 => InFlight <= 1 /\ (InFlight >= 1 => pc \in Published)
         /\ Untouched => InFlight = 0
         /\ pc \in RequestLabels => Up
         /\ pc = "idle" => Up \/ taken = << >>
  <1>0. QueueTypes /\ QueuePlace
    BY DEF Queue
  <1>1. IdxMod \in Nat \ {0} /\ hostIdx \in Idx /\ ring.availIdx \in Idx /\ ring.usedIdx \in Idx
        /\ kickFails \in Nat
    BY <1>0, RingFields, QueueSizesValid DEF QueueTypes
  <1>2. Ahead(hostIdx, ring.availIdx) \in Nat /\ InFlight \in Nat
        /\ (Ahead(hostIdx, ring.availIdx) = 0 <=> hostIdx = ring.availIdx)
    <2>1. Ahead(hostIdx, ring.availIdx) \in Idx /\ InFlight \in Idx
          /\ (Ahead(hostIdx, ring.availIdx) = 0 <=> hostIdx = ring.availIdx)
      BY <1>1, AheadType DEF InFlight
    <2> QED
      BY <1>1, <2>1 DEF Idx
  <1>3. Len(taken) \in Nat /\ DOMAIN taken = 1 .. Len(taken)
    BY <1>0, LenProperties DEF QueueTypes
  <1>4. Untouched => InFlight = 0 /\ Counted
    BY <1>0, UntouchedCounted
  <1>5. Running => Up \/ Untouched
    BY <1>0, RingAt DEF Bringup, Running, QueuePlace, Up
  <1>6. ASSUME Up \/ Untouched
        PROVE  /\ Len(taken) <= InFlight
               /\ hostIdx # ring.availIdx => InFlight >= 1
               /\ kickFails = 0 => InFlight <= 1 /\ (InFlight >= 1 => pc \in Published)
    <2>1. Counted
      BY <1>0, <1>4, <1>6 DEF QueuePlace
    <2>2. Ahead(hostIdx, ring.availIdx) + Len(taken) = InFlight
      BY <2>1 DEF Counted
    <2>3. Len(taken) <= InFlight /\ (hostIdx # ring.availIdx => InFlight >= 1)
      BY <1>2, <1>3, <2>2
    <2>4. CASE pc \in Published
      <3>1. InFlight <= kickFails + 1
        BY <2>1, <2>4 DEF Counted
      <3> QED
        BY <1>1, <1>2, <2>3, <2>4, <3>1
    <2>5. CASE pc \notin Published
      <3>1. InFlight <= kickFails + 0
        BY <2>1, <2>5 DEF Counted
      <3> QED
        BY <1>1, <1>2, <2>3, <3>1
    <2> QED
      BY <2>4, <2>5
  <1>7. pc \in RequestLabels => Up
    BY LabelClasses DEF Up
  <1>8. pc = "idle" => Up \/ taken = << >>
    BY <1>0, RequestBound DEF Up, QueuePlace, Bare, Untouched
  <1> QED
    BY <1>1, <1>2, <1>3, <1>4, <1>5, <1>6, <1>7, <1>8

\* Outside of requests every chain is one that its request has given up on.
LEMMA ChainsSame ==
  ASSUME Chains, pc \notin FlushLabels \cup Cleanup, pc' \notin FlushLabels \cup Cleanup,
         taken' = taken \/ taken' = << >>, kickFails' = kickFails, desc'.stale \/ InFlight' = 0
  PROVE  Chains'
  <1>1. \A i \in DOMAIN taken : taken[i].stale /\ (kickFails = 0 => ~taken[i].stale)
    BY DEF Chains
  <1>2. \A i \in DOMAIN taken' : taken'[i].stale /\ (kickFails' = 0 => ~taken'[i].stale)
    <2>1. CASE taken' = taken
      BY <1>1, <2>1
    <2>2. CASE taken' = << >>
      BY <2>2
    <2> QED
      BY <2>1, <2>2
  <1> QED
    BY <1>2 DEF Chains

\* The moves of a request know whose chains there are.
LEMMA ChainsMove ==
  ASSUME Ledger, Ledger', Bringup, Queue, Queue', Chains, RequestStep
  PROVE  Chains'
  <1>0. pc \in RequestLabels /\ QueueTypes
    BY RequestStays DEF Queue
  <1>1. /\ DOMAIN taken = 1 .. Len(taken) /\ Len(taken) \in Nat /\ Len(taken) <= InFlight /\ InFlight \in Nat
        /\ kickFails \in Nat /\ (kickFails = 0 => (InFlight >= 1 => pc \in Published))
    BY <1>0, CountFacts
  <1>2. InFlight = 0 => DOMAIN taken = {}
    BY <1>1
  <1>3. CASE MemoryMove
    <2>1. UNCHANGED <<ring, desc, taken, kickFails>> /\ InFlight' = InFlight
      BY <1>3 DEF MemoryMove, libVars, hostVars, InFlight
    <2>2. pc' \notin FlushLabels
      BY <1>3 DEF MemoryMove, BeforeSubmit, Cleanup, FlushLabels
    <2>3. CASE pc' \in Cleanup
      BY <2>1, <2>2, <2>3 DEF Chains
    <2>4. CASE pc' \notin Cleanup /\ pc \in BeforeSubmit
      <3>1. pc \notin FlushLabels \cup Cleanup
        BY <2>4, LabelClasses
      <3>2. desc'.stale \/ InFlight' = 0
        BY <2>1, <3>1 DEF Chains
      <3> QED
        BY <2>1, <2>2, <2>4, <3>1, <3>2, ChainsSame
    <2>5. CASE pc' \notin Cleanup /\ pc = "Flushed"
      <3>1. InFlight = 0
        BY <1>3, <2>5 DEF MemoryMove, Queue, QueuePlace
      <3>2. DOMAIN taken' = {} /\ InFlight' = 0
        BY <1>2, <2>1, <3>1
      <3> QED
        BY <2>2, <3>2 DEF Chains
    <2> QED
      BY <1>3, <2>3, <2>4, <2>5 DEF MemoryMove
  <1>4. CASE SubmitMove
    <2>1. PICK c \in ChainType : ~c.stale /\ (\A r \in c.parts : held[r] = 1) /\ SubmitChain(c)
      BY <1>4 DEF SubmitMove
    <2>2. desc' = c /\ UNCHANGED <<taken, kickFails, held>> /\ pc' = "FlushPublish" /\ pc \in BeforeSubmit
      BY <1>4, <2>1 DEF SubmitMove, SubmitChain, hostVars, BeforeSubmit
    <2>3. pc \notin FlushLabels \cup Cleanup /\ pc \notin Published
      BY <2>2, LabelClasses
    <2>4. \A i \in DOMAIN taken : taken[i].stale
      BY <2>3 DEF Chains
    <2>5. kickFails = 0 => DOMAIN taken = {}
      BY <1>1, <1>2, <2>3
    <2>6. \A i \in DOMAIN taken' : (taken'[i].stale \/ taken'[i] = desc') /\ (kickFails' = 0 => ~taken'[i].stale)
      BY <2>2, <2>4, <2>5
    <2>7. ~desc'.stale /\ \A r \in desc'.parts : held'[r] = 1
      BY <2>1, <2>2
    <2>8. pc' \in FlushLabels
      BY <2>2 DEF FlushLabels
    <2> QED
      BY <2>6, <2>7, <2>8 DEF Chains
  <1>5. CASE FlushSteps
    <2>1. pc \in FlushLabels /\ pc' \in FlushLabels /\ UNCHANGED <<desc, taken, held>>
          /\ (kickFails' = kickFails \/ kickFails' = kickFails + 1)
      BY <1>5 DEF FlushSteps, FlushPublish, FlushNotify, FlushNotifyFails, FlushPoll, FlushLabels, hostVars
    <2>2. kickFails' = 0 => kickFails = 0
      BY <1>1, <2>1
    <2> QED
      BY <2>1, <2>2 DEF Chains
  <1>6. CASE ReturnMove
    <2>1. desc' = Retire(desc) /\ taken' = [i \in DOMAIN taken |-> Retire(taken[i])] /\ kickFails' = kickFails
          /\ pc \in Cleanup /\ pc' = "idle"
      BY <1>6 DEF ReturnMove, RetireChains, Cleanup
    <2>2. desc'.stale /\ DOMAIN taken' = DOMAIN taken /\ \A i \in DOMAIN taken' : taken'[i].stale
      BY <1>0, <2>1, SeqRetired DEF QueueTypes
    <2>3. kickFails = 0 => DOMAIN taken = {}
      BY <1>1, <1>2, <2>1, LabelClasses
    <2>4. pc' \notin FlushLabels
      BY <2>1 DEF FlushLabels
    <2> QED
      BY <2>1, <2>2, <2>3, <2>4 DEF Chains
  <1> QED
    BY <1>3, <1>4, <1>5, <1>6 DEF RequestStep, RequestMove

\* The host fetches what the descriptor table holds, and completes one of what it has.
LEMMA ChainsHost ==
  ASSUME Ledger, Bringup, Queue, Chains, HostMove
  PROVE  Chains'
  <1>0. UNCHANGED <<pc, held>> /\ Running /\ QueueTypes
    BY DEF HostMove, Queue
  <1>1. /\ DOMAIN taken = 1 .. Len(taken) /\ Len(taken) \in Nat /\ Len(taken) <= InFlight /\ InFlight \in Nat
        /\ hostIdx # ring.availIdx => InFlight >= 1
        /\ kickFails = 0 => (InFlight >= 1 => pc \in Published)
    BY <1>0, CountFacts
  <1>2. CASE LibHostIdle
    <2>1. UNCHANGED <<ring, desc, taken, kickFails>> /\ InFlight' = InFlight
      BY <1>2 DEF LibHostIdle, InFlight
    <2> QED
      BY <1>0, <2>1 DEF Chains
  <1>3. CASE LibHostFetch
    <2>1. UNCHANGED <<ring, desc, kickFails>> /\ taken' = Append(taken, desc) /\ hostIdx # ring.availIdx
          /\ InFlight' = InFlight
      BY <1>3 DEF LibHostFetch, InFlight
    <2>2. taken' \in Seq(ChainType) /\ Len(taken') = Len(taken) + 1 /\ (\A i \in 1 .. Len(taken) : taken'[i] = taken[i])
          /\ taken'[Len(taken) + 1] = desc
      BY <1>0, <2>1, AppendProperties DEF QueueTypes
    <2>3. DOMAIN taken' = 1 .. Len(taken) + 1
      BY <2>2, LenProperties
    <2>4. \A i \in DOMAIN taken' : i \in DOMAIN taken \/ i = Len(taken) + 1
      BY <1>1, <2>3
    <2>5. \A i \in DOMAIN taken' : (i \in DOMAIN taken /\ taken'[i] = taken[i]) \/ taken'[i] = desc
      BY <1>1, <2>2, <2>4
    <2>6. kickFails = 0 => ~desc.stale
      BY <1>1, <2>1, LabelClasses DEF Chains
    <2>7. pc \notin FlushLabels \cup Cleanup => desc.stale
      BY <1>1, <2>1 DEF Chains
    <2>8. \A i \in DOMAIN taken' : (taken'[i].stale \/ taken'[i] = desc) /\ (kickFails = 0 => ~taken'[i].stale)
      BY <2>5, <2>6 DEF Chains
    <2>9. pc \notin FlushLabels \cup Cleanup => \A i \in DOMAIN taken' : taken'[i].stale
      BY <2>5, <2>7 DEF Chains
    <2> QED
      BY <1>0, <2>1, <2>7, <2>8, <2>9 DEF Chains
  <1>4. ASSUME NEW i \in DOMAIN taken, NEW n \in Nat, LibHostComplete(i, n) PROVE Chains'
    <2>1. taken' = SubSeq(taken, 1, i - 1) \o SubSeq(taken, i + 1, Len(taken)) /\ UNCHANGED <<desc, kickFails>>
      BY <1>4 DEF LibHostComplete
    <2>2. \A k \in DOMAIN taken' : \E j \in DOMAIN taken : taken'[k] = taken[j]
      BY <1>0, <2>1, SeqRemoved DEF QueueTypes
    <2>3. InFlight # 0
      BY <1>1
    <2>4. \A k \in DOMAIN taken' : (taken'[k].stale \/ taken'[k] = desc) /\ (kickFails = 0 => ~taken'[k].stale)
      BY <2>2 DEF Chains
    <2>5. pc \notin FlushLabels \cup Cleanup => desc.stale /\ \A k \in DOMAIN taken' : taken'[k].stale
      BY <2>2, <2>3 DEF Chains
    <2>6. pc \in FlushLabels => ~desc.stale /\ \A r \in desc.parts : held[r] = 1
      BY DEF Chains
    <2> QED
      BY <1>0, <2>1, <2>4, <2>5, <2>6 DEF Chains
  <1> QED
    BY <1>2, <1>3, <1>4 DEF HostMove

\* No step disturbs whose chains there are.
LEMMA ChainsStep ==
  ASSUME Ledger, Ledger', Bringup, Queue, Queue', Chains, index \in Nat, [SyncNext]_syncVars
  PROVE  Chains'
  <1> USE DEF FlushLabels, Cleanup
  <1>0. QueueTypes /\ QueuePlace /\ QueueTypes' /\ QueuePlace'
    BY DEF Queue
  <1>a. (Untouched => InFlight = 0)'
    <2>1. ASSUME Untouched' PROVE (InFlight = 0)'
      BY <1>0, <2>1, UntouchedCounted, PTL
    <2> QED
      BY <2>1
  <1>1. ASSUME UNCHANGED libVars, pc \notin FlushLabels \cup Cleanup, pc' \notin FlushLabels \cup Cleanup
        PROVE  Chains'
    <2>1. UNCHANGED <<ring, desc, taken, kickFails>> /\ InFlight' = InFlight
      BY <1>1 DEF libVars, hostVars, InFlight
    <2>2. desc'.stale \/ InFlight' = 0
      BY <1>1, <2>1 DEF Chains
    <2> QED
      BY <1>1, <2>1, <2>2, ChainsSame
  <1>2. ASSUME QueueEffect PROVE (taken' = taken \/ taken' = << >>) /\ kickFails' = kickFails
    BY <1>2 DEF QueueEffect, ForgetQueue, hostVars
  <1>3. CASE Start \/ Stop \/ CallMove \/ ConfigStep \/ CfgWriteStep
    <2>1. UNCHANGED libVars /\ pc \notin FlushLabels \cup Cleanup /\ pc' \notin FlushLabels \cup Cleanup
      BY <1>3 DEF Start, Stop, CallMove, ConfigStep, InitConfig, AfterConfig, CfgWriteStep, Try, MemoryStep
    <2> QED
      BY <1>1, <2>1
  <1>4. CASE RequestStep
    BY <1>4, ChainsMove
  <1>5. CASE InitStep
    <2>1. PICK after \in {"InitDriverOk", "CfgWrite"} : InitSteps(MinDescs, after)
      BY <1>5 DEF InitStep
    <2>2. /\ pc \in NoRingLabels \cup SetupLabels
          /\ pc' \in NoRingLabels \cup SetupLabels \cup {"CreateExitBoot"}
      <3> USE DEF NoRingLabels, SetupLabels
      <3>1. CASE InitReset \/ FeaturesCheck \/ InitFailed \/ QueueSel(MinDescs)
        BY <3>1 DEF InitReset, FeaturesCheck, InitFailed, QueueSel
      <3>2. CASE \/ SetNext("InitAck", "InitDriver", "Failed", "ACK", TRUE)
                 \/ SetNext("InitDriver", "InitConfig", "Failed", "DRIVER", TRUE)
                 \/ SetNext("FeaturesOk", "FeaturesCheck", "Failed", "FEATURES_OK", TRUE)
                 \/ SetNext("InitDriverOk", "CreateExitBoot", "UnmapQueue", "DRIVER_OK", DriverOkMayFail)
        BY <3>2 DEF SetNext
      <3>3. CASE \/ Try("RingInit", "RingMap", "Failed", {"ring"})
                 \/ Try("RingMap", "QueueAddress", "ReleaseQueue", {"ringMap"})
                 \/ Try("QueueAddress", IF modern THEN after ELSE "GuestFeatures", "UnmapQueue", {})
                 \/ Try("GuestFeatures", after, "UnmapQueue", {})
        BY <3>3 DEF Try
      <3>4. CASE \/ Undo("UnmapQueue", "ReleaseQueue", {"ringMap"})
                 \/ Undo("ReleaseQueue", "Failed", {"ring"})
        BY <3>4 DEF Undo
      <3> QED
        BY <2>1, <3>1, <3>2, <3>3, <3>4 DEF InitSteps
    <2>3. pc \notin FlushLabels \cup Cleanup /\ pc' \notin FlushLabels \cup Cleanup
      BY <2>2 DEF NoRingLabels, SetupLabels
    <2>4. InFlight' = 0
      <3>1. CASE QueueSel(MinDescs)
        <4>1. pc' \in NoRingLabels
          BY <3>1 DEF QueueSel, NoRingLabels
        <4> QED
          BY <1>0, <1>a, <4>1 DEF QueuePlace, Bare
      <3>2. CASE QueueEffect
        <4>1. Untouched
          BY <1>0, <2>2 DEF QueuePlace, Bare
        <4> QED
          BY <1>0, <1>a, <3>2, <4>1, UntouchedEffect
      <3> QED
        BY <2>1, <3>1, <3>2 DEF InitSteps
    <2>5. (taken' = taken \/ taken' = << >>) /\ kickFails' = kickFails
      BY <1>2, <2>1 DEF InitSteps, QueueSel, hostVars
    <2> QED
      BY <2>3, <2>4, <2>5, ChainsSame
  <1>6. CASE BindingStep
    <2>1. CASE NoRingMove
      <3>1. QueueEffect /\ pc \in NoRingLabels /\ pc' \in {"OpenVirtIo", "InitReset", "FreeDev", "idle"}
        BY <2>1 DEF NoRingMove
      <3>2. pc \notin FlushLabels \cup Cleanup /\ pc' \notin FlushLabels \cup Cleanup
        BY <3>1 DEF NoRingLabels
      <3>3. Untouched
        BY <1>0, <3>1 DEF QueuePlace, Bare
      <3>4. InFlight' = 0
        BY <1>0, <1>a, <3>1, <3>3, UntouchedEffect
      <3> QED
        BY <1>2, <3>1, <3>2, <3>4, ChainsSame
    <2>2. CASE UpMove
      BY <1>1, <2>2 DEF UpMove
    <2>3. CASE ResetMove
      <3>1. pc \notin FlushLabels \cup Cleanup /\ pc' \notin FlushLabels \cup Cleanup /\ taken' = << >>
            /\ UNCHANGED <<kickFails, ring, desc>>
        BY <2>3 DEF ResetMove, ForgetQueue
      <3>2. InFlight' = InFlight
        BY <3>1 DEF InFlight
      <3>3. desc'.stale \/ InFlight' = 0
        BY <3>1, <3>2 DEF Chains
      <3> QED
        BY <3>1, <3>3, ChainsSame
    <2>4. CASE FreeMove
      <3>1. pc \notin FlushLabels \cup Cleanup /\ pc' \notin FlushLabels \cup Cleanup /\ taken' = << >>
            /\ kickFails' = kickFails /\ desc'.stale
        BY <2>4 DEF FreeMove, ForgetQueue, NoChain
      <3> QED
        BY <3>1, ChainsSame
    <2> QED
      BY <1>6, <2>1, <2>2, <2>3, <2>4, BindingMoves
  <1>7. CASE HostStep
    BY <1>0, <1>7, HostMoves, ChainsHost
  <1>8. CASE ExitBootCallback
    <2>1. pc = "idle" /\ pc' = "idle" /\ QueueEffect
      BY <1>8 DEF ExitBootCallback
    <2>2. desc'.stale \/ InFlight' = 0
      <3>1. CASE UNCHANGED <<ring, desc>>
        <4>1. InFlight' = InFlight
          BY <3>1 DEF InFlight
        <4> QED
          BY <2>1, <3>1, <4>1 DEF Chains
      <3>2. CASE desc' = NoChain
        BY <3>2 DEF NoChain
      <3> QED
        BY <2>1, <3>1, <3>2 DEF QueueEffect
    <2> QED
      BY <1>2, <2>1, <2>2, ChainsSame
  <1>9. CASE UNCHANGED syncVars
    <2>1. UNCHANGED <<pc, held, ring, desc, taken, kickFails>> /\ InFlight' = InFlight
      BY <1>9 DEF syncVars, libVars, hostVars, InFlight
    <2> QED
      BY <2>1 DEF Chains
  <1> QED
    BY <1>3, <1>4, <1>5, <1>6, <1>7, <1>8, <1>9, Kinds

\* What the host can reach is the running request's, and is mapped.
LEMMA LockStepHolds ==
  ASSUME Ledger, Bringup, Queue, Chains
  PROVE  LockStep
  <1> SUFFICES ASSUME kickFails = 0, Running
               PROVE  /\ InFlight <= 1
                      /\ InFlight = 1 => pc \in {"FlushNotify", "FlushPoll"}
                      /\ \A c \in Reachable : ~c.stale /\ \A r \in c.parts : held[r] = 1
    BY DEF LockStep, OneInFlight
  <1>1. /\ InFlight \in Nat /\ InFlight <= 1 /\ (InFlight >= 1 => pc \in Published)
        /\ Len(taken) \in Nat /\ Len(taken) <= InFlight /\ DOMAIN taken = 1 .. Len(taken)
        /\ hostIdx # ring.availIdx => InFlight >= 1
    BY CountFacts
  <1>2. InFlight >= 1 => ~desc.stale /\ \A r \in desc.parts : held[r] = 1
    BY <1>1, LabelClasses DEF Chains
  <1>3. ASSUME NEW c \in Reachable PROVE ~c.stale /\ \A r \in c.parts : held[r] = 1
    <2>1. CASE \E i \in DOMAIN taken : c = taken[i]
      <3>1. PICK i \in DOMAIN taken : c = taken[i]
        BY <2>1
      <3>2. c = desc
        BY <3>1 DEF Chains
      <3>3. InFlight >= 1
        BY <1>1, <3>1
      <3> QED
        BY <1>2, <3>2, <3>3
    <2>2. CASE hostIdx # ring.availIdx /\ c = desc
      BY <1>1, <1>2, <2>2
    <2> QED
      BY <2>1, <2>2 DEF Reachable
  <1> QED
    BY <1>1, <1>3 DEF Published


-----------------------------------------------------------------------------
(* Data.                                                                   *)

\* Outside of a request only what the last one has reported matters.
LEMMA DataOutside ==
  ASSUME Data, UNCHANGED <<reqVars, drv, kickFails>>, pc' \notin RequestLabels
  PROVE  Data'
  <1>1. UNCHANGED <<req, pkt, res, answer, moved, index>>
    BY DEF reqVars
  <1>2. /\ pc' \notin BeforeSubmit \cup FlushLabels /\ pc' \notin Cleanup /\ pc' \notin FlushLabels
        /\ pc' \notin Published /\ pc' \notin {"BlkSubmit", "ScsiSubmit", "RngAlloc", "RngMap", "RngLoop", "Flushed"}
    BY DEF RequestLabels, BeforeSubmit, FlushLabels, Published
  <1>3. DataTypes'
    BY <1>1, <1>2 DEF Data, DataTypes
  <1>4. (drv = "blk" => BlkData)'
    BY <1>1, <1>2 DEF Data, BlkData
  <1>5. (drv = "scsi" => ScsiData)'
    BY <1>1, <1>2 DEF Data, ScsiData
  <1>6. (drv = "rng" => RngData)'
    BY <1>1, <1>2 DEF Data, RngData, RngCount
  <1> QED
    BY <1>3, <1>4, <1>5, <1>6 DEF Data

\* Nothing has been asked for, or is left of it.
LEMMA DataNone ==
  ASSUME req = NoReq, pkt = NoReq, res = "err", answer = NoAnswer, moved = 0, index = 0, pc \notin RequestLabels
  PROVE  Data
  <1>1. /\ pkt = [pos |-> 0, in |-> 0, out |-> 0] /\ answer = [st |-> "none", residual |-> 0]
        /\ pkt.in = 0 /\ pkt.out = 0 /\ req = pkt
    BY DEF NoReq, NoAnswer
  <1>2. /\ pc \notin BeforeSubmit \cup FlushLabels /\ pc \notin Cleanup /\ pc \notin FlushLabels
        /\ pc \notin Published /\ pc \notin {"BlkSubmit", "ScsiSubmit", "RngAlloc", "RngMap", "RngLoop", "Flushed"}
    BY DEF RequestLabels, BeforeSubmit, FlushLabels, Published
  <1>3. DataTypes
    BY <1>1, <1>2 DEF DataTypes
  <1>4. LenMod \in Nat /\ 0 < LenMod
    BY SyncAssumption
  <1>5. BlkData /\ ScsiData
    BY <1>1, <1>2, <1>4 DEF BlkData, ScsiData
  <1>6. RngData
    BY <1>1, <1>2 DEF RngData, RngCount
  <1> QED
    BY <1>3, <1>5, <1>6 DEF Data

\* Nothing is left of it when the driver is stopped, or the system leaves it.
LEMMA DataCleared ==
  ASSUME NoRequest, pc' \notin RequestLabels
  PROVE  Data'
  <1>1. (req = NoReq /\ pkt = NoReq /\ res = "err" /\ answer = NoAnswer /\ moved = 0 /\ index = 0
         /\ pc \notin RequestLabels)'
    BY DEF NoRequest, NoReq, NoAnswer, RequestLabels, BeforeSubmit, FlushLabels, Cleanup
  <1> QED
    BY <1>1, DataNone, PTL

\* What is not mentioned does not matter.
LEMMA DataSame ==
  ASSUME Data, UNCHANGED <<pc, drv, media, reqVars, ring, desc, flushVars, kickFails>>
  PROVE  Data'
  <1>1. UNCHANGED <<req, pkt, res, answer, moved, index, nextAvail, flushOk, usedLen>>
    BY DEF reqVars, flushVars
  <1>2. DataTypes'
    BY <1>1 DEF Data, DataTypes
  <1>3. InFlight' = InFlight /\ (BlkChainOk(req))' = BlkChainOk(req) /\ (ScsiChainOk(req))' = ScsiChainOk(req)
    BY <1>1 DEF InFlight, BlkChainOk, ScsiChainOk
  <1>4. (drv = "blk" => BlkData)'
    BY <1>1, <1>3 DEF Data, BlkData
  <1>5. (drv = "scsi" => ScsiData)'
    BY <1>1, <1>3 DEF Data, ScsiData
  <1>6. RngCount' = RngCount
    BY <1>1, <1>3 DEF RngCount, NextUsed
  <1>7. (drv = "rng" => RngData)'
    BY <1>1, <1>6 DEF Data, RngData
  <1> QED
    BY <1>2, <1>4, <1>5, <1>7 DEF Data

\* Cleaning up after a request changes nothing that it reports.
LEMMA DataCleanup ==
  ASSUME Data, UNCHANGED <<drv, reqVars, libVars>>, pc \in Cleanup, pc' \in Cleanup
  PROVE  Data'
  <1>1. UNCHANGED <<req, pkt, res, answer, moved, index, ring, desc, kickFails, flushOk, usedLen, nextAvail>>
    BY DEF reqVars, libVars, hostVars, flushVars
  <1>2. /\ pc' \notin BeforeSubmit \cup FlushLabels /\ pc' \notin FlushLabels
        /\ pc' \notin Published /\ pc' \notin {"BlkSubmit", "ScsiSubmit", "RngAlloc", "RngMap", "RngLoop", "Flushed"}
        /\ pc \in RequestLabels
    BY DEF Cleanup, BeforeSubmit, FlushLabels, Published, RequestLabels
  <1>3. DataTypes'
    BY <1>1, <1>2 DEF Data, DataTypes
  <1>4. InFlight' = InFlight
    BY <1>1 DEF InFlight
  <1>5. (drv = "blk" => BlkData)'
    BY <1>1, <1>2, <1>4 DEF Data, BlkData
  <1>6. (drv = "scsi" => ScsiData)'
    BY <1>1, <1>2, <1>4 DEF Data, ScsiData
  <1>7. (drv = "rng" => RngData)'
    BY <1>1, <1>2, <1>4 DEF Data, RngData, RngCount
  <1> QED
    BY <1>3, <1>5, <1>6, <1>7 DEF Data
\* VerifyReadWriteRequest keeps a transfer on the disk, and Sector does not wrap.
LEMMA BlkVerified ==
  ASSUME media \in BlkMediaOk, NEW lba \in 0 .. LbaMod - 1, NEW size \in 0 .. LenMod - 1, size > 0,
         NEW w, VerifyReadWriteRequest(lba, size, w)
  PROVE  /\ Sector(lba) \in Nat /\ size \in Nat /\ size < LenMod /\ size <= SIZE_1GB
         /\ Sector(lba) * SectorUnits + size <= media.sectors * SectorUnits
         /\ w => ~media.ro
  <1> DEFINE b == media.spb
             n == media.sectors
             last == n \div b
             unit == b * SectorUnits
             count == size \div unit
  <1>1. /\ SectorUnits \in Nat \ {0} /\ LenMod \in Nat /\ SIZE_1GB \in Nat /\ size \in Nat /\ size < LenMod
        /\ LbaMod \in Nat \ {0} /\ lba \in Nat
    BY SyncAssumption, BlkAssumption
  <1>2. n \in Nat /\ n < LbaMod /\ b \in {1, 2} /\ n % b = 0
    <2>1. media.sectors \in SectorCounts /\ b \in {1, 2} /\ n % b = 0
      BY DEF BlkMediaOk, BlkMedia
    <2>2. n \in 0 .. LbaMod - 1
      BY <2>1, BlkAssumption
    <2> QED
      BY <1>1, <2>1, <2>2
  <1>3. last \in Int /\ n = b * last
    <2>1. b \in Nat \ {0} /\ n \in Int
      BY <1>2
    <2>2. last \in Int /\ n = b * last + (n % b)
      BY <2>1, DivMod
    <2> HIDE DEF last
    <2> QED
      BY <1>2, <2>2
  <1>4. unit \in Nat \ {0}
    BY <1>1, <1>2
  <1>5. /\ size <= SIZE_1GB /\ size % unit = 0 /\ (w => ~media.ro)
        /\ lba <= last - 1 /\ count - 1 <= (last - 1 - lba) % LbaMod
    <2>1. /\ size <= SIZE_1GB /\ size % unit = 0 /\ (w => ~media.ro)
          /\ ~(lba > last - 1) /\ ~(count - 1 > (last - 1 - lba) % LbaMod)
      BY DEF VerifyReadWriteRequest, BlockSize, LastBlock
    <2> HIDE DEF unit
    <2>2. count \in Int
      BY <1>1, <1>4, DivMod
    <2>3. (last - 1 - lba) % LbaMod \in Int
      BY <1>1, <1>3, DivMod
    <2> HIDE DEF last, count, unit
    <2> QED
      BY <1>1, <1>3, <2>1, <2>2, <2>3
  <1>6. count \in Int /\ size = unit * count
    <2> HIDE DEF unit
    <2>1. count \in Int /\ size = unit * count + (size % unit)
      BY <1>1, <1>4, DivMod
    <2> HIDE DEF count, unit
    <2> QED
      BY <1>1, <1>4, <1>5, <2>1
  <1> HIDE DEF last, count
  <1>7. last <= n
    <2>1. CASE b = 1
      BY <1>2, <1>3, <2>1
    <2>2. CASE b = 2
      BY <1>1, <1>2, <1>3, <1>5, <2>2
    <2> QED
      BY <1>2, <2>1, <2>2
  <1>8. (last - 1 - lba) % LbaMod = last - 1 - lba
    <2> DEFINE x == last - 1 - lba
    <2>1. x \in Int /\ x \in 0 .. LbaMod - 1
      BY <1>1, <1>2, <1>3, <1>5, <1>7
    <2>2. x = LbaMod * 0 + x
      BY <1>1, <2>1
    <2> HIDE DEF x
    <2>3. x % LbaMod = x
      BY <1>1, <2>1, <2>2, ModUnique
    <2> QED
      BY <2>3 DEF x
  <1>9. lba + count <= last
    BY <1>1, <1>3, <1>5, <1>6, <1>8
  <1>10. Sector(lba) = lba * b
    <2> DEFINE x == lba * b
    <2>1. x \in Int /\ x \in 0 .. LbaMod - 1
      <3>1. CASE b = 1
        BY <1>1, <1>2, <1>3, <1>5, <3>1
      <3>2. CASE b = 2
        BY <1>1, <1>2, <1>3, <1>5, <3>2
      <3> QED
        BY <1>2, <3>1, <3>2
    <2>2. x = LbaMod * 0 + x
      BY <1>1, <2>1
    <2> HIDE DEF x
    <2>3. x % LbaMod = x
      BY <1>1, <2>1, <2>2, ModUnique
    <2> QED
      BY <2>3 DEF x, Sector
  <1>11. Sector(lba) * SectorUnits + size = SectorUnits * (b * (lba + count))
    <2>1. CASE b = 1
      <3>1. Sector(lba) * SectorUnits + size = lba * SectorUnits + SectorUnits * count
        BY <1>1, <1>6, <1>10, <2>1
      <3>2. SectorUnits * lba + SectorUnits * count = SectorUnits * (lba + count)
        BY <1>1, <1>6
      <3> QED
        BY <1>1, <1>6, <2>1, <3>1, <3>2
    <2>2. CASE b = 2
      <3>1. Sector(lba) * SectorUnits + size = (lba * 2) * SectorUnits + (2 * SectorUnits) * count
        BY <1>1, <1>6, <1>10, <2>2
      <3>2. SectorUnits * (lba * 2) + SectorUnits * (2 * count) = SectorUnits * (2 * (lba + count))
        BY <1>1, <1>6
      <3>3. (lba * 2) * SectorUnits = SectorUnits * (lba * 2) /\ (2 * SectorUnits) * count = SectorUnits * (2 * count)
        BY <1>1, <1>6
      <3> QED
        BY <1>1, <1>6, <2>2, <3>1, <3>2, <3>3
    <2> QED
      BY <1>2, <2>1, <2>2
  <1>12. b * (lba + count) <= n
    <2>1. CASE b = 1
      BY <1>1, <1>2, <1>3, <1>6, <1>9, <2>1
    <2>2. CASE b = 2
      BY <1>1, <1>2, <1>3, <1>6, <1>9, <2>2
    <2> QED
      BY <1>2, <2>1, <2>2
  <1>13. SectorUnits * (b * (lba + count)) <= n * SectorUnits
    <2> DEFINE x == b * (lba + count)
    <2>1. x \in Int /\ x <= n
      BY <1>1, <1>2, <1>6, <1>12
    <2> HIDE DEF x
    <2>2. SectorUnits * x <= SectorUnits * n
      BY <1>1, <1>2, <2>1
    <2>3. SectorUnits * n = n * SectorUnits
      BY <1>1, <1>2
    <2> QED
      BY <2>2, <2>3 DEF x
  <1>14. Sector(lba) \in Nat
    BY <1>1, <1>2, <1>10
  <1> QED
    BY <1>1, <1>5, <1>11, <1>13, <1>14
\* A call of BlockIo.
LEMMA DataBlkCall ==
  ASSUME drv = "blk", media \in BlkMediaOk, BlkCalls
  PROVE  Data'
  <1>0. LenMod \in Nat /\ 0 < LenMod /\ SIZE_1GB \in Nat /\ SectorUnits \in Nat
    BY SyncAssumption
  <1>1. ASSUME NEW r \in [pos : Nat, in : Nat, out : Nat], r.in < LenMod, r.out < LenMod, BlkChainOk(r),
               Call("BlkAllocStatus", r)
        PROVE  Data'
    <2>1. /\ pc' = "BlkAllocStatus" /\ req' = r /\ pkt' = r /\ res' = "err" /\ moved' = 0 /\ index' = 0
          /\ answer' = [st |-> "none", residual |-> 0] /\ drv' = drv /\ media' = media
      BY <1>1 DEF Call, NoAnswer, confVars
    <2>2. BlkChainOk(req)'
      BY <1>1, <2>1 DEF BlkChainOk
    <2>3. DataTypes'
      BY <1>1, <2>1 DEF DataTypes
    <2>4. BlkData'
      BY <1>1, <2>1, <2>2 DEF BlkData, FlushLabels, Cleanup
    <2> QED
      BY <2>1, <2>3, <2>4 DEF Data
  <1>2. CASE VirtioBlkFlushBlocks
    <2>1. media.sectors \in Nat
      <3>1. media.sectors \in SectorCounts
        BY DEF BlkMediaOk, BlkMedia
      <3>2. media.sectors \in 0 .. LbaMod - 1
        BY <3>1, BlkAssumption
      <3> QED
        BY <3>2, BlkAssumption
    <2>2. 0 <= media.sectors * SectorUnits
      BY <1>0, <2>1
    <2>3. BlkChainOk([pos |-> 0, in |-> 0, out |-> 0])
      BY <1>0, <2>2 DEF BlkChainOk
    <2> QED
      BY <1>0, <1>1, <1>2, <2>3 DEF VirtioBlkFlushBlocks, NoReq
  <1>3. ASSUME NEW lba \in 0 .. LbaMod - 1, NEW size \in 0 .. LenMod - 1, VirtioBlkReadBlocks(lba, size)
        PROVE  Data'
    <2> DEFINE r == [pos |-> Sector(lba), in |-> size, out |-> 0]
    <2>1. /\ Sector(lba) \in Nat /\ size \in Nat /\ size < LenMod /\ size <= SIZE_1GB
          /\ Sector(lba) * SectorUnits + size <= media.sectors * SectorUnits
      BY <1>3, BlkVerified DEF VirtioBlkReadBlocks
    <2>2. r \in [pos : Nat, in : Nat, out : Nat] /\ r.in < LenMod /\ r.out < LenMod
      BY <1>0, <2>1
    <2>3. BlkChainOk(r)
      <3>1. Sector(lba) * SectorUnits + size + 0 <= media.sectors * SectorUnits
        BY <1>0, <2>1
      <3> QED
        BY <1>0, <2>1, <3>1 DEF BlkChainOk
    <2>4. Call("BlkAllocStatus", r)
      BY <1>3 DEF VirtioBlkReadBlocks
    <2> QED
      BY <1>1, <2>2, <2>3, <2>4
  <1>4. ASSUME NEW lba \in 0 .. LbaMod - 1, NEW size \in 0 .. LenMod - 1, VirtioBlkWriteBlocks(lba, size)
        PROVE  Data'
    <2> DEFINE r == [pos |-> Sector(lba), in |-> 0, out |-> size]
    <2>0. size > 0 /\ VerifyReadWriteRequest(lba, size, TRUE)
      BY <1>4 DEF VirtioBlkWriteBlocks
    <2>1. /\ Sector(lba) \in Nat /\ size \in Nat /\ size < LenMod /\ size <= SIZE_1GB
          /\ Sector(lba) * SectorUnits + size <= media.sectors * SectorUnits
          /\ ~media.ro
      <3>1. VerifyReadWriteRequest(lba, size, FALSE) /\ ~media.ro
        BY <2>0 DEF VerifyReadWriteRequest
      <3> QED
        BY <2>0, <3>1, BlkVerified
    <2>2. r \in [pos : Nat, in : Nat, out : Nat] /\ r.in < LenMod /\ r.out < LenMod
      BY <1>0, <2>1
    <2>3. BlkChainOk(r)
      <3>1. Sector(lba) * SectorUnits + 0 + size <= media.sectors * SectorUnits
        BY <1>0, <2>1
      <3> QED
        BY <1>0, <2>1, <3>1 DEF BlkChainOk
    <2>4. Call("BlkAllocStatus", r)
      BY <1>4 DEF VirtioBlkWriteBlocks
    <2> QED
      BY <1>1, <2>2, <2>3, <2>4
  <1> QED
    BY <1>2, <1>3, <1>4 DEF BlkCalls

\* The steps of SynchronousRequest.
LEMMA DataBlkRequest ==
  ASSUME Ledger, Queue, Data, drv = "blk", SynchronousRequest, RequestMove, BindingKept
  PROVE  Data'
  <1> USE DEF BeforeSubmit, FlushLabels, Cleanup
  <1>0. drv' = drv /\ media' = media /\ DataTypes /\ BlkData
    BY DEF BindingKept, confVars, Data
  <1>1. ASSUME DataTypes', BlkData' PROVE Data'
    BY <1>0, <1>1 DEF Data
  <1>2. ASSUME UNCHANGED <<req, pkt, res, moved, index>>, answer' = answer \/ answer' = [st |-> "preset", residual |-> 0],
               pc \in BeforeSubmit, pc' \in BeforeSubmit \cup Cleanup, pc' # "ScsiSubmit",
               pc' = "BlkSubmit" => answer'.st = "preset"
        PROVE  Data'
    <2>1. BlkChainOk(req)' = BlkChainOk(req)
      BY <1>0, <1>2 DEF BlkChainOk
    <2>2. DataTypes'
      BY <1>0, <1>2 DEF DataTypes
    <2>3. BlkData'
      BY <1>0, <1>2, <2>1 DEF BlkData, DataTypes
    <2> QED
      BY <1>1, <2>2, <2>3
  <1>3. CASE BlkMapSteps
    <2>1. UNCHANGED <<reqVars, libVars, kickFails>>
      BY <1>3 DEF BlkMapSteps, MemoryStep, libVars, hostVars
    <2>2. /\ pc \in {"BlkAllocStatus", "BlkMapRequest", "BlkMapData"}
          /\ pc' \in {"BlkMapRequest", "idle", "BlkMapData", "BlkMapStatus", "BlkFreeStatus", "BlkUnmapRequest"}
      BY <1>3 DEF BlkMapSteps, Try
    <2>3. CASE pc' = "idle"
      BY <1>0, <2>1, <2>3, DataOutside DEF RequestLabels
    <2>4. CASE pc' # "idle"
      BY <1>2, <2>1, <2>2, <2>4 DEF reqVars
    <2> QED
      BY <2>3, <2>4
  <1>4. CASE BlkMapStatus
    <2>1. /\ UNCHANGED <<req, pkt, res, moved, index>> /\ answer' = [st |-> "preset", residual |-> 0]
          /\ pc = "BlkMapStatus" /\ pc' \in {"BlkSubmit", "BlkUnmapData"}
      BY <1>4 DEF BlkMapStatus, Try
    <2> QED
      BY <1>2, <2>1
  <1>5. CASE BlkSubmit
    <2>1. /\ pc = "BlkSubmit" /\ pc' = "FlushPublish" /\ UNCHANGED <<req, pkt, res, answer, moved, index>>
          /\ desc' = [parts |-> {"reqMap", "statusMap"} \cup DataMap, pos |-> req.pos, in |-> req.in, out |-> req.out,
                      stale |-> FALSE]
      BY <1>5 DEF BlkSubmit, Submit, Goto, SubmitChain, reqVars
    <2>2. BlkChainOk(req)' = BlkChainOk(req)
      BY <1>0, <2>1 DEF BlkChainOk
    <2>3. DataTypes'
      BY <1>0, <2>1 DEF DataTypes
    <2>4. desc'.parts \subseteq {"reqMap", "statusMap", "dataMap"}
      BY <2>1 DEF DataMap
    <2>5. BlkData'
      BY <1>0, <2>1, <2>2, <2>4 DEF BlkData, DataTypes
    <2> QED
      BY <1>1, <2>3, <2>5
  <1>6. CASE Flush
    <2>1. pc \in FlushLabels /\ pc' \in FlushLabels /\ UNCHANGED <<req, pkt, res, answer, moved, index, desc>>
      BY <1>6 DEF Flush, FlushSteps, FlushPublish, FlushNotify, FlushNotifyFails, FlushPoll, reqVars
    <2>2. BlkChainOk(req)' = BlkChainOk(req)
      BY <1>0, <2>1 DEF BlkChainOk
    <2>3. DataTypes'
      BY <1>0, <2>1 DEF DataTypes
    <2>4. BlkData'
      BY <1>0, <2>1, <2>2 DEF BlkData, DataTypes
    <2> QED
      BY <1>1, <2>3, <2>4
  <1>7. CASE BlkFlushed
    <2>1. /\ pc = "Flushed" /\ pc' = "BlkUnmapStatus" /\ UNCHANGED <<req, pkt, answer, moved, index, ring>>
          /\ res' = IF flushOk /\ answer.st = "ok" THEN "ok" ELSE "err"
      BY <1>7 DEF BlkFlushed, Goto, libVars
    <2>2. InFlight' = InFlight /\ (flushOk => InFlight = 0)
      BY <2>1 DEF InFlight, Queue, QueuePlace
    <2>3. DataTypes'
      BY <1>0, <2>1 DEF DataTypes
    <2>4. BlkData'
      BY <1>0, <2>1, <2>2 DEF BlkData
    <2> QED
      BY <1>1, <2>3, <2>4
  <1>8. CASE BlkUnmapData
    <2>1. /\ pc = "BlkUnmapData" /\ pc' = "BlkUnmapRequest" /\ UNCHANGED <<req, pkt, answer, moved, index, ring>>
          /\ res' = res \/ res' = "err"
      BY <1>8 DEF BlkUnmapData, Undo, libVars
    <2>2. InFlight' = InFlight
      BY <2>1 DEF InFlight
    <2>3. DataTypes'
      BY <1>0, <2>1 DEF DataTypes
    <2>4. BlkData'
      BY <1>0, <2>1, <2>2 DEF BlkData
    <2> QED
      BY <1>1, <2>3, <2>4
  <1>9. CASE BlkUnmapSteps
    <2>1. CASE Return("BlkFreeStatus", {"hostStatus"})
      <3>1. UNCHANGED <<reqVars, kickFails>> /\ pc' = "idle"
        BY <2>1 DEF Return, Undo, RetireChains
      <3> QED
        BY <1>0, <3>1, DataOutside DEF RequestLabels
    <2>2. CASE ~Return("BlkFreeStatus", {"hostStatus"})
      <3>1. pc \in Cleanup /\ pc' \in Cleanup /\ UNCHANGED <<reqVars, libVars>>
        BY <1>9, <2>2 DEF BlkUnmapSteps, Undo, MemoryStep
      <3> QED
        BY <1>0, <3>1, DataCleanup
    <2> QED
      BY <2>1, <2>2
  <1> QED
    BY <1>3, <1>4, <1>5, <1>6, <1>7, <1>8, <1>9 DEF SynchronousRequest
\* A chain that the host completes is in flight; it is that of the running
\* request unless its request has given up on it.
LEMMA HostAnswers ==
  ASSUME Ledger, Bringup, Queue, Chains, Data, NEW i \in DOMAIN taken, NEW n, NEW m, NEW a, HostCompletes(i, n, m, a)
  PROVE  /\ UNCHANGED <<pc, drv, media, req, pkt, res, index, desc, kickFails, nextAvail, flushOk, usedLen>>
         /\ InFlight \in Nat /\ InFlight >= 1 /\ taken[i] \in ChainType
         /\ \/ taken[i].stale /\ kickFails # 0 /\ UNCHANGED <<answer, moved>>
            \/ /\ taken[i] = desc /\ pc \in FlushLabels \cup Cleanup /\ answer' = a /\ moved' = m
               /\ kickFails = 0 => InFlight = 1 /\ pc \in Published
         /\ pc = "Flushed" => ~flushOk
         /\ ring' = PutUsed(ring, 0, n)
  <1>1. /\ Running /\ LibHostComplete(i, n) /\ HostFrame
        /\ IF taken[i].stale THEN UNCHANGED <<answer, moved>> ELSE answer' = a /\ moved' = m
    BY DEF HostCompletes
  <1>2. UNCHANGED <<pc, drv, media, req, pkt, res, index, desc, kickFails, nextAvail, flushOk, usedLen>>
        /\ ring' = PutUsed(ring, 0, n)
    BY <1>1 DEF LibHostComplete, HostFrame, confVars, flushVars
  <1>3. /\ InFlight \in Nat /\ Len(taken) \in Nat /\ DOMAIN taken = 1 .. Len(taken)
        /\ Len(taken) <= InFlight /\ (kickFails = 0 => InFlight <= 1 /\ (InFlight >= 1 => pc \in Published))
    BY <1>1, CountFacts
  <1>4. InFlight >= 1
    BY <1>3
  <1>5. taken[i] \in ChainType
    BY <1>3, LenProperties DEF Queue, QueueTypes
  <1>6. (taken[i].stale \/ taken[i] = desc) /\ (kickFails = 0 => ~taken[i].stale)
        /\ (pc \notin FlushLabels \cup Cleanup => taken[i].stale)
    BY DEF Chains
  <1>7. pc = "Flushed" => ~flushOk
    BY <1>3, <1>4 DEF Queue, QueuePlace
  <1> QED
    BY <1>1, <1>2, <1>3, <1>4, <1>5, <1>6, <1>7

\* The host answers a request of BlockIo.
LEMMA DataBlkHost ==
  ASSUME Ledger, Bringup, Queue, Chains, Data, drv = "blk", BlkHost
  PROVE  Data'
  <1> USE DEF BeforeSubmit, FlushLabels, Cleanup
  <1>0. PICK i \in DOMAIN taken :
          \/ HostCompletes(i, 0, taken[i].in + taken[i].out, [st |-> "ok", residual |-> 0])
          \/ HostCompletes(i, 0, 0, [st |-> "err", residual |-> 0])
    BY DEF BlkHost
  <1>1. ASSUME NEW m \in Nat, NEW st \in {"ok", "err"}, HostCompletes(i, 0, m, [st |-> st, residual |-> 0]),
               st = "ok" => m = taken[i].in + taken[i].out
        PROVE  Data'
    <2> DEFINE a == [st |-> st, residual |-> 0]
    <2>1. /\ UNCHANGED <<pc, drv, media, req, pkt, res, index, desc>>
          /\ InFlight >= 1 /\ InFlight \in Nat
          /\ \/ UNCHANGED <<answer, moved>>
             \/ taken[i] = desc /\ pc \in FlushLabels \cup Cleanup /\ answer' = a /\ moved' = m
      BY <1>1, HostAnswers
    <2>2. a \in [st : {"none", "preset", "ok", "err"}, residual : Nat] /\ a.st = st
      OBVIOUS
    <2> HIDE DEF a
    <2>3. DataTypes'
      BY <2>1, <2>2 DEF Data, DataTypes
    <2>4. BlkChainOk(req)' = BlkChainOk(req)
      BY <2>1 DEF BlkChainOk
    <2>5. ~(pc \in Cleanup /\ res = "ok")
      BY <2>1 DEF Data, BlkData
    <2>6. CASE UNCHANGED <<answer, moved>>
      <3>1. BlkData'
        BY <2>1, <2>4, <2>5, <2>6 DEF Data, BlkData
      <3> QED
        BY <2>1, <2>3, <3>1 DEF Data
    <2>7. CASE taken[i] = desc /\ pc \in FlushLabels \cup Cleanup /\ answer' = a /\ moved' = m
      <3>1. res = "err"
        BY <2>5, <2>7 DEF Data, DataTypes
      <3>2. pc \in FlushLabels /\ st = "ok" => moved' = req'.in + req'.out
        BY <1>1, <2>1, <2>7 DEF Data, BlkData
      <3>3. BlkData'
        BY <2>1, <2>2, <2>4, <2>7, <3>1, <3>2 DEF Data, BlkData
      <3> QED
        BY <2>1, <2>3, <3>3 DEF Data
    <2> QED
      BY <2>1, <2>6, <2>7
  <1>2. taken[i].in + taken[i].out \in Nat
    <2>1. taken[i] \in ChainType
      BY LenProperties DEF Queue, QueueTypes
    <2> QED
      BY <2>1 DEF ChainType
  <1> QED
    BY <1>0, <1>1, <1>2

\* The host answers a request of ExtScsiPassThru.
LEMMA DataScsiHost ==
  ASSUME Ledger, Bringup, Queue, Chains, Data, drv = "scsi", ScsiHost
  PROVE  Data'
  <1> USE DEF BeforeSubmit, FlushLabels, Cleanup
  <1>0. PICK i \in DOMAIN taken : \E r \in 0 .. taken[i].in + taken[i].out, st \in {"ok", "err"} :
          HostCompletes(i, 0, taken[i].in + taken[i].out - r, [st |-> st, residual |-> r])
    BY DEF ScsiHost
  <1>1. PICK r \in 0 .. taken[i].in + taken[i].out, st \in {"ok", "err"} :
          HostCompletes(i, 0, taken[i].in + taken[i].out - r, [st |-> st, residual |-> r])
    BY <1>0
  <1> DEFINE m == taken[i].in + taken[i].out - r
             a == [st |-> st, residual |-> r]
  <1>2. taken[i].in \in Nat /\ taken[i].out \in Nat
    <2>1. taken[i] \in ChainType
      BY LenProperties DEF Queue, QueueTypes
    <2> QED
      BY <2>1 DEF ChainType
  <1>3. m \in Nat /\ r \in Nat /\ r <= taken[i].in + taken[i].out
    <2>1. \A x, y \in Nat : \A k \in 0 .. x + y : x + y - k \in Nat /\ k \in Nat /\ k <= x + y
      OBVIOUS
    <2> QED
      BY <1>1, <1>2, <2>1, Zenon
  <1>4. /\ UNCHANGED <<pc, drv, media, req, pkt, res, index, desc>>
        /\ InFlight >= 1 /\ InFlight \in Nat
        /\ \/ UNCHANGED <<answer, moved>>
           \/ taken[i] = desc /\ pc \in FlushLabels \cup Cleanup /\ answer' = a /\ moved' = m
    BY <1>1, HostAnswers
  <1>5. a \in [st : {"none", "preset", "ok", "err"}, residual : Nat] /\ a.st = st /\ a.residual = r
    BY <1>3
  <1> HIDE DEF a
  <1>6. DataTypes'
    BY <1>3, <1>4, <1>5 DEF Data, DataTypes
  <1>7. ScsiChainOk(req)' = ScsiChainOk(req)
    BY <1>4 DEF ScsiChainOk
  <1>8. ~(pc \in Cleanup /\ res = "ok")
    BY <1>4 DEF Data, ScsiData
  <1>9. CASE UNCHANGED <<answer, moved>>
    <2>1. ScsiData'
      BY <1>4, <1>7, <1>8, <1>9 DEF Data, ScsiData
    <2> QED
      BY <1>4, <1>6, <2>1 DEF Data
  <1>10. CASE taken[i] = desc /\ pc \in FlushLabels \cup Cleanup /\ answer' = a /\ moved' = m
    <2>1. res = "err"
      BY <1>8, <1>10 DEF Data, DataTypes
    <2>2. pc \in FlushLabels => r <= req'.in + req'.out /\ moved' = req'.in + req'.out - r
      BY <1>3, <1>4, <1>10 DEF Data, ScsiData
    <2>3. ScsiData'
      BY <1>4, <1>5, <1>7, <1>10, <2>1, <2>2 DEF Data, ScsiData
    <2> QED
      BY <1>4, <1>6, <2>3 DEF Data
  <1> QED
    BY <1>4, <1>9, <1>10
\* PopulateRequest keeps a transfer within the limits of the device.
LEMMA ScsiVerified ==
  ASSUME media \in ScsiMedia, NEW in \in 0 .. LenMod - 1, NEW out \in 0 .. LenMod - 1, PopulateRequest(in, out)
  PROVE  /\ in \in Nat /\ out \in Nat
         /\ ~Oversized(in, out) => ScsiChainOk([pos |-> 0, in |-> in, out |-> out])
         /\ Oversized(in, out) => /\ (media.maxSectors \div 2) * SectorUnits \in Nat
                                  /\ (media.maxSectors \div 2) * SectorUnits < LenMod
  <1> DEFINE half == media.maxSectors \div 2
  <1>1. /\ SectorUnits \in Nat \ {0} /\ LenMod \in Nat \ {0} /\ SIZE_1GB \in Nat /\ SIZE_1GB + SectorUnits <= LenMod
        /\ in \in Nat /\ out \in Nat
    BY SyncAssumption
  <1>2. media.maxSectors \in Nat
    BY ScsiAssumption DEF ScsiMedia
  <1>3. half \in Nat /\ 2 * half <= media.maxSectors
    BY <1>2
  <1>4. (in > 0 /\ out > 0 => media.inout) /\ in + out <= SIZE_1GB
    BY DEF PopulateRequest
  <1>5. ASSUME NEW len \in Nat, len <= SIZE_1GB
        PROVE  /\ Sectors(len) \in Nat /\ len <= Sectors(len) * SectorUnits
               /\ Sectors(len) * SectorUnits < LenMod
    <2> DEFINE x == len + SectorUnits - 1
               q == x \div SectorUnits
               s == x % SectorUnits
    <2>1. x \in Nat /\ x \in 0 .. LenMod - 1
      BY <1>1, <1>5
    <2>2. x = LenMod * 0 + x
      BY <1>1, <2>1
    <2>3. Sectors(len) = q
      <3> HIDE DEF x
      <3>1. x % LenMod = x
        BY <1>1, <2>1, <2>2, ModUnique
      <3> QED
        BY <3>1 DEF Sectors, x
    <2>4. q \in Int /\ s \in 0 .. SectorUnits - 1 /\ x = SectorUnits * q + s
      <3> HIDE DEF x
      <3> QED
        BY <1>1, <2>1, DivMod
    <2> HIDE DEF q, s
    <2> DEFINE p == SectorUnits * q
    <2>5. p \in Int /\ len + SectorUnits - 1 = p + s /\ p = q * SectorUnits
      BY <1>1, <2>4
    <2>6. q \in Nat
      <3>1. ASSUME q <= -1 PROVE FALSE
        <4>1. SectorUnits * (-q) >= SectorUnits
          BY <1>1, <2>4, <3>1, MulGe
        <4>2. SectorUnits * (-q) = -p
          BY <1>1, <2>4
        <4> HIDE DEF p
        <4> QED
          BY <1>1, <1>5, <2>4, <2>5, <4>1, <4>2
      <3> QED
        BY <2>4, <3>1
    <2> HIDE DEF p
    <2>7. len <= p /\ p < LenMod
      BY <1>1, <1>5, <2>4, <2>5
    <2> QED
      BY <2>3, <2>5, <2>6, <2>7
  <1> HIDE DEF half
  <1>6. in <= SIZE_1GB /\ out <= SIZE_1GB
    BY <1>1, <1>4
  <1>7. ASSUME ~Oversized(in, out)
        PROVE  ScsiChainOk([pos |-> 0, in |-> in, out |-> out])
    <2>1. Sectors(in) <= half /\ Sectors(out) <= half
      BY <1>1, <1>3, <1>5, <1>6, <1>7 DEF Oversized, half
    <2>2. ASSUME NEW len \in Nat, len <= SIZE_1GB, Sectors(len) <= half PROVE len <= half * SectorUnits
      <3>1. Sectors(len) \in Nat /\ len <= Sectors(len) * SectorUnits
        BY <1>5, <2>2
      <3>2. Sectors(len) * SectorUnits <= half * SectorUnits
        BY <1>1, <1>3, <2>2, <3>1
      <3>3. Sectors(len) * SectorUnits \in Int /\ half * SectorUnits \in Int
        BY <1>1, <1>3, <3>1
      <3> QED
        BY <3>1, <3>2, <3>3
    <2>3. in <= half * SectorUnits /\ out <= half * SectorUnits
      BY <1>1, <1>6, <2>1, <2>2
    <2>4. (2 * half) * SectorUnits <= media.maxSectors * SectorUnits
      BY <1>1, <1>2, <1>3
    <2>5. (2 * half) * SectorUnits = half * SectorUnits + half * SectorUnits
      BY <1>1, <1>3
    <2>6. half * SectorUnits \in Int /\ media.maxSectors * SectorUnits \in Int
      BY <1>1, <1>2, <1>3
    <2>7. in + out <= media.maxSectors * SectorUnits
      BY <1>1, <2>3, <2>4, <2>5, <2>6
    <2> QED
      BY <1>4, <2>7 DEF ScsiChainOk
  <1>8. ASSUME Oversized(in, out)
        PROVE  half * SectorUnits \in Nat /\ half * SectorUnits < LenMod
    <2>1. ASSUME NEW len \in Nat, len <= SIZE_1GB, Sectors(len) > half
          PROVE  half * SectorUnits \in Nat /\ half * SectorUnits < LenMod
      <3>1. Sectors(len) \in Nat /\ Sectors(len) * SectorUnits < LenMod
        BY <1>5, <2>1
      <3>2. half * SectorUnits <= Sectors(len) * SectorUnits
        BY <1>1, <1>3, <2>1, <3>1
      <3>3. Sectors(len) * SectorUnits \in Int /\ half * SectorUnits \in Nat
        BY <1>1, <1>3, <3>1
      <3> QED
        BY <1>1, <3>1, <3>2, <3>3
    <2> QED
      BY <1>1, <1>6, <1>8, <2>1 DEF Oversized, half
  <1> QED
    BY <1>1, <1>7, <1>8 DEF half

\* A call of ExtScsiPassThru.
LEMMA DataScsiCall ==
  ASSUME Data, pc = "idle", drv = "scsi", media \in ScsiMedia, ScsiCalls
  PROVE  Data'
  <1> USE DEF BeforeSubmit, FlushLabels, Cleanup
  <1>0. LenMod \in Nat /\ 0 < LenMod
    BY SyncAssumption
  <1>1. PICK in \in 0 .. LenMod - 1, out \in 0 .. LenMod - 1 : VirtioScsiPassThru(in, out) \/ BadBufferSize(in, out)
    BY DEF ScsiCalls
  <1>2. in \in Nat /\ out \in Nat /\ in < LenMod /\ out < LenMod
    BY <1>0
  <1>3. CASE VirtioScsiPassThru(in, out)
    <2> DEFINE r == [pos |-> 0, in |-> in, out |-> out]
    <2>1. PopulateRequest(in, out) /\ ~Oversized(in, out) /\ Call("ScsiMapRequest", r)
      BY <1>3 DEF VirtioScsiPassThru
    <2>2. ScsiChainOk(r)
      BY <2>1, ScsiVerified
    <2>3. r \in [pos : Nat, in : Nat, out : Nat] /\ r.in < LenMod /\ r.out < LenMod
      BY <1>2
    <2> HIDE DEF r
    <2>4. /\ pc' = "ScsiMapRequest" /\ req' = r /\ pkt' = r /\ res' = "err" /\ moved' = 0 /\ index' = 0
          /\ answer' = [st |-> "none", residual |-> 0] /\ drv' = drv /\ media' = media
      BY <2>1 DEF Call, NoAnswer, confVars
    <2>5. ScsiChainOk(req)'
      BY <2>2, <2>4 DEF ScsiChainOk
    <2>6. DataTypes'
      BY <2>3, <2>4 DEF DataTypes
    <2>7. ScsiData'
      BY <2>3, <2>4, <2>5 DEF ScsiData
    <2> QED
      BY <2>4, <2>6, <2>7 DEF Data
  <1>4. CASE BadBufferSize(in, out)
    <2> DEFINE n == (media.maxSectors \div 2) * SectorUnits
    <2>1. PopulateRequest(in, out) /\ Oversized(in, out)
      BY <1>4 DEF BadBufferSize
    <2>2. n \in Nat /\ n < LenMod
      BY <2>1, ScsiVerified
    <2>3. /\ pkt' = [pos |-> 0, in |-> n, out |-> n] /\ res' = "err" /\ moved' = 0 /\ index' = index
          /\ answer' = [st |-> "none", residual |-> 0] /\ drv' = drv /\ pc' = "idle"
      BY <1>4 DEF BadBufferSize, NoAnswer, confVars
    <2> HIDE DEF n
    <2>4. DataTypes'
      BY <2>2, <2>3 DEF Data, DataTypes
    <2>5. ScsiData'
      BY <2>2, <2>3 DEF ScsiData
    <2> QED
      BY <2>3, <2>4, <2>5 DEF Data
  <1> QED
    BY <1>1, <1>3, <1>4
\* The steps of VirtioScsiPassThru.
LEMMA DataScsiRequest ==
  ASSUME Ledger, Queue, Data, drv = "scsi", PassThruSteps, RequestMove, BindingKept
  PROVE  Data'
  <1> USE DEF BeforeSubmit, FlushLabels, Cleanup
  <1>0. drv' = drv /\ media' = media /\ DataTypes /\ ScsiData
    BY DEF BindingKept, confVars, Data
  <1>1. ASSUME DataTypes', ScsiData' PROVE Data'
    BY <1>0, <1>1 DEF Data
  <1>a. LenMod \in Nat /\ 0 < LenMod
    BY SyncAssumption
  <1>b. /\ pkt.in \in Nat /\ pkt.out \in Nat
        /\ [pkt EXCEPT !.in = 0, !.out = 0] \in [pos : Nat, in : Nat, out : Nat]
        /\ [pkt EXCEPT !.in = 0, !.out = 0].in = 0 /\ [pkt EXCEPT !.in = 0, !.out = 0].out = 0
    BY <1>0 DEF DataTypes
  <1>2. ASSUME UNCHANGED <<req, res, moved, index>>, answer' = answer \/ answer' = [st |-> "preset", residual |-> 0],
               pc \in BeforeSubmit, pc' \in BeforeSubmit \cup Cleanup \cup {"idle"}, pc' # "BlkSubmit",
               pc' = "ScsiSubmit" => answer' = [st |-> "preset", residual |-> 0],
               pkt' = pkt \/ (pc' \in Cleanup \cup {"idle"} /\ ReportHostAdapterError)
        PROVE  Data'
    <2>1. ScsiChainOk(req)' = ScsiChainOk(req)
      BY <1>0, <1>2 DEF ScsiChainOk
    <2>2. res = "err"
      BY <1>0, <1>2 DEF DataTypes
    <2>3. CASE pkt' = pkt
      <3>1. DataTypes'
        BY <1>0, <1>2, <2>3 DEF DataTypes
      <3>2. ScsiData'
        BY <1>0, <1>2, <2>1, <2>2, <2>3 DEF ScsiData, DataTypes
      <3> QED
        BY <1>1, <3>1, <3>2
    <2>4. CASE pc' \in Cleanup \cup {"idle"} /\ ReportHostAdapterError
      <3>1. pkt' \in [pos : Nat, in : Nat, out : Nat] /\ pkt'.in = 0 /\ pkt'.out = 0
        BY <1>b, <2>4 DEF ReportHostAdapterError
      <3>2. DataTypes'
        BY <1>0, <1>2, <2>4, <3>1 DEF DataTypes
      <3>3. ScsiData'
        BY <1>a, <1>2, <2>2, <2>4, <3>1 DEF ScsiData
      <3> QED
        BY <1>1, <3>2, <3>3
    <2> QED
      BY <1>2, <2>3, <2>4
  <1>3. CASE ScsiMapSteps
    <2>1. AfterIn \in {"ScsiMapOut", "ScsiAllocResponse"} /\ AfterReq \in {"ScsiAllocIn", "ScsiMapOut", "ScsiAllocResponse"}
      BY DEF AfterIn, AfterReq
    <2>2. ASSUME NEW at \in BeforeSubmit, NEW next \in BeforeSubmit \ {"BlkSubmit", "ScsiSubmit"},
                 NEW fail \in Cleanup \cup {"idle"}, NEW T, ScsiTry(at, next, fail, T)
          PROVE  Data'
      <3>1. UNCHANGED <<req, res, moved, index, answer>> /\ pc = at /\ pc' \in {next, fail}
            /\ (pkt' = pkt \/ (pc' # next /\ ReportHostAdapterError))
        BY <2>2 DEF ScsiTry, Try
      <3>2. pc' \in BeforeSubmit \cup Cleanup \cup {"idle"} /\ pc' \notin {"BlkSubmit", "ScsiSubmit"}
            /\ (pkt' = pkt \/ (pc' \in Cleanup \cup {"idle"} /\ ReportHostAdapterError))
        BY <3>1
      <3> QED
        BY <1>2, <3>1, <3>2
    <2>3. CASE ScsiTry("ScsiMapRequest", AfterReq, "idle", {"reqMap"})
      <3>1. AfterReq \in BeforeSubmit \ {"BlkSubmit", "ScsiSubmit"}
        BY <2>1
      <3> QED
        BY <2>2, <2>3, <3>1
    <2>4. CASE ScsiTry("ScsiAllocIn", "ScsiMapIn", "ScsiUnmapRequest", {"inBuf"})
      BY <2>2, <2>4
    <2>5. CASE ScsiTry("ScsiMapIn", AfterIn, "ScsiFreeIn", {"inMap"})
      <3>1. AfterIn \in BeforeSubmit \ {"BlkSubmit", "ScsiSubmit"}
        BY <2>1
      <3> QED
        BY <2>2, <2>5, <3>1
    <2>6. CASE ScsiTry("ScsiMapOut", "ScsiAllocResponse", "ScsiUnmapIn", {"outMap"})
      BY <2>2, <2>6
    <2>7. CASE ScsiTry("ScsiAllocResponse", "ScsiMapResponse", "ScsiUnmapOut", {"resp"})
      BY <2>2, <2>7
    <2> QED
      BY <1>3, <2>3, <2>4, <2>5, <2>6, <2>7 DEF ScsiMapSteps
  <1>4. CASE ScsiMapResponse
    <2>1. /\ UNCHANGED <<req, res, moved, index>> /\ answer' = [st |-> "preset", residual |-> 0]
          /\ pc = "ScsiMapResponse" /\ pc' \in {"ScsiSubmit", "ScsiFreeResponse"}
          /\ (pkt' = pkt \/ (pc' # "ScsiSubmit" /\ ReportHostAdapterError))
      BY <1>4 DEF ScsiMapResponse, Try
    <2> QED
      BY <1>2, <2>1
  <1>5. CASE ScsiSubmit
    <2> DEFINE parts == {"reqMap", "respMap"} \cup (IF pkt.out > 0 THEN {"outMap"} ELSE {})
                                              \cup (IF pkt.in > 0 THEN {"inMap"} ELSE {})
    <2>1. /\ pc = "ScsiSubmit" /\ pc' = "FlushPublish" /\ UNCHANGED <<req, pkt, res, answer, moved, index>>
          /\ desc' = [parts |-> parts, pos |-> 0, in |-> pkt.in, out |-> pkt.out, stale |-> FALSE]
      BY <1>5 DEF ScsiSubmit, Submit, Goto, SubmitChain, reqVars
    <2>2. ScsiChainOk(req)' = ScsiChainOk(req)
      BY <1>0, <2>1 DEF ScsiChainOk
    <2>3. DataTypes'
      BY <1>0, <2>1 DEF DataTypes
    <2>4. parts \subseteq {"reqMap", "respMap", "outMap", "inMap"}
      OBVIOUS
    <2> HIDE DEF parts
    <2>5. desc'.parts \subseteq {"reqMap", "respMap", "outMap", "inMap"} /\ desc'.in = pkt.in /\ desc'.out = pkt.out
      BY <2>1, <2>4
    <2>6. pkt = req /\ req.in \in Nat /\ req.out \in Nat /\ answer.residual = 0 /\ answer.st = "preset" /\ res = "err"
      BY <1>0, <1>b, <2>1 DEF ScsiData, DataTypes
    <2>7. 0 <= req.in + req.out
      BY <2>6
    <2>8. ScsiData'
      BY <1>0, <2>1, <2>2, <2>5, <2>6, <2>7 DEF ScsiData
    <2> QED
      BY <1>1, <2>3, <2>8
  <1>6. CASE Flush
    <2>1. pc \in FlushLabels /\ pc' \in FlushLabels /\ UNCHANGED <<req, pkt, res, answer, moved, index, desc>>
      BY <1>6 DEF Flush, FlushSteps, FlushPublish, FlushNotify, FlushNotifyFails, FlushPoll, reqVars
    <2>2. ScsiChainOk(req)' = ScsiChainOk(req)
      BY <1>0, <2>1 DEF ScsiChainOk
    <2>3. DataTypes'
      BY <1>0, <2>1 DEF DataTypes
    <2>4. ScsiData'
      BY <1>0, <2>1, <2>2 DEF ScsiData, DataTypes
    <2> QED
      BY <1>1, <2>3, <2>4
  <1>7. CASE ScsiFlushed
    <2>1. /\ pc = "Flushed" /\ pc' = "ScsiUnmapResponse" /\ UNCHANGED <<req, answer, moved, index, ring>>
          /\ IF flushOk THEN ParseResponse ELSE ReportHostAdapterError /\ res' = res
      BY <1>7 DEF ScsiFlushed, Goto, libVars
    <2>2. InFlight' = InFlight /\ (flushOk => InFlight = 0)
      BY <2>1 DEF InFlight, Queue, QueuePlace
    <2>3. /\ res = "err" /\ answer.residual \in Nat /\ answer.residual <= pkt.in + pkt.out
          /\ answer.st = "ok" => moved = pkt.in + pkt.out - answer.residual
          /\ pkt.in < LenMod /\ pkt.out < LenMod
      BY <1>0, <2>1 DEF ScsiData, DataTypes
    <2>4. /\ pkt' \in [pos : Nat, in : Nat, out : Nat] /\ pkt'.in < LenMod /\ pkt'.out < LenMod
          /\ res' \in {"ok", "err"} /\ (res' = "ok" => moved = pkt'.in + pkt'.out /\ flushOk)
      <3>1. CASE ~flushOk
        BY <1>a, <1>b, <2>1, <2>3, <3>1 DEF ReportHostAdapterError
      <3>2. CASE flushOk /\ answer.residual <= pkt.in
        <4>1. pkt' = [pkt EXCEPT !.in = @ - answer.residual] /\ res' = IF answer.st = "ok" THEN "ok" ELSE "err"
          BY <2>1, <3>2 DEF ParseResponse
        <4>2. pkt.in - answer.residual \in Nat /\ pkt.in - answer.residual < LenMod
          BY <1>a, <1>b, <2>3, <3>2
        <4>3. pkt' \in [pos : Nat, in : Nat, out : Nat] /\ pkt'.in = pkt.in - answer.residual /\ pkt'.out = pkt.out
          BY <1>0, <4>1, <4>2 DEF DataTypes
        <4>4. pkt.in + pkt.out - answer.residual = (pkt.in - answer.residual) + pkt.out
          BY <1>b, <2>3
        <4> QED
          BY <2>3, <3>2, <4>1, <4>2, <4>3, <4>4
      <3>3. CASE flushOk /\ ~(answer.residual <= pkt.in)
        <4> DEFINE x == pkt.out - (answer.residual - pkt.in)
        <4>1. /\ pkt' = [pkt EXCEPT !.in = 0, !.out = (@ - (answer.residual - pkt.in)) % LenMod]
              /\ res' = IF answer.st = "ok" THEN "ok" ELSE "err"
          BY <2>1, <3>3 DEF ParseResponse
        <4>2. x \in Nat /\ x \in 0 .. LenMod - 1 /\ x \in Int
          BY <1>a, <1>b, <2>3, <3>3
        <4>3. x % LenMod = x
          <5>1. x = LenMod * 0 + x /\ LenMod \in Nat \ {0}
            BY <1>a, <4>2
          <5> HIDE DEF x
          <5> QED
            BY <4>2, <5>1, ModUnique
        <4>4. pkt' \in [pos : Nat, in : Nat, out : Nat] /\ pkt'.in = 0 /\ pkt'.out = x
          BY <1>0, <4>1, <4>2, <4>3 DEF DataTypes
        <4>5. pkt.in + pkt.out - answer.residual = 0 + x
          BY <1>b, <2>3
        <4>6. x < LenMod
          BY <1>a, <4>2
        <4> HIDE DEF x
        <4> QED
          BY <1>a, <2>3, <3>3, <4>1, <4>4, <4>5, <4>6
      <3> QED
        BY <3>1, <3>2, <3>3
    <2>5. DataTypes'
      BY <1>0, <2>1, <2>4 DEF DataTypes
    <2>6. ScsiData'
      BY <2>1, <2>2, <2>4 DEF ScsiData
    <2> QED
      BY <1>1, <2>5, <2>6
  <1>8. CASE ScsiUnmapSteps
    <2>1. CASE Return("ScsiUnmapRequest", {"reqMap"})
      <3>1. UNCHANGED <<reqVars, kickFails>> /\ pc' = "idle"
        BY <2>1 DEF Return, Undo, RetireChains
      <3> QED
        BY <1>0, <3>1, DataOutside DEF RequestLabels
    <2>2. CASE ~Return("ScsiUnmapRequest", {"reqMap"})
      <3>1. pc \in Cleanup /\ pc' \in Cleanup /\ UNCHANGED <<reqVars, libVars>>
        BY <1>8, <2>2 DEF ScsiUnmapSteps, Undo, MemoryStep
      <3> QED
        BY <1>0, <3>1, DataCleanup
    <2> QED
      BY <2>1, <2>2
  <1> QED
    BY <1>3, <1>4, <1>5, <1>6, <1>7, <1>8 DEF PassThruSteps
\* A call of GetRNG.
LEMMA DataRngCall ==
  ASSUME drv = "rng", RngCalls
  PROVE  Data'
  <1> USE DEF BeforeSubmit, FlushLabels, Cleanup, Published
  <1>1. PICK n \in RngLengths : n > 0 /\ Call("RngAlloc", [pos |-> 0, in |-> n, out |-> 0])
    BY DEF RngCalls, VirtioRngGetRNG
  <1>2. n \in Nat
    BY RngAssumption
  <1>3. /\ pc' = "RngAlloc" /\ req' = [pos |-> 0, in |-> n, out |-> 0] /\ pkt' = req' /\ res' = "err"
        /\ moved' = 0 /\ index' = 0 /\ answer' = [st |-> "none", residual |-> 0] /\ drv' = drv
    BY <1>1 DEF Call, NoAnswer, confVars
  <1>4. DataTypes'
    BY <1>2, <1>3 DEF DataTypes
  <1>5. RngCount'
    BY <1>1, <1>2, <1>3 DEF RngCount
  <1>6. RngData'
    BY <1>3, <1>5 DEF RngData
  <1> QED
    BY <1>3, <1>4, <1>6 DEF Data

\* The steps of VirtioRngGetRNG.
LEMMA DataRngRequest ==
  ASSUME Ledger, Bringup, Queue, Data, drv = "rng", GetRNGSteps, RequestMove, BindingKept
  PROVE  Data'
  <1> USE DEF BeforeSubmit, FlushLabels, Cleanup, Published
  <1>0. drv' = drv /\ DataTypes /\ RngData
    BY DEF BindingKept, confVars, Data
  <1>1. ASSUME DataTypes', RngData' PROVE Data'
    BY <1>0, <1>1 DEF Data
  <1>2. /\ req.in \in Nat /\ index \in Nat /\ moved \in Nat /\ usedLen \in Nat /\ kickFails \in Nat
    BY <1>0, QueueSizesValid DEF RngData, DataTypes, Queue, QueueTypes
  <1>3. pc \in RequestLabels /\ kickFails = 0 /\ pc \notin Published => InFlight = 0
    <2>1. InFlight \in Nat /\ (pc \in RequestLabels => Up)
          /\ (Up => (kickFails = 0 => (InFlight >= 1 => pc \in Published)))
      BY CountFacts
    <2> QED
      BY <2>1
  <1>4. CASE RngMapSteps
    <2>1. UNCHANGED <<reqVars, kickFails>> /\ UNCHANGED <<req, pkt, res, answer, moved, index>>
      BY <1>4 DEF RngMapSteps, MemoryStep, libVars, hostVars, reqVars
    <2>2. \/ pc = "RngAlloc" /\ pc' = "RngMap"
          \/ pc = "RngMap" /\ pc' = "RngLoop"
          \/ pc = "RngMap" /\ pc' = "RngFree"
          \/ pc' = "idle"
      BY <1>4 DEF RngMapSteps, Try
    <2>3. CASE pc' = "idle"
      BY <1>0, <2>1, <2>3, DataOutside DEF RequestLabels
    <2>4. CASE pc' # "idle"
      <3>1. DataTypes'
        BY <1>0, <2>1, <2>2, <2>4 DEF DataTypes
      <3>2. ASSUME kickFails = 0 PROVE RngCount'
        <4>1. RngCount /\ res = "err"
          BY <1>0, <2>2, <2>4, <3>2 DEF RngData, DataTypes
        <4>2. index = 0 /\ req.in > 0
          BY <2>2, <2>4, <4>1 DEF RngCount, RequestLabels
        <4> QED
          BY <1>2, <2>1, <2>2, <2>4, <4>1, <4>2 DEF RngCount
      <3>3. RngData'
        BY <1>0, <2>1, <2>2, <2>4, <3>2 DEF RngData
      <3> QED
        BY <1>1, <3>1, <3>3
    <2> QED
      BY <2>3, <2>4
  <1>5. CASE RngSubmit
    <2>1. /\ pc = "RngLoop" /\ pc' = "FlushPublish" /\ UNCHANGED <<req, pkt, res, answer, moved, index, kickFails>>
          /\ desc' = [parts |-> {"bufMap"}, pos |-> index, in |-> BufferSize, out |-> 0, stale |-> FALSE]
          /\ index < req.in
      BY <1>5 DEF RngSubmit, Submit, Goto, SubmitChain, reqVars, hostVars
    <2>2. index + BufferSize <= req.in
      BY <1>2, <2>1, RngAssumption DEF BufferSize
    <2>3. DataTypes'
      BY <1>0, <2>1 DEF DataTypes
    <2>4. kickFails = 0 => RngCount'
      BY <1>0, <1>2, <2>1 DEF RngData, RngCount, RequestLabels, DataTypes
    <2>5. /\ desc'.parts = {"bufMap"} /\ desc'.pos = index /\ desc'.in = BufferSize /\ desc'.out = 0
      BY <2>1
    <2>6. RngData'
      BY <1>0, <2>1, <2>2, <2>4, <2>5 DEF RngData
    <2> QED
      BY <1>1, <2>3, <2>6
  <1>6. CASE Flush
    <2>0. pc \in FlushLabels /\ pc' \in FlushLabels /\ UNCHANGED <<req, pkt, res, answer, moved, index, desc>>
      BY <1>6 DEF Flush, FlushSteps, FlushPublish, FlushNotify, FlushNotifyFails, FlushPoll, reqVars
    <2>1. DataTypes' /\ res = "err"
      BY <1>0, <2>0 DEF DataTypes
    <2>2. ASSUME kickFails' = 0 => RngCount' PROVE Data'
      <3>1. RngData'
        BY <1>0, <2>0, <2>2 DEF RngData
      <3> QED
        BY <1>1, <2>1, <3>1
    <2>3. kickFails = 0 => RngCount /\ req.in > 0 /\ index <= req.in
      BY <1>0, <2>0 DEF RngData, RngCount, RequestLabels
    <2>4. CASE FlushPublish
      <3>1. /\ pc = "FlushPublish" /\ pc' = "FlushNotify" /\ ring' = [ring EXCEPT !.availIdx = nextAvail]
            /\ kickFails' = kickFails
        BY <2>4 DEF FlushPublish, hostVars
      <3>2. ASSUME kickFails = 0 PROVE InFlight' # 0
        <4>1. ring.usedIdx \in Idx /\ ring.availIdx \in Idx /\ nextAvail = IdxAdd(ring.availIdx, 1)
              /\ nextAvail \in Idx /\ IdxMod \in Nat \ {0} /\ 1 < IdxMod
          <5>1. /\ QueueTypes /\ nextAvail = IdxAdd(ring.availIdx, 1)
            BY <3>1 DEF Queue, QueuePlace
          <5> QED
            BY <5>1, QueueSizesValid, RingFields DEF QueueTypes
        <4>2. ring'.usedIdx = ring.usedIdx /\ ring'.availIdx = nextAvail
          BY <3>1, <4>1, RingPublish DEF Queue, QueueTypes
        <4>3. Ahead(ring.usedIdx, ring.availIdx) = 0
          BY <1>3, <3>1, <3>2 DEF RequestLabels, InFlight
        <4>4. Ahead(ring.usedIdx, nextAvail) = 0 + 1
          BY <4>1, <4>3, AheadAdd
        <4> QED
          BY <4>2, <4>4 DEF InFlight
      <3>3. kickFails = 0 => RngCount'
        BY <2>0, <2>1, <2>3, <3>1, <3>2 DEF RngCount
      <3> QED
        BY <2>2, <3>1, <3>3
    <2>5. CASE FlushNotify
      <3>1. pc = "FlushNotify" /\ pc' = "FlushPoll" /\ UNCHANGED <<ring, kickFails, nextAvail>> /\ InFlight' = InFlight
        BY <2>5 DEF FlushNotify, flushVars, InFlight
      <3>2. NextUsed(ring, nextAvail + IdxMod - 1)' = NextUsed(ring, nextAvail + IdxMod - 1)
        BY <3>1 DEF NextUsed
      <3>3. kickFails = 0 => RngCount'
        BY <2>0, <2>1, <2>3, <3>1, <3>2 DEF RngCount
      <3> QED
        BY <2>2, <3>1, <3>3
    <2>6. CASE FlushNotifyFails
      BY <1>2, <2>2, <2>6 DEF FlushNotifyFails
    <2>7. CASE FlushPoll
      <3> DEFINE n == NextUsed(ring, nextAvail + IdxMod - 1).len
      <3>1. /\ pc = "FlushPoll" /\ pc' = "Flushed" /\ UNCHANGED <<ring, kickFails, nextAvail>> /\ usedLen' = n
            /\ ring.usedIdx = nextAvail
        BY <2>7 DEF FlushPoll, hostVars
      <3>2. InFlight = 0
        <4>1. QueueTypes /\ nextAvail = ring.availIdx
          BY <3>1 DEF Queue, QueuePlace
        <4>2. ring.usedIdx \in Idx /\ IdxMod \in Nat \ {0}
          BY <4>1, RingFields, QueueSizesValid DEF QueueTypes
        <4> QED
          BY <3>1, <4>1, <4>2, AheadType DEF InFlight
      <3>3. kickFails = 0 => n <= desc.in /\ moved = index + n
        BY <2>3, <3>1, <3>2 DEF RngCount
      <3> HIDE DEF n
      <3>4. kickFails = 0 => RngCount'
        BY <2>0, <2>1, <2>3, <3>1, <3>3 DEF RngCount
      <3> QED
        BY <2>2, <3>1, <3>4
    <2> QED
      BY <1>6, <2>4, <2>5, <2>6, <2>7 DEF Flush, FlushSteps
  <1>7. CASE RngFlushed
    <2>1. /\ pc = "Flushed" /\ pc' = IF flushOk THEN "RngLoop" ELSE "RngUnmapBuffer"
          /\ index' = IF flushOk THEN index + usedLen ELSE index
          /\ UNCHANGED <<req, pkt, res, answer, moved, kickFails>>
      BY <1>7 DEF RngFlushed, Goto, libVars, hostVars
    <2>2. DataTypes' /\ res = "err"
      BY <1>0, <1>2, <2>1 DEF DataTypes
    <2>3. desc.in \in Nat /\ index + desc.in <= req.in
      BY <1>0, <2>1 DEF RngData, Queue, QueueTypes, ChainType
    <2>4. ASSUME kickFails = 0 PROVE RngCount'
      <3>1. RngCount /\ req.in > 0 /\ index <= req.in /\ (flushOk => usedLen <= desc.in /\ moved = index + usedLen)
        BY <1>0, <2>1, <2>4 DEF RngData, RngCount, RequestLabels
      <3>2. CASE flushOk
        <4>1. index + usedLen <= req.in
          BY <1>2, <2>3, <3>1, <3>2
        <4> QED
          BY <2>1, <2>2, <3>1, <3>2, <4>1 DEF RngCount
      <3>3. CASE ~flushOk
        BY <2>1, <2>2, <3>1, <3>3 DEF RngCount
      <3> QED
        BY <3>2, <3>3
    <2>5. RngData'
      BY <1>0, <2>1, <2>4 DEF RngData
    <2> QED
      BY <1>1, <2>2, <2>5
  <1>8. CASE RngDone
    <2>1. /\ pc = "RngLoop" /\ pc' = "RngFree" /\ UNCHANGED <<req, pkt, answer, moved, index, kickFails, ring>>
          /\ res' \in {"ok", "err"} /\ index >= req.in
      BY <1>8 DEF RngDone, Undo, libVars, hostVars
    <2>2. DataTypes'
      BY <1>0, <2>1 DEF DataTypes
    <2>3. ASSUME kickFails = 0 PROVE RngCount'
      <3>1. RngCount /\ req.in > 0 /\ index <= req.in /\ (index > 0 => moved = index)
        BY <1>0, <2>1, <2>3 DEF RngData, RngCount, RequestLabels
      <3>2. moved = req.in /\ pkt = req
        BY <1>0, <1>2, <2>1, <3>1 DEF RngData
      <3>3. InFlight' = 0
        BY <1>3, <2>1, <2>3 DEF RequestLabels, InFlight
      <3> QED
        BY <2>1, <3>1, <3>2, <3>3 DEF RngCount
    <2>4. RngData'
      BY <1>0, <2>1, <2>3 DEF RngData
    <2> QED
      BY <1>1, <2>2, <2>4
  <1>9. CASE RngUnmapSteps
    <2>1. CASE Return("RngFree", {"buf"})
      <3>1. UNCHANGED <<reqVars, kickFails>> /\ pc' = "idle"
        BY <2>1 DEF Return, Undo, RetireChains
      <3> QED
        BY <1>0, <3>1, DataOutside DEF RequestLabels
    <2>2. CASE ~Return("RngFree", {"buf"})
      <3>1. pc \in Cleanup /\ pc' \in Cleanup /\ UNCHANGED <<reqVars, libVars>>
        BY <1>9, <2>2 DEF RngUnmapSteps, Undo, MemoryStep
      <3> QED
        BY <1>0, <3>1, DataCleanup
    <2> QED
      BY <2>1, <2>2
  <1> QED
    BY <1>4, <1>5, <1>6, <1>7, <1>8, <1>9 DEF GetRNGSteps

\* The element of the used ring that VirtioFlush looks at is the last one.
LEMMA LastUsed ==
  ASSUME NEW qs, ValidQueueSize(qs), NEW u \in Idx
  PROVE  (IdxAdd(u, 1) + IdxMod - 1) % qs = u % qs
  <1>1. qs \in Nat \ {0} /\ IdxMod \in Nat \ {0} /\ IdxMod % qs = 0
    BY DEF ValidQueueSize
  <1>2. u \in Nat /\ u < IdxMod
    BY <1>1 DEF Idx
  <1>3. CASE u + 1 < IdxMod
    <2>1. IdxAdd(u, 1) = u + 1
      BY <1>1, <1>2, <1>3 DEF IdxAdd
    <2>2. (u + IdxMod - IdxMod) % qs = (u + IdxMod) % qs
      <3> DEFINE x == u + IdxMod
      <3>1. x \in Int
        BY <1>1, <1>2
      <3> HIDE DEF x
      <3>2. (x - IdxMod) % qs = x % qs
        BY <1>1, <3>1, ModWrap
      <3>3. x - IdxMod = u + IdxMod - IdxMod
        BY <1>1, <1>2 DEF x
      <3> QED
        BY <3>2, <3>3 DEF x
    <2>3. u + IdxMod - IdxMod = u /\ (u + 1) + IdxMod - 1 = u + IdxMod
      BY <1>1, <1>2
    <2> QED
      BY <2>1, <2>2, <2>3
  <1>4. CASE u + 1 = IdxMod
    <2>1. IdxAdd(u, 1) = 0
      <3>1. IdxMod = IdxMod * 1 + 0 /\ 0 \in 0 .. IdxMod - 1
        BY <1>1
      <3>2. IdxMod % IdxMod = 0
        BY <1>1, <3>1, ModUnique
      <3> QED
        BY <1>4, <3>2 DEF IdxAdd
    <2>2. 0 + IdxMod - 1 = u
      BY <1>1, <1>2, <1>4
    <2> QED
      BY <2>1, <2>2
  <1> QED
    BY <1>1, <1>2, <1>3, <1>4

\* The host answers a request of GetRNG.
LEMMA DataRngHost ==
  ASSUME Ledger, Bringup, Queue, Chains, Data, drv = "rng", RngHost
  PROVE  Data'
  <1> USE DEF BeforeSubmit, FlushLabels, Cleanup, Published
  <1>0. PICK i \in DOMAIN taken : \E n \in 1 .. taken[i].in : HostCompletes(i, n, taken[i].pos + n, NoAnswer)
    BY DEF RngHost
  <1>1. PICK n \in 1 .. taken[i].in : HostCompletes(i, n, taken[i].pos + n, NoAnswer)
    BY <1>0
  <1>2. taken[i].in \in Nat /\ taken[i].pos \in Nat
    <2>1. taken[i] \in ChainType
      BY LenProperties DEF Queue, QueueTypes
    <2> QED
      BY <2>1 DEF ChainType
  <1> DEFINE m == taken[i].pos + n
  <1>3. n \in Nat /\ n <= taken[i].in /\ m \in Nat
    BY <1>1, <1>2
  <1>4. /\ UNCHANGED <<pc, drv, media, req, pkt, res, index, desc, kickFails, nextAvail, flushOk, usedLen>>
        /\ InFlight >= 1 /\ InFlight \in Nat
        /\ \/ kickFails # 0 /\ UNCHANGED <<answer, moved>>
           \/ /\ taken[i] = desc /\ answer' = NoAnswer /\ moved' = m
              /\ kickFails = 0 => InFlight = 1 /\ pc \in Published
        /\ ring' = PutUsed(ring, 0, n)
    BY <1>1, HostAnswers
  <1>5. DataTypes'
    BY <1>3, <1>4 DEF Data, DataTypes, NoAnswer
  <1>6. ASSUME kickFails = 0 PROVE RngCount'
    <2>0. RngCount /\ res = "err" /\ taken[i] = desc /\ moved' = m /\ pc \in Published /\ InFlight = 1
          /\ desc.pos = index /\ QueueTypes /\ nextAvail = ring.availIdx
      BY <1>4, <1>6 DEF Data, RngData, DataTypes, Queue, QueuePlace
    <2>1. moved' = index + n /\ n <= desc.in
      BY <1>3, <2>0
    <2>2. NextUsed(ring, nextAvail + IdxMod - 1)'.len = n
      <3>1. /\ ring.usedIdx \in Idx /\ ring.availIdx \in Idx /\ IdxMod \in Nat \ {0} /\ ring.size \in QueueSizes
            /\ ring'.size = ring.size /\ ring'.usedRing[ring.usedIdx % ring.size].len = n /\ ValidQueueSize(ring.size)
        <4>1. ring.size \in QueueSizes /\ ring \in VRingType(ring.size, {0}, Nat)
          BY <2>0 DEF QueueTypes
        <4>2. ring.usedIdx \in Idx /\ ring.availIdx \in Idx
          BY <4>1, RingFields
        <4>3. PutUsed(ring, 0, n).size = ring.size /\ PutUsed(ring, 0, n).usedRing[ring.usedIdx % ring.size].len = n
          BY <1>3, <4>1, RingPutUsed
        <4> QED
          BY <1>4, <4>1, <4>2, <4>3, QueueSizesValid
      <3>2. IdxAdd(ring.usedIdx, Ahead(ring.usedIdx, ring.availIdx)) = ring.availIdx
        BY <3>1, AheadReach
      <3>3. nextAvail = IdxAdd(ring.usedIdx, 1)
        BY <2>0, <3>2 DEF InFlight
      <3>4. (nextAvail + IdxMod - 1) % ring.size = ring.usedIdx % ring.size
        BY <3>1, <3>3, LastUsed
      <3> QED
        BY <1>4, <3>1, <3>4 DEF NextUsed
    <2> QED
      BY <1>4, <2>0, <2>1, <2>2 DEF RngCount
  <1>7. RngData'
    BY <1>4, <1>6 DEF Data, RngData
  <1> QED
    BY <1>4, <1>5, <1>7 DEF Data
\* No step disturbs what is known about the data.
LEMMA DataStep ==
  ASSUME Ledger, Bringup, Queue, Chains, Data, [SyncNext]_syncVars
  PROVE  Data'
  <1> USE DEF RequestLabels, BeforeSubmit, FlushLabels, Cleanup
  <1>0. index \in Nat
    BY DEF Data, DataTypes
  <1>1. CASE Start \/ ConfigStep \/ CfgWriteStep
    <2>1. UNCHANGED <<reqVars, drv, kickFails>> /\ pc' \notin RequestLabels
      BY <1>1 DEF Start, ConfigStep, InitConfig, AfterConfig, CfgWriteStep, Try, MemoryStep, confVars, libVars, hostVars
    <2> QED
      BY <2>1, DataOutside
  <1>2. CASE InitStep
    <2>1. PICK after \in {"InitDriverOk", "CfgWrite"} : InitSteps(MinDescs, after)
      BY <1>2 DEF InitStep
    <2>2. UNCHANGED <<reqVars, drv>>
      BY <1>2 DEF InitStep, confVars
    <2>3. pc' \notin RequestLabels
      <3> DEFINE next == IF modern THEN after ELSE "GuestFeatures"
      <3>1. next \in {"InitDriverOk", "CfgWrite", "GuestFeatures"}
        OBVIOUS
      <3>2. ASSUME Try("QueueAddress", next, "UnmapQueue", {}) PROVE pc' \in {next, "UnmapQueue"}
        BY <3>2 DEF Try
      <3> HIDE DEF next
      <3>3. pc' \in {next, "UnmapQueue"} => pc' \notin RequestLabels
        BY <3>1
      <3>4. CASE Try("QueueAddress", next, "UnmapQueue", {})
        BY <3>2, <3>3, <3>4
      <3>5. CASE ~Try("QueueAddress", next, "UnmapQueue", {})
        BY <2>1, <3>5 DEF InitSteps, QueueSel, InitReset, SetNext, FeaturesCheck, InitFailed, Try, Undo, next
      <3> QED
        BY <3>4, <3>5
    <2>4. kickFails' = kickFails
      BY <2>1 DEF InitSteps, QueueSel, QueueEffect, ForgetQueue, hostVars
    <2> QED
      BY <2>2, <2>3, <2>4, DataOutside
  <1>3. CASE BindingStep
    <2>1. UNCHANGED <<reqVars, drv, kickFails>>
      BY <1>3 DEF BindingStep, StartSteps, QueueEffect, ForgetQueue, hostVars, confVars
    <2>2. pc' \notin RequestLabels
      BY <1>3 DEF BindingStep, StartSteps, UninitSteps, Try, Undo, WriteStatus
    <2> QED
      BY <2>1, <2>2, DataOutside
  <1>4. CASE Stop \/ ExitBootCallback
    <2>1. NoRequest /\ pc' \notin RequestLabels
      BY <1>4 DEF Stop, ExitBootCallback
    <2> QED
      BY <2>1, DataCleared
  <1>5. CASE Calls /\ CallMove
    <2>1. Configured /\ pc = "idle"
      BY <1>5 DEF CallMove, Configured
    <2>2. media \in MediaOf(drv)
      BY <2>1 DEF Bringup
    <2>3. CASE drv = "blk" /\ BlkCalls
      BY <2>2, <2>3, DataBlkCall DEF MediaOf
    <2>4. CASE drv = "scsi" /\ ScsiCalls
      BY <2>1, <2>2, <2>4, DataScsiCall DEF MediaOf
    <2>5. CASE drv = "rng" /\ RngCalls
      BY <2>5, DataRngCall
    <2> QED
      BY <1>5, <2>3, <2>4, <2>5 DEF Calls
  <1>6. CASE RequestStep
    BY <1>6, DataBlkRequest, DataScsiRequest, DataRngRequest DEF RequestStep
  <1>7. CASE HostLooks
    <2>1. UNCHANGED <<pc, drv, media, reqVars, ring, desc, flushVars, kickFails>>
      BY <1>7 DEF HostLooks, LibHostFetch, LibHostIdle, HostFrame, confVars, reqVars
    <2> QED
      BY <2>1, DataSame
  <1>8. CASE HostWorks
    BY <1>8, DataBlkHost, DataScsiHost, DataRngHost DEF HostWorks
  <1>9. CASE UNCHANGED syncVars
    <2>1. UNCHANGED <<pc, drv, media, reqVars, ring, desc, flushVars, kickFails>>
      BY <1>9 DEF syncVars, confVars, libVars, hostVars
    <2> QED
      BY <2>1, DataSame
  <1> QED
    BY <1>0, <1>1, <1>2, <1>3, <1>4, <1>5, <1>6, <1>7, <1>8, <1>9, Kinds DEF HostStep
-----------------------------------------------------------------------------
(* The invariant and what follows from it.                                 *)

\* Initially nothing is held, and nothing has been asked for.
LEMMA InvInit ==
  ASSUME SyncInit
  PROVE  SyncInv
  <1>1. /\ pc = "idle" /\ devStatus = {} /\ nextStat = {} /\ exited = FALSE /\ drv \in {"blk", "scsi", "rng"}
        /\ req = [pos |-> 0, in |-> 0, out |-> 0] /\ desc = NoChain /\ ring = ZeroRing(QueueSize)
        /\ hostIdx = 0 /\ taken = << >> /\ kicked = FALSE /\ kickFails = 0
        /\ nextAvail = 0 /\ flushOk = FALSE /\ usedLen = 0
    BY DEF SyncInit, LibInit, NoReq
  <1>2. Unbound /\ ~Bound
    <2>1. Unbound
      BY DEF SyncInit, Unbound, Exact
    <2> QED
      BY <2>1, HeldBound
  <1>3. Ledger
    BY <1>1, <1>2 DEF Ledger, LabelLengths
  <1>4. ~Up /\ ~Sized /\ ~Configured
    BY <1>1, <1>2 DEF Up, Sized, Configured, UpLabels, SetupLabels, RequestLabels, BeforeSubmit, FlushLabels, Cleanup
  <1>5. Bringup
    BY <1>1, <1>2, <1>4 DEF Bringup
  <1>6. QueueTypes /\ Untouched
    <2>1. QueueSize \in QueueSizes
      BY SyncAssumption
    <2>2. /\ ring \in VRingType(ring.size, {0}, Nat) /\ ring.size \in QueueSizes /\ ring.availIdx = 0
          /\ ring.usedIdx = 0 /\ 0 \in Idx /\ MaxKickFailures \in Nat
      BY <1>1, <2>1, QueueSizesValid
    <2>3. desc \in ChainType
      BY <1>1 DEF NoChain, ChainType
    <2>4. taken \in Seq(ChainType)
      BY <1>1
    <2>5. hostIdx \in Idx /\ nextAvail \in Idx /\ usedLen \in Nat /\ kickFails \in 0 .. MaxKickFailures
      BY <1>1, <2>2
    <2>6. kicked \in BOOLEAN /\ flushOk \in BOOLEAN
      BY <1>1
    <2>7. QueueTypes
      BY <2>2, <2>3, <2>4, <2>5, <2>6 DEF QueueTypes
    <2> QED
      BY <1>1, <2>2, <2>7 DEF Untouched
  <1>7. QueuePlace
    BY <1>1, <1>2, <1>4, <1>6 DEF QueuePlace, Published, Untouched
  <1>8. Chains
    BY <1>1 DEF Chains, FlushLabels, NoChain
  <1>9. Data
    BY <1>1, DataNone DEF SyncInit, RequestLabels, BeforeSubmit, FlushLabels, Cleanup
  <1> QED
    BY <1>3, <1>5, <1>6, <1>7, <1>8, <1>9 DEF SyncInv, Queue

\* Every step of a driver, of the host and of the system keeps it.
LEMMA InvStep ==
  ASSUME SyncInv, [SyncNext]_syncVars
  PROVE  SyncInv'
  <1>1. Ledger /\ Bringup /\ Queue /\ Chains /\ Data /\ index \in Nat
    BY DEF SyncInv, Data, DataTypes
  <1>2. Ledger'
    BY <1>1, LedgerStep
  <1>3. Bringup'
    BY <1>1, <1>2, BringupStep
  <1>4. Queue'
    BY <1>1, <1>2, QueueStep
  <1>5. Chains'
    BY <1>1, <1>2, <1>4, ChainsStep
  <1>6. Data'
    BY <1>1, DataStep
  <1> QED
    BY <1>2, <1>3, <1>4, <1>5, <1>6 DEF SyncInv

\* The drivers stay within it.
THEOREM SyncInvariant == SyncSpec => []SyncInv
  <1>1. SyncInit => SyncInv
    BY InvInit
  <1>2. SyncInv /\ [SyncNext]_syncVars => SyncInv'
    BY InvStep
  <1> QED
    BY <1>1, <1>2, PTL DEF SyncSpec

\* What is held is counted once.
LEMMA HeldOnce ==
  ASSUME Ledger
  PROVE  held \in [SyncResources -> 0 .. 1]
  <1>1. PICK S : Exact(held, S)
    BY LedgerExact
  <1> QED
    BY <1>1, ExactCounts

\* The ledger balances between calls.
LEMMA InvLeaks ==
  ASSUME SyncInv
  PROVE  SyncNothingLeaks
  <1>0. Ledger /\ Bringup /\ QueueTypes /\ Data
    BY DEF SyncInv, Queue
  <1>1. SyncTypeOK
    <2>1. held \in [SyncResources -> 0 .. 1]
      BY <1>0, HeldOnce
    <2>2. devStatus \subseteq StatusBits /\ nextStat \subseteq StatusBits /\ exited \in BOOLEAN
      BY <1>0 DEF Bringup
    <2>3. /\ ring.availIdx \in Idx /\ ring.usedIdx \in Idx /\ ring.size \in QueueSizes
          /\ hostIdx \in Idx /\ nextAvail \in Idx
          /\ kicked \in BOOLEAN /\ flushOk \in BOOLEAN /\ kickFails \in 0 .. MaxKickFailures
      BY <1>0, RingFields DEF QueueTypes
    <2>4. res \in {"ok", "err"}
      BY <1>0 DEF Data, DataTypes
    <2>5. drv # "rng" => pkt.in \in 0 .. LenMod - 1 /\ pkt.out \in 0 .. LenMod - 1
      <3>1. pkt.in \in Nat /\ pkt.out \in Nat /\ LenMod \in Nat
        BY <1>0, SyncAssumption DEF Data, DataTypes
      <3>2. drv # "rng" => pkt.in < LenMod /\ pkt.out < LenMod
        BY <1>0 DEF Data, BlkData, ScsiData, Ledger
      <3> QED
        BY <3>1, <3>2
    <2> QED
      BY <2>1, <2>2, <2>3, <2>4, <2>5 DEF SyncTypeOK
  <1>2. ASSUME pc = "idle"
        PROVE  (Holds(BindRes \cup RingRes) /\ Lacks(ReqRes)) \/ Lacks(SyncResources)
    <2>1. Bound \/ Unbound
      BY <1>0, <1>2, RequestBound
    <2>2. CASE Bound
      <3>1. Base \subseteq SyncResources /\ ReqRes \subseteq SyncResources /\ ReqRes \cap Base = {}
        BY HeldBound
      <3>2. \A r \in SyncResources : (held[r] = 1 <=> r \in Base) /\ (held[r] = 0 <=> r \notin Base)
        BY <2>2, ExactCounts DEF Bound
      <3> QED
        BY <3>1, <3>2 DEF Holds, Lacks, Base
    <2>3. CASE Unbound
      <3>1. \A r \in SyncResources : held[r] = 0 <=> r \notin {}
        BY <2>3, ExactCounts DEF Unbound
      <3> QED
        BY <3>1 DEF Lacks
    <2> QED
      BY <2>1, <2>2, <2>3
  <1> QED
    BY <1>1, <1>2 DEF SyncNothingLeaks

\* A request that reports success has been carried out.
LEMMA InvDone ==
  ASSUME SyncInv
  PROVE  SuccessMeansDone
  <1>1. Data /\ drv \in {"blk", "scsi", "rng"}
    BY DEF SyncInv, Ledger
  <1>2. CASE drv = "blk"
    BY <1>1, <1>2 DEF Data, BlkData, SuccessMeansDone
  <1>3. CASE drv = "scsi"
    BY <1>1, <1>3 DEF Data, ScsiData, SuccessMeansDone
  <1>4. ASSUME drv = "rng", res = "ok", kickFails = 0 PROVE moved = pkt.in + pkt.out
    <2>1. moved = pkt.in /\ pkt.out = 0 /\ pkt.in \in Nat
      BY <1>1, <1>4 DEF Data, DataTypes, RngData, RngCount
    <2> QED
      BY <2>1
  <1> QED
    BY <1>1, <1>2, <1>3, <1>4 DEF SuccessMeansDone

\* The number of parts of a chain.
LEMMA FewParts ==
  ASSUME NEW S, NEW a, NEW b, NEW c
  PROVE  /\ S \subseteq {a, b, c} => Cardinality(S) \in Nat /\ Cardinality(S) <= 3
         /\ \A d : S \subseteq {a, b, c, d} => Cardinality(S) \in Nat /\ Cardinality(S) <= 4
  <1>1. IsFiniteSet({a}) /\ Cardinality({a}) = 1
    BY FS_Singleton
  <1>2. IsFiniteSet({a} \cup {b}) /\ Cardinality({a} \cup {b}) \in {1, 2}
    BY <1>1, FS_AddElement
  <1>3. IsFiniteSet(({a} \cup {b}) \cup {c}) /\ Cardinality(({a} \cup {b}) \cup {c}) \in {1, 2, 3}
    BY <1>2, FS_AddElement
  <1> DEFINE T == {a, b, c}
  <1>4. IsFiniteSet(T) /\ Cardinality(T) \in {1, 2, 3}
    <2>1. T = ({a} \cup {b}) \cup {c}
      OBVIOUS
    <2> QED
      BY <1>3, <2>1
  <1> HIDE DEF T
  <1>5. ASSUME S \subseteq T PROVE Cardinality(S) \in Nat /\ Cardinality(S) <= 3
    <2>1. IsFiniteSet(S) /\ Cardinality(S) <= Cardinality(T)
      BY <1>4, <1>5, FS_Subset
    <2>2. Cardinality(S) \in Nat
      BY <2>1, FS_CardinalityType
    <2> QED
      BY <1>4, <2>1, <2>2
  <1>6. ASSUME NEW d, S \subseteq T \cup {d} PROVE Cardinality(S) \in Nat /\ Cardinality(S) <= 4
    <2>1. IsFiniteSet(T \cup {d}) /\ Cardinality(T \cup {d}) \in {1, 2, 3, 4}
      BY <1>4, FS_AddElement
    <2>2. IsFiniteSet(S) /\ Cardinality(S) <= Cardinality(T \cup {d})
      BY <1>6, <2>1, FS_Subset
    <2>3. Cardinality(S) \in Nat
      BY <2>2, FS_CardinalityType
    <2> QED
      BY <2>1, <2>2, <2>3
  <1>7. \A d : {a, b, c, d} = T \cup {d}
    BY DEF T
  <1> QED
    BY <1>5, <1>6, <1>7 DEF T

\* A request is within the limits when its chain is published.
LEMMA InvLimits ==
  ASSUME SyncInv
  PROVE  WithinLimits
  <1> SUFFICES ASSUME pc = "FlushPublish" PROVE WithinLimits
    BY DEF WithinLimits
  <1>1. Data /\ drv \in {"blk", "scsi", "rng"} /\ QueueTypes /\ QueuePlace
    BY DEF SyncInv, Ledger, Queue
  <1>2. ring.size \in Nat /\ ring.size >= MinDescs
    <2>1. Sized
      BY DEF Sized, UpLabels, RequestLabels, FlushLabels
    <2> QED
      BY <1>1, <2>1, QueueSizesValid DEF QueueTypes, QueuePlace
  <1>3. pc \in FlushLabels
    BY DEF FlushLabels
  <1>5. CASE drv = "blk"
    <2>1. BlkData /\ MinDescs = 3
      BY <1>1, <1>5 DEF Data, MinDescs
    <2>2. Cardinality(desc.parts) \in Nat /\ Cardinality(desc.parts) <= 3
      <3>1. desc.parts \subseteq {"reqMap", "statusMap", "dataMap"}
        BY <1>3, <2>1 DEF BlkData
      <3> QED
        BY <3>1, FewParts
    <2>3. BlkChainOk(desc)
      BY <1>3, <2>1 DEF BlkData, BlkChainOk
    <2> QED
      BY <1>2, <1>5, <2>1, <2>2, <2>3 DEF WithinLimits
  <1>6. CASE drv = "scsi"
    <2>1. ScsiData /\ MinDescs = 4
      BY <1>1, <1>6 DEF Data, MinDescs
    <2>2. Cardinality(desc.parts) \in Nat /\ Cardinality(desc.parts) <= 4
      BY <1>3, <2>1, FewParts DEF ScsiData
    <2>3. ScsiChainOk(desc)
      BY <1>3, <2>1 DEF ScsiData, ScsiChainOk
    <2> QED
      BY <1>2, <1>6, <2>1, <2>2, <2>3 DEF WithinLimits
  <1>7. CASE drv = "rng"
    <2>1. RngData /\ MinDescs = 1
      BY <1>1, <1>7 DEF Data, MinDescs
    <2>2. Cardinality(desc.parts) = 1
      BY <1>3, <2>1, FS_Singleton DEF RngData
    <2>3. RngChainOk(desc)
      BY <1>3, <2>1 DEF RngData, RngChainOk
    <2> QED
      BY <1>2, <1>7, <2>1, <2>2, <2>3 DEF WithinLimits
  <1> QED
    BY <1>1, <1>5, <1>6, <1>7
\* Only a device that is up has DRIVER_OK, as long as setting it does not fail.
LEMMA OnlyThenStep ==
  ASSUME DriverOkMayFail = FALSE, Ledger, Ledger', Bringup, index \in Nat, OnlyThenRunning, [SyncNext]_syncVars
  PROVE  OnlyThenRunning'
  <1> DEFINE Early == (NoRingLabels \ {"AllocDev", "OpenVirtIo", "InitReset", "CloseVirtIo", "FreeDev"}) \cup SetupLabels
  <1>0. /\ Running => Up
        /\ pc \in Early => "DRIVER_OK" \notin nextStat
    BY DEF OnlyThenRunning
  <1>a. ASSUME Running' => Up', pc' \in Early => "DRIVER_OK" \notin nextStat' PROVE OnlyThenRunning'
    BY <1>a DEF OnlyThenRunning
  <1>b. ASSUME Up', pc' \notin Early PROVE OnlyThenRunning'
    BY <1>a, <1>b
  <1>c. ASSUME ~Running', pc' \notin Early PROVE OnlyThenRunning'
    BY <1>a, <1>c
  <1>d. \A l \in UpLabels \cup {"idle", "UninitRing", "AllocDev", "OpenVirtIo", "InitReset", "CloseVirtIo", "FreeDev"} :
          l \notin Early
    BY DEF UpLabels, NoRingLabels, SetupLabels, RequestLabels, BeforeSubmit, FlushLabels, Cleanup
  <1>e. \A l \in NoRingLabels \cup SetupLabels \cup {"UninitRing"} : l \notin UpLabels /\ l # "idle"
    BY LabelClasses
  <1>f. pc \in NoRingLabels \cup SetupLabels \cup {"UninitRing"} => ~Running
    BY <1>0, <1>e DEF Up
  <1>1. CASE Start
    <2>1. pc = "idle" /\ held["virtIo"] = 0 /\ pc' = "AllocDev" /\ devStatus' = devStatus
      BY <1>1 DEF Start
    <2>2. ~Bound
      BY <2>1, HeldBound
    <2>3. ~Up
      BY <2>1, <2>2, LabelClasses DEF Up
    <2> QED
      BY <1>0, <1>c, <1>d, <2>1, <2>3 DEF Running
  <1>2. CASE Stop
    <2>1. pc' = "CloseExitBoot"
      BY <1>2 DEF Stop
    <2> QED
      BY <1>b, <1>d, <2>1 DEF Up, UpLabels
  <1>3. CASE CallMove
    <2>1. pc' \in RequestLabels \/ (pc' = "idle" /\ Bound' /\ ~exited')
      BY <1>3 DEF CallMove, Bound, confVars, RequestLabels, BeforeSubmit
    <2> QED
      BY <1>b, <1>d, <2>1, LabelClasses DEF Up
  <1>4. CASE RequestStep
    <2>1. pc \in RequestLabels /\ (pc' \in RequestLabels \/ (pc' = "idle" /\ Bound'))
      BY <1>4, RequestStays
    <2>2. exited' = exited /\ ~exited
      BY <1>4, <2>1, LabelClasses DEF RequestStep, BindingKept, confVars, Bringup
    <2> QED
      BY <1>b, <1>d, <2>1, <2>2, LabelClasses DEF Up
  <1>5. CASE InitStep
    <2>0. PICK after \in {"InitDriverOk", "CfgWrite"} : InitSteps(MinDescs, after)
      BY <1>5 DEF InitStep
    <2>1. ASSUME pc \in NoRingLabels \cup SetupLabels, UNCHANGED <<devStatus, nextStat>>, pc \in Early \/ pc' \notin Early
          PROVE  OnlyThenRunning'
      BY <1>0, <1>a, <1>f, <2>1 DEF Running
    <2>2. ASSUME pc \in Early, NEW bit, bit # "DRIVER_OK", nextStat' = nextStat \cup {bit}, devStatus' \in {nextStat', devStatus}
          PROVE  OnlyThenRunning'
      <3>1. pc \in NoRingLabels \cup SetupLabels
        BY <2>2
      <3>2. "DRIVER_OK" \notin nextStat' /\ ~Running
        BY <1>0, <1>f, <2>2, <3>1
      <3>3. ~Running'
        BY <2>2, <3>2 DEF Running
      <3> QED
        BY <1>a, <3>2, <3>3
    <2>3. CASE QueueSel(MinDescs)
      BY <2>1, <2>3 DEF QueueSel, NoRingLabels
    <2>4. CASE InitReset
      <3>1. nextStat' = {} /\ devStatus' \in {{}, devStatus} /\ pc \in NoRingLabels
        BY <2>4 DEF InitReset, NoRingLabels
      <3>2. ~Running'
        BY <1>f, <3>1 DEF Running
      <3> QED
        BY <1>a, <3>1, <3>2
    <2>5. CASE SetNext("InitAck", "InitDriver", "Failed", "ACK", TRUE)
      BY <2>2, <2>5 DEF SetNext, NoRingLabels
    <2>6. CASE SetNext("InitDriver", "InitConfig", "Failed", "DRIVER", TRUE)
      BY <2>2, <2>6 DEF SetNext, NoRingLabels
    <2>7. CASE SetNext("FeaturesOk", "FeaturesCheck", "Failed", "FEATURES_OK", TRUE)
      BY <2>2, <2>7 DEF SetNext, NoRingLabels
    <2>8. CASE FeaturesCheck
      <3>1. /\ pc \in NoRingLabels /\ pc \in Early /\ (devStatus' = devStatus \/ devStatus' = devStatus \ {"FEATURES_OK"})
            /\ nextStat' \in {devStatus, devStatus', nextStat}
        BY <2>8 DEF FeaturesCheck, NoRingLabels
      <3>2. ~Running /\ ~Running' /\ "DRIVER_OK" \notin nextStat
        BY <1>0, <1>f, <3>1 DEF Running
      <3> QED
        BY <1>a, <3>1, <3>2 DEF Running
    <2>9. CASE SetNext("InitDriverOk", "CreateExitBoot", "UnmapQueue", "DRIVER_OK", DriverOkMayFail)
      <3>1. pc' = "CreateExitBoot"
        BY <2>9 DEF SetNext
      <3> QED
        BY <1>b, <1>d, <3>1 DEF Up, UpLabels
    <2>10. CASE InitFailed
      BY <2>2, <2>10 DEF InitFailed, NoRingLabels
    <2>11. CASE /\ \/ Try("RingInit", "RingMap", "Failed", {"ring"})
                   \/ Try("RingMap", "QueueAddress", "ReleaseQueue", {"ringMap"})
                   \/ Try("QueueAddress", IF modern THEN after ELSE "GuestFeatures", "UnmapQueue", {})
                   \/ Try("GuestFeatures", after, "UnmapQueue", {})
                   \/ Undo("UnmapQueue", "ReleaseQueue", {"ringMap"})
                   \/ Undo("ReleaseQueue", "Failed", {"ring"})
                /\ UNCHANGED nextStat
      <3>1. /\ pc \in {"RingInit", "RingMap", "QueueAddress", "GuestFeatures", "UnmapQueue", "ReleaseQueue"}
            /\ UNCHANGED <<devStatus, nextStat>>
        BY <2>11 DEF Try, Undo
      <3>2. pc \in Early
        BY <3>1 DEF NoRingLabels, SetupLabels
      <3> QED
        BY <2>1, <3>1, <3>2
    <2> QED
      BY <2>0, <2>3, <2>4, <2>5, <2>6, <2>7, <2>8, <2>9, <2>10, <2>11 DEF InitSteps
  <1>6. CASE ConfigStep \/ CfgWriteStep
    <2>1. UNCHANGED <<devStatus, nextStat>> /\ pc \in {"InitConfig", "CfgWrite"}
      BY <1>6 DEF ConfigStep, InitConfig, CfgWriteStep, Try, MemoryStep
    <2>2. pc \in Early /\ pc \in NoRingLabels \cup SetupLabels
      BY <2>1 DEF NoRingLabels, SetupLabels
    <2> QED
      BY <1>0, <1>a, <1>f, <2>1, <2>2 DEF Running
  <1>7. CASE BindingStep
    <2>1. devStatus' = devStatus \/ devStatus' = {}
      BY <1>7 DEF BindingStep, StartSteps, UninitSteps, Try, Undo, WriteStatus
    <2>2. CASE NoRingMove
      <3>1. pc \in NoRingLabels /\ pc' \in {"OpenVirtIo", "InitReset", "FreeDev", "idle"}
        BY <2>2 DEF NoRingMove
      <3>2. ~Running'
        BY <1>f, <2>1, <3>1 DEF Running
      <3> QED
        BY <1>c, <1>d, <3>1, <3>2
    <2>3. CASE UpMove
      <3>1. pc' \in {"Install", "CloseExitBoot", "UninitReset"} \/ (pc' = "idle" /\ Bound')
        BY <2>3 DEF UpMove
      <3>2. exited' = exited /\ ~exited
        BY <1>7, <2>3 DEF UpMove, BindingStep, confVars, Bringup
      <3> QED
        BY <1>b, <1>d, <3>1, <3>2 DEF Up, UpLabels
    <2>4. CASE ResetMove \/ FreeMove
      <3>1. pc' \in {"UninitRing", "CloseVirtIo"} /\ pc \in {"UninitReset", "UninitRing"}
        BY <2>4 DEF ResetMove, FreeMove
      <3>2. pc = "UninitReset" => devStatus' = {}
        BY <1>7 DEF BindingStep, StartSteps, UninitSteps, Try, Undo, WriteStatus
      <3>3. ~Running'
        BY <1>f, <2>1, <3>1, <3>2 DEF Running
      <3> QED
        BY <1>c, <1>d, <3>1, <3>3
    <2> QED
      BY <1>7, <2>2, <2>3, <2>4, BindingMoves
  <1>8. CASE HostStep \/ UNCHANGED syncVars
    <2>1. UNCHANGED <<pc, devStatus, held, nextStat, exited>>
      BY <1>8 DEF HostStep, HostWorks, HostLooks, BlkHost, ScsiHost, RngHost, HostCompletes, HostFrame, confVars, syncVars
    <2> QED
      BY <1>0, <1>a, <2>1 DEF Running, Up, Bound
  <1>9. CASE ExitBootCallback
    <2>1. pc = "idle" /\ pc' = "idle" /\ devStatus' = IF held["exitBoot"] = 1 THEN {} ELSE devStatus
      BY <1>9 DEF ExitBootCallback
    <2>2. held["exitBoot"] # 1 => ~Up
      BY <2>1, HeldBound, LabelClasses DEF Up
    <2>3. ~Running'
      BY <1>0, <2>1, <2>2 DEF Running
    <2> QED
      BY <1>c, <1>d, <2>1, <2>3
  <1> QED
    BY <1>1, <1>2, <1>3, <1>4, <1>5, <1>6, <1>7, <1>8, <1>9, Kinds

\* A device that is up has a ring.
LEMMA UpBacked ==
  ASSUME Ledger, Bringup, Up
  PROVE  Holds(RingRes) /\ ~exited
  <1>1. ~exited
    BY LabelClasses DEF Up, Bringup
  <1>2. held["ring"] = 1
    BY RingAt DEF Up
  <1>3. held["ringMap"] = 1
    <2>1. CASE pc \in RequestLabels
      BY <2>1, RequestBound
    <2>2. CASE pc = "idle" /\ Bound
      <3>1. "ringMap" \in Base /\ "ringMap" \in SyncResources
        BY HeldBound
      <3> QED
        BY <2>2, <3>1, ExactCounts DEF Bound
    <2>3. CASE pc \in {"CreateExitBoot", "Install", "CloseExitBoot", "UninitReset"}
      <3>1. BindingHeld(pc, held)
        BY <2>3, HeldBinding DEF BindingLabels, MapLabels, EventLabels
      <3>2. \E S : Exact(held, S) /\ "ringMap" \in S
        BY <2>3, <3>1 DEF BindingHeld, DevLabels, OpenLabels, RingLabels, MapLabels, EventLabels
      <3>3. "ringMap" \in SyncResources
        BY HeldBound
      <3> QED
        BY <3>2, <3>3, ExactCounts
    <2> QED
      BY <2>1, <2>2, <2>3 DEF Up, UpLabels
  <1> QED
    BY <1>1, <1>2, <1>3 DEF Holds, RingRes

(***************************************************************************)
(* Between calls a driver of any of the three kinds holds its ring and its *)
(* protocols and nothing of any request, or nothing at all; no error path  *)
(* of Start, Init, Stop or of a request releases what is not held.         *)
(***************************************************************************)
THEOREM SyncLedgerBalances == SyncSpec => []SyncNothingLeaks
  <1>1. SyncInv => SyncNothingLeaks
    BY InvLeaks
  <1> QED
    BY <1>1, SyncInvariant, PTL

(***************************************************************************)
(* VirtioFlush keeps the host in lock-step: as long as no notification has *)
(* failed there is one chain in flight at most, it belongs to the request  *)
(* that is polling for it, and what it points to is mapped.                *)
(***************************************************************************)
THEOREM FlushIsLockStep == SyncSpec => []LockStep
  <1>1. SyncInv => LockStep
    BY LockStepHolds DEF SyncInv
  <1> QED
    BY <1>1, SyncInvariant, PTL

(***************************************************************************)
(* A request that returns success has been carried out by the host, as far *)
(* as the lengths reported say: SynchronousRequest and ParseResponse do    *)
(* not take the answer to an earlier chain for theirs, and the residual is *)
(* accounted for without wrap-around.                                      *)
(***************************************************************************)
THEOREM SuccessIsEarned == SyncSpec => []SuccessMeansDone
  <1>1. SyncInv => SuccessMeansDone
    BY InvDone
  <1> QED
    BY <1>1, SyncInvariant, PTL

(***************************************************************************)
(* Every chain that is published fits the descriptor table and is within   *)
(* the limits that VerifyReadWriteRequest, PopulateRequest and the loop of *)
(* GetRNG are there for, for every disk, every max_sectors and every       *)
(* UINT32 length, wrap-around included.                                    *)
(***************************************************************************)
THEOREM RequestsWithinLimits == SyncSpec => []WithinLimits
  <1>1. SyncInv => WithinLimits
    BY InvLimits
  <1> QED
    BY <1>1, SyncInvariant, PTL

(***************************************************************************)
(* A device that may use the ring has one, mapped, and firmware to own it, *)
(* as long as the write that sets DRIVER_OK does not fail.                 *)
(***************************************************************************)
THEOREM RunningHasRing ==
  ASSUME DriverOkMayFail = FALSE
  PROVE  SyncSpec => []RingBacksDevice
  <1>1. SyncInit => SyncInv /\ OnlyThenRunning
    <2>1. SyncInit => OnlyThenRunning
      BY DEF SyncInit, OnlyThenRunning, Running
    <2> QED
      BY <2>1, InvInit
  <1>2. SyncInv /\ OnlyThenRunning /\ [SyncNext]_syncVars => (SyncInv /\ OnlyThenRunning)'
    <2> SUFFICES ASSUME SyncInv, OnlyThenRunning, [SyncNext]_syncVars PROVE SyncInv' /\ OnlyThenRunning'
      OBVIOUS
    <2>1. SyncInv'
      BY InvStep
    <2>2. Ledger /\ Ledger' /\ Bringup /\ index \in Nat
      BY <2>1 DEF SyncInv, Data, DataTypes
    <2> QED
      BY <2>1, <2>2, OnlyThenStep
  <1>3. SyncInv /\ OnlyThenRunning => RingBacksDevice
    BY UpBacked DEF SyncInv, OnlyThenRunning, RingBacksDevice
  <1> QED
    BY <1>1, <1>2, <1>3, PTL DEF SyncSpec
=============================================================================
