--------------------------- MODULE VirtioTransport ---------------------------
(***************************************************************************)
(* The two PCI transports of VIRTIO_DEVICE_PROTOCOL: Virtio10Dxe (register *)
(* blocks found through vendor capabilities) and VirtioPciDeviceDxe (one   *)
(* I/O BAR, virtio-0.9.5).                                                 *)
(*                                                                         *)
(* A member function is the sequence of register accesses it makes.  Each  *)
(* access is a step and may fail, and a failing one ends the call with its *)
(* error, leaving in the device what has been written so far.              *)
(***************************************************************************)
EXTENDS Integers, Sequences

CONSTANTS
  VQueues,     \* the queue indices
  VRings,      \* rings (their page numbers) a driver may set
  VLengths,    \* lengths of the register blocks that devices have
  Unknown,     \* a model value: not known from the calls made
  VCapLists,   \* the vendor capability lists of the devices considered
  MaxVCalls    \* bound: member function calls in a behaviour

ASSUME VTransportAssumption ==
  /\ VQueues \subseteq Nat /\ VLengths \subseteq Nat /\ MaxVCalls \in Nat
  /\ Unknown \notin VQueues \cup VRings \cup {0, 1}
  /\ VCapLists \subseteq Seq([type : {"common", "notify", "specific", "other"},
                              len : {"short", "base", "full"},
                              bar : {"mem", "io", "bad"}, length : VLengths, mult : Nat])

VARIABLES
  vCaps,    \* the capability list of the device
  vInst,    \* ParseCapabilities: VendorInstance; -1 before, Len(vCaps) when done
  vBlock,   \* Device->CommonConfig, NotifyConfig, SpecificConfig
  vMult,    \* Device->NotifyOffsetMultiplier
  vAttr,    \* SetAttributes, the BAR types that decoding is enabled for
  vKind,    \* "v10" or "pci" once the transport is bound
  vReg,     \* the device's registers
  vTodo,    \* the accesses that the running member function has left
  vTemp,    \* what it has read: SavedQueueSelect, NotifyOffset, CurrentSize
  vCall,    \* the member function that is running
  vAsked,   \* what the driver has asked for, where the calls have succeeded
  vCalls    \* how many calls there have been

vVars == <<vCaps, vInst, vBlock, vMult, vAttr, vKind, vReg, vTodo, vTemp, vCall, vAsked, vCalls>>

NoBlock == [exists |-> FALSE, bar |-> "bad", len |-> 0]
NoVCall == [op |-> "none", arg |-> 0]

\* The registers of a device that has been reset.
ResetRegisters ==
  [sel |-> 0, status |-> 0, fsel |-> 0, feat |-> <<0, 0>>,
   ring |-> [q \in VQueues |-> <<0, 0, 0, 0>>], bells |-> {}]

VInit ==
  /\ vCaps = << >> /\ vInst = -1
  /\ vBlock = [b \in {"common", "notify", "specific"} |-> NoBlock]
  /\ vMult = 0 /\ vAttr = {} /\ vKind = "none"
  /\ vReg = ResetRegisters
  /\ vTodo = << >> /\ vTemp = [sel |-> 0, off |-> 0]
  /\ vCall = NoVCall
  /\ vAsked = [sel |-> Unknown, status |-> Unknown, feat |-> Unknown,
               ring |-> [q \in VQueues |-> Unknown]]
  /\ vCalls = 0

-----------------------------------------------------------------------------
(* Virtio10: ParseCapabilities, one capability per step.                   *)

\* A device of either generation; VirtioPciInit needs no capabilities.
VProbe ==
  /\ vInst = -1
  /\ \/ vKind' = "v10" /\ vCaps' \in VCapLists /\ vInst' = 0
     \/ vKind' = "pci" /\ vCaps' = << >> /\ vInst' = 0
  /\ UNCHANGED <<vBlock, vMult, vAttr, vReg, vTodo, vTemp, vCall, vAsked, vCalls>>

\* EFI_PCI_IO_PROTOCOL.GetBarAttributes, the descriptor's resource type.
GetBarType(cap) == IF cap.bar = "bad" THEN "unsupported" ELSE cap.bar

\* ParsedConfig after the capability; a notify capability without room for
\* the multiplier leaves Exists as it was.
ParsedBlock(cap) ==
  [exists |-> vBlock[cap.type].exists \/ cap.type # "notify" \/ cap.len = "full",
   bar |-> GetBarType(cap), len |-> cap.length]

Interesting(cap) == cap.len # "short" /\ cap.type # "other"

\* One pass of the loop; a failing PciCapRead or GetBarType ends the binding.
ParseCapabilities ==
  /\ vKind = "v10" /\ vInst \in 0 .. Len(vCaps) - 1
  /\ LET cap == vCaps[vInst + 1]
     IN  \/ /\ ~Interesting(cap)
            /\ vInst' = vInst + 1
            /\ UNCHANGED <<vBlock, vMult, vKind>>
         \/ /\ Interesting(cap) /\ GetBarType(cap) # "unsupported"
            /\ vInst' = vInst + 1
            /\ vBlock' = [vBlock EXCEPT ![cap.type] = ParsedBlock(cap)]
            /\ vMult' = IF cap.type = "notify" /\ cap.len = "full" THEN cap.mult ELSE vMult
            /\ vKind' = vKind
         \/ /\ vKind' = "failed"
            /\ UNCHANGED <<vInst, vBlock, vMult>>
  /\ UNCHANGED <<vCaps, vAttr, vReg, vTodo, vTemp, vCall, vAsked, vCalls>>

\* UpdateAttributes for the three blocks, then PciIo->Attributes (Enable).
UpdateAttributes == {vBlock[b].bar : b \in {c \in DOMAIN vBlock : vBlock[c].exists}}

VEnable ==
  /\ vKind \in {"v10", "pci"} /\ vInst = Len(vCaps)
  /\ vInst' = Len(vCaps) + 1
  /\ vAttr' = IF vKind = "v10" THEN UpdateAttributes ELSE {"io"}
  /\ UNCHANGED <<vCaps, vBlock, vMult, vKind, vReg, vTodo, vTemp, vCall, vAsked, vCalls>>

-----------------------------------------------------------------------------
(* Register accesses.  Offsets and sizes are those of VIRTIO_PCI_COMMON_CFG.*)

CommonCfg == [DeviceFeatureSelect |-> <<0, 4>>, DeviceFeature |-> <<4, 4>>,
              DriverFeatureSelect |-> <<8, 4>>, DriverFeature |-> <<12, 4>>,
              DeviceStatus |-> <<20, 1>>, QueueSelect |-> <<22, 2>>,
              QueueSize |-> <<24, 2>>, QueueEnable |-> <<28, 2>>,
              QueueNotifyOff |-> <<30, 2>>, QueueDesc |-> <<32, 8>>,
              QueueAvail |-> <<40, 8>>, QueueUsed |-> <<48, 8>>]

Acc(blk, reg, do, val) == [blk |-> blk, reg |-> reg, do |-> do, val |-> val, size |-> 0]
Wr(reg, val) == Acc("common", reg, "write", val)
Rd(reg)      == Acc("common", reg, "read", 0)

FieldSizes == {1, 2, 4, 8}

\* Virtio10Transfer's checks: the block exists and holds the whole field.
Virtio10Transfer(blk, off, size) ==
  /\ vBlock[blk].exists
  /\ size <= vBlock[blk].len
  /\ off <= vBlock[blk].len - size
  /\ size \in FieldSizes

\* The doorbell of queue q as the device defines it.
NotifyOff(q) == q

\* Whether the access is made at all.
Reaches(a) ==
  CASE a.blk = "io"       -> a.size \in FieldSizes
    [] a.blk = "common"   -> Virtio10Transfer("common", CommonCfg[a.reg][1], CommonCfg[a.reg][2])
    [] a.blk = "notify"   -> Virtio10Transfer("notify", vTemp.off * vMult, 2)
    [] a.blk = "specific" -> Virtio10Transfer("specific", a.reg[1], a.reg[2])

RingPart == [QueueDesc |-> 1, QueueAvail |-> 2, QueueUsed |-> 3, QueueEnable |-> 4]

(***************************************************************************)
(* What the device does on an access (external): a status of zero resets   *)
(* it; a "restore" writes SavedQueueSelect.                                *)
(***************************************************************************)
DeviceDoes(a) ==
  IF a.blk = "specific" \/ a.do = "read" THEN vReg
  ELSE CASE a.blk = "notify" -> [vReg EXCEPT !.bells = @ \cup {<<a.val, vTemp.off>>}]
         [] a.reg = "QueueNotify" -> [vReg EXCEPT !.bells = @ \cup {<<a.val, NotifyOff(a.val)>>}]
         [] a.reg = "QueueSelect" -> [vReg EXCEPT !.sel = IF a.do = "restore" THEN vTemp.sel ELSE a.val]
         [] a.reg = "DeviceStatus" -> IF a.val = 0 THEN ResetRegisters ELSE [vReg EXCEPT !.status = a.val]
         [] a.reg = "DriverFeatureSelect" -> [vReg EXCEPT !.fsel = a.val]
         [] a.reg = "DriverFeature" -> [vReg EXCEPT !.feat[vReg.fsel + 1] = a.val]
         [] a.reg \in DOMAIN RingPart -> [vReg EXCEPT !.ring[vReg.sel][RingPart[a.reg]] = a.val]
         [] a.reg = "QueueAddress" -> [vReg EXCEPT !.ring[vReg.sel] = <<a.val, a.val, a.val, 1>>]
         [] OTHER -> vReg

\* What the driver keeps of a read.
Keeps(a) ==
  CASE a.blk # "common"           -> vTemp
    [] a = Rd("QueueSelect")    -> [vTemp EXCEPT !.sel = vReg.sel]
    [] a = Rd("QueueNotifyOff") -> [vTemp EXCEPT !.off = NotifyOff(vReg.sel)]
    [] OTHER -> vTemp

-----------------------------------------------------------------------------
(* The member functions: Virtio10.c.                                       *)

Virtio10GetDeviceFeatures ==
  <<Wr("DeviceFeatureSelect", 0), Rd("DeviceFeature"),
    Wr("DeviceFeatureSelect", 1), Rd("DeviceFeature")>>

Virtio10SetGuestFeatures(f) ==
  <<Wr("DriverFeatureSelect", 0), Wr("DriverFeature", f[1]),
    Wr("DriverFeatureSelect", 1), Wr("DriverFeature", f[2])>>

Virtio10SetQueueAddress(r) ==
  <<Wr("QueueDesc", r), Wr("QueueAvail", r), Wr("QueueUsed", r), Wr("QueueEnable", 1)>>

Virtio10SetQueueSel(q) == <<Wr("QueueSelect", q)>>

\* Mutant: the original queue is not selected again.
Virtio10SetQueueNotify_NoRestore(q) ==
  <<Rd("QueueSelect"), Wr("QueueSelect", q), Rd("QueueNotifyOff"), Acc("notify", "bell", "write", q)>>

Virtio10SetQueueNotify(q) ==
  <<Rd("QueueSelect"), Wr("QueueSelect", q), Rd("QueueNotifyOff"),
    Acc("common", "QueueSelect", "restore", 0), Acc("notify", "bell", "write", q)>>

Virtio10GetQueueNumMax == <<Rd("QueueSize")>>

\* SetQueueNum only compares with the size in effect.
Virtio10SetQueueNum == Virtio10GetQueueNumMax

Virtio10GetDeviceStatus    == <<Rd("DeviceStatus")>>
Virtio10SetDeviceStatus(s) == <<Wr("DeviceStatus", s)>>

\* A field of the device-specific block.
Virtio10WriteDevice(f) == <<Acc("specific", f, "write", 0)>>
Virtio10ReadDevice(f)  == <<Acc("specific", f, "read", 0)>>

(* VirtioPciFunctions.c: one access of the I/O BAR each, an 8-byte field in *)
(* two halves; the queue address is a page number.                         *)

VirtioPciIoRead(reg, size) == [blk |-> "io", reg |-> reg, do |-> "read", val |-> 0, size |-> size]
VirtioPciIoWrite(reg, size, val) == [blk |-> "io", reg |-> reg, do |-> "write", val |-> val, size |-> size]

VirtioPciDeviceRead(f)  == <<VirtioPciIoRead("field", f[2])>>
VirtioPciDeviceWrite(f) == <<VirtioPciIoWrite("field", f[2], 0)>>
VirtioPciGetDeviceFeatures == <<VirtioPciIoRead("DeviceFeature", 4)>>
VirtioPciGetQueueSize      == <<VirtioPciIoRead("QueueSize", 2)>>
VirtioPciGetDeviceStatus   == <<VirtioPciIoRead("DeviceStatus", 1)>>
VirtioPciSetGuestFeatures(f) == <<VirtioPciIoWrite("DriverFeature", 4, f[1])>>
VirtioPciSetQueueAddress(r)  == <<VirtioPciIoWrite("QueueAddress", 4, r)>>
VirtioPciSetQueueSel(q)      == <<VirtioPciIoWrite("QueueSelect", 2, q)>>
VirtioPciSetQueueNotify(q)   == <<VirtioPciIoWrite("QueueNotify", 2, q)>>
VirtioPciSetDeviceStatus(st) == <<VirtioPciIoWrite("DeviceStatus", 1, st)>>

-----------------------------------------------------------------------------
VIdle == vInst = Len(vCaps) + 1 /\ vKind \in {"v10", "pci"} /\ vCall = NoVCall

\* A driver calls a member function that makes the accesses `list'.
Calls(op, arg, list) ==
  /\ VIdle /\ vCalls < MaxVCalls
  /\ vCalls' = vCalls + 1
  /\ vCall' = [op |-> op, arg |-> arg]
  /\ vTodo' = list
  /\ UNCHANGED <<vCaps, vInst, vBlock, vMult, vAttr, vKind, vReg, vTemp, vAsked>>

VFeatures == {<<1, 0>>, <<1, 1>>}
VFields   == {<<0, 2>>, <<0, 8>>, <<6, 4>>, <<0, 3>>}

Virtio10Members ==
  /\ vKind = "v10"
  /\ \/ \E q \in VQueues : \/ Calls("sel", q, Virtio10SetQueueSel(q))
                            \/ Calls("notify", q, Virtio10SetQueueNotify(q))
     \/ \E r \in VRings : Calls("ring", r, Virtio10SetQueueAddress(r))
     \/ \E st \in {0, 1} : Calls("status", st, Virtio10SetDeviceStatus(st))
     \/ \E f \in VFeatures : Calls("feat", f, Virtio10SetGuestFeatures(f))
     \/ \E f \in VFields : \/ Calls("get", 0, Virtio10ReadDevice(f))
                           \/ Calls("get", 0, Virtio10WriteDevice(f))
     \/ \E l \in {Virtio10GetDeviceFeatures, Virtio10GetQueueNumMax, Virtio10SetQueueNum,
                  Virtio10GetDeviceStatus} : Calls("get", 0, l)

\* Features beyond 32 bits are EFI_UNSUPPORTED.
VirtioPciMembers ==
  /\ vKind = "pci"
  /\ \/ \E q \in VQueues : \/ Calls("sel", q, VirtioPciSetQueueSel(q))
                            \/ Calls("notify", q, VirtioPciSetQueueNotify(q))
     \/ \E r \in VRings : Calls("ring", r, VirtioPciSetQueueAddress(r))
     \/ \E st \in {0, 1} : Calls("status", st, VirtioPciSetDeviceStatus(st))
     \/ \E f \in VFeatures : f[2] = 0 /\ Calls("feat", f, VirtioPciSetGuestFeatures(f))
     \/ \E f \in VFields : \/ Calls("get", 0, VirtioPciDeviceRead(f))
                           \/ Calls("get", 0, VirtioPciDeviceWrite(f))
     \/ \E l \in {VirtioPciGetDeviceFeatures, VirtioPciGetQueueSize, VirtioPciGetDeviceStatus} :
          Calls("get", 0, l)

\* A successful call makes what it sets known; a failed one makes it unknown.
Asked(val) ==
  CASE vCall.op = "sel"    -> [vAsked EXCEPT !.sel = val]
    [] vCall.op = "feat"   -> [vAsked EXCEPT !.feat = val]
    [] vCall.op = "ring"   -> IF vAsked.sel = Unknown
                              THEN [vAsked EXCEPT !.ring = [q \in VQueues |-> Unknown]]
                              ELSE [vAsked EXCEPT !.ring[vAsked.sel] = val]
    [] vCall.op = "status" ->
         IF val = 0 THEN [sel |-> 0, status |-> 0, feat |-> <<0, 0>>,
                          ring |-> [q \in VQueues |-> 0]]
         ELSE [vAsked EXCEPT !.status = val]
    [] vCall.op = "notify" /\ val = Unknown -> [vAsked EXCEPT !.sel = Unknown]
    [] OTHER -> vAsked

VAccess ==
  /\ vTodo # << >> /\ Reaches(Head(vTodo))
  /\ vReg' = DeviceDoes(Head(vTodo))
  /\ vTemp' = Keeps(Head(vTodo))
  /\ vTodo' = Tail(vTodo)
  /\ IF Len(vTodo) = 1 THEN vCall' = NoVCall /\ vAsked' = Asked(vCall.arg)
                       ELSE UNCHANGED <<vCall, vAsked>>
  /\ UNCHANGED <<vCaps, vInst, vBlock, vMult, vAttr, vKind, vCalls>>

\* The access is refused, or PciIo reports an error.
VAccessFails ==
  /\ vTodo # << >>
  /\ vTodo' = << >>
  /\ vCall' = NoVCall
  /\ vAsked' = Asked(Unknown)
  /\ UNCHANGED <<vCaps, vInst, vBlock, vMult, vAttr, vKind, vReg, vTemp, vCalls>>

VNext == VProbe \/ ParseCapabilities \/ VEnable \/ Virtio10Members \/ VirtioPciMembers \/ VAccess \/ VAccessFails

VSpec == VInit /\ [][VNext]_vVars

-----------------------------------------------------------------------------
\* A register block in use was described by the device in full: the last
\* capability of its type says where it is, decoding is enabled for its BAR,
\* and the notify block comes with a multiplier.
BlocksAreUsable ==
  VIdle /\ vKind = "v10" =>
    \A b \in DOMAIN vBlock : vBlock[b].exists =>
      /\ vBlock[b].bar \in vAttr
      /\ \E i \in DOMAIN vCaps :
           /\ vCaps[i].type = b /\ vCaps[i].bar = vBlock[b].bar
           /\ vCaps[i].length = vBlock[b].len
           /\ \A j \in i + 1 .. Len(vCaps) : ~(Interesting(vCaps[j]) /\ vCaps[j].type = b)
      /\ b = "notify" => \E i \in DOMAIN vCaps :
           vCaps[i].type = b /\ vCaps[i].len = "full" /\ vCaps[i].mult = vMult

(***************************************************************************)
(* Whatever was set by a call that succeeded is what the device has: the   *)
(* ring of each queue in full and enabled, although the notification of a  *)
(* queue goes through the same queue selector; both halves of the          *)
(* features; the status.  Every doorbell rung is that of the queue named.  *)
(* The register blocks it goes through are those the device described.     *)
(***************************************************************************)
DeviceAsAsked ==
  VIdle =>
    /\ vAsked.sel    \in {Unknown, vReg.sel}
    /\ vAsked.status \in {Unknown, vReg.status}
    /\ vAsked.feat   \in {Unknown, vReg.feat}
    /\ \A q \in VQueues : vAsked.ring[q] \notin {Unknown, 0} =>
         vReg.ring[q] = <<vAsked.ring[q], vAsked.ring[q], vAsked.ring[q], 1>>
    /\ \A b \in vReg.bells : b[2] = NotifyOff(b[1])
    /\ BlocksAreUsable
=============================================================================
