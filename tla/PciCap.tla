-------------------------------- MODULE PciCap --------------------------------
(***************************************************************************)
(* BasePciCapLib: parse the two capability lists of a PCI device into a    *)
(* collection ordered by (domain, id, instance), and access a capability   *)
(* within the size hint that the parser derives from its neighbours.       *)
(*                                                                         *)
(* The device answers each read of a header as it likes, or the read       *)
(* fails; every header offset is read at most once by a parse that goes    *)
(* on, so this covers every contents of the configuration space.           *)
(***************************************************************************)
EXTENDS Integers, FiniteSets, FiniteSetsExt

CONSTANTS
  NormalPtrs,   \* raw next pointers (8 bits) a conventional header may hold
  ExtPtrs,      \* raw next pointers (12 bits) an extended header may hold
  CapIds,       \* capability ids; PCIEXP is one of them
  PCIEXP,       \* PCI_CAPABILITY_ID_PCIEXP
  CapVersions,  \* versions of extended capabilities
  AccessSizes   \* offsets and sizes a driver passes to PciCapRead

ASSUME PciCapAssumption ==
  /\ NormalPtrs \subseteq 0 .. 255 /\ ExtPtrs \subseteq 0 .. 4095
  /\ PCIEXP \in CapIds /\ CapVersions \subseteq Nat /\ AccessSizes \subseteq Nat

VARIABLES
  pcAt,      \* the loop that runs: "idle", "normal", "ext", "ok", "err"
  pcOff,     \* NormalCapHdrOffset or ExtendedCapHdrOffset
  pcExpress, \* DeviceIsExpress
  pcCaps,    \* CapList->Capabilities, by <<domain, id, instance>>
  pcRead     \* the range of bytes that the last PciCapRead has read

pcVars == <<pcAt, pcOff, pcExpress, pcCaps, pcRead>>

PCI_MAX_CONFIG_OFFSET     == 256
PCI_EXP_MAX_CONFIG_OFFSET == 4096
ConfigSpaceSize(dom) == IF dom = "normal" THEN PCI_MAX_CONFIG_OFFSET ELSE PCI_EXP_MAX_CONFIG_OFFSET

NoCaps == [k \in {} |-> 0]
NoRead == [from |-> 0, to |-> 0]

PcInit ==
  pcAt = "idle" /\ pcOff = 0 /\ pcExpress = FALSE /\ pcCaps = NoCaps /\ pcRead = NoRead

\* The low two bits of a pointer are reserved: & 0xFC, & 0xFFC.
Masked(ptr) == (ptr \div 4) * 4

-----------------------------------------------------------------------------
(* PciCapListInit.                                                         *)

\* Status register and first pointer; a failing read ends in err.
PcStart ==
  /\ pcAt \in {"idle", "ok", "err"}
  /\ pcCaps' = NoCaps /\ pcRead' = NoRead /\ pcExpress' = FALSE
  /\ \/ pcAt' = "err" /\ pcOff' = 0
     \/ pcAt' = "normal" /\ pcOff' \in {Masked(p) : p \in NormalPtrs}

Offsets == {pcCaps[k].off : k \in DOMAIN pcCaps}

\* Mutant: the instance number is taken without counting the new instance.
InsertPciCap_NoCount(dom, id, off, ver) ==
  LET zero == <<dom, id, 0>>
      inst == IF zero \in DOMAIN pcCaps THEN pcCaps[zero].num ELSE 0
      new  == [off |-> off, ver |-> ver, num |-> 1, hint |-> 0]
      key  == <<dom, id, inst>>
  IN  [k \in DOMAIN pcCaps \cup {key} |-> IF k = key THEN new ELSE pcCaps[k]]

(***************************************************************************)
(* InsertPciCap where it succeeds: the new capability is instance zero, or *)
(* takes the count that instance zero keeps, which is then incremented.    *)
(***************************************************************************)
InsertPciCap(dom, id, off, ver) ==
  LET zero == <<dom, id, 0>>
      inst == IF zero \in DOMAIN pcCaps THEN pcCaps[zero].num ELSE 0
      new  == [off |-> off, ver |-> ver, num |-> 1, hint |-> 0]
  IN  [k \in DOMAIN pcCaps \cup {<<dom, id, inst>>} |->
         IF k = <<dom, id, inst>> THEN new
         ELSE IF k = zero THEN [pcCaps[k] EXCEPT !.num = @ + 1]
         ELSE pcCaps[k]]

\* Up to the next capability by offset, and not past the space of the domain.
CalculatePciCapMaxSizeHint(caps, k) ==
  LET above == {j \in DOMAIN caps : caps[j].off > caps[k].off}
      next  == Min({caps[j].off : j \in above})
  IN  IF above = {} \/ next >= ConfigSpaceSize(k[1])
      THEN ConfigSpaceSize(k[1]) - caps[k].off
      ELSE next - caps[k].off

\* The error labels release both collections with all their elements.
PcFail == pcAt' = "err" /\ pcCaps' = NoCaps /\ pcOff' = 0 /\ UNCHANGED <<pcExpress, pcRead>>

\* A read or an allocation fails, or the offset has been seen: DEVICE_ERROR.
PcError ==
  /\ pcAt \in {"normal", "ext"} /\ pcOff > 0
  /\ PcFail

NormalStep ==
  /\ pcAt = "normal" /\ pcOff > 0 /\ pcOff \notin Offsets
  /\ \E id \in CapIds, next \in NormalPtrs :
       /\ pcCaps' = InsertPciCap("normal", id, pcOff, 0)
       /\ pcExpress' = (pcExpress \/ id = PCIEXP)
       /\ pcOff' = Masked(next)
  /\ UNCHANGED <<pcAt, pcRead>>

NormalDone ==
  /\ pcAt = "normal" /\ pcOff = 0
  /\ pcAt' = "ext" /\ pcOff' = IF pcExpress THEN PCI_MAX_CONFIG_OFFSET ELSE 0
  /\ UNCHANGED <<pcExpress, pcCaps, pcRead>>

\* A pointer into the conventional space is a DEVICE_ERROR.
ExtStep ==
  /\ pcAt = "ext" /\ pcOff > 0 /\ pcOff \notin Offsets
  /\ \E id \in CapIds, ver \in CapVersions, next \in ExtPtrs :
       IF Masked(next) \in 1 .. PCI_MAX_CONFIG_OFFSET - 1 THEN PcFail
       ELSE /\ pcCaps' = InsertPciCap("ext", id, pcOff, ver)
            /\ pcOff' = Masked(next)
            /\ UNCHANGED <<pcAt, pcExpress, pcRead>>

\* The first extended header is all zeroes or cannot be read: no list.
ExtNone ==
  /\ pcAt = "ext" /\ pcOff = PCI_MAX_CONFIG_OFFSET
  /\ pcOff' = 0
  /\ UNCHANGED <<pcAt, pcExpress, pcCaps, pcRead>>

PcDone ==
  /\ pcAt = "ext" /\ pcOff = 0
  /\ pcAt' = "ok"
  /\ pcCaps' = [k \in DOMAIN pcCaps |->
                  [pcCaps[k] EXCEPT !.hint = CalculatePciCapMaxSizeHint(pcCaps, k)]]
  /\ UNCHANGED <<pcOff, pcExpress, pcRead>>

-----------------------------------------------------------------------------
(* The lookups and the access functions.                                   *)

PciCapListFindCap(dom, id, inst) == {<<dom, id, inst>>} \cap DOMAIN pcCaps

\* The loop runs over the instances in order while domain and id are right.
PciCapListFindCapVersion(dom, id, min) ==
  {k \in DOMAIN pcCaps :
     /\ k[1] = dom /\ k[2] = id /\ pcCaps[k].ver >= min
     /\ \A i \in 0 .. k[3] - 1 : pcCaps[<<dom, id, i>>].ver < min}

\* NumInstances is kept in instance zero only.
PciCapGetInfo(k) == [pcCaps[k] EXCEPT !.num = pcCaps[<<k[1], k[2], 0>>].num]

\* RETURN_BAD_BUFFER_SIZE unless the access ends within the hint.
PciCapRead(k, off, size) ==
  IF off + size > pcCaps[k].hint THEN NoRead
  ELSE [from |-> pcCaps[k].off + off, to |-> pcCaps[k].off + off + size]

PcAccess ==
  /\ pcAt = "ok"
  /\ \E dom \in {"normal", "ext"}, id \in CapIds, off, size \in AccessSizes :
     \E k \in PciCapListFindCap(dom, id, 0)
              \cup PciCapListFindCapVersion(dom, id, Max(CapVersions)) :
       pcRead' = PciCapRead(k, off, size)
  /\ UNCHANGED <<pcAt, pcOff, pcExpress, pcCaps>>

PciCapNext ==
  PcStart \/ PcError \/ NormalStep \/ NormalDone \/ ExtStep \/ ExtNone \/ PcDone \/ PcAccess

PcSpec == PcInit /\ [][PciCapNext]_pcVars

-----------------------------------------------------------------------------
(***************************************************************************)
(* A list that PciCapListInit returns, whatever the device answered: the   *)
(* instances of each capability are numbered without gaps and counted, the *)
(* regions that the drivers may access are not empty, do not overlap and   *)
(* stay within the configuration space of their domain; no access reads a  *)
(* byte outside of one region.                                             *)
(***************************************************************************)
CapsPartitionSpace ==
  pcAt = "ok" =>
    /\ \A k \in DOMAIN pcCaps :
         /\ {j[3] : j \in {i \in DOMAIN pcCaps : i[1] = k[1] /\ i[2] = k[2]}}
              = 0 .. PciCapGetInfo(k).num - 1
         /\ pcCaps[k].hint > 0
         /\ pcCaps[k].off + pcCaps[k].hint <= ConfigSpaceSize(k[1])
         /\ \A j \in DOMAIN pcCaps \ {k} :
              \/ pcCaps[k].off + pcCaps[k].hint <= pcCaps[j].off
              \/ pcCaps[j].off + pcCaps[j].hint <= pcCaps[k].off
    /\ pcRead.from < pcRead.to => \E k \in DOMAIN pcCaps :
         pcCaps[k].off <= pcRead.from /\ pcRead.to <= pcCaps[k].off + pcCaps[k].hint
=============================================================================
