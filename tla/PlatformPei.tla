------------------------------ MODULE PlatformPei ------------------------------
(***************************************************************************)
(* PlatformPei of QemuQ35Pkg: how the amount of memory that QEMU reports   *)
(* (fw_cfg "etc/e820", or CMOS) becomes resource and allocation HOBs, the  *)
(* memory PEI runs in, the 32-bit and 64-bit PCI windows and the width of  *)
(* physical addresses; the number of processors; memory encryption; the    *)
(* callbacks that run once multiprocessor services and variables are       *)
(* there.  One action per call of InitializePlatform, in its order.        *)
(* Addresses and sizes are in KB.  PcdSmmSmramRequire is TRUE, as the      *)
(* platform's DSC has it, and PcdCsmEnable is FALSE.                       *)
(***************************************************************************)
EXTENDS Integers, Sequences, FiniteSetsExt

CONSTANTS
  Machines,            \* the machines considered: what QEMU tells the firmware
  MaxLogicalProcessors \* PcdCpuMaxLogicalProcessorNumber

\* SMRAM fits into the low memory above 1 MB (otherwise the sizes of the memory HOBs wrap as well).
ASSUME MachineAssumption ==
  \A m \in Machines : \A r \in {m.e820[i] : i \in DOMAIN m.e820} :
    r.type = "ram" /\ r.base = 0 => m.extTseg * 1024 + 1024 < r.len

VARIABLES
  pMachine,   \* the machine
  pStage,     \* the next call of InitializePlatform; "assert", "dead" or "done"
  pCfg,       \* the module's global variables and the PCDs it sets
  pHobs,      \* resource descriptor HOBs [kind, base, end]
  pAllocs,    \* memory allocation HOBs [base, end]
  pPei,       \* PublishSystemMemory: [base, end]
  pUc,        \* ranges the MTRRs make uncacheable
  pGhcb,      \* SEV-ES: [pages, shared, backup], and the memory SNP has validated
  pPages,     \* mMemoryTypeInformation, and whether its HOB is built
  pCpu        \* each processor: cache cleared, IA32_FEATURE_CONTROL

pVars == <<pMachine, pStage, pCfg, pHobs, pAllocs, pPei, pUc, pGhcb, pPages, pCpu>>

MB == 1024
GB == 1024 * MB
BASE_4GB == 4 * GB
PAGE == 4
SMM_DEFAULT_SMBASE == 192                    \* 0x30000
MCH_DEFAULT_SMBASE_SIZE == 128
PciExpressBase == 2816 * MB                  \* 0xB0000000
PeiMemFv == [base |-> 8320, end |-> 9216]
DxeMemFv == [base |-> 9216, end |-> 21504]
VMGEXIT_MAXIMUM_VC_COUNT == 2
DefaultPages == [NVS |-> 128, Reclaim |-> 43, Reserved |-> 1296, RtCode |-> 256, RtData |-> 448]

Hob(kind, base, end) == [kind |-> kind, base |-> base, end |-> end]
Range2(base, end) == [base |-> base, end |-> end]

PInit ==
  /\ pMachine \in Machines
  /\ pStage = "BootMode" /\ pHobs = {} /\ pAllocs = {} /\ pUc = {}
  /\ pCfg = [width |-> 0, mmio64 |-> Range2(0, 0), maxCpus |-> 0, bootCpus |-> 0, tseg |-> 0,
             smbase |-> FALSE, uc32 |-> 0, ecam |-> 0, pmba |-> pMachine.acpiOn, smram |-> Range2(0, 0)]
  /\ pPei = Range2(0, 0) /\ pGhcb = [pages |-> 0, shared |-> {}, backup |-> << >>, valid |-> {}]
  /\ pPages = [info |-> DefaultPages, hob |-> 0]
  /\ pCpu = [c \in DOMAIN pMachine.present |-> [cleared |-> FALSE, control |-> 0]]

\* A machine in a state that an ASSERT excludes stops there.
Stage(this, next, ok) == pStage = this /\ pStage' = IF ok THEN next ELSE "assert"

-----------------------------------------------------------------------------
(* Memory sizes: MemDetect.c.                                              *)

E820Ram == {pMachine.e820[i] : i \in {j \in DOMAIN pMachine.e820 : pMachine.e820[j].type = "ram"}}
RamEnds == {r.base + r.len : r \in E820Ram}
HasE820 == pMachine.e820File      \* the fw_cfg file, which may be empty

\* ScanOrAdd64BitE820Ram: LowMemory, MaxAddress, and the HOBs of AddHighHob.
ScanLowMemory  == Max({0} \cup {e \in RamEnds : e < BASE_4GB})
ScanMaxAddress == Max({BASE_4GB} \cup RamEnds)
ScanHighHobs ==
  LET up(x)   == ((x + PAGE - 1) \div PAGE) * PAGE
      down(x) == (x \div PAGE) * PAGE
  IN  {Hob("ram", up(r.base), down(r.base + r.len)) :
         r \in {s \in E820Ram : s.base >= BASE_4GB /\ up(s.base) < down(s.base + s.len)}}

GetSystemMemorySizeBelow4gb ==
  IF HasE820 /\ ScanLowMemory > 0 THEN ScanLowMemory
  ELSE pMachine.cmosLow * 64 + 16 * MB

GetSystemMemorySizeAbove4gb == pMachine.cmosHigh * 64

RoundUp(x, a) == ((x + a - 1) \div a) * a

\* GetPowerOfTwo64 and HighBitSet64.
LogTwo(x) == CHOOSE n \in 0 .. 30 : 2 ^ n <= x /\ x < 2 ^ n * 2
GetPowerOfTwo64(x) == 2 ^ LogTwo(x)

\* Size of the 64-bit window: PcdPciMmio64Size unless fw_cfg overrides it.
Pci64SizeOf ==
  IF pMachine.mmio64Mb = -1 \/ pMachine.mmio64Mb > 16777216 THEN 32 * GB
  ELSE pMachine.mmio64Mb * MB

RamEnd == IF HasE820 THEN ScanMaxAddress ELSE BASE_4GB + GetSystemMemorySizeAbove4gb

\* Mutant: the window is put above the memory and under the hotplug area.
Pci64Window_Ram ==
  LET size == RoundUp(Pci64SizeOf, GB)
      base == RoundUp(RoundUp(RamEnd, GB), GetPowerOfTwo64(size))
  IN  IF Pci64SizeOf = 0 THEN Range2(0, 0) ELSE Range2(base, base + size)

\* Above the memory and the hotplug area (etc/reserved-memory-end), naturally aligned.
Pci64Window ==
  LET first == IF pMachine.hotplugEnd = 0 THEN RamEnd ELSE pMachine.hotplugEnd
      size  == RoundUp(Pci64SizeOf, GB)
      base  == RoundUp(RoundUp(first, GB), GetPowerOfTwo64(size))
  IN  IF Pci64SizeOf = 0 THEN Range2(0, 0) ELSE Range2(base, base + size)

\* Without a window the hotplug area does not count.
GetFirstNonAddress == IF Pci64SizeOf = 0 THEN RamEnd ELSE Pci64Window.end

\* HighBitSet64, one more unless a power of two, at least 36 bits (10 of them for a KB).
AddressWidth ==
  LET first == GetFirstNonAddress
      bits  == LogTwo(first) + 10 + IF 2 ^ LogTwo(first) = first THEN 0 ELSE 1
  IN  IF bits <= 36 THEN 36 ELSE bits

\* A warm reboot as for S3 resume: 0xFE in CMOS 0xF is not supported.
BootModeInitialization ==
  /\ Stage("BootMode", "AddressWidth", ~pMachine.s3)
  /\ UNCHANGED <<pMachine, pCfg, pHobs, pAllocs, pPei, pUc, pGhcb, pPages, pCpu>>

AddressWidthInitialization ==
  /\ Stage("AddressWidth", "MaxCpuCount",
           AddressWidth <= 48 /\ (Pci64SizeOf > 0 /\ pMachine.hotplugEnd > 0 => pMachine.hotplugEnd >= RamEnd))
  /\ pCfg' = [pCfg EXCEPT !.width = AddressWidth, !.mmio64 = Pci64Window]
  /\ UNCHANGED <<pMachine, pHobs, pAllocs, pPei, pUc, pGhcb, pPages, pCpu>>

(***************************************************************************)
(* MaxCpuCountInitialization: selects the possible processors of the CPU   *)
(* hotplug registers one after the other, counting those present; without  *)
(* the modern interface the boot count is also the maximum.                *)
(***************************************************************************)
CpuCounts ==
  IF pMachine.bootCpus = 0 THEN [boot |-> 0, max |-> MaxLogicalProcessors]
  ELSE IF ~pMachine.cpuhp THEN [boot |-> pMachine.bootCpus, max |-> pMachine.bootCpus]
  ELSE [boot |-> Cardinality({c \in DOMAIN pMachine.present : pMachine.present[c]}),
        max |-> Len(pMachine.present)]

MaxCpuCountInitialization ==
  /\ Stage("MaxCpuCount", "Smram", CpuCounts.boot <= CpuCounts.max /\ CpuCounts.max <= MaxLogicalProcessors)
  /\ pCfg' = [pCfg EXCEPT !.bootCpus = CpuCounts.boot, !.maxCpus = CpuCounts.max]
  /\ UNCHANGED <<pMachine, pHobs, pAllocs, pPei, pUc, pGhcb, pPages, pCpu>>

\* The Q35 host bridge or a dead loop: nothing after it sees another board.
Q35BoardVerification ==
  pStage = "Smram" /\ pStage' = IF pMachine.bridge = "Q35" THEN "PublishPei" ELSE "dead"

\* Q35TsegMbytesInitialization, Q35SmramAtDefaultSmbaseInitialization.
Q35SmramInitialization ==
  /\ Q35BoardVerification
  /\ pCfg' = [pCfg EXCEPT !.tseg = IF pMachine.extTseg = -1 THEN 8 * MB ELSE pMachine.extTseg * MB,
                          !.smbase = pMachine.smbase]
  /\ UNCHANGED <<pMachine, pHobs, pAllocs, pPei, pUc, pGhcb, pPages, pCpu>>

\* Room for the page tables that map the whole address width, and 64 MB.
GetPeiMemoryCap ==
  LET w     == pCfg.width
      pml4  == IF w <= 39 THEN 1 ELSE 2 ^ (w - 39)
      pdp   == IF w <= 39 THEN 2 ^ (w - 30) ELSE 512
      pages == IF pMachine.page1G THEN pml4 + 1 ELSE (pdp + 1) * pml4 + 1
  IN  pages * PAGE + 64 * MB

TsegBase == GetSystemMemorySizeBelow4gb - pCfg.tseg

\* The size is an unsigned 64-bit difference: below the end of the firmware volumes it wraps, exceeds
\* the cap, and the base is an unsigned 32-bit difference.
PublishPeiMemory ==
  LET above  == DxeMemFv.end
      capped == TsegBase < above \/ TsegBase - above > GetPeiMemoryCap
      base   == IF capped THEN (TsegBase - GetPeiMemoryCap) % BASE_4GB ELSE above
      size   == IF capped THEN GetPeiMemoryCap ELSE TsegBase - above
  IN  /\ Stage("PublishPei", "Uc32", pCfg.smbase => SMM_DEFAULT_SMBASE + MCH_DEFAULT_SMBASE_SIZE <= base)
      /\ pPei' = Range2(base, base + size)
      /\ UNCHANGED <<pMachine, pCfg, pHobs, pAllocs, pUc, pGhcb, pPages, pCpu>>

\* Only the Q35 branch is left: the others have stopped.
QemuUc32BaseInitialization ==
  /\ Stage("Uc32", "RamRegions", TRUE)
  /\ pCfg' = [pCfg EXCEPT !.uc32 = PciExpressBase]
  /\ UNCHANGED <<pMachine, pHobs, pAllocs, pPei, pUc, pGhcb, pPages, pCpu>>

QemuInitializeRamBelow1gb ==
  IF pCfg.smbase
  THEN {Hob("ram", 0, SMM_DEFAULT_SMBASE),
        Hob("reserved", SMM_DEFAULT_SMBASE, SMM_DEFAULT_SMBASE + MCH_DEFAULT_SMBASE_SIZE),
        Hob("ram", SMM_DEFAULT_SMBASE + MCH_DEFAULT_SMBASE_SIZE, 640)}
  ELSE {Hob("ram", 0, 640)}

QemuInitializeRam ==
  QemuInitializeRamBelow1gb
  \cup {Hob("ram", MB, TsegBase), Hob("reserved", TsegBase, TsegBase + pCfg.tseg)}
  \cup (IF HasE820 THEN ScanHighHobs
        ELSE IF GetSystemMemorySizeAbove4gb = 0 THEN {}
        ELSE {Hob("ram", BASE_4GB, BASE_4GB + GetSystemMemorySizeAbove4gb)})

\* gEfiSmmSmramMemoryGuid: where SmmRelocationLib and the SMM foundation take their memory from.
CreateSmmSmramMemoryHob(base, size) == Range2(base, base + size)

\* The secrets and CPUID pages, which no file of the platform places (their PCDs are zero).
SevInitializeRam == IF pMachine.sev = "snp" THEN {Range2(0, 0)} ELSE {}

\* The allocations keep SMRAM away from the rest of PEI and DXE.
InitializeRamRegions ==
  /\ Stage("RamRegions", "Fv", TRUE)
  /\ pHobs' = pHobs \cup QemuInitializeRam
  /\ pCfg' = [pCfg EXCEPT !.smram = CreateSmmSmramMemoryHob(TsegBase, pCfg.tseg)]
  /\ pUc' = {Range2(640, MB), Range2(pCfg.uc32, BASE_4GB)}
  /\ pAllocs' = pAllocs \cup SevInitializeRam \cup {Range2(TsegBase, TsegBase + pCfg.tseg)}
               \cup (IF pCfg.smbase
                     THEN {Range2(SMM_DEFAULT_SMBASE, SMM_DEFAULT_SMBASE + MCH_DEFAULT_SMBASE_SIZE)} ELSE {})
  /\ UNCHANGED <<pMachine, pPei, pGhcb, pPages, pCpu>>

PeiFvInitialization ==
  /\ Stage("Fv", "MemMap", TRUE)
  /\ pAllocs' = pAllocs \cup {PeiMemFv, DxeMemFv}
  /\ UNCHANGED <<pMachine, pCfg, pHobs, pPei, pUc, pGhcb, pPages, pCpu>>

\* MemMapInitialization: the memory-mapped I/O ranges of Q35.
MmioHobs ==
  LET at(base, size) == Hob("mmio", base, base + size)
      pci == PciExpressBase + 256 * MB
  IN  {Hob("mmio", 640, MB), Hob("mmio", pci, 4032 * MB),           \* up to 0xFC000000
       at(4173824, 4), at(4174848, 4), at(4175104, 4),              \* I/O APIC, HPET, TPM
       at(4174960, 16), at(PciExpressBase, 256 * MB),               \* root complex, ECAM
       at(4175872, MB), at(4190208, 4 * MB)}                    \* local APIC, flash

MemMapInitialization ==
  /\ Stage("MemMap", "AmdSev", GetSystemMemorySizeBelow4gb <= PciExpressBase)
  /\ pHobs' = pHobs \cup MmioHobs
  /\ UNCHANGED <<pMachine, pCfg, pAllocs, pPei, pUc, pGhcb, pPages, pCpu>>

-----------------------------------------------------------------------------
(* AmdSev.c.                                                               *)

\* AmdSevEsInitialize: per processor one page shared with the hypervisor and one private.
AmdSevEsInitialize(valid) ==
  [pages |-> 2 * pCfg.maxCpus, shared |-> {2 * c : c \in 0 .. pCfg.maxCpus - 1}, valid |-> valid,
   backup |-> [c \in 1 .. pCfg.maxCpus |-> (c - 1) * (VMGEXIT_MAXIMUM_VC_COUNT - 1)]]

\* The memory reported so far is validated; nothing reports more later.
AmdSevSnpInitialize ==
  IF pMachine.sev = "snp" THEN {h \in pHobs : h.kind = "ram"} ELSE {}

\* GetHypervisorFeature and GhcbRegister end the guest (SevEsProtocolFailure) when the hypervisor
\* answers otherwise than asked.
HypervisorAnswers == IF pMachine.sev = "snp" THEN BOOLEAN ELSE {TRUE}

\* The save state map that is decrypted later is in SMRAM or set aside.
SaveStateMap == Range2(252, 256)

AmdSevInitialize ==
  /\ pStage = "AmdSev"
  /\ \E features, registered \in HypervisorAnswers :
       /\ pStage' = IF features /\ registered THEN "Misc" ELSE "dead"
       /\ IF ~features THEN UNCHANGED <<pAllocs, pGhcb>>
          ELSE /\ pAllocs' = IF pMachine.sev = "none" \/ pCfg.smbase THEN pAllocs
                             ELSE pAllocs \cup {SaveStateMap}
               /\ pGhcb' = IF pMachine.sev \in {"es", "snp"} THEN AmdSevEsInitialize(AmdSevSnpInitialize)
                           ELSE pGhcb
  /\ UNCHANGED <<pMachine, pCfg, pHobs, pPei, pUc, pPages, pCpu>>

\* Decoding is off while the base is written; aligned to 256 MB and under 64 GB.
PciExBarInitialization ==
  IF PciExpressBase % (256 * MB) = 0 /\ PciExpressBase < 64 * GB THEN PciExpressBase ELSE 0

\* PMBASE unless ACPI I/O is on already.
MiscInitialization ==
  /\ Stage("Misc", "done", PciExBarInitialization # 0)
  /\ pCfg' = [pCfg EXCEPT !.pmba = TRUE, !.ecam = PciExBarInitialization]
  /\ UNCHANGED <<pMachine, pHobs, pAllocs, pPei, pUc, pGhcb, pPages, pCpu>>

-----------------------------------------------------------------------------
(* The callbacks.                                                          *)

\* RefreshMemTypeInfo: the first record of the type, if it is larger.
RefreshMemTypeInfo(pages, entries) ==
  [t \in DOMAIN pages |->
     LET found == {i \in DOMAIN entries : entries[i].type = t}
     IN  IF found # {} /\ pages[t] < entries[Min(found)].pages THEN entries[Min(found)].pages ELSE pages[t]]

BuildMemTypeInfoHob(info) == [info |-> info, hob |-> 1]

OnReadOnlyVariable2Available ==
  /\ pStage = "done" /\ pPages.hob = 0
  /\ pPages' = BuildMemTypeInfoHob(RefreshMemTypeInfo(pPages.info, pMachine.typeVar))  \* empty when it cannot be read
  /\ UNCHANGED <<pMachine, pStage, pCfg, pHobs, pAllocs, pPei, pUc, pGhcb, pCpu>>

Present == {c \in DOMAIN pMachine.present : pMachine.present[c]}

(***************************************************************************)
(* StartupAllAPs, then this processor (processor 1): NOT_STARTED means     *)
(* that there are no others; any other failure, which may come after some  *)
(* of them have run, leaves this one out.                                  *)
(***************************************************************************)
Others == Present \ {1}

StartupAllAPs ==
  [status : {"SUCCESS"}, ran : {Others}]
  \cup (IF Others = {} THEN [status : {"NOT_STARTED"}, ran : {{}}] ELSE {})
  \cup [status : {"NOT_READY"}, ran : SUBSET Others]

OnAllProcessors(field, value) ==
  \E ap \in StartupAllAPs :
    LET ran == ap.ran \cup (IF ap.status = "NOT_READY" THEN {} ELSE {1})
    IN  pCpu' = [c \in DOMAIN pCpu |->
                   IF c \in ran THEN [pCpu[c] EXCEPT ![field] = value] ELSE pCpu[c]]

ClearCacheOnMpServicesAvailable ==
  /\ pStage = "done" /\ ~pCpu[1].cleared
  /\ OnAllProcessors("cleared", TRUE)
  /\ UNCHANGED <<pMachine, pStage, pCfg, pHobs, pAllocs, pPei, pUc, pGhcb, pPages>>

\* Only if QEMU has "etc/msr_feature_control".
OnMpServicesAvailable ==
  /\ pStage = "done" /\ pMachine.msr # 0 /\ pCpu[1].control = 0
  /\ OnAllProcessors("control", pMachine.msr)
  /\ UNCHANGED <<pMachine, pStage, pCfg, pHobs, pAllocs, pPei, pUc, pGhcb, pPages>>

PNext ==
  \/ BootModeInitialization \/ AddressWidthInitialization \/ MaxCpuCountInitialization
  \/ Q35SmramInitialization \/ PublishPeiMemory \/ QemuUc32BaseInitialization \/ InitializeRamRegions
  \/ PeiFvInitialization \/ MemMapInitialization \/ AmdSevInitialize \/ MiscInitialization
  \/ OnReadOnlyVariable2Available \/ ClearCacheOnMpServicesAvailable \/ OnMpServicesAvailable

-----------------------------------------------------------------------------
Overlap(a, b) == a.base < b.end /\ b.base < a.end
Within(a, b)  == b.base <= a.base /\ a.end <= b.end
Rams == {h \in pHobs : h.kind = "ram"}

\* The memory of the machine, as its e820 entries or CMOS tell it.
RamThere ==
  {Range2(r.base, r.base + r.len) : r \in E820Ram}
  \cup (IF HasE820 /\ ScanLowMemory > 0 THEN {} ELSE {Range2(0, GetSystemMemorySizeBelow4gb)})
  \cup (IF HasE820 THEN {} ELSE {Range2(BASE_4GB, BASE_4GB + GetSystemMemorySizeAbove4gb)})

\* Every address of [lo, hi) is in one of the ranges.
Covers(ranges, lo, hi) ==
  \A x \in {lo} \cup {r.end : r \in ranges} : lo <= x /\ x < hi => \E r \in ranges : r.base <= x /\ x < r.end

\* SMRAM, below the end of low memory, leaves the firmware volumes alone.
RoomForPei == DxeMemFv.end <= TsegBase

(***************************************************************************)
(* What DXE and the operating system are told is true of the machine, for  *)
(* every amount of memory and every override.  From 1 MB up, exactly the   *)
(* whole pages that are memory are reported as memory, SMRAM as reserved;  *)
(* no two resources overlap; no memory is uncacheable; the 64-bit window   *)
(* is naturally aligned and above memory that is there or may be plugged   *)
(* in; the address width covers them.  Provided that SMRAM leaves the      *)
(* firmware volumes alone (29 MB of memory with the default TSEG), PEI     *)
(* runs in memory, clear of SMRAM, of the volumes and of everything else   *)
(* set aside; with less, MemDetect.c:687 wraps and publishes a range below *)
(* 4 GB that is not memory.  Every processor has a GHCB that is shared and *)
(* private data that is not.  The reserved bins never shrink.  Once the    *)
(* boot processor runs with the feature control value or a clean cache,    *)
(* all processors do.                                                      *)
(***************************************************************************)
PlatformMemoryMap ==
  pStage = "done" =>
    /\ \A a, b \in pHobs : a # b => ~Overlap(a, b)
    /\ \A h \in pHobs : h.base < h.end
    /\ \A h \in Rams, u \in pUc : ~Overlap(h, u)
    /\ \A r \in RamThere :
         Covers({h \in pHobs : h.kind # "mmio"}, Max({MB, RoundUp(r.base, PAGE)}), r.end - (r.end % PAGE))
    /\ \A h \in pHobs : h.kind # "mmio" => Covers(RamThere, Max({MB, h.base}), h.end)
    /\ RoomForPei => /\ \E h \in Rams : Within(pPei, h)
                     /\ \A a \in pAllocs : ~Overlap(pPei, a)
                     /\ \A a, b \in pAllocs : a # b => ~Overlap(a, b)
    /\ LET w == pCfg.mmio64
       IN  w.end > 0 => /\ w.base % GetPowerOfTwo64(w.end - w.base) = 0
                        /\ \A h \in pHobs : ~Overlap(h, w)
                        /\ pMachine.hotplugEnd <= w.base
                        /\ LogTwo(w.end - 1) + 10 < pCfg.width
    /\ \A h \in pHobs : LogTwo(h.end - 1) + 10 < pCfg.width
    /\ pCfg.bootCpus <= pCfg.maxCpus
    /\ \A c \in 1 .. pGhcb.pages \div 2 : 2 * (c - 1) \in pGhcb.shared /\ 2 * c - 1 \notin pGhcb.shared
    /\ pMachine.sev \in {"es", "snp"} => pGhcb.pages = 2 * pCfg.maxCpus
    /\ pMachine.sev = "snp" => pGhcb.valid = Rams
    /\ \A h \in pHobs : Overlap(h, pCfg.smram) => h.kind = "reserved"
    /\ Hob("mmio", pCfg.ecam, pCfg.ecam + 256 * MB) \in pHobs
    /\ \A t \in DOMAIN DefaultPages : pPages.info[t] >= DefaultPages[t]
    /\ \A c \in Present : /\ pCpu[1].control # 0 => pCpu[c].control = pCpu[1].control
                          /\ pCpu[1].cleared => pCpu[c].cleared
=============================================================================
