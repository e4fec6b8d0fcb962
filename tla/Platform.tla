------------------------------- MODULE Platform -------------------------------
(***************************************************************************)
(* The drivers and libraries of the platform side by side: those close to  *)
(* the hardware and those that run once per boot.  A behaviour is one of   *)
(* the component `part', the others stay in one of their initial states.   *)
(* This module holds the instances that TLC checks; nothing in it models   *)
(* code.                                                                   *)
(***************************************************************************)
EXTENDS VirtioTransport, PciCap, PciHotPlug, FwCfg, NorFlash, QemuFlash, IoMmu,
        SmmRelocation, SmmAccess, Timer8254, Unwind,
        PlatformPei, AcpiLoader, NvVars, Tcg2Presence, KernelLoader, LoadLinux, LinuxInitrd

CONSTANT Parts   \* the components looked at

VARIABLE part

deviceVars == <<vVars, pcVars, hpVars, fVars, nVars, qVars, iVars, rVars, sVars, hVars, uVars>>
bootVars == <<pVars, aVars, nvVars, tVars, kVars, lVars, rdVars>>

-----------------------------------------------------------------------------
(* Constants of the instances. *)

\* virtio 1.0 capability lists: in order, without the notify multiplier, twice, unusable.
VCap(type, len, bar, length, mult) == [type |-> type, len |-> len, bar |-> bar, length |-> length, mult |-> mult]
SomeCapLists ==
  LET c == VCap("common", "base", "mem", 56, 0)
      n == VCap("notify", "full", "mem", 8, 4)
  IN  {<<c, n, VCap("specific", "base", "io", 8, 0)>>,
       <<c, VCap("notify", "base", "mem", 8, 0)>>,
       <<n, c, VCap("other", "base", "mem", 8, 0), VCap("notify", "full", "io", 4, 2),
         VCap("specific", "short", "mem", 8, 0)>>,
       <<VCap("common", "base", "mem", 8, 0), VCap("notify", "base", "bad", 8, 0)>>}

\* Reservation hints of one capability, and capabilities of the wrong length or type before it.
SomeHints ==
  [bus : {0, 3, 63}, io : {0, 5, 128, 129, 255}, mem : {0, 1, 32, 33, 63}, pref32 : {0, 6}, pref64 : {0}]
  \cup [bus : {0}, io : {5}, mem : {0, 33}, pref32 : {0, 6, 33, 63}, pref64 : {0, 100, 129, 255}]
HintCap(length, type, hint) == [length |-> length, type |-> type, hint |-> hint]
OneHint == [bus |-> 9, io |-> 9, mem |-> 9, pref32 |-> 9, pref64 |-> 9]
SomeBridges ==
  {[redHat |-> TRUE, caps |-> <<HintCap("hint", "reservation", h)>>] : h \in SomeHints}
  \cup {[redHat |-> r, caps |-> c] : r \in BOOLEAN,
          c \in {<< >>, <<HintCap("other", "reservation", OneHint), HintCap("hint", "other", OneHint)>>,
                 <<HintCap("hint", "other", NoHint), HintCap("hint", "reservation", OneHint),
                   HintCap("hint", "reservation", NoHint)>>}}

SomeFwDir == <<[name |-> "a", item |-> 32], [name |-> "b", item |-> 33]>>

\* Writes in place and through an erase, in one or two program buffers, up to the end of the block.
NorWrite(lba, off, data) == [lba |-> lba, off |-> off, data |-> data]
SomeNorWrites ==
  {NorWrite(0, 4, <<0, 1>>), NorWrite(1, 0, <<1, 0, 1, 0, 1, 1, 1, 1, 1, 0, 1, 1>>),
   NorWrite(1, 4, <<0, 1>>), NorWrite(1, 8, <<1, 1, 1, 0>>), NorWrite(1, 11, <<1, 0>>),
   NorWrite(0, 5, <<1, 0, 0, 0, 1, 0>>)}
\* One more: two bytes on either side of a program buffer's boundary.
CrossingNorWrites == SomeNorWrites \cup {NorWrite(1, 3, <<0, 0>>)}
SomeNorErases ==
  {<<<<LastBlock, 1>>>>, <<<<0, 2>>, <<LastBlock, 1>>>>, <<<<0, 1>>, <<LastBlock, 2>>>>, <<<<0, 0>>>>, <<>>}
SomeNorHeaders == <<0, 0>>

SomeFvbHeader == <<"A", "FF">>
SomeAttributes ==
  {{"MEMORY_MAPPED", "READ_ENABLED_CAP", "READ_STATUS", "WRITE_ENABLED_CAP", "WRITE_STATUS", "ERASE_POLARITY"},
   {"READ_ENABLED_CAP", "READ_DISABLED_CAP", "READ_STATUS", "WRITE_ENABLED_CAP", "WRITE_DISABLED_CAP",
    "WRITE_STATUS", "LOCK_CAP"}}
SomeFvbWrites == {<<1, 0, <<"A", "A">>>>, <<1, 1, <<"B">>>>, <<0, 1, <<>>>>, <<FdBlockCount, 0, <<"A">>>>}

\* Periods that are capped, rounded, cut to 32 bits or too short to count; masks left out or given.
SomePeriods ==
  [hi : {0}, lo : {0, 3, 549250, 600000}] \cup {[hi |-> 1, lo |-> 0]}
SomePicArgs ==
  {[mask |-> {}, edge |-> {}], [mask |-> {{0}}, edge |-> {}], [mask |-> {{3}}, edge |-> {{}}]}

\* Memory sizes around the alignment and the limits, hotplug areas, windows, SMRAM; then CMOS only;
\* then processors, encryption, host bridges and stored memory types.
Ram(base, len) == [type |-> "ram", base |-> base, len |-> len]
PlainMachine ==
  [bridge |-> "Q35", s3 |-> FALSE, acpiOn |-> FALSE, e820File |-> TRUE, e820 |-> <<Ram(0, 131072)>>, cmosLow |-> 0,
   cmosHigh |-> 0, hotplugEnd |-> 0, mmio64Mb |-> -1, page1G |-> FALSE, extTseg |-> -1, smbase |-> FALSE,
   bootCpus |-> 2, cpuhp |-> TRUE, present |-> <<TRUE, FALSE, TRUE>>, sev |-> "none", typeVar |-> << >>,
   msr |-> 5]
MemoryMachines ==
  {[PlainMachine EXCEPT !.e820 = e, !.hotplugEnd = h, !.mmio64Mb = w, !.page1G = g, !.extTseg = t, !.smbase = s] :
     e \in {<<Ram(0, 131072)>>,
            <<[type |-> "reserved", base |-> 4194000, len |-> 100], Ram(0, 2097152), Ram(4194304, 6291458)>>,
            <<Ram(0, 2883584), Ram(4194306, 1048576), Ram(8388608, 7)>>,
            <<Ram(0, 2884608)>>},
     h \in {0, 16777216, 33555456}, w \in {-1, 0, 3000, 65536, 17000000},
     g \in BOOLEAN, t \in {-1, 16}, s \in BOOLEAN}
CmosMachines ==
  {[PlainMachine EXCEPT !.e820File = FALSE, !.e820 = << >>, !.cmosLow = l, !.cmosHigh = h] :
     l \in {2048, 32512}, h \in {0, 16384}}
  \cup {[PlainMachine EXCEPT !.e820 = << >>, !.cmosLow = 2048]}
\* Less memory than the firmware volumes and SMRAM need, just enough, and a little more.
SmallMachines ==
  {[PlainMachine EXCEPT !.e820 = <<Ram(0, m)>>, !.extTseg = t] : m \in {24576, 29696, 29700}, t \in {-1, 16}}
  \cup {[PlainMachine EXCEPT !.e820 = <<Ram(0, 65536)>>, !.extTseg = 48]}
StoredTypes ==
  {<< >>, <<[type |-> "NVS", pages |-> 5], [type |-> "RtData", pages |-> 900]>>,
   <<[type |-> "Reclaim", pages |-> 60], [type |-> "Reclaim", pages |-> 70]>>}
Encrypted(machines, s, br) ==
  {[m EXCEPT !.sev = s, !.bridge = br, !.s3 = (br = "440"), !.msr = IF s = "none" THEN 5 ELSE 0] : m \in machines}
ProcessorMachines ==
  UNION {Encrypted({[PlainMachine EXCEPT !.bootCpus = b, !.cpuhp = h, !.present = p] :
                      b \in {0, 1, 3}, h \in BOOLEAN,
                      p \in {<<TRUE>>, <<TRUE, FALSE, TRUE>>, <<TRUE, TRUE, TRUE, TRUE, TRUE>>}}
                   \cup {[PlainMachine EXCEPT !.smbase = d, !.typeVar = v] : d \in BOOLEAN, v \in StoredTypes}, s, br) :
           s \in {"none", "sev", "es", "snp"}, br \in {"Q35", "440", "microvm"}}
SomeMachines == MemoryMachines \cup SmallMachines \cup CmosMachines \cup ProcessorMachines

\* Linker/loader scripts: both blobs allocated, then three pointers or any two commands; any two
\* commands; more tables than may be installed.
AcpiCmd(type, file, to, at, size) == [type |-> type, file |-> file, to |-> to, at |-> at, size |-> size]
AcpiCmds ==
  {AcpiCmd("alloc", "a", "a", "table", 4), AcpiCmd("alloc", "b", "b", "table", 8),
   AcpiCmd("addptr", "a", "b", "table", 4), AcpiCmd("addptr", "b", "a", "data", 8),
   AcpiCmd("addptr", "b", "a", "table", 8), AcpiCmd("addptr", "b", "b", "root", 8),
   AcpiCmd("checksum", "b", "a", "beyond", 8), AcpiCmd("checksum", "b", "a", "data", 8),
   AcpiCmd("addptr", "b", "b", "data", 2), AcpiCmd("writeptr", "nofile", "b", "data", 4),
   AcpiCmd("writeptr", "h", "a", "data", 8), AcpiCmd("writeptr", "g", "b", "data", 4), AcpiCmd("writeptr", "g", "a", "data", 8),
   AcpiCmd("writeptr", "h", "b", "data", 8), AcpiCmd("other", "b", "a", "data", 8)}
LaterCmds == {c \in AcpiCmds : c.type \in {"addptr", "writeptr"} /\ c.file # "nofile"}
SomeScripts ==
  {<<AcpiCmd("alloc", "a", "a", "table", 4), AcpiCmd("alloc", "b", "b", "table", 8)>> \o s :
     s \in [1 .. 3 -> LaterCmds] \cup [1 .. 2 -> AcpiCmds]}
  \cup [1 .. 2 -> AcpiCmds]
  \cup {[i \in 1 .. 3 |-> AcpiCmd("alloc", <<"a", "b", "c">>[i], "a", "table", 8)]
         \o [i \in 1 .. 3 |-> AcpiCmd("addptr", "a", <<"a", "b", "c">>[i], "table", 8)]}

SomeAcpiItems == [h |-> 8, g |-> 4]

\* Variable files: empty; two variables; one twice, and again without its name; one that
\* deletes, and one of another namespace; a torn one; one without a name.
SomeNames == <<<<3>>, <<4, 5>>>>
SomeDatas == {<<2, 2>>}
OneEntry(name, attr, data) == SerializeVariablesAddVariable(<< >>, name, 7, attr, data)
SomeFiles ==
  {<< >>, OneEntry(<<3>>, 1, <<1>>) \o OneEntry(<<4, 5>>, 2, <<2, 2>>),
   OneEntry(<<3>>, 1, <<1>>) \o OneEntry(<<3>>, 1, <<2, 2>>) \o OneEntry(<< >>, 1, <<6>>),
   SerializeVariablesAddVariable(OneEntry(<<4, 5>>, 1, <<1>>) \o OneEntry(<<4, 5>>, 1, << >>), <<3>>, 6, 1, <<2, 2>>),
   OneEntry(<<4, 5>>, 1, <<1>>) \o <<1, 3, 7>>, OneEntry(<< >>, 1, <<2, 2>>)}

\* What QEMU gives: everything, a kernel and a command line, set-up only, an initrd only, and with
\* sizes that a UINT32 (of KernelSizes values) cannot add up: to less, to nothing, and a text too long.
SomeItems ==
  LET Bytes(n) == [i \in 1 .. n |-> IF i < n THEN i ELSE 0]
  IN  {[setup |-> <<1, 2>>, kernel |-> <<3, 4, 5>>, initrd |-> <<6, 7, 8, 9>>, cmdline |-> <<5, 5, 0>>],
       [setup |-> << >>, kernel |-> <<3, 4>>, initrd |-> << >>, cmdline |-> <<5, 5>>],
       [setup |-> <<1>>, kernel |-> << >>, initrd |-> << >>, cmdline |-> << >>],
       [setup |-> << >>, kernel |-> << >>, initrd |-> <<1>>, cmdline |-> << >>],
       [setup |-> Bytes(33), kernel |-> Bytes(34), initrd |-> << >>, cmdline |-> << >>],
       [setup |-> Bytes(32), kernel |-> Bytes(32), initrd |-> << >>, cmdline |-> <<0>>],
       [setup |-> << >>, kernel |-> <<3>>, initrd |-> <<1>>, cmdline |-> Bytes(20)]}

\* Memory maps of three descriptors, adjacent or not; free pages low, high and scattered.
Descriptor(type, start, pages) == [type |-> type, start |-> start, pages |-> pages]
SomeTypes == {"Reserved", "Conventional", "LoaderCode", "ACPIMemoryNVS", "Persistent"}
SomeMaps ==
  {<< >>, <<Descriptor("Conventional", 0, 0), Descriptor("Reserved", 4, 1)>>}
  \cup {<<Descriptor(a, 0, 2), Descriptor(b, 2, 1), Descriptor(c, x, 1)>> : a, b, c \in SomeTypes, x \in {3, 5}}
SomeMasks == {<<0, 0>>, <<0, 1>>, <<1, 2>>, <<3, 3>>}
SomeFree == {{1, 8, 20, 400}, {1, 8}, {8, 16, 4}, {1, 5, 4088, 4100, 8000}, {0, 1, 300, 8192}}

SomeInitrds ==
  {[name |-> "a", size |-> 0], [name |-> "b", size |-> 4096], [name |-> "c", size |-> 4097], [name |-> "d", size |-> 100]}

-----------------------------------------------------------------------------
\* A component that is not looked at has one initial state.
IdleParts ==
  /\ part # "hotplug" => hpBridge = [redHat |-> FALSE, caps |-> << >>]
  /\ part # "nor" => nCells = [b \in NorBlocks |-> [i \in NorBytes |-> 0]]
  /\ part # "fvb" => /\ qKind = "ram" /\ qSevEs = FALSE /\ qCells = [a \in FdBytes |-> "FF"]
  /\ part # "smm" => sReg = {} /\ sHw = {} /\ sSev = FALSE
  /\ part # "pei" => pMachine = PlainMachine
  /\ part # "nvvars" => nFile = [kind |-> "none", cells |-> << >>]
  /\ part # "tpm" => tConf = [ok |-> FALSE, v2 |-> FALSE, proto |-> FALSE, s4 |-> FALSE]
  /\ part # "kernel" => kItems = CHOOSE i \in KernelItems : TRUE
  /\ part # "linux" => /\ lHdr = CHOOSE h \in Headers : TRUE
                       /\ lFree = CHOOSE f \in LinuxFree : TRUE
                       /\ lMap = << >>
  /\ part # "initrd" => rdOther = FALSE

PlatformInit ==
  /\ part \in Parts
  /\ IdleParts
  /\ VInit /\ PcInit /\ HotPlugInit /\ FwInit /\ NorInit /\ QInit /\ IoMmuInit /\ RInit /\ SInit
  /\ HInit /\ UInit
  /\ PInit /\ AcpiInit /\ NvInit /\ TInit /\ KInit /\ LInit /\ RdInit

DeviceNext ==
  /\ UNCHANGED bootVars
  /\ \/ part = "virtio" /\ VNext /\ UNCHANGED <<pcVars, hpVars, fVars, nVars, qVars, iVars, rVars, sVars, hVars, uVars>>
     \/ part = "pcicap" /\ PciCapNext /\ UNCHANGED <<vVars, hpVars, fVars, nVars, qVars, iVars, rVars, sVars, hVars, uVars>>
     \/ part = "hotplug" /\ HotPlugNext /\ UNCHANGED <<vVars, pcVars, fVars, nVars, qVars, iVars, rVars, sVars, hVars, uVars>>
     \/ part = "fwcfg" /\ FwNext /\ UNCHANGED <<vVars, pcVars, hpVars, nVars, qVars, iVars, rVars, sVars, hVars, uVars>>
     \/ part = "nor" /\ NorNext /\ UNCHANGED <<vVars, pcVars, hpVars, fVars, qVars, iVars, rVars, sVars, hVars, uVars>>
     \/ part = "fvb" /\ QNext /\ UNCHANGED <<vVars, pcVars, hpVars, fVars, nVars, iVars, rVars, sVars, hVars, uVars>>
     \/ part = "iommu" /\ IoMmuNext /\ UNCHANGED <<vVars, pcVars, hpVars, fVars, nVars, qVars, rVars, sVars, hVars, uVars>>
     \/ part = "relocation" /\ RNext /\ UNCHANGED <<vVars, pcVars, hpVars, fVars, nVars, qVars, iVars, sVars, hVars, uVars>>
     \/ part = "smm" /\ SNext /\ UNCHANGED <<vVars, pcVars, hpVars, fVars, nVars, qVars, iVars, rVars, hVars, uVars>>
     \/ part = "timer" /\ HNext /\ UNCHANGED <<vVars, pcVars, hpVars, fVars, nVars, qVars, iVars, rVars, sVars, uVars>>
     \/ part = "unwind" /\ UNext /\ UNCHANGED <<vVars, pcVars, hpVars, fVars, nVars, qVars, iVars, rVars, sVars, hVars>>

BootNext ==
  /\ UNCHANGED deviceVars
  /\ \/ part = "pei" /\ PNext /\ UNCHANGED <<aVars, nvVars, tVars, kVars, lVars, rdVars>>
     \/ part = "acpi" /\ AcpiNext /\ UNCHANGED <<pVars, nvVars, tVars, kVars, lVars, rdVars>>
     \/ part = "nvvars" /\ NvNext /\ UNCHANGED <<pVars, aVars, tVars, kVars, lVars, rdVars>>
     \/ part = "tpm" /\ TNext /\ UNCHANGED <<pVars, aVars, nvVars, kVars, lVars, rdVars>>
     \/ part = "kernel" /\ KNext /\ UNCHANGED <<pVars, aVars, nvVars, tVars, lVars, rdVars>>
     \/ part = "linux" /\ LNext /\ UNCHANGED <<pVars, aVars, nvVars, tVars, kVars, rdVars>>
     \/ part = "initrd" /\ RdNext /\ UNCHANGED <<pVars, aVars, nvVars, tVars, kVars, lVars>>

PlatformNext == (DeviceNext \/ BootNext) /\ UNCHANGED part

PlatformSpec == PlatformInit /\ [][PlatformNext]_<<part, deviceVars, bootVars>>
=============================================================================
