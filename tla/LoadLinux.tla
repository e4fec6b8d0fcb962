------------------------------ MODULE LoadLinux ------------------------------
(***************************************************************************)
(* LoadLinuxLib: checks a kernel's setup header, allocates memory for the  *)
(* kernel, its command line and its initrd where the header can point at   *)
(* them, describes the screen and turns the UEFI memory map into the e820  *)
(* table, one descriptor per step, before it leaves boot services.         *)
(* Memory is counted in megabytes for the allocations, in pages for e820.  *)
(***************************************************************************)
EXTENDS PowersOfTwo, Sequences, FiniteSets

CONSTANTS
  LinuxMaps,      \* memory maps: a set of sequences of [type, start, pages]
  LinuxMasks,     \* pixel masks: runs of ones, given by <<position, size>>
  KernelAligns,   \* kernel_alignment, in megabytes
  LinuxFree,      \* where an allocation may succeed, in megabytes: a set of sets
  E820Max         \* ARRAY_SIZE (e820_map)

U32(mb) == mb % 4096     \* what 32 bits keep of an address

\* The addresses that LoadLinuxAllocateKernelPages tries: twice the alignment is a 32-bit product.
KernelLoops == 1 .. 511
KernelAddress(align, loop) == U32(2 * align) * loop

\* A memory map has no overlaps.
ASSUME LinuxAssumption ==
  /\ E820Max \in Nat /\ KernelAligns \subseteq Nat /\ \A f \in LinuxFree : f \subseteq Nat
  /\ LinuxMasks \subseteq Nat \X Nat
  /\ \A map \in LinuxMaps :
       /\ map \in Seq([type : STRING, start : Nat, pages : Nat])
       /\ \A i, j \in DOMAIN map : i < j => \/ map[i].start + map[i].pages <= map[j].start
                                           \/ map[j].start + map[j].pages <= map[i].start

VARIABLES
  lHdr,      \* the header: [sig, version, reloc, align, ramdiskMax, handover]
  lFree,     \* free megabytes
  lPtr,      \* header fields: [kernel, cmdline, initrd] of 32 bits, in megabytes; 0 none
  lReal,     \* the addresses those were made from
  lScreen,   \* <<mask, position, size>> of a colour
  lMap, lIndex, lDesc,       \* the memory map, the loop counter and the descriptor looked at
  lE820, lLastEnd,           \* the table so far and LastEndAddr
  lPc

lVars == <<lHdr, lFree, lPtr, lReal, lScreen, lMap, lIndex, lDesc, lE820, lLastEnd, lPc>>

Headers == [sig : BOOLEAN, version : {516, 517, 523, 524}, reloc : BOOLEAN, align : KernelAligns,
            ramdiskMax : {896}, handover : BOOLEAN]

LInit ==
  /\ lHdr \in Headers /\ lFree \in LinuxFree /\ lMap \in LinuxMaps
  /\ lMap # <<>> => lHdr.sig /\ lHdr.reloc /\ lHdr.version = 524 /\ ~lHdr.handover    \* looked at
  /\ lPtr = [kernel |-> 0, cmdline |-> 0, initrd |-> 0] /\ lReal = lPtr
  /\ lScreen = <<0, 0, 0>> /\ lIndex = 0 /\ lDesc = 1 /\ lE820 = <<>> /\ lLastEnd = 0 /\ lPc = "check"

\* LoadLinuxCheckKernelSetup, repeated by every entry point through BasicKernelSetupCheck.
LoadLinuxCheckKernelSetup == lHdr.sig /\ lHdr.version >= 517 /\ lHdr.reloc     \* 0x205

CheckSetup ==
  /\ lPc = "check" /\ lPc' = IF LoadLinuxCheckKernelSetup THEN "alloc" ELSE "unsupported"
  /\ UNCHANGED <<lHdr, lFree, lPtr, lReal, lScreen, lMap, lIndex, lDesc, lE820, lLastEnd>>

\* LoadLinuxAllocateKernelPages: the first multiple of twice the alignment that is free.
LoadLinuxAllocateKernelPages(free) ==
  LET at == {n \in KernelLoops : KernelAddress(lHdr.align, n) \in free}
  IN  IF at = {} THEN 0 ELSE KernelAddress(lHdr.align, CHOOSE n \in at : \A m \in at : n <= m)

Below(free, max) == {a \in free : a < max /\ a > 0}

\* LoadLinuxAllocateCommandLinePages (below 0xa0000, shown as 1 MB), LoadLinuxAllocateInitrdPages,
\* and LoadLinuxSetCommandLine and LoadLinuxSetInitrd with what they return.
AllocateAndPoint ==
  /\ lPc = "alloc"
  /\ LET kernel == LoadLinuxAllocateKernelPages(lFree)
         low    == Below(lFree \ {kernel}, 2)
     IN  \/ /\ kernel # 0 /\ low # {} /\ Below(lFree \ {kernel}, lHdr.ramdiskMax) \ low # {}
            /\ \E initrd \in Below(lFree \ {kernel}, lHdr.ramdiskMax) \ low, cmdline \in low :
                 /\ lReal' = [kernel |-> kernel, cmdline |-> cmdline, initrd |-> initrd]
                 /\ lPtr'  = [f \in DOMAIN lReal' |-> U32(lReal'[f])]
                 /\ lPc'   = IF lHdr.version >= 524 /\ lHdr.handover THEN "efi" ELSE "screen"    \* 0x20c
         \/ /\ kernel = 0 \/ low = {} \/ Below(lFree \ {kernel}, lHdr.ramdiskMax) \ low = {}
            /\ lPc' = "nomemory" /\ UNCHANGED <<lPtr, lReal>>
  /\ UNCHANGED <<lHdr, lFree, lScreen, lMap, lIndex, lDesc, lE820, lLastEnd>>

\* FindBits: skips the zeros, counts the ones.
FindBits(mask) ==
  LET bit(k) == (mask \div Pow2[k]) % 2
      pos  == CHOOSE k \in 0 .. mask : bit(k) = 1 /\ \A j \in 0 .. k - 1 : bit(j) = 0
      size == CHOOSE n \in 1 .. mask : bit(pos + n) = 0 /\ \A j \in 0 .. n - 1 : bit(pos + j) = 1
  IN  IF mask = 0 THEN <<0, 0>> ELSE <<pos, size>>

MaskOf(run) == (Pow2[run[2]] - 1) * Pow2[run[1]]

\* SetupGraphics: a screen with a mask per colour; the fixed formats have 8 bits each.
SetupGraphics ==
  /\ lPc = "screen" /\ lPc' = "map"
  /\ \E run \in LinuxMasks :
       LET found == FindBits(MaskOf(run)) IN lScreen' = <<MaskOf(run), found[1], found[2]>>
  /\ UNCHANGED <<lHdr, lFree, lPtr, lReal, lMap, lIndex, lDesc, lE820, lLastEnd>>

(***************************************************************************)
(* SetupLinuxMemmap.  A descriptor without pages, or of a type e820 does   *)
(* not know, is passed by with `continue', which does not move on to the   *)
(* next descriptor.                                                        *)
(***************************************************************************)
E820Type(type) ==
  CASE type \in {"Reserved", "RuntimeServicesCode", "RuntimeServicesData", "MemoryMappedIO",
                "MemoryMappedIOPortSpace", "PalCode"} -> "RESERVED"
    [] type = "Unusable" -> "UNUSABLE"
    [] type = "ACPIReclaim" -> "ACPI"
    [] type \in {"LoaderCode", "LoaderData", "BootServicesCode", "BootServicesData", "Conventional"} -> "RAM"
    [] type = "ACPIMemoryNVS" -> "NVS"
    [] OTHER -> "none"

LastE820 == lE820[Len(lE820)]

\* Mutant: joins whatever is adjacent.
E820Step_AnyType ==
  /\ lPc = "map" /\ lIndex < Len(lMap)
  /\ LET d == lMap[lDesc]
     IN  IF d.pages = 0 \/ E820Type(d.type) = "none"
         THEN lIndex' = lIndex + 1 /\ UNCHANGED <<lDesc, lE820, lLastEnd, lPc>>
         ELSE IF lE820 # <<>> /\ d.start = lLastEnd
         THEN /\ lE820' = [lE820 EXCEPT ![Len(lE820)].size = @ + d.pages] /\ lLastEnd' = lLastEnd + d.pages
              /\ lIndex' = lIndex + 1 /\ lDesc' = lDesc + 1 /\ UNCHANGED lPc
         ELSE /\ lE820' = Append(lE820, [type |-> E820Type(d.type), addr |-> d.start, size |-> d.pages])
              /\ lLastEnd' = d.start + d.pages
              /\ lIndex' = lIndex + 1 /\ lDesc' = lDesc + 1 /\ UNCHANGED lPc
  /\ UNCHANGED <<lHdr, lFree, lPtr, lReal, lScreen, lMap>>

E820Step ==
  /\ lPc = "map" /\ lIndex < Len(lMap)
  /\ LET d == lMap[lDesc]
     IN  IF d.pages = 0 \/ E820Type(d.type) = "none"
         THEN lIndex' = lIndex + 1 /\ UNCHANGED <<lDesc, lE820, lLastEnd, lPc>>
         ELSE IF lE820 # <<>> /\ LastE820.type = E820Type(d.type) /\ d.start = lLastEnd
         THEN /\ lE820' = [lE820 EXCEPT ![Len(lE820)].size = @ + d.pages] /\ lLastEnd' = lLastEnd + d.pages
              /\ lIndex' = lIndex + 1 /\ lDesc' = lDesc + 1 /\ UNCHANGED lPc
         ELSE IF Len(lE820) >= E820Max
         THEN lPc' = "exit" /\ UNCHANGED <<lIndex, lDesc, lE820, lLastEnd>>
         ELSE /\ lE820' = Append(lE820, [type |-> E820Type(d.type), addr |-> d.start, size |-> d.pages])
              /\ lLastEnd' = d.start + d.pages
              /\ lIndex' = lIndex + 1 /\ lDesc' = lDesc + 1 /\ UNCHANGED lPc
  /\ UNCHANGED <<lHdr, lFree, lPtr, lReal, lScreen, lMap>>

ExitBootServicesAndJump ==
  /\ lPc = "map" /\ lIndex = Len(lMap) /\ lPc' = "exit"
  /\ UNCHANGED <<lHdr, lFree, lPtr, lReal, lScreen, lMap, lIndex, lDesc, lE820, lLastEnd>>

LNext == CheckSetup \/ AllocateAndPoint \/ SetupGraphics \/ E820Step \/ ExitBootServicesAndJump

LSpec == LInit /\ [][LNext]_lVars

MapPages(t)  == UNION {{p \in d.start .. d.start + d.pages : p < d.start + d.pages} :
                       d \in {lMap[i] : i \in {j \in DOMAIN lMap : E820Type(lMap[j].type) = t}}}
E820Pages(e) == {p \in e.addr .. e.addr + e.size : p < e.addr + e.size}
Types == {"RESERVED", "UNUSABLE", "ACPI", "RAM", "NVS"}

(***************************************************************************)
(* The loop of SetupLinuxMemmap gets to the "next item" in each round, so  *)
(* that the finished table, unless it is full, describes every page of the *)
(* memory map that has a type e820 knows.                                  *)
(***************************************************************************)
E820DescribesAll ==
  lPc = "exit" =>
    \/ Len(lE820) = E820Max
    \/ \A t \in Types :
         MapPages(t) = UNION {E820Pages(lE820[i]) : i \in {j \in DOMAIN lE820 : lE820[j].type = t}}

(***************************************************************************)
(* The kernel is told where its command line and its initrd are, and, for  *)
(* an alignment of up to 4 MB, where it is itself: all the 511 addresses   *)
(* tried are then below 4 GB (a larger one may be cut to 32 bits in        *)
(* code32_start). The screen's masks are what they were; and the e820      *)
(* table describes no page otherwise than the memory map does, without     *)
(* overlaps, and all of it when every descriptor is of a known type and    *)
(* the table is long enough.                                               *)
(***************************************************************************)
LinuxIsToldTheTruth ==
  /\ lPtr.cmdline = lReal.cmdline /\ lPtr.initrd = lReal.initrd
  /\ lHdr.align <= 4 => lPtr.kernel = lReal.kernel
  /\ lPc = "map" => lScreen[1] = MaskOf(<<lScreen[2], lScreen[3]>>)
  /\ \A i, j \in DOMAIN lE820 : i # j => E820Pages(lE820[i]) \cap E820Pages(lE820[j]) = {}
  /\ \A i \in DOMAIN lE820 : E820Pages(lE820[i]) \subseteq MapPages(lE820[i].type)
  /\ (\A i \in DOMAIN lMap : lMap[i].pages > 0 /\ E820Type(lMap[i].type) # "none") =>
       E820DescribesAll
=============================================================================
