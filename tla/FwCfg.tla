-------------------------------- MODULE FwCfg --------------------------------
(***************************************************************************)
(* QemuFwCfgLib: the channel through which every phase reads the files     *)
(* QEMU offers.  The device keeps a selected item and an offset that each  *)
(* byte moved advances; the library moves bytes through an I/O port, an    *)
(* MMIO register of several widths, or a DMA descriptor that the host      *)
(* works on while the firmware polls.                                      *)
(*                                                                         *)
(* A call is the list of the device accesses it makes; the host's side of  *)
(* a DMA transfer is a step of its own.                                    *)
(***************************************************************************)
EXTENDS Integers, Sequences

CONSTANTS
  FwDir,         \* the file directory: a sequence of [name, item]
  FwNames,       \* names that a client looks for
  FwSizes,       \* transfer sizes
  FwMaxDma,      \* MAX_UINT32: the longest DMA transfer
  FwSkipChunk,   \* sizeof SkipBuffer
  MaxFwCalls     \* bound: calls in a behaviour

ASSUME FwCfgAssumption ==
  /\ FwSizes \subseteq Nat /\ FwMaxDma \in Nat /\ FwSkipChunk \in Nat \ {0}
  /\ FwDir \in Seq([name : STRING, item : Nat]) /\ FwNames \subseteq STRING

VARIABLES
  fMode,    \* which of the library's instances runs, and how it moves bytes
  fDev,     \* the device: [sel, off]
  fTodo,    \* the accesses the running call has left
  fWant,    \* what the callers have asked for so far: [sel, off]
  fDma,     \* the descriptor: 0 when idle, else the bytes the host has to move
  fHeld,    \* AccessBuffer, AccessMapping and DataMapping, as far as they exist
  fFound,   \* Item of the last QemuFwCfgFindFile, 0 for RETURN_NOT_FOUND
  fCalls

fVars == <<fMode, fDev, fTodo, fWant, fDma, fHeld, fFound, fCalls>>

Signature == 0
InterfaceVersion == 1
FileDir == 25      \* QemuFwCfgItemFileDir (0x19)

FwInit ==
  /\ fMode = "none" /\ fDev = [sel |-> 0, off |-> 0] /\ fWant = [sel |-> 0, off |-> 0]
  /\ fTodo = << >> /\ fDma = 0 /\ fHeld = {} /\ fFound = 0 /\ fCalls = 0

-----------------------------------------------------------------------------
(* One access: [do, n].                                                    *)

Do(do, n) == [do |-> do, n |-> n]

QemuFwCfgSelectItem(i) == <<Do("select", i)>>

\* k times the same accesses, and one that is made or not.
Times(k, ops) == [i \in 1 .. k * Len(ops) |-> ops[((i - 1) % Len(ops)) + 1]]
If(b, op)     == IF b THEN <<op>> ELSE << >>

\* Accesses of eight bytes, then the rest in smaller ones.
MmioReadBytes(n) ==
  Times(n \div 8, <<Do("move", 8)>>) \o If(n % 8 >= 4, Do("move", 4))
    \o If(n % 4 >= 2, Do("move", 2)) \o If(n % 2 = 1, Do("move", 1))

MmioWriteBytes(n) == Times(n, <<Do("move", 1)>>)
MmioSkipBytes(n)  ==
  Times(n \div FwSkipChunk, MmioReadBytes(FwSkipChunk))
    \o MmioReadBytes(n % FwSkipChunk)

AllocFwCfgDmaAccessBuffer   == <<Do("take", "AccessBuffer"), Do("take", "AccessMapping")>>
FreeFwCfgDmaAccessBuffer    == <<Do("drop", "AccessMapping"), Do("drop", "AccessBuffer")>>
MapFwCfgDmaDataBuffer       == <<Do("take", "DataMapping")>>
UnmapFwCfgDmaDataBuffer     == <<Do("drop", "DataMapping")>>

\* Mutant: the descriptor is released before the host is seen to be done.
InternalQemuFwCfgDmaBytesDxe_Early(n, skip) ==
  IF n = 0 THEN << >>
  ELSE IF fMode # "dxe-sev" THEN <<Do("start", n), Do("poll", n)>>
  ELSE AllocFwCfgDmaAccessBuffer \o (IF skip THEN << >> ELSE MapFwCfgDmaDataBuffer)
       \o <<Do("start", n)>> \o FreeFwCfgDmaAccessBuffer \o <<Do("poll", n)>>
       \o (IF skip THEN << >> ELSE UnmapFwCfgDmaDataBuffer)

\* With SEV the descriptor and the data go through shared memory.
InternalQemuFwCfgDmaBytesDxe(n, skip) ==
  IF n = 0 THEN << >>
  ELSE IF fMode # "dxe-sev" THEN <<Do("start", n), Do("poll", n)>>
  ELSE AllocFwCfgDmaAccessBuffer \o (IF skip THEN << >> ELSE MapFwCfgDmaDataBuffer)
       \o <<Do("start", n), Do("poll", n)>>
       \o FreeFwCfgDmaAccessBuffer \o (IF skip THEN << >> ELSE UnmapFwCfgDmaDataBuffer)

InternalQemuFwCfgDmaBytesPei(n) == IF n = 0 THEN << >> ELSE <<Do("start", n), Do("poll", n)>>
DmaTransferBytes(n)             == IF n = 0 THEN << >> ELSE <<Do("start", n), Do("poll", n)>>

DmaBytes(n, skip) ==
  CASE fMode \in {"dxe-dma", "dxe-sev"} -> InternalQemuFwCfgDmaBytesDxe(n, skip)
    [] fMode = "pei-dma"  -> InternalQemuFwCfgDmaBytesPei(n)
    [] fMode = "mmio-dma" -> DmaTransferBytes(n)

\* The signature did not match. (The port instances write the selector all the same.)
NoDevice == fMode \in {"unavailable", "io-unavailable"}

UsesDma(n) == \/ fMode \in {"dxe-dma", "dxe-sev", "pei-dma"} /\ n <= FwMaxDma
              \/ fMode = "mmio-dma"

-----------------------------------------------------------------------------
(* The public functions of QemuFwCfgLib.c and QemuFwCfgLibMmio.c.          *)

InternalQemuFwCfgReadBytes(n) ==
  IF UsesDma(n) THEN DmaBytes(n, FALSE)
  ELSE IF fMode = "mmio" THEN MmioReadBytes(n)
  ELSE <<Do("move", n)>>                            \* IoReadFifo8

\* Nothing reaches the device, and the buffer is zeroed, when there is none.
QemuFwCfgReadBytes(n) ==
  IF NoDevice THEN << >> ELSE InternalQemuFwCfgReadBytes(n)

QemuFwCfgWriteBytes(n) ==
  CASE NoDevice      -> << >>
    [] UsesDma(n)    -> DmaBytes(n, FALSE)
    [] fMode = "mmio" -> MmioWriteBytes(n)
    [] OTHER         -> <<Do("move", n)>>

\* The port is read in chunks as long as the buffer on the stack.
QemuFwCfgSkipBytes(n) ==
  CASE NoDevice      -> << >>
    [] UsesDma(n)    -> DmaBytes(n, TRUE)
    [] fMode = "mmio" -> MmioSkipBytes(n)
    [] OTHER -> Times(n \div FwSkipChunk, <<Do("move", FwSkipChunk)>>)
                  \o If(n % FwSkipChunk > 0, Do("move", n % FwSkipChunk))

QemuFwCfgRead32 == QemuFwCfgReadBytes(4)
QemuFwCfgRead16 == QemuFwCfgReadBytes(2)

\* FileSize, FileSelect, FileReserved and FName of one directory entry.
DirEntry == QemuFwCfgRead32 \o QemuFwCfgRead16 \o QemuFwCfgRead16
              \o InternalQemuFwCfgReadBytes(56)

\* The entries up to and including the first with that name.
EntriesRead(name) ==
  LET hits == {i \in DOMAIN FwDir : FwDir[i].name = name}
  IN  IF hits = {} THEN Len(FwDir) ELSE CHOOSE i \in hits : \A j \in hits : i <= j

QemuFwCfgFindFile(name) ==
  IF NoDevice THEN << >>
  ELSE QemuFwCfgSelectItem(FileDir) \o QemuFwCfgRead32
         \o Times(EntriesRead(name), DirEntry)
         \o <<Do("found", EntriesRead(name))>>

\* The instance for SEC keeps no state: it selects and reads two items.
QemuFwCfgIsAvailableSec ==
  QemuFwCfgSelectItem(Signature) \o QemuFwCfgRead32
    \o QemuFwCfgSelectItem(InterfaceVersion) \o QemuFwCfgRead32

(***************************************************************************)
(* QemuFwCfgInitialize of each instance: what the signature, the revision, *)
(* memory encryption and the device tree's register size make it use, and  *)
(* where the probing leaves the device: <<mode, item, offset>>.            *)
(***************************************************************************)
QemuFwCfgInitializeDxe(sig, dma, sev) ==
  <<IF ~sig THEN "io-unavailable" ELSE IF ~dma THEN "io" ELSE IF sev THEN "dxe-sev" ELSE "dxe-dma",
    InterfaceVersion, 4>>

QemuFwCfgInitializePei(sig, dma, sev) ==
  <<IF ~sig THEN "io-unavailable" ELSE IF ~dma \/ sev THEN "io" ELSE "pei-dma", InterfaceVersion, 4>>

QemuFwCfgInitializeMmio(sig, dma, dmaReg) ==
  IF ~sig THEN <<"unavailable", Signature, 4>>
  ELSE IF dmaReg THEN <<IF dma THEN "mmio-dma" ELSE "mmio", InterfaceVersion, 4>>
  ELSE <<"mmio", Signature, 4>>

\* The instance for SEC probes nothing yet; MMIO without a device tree node finds no device.
FwStart ==
  /\ fMode = "none"
  /\ \E sig, dma, x \in BOOLEAN :
       \E start \in {QemuFwCfgInitializeDxe(sig, dma, x), QemuFwCfgInitializePei(sig, dma, x),
                     QemuFwCfgInitializeMmio(sig, dma, x), <<"unavailable", 0, 0>>, <<"sec", 0, 0>>} :
         fMode' = start[1] /\ fDev' = [sel |-> start[2], off |-> start[3]]
  /\ fWant' = fDev'
  /\ UNCHANGED <<fTodo, fDma, fHeld, fFound, fCalls>>

FwIdle == fMode # "none" /\ fTodo = << >>

FwCall(ops, want) ==
  /\ FwIdle /\ fCalls < MaxFwCalls
  /\ fTodo' = ops /\ fCalls' = fCalls + 1 /\ fWant' = want
  /\ UNCHANGED <<fMode, fDev, fDma, fHeld, fFound>>

FwMembers ==
  \/ \E i \in {1, FileDir} :
       IF fMode = "unavailable" THEN FwCall(<< >>, fWant)        \* QemuFwCfgSelectItemMmio
       ELSE FwCall(QemuFwCfgSelectItem(i), [sel |-> i, off |-> 0])
  \/ \E n \in FwSizes : \E ops \in {QemuFwCfgReadBytes(n), QemuFwCfgWriteBytes(n),
                                    QemuFwCfgSkipBytes(n)} :
       /\ fMode = "mmio-dma" => n <= FwMaxDma       \* DmaTransferBytes: ASSERT
       /\ FwCall(ops, IF NoDevice THEN fWant ELSE [fWant EXCEPT !.off = @ + n])
  \/ \E name \in FwNames :
       FwCall(QemuFwCfgFindFile(name),
              IF NoDevice THEN fWant ELSE [sel |-> FileDir, off |-> 4 + 64 * EntriesRead(name)])
  \/ /\ fMode = "sec"
     /\ FwCall(QemuFwCfgIsAvailableSec, [sel |-> InterfaceVersion, off |-> 4])

\* A poll returns only when the host has cleared Access->Control.
FwAccess ==
  /\ fTodo # << >>
  /\ fTodo' = Tail(fTodo)
  /\ LET a == Head(fTodo)
     IN  /\ a.do = "poll" => fDma = 0
         /\ fDev' = CASE a.do = "select" -> [sel |-> a.n, off |-> 0]
                      [] a.do = "move"   -> [fDev EXCEPT !.off = @ + a.n]
                      [] OTHER           -> fDev
         /\ fDma' = IF a.do = "start" THEN a.n ELSE fDma
         /\ fHeld' = CASE a.do = "take" -> fHeld \cup {a.n}
                       [] a.do = "drop" -> fHeld \ {a.n}
                       [] OTHER         -> fHeld
         /\ fFound' = IF a.do # "found" THEN fFound
                      ELSE IF a.n \in DOMAIN FwDir THEN FwDir[a.n].item ELSE 0
  /\ UNCHANGED <<fMode, fWant, fCalls>>

\* The host moves the bytes and clears the control word.
HostDma ==
  /\ fDma > 0
  /\ fDev' = [fDev EXCEPT !.off = @ + fDma]
  /\ fDma' = 0
  /\ UNCHANGED <<fMode, fTodo, fWant, fHeld, fFound, fCalls>>

FwNext == FwStart \/ FwMembers \/ FwAccess \/ HostDma

FwSpec == FwInit /\ [][FwNext]_fVars

-----------------------------------------------------------------------------
(***************************************************************************)
(* While the host has a DMA descriptor to work on, the shared buffers that *)
(* hold the descriptor and, unless it is a skip, the data exist.           *)
(***************************************************************************)
DmaBacked ==
  fDma > 0 /\ fMode = "dxe-sev" =>
    /\ {"AccessBuffer", "AccessMapping"} \subseteq fHeld
    /\ (\E i \in DOMAIN fTodo : fTodo[i].do = "drop" /\ fTodo[i].n = "DataMapping") =>
         "DataMapping" \in fHeld

(***************************************************************************)
(* Between calls the device is at the item and the offset that the calls   *)
(* made so far ask for, whichever instance of the library moved the bytes, *)
(* in whatever pieces; so the next read returns the bytes its caller means.*)
(* Within a call no shared buffer is freed that the host is working on.    *)
(***************************************************************************)
FwCfgInStep == /\ FwIdle => fDev = fWant /\ fHeld = {} /\ fDma = 0
               /\ DmaBacked
=============================================================================
