------------------------------- MODULE QemuFlash -------------------------------
(***************************************************************************)
(* QemuFlashFvbServicesRuntimeDxe: firmware volume block services over     *)
(* QEMU's emulated flash: the probe, reads, byte programming and block     *)
(* erase, the attributes, the repair of the variable store's header and the change to *)
(* virtual addresses.  A cell holds "FF" (erased), data, or the value of a *)
(* command; "CLEARED" is CLEARED_ARRAY_STATUS, which is 0.                 *)
(***************************************************************************)
EXTENDS Naturals, Sequences

CONSTANTS
  FdBlockSize, FdBlockCount,   \* mFdBlockSize, mFdBlockCount
  FvBlocks,                    \* blocks of the variable store, from 0
  FvbHeader,                   \* the bytes of a valid header
  FvbAttributeSets,            \* attributes a header in flash may carry
  FvbWrites,                   \* the writes asked for: <<lba, offset, data>>
  MaxFvbCalls                  \* bound: calls after initialization

\* The three status bits of a volume, and the states of them that its capabilities allow.
FVB2_STATUS == {"READ_STATUS", "WRITE_STATUS", "LOCK_STATUS"}

StatusAllowed(caps, new) ==
  /\ "READ_DISABLED_CAP" \in caps \/ "READ_STATUS" \in new
  /\ "READ_ENABLED_CAP" \in caps \/ "READ_STATUS" \notin new
  /\ "WRITE_DISABLED_CAP" \in caps \/ "WRITE_STATUS" \in new
  /\ "WRITE_ENABLED_CAP" \in caps \/ "WRITE_STATUS" \notin new
  /\ "LOCK_CAP" \in caps \/ "LOCK_STATUS" \notin new

\* The header in flash allows the state it gives, and no caller writes past the end of the flash,
\* which nothing checks.
ASSUME QemuFlashAssumption ==
  /\ {FdBlockSize, FdBlockCount, FvBlocks} \subseteq Nat \ {0} /\ MaxFvbCalls \in Nat
  /\ FvBlocks <= FdBlockCount /\ FvbHeader \in Seq(STRING) /\ Len(FvbHeader) <= FdBlockSize
  /\ \A attrs \in FvbAttributeSets : "none" \notin attrs /\ StatusAllowed(attrs, attrs \cap FVB2_STATUS)
  /\ \A w \in FvbWrites :
       /\ w \in Nat \X Nat \X Seq(STRING)
       /\ w[1] < FdBlockCount => w[1] * FdBlockSize + w[2] + Len(w[3]) <= FdBlockSize * FdBlockCount

VARIABLES
  qKind,    \* what is behind the address range: "flash", "ram" or "rom"
  qSevEs,   \* MemEncryptSevEsIsEnabled
  qCells,   \* address -> byte
  qMode,    \* of the chip: "array", "status", "write" (next byte is data), "erase"
  qBase,    \* mFlashBase: "phys" or "virt"
  qEsBase,  \* mSevEsFlashPhysBase: "none", "phys" or "virt"
  qAttrs,   \* VolumeHeader.Attributes; {"none"} before FvbInitialize
  qFrozen,  \* ghost: the attributes when the volume was locked
  qLast,    \* ghost: what changed cells last, "program" or "erase"
  qCall,    \* the last call, with the bytes written or read
  qRet,     \* what it returned
  qBefore,  \* ghost: qCells when it was made
  qCalls    \* bounded count

qVars == <<qKind, qSevEs, qCells, qMode, qBase, qEsBase, qAttrs, qFrozen, qLast, qCall, qRet, qBefore, qCalls>>

FdBytes == 0..FdBlockSize * FdBlockCount - 1
NoCall == [op |-> "", lba |-> 0, off |-> 0, data |-> <<>>]
HeaderIn(c) == \A i \in DOMAIN FvbHeader : c[i - 1] = FvbHeader[i]

QInit ==
  /\ qKind \in {"flash", "ram", "rom"} /\ qSevEs \in BOOLEAN
  /\ qCells \in {[a \in FdBytes |-> IF a < Len(FvbHeader) THEN FvbHeader[a + 1] ELSE "B"]}
               \cup {[a \in FdBytes |-> v] : v \in {"FF", "CLEARED"}}
  /\ qMode = "array" /\ qBase = "phys" /\ qEsBase = "none"
  /\ qAttrs = {"none"} /\ qFrozen = {} /\ qLast = "" /\ qCall = NoCall /\ qRet = "" /\ qBefore = qCells /\ qCalls = 0

(***************************************************************************)
(* A byte written to the range: <<cells, mode>> after it.                  *)
(***************************************************************************)
ChipWrite(s, a, v) ==
  LET c == s[1]
      m == s[2]
  IN  IF qKind = "ram" THEN <<[c EXCEPT ![a] = v], "array">>
      ELSE IF qKind = "rom" THEN s
      ELSE IF m = "write" THEN <<[c EXCEPT ![a] = v], "status">>
      ELSE IF m = "erase" /\ v = "BLOCK_ERASE_CONFIRM"
      THEN <<[x \in FdBytes |-> IF x \div FdBlockSize = a \div FdBlockSize THEN "FF" ELSE c[x]], "status">>
      ELSE <<c, CASE v = "WRITE_BYTE"  -> "write"
                  [] v = "BLOCK_ERASE" -> "erase"
                  [] v \in {"READ_ARRAY", "CLEAR_STATUS"} -> "array"
                  [] OTHER -> "status">>

\* A byte read.
ChipRead(s, a) == IF qKind = "flash" /\ s[2] # "array" THEN "CLEARED" ELSE s[1][a]

(***************************************************************************)
(* QemuFlashDetected: a byte that is none of the probe's own values is     *)
(* overwritten with two commands; what reads back tells RAM and ROM, which *)
(* get the byte back, from flash, which is set to read mode.  Under SEV-ES *)
(* the probe would fault, and flash is assumed.                            *)
(***************************************************************************)
Probes(c) == {a \in 0..FdBlockSize - 1 : c[a] \notin {"CLEAR_STATUS", "READ_STATUS", "CLEARED"}}

QemuFlashProbe(c, a) ==
  LET s0 == <<c, "array">>
      s1 == ChipWrite(s0, a, "CLEAR_STATUS")
      s2 == ChipWrite(s1, a, "READ_STATUS")
  IN  IF ChipRead(s1, a) = "CLEAR_STATUS" THEN [found |-> FALSE, s |-> ChipWrite(s1, a, c[a])]
      ELSE CASE ChipRead(s2, a) = c[a]          -> [found |-> FALSE, s |-> s2]
             [] ChipRead(s2, a) = "READ_STATUS" -> [found |-> FALSE, s |-> ChipWrite(s2, a, c[a])]
             [] ChipRead(s2, a) = "CLEARED"     -> [found |-> TRUE, s |-> ChipWrite(s2, a, "READ_ARRAY")]

QemuFlashDetected(c) ==
  IF Probes(c) = {} \/ qSevEs THEN [found |-> Probes(c) # {}, s |-> <<c, "array">>]
  ELSE QemuFlashProbe(c, CHOOSE a \in Probes(c) : \A b \in Probes(c) : a <= b)

(***************************************************************************)
(* QemuFlashPtrWrite.  Under SEV-ES the address given to the hypervisor is *)
(* physical: after the change to virtual addresses it is computed from the *)
(* base kept by QemuFlashConvertPointers.                                  *)
(***************************************************************************)
PhysicalBase == IF ~qSevEs THEN "phys"                       \* translated by the page tables
                ELSE IF qEsBase = "none" THEN qBase ELSE qEsBase

QemuFlashPtrWrite(s, a, v) == IF PhysicalBase = "phys" THEN ChipWrite(s, a, v) ELSE s

WriteBytes(s, a, data) ==
  LET after[n \in 0..Len(data)] ==
        IF n = 0 THEN s
        ELSE QemuFlashPtrWrite(QemuFlashPtrWrite(after[n - 1], a + (n - 1), "WRITE_BYTE"), a + (n - 1), data[n])
  IN  after[Len(data)]

QemuFlashWrite(s, lba, off, data) ==
  LET a == lba * FdBlockSize + off
      w == WriteBytes(s, a, data)
  IN  IF lba >= FdBlockCount THEN [st |-> "INVALID_PARAMETER", s |-> s]
      ELSE [st |-> "SUCCESS",
            s |-> IF data = <<>> THEN w ELSE QemuFlashPtrWrite(w, a + Len(data) - 1, "READ_ARRAY")]

QemuFlashEraseBlock(s, lba) ==
  IF lba >= FdBlockCount THEN [st |-> "INVALID_PARAMETER", s |-> s]
  ELSE [st |-> "SUCCESS", s |-> QemuFlashPtrWrite(QemuFlashPtrWrite(s, lba * FdBlockSize, "BLOCK_ERASE"),
                                                  lba * FdBlockSize, "BLOCK_ERASE_CONFIRM")]

\* The blocks of a range one after the other, up to the first that fails.
EraseFrom(s, lba, n) ==
  LET after[i \in 0..n] ==
        IF i = 0 THEN [st |-> "SUCCESS", s |-> s]
        ELSE IF after[i - 1].st = "SUCCESS" THEN QemuFlashEraseBlock(after[i - 1].s, lba + (i - 1))
        ELSE after[i - 1]
  IN  after[n]

(***************************************************************************)
(* FvbInitialize, with InitializeVariableFvHeader: a store whose header is *)
(* not valid is erased and given a good one.  The volume's attributes are  *)
(* copied from the header in flash.                                        *)
(***************************************************************************)
InitializeVariableFvHeader(s) ==
  IF HeaderIn(s[1]) THEN s
  ELSE QemuFlashWrite(EraseFrom(s, 0, FvBlocks).s, 0, 0, FvbHeader).s

FvbInitialize ==
  /\ qAttrs = {"none"} /\ qRet = ""
  /\ LET d == QemuFlashDetected(qCells)
         s == InitializeVariableFvHeader(d.s)
     IN  \/ /\ ~d.found
            /\ qCells' = d.s[1] /\ qMode' = d.s[2] /\ qRet' = "WRITE_PROTECTED" /\ UNCHANGED qAttrs
         \/ /\ d.found
            /\ qCells' = s[1] /\ qMode' = s[2] /\ qRet' = "SUCCESS"
            /\ qAttrs' \in FvbAttributeSets
  /\ qCall' = [NoCall EXCEPT !.op = "init"]
  /\ qLast' = "program"
  /\ UNCHANGED <<qKind, qSevEs, qBase, qEsBase, qFrozen, qBefore, qCalls>>

FvbCall(call) ==
  /\ "none" \notin qAttrs /\ qCalls < MaxFvbCalls /\ qCalls' = qCalls + 1
  /\ qCall' = call /\ qBefore' = qCells

\* QemuFlashRead copies what the chip answers; nothing looks at its mode, the block's end or the attributes.
FvbProtocolRead(lba, off, n) ==
  /\ FvbCall([op |-> "read", lba |-> lba, off |-> off,
              data |-> IF lba >= FdBlockCount THEN <<>>
                       ELSE [k \in 1..n |-> ChipRead(<<qCells, qMode>>, lba * FdBlockSize + off + (k - 1))]])
  /\ qRet' = IF lba >= FdBlockCount THEN "INVALID_PARAMETER" ELSE "SUCCESS"
  /\ UNCHANGED <<qKind, qSevEs, qCells, qMode, qBase, qEsBase, qAttrs, qFrozen, qLast>>

FvbProtocolWrite(lba, off, data) ==
  LET w == QemuFlashWrite(<<qCells, qMode>>, lba, off, data)
  IN  /\ FvbCall([op |-> "write", lba |-> lba, off |-> off, data |-> data])
      /\ qCells' = w.s[1] /\ qMode' = w.s[2] /\ qRet' = w.st
      /\ qLast' = IF w.st = "SUCCESS" /\ data # <<>> THEN "program" ELSE qLast
      /\ UNCHANGED <<qKind, qSevEs, qBase, qEsBase, qAttrs, qFrozen>>

\* All the pairs are checked against the volume first; NumOfBlocks is FvBlocks.
FvbProtocolEraseBlocks(lba, n) ==
  LET e == EraseFrom(<<qCells, qMode>>, lba, n)
  IN  /\ FvbCall([op |-> "erase", lba |-> lba, off |-> n, data |-> <<>>])
      /\ IF n = 0 \/ lba + n > FvBlocks
         THEN qRet' = "INVALID_PARAMETER" /\ UNCHANGED <<qCells, qMode, qLast>>
         ELSE qCells' = e.s[1] /\ qMode' = e.s[2] /\ qRet' = e.st /\ qLast' = "erase"
      /\ UNCHANGED <<qKind, qSevEs, qBase, qEsBase, qAttrs, qFrozen>>

(***************************************************************************)
(* FvbSetVolumeAttributes: only the three status bits may change, each     *)
(* only to a state the capabilities allow, and none once locked.           *)
(***************************************************************************)
FvbSetVolumeAttributes(attrs) ==
  LET new == attrs \cap FVB2_STATUS
      old == qAttrs \cap FVB2_STATUS
  IN  CASE qAttrs \ FVB2_STATUS # attrs \ FVB2_STATUS -> "INVALID_PARAMETER"
        [] qAttrs \ FVB2_STATUS = attrs \ FVB2_STATUS /\ "LOCK_STATUS" \in old /\ old # new -> "ACCESS_DENIED"
        [] OTHER -> IF StatusAllowed(qAttrs, new) THEN "SUCCESS" ELSE "INVALID_PARAMETER"

FvbProtocolSetAttributes(attrs) ==
  /\ FvbCall([NoCall EXCEPT !.op = "attributes"])
  /\ qRet' = FvbSetVolumeAttributes(attrs)
  /\ qAttrs' = IF qRet' = "SUCCESS" THEN attrs ELSE qAttrs
  /\ qFrozen' = IF "LOCK_STATUS" \in qAttrs' \ qAttrs THEN qAttrs' ELSE qFrozen
  /\ UNCHANGED <<qKind, qSevEs, qCells, qMode, qBase, qEsBase, qLast>>

\* Mutant: the physical base is kept after it was converted.
FvbVirtualAddressChangeEvent_Late ==
  /\ "none" \notin qAttrs /\ qBase = "phys"
  /\ qBase' = "virt"
  /\ qEsBase' = IF qSevEs THEN qBase' ELSE qEsBase
  /\ UNCHANGED <<qKind, qSevEs, qCells, qMode, qAttrs, qFrozen, qLast, qCall, qRet, qBefore, qCalls>>

\* FvbVirtualAddressChangeEvent with QemuFlashConvertPointers.
FvbVirtualAddressChangeEvent ==
  /\ "none" \notin qAttrs /\ qBase = "phys"
  /\ qEsBase' = IF qSevEs THEN qBase ELSE qEsBase
  /\ qBase' = "virt"
  /\ UNCHANGED <<qKind, qSevEs, qCells, qMode, qAttrs, qFrozen, qLast, qCall, qRet, qBefore, qCalls>>

QNext ==
  \/ FvbInitialize \/ FvbVirtualAddressChangeEvent
  \/ \E w \in FvbWrites : FvbProtocolWrite(w[1], w[2], w[3]) \/ FvbProtocolRead(w[1], w[2], Len(w[3]))
  \/ \E lba \in 0..FvBlocks, n \in 0..2 : FvbProtocolEraseBlocks(lba, n)
  \/ \E on, off \in SUBSET FVB2_STATUS :
       FvbProtocolSetAttributes((qAttrs \ off) \cup on)
  \/ FvbProtocolSetAttributes(qAttrs \cup {"LOCK_CAP", "READ_DISABLED_CAP"})

QSpec == QInit /\ [][QNext]_qVars

\* The contents of the range read.
ContentsRead == [k \in DOMAIN qCall.data |-> qCells[qCall.lba * FdBlockSize + qCall.off + (k - 1)]]

(***************************************************************************)
(* The probe tells flash from memory and leaves either as it was; a write  *)
(* or erase that reports success has changed exactly its range, also after *)
(* the change to virtual addresses and under SEV-ES, and one that does not *)
(* has changed nothing.  Unless the last change was an erase the chip is   *)
(* left to be read as memory, and a read returns the contents.  The        *)
(* volume's status agrees with its capabilities and is final once locked.  *)
(* This is what the code does, and more than FwBlockService.c:638, :746    *)
(* and :796 allow: the status bits are kept but gate nothing, so a write,  *)
(* an erase or a read is carried out on a volume with WRITE_STATUS or      *)
(* READ_STATUS clear (documented: EFI_ACCESS_DENIED), and a transfer runs  *)
(* on over the end of its block (documented: EFI_BAD_BUFFER_SIZE).         *)
(***************************************************************************)
QemuFlashAsAsked ==
  /\ (qCall.op = "init" /\ ~qSevEs) =>
       (qRet = "SUCCESS") = (qKind = "flash" /\ Probes(qBefore) # {})
  /\ (qCall.op = "init" /\ qRet = "WRITE_PROTECTED") => qCells = qBefore
  /\ (qKind = "flash" /\ qRet = "SUCCESS") =>
       CASE qCall.op = "init" -> HeaderIn(qCells) /\ (HeaderIn(qBefore) => qCells = qBefore)
         [] qCall.op = "write" ->
              qCells = [a \in FdBytes |->
                LET k == a + 1 - (qCall.lba * FdBlockSize + qCall.off)
                IN  IF k \in DOMAIN qCall.data THEN qCall.data[k] ELSE qBefore[a]]
         [] qCall.op = "erase" ->
              qCells = [a \in FdBytes |-> IF a \div FdBlockSize \in qCall.lba..(qCall.lba + qCall.off - 1)
                                         THEN "FF" ELSE qBefore[a]]
         [] qCall.op = "read" -> qLast # "erase" => qCall.data = ContentsRead
         [] OTHER -> TRUE
  /\ qRet = "INVALID_PARAMETER" => qCells = qBefore
  /\ (qKind = "flash" /\ qLast # "erase") => qMode = "array"
  /\ qMode \in {"array", "status"}
  /\ "none" \notin qAttrs => StatusAllowed(qAttrs, qAttrs \cap FVB2_STATUS)
  /\ qFrozen # {} => qAttrs = qFrozen

(***************************************************************************)
(* FvbProtocolRead (FwBlockService.c:791): "EFI_SUCCESS - The firmware     *)
(* volume was read successfully and contents are in Buffer".               *)
(***************************************************************************)
ContentsAreRead == (qKind = "flash" /\ qCall.op = "read" /\ qRet = "SUCCESS") => qCall.data = ContentsRead
=============================================================================
