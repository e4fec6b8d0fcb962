------------------------------- MODULE NorFlash -------------------------------
(***************************************************************************)
(* VirtNorFlashStandaloneMm: the firmware volume block protocol over a P30 *)
(* NOR flash chip.  A cell is one byte of which one bit is followed: 1     *)
(* after an erase, and programming can only clear it.  The chip may fail   *)
(* any command, and power may be lost between two of them.                 *)
(***************************************************************************)
EXTENDS Naturals, Sequences

CONSTANTS
  BufferBytes,   \* P30_MAX_BUFFER_SIZE_IN_BYTES
  BlockSize,     \* Instance->BlockSize
  LastBlock,     \* Instance->LastBlock
  NorWrites,     \* the writes asked for: [lba, off, data]
  NorErases,     \* the lists of <<first block, blocks>> to erase
  NorHeaders,    \* what InitializeFvAndVariableStoreHeaders writes at 0
  ERASE_RETRY,   \* NOR_FLASH_ERASE_RETRY
  MaxNorFaults   \* bound: failing commands and losses of power

ASSUME NorAssumption ==
  /\ {BufferBytes, BlockSize, ERASE_RETRY} \subseteq Nat \ {0}
  /\ {LastBlock, MaxNorFaults} \subseteq Nat
  /\ BlockSize % BufferBytes = 0
  /\ NorHeaders \in Seq({0, 1}) /\ Len(NorHeaders) <= BlockSize
  /\ NorWrites \subseteq [lba : Nat, off : Nat, data : Seq({0, 1})] /\ NorErases \subseteq Seq(Nat \X Nat)

VARIABLES
  nCells,    \* block -> byte -> bit
  nLocked,   \* blocks that are locked, as after power on
  nSr,       \* error bits of the status register: they stay until cleared
  nMode,     \* what a read of the chip returns: "array", "status" or "id"
  nShadow,   \* ShadowBuffer
  nJob,      \* the call being served
  nTodo,     \* the commands it still has to give
  nRetry,    \* erase attempts so far
  nRet,      \* how the last call ended; "" while one is served
  nBefore,   \* ghost: nCells when the call began
  nFaults    \* bounded count

nVars == <<nCells, nLocked, nSr, nMode, nShadow, nJob, nTodo, nRetry, nRet, nBefore, nFaults>>

NorBlocks == 0..LastBlock
NorBytes  == 0..BlockSize - 1
Erased == [i \in NorBytes |-> 1]
NoJob == [call |-> "", lba |-> 0, off |-> 0, data |-> <<>>]

\* The driver is not initialized (""): the header cells may hold anything.
NorInit ==
  /\ \E h \in {0, 1} : nCells = [b \in NorBlocks |-> [i \in NorBytes |-> IF b = 0 THEN h ELSE 0]]
  /\ nLocked = NorBlocks /\ nSr = {} /\ nMode = "array" /\ nShadow = Erased
  /\ nJob = NoJob /\ nTodo = <<>> /\ nRetry = 0 /\ nRet = "off"
  /\ nBefore = nCells /\ nFaults = 0

Overlay(block, off, data) ==
  [i \in NorBytes |-> IF i >= off /\ i < off + Len(data) THEN data[i - off + 1] ELSE block[i]]

AlignDown(off) == off - (off % BufferBytes)      \* Offset & ~BOUNDARY_OF_32_WORDS

\* Commands: erase n blocks from b on; program the buffer at `at' with ShadowBuffer + from.
Erase(b, n) == [do |-> "erase", lba |-> b, n |-> n, at |-> 0, from |-> 0]
Program(b, at, from) == [do |-> "program", lba |-> b, n |-> 1, at |-> at, from |-> from]

\* NorFlashWriteFullBlock: erase, then every buffer; one that is all ones is passed over.
NorFlashWriteFullBlock(b, buffer) ==
  LET at(k) == (k - 1) * BufferBytes
  IN  <<Erase(b, 1)>> \o [k \in 1..BlockSize \div BufferBytes |->
        [Program(b, at(k), at(k)) EXCEPT
           !.do = IF \E i \in 0..BufferBytes - 1 : buffer[at(k) + i] = 0 THEN @ ELSE "skip"]]

Serves(job, todo, shadow) ==
  /\ nJob' = job /\ nTodo' = todo /\ nShadow' = shadow /\ nRet' = ""
  /\ nRetry' = 0 /\ nBefore' = nCells

Refuses(job, ret) ==
  /\ nJob' = job /\ nTodo' = <<>> /\ nRet' = ret /\ nBefore' = nCells
  /\ UNCHANGED <<nRetry, nShadow>>

\* Mutant: the old contents around the new bytes are not read.
ReadLength_Exact(len) == len

(***************************************************************************)
(* NorFlashWriteSingleBlock.  A short write that clears bits only is       *)
(* programmed in place, in the one or two buffers it touches, from the     *)
(* shadow buffer; NorFlashRead has put (NumBytes | 0x7F) + 1 bytes of the  *)
(* old contents there.  Any other write reads, erases and rewrites.        *)
(***************************************************************************)
ReadLength(len) == (len \div BufferBytes + 1) * BufferBytes

InPlace(off, len) == len + (off % BufferBytes) <= 2 * BufferBytes

BadSize(off, len) == off >= BlockSize \/ len > BlockSize \/ off + len > BlockSize \/ len = 0

InFlash(lba, off, len) == lba * BlockSize + off + len <= (LastBlock + 1) * BlockSize

\* The byte at an offset that may run into the next block.
ByteAt(lba, off) == nCells[lba + off \div BlockSize][off % BlockSize]

NorFlashRead(lba, off, len) ==
  [i \in NorBytes |-> IF i < len THEN ByteAt(lba, off + i) ELSE nShadow[i]]

NorFlashWriteSingleBlock(job) ==
  LET off == job.off
      len == Len(job.data)
      at  == off % BufferBytes
      readable == InFlash(job.lba, AlignDown(off), ReadLength(len))
      old  == NorFlashRead(job.lba, AlignDown(off), ReadLength(len))
      sets == \E i \in 1..len : old[at + i - 1] = 0 /\ job.data[i] = 1
      full == Overlay(nCells[job.lba], off, job.data)
  IN  \/ BadSize(off, len) /\ Refuses(job, "BAD_BUFFER_SIZE")
      \/ /\ ~BadSize(off, len)
         /\ IF InPlace(off, len) THEN ~readable ELSE job.lba > LastBlock
         /\ Refuses(job, "DEVICE_ERROR")
      \/ /\ ~BadSize(off, len) /\ InPlace(off, len) /\ readable /\ ~sets
         /\ Serves(job, [k \in 1..(IF len + at > BufferBytes THEN 2 ELSE 1) |->
                           Program(job.lba, AlignDown(off) + (k - 1) * BufferBytes, (k - 1) * BufferBytes)],
                   Overlay(old, at, job.data))
      \/ /\ ~BadSize(off, len)
         /\ IF InPlace(off, len) THEN readable /\ sets ELSE job.lba <= LastBlock
         /\ Serves(job, NorFlashWriteFullBlock(job.lba, full), full)

Idle == nRet \notin {"", "off"}

FvbWrite(w) ==
  /\ Idle
  /\ NorFlashWriteSingleBlock([call |-> "write", lba |-> w.lba, off |-> w.off, data |-> w.data])
  /\ nMode' = "array"
  /\ UNCHANGED <<nCells, nLocked, nSr, nFaults>>

\* FvbEraseBlocks: every pair of the list is checked before the first erase.
BadPair(p) == p[2] = 0 \/ p[1] + p[2] - 1 > LastBlock
EraseList(pairs) == [k \in DOMAIN pairs |-> Erase(pairs[k][1], pairs[k][2])]

FvbEraseBlocks(pairs) ==
  /\ Idle
  /\ LET job == [NoJob EXCEPT !.call = "erase", !.data = pairs]
     IN  IF \E k \in DOMAIN pairs : BadPair(pairs[k]) THEN Refuses(job, "INVALID_PARAMETER")
         ELSE Serves(job, EraseList(pairs), nShadow)
  /\ UNCHANGED <<nCells, nLocked, nSr, nMode, nFaults>>

FvbRead(lba, off, len) ==
  /\ Idle
  /\ Refuses([NoJob EXCEPT !.call = "read", !.lba = lba],
             IF BadSize(off, len) THEN "BAD_BUFFER_SIZE"
             ELSE IF ~InFlash(lba, off, len) THEN "DEVICE_ERROR" ELSE "SUCCESS")
  /\ nMode' = IF nRet' = "SUCCESS" THEN "array" ELSE nMode
  /\ UNCHANGED <<nCells, nLocked, nSr, nFaults>>

(***************************************************************************)
(* NorFlashFvbInitialize: a volume without valid headers is erased whole   *)
(* and its headers are written with FvbWrite.                              *)
(***************************************************************************)
NorFlashValidateFvHeader == \A i \in 1..Len(NorHeaders) : nCells[0][i - 1] = NorHeaders[i]

NorFlashFvbInitialize ==
  /\ nRet = "off"
  /\ LET job == [NoJob EXCEPT !.call = "init"]
     IN  IF NorFlashValidateFvHeader THEN Refuses(job, "SUCCESS")
         ELSE Serves(job, <<Erase(0, LastBlock + 1)>>, nShadow)
  /\ UNCHANGED <<nCells, nLocked, nSr, nMode, nFaults>>

\* InitializeFvAndVariableStoreHeaders, once everything is erased.
InitializeFvAndVariableStoreHeaders ==
  /\ nJob.call = "init" /\ nRet = "" /\ nTodo = <<>>
  /\ NorFlashWriteSingleBlock([call |-> "headers", lba |-> 0, off |-> 0, data |-> NorHeaders])
  /\ UNCHANGED <<nCells, nLocked, nSr, nMode, nFaults>>

(***************************************************************************)
(* One command to the chip, with the unlocking before it and the reading   *)
(* of the status register after it.  The register is cleared when an erase *)
(* failed and when a program did not.                                      *)
(***************************************************************************)
Ends(ret) == nRet' = ret /\ nTodo' = <<>> /\ nMode' = "array"

Goes(mode) ==
  LET c == Head(nTodo)
  IN  /\ nTodo' = (IF c.n > 1 THEN <<Erase(c.lba + 1, c.n - 1)>> ELSE <<>>) \o Tail(nTodo)
      /\ nRetry' = 0 /\ nMode' = mode /\ nRet' = nRet

MayFail(bits) == IF bits = {} THEN UNCHANGED nFaults
                 ELSE nFaults < MaxNorFaults /\ nFaults' = nFaults + 1

NorFlashUnlockAndEraseSingleBlock ==
  /\ nTodo # <<>> /\ Head(nTodo).do = "erase"
  /\ nLocked' = nLocked \ {Head(nTodo).lba}
  /\ \E bits \in {{}, {"ERASE"}, {"LOCKED"}, {"VPP"}} :
       LET sr == nSr \cup bits
           failed == sr \cap {"ERASE", "LOCKED", "VPP"} # {}
       IN  /\ MayFail(bits)
           /\ nCells' = IF bits = {} THEN [nCells EXCEPT ![Head(nTodo).lba] = Erased] ELSE nCells
           /\ nSr' = IF failed THEN {} ELSE sr
           /\ \/ ~failed /\ Goes("array")
              \/ /\ failed /\ "LOCKED" \in sr /\ nRetry + 1 < ERASE_RETRY
                 /\ nRetry' = nRetry + 1 /\ nMode' = "array" /\ UNCHANGED <<nTodo, nRet>>
              \/ /\ failed /\ ("LOCKED" \notin sr \/ nRetry + 1 >= ERASE_RETRY)
                 /\ Ends("DEVICE_ERROR") /\ UNCHANGED nRetry
  /\ UNCHANGED <<nShadow, nJob, nBefore>>

\* NorFlashWriteBuffer: "BUSY" is a chip that never offers its buffer.
NorFlashWriteBuffer ==
  /\ nTodo # <<>> /\ Head(nTodo).do = "program"
  /\ nLocked' = nLocked \ {Head(nTodo).lba}
  /\ \E bits \in {{}, {"PROGRAM"}, {"LOCKED"}, {"VPP"}, {"BUSY"}} :
       LET c  == Head(nTodo)
           sr == nSr \cup (bits \ {"BUSY"})
           failed == "BUSY" \in bits \/ sr \cap {"PROGRAM", "LOCKED", "VPP"} # {}
       IN  /\ MayFail(bits)
           /\ nCells' = IF bits # {} THEN nCells
                        ELSE [nCells EXCEPT ![c.lba] = [i \in NorBytes |->
                                IF i >= c.at /\ i < c.at + BufferBytes
                                THEN IF nShadow[c.from + i - c.at] = 0 THEN 0 ELSE @[i] ELSE @[i]]]
           /\ nSr' = IF failed THEN sr ELSE {}
           /\ IF failed THEN Ends("DEVICE_ERROR") /\ UNCHANGED nRetry ELSE Goes("status")
  /\ UNCHANGED <<nShadow, nJob, nBefore>>

\* A buffer of all ones in the loop of NorFlashWriteFullBlock.
NorSkipBuffer ==
  /\ nTodo # <<>> /\ Head(nTodo).do = "skip" /\ Goes(nMode)
  /\ UNCHANGED <<nCells, nLocked, nSr, nShadow, nJob, nBefore, nFaults>>

\* Nothing is left to do: the Exit labels.
NorDone ==
  /\ nRet = "" /\ nTodo = <<>> /\ nJob.call # "init"
  /\ Ends("SUCCESS")
  /\ UNCHANGED <<nCells, nLocked, nSr, nShadow, nJob, nRetry, nBefore, nFaults>>

NorPowerLoss ==
  /\ nRet # "off" /\ nFaults < MaxNorFaults /\ nFaults' = nFaults + 1
  /\ nLocked' = NorBlocks /\ nSr' = {} /\ nMode' = "array" /\ nShadow' = Erased
  /\ nJob' = NoJob /\ nTodo' = <<>> /\ nRetry' = 0 /\ nRet' = "off" /\ nBefore' = nCells
  /\ UNCHANGED nCells

NorNext ==
  \/ NorFlashFvbInitialize \/ InitializeFvAndVariableStoreHeaders
  \/ \E w \in NorWrites : FvbWrite(w)
  \/ \E pairs \in NorErases : FvbEraseBlocks(pairs)
  \/ \E l \in {0, LastBlock + 1}, len \in {1, BlockSize + 1} : FvbRead(l, 0, len)
  \/ NorFlashUnlockAndEraseSingleBlock \/ NorFlashWriteBuffer \/ NorSkipBuffer
  \/ NorDone \/ NorPowerLoss

NorSpec == NorInit /\ [][NorNext]_nVars

(***************************************************************************)
(* A call that reports success has done what it was asked and nothing      *)
(* else: a write changed exactly the bytes of its range, an erase cleared  *)
(* exactly the blocks of its list, and after initialization the headers    *)
(* are valid, whatever failed or lost power before.  A call that refuses   *)
(* its arguments has changed nothing, and the chip answers reads with its  *)
(* contents between calls.  The code departs from a comment here:          *)
(* VirtNorFlashFvb.c:551-555 says of a write over the end of a block that  *)
(* it `must store up to the boundary but not beyond' and set NumBytes to   *)
(* what was written; the code refuses it whole, stores nothing and leaves  *)
(* NumBytes as it was, which is what the second conjunct states.           *)
(***************************************************************************)
NorFlashAsAsked ==
  /\ Idle => nMode = "array"
  /\ nRet \in {"BAD_BUFFER_SIZE", "INVALID_PARAMETER"} => nCells = nBefore
  /\ nRet = "SUCCESS" =>
       CASE nJob.call \in {"write", "headers"} ->
              nCells = [nBefore EXCEPT ![nJob.lba] = Overlay(@, nJob.off, nJob.data)]
         [] nJob.call = "erase" ->
              nCells = [b \in NorBlocks |-> IF \E k \in DOMAIN nJob.data :
                          b >= nJob.data[k][1] /\ b < nJob.data[k][1] + nJob.data[k][2]
                        THEN Erased ELSE nBefore[b]]
         [] OTHER -> nCells = nBefore
  /\ (nRet = "SUCCESS" /\ nJob.call \in {"init", "headers"}) => NorFlashValidateFvHeader
=============================================================================
