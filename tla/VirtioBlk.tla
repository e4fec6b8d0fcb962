------------------------------ MODULE VirtioBlk ------------------------------
(***************************************************************************)
(* VirtioBlkDxe: VirtioBlkInit, ReadBlocks, WriteBlocks, FlushBlocks with  *)
(* VerifyReadWriteRequest and SynchronousRequest.                          *)
(*                                                                         *)
(* An LBA wraps at LbaMod (2^64 in the code).  media.spb is the number of  *)
(* sectors in a logical block, BlockSize / 512.                            *)
(***************************************************************************)
EXTENDS VirtioSync

CONSTANTS LbaMod, SectorCounts

ASSUME BlkAssumption == LbaMod \in Nat \ {0} /\ SectorCounts \subseteq 0 .. LbaMod - 1

BlockSize == media.spb * SectorUnits

\* NumSectors / (BlockSize / 512) - 1
LastBlock == media.sectors \div media.spb - 1

\* What VirtioBlkInit accepts: a disk composed of whole logical blocks.
BlkMedia == [sectors : SectorCounts \ {0}, spb : {1, 2}, ro : BOOLEAN,
             flush : BOOLEAN, maxSectors : {0}, inout : {FALSE}]

BlkMediaOk == {m \in BlkMedia : m.sectors % m.spb = 0}

VirtioBlkInit ==
  \/ InitSteps(3, "InitDriverOk") /\ UNCHANGED <<confVars, reqVars>>
  \/ InitConfig(BlkMediaOk)

VirtioBlkDriverBinding == StartSteps /\ UNCHANGED <<confVars, reqVars>>

-----------------------------------------------------------------------------
\* Mutant: one block too many at the end of the disk.
VerifyReadWriteRequest_OffByOne(lba, size, isWrite) ==
  LET BlockCount == size \div BlockSize
  IN  /\ size <= SIZE_1GB
      /\ size % BlockSize = 0
      /\ ~(lba > LastBlock \/ BlockCount - 2 > (LastBlock - lba) % LbaMod)
      /\ isWrite => ~media.ro

\* "Avoid unsigned wraparound on either side in the second comparison."
VerifyReadWriteRequest(lba, size, isWrite) ==
  LET BlockCount == size \div BlockSize
  IN  /\ size <= SIZE_1GB
      /\ size % BlockSize = 0
      /\ ~(lba > LastBlock \/ BlockCount - 1 > (LastBlock - lba) % LbaMod)
      /\ isWrite => ~media.ro

\* SynchronousRequest: MultU64x32 (Lba, BlockSize / 512)
Sector(lba) == (lba * media.spb) % LbaMod

VirtioBlkReadBlocks(lba, size) ==
  /\ size > 0
  /\ VerifyReadWriteRequest(lba, size, FALSE)
  /\ Call("BlkAllocStatus", [pos |-> Sector(lba), in |-> size, out |-> 0])

VirtioBlkWriteBlocks(lba, size) ==
  /\ size > 0
  /\ VerifyReadWriteRequest(lba, size, TRUE)
  /\ Call("BlkAllocStatus", [pos |-> Sector(lba), in |-> 0, out |-> size])

VirtioBlkFlushBlocks ==
  /\ media.flush
  /\ Call("BlkAllocStatus", NoReq)

-----------------------------------------------------------------------------
(* SynchronousRequest.                                                     *)

HasData == req.in + req.out > 0
DataMap == IF HasData THEN {"dataMap"} ELSE {}

BlkMapSteps ==
  /\ \/ Try("BlkAllocStatus", "BlkMapRequest", "idle", {"hostStatus"})
     \/ Try("BlkMapRequest", IF HasData THEN "BlkMapData" ELSE "BlkMapStatus",
            "BlkFreeStatus", {"reqMap"})
     \/ Try("BlkMapData", "BlkMapStatus", "BlkUnmapRequest", {"dataMap"})
  /\ MemoryStep

\* *HostStatus = VIRTIO_BLK_S_IOERR, "that we do not accept as success".
BlkMapStatus ==
  /\ Try("BlkMapStatus", "BlkSubmit", "BlkUnmapData", {"statusMap"})
  /\ answer' = [st |-> "preset", residual |-> 0]
  /\ UNCHANGED <<nextStat, confVars, req, pkt, res, moved, index, libVars>>

BlkSubmit == Submit("BlkSubmit", {"reqMap", "statusMap"} \cup DataMap,
                    req.pos, req.in, req.out)

\* VirtioFlush has returned.
BlkFlushed ==
  /\ Goto("Flushed", "BlkUnmapStatus")
  /\ res' = IF flushOk /\ answer.st = "ok" THEN "ok" ELSE "err"
  /\ UNCHANGED <<nextStat, confVars, req, pkt, answer, moved, index, libVars>>

\* A failing unmap of the data means that a read did not reach the caller.
BlkUnmapData ==
  /\ Undo("BlkUnmapData", "BlkUnmapRequest", DataMap)
  /\ \/ res' = res
     \/ req.in > 0 /\ res' = "err"
  /\ UNCHANGED <<nextStat, confVars, req, pkt, answer, moved, index, libVars>>

BlkUnmapSteps ==
  \/ /\ \/ Undo("BlkUnmapStatus", "BlkUnmapData", {"statusMap"})
        \/ Undo("BlkUnmapRequest", "BlkFreeStatus", {"reqMap"})
     /\ MemoryStep
  \/ Return("BlkFreeStatus", {"hostStatus"})

SynchronousRequest ==
  \/ BlkMapSteps \/ BlkMapStatus \/ BlkSubmit \/ Flush
  \/ BlkFlushed \/ BlkUnmapData \/ BlkUnmapSteps

-----------------------------------------------------------------------------
\* The host has transferred everything when it answers VIRTIO_BLK_S_OK.
BlkHost ==
  \E i \in DOMAIN taken :
    \/ HostCompletes(i, 0, taken[i].in + taken[i].out, [st |-> "ok", residual |-> 0])
    \/ HostCompletes(i, 0, 0, [st |-> "err", residual |-> 0])

BlkCalls ==
  \/ \E lba \in 0 .. LbaMod - 1, size \in 0 .. LenMod - 1 :
       VirtioBlkReadBlocks(lba, size) \/ VirtioBlkWriteBlocks(lba, size)
  \/ VirtioBlkFlushBlocks

BlkSteps == VirtioBlkDriverBinding \/ VirtioBlkInit \/ SynchronousRequest

\* The blocks addressed are on the disk and the transfer is within 1 GB.
BlkChainOk(c) ==
  /\ c.pos * SectorUnits + c.in + c.out <= media.sectors * SectorUnits
  /\ c.in + c.out <= SIZE_1GB
  /\ media.ro => c.out = 0
=============================================================================
