----------------------------- MODULE VirtioScsi ------------------------------
(***************************************************************************)
(* VirtioScsiDxe: VirtioScsiInit and VirtioScsiPassThru with               *)
(* PopulateRequest, ParseResponse and ReportHostAdapterError.  Addressing  *)
(* (target and LUN) is left out; a packet is its two transfer lengths.     *)
(***************************************************************************)
EXTENDS VirtioSync

CONSTANT MaxSectorCounts   \* the values of the device's max_sectors field

ASSUME ScsiAssumption == MaxSectorCounts \subseteq Nat

\* What VirtioScsiInit accepts: "We must be able to halve it".
ScsiMedia == [sectors : {0}, spb : {0}, ro : {FALSE}, flush : {FALSE},
              maxSectors : {m \in MaxSectorCounts : m >= 2}, inout : BOOLEAN]

VirtioScsiInit ==
  \/ InitSteps(4, "CfgWrite") /\ UNCHANGED <<confVars, reqVars>>
  \/ InitConfig(ScsiMedia)
  \/ /\ Try("CfgWrite", "InitDriverOk", "UnmapQueue", {})
     /\ MemoryStep

\* VirtioScsiUninit and the Failed label forget what Init found out; the next
\* Start finds it out again.
VirtioScsiDriverBinding == StartSteps /\ UNCHANGED <<confVars, reqVars>>

-----------------------------------------------------------------------------
\* ALIGN_VALUE (Length, 512) / 512 on a UINT32.
Sectors(len) == ((len + SectorUnits - 1) % LenMod) \div SectorUnits

\* PopulateRequest's checks on the lengths: what it refuses outright, and the
\* eager check for oversized requests.
PopulateRequest(in, out) ==
  /\ in > 0 /\ out > 0 => media.inout
  /\ in + out <= SIZE_1GB

Oversized(in, out) == \/ Sectors(out) > media.maxSectors \div 2
                      \/ Sectors(in) > media.maxSectors \div 2

VirtioScsiPassThru(in, out) ==
  /\ PopulateRequest(in, out) /\ ~Oversized(in, out)
  /\ Call("ScsiMapRequest", [pos |-> 0, in |-> in, out |-> out])

\* EFI_BAD_BUFFER_SIZE, with the lengths that would do.
BadBufferSize(in, out) ==
  /\ PopulateRequest(in, out) /\ Oversized(in, out)
  /\ LET n == (media.maxSectors \div 2) * SectorUnits
     IN  pkt' = [pos |-> 0, in |-> n, out |-> n]
  /\ req' = NoReq /\ res' = "err" /\ answer' = NoAnswer /\ moved' = 0
  /\ UNCHANGED <<pc, devStatus, held, nextStat, confVars, index, libVars>>

\* The packet is made to report a host adapter error on every failure.
ReportHostAdapterError == pkt' = [pkt EXCEPT !.in = 0, !.out = 0]

\* A step that acquires S, or fails with a host adapter error.
ScsiTry(at, next, fail, S) ==
  /\ Try(at, next, fail, S)
  /\ IF pc' = next THEN pkt' = pkt ELSE ReportHostAdapterError
  /\ UNCHANGED <<nextStat, confVars, req, res, answer, moved, index, libVars>>

AfterIn  == IF pkt.out > 0 THEN "ScsiMapOut" ELSE "ScsiAllocResponse"
AfterReq == IF pkt.in > 0 THEN "ScsiAllocIn" ELSE AfterIn

ScsiMapSteps ==
  \/ ScsiTry("ScsiMapRequest", AfterReq, "idle", {"reqMap"})
  \/ ScsiTry("ScsiAllocIn", "ScsiMapIn", "ScsiUnmapRequest", {"inBuf"})
  \/ ScsiTry("ScsiMapIn", AfterIn, "ScsiFreeIn", {"inMap"})
  \/ ScsiTry("ScsiMapOut", "ScsiAllocResponse", "ScsiUnmapIn", {"outMap"})
  \/ ScsiTry("ScsiAllocResponse", "ScsiMapResponse", "ScsiUnmapOut", {"resp"})

\* Response->Response = VIRTIO_SCSI_S_FAILURE before the buffer is mapped.
ScsiMapResponse ==
  /\ Try("ScsiMapResponse", "ScsiSubmit", "ScsiFreeResponse", {"respMap"})
  /\ answer' = [st |-> "preset", residual |-> 0]
  /\ IF pc' = "ScsiSubmit" THEN pkt' = pkt ELSE ReportHostAdapterError
  /\ UNCHANGED <<nextStat, confVars, req, res, moved, index, libVars>>

ScsiSubmit ==
  Submit("ScsiSubmit",
         {"reqMap", "respMap"} \cup (IF pkt.out > 0 THEN {"outMap"} ELSE {})
                               \cup (IF pkt.in > 0 THEN {"inMap"} ELSE {}),
         0, pkt.in, pkt.out)

\* Mutant: the residual is not looked at.
ParseResponse_NoResidual ==
  /\ pkt' = pkt
  /\ res' = IF answer.st = "ok" THEN "ok" ELSE "err"

\* ParseResponse: the residual counts from the end of the data coming in.
ParseResponse ==
  /\ LET r == answer.residual
     IN  pkt' = IF r <= pkt.in
                THEN [pkt EXCEPT !.in = @ - r]
                ELSE [pkt EXCEPT !.in = 0, !.out = (@ - (r - pkt.in)) % LenMod]
  /\ res' = IF answer.st = "ok" THEN "ok" ELSE "err"

ScsiFlushed ==
  /\ Goto("Flushed", "ScsiUnmapResponse")
  /\ IF flushOk THEN ParseResponse ELSE ReportHostAdapterError /\ res' = res
  /\ UNCHANGED <<nextStat, confVars, req, answer, moved, index, libVars>>

\* OutDataBufferIsMapped; InDataBuffer != NULL.  The packet's own lengths may
\* have been zeroed by now.
OutMapped == IF held["outMap"] = 1 THEN {"outMap"} ELSE {}
\* Mutant: the packet is asked whether there is a buffer.
InDataBuffer_ByLength == pkt.in > 0

InDataBuffer == held["inBuf"] = 1

ScsiUnmapSteps ==
  \/ /\ \/ Undo("ScsiUnmapResponse", "ScsiFreeResponse", {"respMap"})
        \/ Undo("ScsiFreeResponse", "ScsiUnmapOut", {"resp"})
        \/ Undo("ScsiUnmapOut", "ScsiUnmapIn", OutMapped)
        \/ Undo("ScsiUnmapIn", "ScsiFreeIn", IF InDataBuffer THEN {"inMap"} ELSE {})
        \/ Undo("ScsiFreeIn", "ScsiUnmapRequest", IF InDataBuffer THEN {"inBuf"} ELSE {})
     /\ MemoryStep
  \/ Return("ScsiUnmapRequest", {"reqMap"})

PassThruSteps ==
  \/ ScsiMapSteps \/ ScsiMapResponse \/ ScsiSubmit \/ Flush
  \/ ScsiFlushed \/ ScsiUnmapSteps

-----------------------------------------------------------------------------
\* The host answers with a residual: the part of the request not transferred.
ScsiHost ==
  \E i \in DOMAIN taken :
    \E r \in 0 .. taken[i].in + taken[i].out, st \in {"ok", "err"} :
      HostCompletes(i, 0, taken[i].in + taken[i].out - r, [st |-> st, residual |-> r])

ScsiCalls == \E in, out \in 0 .. LenMod - 1 :
               VirtioScsiPassThru(in, out) \/ BadBufferSize(in, out)

ScsiSteps == VirtioScsiDriverBinding \/ VirtioScsiInit \/ PassThruSteps

\* "the combined size of a bidirectional request will not exceed the
\* virtio-scsi device's transfer limit either"
ScsiChainOk(c) ==
  /\ c.in + c.out <= media.maxSectors * SectorUnits
  /\ c.in + c.out <= SIZE_1GB
  /\ c.in > 0 /\ c.out > 0 => media.inout
=============================================================================
