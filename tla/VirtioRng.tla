------------------------------ MODULE VirtioRng ------------------------------
(***************************************************************************)
(* VirtioRngDxe: VirtioRngInit and VirtioRngGetRNG, which asks the host    *)
(* again until it has got as many bytes as it wants.  The host returns at  *)
(* least one byte (the ASSERT on Len is an assumption about it).           *)
(***************************************************************************)
EXTENDS VirtioSync

CONSTANTS
  RngLengths,  \* the values of RNGValueLength considered
  MAX_UINT32   \* the most that one chain can ask for

ASSUME RngAssumption == RngLengths \subseteq Nat /\ MAX_UINT32 \in Nat \ {0}

BufferSize == IF req.in - index < MAX_UINT32 THEN req.in - index ELSE MAX_UINT32

VirtioRngInit ==
  \/ InitSteps(1, "InitDriverOk") /\ UNCHANGED <<confVars, reqVars>>
  \/ InitConfig({NoMedia})

VirtioRngDriverBinding == StartSteps /\ UNCHANGED <<confVars, reqVars>>

VirtioRngGetRNG(n) ==
  /\ n > 0
  /\ Call("RngAlloc", [pos |-> 0, in |-> n, out |-> 0])

RngMapSteps ==
  /\ \/ Try("RngAlloc", "RngMap", "idle", {"buf"})
     \/ Try("RngMap", "RngLoop", "RngFree", {"bufMap"})
  /\ MemoryStep

\* One turn of the loop: a chain for the part of the buffer not filled yet.
RngSubmit ==
  /\ index < req.in
  /\ Submit("RngLoop", {"bufMap"}, index, BufferSize, 0)

RngFlushed ==
  /\ Goto("Flushed", IF flushOk THEN "RngLoop" ELSE "RngUnmapBuffer")
  /\ index' = IF flushOk THEN index + usedLen ELSE index
  /\ UNCHANGED <<nextStat, confVars, req, pkt, res, answer, moved, libVars>>

\* The buffer is unmapped and, if that succeeds, copied to the caller.
RngDone ==
  /\ index >= req.in
  /\ Undo("RngLoop", "RngFree", {"bufMap"})
  /\ res' \in {"ok", "err"}
  /\ UNCHANGED <<nextStat, confVars, req, pkt, answer, moved, index, libVars>>

RngUnmapSteps ==
  \/ Undo("RngUnmapBuffer", "RngFree", {"bufMap"}) /\ MemoryStep
  \/ Return("RngFree", {"buf"})

GetRNGSteps == \/ RngMapSteps \/ RngSubmit \/ Flush \/ RngFlushed \/ RngDone
               \/ RngUnmapSteps

-----------------------------------------------------------------------------
RngHost == \E i \in DOMAIN taken : \E n \in 1 .. taken[i].in :
             HostCompletes(i, n, taken[i].pos + n, NoAnswer)

RngCalls == \E n \in RngLengths : VirtioRngGetRNG(n)

RngSteps == VirtioRngDriverBinding \/ VirtioRngInit \/ GetRNGSteps

\* The chain stays within the buffer.
RngChainOk(c) == c.pos + c.in <= req.in \/ c.stale
=============================================================================
