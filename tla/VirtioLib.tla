------------------------------ MODULE VirtioLib ------------------------------
(***************************************************************************)
(* VirtioLib.c as the synchronous virtio drivers (blk, scsi, rng) use it:  *)
(* VirtioPrepare and VirtioAppendDesc build a chain at entry 0 of the      *)
(* descriptor table, VirtioFlush publishes it, notifies the host and polls *)
(* until the host has used up everything published ("lock-step").          *)
(*                                                                         *)
(* All chains start at descriptor 0, so an entry of the available ring     *)
(* says nothing: `desc' is what the table holds now, and the host gets     *)
(* whatever it holds at the moment it fetches.  A chain is a record        *)
(*                                                                         *)
(*   parts   the mapped resources it points to                             *)
(*   pos     where the data goes (first sector; offset for rng)            *)
(*   in/out  how much the host may write and is to read                    *)
(*   stale   the request it belongs to has returned                        *)
(*                                                                         *)
(* Once a notification has failed a chain stays published; the number of   *)
(* failures in a behaviour is bounded by MaxKickFailures.  The appends of  *)
(* one chain are one step.                                                 *)
(***************************************************************************)
EXTENDS VRing, VirtioDriver, Sequences

CONSTANTS
  QueueSize,        \* GetQueueNumMax() of the request queue
  MaxKickFailures   \* bound: the failing SetQueueNotify() calls

VARIABLES
  ring,        \* Dev->Ring, shared with the host
  desc,        \* the chain the descriptor table holds
  hostIdx,     \* up to where the host has fetched from the available ring
  taken,       \* the chains the host has fetched and not completed
  kicked,      \* the host has been notified and has not gone idle since
  kickFails,   \* how many notifications have failed
  nextAvail,   \* VirtioFlush: NextAvailIdx
  flushOk,     \* VirtioFlush: whether it returned EFI_SUCCESS
  usedLen      \* VirtioFlush: *UsedLen

flushVars == <<nextAvail, flushOk, usedLen>>
hostVars  == <<hostIdx, taken, kicked, kickFails>>

NoChain == [parts |-> {}, pos |-> 0, in |-> 0, out |-> 0, stale |-> TRUE]

LibInit ==
  /\ ring = ZeroRing(QueueSize)
  /\ desc = NoChain
  /\ hostIdx = 0 /\ taken = << >> /\ kicked = FALSE /\ kickFails = 0
  /\ nextAvail = 0 /\ flushOk = FALSE /\ usedLen = 0

-----------------------------------------------------------------------------
(***************************************************************************)
(* VirtioPrepare, the VirtioAppendDesc calls and the start of VirtioFlush: *)
(* the chain is built and its head goes into the available ring, where the *)
(* host does not see it yet.                                               *)
(***************************************************************************)
SubmitChain(chain) ==
  /\ desc' = chain
  /\ nextAvail' = IdxAdd(ring.availIdx, 1)
  /\ ring' = PutAvail(ring, 0)
  /\ UNCHANGED <<flushOk, usedLen, hostVars>>

\* *Ring->Avail.Idx = NextAvailIdx, between two fences.
FlushPublish ==
  /\ pc = "FlushPublish"
  /\ pc' = "FlushNotify"
  /\ ring' = [ring EXCEPT !.availIdx = nextAvail]
  /\ UNCHANGED <<devStatus, held, desc, flushVars, hostVars>>

\* Mutant: the notification is missing.
FlushNotify_NoKick ==
  /\ pc = "FlushNotify"
  /\ pc' = "FlushPoll"
  /\ kicked' = kicked
  /\ UNCHANGED <<devStatus, held, ring, desc, hostIdx, taken, kickFails, flushVars>>

FlushNotify ==
  /\ pc = "FlushNotify"
  /\ pc' = "FlushPoll"
  /\ kicked' = TRUE
  /\ UNCHANGED <<devStatus, held, ring, desc, hostIdx, taken, kickFails, flushVars>>

\* SetQueueNotify fails: VirtioFlush returns, the chain stays published.
FlushNotifyFails ==
  /\ pc = "FlushNotify"
  /\ kickFails < MaxKickFailures
  /\ pc' = "Flushed"
  /\ kickFails' = kickFails + 1
  /\ flushOk' = FALSE
  /\ UNCHANGED <<devStatus, held, ring, desc, hostIdx, taken, kicked, nextAvail, usedLen>>

\* Mutant: the host is not waited for.
FlushPoll_NoWait ==
  /\ pc = "FlushPoll"
  /\ pc' = "Flushed"
  /\ flushOk' = TRUE
  /\ usedLen' = NextUsed(ring, nextAvail + IdxMod - 1).len
  /\ UNCHANGED <<devStatus, held, ring, desc, nextAvail, hostVars>>

\* The end of the polling loop: *Ring->Used.Idx == NextAvailIdx.
FlushPoll ==
  /\ pc = "FlushPoll"
  /\ ring.usedIdx = nextAvail
  /\ pc' = "Flushed"
  /\ flushOk' = TRUE
  /\ usedLen' = NextUsed(ring, nextAvail + IdxMod - 1).len
  /\ UNCHANGED <<devStatus, held, ring, desc, nextAvail, hostVars>>

FlushSteps == FlushPublish \/ FlushNotify \/ FlushNotifyFails \/ FlushPoll

-----------------------------------------------------------------------------
(* The host (external).                                                    *)

LibHostFetch ==
  /\ hostIdx # ring.availIdx
  /\ hostIdx' = IdxAdd(hostIdx, 1)
  /\ taken' = Append(taken, desc)
  /\ UNCHANGED <<ring, desc, kicked, kickFails, flushVars>>

\* Chain i is completed, n units having been written to it.
LibHostComplete(i, n) ==
  /\ i \in DOMAIN taken
  /\ taken' = SubSeq(taken, 1, i - 1) \o SubSeq(taken, i + 1, Len(taken))
  /\ ring' = PutUsed(ring, 0, n)
  /\ UNCHANGED <<desc, hostIdx, kicked, kickFails, flushVars>>

LibHostIdle ==
  /\ kicked /\ hostIdx = ring.availIdx
  /\ kicked' = FALSE
  /\ UNCHANGED <<ring, desc, hostIdx, taken, kickFails, flushVars>>

-----------------------------------------------------------------------------
\* The request that owned every chain built so far has returned, and the
\* locals of VirtioFlush are gone.
Retire(chain) == [chain EXCEPT !.stale = TRUE]

RetireChains == /\ desc' = Retire(desc)
                /\ taken' = [i \in DOMAIN taken |-> Retire(taken[i])]
                /\ nextAvail' = 0 /\ flushOk' = FALSE /\ usedLen' = 0
                /\ UNCHANGED <<hostIdx, kicked, kickFails>>

\* A device that is reset forgets the queue; VirtioRingUninit zeroes the ring.
ForgetQueue == /\ hostIdx' = 0 /\ taken' = << >> /\ kicked' = FALSE
               /\ UNCHANGED kickFails

\* The host may use the queue.
Running == "DRIVER_OK" \in devStatus

\* Every chain the host may still read or write through.
Reachable == {taken[i] : i \in DOMAIN taken} \cup
             IF Running /\ hostIdx # ring.availIdx THEN {desc} ELSE {}

\* How many chains have been published and not been returned.
InFlight == Ahead(ring.usedIdx, ring.availIdx)
=============================================================================
