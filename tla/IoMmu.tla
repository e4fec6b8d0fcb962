-------------------------------- MODULE IoMmu --------------------------------
(***************************************************************************)
(* IoMmuDxe for AMD SEV guests.  Memory is private (encrypted) unless its  *)
(* page was made shared; a device only reaches shared pages.  Contents     *)
(* written under one setting of a page read as garbage under the other.    *)
(* Transfers go through a bounce page, common buffers are decrypted in     *)
(* place by way of a stash page, and at ExitBootServices every page is     *)
(* made private again, after the drivers have stopped their devices.       *)
(***************************************************************************)
EXTENDS Naturals, FiniteSets

CONSTANTS
  Pages, LowPages,   \* pages of memory, and those below 4 GB
  HostPage,          \* the page a driver transfers from and to
  MaxMaps            \* bound: mappings made

ASSUME IoMmuAssumption ==
  /\ IsFiniteSet(Pages) /\ LowPages \subseteq Pages /\ HostPage \in Pages /\ MaxMaps \in Nat

VARIABLES
  iMask,     \* page -> the C bit: TRUE is private
  iMem,      \* page -> [val, enc]: contents and the mask they were written under
  iFree,     \* pages not allocated
  iBufs,     \* common buffers: [host, stash]
  iMaps,     \* mMapInfos: [op, host, plain, id]
  iActive,   \* mappings whose device is running
  iWant,     \* ghost: page -> what its owner must find there once it is unmapped
  iPhase,    \* "boot", "exit" (handlers run), "os"
  iHandlers, \* ExitBootServices handlers still queued; "unmap" is the event they signal
  iCount     \* bounded count of mappings made

iVars == <<iMask, iMem, iFree, iBufs, iMaps, iActive, iWant, iPhase, iHandlers, iCount>>

Ops == {"Read", "Write", "CommonBuffer", "Read64", "Write64", "CommonBuffer64"}
IsCommon(op) == op \in {"CommonBuffer", "CommonBuffer64"}
IsRead(op)   == op \in {"Read", "Read64"}
IsWrite(op)  == op \in {"Write", "Write64"}

IoMmuInit ==
  /\ iMask = [p \in Pages |-> TRUE] /\ iMem = [p \in Pages |-> [val |-> "zero", enc |-> TRUE]]
  /\ iFree = Pages \ {HostPage} /\ iBufs = {} /\ iMaps = {} /\ iActive = {}
  /\ iWant = [p \in Pages |-> "zero"] /\ iPhase = "boot" /\ iHandlers = {} /\ iCount = 0

\* What a read of page p gives with memory mem under the masks mask.
ReadPage(mem, mask, p) == IF mem[p].enc = mask[p] THEN mem[p].val ELSE "garbage"
WritePage(mem, mask, p, v) == [mem EXCEPT ![p] = [val |-> v, enc |-> mask[p]]]

\* IoMmuAllocateBuffer: a stash, and the buffer behind its header page.
IoMmuAllocateBuffer ==
  /\ iPhase = "boot"
  /\ \E stash \in iFree : \E host \in iFree \ {stash}, dual \in BOOLEAN :
       /\ dual \/ host \in LowPages
       /\ iBufs' = iBufs \cup {[host |-> host, stash |-> stash]}
       /\ iFree' = iFree \ {stash, host}
       /\ iMem' = WritePage(iMem, iMask, host, "mine") /\ iWant' = [iWant EXCEPT ![host] = "mine"]
  /\ UNCHANGED <<iMask, iMaps, iActive, iPhase, iHandlers, iCount>>

IoMmuFreeBuffer(b) ==
  /\ iPhase = "boot" /\ \A m \in iMaps : m.host # b.host
  /\ iBufs' = iBufs \ {b} /\ iFree' = iFree \cup {b.host, b.stash}
  /\ UNCHANGED <<iMask, iMem, iMaps, iActive, iWant, iPhase, iHandlers, iCount>>

(***************************************************************************)
(* IoMmuMap: the contents are taken out before the mask is cleared, and    *)
(* put back after it.                                                      *)
(***************************************************************************)
MapPage(op, host, plain, source, mem) ==
  LET mask == [iMask EXCEPT ![plain] = FALSE]
      m == [op |-> op, host |-> host, plain |-> plain, id |-> iCount]
  IN  /\ iMask' = mask
      /\ iMem' = IF IsWrite(op) THEN mem
                 ELSE WritePage(mem, mask, plain, ReadPage(mem, mask, source))
      /\ iMaps' = iMaps \cup {m} /\ iActive' = iActive \cup {m}
      /\ iCount' = iCount + 1

IoMmuMap(op) ==
  /\ iPhase = "boot" /\ iCount < MaxMaps
  /\ \/ /\ ~IsCommon(op) /\ \A m \in iMaps : m.host # HostPage
        /\ \E plain \in iFree :
             /\ op \in {"Read", "Write"} => plain \in LowPages
             /\ MapPage(op, HostPage, plain, HostPage, iMem)
             /\ iFree' = iFree \ {plain}
        /\ UNCHANGED iBufs
     \/ /\ IsCommon(op)
        /\ \E b \in iBufs :
             /\ \A m \in iMaps : m.host # b.host
             /\ op = "CommonBuffer" => b.host \in LowPages
             /\ MapPage(op, b.host, b.host, b.stash,
                        WritePage(iMem, iMask, b.stash, ReadPage(iMem, iMask, b.host)))
        /\ UNCHANGED <<iFree, iBufs>>
  \* A driver that maps a page for writing no longer cares for its contents.
  /\ iWant' = IF IsWrite(op) THEN [iWant EXCEPT ![HostPage] = "any"] ELSE iWant
  /\ UNCHANGED <<iPhase, iHandlers>>

\* Mutant: the page is made private first and read out afterwards.
Unmapped_Late(s, m, locked) ==
  LET stash  == (CHOOSE b \in iBufs : b.host = m.host).stash
      target == IF IsCommon(m.op) THEN stash ELSE m.host
      mask   == [s[2] EXCEPT ![m.plain] = TRUE]
      taken  == IF IsRead(m.op) THEN s[1]
                ELSE WritePage(s[1], mask, target, ReadPage(s[1], mask, m.plain))
  IN  IF IsCommon(m.op)
      THEN <<WritePage(taken, mask, m.host, ReadPage(taken, mask, stash)), mask, s[3]>>
      ELSE <<WritePage(taken, mask, m.plain, "zero"), mask, IF locked THEN s[3] ELSE s[3] \cup {m.plain}>>

(***************************************************************************)
(* IoMmuUnmapWorker: <<mem, mask, free>> with mapping m undone.  Nothing   *)
(* is released once the memory map must not change any more.               *)
(***************************************************************************)
Unmapped(s, m, locked) ==
  LET stash  == (CHOOSE b \in iBufs : b.host = m.host).stash
      target == IF IsCommon(m.op) THEN stash ELSE m.host
      taken  == IF IsRead(m.op) THEN s[1]
                ELSE WritePage(s[1], s[2], target, ReadPage(s[1], s[2], m.plain))
      mask   == [s[2] EXCEPT ![m.plain] = TRUE]
  IN  IF IsCommon(m.op)
      THEN <<WritePage(taken, mask, m.host, ReadPage(taken, mask, stash)), mask, s[3]>>
      ELSE <<WritePage(taken, mask, m.plain, "zero"), mask, IF locked THEN s[3] ELSE s[3] \cup {m.plain}>>

IoMmuUnmap(m) ==
  /\ iPhase = "boot" /\ m \in iMaps
  /\ LET s == Unmapped(<<iMem, iMask, iFree>>, m, FALSE)
     IN  iMem' = s[1] /\ iMask' = s[2] /\ iFree' = s[3]
  /\ iMaps' = iMaps \ {m} /\ iActive' = iActive \ {m}
  /\ UNCHANGED <<iBufs, iWant, iPhase, iHandlers, iCount>>

\* A running device fills the page it may write.
DeviceWrites(m) ==
  /\ m \in iActive /\ ~IsRead(m.op) /\ ~iMask[m.plain]
  /\ iMem' = WritePage(iMem, iMask, m.plain, "device")
  /\ iWant' = [iWant EXCEPT ![m.host] = "device"]
  /\ UNCHANGED <<iMask, iFree, iBufs, iMaps, iActive, iPhase, iHandlers, iCount>>

(***************************************************************************)
(* ExitBootServices queues all handlers; the one of this driver only       *)
(* signals an event, which is therefore served after the other drivers'    *)
(* handlers have stopped their devices.                                    *)
(***************************************************************************)
ExitBootServices ==
  /\ iPhase = "boot" /\ iPhase' = "exit" /\ iHandlers' = {"driver", "iommu"}
  /\ UNCHANGED <<iMask, iMem, iFree, iBufs, iMaps, iActive, iWant, iCount>>

DriverExitBoot ==
  /\ "driver" \in iHandlers /\ iHandlers' = iHandlers \ {"driver"}
  /\ iActive' = {}
  /\ UNCHANGED <<iMask, iMem, iFree, iBufs, iMaps, iWant, iPhase, iCount>>

AmdSevExitBoot ==
  /\ "iommu" \in iHandlers /\ iHandlers' = (iHandlers \ {"iommu"}) \cup {"unmap"}
  /\ UNCHANGED <<iMask, iMem, iFree, iBufs, iMaps, iActive, iWant, iPhase, iCount>>

\* The list is walked from its head, where the newest mapping is.
AmdSevUnmapAllMappings ==
  /\ iHandlers = {"unmap"} /\ iMaps # {}
  /\ LET m == CHOOSE x \in iMaps : \A y \in iMaps : y.id <= x.id
         s == Unmapped(<<iMem, iMask, iFree>>, m, TRUE)
     IN  /\ iMem' = s[1] /\ iMask' = s[2] /\ iFree' = s[3]
         /\ iMaps' = iMaps \ {m}
  /\ UNCHANGED <<iBufs, iActive, iWant, iPhase, iHandlers, iCount>>

UnmapAllDone ==
  /\ iHandlers = {"unmap"} /\ iMaps = {}
  /\ iHandlers' = {} /\ iPhase' = "os"
  /\ UNCHANGED <<iMask, iMem, iFree, iBufs, iMaps, iActive, iWant, iCount>>

IoMmuNext ==
  \/ IoMmuAllocateBuffer \/ \E b \in iBufs : IoMmuFreeBuffer(b)
  \/ \E op \in Ops : IoMmuMap(op)
  \/ \E m \in iMaps : IoMmuUnmap(m) \/ DeviceWrites(m)
  \/ ExitBootServices \/ DriverExitBoot \/ AmdSevExitBoot \/ AmdSevUnmapAllMappings \/ UnmapAllDone

IoMmuSpec == IoMmuInit /\ [][IoMmuNext]_iVars

(***************************************************************************)
(* A page is shared only while a mapping uses it, so that none is when the *)
(* operating system starts and none that is free; no device runs on a page *)
(* taken back from it; and a driver finds in its memory, once unmapped,    *)
(* what it or its device last put there.                                   *)
(***************************************************************************)
SharedOnlyWhileMapped ==
  /\ \A p \in Pages : ~iMask[p] => \E m \in iMaps : m.plain = p
  /\ \A p \in iFree : iMask[p]
  /\ \A m \in iActive : m \in iMaps /\ ~iMask[m.plain]
  /\ \A m \in iMaps : (IsRead(m.op) \/ IsCommon(m.op)) =>
       iWant[m.host] \in {"any", ReadPage(iMem, iMask, m.plain)}
  /\ \A h \in {HostPage} \cup {b.host : b \in iBufs} :
       (\A m \in iMaps : m.host # h) => iWant[h] \in {"any", ReadPage(iMem, iMask, h)}
=============================================================================
