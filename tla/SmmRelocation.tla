---------------------------- MODULE SmmRelocation ----------------------------
(***************************************************************************)
(* SmmRelocationLib: every CPU is sent an SMI, runs SmmInitHandler in the  *)
(* one save state area at the default SMBASE, and leaves SMM with an       *)
(* SMBASE of its own.  The BSP must not go on before the CPU has left SMM: *)
(* the handler hooks the return address, and the flag is set by the code   *)
(* returned to, which holds a spin lock until it has fetched the address   *)
(* of the interrupted code.  Sizes are in KB.                              *)
(***************************************************************************)
EXTENDS Naturals, FiniteSets

CONSTANTS
  NumCpus, MaxCpus,   \* mNumberOfCpus and mMaxNumberOfCpus
  BspIndex,
  MaxCapInHob,        \* MaxCapOfProcessorsInHob
  SmramSize           \* size of the last SMRAM descriptor

ASSUME SmmRelocationAssumption ==
  /\ {NumCpus, MaxCpus, MaxCapInHob} \subseteq Nat \ {0} /\ NumCpus <= MaxCpus
  /\ BspIndex \in 0..NumCpus - 1 /\ SmramSize \in Nat

VARIABLES
  rCpu,      \* CPU -> "run", "smi", "handler", "lock", "hooked", "flag", "fetch", "release"
  rBase,     \* CPU -> its SMBASE; 0 is the default one
  rAt,       \* CPU -> the code it runs: its own number if that is what was interrupted
  rArea,     \* save state area at the default SMBASE: [pc, base]
  rNewBase,  \* mSmBase
  rRebased,  \* mRebased
  rLock,     \* mSmmRelocationSemaphore: the holder or "free"
  rOrig,     \* mSmmRelocationOriginalAddress
  rTemp,     \* CPU -> the address it fetched
  rIndex,    \* Index of the BSP's loop; NumCpus stands for the BSP itself
  rStep,     \* of the BSP: "init", "send", "wait", "restore", "done", "nohob" or "failed"
  rHobs,     \* the SMM base HOBs: {[first, bases]}
  rSmram     \* SMRAM descriptors: <<[start, size, allocated]>>

rVars == <<rCpu, rBase, rAt, rArea, rNewBase, rRebased, rLock, rOrig, rTemp, rIndex, rStep, rHobs, rSmram>>

Cpus == 0..NumCpus - 1
CompleteCode == NumCpus      \* the address of SmmRelocationSemaphoreComplete
BackupCode == NumCpus + 1    \* what was in the area before
SmramStart == 1000
TileSize == 8
SMM_HANDLER_OFFSET == 32
RelocationSize == 32 + TileSize * (MaxCpus - 1)

RInit ==
  /\ rCpu = [c \in Cpus |-> "run"] /\ rBase = [c \in Cpus |-> 0] /\ rAt = [c \in Cpus |-> c]
  /\ rArea = [pc |-> BackupCode, base |-> 0] /\ rNewBase = 0 /\ rRebased = FALSE
  /\ rLock = "free" /\ rOrig = BackupCode /\ rTemp = [c \in Cpus |-> BackupCode]
  /\ rIndex = 0 /\ rStep = "init" /\ rHobs = {}
  /\ rSmram = <<[start |-> SmramStart, size |-> SmramSize, allocated |-> FALSE]>>

GetSmBase(i) == SmramStart + i * TileSize - SMM_HANDLER_OFFSET

\* SplitSmramHobForSmmRelocation: the front of the last descriptor is taken.
SplitSmramHobForSmmRelocation(d) ==
  <<[d EXCEPT !.size = RelocationSize, !.allocated = TRUE],
    [d EXCEPT !.start = @ + RelocationSize, !.size = @ - RelocationSize]>>

\* SmmRelocationInit up to SmmRelocateBases; no memory for the stack ends it.
SmmRelocationInit ==
  /\ rStep = "init"
  /\ rSmram' = SplitSmramHobForSmmRelocation(rSmram[1])
  /\ rStep' \in {"send", "failed"}
  /\ UNCHANGED <<rCpu, rBase, rAt, rArea, rNewBase, rRebased, rLock, rOrig, rTemp, rIndex, rHobs>>

(***************************************************************************)
(* SmmRelocateBases, on the BSP: the other CPUs first, itself last.        *)
(***************************************************************************)
Sent == IF rIndex = NumCpus THEN BspIndex ELSE rIndex

SmmRelocateSend ==
  /\ rStep = "send" /\ rCpu[BspIndex] = "run"
  /\ IF rIndex = BspIndex
     THEN /\ rIndex' = rIndex + 1
          /\ UNCHANGED <<rCpu, rNewBase, rRebased, rStep>>
     ELSE /\ rRebased' = FALSE /\ rNewBase' = GetSmBase(Sent)
          /\ rCpu' = [rCpu EXCEPT ![Sent] = "smi"]
          /\ rStep' = "wait" /\ UNCHANGED rIndex
  /\ UNCHANGED <<rBase, rAt, rArea, rLock, rOrig, rTemp, rHobs, rSmram>>

SmmRelocateWait ==
  /\ rStep = "wait" /\ rCpu[BspIndex] = "run" /\ rRebased
  /\ rStep' = IF rIndex = NumCpus THEN "restore" ELSE "send"
  /\ rIndex' = IF rIndex = NumCpus THEN rIndex ELSE rIndex + 1
  /\ UNCHANGED <<rCpu, rBase, rAt, rArea, rNewBase, rRebased, rLock, rOrig, rTemp, rHobs, rSmram>>

\* CreateSmmBaseHob: as many HOBs as their capacity needs; the first that cannot be built ends it.
SmmBaseHobs ==
  LET Count(first) == IF MaxCpus - first < MaxCapInHob THEN MaxCpus - first ELSE MaxCapInHob
      Hob(first) == [first |-> first, bases |-> [i \in 0..Count(first) - 1 |-> GetSmBase(i + first)]]
  IN  {Hob(MaxCapInHob * k) : k \in 0..(MaxCpus - 1) \div MaxCapInHob}

SmmRelocateRestore ==
  /\ rStep = "restore" /\ rCpu[BspIndex] = "run"
  /\ rArea' = [pc |-> BackupCode, base |-> 0]
  /\ \/ rHobs' = SmmBaseHobs /\ rStep' = "done"
     \/ \E k \in 0..(MaxCpus - 1) \div MaxCapInHob :
          rHobs' = {h \in SmmBaseHobs : h.first < MaxCapInHob * k} /\ rStep' = "nohob"
  /\ UNCHANGED <<rCpu, rBase, rAt, rNewBase, rRebased, rLock, rOrig, rTemp, rIndex, rSmram>>

(***************************************************************************)
(* A CPU that takes the SMI saves its state in the area of its SMBASE.     *)
(***************************************************************************)
TakeSmi(c) ==
  /\ rCpu[c] = "smi"
  /\ rArea' = [pc |-> rAt[c], base |-> rBase[c]]
  /\ rCpu' = [rCpu EXCEPT ![c] = "handler"]
  /\ UNCHANGED <<rBase, rAt, rNewBase, rRebased, rLock, rOrig, rTemp, rIndex, rStep, rHobs, rSmram>>

\* The saved state with another SMBASE, or resuming in SmmRelocationSemaphoreComplete.
ConfigureSmBase(area, base) == [area EXCEPT !.base = base]
HookReturnFromSmm(area)     == [area EXCEPT !.pc = CompleteCode]

\* SmmInitHandler: ConfigureSmBase, then SemaphoreHook, which takes the lock.
SmmInitHandler(c) ==
  /\ rCpu[c] = "handler"
  /\ rArea' = ConfigureSmBase(rArea, rNewBase)
  /\ rCpu' = [rCpu EXCEPT ![c] = "lock"]
  /\ UNCHANGED <<rBase, rAt, rNewBase, rRebased, rLock, rOrig, rTemp, rIndex, rStep, rHobs, rSmram>>

\* Mutant: the lock is not taken.
SemaphoreHook_NoLock(c) ==
  /\ rCpu[c] = "lock"
  /\ rOrig' = rArea.pc /\ rArea' = HookReturnFromSmm(rArea)
  /\ rCpu' = [rCpu EXCEPT ![c] = "hooked"]
  /\ UNCHANGED <<rBase, rAt, rNewBase, rRebased, rLock, rTemp, rIndex, rStep, rHobs, rSmram>>

SemaphoreHook(c) ==
  /\ rCpu[c] = "lock" /\ rLock = "free"
  /\ rLock' = "held"
  /\ rOrig' = rArea.pc /\ rArea' = HookReturnFromSmm(rArea)
  /\ rCpu' = [rCpu EXCEPT ![c] = "hooked"]
  /\ UNCHANGED <<rBase, rAt, rNewBase, rRebased, rTemp, rIndex, rStep, rHobs, rSmram>>

\* RSM loads the state from the area, the new SMBASE with it.
Rsm(c) ==
  /\ rCpu[c] = "hooked"
  /\ rBase' = [rBase EXCEPT ![c] = rArea.base] /\ rAt' = [rAt EXCEPT ![c] = rArea.pc]
  /\ rCpu' = [rCpu EXCEPT ![c] = "flag"]
  /\ UNCHANGED <<rArea, rNewBase, rRebased, rLock, rOrig, rTemp, rIndex, rStep, rHobs, rSmram>>

(***************************************************************************)
(* SmmRelocationSemaphoreComplete, outside SMM: sets the flag, fetches the *)
(* interrupted address, gives the lock back and returns there.             *)
(***************************************************************************)
SetRebased(c) ==
  /\ rCpu[c] = "flag" /\ rRebased' = TRUE /\ rCpu' = [rCpu EXCEPT ![c] = "fetch"]
  /\ UNCHANGED <<rBase, rAt, rArea, rNewBase, rLock, rOrig, rTemp, rIndex, rStep, rHobs, rSmram>>

FetchOriginal(c) ==
  /\ rCpu[c] = "fetch" /\ rTemp' = [rTemp EXCEPT ![c] = rOrig] /\ rCpu' = [rCpu EXCEPT ![c] = "release"]
  /\ UNCHANGED <<rBase, rAt, rArea, rNewBase, rRebased, rLock, rOrig, rIndex, rStep, rHobs, rSmram>>

ReleaseSmmRelocationSemaphore(c) ==
  /\ rCpu[c] = "release" /\ rLock' = "free"
  /\ rAt' = [rAt EXCEPT ![c] = rTemp[c]] /\ rCpu' = [rCpu EXCEPT ![c] = "run"]
  /\ UNCHANGED <<rBase, rArea, rNewBase, rRebased, rOrig, rTemp, rIndex, rStep, rHobs, rSmram>>

RNext ==
  \/ SmmRelocationInit \/ SmmRelocateSend \/ SmmRelocateWait \/ SmmRelocateRestore
  \/ \E c \in Cpus : TakeSmi(c) \/ SmmInitHandler(c) \/ SemaphoreHook(c) \/ Rsm(c)
                     \/ SetRebased(c) \/ FetchOriginal(c) \/ ReleaseSmmRelocationSemaphore(c)

RSpec == RInit /\ [][RNext]_rVars

InSmm == {c \in Cpus : rCpu[c] \in {"handler", "lock", "hooked"}}

\* Someone will set the flag that the BSP spins for, and someone will release the
\* lock that a CPU in SMM spins for: no loop has a limit.
NobodyWaitsInVain ==
  /\ rStep = "wait" => rRebased \/ rCpu[Sent] # "run"
  /\ rLock = "held" => \E c \in Cpus : rCpu[c] \in {"hooked", "flag", "fetch", "release"}

(***************************************************************************)
(* At most one CPU is in SMM at the default SMBASE, and none when its area *)
(* is put back; a CPU goes on with the code that was interrupted, and none *)
(* waits for ever; in the end each has an SMBASE of its own, inside the    *)
(* SMRAM set aside for it, and the HOBs name each possible CPU once.       *)
(***************************************************************************)
EachCpuRelocatedOnce ==
  /\ Cardinality(InSmm) <= 1 /\ (rStep = "restore" => InSmm = {})
  /\ NobodyWaitsInVain
  /\ \A c \in Cpus : rCpu[c] = "run" => rAt[c] = c
  /\ rStep = "done" =>
       /\ \A c \in Cpus : /\ rBase[c] + SMM_HANDLER_OFFSET >= rSmram[1].start
                          /\ rBase[c] + 2 * SMM_HANDLER_OFFSET <= rSmram[1].start + rSmram[1].size
       /\ \A c, d \in Cpus : c # d => rBase[c] # rBase[d]
       /\ \A i \in 0..MaxCpus - 1 : Cardinality({h \in rHobs : i - h.first \in DOMAIN h.bases}) = 1
       /\ \A h \in rHobs : \A i \in DOMAIN h.bases :
            h.first + i < NumCpus => h.bases[i] = rBase[h.first + i]
  /\ (rStep \notin {"init", "failed"}) =>
       /\ rSmram[1].start + rSmram[1].size = rSmram[2].start
       /\ rSmram[2].start + rSmram[2].size = SmramStart + SmramSize
=============================================================================
