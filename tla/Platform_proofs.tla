--------------------------- MODULE Platform_proofs ---------------------------
(***************************************************************************)
(* Proofs about seven drivers that share no state: the initrd command, the *)
(* timer with its interrupt controller, the physical presence requests,    *)
(* the ACPI loader, the kernel loader, the boot of Linux and the variables *)
(* kept in a file.  Each part gives the inductive invariant of one         *)
(* component, one lemma for each of its actions, and its theorems.         *)
(***************************************************************************)
EXTENDS Timer8254, LinuxInitrd, AcpiLoader, Tcg2Presence, KernelLoader, LoadLinux, NvVars, PowersOfTwo_proofs,
        FiniteSetTheorems, SequenceTheorems, TLAPS

-----------------------------------------------------------------------------
(* LinuxInitrd.                                                            *)

\* The property itself, with the types it needs, is inductive.
InitrdInv ==
  /\ InitrdServed
  /\ rdSize \in Nat /\ rdHandle \in BOOLEAN /\ rdOther \in BOOLEAN
  /\ rdSize # 0 => rdWanted \in Initrds

\* Freeing the file on offer leaves no pages held.
LEMMA NothingHeldAfterFree == ASSUME InitrdInv PROVE DOMAIN FreeInitrdFile = {}
  <1>1. CASE rdSize = 0
    BY <1>1 DEF InitrdInv, InitrdServed, FreeInitrdFile
  <1>2. CASE rdSize # 0
    <2>1. /\ DOMAIN rdMemory = {rdAddress}
          /\ rdMemory[rdAddress].pages = FilePages(rdSize)
      BY <1>2 DEF InitrdInv, InitrdServed
    <2>2. FreeInitrdFile = [a \in DOMAIN rdMemory \ {rdAddress} |-> rdMemory[a]]
      BY <1>2, <2>1 DEF FreeInitrdFile, Freed
    <2> QED
      BY <2>1, <2>2
  <1> QED
    BY <1>1, <1>2

\* A new file is kept whole and offered, or nothing is.
LEMMA CachePreserves ==
  ASSUME InitrdInv, RunInitrdFile
  PROVE  InitrdInv'
  <1>1. PICK f \in Initrds : CacheInitrdFile(FreeInitrdFile, f) /\ rdWanted' = f
    BY DEF RunInitrdFile
  <1>2. /\ rdCommand # {} /\ ~rdOther /\ UNCHANGED <<rdOther, rdCommand, rdAnswer>>
        /\ rdAnswer.data # "freed" /\ f.size \in Nat /\ rdHandle \in BOOLEAN
    BY InitrdAssumption DEF RunInitrdFile, IsOtherInitrdDevicePathAlreadyInstalled, InitrdInv, InitrdServed
  <1> DEFINE m == FreeInitrdFile
  <1>3. DOMAIN m = {}
    BY NothingHeldAfterFree
  <1>4. CASE rdMemory' = m /\ rdSize' = 0 /\ rdHandle' = rdHandle
    BY <1>2, <1>3, <1>4 DEF InitrdInv, InitrdServed
  <1>5. ASSUME NEW a, f.size > 0, rdAddress' = a, rdHandle' \in BOOLEAN, rdSize' = f.size,
               rdMemory' = [b \in DOMAIN m \cup {a} |->
                              IF b = a THEN [pages |-> FilePages(f.size), holds |-> f] ELSE m[b]]
        PROVE  InitrdInv'
    <2>1. DOMAIN rdMemory' = {a} /\ rdMemory'[a] = [pages |-> FilePages(f.size), holds |-> f]
      BY <1>3, <1>5
    <2>2. rdSize' # 0
      BY <1>2, <1>5
    <2>3. InitrdServed'
      BY <1>1, <1>2, <1>5, <2>1, <2>2 DEF InitrdServed
    <2> QED
      BY <1>1, <1>2, <1>5, <2>3 DEF InitrdInv
  <1> HIDE DEF m
  <1> QED
    BY <1>1, <1>2, <1>4, <1>5 DEF CacheInitrdFile, m

\* LoadFile2 has the file of the last command in memory whenever it has a size.
LEMMA LoadFilePreserves ==
  ASSUME InitrdInv, ShellInitrdLoadFile2
  PROVE  InitrdInv'
  <1>1. UNCHANGED <<rdSize, rdAddress, rdHandle, rdOther, rdCommand, rdMemory, rdWanted>>
    BY DEF ShellInitrdLoadFile2
  <1>2. rdAnswer'.data # "freed"
    <2>1. PICK b, e \in BOOLEAN, p \in {"end", "more", "invalid"}, f \in Initrds :
            rdAnswer' = ShellInitrdAnswer(b, p, f.size, e)
      BY DEF ShellInitrdLoadFile2
    <2>2. CASE rdSize = 0
      BY <2>1, <2>2 DEF ShellInitrdAnswer
    <2>3. CASE rdSize # 0
      <3>1. /\ rdAddress \in DOMAIN rdMemory /\ rdMemory[rdAddress].holds = rdWanted
            /\ rdWanted.name # "freed"
        BY <2>3, InitrdAssumption DEF InitrdInv, InitrdServed
      <3> QED
        BY <2>1, <3>1 DEF ShellInitrdAnswer
    <2> QED
      BY <2>2, <2>3
  <1> QED
    BY <1>1, <1>2 DEF InitrdInv, InitrdServed

\* Over any sequence of shell commands, failures and unloads, what LoadFile2 serves
\* is the file of the last `initrd' command that opened one, and nothing else is held.
THEOREM InitrdIsServed == RdSpec => []InitrdServed
  <1>1. RdInit => InitrdInv
    <2> SUFFICES ASSUME RdInit PROVE InitrdInv
      OBVIOUS
    <2>1. rdSize = 0 /\ rdHandle = FALSE /\ rdOther \in BOOLEAN /\ rdCommand # {} /\ rdAnswer.data # "freed"
      BY DEF RdInit, NoAnswer
    <2>2. DOMAIN rdMemory = {}
      BY DEF RdInit
    <2> QED
      BY <2>1, <2>2 DEF InitrdInv, InitrdServed
  <1>2. InitrdInv /\ [RdNext]_rdVars => InitrdInv'
    <2> SUFFICES ASSUME InitrdInv, [RdNext]_rdVars PROVE InitrdInv'
      OBVIOUS
    <2>1. CASE RunInitrdUnload
      BY <2>1, NothingHeldAfterFree
         DEF RunInitrdUnload, UninstallLoadFile2Protocol, InitrdInv, InitrdServed, IsOtherInitrdDevicePathAlreadyInstalled
    <2>2. CASE LinuxInitrdDynamicShellCommandUnload
      BY <2>2, NothingHeldAfterFree DEF LinuxInitrdDynamicShellCommandUnload, InitrdInv, InitrdServed
    <2>3. CASE OtherInitrd
      BY <2>3 DEF OtherInitrd, InitrdInv, InitrdServed
    <2>4. CASE UNCHANGED rdVars
      BY <2>4 DEF rdVars, InitrdInv, InitrdServed
    <2> QED
      BY <2>1, <2>2, <2>3, <2>4, CachePreserves, LoadFilePreserves DEF RdNext
  <1>3. InitrdInv => InitrdServed
    BY DEF InitrdInv
  <1> QED
    BY <1>1, <1>2, <1>3, PTL DEF RdSpec

-----------------------------------------------------------------------------
(* Timer8254.                                                              *)

TimerSteps == {"notify", "restore", "disable", "end"}
CallType == [at : {"install", "timer", "count", "irq", "period", "idle"}, period : Period64, count : Nat]
TimerType == [notify : BOOLEAN, period : Period64, pit : Nat, vector : Nat]

TimerTypes ==
  /\ hRegs \in Masks /\ hProt \in Masks /\ hWant \in Masks /\ hLegacy \in Masks
  /\ hMode \in {"protected", "legacy"} /\ hWord \in {"written", "waiting", "lost"} /\ hOwn \in BOOLEAN
  /\ hBase \in Nat /\ hTimer \in TimerType /\ hCall \in CallType

\* At most one activation; the line is in service exactly while there is one, and then
\* unmasked; interrupts are on outside of it and where RestoreTPL has enabled them.
OneActivation ==
  /\ hIf \in BOOLEAN /\ hServing \in BOOLEAN
  /\ \/ hFrames = << >> /\ ~hServing /\ hIf
     \/ /\ \E s \in TimerSteps : hFrames = <<s>> /\ (hIf <=> s = "disable")
        /\ hServing /\ 0 \notin hRegs.mask

\* Before the timer driver is there, nothing is unmasked.
TimerNotYet == hCall.at \in {"install", "timer"} =>
  /\ hProt = AllMasked /\ hRegs = AllMasked /\ hWant = AllMasked /\ hMode = "protected"
  /\ hWord = "written" /\ hFrames = << >>

\* The protected mode's masks are in the registers in that mode, and are those asked for.
TimerMasks ==
  /\ hWord # "lost" => hProt = hWant
  /\ hWord = "written" /\ hMode = "protected" => hRegs = hProt
  /\ hWord = "waiting" => hMode = "protected"

\* The timer's line follows the period, the one being set once its step is done.
TimerLine ==
  /\ hOwn /\ hMode = "protected" => (0 \in hRegs.mask <=> 0 \in hProt.mask)
  /\ hOwn /\ hCall.at = "idle" => (0 \in hProt.mask <=> hTimer.period = NoPeriod)
  /\ hCall.at = "period" => hOwn /\ (0 \in hProt.mask <=> hCall.period = NoPeriod)

\* So does the count of the PIT.
Countable(period) == period.hi = 0 /\ period.lo >= 5
CountOf(count, period) == PitTicks(count) * 1000 - MilliTicks(period) \in -500 .. 500

TimerCounts ==
  /\ hCall.at \in {"count", "irq", "period"} /\ Countable(hCall.period) => CountOf(hCall.count, hCall.period)
  /\ hCall.at \in {"irq", "period"} /\ Countable(hCall.period) => hTimer.pit = hCall.count
  /\ hCall.at = "idle" /\ Countable(hTimer.period) => CountOf(hTimer.pit, hTimer.period)

TimerInv == /\ TimerTypes /\ OneActivation /\ TimerNotYet /\ TimerMasks /\ TimerLine /\ TimerCounts
            /\ hTold # NoPeriod

\* The constants in the form the provers use.
LEMMA TimerConstants ==
  /\ 0 \in Irqs /\ LegacyModeMask \in SUBSET Irqs /\ TimerPeriods \subseteq Period64 /\ MasterBases \subseteq Nat
  /\ \A a \in PicArgs : a.mask \in OptionalLines /\ a.edge \in OptionalLines
  BY TimerAssumption, SMT

\* The count the code computes is that of the period, to within half a tick.
LEMMA TimerCountFacts ==
  ASSUME NEW p \in Period64
  PROVE  /\ TimerCount(p) \in Nat
         /\ p.lo >= 5 => CountOf(TimerCount(p), p) /\ TimerCount(p) # 0
  <1> DEFINE a == p.lo \div 1000
             b == p.lo % 1000
             c == (119318 * b) \div 1000
             d == (119318 * b + 500000) \div 1000
  <1>1. p.lo \in Nat /\ a \in Nat /\ b \in Nat /\ p.lo = 1000 * a + b
    BY DEF Period64
  <1>2. c \in Nat /\ d = c + 500
    BY <1>1
  <1>3. TimerCount(p) = (119318 * a + d) \div 1000 /\ MilliTicks(p) = 119318 * a + c
    BY DEF TimerCount, MilliTicks
  <1>4. p.lo >= 5 => 119318 * a + d >= 1000
    <2>1. CASE a = 0
      <3> HIDE DEF a, b, d
      <3>1. p.lo >= 5 => b >= 5
        BY <1>1, <2>1
      <3>2. b >= 5 => c >= 596
        BY <1>1
      <3> HIDE DEF c
      <3> QED
        BY <1>1, <1>2, <2>1, <3>1, <3>2
    <2>2. CASE a > 0
      <3> HIDE DEF a, c, d
      <3> QED
        BY <1>1, <1>2, <2>2
    <2> QED
      BY <1>1, <2>1, <2>2
  <1> HIDE DEF a, b, c, d
  <1>5. PICK t \in Nat : t = (119318 * a + d) \div 1000
    BY <1>1, <1>2
  <1>6. 1000 * t <= 119318 * a + d /\ 119318 * a + d < 1000 * t + 1000
    BY <1>1, <1>2, <1>5
  <1>7. p.lo >= 5 => t # 0
    BY <1>1, <1>2, <1>4, <1>6
  <1>8. t # 0 => CountOf(t, p)
    BY <1>1, <1>2, <1>3, <1>6 DEF CountOf, PitTicks
  <1> QED
    BY <1>3, <1>5, <1>7, <1>8

\* The longest period: the count 0, which is 65536 ticks.  The default one.
LEMMA TimerLimits ==
  /\ MaxPeriod \in Period64 /\ CountOf(0, MaxPeriod) /\ MaxPeriod # NoPeriod
  /\ Default \in Period64 /\ Default.lo = 100000 /\ Default # NoPeriod
  /\ NoPeriod \in Period64 /\ NoPeriod.hi = 0 /\ NoPeriod.lo = 0
  <1>1. MilliTicks(MaxPeriod) = 65535888
    BY DEF MilliTicks, MaxPeriod
  <1>2. CountOf(0, MaxPeriod)
    BY <1>1 DEF CountOf, PitTicks
  <1>3. /\ MaxPeriod \in Period64 /\ Default \in Period64 /\ NoPeriod \in Period64
        /\ MaxPeriod.lo = 549254 /\ Default.lo = 100000 /\ NoPeriod.hi = 0 /\ NoPeriod.lo = 0
    BY DEF MaxPeriod, Default, NoPeriod, Period64
  <1> QED
    BY <1>2, <1>3

\* Masks stay masks.
LEMMA MasksAreMasks ==
  /\ \A m \in Masks, irq \in Irqs, l \in BOOLEAN :
       /\ Unmask(m, irq, l) \in Masks /\ Mask(m, irq) \in Masks
       /\ irq \notin Unmask(m, irq, l).mask /\ irq \in Mask(m, irq).mask
       /\ \A i \in Irqs \ {irq} : (i \in Unmask(m, irq, l).mask <=> i \in m.mask) /\ (i \in Mask(m, irq).mask <=> i \in m.mask)
  /\ \A m \in Masks, a \in PicArgs :
       /\ PicGiven(a, m) \in Masks /\ (a.mask = {} => PicGiven(a, m).mask = m.mask)
       /\ \A n \in Masks : PicWhole(a) => PicGiven(a, m) = PicGiven(a, n)
       /\ a = [mask |-> {}, edge |-> {}] => PicGiven(a, m) = m
  /\ AllMasked \in Masks /\ 0 \in AllMasked.mask
  <1>1. ASSUME NEW m \in Masks, NEW irq \in Irqs, NEW l \in BOOLEAN
        PROVE  /\ Unmask(m, irq, l) \in Masks /\ Mask(m, irq) \in Masks
               /\ irq \notin Unmask(m, irq, l).mask /\ irq \in Mask(m, irq).mask
               /\ \A i \in Irqs \ {irq} : (i \in Unmask(m, irq, l).mask <=> i \in m.mask) /\ (i \in Mask(m, irq).mask <=> i \in m.mask)
    <2>1. m.mask \in SUBSET Irqs /\ m.edge \in SUBSET Irqs
      BY DEF Masks
    <2> QED
      BY <2>1 DEF Unmask, Mask, Masks
  <1>2. ASSUME NEW m \in Masks, NEW a \in PicArgs
        PROVE  /\ PicGiven(a, m) \in Masks /\ (a.mask = {} => PicGiven(a, m).mask = m.mask)
               /\ \A n \in Masks : PicWhole(a) => PicGiven(a, m) = PicGiven(a, n)
               /\ a = [mask |-> {}, edge |-> {}] => PicGiven(a, m) = m
    <2>1. m.mask \in SUBSET Irqs /\ m.edge \in SUBSET Irqs /\ m = [mask |-> m.mask, edge |-> m.edge]
      BY DEF Masks
    <2>2. \A o \in OptionalLines : UNION o \in SUBSET Irqs
      BY DEF OptionalLines
    <2>3. UNION a.mask \in SUBSET Irqs /\ UNION a.edge \in SUBSET Irqs
      BY <2>2, TimerConstants
    <2>4. PicGiven(a, m) \in Masks
      BY <2>1, <2>3 DEF PicGiven, Masks
    <2>5. a.mask = {} => PicGiven(a, m).mask = m.mask
      BY DEF PicGiven
    <2>6. \A n \in Masks : PicWhole(a) => PicGiven(a, m) = PicGiven(a, n)
      BY DEF PicGiven, PicWhole
    <2>7. a = [mask |-> {}, edge |-> {}] => PicGiven(a, m) = m
      <3> SUFFICES ASSUME a = [mask |-> {}, edge |-> {}] PROVE PicGiven(a, m) = m
        OBVIOUS
      <3>1. a.mask = {} /\ a.edge = {}
        OBVIOUS
      <3>2. PicGiven(a, m) = [mask |-> m.mask, edge |-> m.edge]
        BY <3>1 DEF PicGiven
      <3> QED
        BY <2>1, <3>2
    <2> QED
      BY <2>4, <2>5, <2>6, <2>7
  <1>3. AllMasked \in Masks /\ 0 \in AllMasked.mask
    BY TimerConstants DEF AllMasked, Masks
  <1> QED
    BY <1>1, <1>2, <1>3

\* At reset, with everything masked.
LEMMA TimerInitEstablishes == HInit => TimerInv
  <1> SUFFICES ASSUME HInit PROVE TimerInv
    OBVIOUS
  <1>1. hCall = [at |-> "install", period |-> NoPeriod, count |-> 0] /\ hCall.at = "install"
    BY DEF HInit, Idle8254
  <1>2. [mask |-> {}, edge |-> {}] \in Masks
    BY DEF Masks
  <1>3. TimerTypes
    <2>1. NoPeriod \in Period64
      BY TimerLimits
    <2>2. hTimer = [notify |-> FALSE, period |-> NoPeriod, pit |-> 0, vector |-> 0]
      BY DEF HInit
    <2>3. hTimer \in TimerType /\ hCall \in CallType
      BY <1>1, <2>1, <2>2 DEF TimerType, CallType
    <2> QED
      BY <1>2, <2>3, MasksAreMasks DEF HInit, TimerTypes
  <1>4. OneActivation /\ TimerNotYet
    BY DEF HInit, OneActivation, TimerNotYet
  <1>5. TimerMasks /\ TimerLine /\ TimerCounts /\ hTold # NoPeriod
    BY <1>1, TimerLimits DEF HInit, TimerMasks, TimerLine, TimerCounts
  <1> QED
    BY <1>3, <1>4, <1>5 DEF TimerInv

\* Install8259, while everything is masked.
LEMMA InstallPreserves ==
  ASSUME TimerInv, Install8259
  PROVE  TimerInv'
  <1>1. hCall.at = "install" /\ hCall' \in CallType /\ hCall'.at = "timer"
    BY DEF Install8259, TimerInv, TimerTypes, CallType
  <1>2. [mask |-> LegacyModeMask, edge |-> {}] \in Masks
    BY TimerConstants DEF Masks
  <1>3. hProt = AllMasked /\ hRegs' = AllMasked /\ hFrames = << >>
    BY <1>1 DEF TimerInv, TimerNotYet, Install8259
  <1>4. TimerTypes'
    BY <1>1, <1>2, <1>3, MasksAreMasks DEF TimerInv, TimerTypes, Install8259, MasterBase
  <1>5. OneActivation'
    BY <1>3 DEF TimerInv, OneActivation, Install8259, Interrupt8259EndOfInterrupt
  <1>6. TimerNotYet' /\ TimerMasks' /\ TimerLine' /\ TimerCounts' /\ hTold' # NoPeriod
    BY <1>1, <1>3 DEF TimerInv, TimerNotYet, TimerMasks, TimerLine, TimerCounts, Install8259
  <1> QED
    BY <1>4, <1>5, <1>6 DEF TimerInv

\* Enabling or disabling a line writes the protected mode's masks, a SetMask that waits
\* for it included.
LEMMA IrqWritten ==
  ASSUME TimerTypes, TimerMasks, NEW irq \in Irqs, NEW level \in BOOLEAN,
         Interrupt8259EnableIrq(irq, level) \/ Interrupt8259DisableIrq(irq), hMode' = hMode
  PROVE  /\ hProt' \in Masks /\ hRegs' = hProt' /\ hWant' \in Masks
         /\ hWord' \in {"written", "waiting", "lost"} /\ TimerMasks'
         /\ irq # 0 => (0 \in hProt'.mask <=> 0 \in hProt.mask)
         /\ Interrupt8259EnableIrq(irq, level) => irq \notin hProt'.mask
         /\ Interrupt8259DisableIrq(irq) => irq \in hProt'.mask
  <1>1. hProt \in Masks /\ hWant \in Masks /\ 0 \in Irqs
    BY TimerConstants DEF TimerTypes
  <1>2. /\ hRegs' = hProt' /\ hWord' = IF hWord = "waiting" THEN "written" ELSE hWord
        /\ \/ hProt' = Unmask(hProt, irq, level) /\ hWant' = Unmask(hWant, irq, level)
           \/ hProt' = Mask(hProt, irq) /\ hWant' = Mask(hWant, irq)
        /\ Interrupt8259EnableIrq(irq, level) => hProt' = Unmask(hProt, irq, level)
        /\ Interrupt8259DisableIrq(irq) => hProt' = Mask(hProt, irq)
    BY DEF Interrupt8259EnableIrq, Interrupt8259DisableIrq, Interrupt8259WriteMask
  <1>3. /\ hProt' \in Masks /\ hWant' \in Masks
        /\ irq # 0 => (0 \in hProt'.mask <=> 0 \in hProt.mask)
        /\ Interrupt8259EnableIrq(irq, level) => irq \notin hProt'.mask
        /\ Interrupt8259DisableIrq(irq) => irq \in hProt'.mask
    BY <1>1, <1>2, MasksAreMasks
  <1>4. TimerMasks' /\ hWord' \in {"written", "waiting", "lost"}
    BY <1>2 DEF TimerTypes, TimerMasks
  <1> QED
    BY <1>2, <1>3, <1>4

\* TimerDriverInitialize installs the handler at the vector of line 0.
LEMMA TimerDriverStarts ==
  ASSUME TimerInv, TimerDriverInitialize
  PROVE  TimerInv'
  <1>1. /\ hCall.at = "timer" /\ hFrames = << >> /\ UNCHANGED <<hLegacy, hMode, hBase, hOwn>>
        /\ UNCHANGED <<hServing, hFrames, hIf, hTold>> /\ Interrupt8259DisableIrq(0)
    BY DEF TimerDriverInitialize, lineVars, TimerInv, TimerNotYet
  <1>2. /\ hCall' \in CallType /\ hCall'.at = "count"
        /\ hCall'.period = Default /\ hCall'.count = TimerCount(Default) /\ CountOf(TimerCount(Default), Default)
    BY TimerLimits, TimerCountFacts DEF TimerDriverInitialize, CallType
  <1>3. hTimer' \in TimerType
    <2>1. Interrupt8259GetVector(0) \in Nat
      BY DEF TimerInv, TimerTypes, Interrupt8259GetVector
    <2>2. hTimer' = [hTimer EXCEPT !.period = NoPeriod, !.vector = Interrupt8259GetVector(0)]
      BY DEF TimerDriverInitialize
    <2>3. hTimer \in TimerType
      BY DEF TimerInv, TimerTypes
    <2>4. NoPeriod \in Period64
      BY TimerLimits
    <2> QED
      BY <2>1, <2>2, <2>3, <2>4 DEF TimerType
  <1>4. /\ hProt' \in Masks /\ hRegs' = hProt' /\ hWant' \in Masks
        /\ hWord' \in {"written", "waiting", "lost"} /\ TimerMasks'
    BY <1>1, IrqWritten, TimerConstants DEF TimerInv
  <1>5. TimerTypes' /\ OneActivation' /\ TimerNotYet'
    BY <1>1, <1>2, <1>3, <1>4 DEF TimerInv, TimerTypes, OneActivation, TimerNotYet
  <1>6. TimerLine' /\ TimerCounts' /\ hTold' # NoPeriod
    BY <1>1, <1>2, <1>4 DEF TimerInv, TimerLine, TimerCounts
  <1> QED
    BY <1>4, <1>5, <1>6 DEF TimerInv

\* What changes masks only, between the timer driver's calls.
LEMMA MasksChange ==
  ASSUME TimerInv, hCall.at = "idle", hFrames = << >>, UNCHANGED <<hTimer, hCall, hFrames, hIf, hTold>>,
         hServing' = FALSE,
         hRegs' \in Masks, hProt' \in Masks, hWant' \in Masks, hLegacy' \in Masks, hBase' \in Nat,
         hMode' \in {"protected", "legacy"}, hWord' \in {"written", "waiting", "lost"}, hOwn' \in BOOLEAN,
         TimerMasks',
         hOwn' => hOwn /\ (0 \in hProt'.mask <=> 0 \in hProt.mask),
         hOwn' /\ hMode' = "protected" => (0 \in hRegs'.mask <=> 0 \in hProt'.mask)
  PROVE  TimerInv'
  <1>1. TimerTypes'
    BY DEF TimerInv, TimerTypes
  <1>2. OneActivation'
    BY DEF TimerInv, OneActivation
  <1>3. TimerNotYet' /\ TimerLine' /\ TimerCounts'
    BY DEF TimerInv, TimerNotYet, TimerLine, TimerCounts
  <1> QED
    BY <1>1, <1>2, <1>3 DEF TimerInv

\* The calls of other drivers, between the timer driver's: the masks of the
\* protected mode survive a stay in legacy mode.
LEMMA PicCallPreserves ==
  ASSUME TimerInv,
         \/ \E b \in MasterBases : Interrupt8259SetVectorBase(b)
         \/ \E a \in PicArgs, mode \in {"legacy", "protected"} : Interrupt8259SetMode(mode, a)
         \/ \E a, b \in PicArgs : Interrupt8259SetMask(a, b)
         \/ \E i \in Irqs, l \in BOOLEAN : ClientIrq(i, l)
  PROVE  TimerInv'
  <1>1. /\ TimerTypes /\ TimerMasks /\ hOwn \in BOOLEAN
        /\ hOwn /\ hMode = "protected" => (0 \in hRegs.mask <=> 0 \in hProt.mask)
        /\ hRegs \in Masks /\ hProt \in Masks /\ hWant \in Masks /\ hLegacy \in Masks /\ hBase \in Nat
        /\ hMode \in {"protected", "legacy"} /\ hWord \in {"written", "waiting", "lost"}
        /\ hFrames = << >> => hServing = FALSE
    BY DEF TimerInv, TimerTypes, TimerLine, OneActivation
  <1>2. ASSUME NEW b \in MasterBases, Interrupt8259SetVectorBase(b) PROVE TimerInv'
    <2>1. /\ hCall.at = "idle" /\ hFrames = << >> /\ hBase' = b /\ hServing' = FALSE
          /\ UNCHANGED <<hTimer, hCall, hFrames, hIf, hTold, hRegs, hProt, hLegacy, hMode, hWant, hWord, hOwn>>
      BY <1>2 DEF Interrupt8259SetVectorBase, Foreground, Interrupt8259EndOfInterrupt
    <2>2. b \in Nat
      BY TimerConstants
    <2>3. TimerMasks'
      BY <1>1, <2>1 DEF TimerMasks
    <2> QED
      BY <1>1, <2>1, <2>2, <2>3, MasksChange
  <1>3. ASSUME NEW a \in PicArgs, NEW b \in PicArgs, Interrupt8259SetMask(a, b) PROVE TimerInv'
    <2>1. /\ hCall.at = "idle" /\ hFrames = << >>
          /\ UNCHANGED <<hTimer, hCall, hFrames, hIf, hTold, hServing, hRegs, hMode, hBase>>
          /\ hLegacy' = PicGiven(a, hLegacy) /\ hProt' = PicGiven(b, hProt) /\ hWant' = PicGiven(b, hWant)
          /\ hOwn' = (hOwn /\ b.mask = {})
          /\ hWord' = IF hMode = "legacy" THEN (IF PicWhole(b) THEN "written" ELSE hWord)
                      ELSE IF hWord = "written" /\ b # [mask |-> {}, edge |-> {}] THEN "waiting" ELSE hWord
      BY <1>3 DEF Interrupt8259SetMask, Foreground, lineVars
    <2>2. /\ hLegacy' \in Masks /\ hProt' \in Masks /\ hWant' \in Masks
          /\ b.mask = {} => hProt'.mask = hProt.mask
          /\ PicWhole(b) => hProt' = hWant'
          /\ b = [mask |-> {}, edge |-> {}] => hProt' = hProt /\ hWant' = hWant
      <3>1. hLegacy' \in Masks /\ hProt' \in Masks /\ hWant' \in Masks
        BY <1>1, <2>1, MasksAreMasks
      <3>2. b.mask = {} => hProt'.mask = hProt.mask
        BY <1>1, <2>1, MasksAreMasks
      <3>3. PicWhole(b) => hProt' = hWant'
        BY <1>1, <2>1, MasksAreMasks
      <3>4. b = [mask |-> {}, edge |-> {}] => hProt' = hProt /\ hWant' = hWant
        BY <1>1, <2>1, MasksAreMasks
      <3> QED
        BY <3>1, <3>2, <3>3, <3>4
    <2>3. /\ hMode = "legacy" => hWord' = IF PicWhole(b) THEN "written" ELSE hWord
          /\ hMode # "legacy" => \/ hWord = "written" /\ b # [mask |-> {}, edge |-> {}] /\ hWord' = "waiting"
                                 \/ (hWord = "written" => b = [mask |-> {}, edge |-> {}]) /\ hWord' = hWord
      <3> DEFINE none == b = [mask |-> {}, edge |-> {}]
      <3>1. hWord' = IF hMode = "legacy" THEN (IF PicWhole(b) THEN "written" ELSE hWord)
                     ELSE IF hWord = "written" /\ ~none THEN "waiting" ELSE hWord
        BY <2>1
      <3> HIDE DEF none
      <3>2. /\ hMode = "legacy" => hWord' = IF PicWhole(b) THEN "written" ELSE hWord
            /\ hMode # "legacy" => \/ hWord = "written" /\ ~none /\ hWord' = "waiting"
                                   \/ (hWord = "written" => none) /\ hWord' = hWord
        BY <3>1
      <3> QED
        BY <3>2 DEF none
    <2>4. TimerMasks' /\ hWord' \in {"written", "waiting", "lost"}
      BY <1>1, <2>1, <2>2, <2>3 DEF TimerMasks
    <2> QED
      BY <1>1, <2>1, <2>2, <2>4, MasksChange
  <1>4. ASSUME NEW a \in PicArgs, Interrupt8259SetMode("legacy", a) PROVE TimerInv'
    <2>1. /\ hCall.at = "idle" /\ hFrames = << >> /\ hMode = "protected" /\ hMode' = "legacy"
          /\ UNCHANGED <<hTimer, hCall, hFrames, hIf, hTold, hServing, hBase, hWant, hOwn>>
          /\ hProt' = hRegs /\ hLegacy' = PicGiven(a, hLegacy) /\ hRegs' = hLegacy'
          /\ hWord' = IF hWord = "waiting" THEN "lost" ELSE hWord
      BY <1>1, <1>4 DEF Interrupt8259SetMode, Foreground, lineVars
    <2>2. hLegacy' \in Masks
      BY <1>1, <2>1, MasksAreMasks
    <2>3. TimerMasks' /\ hWord' \in {"written", "waiting", "lost"}
      BY <1>1, <2>1 DEF TimerMasks
    <2> QED
      BY <1>1, <2>1, <2>2, <2>3, MasksChange
  <1>5. ASSUME NEW a \in PicArgs, Interrupt8259SetMode("protected", a) PROVE TimerInv'
    <2>1. /\ hCall.at = "idle" /\ hFrames = << >> /\ hMode = "legacy" /\ hMode' = "protected"
          /\ UNCHANGED <<hTimer, hCall, hFrames, hIf, hTold, hServing, hBase>>
          /\ hLegacy' = [hRegs EXCEPT !.mask = hRegs.mask \ {0}]
          /\ hProt' = PicGiven(a, hProt) /\ hRegs' = hProt' /\ hWant' = PicGiven(a, hWant)
          /\ hWord' = IF PicWhole(a) THEN "written" ELSE hWord
          /\ hOwn' = (hOwn /\ a.mask = {})
      BY <1>1, <1>5 DEF Interrupt8259SetMode, Foreground, lineVars
    <2>2. /\ hProt' \in Masks /\ hWant' \in Masks
          /\ a.mask = {} => hProt'.mask = hProt.mask
          /\ PicWhole(a) => hProt' = hWant'
      <3>1. hProt' \in Masks /\ hWant' \in Masks
        BY <1>1, <2>1, MasksAreMasks
      <3>2. a.mask = {} => hProt'.mask = hProt.mask
        BY <1>1, <2>1, MasksAreMasks
      <3>3. PicWhole(a) => hProt' = hWant'
        BY <1>1, <2>1, MasksAreMasks
      <3> QED
        BY <3>1, <3>2, <3>3
    <2>3. hLegacy' \in Masks
      BY <1>1, <2>1 DEF Masks
    <2>4. TimerMasks' /\ hWord' \in {"written", "waiting", "lost"}
      BY <1>1, <2>1, <2>2 DEF TimerMasks
    <2> QED
      BY <1>1, <2>1, <2>2, <2>3, <2>4, MasksChange
  <1>6. ASSUME NEW i \in Irqs, NEW l \in BOOLEAN, ClientIrq(i, l) PROVE TimerInv'
    <2>1. /\ hCall.at = "idle" /\ hFrames = << >> /\ i # 0
          /\ UNCHANGED <<hTimer, hCall, hFrames, hIf, hTold, hServing, hBase, hLegacy, hMode, hOwn>>
          /\ Interrupt8259EnableIrq(i, l) \/ Interrupt8259DisableIrq(i)
      BY <1>6 DEF ClientIrq, Foreground, lineVars
    <2>2. /\ hProt' \in Masks /\ hRegs' = hProt' /\ hWant' \in Masks
          /\ hWord' \in {"written", "waiting", "lost"} /\ TimerMasks'
          /\ 0 \in hProt'.mask <=> 0 \in hProt.mask
      BY <1>1, <2>1, IrqWritten
    <2> QED
      BY <1>1, <2>1, <2>2, MasksChange
  <1> QED
    BY <1>2, <1>3, <1>4, <1>5, <1>6

\* TimerDriverSetTimerPeriod's beginning: the count of the period, or the longest one.
LEMMA PeriodCallPreserves ==
  ASSUME TimerInv, NEW p \in TimerPeriods, SetTimerPeriodCall(p)
  PROVE  TimerInv'
  <1>1. /\ hCall.at = "idle" /\ hFrames = << >> /\ UNCHANGED <<hTimer, hFrames, hIf, hTold, hServing>>
        /\ UNCHANGED <<hRegs, hProt, hLegacy, hMode, hBase, hWant, hWord, hOwn>>
    BY DEF SetTimerPeriodCall, Foreground, picVars, lineVars
  <1>2. p \in Period64 /\ TimerCount(p) \in Nat
    BY TimerConstants, TimerCountFacts
  <1>3. /\ hCall' \in CallType /\ hCall'.at \in {"count", "irq"}
        /\ Countable(hCall'.period) => CountOf(hCall'.count, hCall'.period) /\ hCall'.at = "count"
    <2>1. CASE TimerCount(p) >= 65536
      <3>1. hCall' = [at |-> "count", period |-> MaxPeriod, count |-> 0]
        BY <2>1 DEF SetTimerPeriodCall
      <3> QED
        BY <3>1, TimerLimits DEF CallType
    <2>2. CASE ~(TimerCount(p) >= 65536)
      <3>1. hCall' = [at |-> IF p = NoPeriod THEN "irq" ELSE "count", period |-> p, count |-> TimerCount(p)]
        BY <2>2 DEF SetTimerPeriodCall
      <3>2. hCall' \in CallType /\ hCall'.at \in {"count", "irq"} /\ hCall'.period = p
            /\ hCall'.count = TimerCount(p) /\ (p # NoPeriod => hCall'.at = "count")
        BY <1>2, <3>1 DEF CallType
      <3>3. Countable(p) => p # NoPeriod /\ CountOf(TimerCount(p), p)
        BY <1>2, TimerLimits, TimerCountFacts DEF Countable
      <3> QED
        BY <3>2, <3>3
    <2> QED
      BY <2>1, <2>2
  <1>4. TimerTypes' /\ OneActivation' /\ TimerNotYet'
    BY <1>1, <1>3 DEF TimerInv, TimerTypes, OneActivation, TimerNotYet
  <1>5. TimerMasks' /\ TimerLine' /\ TimerCounts'
    BY <1>1, <1>3 DEF TimerInv, TimerMasks, TimerLine, TimerCounts
  <1> QED
    BY <1>1, <1>4, <1>5 DEF TimerInv

\* Its other steps, each of which the timer may interrupt.
LEMMA PeriodStepPreserves ==
  ASSUME TimerInv, TimerDriverSetTimerPeriod
  PROVE  TimerInv'
  <1>1. /\ hFrames = << >> /\ UNCHANGED <<hFrames, hIf, hTold, hServing>>
        /\ hCall \in CallType /\ hTimer \in TimerType
    BY DEF TimerDriverSetTimerPeriod, lineVars, TimerInv, TimerTypes
  <1>2. CASE hCall.at = "count"
    <2>1. /\ hCall' = [hCall EXCEPT !.at = "irq"] /\ hTimer' = [hTimer EXCEPT !.pit = hCall.count]
          /\ UNCHANGED <<hRegs, hProt, hLegacy, hMode, hBase, hWant, hWord, hOwn>>
      BY <1>2 DEF TimerDriverSetTimerPeriod, picVars
    <2>2. /\ hCall' \in CallType /\ hCall'.at = "irq" /\ hCall'.period = hCall.period /\ hCall'.count = hCall.count
          /\ hTimer' \in TimerType /\ hTimer'.pit = hCall.count
      BY <1>1, <2>1 DEF CallType, TimerType
    <2>3. TimerTypes' /\ OneActivation' /\ TimerNotYet'
      BY <1>1, <1>2, <2>1, <2>2 DEF TimerInv, TimerTypes, OneActivation, TimerNotYet
    <2>4. TimerMasks' /\ TimerLine' /\ TimerCounts'
      BY <1>2, <2>1, <2>2 DEF TimerInv, TimerMasks, TimerLine, TimerCounts
    <2> QED
      BY <1>1, <2>3, <2>4 DEF TimerInv
  <1>3. CASE hCall.at = "irq"
    <2>1. /\ hCall' = [hCall EXCEPT !.at = "period"] /\ UNCHANGED <<hTimer, hLegacy, hMode, hBase>> /\ hOwn' = TRUE
          /\ IF hCall.period = NoPeriod THEN Interrupt8259DisableIrq(0) ELSE Interrupt8259EnableIrq(0, FALSE)
      BY <1>3 DEF TimerDriverSetTimerPeriod
    <2>2. hCall' \in CallType /\ hCall'.at = "period" /\ hCall'.period = hCall.period /\ hCall'.count = hCall.count
      BY <1>1, <2>1 DEF CallType
    <2>3. /\ hProt' \in Masks /\ hRegs' = hProt' /\ hWant' \in Masks
          /\ hWord' \in {"written", "waiting", "lost"} /\ TimerMasks'
          /\ 0 \in hProt'.mask <=> hCall.period = NoPeriod
      <3>1. 0 \in Irqs /\ (Interrupt8259EnableIrq(0, FALSE) \/ Interrupt8259DisableIrq(0))
        BY <2>1, TimerConstants
      <3> QED
        BY <2>1, <3>1, IrqWritten DEF TimerInv
    <2>4. TimerTypes' /\ OneActivation' /\ TimerNotYet'
      BY <1>1, <1>3, <2>1, <2>2, <2>3 DEF TimerInv, TimerTypes, OneActivation, TimerNotYet
    <2>5. TimerLine' /\ TimerCounts'
      BY <1>3, <2>1, <2>2, <2>3 DEF TimerInv, TimerLine, TimerCounts
    <2> QED
      BY <1>1, <2>3, <2>4, <2>5 DEF TimerInv
  <1>4. CASE hCall.at = "period"
    <2>1. /\ hCall' = Idle8254 /\ hTimer' = [hTimer EXCEPT !.period = hCall.period]
          /\ UNCHANGED <<hRegs, hProt, hLegacy, hMode, hBase, hWant, hWord, hOwn>>
      BY <1>4 DEF TimerDriverSetTimerPeriod, picVars
    <2>2. hCall' \in CallType /\ hCall'.at = "idle"
      BY <2>1, TimerLimits DEF Idle8254, CallType
    <2>3. hTimer' \in TimerType /\ hTimer'.period = hCall.period /\ hTimer'.pit = hTimer.pit
      BY <1>1, <2>1 DEF CallType, TimerType
    <2>4. TimerTypes' /\ OneActivation' /\ TimerNotYet'
      BY <1>1, <2>1, <2>2, <2>3 DEF TimerInv, TimerTypes, OneActivation, TimerNotYet
    <2>5. TimerMasks' /\ TimerLine' /\ TimerCounts'
      BY <1>4, <2>1, <2>2, <2>3 DEF TimerInv, TimerMasks, TimerLine, TimerCounts
    <2> QED
      BY <1>1, <2>4, <2>5 DEF TimerInv
  <1> QED
    BY <1>2, <1>3, <1>4 DEF TimerDriverSetTimerPeriod

\* What leaves the masks, the period and the count alone.
LEMMA TimerRest ==
  ASSUME TimerInv, UNCHANGED <<hRegs, hProt, hLegacy, hMode, hBase, hWant, hWord, hOwn, hCall>>,
         hTimer' \in TimerType, hTimer'.period = hTimer.period, hTimer'.pit = hTimer.pit,
         OneActivation', hTold' # NoPeriod,
         hCall.at \in {"install", "timer"} => hFrames' = << >>
  PROVE  TimerInv'
  <1>1. TimerTypes' /\ TimerNotYet'
    BY DEF TimerInv, TimerTypes, TimerNotYet
  <1>2. TimerMasks' /\ TimerLine' /\ TimerCounts'
    BY DEF TimerInv, TimerMasks, TimerLine, TimerCounts
  <1> QED
    BY <1>1, <1>2 DEF TimerInv

\* The handler is entered only where no activation is: line 0 is in service until
\* the last step of the one before.
LEMMA InterruptPreserves ==
  ASSUME TimerInv, Tick \/ Interrupt
  PROVE  TimerInv'
  <1>1. /\ OneActivation /\ hTimer \in TimerType /\ hTold # NoPeriod
        /\ UNCHANGED <<hRegs, hProt, hLegacy, hMode, hBase, hWant, hWord, hOwn, hCall, hTimer, hTold>>
    BY DEF TimerInv, TimerTypes, Tick, Interrupt, picVars
  <1>2. CASE UNCHANGED <<hServing, hFrames, hIf>>
    <2>1. OneActivation' /\ (hCall.at \in {"install", "timer"} => hFrames' = << >>)
      BY <1>1, <1>2 DEF OneActivation, TimerInv, TimerNotYet
    <2> QED
      BY <1>1, <2>1, TimerRest
  <1>3. CASE /\ hServing' = TRUE /\ hFrames' = Append(hFrames, "notify") /\ hIf' = FALSE
             /\ 0 \notin hRegs.mask /\ ~hServing
    <2>0. hFrames = << >>
      BY <1>1, <1>3 DEF OneActivation
    <2>1. hFrames' = <<"notify">>
      BY <1>3, <2>0
    <2>2. OneActivation'
      <3>1. hIf' \in BOOLEAN /\ "notify" \in TimerSteps /\ (hIf' <=> "notify" = "disable")
        BY <1>3 DEF TimerSteps
      <3> QED
        BY <1>1, <1>3, <2>1, <3>1 DEF OneActivation
    <2>3. hCall.at \notin {"install", "timer"}
      BY <1>3, MasksAreMasks DEF TimerInv, TimerNotYet
    <2> QED
      BY <1>1, <2>2, <2>3, TimerRest
  <1> QED
    BY <1>2, <1>3 DEF Tick, Interrupt

\* A notification in protected mode, between calls, with the line the timer driver's own.
LEMMA NotifiedPeriod ==
  ASSUME TimerInv, Notify, 0 \notin hProt.mask \/ 0 \notin hRegs.mask
  PROVE  hTold' # NoPeriod
  BY DEF TimerInv, TimerLine, Notify

\* Interrupts are on only while line 0 is in service or after the handler returned.
LEMMA HandlerPreserves ==
  ASSUME TimerInv, TimerInterruptHandler
  PROVE  TimerInv'
  <1>1. /\ OneActivation /\ hTimer \in TimerType /\ hTold # NoPeriod
        /\ UNCHANGED <<hRegs, hProt, hLegacy, hMode, hBase, hWant, hWord, hOwn, hCall, hTimer>>
    BY DEF TimerInv, TimerTypes, TimerInterruptHandler, picVars
  <1>2. /\ hServing /\ 0 \notin hRegs.mask
        /\ \E s \in TimerSteps : hFrames = <<s>> /\ (hIf <=> s = "disable")
    BY <1>1 DEF OneActivation, TimerInterruptHandler, At8254
  <1>3. PICK s \in TimerSteps : hFrames = <<s>> /\ (hIf <=> s = "disable")
    BY <1>2
  <1>4. Len(hFrames) = 1 /\ hFrames[Len(hFrames)] = s /\ \A t : [hFrames EXCEPT ![Len(hFrames)] = t] = <<t>>
    BY <1>3
  <1>5. hCall.at \notin {"install", "timer"}
    BY <1>3 DEF TimerInv, TimerNotYet
  <1>6. hTold' # NoPeriod
    <2>1. Notify \/ hTold' = hTold
      BY DEF TimerInterruptHandler
    <2> QED
      BY <1>1, <1>2, <2>1, NotifiedPeriod
  <1>7. CASE s # "end"
    <2>1. \E t \in TimerSteps : hFrames' = <<t>> /\ hIf' \in BOOLEAN /\ (hIf' <=> t = "disable") /\ hServing' = hServing
      <3>1. hIf \in BOOLEAN
        BY <1>1 DEF OneActivation
      <3>2. CASE s = "notify"
        <4>1. hFrames' = <<"restore">> /\ hIf' = hIf /\ hServing' = hServing
          BY <1>4, <3>2 DEF TimerInterruptHandler, At8254, Goes8254
        <4> QED
          BY <1>3, <3>1, <3>2, <4>1 DEF TimerSteps
      <3>3. CASE s = "restore"
        <4>1. hFrames' = <<"disable">> /\ hIf' = TRUE /\ hServing' = hServing
          BY <1>4, <3>3 DEF TimerInterruptHandler, At8254, Goes8254
        <4> QED
          BY <4>1 DEF TimerSteps
      <3>4. CASE s = "disable"
        <4>1. hFrames' = <<"end">> /\ hIf' = FALSE /\ hServing' = hServing
          BY <1>4, <3>4 DEF TimerInterruptHandler, At8254, Goes8254
        <4> QED
          BY <4>1 DEF TimerSteps
      <3> QED
        BY <1>7, <3>2, <3>3, <3>4 DEF TimerSteps
    <2>2. OneActivation'
      BY <1>1, <1>2, <2>1 DEF OneActivation
    <2> QED
      BY <1>1, <1>5, <1>6, <2>2, TimerRest
  <1>8. CASE s = "end"
    <2>1. hServing' = FALSE /\ hIf' = TRUE /\ hFrames' = SubSeq(hFrames, 1, Len(hFrames) - 1)
      BY <1>4, <1>8 DEF TimerInterruptHandler, At8254, Goes8254, Interrupt8259EndOfInterrupt
    <2>2. hFrames' = << >>
      BY <1>3, <1>4, <2>1
    <2>3. OneActivation'
      BY <2>1, <2>2 DEF OneActivation
    <2> QED
      BY <1>1, <1>5, <1>6, <2>3, TimerRest
  <1> QED
    BY <1>7, <1>8

\* However fast the timer ticks, wherever its period is being set and whatever masks,
\* bases and modes other drivers give the 8259: its handler never nests, every interrupt
\* taken is ended, the masks in force are those asked for, and the line and the count
\* are those of the period set, for every set of periods and of masks given.
THEOREM TimerHandlerNeverNests == HSpec => []TimerNeverNests
  <1>1. TimerInv /\ [HNext]_hVars => TimerInv'
    <2> SUFFICES ASSUME TimerInv, [HNext]_hVars PROVE TimerInv'
      OBVIOUS
    <2>0. /\ hTimer \in TimerType /\ hTold # NoPeriod
          /\ UNCHANGED <<hServing, hFrames, hIf, hRegs, hCall>> =>
               OneActivation' /\ (hCall.at \in {"install", "timer"} => hFrames' = << >>)
      BY DEF TimerInv, TimerTypes, OneActivation, TimerNotYet
    <2>1. ASSUME NEW on \in BOOLEAN, TimerDriverRegisterHandler(on) PROVE TimerInv'
      <3>1. /\ hTimer' = [hTimer EXCEPT !.notify = on] /\ UNCHANGED <<hCall, hFrames, hIf, hServing, hTold>>
            /\ UNCHANGED <<hRegs, hProt, hLegacy, hMode, hBase, hWant, hWord, hOwn>>
        BY <2>1 DEF TimerDriverRegisterHandler, picVars, lineVars
      <3>2. hTimer' \in TimerType /\ hTimer'.period = hTimer.period /\ hTimer'.pit = hTimer.pit
        BY <2>0, <3>1 DEF TimerType
      <3> QED
        BY <2>0, <3>1, <3>2, TimerRest
    <2>2. CASE TimerDriverGenerateSoftInterrupt \/ UNCHANGED hVars
      <3>1. UNCHANGED <<hRegs, hProt, hLegacy, hMode, hBase, hWant, hWord, hOwn, hTimer, hCall, hFrames, hIf, hServing>>
        BY <2>2 DEF TimerDriverGenerateSoftInterrupt, hVars, picVars, lineVars
      <3>2. hTold' # NoPeriod
        BY <2>0, <2>2, NotifiedPeriod DEF TimerDriverGenerateSoftInterrupt, hVars, lineVars
      <3> QED
        BY <2>0, <3>1, <3>2, TimerRest
    <2>3. CASE HNext
      BY <2>1, <2>2, <2>3, InstallPreserves, TimerDriverStarts, PicCallPreserves, PeriodCallPreserves,
         PeriodStepPreserves, InterruptPreserves, HandlerPreserves DEF HNext
    <2> QED
      BY <2>2, <2>3
  <1>2. TimerInv => TimerNeverNests
    <2> SUFFICES ASSUME TimerInv PROVE TimerNeverNests
      OBVIOUS
    <2>1. Len(hFrames) <= 1 /\ (hFrames = << >> => ~hServing)
      <3>1. CASE hFrames = << >> /\ ~hServing
        BY <3>1
      <3>2. CASE \E s \in TimerSteps : hFrames = <<s>>
        <4>1. PICK s \in TimerSteps : hFrames = <<s>>
          BY <3>2
        <4>2. Len(hFrames) = 1 /\ hFrames # << >>
          BY <4>1
        <4> QED
          BY <4>2
      <3> QED
        BY <3>1, <3>2 DEF TimerInv, OneActivation
    <2>2. hCall.at = "idle" /\ hMode = "protected" =>
            /\ hOwn => (0 \in hRegs.mask <=> hTimer.period = NoPeriod)
            /\ hWord = "written" => hRegs = hWant
      BY DEF TimerInv, TimerMasks, TimerLine
    <2>3. hCall.at = "idle" /\ hTimer.period.hi = 0 /\ hTimer.period.lo >= 5 =>
            PitTicks(hTimer.pit) * 1000 - MilliTicks(hTimer.period) \in -500 .. 500
      BY DEF TimerInv, TimerCounts, Countable, CountOf
    <2> QED
      BY <2>1, <2>2, <2>3 DEF TimerNeverNests, TimerInv
  <1> QED
    BY <1>1, <1>2, TimerInitEstablishes, PTL DEF HSpec

-----------------------------------------------------------------------------
(* Tcg2Presence.                                                           *)

PresenceRequests == TpmRequests \cup {"NO_ACTION"}
PresenceBanks    == SUBSET (TpmBanks \cup {"new"})

PresencePage == [in : {0, 1}, req : PresenceRequests, par : PresenceBanks, last : PresenceRequests,
                 resp : {"SUCCESS", "BIOS_FAILURE", "USER_ABORT"}, func : SUBSET Allowed]

PresenceTpm == [banks : SUBSET TpmBanks, done : SUBSET (PresenceRequests \X PresenceBanks),
                res : {"SUCCESS", "BIOS_FAILURE"}]

PresenceTypes ==
  /\ tPage \in PresencePage /\ tConf \in Confs
  /\ tTpm \in PresenceTpm /\ tCut \in {"no", "cut", "withdrawn"}

\* What the user said covers what is about to be done and what was done in this boot.
PresenceWord ==
  /\ \A d \in tTpm.done : d[1] = "LOG_ALL_DIGESTS" \/ d = tUser
  /\ tPc \in {"boot", "confirm", "execute"} => tTpm.done = {}
  /\ tPc = "execute" => tPage.req = "LOG_ALL_DIGESTS" \/ tUser = <<tPage.req, tPage.par>>
  /\ tTpm.banks # {}

\* An answer lacks its request only between the two writes to the page, in any boot.
PresenceAnswer ==
  /\ (tCut = "no" /\ tPc \notin {"execute", "store", "record"}) => <<tPage.last, tPage.resp>> = tFact
  /\ tCut = "cut" => tPage.req # "NO_ACTION"
  /\ tPage.in = 0 => tPage.req = "NO_ACTION" /\ tPage.last = "NO_ACTION"
  /\ tPc = "record" => tFact = <<tPage.req, tPage.resp>> /\ tCut = "no"
  /\ (tPc \in {"os", "left", "reset"} /\ tConf.ok /\ ~tConf.s4) => tCut # "cut"

PresenceControl ==
  /\ tPc \in {"confirm", "execute", "store", "record"} => tPage.req # "NO_ACTION"
  /\ (tPc \in {"os", "reset"} /\ tConf.ok /\ ~tConf.s4) => tPage.req = "NO_ACTION"
  /\ (tConf.ok /\ tPc # "boot") => tPpi
  /\ tPpi => tPage.in = 1

PresenceInv == PresenceTypes /\ PresenceWord /\ PresenceAnswer /\ PresenceControl

\* The invariant holds initially.
LEMMA PresenceInit == TInit => PresenceInv
  <1> SUFFICES ASSUME TInit PROVE PresenceInv
    OBVIOUS
  <1>1. PresenceTypes
    BY DEF TInit, PresenceTypes, PresenceTpm, PresencePage, PresenceRequests, PresenceBanks, Confs
  <1> QED
    BY <1>1, TpmAssumption DEF TInit, PresenceInv, PresenceWord, PresenceAnswer, PresenceControl

\* Listing the functions keeps an existing request, and finds none in a new page.
LEMMA ListingKeepsRequest ==
  ASSUME PresenceInv
  PROVE  LET page == QemuTpmInitPPI(tPage)
         IN  /\ page \in PresencePage /\ page.in = 1
             /\ page.req = tPage.req /\ page.par = tPage.par /\ page.last = tPage.last /\ page.resp = tPage.resp
  <1> DEFINE listed == [tPage EXCEPT !.func = IF tConf.v2 THEN Allowed ELSE {}]
             new == [listed EXCEPT !.in = 1, !.req = "NO_ACTION", !.last = "NO_ACTION"]
  <1>1. tPage \in PresencePage
    BY DEF PresenceInv, PresenceTypes
  <1>2. listed \in PresencePage /\ listed.req = tPage.req /\ listed.par = tPage.par
        /\ listed.last = tPage.last /\ listed.resp = tPage.resp /\ listed.in = tPage.in
    BY <1>1 DEF PresencePage
  <1> HIDE DEF listed
  <1>3. new \in PresencePage /\ new.req = "NO_ACTION" /\ new.par = listed.par
        /\ new.last = "NO_ACTION" /\ new.resp = listed.resp /\ new.in = 1
    BY <1>2 DEF PresencePage, PresenceRequests
  <1> HIDE DEF new
  <1>4. CASE tPpi
    BY <1>1, <1>4 DEF QemuTpmInitPPI, PresenceInv, PresenceControl
  <1>5. CASE ~tPpi /\ tPage.in # 0
    <2>1. QemuTpmInitPPI(tPage) = listed
      BY <1>2, <1>5 DEF QemuTpmInitPPI, listed
    <2>2. tPage.in = 1
      BY <1>1, <1>5 DEF PresencePage
    <2> QED
      BY <1>2, <1>5, <2>1, <2>2
  <1>6. CASE ~tPpi /\ tPage.in = 0
    <2>1. QemuTpmInitPPI(tPage) = new
      BY <1>2, <1>6 DEF QemuTpmInitPPI, listed, new
    <2>2. tPage.req = "NO_ACTION" /\ tPage.last = "NO_ACTION"
      BY <1>6 DEF PresenceInv, PresenceAnswer
    <2> QED
      BY <1>2, <1>3, <1>6, <2>1, <2>2
  <1> QED
    BY <1>4, <1>5, <1>6

\* An answer takes the request out of the page and is that request's.
LEMMA AnsweredPage ==
  ASSUME NEW page \in PresencePage, NEW resp \in {"SUCCESS", "BIOS_FAILURE", "USER_ABORT"}
  PROVE  LET a == Answered(page, resp)
         IN  a \in PresencePage /\ a.req = "NO_ACTION" /\ a.last = page.req /\ a.resp = resp /\ a.in = page.in
  BY DEF Answered, PresencePage, PresenceRequests, PresenceBanks

\* The request as it is found keeps the invariant.
LEMMA ProcessRequestPreserves == ASSUME PresenceInv, ProcessRequest PROVE PresenceInv'
  <1> DEFINE page == QemuTpmInitPPI(tPage)
             refused == IF page.req \in NoActionMax THEN "SUCCESS" ELSE "BIOS_FAILURE"
             valid == Tcg2HaveValidTpmRequest(page.req)
             first == [page EXCEPT !.resp = "USER_ABORT"]
  <1>1. UNCHANGED <<tConf, tUser, tTpm>> /\ tPc = "boot"
    BY DEF ProcessRequest
  <1>2. CASE ~tConf.ok
    <2>1. tPc' = "os" /\ UNCHANGED <<tPage, tPpi, tFact, tCut>>
      BY <1>2 DEF ProcessRequest
    <2> QED
      BY <1>1, <1>2, <2>1 DEF PresenceInv, PresenceTypes, PresenceWord, PresenceAnswer, PresenceControl
  <1>3. CASE tConf.ok
    <2>1. /\ page \in PresencePage /\ page.in = 1 /\ page.req = tPage.req /\ page.par = tPage.par
          /\ page.last = tPage.last /\ page.resp = tPage.resp
      BY ListingKeepsRequest
    <2>2. /\ tPpi' = TRUE
          /\ IF tConf.s4 \/ page.req = "NO_ACTION" THEN tPage' = page /\ tPc' = "os" /\ UNCHANGED <<tFact, tCut>>
             ELSE IF valid = "no"
             THEN tPage' = Answered(page, refused) /\ tFact' = <<page.req, refused>> /\ tPc' = "os" /\ tCut' = "no"
             ELSE /\ tPage' = IF valid = "yes" THEN first ELSE page
                  /\ tPc' = IF valid = "yes" THEN "execute" ELSE "confirm"
                  /\ UNCHANGED <<tFact, tCut>>
      BY <1>3 DEF ProcessRequest
    <2>3. refused \in {"SUCCESS", "BIOS_FAILURE", "USER_ABORT"}
      OBVIOUS
    <2>4. valid = "yes" => page.req \in {"NO_ACTION", "LOG_ALL_DIGESTS"}
      BY DEF Tcg2HaveValidTpmRequest
    <2>5. first \in PresencePage /\ first.in = 1 /\ first.req = page.req /\ first.last = page.last
      BY <2>1 DEF PresencePage
    <2> HIDE DEF page, refused, valid, first
    <2>6. CASE tConf.s4 \/ page.req = "NO_ACTION"
      <3>1. tPage' = page /\ tPc' = "os" /\ UNCHANGED <<tFact, tCut>>
        BY <2>2, <2>6
      <3> QED
        BY <1>1, <2>1, <2>2, <2>6, <3>1
        DEF PresenceInv, PresenceTypes, PresenceWord, PresenceAnswer, PresenceControl
    <2>7. CASE ~(tConf.s4 \/ page.req = "NO_ACTION") /\ valid = "no"
      <3>1. tPage' = Answered(page, refused) /\ tFact' = <<page.req, refused>> /\ tPc' = "os" /\ tCut' = "no"
        BY <2>2, <2>7
      <3>2. /\ tPage' \in PresencePage /\ tPage'.req = "NO_ACTION" /\ tPage'.last = page.req
            /\ tPage'.resp = refused /\ tPage'.in = 1
        BY <2>1, <2>3, <3>1, AnsweredPage
      <3> QED
        BY <1>1, <2>2, <3>1, <3>2 DEF PresenceInv, PresenceTypes, PresenceWord, PresenceAnswer, PresenceControl
    <2>8. CASE ~(tConf.s4 \/ page.req = "NO_ACTION") /\ valid # "no" /\ valid # "yes"
      <3>1. tPage' = page /\ tPc' = "confirm" /\ UNCHANGED <<tFact, tCut>>
        BY <2>2, <2>8
      <3> QED
        BY <1>1, <2>1, <2>2, <2>8, <3>1
        DEF PresenceInv, PresenceTypes, PresenceWord, PresenceAnswer, PresenceControl
    <2>9. CASE ~(tConf.s4 \/ page.req = "NO_ACTION") /\ valid = "yes"
      <3>1. tPage' = first /\ tPc' = "execute" /\ UNCHANGED <<tFact, tCut>>
        BY <2>2, <2>9
      <3> QED
        BY <1>1, <2>1, <2>2, <2>4, <2>5, <2>9, <3>1
        DEF PresenceInv, PresenceTypes, PresenceWord, PresenceAnswer, PresenceControl
    <2> QED
      BY <2>6, <2>7, <2>8, <2>9
  <1> QED
    BY <1>2, <1>3

\* The answer of the user keeps the invariant.
LEMMA UserConfirmPreserves ==
  ASSUME PresenceInv, NEW key, Tcg2UserConfirm(key) PROVE PresenceInv'
  <1>1. UNCHANGED <<tConf, tPpi, tTpm>> /\ tPc = "confirm"
    BY DEF Tcg2UserConfirm
  <1>2. CASE tPc' = "assert" /\ UNCHANGED <<tUser, tPage, tFact, tCut>>
    BY <1>1, <1>2 DEF PresenceInv, PresenceTypes, PresenceWord, PresenceAnswer, PresenceControl
  <1>3. CASE tPage' = [tPage EXCEPT !.resp = "USER_ABORT"]
    <2>1. tPage \in PresencePage
      BY DEF PresenceInv, PresenceTypes
    <2>2. /\ tPage' \in PresencePage /\ tPage'.req = tPage.req /\ tPage'.par = tPage.par
          /\ tPage'.resp = "USER_ABORT" /\ tPage'.in = tPage.in /\ tPage'.last = tPage.last
      BY <1>3, <2>1 DEF PresencePage
    <2>3. \/ tPc' = "record" /\ tFact' = <<tPage.req, "USER_ABORT">> /\ tCut' = "no" /\ UNCHANGED tUser
          \/ tPc' = "execute" /\ tUser' = <<tPage.req, tPage.par>> /\ UNCHANGED <<tFact, tCut>>
          \/ tPc' = "assert" /\ UNCHANGED <<tUser, tPage, tFact, tCut>>
      BY DEF Tcg2UserConfirm
    <2> QED
      BY <1>1, <1>2, <2>2, <2>3 DEF PresenceInv, PresenceTypes, PresenceWord, PresenceAnswer, PresenceControl
  <1> QED
    BY <1>2, <1>3 DEF Tcg2UserConfirm

\* The TPM does what the user accepted, or nothing.
LEMMA ExecutePreserves == ASSUME PresenceInv, Tcg2ExecutePhysicalPresence PROVE PresenceInv'
  <1> DEFINE Does == tTpm' \in PresenceTpm /\ tTpm'.banks # {} /\ tTpm'.done \subseteq {<<tPage.req, tPage.par>>}
  <1>1. UNCHANGED <<tPage, tConf, tPpi, tUser, tFact, tCut>> /\ tPc = "execute" /\ tPc' = "store"
    BY DEF Tcg2ExecutePhysicalPresence
  <1>2. /\ tTpm \in PresenceTpm /\ tTpm.banks # {} /\ tTpm.done = {}
        /\ tPage.req \in PresenceRequests /\ tPage.par \in PresenceBanks
    BY <1>1 DEF PresenceInv, PresenceTypes, PresenceWord, PresencePage
  <1>3. ASSUME NEW r \in {"SUCCESS", "BIOS_FAILURE"}, tTpm' = [tTpm EXCEPT !.res = r] PROVE Does
    BY <1>2, <1>3 DEF PresenceTpm
  <1>4. ASSUME NEW banks, NEW ok \in BOOLEAN, Carry(banks, ok), ok => banks # {} /\ banks \subseteq TpmBanks
        PROVE  Does
    <2>1. CASE ok
      <3>1. tTpm' = [banks |-> banks, done |-> tTpm.done \cup {<<tPage.req, tPage.par>>}, res |-> "SUCCESS"]
        BY <1>4, <2>1 DEF Carry
      <3>2. tTpm.done \cup {<<tPage.req, tPage.par>>} = {<<tPage.req, tPage.par>>}
        BY <1>2
      <3>3. {<<tPage.req, tPage.par>>} \in SUBSET (PresenceRequests \X PresenceBanks)
        BY <1>2
      <3> QED
        BY <1>4, <2>1, <3>1, <3>2, <3>3 DEF PresenceTpm
    <2>2. CASE ~ok
      BY <1>3, <1>4, <2>2 DEF Carry
    <2> QED
      BY <2>1, <2>2
  <1>5. Does
    <2> HIDE DEF Does
    <2> DEFINE r == IF tPage.req \in NoActionMax THEN "SUCCESS" ELSE "BIOS_FAILURE"
    <2>1. PICK ok \in BOOLEAN :
            CASE tPage.req \in Clears \cup {"CHANGE_EPS"} -> Carry(tTpm.banks, ok)
              [] tPage.req = "SET_PCR_BANKS" ->
                   Carry(tPage.par, ok /\ tPage.par # {} /\ tPage.par \subseteq TpmBanks)
              [] tPage.req = "LOG_ALL_DIGESTS" -> Carry(TpmBanks, ok)
              [] OTHER -> tTpm' = [tTpm EXCEPT !.res = r]
      BY DEF Tcg2ExecutePhysicalPresence
    <2>2. tTpm.banks # {} /\ tTpm.banks \subseteq TpmBanks
      BY <1>2 DEF PresenceTpm
    <2>3. CASE Carry(tTpm.banks, ok)
      BY <1>4, <2>2, <2>3
    <2>4. CASE Carry(tPage.par, ok /\ tPage.par # {} /\ tPage.par \subseteq TpmBanks)
      BY <1>4, <2>4
    <2>5. CASE Carry(TpmBanks, ok)
      BY <1>4, <2>5, TpmAssumption
    <2>6. CASE tTpm' = [tTpm EXCEPT !.res = r]
      BY <1>3, <2>6
    <2> QED
      BY <2>1, <2>3, <2>4, <2>5, <2>6
  <1> HIDE DEF Does
  <1>6. PresenceTypes' /\ PresenceAnswer' /\ PresenceControl'
    BY <1>1, <1>5 DEF PresenceInv, PresenceTypes, PresenceAnswer, PresenceControl, Does
  <1>7. PresenceWord'
    BY <1>1, <1>5 DEF PresenceInv, PresenceWord, Does
  <1> QED
    BY <1>6, <1>7 DEF PresenceInv

\* The stored result keeps the invariant.
LEMMA StorePreserves == ASSUME PresenceInv, StoreResponse PROVE PresenceInv'
  <1>1. /\ tPc = "store" /\ tPc' = "record" /\ tPage' = [tPage EXCEPT !.resp = tTpm.res]
        /\ tFact' = <<tPage.req, tTpm.res>> /\ tCut' = "no" /\ UNCHANGED <<tConf, tPpi, tUser, tTpm>>
    BY DEF StoreResponse
  <1>2. tPage \in PresencePage /\ tTpm.res \in {"SUCCESS", "BIOS_FAILURE"}
    BY DEF PresenceInv, PresenceTypes, PresenceTpm
  <1>3. /\ tPage' \in PresencePage /\ tPage'.req = tPage.req /\ tPage'.par = tPage.par
        /\ tPage'.in = tPage.in /\ tPage'.last = tPage.last /\ tPage'.resp = tTpm.res
    BY <1>1, <1>2 DEF PresencePage
  <1> QED
    BY <1>1, <1>3 DEF PresenceInv, PresenceTypes, PresenceWord, PresenceAnswer, PresenceControl

\* The cleared request keeps the invariant.
LEMMA ClearRequestPreserves == ASSUME PresenceInv, ClearRequest PROVE PresenceInv'
  <1>1. /\ tPc = "record" /\ tPage' = Answered(tPage, tPage.resp) /\ tPc' \in {"os", "reset"}
        /\ UNCHANGED <<tConf, tPpi, tUser, tTpm, tFact, tCut>>
    BY DEF ClearRequest
  <1>2. tPage \in PresencePage /\ tPage.resp \in {"SUCCESS", "BIOS_FAILURE", "USER_ABORT"}
    BY DEF PresenceInv, PresenceTypes, PresencePage
  <1>3. /\ tPage' \in PresencePage /\ tPage'.req = "NO_ACTION" /\ tPage'.last = tPage.req
        /\ tPage'.resp = tPage.resp /\ tPage'.in = tPage.in
    BY <1>1, <1>2, AnsweredPage
  <1> QED
    BY <1>1, <1>3 DEF PresenceInv, PresenceTypes, PresenceWord, PresenceAnswer, PresenceControl

\* A reset keeps the invariant.
LEMMA ResetPreserves == ASSUME PresenceInv, NEW p \in BOOLEAN, Reset(p) PROVE PresenceInv'
  <1>1. tConf' \in Confs /\ tPpi' = FALSE /\ tPc' = "boot" /\ tTpm' = [tTpm EXCEPT !.done = {}]
    BY DEF Reset
  <1>2. tTpm \in PresenceTpm /\ tTpm.banks # {}
    BY DEF PresenceInv, PresenceTypes, PresenceWord
  <1>3. tTpm' \in PresenceTpm /\ tTpm'.banks # {} /\ tTpm'.done = {}
    BY <1>1, <1>2 DEF PresenceTpm
  <1>4. tPage' \in PresencePage /\ PresenceAnswer' /\ tCut' \in {"no", "cut", "withdrawn"}
    <2>1. CASE /\ tCut' = IF tPc \in {"execute", "store", "record"} THEN "cut" ELSE tCut
               /\ UNCHANGED <<tPage, tFact>>
      BY <1>1, <2>1 DEF PresenceInv, PresenceTypes, PresenceAnswer, PresenceControl
    <2>2. CASE /\ tPage' = [in |-> 0, req |-> "NO_ACTION", par |-> {}, last |-> "NO_ACTION",
                            resp |-> "SUCCESS", func |-> {}]
               /\ tFact' = <<"NO_ACTION", "SUCCESS">> /\ tCut' = "no"
      BY <1>1, <2>2 DEF PresenceAnswer, PresencePage, PresenceRequests, PresenceBanks
    <2> QED
      BY <2>1, <2>2 DEF Reset
  <1> QED
    BY <1>1, <1>3, <1>4 DEF PresenceInv, PresenceTypes, PresenceWord, PresenceControl

\* Leaving a request keeps the answer of the one before.
LEMMA SubmitPreserves ==
  ASSUME PresenceInv, NEW r \in TpmRequests, NEW b \in PresenceBanks, SubmitRequestToPreOS(r, b)
  PROVE  PresenceInv'
  <1> DEFINE page == QemuTpmInitPPI(tPage)
  <1>1. /\ tPc \in {"os", "left"} /\ tPc' = "left"
        /\ tPage' = [page EXCEPT !.req = r, !.par = b] /\ tPpi' = TRUE
        /\ tCut' = (IF tCut # "no" /\ r = "NO_ACTION" THEN "withdrawn" ELSE tCut)
        /\ UNCHANGED <<tConf, tUser, tTpm, tFact>>
    BY DEF SubmitRequestToPreOS
  <1>2. page \in PresencePage /\ page.in = 1 /\ page.last = tPage.last /\ page.resp = tPage.resp
    BY ListingKeepsRequest
  <1> HIDE DEF page
  <1>3. /\ tPage' \in PresencePage /\ tPage'.in = 1 /\ tPage'.req = r
        /\ tPage'.last = tPage.last /\ tPage'.resp = tPage.resp
    BY <1>1, <1>2 DEF PresencePage, PresenceRequests
  <1> QED
    BY <1>1, <1>3 DEF PresenceInv, PresenceTypes, PresenceWord, PresenceAnswer, PresenceControl

(***************************************************************************)
(* PresenceConfirmed for every set of requests and banks and any number of *)
(* resets at any step.                                                     *)
(***************************************************************************)
THEOREM PresenceIsConfirmed == TSpec => []PresenceConfirmed
  <1>1. PresenceInv /\ [TNext]_tVars => PresenceInv'
    <2> SUFFICES ASSUME PresenceInv, [TNext]_tVars PROVE PresenceInv'
      OBVIOUS
    <2>1. CASE UNCHANGED tVars
      BY <2>1 DEF tVars, PresenceInv, PresenceTypes, PresenceWord, PresenceAnswer, PresenceControl
    <2>2. ASSUME NEW r \in TpmRequests, NEW b \in IF r = "SET_PCR_BANKS" THEN SUBSET (TpmBanks \cup {"new"}) ELSE {{}},
                 SubmitRequestToPreOS(r, b)
          PROVE  PresenceInv'
      <3>1. b \in PresenceBanks
        BY DEF PresenceBanks
      <3> QED
        BY <2>2, <3>1, SubmitPreserves
    <2> QED
      BY <2>1, <2>2, ProcessRequestPreserves, UserConfirmPreserves, ExecutePreserves, StorePreserves, ClearRequestPreserves,
         ResetPreserves DEF TNext
  <1>2. PresenceInv => PresenceConfirmed
    BY DEF PresenceInv, PresenceTypes, PresenceTpm, PresenceWord, PresenceAnswer, PresenceControl,
       PresenceConfirmed, OperationResponse
  <1> QED
    BY <1>1, <1>2, PresenceInit, PTL DEF TSpec

-----------------------------------------------------------------------------
(* AcpiLoader.                                                             *)

\* The commands of a type ahead of position n.
Before(n, type) == {aScript[i] : i \in {j \in DOMAIN aScript : j < n /\ aScript[j].type = type}}

Keys   == {aKeys[i] : i \in DOMAIN aKeys}
Data   == {c.to : c \in {p \in Pointers : p.at = "data"}}
Tables == {Target(c) : c \in {p \in Pointers : p.at = "table"}}

AcpiTypes ==
  /\ aAt \in {"idle", "first", "second", "uninstall", "undo", "free", "done"}
  /\ aScript = << >> \/ aScript \in AcpiScripts
  /\ aPos \in Nat /\ aEnd \in Nat
  /\ aBlobs \in [DOMAIN aBlobs -> [bytes : PointerSizes, only : BOOLEAN]]
  /\ aHost = [p \in DOMAIN aHost |-> aHost[p]]
  /\ aKeys \in Seq({Target(c) : c \in Pointers})

\* Nothing is there yet.
AcpiIdle ==
  aAt = "idle" => /\ DOMAIN aBlobs = {} /\ DOMAIN aHost = {} /\ aPages = {}
                  /\ aKeys = << >> /\ aSeen = {} /\ aErr = FALSE

\* The marked blobs are those the host was told of so far.
AcpiFirst ==
  aAt = "first" =>
    /\ aPos \in 1 .. Len(aScript) + 1 /\ aEnd < aPos /\ aErr = FALSE /\ aKeys = << >> /\ aSeen = {}
    /\ \A c \in Before(aPos, "addptr") \cup Before(aPos, "writeptr") : c.to \in DOMAIN aBlobs
    /\ \A c \in Before(aPos, "addptr") : PointerFits(c)
    /\ \A f \in DOMAIN aBlobs : aBlobs[f].only <=> \A c \in Before(aPos, "writeptr") : c.to # f

\* The installed tables and the marks follow from the pointers read so far.
AcpiSecond ==
  aAt = "second" =>
    /\ aPos \in 1 .. Len(aScript) + 1 /\ aErr = FALSE
    /\ Given \subseteq DOMAIN aBlobs /\ \A c \in Pointers : c.to \in DOMAIN aBlobs /\ PointerFits(c)
    /\ \A f \in DOMAIN aBlobs :
         aBlobs[f].only <=> f \notin Given /\ \A c \in Before(aPos, "addptr") : c.at = "data" => c.to # f
    /\ aSeen = {Target(c) : c \in Before(aPos, "addptr")}
    /\ Keys = {Target(c) : c \in {p \in Before(aPos, "addptr") : p.at = "table"}}
    /\ IsFiniteSet(Keys) /\ Cardinality(Keys) = Len(aKeys)

\* Up to the release of the blobs each blob has its pages.
AcpiHeld ==
  /\ aAt \in {"idle", "first", "second", "uninstall", "undo"} => aPages = DOMAIN aBlobs
  /\ aAt \in {"uninstall", "undo"} => aErr = TRUE
  /\ aAt = "undo" => aKeys = << >>

AcpiFree ==
  aAt \in {"free", "done"} =>
    /\ aErr \in BOOLEAN /\ (aAt = "done" => DOMAIN aBlobs = {})
    /\ aErr => aKeys = << >> /\ DOMAIN aHost = {} /\ aPages = DOMAIN aBlobs
    /\ ~aErr => /\ aPages = DOMAIN aBlobs \cup Data \cup Given
                /\ \A f \in DOMAIN aBlobs : aBlobs[f].only <=> f \notin Data \cup Given
                /\ Keys = Tables /\ Cardinality(Keys) = Len(aKeys)

\* A host pointer comes from a command that the way back still meets.
AcpiHost ==
  \A p \in DOMAIN aHost :
    /\ aHost[p] \in aPages /\ aHost[p] \in Given
    /\ aAt \in {"first", "second", "uninstall"} => \E c \in Before(aEnd + 1, "writeptr") : c.file = p
    /\ aAt = "undo" => \E c \in Before(aPos + 1, "writeptr") : c.file = p

AcpiHigh == \A f \in DOMAIN aBlobs : aBlobs[f].bytes = 8 => f \notin CollectAllocationsRestrictedTo32Bit

AcpiInv == AcpiTypes /\ AcpiIdle /\ AcpiFirst /\ AcpiSecond /\ AcpiHeld /\ AcpiFree /\ AcpiHost /\ AcpiHigh

\* The invariant holds initially.
LEMMA AcpiInitEstablishes == AcpiInit => AcpiInv
  <1> SUFFICES ASSUME AcpiInit PROVE AcpiInv
    OBVIOUS
  <1>1. DOMAIN aBlobs = {} /\ DOMAIN aHost = {} /\ aBlobs = [f \in {} |-> 0] /\ aHost = [f \in {} |-> 0]
    BY DEF AcpiInit, NoBlobs
  <1>2. AcpiTypes
    <2>1. aBlobs \in [DOMAIN aBlobs -> [bytes : PointerSizes, only : BOOLEAN]]
      BY <1>1
    <2>2. aHost = [p \in DOMAIN aHost |-> aHost[p]]
      BY <1>1
    <2> QED
      BY <2>1, <2>2 DEF AcpiInit, AcpiTypes
  <1> QED
    BY <1>1, <1>2 DEF AcpiInit, AcpiInv, AcpiIdle, AcpiFirst, AcpiSecond, AcpiHeld, AcpiFree, AcpiHost, AcpiHigh

\* A script is a sequence whatever it holds.
LEMMA ScriptShape == ASSUME AcpiInv PROVE Len(aScript) \in Nat /\ DOMAIN aScript = 1 .. Len(aScript)
  <1>1. CASE aScript = << >>
    BY <1>1
  <1>2. CASE aScript \in AcpiScripts
    BY <1>2, AcpiAssumption
  <1> QED
    BY <1>1, <1>2 DEF AcpiInv, AcpiTypes

\* One command more.
LEMMA BeforeNext ==
  ASSUME NEW n \in DOMAIN aScript, DOMAIN aScript \subseteq Nat, NEW type
  PROVE  Before(n + 1, type) = IF aScript[n].type = type THEN Before(n, type) \cup {aScript[n]} ELSE Before(n, type)
  <1>1. \A i \in DOMAIN aScript : i < n + 1 <=> i < n \/ i = n
    OBVIOUS
  <1> QED
    BY <1>1 DEF Before

\* At the start there is none, at the end all.
LEMMA BeforeEnds ==
  ASSUME AcpiInv, NEW type
  PROVE  /\ Before(1, type) = {}
         /\ Before(Len(aScript) + 1, "addptr") = Pointers
         /\ {c.to : c \in Before(Len(aScript) + 1, "writeptr")} = Given
         /\ \A n \in Nat : Before(n, "addptr") \subseteq Pointers
         /\ \A n \in Nat : \A c \in Before(n, "writeptr") : c.to \in Given
  <1>1. Len(aScript) \in Nat /\ DOMAIN aScript = 1 .. Len(aScript)
    BY ScriptShape
  <1>2. \A i \in DOMAIN aScript : i < Len(aScript) + 1 /\ ~(i < 1)
    BY <1>1
  <1>3. Before(1, type) = {}
    BY <1>2 DEF Before
  <1>4. Before(Len(aScript) + 1, "addptr") = Pointers
    BY <1>2 DEF Before, Pointers
  <1>5. {c.to : c \in Before(Len(aScript) + 1, "writeptr")} = Given
    BY <1>2 DEF Before, Given
  <1>6. \A n \in Nat : Before(n, "addptr") \subseteq Pointers
    BY DEF Before, Pointers
  <1>7. \A n \in Nat : \A c \in Before(n, "writeptr") : c.to \in Given
    BY DEF Before, Given
  <1> QED
    BY <1>3, <1>4, <1>5, <1>6, <1>7

\* Marking a blob changes nothing else.
LEMMA MarkedBlobs ==
  ASSUME aBlobs \in [DOMAIN aBlobs -> [bytes : PointerSizes, only : BOOLEAN]], NEW f0 \in DOMAIN aBlobs
  PROVE  LET b == [aBlobs EXCEPT ![f0].only = FALSE]
         IN  /\ DOMAIN b = DOMAIN aBlobs /\ b \in [DOMAIN b -> [bytes : PointerSizes, only : BOOLEAN]]
             /\ \A f \in DOMAIN aBlobs : b[f].bytes = aBlobs[f].bytes /\ (b[f].only <=> aBlobs[f].only /\ f # f0)
  <1> DEFINE b == [aBlobs EXCEPT ![f0].only = FALSE]
  <1>1. DOMAIN b = DOMAIN aBlobs
    OBVIOUS
  <1>2. ASSUME NEW f \in DOMAIN aBlobs, f # f0 PROVE b[f] = aBlobs[f]
    BY <1>2
  <1>3. b[f0] = [aBlobs[f0] EXCEPT !.only = FALSE]
    OBVIOUS
  <1>4. b[f0] \in [bytes : PointerSizes, only : BOOLEAN] /\ b[f0].bytes = aBlobs[f0].bytes /\ b[f0].only = FALSE
    BY <1>3
  <1>5. \A f \in DOMAIN aBlobs : b[f] \in [bytes : PointerSizes, only : BOOLEAN]
    BY <1>2, <1>4
  <1>6. b = [f \in DOMAIN aBlobs |-> b[f]]
    OBVIOUS
  <1> HIDE DEF b
  <1>7. b \in [DOMAIN b -> [bytes : PointerSizes, only : BOOLEAN]]
    BY <1>1, <1>5, <1>6
  <1>8. \A f \in DOMAIN aBlobs : b[f].bytes = aBlobs[f].bytes /\ (b[f].only <=> aBlobs[f].only /\ f # f0)
    BY <1>2, <1>4
  <1> QED
    BY <1>1, <1>7, <1>8 DEF b

\* The sets read off the script change only with it.
LEMMA SameScript ==
  ASSUME aScript' = aScript
  PROVE  /\ Pointers' = Pointers /\ Given' = Given /\ Data' = Data /\ Tables' = Tables
         /\ CollectAllocationsRestrictedTo32Bit' = CollectAllocationsRestrictedTo32Bit
  <1>1. Pointers' = Pointers /\ Given' = Given
    BY DEF Pointers, Given
  <1>2. CollectAllocationsRestrictedTo32Bit' = CollectAllocationsRestrictedTo32Bit
    BY DEF CollectAllocationsRestrictedTo32Bit
  <1> QED
    BY <1>1, <1>2 DEF Data, Tables

\* The blobs of the tracker, whatever the script says of them.
BlobType == [bytes : PointerSizes, only : BOOLEAN]

\* A blob more.
LEMMA AllocatedBlobs ==
  ASSUME aBlobs \in [DOMAIN aBlobs -> BlobType], NEW f0, NEW bytes \in PointerSizes
  PROVE  LET b == With(aBlobs, f0, [bytes |-> bytes, only |-> TRUE])
         IN  /\ DOMAIN b = DOMAIN aBlobs \cup {f0} /\ b \in [DOMAIN b -> BlobType]
             /\ \A f \in DOMAIN b : f # f0 => b[f] = aBlobs[f]
             /\ b[f0].bytes = bytes /\ b[f0].only = TRUE
  <1> DEFINE b == With(aBlobs, f0, [bytes |-> bytes, only |-> TRUE])
  <1>1. DOMAIN b = DOMAIN aBlobs \cup {f0} /\ b[f0] = [bytes |-> bytes, only |-> TRUE]
    BY DEF With
  <1>2. \A f \in DOMAIN b : f # f0 => b[f] = aBlobs[f]
    BY <1>1 DEF With
  <1>3. b = [f \in DOMAIN b |-> b[f]]
    BY DEF With
  <1> HIDE DEF b
  <1>4. b[f0] \in BlobType /\ b[f0].bytes = bytes /\ b[f0].only = TRUE
    BY <1>1 DEF BlobType
  <1>5. ASSUME NEW f \in DOMAIN b PROVE b[f] \in BlobType
    <2>1. CASE f # f0
      <3>1. f \in DOMAIN aBlobs /\ b[f] = aBlobs[f]
        BY <1>1, <1>2, <2>1
      <3> QED
        BY <3>1
    <2> QED
      BY <1>4, <2>1
  <1>6. b \in [DOMAIN b -> BlobType]
    BY <1>3, <1>5
  <1> QED
    BY <1>1, <1>2, <1>4, <1>6 DEF b

\* A command of the first pass keeps the invariant.
LEMMA FirstPassPreserves == ASSUME AcpiInv, FirstPass PROVE AcpiInv'
  <1> DEFINE B(type) == Before(aPos, type)
             N(type) == Before(aPos + 1, type)
  <1>1. /\ aAt = "first" /\ aAt' = "first" /\ aPos <= Len(aScript) /\ aPos' = aPos + 1 /\ aEnd' = SubsetEnd(Cmd)
        /\ aScript' = aScript /\ aErr' = aErr /\ UNCHANGED <<aSeen, aKeys>>
    BY DEF FirstPass, ProcessCmdAllocate, ProcessCmdAddPointer, ProcessCmdAddChecksum, ProcessCmdWritePointer
  <1>2. /\ aPos \in 1 .. Len(aScript) + 1 /\ aEnd < aPos /\ aErr = FALSE /\ aKeys = << >> /\ aSeen = {}
        /\ \A c \in B("addptr") \cup B("writeptr") : c.to \in DOMAIN aBlobs
        /\ \A c \in B("addptr") : PointerFits(c)
        /\ \A f \in DOMAIN aBlobs : aBlobs[f].only <=> \A c \in B("writeptr") : c.to # f
    BY <1>1 DEF AcpiInv, AcpiFirst
  <1>3. aPos \in Nat /\ aEnd \in Nat /\ Len(aScript) \in Nat /\ DOMAIN aScript = 1 .. Len(aScript) /\ aPos \in DOMAIN aScript
    BY <1>1, <1>2, ScriptShape DEF AcpiInv, AcpiTypes
  <1>4. \A type : N(type) = IF Cmd.type = type THEN B(type) \cup {Cmd} ELSE B(type)
    <2>1. DOMAIN aScript \subseteq Nat
      BY <1>3
    <2> QED
      BY <1>3, <2>1, BeforeNext DEF Cmd
  <1>5. Before(aPos, "addptr")' = N("addptr") /\ Before(aPos, "writeptr")' = N("writeptr")
    BY <1>1 DEF Before
  <1>6. /\ aBlobs \in [DOMAIN aBlobs -> BlobType] /\ aHost = [p \in DOMAIN aHost |-> aHost[p]]
        /\ aPages = DOMAIN aBlobs
    BY <1>1 DEF AcpiInv, AcpiTypes, AcpiHeld, BlobType
  <1>7. /\ aEnd' \in Nat /\ aEnd' < aPos' /\ (Cmd.type = "writeptr" => aEnd' = aPos)
        /\ (Cmd.type # "writeptr" => aEnd' = aEnd)
    <2>1. aEnd < aPos
      BY <1>2
    <2> QED
      BY <1>1, <1>3, <2>1 DEF SubsetEnd
  <1>8. ASSUME NEW p \in DOMAIN aHost
        PROVE  /\ aHost[p] \in aPages /\ aHost[p] \in Given
               /\ \E c \in Before(aEnd + 1, "writeptr")' : c.file = p
    <2>1. /\ aHost[p] \in aPages /\ aHost[p] \in Given
          /\ \E c \in Before(aEnd + 1, "writeptr") : c.file = p
      BY <1>1 DEF AcpiInv, AcpiHost
    <2>2. Before(aEnd + 1, "writeptr") \subseteq Before(aEnd + 1, "writeptr")'
      <3>1. \A i \in DOMAIN aScript : i < aEnd + 1 => i < aEnd' + 1
        BY <1>2, <1>3, <1>7
      <3> QED
        BY <1>1, <3>1 DEF Before
    <2> QED
      BY <2>1, <2>2
  <1>9. AcpiHigh
    BY DEF AcpiInv
  <1>10. Pointers' = Pointers /\ Given' = Given
         /\ CollectAllocationsRestrictedTo32Bit' = CollectAllocationsRestrictedTo32Bit
    BY <1>1, SameScript
  <1> DEFINE Core == /\ aBlobs' \in [DOMAIN aBlobs' -> BlobType] /\ aHost' = [p \in DOMAIN aHost' |-> aHost'[p]]
                     /\ aPages' = DOMAIN aBlobs'
                     /\ \A c \in N("addptr") \cup N("writeptr") : c.to \in DOMAIN aBlobs'
                     /\ \A c \in N("addptr") : PointerFits(c)'
                     /\ \A f \in DOMAIN aBlobs' : aBlobs'[f].only <=> \A c \in N("writeptr") : c.to # f
                     /\ AcpiHost' /\ AcpiHigh'
  <1> HIDE DEF B, N
  <1>11. ASSUME NEW bytes \in PointerSizes, ProcessCmdAllocate(Cmd, bytes) PROVE Core
    <2>1. /\ Cmd.type = "alloc" /\ Cmd.file \notin DOMAIN aBlobs /\ UNCHANGED aHost
          /\ aBlobs' = With(aBlobs, Cmd.file, [bytes |-> bytes, only |-> TRUE]) /\ aPages' = aPages \cup {Cmd.file}
          /\ (bytes = 8 => Cmd.file \notin CollectAllocationsRestrictedTo32Bit)
      BY <1>11 DEF ProcessCmdAllocate
    <2>2. /\ DOMAIN aBlobs' = DOMAIN aBlobs \cup {Cmd.file} /\ aBlobs' \in [DOMAIN aBlobs' -> BlobType]
          /\ \A f \in DOMAIN aBlobs' : f # Cmd.file => aBlobs'[f] = aBlobs[f]
          /\ aBlobs'[Cmd.file].bytes = bytes /\ aBlobs'[Cmd.file].only = TRUE
      <3> DEFINE b == With(aBlobs, Cmd.file, [bytes |-> bytes, only |-> TRUE])
      <3>1. /\ DOMAIN b = DOMAIN aBlobs \cup {Cmd.file} /\ b \in [DOMAIN b -> BlobType]
            /\ \A f \in DOMAIN b : f # Cmd.file => b[f] = aBlobs[f]
            /\ b[Cmd.file].bytes = bytes /\ b[Cmd.file].only = TRUE
        BY <1>6, AllocatedBlobs, Zenon
      <3> HIDE DEF b
      <3> QED
        BY <2>1, <3>1 DEF b
    <2>3. N("addptr") = B("addptr") /\ N("writeptr") = B("writeptr")
      BY <1>4, <2>1
    <2>4. AcpiHost'
      BY <1>1, <1>8, <1>10, <2>1 DEF AcpiHost
    <2>5. AcpiHigh'
      BY <1>9, <1>10, <2>1, <2>2 DEF AcpiHigh
    <2>6. ASSUME NEW f \in DOMAIN aBlobs' PROVE aBlobs'[f].only <=> \A c \in N("writeptr") : c.to # f
      <3>1. CASE f = Cmd.file
        BY <1>2, <2>1, <2>2, <2>3, <3>1
      <3>2. CASE f # Cmd.file
        BY <1>2, <2>2, <2>3, <3>2
      <3> QED
        BY <3>1, <3>2
    <2>7. \A c \in N("addptr") \cup N("writeptr") : c.to \in DOMAIN aBlobs'
      BY <1>2, <2>2, <2>3
    <2>8. \A c \in N("addptr") : PointerFits(c)'
      BY <1>2, <2>1, <2>2, <2>3 DEF PointerFits
    <2> QED
      BY <1>6, <2>1, <2>2, <2>4, <2>5, <2>6, <2>7, <2>8
  <1>12. ASSUME Cmd.type # "writeptr", Cmd.type = "addptr" => Cmd.to \in DOMAIN aBlobs /\ PointerFits(Cmd),
                UNCHANGED <<aBlobs, aPages, aHost>>
         PROVE  Core
    <2>1. N("writeptr") = B("writeptr")
      BY <1>4, <1>12
    <2>2. \A c \in N("addptr") \cup N("writeptr") : c.to \in DOMAIN aBlobs'
      BY <1>2, <1>4, <1>12
    <2>3. AcpiHost'
      BY <1>1, <1>8, <1>10, <1>12 DEF AcpiHost
    <2>4. AcpiHigh'
      BY <1>9, <1>10, <1>12 DEF AcpiHigh
    <2>5. \A c \in N("addptr") : PointerFits(c)'
      BY <1>2, <1>4, <1>12 DEF PointerFits
    <2> QED
      BY <1>2, <1>6, <1>12, <2>1, <2>2, <2>3, <2>4, <2>5
  <1>13. ASSUME ProcessCmdWritePointer(Cmd) PROVE Core
    <2>1. /\ Cmd.type = "writeptr" /\ Cmd.to \in DOMAIN aBlobs /\ UNCHANGED aPages
          /\ aHost' = With(aHost, Cmd.file, Cmd.to) /\ aBlobs' = [aBlobs EXCEPT ![Cmd.to].only = FALSE]
      BY <1>13 DEF ProcessCmdWritePointer, WritePointerOk
    <2>2. /\ DOMAIN aBlobs' = DOMAIN aBlobs /\ aBlobs' \in [DOMAIN aBlobs' -> BlobType]
          /\ \A f \in DOMAIN aBlobs : /\ aBlobs'[f].bytes = aBlobs[f].bytes
                                      /\ aBlobs'[f].only <=> aBlobs[f].only /\ f # Cmd.to
      BY <1>6, <2>1, MarkedBlobs DEF BlobType
    <2>3. N("writeptr") = B("writeptr") \cup {Cmd} /\ N("addptr") = B("addptr")
      BY <1>4, <2>1
    <2>4. \A c \in N("addptr") \cup N("writeptr") : c.to \in DOMAIN aBlobs'
      BY <1>2, <2>1, <2>2, <2>3
    <2>5. \A f \in DOMAIN aBlobs' : aBlobs'[f].only <=> \A c \in N("writeptr") : c.to # f
      BY <1>2, <2>2, <2>3
    <2>6. /\ DOMAIN aHost' = DOMAIN aHost \cup {Cmd.file} /\ aHost' = [p \in DOMAIN aHost' |-> aHost'[p]]
          /\ \A p \in DOMAIN aHost : p # Cmd.file => aHost'[p] = aHost[p]
          /\ aHost'[Cmd.file] = Cmd.to
      BY <2>1 DEF With
    <2>7. Cmd.to \in Given
      BY <1>3, <2>1 DEF Cmd, Given
    <2>8. Cmd \in Before(aEnd + 1, "writeptr")'
      BY <1>1, <1>3, <1>7, <2>1 DEF Before, Cmd
    <2>9. AcpiHost'
      <3>1. ASSUME NEW p \in DOMAIN aHost'
            PROVE  /\ aHost'[p] \in aPages' /\ aHost'[p] \in Given
                   /\ \E c \in Before(aEnd + 1, "writeptr")' : c.file = p
        <4>1. CASE p = Cmd.file
          BY <1>6, <2>1, <2>6, <2>7, <2>8, <4>1
        <4>2. CASE p # Cmd.file
          BY <1>8, <2>1, <2>6, <4>2
        <4> QED
          BY <4>1, <4>2
      <3> QED
        BY <1>1, <1>10, <3>1 DEF AcpiHost
    <2>10. AcpiHigh'
      BY <1>9, <1>10, <2>2 DEF AcpiHigh
    <2>11. \A c \in N("addptr") : PointerFits(c)'
      BY <1>2, <2>2, <2>3 DEF PointerFits
    <2> QED
      BY <1>6, <2>1, <2>2, <2>4, <2>5, <2>6, <2>9, <2>10, <2>11
  <1>14. Core
    <2> HIDE DEF Core
    <2>1. \/ \E bytes \in PointerSizes : ProcessCmdAllocate(Cmd, bytes)
          \/ ProcessCmdWritePointer(Cmd)
          \/ /\ Cmd.type # "writeptr" /\ (Cmd.type = "addptr" => Cmd.to \in DOMAIN aBlobs /\ PointerFits(Cmd))
             /\ UNCHANGED <<aBlobs, aPages, aHost>>
      BY DEF FirstPass, ProcessCmdAddPointer, ProcessCmdAddChecksum, AddPointerOk
    <2> QED
      BY <1>11, <1>12, <1>13, <2>1
  <1>15. AcpiTypes'
    <2>1. aPos' \in Nat
      BY <1>1, <1>3
    <2> QED
      BY <1>1, <1>7, <1>10, <1>14, <2>1 DEF AcpiInv, AcpiTypes, BlobType
  <1>16. AcpiFirst'
    <2>1. aPos' \in 1 .. Len(aScript)' + 1
      BY <1>1, <1>3
    <2> QED
      BY <1>1, <1>2, <1>5, <1>7, <1>14, <2>1 DEF AcpiFirst
  <1> QED
    BY <1>1, <1>2, <1>14, <1>15, <1>16 DEF AcpiInv, AcpiIdle, AcpiSecond, AcpiHeld, AcpiFree

\* The script as it is read keeps the invariant.
LEMMA AcpiStartPreserves == ASSUME AcpiInv, AcpiStart PROVE AcpiInv'
  <1>1. /\ aAt = "idle" /\ aScript' \in AcpiScripts /\ aAt' = "first" /\ aPos' = 1 /\ aEnd' = 0
        /\ UNCHANGED <<aErr, aBlobs, aPages, aHost, aSeen, aKeys>>
    BY DEF AcpiStart
  <1>2. DOMAIN aBlobs = {} /\ DOMAIN aHost = {} /\ aPages = {} /\ aKeys = << >> /\ aErr = FALSE /\ aSeen = {}
    BY <1>1 DEF AcpiInv, AcpiIdle
  <1>3. Len(aScript') \in Nat /\ DOMAIN aScript' = 1 .. Len(aScript')
    BY <1>1, AcpiAssumption
  <1>4. \A i \in DOMAIN aScript' : ~(i < 1)
    BY <1>3
  <1>5. Before(aPos, "addptr")' = {} /\ Before(aPos, "writeptr")' = {}
    BY <1>1, <1>4 DEF Before
  <1>6. AcpiTypes'
    BY <1>1, <1>2 DEF AcpiInv, AcpiTypes
  <1>7. AcpiFirst'
    BY <1>1, <1>2, <1>3, <1>5 DEF AcpiFirst
  <1> QED
    BY <1>1, <1>2, <1>6, <1>7 DEF AcpiInv, AcpiIdle, AcpiSecond, AcpiHeld, AcpiFree, AcpiHost, AcpiHigh

\* The way back starts at the last command that gave the host a pointer.
LEMMA FirstPassFailsPreserves == ASSUME AcpiInv, FirstPassFails PROVE AcpiInv'
  <1>1. /\ aAt = "first" /\ aAt' = "undo" /\ aErr' = TRUE /\ aPos' = aEnd
        /\ UNCHANGED <<aScript, aEnd, aBlobs, aPages, aHost, aSeen, aKeys>>
    BY DEF FirstPassFails
  <1>2. Pointers' = Pointers /\ Given' = Given
        /\ CollectAllocationsRestrictedTo32Bit' = CollectAllocationsRestrictedTo32Bit
    BY <1>1, SameScript
  <1>3. AcpiTypes' /\ AcpiHeld' /\ AcpiHigh'
    BY <1>1, <1>2 DEF AcpiInv, AcpiTypes, AcpiFirst, AcpiHeld, AcpiHigh
  <1>4. Before(aPos + 1, "writeptr")' = Before(aEnd + 1, "writeptr")
    BY <1>1 DEF Before
  <1>5. AcpiHost'
    BY <1>1, <1>2, <1>4 DEF AcpiInv, AcpiHost
  <1> QED
    BY <1>1, <1>3, <1>5 DEF AcpiInv, AcpiIdle, AcpiFirst, AcpiSecond, AcpiFree

\* The end of the first pass keeps the invariant.
LEMMA FirstPassDonePreserves == ASSUME AcpiInv, FirstPassDone PROVE AcpiInv'
  <1>1. /\ aAt = "first" /\ aPos > Len(aScript) /\ aAt' = "second" /\ aPos' = 1
        /\ UNCHANGED <<aScript, aEnd, aErr, aBlobs, aPages, aHost, aSeen, aKeys>>
    BY DEF FirstPassDone
  <1>2. Pointers' = Pointers /\ Given' = Given
        /\ CollectAllocationsRestrictedTo32Bit' = CollectAllocationsRestrictedTo32Bit
    BY <1>1, SameScript
  <1>3. /\ aPos \in 1 .. Len(aScript) + 1 /\ aErr = FALSE /\ aKeys = << >> /\ aSeen = {}
        /\ \A c \in Before(aPos, "addptr") \cup Before(aPos, "writeptr") : c.to \in DOMAIN aBlobs
        /\ \A c \in Before(aPos, "addptr") : PointerFits(c)
        /\ \A f \in DOMAIN aBlobs : aBlobs[f].only <=> \A c \in Before(aPos, "writeptr") : c.to # f
    BY <1>1 DEF AcpiInv, AcpiFirst
  <1>4. Len(aScript) \in Nat
    BY ScriptShape
  <1>5. aPos = Len(aScript) + 1
    BY <1>1, <1>3, <1>4
  <1>6. Before(aPos, "addptr") = Pointers /\ {c.to : c \in Before(aPos, "writeptr")} = Given
    BY <1>5, BeforeEnds
  <1>7. Before(aPos, "addptr")' = {}
    <2>1. Before(1, "addptr") = {}
      BY BeforeEnds
    <2> QED
      BY <1>1, <2>1 DEF Before
  <1>8. Keys' = {} /\ IsFiniteSet(Keys') /\ Cardinality(Keys') = 0
    <2>1. Keys' = {}
      BY <1>1, <1>3 DEF Keys
    <2> QED
      BY <2>1, FS_EmptySet
  <1>9. AcpiSecond'
    <2>1. aPos' \in 1 .. Len(aScript') + 1 /\ Len(aKeys') = 0 /\ aErr' = FALSE /\ aSeen' = {}
      BY <1>1, <1>3, <1>4
    <2>2. Given \subseteq DOMAIN aBlobs /\ \A c \in Pointers : c.to \in DOMAIN aBlobs /\ PointerFits(c)'
      BY <1>1, <1>3, <1>6 DEF PointerFits
    <2>3. \A f \in DOMAIN aBlobs : aBlobs[f].only <=> f \notin Given
      BY <1>3, <1>6
    <2> QED
      BY <1>1, <1>2, <1>7, <1>8, <2>1, <2>2, <2>3 DEF AcpiSecond
  <1>10. AcpiTypes' /\ AcpiHeld' /\ AcpiHigh'
    BY <1>1, <1>2 DEF AcpiInv, AcpiTypes, AcpiHeld, AcpiHigh
  <1>11. Before(aEnd + 1, "writeptr")' = Before(aEnd + 1, "writeptr")
    BY <1>1 DEF Before
  <1>12. AcpiHost'
    BY <1>1, <1>2, <1>11 DEF AcpiInv, AcpiHost
  <1> QED
    BY <1>1, <1>9, <1>10, <1>12 DEF AcpiInv, AcpiIdle, AcpiFirst, AcpiFree

\* A new key makes one table more.
LEMMA KeyAdded ==
  ASSUME NEW T, aKeys \in Seq(T), NEW t, t \notin Keys, IsFiniteSet(Keys), Cardinality(Keys) = Len(aKeys),
         aKeys' = Append(aKeys, t)
  PROVE  Keys' = Keys \cup {t} /\ IsFiniteSet(Keys') /\ Cardinality(Keys') = Len(aKeys')
  <1>1. /\ Len(aKeys') = Len(aKeys) + 1 /\ DOMAIN aKeys = 1 .. Len(aKeys) /\ DOMAIN aKeys' = 1 .. Len(aKeys) + 1
        /\ Len(aKeys) \in Nat /\ aKeys'[Len(aKeys) + 1] = t
        /\ \A i \in 1 .. Len(aKeys) : aKeys'[i] = aKeys[i]
    OBVIOUS
  <1>2. 1 .. Len(aKeys) + 1 = 1 .. Len(aKeys) \cup {Len(aKeys) + 1}
    BY <1>1
  <1>3. Keys' = Keys \cup {t}
    <2>1. Keys' = {aKeys'[i] : i \in 1 .. Len(aKeys) \cup {Len(aKeys) + 1}}
      BY <1>1, <1>2, Zenon DEF Keys
    <2>2. Keys = {aKeys[i] : i \in 1 .. Len(aKeys)}
      BY <1>1, Zenon DEF Keys
    <2>3. {aKeys'[i] : i \in 1 .. Len(aKeys)} = {aKeys[i] : i \in 1 .. Len(aKeys)}
      BY <1>1
    <2>4. {aKeys'[i] : i \in 1 .. Len(aKeys) \cup {Len(aKeys) + 1}}
            = {aKeys'[i] : i \in 1 .. Len(aKeys)} \cup {aKeys'[Len(aKeys) + 1]}
      OBVIOUS
    <2> QED
      BY <1>1, <2>1, <2>2, <2>3, <2>4, Zenon
  <1> QED
    BY <1>1, <1>3, FS_AddElement

\* A command of the second pass keeps the invariant.
LEMMA SecondPassPreserves == ASSUME AcpiInv, SecondPass PROVE AcpiInv'
  <1> DEFINE R == Before(aPos, "addptr")
             N == Before(aPos + 1, "addptr")
             TablesOf(S) == {Target(c) : c \in {p \in S : p.at = "table"}}
  <1>1. /\ aAt = "second" /\ aAt' = "second" /\ aPos <= Len(aScript) /\ aPos' = aPos + 1
        /\ UNCHANGED <<aScript, aEnd, aErr, aPages, aHost>>
    BY DEF SecondPass
  <1>2. /\ aPos \in 1 .. Len(aScript) + 1 /\ aErr = FALSE
        /\ Given \subseteq DOMAIN aBlobs /\ \A c \in Pointers : c.to \in DOMAIN aBlobs /\ PointerFits(c)
        /\ \A f \in DOMAIN aBlobs :
             aBlobs[f].only <=> f \notin Given /\ \A c \in R : c.at = "data" => c.to # f
        /\ aSeen = {Target(c) : c \in R} /\ Keys = TablesOf(R)
        /\ IsFiniteSet(Keys) /\ Cardinality(Keys) = Len(aKeys)
    BY <1>1 DEF AcpiInv, AcpiSecond
  <1>3. /\ aPos \in Nat /\ Len(aScript) \in Nat /\ DOMAIN aScript = 1 .. Len(aScript) /\ aPos \in DOMAIN aScript
        /\ aBlobs \in [DOMAIN aBlobs -> BlobType] /\ aKeys \in Seq({Target(c) : c \in Pointers})
    BY <1>1, <1>2, ScriptShape DEF AcpiInv, AcpiTypes, BlobType
  <1>4. N = IF Cmd.type = "addptr" THEN R \cup {Cmd} ELSE R
    <2>1. DOMAIN aScript \subseteq Nat
      BY <1>3
    <2> QED
      BY <1>3, <2>1, BeforeNext DEF Cmd
  <1>5. Before(aPos, "addptr")' = N
    BY <1>1 DEF Before
  <1>6. Pointers' = Pointers /\ Given' = Given
        /\ CollectAllocationsRestrictedTo32Bit' = CollectAllocationsRestrictedTo32Bit
    BY <1>1, SameScript
  <1> HIDE DEF R, N
  <1> DEFINE Core == /\ DOMAIN aBlobs' = DOMAIN aBlobs /\ aBlobs' \in [DOMAIN aBlobs' -> BlobType]
                     /\ \A f \in DOMAIN aBlobs : aBlobs'[f].bytes = aBlobs[f].bytes
                     /\ \A f \in DOMAIN aBlobs :
                          aBlobs'[f].only <=> f \notin Given /\ \A c \in N : c.at = "data" => c.to # f
                     /\ aSeen' = {Target(c) : c \in N} /\ Keys' = TablesOf(N)
                     /\ IsFiniteSet(Keys') /\ Cardinality(Keys') = Len(aKeys')
                     /\ aKeys' \in Seq({Target(c) : c \in Pointers})
  <1>7. ASSUME Cmd.type # "addptr" PROVE Core
    <2>1. UNCHANGED <<aBlobs, aSeen, aKeys>> /\ N = R
      BY <1>4, <1>7 DEF SecondPass
    <2>2. Keys' = Keys
      BY <2>1 DEF Keys
    <2> QED
      BY <1>2, <1>3, <2>1, <2>2
  <1>8. ASSUME Cmd.type = "addptr" PROVE Core
    <2>1. Process2ndPassCmdAddPointer(Cmd) /\ N = R \cup {Cmd}
      BY <1>4, <1>8 DEF SecondPass
    <2>2. Cmd \in Pointers /\ Cmd.to \in DOMAIN aBlobs
      BY <1>2, <1>3, <1>8 DEF Cmd, Pointers
    <2>3. aSeen' = aSeen \cup {Target(Cmd)}
      BY <2>1 DEF Process2ndPassCmdAddPointer, InstallsTable
    <2>4. aSeen' = {Target(c) : c \in N}
      BY <1>2, <2>1, <2>3
    <2>5. TablesOf(N) = IF Cmd.at = "table" THEN TablesOf(R) \cup {Target(Cmd)} ELSE TablesOf(R)
      BY <2>1
    <2>6. Target(Cmd) \in aSeen => \E c \in R : c.to = Cmd.to /\ c.at = Cmd.at
      BY <1>2 DEF Target
    <2>7. CASE (Target(Cmd) \in aSeen \/ Cmd.at = "root") /\ UNCHANGED <<aBlobs, aKeys>>
      <3>1. Keys' = Keys
        BY <2>7 DEF Keys
      <3>2. Cmd.at = "table" => Target(Cmd) \in TablesOf(R)
        BY <2>6, <2>7 DEF Target
      <3>3. Keys' = TablesOf(N)
        BY <1>2, <2>5, <3>1, <3>2
      <3>4. \A f \in DOMAIN aBlobs :
              aBlobs'[f].only <=> f \notin Given /\ \A c \in N : c.at = "data" => c.to # f
        BY <1>2, <2>1, <2>6, <2>7
      <3> QED
        BY <1>2, <1>3, <2>4, <2>7, <3>1, <3>3, <3>4
    <2>8. CASE /\ Cmd.at = "data" /\ aBlobs' = [aBlobs EXCEPT ![Cmd.to].only = FALSE] /\ UNCHANGED aKeys
      <3>1. Keys' = Keys
        BY <2>8 DEF Keys
      <3>2. Keys' = TablesOf(N)
        BY <1>2, <2>5, <2>8, <3>1
      <3>3. /\ DOMAIN aBlobs' = DOMAIN aBlobs /\ aBlobs' \in [DOMAIN aBlobs' -> BlobType]
            /\ \A f \in DOMAIN aBlobs : /\ aBlobs'[f].bytes = aBlobs[f].bytes
                                        /\ aBlobs'[f].only <=> aBlobs[f].only /\ f # Cmd.to
        BY <1>3, <2>2, <2>8, MarkedBlobs DEF BlobType
      <3>4. \A f \in DOMAIN aBlobs :
              aBlobs'[f].only <=> f \notin Given /\ \A c \in N : c.at = "data" => c.to # f
        BY <1>2, <2>1, <2>8, <3>3
      <3> QED
        BY <1>2, <1>3, <2>4, <2>8, <3>1, <3>2, <3>3, <3>4
    <2>9. CASE InstallsTable(Cmd)
      <3>1. /\ Target(Cmd) \notin aSeen /\ Cmd.at = "table" /\ aKeys' = Append(aKeys, Target(Cmd)) /\ UNCHANGED aBlobs
        BY <2>9 DEF InstallsTable
      <3>2. Target(Cmd) \notin Keys
        BY <1>2, <3>1
      <3>3. Keys' = Keys \cup {Target(Cmd)} /\ IsFiniteSet(Keys') /\ Cardinality(Keys') = Len(aKeys')
        BY <1>2, <1>3, <3>1, <3>2, KeyAdded
      <3>4. aKeys' \in Seq({Target(c) : c \in Pointers})
        BY <1>3, <2>2, <3>1
      <3>5. \A f \in DOMAIN aBlobs :
              aBlobs'[f].only <=> f \notin Given /\ \A c \in N : c.at = "data" => c.to # f
        BY <1>2, <2>1, <3>1
      <3> QED
        BY <1>2, <1>3, <2>4, <2>5, <3>1, <3>3, <3>4, <3>5
    <2> QED
      BY <2>1, <2>7, <2>8, <2>9 DEF Process2ndPassCmdAddPointer
  <1>9. Core
    BY <1>7, <1>8
  <1>10. AcpiTypes'
    <2>1. aPos' \in Nat
      BY <1>1, <1>3
    <2> QED
      BY <1>1, <1>6, <1>9, <2>1 DEF AcpiInv, AcpiTypes, BlobType
  <1>11. AcpiSecond'
    <2>1. aPos' \in 1 .. Len(aScript') + 1
      BY <1>1, <1>3
    <2>2. \A c \in Pointers : c.to \in DOMAIN aBlobs' /\ PointerFits(c)'
      BY <1>2, <1>9 DEF PointerFits
    <2> QED
      BY <1>1, <1>2, <1>5, <1>6, <1>9, <2>1, <2>2 DEF AcpiSecond
  <1>12. AcpiHigh'
    BY <1>6, <1>9 DEF AcpiInv, AcpiHigh
  <1>13. Before(aEnd + 1, "writeptr")' = Before(aEnd + 1, "writeptr")
    BY <1>1 DEF Before
  <1>14. AcpiHost' /\ AcpiHeld'
    BY <1>1, <1>6, <1>9, <1>13 DEF AcpiInv, AcpiHost, AcpiHeld
  <1> QED
    BY <1>1, <1>10, <1>11, <1>12, <1>14 DEF AcpiInv, AcpiIdle, AcpiFirst, AcpiFree

\* A failure of the second pass keeps the invariant.
LEMMA SecondPassFailsPreserves == ASSUME AcpiInv, SecondPassFails PROVE AcpiInv'
  <1>1. /\ aAt = "second" /\ aAt' = "uninstall" /\ aErr' = TRUE
        /\ UNCHANGED <<aScript, aPos, aEnd, aBlobs, aPages, aHost, aSeen, aKeys>>
    BY DEF SecondPassFails
  <1>2. Pointers' = Pointers /\ Given' = Given
        /\ CollectAllocationsRestrictedTo32Bit' = CollectAllocationsRestrictedTo32Bit
    BY <1>1, SameScript
  <1>3. AcpiTypes' /\ AcpiHeld' /\ AcpiHigh'
    BY <1>1, <1>2 DEF AcpiInv, AcpiTypes, AcpiHeld, AcpiHigh
  <1>4. Before(aEnd + 1, "writeptr")' = Before(aEnd + 1, "writeptr")
    BY <1>1 DEF Before
  <1>5. AcpiHost'
    BY <1>1, <1>2, <1>4 DEF AcpiInv, AcpiHost
  <1> QED
    BY <1>1, <1>3, <1>5 DEF AcpiInv, AcpiIdle, AcpiFirst, AcpiSecond, AcpiFree

\* The end of the second pass keeps the invariant.
LEMMA SecondPassDonePreserves == ASSUME AcpiInv, SecondPassDone PROVE AcpiInv'
  <1>1. /\ aAt = "second" /\ aPos > Len(aScript) /\ aAt' = "free"
        /\ UNCHANGED <<aScript, aPos, aEnd, aErr, aBlobs, aPages, aHost, aKeys>>
    BY DEF SecondPassDone
  <1>2. /\ Pointers' = Pointers /\ Given' = Given /\ Data' = Data /\ Tables' = Tables
        /\ CollectAllocationsRestrictedTo32Bit' = CollectAllocationsRestrictedTo32Bit
    BY <1>1, SameScript
  <1>3. /\ aPos \in 1 .. Len(aScript) + 1 /\ aErr = FALSE
        /\ Given \subseteq DOMAIN aBlobs /\ \A c \in Pointers : c.to \in DOMAIN aBlobs /\ PointerFits(c)
        /\ \A f \in DOMAIN aBlobs :
             aBlobs[f].only <=> f \notin Given /\ \A c \in Before(aPos, "addptr") : c.at = "data" => c.to # f
        /\ Keys = {Target(c) : c \in {p \in Before(aPos, "addptr") : p.at = "table"}}
        /\ Cardinality(Keys) = Len(aKeys) /\ aPages = DOMAIN aBlobs
    BY <1>1 DEF AcpiInv, AcpiSecond, AcpiHeld
  <1>4. Len(aScript) \in Nat
    BY ScriptShape
  <1>5. aPos = Len(aScript) + 1
    BY <1>1, <1>3, <1>4
  <1>6. Before(aPos, "addptr") = Pointers
    BY <1>5, BeforeEnds
  <1>7. Keys = Tables /\ Keys' = Keys
    BY <1>1, <1>3, <1>6 DEF Tables, Keys
  <1>8. \A f \in DOMAIN aBlobs : aBlobs[f].only <=> f \notin Data \cup Given
    BY <1>3, <1>6 DEF Data
  <1>9. DOMAIN aBlobs = DOMAIN aBlobs \cup Data \cup Given
    BY <1>3 DEF Data
  <1>10. AcpiFree'
    BY <1>1, <1>2, <1>3, <1>7, <1>8, <1>9 DEF AcpiFree
  <1>11. AcpiTypes' /\ AcpiHigh' /\ AcpiHost'
    BY <1>1, <1>2 DEF AcpiInv, AcpiTypes, AcpiHigh, AcpiHost
  <1> QED
    BY <1>1, <1>10, <1>11 DEF AcpiInv, AcpiIdle, AcpiFirst, AcpiSecond, AcpiHeld

\* The tables uninstalled keep the invariant.
LEMMA UninstallPreserves == ASSUME AcpiInv, UninstallAcpiTables PROVE AcpiInv'
  <1> DEFINE T == {Target(c) : c \in Pointers}
  <1>1. aAt = "uninstall" /\ UNCHANGED <<aScript, aEnd, aErr, aBlobs, aPages, aHost>>
    BY DEF UninstallAcpiTables
  <1>2. /\ Pointers' = Pointers /\ Given' = Given
        /\ CollectAllocationsRestrictedTo32Bit' = CollectAllocationsRestrictedTo32Bit
    BY <1>1, SameScript
  <1>3. aKeys \in Seq(T) /\ aEnd \in Nat /\ aErr = TRUE
    BY <1>1 DEF AcpiInv, AcpiTypes, AcpiHeld
  <1>4. AcpiHigh'
    BY <1>1, <1>2 DEF AcpiInv, AcpiHigh
  <1>5. CASE aKeys # << >>
    <2>1. aKeys' = SubSeq(aKeys, 1, Len(aKeys) - 1) /\ UNCHANGED <<aAt, aPos>>
      BY <1>5 DEF UninstallAcpiTables
    <2>2. aKeys' \in Seq(T)
      <3>1. Len(aKeys) \in Nat /\ Len(aKeys) # 0 /\ \A i \in 1 .. Len(aKeys) - 1 : i \in 1 .. Len(aKeys) /\ aKeys[i] \in T
        BY <1>3, <1>5
      <3> QED
        BY <1>3, <2>1, <3>1
    <2>3. AcpiTypes'
      BY <1>1, <1>2, <2>1, <2>2 DEF AcpiInv, AcpiTypes
    <2>4. Before(aEnd + 1, "writeptr")' = Before(aEnd + 1, "writeptr")
      BY <1>1 DEF Before
    <2>5. AcpiHost'
      BY <1>1, <1>2, <2>1, <2>4 DEF AcpiInv, AcpiHost
    <2> QED
      BY <1>1, <1>4, <2>1, <2>3, <2>5
      DEF AcpiInv, AcpiIdle, AcpiFirst, AcpiSecond, AcpiHeld, AcpiFree
  <1>6. CASE aKeys = << >>
    <2>1. aAt' = "undo" /\ aPos' = aEnd /\ UNCHANGED aKeys
      BY <1>6 DEF UninstallAcpiTables
    <2>2. AcpiTypes'
      BY <1>1, <1>2, <1>3, <2>1 DEF AcpiInv, AcpiTypes
    <2>3. Before(aPos + 1, "writeptr")' = Before(aEnd + 1, "writeptr")
      BY <1>1, <2>1 DEF Before
    <2>4. AcpiHost'
      BY <1>1, <1>2, <2>1, <2>3 DEF AcpiInv, AcpiHost
    <2> QED
      BY <1>1, <1>4, <1>6, <2>1, <2>2, <2>4
      DEF AcpiInv, AcpiIdle, AcpiFirst, AcpiSecond, AcpiHeld, AcpiFree
  <1> QED
    BY <1>5, <1>6

\* What is left after a step back comes from an earlier command; at the beginning nothing is left.
LEMMA UndoPreserves == ASSUME AcpiInv, UndoCmdWritePointer PROVE AcpiInv'
  <1>1. aAt = "undo" /\ UNCHANGED <<aScript, aEnd, aErr, aBlobs, aPages, aSeen, aKeys>>
    BY DEF UndoCmdWritePointer
  <1>2. /\ Pointers' = Pointers /\ Given' = Given
        /\ CollectAllocationsRestrictedTo32Bit' = CollectAllocationsRestrictedTo32Bit
    BY <1>1, SameScript
  <1>3. /\ aPos \in Nat /\ aHost = [p \in DOMAIN aHost |-> aHost[p]] /\ aErr = TRUE /\ aKeys = << >>
        /\ aPages = DOMAIN aBlobs
        /\ \A p \in DOMAIN aHost : /\ aHost[p] \in aPages /\ aHost[p] \in Given
                                   /\ \E c \in Before(aPos + 1, "writeptr") : c.file = p
    BY <1>1 DEF AcpiInv, AcpiTypes, AcpiHeld, AcpiHost
  <1>4. AcpiHigh'
    BY <1>1, <1>2 DEF AcpiInv, AcpiHigh
  <1>5. \A i \in DOMAIN aScript : i \in Nat /\ i # 0
    BY ScriptShape
  <1>6. CASE aPos > 0
    <2>1. /\ aPos' = aPos - 1 /\ UNCHANGED aAt
          /\ aHost' = IF Cmd.type = "writeptr" THEN Without(aHost, Cmd.file) ELSE aHost
      BY <1>6 DEF UndoCmdWritePointer
    <2>2. /\ aHost' = [p \in DOMAIN aHost' |-> aHost'[p]] /\ DOMAIN aHost' \subseteq DOMAIN aHost
          /\ \A p \in DOMAIN aHost' : aHost'[p] = aHost[p] /\ (Cmd.type = "writeptr" => p # Cmd.file)
      BY <1>3, <2>1 DEF Without
    <2>3. ASSUME NEW p \in DOMAIN aHost' PROVE \E c \in Before(aPos + 1, "writeptr")' : c.file = p
      <3>1. PICK i \in DOMAIN aScript : i < aPos + 1 /\ aScript[i].type = "writeptr" /\ aScript[i].file = p
        BY <1>3, <2>2 DEF Before
      <3>2. i # aPos
        BY <2>2, <3>1 DEF Cmd
      <3>3. i < aPos' + 1
        BY <1>3, <1>5, <2>1, <3>1, <3>2
      <3> QED
        BY <1>1, <3>1, <3>3 DEF Before
    <2>4. AcpiHost'
      BY <1>1, <1>2, <1>3, <2>1, <2>2, <2>3 DEF AcpiHost
    <2>5. aPos' \in Nat
      BY <1>3, <1>6, <2>1
    <2>6. AcpiTypes'
      BY <1>1, <1>2, <2>1, <2>2, <2>5 DEF AcpiInv, AcpiTypes
    <2> QED
      BY <1>1, <1>3, <1>4, <2>1, <2>4, <2>6
      DEF AcpiInv, AcpiIdle, AcpiFirst, AcpiSecond, AcpiHeld, AcpiFree
  <1>7. CASE ~(aPos > 0)
    <2>1. aAt' = "free" /\ UNCHANGED <<aHost, aPos>>
      BY <1>7 DEF UndoCmdWritePointer
    <2>2. \A i \in DOMAIN aScript : ~(i < aPos + 1)
      BY <1>3, <1>5, <1>7
    <2>3. DOMAIN aHost = {}
      BY <1>3, <2>2 DEF Before
    <2>4. AcpiTypes' /\ AcpiHost' /\ AcpiFree'
      BY <1>1, <1>2, <1>3, <2>1, <2>3 DEF AcpiInv, AcpiTypes, AcpiHost, AcpiFree
    <2> QED
      BY <1>1, <1>4, <2>1, <2>4 DEF AcpiInv, AcpiIdle, AcpiFirst, AcpiSecond, AcpiHeld
  <1> QED
    BY <1>6, <1>7

\* A blob that is in use leaves the tracker without its pages.
LEMMA FreeTrackerPreserves == ASSUME AcpiInv, FreeTracker PROVE AcpiInv'
  <1>1. aAt = "free" /\ UNCHANGED <<aScript, aPos, aEnd, aErr, aHost, aSeen, aKeys>>
    BY DEF FreeTracker
  <1>2. /\ Pointers' = Pointers /\ Given' = Given /\ Data' = Data /\ Tables' = Tables /\ Keys' = Keys
        /\ CollectAllocationsRestrictedTo32Bit' = CollectAllocationsRestrictedTo32Bit
    BY <1>1, SameScript DEF Keys
  <1>3. /\ aErr \in BOOLEAN
        /\ aErr => aKeys = << >> /\ DOMAIN aHost = {} /\ aPages = DOMAIN aBlobs
        /\ ~aErr => /\ aPages = DOMAIN aBlobs \cup Data \cup Given
                    /\ \A f \in DOMAIN aBlobs : aBlobs[f].only <=> f \notin Data \cup Given
                    /\ Keys = Tables /\ Cardinality(Keys) = Len(aKeys)
    BY <1>1 DEF AcpiInv, AcpiFree
  <1>4. \A p \in DOMAIN aHost : aHost[p] \in Given
    BY DEF AcpiInv, AcpiHost
  <1>5. ASSUME NEW f \in DOMAIN aBlobs, aBlobs' = Without(aBlobs, f), UNCHANGED aAt,
               aPages' = IF aErr \/ aBlobs[f].only THEN aPages \ {f} ELSE aPages
        PROVE  AcpiInv'
    <2>1. aBlobs \in [DOMAIN aBlobs -> BlobType]
      BY DEF AcpiInv, AcpiTypes, BlobType
    <2>2. /\ DOMAIN aBlobs' = DOMAIN aBlobs \ {f} /\ aBlobs' \in [DOMAIN aBlobs' -> BlobType]
          /\ \A g \in DOMAIN aBlobs' : g \in DOMAIN aBlobs /\ aBlobs'[g] = aBlobs[g]
      BY <1>5, <2>1 DEF Without
    <2>3. AcpiTypes' /\ AcpiHigh'
      BY <1>1, <1>2, <1>5, <2>2 DEF AcpiInv, AcpiTypes, AcpiHigh, BlobType
    <2>4. CASE aErr
      <3>1. aPages' = DOMAIN aBlobs'
        BY <1>3, <1>5, <2>2, <2>4
      <3>2. AcpiFree' /\ AcpiHost'
        BY <1>1, <1>3, <1>5, <2>4, <3>1 DEF AcpiFree, AcpiHost
      <3> QED
        BY <1>1, <1>5, <2>3, <3>2 DEF AcpiInv, AcpiIdle, AcpiFirst, AcpiSecond, AcpiHeld
    <2>5. CASE ~aErr
      <3>1. aPages' = DOMAIN aBlobs' \cup Data \cup Given
        BY <1>3, <1>5, <2>2, <2>5
      <3>2. \A g \in DOMAIN aBlobs' : aBlobs'[g].only <=> g \notin Data \cup Given
        BY <1>3, <2>2, <2>5
      <3>3. AcpiFree'
        BY <1>1, <1>2, <1>3, <1>5, <2>5, <3>1, <3>2 DEF AcpiFree
      <3>4. AcpiHost'
        BY <1>1, <1>2, <1>4, <1>5, <3>1 DEF AcpiHost
      <3> QED
        BY <1>1, <1>5, <2>3, <3>3, <3>4 DEF AcpiInv, AcpiIdle, AcpiFirst, AcpiSecond, AcpiHeld
    <2> QED
      BY <2>4, <2>5
  <1>6. CASE aBlobs = NoBlobs /\ aAt' = "done" /\ UNCHANGED <<aPages, aBlobs>>
    <2>1. DOMAIN aBlobs' = {}
      BY <1>6 DEF NoBlobs
    <2>2. AcpiFree'
      BY <1>1, <1>2, <1>3, <1>6, <2>1 DEF AcpiFree
    <2>3. AcpiTypes' /\ AcpiHigh' /\ AcpiHost'
      BY <1>1, <1>2, <1>6 DEF AcpiInv, AcpiTypes, AcpiHigh, AcpiHost
    <2> QED
      BY <1>1, <1>6, <2>2, <2>3 DEF AcpiInv, AcpiIdle, AcpiFirst, AcpiSecond, AcpiHeld
  <1> QED
    BY <1>5, <1>6 DEF FreeTracker

\* A step of the loader keeps what is known of it.
LEMMA AcpiStepPreserves == AcpiInv /\ [AcpiNext]_aVars => AcpiInv'
  <1> SUFFICES ASSUME AcpiInv, [AcpiNext]_aVars PROVE AcpiInv'
    OBVIOUS
  <1>1. CASE UNCHANGED aVars
    <2>1. UNCHANGED <<aAt, aScript, aPos, aEnd, aErr, aBlobs, aPages, aHost, aSeen, aKeys>>
      BY <1>1 DEF aVars
    <2>2. /\ Pointers' = Pointers /\ Given' = Given /\ Data' = Data /\ Tables' = Tables /\ Keys' = Keys
          /\ CollectAllocationsRestrictedTo32Bit' = CollectAllocationsRestrictedTo32Bit
      BY <2>1, SameScript DEF Keys
    <2>3. /\ Before(aPos, "addptr")' = Before(aPos, "addptr") /\ Before(aPos, "writeptr")' = Before(aPos, "writeptr")
          /\ Before(aPos + 1, "writeptr")' = Before(aPos + 1, "writeptr")
          /\ Before(aEnd + 1, "writeptr")' = Before(aEnd + 1, "writeptr")
      BY <2>1 DEF Before
    <2> QED
      BY <2>1, <2>2, <2>3
      DEF AcpiInv, AcpiTypes, AcpiIdle, AcpiFirst, AcpiSecond, AcpiHeld, AcpiFree, AcpiHost, AcpiHigh, PointerFits
  <1> QED
    BY <1>1, AcpiStartPreserves, FirstPassPreserves, FirstPassFailsPreserves, FirstPassDonePreserves,
       SecondPassPreserves, SecondPassFailsPreserves, SecondPassDonePreserves, UninstallPreserves,
       UndoPreserves, FreeTrackerPreserves DEF AcpiNext

(***************************************************************************)
(* HostPointersLive for every script: while the script runs, while an      *)
(* error is undone and while the tracker is freed, no pointer the          *)
(* hypervisor was given leads to pages that were freed.                    *)
(***************************************************************************)
THEOREM HostPointersStayLive == AcpiSpec => []HostPointersLive
  <1>1. AcpiInv => HostPointersLive
    BY DEF AcpiInv, AcpiHost, HostPointersLive
  <1> QED
    BY <1>1, AcpiInitEstablishes, AcpiStepPreserves, PTL DEF AcpiSpec

(***************************************************************************)
(* TablesInstalledOnce for every script, every bound on the tables and     *)
(* every set of fw_cfg files.                                              *)
(***************************************************************************)
THEOREM EveryTableInstalledOnce == AcpiSpec => []TablesInstalledOnce
  <1>1. AcpiInv => TablesInstalledOnce
    <2> SUFFICES ASSUME AcpiInv PROVE TablesInstalledOnce
      OBVIOUS
    <2>1. PointersReach
      <3>1. ASSUME NEW c \in Pointers, c.to \in DOMAIN aBlobs, c.size = 4 PROVE PointerFits(c)
        <4>1. c.to \in CollectAllocationsRestrictedTo32Bit
          BY <3>1 DEF Pointers, CollectAllocationsRestrictedTo32Bit
        <4>2. aBlobs[c.to].bytes # 8 /\ aBlobs[c.to].bytes \in PointerSizes
          BY <3>1, <4>1 DEF AcpiInv, AcpiHigh, AcpiTypes
        <4> QED
          BY <3>1, <4>2 DEF PointerFits, PointerSizes
      <3>2. ASSUME NEW c \in Pointers, aAt = "second" PROVE c.to \in DOMAIN aBlobs /\ PointerFits(c)
        BY <3>2 DEF AcpiInv, AcpiSecond
      <3> QED
        BY <3>1, <3>2 DEF PointersReach
    <2>2. CASE aAt = "done" /\ aErr
      <3>1. aKeys = << >> /\ DOMAIN aHost = {} /\ aPages = {}
        BY <2>2 DEF AcpiInv, AcpiFree
      <3>2. aHost = NoBlobs
        BY <3>1 DEF AcpiInv, AcpiTypes, NoBlobs
      <3> QED
        BY <2>1, <2>2, <3>1, <3>2 DEF TablesInstalledOnce
    <2>3. CASE aAt = "done" /\ ~aErr
      <3>1. aPages = Data \cup Given /\ Keys = Tables /\ Cardinality(Keys) = Len(aKeys)
        BY <2>3 DEF AcpiInv, AcpiFree
      <3> QED
        BY <2>1, <2>3, <3>1 DEF TablesInstalledOnce, Keys, Tables, Data
    <2> QED
      BY <2>1, <2>2, <2>3 DEF TablesInstalledOnce
  <1> QED
    BY <1>1, AcpiInitEstablishes, AcpiStepPreserves, PTL DEF AcpiSpec

-----------------------------------------------------------------------------
(* KernelLoader.                                                           *)

\* Where an item starts in its blob.
ItemBase(b, i) == IF i = 1 THEN 0 ELSE ItemSize(b, 1)

\* The variables of KernelLoader hold what they should.
KernelBlob == [size : Nat, data : Seq(Nat), has : BOOLEAN]
KernelPlace == [blob : 1 .. 4, item : {1, 2}, left : Nat, base : Nat]

KTypeOK ==
  /\ kItems \in KernelItems
  /\ kPc \in {"fetch", "chunk", "verify", "install", "installed", "failed", "overrun"}
  /\ kAt \in KernelPlace /\ kBlob \in [1 .. 3 -> KernelBlob] /\ kTotal \in Nat

\* What FetchBlob makes of a blob: nothing, when its size wraps to zero.
Fetched(b) == IF Len(Content(b)) < KernelSizes THEN Content(b) ELSE << >>

\* A blob that is complete.
Sealed(b) ==
  /\ kBlob[b].data = Fetched(b) /\ kBlob[b].size = Len(Fetched(b))
  /\ kBlob[b].has <=> Len(Fetched(b)) > 0

\* The bytes of the blobs before the n-th.
BytesBefore(n) ==
  (IF n > 1 THEN Len(Fetched(1)) ELSE 0) + (IF n > 2 THEN Len(Fetched(2)) ELSE 0) + (IF n > 3 THEN Len(Fetched(3)) ELSE 0)

\* The blobs before the one at hand are complete, the later ones not there.
BlobsInOrder ==
  kPc \notin {"failed", "overrun"} =>
    /\ \A b \in 1 .. 3 : b < kAt.blob => Sealed(b)
    /\ \A b \in 1 .. 3 : (b > kAt.blob \/ (b = kAt.blob /\ kPc = "fetch")) => ~kBlob[b].has
    /\ kTotal = BytesBefore(kAt.blob)
    /\ IF kPc \in {"install", "installed"} THEN kAt.blob = 4 /\ kBlob[1].has ELSE kAt.blob # 4
    /\ kPc = "verify" => Sealed(kAt.blob)

\* FetchBlob has the blob up to the byte that fw_cfg is at, which is in it.
FetchedSoFar ==
  kPc = "chunk" =>
    LET b == kAt.blob
        i == kAt.item
        at == ItemSize(b, i) - kAt.left
    IN  /\ i \in 1 .. ItemCount(b) /\ kAt.left <= ItemSize(b, i) /\ kAt.base = ItemBase(b, i)
        /\ kSel = [item |-> KeysOf(Blobs[b])[i], at |-> at]
        /\ kBlob[b].size = Len(Content(b)) % KernelSizes /\ (kBlob[b].has <=> kBlob[b].size > 0)
        /\ kBlob[b].data \in [1 .. kBlob[b].size -> Nat]
        /\ kAt.base + at <= kBlob[b].size
        /\ \A n \in 1 .. kAt.base + at : kBlob[b].data[n] = Content(b)[n]

\* What is shown; after a failure, at most one blob is kept of those FreeBlobs has passed.
ShownOrFreed ==
  /\ kShown = IF kPc # "installed" THEN {} ELSE {"fs"} \cup (IF Len(Fetched(2)) > 0 THEN {"initrd"} ELSE {})
  /\ kPc = "failed" => \E f \in 1 .. 4 : \A b \in 1 .. 3 : kBlob[b].has => b < kAt.blob \/ b = f

\* What the entry point returns; only a kernel too large for its size is written past its blob.
Returned ==
  /\ kPc = "installed" => kRet = "SUCCESS"
  /\ kPc = "failed" => kRet = "error" \/ Content(2) # << >>
  /\ kPc = "overrun" => Len(Content(1)) >= KernelSizes

\* The open files are where their callers know them to be.
FileType == [type : 0 .. 4, pos : Nat]
FilesRight ==
  /\ kFiles \in [1 .. MaxStubFiles -> FileType] /\ kWant \in [1 .. MaxStubFiles -> Nat]
  /\ \A h \in 1 .. MaxStubFiles : kWant[h] = kFiles[h].pos /\ (kFiles[h].type = RootDir => kFiles[h].pos <= 3)

FetchInv == KTypeOK /\ BlobsInOrder /\ FetchedSoFar /\ ShownOrFreed /\ Returned
KInv == FetchInv /\ FilesRight /\ AnswersAreTheItems /\ LoadedWhole

-----------------------------------------------------------------------------
\* One sequence after another, read element by element.
LEMMA JoinedItems ==
  ASSUME NEW s \in Seq(Nat), NEW t \in Seq(Nat), NEW c, c = s \o t
  PROVE  /\ c \in Seq(Nat) /\ Len(c) = Len(s) + Len(t) /\ Len(s) \in Nat /\ Len(t) \in Nat
         /\ \A n \in 1 .. Len(s) : c[n] = s[n]
         /\ \A n \in 1 .. Len(t) : c[Len(s) + n] = t[n]
<1>1. /\ c \in Seq(Nat) /\ Len(c) = Len(s) + Len(t)
      /\ \A i \in 1 .. Len(s) + Len(t) : c[i] = IF i <= Len(s) THEN s[i] ELSE t[i - Len(s)]
  BY ConcatProperties
<1>2. Len(s) \in Nat /\ Len(t) \in Nat
  OBVIOUS
<1>3. ASSUME NEW n \in 1 .. Len(t) PROVE c[Len(s) + n] = t[n]
  <2>1. Len(s) + n \in 1 .. Len(s) + Len(t) /\ ~(Len(s) + n <= Len(s)) /\ Len(s) + n - Len(s) = n
    BY <1>2
  <2> QED BY <1>1, <2>1
<1> QED BY <1>1, <1>2, <1>3

\* The items of the blobs and their place in them.
LEMMA ItemsOfBlobs ==
  ASSUME kItems \in KernelItems, NEW b \in 1 .. 3
  PROVE  /\ Content(b) \in Seq(Nat) /\ Len(Content(b)) \in Nat
         /\ ItemCount(b) \in {1, 2}
         /\ \A i \in 1 .. ItemCount(b) : ItemSize(b, i) \in Nat
         /\ Len(Content(b)) = IF ItemCount(b) = 2 THEN ItemSize(b, 1) + ItemSize(b, 2) ELSE ItemSize(b, 1)
         /\ \A i \in 1 .. ItemCount(b), n \in Nat : n \in 1 .. ItemSize(b, i) =>
              Content(b)[ItemBase(b, i) + n] = kItems[KeysOf(Blobs[b])[i]][n]
<1>1. kItems.setup \in Seq(Nat) /\ kItems.kernel \in Seq(Nat) /\ kItems.initrd \in Seq(Nat) /\ kItems.cmdline \in Seq(Nat)
  BY KernelAssumption
<1>2. CASE b = 1
  <2>1. ItemCount(b) = 2 /\ KeysOf(Blobs[b])[1] = "setup" /\ KeysOf(Blobs[b])[2] = "kernel"
    BY <1>2 DEF ItemCount, KeysOf, Blobs
  <2>2. ItemSize(b, 1) = Len(kItems.setup) /\ ItemSize(b, 2) = Len(kItems.kernel)
    BY <2>1 DEF ItemSize
  <2>3. Content(b) = kItems.setup \o kItems.kernel
    BY <1>2 DEF Content
  <2>4. /\ Content(b) \in Seq(Nat) /\ Len(Content(b)) = Len(kItems.setup) + Len(kItems.kernel)
        /\ Len(kItems.setup) \in Nat /\ Len(kItems.kernel) \in Nat
        /\ \A n \in 1 .. Len(kItems.setup) : Content(b)[n] = kItems.setup[n]
        /\ \A n \in 1 .. Len(kItems.kernel) : Content(b)[Len(kItems.setup) + n] = kItems.kernel[n]
    <3> DEFINE s == kItems.setup
               t == kItems.kernel
    <3>1. s \in Seq(Nat) /\ t \in Seq(Nat) /\ Content(b) = s \o t
      BY <1>1, <2>3
    <3> HIDE DEF s, t
    <3>2. /\ Content(b) \in Seq(Nat) /\ Len(Content(b)) = Len(s) + Len(t)
          /\ Len(s) \in Nat /\ Len(t) \in Nat
          /\ \A n \in 1 .. Len(s) : Content(b)[n] = s[n]
          /\ \A n \in 1 .. Len(t) : Content(b)[Len(s) + n] = t[n]
      BY <3>1, JoinedItems
    <3> QED BY <3>2 DEF s, t
  <2>5. \A i \in 1 .. ItemCount(b), n \in Nat : n \in 1 .. ItemSize(b, i) =>
              Content(b)[ItemBase(b, i) + n] = kItems[KeysOf(Blobs[b])[i]][n]
    <3> SUFFICES ASSUME NEW i \in 1 .. ItemCount(b), NEW n \in 1 .. ItemSize(b, i)
                 PROVE  Content(b)[ItemBase(b, i) + n] = kItems[KeysOf(Blobs[b])[i]][n]
      OBVIOUS
    <3>1. CASE i = 1
      <4>1. ItemBase(b, i) = 0 /\ n \in 1 .. Len(kItems.setup) /\ 0 + n = n /\ KeysOf(Blobs[b])[i] = "setup"
        BY <3>1, <2>1, <2>2, <2>4 DEF ItemBase
      <4> QED BY <4>1, <2>4
    <3>2. CASE i = 2
      BY <3>2, <2>1, <2>2, <2>4 DEF ItemBase
    <3> QED BY <3>1, <3>2, <2>1
  <2>6. \A i \in 1 .. ItemCount(b) : ItemSize(b, i) \in Nat
    <3> TAKE i \in 1 .. ItemCount(b)
    <3>1. i = 1 \/ i = 2
      BY <2>1
    <3>2. ItemSize(b, 1) \in Nat /\ ItemSize(b, 2) \in Nat
      BY <2>2, <2>4
    <3> QED BY <3>1, <3>2, Zenon
  <2>7. Len(Content(b)) = ItemSize(b, 1) + ItemSize(b, 2)
    BY <2>2, <2>4
  <2>8. Len(Content(b)) \in Nat
    BY <2>4, LenProperties
  <2> QED BY <2>1, <2>4, <2>5, <2>6, <2>7, <2>8, Zenon
<1>3. CASE b = 2 \/ b = 3
  <2> DEFINE key == IF b = 2 THEN "initrd" ELSE "cmdline"
  <2>1. ItemCount(b) = 1 /\ KeysOf(Blobs[b])[1] = key
    BY <1>3 DEF ItemCount, KeysOf, Blobs
  <2>2. Content(b) = kItems[key]
    BY <1>3 DEF Content
  <2>3. ItemSize(b, 1) = Len(kItems[key])
    BY <2>1 DEF ItemSize
  <2>4. kItems[key] \in Seq(Nat)
    BY <1>1
  <2> HIDE DEF key
  <2> QED BY <2>1, <2>2, <2>3, <2>4 DEF ItemBase
<1> QED BY <1>2, <1>3

\* A size in a UINT32.
LEMMA SizeWraps ==
  ASSUME NEW n \in Nat
  PROVE  /\ n % KernelSizes \in Nat /\ n % KernelSizes <= n /\ n % KernelSizes < KernelSizes
         /\ (n < KernelSizes => n % KernelSizes = n) /\ KernelSizes \in Nat
  BY KernelAssumption

\* Only the kernel has two items, and only it can be too large.
LEMMA WholeBlobs ==
  ASSUME kItems \in KernelItems
  PROVE  /\ \A b \in {2, 3} : Len(Content(b)) < KernelSizes /\ Fetched(b) = Content(b)
         /\ \A b \in 1 .. 3 : Fetched(b) \in Seq(Nat) /\ Len(Fetched(b)) \in Nat
         /\ Fetched(1) # << >> => Fetched(1) = Content(1) /\ Len(Content(1)) < KernelSizes
<1>1. Len(kItems.initrd) < KernelSizes /\ Len(kItems.cmdline) < KernelSizes
  BY KernelAssumption
<1>i. Content(2) = kItems.initrd /\ Content(3) = kItems.cmdline
  BY DEF Content
<1>2. \A b \in {2, 3} : Len(Content(b)) < KernelSizes
  BY <1>1, <1>i
<1>3. \A b \in 1 .. 3 : Content(b) \in Seq(Nat)
  BY ItemsOfBlobs
<1>4. \A b \in 1 .. 3 : Fetched(b) \in Seq(Nat)
  BY <1>3 DEF Fetched
<1>5. \A b \in 1 .. 3 : Len(Fetched(b)) \in Nat
  BY <1>4, LenProperties
<1> QED BY <1>2, <1>4, <1>5 DEF Fetched

\* A blob with each of its bytes from fw_cfg is the content.
LEMMA CompleteIsContent ==
  ASSUME NEW c \in Seq(Nat), NEW d \in [1 .. Len(c) -> Nat], \A n \in 1 .. Len(c) : d[n] = c[n]
  PROVE  d = c
  OBVIOUS

\* Only the file protocol reads what is shown; a step of it changes nothing of the blobs.
LEMMA FetchUnchanged ==
  ASSUME FetchInv, UNCHANGED <<kItems, kSel, kBlob, kAt, kPc, kRet, kTotal, kShown>>
  PROVE  FetchInv'
<1>1. \A b : Content(b)' = Content(b)
  BY DEF Content
<1>w. \A b : Fetched(b)' = Fetched(b)
  BY <1>1 DEF Fetched
<1>2. \A b, i : ItemSize(b, i)' = ItemSize(b, i)
  BY DEF ItemSize
<1>3. \A b, i : ItemBase(b, i)' = ItemBase(b, i)
  BY <1>2 DEF ItemBase
<1>4. KTypeOK'
  BY DEF FetchInv, KTypeOK
<1>5. \A b : Sealed(b)' = Sealed(b)
  BY <1>w DEF Sealed
<1>6. \A n : BytesBefore(n)' = BytesBefore(n)
  BY <1>w DEF BytesBefore
<1>7. BlobsInOrder'
  BY <1>5, <1>6 DEF FetchInv, BlobsInOrder
<1>8. FetchedSoFar'
  BY <1>1, <1>2, <1>3 DEF FetchInv, FetchedSoFar
<1>9. ShownOrFreed' /\ Returned'
  BY <1>1, <1>w DEF FetchInv, ShownOrFreed, Returned
<1> QED BY <1>4, <1>7, <1>8, <1>9 DEF FetchInv

\* What the start of the driver leaves to later calls.
LEMMA StartLeavesCalls ==
  ASSUME KInv, FetchInv', UNCHANGED kItems, FileCallsUntouched
  PROVE  KInv'
<1>1. UNCHANGED <<kItems, kFiles, kWant, kOut, kImage>>
  BY DEF FileCallsUntouched
<1>2. \A b : Content(b)' = Content(b)
  BY <1>1 DEF Content
<1>3. \A b, f, n : Part(b, f, n)' = Part(b, f, n)
  BY <1>2 DEF Part
<1>4. AnswersAreTheItems'
  BY <1>1, <1>2, <1>3 DEF KInv, AnswersAreTheItems, Answers
<1>5. LoadedWhole'
  BY <1>1, <1>2 DEF KInv, LoadedWhole
<1>6. FilesRight'
  BY <1>1 DEF KInv, FilesRight
<1> QED BY <1>4, <1>5, <1>6 DEF KInv

\* The loader starts with nothing fetched, shown or answered.
LEMMA KInitEstablishes == KInit => KInv
<1> SUFFICES ASSUME KInit PROVE KInv
  OBVIOUS
<1>0. kItems \in KernelItems /\ kAt = [blob |-> 1, item |-> 1, left |-> 0, base |-> 0] /\ kPc = "fetch" /\ kTotal = 0
  BY DEF KInit
<1>b. kBlob = [b \in 1 .. 3 |-> NoBlob]
  BY DEF KInit
<1>1. KTypeOK
  <2>1. kBlob \in [1 .. 3 -> KernelBlob]
    BY <1>b DEF NoBlob, KernelBlob
  <2>2. kAt \in KernelPlace
    BY <1>0 DEF KernelPlace
  <2> QED BY <1>0, <2>1, <2>2 DEF KTypeOK
<1>2. BlobsInOrder
  <2>1. BytesBefore(1) = 0
    BY DEF BytesBefore
  <2>2. kAt.blob = 1 /\ kTotal = 0 /\ \A b \in 1 .. 3 : ~kBlob[b].has
    BY <1>0, <1>b DEF NoBlob
  <2> QED BY <2>1, <2>2, <1>0 DEF BlobsInOrder
<1>3. FetchedSoFar /\ ShownOrFreed /\ Returned
  BY <1>0 DEF KInit, FetchedSoFar, ShownOrFreed, Returned
<1>4. FilesRight
  <2>1. PICK r : r = [type |-> 0, pos |-> 0]
    OBVIOUS
  <2>2. r \in FileType /\ r.pos = 0 /\ r.type # RootDir
    BY <2>1 DEF FileType, RootDir
  <2>3. kFiles = [h \in 1 .. MaxStubFiles |-> r] /\ kWant = [h \in 1 .. MaxStubFiles |-> 0]
    BY <2>1 DEF KInit
  <2> QED BY <2>2, <2>3 DEF FilesRight
<1>5. AnswersAreTheItems /\ LoadedWhole
  BY DEF KInit, AnswersAreTheItems, Answers, LoadedWhole, NoOut
<1> QED BY <1>1, <1>2, <1>3, <1>4, <1>5 DEF KInv, FetchInv

\* A function on an initial segment is a sequence.
LEMMA SegmentIsSeq ==
  ASSUME NEW n \in Nat, NEW f \in [1 .. n -> Nat]
  PROVE  f \in Seq(Nat) /\ Len(f) = n
  BY SeqDef

\* Putting another record in the place of a blob.
LEMMA BlobPut ==
  ASSUME NEW g \in [1 .. 3 -> KernelBlob], NEW b \in 1 .. 3, NEW r \in KernelBlob, NEW h, h = [g EXCEPT ![b] = r]
  PROVE  /\ h \in [1 .. 3 -> KernelBlob] /\ h[b] = r
         /\ \A c \in 1 .. 3 : c # b => h[c] = g[c]
  OBVIOUS

\* Without fw_cfg or the time there is nothing.
LEMMA RefusedKeeps ==
  ASSUME FetchInv, EntryRefused
  PROVE  FetchInv'
<1>1. KTypeOK /\ BlobsInOrder /\ kPc = "fetch" /\ kAt.blob = 1 /\ kShown = {}
  BY DEF FetchInv, EntryRefused, ShownOrFreed
<1>2. UNCHANGED <<kItems, kSel, kBlob, kAt, kTotal, kShown>> /\ kPc' = "failed" /\ kRet' = "error"
  BY DEF EntryRefused
<1>3. \A b \in 1 .. 3 : ~kBlob[b].has
  BY <1>1 DEF BlobsInOrder
<1>4. KTypeOK'
  BY <1>1, <1>2 DEF KTypeOK
<1>5. ShownOrFreed'
  BY <1>1, <1>2, <1>3 DEF ShownOrFreed
<1> QED BY <1>2, <1>4, <1>5 DEF FetchInv, BlobsInOrder, FetchedSoFar, Returned

\* FetchBlob up to the allocation starts an empty copy, or there is no memory for one.
LEMMA FetchSizesKeeps ==
  ASSUME FetchInv, FetchSizes
  PROVE  FetchInv'
<1>0. KTypeOK /\ BlobsInOrder /\ ShownOrFreed /\ kPc = "fetch"
  BY DEF FetchInv, FetchSizes
<1>b. PICK b \in 1 .. 3 : b = kAt.blob
  BY <1>0 DEF KTypeOK, BlobsInOrder, KernelPlace
<1>s. PICK size : size = Len(Content(b)) % KernelSizes
  OBVIOUS
<1> DEFINE blank == [i \in 1 .. size |-> 0]
<1>1. kAt.blob = b /\ kAt \in KernelPlace /\ kBlob \in [1 .. 3 -> KernelBlob]
  BY <1>0, <1>b DEF KTypeOK
<1>2. kItems' = kItems /\ kTotal' = kTotal /\ kShown' = kShown
  BY DEF FetchSizes
<1>3. (\A c : Content(c)' = Content(c)) /\ (\A c, i : ItemSize(c, i)' = ItemSize(c, i))
  BY <1>2 DEF Content, ItemSize
<1>w. \A c : Fetched(c)' = Fetched(c)
  BY <1>3 DEF Fetched
<1>4. /\ Content(b) \in Seq(Nat) /\ size \in Nat /\ ItemCount(b) \in {1, 2} /\ Len(Content(b)) \in Nat
      /\ \A i \in 1 .. ItemCount(b) : ItemSize(b, i) \in Nat
      /\ Len(Content(b)) = IF ItemCount(b) = 2 THEN ItemSize(b, 1) + ItemSize(b, 2) ELSE ItemSize(b, 1)
  BY <1>0, <1>s, ItemsOfBlobs, SizeWraps DEF KTypeOK
<1>z. size = 0 => Fetched(b) = << >>
  <2> SUFFICES ASSUME size = 0, Len(Content(b)) < KernelSizes PROVE Content(b) = << >>
    BY DEF Fetched
  <2>1. Len(Content(b)) = 0
    BY <1>s, <1>4, SizeWraps
  <2> QED BY <2>1, <1>4
<1>5. \/ /\ kBlob' = [kBlob EXCEPT ![b] = [size |-> size, data |-> blank, has |-> size > 0]]
         /\ kAt' = [kAt EXCEPT !.item = 1, !.left = ItemSize(b, 1), !.base = 0]
         /\ kPc' = IF size = 0 THEN "verify" ELSE "chunk"
         /\ kSel' = [item |-> KeysOf(Blobs[b])[1], at |-> 0] /\ kRet' = kRet
      \/ /\ size > 0 /\ kPc' = "failed" /\ kRet' = "error"
         /\ kBlob' = [kBlob EXCEPT ![b].size = size] /\ UNCHANGED <<kAt, kSel>>
  BY <1>b, <1>s, <1>4 DEF FetchSizes
<1>6. blank \in Seq(Nat) /\ Len(blank) = size /\ blank \in [1 .. size -> Nat]
  BY <1>4, SegmentIsSeq
<1> HIDE DEF blank
<1>7. CASE /\ kBlob' = [kBlob EXCEPT ![b] = [size |-> size, data |-> blank, has |-> size > 0]]
           /\ kAt' = [kAt EXCEPT !.item = 1, !.left = ItemSize(b, 1), !.base = 0]
           /\ kPc' = IF size = 0 THEN "verify" ELSE "chunk"
           /\ kSel' = [item |-> KeysOf(Blobs[b])[1], at |-> 0] /\ kRet' = kRet
  <2> DEFINE r == [size |-> size, data |-> blank, has |-> size > 0]
  <2>0. r \in KernelBlob
    BY <1>4, <1>6 DEF KernelBlob
  <2>a. r.size = size /\ r.data = blank /\ (r.has <=> size > 0) /\ kBlob' = [kBlob EXCEPT ![b] = r]
    BY <1>7
  <2> HIDE DEF r
  <2>1. /\ kBlob' \in [1 .. 3 -> KernelBlob] /\ kBlob'[b] = r
        /\ \A c \in 1 .. 3 : c # b => kBlob'[c] = kBlob[c]
    BY <1>1, <2>0, <2>a, BlobPut
  <2>2. /\ kAt' \in KernelPlace
        /\ kAt'.blob = b /\ kAt'.item = 1 /\ kAt'.left = ItemSize(b, 1) /\ kAt'.base = 0
    <3>1. ItemSize(b, 1) \in Nat
      BY <1>4
    <3> QED BY <3>1, <1>1, <1>7 DEF KernelPlace
  <2>3. KTypeOK'
    BY <1>0, <1>2, <1>7, <2>1, <2>2 DEF KTypeOK
  <2>4. ShownOrFreed' /\ Returned'
    BY <1>0, <1>2, <1>7 DEF ShownOrFreed, Returned
  <2>5. FetchedSoFar'
    <3> SUFFICES ASSUME kPc' = "chunk"
                 PROVE  FetchedSoFar'
      BY DEF FetchedSoFar
    <3>1. /\ 1 \in 1 .. ItemCount(b) /\ ItemSize(b, 1) <= ItemSize(b, 1) /\ ItemSize(b, 1) - ItemSize(b, 1) = 0
          /\ ItemBase(b, 1)' = 0 /\ 0 + 0 = 0 /\ 1 .. 0 = {} /\ 0 <= size
      BY <1>4 DEF ItemBase
    <3>2. /\ kBlob'[b].size = size /\ (kBlob'[b].has <=> size > 0) /\ kBlob'[b].data \in [1 .. size -> Nat]
      BY <2>1, <2>a, <1>6
    <3> QED BY <3>1, <3>2, <2>2, <1>3, <1>s, <1>7 DEF FetchedSoFar
  <2>6. BlobsInOrder'
    <3>1. BytesBefore(b)' = BytesBefore(b)
      BY <1>w DEF BytesBefore
    <3>2. \A c \in 1 .. 3 : c < b => Sealed(c)'
      BY <1>0, <1>1, <1>w, <2>1 DEF BlobsInOrder, Sealed
    <3>3. ASSUME kPc' = "verify" PROVE Sealed(b)'
      <4>1. size = 0
        BY <3>3, <1>7
      <4>2. blank = << >> /\ Fetched(b)' = << >> /\ Len(<< >>) = 0
        BY <4>1, <1>6, <1>w, <1>z
      <4> QED BY <4>1, <4>2, <2>1, <2>a DEF Sealed
    <3>4. kPc' \in {"verify", "chunk"}
      BY <1>7
    <3>5. \A c \in 1 .. 3 : c > b => ~kBlob'[c].has
      BY <1>0, <1>1, <2>1 DEF BlobsInOrder
    <3>6. kTotal' = BytesBefore(b)' /\ b # 4
      BY <1>0, <1>1, <1>2, <3>1 DEF BlobsInOrder
    <3>7. kPc' \notin {"failed", "overrun", "fetch", "install", "installed"} /\ kAt'.blob = b
      BY <3>4, <2>2
    <3> QED BY <3>2, <3>3, <3>5, <3>6, <3>7 DEF BlobsInOrder
  <2> QED BY <2>3, <2>4, <2>5, <2>6 DEF FetchInv
<1>8. CASE /\ size > 0 /\ kPc' = "failed" /\ kRet' = "error"
           /\ kBlob' = [kBlob EXCEPT ![b].size = size] /\ UNCHANGED <<kAt, kSel>>
  <2>1. /\ kBlob' \in [1 .. 3 -> KernelBlob] /\ \A c \in 1 .. 3 : kBlob'[c].has = kBlob[c].has
    <3> DEFINE r == [kBlob[b] EXCEPT !.size = size]
    <3>1. r \in KernelBlob /\ r.has = kBlob[b].has
      BY <1>1, <1>4 DEF KernelBlob
    <3>2. kBlob' = [kBlob EXCEPT ![b] = r]
      BY <1>8
    <3> HIDE DEF r
    <3> QED BY <1>1, <3>1, <3>2, BlobPut
  <2>2. KTypeOK'
    BY <1>0, <1>2, <1>8, <2>1 DEF KTypeOK
  <2>3. ShownOrFreed'
    <3>1. \A c \in 1 .. 3 : kBlob'[c].has => c < kAt'.blob \/ c = 4
      BY <2>1, <1>0, <1>1, <1>8 DEF BlobsInOrder
    <3>2. kShown' = {}
      BY <1>0, <1>2 DEF ShownOrFreed
    <3> QED BY <1>8, <3>1, <3>2 DEF ShownOrFreed
  <2> QED BY <1>8, <2>2, <2>3 DEF FetchInv, BlobsInOrder, FetchedSoFar, Returned
<1> QED BY <1>5, <1>7, <1>8

\* Where FetchBlob is in the blob at hand.
LEMMA FetchedInBlob ==
  ASSUME FetchInv, kPc = "chunk"
  PROVE  /\ kAt.blob \in 1 .. 3 /\ kBlob[kAt.blob] \in KernelBlob
         /\ kAt.item \in 1 .. ItemCount(kAt.blob) /\ ItemSize(kAt.blob, kAt.item) \in Nat
         /\ kAt.left \in Nat /\ kAt.left <= ItemSize(kAt.blob, kAt.item)
         /\ kAt.base \in Nat /\ kAt.base = ItemBase(kAt.blob, kAt.item)
         /\ kAt.base + ItemSize(kAt.blob, kAt.item) <= Len(Content(kAt.blob))
         /\ kAt.item = ItemCount(kAt.blob) => kAt.base + ItemSize(kAt.blob, kAt.item) = Len(Content(kAt.blob))
<1>1. KTypeOK /\ BlobsInOrder /\ FetchedSoFar
  BY DEF FetchInv
<1>2. kAt.blob \in 1 .. 3 /\ kBlob[kAt.blob] \in KernelBlob /\ kAt.left \in Nat /\ kAt.base \in Nat
  BY <1>1 DEF KTypeOK, BlobsInOrder, KernelPlace
<1>3. PICK b \in 1 .. 3 : b = kAt.blob
  BY <1>2
<1>4. PICK i : i = kAt.item
  OBVIOUS
<1>5. i \in 1 .. ItemCount(b) /\ kAt.left <= ItemSize(b, i) /\ kAt.base = ItemBase(b, i)
  BY <1>1, <1>3, <1>4 DEF FetchedSoFar
<1>6. /\ ItemCount(b) \in {1, 2} /\ \A j \in 1 .. ItemCount(b) : ItemSize(b, j) \in Nat
      /\ Len(Content(b)) = IF ItemCount(b) = 2 THEN ItemSize(b, 1) + ItemSize(b, 2) ELSE ItemSize(b, 1)
  BY <1>1, <1>3, ItemsOfBlobs DEF KTypeOK
<1>7. ItemSize(b, 1) \in Nat /\ (ItemCount(b) = 2 => ItemSize(b, 2) \in Nat)
  BY <1>6
<1>8. CASE i = 1
  BY <1>2, <1>3, <1>4, <1>5, <1>6, <1>7, <1>8 DEF ItemBase
<1>9. CASE i = 2
  BY <1>2, <1>3, <1>4, <1>5, <1>6, <1>7, <1>9 DEF ItemBase
<1> QED BY <1>5, <1>6, <1>8, <1>9

\* One QemuFwCfgReadBytes, or the next item, or the end of the blob.
LEMMA FetchChunkKeeps ==
  ASSUME FetchInv, FetchChunk
  PROVE  FetchInv'
<1>0. KTypeOK /\ BlobsInOrder /\ FetchedSoFar /\ ShownOrFreed /\ kPc = "chunk"
  BY DEF FetchInv, FetchChunk
<1>b. PICK b \in 1 .. 3 : b = kAt.blob
  BY <1>0, FetchedInBlob
<1>i. PICK i : i = kAt.item
  OBVIOUS
<1>c. PICK c : c = Content(b)
  OBVIOUS
<1>z. PICK size : size = ItemSize(b, i)
  OBVIOUS
<1>k. PICK key : key = KeysOf(Blobs[b])[i]
  OBVIOUS
<1>1. /\ i \in 1 .. ItemCount(b) /\ size \in Nat /\ kAt.left \in Nat /\ kAt.left <= size
      /\ kAt.base \in Nat /\ kAt.base = ItemBase(b, i) /\ kAt.base + size <= Len(c)
      /\ i = ItemCount(b) => kAt.base + size = Len(c)
      /\ kBlob[b] \in KernelBlob
  BY <1>0, <1>b, <1>i, <1>c, <1>z, FetchedInBlob
<1>2. kItems' = kItems /\ kTotal' = kTotal /\ kShown' = kShown /\ kRet' = kRet
  BY DEF FetchChunk
<1>3. (\A n : Content(n)' = Content(n)) /\ (\A n, j : ItemSize(n, j)' = ItemSize(n, j)) /\ (\A n, j : ItemBase(n, j)' = ItemBase(n, j))
  BY <1>2 DEF Content, ItemSize, ItemBase
<1>w. \A n : Fetched(n)' = Fetched(n)
  BY <1>3 DEF Fetched
<1>4. /\ c \in Seq(Nat) /\ Len(c) \in Nat /\ ItemCount(b) \in {1, 2}
      /\ \A j \in 1 .. ItemCount(b) : ItemSize(b, j) \in Nat
      /\ \A n \in Nat : n \in 1 .. size => c[kAt.base + n] = kItems[key][n]
  <2>1. /\ c \in Seq(Nat) /\ Len(c) \in Nat /\ ItemCount(b) \in {1, 2}
        /\ \A j \in 1 .. ItemCount(b) : ItemSize(b, j) \in Nat
        /\ \A j \in 1 .. ItemCount(b), n \in Nat : n \in 1 .. ItemSize(b, j) =>
              Content(b)[ItemBase(b, j) + n] = kItems[KeysOf(Blobs[b])[j]][n]
    BY <1>0, <1>c, ItemsOfBlobs, Zenon DEF KTypeOK
  <2> QED BY <1>1, <1>c, <1>z, <1>k, <2>1
<1>l. PICK len : len = kBlob[b].size
  OBVIOUS
<1>5. /\ kSel = [item |-> key, at |-> size - kAt.left]
      /\ len = Len(c) % KernelSizes /\ (kBlob[b].has <=> len > 0) /\ kBlob[b].data \in [1 .. len -> Nat]
      /\ kAt.base + (size - kAt.left) <= len
      /\ \A n \in 1 .. kAt.base + (size - kAt.left) : kBlob[b].data[n] = c[n]
  BY <1>0, <1>b, <1>i, <1>c, <1>z, <1>k, <1>l DEF FetchedSoFar
<1>m. len \in Nat /\ len <= Len(c) /\ len < KernelSizes /\ (len < Len(c) => Len(c) >= KernelSizes)
  <2>1. PICK m \in Nat : m = Len(c)
    BY <1>4
  <2>2. PICK w : w = m % KernelSizes
    OBVIOUS
  <2>3. w \in Nat /\ w <= m /\ w < KernelSizes /\ (m < KernelSizes => w = m) /\ KernelSizes \in Nat
    BY <2>2, SizeWraps
  <2>4. len = w
    BY <1>5, <2>1, <2>2
  <2> QED BY <2>1, <2>3, <2>4
<1>6. /\ kAt \in KernelPlace /\ kBlob \in [1 .. 3 -> KernelBlob]
  BY <1>0 DEF KTypeOK
\* What all the cases keep of the blobs before this one.
<1>o. ASSUME kAt'.blob = b, kPc' \in {"chunk", "verify"}, kPc' = "verify" => Sealed(b)',
             \A n \in 1 .. 3 : n # b => kBlob'[n] = kBlob[n]
      PROVE  BlobsInOrder' /\ ShownOrFreed' /\ Returned'
  <2>1. BytesBefore(b)' = BytesBefore(b)
    BY <1>w DEF BytesBefore
  <2>2. \A n \in 1 .. 3 : n < b => Sealed(n)'
    BY <1>0, <1>b, <1>w, <1>o DEF BlobsInOrder, Sealed
  <2>3. \A n \in 1 .. 3 : n > b => ~kBlob'[n].has
    BY <1>0, <1>b, <1>o DEF BlobsInOrder
  <2>4. kTotal' = BytesBefore(b)' /\ b # 4
    BY <1>0, <1>b, <1>2, <2>1 DEF BlobsInOrder
  <2>5. kPc' \notin {"failed", "overrun", "fetch", "install", "installed"} /\ kShown' = {}
    BY <1>0, <1>2, <1>o DEF ShownOrFreed
  <2> QED BY <1>o, <2>2, <2>3, <2>4, <2>5 DEF BlobsInOrder, ShownOrFreed, Returned
<1>7. CASE kAt.left > 0
  <2> DEFINE ch == IF kAt.left < KernelChunk THEN kAt.left ELSE KernelChunk
             t == kAt.base + size - kAt.left
  <2>1. PICK chunk \in Nat : chunk = ch
    BY <1>1, KernelAssumption
  <2>2. PICK d : d = kBlob[b].data
    OBVIOUS
  <2>a. PICK at \in Nat : at = size - kAt.left
    BY <1>1
  <2>3. PICK e : e = [n \in DOMAIN d |-> IF n \in (kAt.base + at) + 1 .. (kAt.base + at) + chunk THEN kItems[key][at + n - (kAt.base + at)] ELSE d[n]]
    OBVIOUS
  <2>4. t = kAt.base + at /\ kSel.at = at /\ kSel.item = key
    BY <1>1, <1>5, <2>a
  <2>5. /\ kBlob' = [kBlob EXCEPT ![b].data =
                      [n \in DOMAIN @ |-> IF n \in t + 1 .. t + ch THEN kItems[kSel.item][kSel.at + n - t] ELSE @[n]]]
        /\ kSel' = [kSel EXCEPT !.at = @ + ch] /\ kAt' = [kAt EXCEPT !.left = @ - ch]
        /\ kPc' = IF t + ch > len THEN "overrun" ELSE "chunk"
    BY <1>7, <1>b, <1>i, <1>z, <1>l DEF FetchChunk
  <2> HIDE DEF t, ch
  <2>6. kBlob' = [kBlob EXCEPT ![b] = [kBlob[b] EXCEPT !.data = e]]
    BY <2>1, <2>2, <2>3, <2>4, <2>5
  <2>7. chunk <= kAt.left /\ chunk > 0 /\ at + chunk <= size
    BY <1>1, <1>7, <2>1, <2>a, KernelAssumption DEF ch
  <2>8. e \in [1 .. len -> Nat] /\ \A n \in 1 .. len : n <= kAt.base + at + chunk => e[n] = c[n]
    <3>1. PICK base \in Nat : base = kAt.base
      BY <1>1
    <3>2. PICK item : item = kItems[key]
      OBVIOUS
    <3>3. /\ c \in Seq(Nat) /\ d \in [1 .. len -> Nat] /\ at + chunk <= size /\ base + size <= Len(c)
          /\ \A n \in Nat : n \in 1 .. size => c[base + n] = item[n]
          /\ \A n \in 1 .. base + at : d[n] = c[n]
      BY <1>1, <1>4, <1>5, <2>2, <2>7, <2>a, <3>1, <3>2
    <3>4. e = [n \in DOMAIN d |-> IF n \in (base + at) + 1 .. (base + at) + chunk THEN item[at + n - (base + at)] ELSE d[n]]
      BY <2>3, <3>1, <3>2
    <3>5. e \in [1 .. len -> Nat] /\ \A n \in 1 .. len : n <= base + at + chunk => e[n] = c[n]
      <4>1. Len(c) \in Nat /\ DOMAIN d = 1 .. len /\ \A n \in 1 .. len : c[n] \in Nat /\ d[n] \in Nat
        BY <1>m, <3>3
      <4>2. ASSUME NEW n \in 1 .. len, n \in (base + at) + 1 .. (base + at) + chunk
            PROVE  item[at + n - (base + at)] = c[n]
        <5>1. PICK m \in Nat : m = n - base
          BY <1>m, <4>1, <4>2
        <5>2. m \in 1 .. size /\ base + m = n /\ at + n - (base + at) = m
          BY <1>1, <1>m, <3>3, <4>1, <4>2, <5>1
        <5> QED BY <3>3, <5>2
      <4>3. \A n \in 1 .. len : e[n] = IF n \in (base + at) + 1 .. (base + at) + chunk THEN c[n] ELSE d[n]
        BY <3>4, <4>1, <4>2
      <4>4. DOMAIN e = 1 .. len /\ e = [n \in 1 .. len |-> e[n]]
        BY <3>4, <4>1
      <4>5. \A n \in 1 .. len : e[n] \in Nat
        BY <4>1, <4>3
      <4>6. e \in [1 .. len -> Nat]
        BY <4>4, <4>5
      <4>7. \A n \in 1 .. len : n <= base + at + chunk => n \in (base + at) + 1 .. (base + at) + chunk \/ n \in 1 .. base + at
        BY <1>m
      <4> QED BY <3>3, <4>3, <4>6, <4>7
    <3> QED BY <3>1, <3>5
  <2>9. PICK r : r = [kBlob[b] EXCEPT !.data = e]
    OBVIOUS
  <2>10. r \in KernelBlob /\ r.size = len /\ (r.has <=> len > 0) /\ r.data = e
    <3>1. e \in Seq(Nat)
      BY <1>m, <2>8, SegmentIsSeq
    <3> QED BY <3>1, <1>1, <1>5, <1>l, <2>9 DEF KernelBlob
  <2>11. /\ kBlob' \in [1 .. 3 -> KernelBlob] /\ kBlob'[b] = r
         /\ \A n \in 1 .. 3 : n # b => kBlob'[n] = kBlob[n]
    BY <1>6, <2>6, <2>9, <2>10, BlobPut
  <2>12. /\ kAt' \in KernelPlace
         /\ kAt'.blob = b /\ kAt'.item = i /\ kAt'.base = kAt.base /\ kAt'.left = kAt.left - chunk
    <3>1. kAt.left - chunk \in Nat
      BY <1>1, <2>7
    <3> QED BY <3>1, <1>b, <1>i, <1>6, <2>1, <2>5 DEF KernelPlace
  <2>13. KTypeOK'
    BY <1>0, <1>2, <2>5, <2>11, <2>12 DEF KTypeOK
  <2>14. CASE kPc' = "overrun"
    <3>1. kAt.base + at + chunk > len
      BY <2>1, <2>4, <2>5, <2>14
    <3>2. PICK base \in Nat : base = kAt.base
      BY <1>1
    <3>3. base + at + chunk <= Len(c)
      BY <1>1, <1>4, <2>7, <3>2
    <3>4. Len(c) >= KernelSizes
      BY <1>4, <1>m, <3>1, <3>2, <3>3
    <3>5. b = 1
      <4>1. b \in {2, 3} => Len(c) < KernelSizes
        BY <1>0, <1>c, WholeBlobs DEF KTypeOK
      <4>2. KernelSizes \in Nat
        BY SizeWraps
      <4> QED BY <1>4, <3>4, <4>1, <4>2
    <3>6. Returned'
      BY <1>3, <1>c, <2>14, <3>4, <3>5 DEF Returned
    <3>7. ShownOrFreed'
      BY <1>0, <1>2, <2>14 DEF ShownOrFreed
    <3> QED BY <2>13, <2>14, <3>6, <3>7 DEF FetchInv, BlobsInOrder, FetchedSoFar
  <2>15. CASE kPc' # "overrun"
    <3>0. kPc' = "chunk" /\ kAt.base + at + chunk <= len
      <4>1. PICK sum \in Nat : sum = kAt.base + at + chunk
        BY <1>1
      <4>2. t + ch = sum
        BY <2>1, <2>4, <4>1
      <4> QED BY <1>m, <2>5, <2>15, <4>1, <4>2
    <3>1. kSel' = [item |-> key, at |-> at + chunk]
      BY <1>5, <2>1, <2>5, <2>a
    <3>2. size - (kAt.left - chunk) = at + chunk /\ kAt.left - chunk <= size /\ kAt.base + (at + chunk) = kAt.base + at + chunk
      <4>1. PICK left, base : left = kAt.left /\ base = kAt.base
        OBVIOUS
      <4>2. size \in Nat /\ at \in Nat /\ left \in Nat /\ base \in Nat /\ chunk \in Nat
        BY <1>1, <2>7, <2>a, <4>1
      <4>3. size - left = at /\ left <= size /\ chunk <= left
        BY <1>1, <2>7, <2>a, <4>1
      <4> QED BY <4>1, <4>2, <4>3
    <3>3. size = ItemSize(b, i)' /\ kAt.base = ItemBase(b, i)' /\ c = Content(b)'
      BY <1>1, <1>3, <1>c, <1>z
    <3>4. /\ kAt'.base + (ItemSize(b, i)' - kAt'.left) = kAt.base + at + chunk
          /\ ItemSize(b, i)' - kAt'.left = at + chunk /\ kAt'.left <= ItemSize(b, i)'
          /\ kAt'.base = ItemBase(b, i)'
      BY <2>12, <3>2, <3>3
    <3>e. \A n \in 1 .. kAt.base + at + chunk : e[n] = c[n]
      <4>1. PICK sum \in Nat : sum = kAt.base + at + chunk
        BY <1>1
      <4>2. \A n \in 1 .. sum : n \in 1 .. len /\ n <= sum
        BY <1>m, <3>0, <4>1
      <4> QED BY <2>8, <4>1, <4>2
    <3>5. /\ kBlob'[b].size = Len(Content(b)') % KernelSizes /\ (kBlob'[b].has <=> kBlob'[b].size > 0)
          /\ kBlob'[b].data \in [1 .. kBlob'[b].size -> Nat]
          /\ kAt'.base + (ItemSize(b, i)' - kAt'.left) <= kBlob'[b].size
          /\ \A n \in 1 .. kAt'.base + (ItemSize(b, i)' - kAt'.left) : kBlob'[b].data[n] = Content(b)'[n]
      BY <1>5, <2>8, <2>10, <2>11, <3>0, <3>3, <3>4, <3>e
    <3>6. kAt'.blob = b /\ kAt'.item = i /\ i \in 1 .. ItemCount(b) /\ kSel' = [item |-> KeysOf(Blobs[b])[i], at |-> ItemSize(b, i)' - kAt'.left]
      BY <1>1, <1>k, <2>12, <3>1, <3>4
    <3>7. FetchedSoFar'
      BY <3>4, <3>5, <3>6, Zenon DEF FetchedSoFar
    <3> QED BY <1>0, <1>o, <2>11, <2>12, <2>13, <3>0, <3>7 DEF FetchInv
  <2> QED BY <2>14, <2>15
<1>8. CASE ~(kAt.left > 0) /\ i < ItemCount(b)
  <2>1. /\ kBlob' = kBlob /\ kPc' = kPc
        /\ kAt' = [kAt EXCEPT !.item = @ + 1, !.left = ItemSize(b, i + 1), !.base = @ + size]
        /\ kSel' = [item |-> KeysOf(Blobs[b])[i + 1], at |-> 0]
    BY <1>8, <1>b, <1>i, <1>z DEF FetchChunk
  <2>2. i = 1 /\ ItemCount(b) = 2 /\ i + 1 = 2
    BY <1>1, <1>4, <1>8
  <2>3. ItemSize(b, 2) \in Nat /\ kAt.left = 0 /\ kAt.base = 0
    BY <1>1, <1>4, <1>8, <2>2 DEF ItemBase
  <2>4. /\ kAt' \in KernelPlace
        /\ kAt'.blob = b /\ kAt'.item = 2 /\ kAt'.base = size /\ kAt'.left = ItemSize(b, 2)
    <3>1. kAt.item + 1 = 2 /\ kAt.base + size = size
      BY <1>1, <1>i, <2>2, <2>3
    <3>2. kAt' = [kAt EXCEPT !.item = 2, !.left = ItemSize(b, 2), !.base = size]
      BY <2>1, <2>2, <3>1
    <3> QED BY <1>1, <1>b, <1>6, <2>3, <3>2 DEF KernelPlace
  <2>5. KTypeOK'
    BY <1>0, <1>2, <2>1, <2>4 DEF KTypeOK
  <2>6. FetchedSoFar'
    <3>1. ItemBase(b, 2)' = size /\ ItemSize(b, 2)' = ItemSize(b, 2) /\ Content(b)' = c /\ 2 \in 1 .. ItemCount(b)
      BY <1>3, <1>c, <1>z, <2>2 DEF ItemBase
    <3>2. /\ ItemSize(b, 2) - ItemSize(b, 2) = 0 /\ ItemSize(b, 2) <= ItemSize(b, 2)
          /\ size + 0 = kAt.base + (size - kAt.left)
      BY <1>1, <2>3
    <3> QED BY <1>5, <1>l, <2>1, <2>2, <2>4, <3>1, <3>2 DEF FetchedSoFar
  <2> QED BY <1>0, <1>o, <2>1, <2>4, <2>5, <2>6 DEF FetchInv
<1>9. CASE ~(kAt.left > 0) /\ ~(i < ItemCount(b))
  <2>1. /\ kBlob' = kBlob /\ kPc' = "verify" /\ UNCHANGED <<kAt, kSel>>
    BY <1>9, <1>b, <1>i DEF FetchChunk
  <2>2. i = ItemCount(b) /\ kAt.left = 0 /\ kAt.base + (size - kAt.left) = Len(c)
    BY <1>1, <1>4, <1>9
  <2>3. len = Len(c) /\ Len(c) < KernelSizes /\ kBlob[b].data = c
    <3>0. len = Len(c)
      BY <1>4, <1>5, <1>m, <2>2
    <3>1. PICK d : d = kBlob[b].data
      OBVIOUS
    <3>2. d \in [1 .. Len(c) -> Nat] /\ \A n \in 1 .. Len(c) : d[n] = c[n]
      BY <1>5, <2>2, <3>0, <3>1
    <3> QED BY <1>4, <1>m, <3>0, <3>1, <3>2, CompleteIsContent
  <2>4. Sealed(b)'
    <3>1. Fetched(b)' = c
      BY <1>c, <1>w, <2>3 DEF Fetched
    <3> QED BY <1>5, <1>l, <2>1, <2>3, <3>1 DEF Sealed
  <2>5. KTypeOK'
    BY <1>0, <1>2, <2>1 DEF KTypeOK
  <2> QED BY <1>o, <1>b, <2>1, <2>4, <2>5 DEF FetchInv, FetchedSoFar
<1> QED BY <1>7, <1>8, <1>9

\* A verified blob is counted and the next one fetched; a refused one, or no kernel, ends it.
LEMMA VerifyBlobKeeps ==
  ASSUME FetchInv, VerifyBlob
  PROVE  FetchInv'
<1>0. KTypeOK /\ BlobsInOrder /\ ShownOrFreed /\ kPc = "verify"
  BY DEF FetchInv, VerifyBlob
<1>b. PICK b \in 1 .. 3 : b = kAt.blob
  BY <1>0 DEF KTypeOK, BlobsInOrder, KernelPlace
<1>1. kItems' = kItems /\ kShown' = {} /\ kBlob' = kBlob /\ (kPc' = "failed" => kRet' = "error")
  BY <1>0 DEF VerifyBlob, ShownOrFreed
<1>w. \A n : Fetched(n)' = Fetched(n)
  BY <1>1 DEF Content, Fetched
<1>2. (\A n : Sealed(n)' = Sealed(n)) /\ (\A n : BytesBefore(n)' = BytesBefore(n))
  BY <1>1, <1>w DEF Sealed, BytesBefore
<1>3. /\ \A n \in 1 .. 3 : n <= b => Sealed(n)
      /\ \A n \in 1 .. 3 : n > b => ~kBlob[n].has
      /\ kTotal = BytesBefore(b)
  BY <1>0, <1>b DEF BlobsInOrder
<1>4. \A n \in 1 .. 3 : Len(Fetched(n)) \in Nat
  BY <1>0, WholeBlobs DEF KTypeOK
<1>5. kAt \in KernelPlace /\ kTotal \in Nat
  BY <1>0 DEF KTypeOK
<1>6. CASE /\ kTotal' = kTotal + kBlob[b].size /\ kAt' = [kAt EXCEPT !.blob = @ + 1]
           /\ kPc' \in {"fetch", "install", "failed"} /\ (kPc' = "fetch" <=> b < 3) /\ (kPc' = "install" => kBlob[1].has)
  <2>1. kBlob[b].size = Len(Fetched(b))
    BY <1>3 DEF Sealed
  <2>2. kTotal' = BytesBefore(b + 1)
    <3>1. Len(Fetched(1)) \in Nat /\ Len(Fetched(2)) \in Nat /\ Len(Fetched(3)) \in Nat
      BY <1>4
    <3>2. CASE b = 1
      BY <1>3, <1>6, <2>1, <3>1, <3>2 DEF BytesBefore
    <3>3. CASE b = 2
      BY <1>3, <1>6, <2>1, <3>1, <3>3 DEF BytesBefore
    <3>4. CASE b = 3
      BY <1>3, <1>6, <2>1, <3>1, <3>4 DEF BytesBefore
    <3> QED BY <3>2, <3>3, <3>4
  <2>3. kAt' \in KernelPlace /\ kAt'.blob = b + 1
    BY <1>b, <1>5, <1>6 DEF KernelPlace
  <2>4. KTypeOK'
    <3>1. kTotal' \in Nat
      BY <1>4, <1>5, <1>6, <2>1
    <3> QED BY <1>0, <1>1, <1>6, <2>3, <3>1 DEF KTypeOK
  <2>5. BlobsInOrder'
    <3>1. \A n \in 1 .. 3 : n < b + 1 => Sealed(n)'
      BY <1>2, <1>3
    <3>2. \A n \in 1 .. 3 : n > b + 1 \/ n = b + 1 => ~kBlob'[n].has
      BY <1>1, <1>3
    <3>3. kTotal' = BytesBefore(b + 1)'
      BY <1>2, <2>2
    <3>4. kPc' # "failed" => IF kPc' \in {"install", "installed"} THEN b + 1 = 4 /\ kBlob'[1].has ELSE b + 1 # 4
      BY <1>1, <1>6
    <3> QED BY <1>6, <2>3, <3>1, <3>2, <3>3, <3>4 DEF BlobsInOrder
  <2>6. ShownOrFreed'
    <3>1. \A n \in 1 .. 3 : kBlob'[n].has => n < kAt'.blob \/ n = 4
      BY <1>1, <1>3, <2>3
    <3> QED BY <1>1, <1>6, <3>1 DEF ShownOrFreed
  <2> QED BY <1>1, <1>6, <2>4, <2>5, <2>6 DEF FetchInv, FetchedSoFar, Returned
<1>7. CASE kPc' = "failed" /\ UNCHANGED <<kAt, kTotal>>
  <2>1. KTypeOK'
    BY <1>0, <1>1, <1>7 DEF KTypeOK
  <2>2. ShownOrFreed'
    <3>1. \A n \in 1 .. 3 : kBlob'[n].has => n < kAt'.blob \/ n = b
      BY <1>b, <1>1, <1>3, <1>7
    <3> QED BY <1>1, <1>7, <3>1 DEF ShownOrFreed
  <2> QED BY <1>1, <1>7, <2>1, <2>2 DEF FetchInv, BlobsInOrder, FetchedSoFar, Returned
<1> QED BY <1>b, <1>6, <1>7 DEF VerifyBlob

\* The protocols are installed, or none of them is.
LEMMA InstallKeeps ==
  ASSUME FetchInv, InstallKernelFs
  PROVE  FetchInv'
<1>0. KTypeOK /\ BlobsInOrder /\ kPc = "install" /\ kAt.blob = 4
  BY DEF FetchInv, InstallKernelFs, BlobsInOrder
<1>1. UNCHANGED <<kItems, kSel, kBlob, kAt, kTotal>>
  BY DEF InstallKernelFs
<1>w. \A n : Fetched(n)' = Fetched(n)
  BY <1>1 DEF Content, Fetched
<1>2. (\A n : Sealed(n)' = Sealed(n)) /\ (\A n : BytesBefore(n)' = BytesBefore(n))
  BY <1>1, <1>w DEF Sealed, BytesBefore
<1>3. kPc' \in {"installed", "failed"}
  BY DEF InstallKernelFs
<1>4. KTypeOK'
  BY <1>0, <1>1, <1>3 DEF KTypeOK
<1>5. BlobsInOrder'
  BY <1>0, <1>1, <1>2, <1>3 DEF BlobsInOrder
<1>6. FetchedSoFar'
  BY <1>3 DEF FetchedSoFar
<1>7. ShownOrFreed' /\ Returned'
  <2>1. kBlob[2].size = Len(Fetched(2)) /\ (Len(Fetched(2)) > 0 => Content(2)' # << >>)
    <3>1. kBlob[2].size = Len(Fetched(2))
      BY <1>0 DEF BlobsInOrder, Sealed
    <3>2. Fetched(2) = Content(2) /\ Content(2)' = Content(2) /\ Len(<< >>) = 0
      BY <1>0, <1>1, WholeBlobs DEF KTypeOK, Content
    <3> QED BY <3>1, <3>2
  <2>2. \A n \in 1 .. 3 : n < kAt'.blob
    BY <1>0, <1>1
  <2>3. CASE kPc' = "installed"
    BY <1>w, <2>1, <2>3 DEF ShownOrFreed, Returned, InstallKernelFs
  <2>4. CASE kPc' = "failed"
    BY <2>1, <2>2, <2>4 DEF ShownOrFreed, Returned, InstallKernelFs
  <2> QED BY <1>3, <2>3, <2>4
<1> QED BY <1>4, <1>5, <1>6, <1>7 DEF FetchInv

\* FreeBlobs passes a blob only without it.
LEMMA FreeBlobsKeeps ==
  ASSUME FetchInv, FreeBlobs
  PROVE  FetchInv'
<1>0. KTypeOK /\ ShownOrFreed /\ Returned /\ kPc = "failed" /\ kPc' = "failed" /\ kAt.blob > 1
  BY DEF FetchInv, FreeBlobs
<1>1. kItems' = kItems /\ kShown' = kShown /\ kTotal' = kTotal /\ kRet' = kRet
  BY DEF FreeBlobs
<1>2. kAt \in KernelPlace /\ kBlob \in [1 .. 3 -> KernelBlob]
  BY <1>0 DEF KTypeOK
<1>3. PICK b \in 1 .. 3 : b = kAt.blob - 1
  BY <1>0, <1>2 DEF KernelPlace
<1>4. kAt' \in KernelPlace /\ kAt'.blob = b /\ kAt.blob = b + 1
  BY <1>2, <1>3 DEF FreeBlobs, KernelPlace
<1>5. /\ kBlob' \in [1 .. 3 -> KernelBlob] /\ ~kBlob'[b].has
      /\ \A n \in 1 .. 3 : n # b => kBlob'[n] = kBlob[n]
  <2>1. CASE kBlob[b].has
    <3>1. NoBlob \in KernelBlob /\ ~NoBlob.has
      BY DEF NoBlob, KernelBlob
    <3>2. kBlob' = [kBlob EXCEPT ![b] = NoBlob]
      BY <1>3, <2>1 DEF FreeBlobs
    <3> QED BY <1>2, <3>1, <3>2, BlobPut
  <2>2. CASE ~kBlob[b].has
    BY <1>2, <1>3, <2>2 DEF FreeBlobs
  <2> QED BY <2>1, <2>2
<1>6. KTypeOK'
  BY <1>0, <1>1, <1>4, <1>5 DEF KTypeOK
<1>7. ShownOrFreed'
  <2>1. PICK f \in 1 .. 4 : \A n \in 1 .. 3 : kBlob[n].has => n < kAt.blob \/ n = f
    BY <1>0 DEF ShownOrFreed
  <2>2. \A n \in 1 .. 3 : kBlob'[n].has => n < kAt'.blob \/ n = f
    BY <1>4, <1>5, <2>1
  <2>3. kShown' = {}
    BY <1>0, <1>1 DEF ShownOrFreed
  <2> QED BY <1>0, <2>2, <2>3 DEF ShownOrFreed
<1>8. Returned'
  BY <1>0, <1>1 DEF Returned, Content
<1> QED BY <1>0, <1>6, <1>7, <1>8 DEF FetchInv, BlobsInOrder, FetchedSoFar

-----------------------------------------------------------------------------
\* A call of the file protocol meets complete blobs.
LEMMA CallMeetsItems ==
  ASSUME KInv, FileCall
  PROVE  /\ \A b \in 1 .. 3 : /\ kBlob[b].data = Content(b) /\ kBlob[b].size = Len(Content(b))
                              /\ Content(b) \in Seq(Nat) /\ Len(Content(b)) \in Nat
         /\ kTotal = Len(Content(1)) + Len(Content(2)) + Len(Content(3))
         /\ \A b : Content(b)' = Content(b)
         /\ \A b, f, n : Part(b, f, n)' = Part(b, f, n)
<1>1. kPc = "installed" /\ kItems' = kItems /\ KTypeOK /\ BlobsInOrder
  BY DEF FileCall, KInv, FetchInv
<1>2. \A b : Content(b)' = Content(b)
  BY <1>1 DEF Content
<1>3. \A b \in 1 .. 3 : Content(b) \in Seq(Nat) /\ Len(Content(b)) \in Nat
  BY <1>1, ItemsOfBlobs DEF KTypeOK
<1>4. kAt.blob = 4 /\ kBlob[1].has /\ kTotal = BytesBefore(4)
  BY <1>1 DEF BlobsInOrder
<1>5. \A b \in 1 .. 3 : Sealed(b)
  BY <1>1, <1>4 DEF BlobsInOrder
<1>6. Fetched(1) = Content(1) /\ Fetched(2) = Content(2) /\ Fetched(3) = Content(3)
  <2>1. Fetched(1) # << >>
    BY <1>4, <1>5 DEF Sealed
  <2> QED BY <1>1, <2>1, WholeBlobs DEF KTypeOK
<1>7. \A b \in 1 .. 3 : Fetched(b) = Content(b)
  BY <1>6
<1>8. \A b, f, n : Part(b, f, n)' = Part(b, f, n)
  BY <1>2 DEF Part
<1> QED BY <1>2, <1>3, <1>4, <1>5, <1>6, <1>7, <1>8 DEF Sealed, BytesBefore

\* Such a call keeps the invariant when its files and its answer do.
LEMMA CallKeeps ==
  ASSUME KInv, FileCall, FilesRight', AnswersAreTheItems', LoadedWhole'
  PROVE  KInv'
<1>1. UNCHANGED <<kItems, kSel, kBlob, kAt, kPc, kRet, kTotal, kShown>>
  BY DEF FileCall
<1>2. FetchInv'
  BY <1>1, FetchUnchanged DEF KInv
<1> QED BY <1>2 DEF KInv

\* The files after one of them is set, and when none is.
LEMMA FilePut ==
  ASSUME FilesRight, NEW h \in 1 .. MaxStubFiles, NEW r \in FileType, r.type = RootDir => r.pos <= 3,
         kFiles' = [kFiles EXCEPT ![h] = r], kWant' = [kWant EXCEPT ![h] = r.pos]
  PROVE  FilesRight'
<1>1. kFiles' \in [1 .. MaxStubFiles -> FileType] /\ \A g \in 1 .. MaxStubFiles : kFiles'[g] = IF g = h THEN r ELSE kFiles[g]
  BY DEF FilesRight
<1>2. r.pos \in Nat
  BY DEF FileType
<1>3. kWant' \in [1 .. MaxStubFiles -> Nat] /\ \A g \in 1 .. MaxStubFiles : kWant'[g] = IF g = h THEN r.pos ELSE kWant[g]
  BY <1>2 DEF FilesRight
<1> QED BY <1>1, <1>3 DEF FilesRight

\* A call that changes no file.
LEMMA FilesKept ==
  ASSUME FilesRight, UNCHANGED <<kFiles, kWant>>
  PROVE  FilesRight'
  BY DEF FilesRight

\* A handle that is opened, or closed.
LEMMA FileOpened ==
  ASSUME FilesRight, NEW h \in 1 .. MaxStubFiles, NEW type \in 0 .. 4, OpensAs(h, type)
  PROVE  FilesRight'
<1>1. PICK r : r = [type |-> type, pos |-> 0]
  OBVIOUS
<1>2. r \in FileType /\ r.pos = 0 /\ r.pos <= 3
  BY <1>1 DEF FileType
<1>3. kFiles' = [kFiles EXCEPT ![h] = r] /\ kWant' = [kWant EXCEPT ![h] = r.pos]
  <2>1. kFiles' = [kFiles EXCEPT ![h] = r]
    BY <1>1 DEF OpensAs
  <2>2. kWant' = [kWant EXCEPT ![h] = 0]
    BY DEF OpensAs
  <2> QED BY <1>2, <2>1, <2>2
<1> QED BY <1>2, <1>3, FilePut

\* The answers of the calls that return no content.
LEMMA PlainAnswer ==
  ASSUME NEW call, NEW b, NEW from, NEW n, NEW data, NEW status, FileAnswers(call, b, from, n, data, status),
         \/ call \in {"volume", "open", "close", "delete", "seek", "write", "unload"}
         \/ call \in {"dir", "tell", "info", "volinfo"} /\ status # "SUCCESS"
  PROVE  AnswersAreTheItems' /\ LoadedWhole'
<1>1. kOut'.call = call /\ kOut'.status = status
  BY DEF FileAnswers
<1> QED BY <1>1 DEF AnswersAreTheItems, Answers, LoadedWhole

\* The calls that open and close.
LEMMA OpenKeeps ==
  ASSUME KInv, NEW h \in 1 .. MaxStubFiles,
         \/ StubFileSystemOpenVolume(h)
         \/ \E c \in {"close", "delete"} : StubFileClose(h, c)
         \/ \E d \in 1 .. MaxStubFiles, t \in 1 .. 4, mode \in {"r", "rw", "bad"} : StubFileOpen(d, h, t, mode)
  PROVE  KInv'
<1>0. FilesRight
  BY DEF KInv
<1>1. CASE StubFileSystemOpenVolume(h)
  <2>1. FileCall /\ (OpensAs(h, 4) \/ FilesStay)
    BY <1>1 DEF StubFileSystemOpenVolume, RootDir
  <2>2. FilesRight'
    BY <1>0, <2>1, FileOpened, FilesKept DEF FilesStay
  <2>3. AnswersAreTheItems' /\ LoadedWhole'
    BY <1>1, PlainAnswer DEF StubFileSystemOpenVolume
  <2> QED BY <2>1, <2>2, <2>3, CallKeeps
<1>2. ASSUME NEW c \in {"close", "delete"}, StubFileClose(h, c) PROVE KInv'
  <2>1. FileCall /\ OpensAs(h, 0) /\ 0 \in 0 .. 4
    BY <1>2 DEF StubFileClose
  <2>2. AnswersAreTheItems' /\ LoadedWhole'
    BY <1>2, PlainAnswer DEF StubFileClose
  <2> QED BY <1>0, <2>1, <2>2, FileOpened, CallKeeps
<1>3. ASSUME NEW d \in 1 .. MaxStubFiles, NEW t \in 1 .. 4, NEW mode \in {"r", "rw", "bad"}, StubFileOpen(d, h, t, mode) PROVE KInv'
  <2>1. FileCall /\ (OpensAs(h, t) \/ FilesStay) /\ t \in 0 .. 4
    BY <1>3 DEF StubFileOpen
  <2>2. FilesRight'
    BY <1>0, <2>1, FileOpened, FilesKept DEF FilesStay
  <2>3. AnswersAreTheItems' /\ LoadedWhole'
    <3>1. \E status : FileAnswers("open", t, 0, 0, <<>>, status)
      BY <1>3 DEF StubFileOpen
    <3> QED BY <3>1, PlainAnswer
  <2> QED BY <2>1, <2>2, <2>3, CallKeeps
<1> QED BY <1>1, <1>2, <1>3

\* An open file and its content.
LEMMA OpenFile ==
  ASSUME KInv, FileCall, NEW h \in 1 .. MaxStubFiles, ~Closed(h)
  PROVE  /\ kFiles[h] \in FileType /\ kFiles[h].type \in 1 .. 4 /\ kFiles[h].pos \in Nat /\ kWant[h] = kFiles[h].pos
         /\ IsDir(h) => kFiles[h].type = 4 /\ kFiles[h].pos <= 3
         /\ ~IsDir(h) => kFiles[h].type \in 1 .. 3
<1>1. FilesRight
  BY DEF KInv
<1>2. kFiles[h] \in FileType /\ kWant[h] = kFiles[h].pos /\ (kFiles[h].type = 4 => kFiles[h].pos <= 3)
  BY <1>1 DEF FilesRight, RootDir
<1>3. kFiles[h].type \in 0 .. 4 /\ kFiles[h].pos \in Nat
  BY <1>2 DEF FileType
<1> QED BY <1>2, <1>3 DEF Closed, IsDir, RootDir

\* The calls about a position, a size or a write.
LEMMA InfoKeeps ==
  ASSUME KInv, NEW h \in 1 .. MaxStubFiles,
         \/ StubFileGetPosition(h) \/ StubFileWrite(h)
         \/ \E c \in {"info", "volinfo"}, fits \in BOOLEAN : StubFileGetInfo(h, c, fits)
         \/ \E p \in KernelPositions : StubFileSetPosition(h, p)
  PROVE  KInv'
<1>0. FilesRight
  BY DEF KInv
<1>1. CASE StubFileGetPosition(h)
  <2>1. FileCall /\ FilesStay /\ ~Closed(h)
    BY <1>1 DEF StubFileGetPosition
  <2>2. CASE IsDir(h)
    <3>1. AnswersAreTheItems' /\ LoadedWhole'
      BY <1>1, <2>2, PlainAnswer DEF StubFileGetPosition
    <3> QED BY <1>0, <2>1, <3>1, FilesKept, CallKeeps DEF FilesStay
  <2>3. CASE ~IsDir(h)
    <3>1. FileAnswers("tell", kFiles[h].type, kWant[h], 0, <<kFiles[h].pos>>, "SUCCESS") /\ kWant[h] = kFiles[h].pos
      BY <1>1, <2>1, <2>3, OpenFile DEF StubFileGetPosition
    <3>2. AnswersAreTheItems' /\ LoadedWhole'
      BY <3>1 DEF FileAnswers, AnswersAreTheItems, Answers, LoadedWhole
    <3> QED BY <1>0, <2>1, <3>2, FilesKept, CallKeeps DEF FilesStay
  <2> QED BY <2>2, <2>3
<1>2. CASE StubFileWrite(h)
  <2>1. FileCall /\ FilesStay
    BY <1>2 DEF StubFileWrite
  <2>2. AnswersAreTheItems' /\ LoadedWhole'
    BY <1>2, PlainAnswer DEF StubFileWrite
  <2> QED BY <1>0, <2>1, <2>2, FilesKept, CallKeeps DEF FilesStay
<1>3. ASSUME NEW c \in {"info", "volinfo"}, NEW fits \in BOOLEAN, StubFileGetInfo(h, c, fits) PROVE KInv'
  <2>1. FileCall /\ FilesStay /\ ~Closed(h)
    BY <1>3 DEF StubFileGetInfo
  <2>2. PICK t \in 1 .. 4 : t = kFiles[h].type
    BY <2>1, OpenFile
  <2>3. /\ \A b \in 1 .. 3 : kBlob[b].size = Len(Content(b)) /\ Content(b)' = Content(b)
        /\ kTotal = Len(Content(1)') + Len(Content(2)') + Len(Content(3)')
    BY <2>1, CallMeetsItems
  <2>4. ConvertKernelBlobTypeToFileInfo(t) = IF t = RootDir THEN 3 ELSE Len(Content(t)')
    <3>1. CASE t = 4
      BY <3>1 DEF ConvertKernelBlobTypeToFileInfo, RootDir
    <3>2. CASE t \in 1 .. 3
      <4>1. t # RootDir /\ kBlob[t].size = Len(Content(t)')
        BY <2>3, <3>2 DEF RootDir
      <4> QED BY <4>1 DEF ConvertKernelBlobTypeToFileInfo
    <3> QED BY <3>1, <3>2
  <2>5. AnswersAreTheItems' /\ LoadedWhole'
    <3>1. CASE ~fits
      BY <1>3, <3>1, PlainAnswer DEF StubFileGetInfo
    <3>2. CASE fits /\ c = "volinfo"
      <4>1. kOut'.call = "volinfo" /\ kOut'.data = <<kTotal>>
        BY <1>3, <3>2 DEF StubFileGetInfo, FileAnswers
      <4> QED BY <2>3, <4>1 DEF AnswersAreTheItems, Answers, LoadedWhole
    <3>3. CASE fits /\ c = "info"
      <4>1. kOut'.call = "info" /\ kOut'.blob = t /\ kOut'.data = <<ConvertKernelBlobTypeToFileInfo(t)>>
        BY <1>3, <2>2, <3>3 DEF StubFileGetInfo, FileAnswers
      <4> QED BY <2>4, <4>1 DEF AnswersAreTheItems, Answers, LoadedWhole
    <3> QED BY <3>1, <3>2, <3>3
  <2> QED BY <1>0, <2>1, <2>5, FilesKept, CallKeeps DEF FilesStay
<1>4. ASSUME NEW p \in KernelPositions, StubFileSetPosition(h, p) PROVE KInv'
  <2>1. FileCall /\ ~Closed(h)
    BY <1>4 DEF StubFileSetPosition
  <2>2. AnswersAreTheItems' /\ LoadedWhole'
    BY <1>4, PlainAnswer DEF StubFileSetPosition
  <2>3. CASE FilesStay
    BY <1>0, <2>1, <2>2, <2>3, FilesKept, CallKeeps DEF FilesStay
  <2>4. CASE ~FilesStay
    <3> DEFINE q == IF p = MaxPosition /\ ~IsDir(h) THEN kBlob[kFiles[h].type].size ELSE p
               w == IF p = MaxPosition /\ ~IsDir(h) THEN Len(Content(kFiles[h].type)) ELSE p
    <3>1. kFiles' = [kFiles EXCEPT ![h].pos = q] /\ kWant' = [kWant EXCEPT ![h] = w] /\ ~(IsDir(h) /\ p # 0)
      BY <1>4, <2>4 DEF StubFileSetPosition
    <3>2. p \in Nat
      BY KernelAssumption
    <3>3. q \in Nat /\ w = q /\ (kFiles[h].type = RootDir => q = 0)
      BY <2>1, <3>1, <3>2, OpenFile, CallMeetsItems DEF IsDir
    <3> HIDE DEF q, w
    <3>4. PICK r : r = [kFiles[h] EXCEPT !.pos = q]
      OBVIOUS
    <3>5. r \in FileType /\ r.type = kFiles[h].type /\ r.pos = q
      BY <2>1, <3>3, <3>4, OpenFile DEF FileType
    <3>6. kFiles' = [kFiles EXCEPT ![h] = r] /\ kWant' = [kWant EXCEPT ![h] = r.pos] /\ (r.type = RootDir => r.pos <= 3)
      BY <3>1, <3>3, <3>4, <3>5
    <3> QED BY <1>0, <2>1, <2>2, <3>5, <3>6, FilePut, CallKeeps
  <2> QED BY <2>3, <2>4
<1> QED BY <1>1, <1>2, <1>3, <1>4

\* What a blob gives from a position that is in it.
LEMMA BlobPart ==
  ASSUME KInv, FileCall, NEW b \in 1 .. 3, NEW pos \in Nat, NEW n \in Nat, pos <= Len(Content(b))
  PROVE  ReadBlob(b, pos, n) = Part(b, pos, n) /\ Len(ReadBlob(b, pos, n)) \in Nat
<1>1. PICK c \in Seq(Nat) : c = Content(b) /\ kBlob[b].data = c /\ kBlob[b].size = Len(c) /\ Len(c) \in Nat
  BY CallMeetsItems
<1>2. PICK len \in Nat : len = Len(c)
  BY <1>1
<1>3. pos + (IF n > len - pos THEN len - pos ELSE n) = IF pos + n > len THEN len ELSE pos + n
  BY <1>1, <1>2
<1>4. ReadBlob(b, pos, n) = Part(b, pos, n)
  BY <1>1, <1>2, <1>3 DEF ReadBlob, Part
<1>5. PICK to \in Nat : to = (IF pos + n > len THEN len ELSE pos + n) /\ to <= len
  BY <1>2
<1>6. Part(b, pos, n) = SubSeq(c, pos + 1, to)
  BY <1>1, <1>2, <1>5 DEF Part
<1>7. SubSeq(c, pos + 1, to) \in Seq(Nat)
  BY <1>2, <1>5, SubSeqProperties
<1>8. Len(SubSeq(c, pos + 1, to)) \in Nat
  BY <1>7, LenProperties
<1> QED BY <1>4, <1>6, <1>8

\* StubFileRead answers with the bytes at the position, or the next entry of the directory.
LEMMA ReadKeeps ==
  ASSUME KInv, NEW h \in 1 .. MaxStubFiles, NEW n \in {0, 1, 3}, NEW fits \in BOOLEAN, StubFileRead(h, n, fits)
  PROVE  KInv'
<1>1. FileCall /\ ~Closed(h) /\ FilesRight
  BY DEF StubFileRead, KInv
<1>2. /\ \A b \in 1 .. 3 : kBlob[b].size = Len(Content(b)) /\ Content(b)' = Content(b) /\ Len(Content(b)) \in Nat
      /\ \A b, f, m : Part(b, f, m)' = Part(b, f, m)
  BY <1>1, CallMeetsItems
<1>t. PICK t : t = kFiles[h].type
  OBVIOUS
<1>p. PICK p : p = kFiles[h].pos
  OBVIOUS
<1>3. /\ t \in 1 .. 4 /\ p \in Nat /\ kFiles[h] \in FileType /\ kWant[h] = p
      /\ (IsDir(h) => t = 4 /\ p <= 3) /\ (~IsDir(h) => t \in 1 .. 3)
  BY <1>1, <1>t, <1>p, OpenFile
\* A read that succeeds and moves on.
<1>m. ASSUME NEW data, NEW call, NEW blob, FileAnswers(call, blob, p, n, data, "SUCCESS"), ReadMoves(h, Len(data)),
             Len(data) \in Nat, t = RootDir => p + Len(data) <= 3, AnswersAreTheItems', LoadedWhole'
      PROVE  KInv'
  <2>1. PICK r : r = [kFiles[h] EXCEPT !.pos = p + Len(data)]
    OBVIOUS
  <2>2. r \in FileType /\ r.type = t /\ r.pos = p + Len(data)
    BY <1>3, <1>m, <1>t, <2>1 DEF FileType
  <2>3. kFiles' = [kFiles EXCEPT ![h] = r] /\ kWant' = [kWant EXCEPT ![h] = r.pos]
    <3>1. kOut'.data = data
      BY <1>m DEF FileAnswers
    <3>2. kFiles' = [kFiles EXCEPT ![h].pos = @ + Len(data)] /\ kWant' = [kWant EXCEPT ![h] = @ + Len(data)]
      BY <1>m, <3>1 DEF ReadMoves
    <3> QED BY <1>3, <1>p, <2>1, <2>2, <3>2
  <2> QED BY <1>1, <1>m, <2>2, <2>3, FilePut, CallKeeps
<1>4. CASE IsDir(h)
  <2>1. CASE FileAnswers("dir", RootDir, p, n, <<>>, "SUCCESS") /\ p = 3 /\ FilesStay
    <3>1. AnswersAreTheItems' /\ LoadedWhole'
      <4>1. kOut'.call = "dir" /\ kOut'.from = 3 /\ kOut'.data = <<>> /\ ~(3 < 3)
        BY <2>1 DEF FileAnswers
      <4> QED BY <4>1 DEF AnswersAreTheItems, Answers, LoadedWhole
    <3> QED BY <1>1, <2>1, <3>1, FilesKept, CallKeeps DEF FilesStay
  <2>2. CASE FileAnswers("dir", RootDir, p, n, <<>>, "BUFFER_TOO_SMALL") /\ FilesStay
    BY <1>1, <2>2, PlainAnswer, FilesKept, CallKeeps DEF FilesStay
  <2>3. CASE /\ FileAnswers("dir", RootDir, p, n, <<ConvertKernelBlobTypeToFileInfo(p + 1)>>, "SUCCESS") /\ p # 3
             /\ ReadMoves(h, 1)
    <3>1. p + 1 \in 1 .. 3 /\ p + 1 # RootDir /\ p < 3
      BY <1>3, <1>4, <2>3 DEF RootDir
    <3>2. ConvertKernelBlobTypeToFileInfo(p + 1) = Len(Content(p + 1)')
      BY <1>2, <3>1 DEF ConvertKernelBlobTypeToFileInfo
    <3>3. AnswersAreTheItems' /\ LoadedWhole'
      <4>1. kOut'.call = "dir" /\ kOut'.from = p /\ kOut'.data = <<ConvertKernelBlobTypeToFileInfo(p + 1)>>
        BY <2>3 DEF FileAnswers
      <4> QED BY <3>1, <3>2, <4>1 DEF AnswersAreTheItems, Answers, LoadedWhole
    <3>4. PICK data : data = <<ConvertKernelBlobTypeToFileInfo(p + 1)>>
      OBVIOUS
    <3>5. Len(data) = 1
      BY <3>4
    <3>6. FileAnswers("dir", RootDir, p, n, data, "SUCCESS") /\ ReadMoves(h, Len(data))
      BY <2>3, <3>4, <3>5
    <3>7. Len(data) \in Nat /\ p + Len(data) <= 3
      BY <1>3, <3>1, <3>5
    <3> QED BY <1>m, <3>3, <3>6, <3>7
  <2> QED BY <1>4, <1>3, <1>p, <2>1, <2>2, <2>3 DEF StubFileRead
<1>5. CASE ~IsDir(h)
  <2>1. t \in 1 .. 3 /\ t # RootDir /\ Len(Content(t)) \in Nat
    BY <1>2, <1>3, <1>5 DEF RootDir
  <2>2. CASE p > kBlob[t].size
    <3>1. FileAnswers("read", t, p, n, <<>>, "DEVICE_ERROR") /\ FilesStay
      BY <1>5, <1>3, <1>p, <1>t, <2>2 DEF StubFileRead
    <3>2. AnswersAreTheItems' /\ LoadedWhole'
      <4>1. kOut'.call = "read" /\ kOut'.status = "DEVICE_ERROR" /\ kOut'.blob = t /\ kOut'.from = p
        BY <3>1 DEF FileAnswers
      <4>2. p > Len(Content(t)')
        BY <1>2, <2>1, <2>2
      <4> QED BY <4>1, <4>2 DEF AnswersAreTheItems, Answers, LoadedWhole
    <3> QED BY <1>1, <3>1, <3>2, FilesKept, CallKeeps DEF FilesStay
  <2>3. CASE ~(p > kBlob[t].size)
    <3>1. PICK data : data = ReadBlob(t, p, n)
      OBVIOUS
    <3>2. FileAnswers("read", t, p, n, data, "SUCCESS") /\ ReadMoves(h, Len(data))
      BY <1>3, <1>5, <1>p, <1>t, <2>3, <3>1 DEF StubFileRead
    <3>3. p <= Len(Content(t)) /\ n \in Nat
      BY <1>2, <1>3, <2>1, <2>3
    <3>4. data = Part(t, p, n) /\ Len(data) \in Nat
      BY <1>1, <1>3, <2>1, <3>1, <3>3, BlobPart
    <3>5. AnswersAreTheItems' /\ LoadedWhole'
      <4>1. /\ kOut'.call = "read" /\ kOut'.blob = t /\ kOut'.from = p /\ kOut'.n = n /\ kOut'.data = data
            /\ kOut'.status = "SUCCESS"
        BY <3>2 DEF FileAnswers
      <4>2. Content(t)' = Content(t) /\ data = Part(t, p, n)'
        BY <1>2, <2>1, <3>4
      <4>3. (kOut.from <= Len(Content(kOut.blob)) /\ kOut.data = Part(kOut.blob, kOut.from, kOut.n))'
        <5>1. Content(kOut.blob)' = Content(t)
          BY <1>1, <4>1 DEF Content, FileCall
        <5>2. Part(kOut.blob, kOut.from, kOut.n)' = Part(t, p, n)
          BY <4>1, <5>1 DEF Part
        <5> QED BY <3>3, <3>4, <4>1, <5>1, <5>2
      <4> QED BY <4>1, <4>3 DEF AnswersAreTheItems, Answers, LoadedWhole
    <3> QED BY <1>m, <2>1, <3>2, <3>4, <3>5
  <2> QED BY <2>2, <2>3
<1> QED BY <1>4, <1>5

\* InitrdLoadFile2 answers with the initrd, whole.
LEMMA InitrdKeeps ==
  ASSUME KInv, NEW n \in 0 .. 4, InitrdLoadFile2(n)
  PROVE  KInv'
<1>1. FileCall /\ FilesStay /\ FilesRight
  BY DEF InitrdLoadFile2, KInv
<1>2. kBlob[2].data = Content(2) /\ kBlob[2].size = Len(Content(2)) /\ Content(2)' = Content(2)
  BY <1>1, CallMeetsItems
<1>3. AnswersAreTheItems' /\ LoadedWhole'
  <2>1. kOut'.call = "initrd" /\ kOut'.n = n
    BY DEF InitrdLoadFile2, FileAnswers
  <2>2. IF n < Len(Content(2)') THEN kOut'.status = "BUFFER_TOO_SMALL" ELSE kOut'.data = Content(2)'
    BY <1>2 DEF InitrdLoadFile2, FileAnswers
  <2> QED BY <2>1, <2>2 DEF AnswersAreTheItems, Answers, LoadedWhole
<1> QED BY <1>1, <1>3, FilesKept, CallKeeps DEF FilesStay

\* The length of the load options is that of their text and its terminator, in UCS-2.
LEMMA LoadOptions ==
  ASSUME NEW c \in Nat, NEW i \in Nat, NEW text, text = (IF c = 0 THEN 0 ELSE c - 1) + (IF i > 0 THEN 14 ELSE 0),
         2 * (text + 1) < KernelSizes
  PROVE  LoadOptionsSize(c, i) = IF text = 0 THEN 0 ELSE 2 * (text + 1)
<1>1. PICK m \in Nat : m = (IF c = 0 THEN 0 ELSE (c - 1) * 2) + (IF i > 0 THEN 28 ELSE 0)
  OBVIOUS
<1>2. text \in Nat /\ m = 2 * text /\ m < KernelSizes /\ m + 2 < KernelSizes /\ m + 2 = 2 * (text + 1)
  BY <1>1, KernelAssumption
<1>3. m % KernelSizes = m /\ (m + 2) % KernelSizes = m + 2
  BY <1>2, SizeWraps
<1> QED BY <1>1, <1>2, <1>3 DEF LoadOptionsSize

\* QemuLoadKernelImage sizes the load options for the command line and the initrd there are, and
\* leaves no image after a failure.
LEMMA LoadKeeps ==
  ASSUME KInv, QemuLoadKernelImage \/ QemuUnloadKernelImage
  PROVE  KInv'
<1>1. FileCall /\ UNCHANGED <<kFiles, kWant>> /\ FilesRight
  BY DEF QemuLoadKernelImage, QemuUnloadKernelImage, KInv
<1>2. CASE QemuUnloadKernelImage
  <2>1. AnswersAreTheItems' /\ LoadedWhole'
    BY <1>2, PlainAnswer DEF QemuUnloadKernelImage
  <2> QED BY <1>1, <2>1, FilesKept, CallKeeps
<1>3. CASE QemuLoadKernelImage
  <2>1. PICK cmd : cmd = ReadBlob(3, 0, ConvertKernelBlobTypeToFileInfo(3))
    OBVIOUS
  <2>2. /\ kBlob[3].size = Len(Content(3)) /\ kBlob[2].size = Len(Content(2))
        /\ Content(3) \in Seq(Nat) /\ Len(Content(3)) \in Nat /\ Content(2) \in Seq(Nat) /\ Len(Content(2)) \in Nat
        /\ Content(2)' = Content(2) /\ Content(3)' = Content(3)
    BY <1>1, CallMeetsItems
  <2>3. cmd = Content(3)
    <3>1. PICK c \in Seq(Nat) : c = Content(3) /\ Len(c) \in Nat
      BY <2>2
    <3>2. cmd = ReadBlob(3, 0, Len(c))
      BY <2>1, <2>2, <3>1 DEF ConvertKernelBlobTypeToFileInfo, RootDir
    <3>3. cmd = Part(3, 0, Len(c))
      <4>1. 0 \in Nat /\ 3 \in 1 .. 3 /\ 0 <= Len(Content(3)) /\ Len(c) \in Nat
        BY <3>1
      <4> QED BY <1>1, <3>2, <4>1, BlobPart
    <3>4. cmd = SubSeq(c, 1, Len(c))
      <4>1. 0 + 1 = 1 /\ 0 + Len(c) = Len(c) /\ ~(Len(c) > Len(c))
        BY <3>1
      <4> QED BY <3>1, <3>3, <4>1 DEF Part
    <3> QED BY <3>1, <3>4, SubSeqFull
  <2>4. kOut'.call = "load"
    BY <1>3 DEF QemuLoadKernelImage, FileAnswers
  <2>5. CASE kImage' = NoImage /\ kOut'.status # "SUCCESS"
    BY <1>1, <2>4, <2>5, FilesKept, CallKeeps DEF AnswersAreTheItems, Answers, LoadedWhole, NoImage
  <2>6. CASE /\ kOut'.status = "SUCCESS" /\ kOut'.data = cmd
             /\ kImage' = [loaded |-> TRUE, options |-> LoadOptionsSize(Len(cmd), ConvertKernelBlobTypeToFileInfo(2))]
    <3>1. PICK c \in Nat : c = Len(Content(3))
      BY <2>2
    <3>2. PICK i \in Nat : i = Len(Content(2))
      BY <2>2
    <3>3. kImage'.options = LoadOptionsSize(c, i) /\ kImage'.loaded
      BY <2>2, <2>3, <2>6, <3>1, <3>2 DEF ConvertKernelBlobTypeToFileInfo, RootDir
    <3>4. PICK text : text = (IF c = 0 THEN 0 ELSE c - 1) + (IF i > 0 THEN 14 ELSE 0)
      OBVIOUS
    <3>5. 2 * (text + 1) < KernelSizes => kImage'.options = IF text = 0 THEN 0 ELSE 2 * (text + 1)
      BY <3>3, <3>4, LoadOptions
    <3>6. text = (IF Content(3)' = <<>> THEN 0 ELSE Len(Content(3)') - 1) + (IF Content(2)' = <<>> THEN 0 ELSE 14)
      <4>1. (Content(3) = <<>> <=> c = 0) /\ (Content(2) = <<>> <=> ~(i > 0))
        BY <2>2, <3>1, <3>2
      <4> QED BY <2>2, <3>1, <3>4, <4>1
    <3>7. LoadedWhole'
      BY <2>2, <2>3, <2>6, <3>3, <3>5, <3>6 DEF LoadedWhole
    <3>8. AnswersAreTheItems'
      BY <2>4 DEF AnswersAreTheItems, Answers
    <3> QED BY <1>1, <3>7, <3>8, FilesKept, CallKeeps
  <2> QED BY <1>3, <2>1, <2>5, <2>6 DEF QemuLoadKernelImage, FileAnswers
<1> QED BY <1>2, <1>3

\* The files that QemuKernelLoaderFsDxe shows are the fw_cfg items, whatever the items, the size
\* of a chunk and the calls: every blob is complete before anything is shown; from where its caller
\* set it, a file reads as the rest of its item, and sizes, positions and the total agree; the load
\* options fit their text; and a start that failed shows nothing and, once FreeBlobs is through,
\* keeps at most the blob that was refused. A kernel whose size wraps is never shown.
THEOREM KernelFiles == KSpec => []KernelFilesAreTheItems
<1>1. KInv /\ [KNext]_kVars => KInv'
  <2> SUFFICES ASSUME KInv, [KNext]_kVars PROVE KInv'
    OBVIOUS
  <2>0. FetchInv
    BY DEF KInv
  <2>r. CASE EntryRefused
    <3>1. UNCHANGED kItems /\ FileCallsUntouched
      BY <2>r DEF EntryRefused
    <3> QED BY <2>0, <2>r, <3>1, RefusedKeeps, StartLeavesCalls
  <2>1. CASE FetchSizes
    <3>1. UNCHANGED kItems /\ FileCallsUntouched
      BY <2>1 DEF FetchSizes
    <3> QED BY <2>0, <2>1, <3>1, FetchSizesKeeps, StartLeavesCalls
  <2>2. CASE FetchChunk
    <3>1. UNCHANGED kItems /\ FileCallsUntouched
      BY <2>2 DEF FetchChunk
    <3> QED BY <2>0, <2>2, <3>1, FetchChunkKeeps, StartLeavesCalls
  <2>3. CASE VerifyBlob
    <3>1. UNCHANGED kItems /\ FileCallsUntouched
      BY <2>3 DEF VerifyBlob
    <3> QED BY <2>0, <2>3, <3>1, VerifyBlobKeeps, StartLeavesCalls
  <2>4. CASE InstallKernelFs
    <3>1. UNCHANGED kItems /\ FileCallsUntouched
      BY <2>4 DEF InstallKernelFs
    <3> QED BY <2>0, <2>4, <3>1, InstallKeeps, StartLeavesCalls
  <2>5. CASE FreeBlobs
    <3>1. UNCHANGED kItems /\ FileCallsUntouched
      BY <2>5 DEF FreeBlobs
    <3> QED BY <2>0, <2>5, <3>1, FreeBlobsKeeps, StartLeavesCalls
  <2>6. CASE UNCHANGED kVars
    <3>1. UNCHANGED <<kItems, kSel, kBlob, kAt, kPc, kRet, kTotal, kShown>> /\ FileCallsUntouched
      BY <2>6 DEF kVars, FileCallsUntouched
    <3> QED BY <2>0, <3>1, FetchUnchanged, StartLeavesCalls
  <2> QED BY <2>r, <2>1, <2>2, <2>3, <2>4, <2>5, <2>6, LoadKeeps, InitrdKeeps, OpenKeeps, InfoKeeps, ReadKeeps DEF KNext
<1>2. KInv => KernelFilesAreTheItems
  <2> SUFFICES ASSUME KInv PROVE KernelFilesAreTheItems
    OBVIOUS
  <2>0. KTypeOK /\ BlobsInOrder /\ ShownOrFreed /\ Returned /\ AnswersAreTheItems /\ LoadedWhole
    BY DEF KInv, FetchInv
  <2>1. \A b \in 1 .. 3 : Content(b) \in Seq(Nat) /\ Len(Content(b)) \in Nat
    BY <2>0, ItemsOfBlobs DEF KTypeOK
  <2>2. kPc \in {"install", "installed"} =>
          /\ \A b \in 1 .. 3 : kBlob[b].data = Content(b) /\ kBlob[b].size = Len(Content(b))
          /\ kTotal = Len(Content(1)) + Len(Content(2)) + Len(Content(3)) /\ Len(Content(1)) < KernelSizes
    <3> SUFFICES ASSUME kPc \in {"install", "installed"}
                 PROVE  /\ \A b \in 1 .. 3 : kBlob[b].data = Content(b) /\ kBlob[b].size = Len(Content(b))
                        /\ kTotal = Len(Content(1)) + Len(Content(2)) + Len(Content(3)) /\ Len(Content(1)) < KernelSizes
      OBVIOUS
    <3>1. kAt.blob = 4 /\ kBlob[1].has /\ kTotal = BytesBefore(4) /\ \A b \in 1 .. 3 : b < 4 => Sealed(b)
      BY <2>0 DEF BlobsInOrder
    <3>2. \A b \in 1 .. 3 : Sealed(b)
      BY <3>1
    <3>3. Fetched(1) # << >>
      BY <3>1, <3>2 DEF Sealed
    <3>4. Fetched(1) = Content(1) /\ Fetched(2) = Content(2) /\ Fetched(3) = Content(3) /\ Len(Content(1)) < KernelSizes
      BY <2>0, <3>3, WholeBlobs DEF KTypeOK
    <3>5. \A b \in 1 .. 3 : Fetched(b) = Content(b)
      BY <3>4
    <3> QED BY <2>1, <3>1, <3>2, <3>4, <3>5 DEF BytesBefore, Sealed
  <2>3. kPc = "installed" => kShown = {"fs"} \cup (IF Content(2) = <<>> THEN {} ELSE {"initrd"}) /\ kRet = "SUCCESS"
    <3>1. Len(Fetched(2)) > 0 <=> Content(2) # <<>>
      BY <2>0, <2>1, WholeBlobs DEF KTypeOK
    <3> QED BY <2>0, <3>1 DEF ShownOrFreed, Returned
  <2>4. kPc = "failed" => /\ kAt.blob = 1 => Cardinality({b \in 1 .. 3 : kBlob[b].has}) <= 1
                          /\ kRet = "error" \/ Content(2) # <<>>
    <3> SUFFICES ASSUME kPc = "failed", kAt.blob = 1
                 PROVE  Cardinality({b \in 1 .. 3 : kBlob[b].has}) <= 1
      BY <2>0 DEF Returned
    <3>1. PICK f \in 1 .. 4 : \A b \in 1 .. 3 : kBlob[b].has => b < 1 \/ b = f
      BY <2>0 DEF ShownOrFreed
    <3>2. {b \in 1 .. 3 : kBlob[b].has} \subseteq {f}
      BY <3>1
    <3>3. IsFiniteSet({f}) /\ Cardinality({f}) = 1
      BY FS_Singleton
    <3>4. Cardinality({b \in 1 .. 3 : kBlob[b].has}) <= Cardinality({f})
      BY <3>2, <3>3, FS_Subset
    <3> QED BY <3>3, <3>4
  <2>5. (kPc # "installed" => kShown = {}) /\ (kPc = "overrun" => Len(Content(1)) >= KernelSizes)
    BY <2>0 DEF ShownOrFreed, Returned
  <2> QED BY <2>0, <2>2, <2>3, <2>4, <2>5 DEF KernelFilesAreTheItems
<1> QED BY KInitEstablishes, <1>1, <1>2, PTL DEF KSpec

-----------------------------------------------------------------------------
(* LoadLinux.                                                              *)

\* Entries of the table, and the descriptors that get into it.
E820Entries == [type : Types, addr : Nat, size : Nat]
Descriptors == [type : STRING, start : Nat, pages : Nat]
Known(d) == d.pages > 0 /\ E820Type(d.type) # "none"
DescPages(d) == {p \in d.start .. d.start + d.pages : p < d.start + d.pages}

\* A table describes the first n descriptors of a memory map: nothing else, all of them, and no
\* page twice.
OnlyThese(table, map, n) ==
  \A i \in DOMAIN table : \A p \in E820Pages(table[i]) :
    \E k \in 1 .. n : p \in DescPages(map[k]) /\ E820Type(map[k].type) = table[i].type
AllOfThese(table, map, n) ==
  \A k \in 1 .. n : \E i \in DOMAIN table :
    table[i].type = E820Type(map[k].type) /\ DescPages(map[k]) \subseteq E820Pages(table[i])
NoPageTwice(table) ==
  \A i, j \in DOMAIN table : i # j => E820Pages(table[i]) \cap E820Pages(table[j]) = {}
Describes(table, map, n) ==
  OnlyThese(table, map, n) /\ AllOfThese(table, map, n) /\ NoPageTwice(table)

LTypeOK ==
  /\ lFree \in LinuxFree /\ lHdr.align \in KernelAligns /\ lHdr.ramdiskMax = 896 /\ lMap \in LinuxMaps
  /\ lIndex \in 0 .. Len(lMap) /\ lDesc \in 1 .. lIndex + 1
  /\ lE820 \in Seq(E820Entries) /\ Len(lE820) <= E820Max /\ lLastEnd \in Nat

\* What the header points at.
PointersReal ==
  /\ lPtr.cmdline = lReal.cmdline /\ lPtr.initrd = lReal.initrd
  /\ lHdr.align <= 4 => lPtr.kernel = lReal.kernel

ScreenFound == lPc = "map" => lScreen[1] = MaskOf(<<lScreen[2], lScreen[3]>>)

\* The descriptor looked at is the next one, until one is passed by: then it stays.
Walked ==
  /\ \A k \in 1 .. lDesc - 1 : Known(lMap[k])
  /\ lDesc # lIndex + 1 => ~Known(lMap[lDesc])

TableEnds == lE820 # << >> => LastE820.addr + LastE820.size = lLastEnd

WalkEnds == lPc = "exit" => lIndex = Len(lMap) \/ Len(lE820) = E820Max

\* The inductive invariant.
LInv ==
  /\ LTypeOK /\ PointersReal /\ ScreenFound /\ Walked /\ TableEnds /\ WalkEnds
  /\ Describes(lE820, lMap, lDesc - 1)

-----------------------------------------------------------------------------
\* What \div gives.
LEMMA Quotient ==
  ASSUME NEW q \in Nat, NEW b \in Nat \ {0}, NEW r \in 0 .. b - 1
  PROVE  (q * b + r) \div b = q
<1>1. PICK x \in Nat : x = q * b + r
  OBVIOUS
<1>2. PICK y \in Nat : y = x \div b
  OBVIOUS
<1>3. y * b <= x /\ x < y * b + b
  BY <1>2
<1>4. \A m, n \in Nat : m < n => (m + 1) * b <= n * b
  OBVIOUS
<1>5. \A m \in Nat : (m + 1) * b = m * b + b
  OBVIOUS
<1>6. ~(y < q) /\ ~(q < y)
  BY <1>1, <1>3, <1>4, <1>5
<1> QED
  BY <1>1, <1>2, <1>6

\* The bits of a run of ones.
LEMMA BitsOfRun ==
  ASSUME NEW pos \in Nat, NEW size \in Nat, NEW k \in Nat, NEW mask, mask = MaskOf(<<pos, size>>)
  PROVE  /\ mask \in Nat
         /\ (mask \div Pow2[k]) % 2 = IF pos <= k /\ k < pos + size THEN 1 ELSE 0
<1>1. Pow2[size] \in Nat /\ Pow2[size] > 0 /\ Pow2[pos] \in Nat /\ Pow2[pos] > 0 /\ Pow2[k] \in Nat /\ Pow2[k] > 0
  BY Pow2Positive
<1>2. PICK ones \in Nat : ones = Pow2[size] - 1
  BY <1>1
<1>3. mask = ones * Pow2[pos]
  BY <1>2 DEF MaskOf
<1>4. mask \in Nat
  BY <1>1, <1>3
<1>5. CASE k < pos
  <2>1. PICK d \in Nat : pos = (d + 1) + k
    <3>1. pos - k - 1 \in Nat /\ pos = ((pos - k - 1) + 1) + k
      BY <1>5
    <3> QED BY <3>1
  <2>2. Pow2[pos] = (2 * Pow2[d]) * Pow2[k] /\ Pow2[d] \in Nat
    <3>1. Pow2[pos] = Pow2[d + 1] * Pow2[k]
      BY <2>1, Pow2Add
    <3> QED BY <3>1, Pow2Def
  <2>3. PICK q \in Nat : q = ones * Pow2[d]
    BY <2>2
  <2>4. mask = (2 * q) * Pow2[k]
    <3>1. \A a, b, c \in Nat : a * ((2 * b) * c) = (2 * (a * b)) * c
      OBVIOUS
    <3> QED BY <1>1, <1>3, <2>2, <2>3, <3>1
  <2>5. mask \div Pow2[k] = 2 * q
    <3>1. PICK b \in Nat \ {0} : b = Pow2[k]
      BY <1>1
    <3>2. 0 \in 0 .. b - 1 /\ 2 * q \in Nat
      OBVIOUS
    <3>3. ((2 * q) * b + 0) \div b = 2 * q
      BY <3>2, Quotient
    <3>4. mask = (2 * q) * b + 0
      BY <2>4, <3>1
    <3> QED BY <3>1, <3>3, <3>4
  <2>6. (2 * q) % 2 = 0
    OBVIOUS
  <2> QED BY <1>4, <1>5, <2>5, <2>6
<1>6. CASE pos <= k /\ k < pos + size
  <2>1. PICK j \in Nat, d \in Nat : k = j + pos /\ size = (d + 1) + j
    <3>1. k - pos \in Nat /\ size - (k - pos) - 1 \in Nat /\ k = (k - pos) + pos
          /\ size = ((size - (k - pos) - 1) + 1) + (k - pos)
      BY <1>6
    <3> QED BY <3>1
  <2>2. Pow2[size] = (2 * Pow2[d]) * Pow2[j] /\ Pow2[d] \in Nat /\ Pow2[d] > 0 /\ Pow2[j] \in Nat /\ Pow2[j] > 0
    <3>1. Pow2[size] = Pow2[d + 1] * Pow2[j]
      BY <2>1, Pow2Add
    <3>2. Pow2[d] > 0 /\ Pow2[j] > 0
      BY Pow2Positive
    <3> QED BY <3>1, <3>2, Pow2Def
  <2>3. Pow2[k] = Pow2[j] * Pow2[pos]
    BY <2>1, Pow2Add
  <2>4. PICK a \in Nat, c \in Nat, e \in Nat : a = Pow2[d] - 1 /\ c = Pow2[j] - 1 /\ e = Pow2[pos]
    BY <1>1, <2>2
  <2>5. ones = (2 * a + 1) * (c + 1) + c
    <3>1. ones = (2 * (a + 1)) * (c + 1) - 1
      BY <1>2, <2>2, <2>4
    <3>2. (2 * (a + 1)) * (c + 1) - 1 = (2 * a + 1) * (c + 1) + c
      OBVIOUS
    <3> QED BY <3>1, <3>2
  <2>6. PICK b \in Nat \ {0} : b = Pow2[k]
    BY <1>1
  <2>7. b = (c + 1) * e
    <3>1. Pow2[j] = c + 1
      BY <2>2, <2>4
    <3> QED BY <2>3, <2>4, <2>6, <3>1
  <2>8. mask = (2 * a + 1) * b + c * e
    <3>1. mask = ((2 * a + 1) * (c + 1) + c) * e
      BY <1>3, <2>4, <2>5
    <3>2. ((2 * a + 1) * (c + 1) + c) * e = (2 * a + 1) * ((c + 1) * e) + c * e
      OBVIOUS
    <3> QED BY <3>1, <3>2, <2>7
  <2>9. c * e \in 0 .. b - 1
    <3>1. (c + 1) * e = c * e + e /\ c * e \in Nat
      OBVIOUS
    <3>2. e > 0
      BY <1>1, <2>4
    <3> QED BY <2>7, <3>1, <3>2
  <2>10. mask \div b = 2 * a + 1
    <3>1. PICK r \in 0 .. b - 1 : r = c * e
      BY <2>9
    <3>2. 2 * a + 1 \in Nat
      OBVIOUS
    <3>3. ((2 * a + 1) * b + r) \div b = 2 * a + 1
      BY <3>2, Quotient
    <3> QED BY <2>8, <3>1, <3>3
  <2>11. (2 * a + 1) % 2 = 1
    OBVIOUS
  <2> QED BY <1>4, <1>6, <2>6, <2>10, <2>11
<1>7. CASE pos + size <= k
  <2>1. PICK b \in Nat \ {0} : b = Pow2[k]
    BY <1>1
  <2>2. mask < b
    <3>1. Pow2[size + pos] = Pow2[size] * Pow2[pos]
      BY Pow2Add
    <3>2. size + pos \in Nat /\ size + pos <= k
      BY <1>7
    <3>3. Pow2[size + pos] <= Pow2[k] /\ Pow2[size + pos] \in Nat
      BY <3>2, Pow2Grows, Pow2Def
    <3>4. \A a, e \in Nat : e > 0 => a * e < (a + 1) * e
      OBVIOUS
    <3>5. ones * Pow2[pos] < (ones + 1) * Pow2[pos]
      BY <1>1, <3>4
    <3>6. Pow2[size] = ones + 1
      BY <1>1, <1>2
    <3> QED BY <1>1, <1>3, <2>1, <3>1, <3>3, <3>5, <3>6
  <2>3. (0 * b + mask) \div b = 0
    <3>1. mask \in 0 .. b - 1
      BY <1>4, <2>2
    <3> QED BY <3>1, Quotient
  <2>4. 0 * b + mask = mask
    BY <1>4
  <2> QED BY <1>4, <1>7, <2>1, <2>3, <2>4
<1>8. k < pos \/ (pos <= k /\ k < pos + size) \/ pos + size <= k
  OBVIOUS
<1> QED
  BY <1>5, <1>6, <1>7, <1>8

\* FindBits finds the position and the size of the run.
LEMMA FindBitsFindsRun ==
  ASSUME NEW run \in LinuxMasks
  PROVE  MaskOf(run) = MaskOf(FindBits(MaskOf(run))) /\ FindBits(MaskOf(run)) \in Nat \X Nat
<1>1. PICK pos \in Nat, size \in Nat : run = <<pos, size>>
  <2>1. LinuxMasks \subseteq Nat \X Nat
    BY LinuxAssumption, Zenon
  <2> QED BY <2>1
<1>2. PICK mask : mask = MaskOf(<<pos, size>>)
  OBVIOUS
<1> DEFINE bit(k) == (mask \div Pow2[k]) % 2
<1>3. mask \in Nat
  BY <1>2, BitsOfRun
<1>4. \A k \in Nat : bit(k) = IF pos <= k /\ k < pos + size THEN 1 ELSE 0
  BY <1>2, BitsOfRun
<1> HIDE DEF bit
<1>5. CASE mask = 0
  <2>1. FindBits(mask) = <<0, 0>>
    BY <1>5 DEF FindBits
  <2>2. MaskOf(<<0, 0>>) = 0
    BY Pow2Def DEF MaskOf
  <2> QED BY <1>1, <1>2, <1>5, <2>1, <2>2
<1>6. CASE mask # 0
  <2>1. size > 0
    <3> SUFFICES ASSUME size = 0 PROVE FALSE
      OBVIOUS
    <3>1. Pow2[size] = 1 /\ Pow2[pos] \in Nat
      BY Pow2Def
    <3>2. mask = (1 - 1) * Pow2[pos]
      BY <1>2, <3>1 DEF MaskOf
    <3> QED BY <1>6, <3>1, <3>2
  <2>2. pos <= mask /\ size <= mask
    <3>1. PICK a \in Nat, b \in Nat : a = Pow2[size] /\ b = Pow2[pos]
      BY Pow2Def
    <3>2. a > size /\ b > pos /\ mask = (a - 1) * b
      BY <1>2, <3>1, Pow2Positive DEF MaskOf
    <3>3. \A x, y \in Nat : x > 0 /\ y > 0 => x * y >= x /\ x * y >= y
      OBVIOUS
    <3>4. a - 1 \in Nat /\ a - 1 > 0 /\ b > 0
      BY <2>1, <3>2
    <3>5. mask >= a - 1 /\ mask >= b
      BY <3>2, <3>3, <3>4
    <3> QED BY <1>3, <3>2, <3>5
  <2> DEFINE First(k) == bit(k) = 1 /\ \A j \in 0 .. k - 1 : bit(j) = 0
             p == CHOOSE k \in 0 .. mask : First(k)
             Run(n) == bit(p + n) = 0 /\ \A j \in 0 .. n - 1 : bit(p + j) = 1
             s == CHOOSE n \in 1 .. mask : Run(n)
  <2>3. FindBits(mask) = <<p, s>>
    BY <1>6 DEF FindBits, bit
  <2>4. p = pos
    <3>1. pos \in 0 .. mask /\ First(pos)
      BY <1>3, <1>4, <2>1, <2>2
    <3>2. p \in 0 .. mask /\ First(p)
      BY <3>1
    <3> HIDE DEF p
    <3>3. ~(p < pos)
      BY <1>4, <3>2
    <3>4. ~(pos < p)
      <4> SUFFICES ASSUME pos < p PROVE FALSE
        OBVIOUS
      <4>1. pos \in 0 .. p - 1
        BY <3>2
      <4>2. bit(pos) = 0
        BY <3>2, <4>1
      <4> QED BY <3>1, <4>2
    <3> QED BY <3>2, <3>3, <3>4
  <2>5. s = size
    <3>0. p \in Nat
      BY <2>4
    <3>1. size \in 1 .. mask /\ Run(size)
      <4>1. size \in 1 .. mask
        BY <1>3, <2>1, <2>2
      <4> HIDE DEF p
      <4>2. bit(p + size) = 0
        BY <1>4, <2>4
      <4>3. \A j \in 0 .. size - 1 : bit(p + j) = 1
        <5> TAKE j \in 0 .. size - 1
        <5>1. p + j \in Nat /\ pos <= p + j /\ p + j < pos + size
          BY <2>4
        <5> QED BY <1>4, <5>1
      <4> QED BY <4>1, <4>2, <4>3
    <3>2. s \in 1 .. mask /\ Run(s)
      BY <3>1
    <3> HIDE DEF p, s
    <3>3. ~(s < size)
      BY <1>4, <2>4, <3>2
    <3>4. ~(size < s)
      <4> SUFFICES ASSUME size < s PROVE FALSE
        OBVIOUS
      <4>1. size \in 0 .. s - 1
        BY <3>2
      <4>2. bit(p + size) = 1
        BY <3>2, <4>1
      <4> QED BY <3>1, <4>2
    <3> QED BY <3>2, <3>3, <3>4
  <2>6. FindBits(mask) = <<pos, size>>
    BY <2>3, <2>4, <2>5
  <2> QED BY <1>1, <1>2, <2>6
<1> QED
  BY <1>5, <1>6

-----------------------------------------------------------------------------
\* What is assumed of the constants, part by part.
LEMMA LinuxConstants == E820Max \in Nat /\ KernelAligns \subseteq Nat
  BY LinuxAssumption, ZenonT(30)

\* Free memory is page numbers.
LEMMA FreeIsNumbers == \A f \in LinuxFree : f \subseteq Nat
  BY LinuxAssumption, ZenonT(30)

\* The e820 types.
LEMMA E820Types == \A type : E820Type(type) \in Types \cup {"none"}
  BY DEF E820Type, Types

\* The pages of an entry.
LEMMA EntryPages ==
  ASSUME NEW e \in E820Entries, NEW p
  PROVE  p \in E820Pages(e) <=> p \in Nat /\ e.addr <= p /\ p < e.addr + e.size
<1>1. e.addr \in Nat /\ e.size \in Nat
  BY DEF E820Entries
<1>2. PICK a \in Nat, s \in Nat : a = e.addr /\ s = e.size
  BY <1>1
<1>3. E820Pages(e) = {x \in a .. a + s : x < a + s}
  BY <1>2 DEF E820Pages
<1> QED
  BY <1>2, <1>3

\* The pages of a descriptor.
LEMMA DescriptorPages ==
  ASSUME NEW d \in Descriptors, NEW p
  PROVE  p \in DescPages(d) <=> p \in Nat /\ d.start <= p /\ p < d.start + d.pages
<1>1. PICK a \in Nat, s \in Nat : a = d.start /\ s = d.pages
  BY DEF Descriptors
<1>2. DescPages(d) = {x \in a .. a + s : x < a + s}
  BY <1>1 DEF DescPages
<1> QED
  BY <1>1, <1>2

\* The descriptors of a memory map are well formed and do not overlap.
LEMMA MapFacts ==
  ASSUME NEW map \in LinuxMaps
  PROVE  /\ Len(map) \in Nat /\ DOMAIN map = 1 .. Len(map)
         /\ \A k \in 1 .. Len(map) : map[k] \in Descriptors
         /\ \A k, l \in 1 .. Len(map) : k # l => \A p : ~(p \in DescPages(map[k]) /\ p \in DescPages(map[l]))
<1>0. \A x \in LinuxMaps :
        /\ x \in Seq([type : STRING, start : Nat, pages : Nat])
        /\ \A i, j \in DOMAIN x : i < j => \/ x[i].start + x[i].pages <= x[j].start
                                          \/ x[j].start + x[j].pages <= x[i].start
  BY LinuxAssumption, ZenonT(30)
<1>1. map \in Seq(Descriptors)
  BY <1>0, Zenon DEF Descriptors
<1>2. \A i, j \in DOMAIN map : i < j => \/ map[i].start + map[i].pages <= map[j].start
                                        \/ map[j].start + map[j].pages <= map[i].start
  BY <1>0, Zenon
<1>3. Len(map) \in Nat /\ DOMAIN map = 1 .. Len(map) /\ \A k \in 1 .. Len(map) : map[k] \in Descriptors
  BY <1>1
<1>4. ASSUME NEW k \in 1 .. Len(map), NEW l \in 1 .. Len(map), k < l, NEW p,
             p \in DescPages(map[k]), p \in DescPages(map[l])
      PROVE  FALSE
  <2>1. PICK c \in Descriptors, d \in Descriptors : c = map[k] /\ d = map[l]
    BY <1>3
  <2>2. p \in Nat /\ c.start <= p /\ p < c.start + c.pages /\ d.start <= p /\ p < d.start + d.pages
    BY <1>4, <2>1, DescriptorPages
  <2>3. c.start + c.pages <= d.start \/ d.start + d.pages <= c.start
    BY <1>2, <1>3, <1>4, <2>1
  <2>4. c.start \in Nat /\ c.pages \in Nat /\ d.start \in Nat /\ d.pages \in Nat
    BY DEF Descriptors
  <2> QED BY <2>2, <2>3, <2>4
<1>5. \A k, l \in 1 .. Len(map) : k # l => k < l \/ l < k
  BY <1>3
<1> QED
  BY <1>3, <1>4, <1>5

\* A descriptor that is added as an entry of its own.
LEMMA DescribesAppend ==
  ASSUME NEW map \in LinuxMaps, NEW n \in Nat, n + 1 <= Len(map), Known(map[n + 1]),
         NEW table \in Seq(E820Entries), Describes(table, map, n),
         NEW e, e = [type |-> E820Type(map[n + 1].type), addr |-> map[n + 1].start, size |-> map[n + 1].pages]
  PROVE  e \in E820Entries /\ Describes(Append(table, e), map, n + 1)
<1>1. PICK d \in Descriptors : d = map[n + 1]
  <2>1. n + 1 \in 1 .. Len(map)
    BY MapFacts
  <2> QED BY <2>1, MapFacts
<1>2. E820Type(d.type) \in Types
  BY <1>1, E820Types DEF Known
<1>3. d.start \in Nat /\ d.pages \in Nat
  BY DEF Descriptors
<1>4. e = [type |-> E820Type(d.type), addr |-> d.start, size |-> d.pages]
  BY <1>1
<1>5. e \in E820Entries /\ e.type = E820Type(d.type) /\ e.addr = d.start /\ e.size = d.pages
  BY <1>2, <1>3, <1>4 DEF E820Entries
<1>6. \A p : p \in E820Pages(e) <=> p \in DescPages(d)
  BY <1>5, EntryPages, DescriptorPages
<1>7. PICK new : new = Append(table, e)
  OBVIOUS
<1>8. PICK m \in Nat : m = Len(table)
  OBVIOUS
<1>9. /\ DOMAIN table = 1 .. m /\ DOMAIN new = 1 .. m + 1 /\ new[m + 1] = e
      /\ \A i \in 1 .. m : new[i] = table[i]
  BY <1>5, <1>7, <1>8
<1>10. /\ \A i \in 1 .. m + 1 : i \in 1 .. m \/ i = m + 1
       /\ \A k \in 1 .. n + 1 : k \in 1 .. n \/ k = n + 1
       /\ \A k \in 1 .. n : k \in 1 .. n + 1
       /\ \A i \in 1 .. m : i \in 1 .. m + 1 /\ i # m + 1
       /\ m + 1 \in 1 .. m + 1 /\ n + 1 \in 1 .. n + 1
  OBVIOUS
<1>11. OnlyThese(table, map, n) /\ AllOfThese(table, map, n) /\ NoPageTwice(table)
  BY DEF Describes
<1>12. OnlyThese(new, map, n + 1)
  <2> SUFFICES ASSUME NEW i \in DOMAIN new, NEW p \in E820Pages(new[i])
               PROVE  \E k \in 1 .. n + 1 : p \in DescPages(map[k]) /\ E820Type(map[k].type) = new[i].type
    BY DEF OnlyThese
  <2>1. CASE i \in 1 .. m
    <3>1. PICK k \in 1 .. n : p \in DescPages(map[k]) /\ E820Type(map[k].type) = table[i].type
      BY <2>1, <1>9, <1>11 DEF OnlyThese
    <3> QED BY <2>1, <3>1, <1>9, <1>10
  <2>2. CASE i = m + 1
    BY <2>2, <1>1, <1>5, <1>6, <1>9, <1>10
  <2> QED BY <2>1, <2>2, <1>9, <1>10
<1>13. AllOfThese(new, map, n + 1)
  <2> SUFFICES ASSUME NEW k \in 1 .. n + 1
               PROVE  \E i \in DOMAIN new : new[i].type = E820Type(map[k].type)
                                            /\ DescPages(map[k]) \subseteq E820Pages(new[i])
    BY DEF AllOfThese
  <2>1. CASE k \in 1 .. n
    <3>1. PICK i \in DOMAIN table : table[i].type = E820Type(map[k].type)
                                    /\ DescPages(map[k]) \subseteq E820Pages(table[i])
      BY <2>1, <1>11 DEF AllOfThese
    <3> QED BY <3>1, <1>9, <1>10
  <2>2. CASE k = n + 1
    BY <2>2, <1>1, <1>5, <1>6, <1>9, <1>10
  <2> QED BY <2>1, <2>2, <1>10
<1>14. \A i \in 1 .. m : \A p \in E820Pages(table[i]) : p \notin DescPages(d)
  <2> TAKE i \in 1 .. m
  <2> TAKE p \in E820Pages(table[i])
  <2>1. PICK k \in 1 .. n : p \in DescPages(map[k])
    BY <1>9, <1>11 DEF OnlyThese
  <2>2. k \in 1 .. Len(map) /\ n + 1 \in 1 .. Len(map) /\ k # n + 1
    BY MapFacts
  <2> QED BY <1>1, <2>1, <2>2, MapFacts
<1>15. NoPageTwice(new)
  <2> SUFFICES ASSUME NEW i \in DOMAIN new, NEW j \in DOMAIN new, i # j
               PROVE  E820Pages(new[i]) \cap E820Pages(new[j]) = {}
    BY DEF NoPageTwice
  <2>1. CASE i \in 1 .. m /\ j \in 1 .. m
    BY <2>1, <1>9, <1>11 DEF NoPageTwice
  <2>2. CASE i \in 1 .. m /\ j = m + 1
    BY <2>2, <1>6, <1>9, <1>14
  <2>3. CASE i = m + 1 /\ j \in 1 .. m
    BY <2>3, <1>6, <1>9, <1>14
  <2> QED BY <2>1, <2>2, <2>3, <1>9, <1>10
<1> QED
  BY <1>5, <1>7, <1>12, <1>13, <1>15 DEF Describes

\* A descriptor that is joined to the last entry.
Joined(table, m, pages) == [table EXCEPT ![m].size = @ + pages]

\* A descriptor that is joined to the last entry.
LEMMA DescribesJoin ==
  ASSUME NEW map \in LinuxMaps, NEW n \in Nat, n + 1 <= Len(map), Known(map[n + 1]),
         NEW table \in Seq(E820Entries), Describes(table, map, n), NEW m \in Nat, m = Len(table), m > 0,
         table[m].type = E820Type(map[n + 1].type), table[m].addr + table[m].size = map[n + 1].start,
         NEW new, new = Joined(table, m, map[n + 1].pages)
  PROVE  /\ new \in Seq(E820Entries) /\ Len(new) = m /\ Describes(new, map, n + 1)
         /\ new[m].addr + new[m].size = map[n + 1].start + map[n + 1].pages
<1>1. PICK d \in Descriptors : d = map[n + 1]
  <2>1. n + 1 \in 1 .. Len(map)
    BY MapFacts
  <2> QED BY <2>1, MapFacts
<1>2. DOMAIN table = 1 .. m /\ m \in 1 .. m
  OBVIOUS
<1>3. PICK l \in E820Entries : l = table[m]
  BY <1>2
<1>4. d.start \in Nat /\ d.pages \in Nat /\ l.addr \in Nat /\ l.size \in Nat /\ l.type \in Types
  BY DEF Descriptors, E820Entries
<1>5. PICK e : e = [l EXCEPT !.size = @ + d.pages]
  OBVIOUS
<1>6. e \in E820Entries /\ e.type = l.type /\ e.addr = l.addr /\ e.size = l.size + d.pages
  <2>1. PICK s \in Nat : s = l.size + d.pages
    BY <1>4
  <2>2. e = [l EXCEPT !.size = s]
    BY <1>5, <2>1
  <2>3. e \in E820Entries /\ e.type = l.type /\ e.addr = l.addr /\ e.size = s
    BY <2>2 DEF E820Entries
  <2> QED BY <2>1, <2>3
<1>7. new = [table EXCEPT ![m] = e]
  BY <1>1, <1>3, <1>5 DEF Joined
<1>8. /\ DOMAIN new = 1 .. m /\ new[m] = e
      /\ \A i \in 1 .. m : i # m => new[i] = table[i]
  BY <1>2, <1>7
<1>9. new \in Seq(E820Entries) /\ Len(new) = m
  BY <1>6, <1>7
<1>10. l.addr + l.size = d.start /\ l.type = E820Type(d.type)
  BY <1>1, <1>3
<1>11. \A p : p \in E820Pages(e) <=> p \in E820Pages(l) \/ p \in DescPages(d)
  <2> TAKE p
  <2>1. p \in E820Pages(e) <=> p \in Nat /\ e.addr <= p /\ p < e.addr + e.size
    BY <1>6, EntryPages
  <2>2. p \in E820Pages(l) <=> p \in Nat /\ l.addr <= p /\ p < l.addr + l.size
    BY EntryPages
  <2>3. p \in DescPages(d) <=> p \in Nat /\ d.start <= p /\ p < d.start + d.pages
    BY DescriptorPages
  <2> QED BY <2>1, <2>2, <2>3, <1>4, <1>6, <1>10
<1>12. /\ \A k \in 1 .. n + 1 : k \in 1 .. n \/ k = n + 1
       /\ \A k \in 1 .. n : k \in 1 .. n + 1
       /\ n + 1 \in 1 .. n + 1
  OBVIOUS
<1>13. OnlyThese(table, map, n) /\ AllOfThese(table, map, n) /\ NoPageTwice(table)
  BY DEF Describes
<1>14. OnlyThese(new, map, n + 1)
  <2> SUFFICES ASSUME NEW i \in DOMAIN new, NEW p \in E820Pages(new[i])
               PROVE  \E k \in 1 .. n + 1 : p \in DescPages(map[k]) /\ E820Type(map[k].type) = new[i].type
    BY DEF OnlyThese
  <2>1. i \in DOMAIN table /\ new[i].type = table[i].type
    BY <1>2, <1>3, <1>6, <1>8
  <2>2. CASE p \in E820Pages(table[i])
    <3>1. PICK k \in 1 .. n : p \in DescPages(map[k]) /\ E820Type(map[k].type) = table[i].type
      BY <2>1, <2>2, <1>13 DEF OnlyThese
    <3> QED BY <2>1, <3>1, <1>12
  <2>3. CASE p \notin E820Pages(table[i])
    <3>1. i = m /\ p \in DescPages(d)
      BY <2>3, <1>3, <1>8, <1>11
    <3>2. E820Type(d.type) = new[i].type
      BY <3>1, <1>6, <1>8, <1>10
    <3> QED BY <3>1, <3>2, <1>1, <1>12
  <2> QED BY <2>2, <2>3
<1>15. AllOfThese(new, map, n + 1)
  <2> SUFFICES ASSUME NEW k \in 1 .. n + 1
               PROVE  \E i \in DOMAIN new : new[i].type = E820Type(map[k].type)
                                            /\ DescPages(map[k]) \subseteq E820Pages(new[i])
    BY DEF AllOfThese
  <2>1. CASE k \in 1 .. n
    <3>1. PICK i \in DOMAIN table : table[i].type = E820Type(map[k].type)
                                    /\ DescPages(map[k]) \subseteq E820Pages(table[i])
      BY <2>1, <1>13 DEF AllOfThese
    <3>2. i \in DOMAIN new /\ new[i].type = table[i].type
      BY <1>2, <1>3, <1>6, <1>8
    <3>3. E820Pages(table[i]) \subseteq E820Pages(new[i])
      BY <1>2, <1>3, <1>8, <1>11
    <3> QED BY <3>1, <3>2, <3>3
  <2>2. CASE k = n + 1
    <3>1. m \in DOMAIN new /\ new[m].type = E820Type(map[k].type)
      BY <2>2, <1>1, <1>2, <1>6, <1>8, <1>10
    <3>2. DescPages(map[k]) \subseteq E820Pages(new[m])
      BY <2>2, <1>1, <1>8, <1>11
    <3> QED BY <3>1, <3>2
  <2> QED BY <2>1, <2>2, <1>12
<1>16. \A i \in 1 .. m : \A p \in E820Pages(table[i]) : p \notin DescPages(d)
  <2> TAKE i \in 1 .. m
  <2> TAKE p \in E820Pages(table[i])
  <2>1. PICK k \in 1 .. n : p \in DescPages(map[k])
    BY <1>2, <1>13 DEF OnlyThese
  <2>2. k \in 1 .. Len(map) /\ n + 1 \in 1 .. Len(map) /\ k # n + 1
    BY MapFacts
  <2> QED BY <1>1, <2>1, <2>2, MapFacts
<1>17. NoPageTwice(new)
  <2> SUFFICES ASSUME NEW i \in DOMAIN new, NEW j \in DOMAIN new, i # j,
                      NEW p, p \in E820Pages(new[i]), p \in E820Pages(new[j])
               PROVE  FALSE
    BY DEF NoPageTwice
  <2>1. i \in 1 .. m /\ j \in 1 .. m
    BY <1>8
  <2>2. ~(p \in E820Pages(table[i]) /\ p \in E820Pages(table[j]))
    BY <2>1, <1>2, <1>13 DEF NoPageTwice
  <2>3. CASE i # m /\ j # m
    BY <2>1, <2>2, <2>3, <1>8
  <2>4. CASE i = m
    <3>1. p \in E820Pages(table[j]) /\ (p \in E820Pages(table[i]) \/ p \in DescPages(d))
      BY <2>1, <2>4, <1>3, <1>8, <1>11
    <3> QED BY <2>1, <2>2, <3>1, <1>16
  <2>5. CASE j = m
    <3>1. p \in E820Pages(table[i]) /\ (p \in E820Pages(table[j]) \/ p \in DescPages(d))
      BY <2>1, <2>5, <1>3, <1>8, <1>11
    <3> QED BY <2>1, <2>2, <3>1, <1>16
  <2> QED BY <2>3, <2>4, <2>5
<1>18. new[m].addr + new[m].size = map[n + 1].start + map[n + 1].pages
  <2>1. e.addr + e.size = d.start + d.pages
    <3>1. PICK a \in Nat, z \in Nat, c \in Nat : a = l.addr /\ z = l.size /\ c = d.pages
      BY <1>4
    <3>2. a + (z + c) = (a + z) + c
      OBVIOUS
    <3> QED BY <3>1, <3>2, <1>6, <1>10
  <2> QED BY <2>1, <1>1, <1>8
<1> QED
  BY <1>9, <1>14, <1>15, <1>17, <1>18 DEF Describes

-----------------------------------------------------------------------------
\* The invariant holds initially.
LEMMA LinuxInitInv == LInit => LInv
<1> SUFFICES ASSUME LInit PROVE LInv
  OBVIOUS
<1>1. lFree \in LinuxFree /\ lHdr.align \in KernelAligns /\ lHdr.ramdiskMax = 896 /\ lMap \in LinuxMaps
  BY DEF LInit, Headers
<1>2. lIndex = 0 /\ lDesc = 1 /\ lE820 = << >> /\ lLastEnd = 0 /\ lPc = "check"
  BY DEF LInit
<1>3. LTypeOK
  <2>1. Len(lMap) \in Nat
    BY <1>1, MapFacts
  <2>2. E820Max \in Nat
    BY LinuxConstants
  <2>3. lE820 \in Seq(E820Entries) /\ Len(lE820) = 0
    BY <1>2
  <2> QED BY <1>1, <1>2, <2>1, <2>2, <2>3 DEF LTypeOK
<1>4. PointersReal
  BY DEF LInit, PointersReal
<1>5. ScreenFound /\ WalkEnds /\ TableEnds
  BY <1>2 DEF ScreenFound, WalkEnds, TableEnds
<1>6. Walked
  BY <1>2 DEF Walked
<1>7. Describes(lE820, lMap, lDesc - 1)
  <2>1. lDesc - 1 = 0 /\ 1 .. 0 = {} /\ DOMAIN lE820 = {}
    BY <1>2
  <2> QED BY <2>1 DEF Describes, OnlyThese, AllOfThese, NoPageTwice
<1> QED
  BY <1>3, <1>4, <1>5, <1>6, <1>7 DEF LInv

\* What the steps before the map leave alone.
LEMMA MapUntouched ==
  ASSUME LInv, UNCHANGED <<lFree, lHdr, lMap, lIndex, lDesc, lE820, lLastEnd>>
  PROVE  LTypeOK' /\ Walked' /\ TableEnds' /\ Describes(lE820, lMap, lDesc - 1)'
<1>1. /\ lFree' = lFree /\ lHdr' = lHdr /\ lMap' = lMap /\ lIndex' = lIndex /\ lDesc' = lDesc
      /\ lE820' = lE820 /\ lLastEnd' = lLastEnd
  OBVIOUS
<1>2. LTypeOK /\ Walked /\ TableEnds /\ Describes(lE820, lMap, lDesc - 1)
  BY DEF LInv
<1>3. LTypeOK'
  BY <1>1, <1>2 DEF LTypeOK
<1>4. Walked'
  BY <1>1, <1>2 DEF Walked
<1>5. TableEnds'
  BY <1>1, <1>2 DEF TableEnds, LastE820
<1>6. Describes(lE820, lMap, lDesc - 1)'
  BY <1>1, <1>2
<1> QED
  BY <1>3, <1>4, <1>5, <1>6

\* The check of the header keeps the invariant.
LEMMA CheckSetupStep == LInv /\ CheckSetup => LInv'
<1> SUFFICES ASSUME LInv, CheckSetup PROVE LInv'
  OBVIOUS
<1>1. /\ UNCHANGED <<lFree, lHdr, lMap, lIndex, lDesc, lE820, lLastEnd>>
      /\ UNCHANGED <<lPtr, lReal, lScreen>> /\ lPc' \in {"alloc", "unsupported"}
  BY DEF CheckSetup
<1>2. LTypeOK' /\ Walked' /\ TableEnds' /\ Describes(lE820, lMap, lDesc - 1)'
  BY <1>1, MapUntouched
<1>3. PointersReal'
  BY <1>1 DEF LInv, PointersReal
<1>4. ScreenFound' /\ WalkEnds'
  BY <1>1 DEF ScreenFound, WalkEnds
<1> QED
  BY <1>2, <1>3, <1>4 DEF LInv

\* With an alignment of up to 4 MB, every address tried fits 32 bits.
LEMMA KernelBelow4GB ==
  ASSUME LTypeOK, NEW kernel, kernel = LoadLinuxAllocateKernelPages(lFree)
  PROVE  kernel \in Nat /\ (lHdr.align <= 4 => kernel < 4096)
<1>1. PICK a \in KernelAligns : a = lHdr.align
  BY DEF LTypeOK
<1>2. a \in Nat
  BY LinuxConstants
<1> DEFINE at == {n \in KernelLoops : KernelAddress(a, n) \in lFree}
           n == CHOOSE x \in at : \A y \in at : x <= y
<1>3. kernel = IF at = {} THEN 0 ELSE KernelAddress(a, n)
  BY <1>1 DEF LoadLinuxAllocateKernelPages
<1>4. CASE at = {}
  BY <1>3, <1>4
<1>5. CASE at # {}
  <2>1. at \in SUBSET Nat
    BY DEF KernelLoops
  <2> HIDE DEF at
  <2>2. \E x \in at : \A y \in at : x <= y
    BY <1>5, <2>1, LeastNumber
  <2>3. n \in at
    BY <2>2
  <2> HIDE DEF n
  <2>4. n \in 1 .. 511
    BY <2>3 DEF at, KernelLoops
  <2>5. KernelAddress(a, n) \in Nat
    <3>1. U32(2 * a) \in Nat
      BY <1>2 DEF U32
    <3> QED BY <2>4, <3>1 DEF KernelAddress
  <2>6. ASSUME a <= 4 PROVE KernelAddress(a, n) < 4096
    <3>1. U32(2 * a) = 2 * a /\ a \in 0 .. 4
      BY <1>2, <2>6 DEF U32
    <3>2. CASE a = 0
      BY <2>4, <3>1, <3>2 DEF KernelAddress
    <3>3. CASE a = 1
      BY <2>4, <3>1, <3>3 DEF KernelAddress
    <3>4. CASE a = 2
      BY <2>4, <3>1, <3>4 DEF KernelAddress
    <3>5. CASE a = 3
      BY <2>4, <3>1, <3>5 DEF KernelAddress
    <3>6. CASE a = 4
      BY <2>4, <3>1, <3>6 DEF KernelAddress
    <3> QED BY <3>1, <3>2, <3>3, <3>4, <3>5, <3>6
  <2> QED BY <1>1, <1>3, <1>5, <2>5, <2>6
<1> QED
  BY <1>1, <1>4, <1>5

\* The memory allocated keeps the invariant.
LEMMA AllocateStep == LInv /\ AllocateAndPoint => LInv'
<1> SUFFICES ASSUME LInv, AllocateAndPoint PROVE LInv'
  OBVIOUS
<1>1. UNCHANGED <<lFree, lHdr, lMap, lIndex, lDesc, lE820, lLastEnd>>
  BY DEF AllocateAndPoint
<1>2. LTypeOK' /\ Walked' /\ TableEnds' /\ Describes(lE820, lMap, lDesc - 1)'
  BY <1>1, MapUntouched
<1>3. PICK kernel, low : kernel = LoadLinuxAllocateKernelPages(lFree) /\ low = Below(lFree \ {kernel}, 2)
  OBVIOUS
<1>4. \/ \E initrd \in Below(lFree \ {kernel}, lHdr.ramdiskMax) \ low, cmdline \in low :
           /\ lReal' = [kernel |-> kernel, cmdline |-> cmdline, initrd |-> initrd]
           /\ lPtr'  = [f \in DOMAIN lReal' |-> U32(lReal'[f])]
           /\ lPc'   = IF lHdr.version >= 524 /\ lHdr.handover THEN "efi" ELSE "screen"
      \/ lPc' = "nomemory" /\ UNCHANGED <<lPtr, lReal>>
  BY <1>3 DEF AllocateAndPoint
<1>5. lPc' \in {"efi", "screen", "nomemory"}
  BY <1>4
<1>6. ScreenFound' /\ WalkEnds'
  BY <1>5 DEF ScreenFound, WalkEnds
<1>7. PointersReal'
  <2>1. CASE lPc' = "nomemory" /\ UNCHANGED <<lPtr, lReal>>
    BY <1>1, <2>1 DEF LInv, PointersReal
  <2>2. CASE \E initrd \in Below(lFree \ {kernel}, lHdr.ramdiskMax) \ low, cmdline \in low :
               /\ lReal' = [kernel |-> kernel, cmdline |-> cmdline, initrd |-> initrd]
               /\ lPtr'  = [f \in DOMAIN lReal' |-> U32(lReal'[f])]
    <3>1. PICK initrd \in Below(lFree \ {kernel}, lHdr.ramdiskMax) \ low, cmdline \in low :
               /\ lReal' = [kernel |-> kernel, cmdline |-> cmdline, initrd |-> initrd]
               /\ lPtr'  = [f \in DOMAIN lReal' |-> U32(lReal'[f])]
      BY <2>2
    <3>2. kernel \in Nat /\ (lHdr.align <= 4 => kernel < 4096)
      BY <1>3, KernelBelow4GB DEF LInv
    <3>3. lFree \subseteq Nat /\ lHdr.ramdiskMax = 896
      <4>1. lFree \subseteq Nat
        <5>1. lFree \in LinuxFree
          BY DEF LInv, LTypeOK
        <5> QED BY <5>1, FreeIsNumbers, Zenon
      <4>2. lHdr.ramdiskMax = 896
        BY DEF LInv, LTypeOK
      <4> QED BY <4>1, <4>2
    <3>4. cmdline \in Nat /\ cmdline < 2
      BY <1>3, <3>3 DEF Below
    <3>5. initrd \in Nat /\ initrd < 896
      BY <1>3, <3>3 DEF Below
    <3>6. U32(cmdline) = cmdline /\ U32(initrd) = initrd /\ (lHdr.align <= 4 => U32(kernel) = kernel)
      BY <3>2, <3>4, <3>5 DEF U32
    <3>7. DOMAIN lReal' = {"kernel", "cmdline", "initrd"}
      BY <3>1
    <3>8. lPtr'.cmdline = lReal'.cmdline /\ lPtr'.initrd = lReal'.initrd
      BY <3>1, <3>6, <3>7
    <3>9. lHdr'.align <= 4 => lPtr'.kernel = lReal'.kernel
      BY <1>1, <3>1, <3>6, <3>7
    <3> QED BY <3>8, <3>9 DEF PointersReal
  <2> QED BY <1>4, <2>1, <2>2
<1> QED
  BY <1>2, <1>6, <1>7 DEF LInv

\* The screen described keeps the invariant.
LEMMA GraphicsStep == LInv /\ SetupGraphics => LInv'
<1> SUFFICES ASSUME LInv, SetupGraphics PROVE LInv'
  OBVIOUS
<1>1. /\ UNCHANGED <<lFree, lHdr, lMap, lIndex, lDesc, lE820, lLastEnd>>
      /\ UNCHANGED <<lPtr, lReal>> /\ lPc' = "map"
  BY DEF SetupGraphics
<1>2. LTypeOK' /\ Walked' /\ TableEnds' /\ Describes(lE820, lMap, lDesc - 1)'
  BY <1>1, MapUntouched
<1>3. PointersReal'
  BY <1>1 DEF LInv, PointersReal
<1>4. WalkEnds'
  BY <1>1 DEF WalkEnds
<1>5. ScreenFound'
  <2>1. PICK run \in LinuxMasks :
          lScreen' = <<MaskOf(run), FindBits(MaskOf(run))[1], FindBits(MaskOf(run))[2]>>
    BY DEF SetupGraphics
  <2>2. PICK pos \in Nat, size \in Nat : FindBits(MaskOf(run)) = <<pos, size>>
    BY FindBitsFindsRun
  <2>3. MaskOf(run) = MaskOf(<<pos, size>>)
    BY <2>2, FindBitsFindsRun
  <2>4. lScreen'[1] = MaskOf(run) /\ lScreen'[2] = pos /\ lScreen'[3] = size
    BY <2>1, <2>2
  <2>5. lScreen'[1] = MaskOf(<<lScreen'[2], lScreen'[3]>>)
    BY <2>3, <2>4
  <2> QED BY <2>5 DEF ScreenFound
<1> QED
  BY <1>2, <1>3, <1>4, <1>5 DEF LInv

\* A descriptor passed on keeps the invariant.
LEMMA E820StepInv == LInv /\ E820Step => LInv'
<1> SUFFICES ASSUME LInv, E820Step PROVE LInv'
  OBVIOUS
<1>1. /\ lFree' = lFree /\ lHdr' = lHdr /\ lMap' = lMap /\ lPtr' = lPtr /\ lReal' = lReal /\ lScreen' = lScreen
      /\ lPc = "map" /\ lIndex < Len(lMap)
  BY DEF E820Step
<1>2. /\ lFree \in LinuxFree /\ lHdr.align \in KernelAligns /\ lMap \in LinuxMaps
      /\ lIndex \in 0 .. Len(lMap) /\ lDesc \in 1 .. lIndex + 1 /\ lHdr.ramdiskMax = 896
      /\ lE820 \in Seq(E820Entries) /\ Len(lE820) <= E820Max /\ lLastEnd \in Nat
  BY DEF LInv, LTypeOK
<1>3. PointersReal'
  BY <1>1 DEF LInv, PointersReal
<1>4. lScreen[1] = MaskOf(<<lScreen[2], lScreen[3]>>)
  BY <1>1 DEF LInv, ScreenFound
<1>5. ScreenFound'
  BY <1>1, <1>4 DEF ScreenFound
<1>6. Len(lMap) \in Nat /\ lDesc \in Nat /\ lIndex \in Nat /\ lDesc \in 1 .. Len(lMap) /\ E820Max \in Nat
  <2>1. Len(lMap) \in Nat /\ E820Max \in Nat
    BY <1>2, MapFacts, LinuxConstants
  <2> QED BY <1>1, <1>2, <2>1
<1>7. PICK n \in Nat, m \in Nat : n = lDesc - 1 /\ m = Len(lE820)
  <2>1. lDesc - 1 \in Nat
    BY <1>6
  <2>2. Len(lE820) \in Nat
    BY <1>2
  <2> QED BY <2>1, <2>2
<1>8. PICK d \in Descriptors : d = lMap[lDesc]
  BY <1>2, <1>6, MapFacts
<1>9. lDesc = n + 1 /\ n + 1 <= Len(lMap) /\ Describes(lE820, lMap, n)
  BY <1>6, <1>7 DEF LInv
<1>10. /\ \A k \in 1 .. n : Known(lMap[k])
       /\ lDesc # lIndex + 1 => ~Known(d)
  BY <1>7, <1>8 DEF LInv, Walked
<1>11. d.start \in Nat /\ d.pages \in Nat
  BY DEF Descriptors
<1>12. Known(d) <=> ~(d.pages = 0 \/ E820Type(d.type) = "none")
  BY <1>11 DEF Known
<1>13. CASE ~Known(d)
  <2>1. lIndex' = lIndex + 1 /\ lDesc' = lDesc /\ lE820' = lE820 /\ lLastEnd' = lLastEnd /\ lPc' = lPc
    BY <1>8, <1>12, <1>13 DEF E820Step
  <2>2. LTypeOK'
    <3>1. lIndex' \in 0 .. Len(lMap) /\ lDesc' \in 1 .. lIndex' + 1
      BY <1>1, <1>2, <1>6, <2>1
    <3> QED BY <1>1, <1>2, <2>1, <3>1 DEF LTypeOK
  <2>3. Walked'
    BY <1>1, <1>7, <1>8, <1>10, <1>13, <2>1 DEF Walked
  <2>4. TableEnds'
    BY <2>1 DEF LInv, TableEnds, LastE820
  <2>5. WalkEnds'
    BY <1>1, <2>1 DEF WalkEnds
  <2>6. Describes(lE820, lMap, lDesc - 1)'
    BY <1>1, <2>1 DEF LInv
  <2> QED BY <1>3, <1>5, <2>2, <2>3, <2>4, <2>5, <2>6 DEF LInv
<1>14. ASSUME Known(d), lIndex' = lIndex + 1, lDesc' = lDesc + 1, lPc' = lPc
       PROVE  /\ lIndex' \in 0 .. Len(lMap) /\ lDesc' \in 1 .. lIndex' + 1
              /\ Walked' /\ WalkEnds'
  <2>1. lDesc = lIndex + 1
    BY <1>10, <1>14
  <2>2. lIndex' \in 0 .. Len(lMap) /\ lDesc' \in 1 .. lIndex' + 1 /\ lDesc' = lIndex' + 1
    BY <1>1, <1>6, <1>14, <2>1
  <2>3. \A k \in 1 .. lDesc' - 1 : k \in 1 .. n \/ k = lDesc
    BY <1>6, <1>7, <1>14
  <2>4. Walked'
    BY <1>1, <1>8, <1>10, <1>14, <2>2, <2>3 DEF Walked
  <2>5. WalkEnds'
    BY <1>1, <1>14 DEF WalkEnds
  <2> QED BY <2>2, <2>4, <2>5
<1>15. CASE Known(d) /\ lE820 # <<>> /\ LastE820.type = E820Type(d.type) /\ d.start = lLastEnd
  <2>1. /\ lE820' = [lE820 EXCEPT ![Len(lE820)].size = @ + d.pages] /\ lLastEnd' = lLastEnd + d.pages
        /\ lIndex' = lIndex + 1 /\ lDesc' = lDesc + 1 /\ lPc' = lPc
    BY <1>8, <1>12, <1>15 DEF E820Step
  <2>2. lIndex' \in 0 .. Len(lMap) /\ lDesc' \in 1 .. lIndex' + 1 /\ Walked' /\ WalkEnds'
    BY <1>14, <1>15, <2>1
  <2>3. m > 0
    <3>1. Len(lE820) # 0
      BY <1>2, <1>15
    <3> QED BY <1>7, <3>1
  <2>4. lE820[m].type = E820Type(lMap[n + 1].type) /\ lE820[m].addr + lE820[m].size = lMap[n + 1].start
    <3>1. LastE820.addr + LastE820.size = lLastEnd
      BY <1>15 DEF LInv, TableEnds
    <3> QED BY <1>7, <1>8, <1>9, <1>15, <3>1 DEF LastE820
  <2>5. PICK new : new = Joined(lE820, m, lMap[n + 1].pages)
    OBVIOUS
  <2>6. /\ new \in Seq(E820Entries) /\ Len(new) = m /\ Describes(new, lMap, n + 1)
        /\ new[m].addr + new[m].size = lMap[n + 1].start + lMap[n + 1].pages
    <3>1. Known(lMap[n + 1])
      BY <1>8, <1>9, <1>15
    <3>2. lMap \in LinuxMaps /\ lE820 \in Seq(E820Entries) /\ m = Len(lE820)
      BY <1>2, <1>7
    <3>3. n + 1 <= Len(lMap) /\ Describes(lE820, lMap, n)
      BY <1>9
    <3> QED BY <2>3, <2>4, <2>5, <3>1, <3>2, <3>3, DescribesJoin
  <2>7. lE820' = new
    BY <1>7, <1>8, <1>9, <2>1, <2>5 DEF Joined
  <2>8. lLastEnd' = d.start + d.pages /\ lLastEnd' \in Nat
    BY <1>11, <1>15, <2>1
  <2>9. TableEnds'
    BY <1>8, <1>9, <2>6, <2>7, <2>8 DEF TableEnds, LastE820
  <2>10. LTypeOK'
    BY <1>1, <1>2, <1>7, <2>2, <2>6, <2>7, <2>8 DEF LTypeOK
  <2>11. Describes(lE820, lMap, lDesc - 1)'
    <3>1. lDesc' - 1 = n + 1
      BY <1>7, <1>6, <2>1
    <3> QED BY <1>1, <2>6, <2>7, <3>1
  <2> QED BY <1>3, <1>5, <2>2, <2>9, <2>10, <2>11 DEF LInv
<1>16. CASE /\ Known(d) /\ ~(lE820 # <<>> /\ LastE820.type = E820Type(d.type) /\ d.start = lLastEnd)
            /\ Len(lE820) >= E820Max
  <2>1. lPc' = "exit" /\ lIndex' = lIndex /\ lDesc' = lDesc /\ lE820' = lE820 /\ lLastEnd' = lLastEnd
    BY <1>8, <1>12, <1>16 DEF E820Step
  <2>2. LTypeOK' /\ Walked' /\ TableEnds' /\ Describes(lE820, lMap, lDesc - 1)'
    BY <1>1, <2>1, MapUntouched
  <2>3. WalkEnds'
    <3>1. Len(lE820) = E820Max
      BY <1>2, <1>6, <1>7, <1>16
    <3> QED BY <2>1, <3>1 DEF WalkEnds
  <2> QED BY <1>3, <1>5, <2>2, <2>3 DEF LInv
<1>17. CASE /\ Known(d) /\ ~(lE820 # <<>> /\ LastE820.type = E820Type(d.type) /\ d.start = lLastEnd)
            /\ ~(Len(lE820) >= E820Max)
  <2>1. /\ lE820' = Append(lE820, [type |-> E820Type(d.type), addr |-> d.start, size |-> d.pages])
        /\ lLastEnd' = d.start + d.pages
        /\ lIndex' = lIndex + 1 /\ lDesc' = lDesc + 1 /\ lPc' = lPc
    BY <1>8, <1>12, <1>17 DEF E820Step
  <2>2. lIndex' \in 0 .. Len(lMap) /\ lDesc' \in 1 .. lIndex' + 1 /\ Walked' /\ WalkEnds'
    BY <1>14, <1>17, <2>1
  <2>3. PICK e : e = [type |-> E820Type(lMap[n + 1].type), addr |-> lMap[n + 1].start, size |-> lMap[n + 1].pages]
    OBVIOUS
  <2>4. e \in E820Entries /\ Describes(Append(lE820, e), lMap, n + 1)
    <3>1. Known(lMap[n + 1])
      BY <1>8, <1>9, <1>17
    <3> QED BY <1>2, <1>9, <2>3, <3>1, DescribesAppend
  <2>5. e = [type |-> E820Type(d.type), addr |-> d.start, size |-> d.pages] /\ e.addr = d.start /\ e.size = d.pages
    BY <1>8, <1>9, <2>3
  <2>6. lE820' = Append(lE820, e)
    BY <2>1, <2>5
  <2>7. lE820' \in Seq(E820Entries) /\ Len(lE820') = m + 1 /\ lE820'[m + 1] = e /\ m + 1 <= E820Max
    BY <1>2, <1>6, <1>7, <1>17, <2>4, <2>6
  <2>8. TableEnds'
    BY <2>1, <2>5, <2>7 DEF TableEnds, LastE820
  <2>9. LTypeOK'
    <3>1. lLastEnd' \in Nat /\ Len(lE820') <= E820Max
      BY <1>11, <2>1, <2>7
    <3> QED BY <1>1, <1>2, <2>2, <2>7, <3>1 DEF LTypeOK
  <2>10. Describes(lE820, lMap, lDesc - 1)'
    <3>1. lDesc' - 1 = n + 1
      BY <1>7, <1>6, <2>1
    <3> QED BY <1>1, <2>4, <2>6, <3>1
  <2> QED BY <1>3, <1>5, <2>2, <2>8, <2>9, <2>10 DEF LInv
<1> QED
  BY <1>13, <1>15, <1>16, <1>17

\* The jump to the kernel keeps the invariant.
LEMMA ExitStep == LInv /\ ExitBootServicesAndJump => LInv'
<1> SUFFICES ASSUME LInv, ExitBootServicesAndJump PROVE LInv'
  OBVIOUS
<1>1. /\ UNCHANGED <<lFree, lHdr, lMap, lIndex, lDesc, lE820, lLastEnd>>
      /\ UNCHANGED <<lPtr, lReal, lScreen>> /\ lPc' = "exit" /\ lIndex = Len(lMap)
  BY DEF ExitBootServicesAndJump
<1>2. LTypeOK' /\ Walked' /\ TableEnds' /\ Describes(lE820, lMap, lDesc - 1)'
  BY <1>1, MapUntouched
<1>3. PointersReal'
  BY <1>1 DEF LInv, PointersReal
<1>4. ScreenFound' /\ WalkEnds'
  BY <1>1 DEF ScreenFound, WalkEnds
<1> QED
  BY <1>2, <1>3, <1>4 DEF LInv

\* What the invariant says of the table when the loop has ended.
LEMMA LInvTellsTheTruth == LInv => LinuxIsToldTheTruth
<1> SUFFICES ASSUME LInv PROVE LinuxIsToldTheTruth
  OBVIOUS
<1>1. lMap \in LinuxMaps /\ lE820 \in Seq(E820Entries) /\ lIndex \in 0 .. Len(lMap) /\ lDesc \in 1 .. lIndex + 1
  BY DEF LInv, LTypeOK
<1>2. PICK n \in Nat : n = lDesc - 1 /\ lDesc = n + 1
  <2>1. Len(lMap) \in Nat
    BY <1>1, MapFacts
  <2> QED BY <1>1, <2>1
<1>3. OnlyThese(lE820, lMap, n) /\ AllOfThese(lE820, lMap, n) /\ NoPageTwice(lE820)
  BY <1>2 DEF LInv, Describes
<1>4. Len(lMap) \in Nat /\ DOMAIN lMap = 1 .. Len(lMap)
  BY <1>1, MapFacts
<1>5. n <= Len(lMap) /\ \A k \in 1 .. n : k \in DOMAIN lMap
  BY <1>1, <1>2, <1>4
<1>6. \A t, p : p \in MapPages(t) <=> \E k \in DOMAIN lMap : p \in DescPages(lMap[k]) /\ E820Type(lMap[k].type) = t
  BY DEF MapPages, DescPages
<1>7. \A i \in DOMAIN lE820 : E820Pages(lE820[i]) \subseteq MapPages(lE820[i].type)
  BY <1>3, <1>5, <1>6 DEF OnlyThese
<1>8. \A i, j \in DOMAIN lE820 : i # j => E820Pages(lE820[i]) \cap E820Pages(lE820[j]) = {}
  BY <1>3 DEF NoPageTwice
<1>9. ASSUME \A i \in DOMAIN lMap : lMap[i].pages > 0 /\ E820Type(lMap[i].type) # "none"
      PROVE  E820DescribesAll
  <2> SUFFICES ASSUME lPc = "exit", Len(lE820) # E820Max, NEW t \in Types
               PROVE  MapPages(t) = UNION {E820Pages(lE820[i]) : i \in {j \in DOMAIN lE820 : lE820[j].type = t}}
    BY DEF E820DescribesAll
  <2>1. lIndex = Len(lMap)
    BY DEF LInv, WalkEnds
  <2>2. lDesc = lIndex + 1
    <3> SUFFICES ASSUME lDesc # lIndex + 1 PROVE FALSE
      OBVIOUS
    <3>1. ~Known(lMap[lDesc])
      BY DEF LInv, Walked
    <3>2. lDesc \in DOMAIN lMap
      BY <1>1, <1>4, <2>1
    <3> QED BY <1>9, <3>1, <3>2 DEF Known
  <2>3. n = Len(lMap)
    BY <1>2, <1>4, <2>1, <2>2
  <2>4. ASSUME NEW p, p \in MapPages(t)
        PROVE  \E i \in DOMAIN lE820 : lE820[i].type = t /\ p \in E820Pages(lE820[i])
    <3>1. PICK k \in DOMAIN lMap : p \in DescPages(lMap[k]) /\ E820Type(lMap[k].type) = t
      BY <1>6, <2>4
    <3>2. k \in 1 .. n
      BY <1>4, <2>3
    <3> QED BY <1>3, <3>1, <3>2 DEF AllOfThese
  <2>5. ASSUME NEW i \in DOMAIN lE820, lE820[i].type = t
        PROVE  E820Pages(lE820[i]) \subseteq MapPages(t)
    BY <1>7, <2>5
  <2> QED BY <2>4, <2>5
<1>10. PointersReal /\ ScreenFound
  BY DEF LInv
<1> QED
  BY <1>7, <1>8, <1>9, <1>10 DEF LinuxIsToldTheTruth, PointersReal, ScreenFound

(***************************************************************************)
(* For every memory map without overlaps, every layout of free memory,     *)
(* every mask and any size of the table: what LoadLinuxLib tells the       *)
(* kernel is true.  The header points at the command line and the initrd,  *)
(* and at the kernel if its alignment is at most 4 MB (none of the 511     *)
(* addresses tried is then above 4 GB, where code32_start cannot point);   *)
(* FindBits gives back the masks; and the e820 table that SetupLinuxMemmap *)
(* builds describes no page otherwise than the memory map, none twice, and *)
(* all of them as long as no descriptor is passed by and the table does    *)
(* not fill.                                                               *)
(***************************************************************************)
THEOREM LinuxToldTheTruth == LSpec => []LinuxIsToldTheTruth
<1>1. LInit => LInv
  BY LinuxInitInv
<1>2. LInv /\ [LNext]_lVars => LInv'
  <2>1. LInv /\ UNCHANGED lVars => LInv'
    <3> SUFFICES ASSUME LInv, UNCHANGED lVars PROVE LInv'
      OBVIOUS
    <3>1. /\ UNCHANGED <<lFree, lHdr, lMap, lIndex, lDesc, lE820, lLastEnd>>
          /\ lPtr' = lPtr /\ lReal' = lReal /\ lScreen' = lScreen /\ lPc' = lPc
      BY DEF lVars
    <3>2. LTypeOK' /\ Walked' /\ TableEnds' /\ Describes(lE820, lMap, lDesc - 1)'
      BY <3>1, MapUntouched
    <3>3. PointersReal' /\ ScreenFound'
      BY <3>1 DEF LInv, PointersReal, ScreenFound
    <3>4. WalkEnds'
      BY <3>1 DEF LInv, WalkEnds
    <3> QED BY <3>2, <3>3, <3>4 DEF LInv
  <2> QED BY <2>1, CheckSetupStep, AllocateStep, GraphicsStep, E820StepInv, ExitStep DEF LNext
<1>3. LInv => LinuxIsToldTheTruth
  BY LInvTellsTheTruth
<1> QED
  BY <1>1, <1>2, <1>3, PTL DEF LSpec

-----------------------------------------------------------------------------
(* NvVars.  A buffer is its list of variables (ListsTo), read under the    *)
(* names they go by (Follows); the passes of the load and the              *)
(* serialization are steps along such lists, and what they do to one       *)
(* variable is decided by the last that is about it (LastFor).             *)

\* A serialized variable, and the one that a buffer has at a position.
Variable == [name : Seq(Nat), guid : Nat, attr : Nat, data : Seq(Nat)]
AttrAt(cells, at) == cells[at + cells[at + 1] + 3]
DataAt(cells, at) ==
  SubSeq(cells, at + cells[at + 1] + 5, at + cells[at + 1] + 4 + cells[at + cells[at + 1] + 4])
EntryAt(cells, at) == [name |-> NameAt(cells, at), guid |-> GuidAt(cells, at),
                       attr |-> AttrAt(cells, at), data |-> DataAt(cells, at)]

\* The buffer is the entries vs up to the position at.
ListsTo(cells, at, vs) ==
  /\ vs \in Seq(Variable) /\ at <= Len(cells) /\ Begins(cells)[Len(vs)] = at
  /\ \A j \in 1 .. Len(vs) : EntryAt(cells, Begins(cells)[j - 1]) = vs[j]

\* The end of an entry, if it fits.
LEMMA AfterFits ==
  ASSUME NEW cells \in Seq(Nat), NEW at \in Nat
  PROVE  /\ After(cells, at) \in Nat
         /\ After(cells, at) <= Len(cells) =>
              /\ at < Len(cells) /\ cells[at + 1] \in Nat /\ at + cells[at + 1] + 4 <= Len(cells)
              /\ cells[at + cells[at + 1] + 4] \in Nat
              /\ After(cells, at) = at + cells[at + 1] + 4 + cells[at + cells[at + 1] + 4]
              /\ at < After(cells, at)
<1>1. PICK l \in Nat : l = Len(cells)
  OBVIOUS
<1>2. \A k \in 1 .. l : cells[k] \in Nat
  BY <1>1
<1>3. CASE at >= l
  BY <1>1, <1>3 DEF After
<1>4. CASE at < l
  <2>1. PICK n \in Nat : n = cells[at + 1]
    BY <1>2, <1>4
  <2>2. CASE at + n + 4 > l
    BY <1>1, <1>4, <2>1, <2>2 DEF After
  <2>3. CASE at + n + 4 <= l
    <3>1. PICK d \in Nat : d = cells[at + n + 4]
      BY <1>2, <2>3
    <3>2. After(cells, at) = IF at >= l \/ at + n + 4 > l THEN l + 1 ELSE at + n + 4 + d
      BY <1>1, <2>1, <3>1, Zenon DEF After
    <3>3. After(cells, at) = at + n + 4 + d /\ at < at + n + 4 + d /\ at + n + 4 + d \in Nat
      BY <1>4, <2>3, <3>2
    <3>4. cells[at + cells[at + 1] + 4] = d
      BY <2>1, <3>1, Zenon
    <3> QED BY <1>1, <1>4, <2>1, <2>3, <3>1, <3>3, <3>4
  <2> QED BY <2>2, <2>3
<1> QED
  BY <1>3, <1>4

\* Numbers that follow from one another.
LEMMA NumbersIterate ==
  \A next : next \in [Nat -> Nat] =>
    \E f \in [Nat -> Nat] : f[0] = 0 /\ \A n \in Nat : f[n + 1] = next[f[n]]
<1>1. ASSUME NEW next, next \in [Nat -> Nat]
      PROVE  \E f \in [Nat -> Nat] : f[0] = 0 /\ \A n \in Nat : f[n + 1] = next[f[n]]
  <2>1. PICK V : V = Nat
    OBVIOUS
  <2>2. PICK a : a = 0
    OBVIOUS
  <2>3. a \in V /\ next \in [V -> V]
    BY <1>1, <2>1, <2>2
  <2>4. \E f \in [Nat -> V] : f[0] = a /\ \A n \in Nat : f[n + 1] = next[f[n]]
    BY <2>3, Iteration
  <2> QED BY <2>1, <2>2, <2>4
<1> QED
  BY <1>1

\* There is such a list of positions.
LEMMA PositionsExist ==
  \A cells : cells \in Seq(Nat) =>
    \E f \in [Nat -> Nat] : f[0] = 0 /\ \A n \in Nat : f[n + 1] = After(cells, f[n])
<1>1. ASSUME NEW cells, cells \in Seq(Nat)
      PROVE  \E f \in [Nat -> Nat] : f[0] = 0 /\ \A n \in Nat : f[n + 1] = After(cells, f[n])
  <2>1. \A x \in Nat : After(cells, x) \in Nat
    BY <1>1, AfterFits
  <2>2. PICK after : after = [x \in Nat |-> After(cells, x)]
    OBVIOUS
  <2>3. after \in [Nat -> Nat] /\ \A x \in Nat : after[x] = After(cells, x)
    BY <2>1, <2>2
  <2>4. after \in [Nat -> Nat]
    BY <2>3
  <2>5. PICK f \in [Nat -> Nat] : f[0] = 0 /\ \A n \in Nat : f[n + 1] = after[f[n]]
    BY <2>4, NumbersIterate, Zenon
  <2> QED BY <2>3, <2>5
<1> QED
  BY <1>1

\* The positions, one by one.
LEMMA BeginsDef ==
  ASSUME NEW cells \in Seq(Nat)
  PROVE  /\ Begins(cells) \in [Nat -> Nat] /\ Begins(cells)[0] = 0
         /\ \A j \in Nat : Begins(cells)[j + 1] = After(cells, Begins(cells)[j])
<1>2. PICK f \in [Nat -> Nat] : f[0] = 0 /\ \A n \in Nat : f[n + 1] = After(cells, f[n])
  BY PositionsExist
<1>3. \A n \in Nat : f[n + 1] = After(cells, f[n])
  BY <1>2
<1>4. \A n \in Nat : n # 0 => f[n] = After(cells, f[n - 1])
  <2> TAKE n \in Nat
  <2> HAVE n # 0
  <2>1. n - 1 \in Nat /\ (n - 1) + 1 = n
    OBVIOUS
  <2> QED BY <1>3, <2>1
<1>5. f = [j \in Nat |-> IF j = 0 THEN 0 ELSE After(cells, f[j - 1])]
  BY <1>2, <1>4
<1> DEFINE pos == CHOOSE g : g = [j \in Nat |-> IF j = 0 THEN 0 ELSE After(cells, g[j - 1])]
<1>6. pos = [j \in Nat |-> IF j = 0 THEN 0 ELSE After(cells, pos[j - 1])]
  BY <1>5
<1>7. Begins(cells) = pos
  BY DEF Begins
<1> HIDE DEF pos
<1>8. pos[0] = 0
  BY <1>6
<1>9. \A j \in Nat : pos[j + 1] = After(cells, pos[j])
  <2> TAKE j \in Nat
  <2>1. j + 1 \in Nat /\ j + 1 # 0 /\ (j + 1) - 1 = j
    OBVIOUS
  <2> QED BY <1>6, <2>1
<1>10. Nat \subseteq {j \in Nat : pos[j] \in Nat}
  <2> DEFINE S == {j \in Nat : pos[j] \in Nat}
  <2>1. 0 \in S
    BY <1>8
  <2>2. \A j \in Nat : j \in S => j + 1 \in S
    <3>1. \A x \in Nat : After(cells, x) \in Nat
      BY AfterFits
    <3> TAKE j \in Nat
    <3> HAVE j \in S
    <3>2. pos[j] \in Nat
      OBVIOUS
    <3>3. pos[j + 1] \in Nat
      BY <1>9, <3>1, <3>2
    <3> QED BY <3>3
  <2> HIDE DEF S
  <2> QED BY <2>1, <2>2, Induction DEF S
<1>11. pos \in [Nat -> Nat]
  BY <1>6, <1>10
<1> QED
  BY <1>7, <1>8, <1>9, <1>11

\* An entry has four cells at least, so the positions outrun their numbers.
LEMMA BeginsGrow ==
  ASSUME NEW cells \in Seq(Nat), NEW j \in Nat, Begins(cells)[j] <= Len(cells)
  PROVE  j <= Begins(cells)[j]
<1>1. PICK b \in [Nat -> Nat] : b = Begins(cells)
  BY BeginsDef
<1>2. b[0] = 0 /\ \A k \in Nat : b[k + 1] = After(cells, b[k])
  BY <1>1, BeginsDef
<1>20. \A k \in Nat : b[k] \in Nat
  OBVIOUS
<1> DEFINE S == {k \in Nat : b[k] <= Len(cells) => k <= b[k]}
<1>3. 0 \in S
  BY <1>2
<1>4. \A k \in Nat : k \in S => k + 1 \in S
  <2> TAKE k \in Nat
  <2> HAVE k \in S
  <2>1. SUFFICES ASSUME b[k + 1] <= Len(cells) PROVE k + 1 <= b[k + 1]
    OBVIOUS
  <2>2. b[k] \in Nat /\ b[k + 1] \in Nat /\ Len(cells) \in Nat
    <3>1. k + 1 \in Nat /\ Len(cells) \in Nat
      OBVIOUS
    <3> QED BY <1>20, <3>1, Zenon
  <2>3. b[k] < b[k + 1]
    BY <1>2, <2>1, <2>2, AfterFits
  <2>4. k <= b[k]
    BY <2>1, <2>2, <2>3
  <2> QED BY <2>2, <2>3, <2>4
<1> HIDE DEF S
<1>5. j \in S
  BY <1>3, <1>4, Induction
<1> QED
  BY <1>1, <1>5 DEF S

\* Beyond the end there is nothing, and before an entry that fits all fit.
LEMMA BeginsStop ==
  ASSUME NEW cells \in Seq(Nat), NEW n \in Nat, Begins(cells)[n] = Len(cells)
  PROVE  \A j \in Nat : IF j <= n THEN Begins(cells)[j] <= Len(cells) ELSE Begins(cells)[j] = Len(cells) + 1
<1>1. PICK b \in [Nat -> Nat] : b = Begins(cells)
  BY BeginsDef
<1>2. b[0] = 0 /\ \A k \in Nat : b[k + 1] = After(cells, b[k])
  BY <1>1, BeginsDef
<1>3. PICK l \in Nat : l = Len(cells)
  OBVIOUS
<1>4. ASSUME NEW at \in Nat, at >= l PROVE After(cells, at) = l + 1
  BY <1>3, <1>4 DEF After
<1> DEFINE S == {k \in Nat : k > n => b[k] = l + 1}
           T == {k \in Nat : k <= n => b[n - k] <= l}
<1>5. 0 \in S /\ 0 \in T
  BY <1>1, <1>3
<1>6. \A k \in Nat : k \in S => k + 1 \in S
  <2> TAKE k \in Nat
  <2> HAVE k \in S
  <2>1. SUFFICES ASSUME k + 1 > n PROVE b[k + 1] = l + 1
    OBVIOUS
  <2>2. b[k] >= l
    <3>1. CASE k > n
      BY <3>1
    <3>2. CASE k = n
      BY <1>1, <1>3, <3>2
    <3> QED BY <2>1, <3>1, <3>2
  <2> QED BY <1>2, <1>4, <2>2
<1>7. \A k \in Nat : k \in T => k + 1 \in T
  <2> TAKE k \in Nat
  <2> HAVE k \in T
  <2>1. SUFFICES ASSUME k + 1 <= n PROVE b[n - (k + 1)] <= l
    OBVIOUS
  <2>2. PICK x \in Nat : x = n - (k + 1) /\ x + 1 = n - k
    BY <2>1
  <2>3. b[x] \in Nat /\ b[x + 1] <= l
    <3>1. k <= n /\ b[n - k] <= l
      BY <2>1
    <3>2. b[x + 1] <= l
      BY <2>2, <3>1
    <3> QED BY <3>2
  <2>4. After(cells, b[x]) <= Len(cells)
    BY <1>2, <1>3, <2>3
  <2>5. b[x] < Len(cells)
    BY <2>3, <2>4, AfterFits
  <2> QED BY <1>3, <2>2, <2>3, <2>5
<1> HIDE DEF S, T
<1>8. Nat \subseteq S /\ Nat \subseteq T
  BY <1>5, <1>6, <1>7, Induction
<1>9. ASSUME NEW j \in Nat, j <= n PROVE b[j] <= l
  <2>1. n - j \in Nat /\ n - j <= n /\ n - (n - j) = j
    BY <1>9
  <2> QED BY <1>8, <2>1 DEF T
<1>10. ASSUME NEW j \in Nat, ~(j <= n) PROVE b[j] = l + 1
  BY <1>8, <1>10 DEF S
<1> QED
  BY <1>1, <1>3, <1>9, <1>10

\* The entries of a buffer that ends with one.
LEMMA EntriesAre ==
  ASSUME NEW cells \in Seq(Nat), NEW n \in Nat, Begins(cells)[n] = Len(cells)
  PROVE  Entries(cells) = 1 .. n
<1>1. PICK l \in Nat : l = Len(cells)
  OBVIOUS
<1>2. n <= l
  BY <1>1, BeginsGrow
<1>3. PICK b : b = Begins(cells)
  OBVIOUS
<1>4. \A j \in Nat : IF j <= n THEN b[j] <= l ELSE b[j] = l + 1
  BY <1>1, <1>3, BeginsStop
<1>5. Entries(cells) = {j \in 1 .. l : b[j] <= l}
  BY <1>1, <1>3 DEF Entries
<1>6. \A j \in 1 .. l : b[j] <= l <=> j <= n
  BY <1>4
<1> QED
  BY <1>2, <1>5, <1>6

\* A part of a buffer.
LEMMA PartOf ==
  ASSUME NEW cells \in Seq(Nat), NEW x \in Nat, NEW y \in Nat, x >= 1, y <= Len(cells)
  PROVE  /\ SubSeq(cells, x, y) \in Seq(Nat) /\ Len(SubSeq(cells, x, y)) = (IF x <= y THEN y - x + 1 ELSE 0)
         /\ \A k \in 1 .. Len(SubSeq(cells, x, y)) : SubSeq(cells, x, y)[k] = cells[x + k - 1]
  OBVIOUS

\* Lists of the same length with the same elements are the same.
LEMMA SameList ==
  ASSUME NEW p \in Seq(Nat), NEW s \in Seq(Nat), Len(p) = Len(s), \A k \in 1 .. Len(s) : p[k] = s[k]
  PROVE  p = s
<1>1. PICK n \in Nat : n = Len(s) /\ n = Len(p)
  OBVIOUS
<1>2. DOMAIN p = 1 .. n /\ DOMAIN s = 1 .. n
  BY <1>1
<1>3. p = [k \in 1 .. n |-> p[k]] /\ s = [k \in 1 .. n |-> s[k]]
  BY <1>2
<1> QED
  BY <1>1, <1>3

\* A part that has the cells of a list is that list.
LEMMA PartIs ==
  ASSUME NEW cells \in Seq(Nat), NEW x \in Nat, NEW y \in Nat, x >= 1, y <= Len(cells),
         NEW s \in Seq(Nat), y + 1 = x + Len(s), \A k \in 1 .. Len(s) : s[k] = cells[x + k - 1]
  PROVE  SubSeq(cells, x, y) = s
<1>0. PICK n \in Nat : n = Len(s)
  OBVIOUS
<1>1. PICK p : p = SubSeq(cells, x, y)
  OBVIOUS
<1>2. p \in Seq(Nat) /\ Len(p) = (IF x <= y THEN y - x + 1 ELSE 0) /\ \A k \in 1 .. Len(p) : p[k] = cells[x + k - 1]
  BY <1>1, PartOf
<1>3. Len(p) = n
  BY <1>0, <1>2
<1>4. \A k \in 1 .. Len(s) : p[k] = s[k]
  BY <1>0, <1>2, <1>3
<1>5. p = s
  <2>1. Len(p) = Len(s) /\ p \in Seq(Nat)
    BY <1>0, <1>2, <1>3
  <2> QED BY <1>4, <2>1, SameList
<1> QED
  BY <1>1, <1>5

\* What fits into the buffer is a variable.
LEMMA EntryIsVariable ==
  ASSUME NEW cells \in Seq(Nat), NEW at \in Nat, After(cells, at) <= Len(cells)
  PROVE  EntryAt(cells, at) \in Variable
<1>1. PICK n \in Nat : n = cells[at + 1]
  BY AfterFits
<1>2. PICK d \in Nat : d = cells[at + n + 4]
  BY <1>1, AfterFits
<1>3. at + n + 4 + d <= Len(cells)
  BY <1>1, <1>2, AfterFits
<1>4. NameAt(cells, at) = SubSeq(cells, at + 2, at + 1 + n)
  BY <1>1 DEF NameAt
<1>5. DataAt(cells, at) = SubSeq(cells, at + n + 5, at + n + 4 + d)
  BY <1>1, <1>2 DEF DataAt
<1>6. GuidAt(cells, at) = cells[at + n + 2] /\ AttrAt(cells, at) = cells[at + n + 3]
  BY <1>1 DEF GuidAt, AttrAt
<1>7. cells[at + n + 2] \in Nat /\ cells[at + n + 3] \in Nat
  <2>1. at + n + 2 \in 1 .. Len(cells) /\ at + n + 3 \in 1 .. Len(cells)
    BY <1>3
  <2> QED BY <2>1
<1>8. SubSeq(cells, at + 2, at + 1 + n) \in Seq(Nat)
  <2>1. at + 2 \in Nat /\ at + 1 + n \in Nat /\ at + 2 >= 1 /\ at + 1 + n <= Len(cells)
    BY <1>3
  <2> QED BY <2>1, PartOf
<1>9. SubSeq(cells, at + n + 5, at + n + 4 + d) \in Seq(Nat)
  <2>1. at + n + 5 \in Nat /\ at + n + 4 + d \in Nat /\ at + n + 5 >= 1
    OBVIOUS
  <2> QED BY <1>3, <2>1, PartOf
<1>10. /\ NameAt(cells, at) \in Seq(Nat) /\ DataAt(cells, at) \in Seq(Nat)
       /\ GuidAt(cells, at) \in Nat /\ AttrAt(cells, at) \in Nat
  BY <1>4, <1>5, <1>6, <1>7, <1>8, <1>9
<1> QED
  BY <1>10 DEF EntryAt, Variable

\* UnpackVariableFromBuffer takes the entry at the position.
LEMMA Unpacks ==
  ASSUME NEW cells \in Seq(Nat), NEW at \in Nat, at < Len(cells), NEW u,
         u = UnpackVariableFromBuffer(cells, at), u.ok
  PROVE  /\ u.used \in Nat /\ After(cells, at) = at + u.used /\ at + u.used <= Len(cells)
         /\ u.name = NameAt(cells, at) /\ u.guid = GuidAt(cells, at)
         /\ u.attr = AttrAt(cells, at) /\ u.data = DataAt(cells, at)
<1>1. PICK l \in Nat : l = Len(cells)
  OBVIOUS
<1>2. PICK n \in Nat : n = cells[at + 1]
  <2>1. at + 1 \in 1 .. Len(cells)
    OBVIOUS
  <2> QED BY <2>1
<1>3. PICK d : d = IF n + 4 <= l - at THEN cells[at + n + 4] ELSE 0
  OBVIOUS
<1>4. d \in Nat /\ l - at \in Nat
  <2>1. CASE n + 4 <= l - at
    <3>1. at + n + 4 \in 1 .. l
      BY <1>1, <2>1
    <3> QED BY <1>1, <1>3, <2>1, <3>1
  <2>2. CASE ~(n + 4 <= l - at)
    BY <1>1, <1>3, <2>2
  <2> QED BY <2>1, <2>2
<1>5. u = IF n + 4 + d > l - at THEN [ok |-> FALSE]
          ELSE [ok |-> TRUE, name |-> SubSeq(cells, at + 2, at + n + 1), guid |-> cells[at + n + 2],
                attr |-> cells[at + n + 3], data |-> SubSeq(cells, at + n + 5, at + (n + 4 + d)), used |-> n + 4 + d]
  BY <1>1, <1>2, <1>3, Zenon DEF UnpackVariableFromBuffer
<1>6. ~(n + 4 + d > l - at)
  <2>1. SUFFICES ASSUME n + 4 + d > l - at PROVE FALSE
    OBVIOUS
  <2>2. u = [ok |-> FALSE]
    BY <1>5, <2>1
  <2> QED BY <2>2
<1>7. /\ u.name = SubSeq(cells, at + 2, at + n + 1) /\ u.guid = cells[at + n + 2] /\ u.attr = cells[at + n + 3]
      /\ u.data = SubSeq(cells, at + n + 5, at + (n + 4 + d)) /\ u.used = n + 4 + d
  <2>1. u = [ok |-> TRUE, name |-> SubSeq(cells, at + 2, at + n + 1), guid |-> cells[at + n + 2],
             attr |-> cells[at + n + 3], data |-> SubSeq(cells, at + n + 5, at + (n + 4 + d)), used |-> n + 4 + d]
    BY <1>5, <1>6, Zenon
  <2>2. PICK name, data : name = SubSeq(cells, at + 2, at + n + 1) /\ data = SubSeq(cells, at + n + 5, at + (n + 4 + d))
    OBVIOUS
  <2>3. PICK guid, attr, used : guid = cells[at + n + 2] /\ attr = cells[at + n + 3] /\ used = n + 4 + d
    OBVIOUS
  <2>4. u = [ok |-> TRUE, name |-> name, guid |-> guid, attr |-> attr, data |-> data, used |-> used]
    BY <2>1, <2>2, <2>3, Zenon
  <2>5. u.name = name /\ u.guid = guid /\ u.attr = attr /\ u.data = data /\ u.used = used
    BY <2>4
  <2> QED BY <2>2, <2>3, <2>5, Zenon
<1>8. d = cells[at + n + 4] /\ at + n + 4 + d <= l /\ at + n + 4 <= l
  BY <1>1, <1>3, <1>4, <1>6
<1>9. After(cells, at) = at + n + 4 + d
  <2>1. After(cells, at) = IF at >= l \/ at + n + 4 > l THEN l + 1 ELSE at + n + 4 + cells[at + n + 4]
    BY <1>1, <1>2, Zenon DEF After
  <2> QED BY <1>1, <1>8, <2>1
<1>10. at + n + 1 = at + 1 + n /\ at + (n + 4 + d) = at + n + 4 + d
  BY <1>4
<1>11. NameAt(cells, at) = SubSeq(cells, at + 2, at + 1 + n) /\ GuidAt(cells, at) = cells[at + n + 2]
  BY <1>2, Zenon DEF NameAt, GuidAt
<1>12. AttrAt(cells, at) = cells[at + n + 3] /\ DataAt(cells, at) = SubSeq(cells, at + n + 5, at + n + 4 + d)
  BY <1>2, <1>8, Zenon DEF AttrAt, DataAt
<1>13. u.name = NameAt(cells, at) /\ u.guid = GuidAt(cells, at)
       /\ u.attr = AttrAt(cells, at) /\ u.data = DataAt(cells, at)
  BY <1>7, <1>10, <1>11, <1>12, Zenon
<1>14. u.used \in Nat /\ After(cells, at) = at + u.used /\ at + u.used <= Len(cells)
  <2>1. u.used = n + 4 + d
    BY <1>7
  <2>2. n + 4 + d \in Nat /\ at + (n + 4 + d) = at + n + 4 + d /\ at + (n + 4 + d) <= Len(cells)
    BY <1>1, <1>4, <1>8
  <2> QED BY <1>9, <2>1, <2>2, Zenon
<1> QED
  BY <1>13, <1>14

\* A list grows by one element.
LEMMA AppendOne ==
  ASSUME NEW S, NEW s \in Seq(S), NEW e \in S
  PROVE  /\ Append(s, e) \in Seq(S) /\ Len(Append(s, e)) = Len(s) + 1
         /\ \A j \in 1 .. Len(s) : Append(s, e)[j] = s[j]
         /\ Append(s, e)[Len(s) + 1] = e
  OBVIOUS

\* One more entry of a buffer is listed.
LEMMA ListStep ==
  ASSUME NEW cells \in Seq(Nat), NEW at \in Nat, NEW vs, ListsTo(cells, at, vs), After(cells, at) <= Len(cells)
  PROVE  ListsTo(cells, After(cells, at), Append(vs, EntryAt(cells, at)))
<1>1. PICK e \in Variable : e = EntryAt(cells, at)
  BY EntryIsVariable
<1>2. vs \in Seq(Variable) /\ Begins(cells)[Len(vs)] = at
      /\ \A j \in 1 .. Len(vs) : EntryAt(cells, Begins(cells)[j - 1]) = vs[j]
  BY DEF ListsTo
<1>3. PICK n \in Nat : n = Len(vs)
  BY <1>2
<1>4. PICK b : b = Begins(cells)
  OBVIOUS
<1>5. b[n + 1] = After(cells, b[n]) /\ b[n] = at
  BY <1>2, <1>3, <1>4, BeginsDef
<1>6. PICK ws : ws = Append(vs, e)
  OBVIOUS
<1>7. ws \in Seq(Variable) /\ Len(ws) = n + 1 /\ (\A j \in 1 .. n : ws[j] = vs[j]) /\ ws[n + 1] = e
  BY <1>2, <1>3, <1>6, AppendOne
<1>8. ASSUME NEW j \in 1 .. n + 1 PROVE EntryAt(cells, b[j - 1]) = ws[j]
  <2>1. CASE j \in 1 .. n
    BY <1>2, <1>3, <1>4, <1>7, <2>1
  <2>2. CASE j = n + 1
    <3>1. j - 1 = n
      BY <2>2
    <3> QED BY <1>1, <1>5, <1>7, <2>2, <3>1
  <2> QED BY <2>1, <2>2
<1>9. ws \in Seq(Variable) /\ After(cells, at) <= Len(cells) /\ Begins(cells)[Len(ws)] = After(cells, at)
      /\ \A j \in 1 .. Len(ws) : EntryAt(cells, Begins(cells)[j - 1]) = ws[j]
  BY <1>4, <1>5, <1>7, <1>8
<1>10. ListsTo(cells, After(cells, at), ws)
  BY <1>9 DEF ListsTo
<1> QED
  BY <1>1, <1>6, <1>10

\* A buffer begins with another.
BeginsWith(more, cells) == Len(cells) <= Len(more) /\ \A k \in 1 .. Len(cells) : more[k] = cells[k]

\* The same part of both.
LEMMA SamePart ==
  ASSUME NEW cells \in Seq(Nat), NEW more \in Seq(Nat), BeginsWith(more, cells),
         NEW x \in Nat, NEW y \in Nat, x >= 1, x <= y + 1, y <= Len(cells)
  PROVE  SubSeq(more, x, y) = SubSeq(cells, x, y)
<1>1. PICK s : s = SubSeq(cells, x, y)
  OBVIOUS
<1>2. s \in Seq(Nat) /\ Len(s) = (IF x <= y THEN y - x + 1 ELSE 0) /\ \A k \in 1 .. Len(s) : s[k] = cells[x + k - 1]
  <2>1. /\ SubSeq(cells, x, y) \in Seq(Nat) /\ Len(SubSeq(cells, x, y)) = (IF x <= y THEN y - x + 1 ELSE 0)
        /\ \A k \in 1 .. Len(SubSeq(cells, x, y)) : SubSeq(cells, x, y)[k] = cells[x + k - 1]
    BY PartOf
  <2> QED BY <1>1, <2>1, Zenon
<1>3. PICK n \in Nat : n = Len(s)
  <2>1. s \in Seq(Nat)
    BY <1>2
  <2> QED BY <2>1
<1>4. y + 1 = x + n
  BY <1>2, <1>3
<1>5. \A k \in 1 .. Len(cells) : more[k] = cells[k]
  BY DEF BeginsWith
<1>6. ASSUME NEW k \in 1 .. n PROVE s[k] = more[x + k - 1]
  <2>1. x + k - 1 \in 1 .. Len(cells)
    BY <1>4
  <2> QED BY <1>2, <1>3, <1>5, <2>1
<1>7. y + 1 = x + Len(s) /\ y <= Len(more) /\ \A k \in 1 .. Len(s) : s[k] = more[x + k - 1]
  BY <1>3, <1>4, <1>6 DEF BeginsWith
<1>8. SubSeq(more, x, y) = s
  BY <1>2, <1>7, PartIs
<1> QED
  BY <1>1, <1>8

\* An entry that fits into the shorter buffer is the same entry of the longer.
LEMMA SameEntry ==
  ASSUME NEW cells \in Seq(Nat), NEW more \in Seq(Nat), BeginsWith(more, cells), NEW at \in Nat,
         After(cells, at) <= Len(cells)
  PROVE  After(more, at) = After(cells, at) /\ EntryAt(more, at) = EntryAt(cells, at)
<1>1. PICK l \in Nat, m \in Nat : l = Len(cells) /\ m = Len(more) /\ l <= m
  BY DEF BeginsWith
<1>2. \A k \in 1 .. l : more[k] = cells[k]
  BY <1>1 DEF BeginsWith
<1>3. PICK n \in Nat : n = cells[at + 1]
  BY AfterFits
<1>4. PICK d \in Nat : d = cells[at + n + 4]
  BY <1>3, AfterFits
<1>5. at + n + 4 + d <= l /\ After(cells, at) = at + n + 4 + d
  BY <1>1, <1>3, <1>4, AfterFits
<1>6. at + 1 \in 1 .. l /\ at + n + 2 \in 1 .. l /\ at + n + 3 \in 1 .. l /\ at + n + 4 \in 1 .. l
  BY <1>5
<1>7. more[at + 1] = n /\ more[at + n + 2] = cells[at + n + 2] /\ more[at + n + 3] = cells[at + n + 3]
      /\ more[at + n + 4] = d
  BY <1>2, <1>3, <1>4, <1>6
<1>8. After(more, at) = at + n + 4 + d
  <2>1. After(more, at) = IF at >= m \/ at + n + 4 > m THEN m + 1 ELSE at + n + 4 + d
    BY <1>1, <1>7, Zenon DEF After
  <2>2. ~(at >= m \/ at + n + 4 > m)
    BY <1>1, <1>5
  <2> QED BY <2>1, <2>2
<1>9. SubSeq(more, at + 2, at + 1 + n) = SubSeq(cells, at + 2, at + 1 + n)
  <2>1. at + 2 \in Nat /\ at + 1 + n \in Nat /\ at + 2 >= 1 /\ at + 2 <= (at + 1 + n) + 1 /\ at + 1 + n <= Len(cells)
    BY <1>1, <1>5
  <2> QED BY <2>1, SamePart
<1>10. SubSeq(more, at + n + 5, at + n + 4 + d) = SubSeq(cells, at + n + 5, at + n + 4 + d)
  <2>1. at + n + 5 \in Nat /\ at + n + 4 + d \in Nat /\ at + n + 5 >= 1 /\ at + n + 5 <= (at + n + 4 + d) + 1
        /\ at + n + 4 + d <= Len(cells)
    BY <1>1, <1>5
  <2> QED BY <2>1, SamePart
<1>11. NameAt(more, at) = NameAt(cells, at)
  BY <1>3, <1>7, <1>9, Zenon DEF NameAt
<1>12. GuidAt(more, at) = GuidAt(cells, at) /\ AttrAt(more, at) = AttrAt(cells, at)
  BY <1>3, <1>7, Zenon DEF GuidAt, AttrAt
<1>13. DataAt(more, at) = DataAt(cells, at)
  BY <1>3, <1>4, <1>7, <1>10, Zenon DEF DataAt
<1>14. EntryAt(more, at) = EntryAt(cells, at)
  BY <1>11, <1>12, <1>13, Zenon DEF EntryAt
<1> QED
  BY <1>5, <1>8, <1>14

\* What the longer buffer lists up to the end of the shorter.
LEMMA StillLists ==
  ASSUME NEW cells \in Seq(Nat), NEW more \in Seq(Nat), BeginsWith(more, cells), NEW vs,
         ListsTo(cells, Len(cells), vs)
  PROVE  ListsTo(more, Len(cells), vs)
<1>1. vs \in Seq(Variable) /\ Begins(cells)[Len(vs)] = Len(cells)
      /\ \A j \in 1 .. Len(vs) : EntryAt(cells, Begins(cells)[j - 1]) = vs[j]
  BY DEF ListsTo
<1>2. PICK n \in Nat : n = Len(vs)
  BY <1>1
<1>3. PICK b : b = Begins(cells)
  OBVIOUS
<1>4. PICK c : c = Begins(more)
  OBVIOUS
<1>5. PICK l \in Nat : l = Len(cells)
  OBVIOUS
<1>6. b \in [Nat -> Nat] /\ b[0] = 0 /\ \A j \in Nat : b[j + 1] = After(cells, b[j])
  BY <1>3, BeginsDef
<1>7. c[0] = 0 /\ \A j \in Nat : c[j + 1] = After(more, c[j])
  BY <1>4, BeginsDef
<1>8. \A j \in Nat : j <= n => b[j] <= l
  BY <1>1, <1>2, <1>3, <1>5, BeginsStop
<1>9. ASSUME NEW j \in Nat, j + 1 <= n
      PROVE  After(more, b[j]) = b[j + 1] /\ EntryAt(more, b[j]) = EntryAt(cells, b[j])
  <2>1. b[j] \in Nat /\ After(cells, b[j]) <= Len(cells)
    <3>1. j + 1 \in Nat
      OBVIOUS
    <3> QED BY <1>5, <1>6, <1>8, <1>9, <3>1
  <2> QED BY <1>6, <2>1, SameEntry
<1> DEFINE S == {j \in Nat : j <= n => c[j] = b[j]}
<1>10. 0 \in S
  BY <1>6, <1>7
<1>11. \A j \in Nat : j \in S => j + 1 \in S
  <2> TAKE j \in Nat
  <2> HAVE j \in S
  <2>1. SUFFICES ASSUME j + 1 <= n PROVE c[j + 1] = b[j + 1]
    OBVIOUS
  <2>2. c[j] = b[j]
    BY <2>1
  <2> QED BY <1>7, <1>9, <2>1, <2>2
<1> HIDE DEF S
<1>12. \A j \in Nat : j <= n => c[j] = b[j]
  <2>1. Nat \subseteq S
    BY <1>10, <1>11, Induction
  <2> QED BY <2>1 DEF S
<1>13. ASSUME NEW j \in 1 .. n PROVE EntryAt(more, c[j - 1]) = vs[j]
  <2>1. j - 1 \in Nat /\ (j - 1) + 1 <= n /\ j - 1 <= n
    OBVIOUS
  <2>2. EntryAt(more, b[j - 1]) = EntryAt(cells, b[j - 1])
    BY <1>9, <2>1
  <2>3. EntryAt(cells, b[j - 1]) = vs[j]
    BY <1>1, <1>2, <1>3
  <2> QED BY <1>12, <2>1, <2>2, <2>3
<1>14. c[n] = l /\ l <= Len(more)
  BY <1>1, <1>2, <1>3, <1>5, <1>12 DEF BeginsWith
<1>15. vs \in Seq(Variable) /\ Len(cells) <= Len(more) /\ Begins(more)[Len(vs)] = Len(cells)
       /\ \A j \in 1 .. Len(vs) : EntryAt(more, Begins(more)[j - 1]) = vs[j]
  BY <1>1, <1>2, <1>4, <1>5, <1>13, <1>14
<1> QED
  BY <1>15 DEF ListsTo

\* r is p, of l cells, and then q, of m cells.
JoinOf(r, p, q, l, m) ==
  /\ r \in Seq(Nat) /\ l + m = Len(r)
  /\ \A k \in 1 .. l : r[k] = p[k]
  /\ \A k \in 1 .. m : r[l + k] = q[k]

\* Lists put one after the other.
LEMMA OneAfterTheOther ==
  ASSUME NEW p \in Seq(Nat), NEW q \in Seq(Nat), NEW l \in Nat, NEW m \in Nat, l = Len(p), m = Len(q)
  PROVE  JoinOf(p \o q, p, q, l, m)
<1>1. p \o q \in Seq(Nat) /\ l + m = Len(p \o q)
  OBVIOUS
<1>2. \A k \in 1 .. l : (p \o q)[k] = p[k]
  OBVIOUS
<1>3. \A k \in 1 .. m : (p \o q)[l + k] = q[k]
  OBVIOUS
<1> QED
  BY <1>1, <1>2, <1>3, Zenon DEF JoinOf

\* After l cells come those of a variable whose name and contents have n and d cells.
Added(more, l, n, d, name, guid, attr, data) ==
  /\ Len(more) = l + n + 4 + d /\ more[l + 1] = n
  /\ \A k \in 1 .. n : more[l + 1 + k] = name[k]
  /\ more[l + n + 2] = guid /\ more[l + n + 3] = attr /\ more[l + n + 4] = d
  /\ \A k \in 1 .. d : more[l + n + 4 + k] = data[k]

\* The cells that SerializeVariablesAddVariable leaves.
LEMMA AddedCells ==
  ASSUME NEW cells \in Seq(Nat), NEW name \in Seq(Nat), NEW guid \in Nat, NEW attr \in Nat, NEW data \in Seq(Nat),
         NEW l \in Nat, NEW n \in Nat, NEW d \in Nat, l = Len(cells), n = Len(name), d = Len(data)
  PROVE  \E more \in Seq(Nat) :
           /\ more = SerializeVariablesAddVariable(cells, name, guid, attr, data)
           /\ BeginsWith(more, cells) /\ Added(more, l, n, d, name, guid, attr, data)
<1>2. PICK one : one = <<n>>
  OBVIOUS
<1>3. PICK three : three = <<guid, attr, d>>
  OBVIOUS
<1>4. one \in Seq(Nat) /\ 1 = Len(one) /\ one[1] = n /\ 1 \in Nat
  BY <1>2
<1>5. three \in Seq(Nat) /\ 3 = Len(three) /\ three[1] = guid /\ three[2] = attr /\ three[3] = d /\ 3 \in Nat
  BY <1>3
<1>6. PICK p : p = cells \o one
  OBVIOUS
<1>7. JoinOf(p, cells, one, l, 1)
  BY <1>4, <1>6, OneAfterTheOther, Zenon
<1>8. p \in Seq(Nat) /\ l + 1 = Len(p) /\ (\A k \in 1 .. l : p[k] = cells[k]) /\ \A k \in 1 .. 1 : p[l + k] = one[k]
  BY <1>7 DEF JoinOf
<1>9. l + 1 \in Nat /\ (l + 1) + n \in Nat /\ ((l + 1) + n) + 3 \in Nat
  OBVIOUS
<1>10. PICK q : q = p \o name
  OBVIOUS
<1>11. JoinOf(q, p, name, l + 1, n)
  BY <1>8, <1>9, <1>10, OneAfterTheOther, Zenon
<1>12. /\ q \in Seq(Nat) /\ (l + 1) + n = Len(q)
       /\ (\A k \in 1 .. l + 1 : q[k] = p[k]) /\ \A k \in 1 .. n : q[(l + 1) + k] = name[k]
  BY <1>11 DEF JoinOf
<1>13. PICK r : r = q \o three
  OBVIOUS
<1>30. JoinOf(r, q, three, (l + 1) + n, 3)
  BY <1>5, <1>9, <1>12, <1>13, OneAfterTheOther, Zenon
<1>31. /\ r \in Seq(Nat) /\ ((l + 1) + n) + 3 = Len(r)
       /\ (\A k \in 1 .. (l + 1) + n : r[k] = q[k]) /\ \A k \in 1 .. 3 : r[((l + 1) + n) + k] = three[k]
  BY <1>30 DEF JoinOf
<1>32. PICK more : more = r \o data
  OBVIOUS
<1>33. JoinOf(more, r, data, ((l + 1) + n) + 3, d)
  BY <1>9, <1>31, <1>32, OneAfterTheOther, Zenon
<1>34. /\ more \in Seq(Nat) /\ (((l + 1) + n) + 3) + d = Len(more)
       /\ (\A k \in 1 .. ((l + 1) + n) + 3 : more[k] = r[k]) /\ \A k \in 1 .. d : more[(((l + 1) + n) + 3) + k] = data[k]
  BY <1>33 DEF JoinOf
<1>14. more = SerializeVariablesAddVariable(cells, name, guid, attr, data)
  BY <1>2, <1>3, <1>6, <1>10, <1>13, <1>32, Zenon DEF SerializeVariablesAddVariable
<1>15. ASSUME NEW k \in 1 .. l PROVE more[k] = cells[k]
  <2>1. k \in 1 .. l + 1 /\ k \in 1 .. (l + 1) + n /\ k \in 1 .. ((l + 1) + n) + 3
    OBVIOUS
  <2>2. more[k] = r[k]
    BY <1>34, <2>1, Zenon
  <2>3. r[k] = q[k]
    BY <1>31, <2>1, Zenon
  <2>4. q[k] = p[k]
    BY <1>12, <2>1, Zenon
  <2>5. p[k] = cells[k]
    BY <1>8, Zenon
  <2> QED BY <2>2, <2>3, <2>4, <2>5, Zenon
<1>16. more[l + 1] = n
  <2>1. l + 1 \in 1 .. l + 1 /\ l + 1 \in 1 .. (l + 1) + n /\ l + 1 \in 1 .. ((l + 1) + n) + 3 /\ 1 \in 1 .. 1
    OBVIOUS
  <2>2. more[l + 1] = r[l + 1]
    BY <1>34, <2>1, Zenon
  <2>3. r[l + 1] = q[l + 1]
    BY <1>31, <2>1, Zenon
  <2>4. q[l + 1] = p[l + 1]
    BY <1>12, <2>1, Zenon
  <2>5. p[l + 1] = one[1]
    BY <1>8, <2>1, Zenon
  <2> QED BY <1>4, <2>2, <2>3, <2>4, <2>5, Zenon
<1>17. ASSUME NEW k \in 1 .. n PROVE more[l + 1 + k] = name[k]
  <2>1. (l + 1) + k \in 1 .. (l + 1) + n /\ (l + 1) + k \in 1 .. ((l + 1) + n) + 3
    OBVIOUS
  <2>2. more[(l + 1) + k] = r[(l + 1) + k]
    BY <1>34, <2>1, Zenon
  <2>3. r[(l + 1) + k] = q[(l + 1) + k]
    BY <1>31, <2>1, Zenon
  <2>4. q[(l + 1) + k] = name[k]
    BY <1>12, Zenon
  <2> QED BY <2>2, <2>3, <2>4, Zenon
<1>18. ASSUME NEW k \in 1 .. 3 PROVE more[((l + 1) + n) + k] = three[k]
  <2>1. ((l + 1) + n) + k \in 1 .. ((l + 1) + n) + 3
    OBVIOUS
  <2> QED BY <1>31, <1>34, <2>1, Zenon
<1>19. more[l + n + 2] = guid /\ more[l + n + 3] = attr /\ more[l + n + 4] = d
  <2>1. 1 \in 1 .. 3 /\ 2 \in 1 .. 3 /\ 3 \in 1 .. 3
    OBVIOUS
  <2>2. ((l + 1) + n) + 1 = l + n + 2 /\ ((l + 1) + n) + 2 = l + n + 3 /\ ((l + 1) + n) + 3 = l + n + 4
    OBVIOUS
  <2>3. more[((l + 1) + n) + 1] = guid /\ more[((l + 1) + n) + 2] = attr /\ more[((l + 1) + n) + 3] = d
    BY <1>5, <1>18, <2>1, Zenon
  <2> QED BY <2>2, <2>3, Zenon
<1>20. ASSUME NEW k \in 1 .. d PROVE more[l + n + 4 + k] = data[k]
  <2>1. (((l + 1) + n) + 3) + k = l + n + 4 + k
    OBVIOUS
  <2> QED BY <1>34, <2>1, Zenon
<1>21. BeginsWith(more, cells)
  <2>1. Len(cells) <= Len(more)
    BY <1>34
  <2> QED BY <1>15, <2>1 DEF BeginsWith
<1>22. Len(more) = l + n + 4 + d
  BY <1>34
<1>23. Added(more, l, n, d, name, guid, attr, data)
  BY <1>16, <1>17, <1>19, <1>20, <1>22, Zenon DEF Added
<1> QED
  BY <1>14, <1>21, <1>23, <1>34, Zenon

\* What is added is the last entry.
LEMMA AddedEntry ==
  ASSUME NEW cells \in Seq(Nat), NEW name \in Seq(Nat), NEW guid \in Nat, NEW attr \in Nat, NEW data \in Seq(Nat)
  PROVE  \E more \in Seq(Nat) :
           /\ more = SerializeVariablesAddVariable(cells, name, guid, attr, data)
           /\ BeginsWith(more, cells) /\ After(more, Len(cells)) = Len(more)
           /\ EntryAt(more, Len(cells)) = [name |-> name, guid |-> guid, attr |-> attr, data |-> data]
<1>1. PICK l \in Nat, n \in Nat, d \in Nat : l = Len(cells) /\ n = Len(name) /\ d = Len(data)
  OBVIOUS
<1>2. PICK more \in Seq(Nat) :
           /\ more = SerializeVariablesAddVariable(cells, name, guid, attr, data)
           /\ BeginsWith(more, cells) /\ Added(more, l, n, d, name, guid, attr, data)
  BY <1>1, AddedCells
<1>20. /\ Len(more) = l + n + 4 + d /\ more[l + 1] = n
       /\ \A k \in 1 .. n : more[l + 1 + k] = name[k]
       /\ more[l + n + 2] = guid /\ more[l + n + 3] = attr /\ more[l + n + 4] = d
       /\ \A k \in 1 .. d : more[l + n + 4 + k] = data[k]
  BY <1>2 DEF Added
<1>3. PICK m \in Nat : m = Len(more) /\ m = l + n + 4 + d
  BY <1>20
<1>4. After(more, l) = m
  <2>1. After(more, l) = IF l >= m \/ l + n + 4 > m THEN m + 1 ELSE l + n + 4 + d
    BY <1>3, <1>20, Zenon DEF After
  <2> QED BY <1>3, <2>1
<1>5. SubSeq(more, l + 2, l + 1 + n) = name
  <2>1. l + 2 \in Nat /\ l + 1 + n \in Nat /\ l + 2 >= 1 /\ l + 1 + n <= Len(more)
    BY <1>3
  <2>2. (l + 1 + n) + 1 = (l + 2) + Len(name)
    BY <1>1
  <2>3. \A k \in 1 .. Len(name) : name[k] = more[(l + 2) + k - 1]
    <3> SUFFICES ASSUME NEW k \in 1 .. n PROVE name[k] = more[(l + 2) + k - 1]
      BY <1>1
    <3>1. (l + 2) + k - 1 = l + 1 + k
      OBVIOUS
    <3> QED BY <1>20, <3>1
  <2> QED BY <2>1, <2>2, <2>3, PartIs
<1>6. SubSeq(more, l + n + 5, l + n + 4 + d) = data
  <2>1. l + n + 5 \in Nat /\ l + n + 4 + d \in Nat /\ l + n + 5 >= 1 /\ l + n + 4 + d <= Len(more)
    BY <1>3
  <2>2. (l + n + 4 + d) + 1 = (l + n + 5) + Len(data)
    BY <1>1
  <2>3. \A k \in 1 .. Len(data) : data[k] = more[(l + n + 5) + k - 1]
    <3> SUFFICES ASSUME NEW k \in 1 .. d PROVE data[k] = more[(l + n + 5) + k - 1]
      BY <1>1
    <3>1. (l + n + 5) + k - 1 = l + n + 4 + k
      OBVIOUS
    <3> QED BY <1>20, <3>1
  <2> QED BY <2>1, <2>2, <2>3, PartIs
<1>7. more[l + 1] = n /\ more[l + n + 2] = guid /\ more[l + n + 3] = attr /\ more[l + n + 4] = d
  BY <1>20
<1>8. NameAt(more, l) = name
  BY <1>5, <1>7, Zenon DEF NameAt
<1>9. GuidAt(more, l) = guid /\ AttrAt(more, l) = attr
  BY <1>7, Zenon DEF GuidAt, AttrAt
<1>10. DataAt(more, l) = data
  BY <1>6, <1>7, Zenon DEF DataAt
<1>11. EntryAt(more, l) = [name |-> name, guid |-> guid, attr |-> attr, data |-> data]
  BY <1>8, <1>9, <1>10, Zenon DEF EntryAt
<1> QED
  BY <1>1, <1>2, <1>3, <1>4, <1>11

\* So the list grows by that variable.
LEMMA ListAppend ==
  ASSUME NEW cells \in Seq(Nat), NEW vs, ListsTo(cells, Len(cells), vs),
         NEW name \in Seq(Nat), NEW guid \in Nat, NEW attr \in Nat, NEW data \in Seq(Nat)
  PROVE  \E more \in Seq(Nat) :
           /\ more = SerializeVariablesAddVariable(cells, name, guid, attr, data)
           /\ ListsTo(more, Len(more), Append(vs, [name |-> name, guid |-> guid, attr |-> attr, data |-> data]))
<1>1. PICK more \in Seq(Nat) :
           /\ more = SerializeVariablesAddVariable(cells, name, guid, attr, data)
           /\ BeginsWith(more, cells) /\ After(more, Len(cells)) = Len(more)
           /\ EntryAt(more, Len(cells)) = [name |-> name, guid |-> guid, attr |-> attr, data |-> data]
  BY AddedEntry
<1>2. BeginsWith(more, cells)
  BY <1>1
<1>3. ListsTo(more, Len(cells), vs)
  BY <1>2, StillLists
<1>4. After(more, Len(cells)) <= Len(more) /\ Len(cells) \in Nat
  <2>1. Len(more) \in Nat /\ Len(cells) \in Nat
    OBVIOUS
  <2> QED BY <1>1, <2>1
<1>5. ListsTo(more, After(more, Len(cells)), Append(vs, EntryAt(more, Len(cells))))
  BY <1>3, <1>4, ListStep
<1> QED
  BY <1>1, <1>5, Zenon

\* ws is vs, each with the name that it goes by: its own, or that of the one before it.
NamedAs(vs, ws) ==
  /\ vs \in Seq(Variable) /\ ws \in Seq(Variable) /\ Len(ws) = Len(vs)
  /\ \A j \in 1 .. Len(vs) :
       /\ ws[j].guid = vs[j].guid /\ ws[j].attr = vs[j].attr /\ ws[j].data = vs[j].data
       /\ vs[j].name # <<>> => ws[j].name = vs[j].name
       /\ vs[j].name = <<>> => j > 1 /\ ws[j].name = ws[j - 1].name

\* The buffer up to the position is read as ws, and the last name is known.
Follows(cells, at, name, ws) ==
  /\ \E vs : ListsTo(cells, at, vs) /\ NamedAs(vs, ws)
  /\ IF Len(ws) = 0 THEN name = <<>> ELSE name = ws[Len(ws)].name

\* The first m of the list, set one after the other, take variable i from old to new.
Is(v, i) == v.guid = GUID /\ v.name = Name(i)
LastFor(ws, m, i, old, new) ==
  \/ new = old /\ \A j \in 1 .. m : ~Is(ws[j], i)
  \/ \E j \in 1 .. m : /\ Is(ws[j], i) /\ new = Stored(ws[j].attr, ws[j].data)
                       /\ \A k \in j + 1 .. m : ~Is(ws[k], i)

\* Nothing goes by no name.
LEMMA AllNamed ==
  ASSUME NEW vs, NEW ws, NamedAs(vs, ws)
  PROVE  \A j \in 1 .. Len(ws) : ws[j].name # <<>>
<1>1. PICK n \in Nat : n = Len(vs) /\ n = Len(ws)
  BY DEF NamedAs
<1>2. \A j \in 1 .. n : /\ vs[j].name # <<>> => ws[j].name = vs[j].name
                        /\ vs[j].name = <<>> => j > 1 /\ ws[j].name = ws[j - 1].name
  BY <1>1 DEF NamedAs
<1> DEFINE S == {j \in Nat : j >= 1 /\ j <= n => ws[j].name # <<>>}
<1>3. 0 \in S
  OBVIOUS
<1>4. \A j \in Nat : j \in S => j + 1 \in S
  <2> TAKE j \in Nat
  <2> HAVE j \in S
  <2>1. SUFFICES ASSUME j + 1 <= n PROVE ws[j + 1].name # <<>>
    OBVIOUS
  <2>2. j + 1 \in 1 .. n /\ (j + 1) - 1 = j
    BY <2>1
  <2>3. CASE vs[j + 1].name # <<>>
    BY <1>2, <2>2, <2>3, Zenon
  <2>4. CASE vs[j + 1].name = <<>>
    <3>1. j + 1 > 1 /\ ws[j + 1].name = ws[j].name
      BY <1>2, <2>2, <2>4, Zenon
    <3>2. ws[j].name # <<>>
      BY <2>2, <3>1
    <3> QED BY <3>1, <3>2, Zenon
  <2> QED BY <2>3, <2>4
<1> HIDE DEF S
<1>5. Nat \subseteq S
  BY <1>3, <1>4, Induction
<1>6. ASSUME NEW j \in 1 .. n PROVE ws[j].name # <<>>
  BY <1>5 DEF S
<1> QED
  BY <1>1, <1>6

\* A list of names is taken one further.
LEMMA NamedStep ==
  ASSUME NEW vs, NEW ws, NamedAs(vs, ws), NEW v \in Variable, NEW w \in Variable,
         w.guid = v.guid, w.attr = v.attr, w.data = v.data,
         v.name # <<>> => w.name = v.name,
         v.name = <<>> => Len(ws) > 0 /\ w.name = ws[Len(ws)].name
  PROVE  NamedAs(Append(vs, v), Append(ws, w))
<1>1. vs \in Seq(Variable) /\ ws \in Seq(Variable) /\ Len(ws) = Len(vs)
  BY DEF NamedAs
<1>2. PICK n \in Nat : n = Len(vs) /\ n = Len(ws)
  BY <1>1
<1>3. \A j \in 1 .. n :
       /\ ws[j].guid = vs[j].guid /\ ws[j].attr = vs[j].attr /\ ws[j].data = vs[j].data
       /\ vs[j].name # <<>> => ws[j].name = vs[j].name
       /\ vs[j].name = <<>> => j > 1 /\ ws[j].name = ws[j - 1].name
  BY <1>2 DEF NamedAs
<1>4. PICK vv : vv = Append(vs, v)
  OBVIOUS
<1>5. PICK ww : ww = Append(ws, w)
  OBVIOUS
<1>6. vv \in Seq(Variable) /\ Len(vv) = n + 1 /\ (\A j \in 1 .. n : vv[j] = vs[j]) /\ vv[n + 1] = v
  BY <1>1, <1>2, <1>4, AppendOne
<1>7. ww \in Seq(Variable) /\ Len(ww) = n + 1 /\ (\A j \in 1 .. n : ww[j] = ws[j]) /\ ww[n + 1] = w
  BY <1>1, <1>2, <1>5, AppendOne
<1>8. ASSUME NEW j \in 1 .. n + 1
      PROVE  /\ ww[j].guid = vv[j].guid /\ ww[j].attr = vv[j].attr /\ ww[j].data = vv[j].data
             /\ vv[j].name # <<>> => ww[j].name = vv[j].name
             /\ vv[j].name = <<>> => j > 1 /\ ww[j].name = ww[j - 1].name
  <2>1. CASE j \in 1 .. n
    <3>1. vv[j] = vs[j] /\ ww[j] = ws[j]
      BY <1>6, <1>7, <2>1
    <3>2. j > 1 => ww[j - 1] = ws[j - 1]
      BY <1>7, <2>1
    <3> QED BY <1>3, <2>1, <3>1, <3>2, Zenon
  <2>2. CASE j = n + 1
    <3>1. vv[j] = v /\ ww[j] = w
      BY <1>6, <1>7, <2>2
    <3>2. Len(ws) > 0 => j > 1 /\ ww[j - 1] = ws[Len(ws)]
      BY <1>2, <1>7, <2>2
    <3> QED BY <3>1, <3>2, Zenon
  <2> QED BY <2>1, <2>2
<1>9. NamedAs(vv, ww)
  BY <1>6, <1>7, <1>8 DEF NamedAs
<1> QED
  BY <1>4, <1>5, <1>9

\* A variable that has fields.
LEMMA VariableFields ==
  ASSUME NEW name \in Seq(Nat), NEW guid \in Nat, NEW attr \in Nat, NEW data \in Seq(Nat),
         NEW v, v = [name |-> name, guid |-> guid, attr |-> attr, data |-> data]
  PROVE  v \in Variable /\ v.name = name /\ v.guid = guid /\ v.attr = attr /\ v.data = data
  BY DEF Variable

\* The fields of a variable.
LEMMA FieldsOf ==
  ASSUME NEW v \in Variable
  PROVE  v.name \in Seq(Nat) /\ v.guid \in Nat /\ v.attr \in Nat /\ v.data \in Seq(Nat)
  BY DEF Variable

\* One more entry is read, under the name it goes by.
LEMMA FollowStep ==
  ASSUME NEW cells \in Seq(Nat), NEW at \in Nat, NEW name, NEW ws, Follows(cells, at, name, ws),
         After(cells, at) <= Len(cells), ~(NameAt(cells, at) = <<>> /\ name = <<>>),
         NEW called, called = (IF NameAt(cells, at) = <<>> THEN name ELSE NameAt(cells, at)),
         NEW w, w = [name |-> called, guid |-> GuidAt(cells, at), attr |-> AttrAt(cells, at), data |-> DataAt(cells, at)]
  PROVE  w \in Variable /\ Follows(cells, After(cells, at), called, Append(ws, w))
<1>1. PICK vs : ListsTo(cells, at, vs) /\ NamedAs(vs, ws)
  BY DEF Follows
<1>2. PICK v \in Variable : v = EntryAt(cells, at)
  BY EntryIsVariable
<1>3. v.name = NameAt(cells, at) /\ v.guid = GuidAt(cells, at) /\ v.attr = AttrAt(cells, at) /\ v.data = DataAt(cells, at)
  BY <1>2 DEF EntryAt
<1>4. v.name \in Seq(Nat) /\ v.guid \in Nat /\ v.attr \in Nat /\ v.data \in Seq(Nat)
  BY FieldsOf
<1>5. ws \in Seq(Variable) /\ Len(ws) \in Nat
  BY <1>1 DEF NamedAs
<1>6. v.name = <<>> => Len(ws) > 0 /\ called = ws[Len(ws)].name
  <2>1. SUFFICES ASSUME v.name = <<>> PROVE Len(ws) > 0 /\ called = ws[Len(ws)].name
    OBVIOUS
  <2>2. NameAt(cells, at) = <<>> /\ called = name /\ name # <<>>
    BY <1>3, <2>1
  <2>3. Len(ws) # 0 /\ name = ws[Len(ws)].name
    BY <2>2 DEF Follows
  <2> QED BY <1>5, <2>2, <2>3
<1>7. v.name # <<>> => called = v.name
  BY <1>3
<1>8. called \in Seq(Nat)
  <2>1. CASE v.name = <<>>
    <3>1. Len(ws) \in 1 .. Len(ws) /\ called = ws[Len(ws)].name
      BY <1>5, <1>6, <2>1
    <3>2. ws[Len(ws)] \in Variable
      BY <1>5, <3>1
    <3> QED BY <3>1, <3>2, FieldsOf
  <2>2. CASE v.name # <<>>
    BY <1>4, <1>7, <2>2
  <2> QED BY <2>1, <2>2
<1>9. w = [name |-> called, guid |-> v.guid, attr |-> v.attr, data |-> v.data]
  BY <1>3
<1>10. w \in Variable /\ w.name = called /\ w.guid = v.guid /\ w.attr = v.attr /\ w.data = v.data
  BY <1>4, <1>8, <1>9, VariableFields
<1>11. NamedAs(Append(vs, v), Append(ws, w))
  BY <1>1, <1>6, <1>7, <1>10, NamedStep
<1>12. ListsTo(cells, After(cells, at), Append(vs, v))
  BY <1>1, <1>2, ListStep
<1>13. PICK ww : ww = Append(ws, w)
  OBVIOUS
<1>14. Len(ww) = Len(ws) + 1 /\ ww[Len(ws) + 1] = w
  BY <1>5, <1>10, <1>13, AppendOne
<1>15. Len(ww) # 0 /\ called = ww[Len(ww)].name
  BY <1>5, <1>10, <1>14
<1>16. Follows(cells, After(cells, at), called, ww)
  BY <1>11, <1>12, <1>13, <1>15 DEF Follows
<1> QED
  BY <1>10, <1>13, <1>16

\* The names differ, and none is empty.
LEMMA NamesDiffer ==
  ASSUME NEW i \in NvIds
  PROVE  /\ Name(i) \in Seq(Nat) /\ Name(i) # <<>>
         /\ \A k \in NvIds : Name(k) = Name(i) => k = i
<1>0. Len(NvNames) \in Nat /\ DOMAIN NvNames = 1 .. Len(NvNames)
  BY NvAssumption
<1>1. \A k \in 1 .. Len(NvNames) : NvNames[k] \in Seq(Nat) /\ NvNames[k] # <<>> /\ NvNames[k] # <<8, 8>>
  <2> TAKE k \in 1 .. Len(NvNames)
  <2>1. PICK S : S = Seq(Nat) \ {<<>>, <<8, 8>>}
    OBVIOUS
  <2>2. NvNames \in Seq(S)
    BY <2>1, NvAssumption
  <2>3. NvNames[k] \in S
    BY <2>2
  <2> QED BY <2>1, <2>3
<1>2. \A k, m \in 1 .. Len(NvNames) : NvNames[k] = NvNames[m] => k = m
  BY <1>0, NvAssumption
<1>3. Name(0) = <<8, 8>> /\ \A k \in NvIds : k # 0 => Name(k) = NvNames[k] /\ k \in 1 .. Len(NvNames)
  BY <1>0 DEF Name, Flag, NvIds
<1>4. <<8, 8>> \in Seq(Nat) /\ <<8, 8>> # <<>>
  OBVIOUS
<1>5. Name(i) \in Seq(Nat) /\ Name(i) # <<>>
  <2>1. CASE i = 0
    BY <1>3, <1>4, <2>1
  <2>2. CASE i # 0
    BY <1>1, <1>3, <2>2
  <2> QED BY <2>1, <2>2
<1>6. ASSUME NEW k \in NvIds, Name(k) = Name(i) PROVE k = i
  <2>1. CASE i = 0
    BY <1>1, <1>3, <1>6, <2>1
  <2>2. CASE i # 0 /\ k = 0
    BY <1>1, <1>3, <1>6, <2>2
  <2>3. CASE i # 0 /\ k # 0
    BY <1>2, <1>3, <1>6, <2>3
  <2> QED BY <2>1, <2>2, <2>3
<1> QED
  BY <1>5, <1>6

\* The last of the first j that has a name has this one.
LastNamed(vs, j, name) == \E x \in 1 .. j : vs[x].name = name /\ \A y \in x + 1 .. j : vs[y].name = <<>>

\* The name that a variable goes by.
LEMMA GoesBy ==
  ASSUME NEW vs, NEW ws, NamedAs(vs, ws), NEW name, name # <<>>
  PROVE  \A j \in 1 .. Len(ws) : ws[j].name = name <=> LastNamed(vs, j, name)
<1>1. PICK n \in Nat : n = Len(vs) /\ n = Len(ws)
  BY DEF NamedAs
<1>2. \A j \in 1 .. n : /\ vs[j].name # <<>> => ws[j].name = vs[j].name
                        /\ vs[j].name = <<>> => j > 1 /\ ws[j].name = ws[j - 1].name
  BY <1>1 DEF NamedAs
<1> DEFINE S == {j \in Nat : j >= 1 /\ j <= n => (ws[j].name = name <=> LastNamed(vs, j, name))}
<1>3. 0 \in S
  OBVIOUS
<1>4. \A j \in Nat : j \in S => j + 1 \in S
  <2> TAKE j \in Nat
  <2> HAVE j \in S
  <2>1. SUFFICES ASSUME j + 1 <= n PROVE ws[j + 1].name = name <=> LastNamed(vs, j + 1, name)
    OBVIOUS
  <2>2. j + 1 \in 1 .. n /\ (j + 1) - 1 = j
    BY <2>1
  <2>3. CASE vs[j + 1].name # <<>>
    <3>1. ws[j + 1].name = vs[j + 1].name
      BY <1>2, <2>2, <2>3, Zenon
    <3>2. ASSUME vs[j + 1].name = name PROVE LastNamed(vs, j + 1, name)
      <4>1. j + 1 \in 1 .. j + 1 /\ \A y \in (j + 1) + 1 .. j + 1 : vs[y].name = <<>>
        OBVIOUS
      <4> QED BY <3>2, <4>1 DEF LastNamed
    <3>3. ASSUME LastNamed(vs, j + 1, name) PROVE vs[j + 1].name = name
      <4>1. PICK x \in 1 .. j + 1 : vs[x].name = name /\ \A y \in x + 1 .. j + 1 : vs[y].name = <<>>
        BY <3>3 DEF LastNamed
      <4>2. x = j + 1
        <5>1. SUFFICES ASSUME x # j + 1 PROVE FALSE
          OBVIOUS
        <5>2. j + 1 \in x + 1 .. j + 1
          BY <5>1
        <5> QED BY <2>3, <4>1, <5>2
      <4> QED BY <4>1, <4>2
    <3> QED BY <3>1, <3>2, <3>3, Zenon
  <2>4. CASE vs[j + 1].name = <<>>
    <3>1. j + 1 > 1 /\ ws[j + 1].name = ws[j].name
      BY <1>2, <2>2, <2>4, Zenon
    <3>2. ws[j].name = name <=> LastNamed(vs, j, name)
      BY <2>1, <3>1
    <3>3. ASSUME LastNamed(vs, j, name) PROVE LastNamed(vs, j + 1, name)
      <4>1. PICK x \in 1 .. j : vs[x].name = name /\ \A y \in x + 1 .. j : vs[y].name = <<>>
        BY <3>3 DEF LastNamed
      <4>2. x \in 1 .. j + 1
        OBVIOUS
      <4>3. ASSUME NEW y \in x + 1 .. j + 1 PROVE vs[y].name = <<>>
        <5>1. y = j + 1 \/ y \in x + 1 .. j
          OBVIOUS
        <5> QED BY <2>4, <4>1, <5>1
      <4> QED BY <4>1, <4>2, <4>3 DEF LastNamed
    <3>4. ASSUME LastNamed(vs, j + 1, name) PROVE LastNamed(vs, j, name)
      <4>1. PICK x \in 1 .. j + 1 : vs[x].name = name /\ \A y \in x + 1 .. j + 1 : vs[y].name = <<>>
        BY <3>4 DEF LastNamed
      <4>2. x # j + 1
        BY <2>4, <4>1
      <4>3. x \in 1 .. j /\ \A y \in x + 1 .. j : y \in x + 1 .. j + 1
        BY <4>2
      <4> QED BY <4>1, <4>3 DEF LastNamed
    <3> QED BY <3>1, <3>2, <3>3, <3>4, Zenon
  <2> QED BY <2>3, <2>4
<1> HIDE DEF S
<1>5. Nat \subseteq S
  BY <1>3, <1>4, Induction
<1>6. ASSUME NEW j \in 1 .. n PROVE ws[j].name = name <=> LastNamed(vs, j, name)
  BY <1>5 DEF S
<1> QED
  BY <1>1, <1>6

\* An entry is about a variable when it goes by its name.
LEMMA AboutIs ==
  ASSUME NEW cells \in Seq(Nat), NEW at \in Nat, NEW vs, NEW ws, ListsTo(cells, at, vs), NamedAs(vs, ws),
         NEW i \in NvIds, NEW j \in 1 .. Len(ws)
  PROVE  /\ About(cells, j, i) <=> Is(ws[j], i)
         /\ ContentAt(cells, Begins(cells)[j - 1]) = Stored(ws[j].attr, ws[j].data)
<1>1. PICK n \in Nat : n = Len(vs) /\ n = Len(ws)
  BY DEF NamedAs
<1>2. PICK b : b = Begins(cells)
  OBVIOUS
<1>3. \A x \in 1 .. n : EntryAt(cells, b[x - 1]) = vs[x]
  BY <1>1, <1>2 DEF ListsTo
<1>4. ASSUME NEW x \in 1 .. n
      PROVE  /\ NameAt(cells, b[x - 1]) = vs[x].name /\ GuidAt(cells, b[x - 1]) = vs[x].guid
             /\ AttrAt(cells, b[x - 1]) = vs[x].attr /\ DataAt(cells, b[x - 1]) = vs[x].data
  <2>1. vs[x] = [name |-> NameAt(cells, b[x - 1]), guid |-> GuidAt(cells, b[x - 1]),
                 attr |-> AttrAt(cells, b[x - 1]), data |-> DataAt(cells, b[x - 1])]
    BY <1>3, Zenon DEF EntryAt
  <2>2. PICK e : e = vs[x]
    OBVIOUS
  <2>3. PICK name, guid, attr, data : name = NameAt(cells, b[x - 1]) /\ guid = GuidAt(cells, b[x - 1])
                                      /\ attr = AttrAt(cells, b[x - 1]) /\ data = DataAt(cells, b[x - 1])
    OBVIOUS
  <2>4. e = [name |-> name, guid |-> guid, attr |-> attr, data |-> data]
    BY <2>1, <2>2, <2>3, Zenon
  <2>5. e.name = name /\ e.guid = guid /\ e.attr = attr /\ e.data = data
    BY <2>4
  <2> QED BY <2>2, <2>3, <2>5, Zenon
<1>5. PICK name : name = Name(i) /\ name # <<>>
  BY NamesDiffer
<1>6. ws[j].guid = vs[j].guid /\ ws[j].attr = vs[j].attr /\ ws[j].data = vs[j].data
  BY <1>1 DEF NamedAs
<1>7. ws[j].name = name <=> LastNamed(vs, j, name)
  BY <1>5, GoesBy
<1>8. About(cells, j, i) <=> /\ GuidAt(cells, b[j - 1]) = GUID
                             /\ \E x \in 1 .. j : /\ NameAt(cells, b[x - 1]) = name
                                                  /\ \A y \in x + 1 .. j : NameAt(cells, b[y - 1]) = <<>>
  BY <1>2, <1>5, Zenon DEF About
<1>9. \A x \in 1 .. j : x \in 1 .. n /\ \A y \in x + 1 .. j : y \in 1 .. n
  BY <1>1
<1>10. (\E x \in 1 .. j : /\ NameAt(cells, b[x - 1]) = name
                          /\ \A y \in x + 1 .. j : NameAt(cells, b[y - 1]) = <<>>) <=> LastNamed(vs, j, name)
  BY <1>4, <1>9, Zenon DEF LastNamed
<1>11. About(cells, j, i) <=> ws[j].guid = GUID /\ ws[j].name = name
  <2>1. GuidAt(cells, b[j - 1]) = ws[j].guid
    BY <1>1, <1>4, <1>6
  <2> QED BY <1>7, <1>8, <1>10, <2>1, Zenon
<1>12. ContentAt(cells, b[j - 1]) = Stored(AttrAt(cells, b[j - 1]), DataAt(cells, b[j - 1]))
  BY Zenon DEF ContentAt, AttrAt, DataAt
<1>13. AttrAt(cells, b[j - 1]) = ws[j].attr /\ DataAt(cells, b[j - 1]) = ws[j].data
  BY <1>1, <1>4, <1>6
<1>14. ContentAt(cells, Begins(cells)[j - 1]) = Stored(ws[j].attr, ws[j].data)
  BY <1>2, <1>12, <1>13, Zenon
<1> QED
  BY <1>5, <1>11, <1>14, Zenon DEF Is

\* The whole buffer was read, and what setting its variables did is what it tells.
LEMMA TellsIt ==
  ASSUME NEW cells \in Seq(Nat), NEW name, NEW ws, Follows(cells, Len(cells), name, ws),
         NEW i \in NvIds, NEW old, NEW new, LastFor(ws, Len(ws), i, old, new)
  PROVE  Tells(cells, i, old, new)
<1>1. PICK vs : ListsTo(cells, Len(cells), vs) /\ NamedAs(vs, ws)
  BY DEF Follows
<1>2. PICK n \in Nat : n = Len(vs) /\ n = Len(ws)
  BY <1>1 DEF NamedAs
<1>3. Entries(cells) = 1 .. n
  <2>1. Begins(cells)[n] = Len(cells)
    BY <1>1, <1>2 DEF ListsTo
  <2> QED BY <2>1, EntriesAre
<1>4. PICK b : b = Begins(cells)
  OBVIOUS
<1>5. ASSUME NEW j \in 1 .. n
      PROVE  (About(cells, j, i) <=> Is(ws[j], i)) /\ ContentAt(cells, b[j - 1]) = Stored(ws[j].attr, ws[j].data)
  <2>1. Len(cells) \in Nat /\ j \in 1 .. Len(ws)
    BY <1>2
  <2> QED BY <1>1, <1>4, <2>1, AboutIs
<1>6. PICK its : its = {j \in Entries(cells) : About(cells, j, i)}
  OBVIOUS
<1>7. \A j : j \in its <=> j \in 1 .. n /\ Is(ws[j], i)
  BY <1>3, <1>5, <1>6
<1>8. Tells(cells, i, old, new) <=> \/ its = {} /\ new = old
                                    \/ \E j \in its : (\A k \in its : k <= j) /\ new = ContentAt(cells, b[j - 1])
  BY <1>4, <1>6, Zenon DEF Tells
<1>9. CASE new = old /\ \A j \in 1 .. n : ~Is(ws[j], i)
  <2>1. its = {}
    BY <1>7, <1>9
  <2> QED BY <1>8, <1>9, <2>1
<1>10. CASE \E j \in 1 .. n : /\ Is(ws[j], i) /\ new = Stored(ws[j].attr, ws[j].data)
                              /\ \A k \in j + 1 .. n : ~Is(ws[k], i)
  <2>1. PICK j \in 1 .. n : /\ Is(ws[j], i) /\ new = Stored(ws[j].attr, ws[j].data)
                            /\ \A k \in j + 1 .. n : ~Is(ws[k], i)
    BY <1>10
  <2>2. j \in its /\ new = ContentAt(cells, b[j - 1])
    BY <1>5, <1>7, <2>1
  <2>3. ASSUME NEW k \in its PROVE k <= j
    <3>1. k \in 1 .. n /\ Is(ws[k], i)
      BY <1>7
    <3>2. ~(k \in j + 1 .. n)
      BY <2>1, <3>1
    <3> QED BY <3>1, <3>2
  <2> QED BY <1>8, <2>2, <2>3, Zenon
<1> QED
  BY <1>2, <1>9, <1>10 DEF LastFor

\* It is entries to its end.
LEMMA WholeIt ==
  ASSUME NEW cells \in Seq(Nat), NEW name, NEW ws, Follows(cells, Len(cells), name, ws)
  PROVE  Whole(cells)
<1>1. PICK vs : ListsTo(cells, Len(cells), vs) /\ NamedAs(vs, ws)
  BY DEF Follows
<1>2. PICK n \in Nat : n = Len(vs)
  BY <1>1 DEF NamedAs
<1>3. PICK b : b = Begins(cells)
  OBVIOUS
<1>4. b[n] = Len(cells) /\ b[0] = 0
  BY <1>1, <1>2, <1>3, BeginsDef DEF ListsTo
<1>5. SUFFICES ASSUME cells # <<>>
               PROVE  cells[1] > 0 /\ \E j \in Entries(cells) : b[j] = Len(cells)
  BY <1>3 DEF Whole
<1>6. Len(cells) > 0 /\ Len(cells) \in Nat
  BY <1>5
<1>7. n > 0
  BY <1>4, <1>6
<1>8. n \in Entries(cells)
  <2>1. Entries(cells) = 1 .. n
    BY <1>3, <1>4, EntriesAre
  <2> QED BY <1>7, <2>1
<1>9. cells[1] \in Nat
  <2>1. 1 \in 1 .. Len(cells)
    BY <1>6
  <2> QED BY <2>1
<1>10. cells[1] # 0
  <2>1. SUFFICES ASSUME cells[1] = 0 PROVE FALSE
    OBVIOUS
  <2>2. EntryAt(cells, 0) = vs[1]
    <3>1. 1 \in 1 .. n /\ 1 - 1 = 0
      BY <1>7
    <3>2. \A j \in 1 .. n : EntryAt(cells, b[j - 1]) = vs[j]
      BY <1>1, <1>2, <1>3 DEF ListsTo
    <3> QED BY <1>4, <3>1, <3>2
  <2>3. vs[1].name = NameAt(cells, 0)
    BY <2>2 DEF EntryAt
  <2>4. NameAt(cells, 0) = SubSeq(cells, 2, 1)
    <3>1. 0 + 1 = 1 /\ 0 + 2 = 2 /\ 0 + 1 + 0 = 1
      OBVIOUS
    <3>2. NameAt(cells, 0) = SubSeq(cells, 0 + 2, 0 + 1 + cells[0 + 1])
      BY DEF NameAt
    <3>3. cells[0 + 1] = 0
      BY <2>1, <3>1
    <3> QED BY <3>1, <3>2, <3>3, Zenon
  <2>5. SubSeq(cells, 2, 1) = <<>>
    OBVIOUS
  <2>6. vs[1].name # <<>>
    <3>1. 1 \in 1 .. Len(vs) /\ ~(1 > 1)
      BY <1>2, <1>7
    <3> QED BY <1>1, <3>1 DEF NamedAs
  <2> QED BY <2>3, <2>4, <2>5, <2>6
<1> QED
  BY <1>4, <1>8, <1>9, <1>10

\* One more of the list is set.
LEMMA LastForStep ==
  ASSUME NEW ws, NEW m \in Nat, NEW i, NEW old, NEW mid, LastFor(ws, m, i, old, mid),
         NEW new, new = (IF Is(ws[m + 1], i) THEN Stored(ws[m + 1].attr, ws[m + 1].data) ELSE mid)
  PROVE  LastFor(ws, m + 1, i, old, new)
<1>1. CASE Is(ws[m + 1], i)
  <2>1. new = Stored(ws[m + 1].attr, ws[m + 1].data)
    BY <1>1
  <2>2. m + 1 \in 1 .. m + 1 /\ \A k \in (m + 1) + 1 .. m + 1 : ~Is(ws[k], i)
    OBVIOUS
  <2> QED BY <1>1, <2>1, <2>2, Zenon DEF LastFor
<1>2. CASE ~Is(ws[m + 1], i)
  <2>1. new = mid
    BY <1>2
  <2>2. CASE mid = old /\ \A j \in 1 .. m : ~Is(ws[j], i)
    <3>1. \A j \in 1 .. m + 1 : j \in 1 .. m \/ j = m + 1
      OBVIOUS
    <3>2. \A j \in 1 .. m + 1 : ~Is(ws[j], i)
      BY <1>2, <2>2, <3>1, Zenon
    <3> QED BY <2>1, <2>2, <3>2, Zenon DEF LastFor
  <2>3. CASE \E j \in 1 .. m : /\ Is(ws[j], i) /\ mid = Stored(ws[j].attr, ws[j].data)
                               /\ \A k \in j + 1 .. m : ~Is(ws[k], i)
    <3>1. PICK j \in 1 .. m : /\ Is(ws[j], i) /\ mid = Stored(ws[j].attr, ws[j].data)
                              /\ \A k \in j + 1 .. m : ~Is(ws[k], i)
      BY <2>3
    <3>2. j \in 1 .. m + 1 /\ \A k \in j + 1 .. m + 1 : k \in j + 1 .. m \/ k = m + 1
      OBVIOUS
    <3>3. \A k \in j + 1 .. m + 1 : ~Is(ws[k], i)
      BY <1>2, <3>1, <3>2, Zenon
    <3> QED BY <2>1, <3>1, <3>2, <3>3, Zenon DEF LastFor
  <2> QED BY <2>2, <2>3 DEF LastFor
<1> QED
  BY <1>1, <1>2

\* Lists with the same beginning do the same.
LEMMA LastForSame ==
  ASSUME NEW ws, NEW vs, NEW m \in Nat, \A j \in 1 .. m : vs[j] = ws[j],
         NEW i, NEW old, NEW new, LastFor(ws, m, i, old, new)
  PROVE  LastFor(vs, m, i, old, new)
<1>1. CASE new = old /\ \A j \in 1 .. m : ~Is(ws[j], i)
  <2>1. \A j \in 1 .. m : ~Is(vs[j], i)
    BY <1>1, Zenon
  <2> QED BY <1>1, <2>1, Zenon DEF LastFor
<1>2. CASE \E j \in 1 .. m : /\ Is(ws[j], i) /\ new = Stored(ws[j].attr, ws[j].data)
                             /\ \A k \in j + 1 .. m : ~Is(ws[k], i)
  <2>1. PICK j \in 1 .. m : /\ Is(ws[j], i) /\ new = Stored(ws[j].attr, ws[j].data)
                            /\ \A k \in j + 1 .. m : ~Is(ws[k], i)
    BY <1>2
  <2>2. \A k \in j + 1 .. m : k \in 1 .. m
    OBVIOUS
  <2>3. Is(vs[j], i) /\ new = Stored(vs[j].attr, vs[j].data)
    BY <2>1, Zenon
  <2>4. \A k \in j + 1 .. m : ~Is(vs[k], i)
    BY <2>1, <2>2, Zenon
  <2> QED BY <2>3, <2>4, Zenon DEF LastFor
<1> QED
  BY <1>1, <1>2 DEF LastFor

\* The store: what is non-volatile has contents.
Value == [attr : Nat, data : Seq(Nat)]
StoreOk(sys) ==
  /\ sys \in [NvIds -> Value]
  /\ \A i \in NvIds : sys[i].attr \in {NV, NV_AUTH} => sys[i].data # <<>>

\* The buffer is the variables ws, all named, and restores the non-volatile variables below n.
Restores(cells, ws, sys, n) ==
  /\ cells \in Seq(Nat) /\ ListsTo(cells, Len(cells), ws) /\ NamedAs(ws, ws)
  /\ \A i \in NvIds : LastFor(ws, Len(ws), i, Absent, IF i < n THEN Kept(sys[i]) ELSE Absent)

\* The callback of the iteration for variable i.
AddedTo(inst, sys, i) ==
  IF sys[i].attr \in {NV, NV_AUTH}
  THEN SerializeVariablesAddVariable(inst, Name(i), GUID, sys[i].attr, sys[i].data) ELSE inst

\* Nothing is serialized as nothing.
LEMMA RestoresNothing ==
  ASSUME NEW sys
  PROVE  Restores(<<>>, <<>>, sys, 0)
<1>1. <<>> \in Seq(Nat) /\ <<>> \in Seq(Variable)
  OBVIOUS
<1>2. PICK none : none = <<>>
  OBVIOUS
<1>3. none \in Seq(Nat) /\ none \in Seq(Variable) /\ Len(none) = 0
  BY <1>1, <1>2
<1>4. Begins(none)[0] = 0
  BY <1>3, BeginsDef
<1>5. ListsTo(none, Len(none), none)
  BY <1>3, <1>4 DEF ListsTo
<1>6. NamedAs(none, none)
  BY <1>3 DEF NamedAs
<1>7. ASSUME NEW i \in NvIds PROVE LastFor(none, Len(none), i, Absent, IF i < 0 THEN Kept(sys[i]) ELSE Absent)
  <2>1. ~(i < 0) /\ 1 .. 0 = {}
    BY NvAssumption DEF NvIds
  <2> QED BY <1>3, <2>1 DEF LastFor
<1> QED
  BY <1>2, <1>3, <1>5, <1>6, <1>7 DEF Restores

\* A variable that is not kept adds nothing.
LEMMA RestoresLess ==
  ASSUME NEW cells, NEW ws, NEW sys, NEW i \in NvIds, Restores(cells, ws, sys, i),
         ~(sys[i].attr \in {NV, NV_AUTH})
  PROVE  Restores(cells, ws, sys, i + 1)
<1>1. Kept(sys[i]) = Absent
  BY DEF Kept
<1>2. \A k \in NvIds : k \in Int /\ i \in Int
  BY NvAssumption DEF NvIds
<1>3. ASSUME NEW k \in NvIds
      PROVE  (IF k < i + 1 THEN Kept(sys[k]) ELSE Absent) = (IF k < i THEN Kept(sys[k]) ELSE Absent)
  <2>1. CASE k = i
    <3>1. ~(i < i) /\ i < i + 1
      BY <1>2
    <3> QED BY <1>1, <2>1, <3>1
  <2>2. CASE k # i
    <3>1. k < i + 1 <=> k < i
      BY <1>2, <2>2
    <3> QED BY <3>1
  <2> QED BY <2>1, <2>2
<1>4. ASSUME NEW k \in NvIds PROVE LastFor(ws, Len(ws), k, Absent, IF k < i + 1 THEN Kept(sys[k]) ELSE Absent)
  <2>1. LastFor(ws, Len(ws), k, Absent, IF k < i THEN Kept(sys[k]) ELSE Absent)
    BY DEF Restores
  <2> QED BY <1>3, <2>1
<1> QED
  BY <1>4 DEF Restores

\* A variable that is kept is the last one.
LEMMA RestoresMore ==
  ASSUME NEW cells, NEW ws, NEW sys, StoreOk(sys), NEW i \in NvIds, Restores(cells, ws, sys, i),
         sys[i].attr \in {NV, NV_AUTH}
  PROVE  \E more, vs : /\ more = SerializeVariablesAddVariable(cells, Name(i), GUID, sys[i].attr, sys[i].data)
                       /\ Restores(more, vs, sys, i + 1)
<1>1. PICK name \in Seq(Nat) : name = Name(i) /\ name # <<>>
  BY NamesDiffer
<1>2. sys[i] \in Value /\ sys[i].data # <<>>
  BY DEF StoreOk
<1>3. PICK attr \in Nat, data \in Seq(Nat) :
        attr = sys[i].attr /\ data = sys[i].data /\ sys[i] = [attr |-> attr, data |-> data]
  BY <1>2 DEF Value
<1>4. cells \in Seq(Nat) /\ ListsTo(cells, Len(cells), ws) /\ NamedAs(ws, ws)
  BY DEF Restores
<1>5. PICK w : w = [name |-> name, guid |-> GUID, attr |-> attr, data |-> data]
  OBVIOUS
<1>6. GUID \in Nat
  BY DEF GUID
<1>7. w \in Variable /\ w.name = name /\ w.guid = GUID /\ w.attr = attr /\ w.data = data
  BY <1>5, <1>6, VariableFields
<1>8. PICK more \in Seq(Nat) :
        /\ more = SerializeVariablesAddVariable(cells, name, GUID, attr, data)
        /\ ListsTo(more, Len(more), Append(ws, [name |-> name, guid |-> GUID, attr |-> attr, data |-> data]))
  BY <1>4, <1>6, ListAppend
<1>9. PICK vs : vs = Append(ws, w)
  OBVIOUS
<1>10. ListsTo(more, Len(more), vs)
  BY <1>5, <1>8, <1>9
<1>11. NamedAs(vs, vs)
  BY <1>1, <1>4, <1>7, <1>9, NamedStep
<1>12. ws \in Seq(Variable)
  BY <1>4 DEF NamedAs
<1>13. PICK n \in Nat : n = Len(ws)
  BY <1>12
<1>14. Len(vs) = n + 1 /\ (\A j \in 1 .. n : vs[j] = ws[j]) /\ vs[n + 1] = w
  BY <1>7, <1>9, <1>12, <1>13, AppendOne
<1>15. ASSUME NEW k \in NvIds PROVE LastFor(vs, n + 1, k, Absent, IF k < i + 1 THEN Kept(sys[k]) ELSE Absent)
  <2>1. PICK mid : mid = IF k < i THEN Kept(sys[k]) ELSE Absent
    OBVIOUS
  <2>2. LastFor(ws, n, k, Absent, mid)
    BY <1>13, <2>1 DEF Restores
  <2>3. LastFor(vs, n, k, Absent, mid)
    BY <1>14, <2>2, LastForSame
  <2>4. PICK new : new = IF Is(w, k) THEN Stored(w.attr, w.data) ELSE mid
    OBVIOUS
  <2>5. LastFor(vs, n + 1, k, Absent, new)
    <3>1. new = IF Is(vs[n + 1], k) THEN Stored(vs[n + 1].attr, vs[n + 1].data) ELSE mid
      BY <1>14, <2>4, Zenon
    <3> QED BY <2>3, <3>1, LastForStep
  <2>6. Is(w, k) <=> k = i
    <3>1. Is(w, k) <=> Name(k) = name
      BY <1>7, Zenon DEF Is
    <3>2. Name(k) = Name(i) => k = i
      BY NamesDiffer
    <3> QED BY <1>1, <3>1, <3>2, Zenon
  <2>7. i \in Int /\ k \in Int
    BY NvAssumption DEF NvIds
  <2>8. new = IF k < i + 1 THEN Kept(sys[k]) ELSE Absent
    <3>1. CASE k = i
      <4>1. new = Stored(attr, data)
        BY <1>7, <2>4, <2>6, <3>1
      <4>2. Stored(attr, data) = [attr |-> attr, data |-> data]
        BY <1>2, <1>3 DEF Stored
      <4>3. Kept(sys[k]) = sys[i]
        BY <3>1 DEF Kept
      <4>4. k < i + 1
        BY <2>7, <3>1
      <4> QED BY <1>3, <4>1, <4>2, <4>3, <4>4, Zenon
    <3>2. CASE k # i
      <4>1. k < i + 1 <=> k < i
        BY <2>7, <3>2
      <4>2. new = mid
        BY <2>4, <2>6, <3>2, Zenon
      <4> QED BY <2>1, <4>1, <4>2, Zenon
    <3> QED BY <3>1, <3>2
  <2> QED BY <2>5, <2>8
<1>16. Restores(more, vs, sys, i + 1)
  BY <1>10, <1>11, <1>14, <1>15 DEF Restores
<1> QED
  BY <1>1, <1>3, <1>8, <1>16, Zenon

\* So does the callback, in either case.
LEMMA RestoresNext ==
  ASSUME NEW cells, NEW ws, NEW sys, StoreOk(sys), NEW i \in NvIds, Restores(cells, ws, sys, i)
  PROVE  \E vs : Restores(AddedTo(cells, sys, i), vs, sys, i + 1)
<1>1. CASE sys[i].attr \in {NV, NV_AUTH}
  BY <1>1, RestoresMore DEF AddedTo
<1>2. CASE ~(sys[i].attr \in {NV, NV_AUTH})
  BY <1>2, RestoresLess DEF AddedTo
<1> QED
  BY <1>1, <1>2

\* The serialization up to variable n, as a list of its steps.
StepsTo(f, sys, n) ==
  f = [i \in 0 .. n |-> AddedTo(IF i = 0 THEN <<>> ELSE f[i - 1], sys, i)]

\* There is one.
LEMMA StepsExist ==
  ASSUME NEW sys
  PROVE  \A n \in Nat : \E f : StepsTo(f, sys, n)
<1> DEFINE S == {n \in Nat : \E f : StepsTo(f, sys, n)}
<1>1. 0 \in S
  <2>1. PICK f : f = [i \in 0 .. 0 |-> AddedTo(<<>>, sys, 0)]
    OBVIOUS
  <2>2. f = [i \in 0 .. 0 |-> AddedTo(IF i = 0 THEN <<>> ELSE f[i - 1], sys, i)]
    BY <2>1
  <2> QED BY <2>2 DEF StepsTo
<1>2. \A n \in Nat : n \in S => n + 1 \in S
  <2> TAKE n \in Nat
  <2> HAVE n \in S
  <2>1. PICK f : f = [i \in 0 .. n |-> AddedTo(IF i = 0 THEN <<>> ELSE f[i - 1], sys, i)]
    BY DEF StepsTo
  <2>2. PICK last : last = AddedTo(f[n], sys, n + 1)
    OBVIOUS
  <2>3. PICK h : h = [i \in 0 .. n + 1 |-> IF i <= n THEN f[i] ELSE last]
    OBVIOUS
  <2>4. ASSUME NEW i \in 0 .. n + 1 PROVE h[i] = AddedTo(IF i = 0 THEN <<>> ELSE h[i - 1], sys, i)
    <3>1. CASE i = 0
      <4>1. h[i] = f[0] /\ f[0] = AddedTo(<<>>, sys, 0)
        BY <2>1, <2>3, <3>1
      <4> QED BY <3>1, <4>1
    <3>2. CASE i # 0 /\ i <= n
      <4>1. i - 1 \in 0 .. n + 1 /\ i - 1 <= n /\ i \in 0 .. n
        BY <3>2
      <4>2. h[i] = f[i] /\ h[i - 1] = f[i - 1]
        BY <2>3, <3>2, <4>1
      <4>3. f[i] = AddedTo(f[i - 1], sys, i)
        BY <2>1, <3>2, <4>1
      <4> QED BY <3>2, <4>2, <4>3, Zenon
    <3>3. CASE i = n + 1
      <4>1. i # 0 /\ i - 1 = n /\ n \in 0 .. n + 1 /\ n <= n /\ ~(n + 1 <= n)
        BY <3>3
      <4>2. h[i] = last /\ h[i - 1] = f[n]
        BY <2>3, <3>3, <4>1
      <4> QED BY <2>2, <3>3, <4>1, <4>2, Zenon
    <3> QED BY <3>1, <3>2, <3>3
  <2>5. h = [i \in 0 .. n + 1 |-> h[i]]
    BY <2>3
  <2>6. h = [i \in 0 .. n + 1 |-> AddedTo(IF i = 0 THEN <<>> ELSE h[i - 1], sys, i)]
    BY <2>4, <2>5
  <2> QED BY <2>6 DEF StepsTo
<1> HIDE DEF S
<1>3. Nat \subseteq S
  BY <1>1, <1>2, Induction
<1> QED
  BY <1>3 DEF S

\* SerializeVariablesIterateSystemVariables is its last step.
LEMMA LastStep ==
  ASSUME NEW sys
  PROVE  \E f : StepsTo(f, sys, Len(NvNames)) /\ SerializeVariablesIterateSystemVariables(sys) = f[Len(NvNames)]
<1>1. PICK n \in Nat : n = Len(NvNames)
  BY NvAssumption
<1>2. PICK f : f = [i \in 0 .. n |-> AddedTo(IF i = 0 THEN <<>> ELSE f[i - 1], sys, i)]
  BY StepsExist DEF StepsTo
<1> DEFINE upTo == CHOOSE g : g = [i \in NvIds |-> IF sys[i].attr \in {NV, NV_AUTH}
                                                   THEN SerializeVariablesAddVariable(IF i = 0 THEN <<>> ELSE g[i - 1],
                                                          Name(i), GUID, sys[i].attr, sys[i].data)
                                                   ELSE IF i = 0 THEN <<>> ELSE g[i - 1]]
<1>3. f = [i \in NvIds |-> IF sys[i].attr \in {NV, NV_AUTH}
                           THEN SerializeVariablesAddVariable(IF i = 0 THEN <<>> ELSE f[i - 1],
                                  Name(i), GUID, sys[i].attr, sys[i].data)
                           ELSE IF i = 0 THEN <<>> ELSE f[i - 1]]
  BY <1>1, <1>2, Zenon DEF NvIds, AddedTo
<1>4. upTo = [i \in NvIds |-> IF sys[i].attr \in {NV, NV_AUTH}
                              THEN SerializeVariablesAddVariable(IF i = 0 THEN <<>> ELSE upTo[i - 1],
                                     Name(i), GUID, sys[i].attr, sys[i].data)
                              ELSE IF i = 0 THEN <<>> ELSE upTo[i - 1]]
  BY <1>3, Zenon
<1>5. SerializeVariablesIterateSystemVariables(sys) = upTo[Len(NvNames)]
  BY Zenon DEF SerializeVariablesIterateSystemVariables
<1> HIDE DEF upTo
<1>6. upTo = [i \in 0 .. n |-> AddedTo(IF i = 0 THEN <<>> ELSE upTo[i - 1], sys, i)]
  BY <1>1, <1>4, Zenon DEF NvIds, AddedTo
<1> QED
  BY <1>1, <1>5, <1>6, Zenon DEF StepsTo

\* What is saved restores the non-volatile variables.
LEMMA SavedRestores ==
  ASSUME NEW sys, StoreOk(sys)
  PROVE  \E ws : Restores(SerializeVariablesIterateSystemVariables(sys), ws, sys, Len(NvNames) + 1)
<1>1. PICK n \in Nat : n = Len(NvNames) /\ NvIds = 0 .. n
  BY NvAssumption DEF NvIds
<1>2. PICK f : StepsTo(f, sys, n) /\ SerializeVariablesIterateSystemVariables(sys) = f[n]
  BY <1>1, LastStep
<1>3. \A i \in 0 .. n : f[i] = AddedTo(IF i = 0 THEN <<>> ELSE f[i - 1], sys, i)
  BY <1>2 DEF StepsTo
<1> DEFINE S == {i \in Nat : i <= n => \E ws : Restores(f[i], ws, sys, i + 1)}
<1>4. 0 \in S
  <2>1. f[0] = AddedTo(<<>>, sys, 0) /\ 0 \in NvIds
    BY <1>1, <1>3
  <2>2. Restores(<<>>, <<>>, sys, 0)
    BY RestoresNothing
  <2>3. \E ws : Restores(AddedTo(<<>>, sys, 0), ws, sys, 0 + 1)
    BY <2>1, <2>2, RestoresNext
  <2> QED BY <2>1, <2>3
<1>5. \A i \in Nat : i \in S => i + 1 \in S
  <2> TAKE i \in Nat
  <2> HAVE i \in S
  <2>1. SUFFICES ASSUME i + 1 <= n PROVE \E ws : Restores(f[i + 1], ws, sys, (i + 1) + 1)
    OBVIOUS
  <2>2. PICK ws : Restores(f[i], ws, sys, i + 1)
    BY <2>1
  <2>3. i + 1 \in 0 .. n /\ i + 1 # 0 /\ (i + 1) - 1 = i
    BY <2>1
  <2>4. f[i + 1] = AddedTo(f[i], sys, i + 1)
    BY <1>3, <2>3
  <2>5. i + 1 \in NvIds
    BY <1>1, <2>3
  <2>6. \E vs : Restores(AddedTo(f[i], sys, i + 1), vs, sys, (i + 1) + 1)
    BY <2>2, <2>5, RestoresNext
  <2> QED BY <2>4, <2>6
<1> HIDE DEF S
<1>6. n \in S
  BY <1>4, <1>5, Induction
<1>7. \E ws : Restores(f[n], ws, sys, n + 1)
  BY <1>6 DEF S
<1> QED
  BY <1>1, <1>2, <1>7, Zenon

\* The file will restore the store.
Saved(cells, sys) ==
  cells \in Seq(Nat) /\ Whole(cells) /\ \A i \in NvIds \ {Flag} : Tells(cells, i, Absent, Kept(sys[i]))

\* SerializeVariablesIterateSystemVariables leaves such a buffer.
LEMMA SaveSaves ==
  ASSUME NEW sys, StoreOk(sys)
  PROVE  Saved(SerializeVariablesIterateSystemVariables(sys), sys)
<1>1. PICK cells : cells = SerializeVariablesIterateSystemVariables(sys)
  OBVIOUS
<1>2. PICK n \in Nat : n = Len(NvNames) /\ NvIds = 0 .. n
  BY NvAssumption DEF NvIds
<1>3. PICK ws : Restores(cells, ws, sys, n + 1)
  BY <1>1, <1>2, SavedRestores
<1>4. cells \in Seq(Nat) /\ ListsTo(cells, Len(cells), ws) /\ NamedAs(ws, ws)
  BY <1>3 DEF Restores
<1>5. PICK name : Follows(cells, Len(cells), name, ws)
  BY <1>4 DEF Follows
<1>6. Whole(cells)
  BY <1>4, <1>5, WholeIt
<1>7. ASSUME NEW i \in NvIds PROVE Tells(cells, i, Absent, Kept(sys[i]))
  <2>1. i < n + 1
    BY <1>2
  <2>2. LastFor(ws, Len(ws), i, Absent, IF i < n + 1 THEN Kept(sys[i]) ELSE Absent)
    BY <1>3 DEF Restores
  <2>3. LastFor(ws, Len(ws), i, Absent, Kept(sys[i]))
    BY <2>1, <2>2
  <2> QED BY <1>4, <1>5, <2>3, TellsIt
<1> QED
  BY <1>1, <1>4, <1>6, <1>7 DEF Saved

\* The three passes over the file, each as far as it got.
Checking(buf, pos, name) == \E ws : Follows(buf, pos, name, ws)
Adding(buf, pos, name, inst, lost) ==
  \E ws : Follows(buf, pos, name, ws) /\ (lost = {} => ListsTo(inst, Len(inst), ws))
Setting(buf, inst, pos, before, sys, lost) ==
  lost = {} => \E ws, m, name :
                 /\ Follows(buf, Len(buf), name, ws) /\ ListsTo(inst, Len(inst), ws)
                 /\ m \in 0 .. Len(ws) /\ pos = Begins(inst)[m]
                 /\ \A i \in NvIds : LastFor(ws, m, i, before[i], sys[i])

FileOk(file) == file \in [kind : {"none", "dir", "file"}, cells : Seq(Nat)]

NvTypes ==
  /\ StoreOk(nSys) /\ FileOk(nFile) /\ nPos \in Nat
  /\ nBuf \in Seq(Nat) /\ nInst \in Seq(Nat) /\ nName \in Seq(Nat)
  /\ nPc \in {"idle", "nop", "inst", "sys", "save", "open", "write"}
NvLoading ==
  /\ nPc = "nop" => nSys = nvBefore /\ nLost = {} /\ nInst = <<>> /\ Checking(nBuf, nPos, nName)
  /\ nPc = "inst" => nSys = nvBefore /\ Whole(nBuf) /\ Adding(nBuf, nPos, nName, nInst, nLost)
  /\ nPc = "sys" => Whole(nBuf) /\ Setting(nBuf, nInst, nPos, nvBefore, nSys, nLost)
NvLoaded ==
  nPc = "save" =>
    /\ nLoad \in {"SUCCESS", "INVALID_PARAMETER"} => Whole(nBuf) \/ nSys = nvBefore
    /\ nLoad = "SUCCESS" /\ nLost = {} => \A i \in NvIds \ {Flag} : Tells(nBuf, i, nvBefore[i], nSys[i])
NvSaving ==
  /\ nPc # "idle" => nvRet = ""
  /\ nPc \in {"open", "write"} => Saved(nBuf, nSys)
  /\ nvRet = "SUCCESS" => Saved(nFile.cells, nSys)
NvInv == NvTypes /\ NvLoading /\ NvLoaded /\ NvSaving

\* A variable that was set is one that may be stored.
LEMMA StoredOk ==
  ASSUME NEW attr \in Nat, NEW data \in Seq(Nat)
  PROVE  Stored(attr, data) \in Value /\ (Stored(attr, data).attr \in {NV, NV_AUTH} => Stored(attr, data).data # <<>>)
<1>1. CASE data = <<>>
  <2>1. Stored(attr, data) = Absent
    BY <1>1 DEF Stored
  <2>2. Absent \in Value /\ ~(Absent.attr \in {NV, NV_AUTH})
    BY DEF Absent, Value, NV, NV_AUTH
  <2> QED BY <2>1, <2>2, Zenon
<1>2. CASE data # <<>>
  <2>1. Stored(attr, data) = [attr |-> attr, data |-> data]
    BY <1>2 DEF Stored
  <2>2. [attr |-> attr, data |-> data] \in Value /\ [attr |-> attr, data |-> data].data # <<>>
    BY <1>2 DEF Value
  <2> QED BY <2>1, <2>2, Zenon
<1> QED
  BY <1>1, <1>2

\* The store after some variables were set to the same.
LEMMA StoreSet ==
  ASSUME NEW sys, StoreOk(sys), NEW attr \in Nat, NEW data \in Seq(Nat), NEW S,
         NEW new, new = [i \in NvIds |-> IF i \in S THEN Stored(attr, data) ELSE sys[i]]
  PROVE  StoreOk(new)
<1>1. PICK v : v = Stored(attr, data)
  OBVIOUS
<1>2. v \in Value /\ (v.attr \in {NV, NV_AUTH} => v.data # <<>>)
  BY <1>1, StoredOk
<1>3. \A i \in NvIds : sys[i] \in Value /\ (sys[i].attr \in {NV, NV_AUTH} => sys[i].data # <<>>)
  BY DEF StoreOk
<1>4. \A i \in NvIds : new[i] = v \/ new[i] = sys[i]
  BY <1>1
<1>5. \A i \in NvIds : new[i] \in Value /\ (new[i].attr \in {NV, NV_AUTH} => new[i].data # <<>>)
  BY <1>2, <1>3, <1>4, Zenon
<1>6. new \in [NvIds -> Value]
  <2>1. new = [i \in NvIds |-> new[i]]
    OBVIOUS
  <2> QED BY <1>5, <2>1
<1> QED
  BY <1>5, <1>6 DEF StoreOk

\* SetNvVarsVariable changes the flag only.
LEMMA FlagSet ==
  ASSUME NEW sys, StoreOk(sys), NEW fails
  PROVE  /\ StoreOk(SetNvVarsVariable(sys, fails))
         /\ \A i \in NvIds \ {Flag} : SetNvVarsVariable(sys, fails)[i] = sys[i]
<1>0. SUFFICES ASSUME ~fails
               PROVE  /\ StoreOk(SetNvVarsVariable(sys, fails))
                      /\ \A i \in NvIds \ {Flag} : SetNvVarsVariable(sys, fails)[i] = sys[i]
  BY DEF SetNvVarsVariable
<1>1. PICK new : new = SetNvVarsVariable(sys, fails)
  OBVIOUS
<1>2. PICK data : data = <<1>>
  OBVIOUS
<1>3. data \in Seq(Nat) /\ data # <<>> /\ NV \in Nat
  BY <1>2 DEF NV
<1>4. Stored(NV, data) = [attr |-> NV, data |-> <<1>>]
  BY <1>2, <1>3 DEF Stored
<1>5. sys \in [NvIds -> Value]
  BY DEF StoreOk
<1>6. new = [i \in NvIds |-> IF i \in {Flag} THEN Stored(NV, data) ELSE sys[i]]
  BY <1>0, <1>1, <1>4, <1>5 DEF SetNvVarsVariable
<1>7. StoreOk(new)
  BY <1>3, <1>6, StoreSet
<1>8. \A i \in NvIds \ {Flag} : new[i] = sys[i]
  BY <1>6
<1> QED
  BY <1>1, <1>7, <1>8

\* An entry that UnpackVariableFromBuffer takes.
LEMMA Unpacked ==
  ASSUME NEW cells \in Seq(Nat), NEW at \in Nat, at < Len(cells), NEW u,
         u = UnpackVariableFromBuffer(cells, at), u.ok
  PROVE  /\ u.used \in Nat /\ After(cells, at) = at + u.used /\ After(cells, at) <= Len(cells)
         /\ u.name = NameAt(cells, at) /\ u.guid = GuidAt(cells, at)
         /\ u.attr = AttrAt(cells, at) /\ u.data = DataAt(cells, at)
         /\ u.name \in Seq(Nat) /\ u.guid \in Nat /\ u.attr \in Nat /\ u.data \in Seq(Nat)
<1>1. /\ u.used \in Nat /\ After(cells, at) = at + u.used /\ at + u.used <= Len(cells)
      /\ u.name = NameAt(cells, at) /\ u.guid = GuidAt(cells, at)
      /\ u.attr = AttrAt(cells, at) /\ u.data = DataAt(cells, at)
  BY Unpacks
<1>2. After(cells, at) <= Len(cells)
  BY <1>1
<1>3. PICK e \in Variable : e = EntryAt(cells, at)
  BY <1>2, EntryIsVariable
<1>4. e.name = NameAt(cells, at) /\ e.guid = GuidAt(cells, at) /\ e.attr = AttrAt(cells, at) /\ e.data = DataAt(cells, at)
  BY <1>3 DEF EntryAt
<1>5. e.name \in Seq(Nat) /\ e.guid \in Nat /\ e.attr \in Nat /\ e.data \in Seq(Nat)
  BY FieldsOf
<1> QED
  BY <1>1, <1>2, <1>4, <1>5, Zenon

\* The pass that checks takes one more.
LEMMA CheckStep ==
  ASSUME NEW buf \in Seq(Nat), NEW pos \in Nat, pos < Len(buf), NEW u, u = UnpackVariableFromBuffer(buf, pos), u.ok,
         NEW name, ~(u.name = <<>> /\ name = <<>>), NEW called, called = (IF u.name = <<>> THEN name ELSE u.name),
         NEW ws, Follows(buf, pos, name, ws)
  PROVE  \E w \in Variable : /\ w = [name |-> called, guid |-> u.guid, attr |-> u.attr, data |-> u.data]
                             /\ Follows(buf, pos + u.used, called, Append(ws, w))
<1>1. /\ u.used \in Nat /\ After(buf, pos) = pos + u.used /\ After(buf, pos) <= Len(buf)
      /\ u.name = NameAt(buf, pos) /\ u.guid = GuidAt(buf, pos)
      /\ u.attr = AttrAt(buf, pos) /\ u.data = DataAt(buf, pos)
  BY Unpacked
<1>2. PICK w : w = [name |-> called, guid |-> u.guid, attr |-> u.attr, data |-> u.data]
  OBVIOUS
<1>3. w = [name |-> called, guid |-> GuidAt(buf, pos), attr |-> AttrAt(buf, pos), data |-> DataAt(buf, pos)]
  BY <1>1, <1>2, Zenon
<1>4. ~(NameAt(buf, pos) = <<>> /\ name = <<>>) /\ called = (IF NameAt(buf, pos) = <<>> THEN name ELSE NameAt(buf, pos))
      /\ After(buf, pos) <= Len(buf)
  BY <1>1
<1>5. w \in Variable /\ Follows(buf, After(buf, pos), called, Append(ws, w))
  BY <1>3, <1>4, FollowStep
<1> QED
  BY <1>1, <1>2, <1>5, Zenon

\* The pass that fills the instance takes one more.
LEMMA AddStep ==
  ASSUME NEW buf \in Seq(Nat), NEW pos \in Nat, pos < Len(buf), NEW u, u = UnpackVariableFromBuffer(buf, pos), u.ok,
         NEW name, ~(u.name = <<>> /\ name = <<>>), NEW called, called = (IF u.name = <<>> THEN name ELSE u.name),
         NEW inst \in Seq(Nat), NEW lost, Adding(buf, pos, name, inst, lost)
  PROVE  /\ called \in Seq(Nat)
         /\ SerializeVariablesAddVariable(inst, called, u.guid, u.attr, u.data) \in Seq(Nat)
         /\ Adding(buf, pos + u.used, called, SerializeVariablesAddVariable(inst, called, u.guid, u.attr, u.data), lost)
         /\ \A l : l # {} => Adding(buf, pos + u.used, called, inst, l)
<1>1. PICK ws : Follows(buf, pos, name, ws) /\ (lost = {} => ListsTo(inst, Len(inst), ws))
  BY DEF Adding
<1>2. PICK w \in Variable : /\ w = [name |-> called, guid |-> u.guid, attr |-> u.attr, data |-> u.data]
                            /\ Follows(buf, pos + u.used, called, Append(ws, w))
  BY <1>1, CheckStep
<1>3. u.guid \in Nat /\ u.attr \in Nat /\ u.data \in Seq(Nat)
  BY Unpacked
<1>4. called \in Seq(Nat)
  <2>1. w.name \in Seq(Nat)
    BY FieldsOf
  <2>2. w.name = called
    BY <1>2
  <2> QED BY <2>1, <2>2
<1>5. PICK guid \in Nat, attr \in Nat, data \in Seq(Nat) : guid = u.guid /\ attr = u.attr /\ data = u.data
  BY <1>3
<1>6. PICK more \in Seq(Nat) : more = SerializeVariablesAddVariable(inst, called, guid, attr, data)
  <2>1. \E more \in Seq(Nat) :
          /\ more = SerializeVariablesAddVariable(inst, called, guid, attr, data)
          /\ BeginsWith(more, inst) /\ After(more, Len(inst)) = Len(more)
          /\ EntryAt(more, Len(inst)) = [name |-> called, guid |-> guid, attr |-> attr, data |-> data]
    BY <1>4, AddedEntry
  <2> QED BY <2>1, Zenon
<1>7. ASSUME lost = {} PROVE ListsTo(more, Len(more), Append(ws, w))
  <2>1. ListsTo(inst, Len(inst), ws)
    BY <1>1, <1>7
  <2>2. \E m \in Seq(Nat) : /\ m = SerializeVariablesAddVariable(inst, called, guid, attr, data)
           /\ ListsTo(m, Len(m), Append(ws, [name |-> called, guid |-> guid, attr |-> attr, data |-> data]))
    BY <1>4, <2>1, ListAppend
  <2> QED BY <1>2, <1>5, <1>6, <2>2, Zenon
<1>8. Adding(buf, pos + u.used, called, more, lost)
  BY <1>2, <1>7, Zenon DEF Adding
<1>9. \A l : l # {} => Adding(buf, pos + u.used, called, inst, l)
  BY <1>2, Zenon DEF Adding
<1> QED
  BY <1>4, <1>5, <1>6, <1>8, <1>9, Zenon

\* The store when an entry was set under a name.
SetBy(sys, name, u) ==
  [i \in NvIds |-> IF Name(i) = name /\ u.guid = GUID THEN Stored(u.attr, u.data) ELSE sys[i]]

\* The pass that sets the variables takes one more.
LEMMA SetStep ==
  ASSUME NEW buf \in Seq(Nat), NEW inst \in Seq(Nat), NEW pos \in Nat, pos < Len(inst),
         NEW u, u = UnpackVariableFromBuffer(inst, pos), u.ok,
         NEW name, NEW called, called = (IF u.name = <<>> THEN name ELSE u.name),
         NEW before, NEW sys, NEW lost, Setting(buf, inst, pos, before, sys, lost)
  PROVE  Setting(buf, inst, pos + u.used, before, SetBy(sys, called, u), lost)
<1>0. PICK new : new = SetBy(sys, called, u)
  OBVIOUS
<1>1. SUFFICES ASSUME lost = {} PROVE Setting(buf, inst, pos + u.used, before, new, lost)
  BY <1>0 DEF Setting
<1>2. PICK ws, m, last : /\ Follows(buf, Len(buf), last, ws) /\ ListsTo(inst, Len(inst), ws)
                         /\ m \in 0 .. Len(ws) /\ pos = Begins(inst)[m]
                         /\ \A i \in NvIds : LastFor(ws, m, i, before[i], sys[i])
  BY <1>1 DEF Setting
<1>3. ws \in Seq(Variable)
  BY <1>2 DEF ListsTo
<1>4. PICK n \in Nat : n = Len(ws)
  BY <1>3
<1>5. PICK b : b = Begins(inst)
  OBVIOUS
<1>6. b[n] = Len(inst) /\ \A j \in 1 .. n : EntryAt(inst, b[j - 1]) = ws[j]
  BY <1>2, <1>4, <1>5 DEF ListsTo
<1>7. m \in Nat /\ m + 1 \in 1 .. n /\ (m + 1) - 1 = m
  <2>1. m \in 0 .. n /\ m # n
    BY <1>2, <1>4, <1>5, <1>6
  <2> QED BY <2>1
<1>8. PICK w : w = ws[m + 1] /\ w = EntryAt(inst, pos) /\ w \in Variable
  BY <1>2, <1>3, <1>4, <1>5, <1>6, <1>7
<1>9. /\ u.used \in Nat /\ After(inst, pos) = pos + u.used /\ After(inst, pos) <= Len(inst)
      /\ u.name = NameAt(inst, pos) /\ u.guid = GuidAt(inst, pos)
      /\ u.attr = AttrAt(inst, pos) /\ u.data = DataAt(inst, pos)
  BY Unpacked
<1>10. w.name = NameAt(inst, pos) /\ w.guid = GuidAt(inst, pos) /\ w.attr = AttrAt(inst, pos) /\ w.data = DataAt(inst, pos)
  BY <1>8 DEF EntryAt
<1>11. w.name = u.name /\ w.guid = u.guid /\ w.attr = u.attr /\ w.data = u.data
  BY <1>9, <1>10, Zenon
<1>12. w.name # <<>>
  <2>1. PICK vs : NamedAs(vs, ws)
    BY <1>2 DEF Follows
  <2>2. \A j \in 1 .. Len(ws) : ws[j].name # <<>>
    BY <2>1, AllNamed
  <2> QED BY <1>4, <1>7, <1>8, <2>2
<1>13. called = w.name
  BY <1>11, <1>12
<1>14. b[m + 1] = pos + u.used
  <2>1. b[m + 1] = After(inst, b[m])
    BY <1>5, <1>7, BeginsDef
  <2> QED BY <1>2, <1>5, <1>9, <2>1
<1>15. ASSUME NEW i \in NvIds PROVE LastFor(ws, m + 1, i, before[i], new[i])
  <2>1. new[i] = IF Name(i) = w.name /\ w.guid = GUID THEN Stored(w.attr, w.data) ELSE sys[i]
    BY <1>0, <1>11, <1>13 DEF SetBy
  <2>2. Is(w, i) <=> Name(i) = w.name /\ w.guid = GUID
    BY Zenon DEF Is
  <2>3. new[i] = IF Is(ws[m + 1], i) THEN Stored(ws[m + 1].attr, ws[m + 1].data) ELSE sys[i]
    BY <1>8, <2>1, <2>2, Zenon
  <2>4. LastFor(ws, m, i, before[i], sys[i])
    BY <1>2
  <2> QED BY <1>7, <2>3, <2>4, LastForStep
<1>16. m + 1 \in 0 .. Len(ws)
  BY <1>4, <1>7
<1> QED
  BY <1>2, <1>5, <1>14, <1>15, <1>16, Zenon DEF Setting

\* A pass begins.
LEMMA PassBegins ==
  ASSUME NEW buf \in Seq(Nat)
  PROVE  Follows(buf, 0, <<>>, <<>>) /\ ListsTo(<<>>, Len(<<>>), <<>>)
<1>1. PICK none : none = <<>>
  OBVIOUS
<1>2. none \in Seq(Nat) /\ none \in Seq(Variable) /\ Len(none) = 0 /\ 0 <= Len(buf)
  BY <1>1
<1>3. Begins(none)[0] = 0 /\ Begins(buf)[0] = 0
  BY <1>2, BeginsDef
<1>4. ListsTo(none, Len(none), none) /\ ListsTo(buf, 0, none)
  BY <1>2, <1>3 DEF ListsTo
<1>5. NamedAs(none, none)
  BY <1>2 DEF NamedAs
<1>6. Follows(buf, 0, none, none)
  BY <1>1, <1>2, <1>4, <1>5 DEF Follows
<1> QED
  BY <1>1, <1>4, <1>6, Zenon

\* The last pass begins with the store as it was.
LEMMA SetBegins ==
  ASSUME NEW buf \in Seq(Nat), NEW inst \in Seq(Nat), NEW name, NEW lost, Adding(buf, Len(buf), name, inst, lost), NEW sys
  PROVE  Setting(buf, inst, 0, sys, sys, lost)
<1>1. SUFFICES ASSUME lost = {} PROVE Setting(buf, inst, 0, sys, sys, lost)
  BY DEF Setting
<1>2. PICK ws : Follows(buf, Len(buf), name, ws) /\ ListsTo(inst, Len(inst), ws)
  BY <1>1 DEF Adding
<1>3. 0 \in 0 .. Len(ws) /\ 0 = Begins(inst)[0]
  <2>1. ws \in Seq(Variable)
    BY <1>2 DEF ListsTo
  <2>2. 0 \in 0 .. Len(ws)
    BY <2>1
  <2>3. Begins(inst)[0] = 0
    BY BeginsDef
  <2> QED BY <2>2, <2>3
<1>4. \A i \in NvIds : LastFor(ws, 0, i, sys[i], sys[i])
  <2>1. 1 .. 0 = {}
    OBVIOUS
  <2> QED BY <2>1 DEF LastFor
<1> QED
  BY <1>2, <1>3, <1>4, Zenon DEF Setting

\* It ends with what the buffer tells.
LEMMA SetEnds ==
  ASSUME NEW buf \in Seq(Nat), NEW inst \in Seq(Nat), NEW pos \in Nat, pos >= Len(inst),
         NEW before, NEW sys, Setting(buf, inst, pos, before, sys, {}), NEW i \in NvIds
  PROVE  Tells(buf, i, before[i], sys[i])
<1>1. PICK ws, m, name : /\ Follows(buf, Len(buf), name, ws) /\ ListsTo(inst, Len(inst), ws)
                         /\ m \in 0 .. Len(ws) /\ pos = Begins(inst)[m]
                         /\ \A k \in NvIds : LastFor(ws, m, k, before[k], sys[k])
  BY DEF Setting
<1>2. ws \in Seq(Variable) /\ Begins(inst)[Len(ws)] = Len(inst)
  BY <1>1 DEF ListsTo
<1>3. PICK n \in Nat : n = Len(ws)
  BY <1>2
<1>4. PICK b : b = Begins(inst)
  OBVIOUS
<1>5. m \in Nat /\ m <= n
  BY <1>1, <1>3
<1>6. b[m] = Len(inst)
  <2>1. \A j \in Nat : IF j <= n THEN b[j] <= Len(inst) ELSE b[j] = Len(inst) + 1
    BY <1>2, <1>3, <1>4, BeginsStop
  <2>2. b[m] <= Len(inst)
    BY <1>5, <2>1
  <2> QED BY <1>1, <1>4, <2>2
<1>7. m = n
  <2>1. Entries(inst) = 1 .. n /\ Entries(inst) = 1 .. m
    BY <1>2, <1>3, <1>4, <1>5, <1>6, EntriesAre
  <2>2. 1 .. n = 1 .. m
    BY <2>1, Zenon
  <2> QED BY <1>5, <2>2
<1>8. LastFor(ws, Len(ws), i, before[i], sys[i])
  BY <1>1, <1>3, <1>7
<1> QED
  BY <1>1, <1>8, TellsIt

\* A pass that is given up, and one that goes on.
Stops ==
  /\ nPc' = "save" /\ nLoad' = "INVALID_PARAMETER" /\ nPos' = 0 /\ nName' = <<>>
  /\ nInst' = nInst /\ nSys' = nSys
Moves(u, name) == nPos' = nPos + u.used /\ nName' = name /\ nPc' = nPc /\ nLoad' = nLoad
Takes(u, name) ==
  \/ nPc = "nop" /\ nSys' = nSys /\ nInst' = nInst /\ nLost' = nLost
  \/ /\ nPc = "inst" /\ nSys' = nSys
     /\ \/ nLost' # {} /\ nInst' = nInst
        \/ nLost' = nLost /\ nInst' = SerializeVariablesAddVariable(nInst, name, u.guid, u.attr, u.data)
  \/ /\ nPc = "sys" /\ nInst' = nInst
     /\ \/ nLost' # {} /\ nSys' = nSys
        \/ nLost' = nLost /\ nSys' = SetBy(nSys, name, u)

\* What EndPass does.
LEMMA PassFails ==
  ASSUME EndPass(FALSE)
  PROVE  nPc' = "save" /\ nLoad' = "INVALID_PARAMETER" /\ nPos' = 0 /\ nName' = <<>>
  BY DEF EndPass

\* The steps of IterateVariablesInBuffer.
LEMMA IterateCases ==
  ASSUME IterateVariablesInBuffer
  PROVE  /\ nPc \in {"nop", "inst", "sys"} /\ nPos < Len(Buffer)
         /\ nFile' = nFile /\ nBuf' = nBuf /\ nvRet' = nvRet /\ nvBefore' = nvBefore
         /\ \/ Stops
            \/ \E u, name : /\ u = UnpackVariableFromBuffer(Buffer, nPos) /\ u.ok
                            /\ ~(u.name = <<>> /\ nName = <<>>)
                            /\ name = (IF u.name = <<>> THEN nName ELSE u.name)
                            /\ Moves(u, name) /\ Takes(u, name)
<1>1. PICK u : u = UnpackVariableFromBuffer(Buffer, nPos)
  OBVIOUS
<1>2. PICK name : name = IF u.name = <<>> THEN nName ELSE u.name
  OBVIOUS
<1> DEFINE Continue(ok) == IF ok \/ nPos + u.used = Len(Buffer)
                           THEN nPos' = nPos + u.used /\ nName' = name /\ UNCHANGED <<nPc, nLoad>>
                           ELSE EndPass(FALSE)
<1>3. /\ nPc \in {"nop", "inst", "sys"} /\ nPos < Len(Buffer)
      /\ IF ~u.ok \/ (u.name = <<>> /\ nName = <<>>)
         THEN EndPass(FALSE) /\ UNCHANGED <<nSys, nInst, nLost, nvFaults>>
         ELSE \/ u.name # <<>> /\ Faulty(TRUE) /\ EndPass(FALSE) /\ UNCHANGED <<nSys, nInst, nLost>>
              \/ nPc = "nop" /\ Continue(TRUE) /\ UNCHANGED <<nSys, nInst, nLost, nvFaults>>
              \/ /\ nPc = "inst" /\ UNCHANGED nSys
                 /\ \E fails \in BOOLEAN :
                      /\ Faulty(fails) /\ Continue(~fails)
                      /\ nLost' = IF fails THEN nLost \cup {<<name, "OUT_OF_RESOURCES">>} ELSE nLost
                      /\ nInst' = IF fails THEN nInst ELSE SerializeVariablesAddVariable(nInst, name, u.guid, u.attr, u.data)
              \/ /\ nPc = "sys" /\ UNCHANGED nInst
                 /\ \E a \in SetAnswers(u.attr) :
                      /\ Faulty(a # "SUCCESS") /\ Continue(a \in {"SUCCESS"} \cup Ignored)
                      /\ nSys' = IF a # "SUCCESS" THEN nSys
                                 ELSE SetBy(nSys, name, u)
                      /\ nLost' = IF a = "SUCCESS" THEN nLost ELSE nLost \cup {<<name, a>>}
      /\ UNCHANGED <<nFile, nFs, nBuf, nvRet, nvBefore, nEvents>>
  BY <1>1, <1>2, Zenon DEF IterateVariablesInBuffer, SetBy
<1>4. ASSUME NEW ok, Continue(ok) PROVE Moves(u, name) \/ (~ok /\ EndPass(FALSE))
  BY <1>4 DEF Moves
<1>5. Continue(TRUE) => Moves(u, name)
  BY DEF Moves
<1> HIDE DEF Continue
<1>6. CASE EndPass(FALSE) /\ UNCHANGED <<nSys, nInst>>
  BY <1>3, <1>6, PassFails DEF Stops
<1>7. CASE ~(~u.ok \/ (u.name = <<>> /\ nName = <<>>)) /\ Moves(u, name) /\ Takes(u, name)
  BY <1>1, <1>2, <1>3, <1>7
<1>8. CASE ~u.ok \/ (u.name = <<>> /\ nName = <<>>)
  BY <1>3, <1>6, <1>8
<1>9. CASE ~(~u.ok \/ (u.name = <<>> /\ nName = <<>>))
  <2>1. CASE u.name # <<>> /\ Faulty(TRUE) /\ EndPass(FALSE) /\ UNCHANGED <<nSys, nInst, nLost>>
    BY <1>6, <2>1
  <2>2. CASE nPc = "nop" /\ Continue(TRUE) /\ UNCHANGED <<nSys, nInst, nLost, nvFaults>>
    BY <1>5, <1>7, <1>9, <2>2 DEF Takes
  <2>3. ASSUME nPc = "inst" /\ UNCHANGED nSys, NEW fails \in BOOLEAN, Continue(~fails),
               nLost' = IF fails THEN nLost \cup {<<name, "OUT_OF_RESOURCES">>} ELSE nLost,
               nInst' = IF fails THEN nInst ELSE SerializeVariablesAddVariable(nInst, name, u.guid, u.attr, u.data)
        PROVE  Stops \/ (Moves(u, name) /\ Takes(u, name))
    <3>1. CASE fails
      <4>1. nLost' # {} /\ nInst' = nInst
        BY <2>3, <3>1
      <4>2. Takes(u, name)
        BY <2>3, <4>1 DEF Takes
      <4>3. Moves(u, name) \/ EndPass(FALSE)
        BY <1>4, <2>3
      <4> QED BY <2>3, <4>1, <4>2, <4>3, PassFails DEF Stops
    <3>2. CASE ~fails
      <4>1. nLost' = nLost /\ nInst' = SerializeVariablesAddVariable(nInst, name, u.guid, u.attr, u.data)
        BY <2>3, <3>2
      <4>2. Takes(u, name)
        BY <2>3, <4>1 DEF Takes
      <4>3. Moves(u, name)
        BY <1>4, <2>3, <3>2
      <4> QED BY <4>2, <4>3
    <3> QED BY <3>1, <3>2
  <2>4. ASSUME nPc = "sys" /\ UNCHANGED nInst, NEW a \in SetAnswers(u.attr), Continue(a \in {"SUCCESS"} \cup Ignored),
               nSys' = IF a # "SUCCESS" THEN nSys
                       ELSE SetBy(nSys, name, u),
               nLost' = IF a = "SUCCESS" THEN nLost ELSE nLost \cup {<<name, a>>}
        PROVE  Stops \/ (Moves(u, name) /\ Takes(u, name))
    <3>1. CASE a # "SUCCESS"
      <4>1. nLost' # {} /\ nSys' = nSys
        BY <2>4, <3>1
      <4>2. Takes(u, name)
        BY <2>4, <4>1 DEF Takes
      <4>3. Moves(u, name) \/ EndPass(FALSE)
        BY <1>4, <2>4
      <4> QED BY <2>4, <4>1, <4>2, <4>3, PassFails DEF Stops
    <3>2. CASE a = "SUCCESS"
      <4>1. nLost' = nLost /\ nSys' = SetBy(nSys, name, u)
        BY <2>4, <3>2
      <4>2. Takes(u, name)
        BY <2>4, <4>1 DEF Takes
      <4>3. a \in {"SUCCESS"} \cup Ignored
        BY <3>2
      <4>4. Moves(u, name)
        BY <1>4, <2>4, <4>3
      <4> QED BY <4>2, <4>4
    <3> QED BY <3>1, <3>2
  <2>5. Stops \/ (Moves(u, name) /\ Takes(u, name)) =>
          \/ Stops
          \/ \E v, n : /\ v = UnpackVariableFromBuffer(Buffer, nPos) /\ v.ok
                       /\ ~(v.name = <<>> /\ nName = <<>>)
                       /\ n = (IF v.name = <<>> THEN nName ELSE v.name)
                       /\ Moves(v, n) /\ Takes(v, n)
    BY <1>1, <1>2, <1>9, Zenon
  <2> QED BY <1>3, <1>9, <2>1, <2>2, <2>3, <2>4, <2>5
<1> QED
  BY <1>8, <1>9

\* An empty store, and the empty buffer.
LEMMA EmptyOk == StoreOk(Empty) /\ <<>> \in Seq(Nat)
<1>1. Absent \in Value /\ ~(Absent.attr \in {NV, NV_AUTH})
  BY DEF Absent, Value, NV, NV_AUTH
<1>2. \A i \in NvIds : Empty[i] = Absent
  BY DEF Empty
<1>3. Empty \in [NvIds -> Value]
  BY <1>1 DEF Empty
<1>4. <<>> \in Seq(Nat)
  OBVIOUS
<1> QED
  BY <1>1, <1>2, <1>3, <1>4, Zenon DEF StoreOk

\* The invariant holds at the first boot.
LEMMA NvStart ==
  ASSUME NvInit
  PROVE  NvInv
<1>1. nPc = "idle" /\ nvRet = "" /\ nBuf = <<>> /\ nInst = <<>> /\ nPos = 0 /\ nName = <<>> /\ nSys = Empty
  BY DEF NvInit
<1>2. FileOk(nFile)
  <2>1. \/ \E f \in NvFiles : nFile = [kind |-> "file", cells |-> f]
        \/ \E k \in {"none", "dir"} : nFile = [kind |-> k, cells |-> <<>>]
    BY DEF NvInit
  <2>2. \A f \in NvFiles : f \in Seq(Nat)
    BY NvAssumption
  <2>3. <<>> \in Seq(Nat)
    OBVIOUS
  <2>4. CASE \E f \in NvFiles : nFile = [kind |-> "file", cells |-> f]
    BY <2>2, <2>4 DEF FileOk
  <2>5. CASE \E k \in {"none", "dir"} : nFile = [kind |-> k, cells |-> <<>>]
    BY <2>3, <2>5 DEF FileOk
  <2> QED BY <2>1, <2>4, <2>5
<1>3. NvTypes
  BY <1>1, <1>2, EmptyOk DEF NvTypes
<1>4. NvLoading /\ NvLoaded /\ NvSaving
  BY <1>1 DEF NvLoading, NvLoaded, NvSaving
<1> QED
  BY <1>3, <1>4 DEF NvInv

\* What a file has.
LEMMA FileCells ==
  ASSUME NEW file, FileOk(file)
  PROVE  file.cells \in Seq(Nat) /\ file.kind \in {"none", "dir", "file"}
  BY DEF FileOk

\* The load begins.
LEMMA ConnectKeeps ==
  ASSUME NvInv, ConnectNvVarsToFileSystem
  PROVE  NvInv'
<1>1. NvTypes /\ nPc = "idle"
  BY DEF NvInv, ConnectNvVarsToFileSystem
<1>2. nvRet' = "" /\ nSys' = nSys /\ nFile' = nFile /\ LoadNvVarsFromFs
  BY DEF ConnectNvVarsToFileSystem
<1>3. CASE nPc' = "save" /\ ~(nLoad' \in {"SUCCESS", "INVALID_PARAMETER"}) /\ UNCHANGED <<nBuf, nPos, nName, nInst>>
  <2>1. NvTypes'
    BY <1>1, <1>2, <1>3 DEF NvTypes
  <2>2. NvLoading' /\ NvLoaded' /\ NvSaving'
    BY <1>2, <1>3 DEF NvLoading, NvLoaded, NvSaving
  <2> QED BY <2>1, <2>2 DEF NvInv
<1>4. CASE Reads(nFile.cells)
  <2>1. /\ nBuf' = nFile.cells /\ nPos' = 0 /\ nName' = <<>> /\ nInst' = <<>> /\ nPc' = "nop"
        /\ nvBefore' = nSys /\ nLost' = {}
    BY <1>4 DEF Reads
  <2>2. nFile.cells \in Seq(Nat)
    BY <1>1, FileCells DEF NvTypes
  <2>3. NvTypes'
    BY <1>1, <1>2, <2>1, <2>2, EmptyOk DEF NvTypes
  <2>4. Checking(nBuf', nPos', nName')
    <3>1. Follows(nFile.cells, 0, <<>>, <<>>)
      BY <2>2, PassBegins
    <3> QED BY <2>1, <3>1, Zenon DEF Checking
  <2>5. NvLoading'
    BY <1>2, <2>1, <2>4 DEF NvLoading
  <2>6. NvLoaded' /\ NvSaving'
    BY <1>2, <2>1 DEF NvLoaded, NvSaving
  <2> QED BY <2>3, <2>5, <2>6 DEF NvInv
<1> QED
  BY <1>2, <1>3, <1>4 DEF LoadNvVarsFromFs

\* A save is asked for.
LEMMA UpdateKeeps ==
  ASSUME NvInv, UpdateNvVarsOnFileSystem
  PROVE  NvInv'
<1>1. NvTypes /\ NvSaving /\ nPc = "idle"
  BY DEF NvInv, UpdateNvVarsOnFileSystem
<1>2. /\ nSys' = nSys /\ nFile' = nFile /\ nBuf' = nBuf /\ nInst' = nInst /\ nPos' = nPos /\ nName' = nName
      /\ nLoad' = "" /\ nvRet' \in {"", "NOT_STARTED"}
      /\ (nPc' = "save" /\ nvRet' = "") \/ nPc' = "idle"
  BY <1>1 DEF UpdateNvVarsOnFileSystem
<1>3. NvTypes'
  BY <1>1, <1>2 DEF NvTypes
<1>4. NvLoading' /\ NvLoaded' /\ NvSaving'
  BY <1>2 DEF NvLoading, NvLoaded, NvSaving
<1> QED
  BY <1>3, <1>4 DEF NvInv

\* A pass is given up.
LEMMA StopKeeps ==
  ASSUME NvInv, nPc \in {"nop", "inst", "sys"}, nFile' = nFile, nBuf' = nBuf, nvRet' = nvRet, nvBefore' = nvBefore, Stops
  PROVE  NvInv'
<1>1. NvTypes /\ NvLoading /\ NvSaving
  BY DEF NvInv
<1>2. nPc' = "save" /\ nLoad' = "INVALID_PARAMETER" /\ nPos' = 0 /\ nName' = <<>> /\ nInst' = nInst /\ nSys' = nSys
  BY DEF Stops
<1>3. NvTypes'
  BY <1>1, <1>2, EmptyOk DEF NvTypes
<1>4. Whole(nBuf) \/ nSys = nvBefore
  BY <1>1 DEF NvLoading
<1>5. NvLoaded'
  BY <1>2, <1>4 DEF NvLoaded
<1>6. NvLoading' /\ NvSaving'
  BY <1>1, <1>2 DEF NvLoading, NvSaving
<1> QED
  BY <1>3, <1>5, <1>6 DEF NvInv

\* A pass takes a variable.
LEMMA TakeKeeps ==
  ASSUME NvInv, nPc \in {"nop", "inst", "sys"}, nPos < Len(Buffer),
         nFile' = nFile, nBuf' = nBuf, nvRet' = nvRet, nvBefore' = nvBefore,
         NEW u, NEW name, u = UnpackVariableFromBuffer(Buffer, nPos), u.ok,
         ~(u.name = <<>> /\ nName = <<>>), name = (IF u.name = <<>> THEN nName ELSE u.name),
         Moves(u, name), Takes(u, name)
  PROVE  NvInv'
<1>1. NvTypes /\ NvLoading /\ NvSaving
  BY DEF NvInv
<1>2. nPos' = nPos + u.used /\ nName' = name /\ nPc' = nPc
  BY DEF Moves
<1>3. nBuf \in Seq(Nat) /\ nInst \in Seq(Nat) /\ nPos \in Nat /\ nName \in Seq(Nat)
  BY <1>1 DEF NvTypes
<1>4. NvLoaded' /\ NvSaving'
  BY <1>1, <1>2 DEF NvLoaded, NvSaving
<1>5. CASE nPc = "nop"
  <2>1. nSys' = nSys /\ nInst' = nInst /\ nLost' = nLost
    BY <1>5 DEF Takes
  <2>2. Buffer = nBuf
    BY <1>5 DEF Buffer
  <2>3. /\ nPos < Len(nBuf) /\ u = UnpackVariableFromBuffer(nBuf, nPos)
    BY <2>2
  <2>4. nSys = nvBefore /\ nLost = {} /\ nInst = <<>> /\ Checking(nBuf, nPos, nName)
    BY <1>1, <1>5 DEF NvLoading
  <2>5. PICK ws : Follows(nBuf, nPos, nName, ws)
    BY <2>4 DEF Checking
  <2>6. PICK w \in Variable : /\ w = [name |-> name, guid |-> u.guid, attr |-> u.attr, data |-> u.data]
                              /\ Follows(nBuf, nPos + u.used, name, Append(ws, w))
    BY <1>3, <2>3, <2>5, CheckStep
  <2>7. u.used \in Nat
    BY <1>3, <2>3, Unpacked
  <2>8. name \in Seq(Nat)
    <3>1. u.name \in Seq(Nat)
      BY <1>3, <2>3, Unpacked
    <3> QED BY <1>3, <3>1
  <2>9. NvTypes'
    BY <1>1, <1>2, <1>3, <2>1, <2>7, <2>8 DEF NvTypes
  <2>10. Checking(nBuf, nPos + u.used, name)
    BY <2>6 DEF Checking
  <2>11. NvLoading'
    BY <1>2, <1>5, <2>1, <2>4, <2>10 DEF NvLoading
  <2> QED BY <1>4, <2>9, <2>11 DEF NvInv
<1>6. CASE nPc = "inst"
  <2>1. /\ nSys' = nSys
        /\ \/ nLost' # {} /\ nInst' = nInst
           \/ nLost' = nLost /\ nInst' = SerializeVariablesAddVariable(nInst, name, u.guid, u.attr, u.data)
    BY <1>6 DEF Takes
  <2>2. Buffer = nBuf
    BY <1>6 DEF Buffer
  <2>3. /\ nPos < Len(nBuf) /\ u = UnpackVariableFromBuffer(nBuf, nPos)
    BY <2>2
  <2>4. nSys = nvBefore /\ Whole(nBuf) /\ Adding(nBuf, nPos, nName, nInst, nLost)
    BY <1>1, <1>6 DEF NvLoading
  <2>5. /\ name \in Seq(Nat)
        /\ SerializeVariablesAddVariable(nInst, name, u.guid, u.attr, u.data) \in Seq(Nat)
        /\ Adding(nBuf, nPos + u.used, name, SerializeVariablesAddVariable(nInst, name, u.guid, u.attr, u.data), nLost)
        /\ \A l : l # {} => Adding(nBuf, nPos + u.used, name, nInst, l)
    BY <1>3, <2>3, <2>4, AddStep
  <2>6. Adding(nBuf, nPos + u.used, name, nInst', nLost') /\ nInst' \in Seq(Nat)
    BY <1>3, <2>1, <2>5, Zenon
  <2>7. u.used \in Nat
    BY <1>3, <2>3, Unpacked
  <2>9. NvTypes'
    BY <1>1, <1>2, <1>3, <2>1, <2>5, <2>6, <2>7 DEF NvTypes
  <2>11. NvLoading'
    BY <1>2, <1>6, <2>1, <2>4, <2>6 DEF NvLoading
  <2> QED BY <1>4, <2>9, <2>11 DEF NvInv
<1>7. CASE nPc = "sys"
  <2>1. /\ nInst' = nInst
        /\ \/ nLost' # {} /\ nSys' = nSys
           \/ nLost' = nLost /\ nSys' = SetBy(nSys, name, u)
    BY <1>7 DEF Takes
  <2>2. Buffer = nInst
    BY <1>7 DEF Buffer
  <2>3. /\ nPos < Len(nInst) /\ u = UnpackVariableFromBuffer(nInst, nPos)
    BY <2>2
  <2>4. Whole(nBuf) /\ Setting(nBuf, nInst, nPos, nvBefore, nSys, nLost)
    BY <1>1, <1>7 DEF NvLoading
  <2>5. u.used \in Nat /\ u.name \in Seq(Nat) /\ u.attr \in Nat /\ u.data \in Seq(Nat)
    BY <1>3, <2>3, Unpacked
  <2>6. name \in Seq(Nat)
    BY <1>3, <2>5
  <2>7. PICK new : new = SetBy(nSys, name, u)
    OBVIOUS
  <2>8. StoreOk(new)
    <3>1. new = [i \in NvIds |-> IF i \in {k \in NvIds : Name(k) = name /\ u.guid = GUID}
                                 THEN Stored(u.attr, u.data) ELSE nSys[i]]
      BY <2>7 DEF SetBy
    <3>2. StoreOk(nSys)
      BY <1>1 DEF NvTypes
    <3> QED BY <2>5, <3>1, <3>2, StoreSet
  <2>9. Setting(nBuf, nInst, nPos + u.used, nvBefore, new, nLost)
    <3>1. Setting(nBuf, nInst, nPos + u.used, nvBefore, SetBy(nSys, name, u), nLost)
      BY <1>3, <2>3, <2>4, SetStep
    <3> QED BY <2>7, <3>1
  <2>10. nSys' = nSys \/ nSys' = new
    BY <2>1, <2>7
  <2>11. StoreOk(nSys')
    BY <1>1, <2>8, <2>10 DEF NvTypes
  <2>12. Setting(nBuf, nInst, nPos + u.used, nvBefore, nSys', nLost')
    <3>1. CASE nLost' # {}
      BY <3>1 DEF Setting
    <3>2. CASE ~(nLost' # {})
      BY <2>1, <2>7, <2>9, <3>2
    <3> QED BY <3>1, <3>2
  <2>13. NvTypes'
    BY <1>1, <1>2, <1>3, <2>1, <2>5, <2>6, <2>11 DEF NvTypes
  <2>14. NvLoading'
    BY <1>2, <1>7, <2>1, <2>4, <2>12 DEF NvLoading
  <2> QED BY <1>4, <2>13, <2>14 DEF NvInv
<1> QED
  BY <1>5, <1>6, <1>7

\* Either way IterateVariablesInBuffer keeps the invariant.
LEMMA IterateKeeps ==
  ASSUME NvInv, IterateVariablesInBuffer
  PROVE  NvInv'
<1>1. /\ nPc \in {"nop", "inst", "sys"} /\ nPos < Len(Buffer)
      /\ nFile' = nFile /\ nBuf' = nBuf /\ nvRet' = nvRet /\ nvBefore' = nvBefore
  BY IterateCases
<1>2. CASE Stops
  BY <1>1, <1>2, StopKeeps
<1>3. ASSUME NEW u, NEW name, u = UnpackVariableFromBuffer(Buffer, nPos), u.ok,
             ~(u.name = <<>> /\ nName = <<>>), name = (IF u.name = <<>> THEN nName ELSE u.name),
             Moves(u, name), Takes(u, name)
      PROVE  NvInv'
  BY <1>1, <1>3, TakeKeeps
<1> QED
  BY <1>2, <1>3, IterateCases

\* A pass is through.
LEMMA EndKeeps ==
  ASSUME NvInv, EndOfBuffer
  PROVE  NvInv'
<1>1. NvTypes /\ NvLoading /\ NvSaving
  BY DEF NvInv
<1>2. /\ nPc \in {"nop", "inst", "sys"} /\ nPos >= Len(Buffer) /\ nPos' = 0 /\ nName' = <<>>
      /\ nFile' = nFile /\ nBuf' = nBuf /\ nInst' = nInst /\ nvRet' = nvRet /\ nvBefore' = nvBefore /\ nLost' = nLost
      /\ \E fails \in BOOLEAN : nSys' = (IF nPc = "sys" THEN SetNvVarsVariable(nSys, fails) ELSE nSys)
  BY DEF EndOfBuffer, EndPass
<1>3. nBuf \in Seq(Nat) /\ nInst \in Seq(Nat) /\ nPos \in Nat
  BY <1>1 DEF NvTypes
<1>4. CASE nPc = "nop"
  <2>1. nPc' = "inst" /\ nSys' = nSys
    BY <1>2, <1>4 DEF EndOfBuffer, EndPass
  <2>2. nSys = nvBefore /\ nLost = {} /\ nInst = <<>> /\ Checking(nBuf, nPos, nName) /\ nPos >= Len(nBuf)
    BY <1>1, <1>2, <1>4 DEF NvLoading, Buffer
  <2>3. PICK ws : Follows(nBuf, nPos, nName, ws)
    BY <2>2 DEF Checking
  <2>4. nPos = Len(nBuf)
    <3>1. nPos <= Len(nBuf)
      BY <2>3 DEF Follows, ListsTo
    <3> QED BY <1>3, <2>2, <3>1
  <2>5. Whole(nBuf)
    BY <1>3, <2>3, <2>4, WholeIt
  <2>6. Adding(nBuf, 0, <<>>, <<>>, nLost)
    <3>1. Follows(nBuf, 0, <<>>, <<>>) /\ ListsTo(<<>>, Len(<<>>), <<>>)
      BY <1>3, PassBegins
    <3> QED BY <3>1, Zenon DEF Adding
  <2>7. Adding(nBuf', nPos', nName', nInst', nLost')
    BY <1>2, <2>2, <2>6, Zenon
  <2>8. NvTypes'
    BY <1>1, <1>2, <2>1, EmptyOk DEF NvTypes
  <2>9. NvLoading'
    BY <1>2, <2>1, <2>2, <2>5, <2>7 DEF NvLoading
  <2>10. NvLoaded' /\ NvSaving'
    BY <1>1, <1>2, <1>4, <2>1 DEF NvLoaded, NvSaving
  <2> QED BY <2>8, <2>9, <2>10 DEF NvInv
<1>5. CASE nPc = "inst"
  <2>1. nPc' = "sys" /\ nSys' = nSys
    BY <1>2, <1>5 DEF EndOfBuffer, EndPass
  <2>2. nSys = nvBefore /\ Whole(nBuf) /\ Adding(nBuf, nPos, nName, nInst, nLost) /\ nPos >= Len(nBuf)
    BY <1>1, <1>2, <1>5 DEF NvLoading, Buffer
  <2>3. nPos = Len(nBuf)
    <3>1. PICK ws : Follows(nBuf, nPos, nName, ws)
      BY <2>2 DEF Adding
    <3>2. nPos <= Len(nBuf)
      BY <3>1 DEF Follows, ListsTo
    <3> QED BY <1>3, <2>2, <3>2
  <2>4. Adding(nBuf, Len(nBuf), nName, nInst, nLost)
    BY <2>2, <2>3
  <2>5. Setting(nBuf, nInst, 0, nSys, nSys, nLost)
    BY <1>3, <2>4, SetBegins
  <2>6. Setting(nBuf', nInst', nPos', nvBefore', nSys', nLost')
    BY <1>2, <2>1, <2>2, <2>5, Zenon
  <2>7. NvTypes'
    BY <1>1, <1>2, <2>1, EmptyOk DEF NvTypes
  <2>8. NvLoading'
    BY <1>2, <2>1, <2>2, <2>6 DEF NvLoading
  <2>9. NvLoaded' /\ NvSaving'
    BY <1>1, <1>2, <1>5, <2>1 DEF NvLoaded, NvSaving
  <2> QED BY <2>7, <2>8, <2>9 DEF NvInv
<1>6. CASE nPc = "sys"
  <2>1. nPc' = "save" /\ \E fails \in BOOLEAN : nSys' = SetNvVarsVariable(nSys, fails)
    BY <1>2, <1>6 DEF EndOfBuffer, EndPass
  <2>2. Whole(nBuf) /\ Setting(nBuf, nInst, nPos, nvBefore, nSys, nLost) /\ nPos >= Len(nInst)
    BY <1>1, <1>2, <1>6 DEF NvLoading, Buffer
  <2>3. StoreOk(nSys) /\ StoreOk(nSys') /\ \A i \in NvIds \ {Flag} : nSys'[i] = nSys[i]
    BY <1>1, <2>1, FlagSet DEF NvTypes
  <2>4. ASSUME nLost = {}, NEW i \in NvIds \ {Flag} PROVE Tells(nBuf, i, nvBefore[i], nSys'[i])
    <3>1. Setting(nBuf, nInst, nPos, nvBefore, nSys, {})
      BY <2>2, <2>4
    <3>2. Tells(nBuf, i, nvBefore[i], nSys[i])
      BY <1>3, <2>2, <3>1, SetEnds
    <3> QED BY <2>3, <3>2
  <2>5. NvTypes'
    BY <1>1, <1>2, <2>1, <2>3, EmptyOk DEF NvTypes
  <2>6. NvLoaded'
    BY <1>2, <2>1, <2>2, <2>4 DEF NvLoaded
  <2>7. NvLoading' /\ NvSaving'
    BY <1>1, <1>2, <1>6, <2>1 DEF NvLoading, NvSaving
  <2> QED BY <2>5, <2>6, <2>7 DEF NvInv
<1> QED
  BY <1>2, <1>4, <1>5, <1>6

\* The variables are serialized.
LEMMA SaveKeeps ==
  ASSUME NvInv, SaveNvVarsToFs
  PROVE  NvInv'
<1>1. NvTypes /\ NvSaving /\ nPc = "save"
  BY DEF NvInv, SaveNvVarsToFs
<1>2. PICK buf : buf = SerializeVariablesIterateSystemVariables(nSys)
  OBVIOUS
<1>3. /\ nSys' = nSys /\ nFile' = nFile /\ nInst' = nInst /\ nPos' = nPos /\ nName' = nName
      /\ \/ nPc' = "idle" /\ nvRet' \in {"OUT_OF_RESOURCES", "INVALID_PARAMETER"} /\ nBuf' = nBuf
         \/ nPc' = "open" /\ nvRet' = nvRet /\ nBuf' = buf
  BY <1>2 DEF SaveNvVarsToFs, SaveFails
<1>4. Saved(buf, nSys)
  BY <1>1, <1>2, SaveSaves DEF NvTypes
<1>5. nBuf' \in Seq(Nat)
  BY <1>1, <1>3, <1>4 DEF NvTypes, Saved
<1>6. NvTypes'
  BY <1>1, <1>3, <1>5 DEF NvTypes
<1>7. NvLoading' /\ NvLoaded'
  BY <1>3 DEF NvLoading, NvLoaded
<1>8. NvSaving'
  BY <1>1, <1>3, <1>4 DEF NvSaving
<1> QED
  BY <1>6, <1>7, <1>8 DEF NvInv

\* The file is opened and emptied.
LEMMA NvOpenKeeps ==
  ASSUME NvInv, OpenAndEmpty
  PROVE  NvInv'
<1>1. NvTypes /\ NvSaving /\ nPc = "open"
  BY DEF NvInv, OpenAndEmpty
<1>2. PICK at \in {"", "open", "empty"} :
       /\ nFile' = IF at = "open" \/ nFile.kind = "dir" THEN nFile
                   ELSE [kind |-> "file", cells |-> IF at = "empty" THEN nFile.cells ELSE <<>>]
       /\ IF at # "" \/ nFile.kind = "dir" THEN SaveFails("DEVICE_ERROR") ELSE nPc' = "write" /\ UNCHANGED nvRet
  BY DEF OpenAndEmpty
<1>3. /\ nSys' = nSys /\ nBuf' = nBuf /\ nInst' = nInst /\ nPos' = nPos /\ nName' = nName
      /\ \/ nPc' = "idle" /\ nvRet' = "DEVICE_ERROR"
         \/ nPc' = "write" /\ nvRet' = nvRet
  BY <1>2 DEF OpenAndEmpty, SaveFails
<1>4. FileOk(nFile')
  <2>1. PICK cells \in Seq(Nat) : cells = IF at = "empty" THEN nFile.cells ELSE <<>>
    BY <1>1, FileCells, EmptyOk DEF NvTypes
  <2>2. FileOk([kind |-> "file", cells |-> cells])
    BY DEF FileOk
  <2> QED BY <1>1, <1>2, <2>1, <2>2 DEF NvTypes
<1>5. NvTypes'
  BY <1>1, <1>3, <1>4 DEF NvTypes
<1>6. NvLoading' /\ NvLoaded'
  BY <1>3 DEF NvLoading, NvLoaded
<1>7. NvSaving'
  BY <1>1, <1>3 DEF NvSaving
<1> QED
  BY <1>5, <1>6, <1>7 DEF NvInv

\* A file that is written in part or as a whole.
LEMMA WrittenFile ==
  ASSUME NEW file, FileOk(file), NEW buf \in Seq(Nat), NEW n \in 0 .. Len(buf),
         NEW new, new = [file EXCEPT !.cells = SubSeq(buf, 1, n)]
  PROVE  FileOk(new) /\ (n = Len(buf) => new.cells = buf)
<1>1. PICK cells : cells = SubSeq(buf, 1, n)
  OBVIOUS
<1>2. n \in Nat /\ n <= Len(buf) /\ 1 \in Nat /\ 1 >= 1
  OBVIOUS
<1>3. cells \in Seq(Nat)
  BY <1>1, <1>2, PartOf
<1>4. n = Len(buf) => cells = buf
  <2> HAVE n = Len(buf)
  <2>1. n + 1 = 1 + Len(buf) /\ \A k \in 1 .. Len(buf) : buf[k] = buf[1 + k - 1]
    BY <1>2
  <2>2. SubSeq(buf, 1, n) = buf
    BY <1>2, <2>1, PartIs
  <2> QED BY <1>1, <2>2
<1>5. new = [file EXCEPT !.cells = cells]
  BY <1>1
<1>6. FileOk(new) /\ new.cells = cells
  BY <1>3, <1>5 DEF FileOk
<1> QED
  BY <1>4, <1>6

\* The file is written.
LEMMA WriteKeeps ==
  ASSUME NvInv, FileHandleWrite
  PROVE  NvInv'
<1>1. NvTypes /\ NvSaving /\ nPc = "write"
  BY DEF NvInv, FileHandleWrite
<1>2. PICK n \in 0 .. Len(nBuf), fails \in BOOLEAN :
       /\ nFile' = [nFile EXCEPT !.cells = SubSeq(nBuf, 1, n)]
       /\ nPc' = "idle" /\ nvRet' = IF n < Len(nBuf) THEN "DEVICE_ERROR" ELSE "SUCCESS"
       /\ nSys' = IF n < Len(nBuf) THEN nSys ELSE SetNvVarsVariable(nSys, fails)
  BY DEF FileHandleWrite
<1>3. nBuf' = nBuf /\ nInst' = nInst /\ nPos' = nPos /\ nName' = nName
  BY DEF FileHandleWrite
<1>4. nBuf \in Seq(Nat) /\ FileOk(nFile) /\ StoreOk(nSys) /\ Saved(nBuf, nSys)
  BY <1>1 DEF NvTypes, NvSaving
<1>5. FileOk(nFile') /\ (n = Len(nBuf) => nFile'.cells = nBuf)
  BY <1>2, <1>4, WrittenFile
<1>6. /\ StoreOk(SetNvVarsVariable(nSys, fails))
      /\ \A i \in NvIds \ {Flag} : SetNvVarsVariable(nSys, fails)[i] = nSys[i]
  BY <1>4, FlagSet
<1>7. Saved(nBuf, SetNvVarsVariable(nSys, fails))
  BY <1>4, <1>6 DEF Saved
<1>8. NvTypes'
  BY <1>1, <1>2, <1>3, <1>5, <1>6 DEF NvTypes
<1>9. NvLoading' /\ NvLoaded'
  BY <1>2 DEF NvLoading, NvLoaded
<1>10. nvRet' = "SUCCESS" => Saved(nFile'.cells, nSys')
  <2>1. SUFFICES ASSUME nvRet' = "SUCCESS" PROVE Saved(nFile'.cells, nSys')
    OBVIOUS
  <2>2. ~(n < Len(nBuf))
    BY <1>2, <2>1
  <2>3. n = Len(nBuf)
    BY <1>4, <2>2
  <2>4. nSys' = SetNvVarsVariable(nSys, fails) /\ nFile'.cells = nBuf
    BY <1>2, <1>5, <2>2, <2>3
  <2> QED BY <1>7, <2>4
<1>11. NvSaving'
  BY <1>2, <1>10 DEF NvSaving
<1> QED
  BY <1>8, <1>9, <1>11 DEF NvInv

\* Other drivers set variables.
LEMMA OthersKeep ==
  ASSUME NvInv, NEW i \in NvIds, NEW a \in {VOLATILE, NV, NV_AUTH}, NEW d \in NvDatas,
         SetVariable(i, [attr |-> a, data |-> d])
  PROVE  NvInv'
<1>1. NvTypes /\ nPc = "idle"
  BY DEF NvInv, SetVariable
<1>2. /\ nSys' = [nSys EXCEPT ![i] = [attr |-> a, data |-> d]] /\ nvRet' = ""
      /\ nFile' = nFile /\ nPc' = nPc /\ nBuf' = nBuf /\ nInst' = nInst /\ nPos' = nPos /\ nName' = nName
  BY DEF SetVariable
<1>3. a \in Nat /\ d \in Seq(Nat) /\ d # <<>>
  <2>1. d \in Seq(Nat) \ {<<>>}
    BY NvAssumption
  <2>2. a \in Nat
    BY DEF VOLATILE, NV, NV_AUTH
  <2> QED BY <2>1, <2>2
<1>4. Stored(a, d) = [attr |-> a, data |-> d]
  BY <1>3 DEF Stored
<1>5. nSys \in [NvIds -> Value]
  BY <1>1 DEF NvTypes, StoreOk
<1>6. nSys' = [k \in NvIds |-> IF k \in {i} THEN Stored(a, d) ELSE nSys[k]]
  BY <1>2, <1>4, <1>5
<1>7. StoreOk(nSys')
  <2>1. StoreOk(nSys)
    BY <1>1 DEF NvTypes
  <2> QED BY <1>3, <1>6, <2>1, StoreSet
<1>8. NvTypes'
  BY <1>1, <1>2, <1>7 DEF NvTypes
<1>9. NvLoading' /\ NvLoaded' /\ NvSaving'
  BY <1>1, <1>2 DEF NvLoading, NvLoaded, NvSaving
<1> QED
  BY <1>8, <1>9 DEF NvInv

\* The power goes.
LEMMA PowerKeeps ==
  ASSUME NvInv, PowerCycle
  PROVE  NvInv'
<1>1. NvTypes
  BY DEF NvInv
<1>2. nSys' = Empty /\ nPc' = "idle" /\ nvRet' = "" /\ nBuf' = <<>> /\ nInst' = <<>> /\ nPos' = 0 /\ nName' = <<>>
  BY DEF PowerCycle
<1>3. PICK n \in 0 .. Len(nBuf) :
        nFile' = IF nPc = "write" THEN [nFile EXCEPT !.cells = SubSeq(nBuf, 1, n)] ELSE nFile
  BY DEF PowerCycle
<1>4. FileOk(nFile) /\ nBuf \in Seq(Nat)
  BY <1>1 DEF NvTypes
<1>5. FileOk(nFile')
  <2>1. CASE nPc = "write"
    <3>1. nFile' = [nFile EXCEPT !.cells = SubSeq(nBuf, 1, n)]
      BY <1>3, <2>1
    <3> QED BY <1>4, <3>1, WrittenFile
  <2>2. CASE nPc # "write"
    BY <1>3, <1>4, <2>2
  <2> QED BY <2>1, <2>2
<1>6. NvTypes'
  BY <1>2, <1>5, EmptyOk DEF NvTypes
<1>7. NvLoading' /\ NvLoaded' /\ NvSaving'
  BY <1>2 DEF NvLoading, NvLoaded, NvSaving
<1> QED
  BY <1>6, <1>7 DEF NvInv

\* Nothing happens.
LEMMA NvStutter ==
  ASSUME NvInv, UNCHANGED nvVars
  PROVE  NvInv'
<1>1. /\ nSys' = nSys /\ nFile' = nFile /\ nPc' = nPc /\ nBuf' = nBuf /\ nInst' = nInst /\ nPos' = nPos
      /\ nName' = nName /\ nLoad' = nLoad /\ nvRet' = nvRet /\ nvBefore' = nvBefore /\ nLost' = nLost
  BY DEF nvVars
<1>2. NvTypes' /\ NvLoading'
  BY <1>1 DEF NvInv, NvTypes, NvLoading
<1>3. NvLoaded' /\ NvSaving'
  BY <1>1 DEF NvInv, NvLoaded, NvSaving
<1> QED
  BY <1>2, <1>3 DEF NvInv

\* What the non-volatile variables come to: a load from a file that is not entries to its end
\* changes none, a load without error leaves each as the last entry for it says, and a save
\* that succeeded left a file from which the next load brings them back, and no others.
THEOREM NvVarsKept == NvSpec => []NvVarsRestored
<1>1. NvInit => NvInv
  BY NvStart
<1>2. NvInv /\ [NvNext]_nvVars => NvInv'
  <2>1. SUFFICES ASSUME NvInv, [NvNext]_nvVars PROVE NvInv'
    OBVIOUS
  <2>2. CASE ConnectNvVarsToFileSystem
    BY <2>1, <2>2, ConnectKeeps
  <2>3. CASE UpdateNvVarsOnFileSystem
    BY <2>1, <2>3, UpdateKeeps
  <2>4. CASE IterateVariablesInBuffer
    BY <2>1, <2>4, IterateKeeps
  <2>5. CASE EndOfBuffer
    BY <2>1, <2>5, EndKeeps
  <2>6. CASE SaveNvVarsToFs
    BY <2>1, <2>6, SaveKeeps
  <2>7. CASE OpenAndEmpty
    BY <2>1, <2>7, NvOpenKeeps
  <2>8. CASE FileHandleWrite
    BY <2>1, <2>8, WriteKeeps
  <2>9. CASE \E i \in NvIds, a \in {VOLATILE, NV, NV_AUTH}, d \in NvDatas : SetVariable(i, [attr |-> a, data |-> d])
    BY <2>1, <2>9, OthersKeep
  <2>10. CASE PowerCycle
    BY <2>1, <2>10, PowerKeeps
  <2>11. CASE UNCHANGED nvVars
    BY <2>1, <2>11, NvStutter
  <2> QED BY <2>1, <2>2, <2>3, <2>4, <2>5, <2>6, <2>7, <2>8, <2>9, <2>10, <2>11 DEF NvNext
<1>3. NvInv => NvVarsRestored
  <2> SUFFICES ASSUME NvInv PROVE NvVarsRestored
    OBVIOUS
  <2>1. NvLoaded /\ NvSaving
    BY DEF NvInv
  <2> QED BY <2>1 DEF NvLoaded, NvSaving, Saved, NvVarsRestored
<1> QED
  BY <1>1, <1>2, <1>3, PTL DEF NvSpec
=============================================================================
