------------------------------ MODULE Timer8254 ------------------------------
(***************************************************************************)
(* 8259InterruptControllerDxe and 8254TimerDxe: the masks and the vector   *)
(* base of the interrupt controllers, and the timer driver that is their   *)
(* client.  The timer's interrupt arrives between any two steps of the     *)
(* code below, where interrupts are enabled; its handler is a stack of     *)
(* activations, each with the step it is at.  The slave's base names the   *)
(* vectors of lines that are not raised here, and is left out.             *)
(***************************************************************************)
EXTENDS Integers, Sequences

CONSTANTS
  Irqs,          \* interrupt request lines
  TimerPeriods,  \* periods set, in 100 ns: UINT64s, as their upper and lower 32 bits
  LegacyModeMask,\* Pcd8259LegacyModeMask, as a set of lines
  PicArgs,       \* masks given to SetMask and SetMode: [mask, edge], each {} (left out) or {a set of lines}
  MasterBases,   \* vector bases other drivers set
  MaxTicks,      \* bound: timer interrupts raised
  MaxPicCalls    \* bound: calls of the two protocols

Masks == [mask : SUBSET Irqs, edge : SUBSET Irqs]
OptionalLines == {{}} \cup {{lines} : lines \in SUBSET Irqs}
Period64 == [hi : Nat, lo : Nat]

ASSUME TimerAssumption ==
  /\ 0 \in Irqs /\ Irqs \subseteq 0 .. 7 /\ LegacyModeMask \subseteq Irqs
  /\ TimerPeriods \subseteq Period64
  /\ PicArgs \subseteq [mask : OptionalLines, edge : OptionalLines]
  /\ MasterBases \subseteq Nat
  /\ {MaxTicks, MaxPicCalls} \subseteq Nat

VARIABLES
  hRegs,     \* the mask and edge/level registers
  hProt,     \* mProtectedModeMask, mProtectedModeEdgeLevel
  hLegacy,   \* mLegacyModeMask, mLegacyModeEdgeLevel
  hMode,     \* mMode
  hBase,     \* mMasterBase
  hRaised,   \* the timer's line is raised
  hServing,  \* the timer's line is in service
  hTimer,    \* mTimerNotifyFunction, mTimerPeriod, the count of the PIT, and the vector registered
  hCall,     \* TimerDriverSetTimerPeriod under way: [at, period, count]
  hFrames,   \* activations of TimerInterruptHandler, outermost first
  hIf,       \* interrupts are enabled
  hWant,     \* ghost: the protected mode's masks, as the calls so far asked for them
  hWord,     \* ghost: a SetMask of these is "written", "waiting" for a write, or "lost"
  hOwn,      \* ghost: the timer driver was the last to decide on its line
  hTold,     \* ghost: the last period notified in protected mode, between calls, with hOwn
  hTicks, hCalls

picVars  == <<hRegs, hProt, hLegacy, hMode, hBase, hWant, hWord, hOwn>>
lineVars == <<hRaised, hServing, hFrames, hIf, hTold>>
hVars == <<picVars, lineVars, hTimer, hCall, hTicks, hCalls>>

MasterBase == 104                 \* PROTECTED_MODE_BASE_VECTOR_MASTER
NoPeriod  == [hi |-> 0, lo |-> 0]
Default   == [hi |-> 0, lo |-> 100000]     \* DEFAULT_TIMER_TICK_DURATION
MaxPeriod == [hi |-> 0, lo |-> 549254]     \* MAX_TIMER_TICK_DURATION
Idle8254 == [at |-> "idle", period |-> NoPeriod, count |-> 0]
AllMasked == [mask |-> Irqs, edge |-> {}]

\* SEC has masked every line.
HInit ==
  /\ hRegs = AllMasked /\ hProt = AllMasked /\ hLegacy = [mask |-> {}, edge |-> {}]
  /\ hMode = "protected" /\ hBase = 255
  /\ hRaised = FALSE /\ hServing = FALSE
  /\ hTimer = [notify |-> FALSE, period |-> NoPeriod, pit |-> 0, vector |-> 0]
  /\ hCall = [Idle8254 EXCEPT !.at = "install"] /\ hFrames = << >> /\ hIf = TRUE
  /\ hWant = AllMasked /\ hWord = "written" /\ hOwn = TRUE /\ hTold = Default
  /\ hTicks = 0 /\ hCalls = 0

-----------------------------------------------------------------------------
(* 8259.c.                                                                 *)

\* The masks that take the place of old, where given.
PicGiven(arg, old) ==
  [mask |-> IF arg.mask = {} THEN old.mask ELSE UNION arg.mask,
   edge |-> IF arg.edge = {} THEN old.edge ELSE UNION arg.edge]

PicWhole(arg) == arg.mask # {} /\ arg.edge # {}

Unmask(m, irq, level) ==
  [mask |-> m.mask \ {irq}, edge |-> IF level THEN m.edge \cup {irq} ELSE m.edge \ {irq}]
Mask(m, irq) == [mask |-> m.mask \cup {irq}, edge |-> m.edge \ {irq}]

\* The protected mode's masks are changed and written to the registers, in either mode.
Interrupt8259WriteMask(masks, wanted) ==
  /\ hProt' = masks /\ hRegs' = masks
  /\ hWant' = wanted /\ hWord' = IF hWord = "waiting" THEN "written" ELSE hWord

Interrupt8259EnableIrq(irq, level) ==
  Interrupt8259WriteMask(Unmask(hProt, irq, level), Unmask(hWant, irq, level))
Interrupt8259DisableIrq(irq) == Interrupt8259WriteMask(Mask(hProt, irq), Mask(hWant, irq))

Interrupt8259GetVector(irq) == hBase + irq

Interrupt8259EndOfInterrupt == hServing' = FALSE

\* Install8259: end whatever is in service, set the base, mask everything.
Install8259 ==
  /\ hCall.at = "install" /\ hCall' = [hCall EXCEPT !.at = "timer"]
  /\ hLegacy' = [mask |-> LegacyModeMask, edge |-> {}]
  /\ Interrupt8259EndOfInterrupt
  /\ hBase' = MasterBase
  /\ hRegs' = hProt
  /\ UNCHANGED <<hProt, hMode, hWant, hWord, hOwn, hRaised, hTimer, hFrames, hIf, hTold, hTicks, hCalls>>

\* The code that is not a handler runs, and no call of the timer driver is under way.
Foreground == hFrames = << >> /\ hCall.at = "idle" /\ hIf /\ hCalls < MaxPicCalls /\ hCalls' = hCalls + 1

\* The call of another driver ends what is in service, at TPL_HIGH_LEVEL.
Interrupt8259SetVectorBase(master) ==
  /\ Foreground /\ hBase' = master
  /\ Interrupt8259EndOfInterrupt
  /\ UNCHANGED <<hRegs, hProt, hLegacy, hMode, hWant, hWord, hOwn, hRaised, hFrames, hIf, hTold, hTimer, hCall, hTicks>>

\* The registers are not written.
Interrupt8259SetMask(legacy, protected) ==
  /\ Foreground
  /\ hLegacy' = PicGiven(legacy, hLegacy) /\ hProt' = PicGiven(protected, hProt)
  /\ hWant' = PicGiven(protected, hWant)
  /\ hOwn' = (hOwn /\ protected.mask = {})
  /\ hWord' = IF hMode = "legacy" THEN (IF PicWhole(protected) THEN "written" ELSE hWord)
              ELSE IF hWord = "written" /\ protected # [mask |-> {}, edge |-> {}] THEN "waiting" ELSE hWord
  /\ UNCHANGED <<hRegs, hMode, hBase, lineVars, hTimer, hCall, hTicks>>

\* The registers are saved as the masks of the mode that is left.
Interrupt8259SetMode(mode, arg) ==
  /\ Foreground /\ mode # hMode /\ hMode' = mode
  /\ \/ /\ mode = "legacy"
        /\ hProt' = hRegs /\ hLegacy' = PicGiven(arg, hLegacy) /\ hRegs' = hLegacy'
        /\ hWord' = IF hWord = "waiting" THEN "lost" ELSE hWord
        /\ UNCHANGED <<hWant, hOwn>>
     \/ /\ mode = "protected"
        /\ hLegacy' = [hRegs EXCEPT !.mask = @ \ {0}]
        /\ hProt' = PicGiven(arg, hProt) /\ hRegs' = hProt'
        /\ hWant' = PicGiven(arg, hWant) /\ hWord' = IF PicWhole(arg) THEN "written" ELSE hWord
        /\ hOwn' = (hOwn /\ arg.mask = {})
  /\ UNCHANGED <<hBase, lineVars, hTimer, hCall, hTicks>>

\* Another driver's interrupt.
ClientIrq(irq, level) ==
  /\ Foreground /\ irq # 0
  /\ Interrupt8259EnableIrq(irq, level) \/ Interrupt8259DisableIrq(irq)
  /\ UNCHANGED <<hLegacy, hMode, hBase, hOwn, lineVars, hTimer, hCall, hTicks>>

-----------------------------------------------------------------------------
(* Timer.c.                                                                *)

\* (UINT32)TimerPeriod * 119318 / 1000000, to the nearest, without leaving 31 bits.
TimerCount(period) ==
  (119318 * (period.lo \div 1000) + (119318 * (period.lo % 1000) + 500000) \div 1000) \div 1000

\* TimerDriverInitialize: the period 0, the handler at the vector of line 0, the default period.
TimerDriverInitialize ==
  /\ hCall.at = "timer"
  /\ Interrupt8259DisableIrq(0)
  /\ hTimer' = [hTimer EXCEPT !.period = NoPeriod, !.vector = Interrupt8259GetVector(0)]
  /\ hCall' = [at |-> "count", period |-> Default, count |-> TimerCount(Default)]
  /\ UNCHANGED <<hLegacy, hMode, hBase, hOwn, lineVars, hTicks, hCalls>>

TimerDriverRegisterHandler(on) ==
  /\ Foreground /\ on # hTimer.notify
  /\ hTimer' = [hTimer EXCEPT !.notify = on]
  /\ UNCHANGED <<picVars, lineVars, hCall, hTicks>>

\* TimerDriverSetTimerPeriod: the count or the mask, the mask, then the period.
SetTimerPeriodCall(period) ==
  /\ Foreground
  /\ hCall' = IF TimerCount(period) >= 65536
              THEN [at |-> "count", period |-> MaxPeriod, count |-> 0]
              ELSE [at |-> IF period = NoPeriod THEN "irq" ELSE "count", period |-> period,
                    count |-> TimerCount(period)]
  /\ UNCHANGED <<picVars, lineVars, hTimer, hTicks>>

TimerDriverSetTimerPeriod ==
  /\ hFrames = << >>
  /\ \/ /\ hCall.at = "count" /\ hCall' = [hCall EXCEPT !.at = "irq"]
        /\ hTimer' = [hTimer EXCEPT !.pit = hCall.count] /\ UNCHANGED picVars
     \/ /\ hCall.at = "irq" /\ hCall' = [hCall EXCEPT !.at = "period"]
        /\ IF hCall.period = NoPeriod THEN Interrupt8259DisableIrq(0) ELSE Interrupt8259EnableIrq(0, FALSE)
        /\ hOwn' = TRUE /\ UNCHANGED <<hTimer, hLegacy, hMode, hBase>>
     \/ /\ hCall.at = "period" /\ hCall' = Idle8254
        /\ hTimer' = [hTimer EXCEPT !.period = hCall.period] /\ UNCHANGED picVars
  /\ UNCHANGED <<lineVars, hTicks, hCalls>>

\* The notification function is told mTimerPeriod, if there is one.
Notify ==
  hTold' = IF hTimer.notify /\ hCall.at = "idle" /\ hMode = "protected" /\ hOwn THEN hTimer.period ELSE hTold

\* TimerDriverGenerateSoftInterrupt: EFI_UNSUPPORTED while the line is masked.
TimerDriverGenerateSoftInterrupt ==
  /\ Foreground /\ 0 \notin hProt.mask /\ Notify
  /\ UNCHANGED <<picVars, hRaised, hServing, hFrames, hIf, hTimer, hCall, hTicks>>

\* The PIT raises line 0 (external).
Tick ==
  /\ hTicks < MaxTicks /\ hTicks' = hTicks + 1 /\ ~hRaised /\ hRaised' = TRUE
  /\ UNCHANGED <<picVars, hServing, hFrames, hIf, hTold, hTimer, hCall, hCalls>>

\* The controller interrupts the processor (external), which enters the handler; at
\* another vector than the handler's, other code serves and ends the interrupt.
Interrupt ==
  /\ hIf /\ hRaised /\ 0 \notin hRegs.mask /\ ~hServing
  /\ hRaised' = FALSE
  /\ IF Interrupt8259GetVector(0) = hTimer.vector
     THEN hServing' = TRUE /\ hFrames' = Append(hFrames, "notify") /\ hIf' = FALSE
     ELSE UNCHANGED <<hServing, hFrames, hIf>>
  /\ UNCHANGED <<picVars, hTold, hTimer, hCall, hTicks, hCalls>>

At8254(step) == hFrames # << >> /\ hFrames[Len(hFrames)] = step
Goes8254(step) == hFrames' = [hFrames EXCEPT ![Len(hFrames)] = step]

\* Mutant: the interrupt is ended before the task priority is restored.
TimerInterruptHandler_EoiFirst ==
  /\ \/ /\ At8254("notify") /\ Goes8254("restore") /\ Notify
        /\ Interrupt8259EndOfInterrupt /\ UNCHANGED hIf
     \/ At8254("restore") /\ Goes8254("end") /\ hIf' = TRUE /\ UNCHANGED <<hTold, hServing>>
     \/ /\ At8254("end") /\ hFrames' = SubSeq(hFrames, 1, Len(hFrames) - 1)
        /\ hIf' = TRUE /\ UNCHANGED <<hTold, hServing>>
  /\ UNCHANGED <<picVars, hRaised, hTimer, hCall, hTicks, hCalls>>

(***************************************************************************)
(* TimerInterruptHandler: the notification at TPL_HIGH_LEVEL, RestoreTPL   *)
(* (which enables interrupts), then DisableInterrupts, the end of the      *)
(* interrupt and the return.                                               *)
(***************************************************************************)
TimerInterruptHandler ==
  /\ \/ At8254("notify") /\ Goes8254("restore") /\ Notify /\ UNCHANGED <<hServing, hIf>>
     \/ At8254("restore") /\ Goes8254("disable") /\ hIf' = TRUE /\ UNCHANGED <<hTold, hServing>>
     \/ At8254("disable") /\ Goes8254("end") /\ hIf' = FALSE /\ UNCHANGED <<hTold, hServing>>
     \/ /\ At8254("end") /\ Interrupt8259EndOfInterrupt
        /\ hFrames' = SubSeq(hFrames, 1, Len(hFrames) - 1) /\ hIf' = TRUE /\ UNCHANGED hTold
  /\ UNCHANGED <<picVars, hRaised, hTimer, hCall, hTicks, hCalls>>

HNext ==
  \/ Install8259 \/ TimerDriverInitialize
  \/ \E on \in BOOLEAN : TimerDriverRegisterHandler(on)
  \/ \E p \in TimerPeriods : SetTimerPeriodCall(p)
  \/ TimerDriverSetTimerPeriod \/ TimerDriverGenerateSoftInterrupt
  \/ Tick \/ Interrupt \/ TimerInterruptHandler
  \/ \E b \in MasterBases : Interrupt8259SetVectorBase(b)
  \/ \E a \in PicArgs, mode \in {"legacy", "protected"} : Interrupt8259SetMode(mode, a)
  \/ \E a, b \in PicArgs : Interrupt8259SetMask(a, b)
  \/ \E i \in Irqs, l \in BOOLEAN : ClientIrq(i, l)

HSpec == HInit /\ [][HNext]_hVars

-----------------------------------------------------------------------------
\* The ticks of a count of the PIT, and those of a period in thousandths.
PitTicks(count) == IF count = 0 THEN 65536 ELSE count
MilliTicks(period) == 119318 * (period.lo \div 1000) + (119318 * (period.lo % 1000)) \div 1000

(***************************************************************************)
(* The timer's handler never interrupts itself, however fast it ticks: the *)
(* end of the interrupt comes last, with interrupts off; every interrupt   *)
(* taken is ended.  Between calls, unless another driver's SetMask or      *)
(* SetMode has decided on the timer's line since: in protected mode the    *)
(* line is unmasked exactly when a period is set, and no notification is   *)
(* told a period of 0.  In protected mode the registers hold the masks and *)
(* the edge/level bits that all calls so far, a stay in legacy mode in     *)
(* between included, asked for.  Two exceptions: SetMask in protected mode *)
(* does not write the registers, so it waits for the next EnableIrq or     *)
(* DisableIrq, and SetMode (legacy) before that loses it.  The PIT counts  *)
(* the period that is reported to within half a tick if it is at least 5   *)
(* and fits 32 bits.  This is less than Timer.c:192-193 promises (`Round   *)
(* up to next highest integer.  This guarantees that the timer is equal to *)
(* or slightly longer than the requested time'): the code rounds to the    *)
(* nearest.  Below 5 it counts 65536 ticks and reports the period asked    *)
(* for; of a period beyond 32 bits it counts the lower 32 bits only.       *)
(***************************************************************************)
TimerNeverNests ==
  /\ Len(hFrames) <= 1
  /\ hFrames = << >> => ~hServing
  /\ hTold # NoPeriod
  /\ hCall.at = "idle" /\ hMode = "protected" =>
       /\ hOwn => (0 \in hRegs.mask <=> hTimer.period = NoPeriod)
       /\ hWord = "written" => hRegs = hWant
  /\ hCall.at = "idle" /\ hTimer.period.hi = 0 /\ hTimer.period.lo >= 5 =>
       PitTicks(hTimer.pit) * 1000 - MilliTicks(hTimer.period) \in -500 .. 500

=============================================================================
