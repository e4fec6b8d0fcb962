------------------------------ MODULE SmmAccess ------------------------------
(***************************************************************************)
(* SMRAM and SMI control on Q35: SmmAccessPei and SmmAccess2Dxe open,      *)
(* close and lock TSEG through the same registers, each with its own copy  *)
(* of the lock and open states; MmControlPei and SmmControl2Dxe turn SMIs  *)
(* on, lock that and negotiate features; both trigger.  A register that is *)
(* locked ignores writes until the next reset.                             *)
(***************************************************************************)
EXTENDS Naturals, Sequences

CONSTANTS
  SmiFeatureSets,     \* what etc/smi/supported-features may offer
  StandaloneMm,       \* PcdStandaloneMmEnable
  SmramAtDefault,     \* PcdQ35SmramAtDefaultSmbase
  MaxSmmCalls         \* bound: calls of the protocols

ASSUME SmmAccessAssumption ==
  /\ {StandaloneMm, SmramAtDefault} \subseteq BOOLEAN /\ MaxSmmCalls \in Nat

VARIABLES
  sReg,     \* the bits set: T_EN, D_LCK, G_SMRAME, SMBASE_LCK, APMC_EN, GBL_SMI_EN, SMI_LOCK
  sHw,      \* what this QEMU implements: SUBSET {"SMRAM", "SMI_LOCK"}
  sCopy,    \* "pei", "dxe" -> [lock, open] as the interface keeps them, live after its entry point
  sCtl,     \* SMI control entry points done: SUBSET {"pei", "dxe"}
  sDead,    \* an entry point stopped in CpuDeadLoop
  sSev,     \* MemEncryptSevIsEnabled
  sAsked,   \* features requested of the SMI: a set, or {"none"} without negotiation
  sPorts,   \* APM ports: [sts, cnt]
  sSmi,     \* <<command, data>> of the last SMI raised
  sTseg,    \* TSEG: [base, size bits (0: extended), and the size and low memory it was set from] in MB
  sMap,     \* the last map GetCapabilities gave: [start, size, lock, open]
  sRet,     \* the last call: [op, st, arg], arg the command and data of a trigger
  sDone,    \* ghost: the calls that have reported success so far
  sCalls    \* bounded count

sVars == <<sReg, sHw, sCopy, sCtl, sDead, sSev, sAsked, sPorts, sSmi, sTseg, sMap, sRet, sDone, sCalls>>

NoCopy == [lock |-> FALSE, open |-> FALSE, live |-> FALSE]

SInit ==
  /\ \E noSmi \in BOOLEAN : sReg = IF noSmi THEN {"APMC_EN"} ELSE {}    \* QEMU's "SMI is not available"
  /\ sHw \in SUBSET {"SMRAM", "SMI_LOCK"}
  /\ sCopy = [i \in {"pei", "dxe"} |-> NoCopy] /\ sCtl = {} /\ sDead = FALSE /\ sSev \in BOOLEAN
  /\ sAsked = {"none"} /\ sPorts = [sts |-> 0, cnt |-> 0] /\ sSmi = <<0, 0>>
  /\ sTseg = [base |-> 0, bits |-> 0, tseg |-> 0, top |-> 0]
  /\ sMap = [start |-> 0, size |-> 0, lock |-> FALSE, open |-> FALSE]
  /\ sRet = [op |-> "", st |-> "", arg |-> <<0, 0>>] /\ sDone = {} /\ sCalls = 0

\* Registers of the memory controller: D_LCK freezes them all.
SetBits(reg, bits)   == IF "D_LCK" \in reg THEN reg ELSE reg \cup bits
ClearBits(reg, bits) == IF "D_LCK" \in reg THEN reg ELSE reg \ bits

GetStates(reg) == [lock |-> "D_LCK" \in reg, open |-> "T_EN" \notin reg, live |-> TRUE]

\* SmmAccessPeiEntryPoint, with WrongConfig; tseg and top are in MB.
SmmAccessPeiEntryPoint ==
  /\ ~sCopy["pei"].live /\ ~sDead
  /\ IF "SMRAM" \notin sHw THEN sDead' = TRUE /\ UNCHANGED <<sTseg, sReg, sCopy>>
     ELSE /\ \E top \in {128}, tseg \in {1, 2, 8, 16} :
               sTseg' = [base |-> top - tseg,
                         bits |-> IF tseg \in {1, 2, 8} THEN tseg ELSE 0, tseg |-> tseg, top |-> top]
          /\ sReg' = ClearBits(SetBits(sReg, {"T_EN"}), {"D_LCK"}) \cup {"G_SMRAME"}
          /\ sCopy' = [sCopy EXCEPT !["pei"] = GetStates(sReg')]
          /\ UNCHANGED sDead
  /\ UNCHANGED <<sHw, sCtl, sSev, sAsked, sPorts, sSmi, sMap, sRet, sDone, sCalls>>

SmmAccess2DxeEntryPoint ==
  /\ sCopy["pei"].live /\ ~sCopy["dxe"].live /\ ~sDead
  /\ sCopy' = [sCopy EXCEPT !["dxe"] = GetStates(sReg)]
  /\ UNCHANGED <<sReg, sHw, sCtl, sDead, sSev, sAsked, sPorts, sSmi, sTseg, sMap, sRet, sDone, sCalls>>

\* The end of a call.
SmmReturns(op, st, arg) ==
  /\ ~sDead /\ sCalls < MaxSmmCalls /\ sCalls' = sCalls + 1
  /\ sRet' = [op |-> op, st |-> st, arg |-> arg]
  /\ sDone' = IF st = "SUCCESS" THEN sDone \cup {op} ELSE sDone

AccessCall(i, op, st) ==
  /\ sCopy[i].live
  /\ i = "pei" => ~sCopy["dxe"].live      \* the PEI interface is gone once the DXE one is there
  /\ SmmReturns(op, st, <<0, 0>>)
  /\ UNCHANGED <<sHw, sCtl, sDead, sSev, sAsked, sPorts, sSmi, sTseg>>

\* Mutant: takes the request for done.
SmramAccessOpen_Assumed(i) ==
  /\ sReg' = ClearBits(sReg, {"T_EN"})
  /\ sCopy' = [sCopy EXCEPT ![i].open = TRUE]
  /\ AccessCall(i, "open", "SUCCESS") /\ UNCHANGED sMap

SmramAccessOpen(i) ==
  /\ sReg' = ClearBits(sReg, {"T_EN"}) /\ sCopy' = [sCopy EXCEPT ![i] = GetStates(sReg')]
  /\ AccessCall(i, "open", IF sCopy'[i].open THEN "SUCCESS" ELSE "DEVICE_ERROR") /\ UNCHANGED sMap

SmramAccessClose(i) ==
  /\ sReg' = SetBits(sReg, {"T_EN"}) /\ sCopy' = [sCopy EXCEPT ![i] = GetStates(sReg')]
  /\ AccessCall(i, "close", IF sCopy'[i].open THEN "DEVICE_ERROR" ELSE "SUCCESS") /\ UNCHANGED sMap

\* SmramAccessLock refuses an open SMRAM, by its own copy of the state.
SmramAccessLock(i) ==
  /\ UNCHANGED sMap
  /\ \/ /\ sCopy[i].open
        /\ AccessCall(i, "lock", "DEVICE_ERROR") /\ UNCHANGED <<sReg, sCopy>>
     \/ /\ ~sCopy[i].open
        /\ sReg' = SetBits(SetBits(sReg, {"T_EN"}), {"D_LCK"})
                   \cup (IF SmramAtDefault THEN {"SMBASE_LCK"} ELSE {})
        /\ sCopy' = [sCopy EXCEPT ![i] = GetStates(sReg')]
        /\ AccessCall(i, "lock", IF sCopy'[i].open \/ ~sCopy'[i].lock THEN "DEVICE_ERROR" ELSE "SUCCESS")

\* The one region, in the state the interface keeps; small: the buffer does not hold a descriptor.
SmramAccessGetCapabilities(i, small) ==
  /\ AccessCall(i, "map", IF small THEN "BUFFER_TOO_SMALL" ELSE "SUCCESS")
  /\ sMap' = IF small THEN sMap
             ELSE [start |-> sTseg.base, size |-> IF sTseg.bits = 0 THEN sTseg.tseg ELSE sTseg.bits,
                   lock |-> sCopy[i].lock, open |-> sCopy[i].open]
  /\ UNCHANGED <<sReg, sCopy>>

\* The PEI interface checks DescriptorIndex first.
SmmAccessPeiBadIndex(op) == AccessCall("pei", op, "INVALID_PARAMETER") /\ UNCHANGED <<sReg, sCopy, sMap>>

(***************************************************************************)
(* NegotiateSmiFeatures: outcomes are the features asked for, no           *)
(* negotiation, or a dead loop (wrong sizes, refused features, or a        *)
(* broadcast with other synchronisation settings).                         *)
(***************************************************************************)
RequestedFeaturesMask == {"BROADCAST"} \cup (IF sSev THEN {} ELSE {"HOTPLUG", "HOT_UNPLUG"})

Negotiated == {{"none"}, {"dead"}} \cup {f \cap RequestedFeaturesMask : f \in SmiFeatureSets}

(***************************************************************************)
(* The SMI control entry points: SMIs are turned on and locked, the lock   *)
(* is tested by turning them off again, and features are negotiated.  They *)
(* stop in a dead loop where the machine has no SMI, the test fails, PEI   *)
(* has no negotiation or the interface cannot be installed.                *)
(***************************************************************************)
SmiEnabled(reg) == reg \cup {"APMC_EN", "GBL_SMI_EN", "SMI_LOCK"}
SmiTested(reg) == IF "SMI_LOCK" \in sHw THEN reg ELSE reg \ {"GBL_SMI_EN"}

SmiEntryPoint(i, refused) ==
  /\ i \notin sCtl /\ ~sDead
  /\ \/ /\ refused
        /\ sDead' = TRUE /\ UNCHANGED <<sReg, sCtl, sAsked>>
     \/ /\ ~refused /\ SmiTested(SmiEnabled(sReg)) # SmiEnabled(sReg)
        /\ sReg' = SmiTested(SmiEnabled(sReg)) /\ sDead' = TRUE /\ UNCHANGED <<sCtl, sAsked>>
     \/ /\ ~refused /\ SmiTested(SmiEnabled(sReg)) = SmiEnabled(sReg)
        /\ sReg' = SmiEnabled(sReg)
        /\ \E f \in Negotiated, installed \in BOOLEAN :
             /\ sAsked' = IF f = {"dead"} THEN sAsked ELSE f
             /\ sDead' = (f = {"dead"} \/ (i = "pei" /\ f = {"none"}) \/ ~installed)
             /\ sCtl' = IF sDead' THEN sCtl ELSE sCtl \cup {i}
  /\ UNCHANGED <<sHw, sCopy, sSev, sPorts, sSmi, sTseg, sMap, sRet, sDone, sCalls>>

MmControlPeiEntryPoint == StandaloneMm /\ "dxe" \notin sCtl /\ SmiEntryPoint("pei", "APMC_EN" \in sReg)

SmmControl2DxeEntryPoint ==
  /\ sCopy["pei"].live /\ (StandaloneMm => "pei" \in sCtl)
  /\ SmiEntryPoint("dxe", StandaloneMm /\ "APMC_EN" \in sReg /\ "GBL_SMI_EN" \notin sReg)

\* A trigger that is refused writes no port.
TriggerRefused(i, st) ==
  /\ i \in sCtl /\ SmmReturns("trigger", st, <<0, 0>>)
  /\ UNCHANGED <<sReg, sHw, sCopy, sCtl, sDead, sSev, sAsked, sPorts, sSmi, sTseg, sMap>>

\* Trigger: the data port is written first, as the command raises the SMI.
SmiTrigger(i, cmd, data) ==
  /\ i \in sCtl /\ SmmReturns("trigger", "SUCCESS", <<cmd, data>>)
  /\ sPorts' = [sts |-> data, cnt |-> cmd]
  /\ sSmi' = IF {"APMC_EN", "GBL_SMI_EN"} \subseteq sReg THEN <<cmd, sPorts'.sts>> ELSE sSmi
  /\ UNCHANGED <<sReg, sHw, sCopy, sCtl, sDead, sSev, sAsked, sTseg, sMap>>

\* Command and data from a buffer of at most two bytes; missing: a size without a buffer.
MmControlPeiTrigger(buf, missing, periodic) ==
  \/ periodic /\ TriggerRefused("pei", "DEVICE_ERROR")
  \/ ~periodic /\ (missing \/ Len(buf) > 2) /\ TriggerRefused("pei", "INVALID_PARAMETER")
  \/ /\ ~periodic /\ ~missing /\ Len(buf) <= 2
     /\ SmiTrigger("pei", IF Len(buf) = 0 THEN 0 ELSE buf[1], IF Len(buf) < 2 THEN 0 ELSE buf[2])

SmmControl2DxeTrigger(cmd, data, periodic) ==
  \/ periodic /\ TriggerRefused("dxe", "DEVICE_ERROR")
  \/ ~periodic /\ SmiTrigger("dxe", cmd, data)

SNext ==
  \/ SmmAccessPeiEntryPoint \/ SmmAccess2DxeEntryPoint
  \/ MmControlPeiEntryPoint \/ SmmControl2DxeEntryPoint
  \/ \E i \in {"pei", "dxe"} : SmramAccessOpen(i) \/ SmramAccessClose(i) \/ SmramAccessLock(i)
  \/ \E i \in {"pei", "dxe"}, small \in BOOLEAN : SmramAccessGetCapabilities(i, small)
  \/ \E op \in {"open", "close", "lock"} : SmmAccessPeiBadIndex(op)
  \/ \E b \in {<<>>, <<3>>, <<3, 4>>, <<3, 4, 5>>}, m, p \in BOOLEAN : MmControlPeiTrigger(b, m, p)
  \/ \E p \in BOOLEAN : SmmControl2DxeTrigger(5, 6, p)

SSpec == SInit /\ [][SNext]_sVars

(***************************************************************************)
(* SMRAM that is locked is closed, and once Lock has reported success it   *)
(* stays locked and closed for good, whatever either interface is asked.   *)
(* Open reports success exactly when the registers then say open, Close    *)
(* exactly when they say closed, and the map gives the memory below the    *)
(* top in the state of the registers, although it is taken from a copy.    *)
(* Once an SMI control driver runs, SMIs are on and cannot be turned off,  *)
(* a trigger that reports success has raised one with its command and      *)
(* data, and no CPU hot plug is asked of a guest with encrypted memory.    *)
(***************************************************************************)
SmramLockIsFinal ==
  /\ "D_LCK" \in sReg => "T_EN" \in sReg
  /\ "lock" \in sDone => /\ {"D_LCK", "T_EN"} \subseteq sReg
                         /\ SmramAtDefault => "SMBASE_LCK" \in sReg
  /\ (sRet.op = "open" /\ sRet.st # "INVALID_PARAMETER") => (sRet.st = "SUCCESS" <=> "T_EN" \notin sReg)
  /\ (sRet.op = "close" /\ sRet.st # "INVALID_PARAMETER") => (sRet.st = "SUCCESS" <=> "T_EN" \in sReg)
  /\ (sRet.op = "map" /\ sRet.st = "SUCCESS") =>
       sMap = [start |-> sTseg.top - sTseg.tseg, size |-> sTseg.tseg,
               lock |-> "D_LCK" \in sReg, open |-> "T_EN" \notin sReg]
  /\ sCtl # {} => {"APMC_EN", "GBL_SMI_EN", "SMI_LOCK"} \subseteq sReg
  /\ (sRet.op = "trigger" /\ sRet.st = "SUCCESS") => sSmi = sRet.arg
  /\ sSev => sAsked \cap {"HOTPLUG", "HOT_UNPLUG"} = {}
=============================================================================
