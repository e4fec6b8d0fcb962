-------------------------------- MODULE NvVars --------------------------------
(***************************************************************************)
(* Non-volatile variables kept in a file for machines without flash:       *)
(* NvVarsFileLib loads them at boot and saves them back,                   *)
(* SerializeVariablesLib packs them.  The store itself is in memory and is *)
(* lost at a power cycle; the file survives, whole or torn.                *)
(* A buffer is a sequence of cells: name size, name, GUID, attributes,     *)
(* data size, data.                                                        *)
(***************************************************************************)
EXTENDS Naturals, Sequences, FiniteSets

CONSTANTS
  NvNames,        \* names in GetNextVariableName order: a sequence of sequences of cells
  NvDatas,        \* contents a variable can have: a set of sequences of cells
  NvFiles,        \* files found at the first boot: a set of sequences of cells
  MaxNvEvents,    \* bound: variables set by others, calls and power cycles
  MaxNvFaults     \* bound: failing allocations, file and variable services

\* The names are not empty and differ, also from L"NvVars"; nobody sets a variable to nothing.
ASSUME NvAssumption ==
  /\ NvFiles # {} /\ NvFiles \subseteq Seq(Nat) /\ NvDatas \subseteq Seq(Nat) \ {<<>>}
  /\ NvNames \in Seq(Seq(Nat) \ {<<>>, <<8, 8>>})
  /\ \A i, j \in DOMAIN NvNames : NvNames[i] = NvNames[j] => i = j
  /\ {MaxNvEvents, MaxNvFaults} \subseteq Nat

VOLATILE == 0      \* attributes
NV == 1
NV_AUTH == 2
Absent == [attr |-> 9, data |-> <<>>]
Flag   == 0      \* index of L"NvVars", the variable that says the file was loaded
NvIds  == 0 .. Len(NvNames)
Name(i) == IF i = Flag THEN <<8, 8>> ELSE NvNames[i]
GUID   == 7      \* the namespace of these names

VARIABLES
  nSys,      \* the variable store: NvIds -> [attr, data]
  nFile,     \* [kind: "none", "dir" or "file", cells]
  nFs,       \* mNvVarsFileLibFsHandle is set
  nPc,       \* step of the call under way
  nBuf,      \* FileContents or VariableData
  nInst,     \* the serialization instance's buffer
  nPos, nName,        \* IterateVariablesInBuffer: TotalSizeUsed, AlignedName
  nLoad,     \* status of the last LoadNvVarsFromFs
  nvRet,     \* status of the last call
  nvBefore, nLost,    \* ghosts: the store when the load began; variables it failed to set
  nEvents, nvFaults   \* bounded counts

nvVars == <<nSys, nFile, nFs, nPc, nBuf, nInst, nPos, nName, nLoad, nvRet, nvBefore, nLost, nEvents, nvFaults>>

Empty == [i \in NvIds |-> Absent]

NvInit ==
  /\ nSys = Empty /\ nFile \in {[kind |-> "file", cells |-> f] : f \in NvFiles} \cup
                               {[kind |-> k, cells |-> <<>>] : k \in {"none", "dir"}}
  /\ nFs = FALSE /\ nPc = "idle" /\ nBuf = <<>> /\ nInst = <<>> /\ nPos = 0 /\ nName = <<>>
  /\ nLoad = "" /\ nvRet = "" /\ nvBefore = Empty /\ nLost = {} /\ nEvents = 0 /\ nvFaults = 0

Event  == nEvents < MaxNvEvents /\ nEvents' = nEvents + 1
\* A service fails: one of a bounded number of faults.
Faulty(b) == IF b THEN nvFaults < MaxNvFaults /\ nvFaults' = nvFaults + 1 ELSE UNCHANGED nvFaults

(***************************************************************************)
(* SerializeVariablesAddVariable and UnpackVariableFromBuffer.             *)
(***************************************************************************)
SerializeVariablesAddVariable(inst, name, guid, attr, data) ==
  inst \o <<Len(name)>> \o name \o <<guid, attr, Len(data)>> \o data

\* What is left of the buffer from `at' on.  Every field is checked against MaxSize only after it
\* was stepped over.
UnpackVariableFromBuffer(buf, at) ==
  LET max == Len(buf) - at
      n == buf[at + 1]
      d == IF n + 4 <= max THEN buf[at + n + 4] ELSE 0
      used == n + 4 + d
  IN  IF used > max THEN [ok |-> FALSE]
      ELSE [ok |-> TRUE, name |-> SubSeq(buf, at + 2, at + n + 1), guid |-> buf[at + n + 2],
            attr |-> buf[at + n + 3], data |-> SubSeq(buf, at + n + 5, at + used), used |-> used]

\* SerializeVariablesIterateSystemVariables with IterateVariablesCallbackAddAllNvVariables.
SerializeVariablesIterateSystemVariables(sys) ==
  LET upTo[i \in NvIds] ==
        LET inst == IF i = 0 THEN <<>> ELSE upTo[i - 1]
        IN  IF sys[i].attr \in {NV, NV_AUTH}
            THEN SerializeVariablesAddVariable(inst, Name(i), GUID, sys[i].attr, sys[i].data) ELSE inst
  IN  upTo[Len(NvNames)]

(***************************************************************************)
(* ConnectNvVarsToFileSystem: load (errors are ignored), then save.        *)
(***************************************************************************)
\* Mutant: the contents are set as they are read.
Reads_Unchecked(cells) ==
  /\ nBuf' = cells /\ nPos' = 0 /\ nName' = <<>> /\ nInst' = cells /\ nPc' = "sys"
  /\ nvBefore' = nSys /\ nLost' = {} /\ UNCHANGED nLoad

Reads(cells) ==
  /\ nBuf' = cells /\ nPos' = 0 /\ nName' = <<>> /\ nInst' = <<>> /\ nPc' = "nop"
  /\ nvBefore' = nSys /\ nLost' = {} /\ UNCHANGED nLoad

LoadNvVarsFromFs ==
  \/ /\ nSys[Flag] # Absent /\ nLoad' = "ALREADY_STARTED" /\ nPc' = "save"
     /\ UNCHANGED <<nBuf, nPos, nName, nInst, nvBefore, nLost, nvFaults>>
  \/ /\ nSys[Flag] = Absent
     /\ \E fails \in BOOLEAN :        \* the volume, the file, its size, memory or the read
          /\ Faulty(fails)
          /\ IF fails \/ nFile.kind # "file" \/ nFile.cells = <<>>
             THEN nLoad' = "UNSUPPORTED" /\ nPc' = "save" /\ UNCHANGED <<nBuf, nPos, nName, nInst, nvBefore, nLost>>
             ELSE Reads(nFile.cells)

ConnectNvVarsToFileSystem ==
  /\ nPc = "idle" /\ Event /\ LoadNvVarsFromFs /\ nvRet' = "" /\ UNCHANGED <<nSys, nFile, nFs>>

UpdateNvVarsOnFileSystem ==
  /\ nPc = "idle" /\ Event
  /\ IF nFs THEN nPc' = "save" /\ nvRet' = "" ELSE nvRet' = "NOT_STARTED" /\ UNCHANGED nPc
  /\ nLoad' = "" /\ UNCHANGED <<nSys, nFile, nFs, nBuf, nInst, nPos, nName, nvBefore, nLost, nvFaults>>

(***************************************************************************)
(* IterateVariablesInBuffer, one variable per step, with the callback of   *)
(* the pass: nothing ("nop"), add to the instance ("inst"), or             *)
(* IterateVariablesCallbackSetSystemVariable ("sys").  A failing callback  *)
(* ends the loop; only bytes left over turn that into an error.            *)
(***************************************************************************)
Buffer == IF nPc = "sys" THEN nInst ELSE nBuf

\* The pass is over: the next pass, or SetNvVarsVariable and the save.
EndPass(ok) ==
  /\ nPos' = 0 /\ nName' = <<>>
  /\ nPc' = IF ~ok THEN "save" ELSE CASE nPc = "nop" -> "inst" [] nPc = "inst" -> "sys" [] OTHER -> "save"
  /\ nLoad' = IF ~ok THEN "INVALID_PARAMETER" ELSE IF nPc = "sys" THEN "SUCCESS" ELSE nLoad

\* The answer of gRT->SetVariable is not looked at: the flag may stay as it was.
SetNvVarsVariable(sys, fails) == IF fails THEN sys ELSE [sys EXCEPT ![Flag] = [attr |-> NV, data |-> <<1>>]]

\* What gRT->SetVariable may answer, and what the callback makes of it.
SetAnswers(attr) == {"SUCCESS", "WRITE_PROTECTED", "OUT_OF_RESOURCES"}
                    \cup (IF attr = NV_AUTH THEN {"SECURITY_VIOLATION"} ELSE {})
Ignored == {"WRITE_PROTECTED", "SECURITY_VIOLATION"}

\* A variable without data is deleted.
Stored(attr, data) == IF data = <<>> THEN Absent ELSE [attr |-> attr, data |-> data]

IterateVariablesInBuffer ==
  /\ nPc \in {"nop", "inst", "sys"} /\ nPos < Len(Buffer)
  /\ LET u == UnpackVariableFromBuffer(Buffer, nPos)
     IN  IF ~u.ok \/ (u.name = <<>> /\ nName = <<>>)
         THEN EndPass(FALSE) /\ UNCHANGED <<nSys, nInst, nLost, nvFaults>>
         ELSE LET name == IF u.name = <<>> THEN nName ELSE u.name    \* AlignedName keeps the last name
                  \* The loop stops at a failing callback; at the end of the buffer nobody notices.
                  Continue(ok) == IF ok \/ nPos + u.used = Len(Buffer)
                                  THEN nPos' = nPos + u.used /\ nName' = name /\ UNCHANGED <<nPc, nLoad>>
                                  ELSE EndPass(FALSE)
              IN  \/ \* no memory for AlignedName
                     u.name # <<>> /\ Faulty(TRUE) /\ EndPass(FALSE) /\ UNCHANGED <<nSys, nInst, nLost>>
                  \/ nPc = "nop" /\ Continue(TRUE) /\ UNCHANGED <<nSys, nInst, nLost, nvFaults>>
                  \/ /\ nPc = "inst" /\ UNCHANGED nSys
                     /\ \E fails \in BOOLEAN :
                          /\ Faulty(fails) /\ Continue(~fails)
                          /\ nLost' = IF fails THEN nLost \cup {<<name, "OUT_OF_RESOURCES">>} ELSE nLost
                          /\ nInst' = IF fails THEN nInst ELSE SerializeVariablesAddVariable(nInst, name, u.guid, u.attr, u.data)
                  \/ /\ nPc = "sys" /\ UNCHANGED nInst
                     /\ \E a \in SetAnswers(u.attr) :
                          /\ Faulty(a # "SUCCESS") /\ Continue(a \in {"SUCCESS"} \cup Ignored)
                          /\ nSys' = IF a # "SUCCESS" THEN nSys
                                     ELSE [i \in NvIds |-> IF Name(i) = name /\ u.guid = GUID
                                                           THEN Stored(u.attr, u.data) ELSE nSys[i]]
                          /\ nLost' = IF a = "SUCCESS" THEN nLost ELSE nLost \cup {<<name, a>>}
  /\ UNCHANGED <<nFile, nFs, nBuf, nvRet, nvBefore, nEvents>>

\* TotalSizeUsed reached MaxSize; after the last pass the variables are loaded.
EndOfBuffer ==
  /\ nPc \in {"nop", "inst", "sys"} /\ nPos >= Len(Buffer) /\ EndPass(TRUE)
  /\ \E fails \in BOOLEAN :
       /\ fails => nPc = "sys"
       /\ Faulty(fails) /\ nSys' = IF nPc = "sys" THEN SetNvVarsVariable(nSys, fails) ELSE nSys
  /\ UNCHANGED <<nFile, nFs, nBuf, nInst, nvRet, nvBefore, nLost, nEvents>>

(***************************************************************************)
(* SaveNvVarsToFs: serialize, open (and create), empty, write.             *)
(***************************************************************************)
SaveFails(status) == nvRet' = status /\ nPc' = "idle"

SaveNvVarsToFs ==
  /\ nPc = "save"
  /\ \E fails \in BOOLEAN :
       /\ Faulty(fails)
       /\ LET buf == SerializeVariablesIterateSystemVariables(nSys)
          IN  IF fails THEN SaveFails("OUT_OF_RESOURCES") /\ UNCHANGED nBuf
              \* SerializeVariablesToBuffer: no variables, so the size query is taken for a copy.
              ELSE IF buf = <<>> THEN SaveFails("INVALID_PARAMETER") /\ UNCHANGED nBuf
              ELSE nBuf' = buf /\ nPc' = "open" /\ UNCHANGED nvRet
  /\ UNCHANGED <<nSys, nFile, nFs, nInst, nPos, nName, nLoad, nvBefore, nLost, nEvents>>

\* GetNvVarsFile for writing and FileHandleEmpty.
OpenAndEmpty ==
  /\ nPc = "open"
  /\ \E at \in {"", "open", "empty"} :
       /\ Faulty(at # "")
       /\ nFile' = IF at = "open" \/ nFile.kind = "dir" THEN nFile
                   ELSE [kind |-> "file", cells |-> IF at = "empty" THEN nFile.cells ELSE <<>>]
       /\ IF at # "" \/ nFile.kind = "dir" THEN SaveFails("DEVICE_ERROR") ELSE nPc' = "write" /\ UNCHANGED nvRet
  /\ UNCHANGED <<nSys, nFs, nBuf, nInst, nPos, nName, nLoad, nvBefore, nLost, nEvents>>

FileHandleWrite ==
  /\ nPc = "write"
  /\ \E n \in 0 .. Len(nBuf), fails \in BOOLEAN :
       /\ fails => n = Len(nBuf)
       /\ Faulty(n < Len(nBuf) \/ fails) /\ nFile' = [nFile EXCEPT !.cells = SubSeq(nBuf, 1, n)]
       /\ nPc' = "idle" /\ nvRet' = IF n < Len(nBuf) THEN "DEVICE_ERROR" ELSE "SUCCESS"
       /\ nSys' = IF n < Len(nBuf) THEN nSys ELSE SetNvVarsVariable(nSys, fails)
       /\ nFs'  = (nFs \/ n = Len(nBuf))
  /\ UNCHANGED <<nBuf, nInst, nPos, nName, nLoad, nvBefore, nLost, nEvents>>

(***************************************************************************)
(* The rest of the machine: other drivers set variables between calls, and *)
(* the power goes at any time, also in the middle of the write.            *)
(***************************************************************************)
SetVariable(i, v) ==
  /\ nPc = "idle" /\ i # Flag /\ Event /\ v # nSys[i] /\ nSys' = [nSys EXCEPT ![i] = v] /\ nvRet' = ""
  /\ UNCHANGED <<nFile, nFs, nPc, nBuf, nInst, nPos, nName, nLoad, nvBefore, nLost, nvFaults>>

PowerCycle ==
  /\ Event /\ nSys' = Empty /\ nFs' = FALSE /\ nPc' = "idle" /\ nvRet' = "" /\ nLoad' = "" /\ nLost' = {}
  /\ nBuf' = <<>> /\ nInst' = <<>> /\ nPos' = 0 /\ nName' = <<>> /\ nvBefore' = Empty
  /\ \E n \in 0 .. Len(nBuf) :
       nFile' = IF nPc = "write" THEN [nFile EXCEPT !.cells = SubSeq(nBuf, 1, n)] ELSE nFile
  /\ UNCHANGED nvFaults

NvNext ==
  \/ ConnectNvVarsToFileSystem \/ UpdateNvVarsOnFileSystem
  \/ IterateVariablesInBuffer \/ EndOfBuffer \/ SaveNvVarsToFs \/ OpenAndEmpty \/ FileHandleWrite
  \/ \E i \in NvIds, a \in {VOLATILE, NV, NV_AUTH}, d \in NvDatas : SetVariable(i, [attr |-> a, data |-> d])
  \/ PowerCycle

NvSpec == NvInit /\ [][NvNext]_nvVars

(***************************************************************************)
(* What a buffer holds, by definition: where its entries begin, one after  *)
(* the other (beyond the end when one does not fit), and which of them is  *)
(* the last for a variable.                                                *)
(***************************************************************************)
After(cells, at) ==
  IF at >= Len(cells) \/ at + cells[at + 1] + 4 > Len(cells) THEN Len(cells) + 1
  ELSE at + cells[at + 1] + 4 + cells[at + cells[at + 1] + 4]
Begins(cells) ==
  LET pos[j \in Nat] == IF j = 0 THEN 0 ELSE After(cells, pos[j - 1]) IN pos
Entries(cells) == {j \in 1 .. Len(cells) : Begins(cells)[j] <= Len(cells)}

\* The whole buffer is entries, and the first has a name.
Whole(cells) == cells # <<>> => cells[1] > 0 /\ \E j \in Entries(cells) : Begins(cells)[j] = Len(cells)

NameAt(cells, at) == SubSeq(cells, at + 2, at + 1 + cells[at + 1])
GuidAt(cells, at) == cells[at + cells[at + 1] + 2]
ContentAt(cells, at) ==
  LET n == cells[at + 1]
  IN  Stored(cells[at + n + 3], SubSeq(cells, at + n + 5, at + n + 4 + cells[at + n + 4]))

\* Entry j is about variable i: it has its name, or has none and follows one that is.
About(cells, j, i) ==
  LET b == Begins(cells)
  IN  /\ GuidAt(cells, b[j - 1]) = GUID
      /\ \E x \in 1 .. j : /\ NameAt(cells, b[x - 1]) = Name(i)
                           /\ \A y \in x + 1 .. j : NameAt(cells, b[y - 1]) = <<>>

\* Setting the entries one after the other takes variable i from old to new.
Tells(cells, i, old, new) ==
  LET its == {j \in Entries(cells) : About(cells, j, i)}
  IN  \/ its = {} /\ new = old
      \/ \E j \in its : (\A k \in its : k <= j) /\ new = ContentAt(cells, Begins(cells)[j - 1])

Kept(v) == IF v.attr \in {NV, NV_AUTH} THEN v ELSE Absent

(***************************************************************************)
(* A file that is not entries to its end changes no variable; a load that  *)
(* met no error leaves each variable as the last entry for it says, and    *)
(* the others as they were; and after a save that succeeded the file is    *)
(* such that the next boot's load brings back the non-volatile variables,  *)
(* and no others.                                                          *)
(***************************************************************************)
NvVarsRestored ==
  /\ (nPc = "save" /\ nLoad \in {"SUCCESS", "INVALID_PARAMETER"} /\ ~Whole(nBuf)) => nSys = nvBefore
  /\ (nPc = "save" /\ nLoad = "SUCCESS" /\ nLost = {}) =>
       \A i \in NvIds \ {Flag} : Tells(nBuf, i, nvBefore[i], nSys[i])
  /\ nvRet = "SUCCESS" =>
       /\ Whole(nFile.cells)
       /\ \A i \in NvIds \ {Flag} : Tells(nFile.cells, i, Absent, Kept(nSys[i]))
=============================================================================
