------------------------------ MODULE LinuxInitrd ------------------------------
(***************************************************************************)
(* LinuxInitrdDynamicShellCommand: the shell command `initrd' keeps a file *)
(* in memory and serves it to the Linux loader through LoadFile2 on a well *)
(* known device path.  The path may belong to somebody else: the kernel    *)
(* loader file system installs it for the initrd given on QEMU's command   *)
(* line.  One action per shell command, per call of LoadFile2 and per      *)
(* unload; each boot service call that returns a status may fail.          *)
(***************************************************************************)
EXTENDS Naturals

CONSTANTS
  Initrds,     \* files [name, size]
  InitrdPages  \* addresses that AllocatePages may return; 0 is none

\* "freed" stands for what LoadFile2 would copy from pages that are not held.
ASSUME InitrdAssumption == \A f \in Initrds : f.size \in Nat /\ f.name # "freed"

VARIABLES
  rdSize, rdAddress,  \* mInitrdFileSize, mInitrdFileAddress
  rdHandle,           \* mInitrdLoadFile2Handle is installed
  rdOther,            \* somebody else's device path is
  rdCommand,          \* the dynamic command protocol and its HII package
  rdMemory,           \* pages allocated: address -> [pages, what they hold]
  rdWanted,           \* ghost: the file of the last command that opened one, or "none"
  rdAnswer            \* last answer of LoadFile2: [status, data]

rdVars == <<rdSize, rdAddress, rdHandle, rdOther, rdCommand, rdMemory, rdWanted, rdAnswer>>

FilePages(size) == (size + 4095) \div 4096
NoAnswer == [status |-> "", data |-> "none"]
NoFile == [name |-> "none", size |-> 0]

RdInit ==
  /\ rdSize = 0 /\ rdAddress = 0 /\ rdHandle = FALSE /\ rdOther \in BOOLEAN
  /\ rdCommand = {"protocol", "hii"} /\ rdMemory = << >> /\ rdWanted = NoFile /\ rdAnswer = NoAnswer

\* FreePages: the pages of that address, all of them.
Freed(memory, address, size) ==
  IF address \in DOMAIN memory /\ memory[address].pages = FilePages(size)
  THEN [a \in DOMAIN memory \ {address} |-> memory[a]] ELSE memory

FreeInitrdFile == IF rdSize # 0 THEN Freed(rdMemory, rdAddress, rdSize) ELSE rdMemory

IsOtherInitrdDevicePathAlreadyInstalled == rdOther

\* Mutant: the size is stored before the file is read.
CacheInitrdFile_SizeFirst(memory, f) ==
  \/ f.size = 0 /\ rdMemory' = memory /\ rdSize' = 0 /\ UNCHANGED <<rdAddress, rdHandle>>
  \/ f.size > 0 /\ \E a \in InitrdPages \ DOMAIN memory :
       /\ rdAddress' = a /\ rdSize' = f.size
       /\ \/ rdMemory' = memory /\ UNCHANGED rdHandle
          \/ /\ rdMemory' = [b \in DOMAIN memory \cup {a} |->
                               IF b = a THEN [pages |-> FilePages(f.size), holds |-> f] ELSE memory[b]]
             /\ rdHandle' = TRUE

(***************************************************************************)
(* CacheInitrdFile, called when the earlier file is gone: no size, no      *)
(* pages, a failed or short read, or the file is kept.  An installation    *)
(* that fails is only asserted against: without the ASSERT the file is     *)
(* kept all the same, and not on offer until a later command installs it.  *)
(***************************************************************************)
CacheInitrdFile(memory, f) ==
  \/ rdMemory' = memory /\ rdSize' = 0 /\ UNCHANGED <<rdAddress, rdHandle>>
  \/ f.size > 0 /\ \E a \in InitrdPages \ DOMAIN memory :
       /\ rdAddress' = a
       /\ \/ rdMemory' = memory /\ rdSize' = 0 /\ UNCHANGED rdHandle
          \/ /\ rdMemory' = [b \in DOMAIN memory \cup {a} |->
                               IF b = a THEN [pages |-> FilePages(f.size), holds |-> f] ELSE memory[b]]
             /\ rdHandle' \in {TRUE, rdHandle} /\ rdSize' = f.size

\* initrd <file>: refused, or the file cannot be opened (nothing changes), or it replaces the earlier one.
RunInitrdFile ==
  /\ rdCommand # {} /\ ~IsOtherInitrdDevicePathAlreadyInstalled
  /\ \E f \in Initrds : CacheInitrdFile(FreeInitrdFile, f) /\ rdWanted' = f
  /\ UNCHANGED <<rdOther, rdCommand, rdAnswer>>

\* The protocol goes, or its uninstallation fails and it stays.
UninstallLoadFile2Protocol == rdHandle' \in {FALSE, rdHandle}

\* initrd -u
RunInitrdUnload ==
  /\ rdCommand # {} /\ ~IsOtherInitrdDevicePathAlreadyInstalled
  /\ rdMemory' = FreeInitrdFile /\ rdSize' = 0 /\ UninstallLoadFile2Protocol
  /\ UNCHANGED <<rdAddress, rdOther, rdCommand, rdWanted, rdAnswer>>

ShellInitrdAnswer(bootPolicy, path, size, buffer) ==
  LET status == IF bootPolicy THEN "UNSUPPORTED"
                ELSE IF path = "invalid" THEN "INVALID_PARAMETER"
                ELSE IF path = "more" \/ rdSize = 0 THEN "NOT_FOUND"
                ELSE IF ~buffer \/ size < rdSize THEN "BUFFER_TOO_SMALL" ELSE "SUCCESS"
  IN  [status |-> status,
       data |-> IF status # "SUCCESS" THEN "none"
                ELSE IF rdAddress \in DOMAIN rdMemory THEN rdMemory[rdAddress].holds.name ELSE "freed"]

ShellInitrdLoadFile2 ==
  /\ rdHandle
  /\ \E bootPolicy, buffer \in BOOLEAN, path \in {"end", "more", "invalid"}, f \in Initrds :
       rdAnswer' = ShellInitrdAnswer(bootPolicy, path, f.size, buffer)
  /\ UNCHANGED <<rdSize, rdAddress, rdHandle, rdOther, rdCommand, rdMemory, rdWanted>>

\* The file goes first; a protocol that cannot be uninstalled keeps the rest.
LinuxInitrdDynamicShellCommandUnload ==
  /\ rdCommand # {}
  /\ rdMemory' = FreeInitrdFile /\ rdSize' = 0
  /\ \/ rdHandle' = FALSE /\ rdCommand' \in {{}, rdCommand}
     \/ rdHandle /\ UNCHANGED <<rdHandle, rdCommand>>
  /\ UNCHANGED <<rdAddress, rdOther, rdWanted, rdAnswer>>

\* Another provider comes or goes; two of them cannot have the same device path.
OtherInitrd ==
  /\ ~rdHandle /\ rdOther' = ~rdOther
  /\ UNCHANGED <<rdSize, rdAddress, rdHandle, rdCommand, rdMemory, rdWanted, rdAnswer>>

RdNext ==
  \/ RunInitrdFile \/ RunInitrdUnload \/ ShellInitrdLoadFile2
  \/ LinuxInitrdDynamicShellCommandUnload \/ OtherInitrd

RdSpec == RdInit /\ [][RdNext]_rdVars

-----------------------------------------------------------------------------
(***************************************************************************)
(* Over any sequence of commands, failures and unloads: the only pages     *)
(* held are those of the file kept, in its full size; what LoadFile2 gives *)
(* is the file of the last command that opened one, never an earlier one,  *)
(* a part of one or freed memory; only one provider has the device path,   *)
(* and a driver that is unloaded leaves nothing behind.                    *)
(***************************************************************************)
InitrdServed ==
  /\ DOMAIN rdMemory = IF rdSize = 0 THEN {} ELSE {rdAddress}
  /\ rdSize # 0 => /\ rdMemory[rdAddress] = [pages |-> FilePages(rdSize), holds |-> rdWanted]
                   /\ rdSize = rdWanted.size
  /\ rdAnswer.data # "freed"
  /\ ~(rdHandle /\ rdOther)
  /\ rdCommand = {} => DOMAIN rdMemory = {} /\ ~rdHandle
=============================================================================
