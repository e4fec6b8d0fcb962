------------------------------ MODULE AcpiLoader ------------------------------
(***************************************************************************)
(* AcpiPlatformDxe, QemuFwCfgAcpi.c: run the linker/loader script of QEMU. *)
(* The first pass allocates blobs, patches pointers and checksums and      *)
(* writes addresses back to the host; the second pass recognises ACPI      *)
(* tables behind the patched pointers and installs copies of them.  At the *)
(* end a blob stays allocated only if something other than tables is in    *)
(* use in it; after an error everything is undone.                         *)
(*                                                                         *)
(* A pointer's target is a table, the root table, other data, or beyond    *)
(* the end of the blob; "beyond" also stands for a pointer or a checksum   *)
(* that is not within its own blob.  A blob is known by the number of      *)
(* bytes that its addresses take.                                          *)
(***************************************************************************)
EXTENDS Integers, Sequences, FiniteSets

CONSTANTS
  AcpiScripts,           \* the scripts considered: sequences of commands
  AcpiItems,             \* the writeable fw_cfg files for pointers, and their sizes
  INSTALLED_TABLES_MAX   \* how many tables may be installed

ASSUME AcpiAssumption ==
  /\ INSTALLED_TABLES_MAX \in Nat
  /\ \A s \in AcpiScripts : s \in Seq({s[i] : i \in DOMAIN s})
  /\ \A s \in AcpiScripts : \A i \in DOMAIN s : s[i].size \in Nat

VARIABLES
  aAt,      \* "idle", "first", "second", "uninstall", "undo", "free", "done"
  aScript,  \* LoaderStart .. LoaderEnd
  aPos,     \* LoaderEntry
  aEnd,     \* WritePointerSubsetEnd
  aErr,     \* EFI_ERROR (Status)
  aBlobs,   \* Tracker: file -> [bytes, only], only being HostsOnlyTableData
  aPages,   \* the files whose blobs have their pages
  aHost,    \* host pointer -> the file whose blob it points into
  aSeen,    \* SeenPointers
  aKeys     \* InstalledKey [0 .. Installed - 1]

aVars == <<aAt, aScript, aPos, aEnd, aErr, aBlobs, aPages, aHost, aSeen, aKeys>>

NoBlobs == [f \in {} |-> 0]
With(fn, k, v) == [x \in DOMAIN fn \cup {k} |-> IF x = k THEN v ELSE fn[x]]
Without(fn, k) == [x \in DOMAIN fn \ {k} |-> fn[x]]

AcpiInit ==
  /\ aAt = "idle" /\ aScript = << >> /\ aPos = 0 /\ aEnd = 0 /\ aErr = FALSE
  /\ aBlobs = NoBlobs /\ aPages = {} /\ aHost = NoBlobs /\ aSeen = {} /\ aKeys = << >>

-----------------------------------------------------------------------------
(* The first pass.                                                         *)

\* The pointees of pointers narrower than eight bytes must be below 4 GB.
CollectAllocationsRestrictedTo32Bit ==
  {aScript[i].to : i \in {j \in DOMAIN aScript : aScript[j].type = "addptr" /\ aScript[j].size < 8}}

AcpiStart ==
  /\ aAt = "idle"
  /\ aScript' \in AcpiScripts
  /\ aAt' = "first" /\ aPos' = 1 /\ aEnd' = 0
  /\ UNCHANGED <<aErr, aBlobs, aPages, aHost, aSeen, aKeys>>

Cmd == aScript[aPos]

PointerSizes == {1, 2, 4, 8}

\* AllocateMaxAddress with the limit that the pointers to the file call for.
ProcessCmdAllocate(c, bytes) ==
  /\ c.type = "alloc" /\ c.file \notin DOMAIN aBlobs
  /\ bytes = 8 => c.file \notin CollectAllocationsRestrictedTo32Bit
  /\ aBlobs' = With(aBlobs, c.file, [bytes |-> bytes, only |-> TRUE])
  /\ aPages' = aPages \cup {c.file}
  /\ UNCHANGED <<aHost, aSeen, aKeys>>

\* The address of the target is representable in the pointer.
PointerFits(c) == aBlobs[c.to].bytes <= c.size

\* Both blobs exist, the target is within the pointee, and its address fits.
AddPointerOk(c) ==
  /\ c.file \in DOMAIN aBlobs /\ c.to \in DOMAIN aBlobs
  /\ c.size \in PointerSizes /\ c.at # "beyond" /\ PointerFits(c)

ProcessCmdAddPointer(c) ==
  /\ c.type = "addptr" /\ AddPointerOk(c)
  /\ UNCHANGED <<aBlobs, aPages, aHost, aSeen, aKeys>>

ProcessCmdAddChecksum(c) ==
  /\ c.type = "checksum" /\ c.file \in DOMAIN aBlobs /\ c.at # "beyond"
  /\ UNCHANGED <<aBlobs, aPages, aHost, aSeen, aKeys>>

\* The file exists and has room for the pointer, as well.
WritePointerOk(c) ==
  /\ c.file \in DOMAIN AcpiItems /\ c.to \in DOMAIN aBlobs
  /\ c.size \in PointerSizes /\ c.size <= AcpiItems[c.file]
  /\ c.at # "beyond" /\ PointerFits(c)

\* Mutant: the pointee is not marked as in use by the host.
ProcessCmdWritePointer_Unmarked(c) ==
  /\ c.type = "writeptr" /\ WritePointerOk(c)
  /\ aHost' = With(aHost, c.file, c.to)
  /\ UNCHANGED <<aBlobs, aPages, aSeen, aKeys>>

\* The address goes to a writeable fw_cfg file; the host may use it at once.
ProcessCmdWritePointer(c) ==
  /\ c.type = "writeptr" /\ WritePointerOk(c)
  /\ aHost' = With(aHost, c.file, c.to)
  /\ aBlobs' = [aBlobs EXCEPT ![c.to].only = FALSE]
  /\ UNCHANGED <<aPages, aSeen, aKeys>>

SubsetEnd(c) == IF c.type = "writeptr" THEN aPos ELSE aEnd

FirstPass ==
  /\ aAt = "first" /\ aPos <= Len(aScript)
  /\ \/ \E bytes \in PointerSizes : ProcessCmdAllocate(Cmd, bytes)
     \/ ProcessCmdAddPointer(Cmd)
     \/ ProcessCmdAddChecksum(Cmd)
     \/ ProcessCmdWritePointer(Cmd)
     \/ Cmd.type = "other" /\ UNCHANGED <<aBlobs, aPages, aHost, aSeen, aKeys>>
  /\ aPos' = aPos + 1
  /\ aEnd' = SubsetEnd(Cmd)
  /\ UNCHANGED <<aAt, aScript, aErr>>

\* The conditions of the commands that need no allocation.
Acceptable(c) ==
  CASE c.type = "addptr"   -> AddPointerOk(c)
    [] c.type = "checksum" -> c.file \in DOMAIN aBlobs /\ c.at # "beyond"
    [] c.type = "writeptr" -> WritePointerOk(c)
    [] c.type = "alloc"    -> FALSE      \* may always fail
    [] OTHER               -> TRUE

FirstPassFails ==
  /\ aAt = "first"
  /\ aPos <= Len(aScript) => ~Acceptable(Cmd)
  /\ aAt' = "undo" /\ aErr' = TRUE /\ aPos' = aEnd
  /\ UNCHANGED <<aScript, aEnd, aBlobs, aPages, aHost, aSeen, aKeys>>

FirstPassDone ==
  /\ aAt = "first" /\ aPos > Len(aScript)
  /\ aAt' = "second" /\ aPos' = 1
  /\ UNCHANGED <<aScript, aEnd, aErr, aBlobs, aPages, aHost, aSeen, aKeys>>

-----------------------------------------------------------------------------
(* The second pass.                                                        *)

Target(c) == <<c.to, c.at>>

InstallsTable(c) ==
  /\ Target(c) \notin aSeen /\ c.at = "table" /\ Len(aKeys) < INSTALLED_TABLES_MAX
  /\ aSeen' = aSeen \cup {Target(c)}
  /\ aKeys' = Append(aKeys, Target(c))
  /\ UNCHANGED aBlobs

\* Mutant: a table is installed for every pointer to it.
Process2ndPassCmdAddPointer_Again(c) ==
  \/ /\ c.at = "root" /\ UNCHANGED <<aBlobs, aSeen, aKeys>>
  \/ /\ c.at = "data" /\ aBlobs' = [aBlobs EXCEPT ![c.to].only = FALSE] /\ UNCHANGED <<aSeen, aKeys>>
  \/ /\ c.at = "table" /\ Len(aKeys) < INSTALLED_TABLES_MAX
     /\ aKeys' = Append(aKeys, Target(c)) /\ UNCHANGED <<aBlobs, aSeen>>

Process2ndPassCmdAddPointer(c) ==
  \/ /\ Target(c) \in aSeen \/ c.at = "root"
     /\ aSeen' = aSeen \cup {Target(c)}
     /\ UNCHANGED <<aBlobs, aKeys>>
  \/ /\ Target(c) \notin aSeen /\ c.at = "data"
     /\ aSeen' = aSeen \cup {Target(c)}
     /\ aBlobs' = [aBlobs EXCEPT ![c.to].only = FALSE]
     /\ UNCHANGED aKeys
  \/ InstallsTable(c)

SecondPass ==
  /\ aAt = "second" /\ aPos <= Len(aScript)
  /\ IF Cmd.type = "addptr" THEN Process2ndPassCmdAddPointer(Cmd)
     ELSE UNCHANGED <<aBlobs, aSeen, aKeys>>
  /\ aPos' = aPos + 1
  /\ UNCHANGED <<aAt, aScript, aEnd, aErr, aPages, aHost>>

\* No room for the key, or InstallAcpiTable fails, or SeenPointers cannot grow.
SecondPassFails ==
  /\ aAt = "second" /\ aPos <= Len(aScript)
  /\ Cmd.type = "addptr" /\ Target(Cmd) \notin aSeen
  /\ aAt' = "uninstall" /\ aErr' = TRUE
  /\ UNCHANGED <<aScript, aPos, aEnd, aBlobs, aPages, aHost, aSeen, aKeys>>

SecondPassDone ==
  /\ aAt = "second" /\ aPos > Len(aScript)
  /\ aAt' = "free" /\ aSeen' = {}
  /\ UNCHANGED <<aScript, aPos, aEnd, aErr, aBlobs, aPages, aHost, aKeys>>

-----------------------------------------------------------------------------
(* The labels at the end of InstallQemuFwCfgTables.                        *)

UninstallAcpiTables ==
  /\ aAt = "uninstall"
  /\ IF aKeys # << >> THEN /\ aKeys' = SubSeq(aKeys, 1, Len(aKeys) - 1)
                           /\ UNCHANGED <<aAt, aPos, aSeen>>
     ELSE aAt' = "undo" /\ aPos' = aEnd /\ aSeen' = {} /\ UNCHANGED aKeys
  /\ UNCHANGED <<aScript, aEnd, aErr, aBlobs, aPages, aHost>>

\* Back from WritePointerSubsetEnd: each pointer the host has becomes zero.
UndoCmdWritePointer ==
  /\ aAt = "undo"
  /\ IF aPos > 0 THEN /\ aHost' = IF Cmd.type = "writeptr" THEN Without(aHost, Cmd.file) ELSE aHost
                      /\ aPos' = aPos - 1 /\ UNCHANGED aAt
     ELSE aAt' = "free" /\ UNCHANGED <<aHost, aPos>>
  /\ UNCHANGED <<aScript, aEnd, aErr, aBlobs, aPages, aSeen, aKeys>>

\* Each blob leaves the tracker, most of them with their pages.
FreeTracker ==
  /\ aAt = "free"
  /\ \/ \E f \in DOMAIN aBlobs :
          /\ aPages' = IF aErr \/ aBlobs[f].only THEN aPages \ {f} ELSE aPages
          /\ aBlobs' = Without(aBlobs, f)
          /\ UNCHANGED aAt
     \/ /\ aBlobs = NoBlobs /\ aAt' = "done" /\ UNCHANGED <<aPages, aBlobs>>
  /\ UNCHANGED <<aScript, aPos, aEnd, aErr, aHost, aSeen, aKeys>>

AcpiNext ==
  \/ AcpiStart \/ FirstPass \/ FirstPassFails \/ FirstPassDone \/ SecondPass \/ SecondPassFails
  \/ SecondPassDone \/ UninstallAcpiTables \/ UndoCmdWritePointer \/ FreeTracker

AcpiSpec == AcpiInit /\ [][AcpiNext]_aVars

-----------------------------------------------------------------------------
(***************************************************************************)
(* The hypervisor may follow a pointer it was given at any time, so at     *)
(* every moment, also while errors are undone, each points into a blob     *)
(* whose pages are allocated.                                              *)
(***************************************************************************)
HostPointersLive == \A p \in DOMAIN aHost : aHost[p] \in aPages

Pointers == {aScript[i] : i \in {j \in DOMAIN aScript : aScript[j].type = "addptr"}}
Given    == {aScript[i].to : i \in {j \in DOMAIN aScript : aScript[j].type = "writeptr"}}

\* What a four-byte pointer leads to was put where it can reach; when the tables are installed, every
\* pointer has been patched with its whole address.
PointersReach ==
  \A c \in Pointers :
    /\ c.to \in DOMAIN aBlobs /\ c.size = 4 => PointerFits(c)
    /\ aAt = "second" => c.to \in DOMAIN aBlobs /\ PointerFits(c)

(***************************************************************************)
(* When InstallQemuFwCfgTables returns successfully, every table a pointer *)
(* leads to is installed, and once however many lead to it, and a blob is  *)
(* kept exactly if a pointer to something other than a table leads into it *)
(* or its address was given to the host; when it fails, nothing is         *)
(* installed, allocated or known to the host.                              *)
(* Meanwhile the pointers reach what they point to: a blob is allocated    *)
(* below 4 GB if a pointer of four bytes will lead to it, and the script   *)
(* fails rather than cut an address.                                       *)
(***************************************************************************)
TablesInstalledOnce ==
  /\ PointersReach
  /\ aAt = "done" =>
       IF aErr THEN aKeys = << >> /\ aPages = {} /\ aHost = NoBlobs
       ELSE /\ {aKeys[i] : i \in DOMAIN aKeys} =
                 {Target(c) : c \in {p \in Pointers : p.at = "table"}}
            /\ Cardinality({aKeys[i] : i \in DOMAIN aKeys}) = Len(aKeys)
            /\ aPages = {c.to : c \in {p \in Pointers : p.at = "data"}} \cup Given
=============================================================================
