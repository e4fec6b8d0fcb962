----------------------------- MODULE KernelLoader -----------------------------
(***************************************************************************)
(* The -kernel, -initrd and -append blobs of QEMU: QemuKernelLoaderFsDxe   *)
(* fetches them from fw_cfg in chunks and shows them as a read-only file   *)
(* system and an initrd LoadFile2; GenericQemuLoadImageLib reads the       *)
(* command line back and sizes the kernel's load options. Sizes are UINT32 *)
(* and wrap.                                                               *)
(* Bytes are numbers, a blob is a sequence of them.                        *)
(***************************************************************************)
EXTENDS Naturals, Sequences, FiniteSets

CONSTANTS
  KernelItems,      \* fw_cfg contents: a set of [setup, kernel, initrd, cmdline] of sequences
  KernelSizes,      \* 2^32: how many values a UINT32 has
  KernelChunk,      \* SIZE_1MB
  KernelPositions,  \* positions a caller may set; MaxPosition stands for MAX_UINT64
  MaxPosition,
  MaxStubFiles,     \* bound: files open at once
  MaxFileCalls      \* bound: calls of the file protocol

ASSUME KernelAssumption ==
  /\ KernelChunk \in Nat \ {0} /\ {MaxStubFiles, MaxFileCalls} \subseteq Nat /\ KernelPositions \subseteq Nat
  /\ KernelSizes \in Nat \ {0}
  /\ KernelItems \subseteq [setup : Seq(Nat), kernel : Seq(Nat), initrd : Seq(Nat), cmdline : Seq(Nat)]
  /\ \A i \in KernelItems : {Len(i.setup), Len(i.kernel), Len(i.initrd), Len(i.cmdline)} \subseteq 0 .. KernelSizes - 1

Blobs == <<"kernel", "initrd", "cmdline">>     \* mKernelBlob
RootDir == 4                                   \* KernelBlobTypeMax
KeysOf(b) == IF b = "kernel" THEN <<"setup", "kernel">> ELSE <<b>>

VARIABLES
  kItems,    \* the contents in this machine
  kSel,      \* [item, at]: the selected fw_cfg item and how far it was read
  kBlob,     \* 1..3 -> [size, data, has]: mKernelBlob
  kAt,       \* [blob, item, left, base]: where the entry point is
  kPc,       \* "fetch", "chunk", "verify", "install", "installed", "failed", "overrun"
  kRet,      \* what the entry point returns: "SUCCESS", "error", or "" before
  kTotal,    \* mTotalBlobBytes
  kShown,    \* protocols installed: SUBSET {"fs", "initrd"}
  kFiles,    \* open files: 1..MaxStubFiles -> [type, pos], type 0 when closed
  kWant,     \* where a caller knows each of its files to be, from the answers it got
  kOut,      \* the last answer: [call, blob, from, n, data, status]
  kImage,    \* [loaded, options]: the kernel image and the size of its load options
  kCalls     \* bounded count

kVars == <<kItems, kSel, kBlob, kAt, kPc, kRet, kTotal, kShown, kFiles, kWant, kOut, kImage, kCalls>>

NoBlob == [size |-> 0, data |-> <<>>, has |-> FALSE]
NoOut  == [call |-> "", blob |-> 0, from |-> 0, n |-> 0, data |-> <<>>, status |-> ""]
NoImage == [loaded |-> FALSE, options |-> 0]

KInit ==
  /\ kItems \in KernelItems /\ kSel = [item |-> "", at |-> 0]
  /\ kBlob = [b \in 1 .. 3 |-> NoBlob] /\ kAt = [blob |-> 1, item |-> 1, left |-> 0, base |-> 0]
  /\ kPc = "fetch" /\ kRet = "" /\ kTotal = 0 /\ kShown = {}
  /\ kFiles = [h \in 1 .. MaxStubFiles |-> [type |-> 0, pos |-> 0]] /\ kWant = [h \in 1 .. MaxStubFiles |-> 0]
  /\ kOut = NoOut /\ kImage = NoImage /\ kCalls = 0

\* The items of a blob, and their sizes as QemuFwCfgRead32 answers them; a missing item reads as none.
ItemCount(b) == Len(KeysOf(Blobs[b]))
ItemSize(b, i) == Len(kItems[KeysOf(Blobs[b])[i]])

\* The items of a blob end to end, what its file should be.
Content(b) == IF b = 1 THEN kItems.setup \o kItems.kernel ELSE IF b = 2 THEN kItems.initrd ELSE kItems.cmdline

FileCallsUntouched == UNCHANGED <<kFiles, kWant, kOut, kImage, kCalls>>

\* No fw_cfg, or GetTime fails.
EntryRefused ==
  /\ kPc = "fetch" /\ kAt.blob = 1 /\ kPc' = "failed" /\ kRet' = "error"
  /\ UNCHANGED <<kItems, kSel, kBlob, kAt, kTotal, kShown>> /\ FileCallsUntouched

\* FetchBlob up to the allocation: Blob->Size is the sum of the items' sizes, in a UINT32.
FetchSizes ==
  /\ kPc = "fetch"
  /\ LET b   == kAt.blob
         sum == (IF ItemCount(b) = 2 THEN ItemSize(b, 1) + ItemSize(b, 2) ELSE ItemSize(b, 1)) % KernelSizes
     IN  \/ /\ kBlob' = [kBlob EXCEPT ![b] = [size |-> sum, data |-> [i \in 1 .. sum |-> 0], has |-> sum > 0]]
            /\ kAt' = [kAt EXCEPT !.item = 1, !.left = ItemSize(b, 1), !.base = 0]
            /\ kPc' = IF sum = 0 THEN "verify" ELSE "chunk"
            /\ kSel' = [item |-> KeysOf(Blobs[b])[1], at |-> 0] /\ UNCHANGED kRet
         \/ /\ sum > 0 /\ kPc' = "failed" /\ kRet' = "error"        \* no memory for it
            /\ kBlob' = [kBlob EXCEPT ![b].size = sum] /\ UNCHANGED <<kAt, kSel>>
  /\ UNCHANGED <<kItems, kTotal, kShown>> /\ FileCallsUntouched

\* One QemuFwCfgReadBytes of FetchBlob, or the next item. Past the end of the blob, where a sum that
\* wrapped leads, it writes over other memory: nothing is said of what follows.
FetchChunk ==
  /\ kPc = "chunk"
  /\ LET b == kAt.blob
         chunk == IF kAt.left < KernelChunk THEN kAt.left ELSE KernelChunk
         to    == kAt.base + ItemSize(b, kAt.item) - kAt.left
     IN  IF kAt.left > 0
         THEN /\ kBlob' = [kBlob EXCEPT ![b].data =
                    [i \in DOMAIN @ |-> IF i \in to + 1 .. to + chunk THEN kItems[kSel.item][kSel.at + i - to] ELSE @[i]]]
              /\ kSel' = [kSel EXCEPT !.at = @ + chunk] /\ kAt' = [kAt EXCEPT !.left = @ - chunk]
              /\ kPc' = IF to + chunk > kBlob[b].size THEN "overrun" ELSE "chunk"
         ELSE /\ UNCHANGED kBlob
              /\ IF kAt.item < ItemCount(b)
                 THEN /\ kAt' = [kAt EXCEPT !.item = @ + 1, !.left = ItemSize(b, kAt.item + 1), !.base = @ + ItemSize(b, kAt.item)]
                      /\ kSel' = [item |-> KeysOf(Blobs[b])[kAt.item + 1], at |-> 0] /\ UNCHANGED kPc
                 ELSE kPc' = "verify" /\ UNCHANGED <<kAt, kSel>>
  /\ UNCHANGED <<kItems, kRet, kTotal, kShown>> /\ FileCallsUntouched

\* VerifyBlob of the entry point; a refusal ends it, and so does a missing kernel.
VerifyBlob ==
  /\ kPc = "verify"
  /\ \/ /\ kTotal' = kTotal + kBlob[kAt.blob].size /\ kAt' = [kAt EXCEPT !.blob = @ + 1]
        /\ kPc' = IF kAt.blob < 3 THEN "fetch" ELSE IF kBlob[1].has THEN "install" ELSE "failed"
     \/ kPc' = "failed" /\ UNCHANGED <<kAt, kTotal>>
  /\ kRet' = IF kPc' = "failed" THEN "error" ELSE kRet
  /\ UNCHANGED <<kItems, kSel, kBlob, kShown>> /\ FileCallsUntouched

\* The file system, then the initrd's LoadFile2 if there is an initrd. A file system refused is an
\* error; for a LoadFile2 refused the file system is taken back, and the status of that is returned.
InstallKernelFs ==
  /\ kPc = "install"
  /\ \/ /\ kShown' = {"fs"} \cup (IF kBlob[2].size > 0 THEN {"initrd"} ELSE {})
        /\ kPc' = "installed" /\ kRet' = "SUCCESS"
     \/ kShown' = {} /\ kPc' = "failed" /\ kRet' = "error"
     \/ kBlob[2].size > 0 /\ kShown' = {} /\ kPc' = "failed" /\ kRet' = "SUCCESS"
  /\ UNCHANGED <<kItems, kSel, kBlob, kAt, kTotal>> /\ FileCallsUntouched

\* FreeBlobs releases the blobs before the one that failed.
FreeBlobs ==
  /\ kPc = "failed" /\ kAt.blob > 1
  /\ kAt' = [kAt EXCEPT !.blob = @ - 1]
  /\ kBlob' = IF kBlob[kAt.blob - 1].has THEN [kBlob EXCEPT ![kAt.blob - 1] = NoBlob] ELSE kBlob
  /\ UNCHANGED <<kItems, kSel, kPc, kRet, kTotal, kShown>> /\ FileCallsUntouched

(***************************************************************************)
(* The file protocol.                                                      *)
(***************************************************************************)
FileCall ==
  /\ kPc = "installed" /\ kCalls < MaxFileCalls /\ kCalls' = kCalls + 1
  /\ UNCHANGED <<kItems, kSel, kBlob, kAt, kPc, kRet, kTotal, kShown>>

FileAnswers(call, b, from, n, data, status) ==
  kOut' = [call |-> call, blob |-> b, from |-> from, n |-> n, data |-> data, status |-> status]

\* The FileSize of a FILE_INFO.
ConvertKernelBlobTypeToFileInfo(type) == IF type = RootDir THEN 3 ELSE kBlob[type].size

Closed(h) == kFiles[h].type = 0
IsDir(h)  == kFiles[h].type = RootDir
FilesStay == UNCHANGED <<kFiles, kWant, kImage>>

\* A handle is allocated, or released; its caller starts at the beginning.
OpensAs(h, type) ==
  /\ kFiles' = [kFiles EXCEPT ![h] = [type |-> type, pos |-> 0]] /\ kWant' = [kWant EXCEPT ![h] = 0] /\ UNCHANGED kImage

StubFileSystemOpenVolume(h) ==
  /\ FileCall /\ Closed(h)
  /\ \/ OpensAs(h, RootDir) /\ FileAnswers("volume", RootDir, 0, 0, <<>>, "SUCCESS")
     \/ FilesStay /\ FileAnswers("volume", RootDir, 0, 0, <<>>, "OUT_OF_RESOURCES")

\* mode: "r", "rw" (with or without create) or another; type: the file, or RootDir for an unknown name.
StubFileOpen(dir, h, type, mode) ==
  /\ FileCall /\ ~Closed(dir) /\ Closed(h)
  /\ LET refused == CASE mode = "rw"  -> "WRITE_PROTECTED"
                      [] mode = "bad" -> "INVALID_PARAMETER"
                      [] OTHER -> IF ~IsDir(dir) THEN "UNSUPPORTED" ELSE IF type = RootDir THEN "NOT_FOUND" ELSE "OUT_OF_RESOURCES"
     IN  \/ FilesStay /\ FileAnswers("open", type, 0, 0, <<>>, refused)
         \/ refused = "OUT_OF_RESOURCES" /\ OpensAs(h, type) /\ FileAnswers("open", type, 0, 0, <<>>, "SUCCESS")

\* StubFileClose; StubFileDelete frees the file as well, with a warning.
StubFileClose(h, call) ==
  /\ FileCall /\ ~Closed(h) /\ OpensAs(h, 0)
  /\ FileAnswers(call, kFiles[h].type, 0, 0, <<>>, IF call = "delete" THEN "WARN_DELETE_FAILURE" ELSE "SUCCESS")

\* n bytes from a position of a blob, or as many as there are.
ReadBlob(type, pos, n) ==
  LET left == kBlob[type].size - pos
  IN  SubSeq(kBlob[type].data, pos + 1, pos + (IF n > left THEN left ELSE n))

\* Mutant: the position advances by what was asked for.
ReadMoves_Asked(h, by) ==
  /\ kFiles' = [kFiles EXCEPT ![h].pos = @ + kOut'.n] /\ kWant' = [kWant EXCEPT ![h] = @ + Len(kOut'.data)] /\ UNCHANGED kImage

\* The file moves on; its caller goes by the answer.
ReadMoves(h, by) ==
  /\ kFiles' = [kFiles EXCEPT ![h].pos = @ + by] /\ kWant' = [kWant EXCEPT ![h] = @ + Len(kOut'.data)] /\ UNCHANGED kImage

\* A directory reads as one FILE_INFO per call; fits: the buffer is large enough for it.
StubFileRead(h, n, fits) ==
  /\ FileCall /\ ~Closed(h)
  /\ LET f == kFiles[h]
         data == ReadBlob(f.type, f.pos, n)
     IN  IF IsDir(h)
         THEN IF f.pos = 3 THEN FileAnswers("dir", RootDir, kWant[h], n, <<>>, "SUCCESS") /\ FilesStay
              ELSE IF ~fits THEN FileAnswers("dir", RootDir, kWant[h], n, <<>>, "BUFFER_TOO_SMALL") /\ FilesStay
              ELSE /\ FileAnswers("dir", RootDir, kWant[h], n, <<ConvertKernelBlobTypeToFileInfo(f.pos + 1)>>, "SUCCESS")
                   /\ ReadMoves(h, 1)
         ELSE IF f.pos > kBlob[f.type].size
         THEN FileAnswers("read", f.type, kWant[h], n, <<>>, "DEVICE_ERROR") /\ FilesStay
         ELSE FileAnswers("read", f.type, kWant[h], n, data, "SUCCESS") /\ ReadMoves(h, Len(data))

\* MAX_UINT64 stands for the end of a file: as long as its caller knows its item to be.
StubFileSetPosition(h, p) ==
  /\ FileCall /\ ~Closed(h)
  /\ LET toEnd == p = MaxPosition /\ ~IsDir(h)
     IN  IF IsDir(h) /\ p # 0 THEN FileAnswers("seek", RootDir, p, 0, <<>>, "UNSUPPORTED") /\ FilesStay
         ELSE /\ FileAnswers("seek", kFiles[h].type, p, 0, <<>>, "SUCCESS") /\ UNCHANGED kImage
              /\ kFiles' = [kFiles EXCEPT ![h].pos = IF toEnd THEN kBlob[kFiles[h].type].size ELSE p]
              /\ kWant' = [kWant EXCEPT ![h] = IF toEnd THEN Len(Content(kFiles[h].type)) ELSE p]

StubFileGetPosition(h) ==
  /\ FileCall /\ ~Closed(h) /\ FilesStay
  /\ IF IsDir(h) THEN FileAnswers("tell", RootDir, kWant[h], 0, <<>>, "UNSUPPORTED")
     ELSE FileAnswers("tell", kFiles[h].type, kWant[h], 0, <<kFiles[h].pos>>, "SUCCESS")

\* StubFileGetInfo for a file, or for the volume ("volinfo").
StubFileGetInfo(h, call, fits) ==
  /\ FileCall /\ ~Closed(h) /\ FilesStay
  /\ IF ~fits THEN FileAnswers(call, kFiles[h].type, 0, 0, <<>>, "BUFFER_TOO_SMALL")
     ELSE FileAnswers(call, kFiles[h].type, 0, 0,
                      <<IF call = "volinfo" THEN kTotal ELSE ConvertKernelBlobTypeToFileInfo(kFiles[h].type)>>, "SUCCESS")

\* StubFileWrite; SetInfo and Flush refuse in the same way.
StubFileWrite(h) ==
  /\ FileCall /\ ~Closed(h) /\ FilesStay
  /\ FileAnswers("write", kFiles[h].type, 0, 0, <<>>, IF IsDir(h) THEN "UNSUPPORTED" ELSE "WRITE_PROTECTED")

InitrdLoadFile2(n) ==
  /\ FileCall /\ "initrd" \in kShown /\ FilesStay
  /\ IF n < kBlob[2].size THEN FileAnswers("initrd", 2, 0, n, <<>>, "BUFFER_TOO_SMALL")
     ELSE FileAnswers("initrd", 2, 0, n, kBlob[2].data, "SUCCESS")

(***************************************************************************)
(* QemuLoadKernelImage: the load options are the command line without its  *)
(* terminator and " initrd=initrd", 14 characters, in UCS-2. Their size is *)
(* a UINT32; UnicodeSPrintAsciiFormat cuts the text to what it gives.      *)
(***************************************************************************)
LoadOptionsSize(cmdline, initrd) ==
  LET text == ((IF cmdline = 0 THEN 0 ELSE (cmdline - 1) * 2) + (IF initrd > 0 THEN 28 ELSE 0)) % KernelSizes
  IN  IF text = 0 THEN 0 ELSE (text + 2) % KernelSizes

\* LoadImage, which reads the kernel file, comes first; a later failure, of the volume, a file or an
\* allocation, unloads the image again, and so does a LoadImage that reports SECURITY_VIOLATION.
QemuLoadKernelImage ==
  /\ FileCall /\ ~kImage.loaded /\ UNCHANGED <<kFiles, kWant>>
  /\ LET cmd == ReadBlob(3, 0, ConvertKernelBlobTypeToFileInfo(3))
         unterminated == cmd # <<>> /\ cmd[Len(cmd)] # 0
     IN  \/ /\ \E status \in {"LOAD_ERROR", "ACCESS_DENIED", "OUT_OF_RESOURCES"} : FileAnswers("load", 3, 0, 0, <<>>, status)
            /\ kImage' = NoImage
         \/ unterminated /\ FileAnswers("load", 3, 0, 0, <<>>, "PROTOCOL_ERROR") /\ kImage' = NoImage
         \/ /\ ~unterminated /\ FileAnswers("load", 3, 0, 0, cmd, "SUCCESS")
            /\ kImage' = [loaded |-> TRUE, options |-> LoadOptionsSize(Len(cmd), ConvertKernelBlobTypeToFileInfo(2))]

\* The load options go before UnloadImage is asked, which may refuse.
QemuUnloadKernelImage ==
  /\ FileCall /\ kImage.loaded /\ UNCHANGED <<kFiles, kWant>>
  /\ \/ FileAnswers("unload", 3, 0, 0, <<>>, "SUCCESS") /\ kImage' = NoImage
     \/ FileAnswers("unload", 3, 0, 0, <<>>, "UNSUPPORTED") /\ kImage' = [kImage EXCEPT !.options = 0]

KNext ==
  \/ EntryRefused \/ FetchSizes \/ FetchChunk \/ VerifyBlob \/ InstallKernelFs \/ FreeBlobs
  \/ QemuLoadKernelImage \/ QemuUnloadKernelImage
  \/ \E n \in 0 .. 4 : InitrdLoadFile2(n)
  \/ \E h \in 1 .. MaxStubFiles :
       \/ StubFileSystemOpenVolume(h) \/ StubFileGetPosition(h) \/ StubFileWrite(h)
       \/ \E c \in {"close", "delete"} : StubFileClose(h, c)
       \/ \E n \in {0, 1, 3}, fits \in BOOLEAN : StubFileRead(h, n, fits)
       \/ \E p \in KernelPositions : StubFileSetPosition(h, p)
       \/ \E c \in {"info", "volinfo"}, fits \in BOOLEAN : StubFileGetInfo(h, c, fits)
       \/ \E d \in 1 .. MaxStubFiles, t \in 1 .. 4, mode \in {"r", "rw", "bad"} : StubFileOpen(d, h, t, mode)

KSpec == KInit /\ [][KNext]_kVars

(***************************************************************************)
(* The files are the fw_cfg items, end to end, whatever the calls. From    *)
(* where a caller has set a file, or started it, its reads return the next *)
(* bytes of the item, as many as it asks for until the item ends, without  *)
(* gap or repeat, and a position past the end is refused; the position,    *)
(* the sizes in a directory, in a FILE_INFO and of the volume, and the     *)
(* initrd's LoadFile2, which is there exactly with an initrd, all agree    *)
(* with the items. An image is loaded exactly after success, its load      *)
(* options as long as their text and a terminator as long as a UINT32 can  *)
(* say so (longer ones are cut). A failed start shows nothing and keeps no *)
(* blob but the one that was refused; it is reported as an error unless a  *)
(* LoadFile2 was refused, when the entry point returns success. A kernel   *)
(* whose set-up and rest together pass 4 GB is never shown.                *)
(***************************************************************************)
Part(b, from, n) == SubSeq(Content(b), from + 1, IF from + n > Len(Content(b)) THEN Len(Content(b)) ELSE from + n)

Answers(call) == kOut.call = call /\ kOut.status = "SUCCESS"

AnswersAreTheItems ==
  /\ Answers("read") => kOut.from <= Len(Content(kOut.blob)) /\ kOut.data = Part(kOut.blob, kOut.from, kOut.n)
  /\ kOut.call = "read" /\ kOut.status = "DEVICE_ERROR" => kOut.from > Len(Content(kOut.blob))
  /\ Answers("dir") => kOut.data = IF kOut.from < 3 THEN <<Len(Content(kOut.from + 1))>> ELSE <<>>
  /\ Answers("tell") => kOut.data = <<kOut.from>>
  /\ Answers("info") => kOut.data = <<IF kOut.blob = RootDir THEN 3 ELSE Len(Content(kOut.blob))>>
  /\ Answers("volinfo") => kOut.data = <<Len(Content(1)) + Len(Content(2)) + Len(Content(3))>>
  /\ kOut.call = "initrd" => IF kOut.n < Len(Content(2)) THEN kOut.status = "BUFFER_TOO_SMALL" ELSE kOut.data = Content(2)

LoadedWhole ==
  kOut.call = "load" =>
    /\ kImage.loaded <=> kOut.status = "SUCCESS"
    /\ kImage.loaded =>
         LET text == (IF Content(3) = <<>> THEN 0 ELSE Len(Content(3)) - 1) + (IF Content(2) = <<>> THEN 0 ELSE 14)
         IN  kOut.data = Content(3) /\ (2 * (text + 1) < KernelSizes => kImage.options = IF text = 0 THEN 0 ELSE 2 * (text + 1))

KernelFilesAreTheItems ==
  /\ kPc \in {"install", "installed"} =>
       /\ \A b \in 1 .. 3 : kBlob[b].data = Content(b) /\ kBlob[b].size = Len(Content(b))
       /\ kTotal = Len(Content(1)) + Len(Content(2)) + Len(Content(3)) /\ Len(Content(1)) < KernelSizes
  /\ kPc = "installed" => kShown = {"fs"} \cup (IF Content(2) = <<>> THEN {} ELSE {"initrd"}) /\ kRet = "SUCCESS"
  /\ kPc = "overrun" => Len(Content(1)) >= KernelSizes
  /\ kPc # "installed" => kShown = {}
  /\ kPc = "failed" => /\ kAt.blob = 1 => Cardinality({b \in 1 .. 3 : kBlob[b].has}) <= 1
                       /\ kRet = "error" \/ Content(2) # <<>>
  /\ AnswersAreTheItems /\ LoadedWhole
=============================================================================
