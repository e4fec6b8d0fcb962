-------------------------- MODULE Protection_proofs --------------------------
(***************************************************************************)
(* Proofs about what keeps memory from those who must not have it.         *)
(*                                                                         *)
(* IoMmuDxe, for any set of pages and any number of mappings.  IoMmuInv is *)
(* inductive.  That a page is shared only while a mapping uses it follows  *)
(* from the layout: the pages of the mappings, of the common buffers, of   *)
(* their stashes and the free ones never overlap, although they are handed *)
(* round between four lists.  The same fact carries what a driver finds in *)
(* its memory through the copies to and from the stash and the bounce      *)
(* page, each made under the mask of its moment.                           *)
(*                                                                         *)
(* System management mode on Q35: the lock of SMRAM and of the SMI         *)
(* (SmmAccess), and the relocation of the CPUs (SmmRelocation), the latter *)
(* for any number of CPUs, any BSP and any capacity of a HOB.              *)
(***************************************************************************)
EXTENDS IoMmu, SmmAccess, SmmRelocation, Integers, FiniteSetTheorems, TLAPS

-----------------------------------------------------------------------------
(* IoMmu.                                                                  *)

Vals == {"zero", "mine", "device", "garbage"}
MemType == [Pages -> [val : Vals, enc : BOOLEAN]]
BufType == [host : Pages, stash : Pages]
MapType == [op : Ops, host : Pages, plain : Pages, id : Nat]

ITypes ==
  /\ iMask \in [Pages -> BOOLEAN] /\ iMem \in MemType
  /\ iFree \subseteq Pages /\ iBufs \subseteq BufType /\ iMaps \subseteq MapType
  /\ iActive \subseteq iMaps
  /\ iWant \in [Pages -> Vals \cup {"any"}]
  /\ iPhase \in {"boot", "exit", "os"} /\ iHandlers \subseteq {"driver", "iommu", "unmap"}
  /\ iCount \in Nat

\* The pages of a mapping that is a common buffer, or of one that bounces.
MapPlaced(m, free, bufs) ==
  IF IsCommon(m.op) THEN m.plain = m.host /\ \E b \in bufs : b.host = m.host
  ELSE /\ m.host = HostPage /\ m.plain \notin free /\ m.plain # HostPage
       /\ \A b \in bufs : b.host # m.plain /\ b.stash # m.plain

\* No page is in two places.
ILayout ==
  /\ HostPage \notin iFree
  /\ \A b \in iBufs : /\ b.host # b.stash /\ b.host \notin iFree /\ b.stash \notin iFree
                      /\ b.host # HostPage /\ b.stash # HostPage
  /\ \A b, c \in iBufs : b # c => b.host # c.host /\ b.host # c.stash /\ b.stash # c.stash
  /\ \A m \in iMaps : MapPlaced(m, iFree, iBufs)
  /\ \A m, n \in iMaps : m # n => m.plain # n.plain /\ m.host # n.host

\* A page is shared exactly while it is the device's side of a mapping.
IMasks == \A p \in Pages : ~iMask[p] <=> \E m \in iMaps : m.plain = p

\* Mappings are listed in the order of their ids, so that a newest one exists.
IOrder ==
  /\ \A m \in iMaps : m.id < iCount
  /\ \A S \in SUBSET iMaps : S # {} => \E x \in S : \A y \in S : y.id <= x.id

\* The devices have been stopped once the drivers' handlers have run.
IPhases ==
  /\ iPhase = "boot" => iHandlers = {}
  /\ iPhase # "boot" /\ "driver" \notin iHandlers => iActive = {}

Owners == {HostPage} \cup {b.host : b \in iBufs}

\* Where the current contents of each owner's page are.
IContents ==
  /\ \A m \in iMaps : iWant[m.host] \in {"any", ReadPage(iMem, iMask, m.plain)}
  /\ \A m \in iMaps : IsRead(m.op) => iWant[m.host] \in {"any", ReadPage(iMem, iMask, m.host)}
  /\ \A h \in Owners : (\A m \in iMaps : m.host # h) => iWant[h] \in {"any", ReadPage(iMem, iMask, h)}

IoMmuInv == ITypes /\ ILayout /\ IMasks /\ IOrder /\ IPhases /\ IContents

-----------------------------------------------------------------------------
(* Reading and writing pages.                                              *)

\* What is written can be read back under the same masks, and nothing else
\* changes.
LEMMA WriteRead ==
  ASSUME NEW mem \in MemType, NEW mask \in [Pages -> BOOLEAN], NEW p \in Pages, NEW v \in Vals
  PROVE  /\ WritePage(mem, mask, p, v) \in MemType
         /\ ReadPage(WritePage(mem, mask, p, v), mask, p) = v
         /\ \A r \in Pages : r # p => WritePage(mem, mask, p, v)[r] = mem[r]
  BY DEF MemType, WritePage, ReadPage

\* A read gives a value.
LEMMA ReadType ==
  ASSUME NEW mem \in MemType, NEW mask \in [Pages -> BOOLEAN], NEW p \in Pages
  PROVE  ReadPage(mem, mask, p) \in Vals
  BY DEF MemType, ReadPage, Vals

\* A page that is not touched reads as before.
LEMMA ReadSame ==
  ASSUME NEW mem, NEW mask, NEW mem2, NEW mask2, NEW p, mem2[p] = mem[p], mask2[p] = mask[p]
  PROVE  ReadPage(mem2, mask2, p) = ReadPage(mem, mask, p)
  BY DEF ReadPage

-----------------------------------------------------------------------------
(* The invariant implies the property.                                     *)

\* The invariant says all that the property says.
LEMMA InvImpliesShared == IoMmuInv => SharedOnlyWhileMapped
  <1> SUFFICES ASSUME IoMmuInv PROVE SharedOnlyWhileMapped
    OBVIOUS
  <1>1. \A p \in Pages : ~iMask[p] => \E m \in iMaps : m.plain = p
    BY DEF IoMmuInv, IMasks
  <1>2. ASSUME NEW p \in iFree PROVE iMask[p]
    <2>1. \A m \in iMaps : m.plain # p
      BY <1>2 DEF IoMmuInv, ILayout, MapPlaced
    <2> QED
      BY <1>2, <2>1 DEF IoMmuInv, IMasks, ITypes
  <1>3. \A m \in iActive : m \in iMaps /\ ~iMask[m.plain]
    BY DEF IoMmuInv, IMasks, ITypes, MapType
  <1>4. \A m \in iMaps : (IsRead(m.op) \/ IsCommon(m.op)) =>
          iWant[m.host] \in {"any", ReadPage(iMem, iMask, m.plain)}
    BY DEF IoMmuInv, IContents
  <1>5. \A h \in {HostPage} \cup {b.host : b \in iBufs} :
          (\A m \in iMaps : m.host # h) => iWant[h] \in {"any", ReadPage(iMem, iMask, h)}
    BY DEF IoMmuInv, IContents, Owners
  <1> QED
    BY <1>1, <1>2, <1>3, <1>4, <1>5 DEF SharedOnlyWhileMapped

\* Before anything is mapped all pages are private.
LEMMA IoMmuInitEstablishes == IoMmuInit => IoMmuInv
  <1> SUFFICES ASSUME IoMmuInit PROVE IoMmuInv
    OBVIOUS
  <1> USE IoMmuAssumption DEF IoMmuInit
  <1>1. ITypes
    BY DEF ITypes, MemType, Vals
  <1>2. ILayout /\ IMasks /\ IOrder /\ IPhases
    BY DEF ILayout, IMasks, IOrder, IPhases
  <1>3. IContents
    BY DEF IContents, Owners, ReadPage
  <1> QED
    BY <1>1, <1>2, <1>3 DEF IoMmuInv

-----------------------------------------------------------------------------
(* Every step preserves IoMmuInv.                                          *)

\* A common buffer is allocated from free, private pages.
LEMMA AllocateBufferPreserves ==
  ASSUME IoMmuInv, IoMmuAllocateBuffer
  PROVE  IoMmuInv'
  <1> USE DEF IoMmuInv
  <1>1. PICK stash \in iFree, host \in iFree :
          /\ host # stash
          /\ iBufs' = iBufs \cup {[host |-> host, stash |-> stash]}
          /\ iFree' = iFree \ {stash, host}
          /\ iMem' = WritePage(iMem, iMask, host, "mine") /\ iWant' = [iWant EXCEPT ![host] = "mine"]
          /\ UNCHANGED <<iMask, iMaps, iActive, iPhase, iHandlers, iCount>>
    BY DEF IoMmuAllocateBuffer
  <1> DEFINE B == [host |-> host, stash |-> stash]
  <1>2. host \in Pages /\ stash \in Pages /\ host # stash /\ B \in BufType /\ "mine" \in Vals
    BY <1>1 DEF ITypes, BufType, Vals
  <1>3. /\ iMem' \in MemType /\ ReadPage(iMem', iMask', host) = "mine"
        /\ \A p \in Pages : p # host => iMem'[p] = iMem[p]
    BY <1>1, <1>2, WriteRead DEF ITypes
  <1>4. ITypes'
    BY <1>1, <1>2, <1>3 DEF ITypes
  <1>5. \A m \in iMaps : m.plain # host /\ m.host # host /\ m.plain # stash
    BY <1>1 DEF ILayout, MapPlaced
  <1>6. ILayout'
    <2>1. \A b \in iBufs : b.host # host /\ b.host # stash /\ b.stash # host /\ b.stash # stash
      BY <1>1 DEF ILayout
    <2>2. HostPage # host /\ HostPage # stash
      BY <1>1 DEF ILayout
    <2>3. B.host = host /\ B.stash = stash
      OBVIOUS
    <2> HIDE DEF B
    <2>4. \A b \in iBufs' : b \in iBufs \/ b = B
      BY <1>1 DEF B
    <2>5. \A b \in iBufs' : /\ b.host # b.stash /\ b.host \notin iFree' /\ b.stash \notin iFree'
                            /\ b.host # HostPage /\ b.stash # HostPage
      BY <1>1, <1>2, <2>2, <2>3, <2>4 DEF ILayout
    <2>6. \A b, c \in iBufs' : b # c => b.host # c.host /\ b.host # c.stash /\ b.stash # c.stash
      BY <2>1, <2>3, <2>4 DEF ILayout
    <2>7. \A m \in iMaps : MapPlaced(m, iFree', iBufs')
      BY <1>1, <1>5, <2>3, <2>4 DEF ILayout, MapPlaced, B
    <2> QED
      BY <1>1, <2>5, <2>6, <2>7 DEF ILayout
  <1>7. IMasks' /\ IOrder' /\ IPhases'
    BY <1>1 DEF IMasks, IOrder, IPhases
  <1>8. IContents'
    <2>1. \A p \in Pages : p # host => ReadPage(iMem', iMask', p) = ReadPage(iMem, iMask, p) /\ iWant'[p] = iWant[p]
      BY <1>1, <1>3, ReadSame DEF ITypes
    <2>2. iWant'[host] = "mine"
      BY <1>1, <1>2 DEF ITypes
    <2>3. \A m \in iMaps : m.plain \in Pages /\ m.host \in Pages
      BY DEF ITypes, MapType
    <2>4. Owners' = Owners \cup {host}
      <3>1. B.host = host
        OBVIOUS
      <3> HIDE DEF B
      <3> QED
        BY <1>1, <3>1 DEF Owners, B
    <2>5. \A h \in Owners : h \in Pages
      BY IoMmuAssumption DEF Owners, ITypes, BufType
    <2>6. /\ \A m \in iMaps' : iWant'[m.host] \in {"any", ReadPage(iMem', iMask', m.plain)}
          /\ \A m \in iMaps' : IsRead(m.op) => iWant'[m.host] \in {"any", ReadPage(iMem', iMask', m.host)}
      BY <1>1, <1>5, <2>1, <2>3 DEF IContents
    <2>7. ASSUME NEW h \in Owners', \A m \in iMaps' : m.host # h
          PROVE  iWant'[h] \in {"any", ReadPage(iMem', iMask', h)}
      <3>1. CASE h = host
        BY <1>3, <2>2, <3>1
      <3>2. CASE h # host
        BY <1>1, <2>1, <2>4, <2>5, <2>7, <3>2 DEF IContents
      <3> QED
        BY <3>1, <3>2
    <2> QED
      BY <2>6, <2>7 DEF IContents
  <1> QED
    BY <1>4, <1>6, <1>7, <1>8

\* A buffer that is not mapped goes back to the free pages.
LEMMA FreeBufferPreserves ==
  ASSUME IoMmuInv, NEW b \in iBufs, IoMmuFreeBuffer(b)
  PROVE  IoMmuInv'
  <1> USE DEF IoMmuInv
  <1>1. /\ \A m \in iMaps : m.host # b.host
        /\ iBufs' = iBufs \ {b} /\ iFree' = iFree \cup {b.host, b.stash}
        /\ UNCHANGED <<iMask, iMem, iMaps, iActive, iWant, iPhase, iHandlers, iCount>>
    BY DEF IoMmuFreeBuffer
  <1>2. b.host \in Pages /\ b.stash \in Pages /\ b.host # b.stash
    BY DEF ITypes, BufType, ILayout
  <1>3. ITypes'
    BY <1>1, <1>2 DEF ITypes
  <1>4. ILayout'
    <2>1. HostPage \notin iFree'
      BY <1>1 DEF ILayout
    <2>2. \A c \in iBufs' : /\ c.host # c.stash /\ c.host \notin iFree' /\ c.stash \notin iFree'
                            /\ c.host # HostPage /\ c.stash # HostPage
      BY <1>1 DEF ILayout
    <2>3. ASSUME NEW m \in iMaps PROVE MapPlaced(m, iFree', iBufs')
      <3>1. MapPlaced(m, iFree, iBufs) /\ m.host # b.host
        BY <1>1 DEF ILayout
      <3> QED
        BY <1>1, <3>1 DEF MapPlaced
    <2> QED
      BY <1>1, <2>1, <2>2, <2>3 DEF ILayout
  <1>5. IMasks' /\ IOrder' /\ IPhases'
    BY <1>1 DEF IMasks, IOrder, IPhases
  <1>6. IContents'
    <2>1. Owners' \subseteq Owners
      BY <1>1 DEF Owners
    <2> QED
      BY <1>1, <2>1 DEF IContents
  <1> QED
    BY <1>3, <1>4, <1>5, <1>6

\* What every new mapping does to the lists: it is the newest, and its page is
\* not that of another one.
LEMMA NewMapping ==
  ASSUME IoMmuInv, NEW m \in MapType, m.id = iCount, iPhase = "boot",
         \A n \in iMaps : n.plain # m.plain /\ n.host # m.host,
         iMaps' = iMaps \cup {m}, iActive' = iActive \cup {m}, iCount' = iCount + 1,
         iMask' = [iMask EXCEPT ![m.plain] = FALSE], iMem' \in MemType,
         iFree' \subseteq iFree, iBufs' = iBufs, MapPlaced(m, iFree', iBufs),
         iWant' \in [Pages -> Vals \cup {"any"}],
         UNCHANGED <<iPhase, iHandlers>>
  PROVE  ITypes' /\ ILayout' /\ IMasks' /\ IOrder' /\ IPhases'
  <1> USE DEF IoMmuInv
  <1>1. m.plain \in Pages
    BY DEF MapType
  <1>2. ITypes'
    <2>1. iMask' \in [Pages -> BOOLEAN] /\ iCount' \in Nat /\ iFree' \subseteq Pages
      BY <1>1 DEF ITypes
    <2> QED
      BY <2>1 DEF ITypes
  <1>3. ILayout'
    <2>1. \A n \in iMaps' : MapPlaced(n, iFree', iBufs')
      BY DEF ILayout, MapPlaced
    <2>2. \A n, k \in iMaps' : n # k => n.plain # k.plain /\ n.host # k.host
      BY DEF ILayout
    <2> QED
      BY <2>1, <2>2 DEF ILayout
  <1>4. IMasks'
    BY <1>1 DEF IMasks, ITypes
  <1>5. IOrder'
    <2>1. \A n \in iMaps : n.id < iCount /\ n.id \in Nat
      BY DEF IOrder, ITypes, MapType
    <2>2. \A n \in iMaps' : n.id < iCount' /\ n.id \in Nat /\ n.id <= iCount
      BY <2>1 DEF ITypes
    <2>3. ASSUME NEW S \in SUBSET iMaps', S # {}
          PROVE  \E x \in S : \A y \in S : y.id <= x.id
      <3>1. CASE m \in S
        BY <2>2, <3>1
      <3>2. CASE m \notin S
        BY <2>3, <3>2 DEF IOrder
      <3> QED
        BY <3>1, <3>2
    <2> QED
      BY <2>2, <2>3 DEF IOrder
  <1>6. IPhases'
    BY DEF IPhases
  <1> QED
    BY <1>2, <1>3, <1>4, <1>5, <1>6

\* A transfer is mapped: a free page becomes the bounce page.
LEMMA MapTransferPreserves ==
  ASSUME IoMmuInv, NEW op \in Ops, ~IsCommon(op), iPhase = "boot",
         \A n \in iMaps : n.host # HostPage,
         NEW plain \in iFree, MapPage(op, HostPage, plain, HostPage, iMem),
         iFree' = iFree \ {plain}, iBufs' = iBufs,
         iWant' = IF IsWrite(op) THEN [iWant EXCEPT ![HostPage] = "any"] ELSE iWant,
         UNCHANGED <<iPhase, iHandlers>>
  PROVE  IoMmuInv'
  <1> USE IoMmuAssumption DEF IoMmuInv
  <1> DEFINE mask == [iMask EXCEPT ![plain] = FALSE]
             m == [op |-> op, host |-> HostPage, plain |-> plain, id |-> iCount]
  <1>1. /\ iMask' = mask
        /\ iMem' = IF IsWrite(op) THEN iMem
                   ELSE WritePage(iMem, mask, plain, ReadPage(iMem, mask, HostPage))
        /\ iMaps' = iMaps \cup {m} /\ iActive' = iActive \cup {m} /\ iCount' = iCount + 1
    BY DEF MapPage
  <1>2. /\ plain \in Pages /\ plain # HostPage /\ HostPage \in Pages /\ iMem \in MemType
        /\ iMask \in [Pages -> BOOLEAN] /\ mask \in [Pages -> BOOLEAN]
    BY DEF ITypes, ILayout
  <1>3. m \in MapType /\ m.op = op /\ m.host = HostPage /\ m.plain = plain /\ m.id = iCount
    BY <1>2 DEF MapType, ITypes
  <1>4. \A p \in Pages : p # plain => mask[p] = iMask[p]
    BY <1>2
  <1> HIDE DEF m, mask
  <1>5. ReadPage(iMem, mask, HostPage) = ReadPage(iMem, iMask, HostPage)
    BY <1>2, <1>4, ReadSame
  <1>6. /\ iMem' \in MemType /\ \A p \in Pages : p # plain => iMem'[p] = iMem[p]
        /\ ~IsWrite(op) => ReadPage(iMem', iMask', plain) = ReadPage(iMem, iMask, HostPage)
    <2>1. CASE IsWrite(op)
      BY <1>1, <1>2, <2>1
    <2>2. CASE ~IsWrite(op)
      <3> DEFINE v == ReadPage(iMem, iMask, HostPage)
      <3>1. v \in Vals
        BY <1>2, ReadType
      <3>2. iMem' = WritePage(iMem, mask, plain, v)
        BY <1>1, <1>5, <2>2
      <3> HIDE DEF v
      <3>3. /\ iMem' \in MemType /\ ReadPage(iMem', mask, plain) = v
            /\ \A p \in Pages : p # plain => iMem'[p] = iMem[p]
        BY <1>2, <3>1, <3>2, WriteRead
      <3> QED
        BY <1>1, <3>3 DEF v
    <2> QED
      BY <2>1, <2>2
  <1>7. \A p \in Pages : p # plain => ReadPage(iMem', iMask', p) = ReadPage(iMem, iMask, p)
    BY <1>1, <1>4, <1>6, ReadSame
  <1>8. iWant' \in [Pages -> Vals \cup {"any"}]
    BY <1>2 DEF ITypes
  <1>9. \A n \in iMaps : n.plain # plain /\ n.host # HostPage
    BY DEF ILayout, MapPlaced
  <1>10. MapPlaced(m, iFree', iBufs)
    BY <1>2, <1>3 DEF MapPlaced, ILayout
  <1>11. ITypes' /\ ILayout' /\ IMasks' /\ IOrder' /\ IPhases'
    <2>1. iMask' = [iMask EXCEPT ![m.plain] = FALSE]
      BY <1>1, <1>3 DEF mask
    <2> QED
      BY <1>1, <1>3, <1>6, <1>8, <1>9, <1>10, <2>1, NewMapping
  <1>12. IContents'
    <2>1. \A n \in iMaps : n.plain \in Pages /\ n.host \in Pages
      BY DEF ITypes, MapType
    <2>2. \A h \in Owners : h \in Pages /\ h # plain
      BY <1>2 DEF Owners, ITypes, BufType, ILayout
    <2>3. \A h \in Pages : h # HostPage => iWant'[h] = iWant[h]
      BY <1>2 DEF ITypes
    <2>4. ~IsWrite(op) => iWant[HostPage] \in {"any", ReadPage(iMem, iMask, HostPage)} /\ iWant' = iWant
      BY DEF IContents, Owners
    <2>5. IsWrite(op) => iWant'[HostPage] = "any" /\ ~IsRead(op)
      BY <1>2 DEF ITypes, IsWrite, IsRead
    <2>6. iWant'[HostPage] \in {"any", ReadPage(iMem', iMask', plain)}
      BY <1>6, <2>4, <2>5
    <2>7. IsRead(op) => iWant'[HostPage] \in {"any", ReadPage(iMem', iMask', HostPage)}
      BY <1>2, <1>7, <2>4, <2>5
    <2>8. \A n \in iMaps : /\ iWant'[n.host] \in {"any", ReadPage(iMem', iMask', n.plain)}
                           /\ IsRead(n.op) => iWant'[n.host] \in {"any", ReadPage(iMem', iMask', n.host)}
      <3> SUFFICES ASSUME NEW n \in iMaps
                   PROVE  /\ iWant'[n.host] \in {"any", ReadPage(iMem', iMask', n.plain)}
                          /\ IsRead(n.op) => iWant'[n.host] \in {"any", ReadPage(iMem', iMask', n.host)}
        OBVIOUS
      <3>1. n.plain \in Pages /\ n.host \in Pages /\ n.plain # plain /\ n.host # HostPage
        BY <1>9, <2>1
      <3>2. n.host # plain
        BY DEF ILayout, MapPlaced
      <3> QED
        BY <1>7, <2>3, <3>1, <3>2 DEF IContents
    <2>9. Owners' = Owners
      BY DEF Owners
    <2>10. ASSUME NEW h \in Owners, \A n \in iMaps' : n.host # h
           PROVE  iWant'[h] \in {"any", ReadPage(iMem', iMask', h)}
      <3>1. h # HostPage /\ \A n \in iMaps : n.host # h
        BY <1>1, <1>3, <2>10
      <3> QED
        BY <1>7, <2>2, <2>3, <3>1 DEF IContents
    <2> QED
      BY <1>1, <1>3, <2>6, <2>7, <2>8, <2>9, <2>10 DEF IContents
  <1> QED
    BY <1>11, <1>12

\* A common buffer is mapped: its contents go through the stash while the page
\* itself is decrypted.
LEMMA MapCommonPreserves ==
  ASSUME IoMmuInv, NEW op \in Ops, IsCommon(op), iPhase = "boot",
         NEW b \in iBufs, \A n \in iMaps : n.host # b.host,
         MapPage(op, b.host, b.host, b.stash,
                 WritePage(iMem, iMask, b.stash, ReadPage(iMem, iMask, b.host))),
         iFree' = iFree, iBufs' = iBufs, iWant' = iWant,
         UNCHANGED <<iPhase, iHandlers>>
  PROVE  IoMmuInv'
  <1> USE DEF IoMmuInv
  <1> DEFINE host == b.host
             stash == b.stash
             v == ReadPage(iMem, iMask, host)
             mem == WritePage(iMem, iMask, stash, v)
             mask == [iMask EXCEPT ![host] = FALSE]
             m == [op |-> op, host |-> host, plain |-> host, id |-> iCount]
  <1>1. /\ iMask' = mask /\ iMem' = WritePage(mem, mask, host, ReadPage(mem, mask, stash))
        /\ iMaps' = iMaps \cup {m} /\ iActive' = iActive \cup {m} /\ iCount' = iCount + 1
    BY DEF MapPage, IsCommon, IsWrite
  <1>2. /\ host \in Pages /\ stash \in Pages /\ host # stash /\ iMem \in MemType
        /\ iMask \in [Pages -> BOOLEAN] /\ mask \in [Pages -> BOOLEAN]
    BY DEF ITypes, BufType, ILayout
  <1>3. m \in MapType /\ m.op = op /\ m.host = host /\ m.plain = host /\ m.id = iCount
    BY <1>2 DEF MapType, ITypes
  <1>4. \A p \in Pages : p # host => mask[p] = iMask[p]
    BY <1>2
  <1> HIDE DEF m, mask, v, mem
  <1>5. v \in Vals
    BY <1>2, ReadType DEF v
  <1>6. mem \in MemType /\ ReadPage(mem, iMask, stash) = v /\ \A p \in Pages : p # stash => mem[p] = iMem[p]
    BY <1>2, <1>5, WriteRead DEF mem
  <1>7. ReadPage(mem, mask, stash) = v
    BY <1>2, <1>4, <1>6, ReadSame
  <1>8. /\ iMem' \in MemType /\ ReadPage(iMem', iMask', host) = v
        /\ \A p \in Pages : p # host => iMem'[p] = mem[p]
    BY <1>1, <1>2, <1>5, <1>6, <1>7, WriteRead
  <1>9. \A p \in Pages : p # host /\ p # stash => ReadPage(iMem', iMask', p) = ReadPage(iMem, iMask, p)
    BY <1>1, <1>4, <1>6, <1>8, ReadSame
  <1>10. \A n \in iMaps : n.plain # host /\ n.plain # stash /\ n.host # host /\ n.host # stash
    <2> SUFFICES ASSUME NEW n \in iMaps
                 PROVE  n.plain # host /\ n.plain # stash /\ n.host # host /\ n.host # stash
      OBVIOUS
    <2>1. MapPlaced(n, iFree, iBufs) /\ n.host # host
      BY DEF ILayout
    <2>2. CASE IsCommon(n.op)
      BY <2>1, <2>2 DEF MapPlaced, ILayout
    <2>3. CASE ~IsCommon(n.op)
      BY <2>1, <2>3 DEF MapPlaced, ILayout
    <2> QED
      BY <2>2, <2>3
  <1>11. MapPlaced(m, iFree', iBufs)
    BY <1>3 DEF MapPlaced
  <1>12. ITypes' /\ ILayout' /\ IMasks' /\ IOrder' /\ IPhases'
    <2>1. iMask' = [iMask EXCEPT ![m.plain] = FALSE]
      BY <1>1, <1>3 DEF mask
    <2>2. iWant' \in [Pages -> Vals \cup {"any"}] /\ iFree' \subseteq iFree
      BY DEF ITypes
    <2>3. \A n \in iMaps : n.plain # m.plain /\ n.host # m.host
      BY <1>3, <1>10
    <2> QED
      BY <1>1, <1>3, <1>8, <1>11, <2>1, <2>2, <2>3, NewMapping
  <1>13. IContents'
    <2>1. \A n \in iMaps : n.plain \in Pages /\ n.host \in Pages
      BY DEF ITypes, MapType
    <2>2. host \in Owners /\ iWant[host] \in {"any", v}
      BY DEF IContents, Owners, v
    <2>3. iWant'[m.host] \in {"any", ReadPage(iMem', iMask', m.plain)} /\ ~IsRead(m.op)
      BY <1>3, <1>8, <2>2 DEF IsCommon, IsRead
    <2>4. \A n \in iMaps : /\ iWant'[n.host] \in {"any", ReadPage(iMem', iMask', n.plain)}
                           /\ IsRead(n.op) => iWant'[n.host] \in {"any", ReadPage(iMem', iMask', n.host)}
      BY <1>9, <1>10, <2>1 DEF IContents
    <2>5. Owners' = Owners
      BY DEF Owners
    <2>6. \A h \in Owners : h \in Pages /\ h # stash
      BY IoMmuAssumption DEF Owners, ITypes, BufType, ILayout
    <2>7. ASSUME NEW h \in Owners, \A n \in iMaps' : n.host # h
          PROVE  iWant'[h] \in {"any", ReadPage(iMem', iMask', h)}
      <3>1. h # host /\ \A n \in iMaps : n.host # h
        BY <1>1, <1>3, <2>7
      <3> QED
        BY <1>9, <2>6, <3>1 DEF IContents
    <2> QED
      BY <1>1, <2>3, <2>4, <2>5, <2>7 DEF IContents
  <1> QED
    BY <1>12, <1>13

\* Undoing the mapping of a common buffer: its contents survive the encryption
\* of the page, and only the page and its stash are written.
LEMMA UnmapCommonEffect ==
  ASSUME IoMmuInv, NEW m \in iMaps, IsCommon(m.op), NEW locked \in BOOLEAN,
         iMem' = Unmapped(<<iMem, iMask, iFree>>, m, locked)[1],
         iMask' = Unmapped(<<iMem, iMask, iFree>>, m, locked)[2],
         iFree' = Unmapped(<<iMem, iMask, iFree>>, m, locked)[3]
  PROVE  /\ iMask' = [iMask EXCEPT ![m.plain] = TRUE] /\ iMem' \in MemType /\ iFree' = iFree
         /\ ReadPage(iMem', iMask', m.host) = ReadPage(iMem, iMask, m.plain)
         /\ \E b \in iBufs : /\ b.host = m.host
                             /\ \A p \in Pages : p # b.host /\ p # b.stash =>
                                  ReadPage(iMem', iMask', p) = ReadPage(iMem, iMask, p)
  <1> USE DEF IoMmuInv
  <1> DEFINE b == CHOOSE c \in iBufs : c.host = m.host
             stash == b.stash
             host == m.host
             v == ReadPage(iMem, iMask, m.plain)
             taken == WritePage(iMem, iMask, stash, v)
             mask == [iMask EXCEPT ![m.plain] = TRUE]
  <1>1. m.plain = m.host /\ \E c \in iBufs : c.host = m.host
    BY DEF ILayout, MapPlaced
  <1>2. b \in iBufs /\ b.host = host
    BY <1>1
  <1> HIDE DEF b
  <1>3. ~IsRead(m.op)
    BY DEF IsRead, IsCommon
  <1>4. /\ iMask' = mask /\ iFree' = iFree
        /\ iMem' = WritePage(taken, mask, host, ReadPage(taken, mask, stash))
    BY <1>3 DEF Unmapped, b
  <1>5. /\ host \in Pages /\ stash \in Pages /\ host # stash /\ iMem \in MemType
        /\ iMask \in [Pages -> BOOLEAN] /\ mask \in [Pages -> BOOLEAN]
    BY <1>2 DEF ITypes, BufType, MapType, ILayout
  <1>6. \A p \in Pages : p # host => mask[p] = iMask[p]
    BY <1>1, <1>5
  <1> HIDE DEF v, mask, taken
  <1>7. v \in Vals
    BY <1>1, <1>5, ReadType DEF v
  <1>8. taken \in MemType /\ ReadPage(taken, iMask, stash) = v /\ \A p \in Pages : p # stash => taken[p] = iMem[p]
    BY <1>5, <1>7, WriteRead DEF taken
  <1>9. ReadPage(taken, mask, stash) = v
    BY <1>5, <1>6, <1>8, ReadSame
  <1>10. /\ iMem' \in MemType /\ ReadPage(iMem', iMask', host) = v
         /\ \A p \in Pages : p # host => iMem'[p] = taken[p]
    <2>1. iMem' = WritePage(taken, mask, host, v)
      BY <1>4, <1>9
    <2>2. /\ WritePage(taken, mask, host, v) \in MemType
          /\ ReadPage(WritePage(taken, mask, host, v), mask, host) = v
          /\ \A p \in Pages : p # host => WritePage(taken, mask, host, v)[p] = taken[p]
      BY <1>5, <1>7, <1>8, WriteRead
    <2> QED
      BY <1>4, <2>1, <2>2
  <1>11. \A p \in Pages : p # host /\ p # stash => ReadPage(iMem', iMask', p) = ReadPage(iMem, iMask, p)
    BY <1>4, <1>6, <1>8, <1>10, ReadSame
  <1> QED
    BY <1>2, <1>4, <1>10, <1>11 DEF v, mask

\* Undoing a transfer: what the device wrote is copied to the driver's page
\* before the bounce page is encrypted and cleared.
LEMMA UnmapTransferEffect ==
  ASSUME IoMmuInv, NEW m \in iMaps, ~IsCommon(m.op), NEW locked \in BOOLEAN,
         iMem' = Unmapped(<<iMem, iMask, iFree>>, m, locked)[1],
         iMask' = Unmapped(<<iMem, iMask, iFree>>, m, locked)[2],
         iFree' = Unmapped(<<iMem, iMask, iFree>>, m, locked)[3]
  PROVE  /\ iMask' = [iMask EXCEPT ![m.plain] = TRUE] /\ iMem' \in MemType
         /\ iFree' \in {iFree, iFree \cup {m.plain}}
         /\ ReadPage(iMem', iMask', HostPage) =
              ReadPage(iMem, iMask, IF IsRead(m.op) THEN HostPage ELSE m.plain)
         /\ \A p \in Pages : p # m.plain /\ p # HostPage =>
              ReadPage(iMem', iMask', p) = ReadPage(iMem, iMask, p)
  <1> USE IoMmuAssumption DEF IoMmuInv
  <1> DEFINE plain == m.plain
             v == ReadPage(iMem, iMask, plain)
             taken == IF IsRead(m.op) THEN iMem ELSE WritePage(iMem, iMask, HostPage, v)
             mask == [iMask EXCEPT ![plain] = TRUE]
  <1>1. m.host = HostPage /\ plain # HostPage /\ plain \in Pages /\ HostPage \in Pages
    BY DEF ILayout, MapPlaced, ITypes, MapType
  <1>2. /\ iMask' = mask /\ iMem' = WritePage(taken, mask, plain, "zero")
        /\ iFree' = IF locked THEN iFree ELSE iFree \cup {plain}
    BY <1>1 DEF Unmapped
  <1>3. iMem \in MemType /\ iMask \in [Pages -> BOOLEAN] /\ mask \in [Pages -> BOOLEAN] /\ "zero" \in Vals
    BY <1>1 DEF ITypes, Vals
  <1>4. \A p \in Pages : p # plain => mask[p] = iMask[p]
    BY <1>1, <1>3
  <1> HIDE DEF mask
  <1>5. /\ taken \in MemType
        /\ \A p \in Pages : p # HostPage => taken[p] = iMem[p]
        /\ ReadPage(taken, iMask, HostPage) =
             ReadPage(iMem, iMask, IF IsRead(m.op) THEN HostPage ELSE plain)
    <2>1. CASE IsRead(m.op)
      BY <1>3, <2>1
    <2>2. CASE ~IsRead(m.op)
      <3>1. v \in Vals
        BY <1>1, <1>3, ReadType
      <3>2. taken = WritePage(iMem, iMask, HostPage, v)
        BY <2>2
      <3> HIDE DEF v, taken
      <3>3. /\ taken \in MemType /\ ReadPage(taken, iMask, HostPage) = v
            /\ \A p \in Pages : p # HostPage => taken[p] = iMem[p]
        <4>1. /\ WritePage(iMem, iMask, HostPage, v) \in MemType
              /\ ReadPage(WritePage(iMem, iMask, HostPage, v), iMask, HostPage) = v
              /\ \A p \in Pages : p # HostPage => WritePage(iMem, iMask, HostPage, v)[p] = iMem[p]
          BY <1>1, <1>3, <3>1, WriteRead
        <4> QED
          BY <3>2, <4>1
      <3> QED
        BY <2>2, <3>3 DEF v
    <2> QED
      BY <2>1, <2>2
  <1> HIDE DEF taken, v
  <1>6. iMem' \in MemType /\ \A p \in Pages : p # plain => iMem'[p] = taken[p]
    <2>1. /\ WritePage(taken, mask, plain, "zero") \in MemType
          /\ \A p \in Pages : p # plain => WritePage(taken, mask, plain, "zero")[p] = taken[p]
      BY <1>1, <1>3, <1>5, WriteRead
    <2> QED
      BY <1>2, <2>1
  <1>7. \A p \in Pages : p # plain => ReadPage(iMem', iMask', p) = ReadPage(taken, iMask, p)
    BY <1>2, <1>4, <1>6, ReadSame
  <1>8. \A p \in Pages : p # HostPage => ReadPage(taken, iMask, p) = ReadPage(iMem, iMask, p)
    BY <1>5, ReadSame
  <1> QED
    BY <1>1, <1>2, <1>5, <1>6, <1>7, <1>8 DEF mask

\* A mapping that is undone, by its driver or at ExitBootServices.
LEMMA UnmapPreserves ==
  ASSUME IoMmuInv, NEW m \in iMaps, NEW locked \in BOOLEAN,
         iMem' = Unmapped(<<iMem, iMask, iFree>>, m, locked)[1],
         iMask' = Unmapped(<<iMem, iMask, iFree>>, m, locked)[2],
         iFree' = Unmapped(<<iMem, iMask, iFree>>, m, locked)[3],
         iMaps' = iMaps \ {m}, iActive' = iActive \ {m},
         UNCHANGED <<iBufs, iWant, iPhase, iHandlers, iCount>>
  PROVE  IoMmuInv'
  <1> USE IoMmuAssumption DEF IoMmuInv
  <1>1. m.plain \in Pages /\ m.host \in Pages /\ HostPage \in Pages /\ MapPlaced(m, iFree, iBufs)
    BY DEF ITypes, MapType, ILayout
  <1>2. /\ iMask' = [iMask EXCEPT ![m.plain] = TRUE] /\ iMem' \in MemType
        /\ iFree' = iFree \/ (iFree' = iFree \cup {m.plain} /\ ~IsCommon(m.op))
    BY UnmapCommonEffect, UnmapTransferEffect
  <1>3. ITypes'
    <2>1. iMask' \in [Pages -> BOOLEAN] /\ iFree' \subseteq Pages
      BY <1>1, <1>2 DEF ITypes
    <2> QED
      BY <1>2, <2>1 DEF ITypes
  <1>4. ILayout'
    <2>1. HostPage \notin iFree'
      BY <1>1, <1>2 DEF ILayout, MapPlaced
    <2>2. \A b \in iBufs : b.host \notin iFree' /\ b.stash \notin iFree'
      BY <1>1, <1>2 DEF ILayout, MapPlaced
    <2>3. ASSUME NEW n \in iMaps, n # m PROVE MapPlaced(n, iFree', iBufs)
      <3>1. n.plain # m.plain /\ MapPlaced(n, iFree, iBufs)
        BY <2>3 DEF ILayout
      <3> QED
        BY <1>2, <3>1 DEF MapPlaced
    <2> QED
      BY <2>1, <2>2, <2>3 DEF ILayout
  <1>5. IMasks'
    <2>1. \A n \in iMaps' : n \in iMaps /\ n.plain # m.plain
      BY DEF ILayout
    <2>2. iMask'[m.plain] /\ \A p \in Pages : p # m.plain => iMask'[p] = iMask[p]
      BY <1>1, <1>2 DEF ITypes
    <2>3. ASSUME NEW p \in Pages, p # m.plain
          PROVE  (\E n \in iMaps' : n.plain = p) <=> (\E n \in iMaps : n.plain = p)
      BY <2>1, <2>3
    <2> QED
      BY <2>1, <2>2, <2>3 DEF IMasks
  <1>6. IOrder'
    BY DEF IOrder
  <1>7. IPhases'
    BY DEF IPhases
  <1>8. IContents'
    <2>1. PICK stash \in Pages :
            /\ \A p \in Pages : p \notin {m.host, m.plain, stash} =>
                  ReadPage(iMem', iMask', p) = ReadPage(iMem, iMask, p)
            /\ \A h \in Owners : h # stash \/ h = m.host
            /\ \A n \in iMaps : n # m => n.plain # stash
      <3>1. CASE IsCommon(m.op)
        <4>1. PICK b \in iBufs : /\ b.host = m.host
                                 /\ \A p \in Pages : p # b.host /\ p # b.stash =>
                                      ReadPage(iMem', iMask', p) = ReadPage(iMem, iMask, p)
          BY <3>1, UnmapCommonEffect
        <4>2. b.stash \in Pages
          BY DEF ITypes, BufType
        <4>3. \A h \in Owners : h # b.stash
          BY DEF Owners, ILayout
        <4>4. ASSUME NEW n \in iMaps, n # m PROVE n.plain # b.stash
          <5>1. MapPlaced(n, iFree, iBufs)
            BY DEF ILayout
          <5>2. CASE IsCommon(n.op)
            BY <5>1, <5>2 DEF MapPlaced, ILayout
          <5>3. CASE ~IsCommon(n.op)
            BY <5>1, <5>3 DEF MapPlaced
          <5> QED
            BY <5>2, <5>3
        <4>5. \A p \in Pages : p \notin {m.host, m.plain, b.stash} =>
                  ReadPage(iMem', iMask', p) = ReadPage(iMem, iMask, p)
          BY <4>1
        <4> QED
          BY <4>2, <4>3, <4>4, <4>5
      <3>2. CASE ~IsCommon(m.op)
        <4>1. m.host = HostPage
          BY <1>1, <3>2 DEF MapPlaced
        <4>2. \A p \in Pages : p \notin {m.host, m.plain, HostPage} =>
                  ReadPage(iMem', iMask', p) = ReadPage(iMem, iMask, p)
          BY <3>2, UnmapTransferEffect
        <4>3. \A n \in iMaps : n # m => n.plain # HostPage
          BY DEF ILayout, MapPlaced
        <4> QED
          BY <1>1, <4>1, <4>2, <4>3
      <3> QED
        BY <3>1, <3>2
    <2>2. iWant[m.host] \in {"any", ReadPage(iMem', iMask', m.host)}
      <3>1. CASE IsCommon(m.op)
        BY <3>1, UnmapCommonEffect DEF IContents
      <3>2. CASE ~IsCommon(m.op)
        <4>1. m.host = HostPage
          BY <1>1, <3>2 DEF MapPlaced
        <4> QED
          BY <3>2, <4>1, UnmapTransferEffect DEF IContents
      <3> QED
        BY <3>1, <3>2
    <2>3. \A n \in iMaps' : /\ n \in iMaps /\ n # m /\ n.plain \in Pages /\ n.host \in Pages
                            /\ n.plain # m.plain /\ n.host # m.host
      BY DEF ILayout, ITypes, MapType
    <2>4. \A n \in iMaps' : n.plain # m.host /\ n.host # m.plain /\ n.host \in Owners
      <3> SUFFICES ASSUME NEW n \in iMaps'
                   PROVE  n.plain # m.host /\ n.host # m.plain /\ n.host \in Owners
        OBVIOUS
      <3>1. MapPlaced(n, iFree, iBufs) /\ n.host # m.host /\ n.plain # m.plain
        BY <2>3 DEF ILayout
      <3>2. \A b \in iBufs : b.host # HostPage
        BY DEF ILayout
      <3>3. CASE IsCommon(n.op) /\ IsCommon(m.op)
        BY <1>1, <3>1, <3>3 DEF MapPlaced, Owners
      <3>4. CASE IsCommon(n.op) /\ ~IsCommon(m.op)
        BY <1>1, <3>1, <3>2, <3>4 DEF MapPlaced, Owners
      <3>5. CASE ~IsCommon(n.op)
        BY <1>1, <3>1, <3>2, <3>5 DEF MapPlaced, Owners
      <3> QED
        BY <3>3, <3>4, <3>5
    <2>5. Owners' = Owners /\ \A h \in Owners : h \in Pages
      BY DEF Owners, ITypes, BufType
    <2>6. \A n \in iMaps' : ReadPage(iMem', iMask', n.plain) = ReadPage(iMem, iMask, n.plain)
      BY <2>1, <2>3, <2>4
    <2>7. \A n \in iMaps' : ReadPage(iMem', iMask', n.host) = ReadPage(iMem, iMask, n.host)
      BY <2>1, <2>3, <2>4
    <2>8. \A n \in iMaps' : /\ iWant'[n.host] \in {"any", ReadPage(iMem', iMask', n.plain)}
                            /\ IsRead(n.op) => iWant'[n.host] \in {"any", ReadPage(iMem', iMask', n.host)}
      BY <2>3, <2>6, <2>7 DEF IContents
    <2>9. ASSUME NEW h \in Owners, \A n \in iMaps' : n.host # h
          PROVE  iWant'[h] \in {"any", ReadPage(iMem', iMask', h)}
      <3>1. CASE h = m.host
        BY <2>2, <3>1
      <3>2. CASE h # m.host
        <4>1. \A n \in iMaps : n.host # h
          BY <2>9, <3>2
        <4>2. h # m.plain
          BY <1>1, <3>2 DEF MapPlaced, Owners
        <4>3. ReadPage(iMem', iMask', h) = ReadPage(iMem, iMask, h)
          BY <2>1, <2>5, <3>2, <4>2
        <4> QED
          BY <4>1, <4>3 DEF IContents
      <3> QED
        BY <3>1, <3>2
    <2> QED
      BY <2>5, <2>8, <2>9 DEF IContents
  <1> QED
    BY <1>3, <1>4, <1>5, <1>6, <1>7, <1>8

\* A running device writes only the page of its own mapping.
LEMMA DeviceWritesPreserves ==
  ASSUME IoMmuInv, NEW m \in iMaps, DeviceWrites(m)
  PROVE  IoMmuInv'
  <1> USE IoMmuAssumption DEF IoMmuInv
  <1>1. /\ m \in iActive /\ ~IsRead(m.op) /\ iMem' = WritePage(iMem, iMask, m.plain, "device")
        /\ iWant' = [iWant EXCEPT ![m.host] = "device"]
        /\ UNCHANGED <<iMask, iFree, iBufs, iMaps, iActive, iPhase, iHandlers, iCount>>
    BY DEF DeviceWrites
  <1>2. m.plain \in Pages /\ m.host \in Pages /\ "device" \in Vals
    BY DEF ITypes, MapType, Vals
  <1>3. /\ iMem' \in MemType /\ ReadPage(iMem', iMask', m.plain) = "device"
        /\ \A p \in Pages : p # m.plain => iMem'[p] = iMem[p]
    BY <1>1, <1>2, WriteRead DEF ITypes
  <1>4. ITypes'
    BY <1>1, <1>2, <1>3 DEF ITypes
  <1>5. ILayout' /\ IMasks' /\ IOrder' /\ IPhases'
    BY <1>1 DEF ILayout, IMasks, IOrder, IPhases
  <1>6. IContents'
    <2>1. \A p \in Pages : p # m.plain => ReadPage(iMem', iMask', p) = ReadPage(iMem, iMask, p)
      BY <1>1, <1>3, ReadSame
    <2>2. iWant'[m.host] = "device" /\ \A p \in Pages : p # m.host => iWant'[p] = iWant[p]
      BY <1>1, <1>2 DEF ITypes
    <2>3. \A n \in iMaps : /\ n.plain \in Pages /\ n.host \in Pages
                           /\ n # m => n.plain # m.plain /\ n.host # m.host
      BY DEF ILayout, ITypes, MapType
    <2>4. \A n \in iMaps : n # m /\ IsRead(n.op) => n.host # m.plain
      BY DEF ILayout, MapPlaced, IsRead, IsCommon
    <2>5. Owners' = Owners /\ \A h \in Owners : h \in Pages /\ (h = m.plain => h = m.host)
      BY <1>1 DEF Owners, ITypes, BufType, ILayout, MapPlaced
    <2>6. \A n \in iMaps : iWant'[n.host] \in {"any", ReadPage(iMem', iMask', n.plain)}
      BY <1>3, <2>1, <2>2, <2>3 DEF IContents
    <2>7. \A n \in iMaps : IsRead(n.op) => iWant'[n.host] \in {"any", ReadPage(iMem', iMask', n.host)}
      BY <1>1, <2>1, <2>2, <2>3, <2>4 DEF IContents
    <2>8. \A h \in Owners : (\A n \in iMaps : n.host # h) => iWant'[h] \in {"any", ReadPage(iMem', iMask', h)}
      BY <2>1, <2>2, <2>5 DEF IContents
    <2> QED
      BY <1>1, <2>5, <2>6, <2>7, <2>8 DEF IContents
  <1> QED
    BY <1>4, <1>5, <1>6

\* ExitBootServices and its handlers touch no page until all devices have
\* stopped; then the mappings are undone one after the other.
LEMMA ExitBootPreserves ==
  ASSUME IoMmuInv,
         ExitBootServices \/ DriverExitBoot \/ AmdSevExitBoot \/ UnmapAllDone
  PROVE  IoMmuInv'
  <1> USE DEF IoMmuInv
  <1>1. UNCHANGED <<iMask, iMem, iFree, iBufs, iMaps, iWant, iCount>> /\ iActive' \in {{}, iActive}
    BY DEF ExitBootServices, DriverExitBoot, AmdSevExitBoot, UnmapAllDone
  <1>2. iHandlers' \subseteq {"driver", "iommu", "unmap"} /\ iPhase' \in {"boot", "exit", "os"}
    BY DEF ITypes, ExitBootServices, DriverExitBoot, AmdSevExitBoot, UnmapAllDone
  <1>3. IPhases'
    BY DEF IPhases, ExitBootServices, DriverExitBoot, AmdSevExitBoot, UnmapAllDone
  <1>4. ITypes'
    BY <1>1, <1>2 DEF ITypes
  <1> QED
    BY <1>1, <1>3, <1>4 DEF ILayout, IMasks, IOrder, IContents, Owners

-----------------------------------------------------------------------------
(* The theorems.                                                           *)

\* IoMmuInv holds throughout.
THEOREM IoMmuInvariant == IoMmuSpec => []IoMmuInv
  <1>1. IoMmuInit => IoMmuInv
    BY IoMmuInitEstablishes
  <1>2. IoMmuInv /\ [IoMmuNext]_iVars => IoMmuInv'
    <2> SUFFICES ASSUME IoMmuInv, [IoMmuNext]_iVars PROVE IoMmuInv'
      OBVIOUS
    <2>1. CASE IoMmuAllocateBuffer
      BY <2>1, AllocateBufferPreserves
    <2>2. ASSUME NEW b \in iBufs, IoMmuFreeBuffer(b) PROVE IoMmuInv'
      BY <2>2, FreeBufferPreserves
    <2>3. ASSUME NEW op \in Ops, IoMmuMap(op) PROVE IoMmuInv'
      <3>1. iPhase = "boot" /\ UNCHANGED <<iPhase, iHandlers>>
            /\ iWant' = IF IsWrite(op) THEN [iWant EXCEPT ![HostPage] = "any"] ELSE iWant
        BY <2>3 DEF IoMmuMap
      <3>2. CASE ~IsCommon(op)
        <4>1. PICK plain \in iFree :
                /\ MapPage(op, HostPage, plain, HostPage, iMem)
                /\ iFree' = iFree \ {plain} /\ iBufs' = iBufs
                /\ \A n \in iMaps : n.host # HostPage
          BY <2>3, <3>2 DEF IoMmuMap
        <4> QED
          BY <3>1, <3>2, <4>1, MapTransferPreserves
      <3>3. CASE IsCommon(op)
        <4>1. PICK b \in iBufs :
                /\ \A n \in iMaps : n.host # b.host
                /\ MapPage(op, b.host, b.host, b.stash,
                           WritePage(iMem, iMask, b.stash, ReadPage(iMem, iMask, b.host)))
                /\ iFree' = iFree /\ iBufs' = iBufs
          BY <2>3, <3>3 DEF IoMmuMap
        <4>2. ~IsWrite(op)
          BY <3>3 DEF IsCommon, IsWrite
        <4> QED
          BY <3>1, <3>3, <4>1, <4>2, MapCommonPreserves
      <3> QED
        BY <3>2, <3>3
    <2>4. ASSUME NEW m \in iMaps, IoMmuUnmap(m) PROVE IoMmuInv'
      BY <2>4, UnmapPreserves DEF IoMmuUnmap
    <2>5. ASSUME NEW m \in iMaps, DeviceWrites(m) PROVE IoMmuInv'
      BY <2>5, DeviceWritesPreserves
    <2>6. CASE ExitBootServices \/ DriverExitBoot \/ AmdSevExitBoot \/ UnmapAllDone
      BY <2>6, ExitBootPreserves
    <2>7. CASE AmdSevUnmapAllMappings
      <3> DEFINE m == CHOOSE x \in iMaps : \A y \in iMaps : y.id <= x.id
      <3>1. m \in iMaps
        <4>1. \E x \in iMaps : \A y \in iMaps : y.id <= x.id
          BY <2>7 DEF IoMmuInv, IOrder, AmdSevUnmapAllMappings
        <4> QED
          BY <4>1
      <3>2. /\ iMem' = Unmapped(<<iMem, iMask, iFree>>, m, TRUE)[1]
            /\ iMask' = Unmapped(<<iMem, iMask, iFree>>, m, TRUE)[2]
            /\ iFree' = Unmapped(<<iMem, iMask, iFree>>, m, TRUE)[3]
            /\ iMaps' = iMaps \ {m}
            /\ UNCHANGED <<iBufs, iActive, iWant, iPhase, iHandlers, iCount>>
        BY <2>7 DEF AmdSevUnmapAllMappings
      <3>3. iActive = {}
        BY <2>7 DEF AmdSevUnmapAllMappings, IoMmuInv, IPhases
      <3> HIDE DEF m
      <3>4. iActive' = iActive \ {m}
        BY <3>2, <3>3
      <3> QED
        BY <3>1, <3>2, <3>4, UnmapPreserves
    <2>8. CASE UNCHANGED iVars
      BY <2>8 DEF IoMmuInv, ITypes, ILayout, IMasks, IOrder, IPhases, IContents, Owners, iVars
    <2> QED
      BY <2>1, <2>2, <2>3, <2>4, <2>5, <2>6, <2>7, <2>8 DEF IoMmuNext
  <1> QED
    BY <1>1, <1>2, PTL DEF IoMmuSpec

\* A page is shared only while a mapping uses it, no device runs on a page taken
\* back from it, and a driver finds in its memory, once unmapped, what it or its
\* device last put there: for any number of pages and mappings.
THEOREM IoMmuSharesOnlyMapped == IoMmuSpec => []SharedOnlyWhileMapped
  BY IoMmuInvariant, InvImpliesShared, PTL

-----------------------------------------------------------------------------
(* SmmAccess.  Beyond the property, its inductive invariant says that the  *)
(* copy of the interface in use agrees with the registers, that the DXE    *)
(* interface comes after the PEI one, and that nothing was asked before.   *)

STypes ==
  /\ sCopy \in [{"pei", "dxe"} -> [lock : BOOLEAN, open : BOOLEAN, live : BOOLEAN]]
  /\ sCopy["dxe"].live => sCopy["pei"].live
  /\ sCtl \subseteq {"pei", "dxe"}

NotAskedBefore == ~sCopy["pei"].live => sRet.op \in {"", "trigger"} /\ "lock" \notin sDone

CopyInStep ==
  \A i \in {"pei", "dxe"} : (sCopy[i].live /\ (i = "pei" => ~sCopy["dxe"].live)) => sCopy[i] = GetStates(sReg)

TsegInStep ==
  sCopy["pei"].live => /\ sTseg.base = sTseg.top - sTseg.tseg
                       /\ (IF sTseg.bits = 0 THEN sTseg.tseg ELSE sTseg.bits) = sTseg.tseg

\* A control driver runs only where the lock of SMIs works.
LockTested == sCtl # {} => "SMI_LOCK" \in sHw

\* The parts of the property.
LockedIsClosed == "D_LCK" \in sReg => "T_EN" \in sReg
LockStays ==
  "lock" \in sDone => {"D_LCK", "T_EN"} \subseteq sReg /\ (SmramAtDefault => "SMBASE_LCK" \in sReg)
OpenTold == (sRet.op = "open" /\ sRet.st # "INVALID_PARAMETER") => (sRet.st = "SUCCESS" <=> "T_EN" \notin sReg)
CloseTold == (sRet.op = "close" /\ sRet.st # "INVALID_PARAMETER") => (sRet.st = "SUCCESS" <=> "T_EN" \in sReg)
MapTold ==
  (sRet.op = "map" /\ sRet.st = "SUCCESS") =>
    sMap = [start |-> sTseg.top - sTseg.tseg, size |-> sTseg.tseg,
            lock |-> "D_LCK" \in sReg, open |-> "T_EN" \notin sReg]
SmisOn == sCtl # {} => {"APMC_EN", "GBL_SMI_EN", "SMI_LOCK"} \subseteq sReg
SmiRaised == (sRet.op = "trigger" /\ sRet.st = "SUCCESS") => sSmi = sRet.arg
NoPlugAsked == sSev => sAsked \cap {"HOTPLUG", "HOT_UNPLUG"} = {}

Told == OpenTold /\ CloseTold /\ MapTold

SmmInv == /\ STypes /\ NotAskedBefore /\ CopyInStep /\ TsegInStep /\ LockTested
          /\ LockedIsClosed /\ LockStays /\ Told /\ SmisOn /\ SmiRaised /\ NoPlugAsked

\* The invariant says what the property says.
LEMMA SmmInvImplies == SmmInv => SmramLockIsFinal
  BY DEF SmmInv, SmramLockIsFinal, LockedIsClosed, LockStays, Told, OpenTold, CloseTold, MapTold, SmisOn, SmiRaised,
         NoPlugAsked

\* No register is locked at reset.
LEMMA SmmInitEstablishes == SInit => SmmInv
  <1> SUFFICES ASSUME SInit PROVE SmmInv
    OBVIOUS
  <1>1. /\ sCopy = [i \in {"pei", "dxe"} |-> NoCopy] /\ sCtl = {} /\ sAsked = {"none"}
        /\ sRet.op = "" /\ sDone = {} /\ "D_LCK" \notin sReg
    BY DEF SInit
  <1>2. STypes /\ \A i \in {"pei", "dxe"} : ~sCopy[i].live
    BY <1>1 DEF STypes, NoCopy
  <1>3. NotAskedBefore /\ CopyInStep /\ TsegInStep /\ LockTested
    BY <1>1, <1>2 DEF NotAskedBefore, CopyInStep, TsegInStep, LockTested
  <1>4. LockedIsClosed /\ LockStays /\ Told /\ SmisOn /\ SmiRaised
    BY <1>1 DEF LockedIsClosed, LockStays, Told, OpenTold, CloseTold, MapTold, SmisOn, SmiRaised
  <1>5. NoPlugAsked
    BY <1>1 DEF NoPlugAsked
  <1> QED
    BY <1>2, <1>3, <1>4, <1>5 DEF SmmInv

\* What the answers to the access calls depend on.
LEMMA ToldStays ==
  ASSUME Told, UNCHANGED <<sRet, sMap, sTseg>>,
         ("T_EN" \in sReg') <=> ("T_EN" \in sReg), ("D_LCK" \in sReg') <=> ("D_LCK" \in sReg)
  PROVE  Told'
  <1>1. ("T_EN" \notin sReg') = ("T_EN" \notin sReg) /\ ("D_LCK" \in sReg') = ("D_LCK" \in sReg)
    OBVIOUS
  <1>2. OpenTold' /\ CloseTold'
    BY DEF Told, OpenTold, CloseTold
  <1>3. MapTold'
    BY <1>1 DEF Told, MapTold
  <1> QED
    BY <1>2, <1>3 DEF Told

\* The entry points of the access drivers set TSEG up and read the registers.
LEMMA AccessEntryPreserves ==
  ASSUME SmmInv, SmmAccessPeiEntryPoint \/ SmmAccess2DxeEntryPoint
  PROVE  SmmInv'
  <1> USE DEF SmmInv
  <1>1. CASE SmmAccessPeiEntryPoint /\ "SMRAM" \notin sHw
    <2>1. UNCHANGED <<sReg, sHw, sCopy, sCtl, sSev, sAsked, sPorts, sSmi, sTseg, sMap, sRet, sDone>>
      BY <1>1 DEF SmmAccessPeiEntryPoint
    <2> QED
      BY <2>1 DEF STypes, NotAskedBefore, CopyInStep, TsegInStep, LockTested, LockedIsClosed, LockStays, Told, OpenTold, CloseTold,
                  MapTold, SmisOn, SmiRaised, NoPlugAsked
  <1>2. CASE SmmAccessPeiEntryPoint /\ "SMRAM" \in sHw
    <2>1. /\ ~sCopy["pei"].live /\ ~sCopy["dxe"].live
          /\ sReg' = ClearBits(SetBits(sReg, {"T_EN"}), {"D_LCK"}) \cup {"G_SMRAME"}
          /\ sCopy' = [sCopy EXCEPT !["pei"] = GetStates(sReg')]
          /\ UNCHANGED <<sHw, sCtl, sSev, sAsked, sPorts, sSmi, sMap, sRet, sDone>>
      BY <1>2 DEF SmmAccessPeiEntryPoint, STypes
    <2>2. PICK top \in {128}, tseg \in {1, 2, 8, 16} :
            sTseg' = [base |-> top - tseg, bits |-> IF tseg \in {1, 2, 8} THEN tseg ELSE 0,
                      tseg |-> tseg, top |-> top]
      BY <1>2 DEF SmmAccessPeiEntryPoint
    <2>3. STypes'
      BY <2>1 DEF STypes, GetStates
    <2>4. /\ LockedIsClosed'
          /\ \A b \in {"APMC_EN", "GBL_SMI_EN", "SMI_LOCK"} : b \in sReg => b \in sReg'
      <3> DEFINE closed == SetBits(sReg, {"T_EN"})
      <3>1. "D_LCK" \in sReg => "T_EN" \in sReg
        BY DEF LockedIsClosed
      <3>2. /\ "T_EN" \in closed /\ sReg \subseteq closed
            /\ "D_LCK" \in sReg <=> "D_LCK" \in closed
        BY <3>1 DEF SetBits
      <3>3. "D_LCK" \in closed => sReg' = closed \cup {"G_SMRAME"}
        BY <2>1 DEF ClearBits
      <3>4. "D_LCK" \notin closed => sReg' = (closed \ {"D_LCK"}) \cup {"G_SMRAME"}
        BY <2>1 DEF ClearBits
      <3> HIDE DEF closed
      <3>5. CASE "D_LCK" \in closed
        BY <3>2, <3>3, <3>5 DEF LockedIsClosed
      <3>6. CASE "D_LCK" \notin closed
        BY <3>2, <3>4, <3>6 DEF LockedIsClosed
      <3> QED
        BY <3>5, <3>6
    <2>5. sCopy'["pei"] = GetStates(sReg') /\ sCopy'["pei"].live /\ ~sCopy'["dxe"].live
      BY <2>1 DEF STypes, GetStates
    <2>6. NotAskedBefore' /\ CopyInStep'
      BY <2>5 DEF NotAskedBefore, CopyInStep
    <2>7. TsegInStep'
      BY <2>2 DEF TsegInStep
    <2>8. sRet.op \in {"", "trigger"} /\ "lock" \notin sDone
      BY <2>1 DEF NotAskedBefore
    <2>9. LockStays' /\ Told'
      BY <2>1, <2>8 DEF LockStays, Told, OpenTold, CloseTold, MapTold
    <2>10. SmisOn' /\ SmiRaised' /\ NoPlugAsked' /\ LockTested'
      BY <2>1, <2>4 DEF SmisOn, SmiRaised, NoPlugAsked, LockTested
    <2> QED
      BY <2>3, <2>4, <2>6, <2>7, <2>9, <2>10
  <1>3. CASE SmmAccess2DxeEntryPoint
    <2>1. /\ sCopy["pei"].live /\ sCopy' = [sCopy EXCEPT !["dxe"] = GetStates(sReg)]
          /\ UNCHANGED <<sReg, sHw, sCtl, sSev, sAsked, sPorts, sSmi, sTseg, sMap, sRet, sDone>>
      BY <1>3 DEF SmmAccess2DxeEntryPoint
    <2>2. /\ STypes' /\ sCopy'["dxe"] = GetStates(sReg') /\ sCopy'["dxe"].live
          /\ sCopy'["pei"] = sCopy["pei"]
      BY <2>1 DEF STypes, GetStates
    <2>3. NotAskedBefore' /\ CopyInStep' /\ TsegInStep' /\ LockTested'
      BY <2>1, <2>2 DEF NotAskedBefore, CopyInStep, TsegInStep, LockTested
    <2>4. LockedIsClosed' /\ LockStays' /\ Told' /\ SmisOn' /\ SmiRaised' /\ NoPlugAsked'
      BY <2>1 DEF LockedIsClosed, LockStays, Told, OpenTold, CloseTold, MapTold, SmisOn, SmiRaised, NoPlugAsked
    <2> QED
      BY <2>2, <2>3, <2>4
  <1> QED
    BY <1>1, <1>2, <1>3

\* What an access call leaves alone, and the end of one.
LEMMA AccessCallEnds ==
  ASSUME SmmInv, NEW i \in {"pei", "dxe"}, NEW op \in {"open", "close", "lock", "map"}, NEW st, AccessCall(i, op, st),
         sCopy' = [sCopy EXCEPT ![i] = GetStates(sReg')],
         LockedIsClosed', \A b \in {"APMC_EN", "GBL_SMI_EN", "SMI_LOCK"} : b \in sReg => b \in sReg',
         ("lock" \in sDone \/ (op = "lock" /\ st = "SUCCESS")) =>
           {"D_LCK", "T_EN"} \subseteq sReg' /\ (SmramAtDefault => "SMBASE_LCK" \in sReg'),
         op = "open" /\ st # "INVALID_PARAMETER" => (st = "SUCCESS" <=> "T_EN" \notin sReg'),
         op = "close" /\ st # "INVALID_PARAMETER" => (st = "SUCCESS" <=> "T_EN" \in sReg'),
         op = "map" /\ st = "SUCCESS" =>
           sMap' = [start |-> sTseg.top - sTseg.tseg, size |-> sTseg.tseg,
                    lock |-> "D_LCK" \in sReg', open |-> "T_EN" \notin sReg']
  PROVE  SmmInv'
  <1> USE DEF SmmInv
  <1>1. /\ sCopy[i].live /\ (i = "pei" => ~sCopy["dxe"].live)
        /\ UNCHANGED <<sHw, sCtl, sSev, sAsked, sSmi, sTseg>>
        /\ sRet' = [op |-> op, st |-> st, arg |-> <<0, 0>>]
        /\ sDone' = (IF st = "SUCCESS" THEN sDone \cup {op} ELSE sDone)
    BY DEF AccessCall, SmmReturns
  <1>2. sRet'.op = op /\ sRet'.st = st
    BY <1>1
  <1>3. /\ sCopy'[i] = GetStates(sReg') /\ sCopy'[i].live
        /\ \A j \in {"pei", "dxe"} : j # i => sCopy'[j] = sCopy[j]
    BY DEF STypes, GetStates
  <1>4. STypes'
    BY <1>1, <1>3 DEF STypes, GetStates
  <1>5. sCopy["pei"].live /\ sCopy'["pei"].live
    BY <1>1, <1>3 DEF STypes
  <1>6. NotAskedBefore' /\ TsegInStep'
    BY <1>1, <1>5 DEF NotAskedBefore, TsegInStep
  <1>7. CopyInStep'
    BY <1>1, <1>3 DEF CopyInStep
  <1>8. LockStays'
    BY <1>1 DEF LockStays
  <1>9. OpenTold' /\ CloseTold'
    BY <1>2 DEF OpenTold, CloseTold
  <1>10. MapTold'
    BY <1>1, <1>2 DEF MapTold
  <1>11. SmisOn' /\ SmiRaised' /\ NoPlugAsked' /\ LockTested'
    BY <1>1, <1>2 DEF SmisOn, SmiRaised, NoPlugAsked, LockTested
  <1> QED
    BY <1>4, <1>6, <1>7, <1>8, <1>9, <1>10, <1>11 DEF Told

\* A call that leaves the registers alone leaves the copy as it is.
LEMMA CopyAlike ==
  ASSUME SmmInv, NEW i \in {"pei", "dxe"}, sCopy[i].live, i = "pei" => ~sCopy["dxe"].live, UNCHANGED <<sReg, sCopy>>
  PROVE  sCopy' = [sCopy EXCEPT ![i] = GetStates(sReg')] /\ sCopy[i] = GetStates(sReg)
  <1>1. sCopy[i] = GetStates(sReg)
    BY DEF SmmInv, CopyInStep
  <1> QED
    BY <1>1 DEF SmmInv, STypes

\* Open, Close and Lock.
LEMMA AccessCallPreserves ==
  ASSUME SmmInv, NEW i \in {"pei", "dxe"},
         SmramAccessOpen(i) \/ SmramAccessClose(i) \/ SmramAccessLock(i)
  PROVE  SmmInv'
  <1> USE DEF SmmInv
  <1>1. "D_LCK" \in sReg => "T_EN" \in sReg
    BY DEF LockedIsClosed
  <1>2. "lock" \in sDone => {"D_LCK", "T_EN"} \subseteq sReg /\ (SmramAtDefault => "SMBASE_LCK" \in sReg)
    BY DEF LockStays
  <1>3. CASE SmramAccessOpen(i)
    <2>1. PICK st : AccessCall(i, "open", st) /\ st = IF sCopy'[i].open THEN "SUCCESS" ELSE "DEVICE_ERROR"
      BY <1>3 DEF SmramAccessOpen
    <2>2. sReg' = ClearBits(sReg, {"T_EN"}) /\ sCopy' = [sCopy EXCEPT ![i] = GetStates(sReg')]
      BY <1>3 DEF SmramAccessOpen
    <2>3. sCopy'[i].open = ("T_EN" \notin sReg')
      BY <2>2 DEF STypes, GetStates
    <2>4. /\ LockedIsClosed'
          /\ \A b \in {"APMC_EN", "GBL_SMI_EN", "SMI_LOCK"} : b \in sReg => b \in sReg'
          /\ "lock" \in sDone => sReg' = sReg
      BY <1>1, <1>2, <2>2 DEF ClearBits, LockedIsClosed
    <2>5. st = "SUCCESS" <=> "T_EN" \notin sReg'
      BY <2>1, <2>3
    <2> QED
      BY <1>2, <2>1, <2>2, <2>4, <2>5, AccessCallEnds
  <1>4. CASE SmramAccessClose(i)
    <2>1. PICK st : AccessCall(i, "close", st) /\ st = IF sCopy'[i].open THEN "DEVICE_ERROR" ELSE "SUCCESS"
      BY <1>4 DEF SmramAccessClose
    <2>2. sReg' = SetBits(sReg, {"T_EN"}) /\ sCopy' = [sCopy EXCEPT ![i] = GetStates(sReg')]
      BY <1>4 DEF SmramAccessClose
    <2>3. sCopy'[i].open = ("T_EN" \notin sReg')
      BY <2>2 DEF STypes, GetStates
    <2>4. /\ LockedIsClosed'
          /\ \A b \in {"APMC_EN", "GBL_SMI_EN", "SMI_LOCK"} : b \in sReg => b \in sReg'
          /\ "lock" \in sDone => sReg' = sReg
      BY <1>1, <1>2, <2>2 DEF SetBits, LockedIsClosed
    <2>5. st = "SUCCESS" <=> "T_EN" \in sReg'
      BY <2>1, <2>3
    <2> QED
      BY <1>2, <2>1, <2>2, <2>4, <2>5, AccessCallEnds
  <1>5. CASE SmramAccessLock(i)
    <2>1. CASE sCopy[i].open
      <3>1. AccessCall(i, "lock", "DEVICE_ERROR") /\ UNCHANGED <<sReg, sCopy>>
        BY <1>5, <2>1 DEF SmramAccessLock
      <3>2. sCopy' = [sCopy EXCEPT ![i] = GetStates(sReg')]
        BY <3>1, CopyAlike DEF AccessCall
      <3>3. LockedIsClosed'
        BY <1>1, <3>1 DEF LockedIsClosed
      <3> QED
        BY <1>2, <3>1, <3>2, <3>3, AccessCallEnds
    <2>2. CASE ~sCopy[i].open
      <3>1. PICK st : AccessCall(i, "lock", st)
                      /\ st = IF sCopy'[i].open \/ ~sCopy'[i].lock THEN "DEVICE_ERROR" ELSE "SUCCESS"
        BY <1>5, <2>2 DEF SmramAccessLock
      <3>2. /\ sReg' = SetBits(SetBits(sReg, {"T_EN"}), {"D_LCK"})
                       \cup (IF SmramAtDefault THEN {"SMBASE_LCK"} ELSE {})
            /\ sCopy' = [sCopy EXCEPT ![i] = GetStates(sReg')]
        BY <1>5, <2>2 DEF SmramAccessLock
      <3>3. PICK both : both = SetBits(SetBits(sReg, {"T_EN"}), {"D_LCK"})
        OBVIOUS
      <3>4. {"D_LCK", "T_EN"} \subseteq both /\ sReg \subseteq both
        BY <1>1, <3>3 DEF SetBits
      <3>5. both \subseteq sReg' /\ (SmramAtDefault => "SMBASE_LCK" \in sReg')
        BY <3>2, <3>3
      <3>6. LockedIsClosed' /\ {"D_LCK", "T_EN"} \subseteq sReg'
        BY <3>4, <3>5 DEF LockedIsClosed
      <3>7. \A b \in {"APMC_EN", "GBL_SMI_EN", "SMI_LOCK"} : b \in sReg => b \in sReg'
        BY <3>4, <3>5
      <3> QED
        BY <3>1, <3>2, <3>5, <3>6, <3>7, AccessCallEnds
    <2> QED
      BY <2>1, <2>2
  <1> QED
    BY <1>3, <1>4, <1>5

\* The calls that leave the registers alone: the map, and a region that does not exist.
LEMMA AccessAskPreserves ==
  ASSUME SmmInv, NEW i \in {"pei", "dxe"}, NEW small \in BOOLEAN, NEW op \in {"open", "close", "lock"},
         SmramAccessGetCapabilities(i, small) \/ SmmAccessPeiBadIndex(op)
  PROVE  SmmInv'
  <1>1. LockedIsClosed /\ LockStays /\ TsegInStep /\ STypes
    BY DEF SmmInv
  <1>2. CASE SmramAccessGetCapabilities(i, small)
    <2>1. PICK st : AccessCall(i, "map", st) /\ st = IF small THEN "BUFFER_TOO_SMALL" ELSE "SUCCESS"
      BY <1>2 DEF SmramAccessGetCapabilities
    <2>2. UNCHANGED <<sReg, sCopy>>
      BY <1>2 DEF SmramAccessGetCapabilities
    <2>3. sCopy' = [sCopy EXCEPT ![i] = GetStates(sReg')] /\ sCopy[i] = GetStates(sReg)
      BY <2>1, <2>2, CopyAlike DEF AccessCall
    <2>4. sCopy["pei"].live
      BY <1>1, <2>1 DEF AccessCall, STypes
    <2>5. st = "SUCCESS" =>
             sMap' = [start |-> sTseg.top - sTseg.tseg, size |-> sTseg.tseg,
                      lock |-> "D_LCK" \in sReg', open |-> "T_EN" \notin sReg']
      <3>1. SUFFICES ASSUME st = "SUCCESS"
                     PROVE  sMap' = [start |-> sTseg.top - sTseg.tseg, size |-> sTseg.tseg,
                                     lock |-> "D_LCK" \in sReg', open |-> "T_EN" \notin sReg']
        OBVIOUS
      <3>2. sMap' = [start |-> sTseg.base, size |-> IF sTseg.bits = 0 THEN sTseg.tseg ELSE sTseg.bits,
                     lock |-> sCopy[i].lock, open |-> sCopy[i].open]
        BY <1>2, <2>1, <3>1 DEF SmramAccessGetCapabilities
      <3>3. sCopy[i].lock = ("D_LCK" \in sReg') /\ sCopy[i].open = ("T_EN" \notin sReg')
        BY <2>2, <2>3 DEF GetStates
      <3>4. sTseg.base = sTseg.top - sTseg.tseg /\ (IF sTseg.bits = 0 THEN sTseg.tseg ELSE sTseg.bits) = sTseg.tseg
        BY <1>1, <2>4 DEF TsegInStep
      <3> QED
        BY <3>2, <3>3, <3>4
    <2>6. LockedIsClosed' /\ ("lock" \in sDone => {"D_LCK", "T_EN"} \subseteq sReg'
                                /\ (SmramAtDefault => "SMBASE_LCK" \in sReg'))
      BY <1>1, <2>2 DEF LockedIsClosed, LockStays
    <2> QED
      BY <2>1, <2>2, <2>3, <2>5, <2>6, AccessCallEnds
  <1>3. CASE SmmAccessPeiBadIndex(op)
    <2>1. AccessCall("pei", op, "INVALID_PARAMETER") /\ UNCHANGED <<sReg, sCopy>>
      BY <1>3 DEF SmmAccessPeiBadIndex
    <2>2. sCopy' = [sCopy EXCEPT !["pei"] = GetStates(sReg')]
      BY <2>1, CopyAlike DEF AccessCall
    <2>3. LockedIsClosed' /\ ("lock" \in sDone => {"D_LCK", "T_EN"} \subseteq sReg'
                                /\ (SmramAtDefault => "SMBASE_LCK" \in sReg'))
      BY <1>1, <2>1 DEF LockedIsClosed, LockStays
    <2> QED
      BY <2>1, <2>2, <2>3, AccessCallEnds
  <1> QED
    BY <1>2, <1>3

\* The entry points of the SMI control drivers turn SMIs on for good, or stop.
LEMMA ControlEntryPreserves ==
  ASSUME SmmInv, MmControlPeiEntryPoint \/ SmmControl2DxeEntryPoint
  PROVE  SmmInv'
  <1> USE DEF SmmInv
  <1>1. PICK i \in {"pei", "dxe"} : \E refused : SmiEntryPoint(i, refused)
    <2>1. CASE MmControlPeiEntryPoint
      BY <2>1 DEF MmControlPeiEntryPoint
    <2>2. CASE SmmControl2DxeEntryPoint
      BY <2>2 DEF SmmControl2DxeEntryPoint
    <2> QED
      BY <2>1, <2>2
  <1>2. UNCHANGED <<sHw, sCopy, sSev, sPorts, sSmi, sTseg, sMap, sRet, sDone>>
    BY <1>1 DEF SmiEntryPoint
  <1>3. \/ sReg' = sReg /\ sCtl' = sCtl /\ sAsked' = sAsked
        \/ /\ sReg' = SmiTested(SmiEnabled(sReg)) /\ SmiTested(SmiEnabled(sReg)) # SmiEnabled(sReg)
           /\ sCtl' = sCtl /\ sAsked' = sAsked
        \/ /\ sReg' = SmiEnabled(sReg) /\ sCtl' \in {sCtl, sCtl \cup {i}}
           /\ (sSev /\ sAsked' # sAsked => sAsked' \cap {"HOTPLUG", "HOT_UNPLUG"} = {})
    BY <1>1 DEF SmiEntryPoint, Negotiated, RequestedFeaturesMask
  <1>4. /\ \A b \in {"D_LCK", "T_EN", "SMBASE_LCK"} : b \in sReg' <=> b \in sReg
        /\ SmisOn'
    <2>1. CASE sReg' = sReg /\ sCtl' = sCtl
      BY <2>1 DEF SmisOn
    <2>2. CASE sReg' = SmiEnabled(sReg)
      BY <2>2 DEF SmiEnabled, SmisOn
    <2>3. CASE sReg' = SmiTested(SmiEnabled(sReg)) /\ SmiTested(SmiEnabled(sReg)) # SmiEnabled(sReg) /\ sCtl' = sCtl
      <3>1. sReg' = SmiEnabled(sReg) \ {"GBL_SMI_EN"} /\ "SMI_LOCK" \notin sHw
        BY <2>3 DEF SmiTested
      <3>2. \A b \in {"D_LCK", "T_EN", "SMBASE_LCK"} : b \in sReg' <=> b \in sReg
        BY <3>1 DEF SmiEnabled
      <3>3. sCtl = {}
        BY <3>1 DEF LockTested
      <3> QED
        BY <2>3, <3>2, <3>3 DEF SmisOn
    <2> QED
      BY <1>3, <2>1, <2>2, <2>3
  <1>5. STypes'
    BY <1>2, <1>3 DEF STypes
  <1>6. GetStates(sReg') = GetStates(sReg)
    <2>1. ("D_LCK" \in sReg') = ("D_LCK" \in sReg) /\ ("T_EN" \notin sReg') = ("T_EN" \notin sReg)
      BY <1>4
    <2> QED
      BY ONLY <2>1 DEF GetStates
  <1>7. NotAskedBefore' /\ CopyInStep' /\ TsegInStep'
    BY <1>2, <1>6 DEF NotAskedBefore, CopyInStep, TsegInStep
  <1>8. LockedIsClosed' /\ LockStays'
    BY <1>2, <1>4 DEF LockedIsClosed, LockStays
  <1>9. Told'
    BY <1>2, <1>4, ToldStays
  <1>10. SmiRaised' /\ NoPlugAsked'
    BY <1>2, <1>3 DEF SmiRaised, NoPlugAsked
  <1>11. LockTested'
    BY <1>1, <1>3 DEF LockTested, SmiEntryPoint, SmiTested, SmiEnabled
  <1> QED
    BY <1>4, <1>5, <1>7, <1>8, <1>9, <1>10, <1>11

\* A trigger, raised or refused.
LEMMA TriggerPreserves ==
  ASSUME SmmInv, NEW i, NEW cmd, NEW data, NEW st, SmiTrigger(i, cmd, data) \/ (TriggerRefused(i, st) /\ st # "SUCCESS")
  PROVE  SmmInv'
  <1> USE DEF SmmInv
  <1>1. /\ i \in sCtl /\ UNCHANGED <<sReg, sHw, sCopy, sCtl, sSev, sAsked, sTseg, sMap>>
        /\ sRet'.op = "trigger" /\ sDone' \in {sDone, sDone \cup {"trigger"}}
    BY DEF SmiTrigger, TriggerRefused, SmmReturns
  <1>2. SmiRaised'
    <2>1. CASE SmiTrigger(i, cmd, data)
      <3>1. {"APMC_EN", "GBL_SMI_EN"} \subseteq sReg
        BY <1>1 DEF SmisOn
      <3>2. sPorts' = [sts |-> data, cnt |-> cmd] /\ sRet' = [op |-> "trigger", st |-> "SUCCESS", arg |-> <<cmd, data>>]
        BY <2>1 DEF SmiTrigger, SmmReturns
      <3>3. sSmi' = <<cmd, sPorts'.sts>>
        BY <2>1, <3>1 DEF SmiTrigger
      <3> QED
        BY <3>2, <3>3 DEF SmiRaised
    <2>2. CASE TriggerRefused(i, st) /\ st # "SUCCESS"
      BY <2>2 DEF TriggerRefused, SmmReturns, SmiRaised
    <2> QED
      BY <2>1, <2>2
  <1>3. STypes' /\ NotAskedBefore' /\ CopyInStep' /\ TsegInStep' /\ LockTested'
    BY <1>1 DEF STypes, NotAskedBefore, CopyInStep, TsegInStep, LockTested
  <1>4. LockedIsClosed' /\ LockStays' /\ SmisOn' /\ NoPlugAsked'
    BY <1>1 DEF LockedIsClosed, LockStays, SmisOn, NoPlugAsked
  <1>5. Told'
    BY <1>1 DEF Told, OpenTold, CloseTold, MapTold
  <1> QED
    BY <1>2, <1>3, <1>4, <1>5

\* Locked SMRAM is closed and stays locked for good; Open, Close, Lock and the map are
\* truthful, whichever of the PEI and the DXE interfaces is used and in whatever order;
\* SMIs once on stay on and carry what was asked.
THEOREM SmramStaysLocked == SSpec => []SmramLockIsFinal
  <1>1. SInit => SmmInv
    BY SmmInitEstablishes
  <1>2. SmmInv /\ [SNext]_sVars => SmmInv'
    <2> SUFFICES ASSUME SmmInv, [SNext]_sVars PROVE SmmInv'
      OBVIOUS
    <2>1. CASE SmmAccessPeiEntryPoint \/ SmmAccess2DxeEntryPoint
      BY <2>1, AccessEntryPreserves
    <2>2. CASE MmControlPeiEntryPoint \/ SmmControl2DxeEntryPoint
      BY <2>2, ControlEntryPreserves
    <2>3. ASSUME NEW i \in {"pei", "dxe"},
                 SmramAccessOpen(i) \/ SmramAccessClose(i) \/ SmramAccessLock(i)
          PROVE  SmmInv'
      BY <2>3, AccessCallPreserves
    <2>4. ASSUME NEW i \in {"pei", "dxe"}, NEW small \in BOOLEAN, SmramAccessGetCapabilities(i, small)
          PROVE  SmmInv'
      BY <2>4, AccessAskPreserves
    <2>5. ASSUME NEW op \in {"open", "close", "lock"}, SmmAccessPeiBadIndex(op) PROVE SmmInv'
      BY <2>5, AccessAskPreserves
    <2>6. ASSUME NEW b, NEW m \in BOOLEAN, NEW p \in BOOLEAN, MmControlPeiTrigger(b, m, p) PROVE SmmInv'
      BY <2>6, TriggerPreserves DEF MmControlPeiTrigger
    <2>7. ASSUME NEW p \in BOOLEAN, SmmControl2DxeTrigger(5, 6, p) PROVE SmmInv'
      BY <2>7, TriggerPreserves DEF SmmControl2DxeTrigger
    <2>8. CASE UNCHANGED sVars
      BY <2>8 DEF sVars, SmmInv, STypes, NotAskedBefore, CopyInStep, TsegInStep, LockTested, LockedIsClosed, LockStays,
                  Told, OpenTold, CloseTold, MapTold, SmisOn, SmiRaised, NoPlugAsked
    <2> QED
      BY <2>1, <2>2, <2>3, <2>4, <2>5, <2>6, <2>7, <2>8 DEF SNext
  <1>3. SmmInv => SmramLockIsFinal
    BY SmmInvImplies
  <1> QED
    BY <1>1, <1>2, <1>3, PTL DEF SSpec

-----------------------------------------------------------------------------
(* SmmRelocation.  The CPU sent an SMI is the only one between taking it   *)
(* and setting the flag; the lock keeps mSmmRelocationOriginalAddress of   *)
(* the CPU before it until that has been fetched.                          *)

CpuStates == {"run", "smi", "handler", "lock", "hooked", "flag", "fetch", "release"}

RTypes ==
  /\ rCpu \in [Cpus -> CpuStates]
  /\ rBase \in [Cpus -> Int] /\ DOMAIN rAt = Cpus /\ DOMAIN rTemp = Cpus
  /\ rArea \in [pc : Int, base : Int]
  /\ rRebased \in BOOLEAN /\ rIndex \in 0..NumCpus

\* A CPU with a pending or running SMI is the one the BSP waits for.
OneCpuInFlight ==
  \A c \in Cpus : rCpu[c] \in {"smi", "handler", "lock", "hooked", "flag"} =>
                    rStep = "wait" /\ c = Sent /\ ~rRebased

\* A CPU that the loop has not come to has not been sent anything.
NotYetSent ==
  \A c \in Cpus : c # BspIndex /\ rIndex <= c /\ rCpu[c] # "run" => rStep = "wait" /\ c = rIndex

Holding(c) == rCpu[c] \in {"hooked", "flag", "fetch", "release"}

\* The spin lock has at most one holder.
OneHolder ==
  /\ \A c \in Cpus : Holding(c) => rLock = "held"
  /\ \A c, d \in Cpus : Holding(c) /\ Holding(d) => c = d

\* Where the address of the interrupted code is, from the SMI to the return.
AddressKept ==
  \A c \in Cpus :
    /\ rCpu[c] \in {"run", "smi", "handler", "lock", "hooked"} => rAt[c] = c
    /\ rCpu[c] \in {"handler", "lock"} => rArea.pc = c
    /\ rCpu[c] \in {"hooked", "flag", "fetch"} => rOrig = c
    /\ rCpu[c] = "release" => rTemp[c] = c

\* Where the new SMBASE is, and who has it already.
BaseGiven ==
  /\ rStep = "wait" => rNewBase = GetSmBase(Sent) /\ rIndex # BspIndex
  /\ rStep = "wait" /\ rRebased => rBase[Sent] = GetSmBase(Sent)
  /\ \A c \in Cpus :
       /\ rCpu[c] \in {"lock", "hooked"} => rArea.base = GetSmBase(c)
       /\ rCpu[c] \in {"flag", "fetch", "release"} => rBase[c] = GetSmBase(c)
       /\ c < rIndex /\ c # BspIndex => rBase[c] = GetSmBase(c)
       /\ rStep \in {"restore", "done"} => rBase[c] = GetSmBase(c)

SmramWhole == [start |-> SmramStart, size |-> SmramSize, allocated |-> FALSE]

\* The SMRAM descriptors and the HOBs are made once.
MemoryReported ==
  /\ rSmram = IF rStep = "init" THEN <<SmramWhole>> ELSE SplitSmramHobForSmmRelocation(SmramWhole)
  /\ rStep = "done" => rHobs = SmmBaseHobs

RInv == RTypes /\ OneCpuInFlight /\ NotYetSent /\ OneHolder /\ AddressKept /\ BaseGiven /\ MemoryReported

\* The constants in the form the provers use.
LEMMA CpuFacts ==
  /\ NumCpus \in Nat \ {0} /\ MaxCpus \in Nat \ {0} /\ MaxCapInHob \in Nat \ {0}
  /\ NumCpus <= MaxCpus /\ BspIndex \in Cpus /\ SmramSize \in Nat
  /\ Cpus \subseteq 0..NumCpus /\ Cpus \subseteq Int
  /\ \A c \in Int : c \in Cpus <=> 0 <= c /\ c < NumCpus
  BY SmmRelocationAssumption DEF Cpus

\* The CPU that SmmRelocateBases deals with is a CPU; only the BSP comes out of turn.
LEMMA SentCpu ==
  ASSUME rIndex \in 0..NumCpus
  PROVE  Sent \in Cpus /\ (rIndex # NumCpus => Sent = rIndex) /\ (rIndex = NumCpus => Sent = BspIndex)
  BY CpuFacts DEF Sent

\* GetSmBase yields an address.
LEMMA GetSmBaseInt == \A c \in Int : GetSmBase(c) \in Int
  BY DEF GetSmBase, SmramStart, TileSize, SMM_HANDLER_OFFSET

\* No CPU has been sent an SMI.
LEMMA RelocInitEstablishes == RInit => RInv
  <1> SUFFICES ASSUME RInit PROVE RInv
    OBVIOUS
  <1> USE DEF RInit
  <1>1. /\ \A c \in Cpus : rCpu[c] = "run" /\ rBase[c] = 0 /\ rAt[c] = c
        /\ DOMAIN rAt = Cpus /\ DOMAIN rTemp = Cpus /\ rStep = "init" /\ rIndex = 0
    OBVIOUS
  <1>2. RTypes
    <2>1. rCpu \in [Cpus -> CpuStates] /\ rBase \in [Cpus -> Int] /\ rIndex \in 0..NumCpus
      BY CpuFacts DEF CpuStates
    <2>2. rArea \in [pc : Int, base : Int] /\ rRebased \in BOOLEAN
      <3>1. BackupCode \in Int
        BY CpuFacts DEF BackupCode
      <3>2. rArea = [pc |-> BackupCode, base |-> 0] /\ rRebased = FALSE
        OBVIOUS
      <3>3. rArea \in [pc : Int, base : Int]
        BY ONLY <3>1, <3>2
      <3> QED
        BY <3>2, <3>3
    <2> QED
      BY <1>1, <2>1, <2>2 DEF RTypes
  <1>3. OneCpuInFlight /\ NotYetSent /\ OneHolder
    BY <1>1 DEF OneCpuInFlight, NotYetSent, OneHolder, Holding
  <1>4. AddressKept
    BY <1>1 DEF AddressKept
  <1>5. BaseGiven
    BY <1>1, CpuFacts DEF BaseGiven
  <1>6. MemoryReported
    BY <1>1 DEF MemoryReported, SmramWhole
  <1> QED
    BY <1>2, <1>3, <1>4, <1>5, <1>6 DEF RInv

\* SmmRelocationInit splits the descriptor, once.
LEMMA RelocInitStep ==
  ASSUME RInv, SmmRelocationInit
  PROVE  RInv'
  <1>1. /\ rStep = "init" /\ rStep' \in {"send", "failed"}
        /\ UNCHANGED <<rCpu, rBase, rAt, rArea, rNewBase, rRebased, rLock, rOrig, rTemp, rIndex, rHobs>>
    BY DEF SmmRelocationInit
  <1>2. rSmram' = SplitSmramHobForSmmRelocation(SmramWhole)
    <2>1. rSmram[1] = SmramWhole
      BY <1>1 DEF RInv, MemoryReported
    <2> QED
      BY <2>1 DEF SmmRelocationInit
  <1>3. RTypes' /\ OneHolder' /\ AddressKept' /\ OneCpuInFlight' /\ NotYetSent'
    BY <1>1 DEF RInv, RTypes, OneHolder, Holding, AddressKept, OneCpuInFlight, NotYetSent
  <1>4. BaseGiven' /\ MemoryReported'
    BY <1>1, <1>2 DEF RInv, BaseGiven, MemoryReported
  <1> QED
    BY <1>3, <1>4 DEF RInv

\* The BSP passes over itself, or sends the next CPU its SMI.
LEMMA RelocSendStep ==
  ASSUME RInv, SmmRelocateSend
  PROVE  RInv'
  <1> USE DEF RInv
  <1>0. /\ rStep = "send" /\ rCpu[BspIndex] = "run" /\ rIndex \in 0..NumCpus
        /\ UNCHANGED <<rBase, rAt, rArea, rLock, rOrig, rTemp, rHobs, rSmram>>
    BY DEF SmmRelocateSend, RTypes
  <1>1. CASE rIndex = BspIndex
    <2>1. rIndex' = rIndex + 1 /\ rIndex' \in 0..NumCpus /\ UNCHANGED <<rCpu, rNewBase, rRebased, rStep>>
      BY <1>1, CpuFacts DEF SmmRelocateSend
    <2>2. RTypes' /\ OneHolder' /\ AddressKept' /\ OneCpuInFlight'
      BY <1>0, <2>1 DEF RTypes, OneHolder, Holding, AddressKept, OneCpuInFlight
    <2>3. NotYetSent'
      BY <1>0, <1>1, <2>1, CpuFacts DEF NotYetSent
    <2>4. BaseGiven' /\ MemoryReported'
      BY <1>0, <1>1, <2>1, CpuFacts DEF BaseGiven, MemoryReported
    <2> QED
      BY <2>2, <2>3, <2>4
  <1>2. CASE rIndex # BspIndex
    <2>1. /\ rRebased' = FALSE /\ rNewBase' = GetSmBase(Sent) /\ rIndex' = rIndex /\ rStep' = "wait"
          /\ rCpu' = [rCpu EXCEPT ![Sent] = "smi"] /\ Sent' = Sent
      BY <1>2 DEF SmmRelocateSend, Sent
    <2>2. /\ Sent \in Cpus /\ (Sent = BspIndex \/ Sent = rIndex) /\ (rIndex # NumCpus => Sent = rIndex)
          /\ (Sent = BspIndex => rIndex = NumCpus)
      BY <1>0, <1>2, SentCpu
    <2>3. rCpu[Sent] = "run"
      BY <1>0, <2>2, CpuFacts DEF NotYetSent
    <2> DEFINE s == Sent
    <2>4. /\ s \in Cpus /\ rCpu[s] = "run" /\ rCpu'[s] = "smi" /\ rCpu' \in [Cpus -> CpuStates]
          /\ \A c \in Cpus : c # s => rCpu'[c] = rCpu[c]
      BY <2>1, <2>2, <2>3 DEF RTypes, CpuStates
    <2>5. \A c \in Cpus : rCpu[c] \notin {"smi", "handler", "lock", "hooked", "flag"}
      BY <1>0 DEF OneCpuInFlight
    <2>6. RTypes'
      BY <1>0, <2>1, <2>4 DEF RTypes
    <2>7. OneCpuInFlight'
      BY <2>1, <2>4, <2>5 DEF OneCpuInFlight
    <2>8. OneHolder'
      BY <1>0, <2>4 DEF OneHolder, Holding
    <2>9. AddressKept'
      BY <1>0, <2>4 DEF AddressKept
    <2>10. NotYetSent'
      BY <1>0, <2>1, <2>2, <2>4, CpuFacts DEF NotYetSent
    <2>11. BaseGiven'
      BY <1>0, <1>2, <2>1, <2>4, <2>5 DEF BaseGiven
    <2>12. MemoryReported'
      BY <1>0, <2>1 DEF MemoryReported
    <2> QED
      BY <2>6, <2>7, <2>8, <2>9, <2>10, <2>11, <2>12
  <1> QED
    BY <1>1, <1>2

\* The flag is set: the CPU has left SMM and has its SMBASE.
LEMMA RelocWaitStep ==
  ASSUME RInv, SmmRelocateWait
  PROVE  RInv'
  <1> USE DEF RInv
  <1>1. /\ rStep = "wait" /\ rCpu[BspIndex] = "run" /\ rRebased /\ rIndex \in 0..NumCpus
        /\ UNCHANGED <<rCpu, rBase, rAt, rArea, rNewBase, rRebased, rLock, rOrig, rTemp, rHobs, rSmram>>
    BY DEF SmmRelocateWait, RTypes
  <1>2. /\ rStep' \in {"restore", "send"} /\ rIndex' \in 0..NumCpus
        /\ rStep' = "send" => rIndex' = rIndex + 1 /\ rIndex # NumCpus
        /\ rStep' = "restore" => rIndex' = rIndex /\ rIndex = NumCpus
    BY <1>1, CpuFacts DEF SmmRelocateWait
  <1>3. \A c \in Cpus : rCpu[c] \notin {"smi", "handler", "lock", "hooked", "flag"}
    BY <1>1 DEF OneCpuInFlight
  <1>4. rBase[Sent] = GetSmBase(Sent) /\ (rIndex # NumCpus => Sent = rIndex) /\ (rIndex = NumCpus => Sent = BspIndex)
    BY <1>1, SentCpu DEF BaseGiven
  <1>5. RTypes' /\ OneCpuInFlight' /\ OneHolder' /\ AddressKept' /\ MemoryReported'
    BY <1>1, <1>2, <1>3 DEF RTypes, OneCpuInFlight, OneHolder, Holding, AddressKept, MemoryReported
  <1>6. NotYetSent'
    BY <1>1, <1>2, CpuFacts DEF NotYetSent
  <1>7. BaseGiven'
    <2>1. CASE rStep' = "send"
      BY <1>1, <1>2, <1>3, <1>4, <2>1, CpuFacts DEF BaseGiven
    <2>2. CASE rStep' = "restore"
      BY <1>1, <1>2, <1>3, <1>4, <2>2, CpuFacts DEF BaseGiven
    <2> QED
      BY <1>2, <2>1, <2>2
  <1> QED
    BY <1>5, <1>6, <1>7

\* The area is put back when no CPU uses it.
LEMMA RelocRestoreStep ==
  ASSUME RInv, SmmRelocateRestore
  PROVE  RInv'
  <1> USE DEF RInv
  <1>1. /\ rStep = "restore" /\ rStep' \in {"done", "nohob"} /\ (rStep' = "done" => rHobs' = SmmBaseHobs)
        /\ rArea' = [pc |-> BackupCode, base |-> 0]
        /\ UNCHANGED <<rCpu, rBase, rAt, rNewBase, rRebased, rLock, rOrig, rTemp, rIndex, rSmram>>
    BY DEF SmmRelocateRestore
  <1>2. \A c \in Cpus : rCpu[c] \notin {"smi", "handler", "lock", "hooked", "flag"}
    BY <1>1 DEF OneCpuInFlight
  <1>3. RTypes'
    BY <1>1, CpuFacts DEF RTypes, BackupCode
  <1>4. OneCpuInFlight' /\ OneHolder' /\ AddressKept' /\ NotYetSent' /\ BaseGiven'
    BY <1>1, <1>2 DEF OneCpuInFlight, OneHolder, Holding, AddressKept, NotYetSent, BaseGiven
  <1>5. MemoryReported'
    BY <1>1 DEF MemoryReported
  <1> QED
    BY <1>3, <1>4, <1>5

\* A CPU that moves on after its SMI leaves the other CPUs, the loop and the
\* descriptors alone.
LEMMA CpuMoves ==
  ASSUME RInv, NEW c \in Cpus, NEW to \in CpuStates \ {"run", "smi"},
         rCpu' = [rCpu EXCEPT ![c] = to], rCpu[c] # "run",
         UNCHANGED <<rIndex, rStep, rHobs, rSmram>>
  PROVE  /\ rCpu' \in [Cpus -> CpuStates] /\ rCpu'[c] = to
         /\ \A d \in Cpus : d # c => rCpu'[d] = rCpu[d]
         /\ NotYetSent' /\ MemoryReported' /\ Sent' = Sent
  <1>1. /\ rCpu' \in [Cpus -> CpuStates] /\ rCpu'[c] = to
        /\ \A d \in Cpus : d # c => rCpu'[d] = rCpu[d]
    BY DEF RInv, RTypes
  <1>2. NotYetSent'
    BY <1>1 DEF RInv, NotYetSent
  <1>3. MemoryReported' /\ Sent' = Sent
    BY DEF RInv, MemoryReported, Sent
  <1> QED
    BY <1>1, <1>2, <1>3

\* The CPU saves its state in the area that no other one is using.
LEMMA TakeSmiStep ==
  ASSUME RInv, NEW c \in Cpus, TakeSmi(c)
  PROVE  RInv'
  <1> USE DEF RInv
  <1>1. /\ rCpu[c] = "smi" /\ rArea' = [pc |-> rAt[c], base |-> rBase[c]]
        /\ rCpu' = [rCpu EXCEPT ![c] = "handler"]
        /\ UNCHANGED <<rBase, rAt, rNewBase, rRebased, rLock, rOrig, rTemp, rIndex, rStep, rHobs, rSmram>>
    BY DEF TakeSmi
  <1>2. /\ rCpu' \in [Cpus -> CpuStates] /\ rCpu'[c] = "handler"
        /\ \A d \in Cpus : d # c => rCpu'[d] = rCpu[d]
        /\ NotYetSent' /\ MemoryReported' /\ Sent' = Sent
    BY <1>1, CpuMoves DEF CpuStates
  <1>3. rStep = "wait" /\ c = Sent /\ ~rRebased /\ rAt[c] = c
    BY <1>1 DEF OneCpuInFlight, AddressKept
  <1>4. \A d \in Cpus : d # c => rCpu[d] \notin {"smi", "handler", "lock", "hooked", "flag"}
    BY <1>3 DEF OneCpuInFlight
  <1>5. RTypes'
    <2>1. rArea' \in [pc : Int, base : Int]
      BY <1>1, <1>3, CpuFacts DEF RTypes
    <2> QED
      BY <1>1, <1>2, <2>1 DEF RTypes
  <1>6. OneCpuInFlight' /\ OneHolder'
    BY <1>1, <1>2, <1>3, <1>4 DEF OneCpuInFlight, OneHolder, Holding
  <1>7. AddressKept'
    BY <1>1, <1>2, <1>3, <1>4 DEF AddressKept
  <1>8. BaseGiven'
    BY <1>1, <1>2, <1>3, <1>4 DEF BaseGiven
  <1> QED
    BY <1>2, <1>5, <1>6, <1>7, <1>8

\* SmmInitHandler writes the SMBASE meant for this CPU.
LEMMA HandlerStep ==
  ASSUME RInv, NEW c \in Cpus, SmmInitHandler(c)
  PROVE  RInv'
  <1> USE DEF RInv
  <1>1. /\ rCpu[c] = "handler" /\ rArea' = [rArea EXCEPT !.base = rNewBase]
        /\ rCpu' = [rCpu EXCEPT ![c] = "lock"]
        /\ UNCHANGED <<rBase, rAt, rNewBase, rRebased, rLock, rOrig, rTemp, rIndex, rStep, rHobs, rSmram>>
    BY DEF SmmInitHandler, ConfigureSmBase
  <1>2. /\ rCpu' \in [Cpus -> CpuStates] /\ rCpu'[c] = "lock"
        /\ \A d \in Cpus : d # c => rCpu'[d] = rCpu[d]
        /\ NotYetSent' /\ MemoryReported' /\ Sent' = Sent
    BY <1>1, CpuMoves DEF CpuStates
  <1>3. rStep = "wait" /\ c = Sent /\ ~rRebased /\ rNewBase = GetSmBase(c)
    BY <1>1 DEF OneCpuInFlight, BaseGiven
  <1>4. \A d \in Cpus : d # c => rCpu[d] \notin {"smi", "handler", "lock", "hooked", "flag"}
    BY <1>3 DEF OneCpuInFlight
  <1>a. rArea'.pc = rArea.pc /\ rArea'.base = GetSmBase(c) /\ rArea' \in [pc : Int, base : Int]
    BY <1>1, <1>3, CpuFacts, GetSmBaseInt DEF RTypes
  <1>5. RTypes'
    BY <1>1, <1>2, <1>a DEF RTypes
  <1>6. OneCpuInFlight' /\ OneHolder'
    BY <1>1, <1>2, <1>3, <1>4 DEF OneCpuInFlight, OneHolder, Holding
  <1>7. AddressKept'
    BY <1>1, <1>2, <1>3, <1>4, <1>a DEF AddressKept
  <1>8. BaseGiven'
    BY <1>1, <1>2, <1>3, <1>4, <1>a DEF BaseGiven
  <1> QED
    BY <1>2, <1>5, <1>6, <1>7, <1>8

\* SemaphoreHook waits for the lock: the address of the CPU before is no longer needed.
LEMMA HookStep ==
  ASSUME RInv, NEW c \in Cpus, SemaphoreHook(c)
  PROVE  RInv'
  <1> USE DEF RInv
  <1>1. /\ rCpu[c] = "lock" /\ rLock = "free" /\ rLock' = "held" /\ rOrig' = rArea.pc
        /\ rArea' = [rArea EXCEPT !.pc = CompleteCode] /\ rCpu' = [rCpu EXCEPT ![c] = "hooked"]
        /\ UNCHANGED <<rBase, rAt, rNewBase, rRebased, rTemp, rIndex, rStep, rHobs, rSmram>>
    BY DEF SemaphoreHook, HookReturnFromSmm
  <1>2. /\ rCpu' \in [Cpus -> CpuStates] /\ rCpu'[c] = "hooked"
        /\ \A d \in Cpus : d # c => rCpu'[d] = rCpu[d]
        /\ NotYetSent' /\ MemoryReported' /\ Sent' = Sent
    BY <1>1, CpuMoves DEF CpuStates
  <1>3. rStep = "wait" /\ c = Sent /\ ~rRebased /\ rArea.pc = c /\ rArea.base = GetSmBase(c)
    BY <1>1 DEF OneCpuInFlight, AddressKept, BaseGiven
  <1>4. \A d \in Cpus : d # c => rCpu[d] \in {"run"}
    <2>1. \A d \in Cpus : ~Holding(d)
      BY <1>1 DEF OneHolder
    <2> QED
      BY <1>3, <2>1 DEF OneCpuInFlight, Holding, RTypes, CpuStates
  <1>a. rArea'.base = rArea.base /\ rArea' \in [pc : Int, base : Int]
    BY <1>1, CpuFacts DEF RTypes, CompleteCode
  <1>5. RTypes'
    BY <1>1, <1>2, <1>a DEF RTypes
  <1>6. OneCpuInFlight' /\ OneHolder'
    BY <1>1, <1>2, <1>3, <1>4 DEF OneCpuInFlight, OneHolder, Holding
  <1>7. AddressKept'
    BY <1>1, <1>2, <1>3, <1>4 DEF AddressKept
  <1>8. BaseGiven'
    BY <1>1, <1>2, <1>3, <1>4, <1>a DEF BaseGiven
  <1> QED
    BY <1>2, <1>5, <1>6, <1>7, <1>8

\* The CPU leaves SMM with its own SMBASE.
LEMMA RsmStep ==
  ASSUME RInv, NEW c \in Cpus, Rsm(c)
  PROVE  RInv'
  <1> USE DEF RInv
  <1>1. /\ rCpu[c] = "hooked" /\ rCpu' = [rCpu EXCEPT ![c] = "flag"]
        /\ rBase' = [rBase EXCEPT ![c] = rArea.base] /\ rAt' = [rAt EXCEPT ![c] = rArea.pc]
        /\ UNCHANGED <<rArea, rNewBase, rRebased, rLock, rOrig, rTemp, rIndex, rStep, rHobs, rSmram>>
    BY DEF Rsm
  <1>2. /\ rCpu' \in [Cpus -> CpuStates] /\ rCpu'[c] = "flag"
        /\ \A d \in Cpus : d # c => rCpu'[d] = rCpu[d]
        /\ NotYetSent' /\ MemoryReported' /\ Sent' = Sent
    BY <1>1, CpuMoves DEF CpuStates
  <1>3. rStep = "wait" /\ c = Sent /\ ~rRebased /\ rArea.base = GetSmBase(c)
    BY <1>1 DEF OneCpuInFlight, BaseGiven
  <1>a. /\ rBase'[c] = GetSmBase(c) /\ rBase' \in [Cpus -> Int] /\ DOMAIN rAt' = Cpus
        /\ \A d \in Cpus : d # c => rBase'[d] = rBase[d] /\ rAt'[d] = rAt[d]
    BY <1>1, <1>3, CpuFacts, GetSmBaseInt DEF RTypes
  <1>5. RTypes'
    BY <1>1, <1>2, <1>a DEF RTypes
  <1>6. OneCpuInFlight' /\ OneHolder'
    BY <1>1, <1>2, <1>3 DEF OneCpuInFlight, OneHolder, Holding
  <1>7. AddressKept'
    BY <1>1, <1>2, <1>a DEF AddressKept
  <1>8. BaseGiven'
    BY <1>1, <1>2, <1>3, <1>a DEF BaseGiven
  <1> QED
    BY <1>2, <1>5, <1>6, <1>7, <1>8

\* The three steps of SmmRelocationSemaphoreComplete.
LEMMA CompleteSteps ==
  ASSUME RInv, NEW c \in Cpus, SetRebased(c) \/ FetchOriginal(c) \/ ReleaseSmmRelocationSemaphore(c)
  PROVE  RInv'
  <1> USE DEF RInv
  <1>1. CASE SetRebased(c)
    <2>1. /\ rCpu[c] = "flag" /\ rRebased' = TRUE /\ rCpu' = [rCpu EXCEPT ![c] = "fetch"]
          /\ UNCHANGED <<rBase, rAt, rArea, rNewBase, rLock, rOrig, rTemp, rIndex, rStep, rHobs, rSmram>>
      BY <1>1 DEF SetRebased
    <2>2. /\ rCpu' \in [Cpus -> CpuStates] /\ rCpu'[c] = "fetch"
          /\ \A d \in Cpus : d # c => rCpu'[d] = rCpu[d]
          /\ NotYetSent' /\ MemoryReported' /\ Sent' = Sent
      BY <2>1, CpuMoves DEF CpuStates
    <2>3. c = Sent /\ \A d \in Cpus : d # c => rCpu[d] \notin {"smi", "handler", "lock", "hooked", "flag"}
      BY <2>1 DEF OneCpuInFlight
    <2>4. RTypes' /\ OneCpuInFlight' /\ OneHolder'
      BY <2>1, <2>2, <2>3 DEF RTypes, OneCpuInFlight, OneHolder, Holding
    <2>5. AddressKept'
      BY <2>1, <2>2 DEF AddressKept
    <2>6. BaseGiven'
      BY <2>1, <2>2, <2>3 DEF BaseGiven
    <2> QED
      BY <2>2, <2>4, <2>5, <2>6
  <1>2. CASE FetchOriginal(c)
    <2>1. /\ rCpu[c] = "fetch" /\ rTemp' = [rTemp EXCEPT ![c] = rOrig] /\ rCpu' = [rCpu EXCEPT ![c] = "release"]
          /\ UNCHANGED <<rBase, rAt, rArea, rNewBase, rRebased, rLock, rOrig, rIndex, rStep, rHobs, rSmram>>
      BY <1>2 DEF FetchOriginal
    <2>2. /\ rCpu' \in [Cpus -> CpuStates] /\ rCpu'[c] = "release"
          /\ \A d \in Cpus : d # c => rCpu'[d] = rCpu[d]
          /\ NotYetSent' /\ MemoryReported' /\ Sent' = Sent
      BY <2>1, CpuMoves DEF CpuStates
    <2>3. rTemp'[c] = c /\ DOMAIN rTemp' = Cpus /\ \A d \in Cpus : d # c => rTemp'[d] = rTemp[d]
      BY <2>1 DEF AddressKept, RTypes
    <2>4. RTypes' /\ OneCpuInFlight' /\ OneHolder'
      BY <2>1, <2>2, <2>3 DEF RTypes, OneCpuInFlight, OneHolder, Holding
    <2>5. AddressKept'
      BY <2>1, <2>2, <2>3 DEF AddressKept
    <2>6. BaseGiven'
      BY <2>1, <2>2 DEF BaseGiven
    <2> QED
      BY <2>2, <2>4, <2>5, <2>6
  <1>3. CASE ReleaseSmmRelocationSemaphore(c)
    <2>1. /\ rCpu[c] = "release" /\ rLock' = "free" /\ rAt' = [rAt EXCEPT ![c] = rTemp[c]]
          /\ rCpu' = [rCpu EXCEPT ![c] = "run"]
          /\ UNCHANGED <<rBase, rArea, rNewBase, rRebased, rOrig, rTemp, rIndex, rStep, rHobs, rSmram>>
      BY <1>3 DEF ReleaseSmmRelocationSemaphore
    <2>2. /\ rCpu' \in [Cpus -> CpuStates] /\ rCpu'[c] = "run" /\ Sent' = Sent
          /\ \A d \in Cpus : d # c => rCpu'[d] = rCpu[d]
      BY <2>1 DEF RTypes, CpuStates, Sent
    <2>3. rAt'[c] = c /\ DOMAIN rAt' = Cpus /\ \A d \in Cpus : d # c => rAt'[d] = rAt[d]
      BY <2>1 DEF AddressKept, RTypes
    <2>4. RTypes' /\ OneCpuInFlight'
      BY <2>1, <2>2, <2>3 DEF RTypes, OneCpuInFlight
    <2>5. OneHolder'
      <3>1. \A d \in Cpus : d # c => ~Holding(d)
        BY <2>1 DEF OneHolder, Holding
      <3> QED
        BY <2>2, <3>1 DEF OneHolder, Holding
    <2>6. AddressKept'
      BY <2>1, <2>2, <2>3 DEF AddressKept
    <2>7. BaseGiven' /\ NotYetSent' /\ MemoryReported'
      BY <2>1, <2>2 DEF BaseGiven, NotYetSent, MemoryReported
    <2> QED
      BY <2>4, <2>5, <2>6, <2>7
  <1> QED
    BY <1>1, <1>2, <1>3

\* Every step of a CPU or of the BSP preserves the invariant.
LEMMA RelocStep == RInv /\ [RNext]_rVars => RInv'
  <1> SUFFICES ASSUME RInv, [RNext]_rVars PROVE RInv'
    OBVIOUS
  <1>1. ASSUME NEW c \in Cpus, TakeSmi(c) \/ SmmInitHandler(c) \/ SemaphoreHook(c) \/ Rsm(c)
                 \/ SetRebased(c) \/ FetchOriginal(c) \/ ReleaseSmmRelocationSemaphore(c)
        PROVE  RInv'
    BY <1>1, TakeSmiStep, HandlerStep, HookStep, RsmStep, CompleteSteps
  <1>2. CASE UNCHANGED rVars
    BY <1>2 DEF rVars, RInv, RTypes, OneCpuInFlight, NotYetSent, OneHolder, Holding, AddressKept,
                BaseGiven, MemoryReported, Sent
  <1> QED
    BY <1>1, <1>2, RelocInitStep, RelocSendStep, RelocWaitStep, RelocRestoreStep DEF RNext

-----------------------------------------------------------------------------
(* Nobody waits for ever.                                                  *)

\* The CPU the BSP waits for is still on its way to the flag, and a lock that is
\* held has a holder that goes on.
WaitInv ==
  /\ rStep = "wait" => rRebased \/ rCpu[Sent] \in {"smi", "handler", "lock", "hooked", "flag"}
  /\ rLock = "held" => \E c \in Cpus : Holding(c)

\* A step of one CPU keeps that.
LEMMA CpuKeepsWait ==
  ASSUME RInv, WaitInv, NEW c \in Cpus,
         TakeSmi(c) \/ SmmInitHandler(c) \/ SemaphoreHook(c) \/ Rsm(c)
           \/ SetRebased(c) \/ FetchOriginal(c) \/ ReleaseSmmRelocationSemaphore(c)
  PROVE  WaitInv'
  <1> DEFINE Early == {"smi", "handler", "lock", "hooked", "flag"}
  <1>1. rStep' = rStep /\ Sent' = Sent /\ \A d \in Cpus : d # c => rCpu'[d] = rCpu[d]
    BY DEF RInv, RTypes, Sent, TakeSmi, SmmInitHandler, SemaphoreHook, Rsm, SetRebased, FetchOriginal,
           ReleaseSmmRelocationSemaphore
  <1>2. rStep = "wait" /\ ~rRebased' => rCpu'[Sent] \in Early
    <2> SUFFICES ASSUME rStep = "wait", ~rRebased' PROVE rCpu'[Sent] \in Early
      OBVIOUS
    <2>1. Sent \in Cpus
      BY SentCpu DEF RInv, RTypes
    <2>2. rRebased' = rRebased /\ ~SetRebased(c)
      BY DEF TakeSmi, SmmInitHandler, SemaphoreHook, Rsm, SetRebased, FetchOriginal,
             ReleaseSmmRelocationSemaphore
    <2>3. rCpu[Sent] \in Early
      BY <2>2 DEF WaitInv
    <2>4. CASE c # Sent
      BY <1>1, <2>1, <2>3, <2>4
    <2>5. CASE c = Sent
      BY <2>1, <2>2, <2>3, <2>5
         DEF RInv, RTypes, TakeSmi, SmmInitHandler, SemaphoreHook, Rsm, FetchOriginal, ReleaseSmmRelocationSemaphore
    <2> QED
      BY <2>4, <2>5
  <1>3. rLock' = "held" => \E d \in Cpus : Holding(d)'
    <2>1. CASE TakeSmi(c) \/ SmmInitHandler(c)
      BY <1>1, <2>1 DEF WaitInv, Holding, TakeSmi, SmmInitHandler
    <2>2. CASE SemaphoreHook(c) \/ Rsm(c) \/ SetRebased(c) \/ FetchOriginal(c)
      BY <2>2 DEF RInv, RTypes, Holding, SemaphoreHook, Rsm, SetRebased, FetchOriginal
    <2>3. CASE ReleaseSmmRelocationSemaphore(c)
      BY <2>3 DEF ReleaseSmmRelocationSemaphore
    <2> QED
      BY <2>1, <2>2, <2>3
  <1> QED
    BY <1>1, <1>2, <1>3 DEF WaitInv

\* The BSP interrupts a CPU that runs, and only then begins to wait.
LEMMA BspKeepsWait ==
  ASSUME RInv, WaitInv,
         SmmRelocationInit \/ SmmRelocateSend \/ SmmRelocateWait \/ SmmRelocateRestore
  PROVE  WaitInv'
  <1>1. CASE SmmRelocationInit \/ SmmRelocateWait \/ SmmRelocateRestore
    <2>1. rStep' # "wait" /\ UNCHANGED <<rCpu, rLock>>
      BY <1>1 DEF SmmRelocationInit, SmmRelocateWait, SmmRelocateRestore
    <2> QED
      BY <2>1 DEF WaitInv, Holding
  <1>2. CASE SmmRelocateSend /\ rIndex = BspIndex
    <2>1. rStep' # "wait" /\ UNCHANGED <<rCpu, rLock>>
      BY <1>2 DEF SmmRelocateSend
    <2> QED
      BY <2>1 DEF WaitInv, Holding
  <1>3. CASE SmmRelocateSend /\ rIndex # BspIndex
    <2>1. /\ rIndex \in 0..NumCpus /\ rCpu[BspIndex] = "run" /\ rStep = "send" /\ rLock' = rLock
          /\ rCpu' = [rCpu EXCEPT ![Sent] = "smi"] /\ Sent' = Sent
      BY <1>3 DEF SmmRelocateSend, RInv, RTypes, Sent
    <2>2. Sent \in Cpus /\ rCpu[Sent] = "run"
      BY <1>3, <2>1, SentCpu, CpuFacts DEF RInv, NotYetSent
    <2>3. rCpu'[Sent] = "smi" /\ \A c \in Cpus : c # Sent => rCpu'[c] = rCpu[c]
      BY <2>1, <2>2 DEF RInv, RTypes
    <2> QED
      BY <2>1, <2>2, <2>3 DEF WaitInv, Holding
  <1> QED
    BY <1>1, <1>2, <1>3

\* No step leaves the BSP, or a CPU in SMM, waiting for nobody.
LEMMA WaitStep == RInv /\ WaitInv /\ [RNext]_rVars => WaitInv'
  <1> SUFFICES ASSUME RInv, WaitInv, [RNext]_rVars PROVE WaitInv'
    OBVIOUS
  <1>1. CASE UNCHANGED rVars
    BY <1>1 DEF rVars, WaitInv, Holding, Sent
  <1> QED
    BY <1>1, CpuKeepsWait, BspKeepsWait DEF RNext

-----------------------------------------------------------------------------
(* The HOBs.                                                               *)

HobCount(first) == IF MaxCpus - first < MaxCapInHob THEN MaxCpus - first ELSE MaxCapInHob
BaseHob(first) == [first |-> first, bases |-> [i \in 0..HobCount(first) - 1 |-> GetSmBase(i + first)]]

\* The HOBs, one for every MaxCapInHob CPUs.
LEMMA BaseHobs == SmmBaseHobs = {BaseHob(MaxCapInHob * k) : k \in 0..(MaxCpus - 1) \div MaxCapInHob}
  BY DEF SmmBaseHobs, BaseHob, HobCount

\* The multiple of the capacity at or below a number, and the only one so near.
LEMMA HobQuotient ==
  ASSUME NEW m \in Nat \ {0}, NEW i \in Nat
  PROVE  /\ i \div m \in Nat /\ m * (i \div m) \in Nat
         /\ m * (i \div m) <= i /\ i < m * (i \div m) + m
         /\ \A k \in Nat : m * k <= i /\ i < m * k + m => k = i \div m
  <1> DEFINE q == i \div m
  <1>1. q \in Int /\ i % m \in 0..m - 1 /\ i = m * q + (i % m)
    OBVIOUS
  <1> HIDE DEF q
  <1>2. \A a \in Int, b \in Int : m * a - m * b = m * (a - b) /\ m * a \in Int
    OBVIOUS
  <1>3. \A d \in Int : d >= 1 => m * d >= m
    OBVIOUS
  <1>4. m * q \in Int /\ m * q <= i /\ i < m * q + m
    BY <1>1, <1>2
  <1>5. q >= 0
    <2> SUFFICES ASSUME q < 0 PROVE FALSE
      BY <1>1
    <2>1. 0 - q >= 1 /\ 0 - q \in Int
      BY <1>1
    <2>2. m * 0 - m * q = m * (0 - q) /\ m * 0 = 0
      BY <1>1, <1>2
    <2>3. m * (0 - q) >= m
      BY <2>1, <1>3
    <2> QED
      BY <1>4, <2>2, <2>3
  <1>6. ASSUME NEW k \in Nat, m * k <= i, i < m * k + m PROVE k = q
    <2>1. m * k - m * q = m * (k - q) /\ m * q - m * k = m * (q - k) /\ m * k \in Int
      BY <1>1, <1>2
    <2>2. ~(k - q >= 1)
      <3> SUFFICES ASSUME k - q >= 1 PROVE FALSE
        OBVIOUS
      <3>1. m * (k - q) >= m
        BY <1>1, <1>3
      <3> QED
        BY <1>4, <1>6, <2>1, <3>1
    <2>3. ~(q - k >= 1)
      <3> SUFFICES ASSUME q - k >= 1 PROVE FALSE
        OBVIOUS
      <3>1. m * (q - k) >= m
        BY <1>1, <1>3
      <3> QED
        BY <1>4, <1>6, <2>1, <3>1
    <2> QED
      BY <1>1, <2>2, <2>3
  <1>7. m * q \in Nat
    <2>1. CASE q = 0
      BY <2>1
    <2>2. CASE q # 0
      <3>1. m * q >= m
        BY <1>1, <1>3, <1>5, <2>2
      <3> QED
        BY <1>4, <3>1
    <2> QED
      BY <2>1, <2>2
  <1> QED
    BY <1>1, <1>4, <1>5, <1>6, <1>7 DEF q

\* A HOB begins below MaxCpus and lists the CPUs from there on.
LEMMA HobFacts ==
  ASSUME NEW k \in 0..(MaxCpus - 1) \div MaxCapInHob
  PROVE  /\ MaxCapInHob * k \in Nat
         /\ \A i \in 0..MaxCpus - 1 :
              i - BaseHob(MaxCapInHob * k).first \in DOMAIN BaseHob(MaxCapInHob * k).bases
                <=> MaxCapInHob * k <= i /\ i < MaxCapInHob * k + MaxCapInHob
  <1> DEFINE f == MaxCapInHob * k
  <1>0. MaxCpus - 1 \in Nat
    BY CpuFacts
  <1>1. (MaxCpus - 1) \div MaxCapInHob \in Nat /\ k \in Nat
    BY <1>0, CpuFacts, HobQuotient
  <1>2. f \in Nat
    BY <1>1, CpuFacts
  <1>3. BaseHob(f).first = f /\ DOMAIN BaseHob(f).bases = 0..HobCount(f) - 1
    BY DEF BaseHob
  <1> HIDE DEF f
  <1>4. \A i \in 0..MaxCpus - 1 : i - f \in 0..HobCount(f) - 1 <=> f <= i /\ i < f + MaxCapInHob
    BY <1>2, CpuFacts DEF HobCount
  <1> QED
    BY <1>2, <1>3, <1>4 DEF f

\* Each possible CPU is in exactly one HOB.
LEMMA HobOfCpu ==
  ASSUME NEW i \in 0..MaxCpus - 1
  PROVE  Cardinality({h \in SmmBaseHobs : i - h.first \in DOMAIN h.bases}) = 1
  <1> DEFINE q == i \div MaxCapInHob
             top == (MaxCpus - 1) \div MaxCapInHob
             mine == BaseHob(MaxCapInHob * q)
  <1>0. i \in Nat /\ MaxCpus - 1 \in Nat /\ i <= MaxCpus - 1
    BY CpuFacts
  <1>1. /\ q \in Nat /\ MaxCapInHob * q <= i /\ i < MaxCapInHob * q + MaxCapInHob
        /\ \A k \in Nat : MaxCapInHob * k <= i /\ i < MaxCapInHob * k + MaxCapInHob => k = q
    BY <1>0, CpuFacts, HobQuotient
  <1>2. top \in Nat /\ MaxCapInHob * top \in Nat /\ MaxCpus - 1 < MaxCapInHob * top + MaxCapInHob
    BY <1>0, CpuFacts, HobQuotient
  <1>3. q \in 0..top
    <2> HIDE DEF q, top
    <2> SUFFICES ASSUME q - top >= 1 PROVE FALSE
      BY <1>1, <1>2
    <2>1. MaxCapInHob * q - MaxCapInHob * top = MaxCapInHob * (q - top) /\ MaxCapInHob * q \in Int
      BY <1>1, <1>2, CpuFacts
    <2>2. q - top \in Int /\ MaxCapInHob * (q - top) >= MaxCapInHob
      BY <1>1, <1>2, CpuFacts
    <2> QED
      BY <1>0, <1>1, <1>2, <2>1, <2>2, CpuFacts
  <1>4. mine \in SmmBaseHobs /\ i - mine.first \in DOMAIN mine.bases
    BY <1>1, <1>3, BaseHobs, HobFacts
  <1>5. ASSUME NEW h \in SmmBaseHobs, i - h.first \in DOMAIN h.bases PROVE h = mine
    <2>1. PICK k \in 0..top : h = BaseHob(MaxCapInHob * k)
      BY BaseHobs
    <2>2. k \in Nat /\ MaxCapInHob * k <= i /\ i < MaxCapInHob * k + MaxCapInHob
      BY <1>2, <1>5, <2>1, HobFacts
    <2> QED
      BY <1>1, <2>1, <2>2
  <1> HIDE DEF mine
  <1>6. {h \in SmmBaseHobs : i - h.first \in DOMAIN h.bases} = {mine}
    BY <1>4, <1>5
  <1> QED
    BY <1>6, FS_Singleton

\* What the invariant says once SmmRelocateBases is done.
LEMMA RelocDone ==
  ASSUME RInv, rStep = "done"
  PROVE  /\ \A c \in Cpus : /\ rBase[c] + SMM_HANDLER_OFFSET >= rSmram[1].start
                            /\ rBase[c] + 2 * SMM_HANDLER_OFFSET <= rSmram[1].start + rSmram[1].size
         /\ \A c, d \in Cpus : c # d => rBase[c] # rBase[d]
         /\ \A i \in 0..MaxCpus - 1 : Cardinality({h \in rHobs : i - h.first \in DOMAIN h.bases}) = 1
         /\ \A h \in rHobs : \A i \in DOMAIN h.bases :
              h.first + i < NumCpus => h.bases[i] = rBase[h.first + i]
  <1>1. /\ \A c \in Cpus : rBase[c] = SmramStart + c * TileSize - SMM_HANDLER_OFFSET
        /\ rHobs = SmmBaseHobs
    BY DEF RInv, BaseGiven, MemoryReported, GetSmBase
  <1>2. rSmram[1].start = SmramStart /\ rSmram[1].size = RelocationSize
    BY DEF RInv, MemoryReported, SplitSmramHobForSmmRelocation, SmramWhole
  <1>3. /\ \A c \in Cpus : /\ rBase[c] + SMM_HANDLER_OFFSET >= rSmram[1].start
                           /\ rBase[c] + 2 * SMM_HANDLER_OFFSET <= rSmram[1].start + rSmram[1].size
        /\ \A c, d \in Cpus : c # d => rBase[c] # rBase[d]
    BY <1>1, <1>2, CpuFacts DEF SmramStart, TileSize, SMM_HANDLER_OFFSET, RelocationSize
  <1>4. \A i \in 0..MaxCpus - 1 : Cardinality({h \in rHobs : i - h.first \in DOMAIN h.bases}) = 1
    BY <1>1, HobOfCpu
  <1>5. ASSUME NEW h \in rHobs, NEW i \in DOMAIN h.bases, h.first + i < NumCpus
        PROVE  h.bases[i] = rBase[h.first + i]
    <2>1. PICK k \in 0..(MaxCpus - 1) \div MaxCapInHob : h = BaseHob(MaxCapInHob * k)
      BY <1>1, BaseHobs
    <2> DEFINE f == MaxCapInHob * k
    <2>2. f \in Nat
      BY HobFacts
    <2> HIDE DEF f
    <2>3. h = BaseHob(f)
      BY <2>1 DEF f
    <2>4. h.first = f /\ i \in 0..HobCount(f) - 1 /\ h.bases[i] = GetSmBase(i + f)
      BY <2>3 DEF BaseHob
    <2>5. i + f \in Cpus /\ i + f = f + i
      <3>1. i \in Nat /\ f + i < NumCpus
        BY <1>5, <2>2, <2>4, CpuFacts DEF HobCount
      <3> QED
        BY <2>2, <3>1, CpuFacts
    <2> QED
      BY <2>4, <2>5 DEF RInv, BaseGiven
  <1> QED
    BY <1>3, <1>4, <1>5

\* However the CPUs interleave, one at a time is in SMM, each goes back to the code
\* that was interrupted, none waits for a flag or a lock that nobody will set or
\* release, and each ends with an SMBASE of its own inside the SMRAM set aside,
\* which exactly one HOB reports.
THEOREM CpusRelocatedOnce == RSpec => []EachCpuRelocatedOnce
  <1>1. RInv /\ WaitInv => EachCpuRelocatedOnce
    <2> SUFFICES ASSUME RInv, WaitInv PROVE EachCpuRelocatedOnce
      OBVIOUS
    <2>1. InSmm \subseteq {Sent} /\ (rStep = "restore" => InSmm = {})
      BY DEF RInv, OneCpuInFlight, InSmm
    <2>2. Cardinality(InSmm) <= 1
      <3>1. IsFiniteSet({Sent}) /\ Cardinality({Sent}) = 1
        BY FS_Singleton
      <3> QED
        BY <2>1, <3>1, FS_Subset
    <2>3. \A c \in Cpus : rCpu[c] = "run" => rAt[c] = c
      BY DEF RInv, AddressKept
    <2>4. rStep # "init" => /\ rSmram[1].start + rSmram[1].size = rSmram[2].start
                            /\ rSmram[2].start + rSmram[2].size = SmramStart + SmramSize
      <3> SUFFICES ASSUME rStep # "init"
                   PROVE  /\ rSmram[1].start + rSmram[1].size = rSmram[2].start
                          /\ rSmram[2].start + rSmram[2].size = SmramStart + SmramSize
        OBVIOUS
      <3>1. /\ rSmram[1].start = SmramStart /\ rSmram[1].size = RelocationSize
            /\ rSmram[2].start = SmramStart + RelocationSize /\ rSmram[2].size = SmramSize - RelocationSize
        BY DEF RInv, MemoryReported, SplitSmramHobForSmmRelocation, SmramWhole
      <3>2. SmramStart \in Int /\ RelocationSize \in Int /\ SmramSize \in Int
        BY CpuFacts DEF SmramStart, RelocationSize, TileSize
      <3> QED
        BY <3>1, <3>2
    <2>5. NobodyWaitsInVain
      BY DEF WaitInv, NobodyWaitsInVain, Holding
    <2> QED
      BY <2>1, <2>2, <2>3, <2>4, <2>5, RelocDone DEF EachCpuRelocatedOnce
  <1>2. RInit => WaitInv
    BY DEF RInit, WaitInv
  <1> QED
    BY <1>1, <1>2, RelocInitEstablishes, RelocStep, WaitStep, PTL DEF RSpec
=============================================================================
