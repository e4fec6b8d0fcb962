--------------------------- MODULE Devices_proofs ---------------------------
(***************************************************************************)
(* Proofs about six components that share no state: PciCapLib, which       *)
(* parses the capability lists of a PCI device, the two virtio transports  *)
(* over PCI, PciHotPlugInitDxe, which pads a bridge's resources, the       *)
(* firmware volume block services over QEMU's flash, of the PC and of the  *)
(* ARM machine, and QemuFwCfgLib.  Each part gives the inductive invariant *)
(* of the component, what its helpers do, one lemma for each action or     *)
(* call, and its theorem.                                                  *)
(***************************************************************************)
EXTENDS PciCap, VirtioTransport, PciHotPlug, QemuFlash, NorFlash, FwCfg, PowersOfTwo_proofs,
        WellFoundedInduction, TLAPS

-----------------------------------------------------------------------------
(* PciCap.                                                                 *)

\* The keys of the collection and what is kept under each.
CapKeys == {"normal", "ext"} \X CapIds \X Nat

\* The variables of PciCap hold what they should.
PcTypeOK ==
  /\ pcAt \in {"idle", "normal", "ext", "ok", "err"} /\ pcOff \in Nat
  /\ DOMAIN pcCaps \subseteq CapKeys
  /\ \A k \in DOMAIN pcCaps : pcCaps[k] \in [off : Nat, ver : Nat, num : Nat, hint : Nat]
  /\ pcRead \in [from : Nat, to : Nat]

\* Nothing is read through a list that is not complete.
ReadsLater == pcAt # "ok" => pcRead = NoRead

\* Each list stays in the part of the configuration space that is its own.
CapOffset(dom) ==
  IF dom = "normal" THEN 1 .. PCI_MAX_CONFIG_OFFSET - 1
  ELSE PCI_MAX_CONFIG_OFFSET .. PCI_EXP_MAX_CONFIG_OFFSET - 1

CapsInTheirSpace ==
  /\ pcAt = "normal" => pcOff \in {0} \cup CapOffset("normal")
  /\ pcAt = "ext" => pcOff \in {0} \cup CapOffset("ext")
  /\ \A k \in DOMAIN pcCaps : pcCaps[k].off \in CapOffset(k[1])

\* The offsets that CapHdrOffsets rules out.
OffsetsDiffer == \A j, k \in DOMAIN pcCaps : pcCaps[j].off = pcCaps[k].off => j = k

Zero(k) == <<k[1], k[2], 0>>

\* Instance zero counts the instances, and they are numbered from zero.
InstancesCounted ==
  \A k \in DOMAIN pcCaps :
    /\ Zero(k) \in DOMAIN pcCaps
    /\ k[3] < pcCaps[Zero(k)].num
    /\ \A i \in 0 .. pcCaps[Zero(k)].num - 1 : <<k[1], k[2], i>> \in DOMAIN pcCaps

\* The inductive invariant.
PcInv == PcTypeOK /\ ReadsLater /\ CapsInTheirSpace /\ OffsetsDiffer /\ InstancesCounted /\ CapsPartitionSpace

-----------------------------------------------------------------------------
\* A nonempty set of offsets has a least one, which Min is.
LEMMA MinOfOffsets ==
  ASSUME NEW S \in SUBSET Nat, S # {}
  PROVE  Min(S) \in S /\ \A n \in S : Min(S) <= n
<1> DEFINE Less == OpToRel(<, Nat)
<1>1. IsWellFoundedOn(Less, Nat)
  BY NatLessThanWellFounded
<1>2. \A m, n \in Nat : m < n => <<m, n>> \in Less
  BY DEF OpToRel
<1> HIDE DEF Less
<1>3. PICK x \in S : \A y \in S : ~(<<y, x>> \in Less)
  BY <1>1, WFMin
<1>4. \A y \in S : x <= y
  <2> TAKE y \in S
  <2>1. x \in Nat /\ y \in Nat
    OBVIOUS
  <2>2. ~(y < x)
    BY <2>1, <1>2, <1>3
  <2> QED BY <2>1, <2>2
<1> QED
  BY <1>4 DEF Min

\* The two configuration spaces, and the pointers that lead into them.
LEMMA SpaceSizes ==
  /\ PCI_MAX_CONFIG_OFFSET \in Nat /\ PCI_EXP_MAX_CONFIG_OFFSET \in Nat
  /\ 0 < PCI_MAX_CONFIG_OFFSET /\ PCI_MAX_CONFIG_OFFSET < PCI_EXP_MAX_CONFIG_OFFSET
  /\ \A p \in NormalPtrs : p \in Nat /\ p < PCI_MAX_CONFIG_OFFSET
  /\ \A p \in ExtPtrs : p \in Nat /\ p < PCI_EXP_MAX_CONFIG_OFFSET
<1>1. /\ PCI_MAX_CONFIG_OFFSET \in Nat /\ PCI_EXP_MAX_CONFIG_OFFSET \in Nat
      /\ 0 < PCI_MAX_CONFIG_OFFSET /\ PCI_MAX_CONFIG_OFFSET < PCI_EXP_MAX_CONFIG_OFFSET
  BY SMT DEF PCI_MAX_CONFIG_OFFSET, PCI_EXP_MAX_CONFIG_OFFSET
<1>2. \A p \in 0 .. 255 : p \in Nat /\ p < PCI_MAX_CONFIG_OFFSET
  BY SMT DEF PCI_MAX_CONFIG_OFFSET
<1>3. \A p \in NormalPtrs : p \in 0 .. 255
  BY PciCapAssumption, SMT
<1>4. \A p \in ExtPtrs : p \in 0 .. 4095
  BY PciCapAssumption, SMT
<1>5. \A p \in ExtPtrs : p \in Nat /\ p < PCI_EXP_MAX_CONFIG_OFFSET
  <2> TAKE p \in ExtPtrs
  <2> DEFINE R == 0 .. 4095
  <2>1. p \in R
    BY <1>4
  <2>2. \A q \in R : q \in Nat /\ q < PCI_EXP_MAX_CONFIG_OFFSET
    BY SMT DEF PCI_EXP_MAX_CONFIG_OFFSET
  <2> HIDE DEF R
  <2> QED BY <2>1, <2>2
<1> QED
  BY <1>1, <1>2, <1>3, <1>5, SMT

\* Dropping the two low bits of a pointer never moves it up.
LEMMA MaskedBounds ==
  ASSUME NEW n \in Nat
  PROVE  /\ Masked(n) \in Nat /\ Masked(n) <= n
  BY DEF Masked

\* InsertPciCap keeps the collection well formed.
LEMMA InsertKeeps ==
  ASSUME PcTypeOK, CapsInTheirSpace, OffsetsDiffer, InstancesCounted,
         NEW dom \in {"normal", "ext"}, NEW id \in CapIds, NEW ver \in Nat,
         NEW off \in CapOffset(dom), off \notin Offsets,
         pcCaps' = InsertPciCap(dom, id, off, ver)
  PROVE  /\ DOMAIN pcCaps' \subseteq CapKeys
         /\ \A k \in DOMAIN pcCaps' : pcCaps'[k] \in [off : Nat, ver : Nat, num : Nat, hint : Nat]
         /\ \A k \in DOMAIN pcCaps' : pcCaps'[k].off \in CapOffset(k[1])
         /\ OffsetsDiffer' /\ InstancesCounted'
<1> DEFINE zero == <<dom, id, 0>>
           inst == IF zero \in DOMAIN pcCaps THEN pcCaps[zero].num ELSE 0
           key  == <<dom, id, inst>>
           new  == [off |-> off, ver |-> ver, num |-> 1, hint |-> 0]
           Rec  == [off : Nat, ver : Nat, num : Nat, hint : Nat]
<1>a. off \in Nat
  BY SpaceSizes DEF CapOffset
<1>b. zero \in CapKeys
  BY DEF CapKeys
<1>c. \A k \in DOMAIN pcCaps : k \in CapKeys /\ pcCaps[k] \in Rec
  BY DEF PcTypeOK
<1>1. inst \in Nat
  BY <1>c
<1>2. key \in CapKeys /\ key[1] = dom /\ key[2] = id /\ key[3] = inst
  BY <1>1 DEF CapKeys
<1>3. key \notin DOMAIN pcCaps
  <2> SUFFICES ASSUME key \in DOMAIN pcCaps PROVE FALSE
    OBVIOUS
  <2>1. Zero(key) = zero
    BY <1>2 DEF Zero
  <2>2. zero \in DOMAIN pcCaps /\ inst < pcCaps[zero].num
    BY <1>2, <2>1 DEF InstancesCounted
  <2> QED BY <2>2, <1>1
<1>4. pcCaps' = [k \in DOMAIN pcCaps \cup {key} |->
                   IF k = key THEN new
                   ELSE IF k = zero THEN [pcCaps[k] EXCEPT !.num = @ + 1] ELSE pcCaps[k]]
  BY DEF InsertPciCap
<1>5. DOMAIN pcCaps' = DOMAIN pcCaps \cup {key}
  BY <1>4
<1>6. new \in Rec
  BY <1>a
<1>7. \A k \in DOMAIN pcCaps :
        /\ k # key
        /\ pcCaps'[k] = IF k = zero THEN [pcCaps[k] EXCEPT !.num = @ + 1] ELSE pcCaps[k]
  BY <1>3, <1>4
<1>8. pcCaps'[key] = new
  BY <1>4
<1> HIDE DEF zero, inst, key, new
<1>9. \A k \in DOMAIN pcCaps : /\ pcCaps'[k] \in Rec /\ pcCaps'[k].off = pcCaps[k].off
                               /\ pcCaps'[k].num = IF k = zero THEN pcCaps[k].num + 1 ELSE pcCaps[k].num
  <2> SUFFICES ASSUME NEW k \in DOMAIN pcCaps
               PROVE  /\ pcCaps'[k] \in Rec /\ pcCaps'[k].off = pcCaps[k].off
                      /\ pcCaps'[k].num = IF k = zero THEN pcCaps[k].num + 1 ELSE pcCaps[k].num
    OBVIOUS
  <2>1. pcCaps[k] \in Rec
    BY <1>c
  <2>2. CASE k = zero
    <3>1. pcCaps'[k] = [pcCaps[k] EXCEPT !.num = @ + 1]
      BY <2>2, <1>7
    <3> QED BY <2>1, <2>2, <3>1
  <2>3. CASE k # zero
    BY <2>1, <2>3, <1>7
  <2> QED BY <2>2, <2>3
<1>10. DOMAIN pcCaps' \subseteq CapKeys
  BY <1>5, <1>c, <1>2
<1>11. \A k \in DOMAIN pcCaps' : pcCaps'[k] \in Rec
  BY <1>5, <1>6, <1>8, <1>9
<1>12. new.off = off /\ new.num = 1
  BY DEF new
<1>13. \A k \in DOMAIN pcCaps' : pcCaps'[k].off \in CapOffset(k[1])
  BY <1>5, <1>8, <1>9, <1>12, <1>2 DEF CapsInTheirSpace
<1>14. \A k \in DOMAIN pcCaps : pcCaps[k].off # off
  BY DEF Offsets
<1>15. OffsetsDiffer'
  BY <1>5, <1>8, <1>9, <1>12, <1>14 DEF OffsetsDiffer
<1>16. ASSUME NEW k \in DOMAIN pcCaps'
       PROVE  /\ Zero(k) \in DOMAIN pcCaps'
              /\ k[3] < pcCaps'[Zero(k)].num
              /\ \A i \in 0 .. pcCaps'[Zero(k)].num - 1 : <<k[1], k[2], i>> \in DOMAIN pcCaps'
  <2>0. zero \in DOMAIN pcCaps \/ zero = key
    BY DEF zero, inst, key
  <2>1. CASE k[1] = dom /\ k[2] = id
    <3>1. Zero(k) = zero
      BY <2>1 DEF Zero, zero
    <3>2. zero \in DOMAIN pcCaps'
      BY <2>0, <1>5
    <3>3. pcCaps'[zero].num = inst + 1
      <4>1. CASE zero \in DOMAIN pcCaps
        BY <4>1, <1>9 DEF inst
      <4>2. CASE zero \notin DOMAIN pcCaps
        BY <4>2, <2>0, <1>8, <1>12 DEF inst
      <4> QED BY <4>1, <4>2
    <3>4. k[3] \in Nat /\ k[3] <= inst
      <4>1. CASE k = key
        BY <4>1, <1>2, <1>1
      <4>2. CASE k \in DOMAIN pcCaps
        <5>1. zero \in DOMAIN pcCaps /\ k[3] < pcCaps[zero].num
          BY <4>2, <3>1 DEF InstancesCounted
        <5>2. k[3] \in Nat /\ pcCaps[zero].num \in Nat
          BY <4>2, <5>1, <1>c DEF CapKeys
        <5> QED BY <5>1, <5>2 DEF inst
      <4> QED BY <4>1, <4>2, <1>5
    <3>5. ASSUME NEW i \in 0 .. inst PROVE <<dom, id, i>> \in DOMAIN pcCaps'
      <4>1. CASE i = inst
        BY <4>1, <1>5 DEF key
      <4>2. CASE i # inst
        <5>1. zero \in DOMAIN pcCaps /\ inst = pcCaps[zero].num
          BY <4>2, <1>1 DEF inst
        <5>2. i \in 0 .. pcCaps[zero].num - 1
          BY <5>1, <4>2, <1>1
        <5>3. zero[1] = dom /\ zero[2] = id /\ Zero(zero) = zero
          BY DEF zero, Zero
        <5>4. <<dom, id, i>> \in DOMAIN pcCaps
          BY <5>1, <5>2, <5>3 DEF InstancesCounted
        <5> QED BY <5>4, <1>5
      <4> QED BY <4>1, <4>2
    <3> QED BY <3>1, <3>2, <3>3, <3>4, <3>5, <2>1, <1>1
  <2>2. CASE ~(k[1] = dom /\ k[2] = id)
    <3>1. k \in DOMAIN pcCaps
      BY <2>2, <1>2, <1>5
    <3>2. Zero(k) # zero /\ Zero(k) \in DOMAIN pcCaps
      BY <2>2, <3>1 DEF Zero, zero, InstancesCounted
    <3>3. pcCaps'[Zero(k)].num = pcCaps[Zero(k)].num
      BY <3>2, <1>9
    <3> QED BY <3>1, <3>2, <3>3, <1>5 DEF InstancesCounted
  <2> QED BY <2>1, <2>2
<1>17. InstancesCounted'
  BY <1>16 DEF InstancesCounted
<1> QED
  BY <1>10, <1>11, <1>13, <1>15, <1>17

\* The empty list satisfies the invariant.
LEMMA PcInitEstablishes == PcInit => PcInv
<1> SUFFICES ASSUME PcInit PROVE PcInv
  OBVIOUS
<1>1. DOMAIN pcCaps = {}
  BY DEF PcInit, NoCaps
<1> QED
  BY <1>1 DEF PcInit, PcInv, PcTypeOK, CapsInTheirSpace, OffsetsDiffer, InstancesCounted,
              CapsPartitionSpace, NoRead, CapKeys, ReadsLater

\* Every step but PcDone and PcAccess leaves a list that is not for use yet.
LEMMA ParseKeeps ==
  PcInv /\ (PcStart \/ PcError \/ NormalStep \/ NormalDone \/ ExtStep \/ ExtNone) => PcInv'
<1> SUFFICES ASSUME PcInv, PcStart \/ PcError \/ NormalStep \/ NormalDone \/ ExtStep \/ ExtNone
             PROVE  PcInv'
  OBVIOUS
<1> USE DEF PcInv
<1>n. ASSUME pcAt' # "ok" PROVE CapsPartitionSpace'
  BY <1>n DEF CapsPartitionSpace
<1>e. ASSUME pcCaps' = NoCaps, pcAt' \in {"err", "normal"}, pcRead' = NoRead,
             pcOff' \in {0} \cup CapOffset("normal")
      PROVE  PcInv'
  <2>1. DOMAIN pcCaps' = {}
    BY <1>e DEF NoCaps
  <2> QED BY <2>1, <1>e, <1>n, SpaceSizes DEF PcTypeOK, CapsInTheirSpace, OffsetsDiffer, InstancesCounted, CapKeys, CapOffset,
                                   ReadsLater, NoRead
<1>f. ASSUME PcFail, pcAt # "ok" PROVE PcInv'
  BY <1>e, <1>f DEF PcFail, PcTypeOK, ReadsLater
<1>m. \A p \in NormalPtrs : Masked(p) \in {0} \cup CapOffset("normal")
  <2> TAKE p \in NormalPtrs
  <2>1. Masked(p) \in Nat /\ Masked(p) <= p
    BY SpaceSizes, MaskedBounds
  <2> QED BY <2>1, SpaceSizes DEF CapOffset
<1>1. CASE PcStart
  BY <1>1, <1>e, <1>m DEF PcStart, NoRead
<1>2. CASE PcError
  BY <1>2, <1>f DEF PcError
<1>3. CASE NormalStep
  <2>1. PICK id \in CapIds, next \in NormalPtrs :
          pcCaps' = InsertPciCap("normal", id, pcOff, 0) /\ pcOff' = Masked(next)
    BY <1>3 DEF NormalStep
  <2>2. pcAt = "normal" /\ pcOff > 0 /\ pcOff \notin Offsets /\ pcAt' = pcAt /\ pcRead' = pcRead
    BY <1>3 DEF NormalStep
  <2>3. pcOff \in CapOffset("normal")
    BY <2>2 DEF CapsInTheirSpace
  <2>4. /\ DOMAIN pcCaps' \subseteq CapKeys
        /\ \A k \in DOMAIN pcCaps' : pcCaps'[k] \in [off : Nat, ver : Nat, num : Nat, hint : Nat]
        /\ \A k \in DOMAIN pcCaps' : pcCaps'[k].off \in CapOffset(k[1])
        /\ OffsetsDiffer' /\ InstancesCounted'
    BY <2>1, <2>2, <2>3, InsertKeeps
  <2>5. pcOff' \in {0} \cup CapOffset("normal") /\ pcOff' \in Nat
    BY <2>1, <1>m, SpaceSizes DEF CapOffset
  <2> QED BY <2>2, <2>4, <2>5, <1>n DEF PcTypeOK, CapsInTheirSpace, ReadsLater
<1>4. CASE NormalDone
  BY <1>4, <1>n, SpaceSizes DEF NormalDone, PcTypeOK, CapsInTheirSpace, OffsetsDiffer, InstancesCounted, CapOffset,
     ReadsLater
<1>5. CASE ExtStep
  <2>1. PICK id \in CapIds, ver \in CapVersions, next \in ExtPtrs :
          IF Masked(next) \in 1 .. PCI_MAX_CONFIG_OFFSET - 1 THEN PcFail
          ELSE /\ pcCaps' = InsertPciCap("ext", id, pcOff, ver)
               /\ pcOff' = Masked(next)
               /\ UNCHANGED <<pcAt, pcExpress, pcRead>>
    BY <1>5 DEF ExtStep
  <2>2. pcAt = "ext" /\ pcOff > 0 /\ pcOff \notin Offsets
    BY <1>5 DEF ExtStep
  <2>3. CASE Masked(next) \in 1 .. PCI_MAX_CONFIG_OFFSET - 1
    BY <2>1, <2>2, <2>3, <1>f
  <2>4. CASE Masked(next) \notin 1 .. PCI_MAX_CONFIG_OFFSET - 1
    <3>1. pcOff \in CapOffset("ext") /\ ver \in Nat
      BY <2>2, PciCapAssumption DEF CapsInTheirSpace
    <3>2. /\ DOMAIN pcCaps' \subseteq CapKeys
          /\ \A k \in DOMAIN pcCaps' : pcCaps'[k] \in [off : Nat, ver : Nat, num : Nat, hint : Nat]
          /\ \A k \in DOMAIN pcCaps' : pcCaps'[k].off \in CapOffset(k[1])
          /\ OffsetsDiffer' /\ InstancesCounted'
      BY <2>1, <2>2, <2>4, <3>1, InsertKeeps
    <3>3. Masked(next) \in Nat /\ Masked(next) <= next
      BY SpaceSizes, MaskedBounds
    <3>4. pcOff' = Masked(next)
      BY <2>1, <2>4
    <3>5. pcOff' \in {0} \cup CapOffset("ext") /\ pcOff' \in Nat
      BY <2>4, <3>3, <3>4, SpaceSizes DEF CapOffset
    <3> QED BY <2>1, <2>2, <2>4, <3>2, <3>5, <1>n DEF PcTypeOK, CapsInTheirSpace, ReadsLater
  <2> QED BY <2>3, <2>4
<1>6. CASE ExtNone
  BY <1>6, <1>n DEF ExtNone, PcTypeOK, CapsInTheirSpace, OffsetsDiffer, InstancesCounted, ReadsLater
<1> QED
  BY <1>1, <1>2, <1>3, <1>4, <1>5, <1>6

\* The hint of a capability ends at the next one or at the end of the space.
LEMMA HintOf ==
  ASSUME PcInv, NEW k \in DOMAIN pcCaps
  PROVE  LET hint == CalculatePciCapMaxSizeHint(pcCaps, k)
         IN  /\ hint \in Nat /\ hint > 0
             /\ pcCaps[k].off + hint <= ConfigSpaceSize(k[1])
             /\ \A j \in DOMAIN pcCaps : pcCaps[j].off > pcCaps[k].off =>
                  pcCaps[k].off + hint <= pcCaps[j].off
<1> DEFINE above == {j \in DOMAIN pcCaps : pcCaps[j].off > pcCaps[k].off}
           offs  == {pcCaps[j].off : j \in above}
           size  == ConfigSpaceSize(k[1])
           hint  == CalculatePciCapMaxSizeHint(pcCaps, k)
<1>1. \A j \in DOMAIN pcCaps : pcCaps[j].off \in Nat
  BY DEF PcInv, PcTypeOK
<1>2. size \in Nat /\ pcCaps[k].off < size
  <2>1. pcCaps[k].off \in CapOffset(k[1])
    BY DEF PcInv, CapsInTheirSpace
  <2> QED BY <2>1, SpaceSizes DEF CapOffset, ConfigSpaceSize
<1>3. hint = IF above = {} \/ Min(offs) >= size THEN size - pcCaps[k].off ELSE Min(offs) - pcCaps[k].off
  BY DEF CalculatePciCapMaxSizeHint
<1>4. CASE above = {}
  BY <1>1, <1>2, <1>3, <1>4
<1>5. CASE above # {}
  <2>1. offs # {} /\ offs \subseteq Nat
    BY <1>1, <1>5
  <2>2. Min(offs) \in offs /\ \A n \in offs : Min(offs) <= n
    BY <2>1, MinOfOffsets
  <2>3. Min(offs) \in Nat /\ Min(offs) > pcCaps[k].off
    BY <2>1, <2>2
  <2>4. \A j \in DOMAIN pcCaps : pcCaps[j].off > pcCaps[k].off => Min(offs) <= pcCaps[j].off
    BY <2>2
  <2> HIDE DEF offs, size, hint
  <2>5. above # {}
    BY <1>5
  <2> HIDE DEF above
  <2>6. /\ hint \in Nat /\ hint > 0 /\ pcCaps[k].off + hint <= size
        /\ pcCaps[k].off + hint <= Min(offs)
    BY <1>1, <1>2, <1>3, <2>3, <2>5
  <2>7. \A j \in DOMAIN pcCaps : pcCaps[j].off > pcCaps[k].off => pcCaps[k].off + hint <= pcCaps[j].off
    BY <2>6, <2>4, <2>3, <1>1
  <2> QED BY <2>6, <2>7 DEF hint, size
<1> QED
  BY <1>4, <1>5

\* PciCapListInit at its end: the hints are those of the complete list.
LEMMA DoneKeeps == PcInv /\ PcDone => PcInv'
<1> SUFFICES ASSUME PcInv, PcDone PROVE PcInv'
  OBVIOUS
<1> DEFINE Hint(k) == CalculatePciCapMaxSizeHint(pcCaps, k)
           Rec  == [off : Nat, ver : Nat, num : Nat, hint : Nat]
<1>1. pcAt' = "ok" /\ pcOff' = pcOff /\ pcRead' = pcRead /\ DOMAIN pcCaps' = DOMAIN pcCaps
  BY DEF PcDone
<1>2. \A k \in DOMAIN pcCaps : /\ Hint(k) \in Nat /\ Hint(k) > 0
                               /\ pcCaps[k].off + Hint(k) <= ConfigSpaceSize(k[1])
                               /\ \A j \in DOMAIN pcCaps : pcCaps[j].off > pcCaps[k].off =>
                                    pcCaps[k].off + Hint(k) <= pcCaps[j].off
  BY HintOf, Zenon
<1>3. \A k \in DOMAIN pcCaps : pcCaps'[k] = [pcCaps[k] EXCEPT !.hint = Hint(k)]
  BY DEF PcDone
<1> HIDE DEF Hint
<1>4. \A k \in DOMAIN pcCaps : /\ pcCaps'[k] \in Rec /\ pcCaps'[k].off = pcCaps[k].off
                               /\ pcCaps'[k].num = pcCaps[k].num /\ pcCaps'[k].hint = Hint(k)
  <2> SUFFICES ASSUME NEW k \in DOMAIN pcCaps
               PROVE  /\ pcCaps'[k] \in Rec /\ pcCaps'[k].off = pcCaps[k].off
                      /\ pcCaps'[k].num = pcCaps[k].num /\ pcCaps'[k].hint = Hint(k)
    OBVIOUS
  <2>1. pcCaps[k] \in Rec /\ Hint(k) \in Nat
    BY <1>2 DEF PcInv, PcTypeOK
  <2> QED BY <2>1, <1>3
<1>5. PcTypeOK'
  BY <1>1, <1>4 DEF PcInv, PcTypeOK
<1>6. CapsInTheirSpace' /\ OffsetsDiffer'
  BY <1>1, <1>4 DEF PcInv, CapsInTheirSpace, OffsetsDiffer
<1>7. InstancesCounted'
  <2>1. \A k \in DOMAIN pcCaps : Zero(k) \in DOMAIN pcCaps /\ pcCaps'[Zero(k)].num = pcCaps[Zero(k)].num
    BY <1>4 DEF PcInv, InstancesCounted
  <2> QED BY <1>1, <2>1 DEF PcInv, InstancesCounted
<1>8. CapsPartitionSpace'
  <2>1. ~(pcRead'.from < pcRead'.to)
    BY <1>1 DEF PcInv, ReadsLater, NoRead, PcDone
  <2>2. ASSUME NEW k \in DOMAIN pcCaps'
        PROVE  /\ {j[3] : j \in {i \in DOMAIN pcCaps' : i[1] = k[1] /\ i[2] = k[2]}}
                    = 0 .. (PciCapGetInfo(k).num)' - 1
               /\ pcCaps'[k].hint > 0
               /\ pcCaps'[k].off + pcCaps'[k].hint <= ConfigSpaceSize(k[1])
               /\ \A j \in DOMAIN pcCaps' \ {k} :
                    \/ pcCaps'[k].off + pcCaps'[k].hint <= pcCaps'[j].off
                    \/ pcCaps'[j].off + pcCaps'[j].hint <= pcCaps'[k].off
    <3>1. /\ pcCaps'[k].hint > 0
          /\ pcCaps'[k].off + pcCaps'[k].hint <= ConfigSpaceSize(k[1])
      BY <1>1, <1>2, <1>4
    <3>2. ASSUME NEW j \in DOMAIN pcCaps' \ {k}
          PROVE  \/ pcCaps'[k].off + pcCaps'[k].hint <= pcCaps'[j].off
                 \/ pcCaps'[j].off + pcCaps'[j].hint <= pcCaps'[k].off
      <4>1. pcCaps[k].off \in Nat /\ pcCaps[j].off \in Nat /\ pcCaps[j].off # pcCaps[k].off
        BY <1>1 DEF PcInv, PcTypeOK, OffsetsDiffer
      <4>2. pcCaps[j].off > pcCaps[k].off \/ pcCaps[k].off > pcCaps[j].off
        BY <4>1
      <4> QED BY <4>2, <1>1, <1>2, <1>4
    <3>3. PciCapGetInfo(k)' = [pcCaps'[k] EXCEPT !.num = pcCaps'[Zero(k)].num]
      BY DEF PciCapGetInfo, Zero
    <3>4. (PciCapGetInfo(k).num)' = pcCaps'[Zero(k)].num
      BY <3>3, <1>1, <1>4
    <3>5. {j[3] : j \in {i \in DOMAIN pcCaps' : i[1] = k[1] /\ i[2] = k[2]}} = 0 .. pcCaps'[Zero(k)].num - 1
      <4>1. ASSUME NEW j \in DOMAIN pcCaps', j[1] = k[1], j[2] = k[2] PROVE j[3] \in 0 .. pcCaps'[Zero(k)].num - 1
        <5>1. Zero(j) = Zero(k)
          BY <4>1 DEF Zero
        <5>2. j[3] \in Nat /\ j[3] < pcCaps'[Zero(k)].num /\ pcCaps'[Zero(k)].num \in Nat
          BY <5>1, <1>5, <1>7 DEF InstancesCounted, PcTypeOK, CapKeys
        <5> QED BY <5>2
      <4>2. ASSUME NEW i \in 0 .. pcCaps'[Zero(k)].num - 1
            PROVE  \E j \in DOMAIN pcCaps' : j[1] = k[1] /\ j[2] = k[2] /\ j[3] = i
        <5>1. <<k[1], k[2], i>> \in DOMAIN pcCaps'
          BY <1>7 DEF InstancesCounted
        <5> QED BY <5>1
      <4> QED BY <4>1, <4>2
    <3> QED BY <3>1, <3>2, <3>4, <3>5
  <2> QED BY <2>1, <2>2 DEF CapsPartitionSpace
<1>9. ReadsLater'
  BY <1>1 DEF ReadsLater
<1> QED
  BY <1>5, <1>6, <1>7, <1>8, <1>9 DEF PcInv

\* An access through PciCapRead ends within the hint.
LEMMA AccessKeeps == PcInv /\ PcAccess => PcInv'
<1> SUFFICES ASSUME PcInv, PcAccess PROVE PcInv'
  OBVIOUS
<1>1. pcAt = "ok" /\ UNCHANGED <<pcAt, pcOff, pcExpress, pcCaps>>
  BY DEF PcAccess
<1>2. PICK dom \in {"normal", "ext"}, id \in CapIds, off \in AccessSizes, size \in AccessSizes :
      \E k \in PciCapListFindCap(dom, id, 0) \cup PciCapListFindCapVersion(dom, id, Max(CapVersions)) :
        pcRead' = PciCapRead(k, off, size)
  BY DEF PcAccess
<1>3. PICK k \in DOMAIN pcCaps : pcRead' = PciCapRead(k, off, size)
  BY <1>2 DEF PciCapListFindCap, PciCapListFindCapVersion
<1>4. off \in Nat /\ size \in Nat /\ pcCaps[k].off \in Nat /\ pcCaps[k].hint \in Nat
  <2>1. AccessSizes \subseteq Nat
    BY PciCapAssumption
  <2>2. PICK r : r = pcCaps[k] /\ r \in [off : Nat, ver : Nat, num : Nat, hint : Nat]
    BY DEF PcInv, PcTypeOK
  <2> QED BY <2>1, <2>2
<1>5. /\ pcRead' \in [from : Nat, to : Nat]
      /\ pcRead'.from < pcRead'.to =>
           pcCaps[k].off <= pcRead'.from /\ pcRead'.to <= pcCaps[k].off + pcCaps[k].hint
  BY <1>3, <1>4 DEF PciCapRead, NoRead
<1>6. CapsPartitionSpace'
  <2>1. \A c \in DOMAIN pcCaps : PciCapGetInfo(c)' = PciCapGetInfo(c)
    BY <1>1 DEF PciCapGetInfo
  <2> QED BY <1>1, <1>5, <2>1 DEF PcInv, CapsPartitionSpace
<1> QED
  BY <1>1, <1>5, <1>6 DEF PcInv, PcTypeOK, ReadsLater, CapsInTheirSpace, OffsetsDiffer, InstancesCounted

\* In every state of PciCapLib, whatever lists the configuration space
\* holds, circular and overlapping ones included: a list handed to a caller
\* has its capabilities at different offsets within their own space, each
\* hint ends before the next capability and within the space, instances are
\* numbered without gaps, and PciCapRead stays within the hint.
THEOREM PciCapPartition == PcSpec => []CapsPartitionSpace
<1>1. PcInv /\ [PciCapNext]_pcVars => PcInv'
  <2> SUFFICES ASSUME PcInv, [PciCapNext]_pcVars PROVE PcInv'
    OBVIOUS
  <2>1. CASE UNCHANGED pcVars
    <3>1. \A k \in DOMAIN pcCaps : PciCapGetInfo(k)' = PciCapGetInfo(k)
      BY <2>1 DEF pcVars, PciCapGetInfo
    <3> QED BY <2>1, <3>1 DEF pcVars, PcInv, PcTypeOK, ReadsLater, CapsInTheirSpace, OffsetsDiffer,
                              InstancesCounted, CapsPartitionSpace
  <2> QED BY <2>1, ParseKeeps, DoneKeeps, AccessKeeps DEF PciCapNext
<1>2. PcInv => CapsPartitionSpace
  BY DEF PcInv
<1> QED
  BY PcInitEstablishes, <1>1, <1>2, PTL DEF PcSpec

-----------------------------------------------------------------------------
(* VirtioTransport.                                                        *)

\* The types of the variables of VirtioTransport.
VCapType == [type : {"common", "notify", "specific", "other"}, len : {"short", "base", "full"},
             bar : {"mem", "io", "bad"}, length : VLengths, mult : Nat]
BlockNames == {"common", "notify", "specific"}
VSel     == VQueues \cup {0}
VPage    == VRings \cup {0}
VRingReg == VPage \X VPage \X VPage \X {0, 1}
VFeat    == {0, 1} \X {0, 1}

VRegType == [sel : VSel, status : {0, 1}, fsel : {0, 1}, feat : VFeat,
             ring : [VQueues -> VRingReg], bells : SUBSET (VQueues \X VSel)]
VAskedType == [sel : VSel \cup {Unknown}, status : {0, 1, Unknown}, feat : VFeat \cup {Unknown},
               ring : [VQueues -> VPage \cup {Unknown}]]

VTypeOK ==
  /\ vCaps \in Seq(VCapType) /\ vInst \in Int
  /\ vBlock \in [BlockNames -> [exists : BOOLEAN, bar : {"mem", "io", "bad"}, len : Nat]]
  /\ vKind \in {"none", "v10", "pci", "failed"}
  /\ vReg \in VRegType /\ vTemp \in [sel : VSel, off : VSel] /\ vAsked \in VAskedType

\* The capabilities parsed so far.
Parsed == {i \in DOMAIN vCaps : i <= vInst}

\* Capability i is what block b was taken from.
LastOfItsType(b, i) ==
  /\ vCaps[i].type = b /\ vCaps[i].bar = vBlock[b].bar /\ vCaps[i].length = vBlock[b].len
  /\ \A j \in Parsed : j > i => ~(Interesting(vCaps[j]) /\ vCaps[j].type = b)

\* The blocks in use are the last ones parsed; the BARs of a bound device are mapped.
BlocksParsed ==
  \A b \in BlockNames : vBlock[b].exists =>
     /\ \E i \in Parsed : LastOfItsType(b, i)
     /\ b = "notify" => \E i \in Parsed : vCaps[i].type = b /\ vCaps[i].len = "full" /\ vCaps[i].mult = vMult
     /\ vKind = "v10" /\ vInst > Len(vCaps) => vBlock[b].bar \in vAttr

\* How far the member function that runs has got.
Access(blk, reg, val, size) == [blk |-> blk, reg |-> reg, do |-> "write", val |-> val, size |-> size]
OneWrite(reg, val) == \E blk \in {"common", "io"}, size \in {0, 1, 2, 4} : vTodo = <<Access(blk, reg, val, size)>>

\* Accesses that leave the registers of the device as they are.
Harmless(a) == \/ a.blk = "specific" \/ a.do = "read"
               \/ a.do = "write" /\ a.blk \in {"common", "io"} /\ a.reg \in {"DeviceFeatureSelect", "field"}

\* A call that only reads: nothing of it can disturb the device.
GetLeft ==
  /\ vCall.op = "get" /\ vTodo # << >>
  /\ \/ vTodo = <<vTodo[1]>> /\ Harmless(vTodo[1])
     \/ vTodo = <<Wr("DeviceFeatureSelect", 0), Rd("DeviceFeature"), Wr("DeviceFeatureSelect", 1), Rd("DeviceFeature")>>
     \/ vTodo = <<Rd("DeviceFeature"), Wr("DeviceFeatureSelect", 1), Rd("DeviceFeature")>>
     \/ vTodo = <<Wr("DeviceFeatureSelect", 1), Rd("DeviceFeature")>>
\* The calls that make a single write.
SelLeft == vCall.op = "sel" /\ vCall.arg \in VQueues /\ OneWrite("QueueSelect", vCall.arg)
StatusLeft == vCall.op = "status" /\ vCall.arg \in {0, 1} /\ OneWrite("DeviceStatus", vCall.arg)
PciNotifyLeft == vCall.op = "notify" /\ vCall.arg \in VQueues /\ vAsked.sel \in {Unknown, vReg.sel} /\ OneWrite("QueueNotify", vCall.arg)
PciRingLeft == vCall.op = "ring" /\ vCall.arg \in VRings /\ OneWrite("QueueAddress", vCall.arg)
PciFeatLeft == vCall.op = "feat" /\ vCall.arg \in VFeat /\ vCall.arg[2] = 0 /\ vKind = "pci" /\ OneWrite("DriverFeature", vCall.arg[1])

\* The two accesses of Virtio10SetQueueNotify that use what it kept.
Restore == Acc("common", "QueueSelect", "restore", 0)
Bell(q) == Acc("notify", "bell", "write", q)

\* Virtio10SetQueueNotify: the selector is in SavedQueueSelect while it is borrowed.
NotifyLeft ==
  /\ vCall.op = "notify" /\ vCall.arg \in VQueues
  /\ LET q == vCall.arg
     IN  \/ /\ vTodo = <<Rd("QueueSelect"), Wr("QueueSelect", q), Rd("QueueNotifyOff"), Restore, Bell(q)>>
            /\ vAsked.sel \in {Unknown, vReg.sel}
         \/ /\ vTodo = <<Wr("QueueSelect", q), Rd("QueueNotifyOff"), Restore, Bell(q)>>
            /\ vAsked.sel \in {Unknown, vTemp.sel}
         \/ /\ vTodo = <<Rd("QueueNotifyOff"), Restore, Bell(q)>>
            /\ vAsked.sel \in {Unknown, vTemp.sel} /\ vReg.sel = q
         \/ /\ vTodo = <<Restore, Bell(q)>>
            /\ vAsked.sel \in {Unknown, vTemp.sel} /\ vTemp.off = NotifyOff(q)
         \/ /\ vTodo = <<Bell(q)>>
            /\ vAsked.sel \in {Unknown, vReg.sel} /\ vTemp.off = NotifyOff(q)

\* Virtio10SetQueueAddress: the parts of the ring written so far.
SelectedRing == vReg.ring[vReg.sel]
RingLeft ==
  /\ vCall.op = "ring" /\ vCall.arg \in VRings
  /\ LET r == vCall.arg
     IN  \/ vTodo = <<Wr("QueueDesc", r), Wr("QueueAvail", r), Wr("QueueUsed", r), Wr("QueueEnable", 1)>>
         \/ /\ vTodo = <<Wr("QueueAvail", r), Wr("QueueUsed", r), Wr("QueueEnable", 1)>>
            /\ vReg.sel \in VQueues => SelectedRing[1] = r
         \/ /\ vTodo = <<Wr("QueueUsed", r), Wr("QueueEnable", 1)>>
            /\ vReg.sel \in VQueues => SelectedRing[1] = r /\ SelectedRing[2] = r
         \/ /\ vTodo = <<Wr("QueueEnable", 1)>>
            /\ vReg.sel \in VQueues => SelectedRing[1] = r /\ SelectedRing[2] = r /\ SelectedRing[3] = r

\* Virtio10SetGuestFeatures: the two halves, each behind its selector.
FeatLeft ==
  /\ vCall.op = "feat" /\ vCall.arg \in VFeat /\ vKind = "v10"
  /\ LET f == vCall.arg
     IN  \/ vTodo = <<Wr("DriverFeatureSelect", 0), Wr("DriverFeature", f[1]),
                      Wr("DriverFeatureSelect", 1), Wr("DriverFeature", f[2])>>
         \/ /\ vTodo = <<Wr("DriverFeature", f[1]), Wr("DriverFeatureSelect", 1), Wr("DriverFeature", f[2])>>
            /\ vReg.fsel = 0
         \/ /\ vTodo = <<Wr("DriverFeatureSelect", 1), Wr("DriverFeature", f[2])>>
            /\ vReg.feat[1] = f[1]
         \/ /\ vTodo = <<Wr("DriverFeature", f[2])>>
            /\ vReg.feat[1] = f[1] /\ vReg.fsel = 1

NoneLeft == vCall = NoVCall /\ vTodo = << >>

\* No call runs, or one has the rest of its accesses to make.
CallUnderWay ==
  \/ NoneLeft
  \/ /\ vInst > Len(vCaps) /\ vKind \in {"v10", "pci"}
     /\ \/ GetLeft \/ SelLeft \/ StatusLeft \/ PciNotifyLeft \/ PciRingLeft \/ PciFeatLeft
        \/ NotifyLeft \/ RingLeft \/ FeatLeft

\* The device has the ring that the driver gave it for a queue.
RingAgrees(q) ==
  vAsked.ring[q] \notin {Unknown, 0} =>
    vReg.ring[q] = <<vAsked.ring[q], vAsked.ring[q], vAsked.ring[q], 1>>

\* What the calls have set is in the device, but for what the running one is about to set.
AgreesSoFar ==
  /\ vCall.op # "notify" => vAsked.sel \in {Unknown, vReg.sel}
  /\ vAsked.status \in {Unknown, vReg.status}
  /\ vCall.op # "feat" => vAsked.feat \in {Unknown, vReg.feat}
  /\ \A q \in VQueues : (vCall.op = "ring" /\ q = vReg.sel) \/ RingAgrees(q)
  /\ \A b \in vReg.bells : b[2] = NotifyOff(b[1])
  /\ vKind = "pci" => vReg.fsel = 0 /\ vReg.feat[2] = 0

\* No register is written before the transport is bound.
UntouchedUntilBound == vInst <= Len(vCaps) => vReg = ResetRegisters

\* The inductive invariant: the part about the member functions, and all of it.
CallInv == VTypeOK /\ CallUnderWay /\ AgreesSoFar
VInv == CallInv /\ BlocksParsed /\ UntouchedUntilBound

-----------------------------------------------------------------------------
\* Lists of one to five accesses.
LEMMA TodoLists ==
  ASSUME NEW a, NEW b, NEW c, NEW d, NEW e
  PROVE  /\ Head(<<a>>) = a /\ Tail(<<a>>) = << >> /\ Len(<<a>>) = 1
         /\ Head(<<a, b>>) = a /\ Tail(<<a, b>>) = <<b>> /\ Len(<<a, b>>) # 1
         /\ Head(<<a, b, c>>) = a /\ Tail(<<a, b, c>>) = <<b, c>> /\ Len(<<a, b, c>>) # 1
         /\ Head(<<a, b, c, d>>) = a /\ Tail(<<a, b, c, d>>) = <<b, c, d>> /\ Len(<<a, b, c, d>>) # 1
         /\ Head(<<a, b, c, d, e>>) = a /\ Tail(<<a, b, c, d, e>>) = <<b, c, d, e>> /\ Len(<<a, b, c, d, e>>) # 1
<1>1. Head(<<a>>) = a /\ Tail(<<a>>) = << >> /\ Len(<<a>>) = 1
  OBVIOUS
<1>2. Head(<<a, b>>) = a /\ Tail(<<a, b>>) = <<b>> /\ Len(<<a, b>>) # 1
  OBVIOUS
<1>3. Head(<<a, b, c>>) = a /\ Tail(<<a, b, c>>) = <<b, c>> /\ Len(<<a, b, c>>) # 1
  OBVIOUS
<1>4. Head(<<a, b, c, d>>) = a /\ Tail(<<a, b, c, d>>) = <<b, c, d>> /\ Len(<<a, b, c, d>>) # 1
  OBVIOUS
<1>5. Head(<<a, b, c, d, e>>) = a /\ Tail(<<a, b, c, d, e>>) = <<b, c, d, e>> /\ Len(<<a, b, c, d, e>>) # 1
  OBVIOUS
<1> QED BY <1>1, <1>2, <1>3, <1>4, <1>5

\* A write of a register, through either kind of transport.
IsWrite(a, reg, val) == a.blk \in {"common", "io"} /\ a.do = "write" /\ a.reg = reg /\ a.val = val

\* The registers of the selected ring.
RingRegs == {"QueueDesc", "QueueAvail", "QueueUsed", "QueueEnable"}
\* The registers a ring is written to.
LEMMA RingPartDomain == DOMAIN RingPart = RingRegs
  BY DEF RingPart, RingRegs

\* What the device does on a write, register by register.
LEMMA WriteSelect ==
  ASSUME vReg \in VRegType, NEW v \in VSel, NEW a, IsWrite(a, "QueueSelect", v)
  PROVE  /\ DeviceDoes(a) \in VRegType /\ DeviceDoes(a).sel = v
         /\ DeviceDoes(a).status = vReg.status /\ DeviceDoes(a).fsel = vReg.fsel
         /\ DeviceDoes(a).feat = vReg.feat /\ DeviceDoes(a).ring = vReg.ring /\ DeviceDoes(a).bells = vReg.bells
<1>1. DeviceDoes(a) = [vReg EXCEPT !.sel = v]
  BY RingPartDomain DEF DeviceDoes, IsWrite, RingRegs
<1> QED BY <1>1 DEF VRegType

\* DeviceStatus, other than a reset.
LEMMA WriteStatus ==
  ASSUME vReg \in VRegType, NEW v, v = 1, NEW a, IsWrite(a, "DeviceStatus", v)
  PROVE  /\ DeviceDoes(a) \in VRegType /\ DeviceDoes(a).status = v
         /\ DeviceDoes(a).sel = vReg.sel /\ DeviceDoes(a).fsel = vReg.fsel
         /\ DeviceDoes(a).feat = vReg.feat /\ DeviceDoes(a).ring = vReg.ring /\ DeviceDoes(a).bells = vReg.bells
<1>1. DeviceDoes(a) = [vReg EXCEPT !.status = v]
  BY RingPartDomain DEF DeviceDoes, IsWrite, RingRegs
<1> QED BY <1>1 DEF VRegType

\* DriverFeatureSelect.
LEMMA WriteFeatureSelect ==
  ASSUME vReg \in VRegType, NEW v \in {0, 1}, NEW a, IsWrite(a, "DriverFeatureSelect", v)
  PROVE  /\ DeviceDoes(a) \in VRegType /\ DeviceDoes(a).fsel = v
         /\ DeviceDoes(a).sel = vReg.sel /\ DeviceDoes(a).status = vReg.status
         /\ DeviceDoes(a).feat = vReg.feat /\ DeviceDoes(a).ring = vReg.ring /\ DeviceDoes(a).bells = vReg.bells
<1>1. DeviceDoes(a) = [vReg EXCEPT !.fsel = v]
  BY RingPartDomain DEF DeviceDoes, IsWrite, RingRegs
<1> QED BY <1>1 DEF VRegType

\* A zero in DeviceStatus resets the device.
LEMMA WriteReset ==
  ASSUME NEW a, IsWrite(a, "DeviceStatus", 0)
  PROVE  DeviceDoes(a) = ResetRegisters
  BY RingPartDomain DEF DeviceDoes, IsWrite, RingRegs

\* QueueNotify of virtio 0.9.5 rings the doorbell of the queue itself.
LEMMA WriteNotify ==
  ASSUME vReg \in VRegType, NEW v \in VQueues, NEW a, IsWrite(a, "QueueNotify", v)
  PROVE  /\ DeviceDoes(a) \in VRegType /\ DeviceDoes(a).bells = vReg.bells \cup {<<v, NotifyOff(v)>>}
         /\ DeviceDoes(a).sel = vReg.sel /\ DeviceDoes(a).status = vReg.status /\ DeviceDoes(a).fsel = vReg.fsel
         /\ DeviceDoes(a).feat = vReg.feat /\ DeviceDoes(a).ring = vReg.ring
<1>1. DeviceDoes(a) = [vReg EXCEPT !.bells = @ \cup {<<v, NotifyOff(v)>>}]
  BY RingPartDomain DEF DeviceDoes, IsWrite, RingRegs
<1>2. <<v, NotifyOff(v)>> \in VQueues \X VSel
  BY DEF NotifyOff, VSel
<1> QED BY <1>1, <1>2 DEF VRegType

\* The half of the features that the selector shows changes, and no other.
LEMMA FeatWrites ==
  ASSUME NEW r \in VRegType, NEW n, NEW v \in {0, 1}, n = [r EXCEPT !.feat[r.fsel + 1] = v]
  PROVE  /\ n \in VRegType /\ n.sel = r.sel /\ n.status = r.status /\ n.fsel = r.fsel
         /\ n.feat = IF r.fsel = 0 THEN <<v, r.feat[2]>> ELSE <<r.feat[1], v>>
         /\ n.ring = r.ring /\ n.bells = r.bells
<1>1. r.feat \in VFeat /\ r.fsel \in {0, 1}
  BY DEF VRegType
<1> DEFINE f == [r.feat EXCEPT ![r.fsel + 1] = v]
<1>2. f = IF r.fsel = 0 THEN <<v, r.feat[2]>> ELSE <<r.feat[1], v>>
  BY <1>1 DEF VFeat
<1>3. f \in VFeat
  BY <1>1, <1>2 DEF VFeat
<1>4. n = [r EXCEPT !.feat = f]
  BY DEF VRegType
<1> HIDE DEF f
<1>5. /\ n \in VRegType /\ n.sel = r.sel /\ n.status = r.status /\ n.fsel = r.fsel /\ n.feat = f
      /\ n.ring = r.ring /\ n.bells = r.bells
  BY <1>3, <1>4 DEF VRegType
<1> QED BY <1>2, <1>5

\* DriverFeature.
LEMMA WriteFeature ==
  ASSUME vReg \in VRegType, NEW v \in {0, 1}, NEW a, IsWrite(a, "DriverFeature", v)
  PROVE  /\ DeviceDoes(a) \in VRegType
         /\ DeviceDoes(a).feat = IF vReg.fsel = 0 THEN <<v, vReg.feat[2]>> ELSE <<vReg.feat[1], v>>
         /\ DeviceDoes(a).sel = vReg.sel /\ DeviceDoes(a).status = vReg.status /\ DeviceDoes(a).fsel = vReg.fsel
         /\ DeviceDoes(a).ring = vReg.ring /\ DeviceDoes(a).bells = vReg.bells
<1>1. DeviceDoes(a) = [vReg EXCEPT !.feat[vReg.fsel + 1] = v]
  BY RingPartDomain DEF DeviceDoes, IsWrite, RingRegs
<1> QED BY <1>1, FeatWrites

\* The four ring registers of virtio 1.0 change one part of the selected ring.
LEMMA WriteRing ==
  ASSUME vReg \in VRegType, NEW reg \in RingRegs, NEW v, v \in IF RingPart[reg] = 4 THEN {0, 1} ELSE VPage,
         NEW a, IsWrite(a, reg, v)
  PROVE  /\ DeviceDoes(a) \in VRegType /\ RingPart[reg] \in 1 .. 4
         /\ DeviceDoes(a).sel = vReg.sel /\ DeviceDoes(a).status = vReg.status /\ DeviceDoes(a).fsel = vReg.fsel
         /\ DeviceDoes(a).feat = vReg.feat /\ DeviceDoes(a).bells = vReg.bells
         /\ \A q \in VQueues : q # vReg.sel => DeviceDoes(a).ring[q] = vReg.ring[q]
         /\ vReg.sel \in VQueues =>
              /\ DeviceDoes(a).ring[vReg.sel][RingPart[reg]] = v
              /\ \A j \in 1 .. 4 : j # RingPart[reg] => DeviceDoes(a).ring[vReg.sel][j] = vReg.ring[vReg.sel][j]
<1>1. DeviceDoes(a) = [vReg EXCEPT !.ring[vReg.sel][RingPart[reg]] = v]
  BY RingPartDomain DEF DeviceDoes, IsWrite, RingRegs
<1>2. RingPart[reg] \in 1 .. 4
  BY DEF RingPart, RingRegs
<1> DEFINE i == RingPart[reg]
           n == DeviceDoes(a)
           g == [vReg.ring EXCEPT ![vReg.sel][i] = v]
<1>3. i \in 1 .. 4 /\ n = [vReg EXCEPT !.ring = g] /\ v \in IF i = 4 THEN {0, 1} ELSE VPage
  BY <1>1, <1>2
<1> HIDE DEF i, n
<1>4. vReg.ring \in [VQueues -> VRingReg]
  BY DEF VRegType
<1>5. ASSUME NEW t \in VRingReg
      PROVE  [t EXCEPT ![i] = v] \in VRingReg
  BY <1>3 DEF VRingReg
<1>6. g \in [VQueues -> VRingReg]
  BY <1>4, <1>5
<1>7. \A q \in VQueues : q # vReg.sel => g[q] = vReg.ring[q]
  BY <1>4
<1>8. vReg.sel \in VQueues =>
        g[vReg.sel][i] = v /\ \A j \in 1 .. 4 : j # i => g[vReg.sel][j] = vReg.ring[vReg.sel][j]
  BY <1>3, <1>4 DEF VRingReg
<1> HIDE DEF g
<1>9. /\ n \in VRegType /\ n.ring = g
      /\ n.sel = vReg.sel /\ n.status = vReg.status /\ n.fsel = vReg.fsel /\ n.feat = vReg.feat /\ n.bells = vReg.bells
  BY <1>3, <1>6 DEF VRegType
<1> QED BY <1>2, <1>7, <1>8, <1>9 DEF i, n

\* QueueAddress of virtio 0.9.5 gives the whole ring.
LEMMA WriteAddress ==
  ASSUME vReg \in VRegType, NEW v \in VRings, NEW a, IsWrite(a, "QueueAddress", v)
  PROVE  /\ DeviceDoes(a) \in VRegType
         /\ DeviceDoes(a).sel = vReg.sel /\ DeviceDoes(a).status = vReg.status /\ DeviceDoes(a).fsel = vReg.fsel
         /\ DeviceDoes(a).feat = vReg.feat /\ DeviceDoes(a).bells = vReg.bells
         /\ \A q \in VQueues : DeviceDoes(a).ring[q] = IF q = vReg.sel THEN <<v, v, v, 1>> ELSE vReg.ring[q]
<1> DEFINE t == <<v, v, v, 1>>
<1>1. DeviceDoes(a) = [vReg EXCEPT !.ring[vReg.sel] = t]
  BY RingPartDomain DEF DeviceDoes, IsWrite, RingRegs
<1>2. t \in VRingReg
  BY DEF VRingReg, VPage
<1> HIDE DEF t
<1>3. /\ DeviceDoes(a) \in VRegType
      /\ DeviceDoes(a).sel = vReg.sel /\ DeviceDoes(a).status = vReg.status /\ DeviceDoes(a).fsel = vReg.fsel
      /\ DeviceDoes(a).feat = vReg.feat /\ DeviceDoes(a).bells = vReg.bells
      /\ \A q \in VQueues : DeviceDoes(a).ring[q] = IF q = vReg.sel THEN t ELSE vReg.ring[q]
  BY <1>1, <1>2 DEF VRegType
<1> QED BY <1>3 DEF t

\* The last access of a call, and one that is not the last.
LEMMA LastAccess ==
  ASSUME VAccess, NEW a, vTodo = <<a>>
  PROVE  /\ vReg' = DeviceDoes(a) /\ vTemp' = Keeps(a) /\ vTodo' = << >>
         /\ vCall' = NoVCall /\ vAsked' = Asked(vCall.arg)
  BY TodoLists DEF VAccess

\* An access that is not the last leaves the rest of the list.
LEMMA NextAccess ==
  ASSUME VAccess, NEW a, NEW b, NEW c, NEW d, NEW e
  PROVE  /\ vTodo = <<a, b>> => vReg' = DeviceDoes(a) /\ vTemp' = Keeps(a) /\ vTodo' = <<b>> /\ UNCHANGED <<vCall, vAsked>>
         /\ vTodo = <<a, b, c>> => vReg' = DeviceDoes(a) /\ vTemp' = Keeps(a) /\ vTodo' = <<b, c>> /\ UNCHANGED <<vCall, vAsked>>
         /\ vTodo = <<a, b, c, d>> => vReg' = DeviceDoes(a) /\ vTemp' = Keeps(a) /\ vTodo' = <<b, c, d>> /\ UNCHANGED <<vCall, vAsked>>
         /\ vTodo = <<a, b, c, d, e>> =>
              vReg' = DeviceDoes(a) /\ vTemp' = Keeps(a) /\ vTodo' = <<b, c, d, e>> /\ UNCHANGED <<vCall, vAsked>>
<1>0. \A x, y : Len(x) # 1 /\ vTodo = x /\ Head(x) = a /\ Tail(x) = y =>
          vReg' = DeviceDoes(a) /\ vTemp' = Keeps(a) /\ vTodo' = y /\ UNCHANGED <<vCall, vAsked>>
  BY DEF VAccess
<1>1. /\ Head(<<a, b>>) = a /\ Tail(<<a, b>>) = <<b>> /\ Len(<<a, b>>) # 1
      /\ Head(<<a, b, c>>) = a /\ Tail(<<a, b, c>>) = <<b, c>> /\ Len(<<a, b, c>>) # 1
      /\ Head(<<a, b, c, d>>) = a /\ Tail(<<a, b, c, d>>) = <<b, c, d>> /\ Len(<<a, b, c, d>>) # 1
      /\ Head(<<a, b, c, d, e>>) = a /\ Tail(<<a, b, c, d, e>>) = <<b, c, d, e>> /\ Len(<<a, b, c, d, e>>) # 1
  BY TodoLists
<1> QED BY <1>0, <1>1, Zenon

\* What is recorded when a call returns.
LEMMA AskedNothing ==
  ASSUME NEW v
  PROVE  /\ vCall.op = "get" => Asked(v) = vAsked
         /\ vCall.op = "notify" /\ v # Unknown => Asked(v) = vAsked
<1>1. vCall.op = "get" => Asked(v) = vAsked
  BY DEF Asked
<1>2. vCall.op = "notify" /\ v # Unknown => Asked(v) = vAsked
  BY DEF Asked
<1> QED BY <1>1, <1>2

\* A selection is recorded.
LEMMA AskedSel ==
  ASSUME vAsked \in VAskedType, vCall.op = "sel", NEW v \in VSel \cup {Unknown}
  PROVE  /\ Asked(v) \in VAskedType /\ Asked(v).sel = v
         /\ Asked(v).status = vAsked.status /\ Asked(v).feat = vAsked.feat /\ Asked(v).ring = vAsked.ring
<1>1. Asked(v) = [vAsked EXCEPT !.sel = v]
  BY DEF Asked
<1> QED BY <1>1 DEF VAskedType

\* A notification that failed may have left another queue selected.
LEMMA AskedNotify ==
  ASSUME vAsked \in VAskedType, vCall.op = "notify", NEW v, v = Unknown
  PROVE  /\ Asked(v) \in VAskedType /\ Asked(v).sel = v
         /\ Asked(v).status = vAsked.status /\ Asked(v).feat = vAsked.feat /\ Asked(v).ring = vAsked.ring
<1>1. Asked(v) = [vAsked EXCEPT !.sel = v]
  BY DEF Asked
<1> QED BY <1>1 DEF VAskedType

\* A status other than zero is recorded.
LEMMA AskedStatus ==
  ASSUME vAsked \in VAskedType, vCall.op = "status", NEW v \in {1, Unknown}, v # 0
  PROVE  /\ Asked(v) \in VAskedType /\ Asked(v).status = v
         /\ Asked(v).sel = vAsked.sel /\ Asked(v).feat = vAsked.feat /\ Asked(v).ring = vAsked.ring
<1>1. Asked(v) = [vAsked EXCEPT !.status = v]
  BY DEF Asked
<1> QED BY <1>1 DEF VAskedType

\* Features are recorded.
LEMMA AskedFeat ==
  ASSUME vAsked \in VAskedType, vCall.op = "feat", NEW v \in VFeat \cup {Unknown}
  PROVE  /\ Asked(v) \in VAskedType /\ Asked(v).feat = v
         /\ Asked(v).sel = vAsked.sel /\ Asked(v).status = vAsked.status /\ Asked(v).ring = vAsked.ring
<1>1. Asked(v) = [vAsked EXCEPT !.feat = v]
  BY DEF Asked
<1> QED BY <1>1 DEF VAskedType

\* A ring is recorded for the selected queue.
LEMMA AskedRing ==
  ASSUME vAsked \in VAskedType, vCall.op = "ring", NEW v \in VPage \cup {Unknown}, vAsked.sel # Unknown
  PROVE  /\ Asked(v) \in VAskedType /\ \A q \in VQueues : Asked(v).ring[q] = IF q = vAsked.sel THEN v ELSE vAsked.ring[q]
         /\ Asked(v).sel = vAsked.sel /\ Asked(v).status = vAsked.status /\ Asked(v).feat = vAsked.feat
<1>1. Asked(v) = [vAsked EXCEPT !.ring[vAsked.sel] = v]
  BY DEF Asked
<1> QED BY <1>1 DEF VAskedType

\* A ring given to an unknown queue leaves every ring unknown.
LEMMA AskedRingLost ==
  ASSUME vAsked \in VAskedType, vCall.op = "ring", NEW v, vAsked.sel = Unknown
  PROVE  /\ Asked(v) \in VAskedType /\ \A q \in VQueues : Asked(v).ring[q] = Unknown
         /\ Asked(v).sel = vAsked.sel /\ Asked(v).status = vAsked.status /\ Asked(v).feat = vAsked.feat
<1>1. Asked(v) = [vAsked EXCEPT !.ring = [q \in VQueues |-> Unknown]]
  BY DEF Asked
<1> QED BY <1>1 DEF VAskedType

\* A reset leaves nothing set.
LEMMA AskedReset ==
  ASSUME vCall.op = "status"
  PROVE  Asked(0) = [sel |-> 0, status |-> 0, feat |-> <<0, 0>>, ring |-> [q \in VQueues |-> 0]]
  BY DEF Asked

\* What a call keeps in SavedQueueSelect and NotifyOffset.
TempType == [sel : VSel, off : VSel]

\* A call has returned, and what is recorded of it agrees with the device.
LEMMA Returned ==
  ASSUME VTypeOK, UNCHANGED <<vCaps, vInst, vBlock, vMult, vAttr, vKind>>, vCall' = NoVCall, vTodo' = << >>,
         vReg' \in VRegType, vTemp' \in TempType, vAsked' \in VAskedType,
         vAsked'.sel \in {Unknown, vReg'.sel}, vAsked'.status \in {Unknown, vReg'.status},
         vAsked'.feat \in {Unknown, vReg'.feat},
         \A q \in VQueues : vAsked'.ring[q] \notin {Unknown, 0} =>
            vReg'.ring[q] = <<vAsked'.ring[q], vAsked'.ring[q], vAsked'.ring[q], 1>>,
         \A b \in vReg'.bells : b[2] = NotifyOff(b[1]),
         vKind = "pci" => vReg'.fsel = 0 /\ vReg'.feat[2] = 0
  PROVE  CallInv'
<1>1. VTypeOK'
  BY DEF VTypeOK, TempType
<1>2. CallUnderWay'
  BY DEF CallUnderWay, NoneLeft
<1>3. AgreesSoFar'
  BY DEF AgreesSoFar, RingAgrees
<1> QED BY <1>1, <1>2, <1>3 DEF CallInv

\* A read, or a write that concerns no other call, keeps what SavedQueueSelect and NotifyOffset are.
LEMMA KeepsTyped ==
  ASSUME VTypeOK, NEW a
  PROVE  Keeps(a) \in TempType
<1>1. vTemp \in TempType /\ vReg.sel \in VSel
  BY DEF VTypeOK, TempType, VRegType
<1>2. NotifyOff(vReg.sel) \in VSel
  BY <1>1 DEF NotifyOff
<1>3. [vTemp EXCEPT !.sel = vReg.sel] \in TempType
  BY <1>1 DEF TempType
<1>4. [vTemp EXCEPT !.off = NotifyOff(vReg.sel)] \in TempType
  BY <1>1, <1>2 DEF TempType
<1>5. Keeps(a) \in {vTemp, [vTemp EXCEPT !.sel = vReg.sel], [vTemp EXCEPT !.off = NotifyOff(vReg.sel)]}
  <2>1. CASE a.blk # "common"
    BY <2>1 DEF Keeps, Rd, Acc
  <2>2. CASE a = Rd("QueueSelect")
    <3>1. a.blk = "common" /\ a # Rd("QueueNotifyOff")
      BY <2>2 DEF Rd, Acc
    <3> QED BY <2>2, <3>1 DEF Keeps
  <2>3. CASE a = Rd("QueueNotifyOff")
    <3>1. a.blk = "common" /\ a # Rd("QueueSelect")
      BY <2>3 DEF Rd, Acc
    <3> QED BY <2>3, <3>1 DEF Keeps
  <2>4. CASE a.blk = "common" /\ a # Rd("QueueSelect") /\ a # Rd("QueueNotifyOff")
    BY <2>4 DEF Keeps
  <2> QED BY <2>1, <2>2, <2>3, <2>4
<1> QED BY <1>1, <1>3, <1>4, <1>5

\* The functions of VirtioPciDeviceDxe, and those of Virtio10Dxe that make one write.
LEMMA OneWriteCalls ==
  ASSUME CallInv, VAccess, vCall # NoVCall,
         SelLeft \/ StatusLeft \/ PciNotifyLeft \/ PciRingLeft \/ PciFeatLeft
  PROVE  CallInv'
<1>0. VTypeOK /\ AgreesSoFar /\ UNCHANGED <<vCaps, vInst, vBlock, vMult, vAttr, vKind>>
  BY DEF CallInv, VAccess
<1>t. vReg \in VRegType /\ vAsked \in VAskedType
  BY <1>0 DEF VTypeOK
<1>a. \A reg, val : OneWrite(reg, val) =>
        \E a : vTodo = <<a>> /\ IsWrite(a, reg, val)
  <2> SUFFICES ASSUME NEW reg, NEW val, OneWrite(reg, val)
               PROVE  \E a : vTodo = <<a>> /\ IsWrite(a, reg, val)
    OBVIOUS
  <2>1. PICK blk \in {"common", "io"}, size \in {0, 1, 2, 4} : vTodo = <<Access(blk, reg, val, size)>>
    BY DEF OneWrite
  <2>2. /\ Access(blk, reg, val, size).blk = blk /\ Access(blk, reg, val, size).do = "write"
        /\ Access(blk, reg, val, size).reg = reg /\ Access(blk, reg, val, size).val = val
    BY DEF Access
  <2> QED BY <2>1, <2>2 DEF IsWrite
<1>u. Unknown \notin VQueues \cup VRings \cup {0, 1}
  BY VTransportAssumption
<1>l. \A reg, val : OneWrite(reg, val) =>
        \E a : /\ IsWrite(a, reg, val) /\ vReg' = DeviceDoes(a) /\ vTemp' \in TempType /\ vTodo' = << >>
              /\ vCall' = NoVCall /\ vAsked' = Asked(vCall.arg)
  <2> SUFFICES ASSUME NEW reg, NEW val, OneWrite(reg, val)
               PROVE  \E a : /\ IsWrite(a, reg, val) /\ vReg' = DeviceDoes(a) /\ vTemp' \in TempType /\ vTodo' = << >>
                            /\ vCall' = NoVCall /\ vAsked' = Asked(vCall.arg)
    OBVIOUS
  <2>1. PICK a : vTodo = <<a>> /\ IsWrite(a, reg, val)
    BY <1>a
  <2>2. /\ vReg' = DeviceDoes(a) /\ vTemp' = Keeps(a) /\ vTodo' = << >>
        /\ vCall' = NoVCall /\ vAsked' = Asked(vCall.arg)
    BY <2>1, LastAccess
  <2> QED BY <2>1, <2>2, <1>0, KeepsTyped
<1>1. CASE SelLeft
  <2>1. vCall.arg \in VQueues /\ vCall.arg \in VSel /\ vCall.op = "sel"
    BY <1>1 DEF SelLeft, VSel
  <2>2. PICK a : /\ IsWrite(a, "QueueSelect", vCall.arg) /\ vReg' = DeviceDoes(a) /\ vTemp' \in TempType /\ vTodo' = << >>
                 /\ vCall' = NoVCall /\ vAsked' = Asked(vCall.arg)
    BY <1>1, <1>l DEF SelLeft
  <2>3. /\ vReg' \in VRegType /\ vReg'.sel = vCall.arg /\ vReg'.status = vReg.status /\ vReg'.fsel = vReg.fsel
        /\ vReg'.feat = vReg.feat /\ vReg'.ring = vReg.ring /\ vReg'.bells = vReg.bells
    BY <2>1, <2>2, <1>t, WriteSelect
  <2>4. /\ vAsked' \in VAskedType /\ vAsked'.sel = vCall.arg /\ vAsked'.status = vAsked.status
        /\ vAsked'.feat = vAsked.feat /\ vAsked'.ring = vAsked.ring
    BY <2>1, <2>2, <1>t, AskedSel
  <2> QED
    BY <1>0, <2>1, <2>2, <2>3, <2>4, Returned DEF AgreesSoFar, RingAgrees
<1>2. CASE StatusLeft
  <2>1. vCall.arg \in {0, 1} /\ vCall.op = "status"
    BY <1>2 DEF StatusLeft
  <2>2. PICK a : /\ IsWrite(a, "DeviceStatus", vCall.arg) /\ vReg' = DeviceDoes(a) /\ vTemp' \in TempType /\ vTodo' = << >>
                 /\ vCall' = NoVCall /\ vAsked' = Asked(vCall.arg)
    BY <1>2, <1>l DEF StatusLeft
  <2>4. CASE vCall.arg = 0
    <3>1. vReg' = ResetRegisters
      BY <2>2, <2>4, WriteReset
    <3>2. /\ vReg' \in VRegType /\ vReg'.sel = 0 /\ vReg'.status = 0 /\ vReg'.feat = <<0, 0>> /\ vReg'.fsel = 0
          /\ vReg'.bells = {}
      BY <3>1 DEF ResetRegisters, VRegType, VSel, VFeat, VRingReg, VPage
    <3>3. vAsked' = [sel |-> 0, status |-> 0, feat |-> <<0, 0>>, ring |-> [q \in VQueues |-> 0]]
      BY <2>1, <2>2, <2>4, AskedReset
    <3>4. vAsked' \in VAskedType /\ \A q \in VQueues : vAsked'.ring[q] = 0
      BY <3>3 DEF VAskedType, VSel, VFeat, VPage
    <3>5. vAsked'.sel = 0 /\ vAsked'.status = 0 /\ vAsked'.feat = <<0, 0>>
      BY <3>3
    <3> QED BY <1>0, <2>2, <3>2, <3>4, <3>5, Returned
  <2>5. CASE vCall.arg = 1
    <3>2. /\ vReg' \in VRegType /\ vReg'.sel = vReg.sel /\ vReg'.status = 1 /\ vReg'.fsel = vReg.fsel
          /\ vReg'.feat = vReg.feat /\ vReg'.ring = vReg.ring /\ vReg'.bells = vReg.bells
      BY <2>2, <2>5, <1>t, WriteStatus
    <3>3. /\ vAsked' \in VAskedType /\ vAsked'.sel = vAsked.sel /\ vAsked'.status = 1
          /\ vAsked'.feat = vAsked.feat /\ vAsked'.ring = vAsked.ring
      BY <2>1, <2>2, <2>5, <1>t, AskedStatus
    <3> QED BY <1>0, <2>2, <2>1, <3>2, <3>3, Returned DEF AgreesSoFar, RingAgrees
  <2> QED BY <2>1, <2>4, <2>5
<1>3. CASE PciNotifyLeft
  <2>1. vCall.arg \in VQueues /\ vCall.op = "notify" /\ vAsked.sel \in {Unknown, vReg.sel}
    BY <1>3 DEF PciNotifyLeft
  <2>2. PICK a : /\ IsWrite(a, "QueueNotify", vCall.arg) /\ vReg' = DeviceDoes(a) /\ vTemp' \in TempType /\ vTodo' = << >>
                 /\ vCall' = NoVCall /\ vAsked' = Asked(vCall.arg)
    BY <1>3, <1>l DEF PciNotifyLeft
  <2>3. vAsked' = vAsked
    BY <2>1, <2>2, <1>u, AskedNothing
  <2>5. /\ vReg' \in VRegType /\ vReg'.sel = vReg.sel /\ vReg'.status = vReg.status /\ vReg'.fsel = vReg.fsel
        /\ vReg'.feat = vReg.feat /\ vReg'.ring = vReg.ring
        /\ vReg'.bells = vReg.bells \cup {<<vCall.arg, NotifyOff(vCall.arg)>>}
    BY <2>1, <2>2, <1>t, WriteNotify
  <2>6. \A b \in vReg'.bells : b[2] = NotifyOff(b[1])
    BY <2>5, <1>0 DEF AgreesSoFar
  <2> QED BY <1>0, <1>t, <2>1, <2>2, <2>3, <2>5, <2>6, Returned DEF AgreesSoFar, RingAgrees
<1>4. CASE PciRingLeft
  <2>1. vCall.arg \in VRings /\ vCall.op = "ring" /\ vCall.arg \in VPage \cup {Unknown}
    BY <1>4 DEF PciRingLeft, VPage
  <2>2. PICK a : /\ IsWrite(a, "QueueAddress", vCall.arg) /\ vReg' = DeviceDoes(a) /\ vTemp' \in TempType /\ vTodo' = << >>
                 /\ vCall' = NoVCall /\ vAsked' = Asked(vCall.arg)
    BY <1>4, <1>l DEF PciRingLeft
  <2>5. /\ vReg' \in VRegType /\ vReg'.sel = vReg.sel /\ vReg'.status = vReg.status /\ vReg'.fsel = vReg.fsel
        /\ vReg'.feat = vReg.feat /\ vReg'.bells = vReg.bells
        /\ \A q \in VQueues : vReg'.ring[q] = IF q = vReg.sel THEN <<vCall.arg, vCall.arg, vCall.arg, 1>> ELSE vReg.ring[q]
    BY <2>1, <2>2, <1>t, WriteAddress
  <2>6. CASE vAsked.sel = Unknown
    <3>2. /\ vAsked' \in VAskedType /\ vAsked'.sel = vAsked.sel /\ vAsked'.status = vAsked.status /\ vAsked'.feat = vAsked.feat
          /\ \A q \in VQueues : vAsked'.ring[q] = Unknown
      BY <2>1, <2>2, <2>6, <1>t, AskedRingLost
    <3> QED BY <1>0, <2>1, <2>2, <2>5, <3>2, Returned DEF AgreesSoFar
  <2>7. CASE vAsked.sel # Unknown
    <3>3. /\ vAsked' \in VAskedType /\ vAsked'.sel = vAsked.sel /\ vAsked'.status = vAsked.status /\ vAsked'.feat = vAsked.feat
          /\ \A q \in VQueues : vAsked'.ring[q] = IF q = vAsked.sel THEN vCall.arg ELSE vAsked.ring[q]
      BY <2>1, <2>2, <2>7, <1>t, AskedRing
    <3>4. vAsked.sel = vReg.sel
      BY <2>7, <2>1, <1>0 DEF AgreesSoFar
    <3>5. \A q \in VQueues : vAsked'.ring[q] \notin {Unknown, 0} =>
            vReg'.ring[q] = <<vAsked'.ring[q], vAsked'.ring[q], vAsked'.ring[q], 1>>
      <4> TAKE q \in VQueues
      <4>1. CASE q = vReg.sel
        BY <4>1, <3>3, <3>4, <2>5
      <4>2. CASE q # vReg.sel
        BY <4>2, <3>3, <3>4, <2>5, <1>0 DEF AgreesSoFar, RingAgrees
      <4> QED BY <4>1, <4>2
    <3> QED BY <1>0, <2>1, <2>2, <2>5, <3>3, <3>5, Returned DEF AgreesSoFar
  <2> QED BY <2>6, <2>7
<1>5. CASE PciFeatLeft
  <2>1. vCall.arg \in VFeat /\ vCall.arg[2] = 0 /\ vCall.op = "feat" /\ vKind = "pci"
    BY <1>5 DEF PciFeatLeft
  <2>2. PICK a : /\ IsWrite(a, "DriverFeature", vCall.arg[1]) /\ vReg' = DeviceDoes(a) /\ vTemp' \in TempType /\ vTodo' = << >>
                 /\ vCall' = NoVCall /\ vAsked' = Asked(vCall.arg)
    BY <1>5, <1>l DEF PciFeatLeft
  <2>4. vReg.fsel = 0 /\ vReg.feat[2] = 0 /\ vCall.arg[1] \in {0, 1}
    BY <1>0, <2>1 DEF AgreesSoFar, VFeat
  <2>5. /\ vReg' \in VRegType /\ vReg'.sel = vReg.sel /\ vReg'.status = vReg.status /\ vReg'.fsel = vReg.fsel
        /\ vReg'.feat = <<vCall.arg[1], 0>> /\ vReg'.bells = vReg.bells /\ vReg'.ring = vReg.ring
    BY <2>2, <2>4, <1>t, WriteFeature
  <2>6. vCall.arg = <<vCall.arg[1], 0>>
    BY <2>1 DEF VFeat
  <2>7. /\ vAsked' \in VAskedType /\ vAsked'.sel = vAsked.sel /\ vAsked'.status = vAsked.status
        /\ vAsked'.feat = vCall.arg /\ vAsked'.ring = vAsked.ring
    BY <2>1, <2>2, <1>t, AskedFeat
  <2> QED BY <1>0, <2>1, <2>2, <2>4, <2>5, <2>6, <2>7, Returned DEF AgreesSoFar, RingAgrees
<1> QED BY <1>1, <1>2, <1>3, <1>4, <1>5

\* A call goes on: the types and what concerns no running call.
LEMMA GoesOn ==
  ASSUME VTypeOK, vInst > Len(vCaps), vKind \in {"v10", "pci"},
         UNCHANGED <<vCaps, vInst, vBlock, vMult, vAttr, vKind, vCall, vAsked>>,
         vReg' \in VRegType, vTemp' \in TempType,
         (GetLeft \/ NotifyLeft \/ RingLeft \/ FeatLeft)'
  PROVE  VTypeOK' /\ CallUnderWay'
<1>1. VTypeOK'
  BY DEF VTypeOK, TempType
<1>2. CallUnderWay'
  BY DEF CallUnderWay
<1> QED BY <1>1, <1>2

\* Reads change nothing; Restore and Bell use what was kept.
LEMMA ReadsAndRestore ==
  /\ \A reg : DeviceDoes(Rd(reg)) = vReg
  /\ Keeps(Rd("QueueSelect")) = [vTemp EXCEPT !.sel = vReg.sel]
  /\ Keeps(Rd("QueueNotifyOff")) = [vTemp EXCEPT !.off = NotifyOff(vReg.sel)]
  /\ \A reg, v : Keeps(Wr(reg, v)) = vTemp /\ IsWrite(Wr(reg, v), reg, v)
  /\ Keeps(Restore) = vTemp /\ DeviceDoes(Restore) = [vReg EXCEPT !.sel = vTemp.sel]
  /\ \A q : Keeps(Bell(q)) = vTemp /\ DeviceDoes(Bell(q)) = [vReg EXCEPT !.bells = @ \cup {<<q, vTemp.off>>}]
<1>1. \A reg : DeviceDoes(Rd(reg)) = vReg
  BY DEF DeviceDoes, Rd, Acc
<1>2. Keeps(Rd("QueueSelect")) = [vTemp EXCEPT !.sel = vReg.sel]
  BY DEF Keeps, Rd, Acc
<1>3. Keeps(Rd("QueueNotifyOff")) = [vTemp EXCEPT !.off = NotifyOff(vReg.sel)]
  BY DEF Keeps, Rd, Acc
<1>4. \A reg, v : Keeps(Wr(reg, v)) = vTemp
  BY DEF Keeps, Wr, Rd, Acc
<1>5. \A reg, v : IsWrite(Wr(reg, v), reg, v)
  BY DEF Wr, Acc, IsWrite
<1>6. Keeps(Restore) = vTemp
  BY DEF Keeps, Restore, Rd, Acc
<1>7. DeviceDoes(Restore) = [vReg EXCEPT !.sel = vTemp.sel]
  BY RingPartDomain DEF DeviceDoes, Restore, Acc, RingRegs
<1>8. \A q : Keeps(Bell(q)) = vTemp
  BY DEF Keeps, Bell, Rd, Acc
<1>9. \A q : DeviceDoes(Bell(q)) = [vReg EXCEPT !.bells = @ \cup {<<q, vTemp.off>>}]
  BY RingPartDomain DEF DeviceDoes, Bell, Acc, RingRegs
<1> QED BY <1>1, <1>2, <1>3, <1>4, <1>5, <1>6, <1>7, <1>8, <1>9

\* Virtio10SetQueueNotify borrows the queue selector and gives it back before the doorbell.
LEMMA NotifyCall ==
  ASSUME CallInv, VAccess, NotifyLeft, vInst > Len(vCaps), vKind \in {"v10", "pci"}
  PROVE  CallInv'
<1>0. VTypeOK /\ AgreesSoFar /\ UNCHANGED <<vCaps, vInst, vBlock, vMult, vAttr, vKind>>
  BY DEF CallInv, VAccess
<1>t. vReg \in VRegType /\ vAsked \in VAskedType /\ vTemp \in TempType
  BY <1>0 DEF VTypeOK, TempType
<1>q. vCall.op = "notify" /\ vCall.arg \in VQueues /\ vCall.arg \in VSel
  BY DEF NotifyLeft, VSel
<1>u. Unknown \notin VQueues
  BY VTransportAssumption
<1> DEFINE q == vCall.arg
           A1 == <<Rd("QueueSelect"), Wr("QueueSelect", q), Rd("QueueNotifyOff"), Restore, Bell(q)>>
           A2 == <<Wr("QueueSelect", q), Rd("QueueNotifyOff"), Restore, Bell(q)>>
           A3 == <<Rd("QueueNotifyOff"), Restore, Bell(q)>>
           A4 == <<Restore, Bell(q)>>
           A5 == <<Bell(q)>>
<1>c. \/ vTodo = A1 /\ vAsked.sel \in {Unknown, vReg.sel}
      \/ vTodo = A2 /\ vAsked.sel \in {Unknown, vTemp.sel}
      \/ vTodo = A3 /\ vAsked.sel \in {Unknown, vTemp.sel} /\ vReg.sel = q
      \/ vTodo = A4 /\ vAsked.sel \in {Unknown, vTemp.sel} /\ vTemp.off = NotifyOff(q)
      \/ vTodo = A5 /\ vAsked.sel \in {Unknown, vReg.sel} /\ vTemp.off = NotifyOff(q)
  BY DEF NotifyLeft
<1>g. ASSUME vReg' \in VRegType, vTemp' \in TempType, UNCHANGED <<vCall, vAsked>>,
             vReg'.status = vReg.status, vReg'.fsel = vReg.fsel, vReg'.feat = vReg.feat, vReg'.ring = vReg.ring,
             vReg'.bells = vReg.bells,
             \/ vTodo' = A2 /\ vAsked.sel \in {Unknown, vTemp'.sel}
             \/ vTodo' = A3 /\ vAsked.sel \in {Unknown, vTemp'.sel} /\ vReg'.sel = q
             \/ vTodo' = A4 /\ vAsked.sel \in {Unknown, vTemp'.sel} /\ vTemp'.off = NotifyOff(q)
             \/ vTodo' = A5 /\ vAsked.sel \in {Unknown, vReg'.sel} /\ vTemp'.off = NotifyOff(q)
      PROVE  CallInv'
  <2>1. NotifyLeft'
    BY <1>g, <1>q DEF NotifyLeft
  <2>2. VTypeOK' /\ CallUnderWay'
    BY <1>0, <1>g, <2>1, GoesOn
  <2>3. AgreesSoFar'
    BY <1>0, <1>g, <1>q DEF AgreesSoFar, RingAgrees
  <2> QED BY <2>2, <2>3 DEF CallInv
<1>1. CASE vTodo = A1 /\ vAsked.sel \in {Unknown, vReg.sel}
  <2>1. vReg' = vReg /\ vTemp' = [vTemp EXCEPT !.sel = vReg.sel] /\ vTodo' = A2 /\ UNCHANGED <<vCall, vAsked>>
    <3>1. vReg' = DeviceDoes(Rd("QueueSelect")) /\ vTemp' = Keeps(Rd("QueueSelect")) /\ vTodo' = A2 /\ UNCHANGED <<vCall, vAsked>>
      BY <1>1, NextAccess
    <3> QED BY <3>1, ReadsAndRestore
  <2>2. vTemp' \in TempType /\ vTemp'.sel = vReg.sel
    BY <2>1, <1>t DEF TempType, VRegType
  <2> QED BY <1>1, <1>t, <2>1, <2>2, <1>g
<1>2. CASE vTodo = A2 /\ vAsked.sel \in {Unknown, vTemp.sel}
  <2>1. vReg' = DeviceDoes(Wr("QueueSelect", q)) /\ vTemp' = Keeps(Wr("QueueSelect", q)) /\ vTodo' = A3 /\ UNCHANGED <<vCall, vAsked>>
    BY <1>2, NextAccess
  <2>2. vTemp' = vTemp /\ IsWrite(Wr("QueueSelect", q), "QueueSelect", q)
    BY <2>1, ReadsAndRestore
  <2>3. /\ vReg' \in VRegType /\ vReg'.sel = q /\ vReg'.status = vReg.status /\ vReg'.fsel = vReg.fsel
        /\ vReg'.feat = vReg.feat /\ vReg'.ring = vReg.ring /\ vReg'.bells = vReg.bells
    BY <2>1, <2>2, <1>q, <1>t, WriteSelect
  <2> QED BY <1>2, <1>t, <2>1, <2>2, <2>3, <1>g
<1>3. CASE vTodo = A3 /\ vAsked.sel \in {Unknown, vTemp.sel} /\ vReg.sel = q
  <2>1. vReg' = vReg /\ vTemp' = [vTemp EXCEPT !.off = NotifyOff(vReg.sel)] /\ vTodo' = A4 /\ UNCHANGED <<vCall, vAsked>>
    <3>1. vReg' = DeviceDoes(Rd("QueueNotifyOff")) /\ vTemp' = Keeps(Rd("QueueNotifyOff")) /\ vTodo' = A4 /\ UNCHANGED <<vCall, vAsked>>
      BY <1>3, NextAccess
    <3> QED BY <3>1, ReadsAndRestore
  <2>2. NotifyOff(q) \in VSel
    BY <1>q DEF NotifyOff
  <2>3. vTemp' \in TempType /\ vTemp'.sel = vTemp.sel /\ vTemp'.off = NotifyOff(q)
    BY <2>1, <2>2, <1>3, <1>t DEF TempType
  <2> QED BY <1>3, <1>t, <2>1, <2>3, <1>g
<1>4. CASE vTodo = A4 /\ vAsked.sel \in {Unknown, vTemp.sel} /\ vTemp.off = NotifyOff(q)
  <2>1. vReg' = [vReg EXCEPT !.sel = vTemp.sel] /\ vTemp' = vTemp /\ vTodo' = A5 /\ UNCHANGED <<vCall, vAsked>>
    <3>1. vReg' = DeviceDoes(Restore) /\ vTemp' = Keeps(Restore) /\ vTodo' = A5 /\ UNCHANGED <<vCall, vAsked>>
      BY <1>4, NextAccess
    <3> QED BY <3>1, ReadsAndRestore
  <2>2. /\ vReg' \in VRegType /\ vReg'.sel = vTemp.sel /\ vReg'.status = vReg.status /\ vReg'.fsel = vReg.fsel
        /\ vReg'.feat = vReg.feat /\ vReg'.ring = vReg.ring /\ vReg'.bells = vReg.bells
    BY <2>1, <1>t DEF VRegType, TempType
  <2> QED BY <1>4, <1>t, <2>1, <2>2, <1>g
<1>5. CASE vTodo = A5 /\ vAsked.sel \in {Unknown, vReg.sel} /\ vTemp.off = NotifyOff(q)
  <2>1. /\ vReg' = [vReg EXCEPT !.bells = @ \cup {<<q, vTemp.off>>}] /\ vTemp' = vTemp /\ vTodo' = << >>
        /\ vCall' = NoVCall /\ vAsked' = vAsked
    <3>1. /\ vReg' = DeviceDoes(Bell(q)) /\ vTemp' = Keeps(Bell(q)) /\ vTodo' = << >>
          /\ vCall' = NoVCall /\ vAsked' = Asked(q)
      BY <1>5, LastAccess
    <3>2. Asked(q) = vAsked
      BY <1>q, <1>u, AskedNothing
    <3> QED BY <3>1, <3>2, ReadsAndRestore
  <2>2. <<q, vTemp.off>> \in VQueues \X VSel
    BY <1>q, <1>t DEF TempType
  <2>3. /\ vReg' \in VRegType /\ vReg'.sel = vReg.sel /\ vReg'.status = vReg.status /\ vReg'.fsel = vReg.fsel
        /\ vReg'.feat = vReg.feat /\ vReg'.ring = vReg.ring /\ vReg'.bells = vReg.bells \cup {<<q, vTemp.off>>}
    BY <2>1, <2>2, <1>t DEF VRegType
  <2>4. \A b \in vReg'.bells : b[2] = NotifyOff(b[1])
    BY <2>3, <1>5, <1>0 DEF AgreesSoFar
  <2> QED BY <1>0, <1>q, <1>t, <1>5, <2>1, <2>3, <2>4, Returned DEF AgreesSoFar, RingAgrees
<1> QED BY <1>c, <1>1, <1>2, <1>3, <1>4, <1>5

\* What a ring call records when it returns: the ring of the selected queue, or that none is known.
LEMMA RingReturns ==
  ASSUME vAsked \in VAskedType, AgreesSoFar, vCall.op = "ring", NEW v \in VPage \cup {Unknown}
  PROVE  /\ Asked(v) \in VAskedType /\ Asked(v).sel = vAsked.sel /\ Asked(v).status = vAsked.status
         /\ Asked(v).feat = vAsked.feat
         /\ \A q \in VQueues : \/ Asked(v).ring[q] = Unknown
                               \/ q = vReg.sel /\ Asked(v).ring[q] = v
                               \/ q # vReg.sel /\ Asked(v).ring[q] = vAsked.ring[q]
<1>1. CASE vAsked.sel = Unknown
  BY <1>1, AskedRingLost
<1>2. CASE vAsked.sel # Unknown
  <2>1. vAsked.sel = vReg.sel
    BY <1>2 DEF AgreesSoFar
  <2> QED BY <1>2, <2>1, AskedRing
<1> QED BY <1>1, <1>2

\* Virtio10SetQueueAddress writes the three addresses and enables the queue.
LEMMA RingCall ==
  ASSUME CallInv, VAccess, RingLeft, vInst > Len(vCaps), vKind \in {"v10", "pci"}
  PROVE  CallInv'
<1>0. VTypeOK /\ AgreesSoFar /\ UNCHANGED <<vCaps, vInst, vBlock, vMult, vAttr, vKind>>
  BY DEF CallInv, VAccess
<1>t. vReg \in VRegType /\ vAsked \in VAskedType /\ vTemp \in TempType
  BY <1>0 DEF VTypeOK, TempType
<1>q. vCall.op = "ring" /\ vCall.arg \in VRings /\ vCall.arg \in VPage
  BY DEF RingLeft, VPage
<1>p. RingPart["QueueDesc"] = 1 /\ RingPart["QueueAvail"] = 2 /\ RingPart["QueueUsed"] = 3 /\ RingPart["QueueEnable"] = 4
  BY DEF RingPart
<1> DEFINE r == vCall.arg
           s == vReg.sel
           A1 == <<Wr("QueueDesc", r), Wr("QueueAvail", r), Wr("QueueUsed", r), Wr("QueueEnable", 1)>>
           A2 == <<Wr("QueueAvail", r), Wr("QueueUsed", r), Wr("QueueEnable", 1)>>
           A3 == <<Wr("QueueUsed", r), Wr("QueueEnable", 1)>>
           A4 == <<Wr("QueueEnable", 1)>>
           Upto(n) == s \in VQueues => \A i \in 1 .. n : vReg.ring[s][i] = r
<1>c. \/ vTodo = A1
      \/ vTodo = A2 /\ Upto(1)
      \/ vTodo = A3 /\ Upto(2)
      \/ vTodo = A4 /\ Upto(3)
  BY DEF RingLeft, SelectedRing
<1>e. ASSUME NEW reg \in RingRegs, NEW v, v \in IF RingPart[reg] = 4 THEN {0, 1} ELSE VPage,
             vReg' = DeviceDoes(Wr(reg, v)), vTemp' = Keeps(Wr(reg, v))
      PROVE  /\ vReg' \in VRegType /\ vTemp' \in TempType
             /\ vReg'.sel = s /\ vReg'.status = vReg.status /\ vReg'.fsel = vReg.fsel
             /\ vReg'.feat = vReg.feat /\ vReg'.bells = vReg.bells
             /\ \A q \in VQueues : q # s => vReg'.ring[q] = vReg.ring[q]
             /\ s \in VQueues =>
                  /\ vReg'.ring[s][RingPart[reg]] = v
                  /\ \A j \in 1 .. 4 : j # RingPart[reg] => vReg'.ring[s][j] = vReg.ring[s][j]
  <2>1. IsWrite(Wr(reg, v), reg, v) /\ vTemp' = vTemp
    BY <1>e, ReadsAndRestore
  <2> QED BY <1>e, <1>t, <2>1, WriteRing
<1>g. ASSUME UNCHANGED <<vCall, vAsked>>, vReg' \in VRegType, vTemp' \in TempType,
             vReg'.sel = s, vReg'.status = vReg.status, vReg'.fsel = vReg.fsel,
             vReg'.feat = vReg.feat, vReg'.bells = vReg.bells,
             \A q \in VQueues : q # s => vReg'.ring[q] = vReg.ring[q],
             \/ vTodo' = A2 /\ (s \in VQueues => vReg'.ring[s][1] = r)
             \/ vTodo' = A3 /\ (s \in VQueues => vReg'.ring[s][1] = r /\ vReg'.ring[s][2] = r)
             \/ vTodo' = A4 /\ (s \in VQueues => vReg'.ring[s][1] = r /\ vReg'.ring[s][2] = r /\ vReg'.ring[s][3] = r)
      PROVE  CallInv'
  <2>0. SelectedRing' = vReg'.ring[s]
    BY <1>g DEF SelectedRing
  <2>1. RingLeft'
    BY <1>g, <1>q, <2>0 DEF RingLeft
  <2>2. VTypeOK' /\ CallUnderWay'
    BY <1>0, <1>g, <2>1, GoesOn
  <2>3. AgreesSoFar'
    BY <1>0, <1>g, <1>q DEF AgreesSoFar, RingAgrees
  <2> QED BY <2>2, <2>3 DEF CallInv
<1>1. CASE vTodo = A1
  <2>1. vReg' = DeviceDoes(Wr("QueueDesc", r)) /\ vTemp' = Keeps(Wr("QueueDesc", r)) /\ vTodo' = A2 /\ UNCHANGED <<vCall, vAsked>>
    BY <1>1, NextAccess
  <2> HIDE DEF A1, A2, A3, A4
  <2> QED BY <2>1, <1>e, <1>p, <1>q, <1>g DEF RingRegs
<1>2. CASE vTodo = A2 /\ Upto(1)
  <2>1. vReg' = DeviceDoes(Wr("QueueAvail", r)) /\ vTemp' = Keeps(Wr("QueueAvail", r)) /\ vTodo' = A3 /\ UNCHANGED <<vCall, vAsked>>
    BY <1>2, NextAccess
  <2> HIDE DEF A1, A2, A3, A4
  <2> QED BY <2>1, <1>2, <1>e, <1>p, <1>q, <1>g DEF RingRegs
<1>3. CASE vTodo = A3 /\ Upto(2)
  <2>1. vReg' = DeviceDoes(Wr("QueueUsed", r)) /\ vTemp' = Keeps(Wr("QueueUsed", r)) /\ vTodo' = A4 /\ UNCHANGED <<vCall, vAsked>>
    BY <1>3, NextAccess
  <2> HIDE DEF A1, A2, A3, A4
  <2> QED BY <2>1, <1>3, <1>e, <1>p, <1>q, <1>g DEF RingRegs
<1>4. CASE vTodo = A4 /\ Upto(3)
  <2>1. /\ vReg' = DeviceDoes(Wr("QueueEnable", 1)) /\ vTemp' = Keeps(Wr("QueueEnable", 1)) /\ vTodo' = << >>
        /\ vCall' = NoVCall /\ vAsked' = Asked(r)
    BY <1>4, LastAccess
  <2>2. /\ vReg' \in VRegType /\ vTemp' \in TempType
        /\ vReg'.sel = s /\ vReg'.status = vReg.status /\ vReg'.fsel = vReg.fsel
        /\ vReg'.feat = vReg.feat /\ vReg'.bells = vReg.bells
        /\ \A q \in VQueues : q # s => vReg'.ring[q] = vReg.ring[q]
        /\ s \in VQueues => vReg'.ring[s][4] = 1 /\ vReg'.ring[s][1] = r /\ vReg'.ring[s][2] = r /\ vReg'.ring[s][3] = r
    BY <2>1, <1>4, <1>e, <1>p DEF RingRegs
  <2>3. s \in VQueues => vReg'.ring[s] = <<r, r, r, 1>>
    BY <2>2 DEF VRegType, VRingReg
  <2>4. /\ vAsked' \in VAskedType /\ vAsked'.sel = vAsked.sel /\ vAsked'.status = vAsked.status /\ vAsked'.feat = vAsked.feat
        /\ \A q \in VQueues : \/ vAsked'.ring[q] = Unknown
                              \/ q = s /\ vAsked'.ring[q] = r
                              \/ q # s /\ vAsked'.ring[q] = vAsked.ring[q]
    BY <2>1, <1>0, <1>t, <1>q, RingReturns
  <2>5. \A q \in VQueues : vAsked'.ring[q] \notin {Unknown, 0} =>
            vReg'.ring[q] = <<vAsked'.ring[q], vAsked'.ring[q], vAsked'.ring[q], 1>>
    <3> TAKE q \in VQueues
    <3>1. CASE q = s
      BY <3>1, <2>3, <2>4
    <3>2. CASE q # s
      BY <3>2, <2>2, <2>4, <1>0 DEF AgreesSoFar, RingAgrees
    <3> QED BY <3>1, <3>2
  <2> QED BY <1>0, <1>q, <2>1, <2>2, <2>4, <2>5, Returned DEF AgreesSoFar
<1> QED BY <1>c, <1>1, <1>2, <1>3, <1>4

\* Virtio10SetGuestFeatures writes the two halves through the feature selector.
LEMMA FeatCall ==
  ASSUME CallInv, VAccess, FeatLeft, vInst > Len(vCaps), vKind \in {"v10", "pci"}
  PROVE  CallInv'
<1>0. VTypeOK /\ AgreesSoFar /\ UNCHANGED <<vCaps, vInst, vBlock, vMult, vAttr, vKind>>
  BY DEF CallInv, VAccess
<1>t. vReg \in VRegType /\ vAsked \in VAskedType /\ vTemp \in TempType
  BY <1>0 DEF VTypeOK, TempType
<1>q. vCall.op = "feat" /\ vCall.arg \in VFeat /\ vKind = "v10" /\ vCall.arg[1] \in {0, 1} /\ vCall.arg[2] \in {0, 1}
  BY DEF FeatLeft, VFeat
<1> DEFINE f == vCall.arg
           A1 == <<Wr("DriverFeatureSelect", 0), Wr("DriverFeature", f[1]),
                   Wr("DriverFeatureSelect", 1), Wr("DriverFeature", f[2])>>
           A2 == <<Wr("DriverFeature", f[1]), Wr("DriverFeatureSelect", 1), Wr("DriverFeature", f[2])>>
           A3 == <<Wr("DriverFeatureSelect", 1), Wr("DriverFeature", f[2])>>
           A4 == <<Wr("DriverFeature", f[2])>>
<1>c. \/ vTodo = A1
      \/ vTodo = A2 /\ vReg.fsel = 0
      \/ vTodo = A3 /\ vReg.feat[1] = f[1]
      \/ vTodo = A4 /\ vReg.feat[1] = f[1] /\ vReg.fsel = 1
  BY DEF FeatLeft
<1>w. \A reg, v : IsWrite(Wr(reg, v), reg, v) /\ Keeps(Wr(reg, v)) = vTemp
  BY ReadsAndRestore
<1>g. ASSUME UNCHANGED <<vCall, vAsked>>, vReg' \in VRegType, vTemp' = vTemp,
             vReg'.sel = vReg.sel, vReg'.status = vReg.status, vReg'.ring = vReg.ring, vReg'.bells = vReg.bells,
             \/ vTodo' = A2 /\ vReg'.fsel = 0
             \/ vTodo' = A3 /\ vReg'.feat[1] = f[1]
             \/ vTodo' = A4 /\ vReg'.feat[1] = f[1] /\ vReg'.fsel = 1
      PROVE  CallInv'
  <2>1. FeatLeft'
    BY <1>0, <1>g, <1>q DEF FeatLeft
  <2>2. VTypeOK' /\ CallUnderWay'
    BY <1>0, <1>t, <1>g, <2>1, GoesOn
  <2>3. AgreesSoFar'
    BY <1>0, <1>g, <1>q DEF AgreesSoFar, RingAgrees
  <2> QED BY <2>2, <2>3 DEF CallInv
<1>1. CASE vTodo = A1
  <2>1. /\ vReg' = DeviceDoes(Wr("DriverFeatureSelect", 0)) /\ vTemp' = vTemp /\ vTodo' = A2 /\ UNCHANGED <<vCall, vAsked>>
    BY <1>1, <1>w, NextAccess
  <2>2. /\ vReg' \in VRegType /\ vReg'.fsel = 0
        /\ vReg'.sel = vReg.sel /\ vReg'.status = vReg.status /\ vReg'.ring = vReg.ring /\ vReg'.bells = vReg.bells
    BY <2>1, <1>t, <1>w, WriteFeatureSelect
  <2> QED BY <2>1, <2>2, <1>g
<1>2. CASE vTodo = A2 /\ vReg.fsel = 0
  <2>1. /\ vReg' = DeviceDoes(Wr("DriverFeature", f[1])) /\ vTemp' = vTemp /\ vTodo' = A3 /\ UNCHANGED <<vCall, vAsked>>
    BY <1>2, <1>w, NextAccess
  <2>2. /\ vReg' \in VRegType /\ vReg'.feat = <<f[1], vReg.feat[2]>>
        /\ vReg'.sel = vReg.sel /\ vReg'.status = vReg.status /\ vReg'.ring = vReg.ring /\ vReg'.bells = vReg.bells
    BY <2>1, <1>2, <1>q, <1>t, <1>w, WriteFeature
  <2>3. vReg'.feat[1] = f[1]
    BY <2>2
  <2> QED BY <2>1, <2>2, <2>3, <1>g
<1>3. CASE vTodo = A3 /\ vReg.feat[1] = f[1]
  <2>1. /\ vReg' = DeviceDoes(Wr("DriverFeatureSelect", 1)) /\ vTemp' = vTemp /\ vTodo' = A4 /\ UNCHANGED <<vCall, vAsked>>
    BY <1>3, <1>w, NextAccess
  <2>2. /\ vReg' \in VRegType /\ vReg'.fsel = 1 /\ vReg'.feat = vReg.feat
        /\ vReg'.sel = vReg.sel /\ vReg'.status = vReg.status /\ vReg'.ring = vReg.ring /\ vReg'.bells = vReg.bells
    BY <2>1, <1>t, <1>w, WriteFeatureSelect
  <2> QED BY <2>1, <2>2, <1>3, <1>g
<1>4. CASE vTodo = A4 /\ vReg.feat[1] = f[1] /\ vReg.fsel = 1
  <2>1. /\ vReg' = DeviceDoes(Wr("DriverFeature", f[2])) /\ vTemp' = vTemp /\ vTodo' = << >>
        /\ vCall' = NoVCall /\ vAsked' = Asked(f)
    BY <1>4, <1>w, LastAccess
  <2>2. /\ vReg' \in VRegType /\ vReg'.feat = <<vReg.feat[1], f[2]>>
        /\ vReg'.sel = vReg.sel /\ vReg'.status = vReg.status /\ vReg'.ring = vReg.ring /\ vReg'.bells = vReg.bells
    BY <2>1, <1>4, <1>q, <1>t, <1>w, WriteFeature
  <2>3. f = <<vReg.feat[1], f[2]>>
    BY <1>4, <1>q DEF VFeat
  <2>4. /\ vAsked' \in VAskedType /\ vAsked'.sel = vAsked.sel /\ vAsked'.status = vAsked.status
        /\ vAsked'.feat = f /\ vAsked'.ring = vAsked.ring
    BY <2>1, <1>q, <1>t, AskedFeat
  <2> QED BY <1>0, <1>t, <1>q, <2>1, <2>2, <2>3, <2>4, Returned DEF AgreesSoFar, RingAgrees
<1> QED BY <1>c, <1>1, <1>2, <1>3, <1>4

\* The calls that set nothing.
LEMMA HarmlessAccess == \A a : Harmless(a) => DeviceDoes(a) = vReg
  BY RingPartDomain DEF DeviceDoes, Harmless, RingRegs

\* A call that only reads, access by access.
LEMMA GetCall ==
  ASSUME CallInv, VAccess, GetLeft, vInst > Len(vCaps), vKind \in {"v10", "pci"}
  PROVE  CallInv'
<1>0. VTypeOK /\ AgreesSoFar /\ UNCHANGED <<vCaps, vInst, vBlock, vMult, vAttr, vKind>>
  BY DEF CallInv, VAccess
<1>t. vReg \in VRegType /\ vAsked \in VAskedType /\ vCall.op = "get"
  BY <1>0 DEF VTypeOK, GetLeft
<1> DEFINE R == Rd("DeviceFeature")
           W(v) == Wr("DeviceFeatureSelect", v)
<1>h. Harmless(R) /\ \A v : Harmless(W(v))
  BY DEF Harmless, Rd, Wr, Acc
<1>g. ASSUME UNCHANGED <<vCall, vAsked>>, vReg' = vReg, vTemp' \in TempType,
             vTodo' \in {<<R, W(1), R>>, <<W(1), R>>, <<R>>}
      PROVE  CallInv'
  <2>1. GetLeft'
    <3>1. CASE vTodo' = <<R>>
      <4>1. vTodo'[1] = R /\ vTodo' # << >>
        BY <3>1
      <4> QED BY <1>g, <1>t, <1>h, <3>1, <4>1 DEF GetLeft
    <3>2. CASE vTodo' = <<R, W(1), R>>
      <4>1. vTodo' # << >>
        BY <3>2
      <4> QED BY <1>g, <1>t, <3>2, <4>1 DEF GetLeft
    <3>3. CASE vTodo' = <<W(1), R>>
      <4>1. vTodo' # << >>
        BY <3>3
      <4> QED BY <1>g, <1>t, <3>3, <4>1 DEF GetLeft
    <3> QED BY <1>g, <3>1, <3>2, <3>3
  <2>2. VTypeOK' /\ CallUnderWay'
    BY <1>0, <1>t, <1>g, <2>1, GoesOn
  <2>3. AgreesSoFar'
    BY <1>0, <1>g DEF AgreesSoFar, RingAgrees
  <2> QED BY <2>2, <2>3 DEF CallInv
<1>1. CASE vTodo = <<vTodo[1]>> /\ Harmless(vTodo[1])
  <2>1. vReg' = vReg /\ vTemp' \in TempType /\ vTodo' = << >> /\ vCall' = NoVCall /\ vAsked' = vAsked
    <3>1. /\ vReg' = DeviceDoes(vTodo[1]) /\ vTemp' = Keeps(vTodo[1]) /\ vTodo' = << >>
          /\ vCall' = NoVCall /\ vAsked' = Asked(vCall.arg)
      BY <1>1, LastAccess
    <3> QED BY <1>1, <1>0, <1>t, <3>1, HarmlessAccess, KeepsTyped, AskedNothing
  <2> QED BY <1>0, <1>t, <2>1, Returned DEF AgreesSoFar, RingAgrees
<1>2. CASE vTodo = <<W(0), R, W(1), R>>
  <2>1. vReg' = DeviceDoes(W(0)) /\ vTemp' = Keeps(W(0)) /\ vTodo' = <<R, W(1), R>> /\ UNCHANGED <<vCall, vAsked>>
    BY <1>2, NextAccess
  <2> QED BY <2>1, <1>0, <1>h, <1>g, HarmlessAccess, KeepsTyped
<1>3. CASE vTodo = <<R, W(1), R>>
  <2>1. vReg' = DeviceDoes(R) /\ vTemp' = Keeps(R) /\ vTodo' = <<W(1), R>> /\ UNCHANGED <<vCall, vAsked>>
    BY <1>3, NextAccess
  <2> QED BY <2>1, <1>0, <1>h, <1>g, HarmlessAccess, KeepsTyped
<1>4. CASE vTodo = <<W(1), R>>
  <2>1. vReg' = DeviceDoes(W(1)) /\ vTemp' = Keeps(W(1)) /\ vTodo' = <<R>> /\ UNCHANGED <<vCall, vAsked>>
    BY <1>4, NextAccess
  <2> QED BY <2>1, <1>0, <1>h, <1>g, HarmlessAccess, KeepsTyped
<1> QED BY <1>1, <1>2, <1>3, <1>4 DEF GetLeft

\* A failing access ends the call; what it was to set is no longer known.
LEMMA FailedCall ==
  ASSUME CallInv, VAccessFails
  PROVE  CallInv'
<1>0. /\ VTypeOK /\ AgreesSoFar /\ UNCHANGED <<vCaps, vInst, vBlock, vMult, vAttr, vKind>>
      /\ vTodo' = << >> /\ vCall' = NoVCall /\ vAsked' = Asked(Unknown) /\ vReg' = vReg /\ vTemp' = vTemp
  BY DEF CallInv, VAccessFails
<1>t. vReg \in VRegType /\ vAsked \in VAskedType /\ vTemp' \in TempType /\ Unknown # 0
  BY <1>0, VTransportAssumption DEF VTypeOK, TempType
<1>c. vCall.op \in {"get", "sel", "status", "notify", "ring", "feat"}
  <2>1. vTodo # << >> /\ CallUnderWay
    BY DEF CallInv, VAccessFails
  <2> QED BY <2>1 DEF CallUnderWay, NoneLeft, GetLeft, SelLeft, StatusLeft, PciNotifyLeft, PciRingLeft, PciFeatLeft,
                      NotifyLeft, RingLeft, FeatLeft
<1>g. ASSUME vAsked' \in VAskedType,
             vAsked'.sel = Unknown \/ (vCall.op # "notify" /\ vAsked'.sel = vAsked.sel),
             vAsked'.status \in {Unknown, vAsked.status},
             vAsked'.feat = Unknown \/ (vCall.op # "feat" /\ vAsked'.feat = vAsked.feat),
             \A q \in VQueues : \/ vAsked'.ring[q] = Unknown
                                \/ ~(vCall.op = "ring" /\ q = vReg.sel) /\ vAsked'.ring[q] = vAsked.ring[q]
      PROVE  CallInv'
  <2>1. \A q \in VQueues : vAsked'.ring[q] \notin {Unknown, 0} =>
            vReg'.ring[q] = <<vAsked'.ring[q], vAsked'.ring[q], vAsked'.ring[q], 1>>
    BY <1>0, <1>g DEF AgreesSoFar, RingAgrees
  <2> QED BY <1>0, <1>t, <1>g, <2>1, Returned DEF AgreesSoFar
<1>1. CASE vCall.op = "get"
  BY <1>1, <1>0, <1>t, <1>g, AskedNothing
<1>2. CASE vCall.op = "sel"
  <2>1. /\ vAsked' \in VAskedType /\ vAsked'.sel = Unknown /\ vAsked'.status = vAsked.status
        /\ vAsked'.feat = vAsked.feat /\ vAsked'.ring = vAsked.ring
    BY <1>2, <1>0, <1>t, AskedSel
  <2>2. /\ vAsked'.sel = Unknown \/ (vCall.op # "notify" /\ vAsked'.sel = vAsked.sel)
        /\ vAsked'.feat = Unknown \/ (vCall.op # "feat" /\ vAsked'.feat = vAsked.feat)
        /\ vCall.op # "ring"
    BY <2>1, <1>2
  <2> QED BY <2>1, <2>2, <1>g
<1>3. CASE vCall.op = "status"
  <2>1. /\ vAsked' \in VAskedType /\ vAsked'.sel = vAsked.sel /\ vAsked'.status = Unknown
        /\ vAsked'.feat = vAsked.feat /\ vAsked'.ring = vAsked.ring
    BY <1>3, <1>0, <1>t, AskedStatus
  <2> QED BY <2>1, <1>3, <1>g
<1>4. CASE vCall.op = "notify"
  <2>1. /\ vAsked' \in VAskedType /\ vAsked'.sel = Unknown /\ vAsked'.status = vAsked.status
        /\ vAsked'.feat = vAsked.feat /\ vAsked'.ring = vAsked.ring
    BY <1>4, <1>0, <1>t, AskedNotify
  <2>2. /\ vAsked'.sel = Unknown \/ (vCall.op # "notify" /\ vAsked'.sel = vAsked.sel)
        /\ vAsked'.feat = Unknown \/ (vCall.op # "feat" /\ vAsked'.feat = vAsked.feat)
        /\ vCall.op # "ring"
    BY <2>1, <1>4
  <2> QED BY <2>1, <2>2, <1>g
<1>5. CASE vCall.op = "feat"
  <2>1. /\ vAsked' \in VAskedType /\ vAsked'.sel = vAsked.sel /\ vAsked'.status = vAsked.status
        /\ vAsked'.feat = Unknown /\ vAsked'.ring = vAsked.ring
    BY <1>5, <1>0, <1>t, AskedFeat
  <2>2. /\ vAsked'.sel = Unknown \/ (vCall.op # "notify" /\ vAsked'.sel = vAsked.sel)
        /\ vAsked'.feat = Unknown \/ (vCall.op # "feat" /\ vAsked'.feat = vAsked.feat)
        /\ vCall.op # "ring"
    BY <2>1, <1>5
  <2> QED BY <2>1, <2>2, <1>g
<1>6. CASE vCall.op = "ring"
  <2>1. /\ vAsked' \in VAskedType /\ vAsked'.sel = vAsked.sel /\ vAsked'.status = vAsked.status /\ vAsked'.feat = vAsked.feat
        /\ \A q \in VQueues : \/ vAsked'.ring[q] = Unknown
                              \/ q = vReg.sel /\ vAsked'.ring[q] = Unknown
                              \/ q # vReg.sel /\ vAsked'.ring[q] = vAsked.ring[q]
    BY <1>6, <1>0, <1>t, RingReturns
  <2> QED BY <2>1, <1>6, <1>g
<1> QED BY <1>c, <1>1, <1>2, <1>3, <1>4, <1>5, <1>6

\* Any access of any call.
LEMMA AccessCall ==
  ASSUME CallInv, VAccess
  PROVE  CallInv'
<1>1. vTodo # << >> /\ CallUnderWay
  BY DEF CallInv, VAccess
<1>2. CASE SelLeft \/ StatusLeft \/ PciNotifyLeft \/ PciRingLeft \/ PciFeatLeft
  <2>1. vCall # NoVCall
    BY <1>2 DEF SelLeft, StatusLeft, PciNotifyLeft, PciRingLeft, PciFeatLeft, NoVCall
  <2> QED BY <1>2, <2>1, OneWriteCalls
<1> QED BY <1>1, <1>2, GetCall, NotifyCall, RingCall, FeatCall DEF CallUnderWay, NoneLeft

\* The registers of a reset device.
LEMMA ResetIsTyped ==
  /\ ResetRegisters \in VRegType /\ ResetRegisters.fsel = 0 /\ ResetRegisters.feat[2] = 0
  /\ ResetRegisters.sel = 0 /\ ResetRegisters.bells = {} /\ ResetRegisters.status = 0
  BY DEF ResetRegisters, VRegType, VSel, VFeat, VRingReg, VPage

\* A device that nobody bound satisfies the invariant.
LEMMA VInitEstablishes == VInit => VInv
<1> SUFFICES ASSUME VInit PROVE VInv
  OBVIOUS
<1>1. vCaps \in Seq(VCapType) /\ vInst = -1 /\ Len(vCaps) = 0
  BY DEF VInit
<1>2. /\ vAsked \in VAskedType /\ vAsked.sel = Unknown /\ vAsked.status = Unknown /\ vAsked.feat = Unknown
      /\ \A q \in VQueues : vAsked.ring[q] = Unknown
  BY DEF VInit, VAskedType
<1>3. vBlock \in [BlockNames -> [exists : BOOLEAN, bar : {"mem", "io", "bad"}, len : Nat]]
      /\ \A b \in BlockNames : ~vBlock[b].exists
  BY DEF VInit, BlockNames, NoBlock
<1>4. vTemp \in [sel : VSel, off : VSel] /\ vKind = "none" /\ vReg = ResetRegisters
  BY DEF VInit, VSel
<1>5. VTypeOK
  BY <1>1, <1>2, <1>3, <1>4, ResetIsTyped DEF VTypeOK
<1>6. CallUnderWay
  BY DEF CallUnderWay, NoneLeft, VInit
<1>7. AgreesSoFar
  BY <1>2, <1>4, ResetIsTyped DEF AgreesSoFar, RingAgrees
<1>8. BlocksParsed /\ UntouchedUntilBound
  BY <1>3, <1>4 DEF BlocksParsed, UntouchedUntilBound
<1> QED BY <1>5, <1>6, <1>7, <1>8 DEF VInv, CallInv

\* A member function is called: the list of its accesses is what is left.
LEMMA CallStarts ==
  ASSUME VInv, Virtio10Members \/ VirtioPciMembers
  PROVE  CallInv'
<1>0. VTypeOK /\ AgreesSoFar /\ CallUnderWay
  BY DEF VInv, CallInv
<1>g. ASSUME NEW op, NEW arg, NEW list, Calls(op, arg, list)
      PROVE  /\ vCall' = [op |-> op, arg |-> arg] /\ vCall'.op = op /\ vCall'.arg = arg /\ vTodo' = list /\ vTodo = << >>
             /\ UNCHANGED <<vCaps, vInst, vBlock, vMult, vAttr, vKind, vReg, vTemp, vAsked>>
             /\ vInst > Len(vCaps) /\ vKind \in {"v10", "pci"}
             /\ VTypeOK' /\ vAsked.sel \in {Unknown, vReg.sel} /\ vAsked.feat \in {Unknown, vReg.feat}
             /\ AgreesSoFar'
  <2>1. /\ vCall' = [op |-> op, arg |-> arg] /\ vTodo' = list /\ vCall = NoVCall
        /\ UNCHANGED <<vCaps, vInst, vBlock, vMult, vAttr, vKind, vReg, vTemp, vAsked>>
        /\ vInst = Len(vCaps) + 1 /\ vKind \in {"v10", "pci"}
    BY <1>g DEF Calls, VIdle
  <2>2. vCall'.op = op /\ vCall'.arg = arg /\ vCall.op = "none"
    BY <2>1 DEF NoVCall
  <2>3. vTodo = << >>
    BY <1>0, <2>2 DEF CallUnderWay, NoneLeft, GetLeft, SelLeft, StatusLeft, PciNotifyLeft, PciRingLeft, PciFeatLeft,
                      NotifyLeft, RingLeft, FeatLeft
  <2>4. vInst > Len(vCaps)
    BY <2>1, <1>0 DEF VTypeOK
  <2>5. VTypeOK'
    BY <1>0, <2>1 DEF VTypeOK
  <2>6. vAsked.sel \in {Unknown, vReg.sel} /\ vAsked.feat \in {Unknown, vReg.feat}
    BY <1>0, <2>2 DEF AgreesSoFar
  <2>7. AgreesSoFar'
    BY <1>0, <2>1, <2>2, <2>6 DEF AgreesSoFar, RingAgrees
  <2> QED BY <2>1, <2>2, <2>3, <2>4, <2>5, <2>6, <2>7
<1>s. ASSUME NEW op, NEW arg, NEW list, Calls(op, arg, list),
             (GetLeft \/ SelLeft \/ StatusLeft \/ PciNotifyLeft \/ PciRingLeft \/ PciFeatLeft \/ NotifyLeft \/ RingLeft \/ FeatLeft)'
      PROVE  CallInv'
  <2>1. CallUnderWay'
    BY <1>s, <1>g DEF CallUnderWay
  <2> QED BY <1>s, <1>g, <2>1 DEF CallInv
<1>w. ASSUME NEW reg, NEW v, NEW blk \in {"common", "io"}, NEW size \in {0, 1, 2, 4}, vTodo' = <<Access(blk, reg, v, size)>>
      PROVE  OneWrite(reg, v)'
  BY <1>w DEF OneWrite
<1>v. \A reg, v : Wr(reg, v) = Access("common", reg, v, 0)
  BY DEF Wr, Acc, Access
<1>i. \A reg, v, size : VirtioPciIoWrite(reg, size, v) = Access("io", reg, v, size)
  BY DEF VirtioPciIoWrite, Access
<1>h. ASSUME NEW a, Harmless(a), Calls("get", 0, <<a>>) PROVE CallInv'
  <2>1. vCall'.op = "get" /\ vTodo' = <<a>>
    BY <1>h, <1>g
  <2>2. vTodo'[1] = a /\ vTodo' # << >>
    BY <2>1
  <2>3. GetLeft'
    BY <1>h, <2>1, <2>2 DEF GetLeft
  <2> QED BY <1>h, <1>s, <2>3
<1>f. \A f \in VFeatures : f \in VFeat
  BY DEF VFeatures, VFeat
<1>1. CASE Virtio10Members
  <2>1. ASSUME NEW q \in VQueues, Calls("sel", q, Virtio10SetQueueSel(q)) PROVE CallInv'
    <3>1. vCall'.op = "sel" /\ vCall'.arg = q /\ vTodo' = <<Access("common", "QueueSelect", q, 0)>>
      BY <2>1, <1>g, <1>v DEF Virtio10SetQueueSel
    <3>2. SelLeft'
      BY <3>1, <1>w DEF SelLeft
    <3> QED BY <2>1, <3>2, <1>s
  <2>2. ASSUME NEW q \in VQueues, Calls("notify", q, Virtio10SetQueueNotify(q)) PROVE CallInv'
    <3>1. /\ vCall'.op = "notify" /\ vCall'.arg = q /\ vAsked' = vAsked /\ vReg' = vReg
          /\ vTodo' = <<Rd("QueueSelect"), Wr("QueueSelect", q), Rd("QueueNotifyOff"), Restore, Bell(q)>>
          /\ vAsked.sel \in {Unknown, vReg.sel}
      BY <2>2, <1>g DEF Virtio10SetQueueNotify, Restore, Bell
    <3>2. NotifyLeft'
      BY <3>1 DEF NotifyLeft
    <3> QED BY <2>2, <3>2, <1>s
  <2>3. ASSUME NEW r \in VRings, Calls("ring", r, Virtio10SetQueueAddress(r)) PROVE CallInv'
    <3>1. /\ vCall'.op = "ring" /\ vCall'.arg = r
          /\ vTodo' = <<Wr("QueueDesc", r), Wr("QueueAvail", r), Wr("QueueUsed", r), Wr("QueueEnable", 1)>>
      BY <2>3, <1>g DEF Virtio10SetQueueAddress
    <3>2. RingLeft'
      BY <3>1 DEF RingLeft
    <3> QED BY <2>3, <3>2, <1>s
  <2>4. ASSUME NEW st \in {0, 1}, Calls("status", st, Virtio10SetDeviceStatus(st)) PROVE CallInv'
    <3>1. vCall'.op = "status" /\ vCall'.arg = st /\ vTodo' = <<Access("common", "DeviceStatus", st, 0)>>
      BY <2>4, <1>g, <1>v DEF Virtio10SetDeviceStatus
    <3>2. StatusLeft'
      BY <3>1, <1>w DEF StatusLeft
    <3> QED BY <2>4, <3>2, <1>s
  <2>5. ASSUME NEW f \in VFeatures, Calls("feat", f, Virtio10SetGuestFeatures(f)) PROVE CallInv'
    <3>1. /\ vCall'.op = "feat" /\ vCall'.arg = f /\ vKind' = "v10"
          /\ vTodo' = <<Wr("DriverFeatureSelect", 0), Wr("DriverFeature", f[1]), Wr("DriverFeatureSelect", 1), Wr("DriverFeature", f[2])>>
      BY <2>5, <1>g, <1>1 DEF Virtio10SetGuestFeatures, Virtio10Members
    <3>2. FeatLeft'
      BY <3>1, <1>f DEF FeatLeft
    <3> QED BY <2>5, <3>2, <1>s
  <2>6. ASSUME NEW f \in VFields, Calls("get", 0, Virtio10ReadDevice(f)) \/ Calls("get", 0, Virtio10WriteDevice(f)) PROVE CallInv'
    <3>1. Harmless(Acc("specific", f, "read", 0)) /\ Harmless(Acc("specific", f, "write", 0))
      BY DEF Harmless, Acc
    <3> QED BY <2>6, <3>1, <1>h DEF Virtio10ReadDevice, Virtio10WriteDevice
  <2>7. ASSUME NEW l \in {Virtio10GetDeviceFeatures, Virtio10GetQueueNumMax, Virtio10SetQueueNum, Virtio10GetDeviceStatus},
               Calls("get", 0, l)
        PROVE  CallInv'
    <3>1. \A reg : Harmless(Rd(reg))
      BY DEF Harmless, Rd, Acc
    <3>2. CASE l = Virtio10GetDeviceFeatures
      <4>1. /\ vCall'.op = "get"
            /\ vTodo' = <<Wr("DeviceFeatureSelect", 0), Rd("DeviceFeature"), Wr("DeviceFeatureSelect", 1), Rd("DeviceFeature")>>
        BY <2>7, <3>2, <1>g DEF Virtio10GetDeviceFeatures
      <4>2. vTodo' # << >>
        BY <4>1
      <4>3. GetLeft'
        BY <4>1, <4>2 DEF GetLeft
      <4> QED BY <2>7, <4>3, <1>s
    <3>3. CASE l = <<Rd("QueueSize")>> \/ l = <<Rd("DeviceStatus")>>
      BY <2>7, <3>1, <3>3, <1>h
    <3> QED BY <2>7, <3>2, <3>3 DEF Virtio10GetQueueNumMax, Virtio10SetQueueNum, Virtio10GetDeviceStatus
  <2> QED BY <1>1, <2>1, <2>2, <2>3, <2>4, <2>5, <2>6, <2>7 DEF Virtio10Members
<1>2. CASE VirtioPciMembers
  <2>1. ASSUME NEW q \in VQueues, Calls("sel", q, VirtioPciSetQueueSel(q)) PROVE CallInv'
    <3>1. vCall'.op = "sel" /\ vCall'.arg = q /\ vTodo' = <<Access("io", "QueueSelect", q, 2)>>
      BY <2>1, <1>g, <1>i DEF VirtioPciSetQueueSel
    <3>2. SelLeft'
      BY <3>1, <1>w DEF SelLeft
    <3> QED BY <2>1, <3>2, <1>s
  <2>2. ASSUME NEW q \in VQueues, Calls("notify", q, VirtioPciSetQueueNotify(q)) PROVE CallInv'
    <3>1. /\ vCall'.op = "notify" /\ vCall'.arg = q /\ vTodo' = <<Access("io", "QueueNotify", q, 2)>>
          /\ vAsked' = vAsked /\ vReg' = vReg /\ vAsked.sel \in {Unknown, vReg.sel}
      BY <2>2, <1>g, <1>i DEF VirtioPciSetQueueNotify
    <3>2. PciNotifyLeft'
      BY <3>1, <1>w DEF PciNotifyLeft
    <3> QED BY <2>2, <3>2, <1>s
  <2>3. ASSUME NEW r \in VRings, Calls("ring", r, VirtioPciSetQueueAddress(r)) PROVE CallInv'
    <3>1. vCall'.op = "ring" /\ vCall'.arg = r /\ vTodo' = <<Access("io", "QueueAddress", r, 4)>>
      BY <2>3, <1>g, <1>i DEF VirtioPciSetQueueAddress
    <3>2. PciRingLeft'
      BY <3>1, <1>w DEF PciRingLeft
    <3> QED BY <2>3, <3>2, <1>s
  <2>4. ASSUME NEW st \in {0, 1}, Calls("status", st, VirtioPciSetDeviceStatus(st)) PROVE CallInv'
    <3>1. vCall'.op = "status" /\ vCall'.arg = st /\ vTodo' = <<Access("io", "DeviceStatus", st, 1)>>
      BY <2>4, <1>g, <1>i DEF VirtioPciSetDeviceStatus
    <3>2. StatusLeft'
      BY <3>1, <1>w DEF StatusLeft
    <3> QED BY <2>4, <3>2, <1>s
  <2>5. ASSUME NEW f \in VFeatures, f[2] = 0, Calls("feat", f, VirtioPciSetGuestFeatures(f)) PROVE CallInv'
    <3>1. vCall'.op = "feat" /\ vCall'.arg = f /\ vTodo' = <<Access("io", "DriverFeature", f[1], 4)>> /\ vKind' = "pci"
      BY <2>5, <1>g, <1>i, <1>2 DEF VirtioPciSetGuestFeatures, VirtioPciMembers
    <3>2. PciFeatLeft'
      BY <2>5, <3>1, <1>f, <1>w DEF PciFeatLeft
    <3> QED BY <2>5, <3>2, <1>s
  <2>r. \A reg, size : Harmless(VirtioPciIoRead(reg, size)) /\ Harmless(VirtioPciIoWrite("field", size, 0))
    BY DEF Harmless, VirtioPciIoRead, VirtioPciIoWrite
  <2>6. ASSUME NEW f \in VFields, Calls("get", 0, VirtioPciDeviceRead(f)) \/ Calls("get", 0, VirtioPciDeviceWrite(f)) PROVE CallInv'
    BY <2>6, <2>r, <1>h DEF VirtioPciDeviceRead, VirtioPciDeviceWrite
  <2>7. ASSUME NEW l \in {VirtioPciGetDeviceFeatures, VirtioPciGetQueueSize, VirtioPciGetDeviceStatus}, Calls("get", 0, l)
        PROVE  CallInv'
    BY <2>7, <2>r, <1>h DEF VirtioPciGetDeviceFeatures, VirtioPciGetQueueSize, VirtioPciGetDeviceStatus
  <2> QED BY <1>2, <2>1, <2>2, <2>3, <2>4, <2>5, <2>6, <2>7 DEF VirtioPciMembers
<1> QED BY <1>1, <1>2

\* The transport is bound: ParseCapabilities keeps the last description of each block.
LEMMA BindingSteps ==
  ASSUME VInv, VProbe \/ ParseCapabilities \/ VEnable
  PROVE  VInv'
<1>0. VTypeOK /\ AgreesSoFar /\ CallUnderWay /\ BlocksParsed /\ UntouchedUntilBound
  BY DEF VInv, CallInv
<1>t. vCaps \in Seq(VCapType) /\ vInst \in Int /\ Len(vCaps) \in Nat /\ DOMAIN vCaps = 1 .. Len(vCaps)
  BY <1>0 DEF VTypeOK
<1>u. UNCHANGED <<vReg, vTodo, vTemp, vCall, vAsked>> /\ vInst <= Len(vCaps)
  <2>1. CASE VProbe
    BY <2>1, <1>t DEF VProbe
  <2>2. CASE ParseCapabilities
    BY <2>2, <1>t DEF ParseCapabilities
  <2>3. CASE VEnable
    BY <2>3, <1>t DEF VEnable
  <2> QED BY <2>1, <2>2, <2>3
<1>n. NoneLeft /\ vReg = ResetRegisters
  BY <1>0, <1>t, <1>u DEF CallUnderWay, UntouchedUntilBound
<1>1. CallUnderWay'
  BY <1>n, <1>u DEF CallUnderWay, NoneLeft
<1>2. AgreesSoFar'
  BY <1>0, <1>n, <1>u, ResetIsTyped DEF AgreesSoFar, RingAgrees
<1>3. UntouchedUntilBound'
  BY <1>n, <1>u DEF UntouchedUntilBound
<1> DEFINE BlockRec == [exists : BOOLEAN, bar : {"mem", "io", "bad"}, len : Nat]
<1>b. vBlock \in [BlockNames -> BlockRec]
  BY <1>0 DEF VTypeOK
<1>4. CASE VProbe
  <2>1. /\ vInst = -1 /\ vInst' = 0 /\ vBlock' = vBlock
        /\ (vKind' = "v10" /\ vCaps' \in VCapLists) \/ (vKind' = "pci" /\ vCaps' = << >>)
    BY <1>4 DEF VProbe
  <2>2. vCaps' \in Seq(VCapType)
    <3>1. VCapLists \subseteq Seq(VCapType)
      BY VTransportAssumption DEF VCapType
    <3>2. << >> \in Seq(VCapType)
      OBVIOUS
    <3> QED BY <2>1, <3>1, <3>2
  <2>3. VTypeOK'
    BY <1>0, <1>u, <2>1, <2>2 DEF VTypeOK
  <2>4. Parsed = {}
    BY <1>t, <2>1 DEF Parsed
  <2>5. BlocksParsed'
    BY <1>0, <2>1, <2>4 DEF BlocksParsed
  <2> QED BY <1>1, <1>2, <1>3, <2>3, <2>5 DEF VInv, CallInv
<1>5. CASE ParseCapabilities
  <2>0. PICK new : new = vInst + 1
    OBVIOUS
  <2> DEFINE cap == vCaps[new]
  <2>1. /\ vKind = "v10" /\ vInst \in 0 .. Len(vCaps) - 1 /\ UNCHANGED <<vCaps, vAttr>>
        /\ \/ ~Interesting(cap) /\ vInst' = new /\ UNCHANGED <<vBlock, vMult, vKind>>
           \/ /\ Interesting(cap) /\ GetBarType(cap) # "unsupported" /\ vInst' = new
              /\ vBlock' = [vBlock EXCEPT ![cap.type] = ParsedBlock(cap)]
              /\ vMult' = (IF cap.type = "notify" /\ cap.len = "full" THEN cap.mult ELSE vMult)
              /\ vKind' = vKind
           \/ vKind' = "failed" /\ UNCHANGED <<vInst, vBlock, vMult>>
    BY <1>5, <2>0 DEF ParseCapabilities
  <2>2. new \in DOMAIN vCaps /\ cap \in VCapType /\ new <= Len(vCaps)
    BY <2>0, <2>1, <1>t
  <2>3. \A i \in Parsed : i \in DOMAIN vCaps /\ i < new
    BY <1>t, <2>0, <2>1 DEF Parsed
  <2>4. vInst' = new => Parsed' = Parsed \cup {new}
    BY <1>t, <2>0, <2>1, <2>2 DEF Parsed
  <2>i. \A i \in Parsed : i \in Int /\ i < new /\ new \in Int
    BY <2>0, <2>3, <1>t
  <2>5. CASE ~Interesting(cap) /\ vInst' = new /\ UNCHANGED <<vBlock, vMult, vKind>>
    <3>1. VTypeOK'
      BY <1>0, <1>u, <1>t, <2>1, <2>2, <2>5 DEF VTypeOK
    <3>2. \A b \in BlockNames, i \in Parsed : LastOfItsType(b, i) => LastOfItsType(b, i)'
      BY <2>1, <2>4, <2>5 DEF LastOfItsType, Interesting
    <3>3. BlocksParsed'
      BY <1>0, <1>t, <2>1, <2>2, <2>4, <2>5, <3>2 DEF BlocksParsed
    <3> QED BY <1>1, <1>2, <1>3, <3>1, <3>3 DEF VInv, CallInv
  <2>6. CASE /\ Interesting(cap) /\ GetBarType(cap) # "unsupported" /\ vInst' = new
             /\ vBlock' = [vBlock EXCEPT ![cap.type] = ParsedBlock(cap)]
             /\ vMult' = (IF cap.type = "notify" /\ cap.len = "full" THEN cap.mult ELSE vMult)
             /\ vKind' = vKind
    <3>1. cap.type \in BlockNames /\ cap.len \in {"base", "full"} /\ cap.bar \in {"mem", "io"} /\ cap.length \in Nat
      BY <2>2, <2>6, VTransportAssumption DEF Interesting, GetBarType, VCapType, BlockNames
    <3>2. /\ ParsedBlock(cap) \in BlockRec /\ ParsedBlock(cap).bar = cap.bar /\ ParsedBlock(cap).len = cap.length
          /\ cap.type = "notify" /\ cap.len # "full" /\ ParsedBlock(cap).exists => vBlock["notify"].exists
      BY <3>1, <1>b DEF ParsedBlock, GetBarType
    <3>3. vBlock' \in [BlockNames -> BlockRec]
      BY <2>6, <3>1, <3>2, <1>b
    <3>4. VTypeOK'
      BY <1>0, <1>u, <1>t, <2>1, <2>2, <2>6, <3>3 DEF VTypeOK
    <3>5. ASSUME NEW b \in BlockNames, vBlock'[b].exists
          PROVE  /\ \E i \in Parsed' : LastOfItsType(b, i)'
                 /\ b = "notify" => \E i \in Parsed' : vCaps[i].type = b /\ vCaps[i].len = "full" /\ vCaps[i].mult = vMult'
      <4>1. CASE b = cap.type
        <5>1. vBlock'[b] = ParsedBlock(cap)
          BY <4>1, <2>6, <1>b
        <5>2. LastOfItsType(b, new)'
          <6>1. vCaps[new].type = b /\ vCaps[new].bar = vBlock'[b].bar /\ vCaps[new].length = vBlock'[b].len
            BY <4>1, <5>1, <3>2
          <6>2. \A j \in Parsed' : ~(j > new)
            <7>1. new \in Int
              BY <2>0, <1>t
            <7> QED BY <7>1, <2>4, <2>6, <2>i
          <6> QED BY <6>1, <6>2, <2>1 DEF LastOfItsType
        <5>3. ASSUME b = "notify"
              PROVE  \E i \in Parsed' : vCaps[i].type = b /\ vCaps[i].len = "full" /\ vCaps[i].mult = vMult'
          <6>1. CASE cap.len = "full"
            BY <6>1, <4>1, <5>3, <2>4, <2>6
          <6>2. CASE cap.len # "full"
            <7>1. vBlock["notify"].exists /\ vMult' = vMult
              BY <6>2, <4>1, <5>1, <5>3, <3>2, <3>5, <2>6
            <7> QED BY <7>1, <5>3, <1>0, <2>4, <2>6 DEF BlocksParsed
          <6> QED BY <6>1, <6>2
        <5> QED BY <5>2, <5>3, <2>4, <2>6
      <4>2. CASE b # cap.type
        <5>1. vBlock'[b] = vBlock[b] /\ (b = "notify" => vMult' = vMult)
          BY <4>2, <2>6, <1>b
        <5>2. PICK i \in Parsed : LastOfItsType(b, i)
          BY <5>1, <3>5, <1>0 DEF BlocksParsed
        <5>3. LastOfItsType(b, i)'
          BY <5>1, <5>2, <4>2, <2>1, <2>4, <2>6 DEF LastOfItsType
        <5>4. b = "notify" => \E k \in Parsed : vCaps[k].type = b /\ vCaps[k].len = "full" /\ vCaps[k].mult = vMult
          BY <5>1, <3>5, <1>0 DEF BlocksParsed
        <5> QED BY <5>1, <5>3, <5>4, <2>4, <2>6
      <4> QED BY <4>1, <4>2
    <3>6. BlocksParsed'
      BY <3>5, <1>t, <2>1, <2>2, <2>6 DEF BlocksParsed
    <3> QED BY <1>1, <1>2, <1>3, <3>4, <3>6 DEF VInv, CallInv
  <2>7. CASE vKind' = "failed" /\ UNCHANGED <<vInst, vBlock, vMult>>
    <3>1. VTypeOK'
      BY <1>0, <1>u, <2>1, <2>7 DEF VTypeOK
    <3>2. Parsed' = Parsed /\ \A b \in BlockNames, i \in Parsed : LastOfItsType(b, i)' = LastOfItsType(b, i)
      BY <2>1, <2>7 DEF Parsed, LastOfItsType, Interesting
    <3>3. BlocksParsed'
      BY <1>0, <2>1, <2>7, <3>2 DEF BlocksParsed
    <3> QED BY <1>1, <1>2, <1>3, <3>1, <3>3 DEF VInv, CallInv
  <2> QED BY <2>1, <2>5, <2>6, <2>7
<1>6. CASE VEnable
  <2>1. /\ vInst = Len(vCaps) /\ vInst' = Len(vCaps) + 1 /\ UNCHANGED <<vCaps, vBlock, vMult, vKind>>
        /\ vKind = "v10" => vAttr' = UpdateAttributes
    BY <1>6 DEF VEnable
  <2>2. VTypeOK'
    BY <1>0, <1>u, <1>t, <2>1 DEF VTypeOK
  <2>3. Parsed' = DOMAIN vCaps /\ Parsed = DOMAIN vCaps
    BY <1>t, <2>1 DEF Parsed
  <2>4. \A b \in BlockNames, i \in Parsed : LastOfItsType(b, i)' = LastOfItsType(b, i)
    BY <2>1, <2>3 DEF LastOfItsType, Interesting
  <2>5. vKind = "v10" => \A b \in BlockNames : vBlock[b].exists => vBlock[b].bar \in vAttr'
    BY <2>1, <1>b DEF UpdateAttributes
  <2>6. BlocksParsed'
    BY <1>0, <2>1, <2>3, <2>4, <2>5 DEF BlocksParsed
  <2> QED BY <1>1, <1>2, <1>3, <2>2, <2>6 DEF VInv, CallInv
<1> QED BY <1>4, <1>5, <1>6

\* The blocks in use are as the device described them.
LEMMA UsableBlocks == VInv => BlocksAreUsable
<1> SUFFICES ASSUME VInv, VIdle, vKind = "v10", NEW b \in DOMAIN vBlock, vBlock[b].exists
             PROVE  /\ vBlock[b].bar \in vAttr
                    /\ \E i \in DOMAIN vCaps :
                         /\ vCaps[i].type = b /\ vCaps[i].bar = vBlock[b].bar
                         /\ vCaps[i].length = vBlock[b].len
                         /\ \A j \in i + 1 .. Len(vCaps) : ~(Interesting(vCaps[j]) /\ vCaps[j].type = b)
                    /\ b = "notify" => \E i \in DOMAIN vCaps :
                         vCaps[i].type = b /\ vCaps[i].len = "full" /\ vCaps[i].mult = vMult
  BY DEF BlocksAreUsable
<1>1. b \in BlockNames /\ vCaps \in Seq(VCapType) /\ DOMAIN vCaps = 1 .. Len(vCaps) /\ Len(vCaps) \in Nat
  BY DEF VInv, CallInv, VTypeOK
<1>2. vInst = Len(vCaps) + 1 /\ Parsed = DOMAIN vCaps
  BY <1>1 DEF VIdle, Parsed
<1>3. PICK i \in Parsed : LastOfItsType(b, i)
  BY <1>1 DEF VInv, BlocksParsed
<1>4. vBlock[b].bar \in vAttr
  BY <1>1, <1>2 DEF VInv, BlocksParsed
<1>5. b = "notify" => \E k \in DOMAIN vCaps : vCaps[k].type = b /\ vCaps[k].len = "full" /\ vCaps[k].mult = vMult
  BY <1>1, <1>2 DEF VInv, BlocksParsed
<1>6. \A j \in i + 1 .. Len(vCaps) : ~(Interesting(vCaps[j]) /\ vCaps[j].type = b)
  BY <1>1, <1>2, <1>3 DEF LastOfItsType
<1> QED BY <1>2, <1>3, <1>4, <1>5, <1>6 DEF LastOfItsType

\* Between two calls of the virtio transport protocol the device has what the
\* drivers asked for, for every number of queues, every list of capabilities
\* and every access that may fail: the selected queue, the status, both
\* halves of the features, each ring whole, every doorbell at the offset of
\* its queue; and the blocks in use are the last ones the device described,
\* in BARs that are mapped.
THEOREM TransportAsAsked == VSpec => []DeviceAsAsked
<1>1. VInv /\ [VNext]_vVars => VInv'
  <2> SUFFICES ASSUME VInv, [VNext]_vVars PROVE VInv'
    OBVIOUS
  <2>0. CallInv /\ BlocksParsed /\ UntouchedUntilBound
    BY DEF VInv
  <2>b. ASSUME UNCHANGED <<vCaps, vInst, vBlock, vMult, vAttr, vKind>> PROVE BlocksParsed'
    <3>1. Parsed' = Parsed /\ \A b \in BlockNames, i \in Parsed : LastOfItsType(b, i)' = LastOfItsType(b, i)
      BY <2>b DEF Parsed, LastOfItsType, Interesting
    <3> QED BY <2>0, <2>b, <3>1 DEF BlocksParsed
  <2>u. ASSUME UNCHANGED <<vCaps, vInst>>, vInst > Len(vCaps) PROVE UntouchedUntilBound'
    <3>1. vInst \in Int /\ Len(vCaps) \in Nat
      BY <2>0 DEF CallInv, VTypeOK
    <3> QED BY <2>u, <3>1 DEF UntouchedUntilBound
  <2>1. CASE Virtio10Members \/ VirtioPciMembers
    <3>1. VIdle /\ UNCHANGED <<vCaps, vInst, vBlock, vMult, vAttr, vKind>>
      BY <2>1 DEF Virtio10Members, VirtioPciMembers, Calls
    <3>2. vInst > Len(vCaps)
      BY <3>1, <2>0 DEF VIdle, CallInv, VTypeOK
    <3> QED BY <2>1, <3>1, <3>2, <2>b, <2>u, CallStarts DEF VInv
  <2>2. CASE VAccess \/ VAccessFails
    <3>1. vTodo # << >> /\ UNCHANGED <<vCaps, vInst, vBlock, vMult, vAttr, vKind>>
      BY <2>2 DEF VAccess, VAccessFails
    <3>2. vInst > Len(vCaps)
      BY <3>1, <2>0 DEF CallInv, CallUnderWay, NoneLeft
    <3> QED BY <2>2, <3>1, <3>2, <2>0, <2>b, <2>u, AccessCall, FailedCall DEF VInv
  <2>3. CASE UNCHANGED vVars
    <3>1. CallInv'
      BY <2>0, <2>3 DEF CallInv, vVars, VTypeOK, CallUnderWay, AgreesSoFar, RingAgrees, NoneLeft, GetLeft, SelLeft, StatusLeft,
         PciNotifyLeft, PciRingLeft, PciFeatLeft, NotifyLeft, RingLeft, FeatLeft, SelectedRing, OneWrite
    <3> QED BY <2>0, <2>3, <2>b, <3>1 DEF VInv, vVars, UntouchedUntilBound
  <2> QED BY <2>1, <2>2, <2>3, BindingSteps DEF VNext
<1>2. VInv => DeviceAsAsked
  <2> SUFFICES ASSUME VInv, VIdle PROVE DeviceAsAsked
    BY DEF DeviceAsAsked
  <2>1. vCall.op = "none"
    BY DEF VIdle, NoVCall
  <2> QED BY <2>1, UsableBlocks DEF VInv, CallInv, AgreesSoFar, RingAgrees, DeviceAsAsked
<1> QED
  BY VInitEstablishes, <1>1, <1>2, PTL DEF VSpec

-----------------------------------------------------------------------------
(* PciHotPlug.                                                             *)

\* The descriptors that can be returned.
Paddings == [type : {"io", "mem", "prefetch", "bus"}, width : Nat, size : Nat]

\* What stays: the bridge is one of those given.
HpInv == hpBridge \in Bridges /\ PaddingCoversHints

\* HighBitSetRoundUp gives the least power of two that covers its operand, if there is one.
LEMMA RoundUpCovers ==
  ASSUME NEW x \in Nat, NEW bits \in Nat \ {0}
  PROVE  \/ /\ HighBitSetRoundUp(x, bits) = -1
            /\ x = 0 \/ x > Pow2[bits - 1]
         \/ /\ HighBitSetRoundUp(x, bits) \in 0 .. bits - 1 /\ x # 0
            /\ x <= Pow2[HighBitSetRoundUp(x, bits)]
            /\ HighBitSetRoundUp(x, bits) > 0 => Pow2[HighBitSetRoundUp(x, bits) - 1] < x
<1>1. CASE x = 0 \/ x > Pow2[bits - 1]
  BY <1>1 DEF HighBitSetRoundUp
<1>2. CASE x # 0 /\ ~(x > Pow2[bits - 1])
  <2> DEFINE Covers == {n \in 0 .. bits - 1 : x <= Pow2[n]}
             Good(n) == n \in 0 .. bits - 1 /\ x <= Pow2[n] /\ (n > 0 => Pow2[n - 1] < x)
  <2>1. bits - 1 \in Covers /\ Covers \in SUBSET Nat
    BY <1>2, Pow2Def
  <2>2. PICK n \in Covers : \A m \in Covers : n <= m
    <3> HIDE DEF Covers
    <3> QED BY <2>1, LeastNumber
  <2>3. Good(n)
    <3>1. n \in 0 .. bits - 1 /\ x <= Pow2[n]
      OBVIOUS
    <3>2. ASSUME n > 0 PROVE Pow2[n - 1] < x
      <4>1. n - 1 \notin Covers /\ n - 1 \in 0 .. bits - 1 /\ n - 1 \in Nat
        BY <2>2, <3>1, <3>2
      <4>2. ~(x <= Pow2[n - 1]) /\ Pow2[n - 1] \in Nat
        BY <4>1, Pow2Def
      <4> QED BY <4>2
    <3> QED BY <3>1, <3>2
  <2>4. HighBitSetRoundUp(x, bits) = CHOOSE k \in 0 .. bits - 1 : x <= Pow2[k] /\ (k > 0 => Pow2[k - 1] < x)
    BY <1>2 DEF HighBitSetRoundUp
  <2>5. Good(HighBitSetRoundUp(x, bits))
    BY <2>3, <2>4
  <2> QED BY <1>2, <2>5
<1> QED
  BY <1>1, <1>2

\* A power of two is its own.
LEMMA RoundUpExact ==
  ASSUME NEW bits \in Nat \ {0}, NEW n \in 0 .. bits - 1
  PROVE  HighBitSetRoundUp(Pow2[n], bits) = n
<1>1. PICK x : x = Pow2[n]
  OBVIOUS
<1>2. n \in Nat /\ bits - 1 \in Nat /\ n <= bits - 1
  OBVIOUS
<1>3. x \in Nat /\ x > 0 /\ ~(x > Pow2[bits - 1])
  BY <1>1, <1>2, Pow2Positive, Pow2Grows
<1>4. PICK e : e = HighBitSetRoundUp(x, bits)
  OBVIOUS
<1>5. /\ e \in 0 .. bits - 1 /\ x <= Pow2[e]
      /\ e > 0 => Pow2[e - 1] < x
  BY <1>3, <1>4, RoundUpCovers
<1>6. ~(e < n)
  <2> SUFFICES ASSUME e < n PROVE FALSE
    OBVIOUS
  <2>1. e \in Nat /\ n \in Nat
    BY <1>5
  <2>2. Pow2[e] < Pow2[n] /\ Pow2[e] \in Nat /\ Pow2[n] \in Nat
    BY <2>1, Pow2Grows, Pow2Def
  <2> QED BY <1>1, <1>5, <2>2
<1>7. ~(n < e)
  <2> SUFFICES ASSUME n < e PROVE FALSE
    OBVIOUS
  <2>1. e - 1 \in Nat /\ n <= e - 1 /\ e > 0
    BY <1>5
  <2>2. Pow2[n] <= Pow2[e - 1] /\ Pow2[e - 1] \in Nat /\ Pow2[n] \in Nat
    BY <1>2, <2>1, Pow2Grows, Pow2Def
  <2> QED BY <1>1, <1>5, <2>1, <2>2
<1> QED
  BY <1>1, <1>4, <1>5, <1>6, <1>7

\* What a list holds, and that no kind is in it twice.
Elements(s) == {s[i] : i \in DOMAIN s}
OncePerKind(s) == \A i, j \in DOMAIN s : s[i].type = s[j].type => i = j

\* Two lists of paddings, of different kinds.
LEMMA JoinLists ==
  ASSUME NEW s \in Seq(Paddings), NEW t \in Seq(Paddings), OncePerKind(s), OncePerKind(t),
         \A a \in Elements(s), b \in Elements(t) : a.type # b.type
  PROVE  /\ s \o t \in Seq(Paddings) /\ Len(s \o t) = Len(s) + Len(t)
         /\ Elements(s \o t) = Elements(s) \cup Elements(t) /\ OncePerKind(s \o t)
<1>1. s \o t \in Seq(Paddings) /\ Len(s \o t) = Len(s) + Len(t) /\ Len(s) \in Nat /\ Len(t) \in Nat
  OBVIOUS
<1>2. DOMAIN s = 1 .. Len(s) /\ DOMAIN t = 1 .. Len(t) /\ DOMAIN (s \o t) = 1 .. Len(s) + Len(t)
  BY <1>1
<1>3. \A i \in 1 .. Len(s) : (s \o t)[i] = s[i]
  OBVIOUS
<1>4. \A i \in 1 .. Len(s) + Len(t) : ~(i <= Len(s)) => (s \o t)[i] = t[i - Len(s)] /\ i - Len(s) \in 1 .. Len(t)
  OBVIOUS
<1>5. \A i \in 1 .. Len(t) : (s \o t)[i + Len(s)] = t[i] /\ i + Len(s) \in 1 .. Len(s) + Len(t)
  OBVIOUS
<1>6. PICK u : u = s \o t
  OBVIOUS
<1>7. Elements(u) \subseteq Elements(s) \cup Elements(t)
  <2> SUFFICES ASSUME NEW i \in DOMAIN u PROVE u[i] \in Elements(s) \cup Elements(t)
    BY DEF Elements
  <2>1. i \in 1 .. Len(s) + Len(t)
    BY <1>2, <1>6
  <2>2. CASE i <= Len(s)
    <3>1. i \in 1 .. Len(s)
      BY <2>1, <2>2, <1>1
    <3> QED BY <3>1, <1>2, <1>3, <1>6 DEF Elements
  <2>3. CASE ~(i <= Len(s))
    BY <2>1, <2>3, <1>2, <1>4, <1>6 DEF Elements
  <2> QED BY <2>2, <2>3
<1>8. Elements(s) \cup Elements(t) \subseteq Elements(u)
  <2>1. ASSUME NEW i \in DOMAIN s PROVE s[i] \in Elements(u)
    <3>1. i \in 1 .. Len(s) /\ i \in 1 .. Len(s) + Len(t)
      BY <1>1, <1>2
    <3> QED BY <3>1, <1>2, <1>3, <1>6 DEF Elements
  <2>2. ASSUME NEW i \in DOMAIN t PROVE t[i] \in Elements(u)
    <3>1. i \in 1 .. Len(t)
      BY <1>2
    <3> QED BY <3>1, <1>2, <1>5, <1>6 DEF Elements
  <2> QED BY <2>1, <2>2 DEF Elements
<1>9. OncePerKind(u)
  <2> SUFFICES ASSUME NEW i \in DOMAIN u, NEW j \in DOMAIN u, u[i].type = u[j].type PROVE i = j
    BY DEF OncePerKind
  <2>1. i \in 1 .. Len(s) + Len(t) /\ j \in 1 .. Len(s) + Len(t)
    BY <1>2, <1>6
  <2>2. CASE i <= Len(s) /\ j <= Len(s)
    <3>1. i \in 1 .. Len(s) /\ j \in 1 .. Len(s)
      BY <2>1, <2>2, <1>1
    <3> QED BY <3>1, <1>2, <1>3, <1>6 DEF OncePerKind
  <2>3. CASE ~(i <= Len(s)) /\ ~(j <= Len(s))
    <3>1. /\ u[i] = t[i - Len(s)] /\ i - Len(s) \in DOMAIN t
          /\ u[j] = t[j - Len(s)] /\ j - Len(s) \in DOMAIN t
      BY <2>1, <2>3, <1>2, <1>4, <1>6
    <3>2. i - Len(s) = j - Len(s)
      BY <3>1 DEF OncePerKind
    <3> QED BY <2>1, <3>2, <1>1
  <2>4. CASE i <= Len(s) /\ ~(j <= Len(s))
    <3>1. i \in 1 .. Len(s)
      BY <2>1, <2>4, <1>1
    <3>2. u[i] \in Elements(s) /\ u[j] \in Elements(t)
      BY <3>1, <2>1, <2>4, <1>2, <1>3, <1>4, <1>6 DEF Elements
    <3> QED BY <3>2
  <2>5. CASE ~(i <= Len(s)) /\ j <= Len(s)
    <3>1. j \in 1 .. Len(s)
      BY <2>1, <2>5, <1>1
    <3>2. u[j] \in Elements(s) /\ u[i] \in Elements(t)
      BY <3>1, <2>1, <2>5, <1>2, <1>3, <1>4, <1>6 DEF Elements
    <3> QED BY <3>2
  <2> QED BY <2>2, <2>3, <2>4, <2>5
<1> QED
  BY <1>1, <1>6, <1>7, <1>8, <1>9

\* At most one descriptor, of one kind.
OfKind(p, kind) ==
  /\ p \in Seq(Paddings) /\ Len(p) <= 1 /\ OncePerKind(p)
  /\ \A e \in Elements(p) : e.type = kind

\* An aperture is a power of two that fits 64 bits.
IsAperture(size) == \E n \in 0 .. Bits64 - 1 : size = Pow2[n]

\* No descriptor of a kind.
LEMMA NoneOfKind ==
  ASSUME NEW kind
  PROVE  OfKind(<< >>, kind) /\ Elements(<< >>) = {} /\ Len(<< >>) = 0
  BY DEF OfKind, Elements, OncePerKind

\* One descriptor of a kind.
LEMMA OneOfKind ==
  ASSUME NEW kind \in {"io", "mem", "prefetch", "bus"}, NEW width \in Nat, NEW size \in Nat
  PROVE  /\ OfKind(<<Padding(kind, width, size)>>, kind) /\ Len(<<Padding(kind, width, size)>>) = 1
         /\ Elements(<<Padding(kind, width, size)>>) = {Padding(kind, width, size)}
         /\ Padding(kind, width, size).size = size
<1>1. PICK r : r = Padding(kind, width, size)
  OBVIOUS
<1>2. r \in Paddings /\ r.type = kind /\ r.size = size
  BY <1>1 DEF Padding, Paddings
<1>3. <<r>> \in Seq(Paddings) /\ Len(<<r>>) = 1 /\ DOMAIN <<r>> = {1} /\ <<r>>[1] = r
  BY <1>2
<1>4. Elements(<<r>>) = {r} /\ OncePerKind(<<r>>)
  BY <1>3 DEF Elements, OncePerKind
<1> QED
  BY <1>1, <1>2, <1>3, <1>4 DEF OfKind

\* Six lists in the order of GetResourcePadding, of which mem and io have one entry between two.
LEMMA JoinAll ==
  ASSUME NEW m1, NEW i1, NEW p, NEW m2, NEW i2, NEW b,
         OfKind(m1, "mem"), OfKind(i1, "io"), OfKind(p, "prefetch"), OfKind(m2, "mem"),
         OfKind(i2, "io"), OfKind(b, "bus"),
         Elements(m1) = {} \/ Elements(m2) = {}, Elements(i1) = {} \/ Elements(i2) = {},
         Len(m1) + Len(m2) <= 1, Len(i1) + Len(i2) <= 1
  PROVE  LET all == m1 \o i1 \o (p \o m2 \o i2 \o b)
         IN  /\ Len(all) <= 4 /\ OncePerKind(all) /\ all \in Seq(Paddings)
             /\ Elements(all) = Elements(m1) \cup Elements(i1) \cup Elements(p) \cup Elements(m2)
                                \cup Elements(i2) \cup Elements(b)
<1>0. /\ m1 \in Seq(Paddings) /\ i1 \in Seq(Paddings) /\ p \in Seq(Paddings)
      /\ m2 \in Seq(Paddings) /\ i2 \in Seq(Paddings) /\ b \in Seq(Paddings)
      /\ OncePerKind(m1) /\ OncePerKind(i1) /\ OncePerKind(p)
      /\ OncePerKind(m2) /\ OncePerKind(i2) /\ OncePerKind(b)
      /\ \A e \in Elements(m1) : e.type = "mem" 
      /\ \A e \in Elements(i1) : e.type = "io"
      /\ \A e \in Elements(p) : e.type = "prefetch" 
      /\ \A e \in Elements(m2) : e.type = "mem"
      /\ \A e \in Elements(i2) : e.type = "io" 
      /\ \A e \in Elements(b) : e.type = "bus"
  BY DEF OfKind
<1>1. PICK a1 : a1 = m1 \o i1
  OBVIOUS
<1>2. PICK a2 : a2 = p \o m2
  OBVIOUS
<1>3. PICK a3 : a3 = a2 \o i2
  OBVIOUS
<1>4. PICK a4 : a4 = a3 \o b
  OBVIOUS
<1>5. PICK a5 : a5 = a1 \o a4
  OBVIOUS
<1>6. /\ a1 \in Seq(Paddings) /\ Len(a1) = Len(m1) + Len(i1) /\ OncePerKind(a1)
      /\ Elements(a1) = Elements(m1) \cup Elements(i1)
  <2>1. \A e \in Elements(m1), f \in Elements(i1) : e.type # f.type
    BY <1>0
  <2> QED BY <1>0, <1>1, <2>1, JoinLists
<1>7. /\ a2 \in Seq(Paddings) /\ Len(a2) = Len(p) + Len(m2) /\ OncePerKind(a2)
      /\ Elements(a2) = Elements(p) \cup Elements(m2)
  <2>1. \A e \in Elements(p), f \in Elements(m2) : e.type # f.type
    BY <1>0
  <2> QED BY <1>0, <1>2, <2>1, JoinLists
<1>8. /\ a3 \in Seq(Paddings) /\ Len(a3) = Len(a2) + Len(i2) /\ OncePerKind(a3)
      /\ Elements(a3) = Elements(a2) \cup Elements(i2)
  <2>1. \A e \in Elements(a2), f \in Elements(i2) : e.type # f.type
    BY <1>0, <1>7
  <2> QED BY <1>0, <1>3, <1>7, <2>1, JoinLists
<1>9. /\ a4 \in Seq(Paddings) /\ Len(a4) = Len(a3) + Len(b) /\ OncePerKind(a4)
      /\ Elements(a4) = Elements(a3) \cup Elements(b)
  <2>1. \A e \in Elements(a3), f \in Elements(b) : e.type # f.type
    BY <1>0, <1>7, <1>8
  <2> QED BY <1>0, <1>4, <1>8, <2>1, JoinLists
<1>10. /\ a5 \in Seq(Paddings) /\ Len(a5) = Len(a1) + Len(a4) /\ OncePerKind(a5)
       /\ Elements(a5) = Elements(a1) \cup Elements(a4)
  <2>1. \A e \in Elements(a1), f \in Elements(a4) : e.type # f.type
    BY <1>0, <1>6, <1>7, <1>8, <1>9
  <2> QED BY <1>5, <1>6, <1>9, <2>1, JoinLists
<1>11. Len(a5) <= 4
  <2>1. Len(p) <= 1 /\ Len(b) <= 1 /\ Len(p) \in Nat /\ Len(b) \in Nat
    BY <1>0 DEF OfKind
  <2>2. Len(m1) \in Nat /\ Len(m2) \in Nat /\ Len(i1) \in Nat /\ Len(i2) \in Nat
    BY <1>0
  <2> QED BY <2>1, <2>2, <1>6, <1>7, <1>8, <1>9, <1>10
<1>12. Elements(a5) = Elements(m1) \cup Elements(i1) \cup Elements(p) \cup Elements(m2)
                                \cup Elements(i2) \cup Elements(b)
  BY <1>6, <1>7, <1>8, <1>9, <1>10
<1> QED
  BY <1>1, <1>2, <1>3, <1>4, <1>5, <1>10, <1>11, <1>12

-----------------------------------------------------------------------------
\* The widths and the extreme values.
LEMMA Widths ==
  /\ Bits32 \in Nat \ {0} /\ Bits64 \in Nat \ {0} /\ Bits32 - 1 \in Nat /\ Bits64 - 1 \in Nat
  /\ \A n \in 0 .. Bits32 - 1 : n \in 0 .. Bits64 - 1
  /\ \A x \in Nat : x > Pow2[Bits32 - 1] => 2 * x > MAX_UINT32
  /\ \A x \in Nat : x > Pow2[Bits64 - 1] => 2 * x > MAX_UINT64
  /\ MAX_UINT32 \in Nat /\ MAX_UINT64 \in Nat
  /\ MAX_UINT32 + 1 = 2 * Pow2[Bits32 - 1] /\ MAX_UINT64 + 1 = 2 * Pow2[Bits64 - 1]
  /\ Pow2[Bits32 - 1] \in Nat /\ Pow2[Bits64 - 1] \in Nat
<1>1. /\ Bits32 \in Nat \ {0} /\ Bits64 \in Nat \ {0} /\ Bits32 - 1 \in Nat /\ Bits64 - 1 \in Nat
      /\ Bits32 = (Bits32 - 1) + 1 /\ Bits64 = (Bits64 - 1) + 1
      /\ \A n \in 0 .. Bits32 - 1 : n \in 0 .. Bits64 - 1
  BY HotPlugAssumption
<1>2. Pow2[Bits32] = 2 * Pow2[Bits32 - 1] /\ Pow2[Bits32 - 1] \in Nat
  BY <1>1, Pow2Def
<1>3. Pow2[Bits64] = 2 * Pow2[Bits64 - 1] /\ Pow2[Bits64 - 1] \in Nat
  BY <1>1, Pow2Def
<1>4. MAX_UINT32 \in Nat /\ MAX_UINT64 \in Nat
  <2>1. Pow2[Bits32] \in Nat /\ Pow2[Bits32] > Bits32 /\ Pow2[Bits64] \in Nat /\ Pow2[Bits64] > Bits64
    BY <1>1, Pow2Positive
  <2> QED BY <1>1, <2>1 DEF MAX_UINT32, MAX_UINT64
<1>5. \A x \in Nat : x > Pow2[Bits32 - 1] => 2 * x > MAX_UINT32
  BY <1>2 DEF MAX_UINT32
<1>6. \A x \in Nat : x > Pow2[Bits64 - 1] => 2 * x > MAX_UINT64
  BY <1>3 DEF MAX_UINT64
<1>7. MAX_UINT32 + 1 = 2 * Pow2[Bits32 - 1] /\ MAX_UINT64 + 1 = 2 * Pow2[Bits64 - 1]
  BY <1>2, <1>3 DEF MAX_UINT32, MAX_UINT64
<1> QED
  BY <1>1, <1>2, <1>3, <1>4, <1>5, <1>6, <1>7

\* The default apertures.
LEMMA Defaults ==
  /\ Pow2[HighBitSetRoundUp64(DefaultIoSize)] = DefaultIoSize /\ DefaultIoSize \in Nat
  /\ Pow2[HighBitSetRoundUp32(DefaultMmioSize)] = DefaultMmioSize /\ DefaultMmioSize \in Nat
  /\ IsAperture(DefaultIoSize) /\ IsAperture(DefaultMmioSize)
<1>1. PICK n \in 0 .. Bits64 - 1 : DefaultIoSize = Pow2[n]
  BY HotPlugAssumption
<1>2. PICK m \in 0 .. Bits32 - 1 : DefaultMmioSize = Pow2[m]
  BY HotPlugAssumption
<1>3. n \in Nat /\ m \in Nat /\ m \in 0 .. Bits64 - 1
  BY Widths
<1>4. HighBitSetRoundUp64(DefaultIoSize) = n
  BY <1>1, Widths, RoundUpExact DEF HighBitSetRoundUp64
<1>5. HighBitSetRoundUp32(DefaultMmioSize) = m
  BY <1>2, Widths, RoundUpExact DEF HighBitSetRoundUp32
<1> QED
  BY <1>1, <1>2, <1>3, <1>4, <1>5, Pow2Def DEF IsAperture

\* A hint that is rounded up.
LEMMA Rounded32 ==
  ASSUME NEW x \in Nat
  PROVE  \/ HighBitSetRoundUp32(x) = -1 /\ (x = 0 \/ 2 * x > MAX_UINT32)
         \/ /\ HighBitSetRoundUp32(x) # -1 /\ x # 0
            /\ Pow2[HighBitSetRoundUp32(x)] \in Nat
            /\ Pow2[HighBitSetRoundUp32(x)] >= x /\ IsAperture(Pow2[HighBitSetRoundUp32(x)])
<1>1. PICK e : e = HighBitSetRoundUp(x, Bits32)
  OBVIOUS
<1>2. \/ e = -1 /\ (x = 0 \/ x > Pow2[Bits32 - 1])
      \/ e \in 0 .. Bits32 - 1 /\ x # 0 /\ x <= Pow2[e]
  BY <1>1, Widths, RoundUpCovers
<1>3. CASE e = -1 /\ (x = 0 \/ x > Pow2[Bits32 - 1])
  BY <1>1, <1>3, Widths DEF HighBitSetRoundUp32
<1>4. CASE e \in 0 .. Bits32 - 1 /\ x # 0 /\ x <= Pow2[e]
  <2>1. e \in Nat /\ e \in 0 .. Bits64 - 1 /\ e # -1
    BY <1>4, Widths
  <2>2. Pow2[e] \in Nat
    BY <2>1, Pow2Def
  <2> QED BY <1>1, <1>4, <2>1, <2>2 DEF HighBitSetRoundUp32, IsAperture
<1> QED
  BY <1>2, <1>3, <1>4

\* What HighBitSetRoundUp64 answers.
LEMMA Rounded64 ==
  ASSUME NEW x \in Nat
  PROVE  \/ HighBitSetRoundUp64(x) = -1 /\ (x = 0 \/ 2 * x > MAX_UINT64)
         \/ /\ HighBitSetRoundUp64(x) # -1 /\ x # 0
            /\ Pow2[HighBitSetRoundUp64(x)] \in Nat
            /\ Pow2[HighBitSetRoundUp64(x)] >= x /\ IsAperture(Pow2[HighBitSetRoundUp64(x)])
<1>1. PICK e : e = HighBitSetRoundUp(x, Bits64)
  OBVIOUS
<1>2. \/ e = -1 /\ (x = 0 \/ x > Pow2[Bits64 - 1])
      \/ e \in 0 .. Bits64 - 1 /\ x # 0 /\ x <= Pow2[e]
  BY <1>1, Widths, RoundUpCovers
<1>3. CASE e = -1 /\ (x = 0 \/ x > Pow2[Bits64 - 1])
  BY <1>1, <1>3, Widths DEF HighBitSetRoundUp64
<1>4. CASE e \in 0 .. Bits64 - 1 /\ x # 0 /\ x <= Pow2[e]
  <2>1. e \in Nat /\ e # -1
    BY <1>4, Widths
  <2>2. Pow2[e] \in Nat
    BY <2>1, Pow2Def
  <2> QED BY <1>1, <1>4, <2>1, <2>2 DEF HighBitSetRoundUp64, IsAperture
<1> QED
  BY <1>2, <1>3, <1>4

\* Two parts of which one is empty.
LEMMA AtMostOne ==
  \A x, y : (x = 0 /\ y \in {0, 1}) \/ (x = 1 /\ y = 0) => x + y <= 1
  OBVIOUS

\* The 32-bit aperture: the default or the hint's, and none only if the hint says so.
LEMMA MemParts ==
  ASSUME NEW h \in Hints, NEW a, NEW b,
         a = (IF DefaultMmio(TRUE, h) THEN SetMmioPadding(FALSE, TRUE, HighBitSetRoundUp32(DefaultMmioSize)) ELSE << >>),
         b = MmioPadding(h)
  PROVE  /\ OfKind(a, "mem") /\ OfKind(b, "mem") /\ Len(a) + Len(b) <= 1
         /\ Elements(a) = {} \/ Elements(b) = {}
         /\ Elements(a) \cup Elements(b) = {} <=> h.mem = 0
         /\ \A e \in Elements(a) \cup Elements(b) :
              /\ IsAperture(e.size)
              /\ e.size >= h.mem \/ (e.size = DefaultMmioSize /\ 2 * h.mem > MAX_UINT32)
<1>1. h.mem \in Nat
  BY Widths DEF Hints
<1>2. PICK d : d = Padding("mem", 32, DefaultMmioSize)
  OBVIOUS
<1>3. PICK r : r = Padding("mem", 32, Pow2[HighBitSetRoundUp32(h.mem)])
  OBVIOUS
<1>4. a = IF h.mem # 0 /\ HighBitSetRoundUp32(h.mem) = -1 THEN <<d>> ELSE << >>
  BY <1>2, Defaults DEF DefaultMmio, SetMmioPadding
<1>5. b = IF HighBitSetRoundUp32(h.mem) = -1 THEN << >> ELSE <<r>>
  BY <1>3 DEF MmioPadding, SetMmioPadding
<1>6. OfKind(<<d>>, "mem") /\ Elements(<<d>>) = {d} /\ Len(<<d>>) = 1 /\ d.size = DefaultMmioSize
  BY <1>2, Defaults, OneOfKind
<1>7. PICK z : OfKind(z, "mem") /\ Elements(z) = {} /\ Len(z) = 0 /\ z = << >>
  BY NoneOfKind
<1>8. CASE HighBitSetRoundUp32(h.mem) = -1 /\ (h.mem = 0 \/ 2 * h.mem > MAX_UINT32)
  <2>1. CASE h.mem = 0
    <3>1. a = z /\ b = z
      BY <2>1, <1>4, <1>5, <1>8, <1>7
    <3>2. Len(a) = 0 /\ Len(b) = 0 /\ Elements(a) = {} /\ Elements(b) = {} /\ OfKind(a, "mem") /\ OfKind(b, "mem")
      BY <3>1, <1>7, Zenon
    <3>3. Len(a) + Len(b) <= 1
      BY <3>2, AtMostOne, Zenon
    <3> QED BY <2>1, <3>2, <3>3, Zenon
  <2>2. CASE h.mem # 0
    <3>1. a = <<d>> /\ b = z
      BY <2>2, <1>4, <1>5, <1>7, <1>8
    <3>2. Len(a) = 1 /\ Len(b) = 0 /\ Elements(a) = {d} /\ Elements(b) = {}
      BY <3>1, <1>6, <1>7, Zenon
    <3>3. Len(a) + Len(b) <= 1 /\ Elements(a) \cup Elements(b) = {d}
      BY <3>2, AtMostOne, Zenon
    <3>4. OfKind(a, "mem") /\ OfKind(b, "mem")
      BY <3>1, <1>6, <1>7, Zenon
    <3>5. IsAperture(d.size)
      BY <1>6, Defaults
    <3> QED BY <2>2, <3>2, <3>3, <3>4, <3>5, <1>6, <1>8
  <2> QED BY <2>1, <2>2
<1>9. CASE /\ HighBitSetRoundUp32(h.mem) # -1 /\ h.mem # 0
           /\ Pow2[HighBitSetRoundUp32(h.mem)] \in Nat
           /\ Pow2[HighBitSetRoundUp32(h.mem)] >= h.mem /\ IsAperture(Pow2[HighBitSetRoundUp32(h.mem)])
  <2>1. a = z /\ b = <<r>>
    BY <1>4, <1>5, <1>7, <1>9
  <2>2. OfKind(<<r>>, "mem") /\ Elements(<<r>>) = {r} /\ Len(<<r>>) = 1 /\ r.size = Pow2[HighBitSetRoundUp32(h.mem)]
    BY <1>3, <1>9, OneOfKind
  <2>3. Len(a) = 0 /\ Len(b) = 1 /\ Elements(a) = {} /\ Elements(b) = {r}
    BY <2>1, <2>2, <1>7, Zenon
  <2>4. Len(a) + Len(b) <= 1 /\ Elements(a) \cup Elements(b) = {r}
    BY <2>3, AtMostOne, Zenon
  <2>5. OfKind(a, "mem") /\ OfKind(b, "mem")
    BY <2>1, <2>2, <1>7, Zenon
  <2> QED BY <1>9, <2>2, <2>3, <2>4, <2>5
<1> QED
  BY <1>1, <1>8, <1>9, Rounded32

\* The I/O aperture likewise.
LEMMA IoParts ==
  ASSUME NEW h \in Hints, NEW a, NEW b,
         a = (IF DefaultIo(TRUE, h) THEN SetIoPadding(HighBitSetRoundUp64(DefaultIoSize)) ELSE << >>),
         b = IoPadding(h)
  PROVE  /\ OfKind(a, "io") /\ OfKind(b, "io") /\ Len(a) + Len(b) <= 1
         /\ Elements(a) = {} \/ Elements(b) = {}
         /\ Elements(a) \cup Elements(b) = {} <=> h.io = 0
         /\ \A e \in Elements(a) \cup Elements(b) :
              /\ IsAperture(e.size)
              /\ e.size >= h.io \/ (e.size = DefaultIoSize /\ 2 * h.io > MAX_UINT64)
<1>1. h.io \in Nat
  BY Widths DEF Hints
<1>2. PICK d : d = Padding("io", 64, DefaultIoSize)
  OBVIOUS
<1>3. PICK r : r = Padding("io", 64, Pow2[HighBitSetRoundUp64(h.io)])
  OBVIOUS
<1>4. a = IF h.io # 0 /\ HighBitSetRoundUp64(h.io) = -1 THEN <<d>> ELSE << >>
  BY <1>2, Defaults DEF DefaultIo, SetIoPadding
<1>5. b = IF HighBitSetRoundUp64(h.io) = -1 THEN << >> ELSE <<r>>
  BY <1>3 DEF IoPadding, SetIoPadding
<1>6. OfKind(<<d>>, "io") /\ Elements(<<d>>) = {d} /\ Len(<<d>>) = 1 /\ d.size = DefaultIoSize
  BY <1>2, Defaults, OneOfKind
<1>7. PICK z : OfKind(z, "io") /\ Elements(z) = {} /\ Len(z) = 0 /\ z = << >>
  BY NoneOfKind
<1>8. CASE HighBitSetRoundUp64(h.io) = -1 /\ (h.io = 0 \/ 2 * h.io > MAX_UINT64)
  <2>1. CASE h.io = 0
    <3>1. a = z /\ b = z
      BY <2>1, <1>4, <1>5, <1>8, <1>7
    <3>2. Len(a) = 0 /\ Len(b) = 0 /\ Elements(a) = {} /\ Elements(b) = {} /\ OfKind(a, "io") /\ OfKind(b, "io")
      BY <3>1, <1>7, Zenon
    <3>3. Len(a) + Len(b) <= 1
      BY <3>2, AtMostOne, Zenon
    <3> QED BY <2>1, <3>2, <3>3, Zenon
  <2>2. CASE h.io # 0
    <3>1. a = <<d>> /\ b = z
      BY <2>2, <1>4, <1>5, <1>7, <1>8
    <3>2. Len(a) = 1 /\ Len(b) = 0 /\ Elements(a) = {d} /\ Elements(b) = {}
      BY <3>1, <1>6, <1>7, Zenon
    <3>3. Len(a) + Len(b) <= 1 /\ Elements(a) \cup Elements(b) = {d}
      BY <3>2, AtMostOne, Zenon
    <3>4. OfKind(a, "io") /\ OfKind(b, "io")
      BY <3>1, <1>6, <1>7, Zenon
    <3>5. IsAperture(d.size)
      BY <1>6, Defaults
    <3> QED BY <2>2, <3>2, <3>3, <3>4, <3>5, <1>6, <1>8
  <2> QED BY <2>1, <2>2
<1>9. CASE /\ HighBitSetRoundUp64(h.io) # -1 /\ h.io # 0
           /\ Pow2[HighBitSetRoundUp64(h.io)] \in Nat
           /\ Pow2[HighBitSetRoundUp64(h.io)] >= h.io /\ IsAperture(Pow2[HighBitSetRoundUp64(h.io)])
  <2>1. a = z /\ b = <<r>>
    BY <1>4, <1>5, <1>7, <1>9
  <2>2. OfKind(<<r>>, "io") /\ Elements(<<r>>) = {r} /\ Len(<<r>>) = 1 /\ r.size = Pow2[HighBitSetRoundUp64(h.io)]
    BY <1>3, <1>9, OneOfKind
  <2>3. Len(a) = 0 /\ Len(b) = 1 /\ Elements(a) = {} /\ Elements(b) = {r}
    BY <2>1, <2>2, <1>7, Zenon
  <2>4. Len(a) + Len(b) <= 1 /\ Elements(a) \cup Elements(b) = {r}
    BY <2>3, AtMostOne, Zenon
  <2>5. OfKind(a, "io") /\ OfKind(b, "io")
    BY <2>1, <2>2, <1>7, Zenon
  <2> QED BY <1>9, <2>2, <2>3, <2>4, <2>5
<1> QED
  BY <1>1, <1>8, <1>9, Rounded64

\* HighBitSetRoundUp32 gives up exactly on 0 and on what no power of two of its width covers.
LEMMA Fits32 ==
  ASSUME NEW x \in Nat
  PROVE  HighBitSetRoundUp32(x) = -1 <=> x = 0 \/ 2 * x > MAX_UINT32 + 1
<1>1. PICK e : e = HighBitSetRoundUp(x, Bits32)
  OBVIOUS
<1>2. \/ e = -1 /\ (x = 0 \/ x > Pow2[Bits32 - 1])
      \/ e \in 0 .. Bits32 - 1
  BY <1>1, Widths, RoundUpCovers
<1>3. x = 0 \/ x > Pow2[Bits32 - 1] => e = -1
  BY <1>1 DEF HighBitSetRoundUp
<1>4. e \in 0 .. Bits32 - 1 => e # -1
  BY Widths
<1>5. x > Pow2[Bits32 - 1] <=> 2 * x > MAX_UINT32 + 1
  BY Widths
<1> QED
  BY <1>1, <1>2, <1>3, <1>4, <1>5 DEF HighBitSetRoundUp32

\* HighBitSetRoundUp64 gives up exactly on 0 and on what no power of two of its width covers.
LEMMA Fits64 ==
  ASSUME NEW x \in Nat
  PROVE  HighBitSetRoundUp64(x) = -1 <=> x = 0 \/ 2 * x > MAX_UINT64 + 1
<1>1. PICK e : e = HighBitSetRoundUp(x, Bits64)
  OBVIOUS
<1>2. \/ e = -1 /\ (x = 0 \/ x > Pow2[Bits64 - 1])
      \/ e \in 0 .. Bits64 - 1
  BY <1>1, Widths, RoundUpCovers
<1>3. x = 0 \/ x > Pow2[Bits64 - 1] => e = -1
  BY <1>1 DEF HighBitSetRoundUp
<1>4. e \in 0 .. Bits64 - 1 => e # -1
  BY Widths
<1>5. x > Pow2[Bits64 - 1] <=> 2 * x > MAX_UINT64 + 1
  BY Widths
<1> QED
  BY <1>1, <1>2, <1>3, <1>4, <1>5 DEF HighBitSetRoundUp64

\* The prefetchable aperture: of 32 bits if that hint is given, else of 64.
LEMMA PrefetchPart ==
  ASSUME NEW h \in Hints
  PROVE  /\ OfKind(PrefetchPadding(h), "prefetch")
         /\ Elements(PrefetchPadding(h)) = {} <=>
              PrefetchHint(h) = 0 \/ 2 * PrefetchHint(h) > PrefetchMax(h) + 1
         /\ \A e \in Elements(PrefetchPadding(h)) : IsAperture(e.size) /\ e.size >= PrefetchHint(h)
<1>1. h.pref32 \in Nat /\ h.pref64 \in Nat /\ MAX_UINT32 \in Nat
  BY Widths DEF Hints
<1>2. CASE h.pref32 \notin {0, MAX_UINT32}
  <2>0. PrefetchHint(h) = h.pref32 /\ PrefetchMax(h) = MAX_UINT32
    BY <1>2 DEF PrefetchHint, PrefetchMax
  <2>3. HighBitSetRoundUp32(h.pref32) = -1 <=> h.pref32 = 0 \/ 2 * h.pref32 > MAX_UINT32 + 1
    BY <1>1, Fits32
  <2>1. CASE HighBitSetRoundUp32(h.pref32) = -1
    <3>1. PrefetchPadding(h) = << >>
      BY <1>2, <2>1 DEF PrefetchPadding
    <3> QED BY <2>0, <2>1, <2>3, <3>1, NoneOfKind
  <2>2. CASE HighBitSetRoundUp32(h.pref32) # -1
    <3>1. PICK r : r = Padding("prefetch", 32, Pow2[HighBitSetRoundUp32(h.pref32)])
      OBVIOUS
    <3>2. PrefetchPadding(h) = <<r>>
      BY <1>2, <2>2, <3>1 DEF PrefetchPadding, SetMmioPadding
    <3>3. /\ Pow2[HighBitSetRoundUp32(h.pref32)] \in Nat /\ Pow2[HighBitSetRoundUp32(h.pref32)] >= h.pref32
          /\ IsAperture(Pow2[HighBitSetRoundUp32(h.pref32)])
      BY <1>1, <2>2, Rounded32
    <3>4. OfKind(<<r>>, "prefetch") /\ Elements(<<r>>) = {r} /\ r.size = Pow2[HighBitSetRoundUp32(h.pref32)]
      BY <3>1, <3>3, OneOfKind
    <3>5. Elements(PrefetchPadding(h)) = {r} /\ {r} # {}
      BY <3>2, <3>4
    <3> QED BY <2>0, <2>2, <2>3, <3>2, <3>3, <3>4, <3>5
  <2> QED BY <2>1, <2>2
<1>3. CASE h.pref32 \in {0, MAX_UINT32}
  <2>0. PrefetchHint(h) = h.pref64 /\ PrefetchMax(h) = MAX_UINT64
    BY <1>3 DEF PrefetchHint, PrefetchMax
  <2>3. HighBitSetRoundUp64(h.pref64) = -1 <=> h.pref64 = 0 \/ 2 * h.pref64 > MAX_UINT64 + 1
    BY <1>1, Fits64
  <2>1. CASE HighBitSetRoundUp64(h.pref64) = -1
    <3>1. PrefetchPadding(h) = << >>
      BY <1>3, <2>1 DEF PrefetchPadding
    <3> QED BY <2>0, <2>1, <2>3, <3>1, NoneOfKind
  <2>2. CASE HighBitSetRoundUp64(h.pref64) # -1
    <3>1. PICK r : r = Padding("prefetch", 64, Pow2[HighBitSetRoundUp64(h.pref64)])
      OBVIOUS
    <3>2. PrefetchPadding(h) = <<r>>
      BY <1>3, <2>2, <3>1 DEF PrefetchPadding, SetMmioPadding
    <3>3. /\ Pow2[HighBitSetRoundUp64(h.pref64)] \in Nat /\ Pow2[HighBitSetRoundUp64(h.pref64)] >= h.pref64
          /\ IsAperture(Pow2[HighBitSetRoundUp64(h.pref64)])
      BY <1>1, <2>2, Rounded64
    <3>4. OfKind(<<r>>, "prefetch") /\ Elements(<<r>>) = {r} /\ r.size = Pow2[HighBitSetRoundUp64(h.pref64)]
      BY <3>1, <3>3, OneOfKind
    <3>5. Elements(PrefetchPadding(h)) = {r} /\ {r} # {}
      BY <3>2, <3>4
    <3> QED BY <2>0, <2>2, <2>3, <3>2, <3>3, <3>4, <3>5
  <2> QED BY <2>1, <2>2
<1> QED
  BY <1>2, <1>3

\* The bus numbers are as many as the hint says.
LEMMA BusPart ==
  ASSUME NEW h \in Hints
  PROVE  OfKind(BusPadding(h), "bus") /\ \A e \in Elements(BusPadding(h)) : e.type = "bus"
<1>1. h.bus \in Nat
  BY Widths DEF Hints
<1>2. OfKind(<<Padding("bus", 8, h.bus)>>, "bus")
  BY <1>1, OneOfKind
<1>3. OfKind(BusPadding(h), "bus")
  BY <1>2, NoneOfKind DEF BusPadding
<1> QED
  BY <1>3 DEF OfKind

\* QueryReservationHint answers with a hint that was in a capability, or with none.
LEMMA QueryAnswers ==
  ASSUME NEW bridge \in Bridges, NEW bad \in Nat
  PROVE  QueryReservationHint(bridge, bad).hint \in Hints
<1> DEFINE caps == bridge.caps
           right == {i \in DOMAIN caps : caps[i].length = "hint" /\ caps[i].type = "reservation"}
           first == CHOOSE i \in right : \A j \in right : i <= j
<1>1. NoHint \in Hints
  <2>1. 0 \in 0 .. MAX_UINT32 /\ 0 \in 0 .. MAX_UINT64
    BY Widths
  <2> QED BY <2>1 DEF NoHint, Hints
<1>2. QueryReservationHint(bridge, bad).hint = NoHint \/
        (right # {} /\ QueryReservationHint(bridge, bad).hint = caps[first].hint)
  BY DEF QueryReservationHint
<1>3. ASSUME right # {} PROVE caps[first].hint \in Hints
  <2>1. caps \in Seq([length : STRING, type : STRING, hint : Hints])
    BY HotPlugAssumption
  <2>2. DOMAIN caps \subseteq Nat /\ \A i \in DOMAIN caps : caps[i].hint \in Hints
    <3>1. PICK c : c = caps
      OBVIOUS
    <3>2. PICK R : R = [length : STRING, type : STRING, hint : Hints]
      OBVIOUS
    <3>3. c \in Seq(R)
      BY <2>1, <3>1, <3>2
    <3>4. DOMAIN c \subseteq Nat /\ \A i \in DOMAIN c : c[i] \in R
      BY <3>3
    <3>5. \A r \in R : r.hint \in Hints
      BY <3>2
    <3> QED BY <3>1, <3>4, <3>5
  <2>3. right \in SUBSET Nat
    BY <2>2
  <2> HIDE DEF right
  <2>4. \E i \in right : \A j \in right : i <= j
    BY <1>3, <2>3, LeastNumber
  <2>5. first \in right
    BY <2>4
  <2> QED BY <2>2, <2>5 DEF right
<1> QED
  BY <1>1, <1>2, <1>3

\* What GetResourcePadding returns, for any answer of QueryReservationHint.
LEMMA PaddingIsRight ==
  ASSUME NEW q, q.hint \in Hints, NEW all, all = ReservationRequest(q)
  PROVE  /\ Len(all) <= 4 /\ OncePerKind(all)
         /\ \A e \in Elements(all) : e.type # "bus" => IsAperture(e.size)
         /\ q.status # "SUCCESS" =>
              /\ Elements(all) = {Padding("mem", 32, DefaultMmioSize), Padding("io", 64, DefaultIoSize)}
              /\ Len(all) = 2
         /\ q.status = "SUCCESS" =>
              /\ {e \in Elements(all) : e.type = "io"} = {} <=> q.hint.io = 0
              /\ {e \in Elements(all) : e.type = "mem"} = {} <=> q.hint.mem = 0
              /\ {e \in Elements(all) : e.type = "prefetch"} = {} <=>
                   PrefetchHint(q.hint) = 0 \/ 2 * PrefetchHint(q.hint) > PrefetchMax(q.hint) + 1
              /\ \A e \in Elements(all) :
                   /\ e.type = "io" => e.size >= q.hint.io \/ (e.size = DefaultIoSize /\ 2 * q.hint.io > MAX_UINT64)
                   /\ e.type = "mem" => e.size >= q.hint.mem \/ (e.size = DefaultMmioSize /\ 2 * q.hint.mem > MAX_UINT32)
                   /\ e.type = "prefetch" => e.size >= PrefetchHint(q.hint)
<1>1. PICK h \in Hints : h = q.hint
  OBVIOUS
<1>2. CASE q.status = "SUCCESS"
  <2>1. PICK m1 : m1 = (IF DefaultMmio(TRUE, h) THEN SetMmioPadding(FALSE, TRUE, HighBitSetRoundUp32(DefaultMmioSize)) ELSE << >>)
    OBVIOUS
  <2>2. PICK i1 : i1 = (IF DefaultIo(TRUE, h) THEN SetIoPadding(HighBitSetRoundUp64(DefaultIoSize)) ELSE << >>)
    OBVIOUS
  <2>3. PICK m2 : m2 = MmioPadding(h)
    OBVIOUS
  <2>4. PICK i2 : i2 = IoPadding(h)
    OBVIOUS
  <2>5. PICK p : p = PrefetchPadding(h)
    OBVIOUS
  <2>6. PICK b : b = BusPadding(h)
    OBVIOUS
  <2>7. all = m1 \o i1 \o (p \o m2 \o i2 \o b)
    BY <1>1, <1>2, <2>1, <2>2, <2>3, <2>4, <2>5, <2>6 DEF ReservationRequest
  <2>8. /\ OfKind(m1, "mem") /\ OfKind(m2, "mem") /\ Len(m1) + Len(m2) <= 1
        /\ Elements(m1) = {} \/ Elements(m2) = {}
        /\ Elements(m1) \cup Elements(m2) = {} <=> h.mem = 0
        /\ \A e \in Elements(m1) \cup Elements(m2) :
              /\ IsAperture(e.size)
              /\ e.size >= h.mem \/ (e.size = DefaultMmioSize /\ 2 * h.mem > MAX_UINT32)
    BY <2>1, <2>3, MemParts
  <2>9. /\ OfKind(i1, "io") /\ OfKind(i2, "io") /\ Len(i1) + Len(i2) <= 1
        /\ Elements(i1) = {} \/ Elements(i2) = {}
        /\ Elements(i1) \cup Elements(i2) = {} <=> h.io = 0
        /\ \A e \in Elements(i1) \cup Elements(i2) :
              /\ IsAperture(e.size)
              /\ e.size >= h.io \/ (e.size = DefaultIoSize /\ 2 * h.io > MAX_UINT64)
    BY <2>2, <2>4, IoParts
  <2>10. /\ OfKind(p, "prefetch")
         /\ Elements(p) = {} <=> PrefetchHint(h) = 0 \/ 2 * PrefetchHint(h) > PrefetchMax(h) + 1
         /\ \A e \in Elements(p) : IsAperture(e.size) /\ e.size >= PrefetchHint(h)
    BY <2>5, PrefetchPart
  <2>11. OfKind(b, "bus")
    BY <2>6, BusPart
  <2>12. /\ Len(all) <= 4 /\ OncePerKind(all)
         /\ Elements(all) = Elements(m1) \cup Elements(i1) \cup Elements(p) \cup Elements(m2)
                                \cup Elements(i2) \cup Elements(b)
    BY <2>7, <2>8, <2>9, <2>10, <2>11, JoinAll
  <2>13. /\ \A e \in Elements(m1) \cup Elements(m2) : e.type = "mem"
         /\ \A e \in Elements(i1) \cup Elements(i2) : e.type = "io"
         /\ \A e \in Elements(p) : e.type = "prefetch"
         /\ \A e \in Elements(b) : e.type = "bus"
    BY <2>8, <2>9, <2>10, <2>11 DEF OfKind
  <2>14. /\ {e \in Elements(all) : e.type = "io"} = Elements(i1) \cup Elements(i2)
         /\ {e \in Elements(all) : e.type = "mem"} = Elements(m1) \cup Elements(m2)
         /\ {e \in Elements(all) : e.type = "prefetch"} = Elements(p)
    BY <2>12, <2>13
  <2>15. \A e \in Elements(all) : e.type # "bus" => IsAperture(e.size)
    BY <2>8, <2>9, <2>10, <2>12, <2>13
  <2>16. \A e \in Elements(all) :
           /\ e.type = "io" => e.size >= h.io \/ (e.size = DefaultIoSize /\ 2 * h.io > MAX_UINT64)
           /\ e.type = "mem" => e.size >= h.mem \/ (e.size = DefaultMmioSize /\ 2 * h.mem > MAX_UINT32)
           /\ e.type = "prefetch" => e.size >= PrefetchHint(h)
    BY <2>8, <2>9, <2>10, <2>14
  <2> QED BY <1>1, <1>2, <2>8, <2>9, <2>10, <2>12, <2>14, <2>15, <2>16
<1>3. CASE q.status # "SUCCESS"
  <2>1. PICK m : m = Padding("mem", 32, DefaultMmioSize)
    OBVIOUS
  <2>2. PICK i : i = Padding("io", 64, DefaultIoSize)
    OBVIOUS
  <2>3. all = <<m>> \o <<i>> \o << >>
    BY <1>3, <2>1, <2>2, Defaults DEF ReservationRequest, DefaultMmio, DefaultIo, SetMmioPadding, SetIoPadding
  <2>4. OfKind(<<m>>, "mem") /\ Elements(<<m>>) = {m} /\ Len(<<m>>) = 1 /\ m.size = DefaultMmioSize
    BY <2>1, Defaults, OneOfKind
  <2>5. OfKind(<<i>>, "io") /\ Elements(<<i>>) = {i} /\ Len(<<i>>) = 1 /\ i.size = DefaultIoSize
    BY <2>2, Defaults, OneOfKind
  <2>6. /\ <<m>> \in Seq(Paddings) /\ <<i>> \in Seq(Paddings) /\ OncePerKind(<<m>>) /\ OncePerKind(<<i>>)
        /\ m.type = "mem" /\ i.type = "io"
    BY <2>4, <2>5 DEF OfKind
  <2>7. /\ <<m>> \o <<i>> \in Seq(Paddings) /\ Len(<<m>> \o <<i>>) = Len(<<m>>) + Len(<<i>>)
        /\ Elements(<<m>> \o <<i>>) = Elements(<<m>>) \cup Elements(<<i>>) /\ OncePerKind(<<m>> \o <<i>>)
    <3>1. \A a \in Elements(<<m>>), c \in Elements(<<i>>) : a.type # c.type
      BY <2>4, <2>5, <2>6
    <3> QED BY <2>6, <3>1, JoinLists
  <2>8. all = <<m>> \o <<i>>
    <3>1. PICK s : s = <<m>> \o <<i>>
      OBVIOUS
    <3>2. s \in Seq(Paddings)
      BY <2>7, <3>1
    <3>3. s \o << >> = s
      BY <3>2
    <3> QED BY <2>3, <3>1, <3>3
  <2>9. Len(all) = 2 /\ Elements(all) = {m, i} /\ OncePerKind(all)
    BY <2>4, <2>5, <2>7, <2>8
  <2> QED BY <1>3, <2>1, <2>2, <2>4, <2>5, <2>9, Defaults
<1> QED
  BY <1>2, <1>3

-----------------------------------------------------------------------------
\* The invariant holds initially.
LEMMA HpInit == HotPlugInit => HpInv
  BY DEF HotPlugInit, HpInv, PaddingCoversHints

\* The padding made keeps the invariant.
LEMMA HpStep == HpInv /\ GetResourcePadding => HpInv'
<1> SUFFICES ASSUME HpInv, GetResourcePadding PROVE HpInv'
  OBVIOUS
<1>1. hpBridge \in Bridges /\ hpBridge' = hpBridge
  BY DEF HpInv, GetResourcePadding
<1>2. PICK bad \in 0 .. Len(hpBridge.caps), pool \in BOOLEAN :
       /\ hpHint' = QueryReservationHint(hpBridge, bad)
       /\ hpRet' = IF pool THEN "SUCCESS" ELSE "OUT_OF_RESOURCES"
       /\ hpPadding' = IF pool THEN ReservationRequest(hpHint') ELSE << >>
  BY DEF GetResourcePadding
<1>3. CASE ~pool
  BY <1>1, <1>2, <1>3 DEF HpInv, PaddingCoversHints
<1>4. CASE pool
  <2>1. bad \in Nat
    OBVIOUS
  <2>2. hpHint'.hint \in Hints
    BY <1>1, <1>2, <2>1, QueryAnswers
  <2>3. PICK q : q = hpHint'
    OBVIOUS
  <2>4. PICK all : all = hpPadding'
    OBVIOUS
  <2>5. all = ReservationRequest(q) /\ q.hint \in Hints
    BY <1>2, <1>4, <2>2, <2>3, <2>4
  <2>6. /\ Len(all) <= 4 /\ OncePerKind(all)
        /\ \A e \in Elements(all) : e.type # "bus" => IsAperture(e.size)
    BY <2>5, PaddingIsRight
  <2>7. Elements(all) = {all[j] : j \in DOMAIN all}
    BY DEF Elements
  <2>8. \A type : Sizes(type)' = {e.size : e \in {x \in Elements(all) : x.type = type}}
    BY <2>4, <2>7 DEF Sizes
  <2>9. \A i, j \in DOMAIN all : all[i].type = all[j].type => i = j
    BY <2>6 DEF OncePerKind
  <2>10. \A i \in DOMAIN all : all[i].type # "bus" => \E n \in 0 .. Bits64 - 1 : all[i].size = Pow2[n]
    BY <2>6, <2>7 DEF IsAperture
  <2>11. q.status # "SUCCESS" => Sizes("io")' = {DefaultIoSize} /\ Sizes("mem")' = {DefaultMmioSize} /\ Len(all) = 2
    <3> SUFFICES ASSUME q.status # "SUCCESS"
                 PROVE  Sizes("io")' = {DefaultIoSize} /\ Sizes("mem")' = {DefaultMmioSize} /\ Len(all) = 2
      OBVIOUS
    <3>1. Elements(all) = {Padding("mem", 32, DefaultMmioSize), Padding("io", 64, DefaultIoSize)} /\ Len(all) = 2
      BY <2>5, PaddingIsRight
    <3>2. {x \in Elements(all) : x.type = "io"} = {Padding("io", 64, DefaultIoSize)}
      BY <3>1 DEF Padding
    <3>3. {x \in Elements(all) : x.type = "mem"} = {Padding("mem", 32, DefaultMmioSize)}
      BY <3>1 DEF Padding
    <3>4. Padding("mem", 32, DefaultMmioSize).size = DefaultMmioSize /\ Padding("io", 64, DefaultIoSize).size = DefaultIoSize
      BY DEF Padding
    <3> QED BY <2>8, <3>1, <3>2, <3>3, <3>4
  <2>12. q.status = "SUCCESS" =>
           /\ Sizes("io")' = {} <=> q.hint.io = 0
           /\ Sizes("mem")' = {} <=> q.hint.mem = 0
           /\ \A s \in Sizes("io")' : s >= q.hint.io \/ (s = DefaultIoSize /\ 2 * q.hint.io > MAX_UINT64)
           /\ \A s \in Sizes("mem")' : s >= q.hint.mem \/ (s = DefaultMmioSize /\ 2 * q.hint.mem > MAX_UINT32)
           /\ \A s \in Sizes("prefetch")' : s >= PrefetchHint(q.hint)
           /\ Sizes("prefetch")' = {} <=>
                PrefetchHint(q.hint) = 0 \/ 2 * PrefetchHint(q.hint) > PrefetchMax(q.hint) + 1
    <3> SUFFICES ASSUME q.status = "SUCCESS"
        PROVE /\ Sizes("io")' = {} <=> q.hint.io = 0
              /\ Sizes("mem")' = {} <=> q.hint.mem = 0
              /\ \A s \in Sizes("io")' : s >= q.hint.io \/ (s = DefaultIoSize /\ 2 * q.hint.io > MAX_UINT64)
              /\ \A s \in Sizes("mem")' : s >= q.hint.mem \/ (s = DefaultMmioSize /\ 2 * q.hint.mem > MAX_UINT32)
              /\ \A s \in Sizes("prefetch")' : s >= PrefetchHint(q.hint)
              /\ Sizes("prefetch")' = {} <=>
                   PrefetchHint(q.hint) = 0 \/ 2 * PrefetchHint(q.hint) > PrefetchMax(q.hint) + 1
      OBVIOUS
    <3>1. {e \in Elements(all) : e.type = "io"} = {} <=> q.hint.io = 0
      BY <2>5, PaddingIsRight
    <3>2. {e \in Elements(all) : e.type = "mem"} = {} <=> q.hint.mem = 0
      BY <2>5, PaddingIsRight
    <3>3. \A e \in Elements(all) :
                   /\ e.type = "io" => e.size >= q.hint.io \/ (e.size = DefaultIoSize /\ 2 * q.hint.io > MAX_UINT64)
                   /\ e.type = "mem" => e.size >= q.hint.mem \/ (e.size = DefaultMmioSize /\ 2 * q.hint.mem > MAX_UINT32)
                   /\ e.type = "prefetch" => e.size >= PrefetchHint(q.hint)
      BY <2>5, PaddingIsRight
    <3>4. Sizes("io")' = {e.size : e \in {x \in Elements(all) : x.type = "io"}}
      BY <2>8
    <3>5. Sizes("mem")' = {e.size : e \in {x \in Elements(all) : x.type = "mem"}}
      BY <2>8
    <3>6. Sizes("prefetch")' = {e.size : e \in {x \in Elements(all) : x.type = "prefetch"}}
      BY <2>8
    <3>7. Sizes("io")' = {} <=> q.hint.io = 0
      BY <3>1, <3>4
    <3>8. Sizes("mem")' = {} <=> q.hint.mem = 0
      BY <3>2, <3>5
    <3>9. {e \in Elements(all) : e.type = "prefetch"} = {} <=>
            PrefetchHint(q.hint) = 0 \/ 2 * PrefetchHint(q.hint) > PrefetchMax(q.hint) + 1
      BY <2>5, PaddingIsRight
    <3>10. Sizes("prefetch")' = {} <=>
             PrefetchHint(q.hint) = 0 \/ 2 * PrefetchHint(q.hint) > PrefetchMax(q.hint) + 1
      BY <3>6, <3>9
    <3> QED BY <3>3, <3>4, <3>5, <3>6, <3>7, <3>8, <3>10
  <2>13. PaddingCoversHints'
    BY <2>3, <2>4, <2>6, <2>9, <2>10, <2>11, <2>12 DEF PaddingCoversHints
  <2> QED BY <1>1, <2>13 DEF HpInv
<1> QED
  BY <1>3, <1>4

(***************************************************************************)
(* For every bridge, every hint and every width of the registers the       *)
(* padding that GetResourcePadding reports fits its four slots and covers  *)
(* what the hints ask for: the rounding of HighBitSetRoundUp32 and -64     *)
(* neither overflows nor falls short.                                      *)
(***************************************************************************)
THEOREM HotPlugPadding == HotPlugSpec => []PaddingCoversHints
<1>1. HotPlugInit => HpInv
  BY HpInit
<1>2. HpInv /\ [HotPlugNext]_hpVars => HpInv'
  <2>1. HpInv /\ UNCHANGED hpVars => HpInv'
    <3> SUFFICES ASSUME HpInv, UNCHANGED hpVars PROVE HpInv'
      OBVIOUS
    <3>1. hpBridge' = hpBridge /\ hpHint' = hpHint /\ hpRet' = hpRet /\ hpPadding' = hpPadding
      BY DEF hpVars
    <3>2. \A type : Sizes(type)' = Sizes(type)
      BY <3>1 DEF Sizes
    <3>3. PaddingCoversHints
      BY DEF HpInv
    <3>4. Sizes("io")' = Sizes("io") /\ Sizes("mem")' = Sizes("mem") /\ Sizes("prefetch")' = Sizes("prefetch")
      BY <3>2
    <3>5. PaddingCoversHints'
      BY <3>1, <3>3, <3>4 DEF PaddingCoversHints
    <3> QED BY <3>1, <3>5 DEF HpInv
  <2> QED BY <2>1, HpStep DEF HotPlugNext
<1>3. HpInv => PaddingCoversHints
  BY DEF HpInv
<1> QED
  BY <1>1, <1>2, <1>3, PTL DEF HotPlugSpec

-----------------------------------------------------------------------------
(* QemuFlash.                                                              *)

Modes == {"array", "status"}

\* A value for each cell.
IsCells(c) == c = [x \in FdBytes |-> c[x]]

\* The chip and its cells.
QTypes ==
  /\ qKind \in {"flash", "ram", "rom"} /\ qSevEs \in BOOLEAN
  /\ IsCells(qCells) /\ qMode \in Modes

\* A physical address is known after the change to virtual ones.
BaseKept == qEsBase \in {"none", "phys"} /\ qBase \in {"phys", "virt"} /\ (qSevEs /\ qBase = "virt" => qEsBase = "phys")

\* Before FvbInitialize nothing is changed and nothing is locked.
Untouched == "none" \in qAttrs => /\ qAttrs = {"none"} /\ qFrozen = {} /\ qBase = "phys" /\ qEsBase = "none"
                                  /\ qRet = "" => qCells = qBefore /\ qCall = NoCall /\ qMode = "array"

\* The cells once n blocks are erased; memory in the place of flash keeps the last command given.
Wiped(c, lba, n) == [x \in FdBytes |-> IF x \div FdBlockSize \in lba .. (lba + n - 1) THEN "FF" ELSE c[x]]
Stamped(c, lba, n) ==
  [x \in FdBytes |-> IF \E i \in 0 .. n - 1 : x = (lba + i) * FdBlockSize THEN "BLOCK_ERASE_CONFIRM" ELSE c[x]]

\* The attributes kept when the volume was locked say so.
FrozenIsLocked == qFrozen # {} => "LOCK_STATUS" \in qFrozen

\* The parts of the property.
FlashTold ==
  (qCall.op = "init" /\ ~qSevEs) => (qRet = "SUCCESS") = (qKind = "flash" /\ Probes(qBefore) # {})
NoFlashLeftAlone == (qCall.op = "init" /\ qRet = "WRITE_PROTECTED") => qCells = qBefore
RefusedLeftAlone == qRet = "INVALID_PARAMETER" => qCells = qBefore
WrittenCells == [a \in FdBytes |-> LET k == a + 1 - (qCall.lba * FdBlockSize + qCall.off)
                                  IN  IF k \in DOMAIN qCall.data THEN qCall.data[k] ELSE qBefore[a]]
DoneAsAsked ==
  (qKind = "flash" /\ qRet = "SUCCESS") =>
    /\ qCall.op = "init" => HeaderIn(qCells) /\ (HeaderIn(qBefore) => qCells = qBefore)
    /\ qCall.op = "write" => qCells = WrittenCells
    /\ qCall.op = "erase" => qCells = Wiped(qBefore, qCall.lba, qCall.off)
    /\ qCall.op = "read" => (qLast # "erase" => qCall.data = ContentsRead)
ReadsCells == (qKind = "flash" /\ qLast # "erase") => qMode = "array"
StatusIsAllowed == "none" \notin qAttrs => StatusAllowed(qAttrs, qAttrs \cap FVB2_STATUS)
LockIsFinal == qFrozen # {} => qAttrs = qFrozen

CallResult == FlashTold /\ NoFlashLeftAlone /\ RefusedLeftAlone /\ DoneAsAsked /\ ReadsCells

\* The inductive invariant.
QInv == /\ QTypes /\ BaseKept /\ Untouched /\ FrozenIsLocked
        /\ CallResult /\ StatusIsAllowed /\ LockIsFinal

-----------------------------------------------------------------------------
\* What is assumed of the constants, part by part.
LEMMA FlashSizes ==
  /\ FdBlockSize \in Nat /\ FdBlockSize > 0 /\ FdBlockCount \in Nat /\ FdBlockCount > 0
  /\ FvBlocks \in Nat /\ FvBlocks > 0 /\ FvBlocks <= FdBlockCount
  BY QemuFlashAssumption

\* The volume header fits into a block.
LEMMA FlashHeader == FvbHeader \in Seq(STRING) /\ Len(FvbHeader) <= FdBlockSize
  BY QemuFlashAssumption, Zenon

\* The attributes of a volume are consistent.
LEMMA FlashAttributes ==
  ASSUME NEW attrs \in FvbAttributeSets
  PROVE  "none" \notin attrs /\ StatusAllowed(attrs, attrs \cap FVB2_STATUS)
  BY QemuFlashAssumption, Zenon

\* The writes stay in the flash.
LEMMA FlashWrites ==
  ASSUME NEW w \in FvbWrites
  PROVE  /\ w \in Nat \X Nat \X Seq(STRING)
         /\ w[1] < FdBlockCount => w[1] * FdBlockSize + w[2] + Len(w[3]) <= FdBlockSize * FdBlockCount
  BY QemuFlashAssumption

\* The flash as a number of bytes.
LEMMA FlashBytes ==
  \E n \in Nat : n = FdBlockSize * FdBlockCount /\ n >= FdBlockSize /\ FdBytes = 0 .. n - 1
<1>1. PICK s \in Nat, c \in Nat : s = FdBlockSize /\ c = FdBlockCount /\ c > 0
  BY FlashSizes
<1>2. \A x, y \in Nat : y > 0 => x * y \in Nat /\ x * y >= x
  OBVIOUS
<1> QED
  BY <1>1, <1>2 DEF FdBytes

\* Every write goes to the flash.
LEMMA PtrWriteReaches ==
  ASSUME BaseKept, NEW s, NEW a, NEW v
  PROVE  QemuFlashPtrWrite(s, a, v) = ChipWrite(s, a, v)
  BY DEF BaseKept, QemuFlashPtrWrite, PhysicalBase

\* The block of the first address of a block.
LEMMA DivOfProduct == \A b \in Nat, s \in Nat : s > 0 => (b * s) \div s = b
  OBVIOUS

\* One cell changed.
Put(c, a, v) == [c EXCEPT ![a] = v]

\* One byte is programmed by two writes.
LEMMA ByteProgrammed ==
  ASSUME QTypes, BaseKept, NEW c, NEW m \in Modes, NEW a, NEW v
  PROVE  LET s == QemuFlashPtrWrite(QemuFlashPtrWrite(<<c, m>>, a, "WRITE_BYTE"), a, v)
         IN  /\ qKind = "flash" => s = <<Put(c, a, v), "status">>
             /\ qKind = "ram"   => s = <<Put(Put(c, a, "WRITE_BYTE"), a, v), "array">>
             /\ qKind = "rom"   => s = <<c, m>>
<1>0. \A x, y : <<x, y>>[1] = x /\ <<x, y>>[2] = y
  OBVIOUS
<1>1. PICK s : s = <<c, m>>
  OBVIOUS
<1>a. s[1] = c /\ s[2] = m
  BY <1>0, <1>1
<1>2. CASE qKind = "rom"
  <2>1. \A u : ChipWrite(s, a, u) = s
    BY <1>2 DEF ChipWrite
  <2> QED BY <1>1, <1>2, <2>1, PtrWriteReaches
<1>3. CASE qKind = "ram"
  <2>1. PICK d : d = Put(c, a, "WRITE_BYTE")
    OBVIOUS
  <2>2. ChipWrite(s, a, "WRITE_BYTE") = <<d, "array">>
    BY <1>a, <1>3, <2>1 DEF ChipWrite, Put
  <2>3. PICK t : t = <<d, "array">>
    OBVIOUS
  <2>a. t[1] = d
    BY <1>0, <2>3
  <2>4. ChipWrite(t, a, v) = <<Put(d, a, v), "array">>
    BY <1>3, <2>a DEF ChipWrite, Put
  <2>5. QemuFlashPtrWrite(s, a, "WRITE_BYTE") = t /\ QemuFlashPtrWrite(t, a, v) = <<Put(d, a, v), "array">>
    BY <2>2, <2>3, <2>4, PtrWriteReaches
  <2> QED BY <1>1, <1>3, <2>1, <2>5
<1>4. CASE qKind = "flash"
  <2>1. ChipWrite(s, a, "WRITE_BYTE") = <<c, "write">>
    BY <1>a, <1>4 DEF ChipWrite, Put, Modes
  <2>2. PICK t : t = <<c, "write">>
    OBVIOUS
  <2>a. t[1] = c /\ t[2] = "write"
    BY <1>0, <2>2
  <2>3. ChipWrite(t, a, v) = <<Put(c, a, v), "status">>
    BY <1>4, <2>a DEF ChipWrite, Put
  <2>5. QemuFlashPtrWrite(s, a, "WRITE_BYTE") = t /\ QemuFlashPtrWrite(t, a, v) = <<Put(c, a, v), "status">>
    BY <2>1, <2>2, <2>3, PtrWriteReaches
  <2> QED BY <1>1, <1>4, <2>5
<1> QED
  BY <1>2, <1>3, <1>4 DEF QTypes

\* The cells once the first n bytes of data are in.
Programmed(c, a, data, n) == [x \in FdBytes |-> IF x >= a /\ x < a + n THEN data[x + 1 - a] ELSE c[x]]

\* What n bytes of the loop of QemuFlashWrite leave.
AfterBytes(c, m, a, data, n) ==
  IF n = 0 \/ qKind = "rom" THEN <<c, m>>
  ELSE <<Programmed(c, a, data, n), IF qKind = "flash" THEN "status" ELSE "array">>

\* One more byte.
LEMMA NextByte ==
  ASSUME QTypes, BaseKept, NEW c, IsCells(c), NEW m \in Modes, NEW a \in Nat, NEW data \in Seq(STRING),
         NEW size \in Nat, FdBytes = 0 .. size - 1, a + Len(data) <= size, NEW n \in 1 .. Len(data)
  PROVE  QemuFlashPtrWrite(QemuFlashPtrWrite(AfterBytes(c, m, a, data, n - 1), a + (n - 1), "WRITE_BYTE"),
                           a + (n - 1), data[n])
         = AfterBytes(c, m, a, data, n)
<1>a. PICK d : d = IF qKind = "rom" THEN c ELSE Programmed(c, a, data, n - 1)
  OBVIOUS
<1>b. PICK o : o = IF n - 1 = 0 \/ qKind = "rom" THEN m ELSE IF qKind = "flash" THEN "status" ELSE "array"
  OBVIOUS
<1>c. o \in Modes
  BY <1>b DEF Modes
<1>d. IsCells(d)
  BY <1>a DEF IsCells, Programmed
<1>e. n - 1 = 0 => d = c
  <2>1. \A x \in FdBytes : ~(x >= a /\ x < a + 0)
    OBVIOUS
  <2>2. n - 1 = 0 => Programmed(c, a, data, n - 1) = c
    BY <2>1 DEF Programmed, IsCells
  <2> QED BY <1>a, <2>2
<1>1. AfterBytes(c, m, a, data, n - 1) = <<d, o>>
  <2>1. CASE n - 1 = 0 \/ qKind = "rom"
    BY <1>a, <1>b, <1>e, <2>1 DEF AfterBytes
  <2>2. CASE ~(n - 1 = 0 \/ qKind = "rom")
    BY <1>a, <1>b, <2>2 DEF AfterBytes
  <2> QED BY <2>1, <2>2
<1>2. CASE qKind = "rom"
  <2>1. d = c /\ o = m
    BY <1>a, <1>b, <1>2
  <2> QED BY <1>1, <1>2, <1>c, <2>1, ByteProgrammed DEF AfterBytes
<1>3. CASE qKind # "rom"
  <2>1. PICK at \in FdBytes : at = a + (n - 1)
    OBVIOUS
  <2>2. PICK v : v = data[n]
    OBVIOUS
  <2>3. PICK e : e = Put(d, at, v)
    OBVIOUS
  <2>4. e = Programmed(c, a, data, n)
    <3>1. \A x \in FdBytes : x + 1 - a = n <=> x = at
      BY <2>1
    <3>2. \A x \in FdBytes : (x >= a /\ x < a + n) <=> (x >= a /\ x < a + (n - 1)) \/ x = at
      BY <2>1
    <3>3. \A x \in FdBytes : d[x] = IF x >= a /\ x < a + (n - 1) THEN data[x + 1 - a] ELSE c[x]
      BY <1>a, <1>3 DEF Programmed
    <3>4. e = [x \in FdBytes |-> IF x = at THEN v ELSE d[x]]
      BY <1>d, <2>3 DEF IsCells, Put
    <3>5. \A x \in FdBytes : e[x] = IF x >= a /\ x < a + n THEN data[x + 1 - a] ELSE c[x]
      BY <2>2, <3>1, <3>2, <3>3, <3>4
    <3> QED BY <3>4, <3>5 DEF Programmed
  <2>5. AfterBytes(c, m, a, data, n) = <<e, IF qKind = "flash" THEN "status" ELSE "array">>
    BY <1>3, <2>4 DEF AfterBytes
  <2>6. Put(Put(d, at, "WRITE_BYTE"), at, v) = e
    BY <1>d, <2>3 DEF IsCells, Put
  <2>7. qKind \in {"flash", "ram"}
    BY <1>3 DEF QTypes
  <2>8. QemuFlashPtrWrite(QemuFlashPtrWrite(<<d, o>>, at, "WRITE_BYTE"), at, v)
        = <<e, IF qKind = "flash" THEN "status" ELSE "array">>
    <3>1. CASE qKind = "flash"
      BY <1>c, <2>3, <3>1, ByteProgrammed
    <3>2. CASE qKind = "ram"
      BY <1>c, <2>6, <3>2, ByteProgrammed
    <3> QED BY <2>7, <3>1, <3>2
  <2> QED BY <1>1, <2>1, <2>2, <2>5, <2>8
<1> QED
  BY <1>2, <1>3

\* The loop of QemuFlashWrite programs the whole of data.
LEMMA AllBytes ==
  ASSUME QTypes, BaseKept, NEW c, IsCells(c), NEW m \in Modes, NEW a \in Nat, NEW data \in Seq(STRING),
         NEW size \in Nat, FdBytes = 0 .. size - 1, a + Len(data) <= size
  PROVE  WriteBytes(<<c, m>>, a, data) = AfterBytes(c, m, a, data, Len(data))
<1>1. PICK len \in Nat : len = Len(data)
  OBVIOUS
<1> DEFINE Step(s, n) == QemuFlashPtrWrite(QemuFlashPtrWrite(s, a + (n - 1), "WRITE_BYTE"), a + (n - 1), data[n])
           g == [n \in 0 .. len |-> AfterBytes(c, m, a, data, n)]
           f == CHOOSE h : h = [n \in 0 .. Len(data) |-> IF n = 0 THEN <<c, m>> ELSE Step(h[n - 1], n)]
<1>2. WriteBytes(<<c, m>>, a, data) = f[Len(data)]
  BY DEF WriteBytes
<1>3. AfterBytes(c, m, a, data, 0) = <<c, m>>
  BY DEF AfterBytes
<1>4. \A n \in 1 .. len : Step(AfterBytes(c, m, a, data, n - 1), n) = AfterBytes(c, m, a, data, n)
  BY <1>1, NextByte
<1> HIDE DEF Step
<1>5. \A n \in 1 .. len : n - 1 \in 0 .. len
  OBVIOUS
<1>6. g = [n \in 0 .. len |-> IF n = 0 THEN <<c, m>> ELSE Step(g[n - 1], n)]
  <2>1. \A n \in 0 .. len : g[n] = IF n = 0 THEN <<c, m>> ELSE Step(g[n - 1], n)
    <3> TAKE n \in 0 .. len
    <3>1. CASE n = 0
      BY <1>3, <3>1
    <3>2. CASE n # 0
      <4>1. n \in 1 .. len
        BY <3>2
      <4>2. g[n - 1] = AfterBytes(c, m, a, data, n - 1)
        BY <1>5, <4>1
      <4> QED BY <1>4, <3>2, <4>1, <4>2
    <3> QED BY <3>1, <3>2
  <2> QED BY <2>1
<1>7. f = [n \in 0 .. len |-> IF n = 0 THEN <<c, m>> ELSE Step(f[n - 1], n)]
  BY <1>1, <1>6
<1> HIDE DEF f, g
<1> DEFINE S == {n \in Nat : n <= len => f[n] = AfterBytes(c, m, a, data, n)}
<1>8. 0 \in S
  BY <1>3, <1>7
<1>9. \A n \in Nat : n \in S => n + 1 \in S
  <2> TAKE n \in Nat
  <2> HAVE n \in S
  <2> SUFFICES ASSUME n + 1 <= len PROVE f[n + 1] = AfterBytes(c, m, a, data, n + 1)
    OBVIOUS
  <2>1. n + 1 \in 1 .. len /\ n + 1 \in 0 .. len /\ (n + 1) - 1 = n /\ n <= len /\ n + 1 # 0
    OBVIOUS
  <2>2. f[n + 1] = Step(f[n], n + 1)
    BY <1>7, <2>1
  <2>3. f[n] = AfterBytes(c, m, a, data, n)
    BY <2>1
  <2> QED BY <1>4, <2>1, <2>2, <2>3
<1> HIDE DEF S
<1>10. len \in S
  BY <1>8, <1>9, Induction
<1> QED
  BY <1>1, <1>2, <1>10 DEF S

-----------------------------------------------------------------------------
\* A write within the flash, from a state between two calls.
LEMMA WriteDone ==
  ASSUME QTypes, BaseKept, NEW c, IsCells(c), NEW m \in Modes, NEW lba \in Nat, NEW off \in Nat,
         NEW data \in Seq(STRING), lba < FdBlockCount,
         lba * FdBlockSize + off + Len(data) <= FdBlockSize * FdBlockCount,
         NEW w, w = QemuFlashWrite(<<c, m>>, lba, off, data),
         NEW new, new = Programmed(c, lba * FdBlockSize + off, data, Len(data))
  PROVE  /\ w.st = "SUCCESS" /\ IsCells(w.s[1]) /\ w.s[2] \in Modes
         /\ IsCells(new)
         /\ qKind = "flash" => w.s[1] = new /\ (data # << >> => w.s[2] = "array")
         /\ data = << >> => w.s[2] = m
<1>1. PICK size \in Nat : size = FdBlockSize * FdBlockCount /\ FdBytes = 0 .. size - 1
  BY FlashBytes
<1>2. PICK a \in Nat : a = lba * FdBlockSize + off
  <2>1. \A x, y, z \in Nat : x * y + z \in Nat
    OBVIOUS
  <2> QED BY <2>1, FlashSizes
<1>3. PICK len \in Nat : len = Len(data)
  OBVIOUS
<1>4. a + len <= size /\ new = Programmed(c, a, data, len)
  BY <1>1, <1>2, <1>3
<1>5. WriteBytes(<<c, m>>, a, data) = AfterBytes(c, m, a, data, len)
  BY <1>1, <1>3, <1>4, AllBytes
<1>6. IsCells(new)
  BY <1>4 DEF IsCells, Programmed
<1>7. data = << >> <=> len = 0
  BY <1>3
<1>8. ~(lba >= FdBlockCount)
  BY FlashSizes
<1>9. CASE data = << >>
  <2>1. new = c
    <3>1. \A x \in FdBytes : ~(x >= a /\ x < a + len)
      BY <1>1, <1>7, <1>9
    <3> QED BY <1>4, <3>1 DEF Programmed, IsCells
  <2>2. w = [st |-> "SUCCESS", s |-> <<c, m>>]
    BY <1>2, <1>5, <1>7, <1>8, <1>9 DEF QemuFlashWrite, AfterBytes
  <2> QED BY <1>6, <1>9, <2>1, <2>2
<1>10. CASE data # << >>
  <2>1. PICK at : at = a + Len(data) - 1
    OBVIOUS
  <2>2. PICK t : t = QemuFlashPtrWrite(AfterBytes(c, m, a, data, len), at, "READ_ARRAY")
    OBVIOUS
  <2>3. w = [st |-> "SUCCESS", s |-> t]
    BY <1>2, <1>5, <1>8, <1>10, <2>1, <2>2 DEF QemuFlashWrite
  <2>4. w.st = "SUCCESS" /\ w.s = t
    BY <2>3
  <2>5. PICK o, d : o \in Modes /\
          IsCells(d) /\ AfterBytes(c, m, a, data, len) = <<d, o>> /\ (qKind = "flash" => d = new)
    <3>1. CASE qKind = "rom"
      BY <3>1 DEF AfterBytes
    <3>2. CASE qKind # "rom"
      <4>1. PICK o : o = IF qKind = "flash" THEN "status" ELSE "array"
        OBVIOUS
      <4>2. AfterBytes(c, m, a, data, len) = <<new, o>> /\ o \in Modes
        BY <1>4, <1>7, <1>10, <3>2, <4>1 DEF AfterBytes, Modes
      <4> QED BY <1>6, <4>2
    <3> QED BY <3>1, <3>2
  <2>6. t = ChipWrite(<<d, o>>, at, "READ_ARRAY")
    BY <2>2, <2>5, PtrWriteReaches
  <2>7. CASE qKind = "flash"
    <3>1. t = <<d, "array">>
      BY <2>5, <2>6, <2>7 DEF ChipWrite, Modes
    <3>2. t[1] = d /\ t[2] = "array"
      BY <3>1
    <3> QED BY <1>6, <1>10, <2>4, <2>5, <2>7, <3>2 DEF Modes
  <2>8. CASE qKind = "ram"
    <3>1. t = <<[d EXCEPT ![at] = "READ_ARRAY"], "array">>
      BY <2>6, <2>8 DEF ChipWrite
    <3>2. PICK e : e = [d EXCEPT ![at] = "READ_ARRAY"]
      OBVIOUS
    <3>3. e = [x \in FdBytes |-> IF x = at THEN "READ_ARRAY" ELSE d[x]]
      BY <2>5, <3>2 DEF IsCells
    <3>4. IsCells(e)
      BY <3>3 DEF IsCells
    <3>5. t[1] = e /\ t[2] = "array"
      BY <3>1, <3>2
    <3> QED BY <1>6, <1>10, <2>4, <2>8, <3>4, <3>5 DEF Modes
  <2>9. CASE qKind = "rom"
    <3>1. t = <<d, o>>
      BY <2>6, <2>9 DEF ChipWrite
    <3>2. t[1] = d /\ t[2] = o
      BY <3>1
    <3> QED BY <1>6, <1>10, <2>4, <2>5, <2>9, <3>2
  <2> QED BY <2>7, <2>8, <2>9 DEF QTypes
<1> QED
  BY <1>9, <1>10

-----------------------------------------------------------------------------
\* What n blocks of an erase leave.
AfterErase(c, m, lba, n) ==
  IF n = 0 \/ qKind = "rom" THEN <<c, m>>
  ELSE IF qKind = "flash" THEN <<Wiped(c, lba, n), "status">> ELSE <<Stamped(c, lba, n), "array">>

\* One block is erased by two writes.
LEMMA BlockErased ==
  ASSUME QTypes, BaseKept, NEW c, IsCells(c), NEW m \in Modes, NEW lba \in Nat, lba < FdBlockCount
  PROVE  LET e == QemuFlashEraseBlock(<<c, m>>, lba)
         IN  /\ qKind = "flash" => e = [st |-> "SUCCESS", s |-> <<Wiped(c, lba, 1), "status">>]
             /\ qKind = "ram"   => e = [st |-> "SUCCESS",
                                       s |-> <<Put(c, lba * FdBlockSize, "BLOCK_ERASE_CONFIRM"), "array">>]
             /\ qKind = "rom"   => e = [st |-> "SUCCESS", s |-> <<c, m>>]
<1>0. \A x, y : <<x, y>>[1] = x /\ <<x, y>>[2] = y
  OBVIOUS
<1>1. PICK s, a : s = <<c, m>> /\ a = lba * FdBlockSize
  OBVIOUS
<1>2. s[1] = c /\ s[2] = m
  BY <1>0, <1>1
<1>3. QemuFlashEraseBlock(s, lba)
      = [st |-> "SUCCESS", s |-> ChipWrite(ChipWrite(s, a, "BLOCK_ERASE"), a, "BLOCK_ERASE_CONFIRM")]
  <2>1. ~(lba >= FdBlockCount)
    BY FlashSizes
  <2>2. \A u, v : QemuFlashPtrWrite(u, a, v) = ChipWrite(u, a, v)
    BY PtrWriteReaches
  <2> QED BY <1>1, <2>1, <2>2 DEF QemuFlashEraseBlock
<1>4. CASE qKind = "rom"
  <2>1. \A u : ChipWrite(s, a, u) = s
    BY <1>4 DEF ChipWrite
  <2> QED BY <1>1, <1>3, <1>4, <2>1
<1>5. CASE qKind = "ram"
  <2>1. PICK d : d = Put(c, a, "BLOCK_ERASE")
    OBVIOUS
  <2>2. ChipWrite(s, a, "BLOCK_ERASE") = <<d, "array">>
    BY <1>2, <1>5, <2>1 DEF ChipWrite, Put
  <2>3. PICK t : t = <<d, "array">>
    OBVIOUS
  <2>4. t[1] = d
    BY <1>0, <2>3
  <2>5. ChipWrite(t, a, "BLOCK_ERASE_CONFIRM") = <<Put(d, a, "BLOCK_ERASE_CONFIRM"), "array">>
    BY <1>5, <2>4 DEF ChipWrite, Put
  <2>6. Put(d, a, "BLOCK_ERASE_CONFIRM") = Put(c, a, "BLOCK_ERASE_CONFIRM")
    BY <2>1 DEF Put, IsCells
  <2> QED BY <1>1, <1>3, <1>5, <2>2, <2>3, <2>5, <2>6
<1>6. CASE qKind = "flash"
  <2>1. ChipWrite(s, a, "BLOCK_ERASE") = <<c, "erase">>
    BY <1>2, <1>6 DEF ChipWrite, Modes
  <2>2. PICK t : t = <<c, "erase">>
    OBVIOUS
  <2>3. t[1] = c /\ t[2] = "erase"
    BY <1>0, <2>2
  <2>4. PICK d : d = [x \in FdBytes |-> IF x \div FdBlockSize = a \div FdBlockSize THEN "FF" ELSE c[x]]
    OBVIOUS
  <2>5. ChipWrite(t, a, "BLOCK_ERASE_CONFIRM") = <<d, "status">>
    BY <1>6, <2>3, <2>4 DEF ChipWrite
  <2>6. d = Wiped(c, lba, 1)
    <3>1. a \div FdBlockSize = lba
      BY <1>1, DivOfProduct, FlashSizes
    <3>2. lba .. (lba + 1 - 1) = {lba}
      OBVIOUS
    <3> QED BY <2>4, <3>1, <3>2 DEF Wiped
  <2> QED BY <1>1, <1>3, <1>6, <2>1, <2>2, <2>5, <2>6
<1> QED
  BY <1>4, <1>5, <1>6 DEF QTypes

\* One more block.
LEMMA NextBlock ==
  ASSUME QTypes, BaseKept, NEW c, IsCells(c), NEW m \in Modes, NEW lba \in Nat, NEW n \in Nat \ {0},
         lba + n <= FdBlockCount
  PROVE  QemuFlashEraseBlock(AfterErase(c, m, lba, n - 1), lba + (n - 1))
         = [st |-> "SUCCESS", s |-> AfterErase(c, m, lba, n)]
<1>1. PICK b \in Nat : b = lba + (n - 1)
  OBVIOUS
<1>2. b < FdBlockCount
  BY <1>1, FlashSizes
<1>3. CASE qKind = "rom"
  BY <1>1, <1>2, <1>3, BlockErased DEF AfterErase
<1>4. CASE qKind = "flash"
  <2>1. PICK d, o : d = Wiped(c, lba, n - 1) /\ o = IF n - 1 = 0 THEN m ELSE "status"
    OBVIOUS
  <2>2. o \in Modes /\ IsCells(d)
    BY <2>1 DEF Modes, IsCells, Wiped
  <2>3. AfterErase(c, m, lba, n - 1) = <<d, o>>
    <3>1. CASE n - 1 = 0
      <4>1. lba .. (lba + (n - 1) - 1) = {}
        BY <3>1
      <4>2. d = c
        BY <2>1, <4>1 DEF Wiped, IsCells
      <4> QED BY <2>1, <3>1, <4>2 DEF AfterErase
    <3>2. CASE n - 1 # 0
      BY <1>4, <2>1, <3>2 DEF AfterErase
    <3> QED BY <3>1, <3>2
  <2>4. Wiped(d, b, 1) = Wiped(c, lba, n)
    <3>1. \A y : y \in b .. (b + 1 - 1) \/ y \in lba .. (lba + (n - 1) - 1) <=> y \in lba .. (lba + n - 1)
      BY <1>1
    <3>2. \A x \in FdBytes : d[x] = IF x \div FdBlockSize \in lba .. (lba + (n - 1) - 1) THEN "FF" ELSE c[x]
      BY <2>1 DEF Wiped
    <3> QED BY <3>1, <3>2 DEF Wiped
  <2>5. AfterErase(c, m, lba, n) = <<Wiped(c, lba, n), "status">>
    BY <1>4 DEF AfterErase
  <2> QED BY <1>1, <1>2, <1>4, <2>2, <2>3, <2>4, <2>5, BlockErased
<1>5. CASE qKind = "ram"
  <2>1. PICK d, o : d = Stamped(c, lba, n - 1) /\ o = IF n - 1 = 0 THEN m ELSE "array"
    OBVIOUS
  <2>2. o \in Modes /\ IsCells(d)
    BY <2>1 DEF Modes, IsCells, Stamped
  <2>3. AfterErase(c, m, lba, n - 1) = <<d, o>>
    <3>1. CASE n - 1 = 0
      <4>1. 0 .. (n - 1) - 1 = {}
        BY <3>1
      <4>2. d = c
        BY <2>1, <4>1 DEF Stamped, IsCells
      <4> QED BY <2>1, <3>1, <4>2 DEF AfterErase
    <3>2. CASE n - 1 # 0
      BY <1>5, <2>1, <3>2 DEF AfterErase
    <3> QED BY <3>1, <3>2
  <2>4. Put(d, b * FdBlockSize, "BLOCK_ERASE_CONFIRM") = Stamped(c, lba, n)
    <3>1. \A i : i \in 0 .. n - 1 <=> i \in 0 .. (n - 1) - 1 \/ i = n - 1
      OBVIOUS
    <3>2. PICK a : a = b * FdBlockSize /\ a = (lba + (n - 1)) * FdBlockSize
      BY <1>1
    <3>3. Put(d, a, "BLOCK_ERASE_CONFIRM") = [x \in FdBytes |-> IF x = a THEN "BLOCK_ERASE_CONFIRM" ELSE d[x]]
      BY <2>2 DEF Put, IsCells
    <3>4. \A x \in FdBytes : d[x] = IF \E i \in 0 .. (n - 1) - 1 : x = (lba + i) * FdBlockSize
                                   THEN "BLOCK_ERASE_CONFIRM" ELSE c[x]
      BY <2>1 DEF Stamped
    <3>5. \A x : (\E i \in 0 .. n - 1 : x = (lba + i) * FdBlockSize)
                 <=> x = a \/ \E i \in 0 .. (n - 1) - 1 : x = (lba + i) * FdBlockSize
      BY <3>1, <3>2
    <3>6. \A x \in FdBytes : (IF x = a THEN "BLOCK_ERASE_CONFIRM" ELSE d[x])
                              = IF \E i \in 0 .. n - 1 : x = (lba + i) * FdBlockSize
                                THEN "BLOCK_ERASE_CONFIRM" ELSE c[x]
      BY <3>4, <3>5, Zenon
    <3>7. [x \in FdBytes |-> IF x = a THEN "BLOCK_ERASE_CONFIRM" ELSE d[x]] = Stamped(c, lba, n)
      BY <3>6, Zenon DEF Stamped
    <3> QED BY <3>2, <3>3, <3>7
  <2>5. AfterErase(c, m, lba, n) = <<Stamped(c, lba, n), "array">>
    BY <1>5 DEF AfterErase
  <2>6. QemuFlashEraseBlock(<<d, o>>, b)
        = [st |-> "SUCCESS", s |-> <<Put(d, b * FdBlockSize, "BLOCK_ERASE_CONFIRM"), "array">>]
    BY <1>2, <1>5, <2>2, BlockErased, Zenon
  <2> QED BY <1>1, <2>3, <2>4, <2>5, <2>6
<1> QED
  BY <1>3, <1>4, <1>5 DEF QTypes

\* The loop over the blocks erases all of them.
LEMMA AllBlocks ==
  ASSUME QTypes, BaseKept, NEW c, IsCells(c), NEW m \in Modes, NEW lba \in Nat, NEW len \in Nat,
         lba + len <= FdBlockCount
  PROVE  EraseFrom(<<c, m>>, lba, len) = [st |-> "SUCCESS", s |-> AfterErase(c, m, lba, len)]
<1> DEFINE Done(n) == [st |-> "SUCCESS", s |-> AfterErase(c, m, lba, n)]
           Step(r, i) == IF r.st = "SUCCESS" THEN QemuFlashEraseBlock(r.s, lba + (i - 1)) ELSE r
           First == [st |-> "SUCCESS", s |-> <<c, m>>]
           g == [n \in 0 .. len |-> Done(n)]
           f == CHOOSE h : h = [i \in 0 .. len |-> IF i = 0 THEN First ELSE Step(h[i - 1], i)]
<1>2. EraseFrom(<<c, m>>, lba, len) = f[len]
  BY DEF EraseFrom
<1>3. Done(0) = First
  BY DEF AfterErase
<1>4. \A n \in 1 .. len : Step(Done(n - 1), n) = Done(n)
  <2> TAKE n \in 1 .. len
  <2>1. n \in Nat \ {0} /\ lba + n <= FdBlockCount
    BY FlashSizes
  <2> QED BY <2>1, NextBlock
<1> HIDE DEF Step, Done, First
<1>5. \A n \in 1 .. len : n - 1 \in 0 .. len
  OBVIOUS
<1>6. g = [n \in 0 .. len |-> IF n = 0 THEN First ELSE Step(g[n - 1], n)]
  <2>1. \A n \in 0 .. len : g[n] = IF n = 0 THEN First ELSE Step(g[n - 1], n)
    <3> TAKE n \in 0 .. len
    <3>1. CASE n = 0
      BY <1>3, <3>1
    <3>2. CASE n # 0
      <4>1. n \in 1 .. len
        BY <3>2
      <4>2. g[n - 1] = Done(n - 1)
        BY <1>5, <4>1
      <4> QED BY <1>4, <3>2, <4>1, <4>2
    <3> QED BY <3>1, <3>2
  <2> QED BY <2>1
<1>7. f = [n \in 0 .. len |-> IF n = 0 THEN First ELSE Step(f[n - 1], n)]
  BY <1>6
<1> HIDE DEF f, g
<1> DEFINE S == {n \in Nat : n <= len => f[n] = Done(n)}
<1>8. 0 \in S
  BY <1>3, <1>7
<1>9. \A n \in Nat : n \in S => n + 1 \in S
  <2> TAKE n \in Nat
  <2> HAVE n \in S
  <2> SUFFICES ASSUME n + 1 <= len PROVE f[n + 1] = Done(n + 1)
    OBVIOUS
  <2>1. n + 1 \in 1 .. len /\ n + 1 \in 0 .. len /\ (n + 1) - 1 = n /\ n <= len /\ n + 1 # 0
    OBVIOUS
  <2>2. f[n + 1] = Step(f[n], n + 1)
    BY <1>7, <2>1
  <2>3. f[n] = Done(n)
    BY <2>1
  <2> QED BY <1>4, <2>1, <2>2, <2>3
<1> HIDE DEF S
<1>10. len \in S
  BY <1>8, <1>9, Induction
<1> QED
  BY <1>2, <1>10 DEF S, Done

-----------------------------------------------------------------------------
\* The invariant says what the property says.
LEMMA QInvImplies == QInv => QemuFlashAsAsked
<1> SUFFICES ASSUME QInv PROVE QemuFlashAsAsked
  OBVIOUS
<1>1. (qKind = "flash" /\ qRet = "SUCCESS") =>
       CASE qCall.op = "init" -> HeaderIn(qCells) /\ (HeaderIn(qBefore) => qCells = qBefore)
         [] qCall.op = "write" ->
              qCells = [a \in FdBytes |->
                LET k == a + 1 - (qCall.lba * FdBlockSize + qCall.off)
                IN  IF k \in DOMAIN qCall.data THEN qCall.data[k] ELSE qBefore[a]]
         [] qCall.op = "erase" ->
              qCells = [a \in FdBytes |-> IF a \div FdBlockSize \in qCall.lba..(qCall.lba + qCall.off - 1)
                                         THEN "FF" ELSE qBefore[a]]
         [] qCall.op = "read" -> qLast # "erase" => qCall.data = ContentsRead
         [] OTHER -> TRUE
  <2> SUFFICES ASSUME qKind = "flash", qRet = "SUCCESS"
               PROVE  CASE qCall.op = "init" -> HeaderIn(qCells) /\ (HeaderIn(qBefore) => qCells = qBefore)
         [] qCall.op = "write" ->
              qCells = [a \in FdBytes |->
                LET k == a + 1 - (qCall.lba * FdBlockSize + qCall.off)
                IN  IF k \in DOMAIN qCall.data THEN qCall.data[k] ELSE qBefore[a]]
         [] qCall.op = "erase" ->
              qCells = [a \in FdBytes |-> IF a \div FdBlockSize \in qCall.lba..(qCall.lba + qCall.off - 1)
                                         THEN "FF" ELSE qBefore[a]]
         [] qCall.op = "read" -> qLast # "erase" => qCall.data = ContentsRead
         [] OTHER -> TRUE
    OBVIOUS
  <2>1. CASE qCall.op = "init"
    BY <2>1 DEF QInv, CallResult, DoneAsAsked
  <2>2. CASE qCall.op = "write"
    <3>1. qCells = WrittenCells
      BY <2>2 DEF QInv, CallResult, DoneAsAsked
    <3> QED BY <2>2, <3>1 DEF WrittenCells
  <2>3. CASE qCall.op = "erase"
    <3>1. qCells = Wiped(qBefore, qCall.lba, qCall.off)
      BY <2>3 DEF QInv, CallResult, DoneAsAsked
    <3> QED BY <2>3, <3>1 DEF Wiped
  <2>4. CASE qCall.op = "read"
    BY <2>4 DEF QInv, CallResult, DoneAsAsked
  <2>5. CASE qCall.op \notin {"init", "write", "erase", "read"}
    BY <2>5
  <2> QED BY <2>1, <2>2, <2>3, <2>4, <2>5
<1>2. FlashTold /\ NoFlashLeftAlone /\ RefusedLeftAlone /\ ReadsCells /\ StatusIsAllowed /\ LockIsFinal
      /\ qMode \in {"array", "status"}
  BY DEF QInv, CallResult, QTypes, Modes
<1> QED
  BY <1>1, <1>2, Zenon DEF QemuFlashAsAsked, FlashTold, NoFlashLeftAlone, RefusedLeftAlone, ReadsCells,
     StatusIsAllowed, LockIsFinal

\* Nothing has been asked at the start.
LEMMA QInitInv == QInit => QInv
<1> SUFFICES ASSUME QInit PROVE QInv
  OBVIOUS
<1>1. /\ qKind \in {"flash", "ram", "rom"} /\ qSevEs \in BOOLEAN /\ qMode = "array" /\ qBase = "phys"
      /\ qEsBase = "none" /\ qAttrs = {"none"} /\ qFrozen = {} /\ qCall = NoCall /\ qRet = "" /\ qBefore = qCells
  BY DEF QInit
<1>2. IsCells(qCells)
  BY DEF QInit, IsCells
<1>3. QTypes /\ BaseKept /\ Untouched /\ FrozenIsLocked
  BY <1>1, <1>2 DEF QTypes, BaseKept, Untouched, FrozenIsLocked, Modes
<1>4. qCall.op = ""
  BY <1>1 DEF NoCall
<1>5. CallResult
  BY <1>1, <1>4 DEF CallResult, FlashTold, NoFlashLeftAlone, RefusedLeftAlone, DoneAsAsked, ReadsCells
<1>6. StatusIsAllowed /\ LockIsFinal
  BY <1>1 DEF StatusIsAllowed, LockIsFinal
<1> QED
  BY <1>3, <1>5, <1>6 DEF QInv

\* What a call leaves alone.
LEMMA RestKept ==
  ASSUME QInv, UNCHANGED <<qKind, qSevEs, qBase, qEsBase, qAttrs, qFrozen>>, "none" \notin qAttrs
  PROVE  BaseKept' /\ Untouched' /\ FrozenIsLocked' /\ StatusIsAllowed' /\ LockIsFinal'
<1>1. qSevEs' = qSevEs /\ qBase' = qBase /\ qEsBase' = qEsBase /\ qAttrs' = qAttrs /\ qFrozen' = qFrozen
  OBVIOUS
<1>2. BaseKept /\ Untouched /\ FrozenIsLocked /\ StatusIsAllowed /\ LockIsFinal
  BY DEF QInv
<1>3. BaseKept'
  BY <1>1, <1>2 DEF BaseKept
<1>4. Untouched'
  BY <1>1 DEF Untouched
<1>5. FrozenIsLocked' /\ LockIsFinal'
  BY <1>1, <1>2 DEF FrozenIsLocked, LockIsFinal
<1>6. StatusIsAllowed'
  BY <1>1, <1>2 DEF StatusIsAllowed
<1> QED
  BY <1>3, <1>4, <1>5, <1>6

\* FvbProtocolWrite.
LEMMA WriteKeeps ==
  ASSUME QInv, NEW w \in FvbWrites, FvbProtocolWrite(w[1], w[2], w[3])
  PROVE  QInv'
<1>1. PICK lba \in Nat, off \in Nat, data \in Seq(STRING) : w = <<lba, off, data>>
  BY FlashWrites
<1>2. w[1] = lba /\ w[2] = off /\ w[3] = data
  BY <1>1
<1>3. PICK r : r = QemuFlashWrite(<<qCells, qMode>>, lba, off, data)
  OBVIOUS
<1>4. /\ "none" \notin qAttrs /\ qCall' = [op |-> "write", lba |-> lba, off |-> off, data |-> data]
      /\ qBefore' = qCells /\ qCells' = r.s[1] /\ qMode' = r.s[2] /\ qRet' = r.st
      /\ qLast' = (IF r.st = "SUCCESS" /\ data # << >> THEN "program" ELSE qLast)
      /\ UNCHANGED <<qKind, qSevEs, qBase, qEsBase, qAttrs, qFrozen>>
  BY <1>2, <1>3 DEF FvbProtocolWrite, FvbCall
<1>5. qCall'.op = "write" /\ qCall'.lba = lba /\ qCall'.off = off /\ qCall'.data = data
  BY <1>4
<1>6. BaseKept' /\ Untouched' /\ FrozenIsLocked' /\ StatusIsAllowed' /\ LockIsFinal'
  BY <1>4, RestKept
<1>7. QTypes /\ BaseKept /\ IsCells(qCells) /\ qMode \in Modes /\ ReadsCells
  BY DEF QInv, QTypes, CallResult
<1>8. CASE lba >= FdBlockCount
  <2>1. r = [st |-> "INVALID_PARAMETER", s |-> <<qCells, qMode>>]
    BY <1>3, <1>8 DEF QemuFlashWrite
  <2>2. r.st = "INVALID_PARAMETER" /\ r.s = <<qCells, qMode>>
    BY <2>1
  <2>3. qCells' = qCells /\ qMode' = qMode /\ qRet' = "INVALID_PARAMETER" /\ qLast' = qLast
    BY <1>4, <2>2
  <2>4. QTypes'
    BY <1>4, <1>7, <2>3 DEF QTypes, IsCells
  <2>5. CallResult'
    BY <1>4, <1>5, <1>7, <2>3 DEF CallResult, FlashTold, NoFlashLeftAlone, RefusedLeftAlone, DoneAsAsked, ReadsCells
  <2> QED BY <1>6, <2>4, <2>5 DEF QInv
<1>9. CASE ~(lba >= FdBlockCount)
  <2>1. lba < FdBlockCount /\ lba * FdBlockSize + off + Len(data) <= FdBlockSize * FdBlockCount
    <3>1. lba < FdBlockCount
      BY <1>9, FlashSizes
    <3>2. w[1] < FdBlockCount => w[1] * FdBlockSize + w[2] + Len(w[3]) <= FdBlockSize * FdBlockCount
      BY FlashWrites
    <3> QED BY <1>2, <3>1, <3>2
  <2>2. PICK new : new = Programmed(qCells, lba * FdBlockSize + off, data, Len(data))
    OBVIOUS
  <2>3. /\ r.st = "SUCCESS" /\ IsCells(r.s[1]) /\ r.s[2] \in Modes
        /\ qKind = "flash" => r.s[1] = new /\ (data # << >> => r.s[2] = "array")
        /\ data = << >> => r.s[2] = qMode
    BY <1>3, <1>7, <2>1, <2>2, WriteDone
  <2>4. QTypes'
    BY <1>4, <1>7, <2>3 DEF QTypes, IsCells
  <2>5. new = WrittenCells'
    <3>1. PICK a \in Nat : a = lba * FdBlockSize + off
      <4>1. \A x, y, z \in Nat : x * y + z \in Nat
        OBVIOUS
      <4> QED BY <4>1, FlashSizes
    <3>2. \A x \in FdBytes : x >= a /\ x < a + Len(data) <=> x + 1 - a \in DOMAIN data
      <4>1. PICK size \in Nat : FdBytes = 0 .. size - 1
        BY FlashBytes
      <4> QED BY <4>1
    <3>3. WrittenCells' = [x \in FdBytes |-> IF x + 1 - a \in DOMAIN data THEN data[x + 1 - a] ELSE qCells[x]]
      BY <1>4, <1>5, <3>1 DEF WrittenCells
    <3> QED BY <2>2, <3>1, <3>2, <3>3 DEF Programmed
  <2>6. CallResult'
    <3>1. qRet' = "SUCCESS" /\ (qKind' = "flash" => qCells' = WrittenCells' /\ (data # << >> => qMode' = "array"))
      BY <1>4, <2>3, <2>5
    <3>2. FlashTold' /\ NoFlashLeftAlone' /\ RefusedLeftAlone'
      BY <1>5, <3>1 DEF FlashTold, NoFlashLeftAlone, RefusedLeftAlone
    <3>3. DoneAsAsked'
      BY <1>5, <3>1 DEF DoneAsAsked
    <3>4. data = << >> => qMode' = qMode /\ qLast' = qLast
      BY <1>4, <2>3
    <3>5. ReadsCells'
      BY <1>4, <1>7, <3>1, <3>4 DEF ReadsCells
    <3> QED BY <3>2, <3>3, <3>5 DEF CallResult
  <2> QED BY <1>6, <2>4, <2>6 DEF QInv
<1> QED
  BY <1>8, <1>9

\* FvbProtocolRead.
LEMMA ReadKeeps ==
  ASSUME QInv, NEW lba \in Nat, NEW off \in Nat, NEW n \in Nat, FvbProtocolRead(lba, off, n)
  PROVE  QInv'
<1>1. PICK data : data = IF lba >= FdBlockCount THEN << >>
                         ELSE [k \in 1 .. n |-> ChipRead(<<qCells, qMode>>, lba * FdBlockSize + off + (k - 1))]
  OBVIOUS
<1>2. /\ "none" \notin qAttrs /\ qCall' = [op |-> "read", lba |-> lba, off |-> off, data |-> data]
      /\ qBefore' = qCells /\ qCells' = qCells /\ qMode' = qMode /\ qLast' = qLast
      /\ qRet' = (IF lba >= FdBlockCount THEN "INVALID_PARAMETER" ELSE "SUCCESS")
      /\ UNCHANGED <<qKind, qSevEs, qBase, qEsBase, qAttrs, qFrozen>>
  BY <1>1 DEF FvbProtocolRead, FvbCall
<1>3. qCall'.op = "read" /\ qCall'.lba = lba /\ qCall'.off = off /\ qCall'.data = data
  BY <1>2
<1>4. BaseKept' /\ Untouched' /\ FrozenIsLocked' /\ StatusIsAllowed' /\ LockIsFinal'
  BY <1>2, RestKept
<1>5. QTypes /\ ReadsCells
  BY DEF QInv, CallResult
<1>6. QTypes'
  BY <1>2, <1>5 DEF QTypes, IsCells
<1>7. FlashTold' /\ NoFlashLeftAlone' /\ RefusedLeftAlone' /\ ReadsCells'
  BY <1>2, <1>3, <1>5 DEF FlashTold, NoFlashLeftAlone, RefusedLeftAlone, ReadsCells
<1>8. DoneAsAsked'
  <2>1. SUFFICES ASSUME qKind' = "flash", qRet' = "SUCCESS", qLast' # "erase" PROVE qCall'.data = ContentsRead'
    BY <1>3 DEF DoneAsAsked
  <2>2. qMode = "array" /\ ~(lba >= FdBlockCount)
    BY <1>2, <1>5, <2>1 DEF ReadsCells
  <2>3. \A a : ChipRead(<<qCells, qMode>>, a) = qCells[a]
    BY <2>2 DEF ChipRead
  <2>4. data = [k \in 1 .. n |-> qCells[lba * FdBlockSize + off + (k - 1)]]
    BY <1>1, <2>2, <2>3
  <2>5. ContentsRead' = [k \in DOMAIN data |-> qCells[lba * FdBlockSize + off + (k - 1)]]
    BY <1>2, <1>3 DEF ContentsRead
  <2> QED BY <1>3, <2>4, <2>5
<1> QED
  BY <1>4, <1>6, <1>7, <1>8 DEF QInv, CallResult

\* FvbProtocolEraseBlocks.
LEMMA EraseKeeps ==
  ASSUME QInv, NEW lba \in Nat, NEW n \in Nat, FvbProtocolEraseBlocks(lba, n)
  PROVE  QInv'
<1>1. PICK e : e = EraseFrom(<<qCells, qMode>>, lba, n)
  OBVIOUS
<1>2. /\ "none" \notin qAttrs /\ qCall' = [op |-> "erase", lba |-> lba, off |-> n, data |-> << >>]
      /\ qBefore' = qCells
      /\ UNCHANGED <<qKind, qSevEs, qBase, qEsBase, qAttrs, qFrozen>>
  BY DEF FvbProtocolEraseBlocks, FvbCall
<1>3. qCall'.op = "erase" /\ qCall'.lba = lba /\ qCall'.off = n
  BY <1>2
<1>4. BaseKept' /\ Untouched' /\ FrozenIsLocked' /\ StatusIsAllowed' /\ LockIsFinal'
  BY <1>2, RestKept
<1>5. QTypes /\ BaseKept /\ IsCells(qCells) /\ qMode \in Modes /\ ReadsCells
  BY DEF QInv, QTypes, CallResult
<1>6. CASE n = 0 \/ lba + n > FvBlocks
  <2>1. qRet' = "INVALID_PARAMETER" /\ qCells' = qCells /\ qMode' = qMode /\ qLast' = qLast
    BY <1>6 DEF FvbProtocolEraseBlocks
  <2>2. QTypes'
    BY <1>2, <1>5, <2>1 DEF QTypes, IsCells
  <2>3. CallResult'
    BY <1>2, <1>3, <1>5, <2>1 DEF CallResult, FlashTold, NoFlashLeftAlone, RefusedLeftAlone, DoneAsAsked, ReadsCells
  <2> QED BY <1>4, <2>2, <2>3 DEF QInv
<1>7. CASE ~(n = 0 \/ lba + n > FvBlocks)
  <2>1. qCells' = e.s[1] /\ qMode' = e.s[2] /\ qRet' = e.st /\ qLast' = "erase"
    BY <1>1, <1>7 DEF FvbProtocolEraseBlocks
  <2>2. lba + n <= FdBlockCount
    BY <1>7, FlashSizes
  <2>3. e = [st |-> "SUCCESS", s |-> AfterErase(qCells, qMode, lba, n)]
    BY <1>1, <1>5, <2>2, AllBlocks
  <2>4. e.st = "SUCCESS" /\ e.s = AfterErase(qCells, qMode, lba, n)
    BY <2>3
  <2>5. IsCells(e.s[1]) /\ e.s[2] \in Modes /\ (qKind = "flash" => e.s[1] = Wiped(qCells, lba, n))
    <3>1. CASE qKind = "rom"
      <4>1. e.s = <<qCells, qMode>>
        BY <2>4, <3>1 DEF AfterErase
      <4> QED BY <1>5, <3>1, <4>1
    <3>2. CASE qKind = "flash"
      <4>1. e.s = <<Wiped(qCells, lba, n), "status">>
        BY <1>7, <2>4, <3>2 DEF AfterErase
      <4>2. IsCells(Wiped(qCells, lba, n))
        BY DEF IsCells, Wiped
      <4> QED BY <3>2, <4>1, <4>2 DEF Modes
    <3>3. CASE qKind = "ram"
      <4>1. e.s = <<Stamped(qCells, lba, n), "array">>
        BY <1>7, <2>4, <3>3 DEF AfterErase
      <4>2. IsCells(Stamped(qCells, lba, n))
        BY DEF IsCells, Stamped
      <4> QED BY <3>3, <4>1, <4>2 DEF Modes
    <3> QED BY <1>5, <3>1, <3>2, <3>3 DEF QTypes
  <2>6. QTypes'
    BY <1>2, <1>5, <2>1, <2>5 DEF QTypes, IsCells
  <2>7. qRet' = "SUCCESS" /\ (qKind' = "flash" => qCells' = Wiped(qBefore', lba, n))
    BY <1>2, <2>1, <2>4, <2>5
  <2>8. Wiped(qBefore, qCall.lba, qCall.off)' = Wiped(qBefore', lba, n)
    BY <1>3 DEF Wiped
  <2>9. CallResult'
    <3>1. FlashTold' /\ NoFlashLeftAlone' /\ RefusedLeftAlone' /\ ReadsCells'
      BY <1>3, <2>1, <2>7 DEF FlashTold, NoFlashLeftAlone, RefusedLeftAlone, ReadsCells
    <3>2. DoneAsAsked'
      BY <1>3, <2>7, <2>8 DEF DoneAsAsked
    <3> QED BY <3>1, <3>2 DEF CallResult
  <2> QED BY <1>4, <2>6, <2>9 DEF QInv
<1> QED
  BY <1>6, <1>7

\* Attributes change only as the capabilities allow, and not at all once the volume is locked.
LEMMA AttributesKeep ==
  ASSUME QInv, NEW attrs, FvbProtocolSetAttributes(attrs)
  PROVE  QInv'
<1>1. /\ "none" \notin qAttrs /\ qCall' = [NoCall EXCEPT !.op = "attributes"] /\ qBefore' = qCells
      /\ qRet' = FvbSetVolumeAttributes(attrs) /\ qAttrs' = (IF qRet' = "SUCCESS" THEN attrs ELSE qAttrs)
      /\ qFrozen' = (IF "LOCK_STATUS" \in qAttrs' \ qAttrs THEN qAttrs' ELSE qFrozen)
      /\ qKind' = qKind /\ qSevEs' = qSevEs /\ qCells' = qCells /\ qMode' = qMode /\ qBase' = qBase /\ qEsBase' = qEsBase
      /\ qLast' = qLast
  BY DEF FvbProtocolSetAttributes, FvbCall
<1>2. qCall'.op = "attributes"
  BY <1>1 DEF NoCall
<1>3. QTypes' /\ BaseKept'
  BY <1>1 DEF QInv, QTypes, BaseKept, IsCells
<1>4. CallResult'
  <2>1. ReadsCells
    BY DEF QInv, CallResult
  <2> QED BY <1>1, <1>2, <2>1 DEF CallResult, FlashTold, NoFlashLeftAlone, RefusedLeftAlone, DoneAsAsked, ReadsCells
<1>5. FrozenIsLocked /\ StatusIsAllowed /\ LockIsFinal
  BY DEF QInv
<1>6. CASE qRet' # "SUCCESS"
  <2>1. qAttrs' = qAttrs /\ qFrozen' = qFrozen
    BY <1>1, <1>6
  <2>2. Untouched' /\ FrozenIsLocked' /\ StatusIsAllowed' /\ LockIsFinal'
    BY <1>1, <1>5, <2>1 DEF Untouched, FrozenIsLocked, StatusIsAllowed, LockIsFinal
  <2> QED BY <1>3, <1>4, <2>2 DEF QInv
<1>7. CASE qRet' = "SUCCESS"
  <2>1. qAttrs' = attrs
    BY <1>1, <1>7
  <2>2. /\ qAttrs \ FVB2_STATUS = attrs \ FVB2_STATUS
        /\ "LOCK_STATUS" \in qAttrs \cap FVB2_STATUS => qAttrs \cap FVB2_STATUS = attrs \cap FVB2_STATUS
        /\ StatusAllowed(qAttrs, attrs \cap FVB2_STATUS)
    BY <1>1, <1>7 DEF FvbSetVolumeAttributes
  <2>3. "LOCK_STATUS" \in qAttrs => attrs = qAttrs
    <3> SUFFICES ASSUME "LOCK_STATUS" \in qAttrs PROVE attrs = qAttrs
      OBVIOUS
    <3>1. qAttrs \cap FVB2_STATUS = attrs \cap FVB2_STATUS
      BY <2>2 DEF FVB2_STATUS
    <3>2. \A x : x \in attrs <=> x \in qAttrs
      BY <2>2, <3>1
    <3> QED BY <3>2
  <2>4. \A x : x \notin FVB2_STATUS => (x \in attrs <=> x \in qAttrs)
    BY <2>2
  <2>5. "none" \notin attrs /\ \A x \in {"READ_DISABLED_CAP", "READ_ENABLED_CAP", "WRITE_DISABLED_CAP", "WRITE_ENABLED_CAP", "LOCK_CAP"} :
                                 x \in attrs <=> x \in qAttrs
    BY <1>1, <2>4 DEF FVB2_STATUS
  <2>6. StatusAllowed(attrs, attrs \cap FVB2_STATUS)
    BY <2>2, <2>5 DEF StatusAllowed
  <2>7. Untouched' /\ StatusIsAllowed'
    BY <2>1, <2>5, <2>6 DEF Untouched, StatusIsAllowed
  <2>8. FrozenIsLocked' /\ LockIsFinal'
    BY <1>1, <1>5, <2>1, <2>3 DEF FrozenIsLocked, LockIsFinal
  <2> QED BY <1>3, <1>4, <2>7, <2>8 DEF QInv
<1> QED
  BY <1>6, <1>7

\* FvbVirtualAddressChangeEvent.
LEMMA VirtualKeeps == QInv /\ FvbVirtualAddressChangeEvent => QInv'
<1> SUFFICES ASSUME QInv, FvbVirtualAddressChangeEvent PROVE QInv'
  OBVIOUS
<1>1. /\ "none" \notin qAttrs /\ qBase = "phys" /\ qEsBase' = (IF qSevEs THEN qBase ELSE qEsBase) /\ qBase' = "virt"
      /\ qKind' = qKind /\ qSevEs' = qSevEs /\ qCells' = qCells /\ qMode' = qMode /\ qAttrs' = qAttrs
      /\ qFrozen' = qFrozen /\ qLast' = qLast /\ qCall' = qCall /\ qRet' = qRet /\ qBefore' = qBefore
  BY DEF FvbVirtualAddressChangeEvent
<1>2. BaseKept'
  BY <1>1 DEF QInv, BaseKept
<1>3. QTypes' /\ Untouched' /\ FrozenIsLocked' /\ StatusIsAllowed' /\ LockIsFinal'
  BY <1>1 DEF QInv, QTypes, IsCells, Untouched, FrozenIsLocked, StatusIsAllowed, LockIsFinal
<1>4. CallResult'
  <2>1. FlashTold /\ NoFlashLeftAlone /\ RefusedLeftAlone /\ DoneAsAsked /\ ReadsCells
    BY DEF QInv, CallResult
  <2>2. FlashTold' /\ NoFlashLeftAlone' /\ RefusedLeftAlone' /\ ReadsCells'
    BY <1>1, <2>1 DEF FlashTold, NoFlashLeftAlone, RefusedLeftAlone, ReadsCells
  <2>3. /\ WrittenCells' = WrittenCells /\ ContentsRead' = ContentsRead
        /\ Wiped(qBefore, qCall.lba, qCall.off)' = Wiped(qBefore, qCall.lba, qCall.off)
    BY <1>1 DEF WrittenCells, Wiped, ContentsRead
  <2>4. DoneAsAsked'
    BY <1>1, <2>1, <2>3 DEF DoneAsAsked
  <2> QED BY <2>2, <2>4 DEF CallResult
<1> QED
  BY <1>2, <1>3, <1>4 DEF QInv

-----------------------------------------------------------------------------
\* The probe of one byte leaves the chip as it was.
LEMMA Probed ==
  ASSUME QTypes, NEW c, IsCells(c), NEW a \in FdBytes, c[a] \notin {"CLEAR_STATUS", "READ_STATUS", "CLEARED"},
         NEW d, d = QemuFlashProbe(c, a)
  PROVE  d.s = <<c, "array">> /\ d.found \in BOOLEAN /\ (d.found <=> qKind = "flash")
<1>0. \A x, y : <<x, y>>[1] = x /\ <<x, y>>[2] = y
  OBVIOUS
<1>1. PICK s0 : s0 = <<c, "array">>
  OBVIOUS
<1>2. PICK s1 : s1 = ChipWrite(s0, a, "CLEAR_STATUS")
  OBVIOUS
<1>3. PICK s2 : s2 = ChipWrite(s1, a, "READ_STATUS")
  OBVIOUS
<1>4. d = IF ChipRead(s1, a) = "CLEAR_STATUS" THEN [found |-> FALSE, s |-> ChipWrite(s1, a, c[a])]
      ELSE CASE ChipRead(s2, a) = c[a]          -> [found |-> FALSE, s |-> s2]
             [] ChipRead(s2, a) = "READ_STATUS" -> [found |-> FALSE, s |-> ChipWrite(s2, a, c[a])]
             [] ChipRead(s2, a) = "CLEARED"     -> [found |-> TRUE, s |-> ChipWrite(s2, a, "READ_ARRAY")]
  BY <1>1, <1>2, <1>3 DEF QemuFlashProbe
<1>5. s0[1] = c /\ s0[2] = "array"
  BY <1>0, <1>1
<1>6. c[a] # "CLEAR_STATUS" /\ c[a] # "READ_STATUS" /\ c[a] # "CLEARED"
  OBVIOUS
<1>7. CASE qKind = "flash"
  <2>1. s1 = s0
    BY <1>1, <1>2, <1>5, <1>7 DEF ChipWrite
  <2>2. s2 = <<c, "status">>
    BY <1>3, <1>5, <1>7, <2>1 DEF ChipWrite
  <2>3. s2[1] = c /\ s2[2] = "status"
    BY <1>0, <2>2
  <2>4. ChipRead(s1, a) = c[a] /\ ChipRead(s2, a) = "CLEARED"
    BY <1>5, <1>7, <2>1, <2>3 DEF ChipRead
  <2>5. ChipWrite(s2, a, "READ_ARRAY") = <<c, "array">>
    BY <1>7, <2>3 DEF ChipWrite
  <2>6. d = [found |-> TRUE, s |-> <<c, "array">>]
    BY <1>4, <1>6, <2>4, <2>5
  <2>9. d.s = <<c, "array">> /\ d.found = TRUE
    BY <2>6
  <2> QED BY <1>7, <2>9
<1>8. CASE qKind = "ram"
  <2>1. PICK e : e = [c EXCEPT ![a] = "CLEAR_STATUS"]
    OBVIOUS
  <2>2. s1 = <<e, "array">>
    BY <1>2, <1>5, <1>8, <2>1 DEF ChipWrite
  <2>3. s1[1] = e /\ s1[2] = "array"
    BY <1>0, <2>2
  <2>4. e = [x \in FdBytes |-> IF x = a THEN "CLEAR_STATUS" ELSE c[x]]
    BY <2>1 DEF IsCells
  <2>5. ChipRead(s1, a) = "CLEAR_STATUS"
    BY <1>8, <2>3, <2>4 DEF ChipRead
  <2>6. ChipWrite(s1, a, c[a]) = <<[e EXCEPT ![a] = c[a]], "array">>
    BY <1>8, <2>3 DEF ChipWrite
  <2>7. [e EXCEPT ![a] = c[a]] = c
    BY <2>4 DEF IsCells
  <2>8. d = [found |-> FALSE, s |-> <<c, "array">>]
    BY <1>4, <2>5, <2>6, <2>7
  <2>9. d.s = <<c, "array">> /\ d.found = FALSE
    BY <2>8
  <2> QED BY <1>8, <2>9
<1>9. CASE qKind = "rom"
  <2>1. s1 = s0 /\ s2 = s0
    BY <1>2, <1>3, <1>9 DEF ChipWrite
  <2>2. ChipRead(s0, a) = c[a]
    BY <1>5, <1>9 DEF ChipRead
  <2>3. d = [found |-> FALSE, s |-> <<c, "array">>]
    BY <1>1, <1>4, <1>6, <2>1, <2>2
  <2>9. d.s = <<c, "array">> /\ d.found = FALSE
    BY <2>3
  <2> QED BY <1>9, <2>9
<1> QED
  BY <1>7, <1>8, <1>9 DEF QTypes

\* Flash is told from memory, and nothing is left changed by the probe.
LEMMA Detected ==
  ASSUME QTypes, NEW c, IsCells(c), NEW d, d = QemuFlashDetected(c)
  PROVE  /\ d.s = <<c, "array">> /\ d.found \in BOOLEAN
         /\ ~qSevEs => d.found = (qKind = "flash" /\ Probes(c) # {})
<1>1. CASE Probes(c) = {} \/ qSevEs
  <2>1. d = [found |-> Probes(c) # {}, s |-> <<c, "array">>]
    BY <1>1 DEF QemuFlashDetected
  <2>2. d.s = <<c, "array">> /\ d.found = (Probes(c) # {})
    BY <2>1
  <2> QED BY <1>1, <2>2 DEF QTypes
<1>2. CASE ~(Probes(c) = {} \/ qSevEs)
  <2>1. PICK a : a = CHOOSE x \in Probes(c) : \A b \in Probes(c) : x <= b
    OBVIOUS
  <2>2. d = QemuFlashProbe(c, a)
    BY <1>2, <2>1 DEF QemuFlashDetected
  <2>3. Probes(c) \subseteq Nat /\ Probes(c) # {}
    BY <1>2, FlashSizes DEF Probes
  <2>4. \E x \in Probes(c) : \A b \in Probes(c) : x <= b
    BY <2>3, LeastNumber
  <2>5. a \in Probes(c)
    BY <2>1, <2>4
  <2>6. a \in FdBytes
    <3>1. PICK n \in Nat : n >= FdBlockSize /\ FdBytes = 0 .. n - 1
      BY FlashBytes
    <3>2. a \in 0 .. FdBlockSize - 1
      BY <2>5 DEF Probes
    <3> QED BY <3>1, <3>2, FlashSizes
  <2>7. c[a] \notin {"CLEAR_STATUS", "READ_STATUS", "CLEARED"}
    BY <2>5 DEF Probes
  <2>8. d.s = <<c, "array">> /\ d.found \in BOOLEAN /\ (d.found <=> qKind = "flash")
    BY <2>2, <2>6, <2>7, Probed
  <2> QED BY <1>2, <2>8
<1> QED
  BY <1>1, <1>2

\* After a repair of the store, the header is there.
LEMMA HeaderRepaired ==
  ASSUME QTypes, BaseKept, NEW c, IsCells(c), NEW t, t = InitializeVariableFvHeader(<<c, "array">>)
  PROVE  /\ IsCells(t[1]) /\ t[2] \in Modes
         /\ qKind = "flash" => HeaderIn(t[1]) /\ (HeaderIn(c) => t[1] = c) /\ t[2] = "array"
<1>0. \A x, y : <<x, y>>[1] = x /\ <<x, y>>[2] = y
  OBVIOUS
<1>1. CASE HeaderIn(c)
  <2>1. t = <<c, "array">>
    BY <1>0, <1>1 DEF InitializeVariableFvHeader
  <2> QED BY <1>0, <1>1, <2>1 DEF Modes
<1>2. CASE ~HeaderIn(c)
  <2>1. PICK e : e = AfterErase(c, "array", 0, FvBlocks)
    OBVIOUS
  <2>2. EraseFrom(<<c, "array">>, 0, FvBlocks) = [st |-> "SUCCESS", s |-> e]
    <3>1. 0 + FvBlocks <= FdBlockCount /\ FvBlocks \in Nat /\ "array" \in Modes
      BY FlashSizes DEF Modes
    <3> QED BY <2>1, <3>1, AllBlocks
  <2>3. EraseFrom(<<c, "array">>, 0, FvBlocks).s = e
    BY <2>2
  <2>4. PICK b, m : e = <<b, m>> /\ m \in Modes /\ IsCells(b)
    <3>0. "array" \in Modes /\ "status" \in Modes
      BY DEF Modes
    <3>1. CASE qKind = "rom"
      <4>1. e = <<c, "array">>
        BY <2>1, <3>1 DEF AfterErase
      <4> QED BY <3>0, <4>1
    <3>2. CASE qKind = "flash"
      <4>1. e = <<Wiped(c, 0, FvBlocks), "status">>
        BY <2>1, <3>2, FlashSizes DEF AfterErase
      <4>2. IsCells(Wiped(c, 0, FvBlocks))
        BY DEF IsCells, Wiped
      <4> QED BY <3>0, <4>1, <4>2
    <3>3. CASE qKind = "ram"
      <4>1. e = <<Stamped(c, 0, FvBlocks), "array">>
        BY <2>1, <3>3, FlashSizes DEF AfterErase
      <4>2. IsCells(Stamped(c, 0, FvBlocks))
        BY DEF IsCells, Stamped
      <4> QED BY <3>0, <4>1, <4>2
    <3> QED BY <3>1, <3>2, <3>3 DEF QTypes
  <2>5. PICK w : w = QemuFlashWrite(<<b, m>>, 0, 0, FvbHeader)
    OBVIOUS
  <2>6. t = w.s
    BY <1>0, <1>2, <2>3, <2>4, <2>5 DEF InitializeVariableFvHeader
  <2>7. PICK size \in Nat : size = FdBlockSize * FdBlockCount /\ size >= FdBlockSize /\ FdBytes = 0 .. size - 1
    BY FlashBytes
  <2>8. PICK len \in Nat : len = Len(FvbHeader) /\ len <= size
    BY <2>7, FlashHeader, FlashSizes
  <2>9. 0 * FdBlockSize + 0 = 0 /\ 0 < FdBlockCount
    BY FlashSizes
  <2>10. PICK new : new = Programmed(b, 0, FvbHeader, len)
    OBVIOUS
  <2>11. /\ IsCells(w.s[1]) /\ w.s[2] \in Modes
         /\ qKind = "flash" => w.s[1] = new /\ (FvbHeader # << >> => w.s[2] = "array")
    <3>1. new = Programmed(b, 0 * FdBlockSize + 0, FvbHeader, Len(FvbHeader))
      BY <2>8, <2>9, <2>10
    <3>2. 0 * FdBlockSize + 0 + Len(FvbHeader) <= FdBlockSize * FdBlockCount
      BY <2>7, <2>8, <2>9
    <3> QED BY <2>4, <2>5, <2>9, <3>1, <3>2, FlashHeader, WriteDone
  <2>12. FvbHeader # << >>
    BY <1>2 DEF HeaderIn
  <2>13. HeaderIn(new)
    <3> SUFFICES ASSUME NEW i \in DOMAIN FvbHeader PROVE new[i - 1] = FvbHeader[i]
      BY DEF HeaderIn
    <3>1. i \in 1 .. len
      BY <2>8, FlashHeader
    <3>2. PICK x \in FdBytes : x = i - 1
      BY <2>7, <2>8, <3>1
    <3>3. x >= 0 /\ x < 0 + len /\ x + 1 - 0 = i
      BY <3>1, <3>2
    <3>4. new[x] = FvbHeader[i]
      BY <2>10, <3>2, <3>3 DEF Programmed
    <3> QED BY <3>2, <3>4
  <2> QED BY <1>2, <2>6, <2>11, <2>12, <2>13
<1> QED
  BY <1>1, <1>2

\* FvbInitialize.
LEMMA InitializeKeeps == QInv /\ FvbInitialize => QInv'
<1> SUFFICES ASSUME QInv, FvbInitialize PROVE QInv'
  OBVIOUS
<1>1. PICK d : d = QemuFlashDetected(qCells)
  OBVIOUS
<1>2. PICK t : t = InitializeVariableFvHeader(d.s)
  OBVIOUS
<1>3. /\ qAttrs = {"none"} /\ qRet = "" /\ qCall' = [NoCall EXCEPT !.op = "init"]
      /\ qKind' = qKind /\ qSevEs' = qSevEs /\ qBase' = qBase /\ qEsBase' = qEsBase /\ qFrozen' = qFrozen
      /\ qBefore' = qBefore /\ qLast' = "program"
  BY DEF FvbInitialize
<1>4. \/ ~d.found /\ qCells' = d.s[1] /\ qMode' = d.s[2] /\ qRet' = "WRITE_PROTECTED" /\ qAttrs' = qAttrs
      \/ d.found /\ qCells' = t[1] /\ qMode' = t[2] /\ qRet' = "SUCCESS" /\ qAttrs' \in FvbAttributeSets
  BY <1>1, <1>2 DEF FvbInitialize
<1>5. qCall'.op = "init"
  BY <1>3 DEF NoCall
<1>6. QTypes /\ BaseKept /\ IsCells(qCells) /\ Untouched
  BY DEF QInv, QTypes
<1>7. qFrozen = {} /\ qBase = "phys" /\ qEsBase = "none" /\ qCells = qBefore
  BY <1>3, <1>6 DEF Untouched
<1>8. /\ d.s = <<qCells, "array">> /\ d.found \in BOOLEAN
      /\ ~qSevEs => d.found = (qKind = "flash" /\ Probes(qCells) # {})
  BY <1>1, <1>6, Detected
<1>9. BaseKept'
  BY <1>3, <1>6 DEF BaseKept
<1>10. FrozenIsLocked' /\ LockIsFinal'
  BY <1>3, <1>7 DEF FrozenIsLocked, LockIsFinal
<1>11. CASE ~d.found
  <2>1. qCells' = qCells /\ qMode' = "array" /\ qRet' = "WRITE_PROTECTED" /\ qAttrs' = qAttrs
    BY <1>4, <1>8, <1>11
  <2>2. QTypes'
    BY <1>3, <1>6, <2>1 DEF QTypes, IsCells, Modes
  <2>3. Untouched' /\ StatusIsAllowed'
    BY <1>3, <1>7, <2>1 DEF Untouched, StatusIsAllowed
  <2>4. FlashTold'
    BY <1>3, <1>7, <1>8, <1>11, <2>1 DEF FlashTold, Probes
  <2>5. CallResult'
    BY <1>3, <1>5, <1>7, <2>1, <2>4 DEF CallResult, NoFlashLeftAlone, RefusedLeftAlone, DoneAsAsked, ReadsCells
  <2> QED BY <1>9, <1>10, <2>2, <2>3, <2>5 DEF QInv
<1>12. CASE d.found
  <2>1. qCells' = t[1] /\ qMode' = t[2] /\ qRet' = "SUCCESS" /\ qAttrs' \in FvbAttributeSets
    BY <1>4, <1>12
  <2>2. /\ IsCells(t[1]) /\ t[2] \in Modes
        /\ qKind = "flash" => HeaderIn(t[1]) /\ (HeaderIn(qCells) => t[1] = qCells) /\ t[2] = "array"
    BY <1>2, <1>6, <1>8, HeaderRepaired
  <2>3. QTypes'
    BY <1>3, <1>6, <2>1, <2>2 DEF QTypes, IsCells
  <2>4. Untouched' /\ StatusIsAllowed'
    BY <2>1, FlashAttributes DEF Untouched, StatusIsAllowed
  <2>5. FlashTold'
    BY <1>3, <1>7, <1>8, <1>12, <2>1 DEF FlashTold, Probes
  <2>6. DoneAsAsked'
    BY <1>3, <1>5, <1>7, <2>1, <2>2 DEF DoneAsAsked, HeaderIn
  <2>7. CallResult'
    BY <1>3, <1>5, <2>1, <2>2, <2>5, <2>6 DEF CallResult, NoFlashLeftAlone, RefusedLeftAlone, ReadsCells
  <2> QED BY <1>9, <1>10, <2>3, <2>4, <2>7 DEF QInv
<1> QED
  BY <1>8, <1>11, <1>12

\* A step of nobody keeps the invariant.
LEMMA QStutter == QInv /\ UNCHANGED qVars => QInv'
<1> SUFFICES ASSUME QInv, UNCHANGED qVars PROVE QInv'
  OBVIOUS
<1>1. /\ qKind' = qKind /\ qSevEs' = qSevEs /\ qCells' = qCells /\ qMode' = qMode /\ qAttrs' = qAttrs
      /\ qFrozen' = qFrozen /\ qCall' = qCall /\ qRet' = qRet /\ qBefore' = qBefore /\ qBase' = qBase
      /\ qEsBase' = qEsBase /\ qLast' = qLast
  BY DEF qVars
<1>2. BaseKept' /\ QTypes' /\ Untouched' /\ FrozenIsLocked' /\ StatusIsAllowed' /\ LockIsFinal'
  BY <1>1 DEF QInv, QTypes, IsCells, BaseKept, Untouched, FrozenIsLocked, StatusIsAllowed, LockIsFinal
<1>3. FlashTold /\ NoFlashLeftAlone /\ RefusedLeftAlone /\ DoneAsAsked /\ ReadsCells
  BY DEF QInv, CallResult
<1>4. FlashTold' /\ NoFlashLeftAlone' /\ RefusedLeftAlone' /\ ReadsCells'
  BY <1>1, <1>3 DEF FlashTold, NoFlashLeftAlone, RefusedLeftAlone, ReadsCells
<1>5. /\ WrittenCells' = WrittenCells /\ ContentsRead' = ContentsRead
      /\ Wiped(qBefore, qCall.lba, qCall.off)' = Wiped(qBefore, qCall.lba, qCall.off)
  BY <1>1 DEF WrittenCells, Wiped, ContentsRead
<1>6. DoneAsAsked'
  BY <1>1, <1>3, <1>5 DEF DoneAsAsked
<1> QED
  BY <1>2, <1>4, <1>6 DEF QInv, CallResult

\* Every step keeps the invariant.
LEMMA QNextKeeps == QInv /\ [QNext]_qVars => QInv'
<1> SUFFICES ASSUME QInv, [QNext]_qVars PROVE QInv'
  OBVIOUS
<1>1. CASE \E lba \in 0 .. FvBlocks, n \in 0 .. 2 : FvbProtocolEraseBlocks(lba, n)
  <2>1. PICK lba \in 0 .. FvBlocks, n \in 0 .. 2 : FvbProtocolEraseBlocks(lba, n)
    BY <1>1
  <2>2. lba \in Nat /\ n \in Nat
    OBVIOUS
  <2> QED BY <2>1, <2>2, EraseKeeps
<1>2. CASE \E w \in FvbWrites : FvbProtocolWrite(w[1], w[2], w[3]) \/ FvbProtocolRead(w[1], w[2], Len(w[3]))
  <2>1. PICK w \in FvbWrites : FvbProtocolWrite(w[1], w[2], w[3]) \/ FvbProtocolRead(w[1], w[2], Len(w[3]))
    BY <1>2
  <2>2. w[1] \in Nat /\ w[2] \in Nat /\ Len(w[3]) \in Nat
    BY FlashWrites
  <2> QED BY <2>1, <2>2, WriteKeeps, ReadKeeps
<1>3. CASE \E on, off \in SUBSET FVB2_STATUS : FvbProtocolSetAttributes((qAttrs \ off) \cup on)
  BY <1>3, AttributesKeep
<1>4. CASE FvbProtocolSetAttributes(qAttrs \cup {"LOCK_CAP", "READ_DISABLED_CAP"})
  BY <1>4, AttributesKeep
<1>5. CASE FvbInitialize \/ FvbVirtualAddressChangeEvent \/ UNCHANGED qVars
  BY <1>5, InitializeKeeps, VirtualKeeps, QStutter
<1> QED
  BY <1>1, <1>2, <1>3, <1>4, <1>5, Zenon DEF QNext

\* The firmware volume block services of QemuFlashFvbServicesRuntimeDxe, for every size of flash,
\* header and data: the probe tells flash from memory and leaves either as it was, what reports
\* success has changed exactly its range, also after the change to virtual addresses and under
\* SEV-ES, what does not has changed nothing; reads return the contents unless the last change was
\* an erase; the status of a locked volume is final.
THEOREM QemuFlashServices == QSpec => []QemuFlashAsAsked
<1>1. QInit => QInv
  BY QInitInv
<1>2. QInv /\ [QNext]_qVars => QInv'
  BY QNextKeeps
<1>3. QInv => QemuFlashAsAsked
  BY QInvImplies
<1> QED
  BY <1>1, <1>2, <1>3, PTL DEF QSpec

-----------------------------------------------------------------------------
(* NorFlash.                                                               *)

Bits == {0, 1}
Contents == [NorBytes -> Bits]
Command == [do : {"erase", "program", "skip"}, lba : Nat, n : Nat, at : Nat, from : Nat]

\* The chip, the shadow buffer and the commands left.
NTypes == /\ nCells \in [NorBlocks -> Contents] /\ nBefore \in [NorBlocks -> Contents]
          /\ nShadow \in Contents /\ nTodo \in Seq(Command)

\* What a write leaves in its block.
Wanted == Overlay(nBefore[nJob.lba], nJob.off, nJob.data)

\* A command that reaches a byte, and one that programs what is wanted.
Reached(c, i) == i >= c.at /\ i < c.at + BufferBytes
Covered(todo, i) == \E k \in DOMAIN todo : todo[k].do = "program" /\ Reached(todo[k], i)
Programs(c) == /\ c.do \in {"program", "skip"} /\ c.lba = nJob.lba /\ c.n = 1
               /\ \A i \in NorBytes : Reached(c, i) => nShadow[c.from + i - c.at] = Wanted[i]
AllProgram(todo) == \A k \in DOMAIN todo : Programs(todo[k])

\* The block is to be erased first; nothing is said of what it holds until then.
ErasePending ==
  /\ nTodo # << >> /\ Head(nTodo) = Erase(nJob.lba, 1) /\ AllProgram(Tail(nTodo))
  /\ \A i \in NorBytes : Wanted[i] = 1 \/ Covered(Tail(nTodo), i)

\* Each byte is as wanted, or is erased and will be programmed.
Programming ==
  /\ AllProgram(nTodo)
  /\ \A i \in NorBytes : nCells[nJob.lba][i] = Wanted[i] \/ (nCells[nJob.lba][i] = 1 /\ Covered(nTodo, i))

WriteLeft ==
  /\ nJob.lba \in NorBlocks /\ nJob.off \in Nat /\ nJob.data \in Seq(Bits)
  /\ \A b \in NorBlocks : b # nJob.lba => nCells[b] = nBefore[b]
  /\ ErasePending \/ Programming

\* The blocks of an erase, and what is left of it.
InRange(b, first, n) == b >= first /\ b < first + n
ListedBlocks == {b \in NorBlocks : \E k \in DOMAIN nJob.data : InRange(b, nJob.data[k][1], nJob.data[k][2])}

EraseLeft(asked) ==
  /\ \A k \in DOMAIN nTodo :
       nTodo[k].do = "erase" /\ nTodo[k].n > 0 /\ \A b \in Nat : InRange(b, nTodo[k].lba, nTodo[k].n) => b \in asked
  /\ \A b \in NorBlocks :
       IF b \in asked THEN nCells[b] = Erased \/ \E k \in DOMAIN nTodo : InRange(b, nTodo[k].lba, nTodo[k].n)
       ELSE nCells[b] = nBefore[b]

\* A call that is served, by its kind.
UnderWay ==
  nRet = "" => /\ nJob.call \in {"write", "headers", "erase", "init"}
               /\ nJob.call \in {"write", "headers"} => WriteLeft
               /\ nJob.call = "erase" => EraseLeft(ListedBlocks)
               /\ nJob.call = "init" => EraseLeft(NorBlocks) /\ nMode = "array"
               /\ nJob.call = "headers" => nJob.lba = 0 /\ nJob.off = 0 /\ nJob.data = NorHeaders

\* Nothing is left of a call that has returned.
NothingLeft == nRet # "" => nTodo = << >>

\* The parts of the property.
ReadsContents == nRet # "" => nMode = "array"
RefusedUnchanged == nRet \in {"BAD_BUFFER_SIZE", "INVALID_PARAMETER"} => nCells = nBefore
DoneRight ==
  nRet = "SUCCESS" =>
    /\ nJob.call \in {"write", "headers"} => nCells = [nBefore EXCEPT ![nJob.lba] = Overlay(@, nJob.off, nJob.data)]
    /\ nJob.call = "erase" => nCells = [b \in NorBlocks |-> IF b \in ListedBlocks THEN Erased ELSE nBefore[b]]
    /\ nJob.call \notin {"write", "headers", "erase"} => nCells = nBefore
    /\ nJob.call \in {"init", "headers"} => NorFlashValidateFvHeader

NInv == /\ NTypes /\ UnderWay /\ NothingLeft
        /\ ReadsContents /\ RefusedUnchanged /\ DoneRight

\* A write in place programs no more than it has read.
ReadsWhatItPrograms(off, len) ==
  (~BadSize(off, len) /\ InPlace(off, len)) => (off % BufferBytes) + len <= ReadLength(len)

-----------------------------------------------------------------------------
\* The sizes: a block is a number of buffers.
LEMMA NorSizes ==
  /\ BufferBytes \in Nat /\ BufferBytes > 0 /\ BlockSize \in Nat /\ BlockSize > 0 /\ LastBlock \in Nat
  /\ \E m \in Nat : m > 0 /\ BlockSize = m * BufferBytes /\ BlockSize \div BufferBytes = m
<1>1. /\ BufferBytes \in Nat /\ BufferBytes > 0 /\ BlockSize \in Nat /\ BlockSize > 0 /\ LastBlock \in Nat
      /\ (BlockSize % BufferBytes) = 0
  BY NorAssumption
<1>2. \A s, b \in Nat : b > 0 /\ s > 0 /\ (s % b) = 0 => (s \div b) \in Nat /\ (s \div b) > 0 /\ s = (s \div b) * b
  OBVIOUS
<1> QED
  BY <1>1, <1>2

\* The arguments of the calls.
LEMMA NorArguments ==
  /\ \A w \in NorWrites : w.lba \in Nat /\ w.off \in Nat /\ w.data \in Seq(Bits)
  /\ NorErases \subseteq Seq(Nat \X Nat) /\ NorHeaders \in Seq(Bits)
  BY NorAssumption DEF Bits

\* A list without its first entry.
LEMMA TailFacts ==
  ASSUME NEW C, NEW s \in Seq(C), s # << >>
  PROVE  /\ 1 \in DOMAIN s /\ Head(s) = s[1] /\ Head(s) \in C /\ Tail(s) \in Seq(C)
         /\ \A k \in DOMAIN Tail(s) : k + 1 \in DOMAIN s /\ k + 1 # 1 /\ Tail(s)[k] = s[k + 1]
         /\ \A k \in DOMAIN s : k # 1 => k - 1 \in DOMAIN Tail(s) /\ Tail(s)[k - 1] = s[k]
  OBVIOUS

\* What is left after a command that went well.
LEMMA Advanced ==
  ASSUME nTodo \in Seq(Command), nTodo # << >>, NEW mode, Goes(mode)
  PROVE  /\ nTodo' \in Seq(Command)
         /\ ~(Head(nTodo).n > 1) => nTodo' = Tail(nTodo)
         /\ Head(nTodo).n > 1 =>
              /\ DOMAIN nTodo' = DOMAIN nTodo /\ nTodo'[1] = Erase(Head(nTodo).lba + 1, Head(nTodo).n - 1)
              /\ \A k \in DOMAIN nTodo : k # 1 => nTodo'[k] = nTodo[k]
<1>1. PICK c : c = Head(nTodo)
  OBVIOUS
<1>2. PICK t : t = Tail(nTodo)
  OBVIOUS
<1>3. c \in Command /\ t \in Seq(Command)
  BY <1>1, <1>2, TailFacts
<1>4. nTodo' = (IF c.n > 1 THEN <<Erase(c.lba + 1, c.n - 1)>> ELSE << >>) \o t
  BY <1>1, <1>2 DEF Goes
<1>5. CASE ~(c.n > 1)
  <2>1. nTodo' = << >> \o t
    BY <1>4, <1>5
  <2>2. << >> \o t = t
    BY <1>3
  <2> QED BY <1>1, <1>2, <1>3, <1>5, <2>1, <2>2
<1>6. CASE c.n > 1
  <2>1. PICK e : e = Erase(c.lba + 1, c.n - 1)
    OBVIOUS
  <2>2. e \in Command
    BY <1>3, <1>6, <2>1 DEF Erase, Command
  <2>3. nTodo' = <<e>> \o t
    BY <1>4, <1>6, <2>1
  <2>4. /\ <<e>> \o t \in Seq(Command) /\ Len(<<e>> \o t) = 1 + Len(t) /\ (<<e>> \o t)[1] = e
        /\ \A k \in 2 .. 1 + Len(t) : (<<e>> \o t)[k] = t[k - 1]
    BY <1>3, <2>2
  <2>5. Len(nTodo) = 1 + Len(t) /\ \A k \in 2 .. 1 + Len(t) : t[k - 1] = nTodo[k]
    BY <1>2
  <2>6. DOMAIN nTodo = 1 .. 1 + Len(t) /\ DOMAIN (<<e>> \o t) = 1 .. 1 + Len(t)
    BY <1>3, <2>4, <2>5
  <2>7. \A k \in DOMAIN nTodo : k # 1 => k \in 2 .. 1 + Len(t)
    BY <1>3, <2>6
  <2> QED BY <1>1, <1>6, <2>1, <2>3, <2>4, <2>5, <2>6, <2>7
<1> QED
  BY <1>5, <1>6

-----------------------------------------------------------------------------
\* An erase that went well.
LEMMA EraseGoes ==
  ASSUME NTypes, NEW asked, asked \subseteq NorBlocks, EraseLeft(asked), nTodo # << >>, NEW mode, Goes(mode),
         nCells' = [nCells EXCEPT ![Head(nTodo).lba] = Erased], nBefore' = nBefore
  PROVE  EraseLeft(asked)'
<1>1. PICK c \in Command : c = Head(nTodo)
  BY TailFacts DEF NTypes
<1>2. c = nTodo[1] /\ 1 \in DOMAIN nTodo /\ nTodo \in Seq(Command)
  BY <1>1, TailFacts DEF NTypes
<1>3. c.do = "erase" /\ c.n > 0 /\ (\A b \in Nat : InRange(b, c.lba, c.n) => b \in asked) /\ c.lba \in Nat /\ c.n \in Nat
  BY <1>2 DEF EraseLeft, Command
<1>4. c.lba \in asked /\ c.lba \in NorBlocks
  BY <1>3 DEF InRange
<1>5. \A b \in NorBlocks : nCells'[b] = IF b = c.lba THEN Erased ELSE nCells[b]
  BY <1>1, <1>4 DEF NTypes
<1>6. CASE ~(c.n > 1)
  <2>1. nTodo' = Tail(nTodo)
    BY <1>1, <1>2, <1>6, Advanced
  <2>2. /\ \A k \in DOMAIN nTodo' : k + 1 \in DOMAIN nTodo /\ nTodo'[k] = nTodo[k + 1]
        /\ \A k \in DOMAIN nTodo : k # 1 => k - 1 \in DOMAIN nTodo' /\ nTodo'[k - 1] = nTodo[k]
    BY <1>2, <2>1, TailFacts
  <2>3. \A b \in NorBlocks : InRange(b, c.lba, c.n) => b = c.lba
    BY <1>3, <1>6, NorSizes DEF InRange, NorBlocks
  <2>4. \A k \in DOMAIN nTodo' :
          nTodo'[k].do = "erase" /\ nTodo'[k].n > 0 /\ \A b \in Nat : InRange(b, nTodo'[k].lba, nTodo'[k].n) => b \in asked
    BY <2>2 DEF EraseLeft
  <2>5. ASSUME NEW b \in NorBlocks
        PROVE  IF b \in asked THEN nCells'[b] = Erased \/ \E k \in DOMAIN nTodo' : InRange(b, nTodo'[k].lba, nTodo'[k].n)
               ELSE nCells'[b] = nBefore'[b]
    <3>1. CASE b = c.lba
      BY <1>4, <1>5, <3>1
    <3>2. CASE b # c.lba /\ b \in asked /\ nCells[b] # Erased
      <4>1. PICK k \in DOMAIN nTodo : InRange(b, nTodo[k].lba, nTodo[k].n)
        BY <3>2 DEF EraseLeft
      <4>2. k # 1
        BY <1>2, <2>3, <3>2, <4>1
      <4> QED BY <2>2, <3>2, <4>1, <4>2
    <3>3. CASE b # c.lba /\ (b \notin asked \/ nCells[b] = Erased)
      BY <1>5, <3>3 DEF EraseLeft
    <3> QED BY <3>1, <3>2, <3>3
  <2> QED BY <2>4, <2>5 DEF EraseLeft
<1>7. CASE c.n > 1
  <2>1. PICK e : e = Erase(c.lba + 1, c.n - 1)
    OBVIOUS
  <2>2. e.do = "erase" /\ e.lba = c.lba + 1 /\ e.n = c.n - 1
    BY <2>1 DEF Erase
  <2>3. /\ DOMAIN nTodo' = DOMAIN nTodo /\ nTodo'[1] = e
        /\ \A k \in DOMAIN nTodo : k # 1 => nTodo'[k] = nTodo[k]
    BY <1>1, <1>2, <1>7, <2>1, Advanced
  <2>4. \A b \in Nat : InRange(b, c.lba, c.n) <=> b = c.lba \/ InRange(b, e.lba, e.n)
    BY <1>3, <1>7, <2>2 DEF InRange
  <2>5. e.n > 0 /\ \A b \in Nat : InRange(b, e.lba, e.n) => b \in asked
    BY <1>3, <1>7, <2>2, <2>4
  <2>6. \A k \in DOMAIN nTodo' :
          nTodo'[k].do = "erase" /\ nTodo'[k].n > 0 /\ \A b \in Nat : InRange(b, nTodo'[k].lba, nTodo'[k].n) => b \in asked
    BY <2>2, <2>3, <2>5 DEF EraseLeft
  <2>7. ASSUME NEW b \in NorBlocks
        PROVE  IF b \in asked THEN nCells'[b] = Erased \/ \E k \in DOMAIN nTodo' : InRange(b, nTodo'[k].lba, nTodo'[k].n)
               ELSE nCells'[b] = nBefore'[b]
    <3>1. CASE b = c.lba
      BY <1>4, <1>5, <3>1
    <3>2. CASE b # c.lba /\ b \in asked /\ nCells[b] # Erased
      <4>1. PICK k \in DOMAIN nTodo : InRange(b, nTodo[k].lba, nTodo[k].n)
        BY <3>2 DEF EraseLeft
      <4>2. b \in Nat
        BY NorSizes DEF NorBlocks
      <4>3. InRange(b, nTodo'[k].lba, nTodo'[k].n)
        BY <1>2, <2>3, <2>4, <3>2, <4>1, <4>2
      <4> QED BY <2>3, <3>2, <4>3
    <3>3. CASE b # c.lba /\ (b \notin asked \/ nCells[b] = Erased)
      BY <1>5, <3>3 DEF EraseLeft
    <3> QED BY <3>1, <3>2, <3>3
  <2> QED BY <2>6, <2>7 DEF EraseLeft
<1> QED
  BY <1>6, <1>7

\* An erase that is tried again; the block may have been erased or not.
LEMMA EraseAgain ==
  ASSUME NTypes, NEW asked, asked \subseteq NorBlocks, EraseLeft(asked), nTodo # << >>, nTodo' = nTodo,
         nCells' \in {nCells, [nCells EXCEPT ![Head(nTodo).lba] = Erased]}, nBefore' = nBefore
  PROVE  EraseLeft(asked)'
<1>1. CASE nCells' = nCells
  BY <1>1 DEF EraseLeft
<1>2. CASE nCells' = [nCells EXCEPT ![Head(nTodo).lba] = Erased]
  <2>1. PICK c \in Command : c = Head(nTodo)
    BY TailFacts DEF NTypes
  <2>2. c = nTodo[1] /\ 1 \in DOMAIN nTodo
    BY <2>1, TailFacts DEF NTypes
  <2>3. c.n > 0 /\ (\A b \in Nat : InRange(b, c.lba, c.n) => b \in asked) /\ c.lba \in Nat /\ c.n \in Nat
    BY <2>2 DEF EraseLeft, Command
  <2>4. c.lba \in asked /\ c.lba \in NorBlocks
    BY <2>3 DEF InRange
  <2>5. \A b \in NorBlocks : nCells'[b] = IF b = c.lba THEN Erased ELSE nCells[b]
    BY <1>2, <2>1, <2>4 DEF NTypes
  <2> QED BY <2>4, <2>5 DEF EraseLeft
<1> QED
  BY <1>1, <1>2

-----------------------------------------------------------------------------
\* A write whose job, buffer and old contents stay wants the same.
LEMMA WantedKept ==
  ASSUME nBefore' = nBefore, nJob' = nJob
  PROVE  Wanted' = Wanted
  BY DEF Wanted, Overlay

\* The job decides what its commands program.
LEMMA ProgramsKept ==
  ASSUME nBefore' = nBefore, nJob' = nJob, nShadow' = nShadow,
         \A k \in DOMAIN nTodo' : Programs(nTodo'[k])
  PROVE  AllProgram(nTodo)'
<1>1. Wanted' = Wanted
  BY WantedKept
<1> QED
  BY <1>1 DEF AllProgram, Programs, Reached

\* What is wanted of a byte is a bit, as is what is there.
LEMMA WantedBits ==
  ASSUME NTypes, WriteLeft
  PROVE  nCells[nJob.lba] \in Contents /\ nBefore[nJob.lba] \in Contents /\ Wanted \in Contents
<1>1. nCells[nJob.lba] \in Contents /\ nBefore[nJob.lba] \in Contents
  BY DEF NTypes, WriteLeft
<1>2. PICK block : block = nBefore[nJob.lba]
  OBVIOUS
<1>3. PICK data \in Seq(Bits), off \in Nat : data = nJob.data /\ off = nJob.off
  BY DEF WriteLeft
<1>4. \A i \in NorBytes : i >= off /\ i < off + Len(data) => data[i - off + 1] \in Bits
  <2>1. \A i \in Nat : i >= off /\ i < off + Len(data) => i - off + 1 \in DOMAIN data
    OBVIOUS
  <2>2. NorBytes \subseteq Nat
    BY NorSizes DEF NorBytes
  <2> QED BY <2>1, <2>2
<1>5. \A i \in NorBytes : (IF i >= off /\ i < off + Len(data) THEN data[i - off + 1] ELSE block[i]) \in Bits
  BY <1>1, <1>2, <1>4 DEF Contents
<1>6. Wanted = [i \in NorBytes |-> IF i >= off /\ i < off + Len(data) THEN data[i - off + 1] ELSE block[i]]
  BY <1>2, <1>3 DEF Wanted, Overlay
<1> QED
  BY <1>1, <1>5, <1>6 DEF Contents

\* The command at the head is done, and the rest of them remains.
LEMMA RestPrograms ==
  ASSUME nTodo \in Seq(Command), nTodo # << >>, NEW mode, Goes(mode), ~(Head(nTodo).n > 1),
         AllProgram(Tail(nTodo)), nBefore' = nBefore, nJob' = nJob, nShadow' = nShadow
  PROVE  nTodo' = Tail(nTodo) /\ AllProgram(nTodo)'
<1>1. nTodo' = Tail(nTodo)
  BY Advanced
<1>2. \A k \in DOMAIN nTodo' : Programs(nTodo'[k])
  BY <1>1 DEF AllProgram
<1> QED
  BY <1>1, <1>2, ProgramsKept

Burnt(block, c) ==
  [i \in NorBytes |-> IF i >= c.at /\ i < c.at + BufferBytes
                      THEN IF nShadow[c.from + i - c.at] = 0 THEN 0 ELSE block[i] ELSE block[i]]

\* A buffer that was programmed, or passed over.
LEMMA BufferGoes ==
  ASSUME NTypes, WriteLeft, Programming, nTodo # << >>, NEW mode, Goes(mode),
         nBefore' = nBefore, nJob' = nJob, nShadow' = nShadow,
         \/ Head(nTodo).do = "skip" /\ nCells' = nCells
         \/ /\ Head(nTodo).do = "program"
            /\ nCells' = [nCells EXCEPT ![Head(nTodo).lba] = Burnt(nCells[Head(nTodo).lba], Head(nTodo))]
  PROVE  WriteLeft'
<1>1. PICK c \in Command : c = Head(nTodo)
  BY TailFacts DEF NTypes
<1>2. c = nTodo[1] /\ 1 \in DOMAIN nTodo /\ nTodo \in Seq(Command)
  BY <1>1, TailFacts DEF NTypes
<1>3. Programs(c)
  BY <1>2 DEF Programming, AllProgram
<1>4. c.lba = nJob.lba /\ c.n = 1 /\ nJob.lba \in NorBlocks
  BY <1>3 DEF Programs, WriteLeft
<1>5. AllProgram(Tail(nTodo))
  <2>1. \A k \in DOMAIN Tail(nTodo) : k + 1 \in DOMAIN nTodo /\ Tail(nTodo)[k] = nTodo[k + 1]
    BY <1>2, TailFacts
  <2> QED BY <2>1 DEF Programming, AllProgram
<1>6. nTodo' = Tail(nTodo) /\ AllProgram(nTodo)'
  BY <1>1, <1>2, <1>4, <1>5, RestPrograms
<1>7. \A k \in DOMAIN nTodo : k # 1 => k - 1 \in DOMAIN nTodo' /\ nTodo'[k - 1] = nTodo[k]
  BY <1>2, <1>6, TailFacts
<1>8. PICK lba \in NorBlocks : lba = nJob.lba
  BY <1>4
<1>9. nCells[lba] \in Contents /\ Wanted \in Contents
  BY <1>8, WantedBits
<1>10. nCells' = nCells \/ nCells' = [nCells EXCEPT ![lba] = Burnt(nCells[lba], c)]
  BY <1>1, <1>4, <1>8
<1>11. \A b \in NorBlocks : b # lba => nCells'[b] = nBefore[b]
  <2>1. \A b \in NorBlocks : b # lba => nCells[b] = nBefore[b]
    BY <1>8 DEF WriteLeft
  <2> QED BY <1>10, <2>1 DEF NTypes
<1>12. ASSUME NEW i \in NorBytes
       PROVE  nCells'[lba][i] = Wanted[i] \/ (nCells'[lba][i] = 1 /\ Covered(nTodo', i))
  <2>1. nCells[lba][i] = Wanted[i] \/ (nCells[lba][i] = 1 /\ Covered(nTodo, i))
    BY <1>8 DEF Programming
  <2>2. nCells[lba][i] \in Bits /\ Wanted[i] \in Bits
    BY <1>9 DEF Contents
  <2>3. Covered(nTodo, i) => Covered(nTodo', i) \/ (c.do = "program" /\ Reached(c, i))
    BY <1>2, <1>7 DEF Covered
  <2>4. CASE c.do = "skip"
    <3>1. nCells' = nCells
      BY <1>1, <2>4
    <3> QED BY <2>1, <2>3, <2>4, <3>1
  <2>5. CASE c.do = "program"
    <3>1. nCells' = [nCells EXCEPT ![lba] = Burnt(nCells[lba], c)]
      BY <1>1, <1>4, <1>8, <2>5
    <3>2. nCells'[lba] = Burnt(nCells[lba], c)
      BY <3>1 DEF NTypes
    <3>3. CASE Reached(c, i)
      <4>1. nCells'[lba][i] = IF nShadow[c.from + i - c.at] = 0 THEN 0 ELSE nCells[lba][i]
        BY <3>2, <3>3 DEF Burnt, Reached
      <4>2. nShadow[c.from + i - c.at] = Wanted[i]
        BY <1>3, <3>3 DEF Programs
      <4> QED BY <2>1, <2>2, <4>1, <4>2 DEF Bits
    <3>4. CASE ~Reached(c, i)
      <4>1. nCells'[lba][i] = nCells[lba][i]
        BY <3>2, <3>4 DEF Burnt, Reached
      <4> QED BY <2>1, <2>3, <3>4, <4>1
    <3> QED BY <3>3, <3>4
  <2> QED BY <1>3, <2>4, <2>5 DEF Programs
<1>13. Programming'
  <2>1. Wanted' = Wanted
    BY WantedKept
  <2>2. \A i \in NorBytes : nCells'[nJob'.lba][i] = Wanted'[i] \/ (nCells'[nJob'.lba][i] = 1 /\ Covered(nTodo', i))
    BY <1>8, <1>12, <2>1
  <2> QED BY <1>6, <2>2 DEF Programming, Covered, Reached
<1>14. /\ nJob'.lba \in NorBlocks /\ nJob'.off \in Nat /\ nJob'.data \in Seq(Bits)
       /\ \A b \in NorBlocks : b # nJob'.lba => nCells'[b] = nBefore'[b]
  BY <1>8, <1>11 DEF WriteLeft
<1> QED
  BY <1>13, <1>14 DEF WriteLeft

\* The block of a full write was erased.
LEMMA BlockGoes ==
  ASSUME NTypes, WriteLeft, ErasePending, NEW mode, Goes(mode),
         nBefore' = nBefore, nJob' = nJob, nShadow' = nShadow,
         nCells' = [nCells EXCEPT ![Head(nTodo).lba] = Erased]
  PROVE  WriteLeft'
<1>1. nTodo # << >> /\ nTodo \in Seq(Command) /\ AllProgram(Tail(nTodo))
  BY DEF ErasePending, NTypes
<1>2. Head(nTodo).lba = nJob.lba /\ Head(nTodo).n = 1
  BY DEF ErasePending, Erase
<1>3. nTodo' = Tail(nTodo) /\ AllProgram(nTodo)'
  BY <1>1, <1>2, RestPrograms
<1>4. PICK lba \in NorBlocks : lba = nJob.lba
  BY DEF WriteLeft
<1>5. nCells' = [nCells EXCEPT ![lba] = Erased]
  BY <1>2, <1>4
<1>6. nCells'[lba] = Erased /\ \A b \in NorBlocks : b # lba => nCells'[b] = nCells[b]
  BY <1>5 DEF NTypes
<1>7. Wanted' = Wanted
  BY WantedKept
<1>8. \A i \in NorBytes : nCells'[lba][i] = 1
  BY <1>6 DEF Erased
<1>9. \A i \in NorBytes : Wanted[i] = 1 \/ Covered(nTodo', i)
  BY <1>3 DEF ErasePending
<1>10. Programming'
  <2>1. \A i \in NorBytes : nCells'[nJob'.lba][i] = Wanted'[i] \/ (nCells'[nJob'.lba][i] = 1 /\ Covered(nTodo', i))
    BY <1>4, <1>7, <1>8, <1>9
  <2> QED BY <1>3, <2>1 DEF Programming, Covered, Reached
<1>11. /\ nJob'.lba \in NorBlocks /\ nJob'.off \in Nat /\ nJob'.data \in Seq(Bits)
       /\ \A b \in NorBlocks : b # nJob'.lba => nCells'[b] = nBefore'[b]
  BY <1>4, <1>6 DEF WriteLeft
<1> QED
  BY <1>10, <1>11 DEF WriteLeft

\* The block is to be erased again.
LEMMA BlockAgain ==
  ASSUME NTypes, WriteLeft, ErasePending, nTodo' = nTodo, nBefore' = nBefore, nJob' = nJob, nShadow' = nShadow,
         nCells' \in {nCells, [nCells EXCEPT ![Head(nTodo).lba] = Erased]}
  PROVE  WriteLeft'
<1>1. Wanted' = Wanted
  BY WantedKept
<1>2. Head(nTodo).lba = nJob.lba
  BY DEF ErasePending, Erase
<1>3. \A b \in NorBlocks : b # nJob.lba => nCells'[b] = nBefore[b]
  BY <1>2 DEF WriteLeft, NTypes
<1>4. ErasePending'
  BY <1>1 DEF ErasePending, AllProgram, Programs, Covered, Reached
<1> QED
  BY <1>3, <1>4 DEF WriteLeft

-----------------------------------------------------------------------------
\* Arithmetic of blocks and buffers.
LEMMA DivMod == \A i, b \in Nat : b > 0 => (i \div b) \in Nat /\ (i % b) \in 0 .. b - 1 /\ i = (i \div b) * b + (i % b)
  OBVIOUS

\* Later blocks begin later.
LEMMA TimesGrows == \A x, y, b \in Nat : x <= y => x * b <= y * b
  OBVIOUS

\* The next block begins a block later.
LEMMA NextTimes == \A x, b \in Nat : (x + 1) * b = x * b + b /\ x * b \in Nat
  OBVIOUS

\* The block that begins earlier is the earlier one.
LEMMA TimesLess == \A x, y, b \in Nat : x * b < y * b => x < y
  OBVIOUS

\* Blocks after blocks.
LEMMA SumTimes == \A x, y, b \in Nat : (x + y) * b = x * b + y * b
  OBVIOUS

\* A byte before the end of block m is in an earlier one.
LEMMA DivBelow == \A i, b, m \in Nat : b > 0 /\ i < m * b => (i \div b) < m
  BY DivMod, TimesGrows

\* The bytes of the first block.
LEMMA SmallDiv == \A i, b \in Nat : i < b => (i \div b) = 0 /\ (i % b) = i
  OBVIOUS

\* A block that holds what a write puts over it.
LEMMA OverlayBits ==
  ASSUME NEW block \in Contents, NEW off \in Nat, NEW data \in Seq(Bits)
  PROVE  Overlay(block, off, data) \in Contents
<1>1. \A i \in NorBytes : i >= off /\ i < off + Len(data) => data[i - off + 1] \in Bits
  <2>1. \A i \in Nat : i >= off /\ i < off + Len(data) => i - off + 1 \in DOMAIN data
    OBVIOUS
  <2>2. NorBytes \subseteq Nat
    BY NorSizes DEF NorBytes
  <2> QED BY <2>1, <2>2
<1>2. \A i \in NorBytes : (IF i >= off /\ i < off + Len(data) THEN data[i - off + 1] ELSE block[i]) \in Bits
  BY <1>1 DEF Contents
<1> QED
  BY <1>2 DEF Overlay, Contents

\* A write that begins with an erase.
LEMMA FullServed ==
  ASSUME NTypes, NEW lba \in NorBlocks, NEW off \in Nat, NEW data \in Seq(Bits),
         nJob'.lba = lba, nJob'.off = off, nJob'.data = data,
         nCells' = nCells, nBefore' = nCells,
         nShadow' = Overlay(nCells[lba], off, data), nTodo' = NorFlashWriteFullBlock(lba, nShadow')
  PROVE  NTypes' /\ WriteLeft'
<1>1. PICK m \in Nat : m > 0 /\ BlockSize = m * BufferBytes /\ BlockSize \div BufferBytes = m
  BY NorSizes
<1>2. PICK full : full = nShadow'
  OBVIOUS
<1>3. full \in Contents
  BY <1>2, OverlayBits DEF NTypes
<1>4. PICK chunks : chunks = [k \in 1 .. m |->
        [Program(lba, (k - 1) * BufferBytes, (k - 1) * BufferBytes) EXCEPT
           !.do = IF \E i \in 0 .. BufferBytes - 1 : full[(k - 1) * BufferBytes + i] = 0 THEN @ ELSE "skip"]]
  OBVIOUS
<1>5. nTodo' = <<Erase(lba, 1)>> \o chunks
  BY <1>1, <1>2, <1>4 DEF NorFlashWriteFullBlock
<1>6. ASSUME NEW k \in 1 .. m
      PROVE  \E a \in Nat :
               /\ a = (k - 1) * BufferBytes /\ chunks[k].lba = lba /\ chunks[k].n = 1 /\ chunks[k].at = a
               /\ chunks[k].from = a /\ chunks[k] \in Command /\ chunks[k].do \in {"program", "skip"}
               /\ (\E i \in 0 .. BufferBytes - 1 : full[a + i] = 0) => chunks[k].do = "program"
  <2>a. k - 1 \in Nat /\ BufferBytes \in Nat
    BY NorSizes
  <2>b. (k - 1) * BufferBytes \in Nat
    BY <2>a, NextTimes
  <2>1. PICK a \in Nat : a = (k - 1) * BufferBytes
    BY <2>b
  <2>2. PICK d : d = IF \E i \in 0 .. BufferBytes - 1 : full[a + i] = 0 THEN "program" ELSE "skip"
    OBVIOUS
  <2>3. chunks[k] = [do |-> d, lba |-> lba, n |-> 1, at |-> a, from |-> a]
    BY <1>4, <2>1, <2>2 DEF Program
  <2>4. d \in {"program", "skip"} /\ lba \in Nat
    BY <2>2, NorSizes DEF NorBlocks
  <2>5. chunks[k] \in Command
    BY <2>3, <2>4 DEF Command
  <2> QED BY <2>1, <2>2, <2>3, <2>4, <2>5
<1>7. chunks \in Seq(Command) /\ DOMAIN chunks = 1 .. m
  <2>1. chunks = [k \in 1 .. m |-> chunks[k]] /\ \A k \in 1 .. m : chunks[k] \in Command
    BY <1>4, <1>6
  <2> QED BY <2>1
<1>8. Erase(lba, 1) \in Command
  BY NorSizes DEF Erase, Command, NorBlocks
<1>9. nTodo' \in Seq(Command) /\ nTodo' # << >> /\ Head(nTodo') = Erase(lba, 1) /\ Tail(nTodo') = chunks
  <2>1. PICK e : e = Erase(lba, 1)
    OBVIOUS
  <2>2. <<e>> \o chunks \in Seq(Command) /\ <<e>> \o chunks # << >> /\ Head(<<e>> \o chunks) = e
        /\ Tail(<<e>> \o chunks) = chunks
    BY <1>7, <1>8, <2>1
  <2> QED BY <1>5, <2>1, <2>2
<1>10. NTypes'
  BY <1>2, <1>3, <1>9 DEF NTypes
<1>11. Wanted' = full
  BY <1>2 DEF Wanted, Overlay
<1>12. \A k \in 1 .. m : Programs(chunks[k])'
  <2> SUFFICES ASSUME NEW k \in 1 .. m PROVE Programs(chunks[k])'
    OBVIOUS
  <2>1. PICK a \in Nat : chunks[k].lba = lba /\ chunks[k].n = 1 /\ chunks[k].at = a /\ chunks[k].from = a
                         /\ chunks[k].do \in {"program", "skip"}
    BY <1>6
  <2>2. \A i \in NorBytes : a + i - a = i
    BY NorSizes DEF NorBytes
  <2> QED BY <1>2, <1>11, <2>1, <2>2 DEF Programs
<1>13. AllProgram(Tail(nTodo))'
  BY <1>7, <1>9, <1>12 DEF AllProgram, Programs
<1>14. ASSUME NEW i \in NorBytes, full[i] # 1
       PROVE  Covered(chunks, i)
  <2>1. full[i] = 0
    BY <1>3, <1>14 DEF Contents, Bits
  <2>2. i \in Nat /\ i < m * BufferBytes
    BY <1>1, NorSizes, NextTimes DEF NorBytes
  <2>3. PICK d \in Nat, r \in 0 .. BufferBytes - 1 : i = d * BufferBytes + r /\ d < m
    <3>1. (i \div BufferBytes) \in Nat /\ (i % BufferBytes) \in 0 .. BufferBytes - 1
          /\ i = (i \div BufferBytes) * BufferBytes + (i % BufferBytes)
      BY <2>2, NorSizes, DivMod
    <3>2. (i \div BufferBytes) < m
      BY <2>2, NorSizes, DivBelow
    <3> QED BY <3>1, <3>2
  <2>4. PICK k \in 1 .. m : k = d + 1
    BY <2>3
  <2>5. PICK a \in Nat : /\ a = (k - 1) * BufferBytes /\ chunks[k].at = a
                         /\ (\E j \in 0 .. BufferBytes - 1 : full[a + j] = 0) => chunks[k].do = "program"
    BY <1>6
  <2>6. a + r = i
    <3>1. k - 1 = d
      BY <2>3, <2>4
    <3> QED BY <2>3, <2>5, <3>1
  <2>7. i >= a /\ i < a + BufferBytes
    BY <2>3, <2>6, NorSizes
  <2>8. chunks[k].do = "program"
    BY <2>1, <2>3, <2>5, <2>6
  <2> QED BY <1>7, <2>5, <2>7, <2>8 DEF Covered, Reached
<1>15. ErasePending'
  <2>1. \A i \in NorBytes : Wanted'[i] = 1 \/ Covered(Tail(nTodo'), i)
    BY <1>9, <1>11, <1>14
  <2> QED BY <1>9, <1>13, <2>1 DEF ErasePending, Covered, Reached, Erase
<1> QED
  BY <1>10, <1>15 DEF WriteLeft

\* Where a write lies: its first buffer begins at a multiple of the size of one, and ends in the block.
LEMMA Aligned ==
  ASSUME NEW off \in Nat, NEW len \in Nat, off + len <= BlockSize, len > 0
  PROVE  \E base \in Nat, at \in Nat :
           /\ AlignDown(off) = base /\ off % BufferBytes = at /\ off = base + at /\ at < BufferBytes
           /\ base + BufferBytes <= BlockSize
           /\ at + len > BufferBytes => base + 2 * BufferBytes <= BlockSize
<1>1. PICK b \in Nat : b = BufferBytes /\ b > 0
  BY NorSizes
<1>2. PICK m \in Nat : BlockSize = m * b
  BY <1>1, NorSizes
<1>3. PICK q \in Nat, at \in 0 .. b - 1 : off = q * b + at /\ off % b = at
  BY <1>1, DivMod
<1>4. PICK base \in Nat : base = q * b
  BY NextTimes
<1>5. off - at = base
  BY <1>3, <1>4
<1>6. AlignDown(off) = base
  BY <1>1, <1>3, <1>5 DEF AlignDown
<1>7. PICK size \in Nat : size = BlockSize /\ size = m * b
  BY <1>2, NorSizes
<1>8. q < m
  <2>1. q * b < m * b
    BY <1>3, <1>4, <1>7
  <2> QED BY <2>1, TimesLess
<1>9. base + b <= size
  <2>1. (q + 1) * b = q * b + b /\ (q + 1) * b <= m * b
    BY <1>8, NextTimes, TimesGrows
  <2> QED BY <1>4, <1>7, <2>1
<1>10. at + len > b => base + 2 * b <= size
  <2> SUFFICES ASSUME at + len > b PROVE base + 2 * b <= size
    OBVIOUS
  <2>1. (q + 1) * b = q * b + b /\ ((q + 1) + 1) * b = (q + 1) * b + b
    BY NextTimes
  <2>2. (q + 1) * b < m * b
    BY <1>3, <1>4, <1>7, <2>1
  <2>3. q + 1 < m
    BY <2>2, TimesLess
  <2>4. ((q + 1) + 1) * b <= m * b
    BY <2>3, TimesGrows
  <2> QED BY <1>4, <1>7, <2>1, <2>4
<1> QED
  BY <1>1, <1>3, <1>4, <1>6, <1>7, <1>9, <1>10

\* What NorFlashRead puts in the shadow buffer.
LEMMA ReadIsRight ==
  ASSUME NTypes, NEW lba \in Nat, NEW base \in Nat, NEW len \in Nat, len > 0, InFlash(lba, base, len)
  PROVE  /\ NorFlashRead(lba, base, len) \in Contents
         /\ base < BlockSize => lba \in NorBlocks
         /\ \A i \in NorBytes : i < len /\ base + i < BlockSize => NorFlashRead(lba, base, len)[i] = nCells[lba][base + i]
<1>1. PICK s \in Nat : s = BlockSize /\ s > 0
  BY NorSizes
<1>2. LastBlock \in Nat /\ NorBlocks = 0 .. LastBlock /\ NorBytes = 0 .. s - 1
  BY <1>1, NorSizes DEF NorBlocks, NorBytes
<1>3. lba * s + base + len <= (LastBlock + 1) * s
  BY <1>1 DEF InFlash
<1>4. ASSUME NEW i \in NorBytes, i < len
      PROVE  lba + ((base + i) \div s) \in NorBlocks /\ ((base + i) % s) \in NorBytes
  <2>1. PICK x \in Nat : x = base + i
    BY <1>2
  <2>2. PICK d \in Nat, r \in 0 .. s - 1 : d = x \div s /\ r = x % s /\ x = d * s + r
    BY <1>1, DivMod
  <2>3. PICK ls \in Nat, ds \in Nat, ts \in Nat : ls = lba * s /\ ds = d * s /\ ts = (LastBlock + 1) * s
    BY <1>2, NextTimes
  <2>4. ls + ds < ts
    BY <1>2, <1>3, <1>4, <2>1, <2>2, <2>3
  <2>5. (lba + d) * s < (LastBlock + 1) * s
    BY <2>3, <2>4, SumTimes
  <2>6. lba + d < LastBlock + 1
    BY <1>2, <2>5, TimesLess
  <2> QED BY <1>2, <2>1, <2>2, <2>6
<1>5. ASSUME NEW i \in NorBytes, i < len
      PROVE  ByteAt(lba, base + i) \in Bits
  BY <1>1, <1>4, <1>5 DEF ByteAt, NTypes, Contents
<1>6. NorFlashRead(lba, base, len) \in Contents
  BY <1>5 DEF NorFlashRead, Contents, NTypes
<1>7. ASSUME NEW i \in NorBytes, i < len, base + i < BlockSize
      PROVE  NorFlashRead(lba, base, len)[i] = nCells[lba][base + i]
  <2>1. PICK x \in Nat : x = base + i /\ x < s
    BY <1>1, <1>2, <1>7
  <2>2. x \div s = 0 /\ x % s = x
    BY <2>1, <1>1, SmallDiv
  <2>3. lba + 0 = lba
    OBVIOUS
  <2>4. ByteAt(lba, x) = nCells[lba][x]
    BY <1>1, <2>2, <2>3 DEF ByteAt
  <2> QED BY <1>7, <2>1, <2>4 DEF NorFlashRead
<1>8. base < BlockSize => lba \in NorBlocks
  <2>1. 0 \in NorBytes /\ 0 < len /\ base + 0 = base
    BY <1>1, <1>2
  <2>2. base < s => base \div s = 0
    BY <1>1, SmallDiv
  <2>3. lba + (base \div s) \in NorBlocks
    BY <1>4, <2>1
  <2> QED BY <1>1, <2>2, <2>3
<1> QED
  BY <1>6, <1>7, <1>8

\* The aligned length is one buffer, or two at least.
LEMMA ReadLengths ==
  ASSUME NEW len \in Nat
  PROVE  /\ ReadLength(len) \in Nat /\ ReadLength(len) >= BufferBytes
         /\ ReadLength(len) > BufferBytes => ReadLength(len) >= 2 * BufferBytes
<1>1. PICK b \in Nat : b = BufferBytes /\ b > 0
  BY NorSizes
<1>2. PICK d \in Nat : d = len \div b
  BY <1>1, DivMod
<1>3. PICK r \in Nat : r = (d + 1) * b /\ r = d * b + b /\ d * b \in Nat
  BY NextTimes
<1>4. ReadLength(len) = r
  BY <1>1, <1>2, <1>3 DEF ReadLength
<1>5. r > b => r >= 2 * b
  <2> SUFFICES ASSUME r > b PROVE r >= 2 * b
    OBVIOUS
  <2>1. d # 0
    BY <1>3
  <2>2. 1 * b <= d * b
    BY <2>1, TimesGrows
  <2> QED BY <1>3, <2>2
<1>6. r >= b
  BY <1>3
<1> QED
  BY <1>1, <1>3, <1>4, <1>5, <1>6

\* A buffer that holds what a block holds from base on, and data that clears bits of it only.
Mirrors(old, block, base, end) == \A j \in NorBytes : j < end /\ base + j < BlockSize => old[j] = block[base + j]
ClearsOnly(old, at, data) == \A i \in 1 .. Len(data) : ~(old[at + i - 1] = 0 /\ data[i] = 1)

\* The shadow buffer and the wanted contents agree on the buffers of a write in place.
LEMMA ShadowAgrees ==
  ASSUME NEW base \in Nat, NEW at \in Nat, NEW end \in Nat, NEW data \in Seq(Bits), NEW old, NEW block,
         Mirrors(old, block, base, end), NEW i \in NorBytes, i >= base, i < base + end
  PROVE  Overlay(old, at, data)[i - base] = Overlay(block, base + at, data)[i]
<1> DEFINE off == base + at
           len == Len(data)
<1>0. PICK size \in Nat : size = BlockSize /\ NorBytes = 0 .. size - 1
  BY NorSizes DEF NorBytes
<1>1. PICK j \in NorBytes : j = i - base
  BY <1>0
<1>2. Overlay(old, at, data)[j] = IF j >= at /\ j < at + len THEN data[j - at + 1] ELSE old[j]
  BY DEF Overlay
<1>3. Overlay(block, off, data)[i] = IF i >= off /\ i < off + len THEN data[i - off + 1] ELSE block[i]
  BY DEF Overlay
<1>4. (j >= at /\ j < at + len <=> i >= off /\ i < off + len) /\ j - at + 1 = i - off + 1
  BY <1>0, <1>1
<1>5. j < end /\ base + j < size /\ base + j = i
  BY <1>0, <1>1
<1>6. old[j] = block[i]
  BY <1>0, <1>5 DEF Mirrors
<1> QED
  BY <1>1, <1>2, <1>3, <1>4, <1>6

\* A byte to be written is in one of the buffers.
LEMMA InOneBuffer ==
  ASSUME NEW base \in Nat, NEW b \in Nat, NEW n \in 1 .. 2, NEW i \in Nat, i >= base, i < base + n * b
  PROVE  \E k \in 1 .. n : i >= base + (k - 1) * b /\ i < base + (k - 1) * b + b
<1>1. CASE i < base + b
  <2>1. 1 \in 1 .. n /\ (1 - 1) * b = 0
    OBVIOUS
  <2>2. i >= base + 0 /\ i < base + 0 + b
    BY <1>1
  <2> QED BY <2>1, <2>2
<1>2. CASE ~(i < base + b)
  <2>1. n = 2
    <3>1. n = 1 => n * b = b
      OBVIOUS
    <3> QED BY <1>2, <3>1
  <2>2. n * b = b + b
    BY <2>1
  <2>3. 2 \in 1 .. n /\ (2 - 1) * b = b
    BY <2>1
  <2>4. i >= base + b /\ i < base + b + b
    BY <1>2, <2>2
  <2> QED BY <2>3, <2>4
<1> QED
  BY <1>1, <1>2

\* A byte that a write in place changes is cleared by it.
LEMMA OnlyCleared ==
  ASSUME NEW base \in Nat, NEW at \in Nat, NEW end \in Nat, NEW data \in Seq(Bits), at + Len(data) <= end,
         NEW old, NEW block \in Contents, Mirrors(old, block, base, end), ClearsOnly(old, at, data),
         NEW i \in NorBytes
  PROVE  block[i] = Overlay(block, base + at, data)[i] \/ (block[i] = 1 /\ i >= base + at /\ i < base + at + Len(data))
<1> DEFINE off == base + at
           len == Len(data)
<1>0. PICK size \in Nat : size = BlockSize /\ NorBytes = 0 .. size - 1
  BY NorSizes DEF NorBytes
<1>1. Overlay(block, off, data)[i] = IF i >= off /\ i < off + len THEN data[i - off + 1] ELSE block[i]
  BY DEF Overlay
<1>2. CASE ~(i >= off /\ i < off + len)
  BY <1>1, <1>2
<1>3. CASE i >= off /\ i < off + len
  <2>1. PICK j \in 1 .. len : j = i - off + 1
    BY <1>0, <1>3
  <2>2. Overlay(block, off, data)[i] = data[j]
    BY <1>1, <1>3, <2>1
  <2>3. at + j - 1 \in NorBytes /\ at + j - 1 < end /\ base + (at + j - 1) = i /\ i < size
    BY <1>0, <1>3, <2>1
  <2>4. old[at + j - 1] = block[i]
    BY <1>0, <2>3 DEF Mirrors
  <2>5. ~(block[i] = 0 /\ data[j] = 1)
    BY <2>1, <2>4 DEF ClearsOnly
  <2>6. block[i] \in Bits /\ data[j] \in Bits
    BY <2>1 DEF Contents
  <2> QED BY <1>3, <2>2, <2>5, <2>6 DEF Bits
<1> QED
  BY <1>2, <1>3

\* A write in place begins, with its place worked out.
BeginsInPlace(lba, data, base, at, n, old) ==
  /\ Len(data) + at <= n * BufferBytes /\ old \in Contents
  /\ Mirrors(old, nCells[lba], base, n * BufferBytes) /\ ClearsOnly(old, at, data)
  /\ nJob'.lba = lba /\ nJob'.off = base + at /\ nJob'.data = data /\ nCells' = nCells /\ nBefore' = nCells
  /\ nShadow' = Overlay(old, at, data)
  /\ nTodo' = [k \in 1 .. n |-> Program(lba, base + (k - 1) * BufferBytes, (k - 1) * BufferBytes)]

\* A write in place begins as WriteLeft says.
LEMMA InPlaceWrite ==
  ASSUME NTypes, NEW lba \in NorBlocks, NEW data \in Seq(Bits), NEW base \in Nat, NEW at \in Nat, NEW n \in 1 .. 2,
         NEW old, BeginsInPlace(lba, data, base, at, n, old)
  PROVE  NTypes' /\ WriteLeft'
<1>0. PICK off \in Nat, len \in Nat, end \in Nat : off = base + at /\ len = Len(data) /\ end = n * BufferBytes
  <2>1. base + at \in Nat /\ Len(data) \in Nat /\ n * BufferBytes \in Nat
    BY NorSizes
  <2> QED BY <2>1
<1>z. /\ len + at <= end /\ old \in Contents
      /\ Mirrors(old, nCells[lba], base, end) /\ ClearsOnly(old, at, data)
      /\ nJob'.lba = lba /\ nJob'.off = off /\ nJob'.data = data /\ nCells' = nCells /\ nBefore' = nCells
      /\ nShadow' = Overlay(old, at, data)
      /\ nTodo' = [k \in 1 .. n |-> Program(lba, base + (k - 1) * BufferBytes, (k - 1) * BufferBytes)]
  BY <1>0 DEF BeginsInPlace
<1>1. PICK b \in Nat : b = BufferBytes /\ b > 0
  BY NorSizes
<1>2. PICK size \in Nat : size = BlockSize /\ NorBytes = 0 .. size - 1
  BY NorSizes DEF NorBytes
<1>3. PICK block : block = nCells[lba]
  OBVIOUS
<1>4. block \in Contents
  BY <1>3 DEF NTypes
<1>5. PICK wanted \in Contents : wanted = Overlay(block, off, data)
  BY <1>0, <1>4, OverlayBits
<1>6. PICK shadow \in Contents : shadow = nShadow' /\ shadow = Overlay(old, at, data)
  BY <1>z, OverlayBits
<1>7. Wanted' = wanted
  BY <1>z, <1>3, <1>5 DEF Wanted, Overlay
<1>8. Mirrors(old, block, base, end)
  BY <1>z, <1>3
<1>a. \A i \in NorBytes : i >= base /\ i < base + end =>
        Overlay(old, at, data)[i - base] = Overlay(block, base + at, data)[i]
  BY <1>8, ShadowAgrees
<1>9. PICK todo : todo = nTodo'
  OBVIOUS
<1>10. todo = [k \in 1 .. n |-> Program(lba, base + (k - 1) * b, (k - 1) * b)]
  BY <1>z, <1>1, <1>9
<1>11. ASSUME NEW k \in 1 .. n
       PROVE  \E from \in Nat : /\ from = (k - 1) * b /\ todo[k] = Program(lba, base + from, from)
                                /\ from + b <= end
  <2>1. k = 1 \/ (k = 2 /\ n = 2)
    OBVIOUS
  <2>2. CASE k = 1
    <3>1. (k - 1) * b = 0 /\ 0 + b <= end
      <4>1. n = 1 => n * b = b
        OBVIOUS
      <4>2. n = 2 => n * b = b + b
        OBVIOUS
      <4> QED BY <1>0, <1>1, <2>2, <4>1, <4>2
    <3> QED BY <1>10, <3>1
  <2>3. CASE k = 2 /\ n = 2
    <3>1. (k - 1) * b = b /\ b + b <= end
      BY <1>0, <1>1, <2>3
    <3> QED BY <1>10, <3>1
  <2> QED BY <2>1, <2>2, <2>3
<1>12. \A k \in 1 .. n : todo[k] \in Command /\ todo[k].do = "program" /\ todo[k].lba = lba /\ todo[k].n = 1
  <2> SUFFICES ASSUME NEW k \in 1 .. n
               PROVE  todo[k] \in Command /\ todo[k].do = "program" /\ todo[k].lba = lba /\ todo[k].n = 1
    OBVIOUS
  <2>1. PICK from \in Nat : todo[k] = Program(lba, base + from, from)
    BY <1>11
  <2>2. lba \in Nat /\ base + from \in Nat
    BY NorSizes DEF NorBlocks
  <2> QED BY <2>1, <2>2 DEF Program, Command
<1>13. todo \in Seq(Command) /\ DOMAIN todo = 1 .. n
  <2>1. todo = [k \in 1 .. n |-> todo[k]] /\ n \in Nat
    BY <1>10
  <2> QED BY <1>12, <2>1
<1>14. NTypes'
  BY <1>z, <1>6, <1>9, <1>13 DEF NTypes
<1>15. ASSUME NEW k \in 1 .. n, NEW i \in NorBytes, Reached(todo[k], i)
       PROVE  shadow[todo[k].from + i - todo[k].at] = wanted[i]
  <2>1. PICK from \in Nat : todo[k] = Program(lba, base + from, from) /\ from + b <= end
    BY <1>11
  <2>2. todo[k].at = base + from /\ todo[k].from = from
    BY <2>1 DEF Program
  <2>3. i >= base + from /\ i < base + from + b /\ i \in Nat
    BY <1>1, <1>2, <1>15, <2>2 DEF Reached
  <2>4. i >= base /\ i < base + end /\ from + i - (base + from) = i - base
    BY <2>1, <2>3
  <2>5. Overlay(old, at, data)[i - base] = Overlay(block, off, data)[i]
    BY <1>0, <1>a, <2>4
  <2> QED BY <1>5, <1>6, <2>2, <2>4, <2>5
<1>16. AllProgram(nTodo)'
  <2>1. \A k \in DOMAIN nTodo' :
          /\ nTodo'[k].do \in {"program", "skip"} /\ nTodo'[k].lba = nJob'.lba /\ nTodo'[k].n = 1
          /\ \A i \in NorBytes : Reached(nTodo'[k], i) => nShadow'[nTodo'[k].from + i - nTodo'[k].at] = Wanted'[i]
    BY <1>z, <1>6, <1>7, <1>9, <1>12, <1>13, <1>15
  <2> QED BY <2>1 DEF AllProgram, Programs, Reached
<1>17. ASSUME NEW i \in NorBytes, i >= off, i < off + len
       PROVE  Covered(todo, i)
  <2>1. PICK k \in 1 .. n : i >= base + (k - 1) * b /\ i < base + (k - 1) * b + b
    <3>1. i \in Nat /\ i >= base /\ i < base + n * b
      BY <1>0, <1>z, <1>1, <1>2, <1>17
    <3> QED BY <3>1, InOneBuffer
  <2>2. PICK from \in Nat : from = (k - 1) * b /\ todo[k] = Program(lba, base + from, from)
    BY <1>11
  <2>3. todo[k].do = "program" /\ todo[k].at = base + from
    BY <2>2 DEF Program
  <2>4. Reached(todo[k], i)
    BY <1>1, <2>1, <2>2, <2>3 DEF Reached
  <2> QED BY <1>13, <2>3, <2>4 DEF Covered
<1>18. ASSUME NEW i \in NorBytes
       PROVE  block[i] = wanted[i] \/ (block[i] = 1 /\ Covered(todo, i))
  <2>1. block[i] = Overlay(block, off, data)[i] \/ (block[i] = 1 /\ i >= off /\ i < off + len)
    <3>1. at + Len(data) <= end
      BY <1>0, <1>z
    <3>2. ClearsOnly(old, at, data)
      BY <1>z
    <3>3. block[i] = Overlay(block, base + at, data)[i]
            \/ (block[i] = 1 /\ i >= base + at /\ i < base + at + Len(data))
      BY <1>4, <1>8, <3>1, <3>2, OnlyCleared
    <3> QED BY <1>0, <3>3
  <2> QED BY <1>5, <1>17, <2>1
<1>19. Programming'
  <2>1. \A i \in NorBytes : nCells'[nJob'.lba][i] = Wanted'[i] \/ (nCells'[nJob'.lba][i] = 1 /\ Covered(nTodo', i))
    BY <1>z, <1>3, <1>7, <1>9, <1>18
  <2> QED BY <1>16, <2>1 DEF Programming, Covered, Reached
<1> QED
  BY <1>z, <1>14, <1>19 DEF WriteLeft

\* The write that NorFlashWriteSingleBlock does in place.
LEMMA InPlaceServed ==
  ASSUME NTypes, NEW lba \in Nat, NEW off \in Nat, NEW data \in Seq(Bits),
         ~BadSize(off, Len(data)), InPlace(off, Len(data)), ReadsWhatItPrograms(off, Len(data)),
         InFlash(lba, AlignDown(off), ReadLength(Len(data))),
         NEW old, old = NorFlashRead(lba, AlignDown(off), ReadLength(Len(data))),
         ClearsOnly(old, off % BufferBytes, data),
         nJob'.lba = lba, nJob'.off = off, nJob'.data = data, nCells' = nCells, nBefore' = nCells,
         nShadow' = Overlay(old, off % BufferBytes, data),
         nTodo' = [k \in 1 .. (IF Len(data) + (off % BufferBytes) > BufferBytes THEN 2 ELSE 1) |->
                     Program(lba, AlignDown(off) + (k - 1) * BufferBytes, (k - 1) * BufferBytes)]
  PROVE  NTypes' /\ WriteLeft'
<1>1. PICK b \in Nat : b = BufferBytes /\ b > 0
  BY NorSizes
<1>2. PICK len \in Nat : len = Len(data)
  OBVIOUS
<1>3. len > 0 /\ off + len <= BlockSize
  BY <1>2, NorSizes DEF BadSize
<1>4. PICK base \in Nat, at \in Nat :
        /\ AlignDown(off) = base /\ off % BufferBytes = at /\ off = base + at /\ at < b
        /\ base + b <= BlockSize
  BY <1>1, <1>3, Aligned
<1>5. len + at <= 2 * b
  BY <1>1, <1>2, <1>4 DEF InPlace
<1>6. PICK rl \in Nat : rl = ReadLength(len) /\ rl >= b /\ (rl > b => rl >= 2 * b)
  BY <1>1, ReadLengths
<1>7. at + len <= rl
  BY <1>2, <1>4, <1>6 DEF ReadsWhatItPrograms
<1>8. PICK n \in 1 .. 2 : n = IF len + at > b THEN 2 ELSE 1
  OBVIOUS
<1>9. PICK end \in Nat : end = n * b /\ len + at <= end /\ end <= rl
  <2>1. CASE len + at > b
    <3>1. n = 2 /\ n * b = 2 * b
      BY <1>8, <2>1
    <3> QED BY <1>5, <1>6, <1>7, <2>1, <3>1
  <2>2. CASE ~(len + at > b)
    <3>1. n = 1 /\ n * b = b
      BY <1>8, <2>2
    <3> QED BY <1>6, <2>2, <3>1
  <2> QED BY <2>1, <2>2
<1>10. old = NorFlashRead(lba, base, rl) /\ InFlash(lba, base, rl) /\ rl > 0 /\ base < BlockSize
  BY <1>1, <1>2, <1>4, <1>6, NorSizes
<1>11. /\ old \in Contents /\ lba \in NorBlocks
       /\ \A i \in NorBytes : i < rl /\ base + i < BlockSize => old[i] = nCells[lba][base + i]
  BY <1>10, ReadIsRight
<1>12. Mirrors(old, nCells[lba], base, end)
  <2>1. \A i \in NorBytes : i < end => i < rl
    BY <1>9, NorSizes DEF NorBytes
  <2> QED BY <1>11, <2>1 DEF Mirrors
<1>13. nTodo' = [k \in 1 .. n |-> Program(lba, base + (k - 1) * BufferBytes, (k - 1) * BufferBytes)]
  BY <1>1, <1>2, <1>4, <1>8
<1>14. nShadow' = Overlay(old, at, data) /\ ClearsOnly(old, at, data)
  BY <1>4
<1>15. end = n * BufferBytes /\ Len(data) + at <= end /\ off = base + at
  BY <1>1, <1>2, <1>4, <1>9
<1>16. BeginsInPlace(lba, data, base, at, n, old)
  BY <1>11, <1>12, <1>13, <1>14, <1>15 DEF BeginsInPlace
<1> QED
  BY <1>11, <1>16, InPlaceWrite

\* NorFlashWriteSingleBlock refuses or begins a write.
LEMMA WriteServed ==
  ASSUME NTypes, NEW job, job.lba \in Nat, job.off \in Nat, job.data \in Seq(Bits),
         ReadsWhatItPrograms(job.off, Len(job.data)), NorFlashWriteSingleBlock(job), nCells' = nCells
  PROVE  /\ nJob' = job /\ nBefore' = nCells /\ NTypes'
         /\ \/ nTodo' = << >> /\ nRet' \in {"BAD_BUFFER_SIZE", "DEVICE_ERROR"}
            \/ nRet' = "" /\ WriteLeft'
<1>1. PICK lba \in Nat, off \in Nat, data \in Seq(Bits) : lba = job.lba /\ off = job.off /\ data = job.data
  OBVIOUS
<1>2. PICK len \in Nat : len = Len(data)
  OBVIOUS
<1>3. PICK at : at = off % BufferBytes
  OBVIOUS
<1>4. PICK old : old = NorFlashRead(lba, AlignDown(off), ReadLength(len))
  OBVIOUS
<1>5. PICK full : full = Overlay(nCells[lba], off, data)
  OBVIOUS
<1>6. PICK sets \in BOOLEAN : sets = \E i \in 1 .. len : old[at + i - 1] = 0 /\ data[i] = 1
  OBVIOUS
<1>8. \/ BadSize(off, len) /\ Refuses(job, "BAD_BUFFER_SIZE")
      \/ Refuses(job, "DEVICE_ERROR")
      \/ /\ ~BadSize(off, len) /\ InPlace(off, len) /\ InFlash(lba, AlignDown(off), ReadLength(len)) /\ ~sets
         /\ Serves(job, [k \in 1 .. (IF len + at > BufferBytes THEN 2 ELSE 1) |->
                           Program(lba, AlignDown(off) + (k - 1) * BufferBytes, (k - 1) * BufferBytes)],
                   Overlay(old, at, data))
      \/ /\ ~BadSize(off, len)
         /\ IF InPlace(off, len) THEN InFlash(lba, AlignDown(off), ReadLength(len)) /\ sets ELSE lba <= LastBlock
         /\ Serves(job, NorFlashWriteFullBlock(lba, full), full)
  BY <1>1, <1>2, <1>3, <1>4, <1>5, <1>6 DEF NorFlashWriteSingleBlock
<1>9. CASE Refuses(job, "BAD_BUFFER_SIZE") \/ Refuses(job, "DEVICE_ERROR")
  <2>1. nJob' = job /\ nTodo' = << >> /\ nRet' \in {"BAD_BUFFER_SIZE", "DEVICE_ERROR"} /\ nBefore' = nCells
        /\ nShadow' = nShadow
    BY <1>9 DEF Refuses
  <2>2. NTypes'
    BY <2>1 DEF NTypes
  <2> QED BY <2>1, <2>2
<1>10. CASE /\ ~BadSize(off, len) /\ InPlace(off, len) /\ InFlash(lba, AlignDown(off), ReadLength(len)) /\ ~sets
            /\ Serves(job, [k \in 1 .. (IF len + at > BufferBytes THEN 2 ELSE 1) |->
                              Program(lba, AlignDown(off) + (k - 1) * BufferBytes, (k - 1) * BufferBytes)],
                      Overlay(old, at, data))
  <2>1. /\ nJob' = job /\ nBefore' = nCells /\ nRet' = "" /\ nShadow' = Overlay(old, at, data)
        /\ nTodo' = [k \in 1 .. (IF len + at > BufferBytes THEN 2 ELSE 1) |->
                       Program(lba, AlignDown(off) + (k - 1) * BufferBytes, (k - 1) * BufferBytes)]
    BY <1>10 DEF Serves
  <2>2. ClearsOnly(old, at, data)
    BY <1>2, <1>6, <1>10 DEF ClearsOnly
  <2>3. InFlash(lba, AlignDown(off), ReadLength(Len(data)))
    BY <1>2, <1>10
  <2>4. NTypes' /\ WriteLeft'
    BY <1>1, <1>2, <1>3, <1>4, <1>10, <2>1, <2>2, <2>3, InPlaceServed
  <2> QED BY <2>1, <2>4
<1>11. CASE /\ ~BadSize(off, len)
            /\ IF InPlace(off, len) THEN InFlash(lba, AlignDown(off), ReadLength(len)) /\ sets ELSE lba <= LastBlock
            /\ Serves(job, NorFlashWriteFullBlock(lba, full), full)
  <2>1. /\ nJob' = job /\ nBefore' = nCells /\ nRet' = "" /\ nShadow' = full
        /\ nTodo' = NorFlashWriteFullBlock(lba, full)
    BY <1>11 DEF Serves
  <2>2. lba \in NorBlocks
    <3>1. CASE ~InPlace(off, len)
      BY <1>11, <3>1, NorSizes DEF NorBlocks
    <3>2. CASE InPlace(off, len)
      <4>1. len > 0 /\ off + len <= BlockSize
        BY <1>2, <1>11, NorSizes DEF BadSize
      <4>2. PICK base \in Nat, b \in Nat : AlignDown(off) = base /\ base + b <= BlockSize /\ b = BufferBytes /\ b > 0
        BY <4>1, Aligned, NorSizes
      <4>3. PICK rl \in Nat : rl = ReadLength(len) /\ rl >= b
        BY <4>2, ReadLengths
      <4>4. InFlash(lba, base, rl) /\ rl > 0 /\ base < BlockSize
        BY <1>11, <3>2, <4>2, <4>3, NorSizes
      <4> QED BY <4>4, ReadIsRight
    <3> QED BY <3>1, <3>2
  <2>3. nTodo' = NorFlashWriteFullBlock(lba, nShadow')
    BY <2>1
  <2>4. NTypes' /\ WriteLeft'
    BY <1>1, <1>5, <2>1, <2>2, <2>3, FullServed
  <2> QED BY <2>1, <2>4
<1> QED
  BY <1>8, <1>9, <1>10, <1>11

-----------------------------------------------------------------------------
\* What the hypothesis of the theorem says, for the writes asked for and for the headers.
LEMMA HeadersAreRead ==
  ReadsWhatItPrograms(0, Len(NorHeaders))
<1>1. PICK b \in Nat, len \in Nat : b = BufferBytes /\ b > 0 /\ len = Len(NorHeaders)
  BY NorSizes, NorArguments
<1>2. \A x, y \in Nat : y > 0 => (0 % y) = 0 /\ x <= ((x \div y) + 1) * y
  OBVIOUS
<1>3. 0 % b = 0 /\ len <= ((len \div b) + 1) * b
  BY <1>1, <1>2
<1> QED
  BY <1>1, <1>3 DEF ReadsWhatItPrograms, ReadLength

\* A write that was asked for is refused or begins.
LEMMA NorWriteKeeps ==
  ASSUME NInv, NEW job, job.lba \in Nat, job.off \in Nat, job.data \in Seq(Bits),
         ReadsWhatItPrograms(job.off, Len(job.data)), NorFlashWriteSingleBlock(job), nCells' = nCells,
         job.call \in {"write", "headers"}, nMode' = "array",
         job.call = "headers" => job.lba = 0 /\ job.off = 0 /\ job.data = NorHeaders
  PROVE  NInv'
<1>1. /\ nJob' = job /\ nBefore' = nCells /\ NTypes'
      /\ \/ nTodo' = << >> /\ nRet' \in {"BAD_BUFFER_SIZE", "DEVICE_ERROR"}
         \/ nRet' = "" /\ WriteLeft'
  BY WriteServed DEF NInv
<1>2. UnderWay'
  BY <1>1 DEF UnderWay
<1>3. NothingLeft' /\ ReadsContents' /\ RefusedUnchanged'
  BY <1>1 DEF NothingLeft, ReadsContents, RefusedUnchanged
<1>4. DoneRight'
  BY <1>1 DEF DoneRight
<1> QED
  BY <1>1, <1>2, <1>3, <1>4 DEF NInv

\* FvbWrite keeps the invariant.
LEMMA NorWriteStep ==
  ASSUME NInv, NEW w \in NorWrites, ReadsWhatItPrograms(w.off, Len(w.data)), FvbWrite(w)
  PROVE  NInv'
<1>1. PICK job : job = [call |-> "write", lba |-> w.lba, off |-> w.off, data |-> w.data]
  OBVIOUS
<1>2. job.call = "write" /\ job.lba = w.lba /\ job.off = w.off /\ job.data = w.data
  BY <1>1
<1>3. job.lba \in Nat /\ job.off \in Nat /\ job.data \in Seq(Bits)
  BY <1>2, NorArguments
<1>4. NorFlashWriteSingleBlock(job) /\ nCells' = nCells /\ nMode' = "array"
  BY <1>1 DEF FvbWrite
<1>5. ReadsWhatItPrograms(job.off, Len(job.data))
  BY <1>2
<1> QED
  BY <1>2, <1>3, <1>4, <1>5, NorWriteKeeps

\* InitializeFvAndVariableStoreHeaders keeps the invariant.
LEMMA NorHeadersStep ==
  ASSUME NInv, InitializeFvAndVariableStoreHeaders
  PROVE  NInv'
<1>1. PICK job : job = [call |-> "headers", lba |-> 0, off |-> 0, data |-> NorHeaders]
  OBVIOUS
<1>2. job.call = "headers" /\ job.lba = 0 /\ job.off = 0 /\ job.data = NorHeaders
  BY <1>1
<1>3. job.lba \in Nat /\ job.off \in Nat /\ job.data \in Seq(Bits)
  BY <1>2, NorArguments
<1>4. NorFlashWriteSingleBlock(job) /\ nCells' = nCells /\ nMode' = "array"
  BY <1>1 DEF InitializeFvAndVariableStoreHeaders, NInv, UnderWay
<1>5. ReadsWhatItPrograms(job.off, Len(job.data))
  BY <1>2, HeadersAreRead
<1> QED
  BY <1>2, <1>3, <1>4, <1>5, NorWriteKeeps

\* No command is a list of commands.
LEMMA NoCommands ==
  << >> \in Seq(Command)
  OBVIOUS

\* A call that returns at once and has done nothing.
LEMMA RefusesKeeps ==
  ASSUME NInv, NEW job, NEW ret, Refuses(job, ret), ret # "", nCells' = nCells, nMode' = "array",
         ret = "SUCCESS" => job.call \in {"read", "init"},
         ret = "SUCCESS" /\ job.call = "init" => NorFlashValidateFvHeader
  PROVE  NInv'
<1>1. nJob' = job /\ nTodo' = << >> /\ nRet' = ret /\ nBefore' = nCells /\ nShadow' = nShadow
  BY DEF Refuses
<1>2. NTypes'
  BY <1>1, NoCommands DEF NInv, NTypes
<1>3. UnderWay' /\ NothingLeft' /\ ReadsContents' /\ RefusedUnchanged'
  BY <1>1 DEF UnderWay, NothingLeft, ReadsContents, RefusedUnchanged
<1>4. DoneRight'
  BY <1>1 DEF DoneRight, NorFlashValidateFvHeader
<1> QED
  BY <1>2, <1>3, <1>4 DEF NInv

\* An erase that was asked for, whatever its list.
LEMMA NorEraseKeeps ==
  ASSUME NInv, NEW job, NEW todo \in Seq(Command), Serves(job, todo, nShadow), nCells' = nCells, nMode' = "array",
         \/ job.call = "erase" /\ EraseLeft(ListedBlocks)'
         \/ job.call = "init" /\ EraseLeft(NorBlocks)'
  PROVE  NInv'
<1>1. nJob' = job /\ nTodo' = todo /\ nRet' = "" /\ nBefore' = nCells /\ nShadow' = nShadow
  BY DEF Serves
<1>2. NTypes'
  BY <1>1 DEF NInv, NTypes
<1>3. UnderWay' /\ NothingLeft' /\ ReadsContents' /\ RefusedUnchanged' /\ DoneRight'
  BY <1>1 DEF UnderWay, NothingLeft, ReadsContents, RefusedUnchanged, DoneRight
<1> QED
  BY <1>2, <1>3 DEF NInv

\* FvbEraseBlocks keeps the invariant.
LEMMA NorEraseStep ==
  ASSUME NInv, NEW pairs \in NorErases, FvbEraseBlocks(pairs)
  PROVE  NInv'
<1>1. PICK job : job = [NoJob EXCEPT !.call = "erase", !.data = pairs]
  OBVIOUS
<1>2. job.call = "erase" /\ job.data = pairs
  BY <1>1 DEF NoJob
<1>3. nCells' = nCells /\ nMode' = "array"
  BY DEF FvbEraseBlocks, NInv, ReadsContents, Idle
<1>4. CASE \E k \in DOMAIN pairs : BadPair(pairs[k])
  <2>1. Refuses(job, "INVALID_PARAMETER")
    BY <1>1, <1>4 DEF FvbEraseBlocks
  <2> QED BY <1>3, <2>1, RefusesKeeps
<1>5. CASE ~\E k \in DOMAIN pairs : BadPair(pairs[k])
  <2>1. PICK todo : todo = EraseList(pairs)
    OBVIOUS
  <2>2. Serves(job, todo, nShadow)
    BY <1>1, <1>5, <2>1 DEF FvbEraseBlocks
  <2>3. nJob' = job /\ nTodo' = todo /\ nBefore' = nCells
    BY <2>2 DEF Serves
  <2>4. pairs \in Seq(Nat \X Nat)
    BY NorArguments
  <2>5. \A k \in DOMAIN pairs : pairs[k][1] \in Nat /\ pairs[k][2] \in Nat
    BY <2>4
  <2>6. todo = [k \in DOMAIN pairs |-> Erase(pairs[k][1], pairs[k][2])]
    BY <2>1 DEF EraseList
  <2>7. DOMAIN todo = DOMAIN pairs /\ \A k \in DOMAIN pairs :
          todo[k].do = "erase" /\ todo[k].lba = pairs[k][1] /\ todo[k].n = pairs[k][2] /\ todo[k] \in Command
    <3>1. \A p, q \in Nat : Erase(p, q) \in Command /\ Erase(p, q).do = "erase" /\ Erase(p, q).lba = p /\ Erase(p, q).n = q
      BY DEF Erase, Command
    <3> QED BY <2>5, <2>6, <3>1
  <2>8. todo \in Seq(Command)
    <3>1. PICK m \in Nat : DOMAIN pairs = 1 .. m
      BY <2>4
    <3>2. todo = [k \in 1 .. m |-> todo[k]]
      BY <2>6, <3>1
    <3> QED BY <2>7, <3>1, <3>2
  <2>9. ListedBlocks' = {b \in NorBlocks : \E k \in DOMAIN pairs : InRange(b, pairs[k][1], pairs[k][2])}
    BY <1>2, <2>3 DEF ListedBlocks, InRange
  <2>10. PICK asked : asked = ListedBlocks'
    OBVIOUS
  <2>11. ASSUME NEW k \in DOMAIN pairs
         PROVE  pairs[k][2] > 0 /\ \A b \in Nat : InRange(b, pairs[k][1], pairs[k][2]) => b \in asked
    <3>1. PICK p \in Nat, q \in Nat : p = pairs[k][1] /\ q = pairs[k][2]
      BY <2>5
    <3>2. q > 0 /\ p + q - 1 <= LastBlock
      BY <1>5, <3>1, NorSizes DEF BadPair
    <3>3. \A b \in Nat : InRange(b, p, q) => b \in NorBlocks
      BY <3>2, NorSizes DEF InRange, NorBlocks
    <3> QED BY <2>9, <2>10, <3>1, <3>2, <3>3
  <2>12. \A k \in DOMAIN nTodo' :
           nTodo'[k].do = "erase" /\ nTodo'[k].n > 0 /\ \A b \in Nat : InRange(b, nTodo'[k].lba, nTodo'[k].n) => b \in asked
    BY <2>3, <2>7, <2>11
  <2>13. \A b \in NorBlocks :
           IF b \in asked THEN nCells'[b] = Erased \/ \E k \in DOMAIN nTodo' : InRange(b, nTodo'[k].lba, nTodo'[k].n)
           ELSE nCells'[b] = nBefore'[b]
    BY <1>3, <2>3, <2>7, <2>9, <2>10
  <2>14. EraseLeft(ListedBlocks)'
    BY <2>10, <2>12, <2>13 DEF EraseLeft, InRange
  <2> QED BY <1>2, <1>3, <2>2, <2>8, <2>14, NorEraseKeeps
<1> QED
  BY <1>4, <1>5

\* FvbRead keeps the invariant.
LEMMA NorReadStep ==
  ASSUME NInv, NEW lba, NEW off, NEW len, FvbRead(lba, off, len)
  PROVE  NInv'
<1>1. PICK job : job = [NoJob EXCEPT !.call = "read", !.lba = lba]
  OBVIOUS
<1>2. job.call = "read"
  BY <1>1 DEF NoJob
<1>3. PICK ret : ret = IF BadSize(off, len) THEN "BAD_BUFFER_SIZE"
                       ELSE IF ~InFlash(lba, off, len) THEN "DEVICE_ERROR" ELSE "SUCCESS"
  OBVIOUS
<1>4. Refuses(job, ret) /\ ret # ""
  BY <1>1, <1>3 DEF FvbRead
<1>5. nCells' = nCells /\ nMode' = "array"
  BY DEF FvbRead, NInv, ReadsContents, Idle
<1> QED
  BY <1>2, <1>4, <1>5, RefusesKeeps

\* NorFlashFvbInitialize keeps the invariant.
LEMMA NorInitializeStep ==
  ASSUME NInv, NorFlashFvbInitialize
  PROVE  NInv'
<1>1. PICK job : job = [NoJob EXCEPT !.call = "init"]
  OBVIOUS
<1>2. job.call = "init"
  BY <1>1 DEF NoJob
<1>3. nCells' = nCells /\ nMode' = "array"
  BY DEF NorFlashFvbInitialize, NInv, ReadsContents
<1>4. CASE NorFlashValidateFvHeader
  <2>1. Refuses(job, "SUCCESS")
    BY <1>1, <1>4 DEF NorFlashFvbInitialize
  <2> QED BY <1>2, <1>3, <1>4, <2>1, RefusesKeeps
<1>5. CASE ~NorFlashValidateFvHeader
  <2>1. PICK e : e = Erase(0, LastBlock + 1)
    OBVIOUS
  <2>2. PICK todo : todo = <<e>>
    OBVIOUS
  <2>3. Serves(job, todo, nShadow)
    BY <1>1, <1>5, <2>1, <2>2 DEF NorFlashFvbInitialize
  <2>4. nJob' = job /\ nTodo' = todo /\ nBefore' = nCells
    BY <2>3 DEF Serves
  <2>5. e \in Command /\ e.do = "erase" /\ e.lba = 0 /\ e.n = LastBlock + 1
    BY <2>1, NorSizes DEF Erase, Command
  <2>6. todo \in Seq(Command) /\ DOMAIN todo = {1} /\ todo[1] = e
    BY <2>2, <2>5
  <2>7. \A b \in Nat : InRange(b, 0, LastBlock + 1) <=> b \in NorBlocks
    BY NorSizes DEF InRange, NorBlocks
  <2>8. \A k \in DOMAIN nTodo' :
          nTodo'[k].do = "erase" /\ nTodo'[k].n > 0 /\ \A b \in Nat : InRange(b, nTodo'[k].lba, nTodo'[k].n) => b \in NorBlocks
    <3>1. LastBlock + 1 > 0
      BY NorSizes
    <3> QED BY <2>4, <2>5, <2>6, <2>7, <3>1
  <2>9. \A b \in NorBlocks : \E k \in DOMAIN nTodo' : InRange(b, nTodo'[k].lba, nTodo'[k].n)
    <3>1. \A b \in NorBlocks : b \in Nat
      BY NorSizes DEF NorBlocks
    <3> QED BY <2>4, <2>5, <2>6, <2>7, <3>1
  <2>10. EraseLeft(NorBlocks)'
    BY <2>8, <2>9 DEF EraseLeft, InRange, NorBlocks
  <2> QED BY <1>2, <1>3, <2>3, <2>6, <2>10, NorEraseKeeps
<1> QED
  BY <1>4, <1>5

-----------------------------------------------------------------------------
\* A command that fails ends its call.
LEMMA EndsKeeps ==
  ASSUME NInv, Ends("DEVICE_ERROR"), nCells' \in [NorBlocks -> Contents],
         nShadow' = nShadow, nBefore' = nBefore
  PROVE  NInv'
<1>1. nRet' = "DEVICE_ERROR" /\ nTodo' = << >> /\ nMode' = "array" /\ << >> \in Seq(Command)
  BY DEF Ends
<1>2. NTypes'
  BY <1>1 DEF NInv, NTypes
<1>3. UnderWay' /\ NothingLeft' /\ ReadsContents' /\ RefusedUnchanged' /\ DoneRight'
  BY <1>1 DEF UnderWay, NothingLeft, ReadsContents, RefusedUnchanged, DoneRight
<1> QED
  BY <1>2, <1>3 DEF NInv

\* A command that leaves its call under way.
LEMMA OnwardKeeps ==
  ASSUME NInv, nRet = "", nRet' = "", nJob' = nJob, nShadow' = nShadow, nBefore' = nBefore,
         nCells' \in [NorBlocks -> Contents], nTodo' \in Seq(Command), nJob.call = "init" => nMode' = "array",
         nJob.call \in {"write", "headers"} => WriteLeft',
         nJob.call = "erase" => EraseLeft(ListedBlocks)', nJob.call = "init" => EraseLeft(NorBlocks)'
  PROVE  NInv'
<1>1. NTypes'
  BY DEF NInv, NTypes
<1>2. /\ nJob.call \in {"write", "headers", "erase", "init"}
      /\ nJob.call = "headers" => nJob.lba = 0 /\ nJob.off = 0 /\ nJob.data = NorHeaders
  BY DEF NInv, UnderWay
<1>3. UnderWay'
  BY <1>2 DEF UnderWay
<1>4. NothingLeft' /\ ReadsContents' /\ RefusedUnchanged' /\ DoneRight'
  BY DEF NothingLeft, ReadsContents, RefusedUnchanged, DoneRight
<1> QED
  BY <1>1, <1>3, <1>4 DEF NInv

\* The job decides which blocks are to be erased.
LEMMA ListedBlocksKept ==
  ASSUME nJob' = nJob
  PROVE  ListedBlocks' = ListedBlocks
  BY DEF ListedBlocks, InRange

\* A write that is about to erase is not programming yet.
LEMMA ErasesFirst ==
  ASSUME NTypes, WriteLeft, nTodo # << >>, Head(nTodo).do = "erase"
  PROVE  ErasePending
<1>1. Head(nTodo) = nTodo[1] /\ 1 \in DOMAIN nTodo
  BY TailFacts DEF NTypes
<1> QED
  BY <1>1 DEF WriteLeft, Programming, AllProgram, Programs

\* An erase command keeps the invariant.
LEMMA NorEraseCommandStep ==
  ASSUME NInv, NorFlashUnlockAndEraseSingleBlock
  PROVE  NInv'
<1>1. /\ nTodo # << >> /\ Head(nTodo).do = "erase" /\ nShadow' = nShadow /\ nJob' = nJob /\ nBefore' = nBefore
  BY DEF NorFlashUnlockAndEraseSingleBlock
<1>2. NTypes /\ nRet = "" /\ nTodo \in Seq(Command)
  BY <1>1 DEF NInv, NothingLeft, NTypes
<1>3. PICK bits \in {{}, {"ERASE"}, {"LOCKED"}, {"VPP"}} :
        LET sr == nSr \cup bits
            failed == sr \cap {"ERASE", "LOCKED", "VPP"} # {}
        IN  /\ nCells' = IF bits = {} THEN [nCells EXCEPT ![Head(nTodo).lba] = Erased] ELSE nCells
            /\ \/ ~failed /\ Goes("array")
               \/ nMode' = "array" /\ nTodo' = nTodo /\ nRet' = nRet
               \/ Ends("DEVICE_ERROR")
  BY DEF NorFlashUnlockAndEraseSingleBlock
<1>4. \/ /\ nCells' = [nCells EXCEPT ![Head(nTodo).lba] = Erased] /\ Goes("array")
      \/ nMode' = "array" /\ nTodo' = nTodo /\ nRet' = nRet
      \/ Ends("DEVICE_ERROR")
  BY <1>3
<1>5. nCells' \in {nCells, [nCells EXCEPT ![Head(nTodo).lba] = Erased]}
  BY <1>3
<1>6. nCells' \in [NorBlocks -> Contents]
  <2>1. Erased \in Contents
    BY DEF Erased, Contents, Bits
  <2> QED BY <1>2, <1>5, <2>1 DEF NTypes
<1>7. CASE Ends("DEVICE_ERROR")
  BY <1>1, <1>6, <1>7, EndsKeeps
<1>8. /\ nJob.call \in {"write", "headers"} => WriteLeft /\ ErasePending
      /\ nJob.call = "erase" => EraseLeft(ListedBlocks)
      /\ nJob.call = "init" => EraseLeft(NorBlocks)
  BY <1>1, <1>2, ErasesFirst DEF NInv, UnderWay
<1>9. PICK listed : listed = ListedBlocks /\ listed = ListedBlocks' /\ listed \subseteq NorBlocks
  BY <1>1, ListedBlocksKept DEF ListedBlocks
<1>10. NorBlocks \subseteq NorBlocks
  OBVIOUS
<1>11. CASE nMode' = "array" /\ nTodo' = nTodo /\ nRet' = nRet
  <2>1. nJob.call \in {"write", "headers"} => WriteLeft'
    BY <1>1, <1>2, <1>5, <1>8, <1>11, BlockAgain
  <2>2. nJob.call = "erase" => EraseLeft(listed)'
    BY <1>1, <1>2, <1>5, <1>8, <1>9, <1>11, EraseAgain
  <2>3. nJob.call = "init" => EraseLeft(NorBlocks)'
    BY <1>1, <1>2, <1>5, <1>8, <1>10, <1>11, EraseAgain
  <2>4. nJob.call = "erase" => EraseLeft(ListedBlocks)'
    BY <1>9, <2>2 DEF EraseLeft
  <2>5. nRet' = "" /\ nTodo' \in Seq(Command)
    BY <1>2, <1>11
  <2> QED BY <1>1, <1>2, <1>6, <1>11, <2>1, <2>3, <2>4, <2>5, OnwardKeeps
<1>12. CASE nCells' = [nCells EXCEPT ![Head(nTodo).lba] = Erased] /\ Goes("array")
  <2>1. nJob.call \in {"write", "headers"} => WriteLeft'
    BY <1>1, <1>2, <1>8, <1>12, BlockGoes
  <2>2. nJob.call = "erase" => EraseLeft(listed)'
    BY <1>1, <1>2, <1>8, <1>9, <1>12, EraseGoes
  <2>3. nJob.call = "init" => EraseLeft(NorBlocks)'
    BY <1>1, <1>2, <1>8, <1>10, <1>12, EraseGoes
  <2>4. nJob.call = "erase" => EraseLeft(ListedBlocks)'
    BY <1>9, <2>2 DEF EraseLeft
  <2>5. nTodo' \in Seq(Command)
    BY <1>1, <1>2, <1>12, Advanced
  <2>6. nRet' = "" /\ nMode' = "array"
    BY <1>2, <1>12 DEF Goes
  <2> QED BY <1>1, <1>2, <1>6, <2>1, <2>3, <2>4, <2>5, <2>6, OnwardKeeps
<1> QED
  BY <1>4, <1>7, <1>11, <1>12

\* A program command and a passed over buffer belong to a write that has nothing left to erase.
LEMMA ProgramsThen ==
  ASSUME NInv, nTodo # << >>, Head(nTodo).do \in {"program", "skip"}
  PROVE  nRet = "" /\ nJob.call \in {"write", "headers"} /\ WriteLeft /\ Programming
<1>1. Head(nTodo) = nTodo[1] /\ 1 \in DOMAIN nTodo
  BY TailFacts DEF NInv, NTypes
<1>2. nRet = ""
  BY DEF NInv, NothingLeft
<1>3. ~EraseLeft(ListedBlocks) /\ ~EraseLeft(NorBlocks)
  BY <1>1 DEF EraseLeft
<1>4. nJob.call \in {"write", "headers"} /\ WriteLeft
  BY <1>2, <1>3 DEF NInv, UnderWay
<1>5. ~ErasePending
  BY DEF ErasePending, Erase
<1> QED
  BY <1>2, <1>4, <1>5 DEF WriteLeft

\* A buffer that is programmed keeps the invariant.
LEMMA NorProgramCommandStep ==
  ASSUME NInv, NorFlashWriteBuffer
  PROVE  NInv'
<1>1. /\ nTodo # << >> /\ Head(nTodo).do = "program" /\ nShadow' = nShadow /\ nJob' = nJob /\ nBefore' = nBefore
  BY DEF NorFlashWriteBuffer
<1>2. /\ nRet = "" /\ nJob.call \in {"write", "headers"} /\ WriteLeft /\ Programming
      /\ NTypes /\ nTodo \in Seq(Command)
  BY <1>1, ProgramsThen DEF NInv, NTypes
<1>3. PICK c : c = Head(nTodo)
  OBVIOUS
<1>4. PICK burnt : burnt = Burnt(nCells[c.lba], c)
  OBVIOUS
<1>5. PICK bits \in {{}, {"PROGRAM"}, {"LOCKED"}, {"VPP"}, {"BUSY"}} :
        LET sr == nSr \cup (bits \ {"BUSY"})
            failed == "BUSY" \in bits \/ sr \cap {"PROGRAM", "LOCKED", "VPP"} # {}
        IN  /\ nCells' = IF bits # {} THEN nCells
                         ELSE [nCells EXCEPT ![c.lba] = [i \in NorBytes |->
                                 IF i >= c.at /\ i < c.at + BufferBytes
                                 THEN IF nShadow[c.from + i - c.at] = 0 THEN 0 ELSE @[i] ELSE @[i]]]
            /\ IF failed THEN Ends("DEVICE_ERROR") ELSE Goes("status")
  BY <1>3 DEF NorFlashWriteBuffer
<1>6. nCells' = nCells \/ nCells' = [nCells EXCEPT ![c.lba] = burnt]
  BY <1>4, <1>5 DEF Burnt
<1>7. Ends("DEVICE_ERROR") \/ (Goes("status") /\ bits = {})
  BY <1>5
<1>8. nCells' \in [NorBlocks -> Contents]
  <2>1. c.lba \in NorBlocks
    <3>1. Head(nTodo) = nTodo[1] /\ 1 \in DOMAIN nTodo
      BY <1>1, <1>2, TailFacts
    <3> QED BY <1>2, <1>3, <3>1 DEF Programming, AllProgram, Programs, WriteLeft
  <2>2. nCells[c.lba] \in Contents
    BY <1>2, <2>1 DEF NTypes
  <2>3. burnt \in Contents
    BY <1>4, <2>2 DEF Burnt, Contents, Bits
  <2> QED BY <1>2, <1>6, <2>3 DEF NTypes
<1>9. CASE Ends("DEVICE_ERROR")
  BY <1>1, <1>8, <1>9, EndsKeeps
<1>10. CASE Goes("status") /\ bits = {}
  <2>1. nCells' = [nCells EXCEPT ![Head(nTodo).lba] = Burnt(nCells[Head(nTodo).lba], Head(nTodo))]
    BY <1>3, <1>4, <1>5, <1>10 DEF Burnt
  <2>2. WriteLeft'
    BY <1>1, <1>2, <1>10, <2>1, BufferGoes
  <2>3. nTodo' \in Seq(Command)
    BY <1>1, <1>2, <1>10, Advanced
  <2>4. nRet' = ""
    BY <1>2, <1>10 DEF Goes
  <2> QED BY <1>1, <1>2, <1>8, <2>2, <2>3, <2>4, OnwardKeeps
<1> QED
  BY <1>7, <1>9, <1>10

\* A buffer that is passed over keeps the invariant.
LEMMA NorSkipStep ==
  ASSUME NInv, NorSkipBuffer
  PROVE  NInv'
<1>1. /\ nTodo # << >> /\ Head(nTodo).do = "skip" /\ nShadow' = nShadow /\ nJob' = nJob /\ nBefore' = nBefore
      /\ nCells' = nCells /\ Goes(nMode)
  BY DEF NorSkipBuffer
<1>2. /\ nRet = "" /\ nJob.call \in {"write", "headers"} /\ WriteLeft /\ Programming
      /\ NTypes /\ nTodo \in Seq(Command)
  BY <1>1, ProgramsThen DEF NInv, NTypes
<1>3. WriteLeft'
  BY <1>1, <1>2, BufferGoes
<1>4. nTodo' \in Seq(Command) /\ nRet' = ""
  BY <1>1, <1>2, Advanced DEF Goes
<1>5. nCells' \in [NorBlocks -> Contents]
  BY <1>1, <1>2 DEF NTypes
<1> QED
  BY <1>1, <1>2, <1>3, <1>4, <1>5, OnwardKeeps

-----------------------------------------------------------------------------
\* A write with no command left has written its block, and no other.
LEMMA WriteIsDone ==
  ASSUME NTypes, WriteLeft, nTodo = << >>
  PROVE  nCells = [nBefore EXCEPT ![nJob.lba] = Overlay(@, nJob.off, nJob.data)]
<1>1. PICK lba \in NorBlocks : lba = nJob.lba
  BY DEF WriteLeft
<1>2. PICK wanted \in Contents : wanted = Wanted
  BY WantedBits
<1>3. nCells[lba] \in Contents
  BY <1>1, WantedBits
<1>4. \A i \in NorBytes : nCells[lba][i] = wanted[i]
  BY <1>1, <1>2 DEF WriteLeft, ErasePending, Programming, Covered
<1>5. nCells[lba] = wanted
  BY <1>2, <1>3, <1>4 DEF Contents
<1>6. nCells \in [NorBlocks -> Contents] /\ nBefore \in [NorBlocks -> Contents]
      /\ \A b \in NorBlocks : b # lba => nCells[b] = nBefore[b]
  BY <1>1 DEF NTypes, WriteLeft
<1>7. nCells = [nBefore EXCEPT ![lba] = wanted]
  BY <1>5, <1>6
<1> QED
  BY <1>1, <1>2, <1>7 DEF Wanted

\* The headers are in place then.
LEMMA HeadersAreDone ==
  ASSUME NTypes, NEW block \in Contents, nCells = [nBefore EXCEPT ![0] = Overlay(block, 0, NorHeaders)]
  PROVE  NorFlashValidateFvHeader
<1>1. PICK len \in Nat, size \in Nat :
        len = Len(NorHeaders) /\ size = BlockSize /\ len <= size /\ NorBytes = 0 .. size - 1
  BY NorAssumption, NorSizes DEF NorBytes
<1>2. 0 \in NorBlocks
  BY NorSizes DEF NorBlocks
<1>3. nCells[0] = Overlay(block, 0, NorHeaders)
  BY <1>2 DEF NTypes
<1>4. ASSUME NEW i \in 1 .. len
      PROVE  Overlay(block, 0, NorHeaders)[i - 1] = NorHeaders[i]
  <2>1. PICK j \in NorBytes : j = i - 1 /\ j >= 0 /\ j < 0 + len /\ j - 0 + 1 = i
    BY <1>1
  <2> QED BY <1>1, <2>1 DEF Overlay
<1> QED
  BY <1>1, <1>3, <1>4 DEF NorFlashValidateFvHeader

\* An erase with no command left has erased its blocks, and no other.
LEMMA EraseIsDone ==
  ASSUME NTypes, NEW asked, EraseLeft(asked), nTodo = << >>
  PROVE  nCells = [b \in NorBlocks |-> IF b \in asked THEN Erased ELSE nBefore[b]]
<1>1. \A b \in NorBlocks : nCells[b] = IF b \in asked THEN Erased ELSE nBefore[b]
  BY DEF EraseLeft
<1>2. nCells = [b \in NorBlocks |-> nCells[b]]
  BY DEF NTypes
<1> QED
  BY <1>1, <1>2

\* The end of a call keeps the invariant.
LEMMA NorDoneStep ==
  ASSUME NInv, NorDone
  PROVE  NInv'
<1>1. /\ nRet = "" /\ nTodo = << >> /\ nJob.call # "init" /\ nRet' = "SUCCESS" /\ nTodo' = << >> /\ nMode' = "array"
      /\ nCells' = nCells /\ nShadow' = nShadow /\ nJob' = nJob /\ nBefore' = nBefore
  BY DEF NorDone, Ends
<1>2. NTypes /\ NTypes'
  BY <1>1 DEF NInv, NTypes
<1>3. UnderWay' /\ NothingLeft' /\ ReadsContents' /\ RefusedUnchanged'
  BY <1>1 DEF UnderWay, NothingLeft, ReadsContents, RefusedUnchanged
<1>4. nJob.call \in {"write", "headers", "erase"}
  BY <1>1 DEF NInv, UnderWay
<1>5. nJob.call \in {"write", "headers"} => nCells = [nBefore EXCEPT ![nJob.lba] = Overlay(@, nJob.off, nJob.data)]
  BY <1>1, <1>2, WriteIsDone DEF NInv, UnderWay
<1>6. nJob.call = "erase" => nCells = [b \in NorBlocks |-> IF b \in ListedBlocks THEN Erased ELSE nBefore[b]]
  <2>1. PICK listed : listed = ListedBlocks
    OBVIOUS
  <2>2. nJob.call = "erase" => EraseLeft(listed)
    BY <1>1, <2>1 DEF NInv, UnderWay
  <2>3. nJob.call = "erase" => nCells = [b \in NorBlocks |-> IF b \in listed THEN Erased ELSE nBefore[b]]
    BY <1>1, <1>2, <2>2, EraseIsDone
  <2> QED BY <2>1, <2>3
<1>7. nJob.call = "headers" => NorFlashValidateFvHeader
  <2>1. nJob.call = "headers" => nJob.lba = 0 /\ nJob.off = 0 /\ nJob.data = NorHeaders
    BY <1>1 DEF NInv, UnderWay
  <2>2. nBefore[0] \in Contents
    BY <1>2, NorSizes DEF NTypes, NorBlocks
  <2>3. nJob.call = "headers" => nCells = [nBefore EXCEPT ![0] = Overlay(nBefore[0], 0, NorHeaders)]
    BY <1>5, <2>1
  <2> QED BY <1>2, <2>2, <2>3, HeadersAreDone
<1>8. ListedBlocks' = ListedBlocks
  BY <1>1, ListedBlocksKept
<1>9. DoneRight'
  BY <1>1, <1>4, <1>5, <1>6, <1>7, <1>8 DEF DoneRight, NorFlashValidateFvHeader, Overlay
<1> QED
  BY <1>2, <1>3, <1>9 DEF NInv

\* A loss of power keeps the invariant.
LEMMA NorPowerLossStep ==
  ASSUME NInv, NorPowerLoss
  PROVE  NInv'
<1>1. nRet' = "off" /\ nTodo' = << >> /\ nMode' = "array" /\ nCells' = nCells /\ nShadow' = Erased /\ nBefore' = nCells
  BY DEF NorPowerLoss
<1>2. Erased \in Contents
  BY DEF Erased, Contents, Bits
<1>3. NTypes'
  BY <1>1, <1>2, NoCommands DEF NInv, NTypes
<1>4. UnderWay' /\ NothingLeft' /\ ReadsContents' /\ RefusedUnchanged' /\ DoneRight'
  BY <1>1 DEF UnderWay, NothingLeft, ReadsContents, RefusedUnchanged, DoneRight
<1> QED
  BY <1>3, <1>4 DEF NInv

\* A step of nobody keeps the invariant.
LEMMA NorStutter ==
  ASSUME NInv, UNCHANGED nVars
  PROVE  NInv'
<1>1. /\ nCells' = nCells /\ nBefore' = nBefore /\ nShadow' = nShadow /\ nTodo' = nTodo /\ nRet' = nRet
      /\ nJob' = nJob /\ nMode' = nMode
  BY DEF nVars
<1>2. Wanted' = Wanted /\ ListedBlocks' = ListedBlocks
  BY <1>1, WantedKept, ListedBlocksKept
<1>3. NTypes' /\ NothingLeft' /\ ReadsContents' /\ RefusedUnchanged'
  BY <1>1 DEF NInv, NTypes, NothingLeft, ReadsContents, RefusedUnchanged
<1>4. DoneRight'
  BY <1>1, <1>2 DEF NInv, DoneRight, NorFlashValidateFvHeader, Overlay
<1>5. WriteLeft => WriteLeft'
  BY <1>1, <1>2 DEF WriteLeft, ErasePending, Programming, AllProgram, Programs, Covered, Reached, Erase
<1>6. EraseLeft(ListedBlocks) => EraseLeft(ListedBlocks)'
  BY <1>1, <1>2 DEF EraseLeft, InRange
<1>7. EraseLeft(NorBlocks) => EraseLeft(NorBlocks)'
  BY <1>1 DEF EraseLeft, InRange, NorBlocks
<1>8. UnderWay'
  BY <1>1, <1>5, <1>6, <1>7 DEF NInv, UnderWay
<1> QED
  BY <1>3, <1>4, <1>8 DEF NInv

\* The invariant holds initially.
LEMMA NorStart ==
  ASSUME NorInit
  PROVE  NInv
<1>1. nRet = "off" /\ nTodo = << >> /\ nMode = "array" /\ nShadow = Erased /\ nBefore = nCells
  BY DEF NorInit
<1>2. PICK h \in Bits : nCells = [b \in NorBlocks |-> [i \in NorBytes |-> IF b = 0 THEN h ELSE 0]]
  BY DEF NorInit, Bits
<1>3. nCells \in [NorBlocks -> Contents]
  BY <1>2 DEF Contents, Bits
<1>4. Erased \in Contents
  BY DEF Erased, Contents, Bits
<1>5. NTypes
  BY <1>1, <1>3, <1>4, NoCommands DEF NTypes
<1>6. UnderWay /\ NothingLeft /\ ReadsContents /\ RefusedUnchanged /\ DoneRight
  BY <1>1 DEF UnderWay, NothingLeft, ReadsContents, RefusedUnchanged, DoneRight
<1> QED
  BY <1>5, <1>6 DEF NInv

\* The invariant gives the property.
LEMMA NInvSaysAsAsked ==
  ASSUME NInv
  PROVE  NorFlashAsAsked
<1>1. (Idle => nMode = "array") /\ (nRet \in {"BAD_BUFFER_SIZE", "INVALID_PARAMETER"} => nCells = nBefore)
  BY DEF NInv, ReadsContents, RefusedUnchanged, Idle
<1>2. nRet = "SUCCESS" =>
        CASE nJob.call \in {"write", "headers"} ->
               nCells = [nBefore EXCEPT ![nJob.lba] = Overlay(@, nJob.off, nJob.data)]
          [] nJob.call = "erase" ->
               nCells = [b \in NorBlocks |-> IF \E k \in DOMAIN nJob.data :
                           b >= nJob.data[k][1] /\ b < nJob.data[k][1] + nJob.data[k][2]
                         THEN Erased ELSE nBefore[b]]
          [] OTHER -> nCells = nBefore
  <2>1. CASE nJob.call \in {"write", "headers"}
    BY <2>1 DEF NInv, DoneRight
  <2>2. CASE nJob.call = "erase"
    <3>1. nRet = "SUCCESS" => nCells = [b \in NorBlocks |-> IF b \in ListedBlocks THEN Erased ELSE nBefore[b]]
      BY <2>2 DEF NInv, DoneRight
    <3>2. \A b \in NorBlocks : b \in ListedBlocks <=>
            \E k \in DOMAIN nJob.data : b >= nJob.data[k][1] /\ b < nJob.data[k][1] + nJob.data[k][2]
      BY DEF ListedBlocks, InRange
    <3>3. [b \in NorBlocks |-> IF b \in ListedBlocks THEN Erased ELSE nBefore[b]]
            = [b \in NorBlocks |-> IF \E k \in DOMAIN nJob.data :
                 b >= nJob.data[k][1] /\ b < nJob.data[k][1] + nJob.data[k][2] THEN Erased ELSE nBefore[b]]
      BY <3>2
    <3> QED BY <2>2, <3>1, <3>3
  <2>3. CASE nJob.call \notin {"write", "headers", "erase"}
    BY <2>3 DEF NInv, DoneRight
  <2> QED BY <2>1, <2>2, <2>3
<1>3. (nRet = "SUCCESS" /\ nJob.call \in {"init", "headers"}) => NorFlashValidateFvHeader
  BY DEF NInv, DoneRight
<1> QED
  BY <1>1, <1>2, <1>3 DEF NorFlashAsAsked

(***************************************************************************)
(* VirtNorFlashStandaloneMm: a call that reports success has done what it  *)
(* was asked and nothing else, for every size of buffer, block and chip,   *)
(* every list of writes and erases and every pattern of failing commands   *)
(* and losses of power, as long as each write that is done in place reads  *)
(* all that it programs.  NorFlashWriteSingleBlock does not see to that    *)
(* for a write that crosses a buffer; the run NorCrossing shows what       *)
(* happens then.                                                           *)
(***************************************************************************)
THEOREM NorFlashServices ==
  ASSUME \A w \in NorWrites : ReadsWhatItPrograms(w.off, Len(w.data))
  PROVE  NorSpec => []NorFlashAsAsked
<1>1. NorInit => NInv
  BY NorStart
<1>2. NInv /\ [NorNext]_nVars => NInv'
  <2> SUFFICES ASSUME NInv, [NorNext]_nVars
               PROVE  NInv'
    OBVIOUS
  <2>1. CASE NorFlashFvbInitialize
    BY <2>1, NorInitializeStep
  <2>2. CASE InitializeFvAndVariableStoreHeaders
    BY <2>2, NorHeadersStep
  <2>3. CASE \E w \in NorWrites : FvbWrite(w)
    BY <2>3, NorWriteStep
  <2>4. CASE \E pairs \in NorErases : FvbEraseBlocks(pairs)
    BY <2>4, NorEraseStep
  <2>5. CASE \E l \in {0, LastBlock + 1}, len \in {1, BlockSize + 1} : FvbRead(l, 0, len)
    BY <2>5, NorReadStep
  <2>6. CASE NorFlashUnlockAndEraseSingleBlock
    BY <2>6, NorEraseCommandStep
  <2>7. CASE NorFlashWriteBuffer
    BY <2>7, NorProgramCommandStep
  <2>8. CASE NorSkipBuffer
    BY <2>8, NorSkipStep
  <2>9. CASE NorDone
    BY <2>9, NorDoneStep
  <2>10. CASE NorPowerLoss
    BY <2>10, NorPowerLossStep
  <2>11. CASE UNCHANGED nVars
    BY <2>11, NorStutter
  <2> QED BY <2>1, <2>2, <2>3, <2>4, <2>5, <2>6, <2>7, <2>8, <2>9, <2>10, <2>11 DEF NorNext
<1>3. NInv => NorFlashAsAsked
  BY NInvSaysAsAsked
<1> QED
  BY <1>1, <1>2, <1>3, PTL DEF NorSpec

-----------------------------------------------------------------------------
(* FwCfg.                                                                  *)

DmaBuffers == {"AccessBuffer", "AccessMapping", "DataMapping"}
FwOps == [do : {"select", "move", "start", "poll", "found"}, n : Nat] \cup [do : {"take", "drop"}, n : DmaBuffers]

\* Where the device will be once the host has done what it was told, and whether the host has.
Place == [sel : Nat, off : Nat, dma : {"idle", "busy"}, held : SUBSET DmaBuffers]
Holding(sel, off, dma, held) == [sel |-> sel, off |-> off, dma |-> dma, held |-> held]
At(sel, off) == Holding(sel, off, "idle", {})

\* One access from s to t, where a transfer needs the buffers need.
OneAccess(s, a, t, need) ==
  \/ a.do = "select" /\ s.dma = "idle" /\ t = Holding(a.n, 0, "idle", s.held)
  \/ a.do = "move" /\ s.dma = "idle" /\ t = Holding(s.sel, s.off + a.n, "idle", s.held)
  \/ a.do = "start" /\ s.dma = "idle" /\ need \subseteq s.held /\ t = Holding(s.sel, s.off + a.n, "busy", s.held)
  \/ a.do = "poll" /\ t = Holding(s.sel, s.off, "idle", s.held)
  \/ a.do = "take" /\ s.dma = "idle" /\ t = Holding(s.sel, s.off, "idle", s.held \cup {a.n})
  \/ a.do = "drop" /\ s.dma = "idle" /\ a.n \in need /\ t = Holding(s.sel, s.off, "idle", s.held \ {a.n})
  \/ a.do = "found" /\ t = s

\* The accesses ops lead from s to t, through the places that p lists.
Through(ops, p, need) == \A i \in 1 .. Len(ops) : OneAccess(p[i - 1], ops[i], p[i], need)
Leads(ops, s, t, need) == \E p \in [0 .. Len(ops) -> Place] : p[0] = s /\ p[Len(ops)] = t /\ Through(ops, p, need)

\* They take the device n bytes further, wherever it is.
Advances(ops, n, need) ==
  ops \in Seq(FwOps) /\ \A sel, off \in Nat : Leads(ops, At(sel, off), At(sel, off + n), need)

\* The buffers a transfer of the running instance needs.
NeededFor(skip) == IF fMode # "dxe-sev" THEN {} ELSE IF skip THEN {"AccessBuffer", "AccessMapping"} ELSE DmaBuffers

FwTypes == /\ fDev \in [sel : Nat, off : Nat] /\ fWant \in [sel : Nat, off : Nat]
           /\ fTodo \in Seq(FwOps) /\ fDma \in Nat /\ fHeld \subseteq DmaBuffers
           /\ fMode = "none" => fTodo = << >>

\* What is left of the call leads to where the callers want the device.
OnTheWay(dma, need) ==
  /\ fDma > 0 => dma = "busy"
  /\ dma = "busy" => need \subseteq fHeld
  /\ fMode = "dxe-sev" /\ fTodo # << >> => {"AccessBuffer", "AccessMapping"} \subseteq need
  /\ Leads(fTodo, Holding(fDev.sel, fDev.off + fDma, dma, fHeld), At(fWant.sel, fWant.off), need)

FwInv == FwTypes /\ \E dma \in {"idle", "busy"}, need \in SUBSET DmaBuffers : OnTheWay(dma, need)

-----------------------------------------------------------------------------
\* Between calls the device is at a place.
LEMMA AtIsPlace == \A sel, off \in Nat : At(sel, off) \in Place
  BY DEF At, Holding, Place

\* The parts of a place.
LEMMA PlaceFields ==
  \A sel, off, dma, held : LET s == Holding(sel, off, dma, held)
                           IN  s.sel = sel /\ s.off = off /\ s.dma = dma /\ s.held = held
  BY DEF Holding

\* The accesses of the library.
LEMMA Accesses ==
  /\ \A do \in {"select", "move", "start", "poll", "found"}, n \in Nat : Do(do, n) \in FwOps
  /\ \A do \in {"take", "drop"}, n \in DmaBuffers : Do(do, n) \in FwOps
  /\ \A do, n : Do(do, n).do = do /\ Do(do, n).n = n
  BY DEF Do, FwOps

\* Two accesses make a list of two.
LEMMA TwoAccesses ==
  ASSUME NEW a, NEW b
  PROVE  <<a>> \o <<b>> = <<a, b>>
<1> DEFINE C == {a, b}
           x == <<a>> \o <<b>>
<1>1. <<a>> \in Seq(C) /\ <<b>> \in Seq(C) /\ Len(<<a>>) = 1 /\ Len(<<b>>) = 1
  OBVIOUS
<1>2. Len(x) = 2 /\ x \in Seq(C) /\ x[1] = a /\ x[2] = b
  BY <1>1
<1> HIDE DEF x
<1>3. x = [i \in 1 .. 2 |-> x[i]]
  BY <1>2
<1>4. <<a, b>> = [i \in 1 .. 2 |-> <<a, b>>[i]]
  OBVIOUS
<1>5. \A i \in 1 .. 2 : i = 1 \/ i = 2
  OBVIOUS
<1>6. \A i \in 1 .. 2 : x[i] = <<a, b>>[i]
  BY <1>2, <1>5
<1>7. x = <<a, b>>
  BY <1>3, <1>4, <1>6
<1> QED
  BY <1>7 DEF x

\* Two lists of accesses make one.
LEMMA AppendedOps ==
  ASSUME NEW C, NEW v \in Seq(C), NEW w \in Seq(C)
  PROVE  v \o w \in Seq(C)
  OBVIOUS

\* No access leads nowhere.
LEMMA NoAccessLeads ==
  ASSUME NEW s \in Place, NEW need
  PROVE  Leads(<< >>, s, s, need)
<1> DEFINE p == [i \in 0 .. 0 |-> s]
<1>1. p \in [0 .. 0 -> Place] /\ p[0] = s /\ Len(<< >>) = 0
  OBVIOUS
<1>2. Through(<< >>, p, need)
  BY <1>1 DEF Through
<1> QED
  BY <1>1, <1>2 DEF Leads

\* One access is a list that leads on.
LEMMA OneLeads ==
  ASSUME NEW s \in Place, NEW t \in Place, NEW a, NEW need, OneAccess(s, a, t, need)
  PROVE  Leads(<<a>>, s, t, need)
<1>1. PICK p : p = [i \in 0 .. 1 |-> IF i = 0 THEN s ELSE t]
  OBVIOUS
<1>2. p \in [0 .. 1 -> Place] /\ p[0] = s /\ p[1] = t /\ Len(<<a>>) = 1 /\ <<a>>[1] = a
  BY <1>1
<1>3. Through(<<a>>, p, need)
  <2>1. \A i \in 1 .. 1 : i = 1 /\ i - 1 = 0
    OBVIOUS
  <2> QED BY <1>2, <2>1 DEF Through
<1> QED
  BY <1>2, <1>3 DEF Leads

\* A list that leads to t and one that leads on from there.
LEMMA LeadsOn ==
  ASSUME NEW C, NEW v \in Seq(C), NEW w \in Seq(C), NEW s, NEW t, NEW u, NEW need,
         Leads(v, s, t, need), Leads(w, t, u, need)
  PROVE  Leads(v \o w, s, u, need)
<1>1. PICK p \in [0 .. Len(v) -> Place] : p[0] = s /\ p[Len(v)] = t /\ Through(v, p, need)
  BY DEF Leads
<1>2. PICK q \in [0 .. Len(w) -> Place] : q[0] = t /\ q[Len(w)] = u /\ Through(w, q, need)
  BY DEF Leads
<1>3. PICK m \in Nat, n \in Nat : m = Len(v) /\ n = Len(w)
  OBVIOUS
<1>4. PICK r : r = [i \in 0 .. m + n |-> IF i <= m THEN p[i] ELSE q[i - m]]
  OBVIOUS
<1>5. PICK vw : vw = v \o w
  OBVIOUS
<1>6. /\ Len(vw) = m + n /\ \A i \in 1 .. m : vw[i] = v[i]
      /\ \A i \in 1 .. n : vw[m + i] = w[i]
  BY <1>3, <1>5
<1>7. r \in [0 .. m + n -> Place]
  <2>1. \A i \in 0 .. m + n : IF i <= m THEN i \in 0 .. m ELSE i - m \in 0 .. n
    OBVIOUS
  <2>2. \A i \in 0 .. m + n : (IF i <= m THEN p[i] ELSE q[i - m]) \in Place
    BY <1>3, <2>1
  <2> QED BY <1>4, <2>2
<1>8. r[0] = s /\ r[m + n] = u
  <2>1. r[0] = s
    BY <1>1, <1>4
  <2>2. CASE n = 0
    BY <1>1, <1>2, <1>3, <1>4, <2>2
  <2>3. CASE n # 0
    <3>1. ~(m + n <= m) /\ (m + n) - m = n /\ m + n \in 0 .. m + n
      BY <2>3
    <3> QED BY <1>2, <1>3, <1>4, <2>1, <3>1
  <2> QED BY <2>1, <2>2, <2>3
<1>9. ASSUME NEW i \in 1 .. m + n
      PROVE  OneAccess(r[i - 1], vw[i], r[i], need)
  <2>1. CASE i <= m
    <3>1. i \in 1 .. m /\ i - 1 \in 0 .. m + n /\ i - 1 <= m /\ i \in 0 .. m + n
      BY <2>1
    <3>2. r[i - 1] = p[i - 1] /\ r[i] = p[i] /\ vw[i] = v[i]
      BY <1>4, <1>6, <2>1, <3>1
    <3> QED BY <1>1, <1>3, <3>1, <3>2 DEF Through
  <2>2. CASE ~(i <= m)
    <3>1. PICK j \in 1 .. n : i = m + j
      <4>1. i - m \in 1 .. n /\ i = m + (i - m)
        BY <2>2
      <4> QED BY <4>1
    <3>2. vw[i] = w[j] /\ r[i] = q[j]
      <4>1. i - m = j /\ i \in 0 .. m + n
        BY <3>1
      <4> QED BY <1>4, <1>6, <2>2, <3>1, <4>1
    <3>3. r[i - 1] = q[j - 1]
      <4>1. CASE j = 1
        <5>1. i - 1 = m /\ m \in 0 .. m + n /\ m <= m /\ j - 1 = 0
          BY <3>1, <4>1
        <5> QED BY <1>1, <1>2, <1>3, <1>4, <5>1
      <4>2. CASE j # 1
        <5>1. ~(i - 1 <= m) /\ (i - 1) - m = j - 1 /\ i - 1 \in 0 .. m + n
          BY <3>1, <4>2
        <5> QED BY <1>4, <5>1
      <4> QED BY <4>1, <4>2
    <3> QED BY <1>2, <1>3, <3>1, <3>2, <3>3 DEF Through
  <2> QED BY <2>1, <2>2
<1>10. Through(vw, r, need)
  BY <1>6, <1>9 DEF Through
<1> QED
  BY <1>5, <1>6, <1>7, <1>8, <1>10 DEF Leads

\* The first access is made.
LEMMA LeadsRest ==
  ASSUME NEW C, NEW v \in Seq(C), v # << >>, NEW s, NEW t, NEW need, Leads(v, s, t, need)
  PROVE  \E u \in Place : OneAccess(s, Head(v), u, need) /\ Leads(Tail(v), u, t, need)
<1>1. PICK p \in [0 .. Len(v) -> Place] : p[0] = s /\ p[Len(v)] = t /\ Through(v, p, need)
  BY DEF Leads
<1>2. PICK w : w = Tail(v)
  OBVIOUS
<1>3. PICK n \in Nat : n = Len(w) /\ Len(v) = n + 1 /\ Head(v) = v[1] /\ \A i \in 1 .. n : w[i] = v[i + 1]
  BY <1>2
<1>4. PICK q : q = [i \in 0 .. n |-> p[i + 1]]
  OBVIOUS
<1>5. q \in [0 .. n -> Place]
  <2>1. \A i \in 0 .. n : i + 1 \in 0 .. n + 1
    OBVIOUS
  <2> QED BY <1>3, <1>4, <2>1
<1>6. q[0] = p[1] /\ q[n] = t /\ p[1] \in Place
  BY <1>1, <1>3, <1>4
<1>7. OneAccess(s, Head(v), p[1], need)
  <2>1. 1 \in 1 .. Len(v) /\ 1 - 1 = 0
    BY <1>3
  <2> QED BY <1>1, <1>3, <2>1 DEF Through
<1>8. Through(w, q, need)
  <2> SUFFICES ASSUME NEW i \in 1 .. n PROVE OneAccess(q[i - 1], w[i], q[i], need)
    BY <1>3 DEF Through
  <2>1. i + 1 \in 1 .. n + 1 /\ (i + 1) - 1 = i /\ i - 1 \in 0 .. n /\ (i - 1) + 1 = i /\ i \in 0 .. n
    OBVIOUS
  <2>2. OneAccess(p[i], v[i + 1], p[i + 1], need)
    BY <1>1, <1>3, <2>1 DEF Through
  <2> QED BY <1>3, <1>4, <2>1, <2>2
<1> QED
  BY <1>2, <1>3, <1>5, <1>6, <1>7, <1>8 DEF Leads

-----------------------------------------------------------------------------
\* The remainder within one round.
LEMMA RoundRest ==
  ASSUME NEW k \in Nat, NEW b \in Nat \ {0}, NEW j \in 0 .. b - 1
  PROVE  (k * b + j) % b = j
<1>1. \A q, r, x \in Nat : r < b /\ x = q * b + r => x % b = r
  OBVIOUS
<1>2. k * b + j \in Nat
  OBVIOUS
<1> QED
  BY <1>1, <1>2

\* A round more.
LEMMA TimesMore ==
  ASSUME NEW C, NEW ops \in Seq(C), NEW k \in Nat
  PROVE  Times(0, ops) = << >> /\ (Times(k, ops) \in Seq(C) => Times(k + 1, ops) = Times(k, ops) \o ops)
<1>1. PICK b \in Nat : b = Len(ops)
  OBVIOUS
<1>2. PICK a \in Nat, c \in Nat : a = k * b /\ c = (k + 1) * b /\ c = a + b
  <2>1. k * b \in Nat /\ (k + 1) * b = k * b + b
    OBVIOUS
  <2> QED BY <2>1
<1>3. Times(0, ops) = << >>
  <2>1. 0 * b = 0
    OBVIOUS
  <2>2. Times(0, ops) = [i \in 1 .. 0 |-> ops[((i - 1) % b) + 1]]
    BY <1>1, <2>1 DEF Times
  <2> QED BY <2>2
<1>4. PICK v : v = Times(k, ops)
  OBVIOUS
<1>5. PICK w : w = Times(k + 1, ops)
  OBVIOUS
<1>6. /\ v = [i \in 1 .. a |-> ops[((i - 1) % b) + 1]] /\ w = [i \in 1 .. c |-> ops[((i - 1) % b) + 1]]
  BY <1>1, <1>2, <1>4, <1>5 DEF Times
<1>7. ASSUME v \in Seq(C)
      PROVE  w = v \o ops
  <2>1. Len(v) = a
    BY <1>6, <1>7
  <2>2. PICK u : u = v \o ops
    OBVIOUS
  <2>3. u \in Seq(C) /\ Len(u) = c /\ DOMAIN u = 1 .. c
    <3>1. v \o ops \in Seq(C) /\ Len(v \o ops) = Len(v) + Len(ops)
      BY <1>7
    <3>2. \A x \in Seq(C) : DOMAIN x = 1 .. Len(x)
      OBVIOUS
    <3> QED BY <1>1, <1>2, <2>1, <2>2, <3>1, <3>2
  <2>4. (\A i \in 1 .. a : u[i] = v[i]) /\ (\A i \in 1 .. b : u[a + i] = ops[i])
    BY <1>1, <1>7, <2>1, <2>2
  <2>5. ASSUME NEW i \in 1 .. c
        PROVE  w[i] = u[i]
    <3>1. CASE i <= a
      <4>1. i \in 1 .. a
        BY <3>1
      <4> QED BY <1>6, <2>4, <4>1
    <3>2. CASE ~(i <= a)
      <4>1. PICK j \in 1 .. b : i = a + j
        <5>1. i - a \in 1 .. b /\ i = a + (i - a)
          BY <1>2, <3>2
        <5> QED BY <5>1
      <4>2. b \in Nat \ {0} /\ j - 1 \in 0 .. b - 1
        BY <4>1
      <4>3. (k * b + (j - 1)) % b = j - 1
        BY <4>2, RoundRest
      <4>4. i - 1 = a + (j - 1)
        BY <4>1
      <4>5. ((i - 1) % b) + 1 = j
        BY <1>2, <4>1, <4>3, <4>4
      <4> QED BY <1>6, <2>4, <4>1, <4>5
    <3> QED BY <3>1, <3>2
  <2>6. w = u
    <3>1. u = [i \in 1 .. c |-> u[i]]
      BY <2>3
    <3>2. w = [i \in 1 .. c |-> w[i]]
      BY <1>6
    <3> QED BY <2>5, <3>1, <3>2
  <2> QED BY <2>2, <2>6
<1> QED
  BY <1>3, <1>4, <1>5, <1>7

-----------------------------------------------------------------------------
\* No access moves no byte.
LEMMA NothingAdvances ==
  ASSUME NEW need
  PROVE  Advances(<< >>, 0, need)
<1>1. \A sel, off \in Nat : off + 0 = off /\ Leads(<< >>, At(sel, off), At(sel, off), need)
  BY AtIsPlace, NoAccessLeads
<1>2. << >> \in Seq(FwOps)
  OBVIOUS
<1> QED
  BY <1>1, <1>2 DEF Advances

\* One access to the port or the register moves its bytes.
LEMMA MoveAdvances ==
  ASSUME NEW n \in Nat, NEW need
  PROVE  Advances(<<Do("move", n)>>, n, need)
<1>1. PICK a : a = Do("move", n)
  OBVIOUS
<1>2. a \in FwOps /\ a.do = "move" /\ a.n = n
  BY <1>1, Accesses
<1>3. ASSUME NEW sel \in Nat, NEW off \in Nat
      PROVE  Leads(<<a>>, At(sel, off), At(sel, off + n), need)
  <2>1. PICK s \in Place, t \in Place : s = At(sel, off) /\ t = At(sel, off + n)
    BY AtIsPlace
  <2>2. s.dma = "idle" /\ t = Holding(s.sel, s.off + n, "idle", s.held)
    BY <2>1, PlaceFields DEF At
  <2>3. OneAccess(s, a, t, need)
    BY <1>2, <2>2 DEF OneAccess
  <2> QED BY <2>1, <2>3, OneLeads
<1>4. <<a>> \in Seq(FwOps)
  BY <1>2
<1> QED
  BY <1>1, <1>3, <1>4 DEF Advances

\* The bytes of two lists add up.
LEMMA AdvancesOn ==
  ASSUME NEW v, NEW w, NEW m \in Nat, NEW n \in Nat, NEW need, Advances(v, m, need), Advances(w, n, need)
  PROVE  Advances(v \o w, m + n, need)
<1>1. v \in Seq(FwOps) /\ w \in Seq(FwOps) /\ v \o w \in Seq(FwOps)
  BY DEF Advances
<1>2. ASSUME NEW sel \in Nat, NEW off \in Nat
      PROVE  Leads(v \o w, At(sel, off), At(sel, off + (m + n)), need)
  <2>1. off + m \in Nat /\ (off + m) + n = off + (m + n)
    OBVIOUS
  <2>2. Leads(v, At(sel, off), At(sel, off + m), need) /\ Leads(w, At(sel, off + m), At(sel, (off + m) + n), need)
    BY <2>1 DEF Advances
  <2>3. Leads(v \o w, At(sel, off), At(sel, (off + m) + n), need)
    BY <1>1, <2>2, LeadsOn
  <2> QED BY <2>1, <2>3
<1> QED
  BY <1>1, <1>2 DEF Advances

\* The bytes of k rounds are k times those of one.
LEMMA TimesAdvances ==
  ASSUME NEW v, NEW n \in Nat, NEW need, Advances(v, n, need), NEW k \in Nat
  PROVE  Advances(Times(k, v), k * n, need)
<1> DEFINE S == {j \in Nat : Advances(Times(j, v), j * n, need)}
<1>1. v \in Seq(FwOps)
  BY DEF Advances
<1>2. 0 \in S
  <2>1. Times(0, v) = << >> /\ 0 * n = 0
    BY <1>1, TimesMore
  <2> QED BY <2>1, NothingAdvances
<1>3. ASSUME NEW j \in Nat, j \in S
      PROVE  j + 1 \in S
  <2>1. Advances(Times(j, v), j * n, need) /\ j * n \in Nat
    BY <1>3
  <2>2. Times(j, v) \in Seq(FwOps)
    BY <2>1 DEF Advances
  <2>3. Times(j + 1, v) = Times(j, v) \o v
    BY <1>1, <2>2, TimesMore
  <2>4. Advances(Times(j, v) \o v, j * n + n, need)
    BY <2>1, AdvancesOn
  <2>5. (j + 1) * n = j * n + n /\ j + 1 \in Nat
    OBVIOUS
  <2> QED BY <2>3, <2>4, <2>5
<1>4. Nat \subseteq S
  <2> HIDE DEF S
  <2> QED BY <1>2, <1>3, Induction
<1> QED
  BY <1>4

\* The MMIO instance.
LEMMA MmioReadAdvances ==
  ASSUME NEW n \in Nat, NEW need
  PROVE  Advances(MmioReadBytes(n), n, need)
<1>1. PICK q \in Nat, x \in Nat, y \in Nat, z \in Nat :
        /\ q = n \div 8 /\ x = (IF n % 8 >= 4 THEN 4 ELSE 0) /\ y = (IF n % 4 >= 2 THEN 2 ELSE 0)
        /\ z = (IF n % 2 = 1 THEN 1 ELSE 0) /\ n = q * 8 + x + y + z
  <2>1. n \div 8 \in Nat /\ n = (n \div 8) * 8 + (IF n % 8 >= 4 THEN 4 ELSE 0) + (IF n % 4 >= 2 THEN 2 ELSE 0)
                               + (IF n % 2 = 1 THEN 1 ELSE 0)
    OBVIOUS
  <2> QED BY <2>1
<1>2. Advances(Times(q, <<Do("move", 8)>>), q * 8, need)
  BY MoveAdvances, TimesAdvances
<1>3. Advances(If(n % 8 >= 4, Do("move", 4)), x, need)
  BY <1>1, MoveAdvances, NothingAdvances DEF If
<1>4. Advances(If(n % 4 >= 2, Do("move", 2)), y, need)
  BY <1>1, MoveAdvances, NothingAdvances DEF If
<1>5. Advances(If(n % 2 = 1, Do("move", 1)), z, need)
  BY <1>1, MoveAdvances, NothingAdvances DEF If
<1>6. PICK v1, v2, v3, v4 : /\ v1 = Times(q, <<Do("move", 8)>>) /\ v2 = If(n % 8 >= 4, Do("move", 4))
                            /\ v3 = If(n % 4 >= 2, Do("move", 2)) /\ v4 = If(n % 2 = 1, Do("move", 1))
  OBVIOUS
<1>7. q * 8 \in Nat /\ q * 8 + x \in Nat /\ q * 8 + x + y \in Nat
  OBVIOUS
<1>8. Advances(v1 \o v2, q * 8 + x, need)
  BY <1>2, <1>3, <1>6, <1>7, AdvancesOn
<1>9. Advances((v1 \o v2) \o v3, q * 8 + x + y, need)
  BY <1>4, <1>6, <1>7, <1>8, AdvancesOn
<1>10. Advances(((v1 \o v2) \o v3) \o v4, q * 8 + x + y + z, need)
  BY <1>5, <1>6, <1>7, <1>9, AdvancesOn
<1> QED
  BY <1>1, <1>6, <1>10 DEF MmioReadBytes

\* MmioSkipBytes, and the skip through the port: full buffers, then the rest.
LEMMA MmioSkipAdvances ==
  ASSUME NEW n \in Nat, NEW need
  PROVE  /\ Advances(MmioSkipBytes(n), n, need)
         /\ Advances(Times(n \div FwSkipChunk, <<Do("move", FwSkipChunk)>>)
                       \o If(n % FwSkipChunk > 0, Do("move", n % FwSkipChunk)), n, need)
<1>1. PICK c \in Nat : c = FwSkipChunk /\ c > 0
  BY FwCfgAssumption
<1>2. PICK q \in Nat, r \in Nat : q = n \div c /\ r = n % c /\ n = q * c + r
  <2>1. n \div c \in Nat /\ n % c \in Nat /\ n = (n \div c) * c + (n % c)
    BY <1>1
  <2> QED BY <2>1
<1>3. q * c \in Nat
  OBVIOUS
<1>4. Advances(MmioSkipBytes(n), n, need)
  <2>1. Advances(Times(q, MmioReadBytes(c)), q * c, need)
    BY MmioReadAdvances, TimesAdvances
  <2>2. Advances(Times(q, MmioReadBytes(c)) \o MmioReadBytes(r), q * c + r, need)
    BY <1>3, <2>1, MmioReadAdvances, AdvancesOn
  <2> QED BY <1>1, <1>2, <2>2 DEF MmioSkipBytes
<1>5. Advances(Times(q, <<Do("move", c)>>) \o If(r > 0, Do("move", r)), n, need)
  <2>1. Advances(Times(q, <<Do("move", c)>>), q * c, need)
    BY MoveAdvances, TimesAdvances
  <2>2. Advances(If(r > 0, Do("move", r)), r, need)
    BY MoveAdvances, NothingAdvances DEF If
  <2>3. Advances(Times(q, <<Do("move", c)>>) \o If(r > 0, Do("move", r)), q * c + r, need)
    BY <1>3, <2>1, <2>2, AdvancesOn
  <2> QED BY <1>2, <2>3
<1> QED
  BY <1>1, <1>2, <1>4, <1>5

\* MmioWriteBytes moves byte by byte.
LEMMA MmioWriteAdvances ==
  ASSUME NEW n \in Nat, NEW need
  PROVE  Advances(MmioWriteBytes(n), n, need)
<1>1. n * 1 = n
  OBVIOUS
<1> QED
  BY <1>1, MoveAdvances, TimesAdvances DEF MmioWriteBytes

-----------------------------------------------------------------------------
\* The accesses of a DMA transfer, one by one.
LEMMA DmaAccess ==
  ASSUME NEW sel \in Nat, NEW off \in Nat, NEW held \in SUBSET DmaBuffers, NEW need
  PROVE  /\ \A b \in DmaBuffers :
              Leads(<<Do("take", b)>>, Holding(sel, off, "idle", held), Holding(sel, off, "idle", held \cup {b}), need)
         /\ \A b \in DmaBuffers \cap need :
              Leads(<<Do("drop", b)>>, Holding(sel, off, "idle", held), Holding(sel, off, "idle", held \ {b}), need)
         /\ \A n \in Nat : need \subseteq held =>
              Leads(<<Do("start", n), Do("poll", n)>>, Holding(sel, off, "idle", held), Holding(sel, off + n, "idle", held), need)
<1>1. \A o \in Nat, d \in {"idle", "busy"}, h \in SUBSET DmaBuffers : Holding(sel, o, d, h) \in Place
  BY DEF Holding, Place
<1>2. PICK s \in Place : s = Holding(sel, off, "idle", held)
  BY <1>1
<1>3. s.dma = "idle" /\ s.held = held /\ s.off = off /\ s.sel = sel
  BY <1>2, PlaceFields
<1>4. ASSUME NEW b \in DmaBuffers
      PROVE  Leads(<<Do("take", b)>>, s, Holding(sel, off, "idle", held \cup {b}), need)
  <2>1. PICK t \in Place : t = Holding(sel, off, "idle", held \cup {b})
    <3>1. held \cup {b} \in SUBSET DmaBuffers
      OBVIOUS
    <3> QED BY <1>1, <3>1
  <2>2. PICK a : a = Do("take", b) /\ a.do = "take" /\ a.n = b
    BY Accesses
  <2>3. OneAccess(s, a, t, need)
    BY <1>3, <2>1, <2>2 DEF OneAccess
  <2> QED BY <2>1, <2>2, <2>3, OneLeads
<1>5. ASSUME NEW b \in DmaBuffers \cap need
      PROVE  Leads(<<Do("drop", b)>>, s, Holding(sel, off, "idle", held \ {b}), need)
  <2>1. PICK t \in Place : t = Holding(sel, off, "idle", held \ {b})
    <3>1. held \ {b} \in SUBSET DmaBuffers
      OBVIOUS
    <3> QED BY <1>1, <3>1
  <2>2. PICK a : a = Do("drop", b) /\ a.do = "drop" /\ a.n = b
    BY Accesses
  <2>3. OneAccess(s, a, t, need)
    BY <1>3, <2>1, <2>2 DEF OneAccess
  <2> QED BY <2>1, <2>2, <2>3, OneLeads
<1>6. ASSUME NEW n \in Nat, need \subseteq held
      PROVE  Leads(<<Do("start", n), Do("poll", n)>>, s, Holding(sel, off + n, "idle", held), need)
  <2>1. off + n \in Nat
    OBVIOUS
  <2>2. PICK t \in Place : t = Holding(sel, off + n, "busy", held)
    BY <1>1, <2>1
  <2>3. PICK u \in Place : u = Holding(sel, off + n, "idle", held)
    BY <1>1, <2>1
  <2>4. t.held = held /\ t.off = off + n /\ t.sel = sel
    BY <2>2, PlaceFields
  <2>5. PICK a \in FwOps : a = Do("start", n) /\ a.do = "start" /\ a.n = n
    BY Accesses
  <2>6. PICK c \in FwOps : c = Do("poll", n) /\ c.do = "poll"
    BY Accesses
  <2>7. OneAccess(s, a, t, need)
    BY <1>3, <1>6, <2>2, <2>5 DEF OneAccess
  <2>8. OneAccess(t, c, u, need)
    BY <2>3, <2>4, <2>6 DEF OneAccess
  <2>9. Leads(<<a>>, s, t, need) /\ Leads(<<c>>, t, u, need)
    BY <2>7, <2>8, OneLeads
  <2>10. <<a>> \in Seq(FwOps) /\ <<c>> \in Seq(FwOps)
    OBVIOUS
  <2>11. Leads(<<a>> \o <<c>>, s, u, need)
    BY <2>9, <2>10, LeadsOn
  <2> QED BY <2>3, <2>5, <2>6, <2>11, TwoAccesses
<1> QED
  BY <1>2, <1>4, <1>5, <1>6

\* Two accesses with a buffer each, as the functions that allocate and free make them.
LEMMA TwoLead ==
  ASSUME NEW a \in FwOps, NEW b \in FwOps, NEW s, NEW t, NEW u, NEW need,
         Leads(<<a>>, s, t, need), Leads(<<b>>, t, u, need)
  PROVE  Leads(<<a, b>>, s, u, need) /\ <<a, b>> \in Seq(FwOps)
<1>1. <<a>> \in Seq(FwOps) /\ <<b>> \in Seq(FwOps) /\ <<a, b>> \in Seq(FwOps)
  OBVIOUS
<1>2. Leads(<<a>> \o <<b>>, s, u, need)
  BY <1>1, LeadsOn
<1> QED
  BY <1>1, <1>2, TwoAccesses

\* Start and poll are accesses.
LEMMA StartPollIsSeq == \A n \in Nat : <<Do("start", n), Do("poll", n)>> \in Seq(FwOps)
<1> TAKE n \in Nat
<1>1. PICK a \in FwOps : a = Do("start", n)
  BY Accesses
<1>2. PICK b \in FwOps : b = Do("poll", n)
  BY Accesses
<1>3. <<a, b>> \in Seq(FwOps)
  OBVIOUS
<1> QED
  BY <1>1, <1>2, <1>3

\* A transfer without shared buffers.
LEMMA PlainDmaAdvances ==
  ASSUME NEW n \in Nat
  PROVE  Advances(<<Do("start", n), Do("poll", n)>>, n, {})
<1>1. \A sel, off \in Nat : Leads(<<Do("start", n), Do("poll", n)>>, At(sel, off), At(sel, off + n), {})
  BY DmaAccess DEF At
<1> QED
  BY <1>1, StartPollIsSeq DEF Advances

\* AllocFwCfgDmaAccessBuffer.
LEMMA BuffersTaken ==
  ASSUME NEW sel \in Nat, NEW off \in Nat, NEW need
  PROVE  /\ AllocFwCfgDmaAccessBuffer \in Seq(FwOps)
         /\ Leads(AllocFwCfgDmaAccessBuffer, At(sel, off),
                  Holding(sel, off, "idle", {"AccessBuffer", "AccessMapping"}), need)
<1>1. PICK a \in FwOps : a = Do("take", "AccessBuffer")
  BY Accesses DEF DmaBuffers
<1>2. PICK b \in FwOps : b = Do("take", "AccessMapping")
  BY Accesses DEF DmaBuffers
<1>3. {} \cup {"AccessBuffer"} = {"AccessBuffer"} /\ {"AccessBuffer"} \cup {"AccessMapping"} = {"AccessBuffer", "AccessMapping"}
  OBVIOUS
<1>4. /\ {} \in SUBSET DmaBuffers /\ {"AccessBuffer"} \in SUBSET DmaBuffers
      /\ "AccessBuffer" \in DmaBuffers /\ "AccessMapping" \in DmaBuffers
  BY DEF DmaBuffers
<1>5. Leads(<<a>>, At(sel, off), Holding(sel, off, "idle", {"AccessBuffer"}), need)
  BY <1>1, <1>3, <1>4, DmaAccess DEF At
<1>6. Leads(<<b>>, Holding(sel, off, "idle", {"AccessBuffer"}),
            Holding(sel, off, "idle", {"AccessBuffer", "AccessMapping"}), need)
  BY <1>2, <1>3, <1>4, DmaAccess
<1> QED
  BY <1>1, <1>2, <1>5, <1>6, TwoLead DEF AllocFwCfgDmaAccessBuffer

\* FreeFwCfgDmaAccessBuffer.
LEMMA BuffersFreed ==
  ASSUME NEW sel \in Nat, NEW off \in Nat, NEW need, {"AccessBuffer", "AccessMapping"} \subseteq need,
         NEW rest \in SUBSET {"DataMapping"}
  PROVE  /\ FreeFwCfgDmaAccessBuffer \in Seq(FwOps)
         /\ Leads(FreeFwCfgDmaAccessBuffer, Holding(sel, off, "idle", {"AccessBuffer", "AccessMapping"} \cup rest),
                  Holding(sel, off, "idle", rest), need)
<1>1. PICK a \in FwOps : a = Do("drop", "AccessMapping")
  BY Accesses DEF DmaBuffers
<1>2. PICK b \in FwOps : b = Do("drop", "AccessBuffer")
  BY Accesses DEF DmaBuffers
<1>3. /\ ({"AccessBuffer", "AccessMapping"} \cup rest) \ {"AccessMapping"} = {"AccessBuffer"} \cup rest
      /\ ({"AccessBuffer"} \cup rest) \ {"AccessBuffer"} = rest
  OBVIOUS
<1>4. /\ {"AccessBuffer", "AccessMapping"} \cup rest \in SUBSET DmaBuffers /\ {"AccessBuffer"} \cup rest \in SUBSET DmaBuffers
      /\ "AccessBuffer" \in DmaBuffers \cap need /\ "AccessMapping" \in DmaBuffers \cap need
  BY DEF DmaBuffers
<1>5. Leads(<<a>>, Holding(sel, off, "idle", {"AccessBuffer", "AccessMapping"} \cup rest),
            Holding(sel, off, "idle", {"AccessBuffer"} \cup rest), need)
  BY <1>1, <1>3, <1>4, DmaAccess
<1>6. Leads(<<b>>, Holding(sel, off, "idle", {"AccessBuffer"} \cup rest), Holding(sel, off, "idle", rest), need)
  BY <1>2, <1>3, <1>4, DmaAccess
<1> QED
  BY <1>1, <1>2, <1>5, <1>6, TwoLead DEF FreeFwCfgDmaAccessBuffer

\* With SEV, a transfer of data and one that only skips.
LEMMA SevTransferAdvances ==
  ASSUME NEW n \in Nat
  PROVE  Advances(AllocFwCfgDmaAccessBuffer \o MapFwCfgDmaDataBuffer \o <<Do("start", n), Do("poll", n)>>
                    \o FreeFwCfgDmaAccessBuffer \o UnmapFwCfgDmaDataBuffer, n, DmaBuffers)
<1> DEFINE both == {"AccessBuffer", "AccessMapping"}
           data == {"DataMapping"}
<1>1. PICK a \in FwOps : a = Do("take", "DataMapping")
  BY Accesses DEF DmaBuffers
<1>2. PICK b \in FwOps : b = Do("drop", "DataMapping")
  BY Accesses DEF DmaBuffers
<1>3. PICK v1, v2, v3, v4, v5 : /\ v1 = AllocFwCfgDmaAccessBuffer /\ v2 = <<a>> /\ v3 = <<Do("start", n), Do("poll", n)>>
                                /\ v4 = FreeFwCfgDmaAccessBuffer /\ v5 = <<b>>
  OBVIOUS
<1>4. /\ both \in SUBSET DmaBuffers /\ DmaBuffers \in SUBSET DmaBuffers /\ data \in SUBSET DmaBuffers
      /\ "DataMapping" \in DmaBuffers /\ "DataMapping" \in DmaBuffers \cap DmaBuffers
      /\ both \cup data = DmaBuffers /\ data \ {"DataMapping"} = {} /\ both \cup {"DataMapping"} = DmaBuffers
      /\ both \subseteq DmaBuffers /\ DmaBuffers \subseteq DmaBuffers
  BY DEF DmaBuffers
<1>5. v2 \in Seq(FwOps) /\ v3 \in Seq(FwOps) /\ v5 \in Seq(FwOps)
  <2>1. <<a>> \in Seq(FwOps) /\ <<b>> \in Seq(FwOps)
    OBVIOUS
  <2> QED BY <1>3, <2>1, StartPollIsSeq
<1>6. ASSUME NEW sel \in Nat, NEW off \in Nat
      PROVE  /\ v1 \o v2 \o v3 \o v4 \o v5 \in Seq(FwOps)
             /\ Leads(v1 \o v2 \o v3 \o v4 \o v5, At(sel, off), At(sel, off + n), DmaBuffers)
  <2>0. off + n \in Nat
    OBVIOUS
  <2>1. v1 \in Seq(FwOps) /\ Leads(v1, At(sel, off), Holding(sel, off, "idle", both), DmaBuffers)
    BY <1>3, BuffersTaken
  <2>2. Leads(v2, Holding(sel, off, "idle", both), Holding(sel, off, "idle", DmaBuffers), DmaBuffers)
    BY <1>1, <1>3, <1>4, DmaAccess
  <2>3. Leads(v3, Holding(sel, off, "idle", DmaBuffers), Holding(sel, off + n, "idle", DmaBuffers), DmaBuffers)
    BY <1>3, <1>4, DmaAccess
  <2>4. v4 \in Seq(FwOps) /\ Leads(v4, Holding(sel, off + n, "idle", DmaBuffers), Holding(sel, off + n, "idle", data), DmaBuffers)
    <3>1. data \in SUBSET {"DataMapping"}
      OBVIOUS
    <3>2. Leads(v4, Holding(sel, off + n, "idle", both \cup data), Holding(sel, off + n, "idle", data), DmaBuffers)
          /\ v4 \in Seq(FwOps)
      BY <1>3, <1>4, <2>0, <3>1, BuffersFreed
    <3> QED BY <1>4, <3>2
  <2>5. Leads(v5, Holding(sel, off + n, "idle", data), At(sel, off + n), DmaBuffers)
    BY <1>2, <1>3, <1>4, <2>0, DmaAccess DEF At
  <2> HIDE DEF both, data
  <2>6. v1 \o v2 \in Seq(FwOps) /\ Leads(v1 \o v2, At(sel, off), Holding(sel, off, "idle", DmaBuffers), DmaBuffers)
    BY <1>5, <2>1, <2>2, LeadsOn
  <2>7. PICK w1 : w1 = v1 \o v2
    OBVIOUS
  <2>8. w1 \o v3 \in Seq(FwOps) /\ Leads(w1 \o v3, At(sel, off), Holding(sel, off + n, "idle", DmaBuffers), DmaBuffers)
    <3>1. w1 \in Seq(FwOps) /\ Leads(w1, At(sel, off), Holding(sel, off, "idle", DmaBuffers), DmaBuffers)
      BY <2>6, <2>7
    <3>2. w1 \o v3 \in Seq(FwOps)
      BY <1>5, <3>1, AppendedOps
    <3>3. Leads(w1 \o v3, At(sel, off), Holding(sel, off + n, "idle", DmaBuffers), DmaBuffers)
      BY <1>5, <2>3, <3>1, LeadsOn
    <3> QED BY <3>2, <3>3
  <2>9. PICK w2 : w2 = w1 \o v3
    OBVIOUS
  <2>10. w2 \o v4 \in Seq(FwOps) /\ Leads(w2 \o v4, At(sel, off), Holding(sel, off + n, "idle", data), DmaBuffers)
    <3>1. w2 \in Seq(FwOps) /\ Leads(w2, At(sel, off), Holding(sel, off + n, "idle", DmaBuffers), DmaBuffers)
      BY <2>8, <2>9
    <3>2. w2 \o v4 \in Seq(FwOps)
      BY <2>4, <3>1, AppendedOps
    <3>3. Leads(w2 \o v4, At(sel, off), Holding(sel, off + n, "idle", data), DmaBuffers)
      BY <2>4, <3>1, LeadsOn
    <3> QED BY <3>2, <3>3
  <2>11. PICK w3 : w3 = w2 \o v4
    OBVIOUS
  <2>12. w3 \o v5 \in Seq(FwOps) /\ Leads(w3 \o v5, At(sel, off), At(sel, off + n), DmaBuffers)
    <3>1. w3 \in Seq(FwOps) /\ Leads(w3, At(sel, off), Holding(sel, off + n, "idle", data), DmaBuffers)
      BY <2>10, <2>11
    <3>2. w3 \o v5 \in Seq(FwOps)
      BY <1>5, <3>1, AppendedOps
    <3>3. Leads(w3 \o v5, At(sel, off), At(sel, off + n), DmaBuffers)
      BY <1>5, <2>5, <3>1, LeadsOn
    <3> QED BY <3>2, <3>3
  <2> QED BY <2>7, <2>9, <2>11, <2>12
<1>7. v1 \o v2 \o v3 \o v4 \o v5 \in Seq(FwOps)
  <2>1. 0 \in Nat
    OBVIOUS
  <2> QED BY <1>6, <2>1
<1>8. Advances(v1 \o v2 \o v3 \o v4 \o v5, n, DmaBuffers)
  BY <1>6, <1>7 DEF Advances
<1> QED
  BY <1>1, <1>2, <1>3, <1>8 DEF MapFwCfgDmaDataBuffer, UnmapFwCfgDmaDataBuffer

\* A skip through shared memory has no data.
LEMMA SevSkipAdvances ==
  ASSUME NEW n \in Nat
  PROVE  Advances(AllocFwCfgDmaAccessBuffer \o << >> \o <<Do("start", n), Do("poll", n)>>
                    \o FreeFwCfgDmaAccessBuffer \o << >>, n, {"AccessBuffer", "AccessMapping"})
<1> DEFINE both == {"AccessBuffer", "AccessMapping"}
<1>1. PICK v1, v3, v4 : /\ v1 = AllocFwCfgDmaAccessBuffer /\ v3 = <<Do("start", n), Do("poll", n)>>
                        /\ v4 = FreeFwCfgDmaAccessBuffer
  OBVIOUS
<1>2. both \in SUBSET DmaBuffers /\ both \cup {} = both /\ {} \in SUBSET {"DataMapping"} /\ both \subseteq both
  BY DEF DmaBuffers
<1>3. v1 \in Seq(FwOps) /\ v3 \in Seq(FwOps) /\ v4 \in Seq(FwOps)
  <2>1. 0 \in Nat
    OBVIOUS
  <2> QED BY <1>1, <1>2, <2>1, BuffersTaken, BuffersFreed, StartPollIsSeq
<1>4. \A v \in Seq(FwOps) : v \o << >> = v
  OBVIOUS
<1>5. ASSUME NEW sel \in Nat, NEW off \in Nat
      PROVE  Leads((v1 \o v3) \o v4, At(sel, off), At(sel, off + n), both)
  <2>0. off + n \in Nat
    OBVIOUS
  <2>1. Leads(v1, At(sel, off), Holding(sel, off, "idle", both), both)
    BY <1>1, BuffersTaken
  <2>2. Leads(v3, Holding(sel, off, "idle", both), Holding(sel, off + n, "idle", both), both)
    BY <1>1, <1>2, DmaAccess
  <2>3. Leads(v4, Holding(sel, off + n, "idle", both), At(sel, off + n), both)
    <3>1. Leads(v4, Holding(sel, off + n, "idle", both \cup {}), Holding(sel, off + n, "idle", {}), both)
      BY <1>1, <1>2, <2>0, BuffersFreed
    <3> QED BY <1>2, <3>1 DEF At
  <2> HIDE DEF both
  <2>4. v1 \o v3 \in Seq(FwOps) /\ Leads(v1 \o v3, At(sel, off), Holding(sel, off + n, "idle", both), both)
    BY <1>3, <2>1, <2>2, LeadsOn
  <2> QED BY <1>3, <2>3, <2>4, LeadsOn
<1>6. /\ v1 \o v3 \in Seq(FwOps) /\ (v1 \o v3) \o v4 \in Seq(FwOps)
  BY <1>3
<1>7. Advances((v1 \o v3) \o v4, n, both)
  BY <1>5, <1>6 DEF Advances
<1>8. v1 \o << >> \o v3 \o v4 \o << >> = (v1 \o v3) \o v4
  <2>1. v1 \o << >> = v1
    BY <1>3, <1>4
  <2>2. PICK w : w = (v1 \o v3) \o v4
    OBVIOUS
  <2>3. w \o << >> = w
    BY <1>4, <1>6, <2>2
  <2> QED BY <2>1, <2>2, <2>3
<1> QED
  BY <1>1, <1>7, <1>8

\* InternalQemuFwCfgDmaBytes of the DXE instance.
LEMMA DxeTransfers ==
  ASSUME NEW n \in Nat
  PROVE  /\ Advances(InternalQemuFwCfgDmaBytesDxe(n, FALSE), n, NeededFor(FALSE))
         /\ Advances(InternalQemuFwCfgDmaBytesDxe(n, TRUE), n, NeededFor(TRUE))
<1>1. CASE n = 0
  BY <1>1, NothingAdvances DEF InternalQemuFwCfgDmaBytesDxe
<1>2. CASE n # 0 /\ fMode # "dxe-sev"
  BY <1>2, PlainDmaAdvances DEF InternalQemuFwCfgDmaBytesDxe, NeededFor
<1>3. CASE n # 0 /\ fMode = "dxe-sev"
  <2>1. /\ InternalQemuFwCfgDmaBytesDxe(n, FALSE)
             = AllocFwCfgDmaAccessBuffer \o MapFwCfgDmaDataBuffer \o <<Do("start", n), Do("poll", n)>>
                 \o FreeFwCfgDmaAccessBuffer \o UnmapFwCfgDmaDataBuffer
        /\ NeededFor(FALSE) = DmaBuffers
    BY <1>3 DEF InternalQemuFwCfgDmaBytesDxe, NeededFor
  <2>2. /\ InternalQemuFwCfgDmaBytesDxe(n, TRUE)
             = AllocFwCfgDmaAccessBuffer \o << >> \o <<Do("start", n), Do("poll", n)>>
                 \o FreeFwCfgDmaAccessBuffer \o << >>
        /\ NeededFor(TRUE) = {"AccessBuffer", "AccessMapping"}
    BY <1>3 DEF InternalQemuFwCfgDmaBytesDxe, NeededFor
  <2> QED BY <2>1, <2>2, SevTransferAdvances, SevSkipAdvances
<1> QED
  BY <1>1, <1>2, <1>3

\* A DMA transfer of every instance moves its bytes.
LEMMA TransfersAdvance ==
  ASSUME NEW n \in Nat, UsesDma(n)
  PROVE  Advances(DmaBytes(n, FALSE), n, NeededFor(FALSE)) /\ Advances(DmaBytes(n, TRUE), n, NeededFor(TRUE))
<1>1. CASE fMode = "dxe-dma" \/ fMode = "dxe-sev"
  <2>1. \A skip : DmaBytes(n, skip) = InternalQemuFwCfgDmaBytesDxe(n, skip)
    BY <1>1 DEF DmaBytes
  <2> QED BY <2>1, DxeTransfers
<1>2. CASE fMode = "pei-dma" \/ fMode = "mmio-dma"
  <2>1. \A skip : DmaBytes(n, skip) = (IF n = 0 THEN << >> ELSE <<Do("start", n), Do("poll", n)>>)
    BY <1>2 DEF DmaBytes, InternalQemuFwCfgDmaBytesPei, DmaTransferBytes
  <2>2. \A skip : NeededFor(skip) = {}
    BY <1>2 DEF NeededFor
  <2>3. CASE n = 0
    BY <2>1, <2>3, NothingAdvances
  <2>4. CASE n # 0
    BY <2>1, <2>2, <2>4, PlainDmaAdvances
  <2> QED BY <2>3, <2>4
<1> QED
  BY <1>1, <1>2 DEF UsesDma

\* InternalQemuFwCfgReadBytes.
LEMMA ReadAdvances ==
  ASSUME NEW n \in Nat
  PROVE  Advances(InternalQemuFwCfgReadBytes(n), n, NeededFor(FALSE))
<1>1. CASE UsesDma(n)
  BY <1>1, TransfersAdvance DEF InternalQemuFwCfgReadBytes
<1>2. CASE ~UsesDma(n) /\ fMode = "mmio"
  BY <1>2, MmioReadAdvances DEF InternalQemuFwCfgReadBytes
<1>3. CASE ~UsesDma(n) /\ fMode # "mmio"
  BY <1>3, MoveAdvances DEF InternalQemuFwCfgReadBytes
<1> QED
  BY <1>1, <1>2, <1>3

\* Read, write and skip move as many bytes as they are asked for.
LEMMA BytesAdvance ==
  ASSUME NEW n \in Nat, ~NoDevice
  PROVE  /\ Advances(QemuFwCfgReadBytes(n), n, NeededFor(FALSE))
         /\ Advances(QemuFwCfgWriteBytes(n), n, NeededFor(FALSE))
         /\ Advances(QemuFwCfgSkipBytes(n), n, NeededFor(TRUE))
<1>1. Advances(QemuFwCfgReadBytes(n), n, NeededFor(FALSE))
  BY ReadAdvances DEF QemuFwCfgReadBytes
<1>2. CASE UsesDma(n)
  <2>1. QemuFwCfgWriteBytes(n) = DmaBytes(n, FALSE) /\ QemuFwCfgSkipBytes(n) = DmaBytes(n, TRUE)
    <3>1. fMode # "mmio"
      BY <1>2 DEF UsesDma
    <3> QED BY <1>2, <3>1 DEF QemuFwCfgWriteBytes, QemuFwCfgSkipBytes
  <2> QED BY <1>1, <1>2, <2>1, TransfersAdvance
<1>3. CASE ~UsesDma(n) /\ fMode = "mmio"
  <2>1. QemuFwCfgWriteBytes(n) = MmioWriteBytes(n) /\ QemuFwCfgSkipBytes(n) = MmioSkipBytes(n)
    BY <1>3 DEF QemuFwCfgWriteBytes, QemuFwCfgSkipBytes
  <2> QED BY <1>1, <2>1, MmioWriteAdvances, MmioSkipAdvances
<1>4. CASE ~UsesDma(n) /\ fMode # "mmio"
  <2>1. /\ QemuFwCfgWriteBytes(n) = <<Do("move", n)>>
        /\ QemuFwCfgSkipBytes(n) = Times(n \div FwSkipChunk, <<Do("move", FwSkipChunk)>>)
                                      \o If(n % FwSkipChunk > 0, Do("move", n % FwSkipChunk))
    BY <1>4 DEF QemuFwCfgWriteBytes, QemuFwCfgSkipBytes
  <2> QED BY <1>1, <2>1, MoveAdvances, MmioSkipAdvances
<1> QED
  BY <1>1, <1>2, <1>3, <1>4

\* An entry of the directory has 64 bytes.
LEMMA EntryAdvances ==
  ASSUME ~NoDevice
  PROVE  Advances(DirEntry, 64, NeededFor(FALSE))
<1>1. PICK need : need = NeededFor(FALSE)
  OBVIOUS
<1>2. PICK r4, r2, r56 : r4 = QemuFwCfgRead32 /\ r2 = QemuFwCfgRead16 /\ r56 = InternalQemuFwCfgReadBytes(56)
  OBVIOUS
<1>3. Advances(r4, 4, need) /\ Advances(r2, 2, need) /\ Advances(r56, 56, need)
  BY <1>1, <1>2, BytesAdvance, ReadAdvances DEF QemuFwCfgRead32, QemuFwCfgRead16
<1>4. Advances(r4 \o r2, 6, need)
  <2>1. Advances(r4 \o r2, 4 + 2, need)
    BY <1>3, AdvancesOn
  <2> QED BY <2>1
<1>5. Advances(r4 \o r2 \o r2, 8, need)
  <2>1. Advances(r4 \o r2 \o r2, 6 + 2, need)
    BY <1>3, <1>4, AdvancesOn
  <2> QED BY <2>1
<1>6. Advances(r4 \o r2 \o r2 \o r56, 64, need)
  <2>1. Advances(r4 \o r2 \o r2 \o r56, 8 + 56, need)
    BY <1>3, <1>5, AdvancesOn
  <2> QED BY <2>1
<1> QED
  BY <1>1, <1>2, <1>6 DEF DirEntry

\* The search stops at an entry or at the end of the directory.
LEMMA EntriesReadIsNat == \A name : EntriesRead(name) \in Nat
<1> TAKE name
<1> DEFINE hits == {i \in DOMAIN FwDir : FwDir[i].name = name}
<1>1. Len(FwDir) \in Nat /\ DOMAIN FwDir = 1 .. Len(FwDir)
  BY FwCfgAssumption
<1>2. hits \subseteq Nat
  BY <1>1
<1>3. CASE hits = {}
  BY <1>1, <1>3 DEF EntriesRead
<1>4. CASE hits # {}
  <2>1. \E i \in hits : \A j \in hits : i <= j
    BY <1>2, <1>4, LeastNumber
  <2>2. (CHOOSE i \in hits : \A j \in hits : i <= j) \in hits
    BY <2>1
  <2> QED BY <1>2, <1>4, <2>2 DEF EntriesRead
<1> QED
  BY <1>3, <1>4

\* Selecting an item puts the device at its start.
LEMMA SelectLeads ==
  ASSUME NEW sel \in Nat, NEW off \in Nat, NEW i \in Nat, NEW need
  PROVE  QemuFwCfgSelectItem(i) \in Seq(FwOps) /\ Leads(QemuFwCfgSelectItem(i), At(sel, off), At(i, 0), need)
<1>1. PICK a \in FwOps : a = Do("select", i)
  BY Accesses
<1>2. a.do = "select" /\ a.n = i
  BY <1>1, Accesses
<1>3. OneAccess(At(sel, off), a, At(i, 0), need)
  BY <1>2, PlaceFields DEF OneAccess, At
<1>4. At(sel, off) \in Place /\ At(i, 0) \in Place
  BY AtIsPlace
<1>5. Leads(<<a>>, At(sel, off), At(i, 0), need)
  BY <1>3, <1>4, OneLeads
<1>6. <<a>> \in Seq(FwOps)
  OBVIOUS
<1> QED
  BY <1>1, <1>5, <1>6 DEF QemuFwCfgSelectItem

\* Selecting an item and moving n bytes.
LEMMA SelectThen ==
  ASSUME NEW sel \in Nat, NEW off \in Nat, NEW i \in Nat, NEW v, NEW n \in Nat, NEW need, Advances(v, n, need)
  PROVE  /\ QemuFwCfgSelectItem(i) \o v \in Seq(FwOps)
         /\ Leads(QemuFwCfgSelectItem(i) \o v, At(sel, off), At(i, n), need)
<1>1. PICK u : u = QemuFwCfgSelectItem(i)
  OBVIOUS
<1>2. u \in Seq(FwOps) /\ Leads(u, At(sel, off), At(i, 0), need)
  BY <1>1, SelectLeads
<1>3. v \in Seq(FwOps) /\ Leads(v, At(i, 0), At(i, 0 + n), need) /\ 0 + n = n
  BY DEF Advances
<1>4. u \o v \in Seq(FwOps)
  BY <1>2, <1>3, AppendedOps
<1>5. Leads(u \o v, At(sel, off), At(i, n), need)
  BY <1>2, <1>3, LeadsOn
<1> QED
  BY <1>1, <1>4, <1>5

\* QemuFwCfgFindFile stops behind the entry it has found.
LEMMA FindFileLeads ==
  ASSUME NEW sel \in Nat, NEW off \in Nat, NEW name, ~NoDevice
  PROVE  /\ QemuFwCfgFindFile(name) \in Seq(FwOps)
         /\ Leads(QemuFwCfgFindFile(name), At(sel, off), At(FileDir, 4 + 64 * EntriesRead(name)), NeededFor(FALSE))
<1>1. PICK need : need = NeededFor(FALSE)
  OBVIOUS
<1>2. PICK k \in Nat : k = EntriesRead(name)
  BY EntriesReadIsNat
<1>3. PICK u, r, e : u = QemuFwCfgSelectItem(FileDir) /\ r = QemuFwCfgRead32 /\ e = Times(k, DirEntry)
  OBVIOUS
<1>4. PICK a \in FwOps : a = Do("found", k)
  BY Accesses
<1>5. Advances(r, 4, need)
  BY <1>1, <1>3, BytesAdvance DEF QemuFwCfgRead32
<1>6. Advances(e, k * 64, need)
  BY <1>1, <1>3, EntryAdvances, TimesAdvances
<1>7. k * 64 = 64 * k /\ k * 64 \in Nat /\ 64 * k \in Nat /\ 4 + 64 * k \in Nat /\ FileDir \in Nat
  BY DEF FileDir
<1>8. u \o r \in Seq(FwOps) /\ Leads(u \o r, At(sel, off), At(FileDir, 4), need)
  BY <1>3, <1>5, <1>7, SelectThen
<1>9. PICK v : v = u \o r
  OBVIOUS
<1>10. PICK w : w = v \o e
  OBVIOUS
<1>11. w \in Seq(FwOps) /\ Leads(w, At(sel, off), At(FileDir, 4 + 64 * k), need)
  <2>1. v \in Seq(FwOps) /\ Leads(v, At(sel, off), At(FileDir, 4), need)
    BY <1>8, <1>9
  <2>2. e \in Seq(FwOps) /\ Leads(e, At(FileDir, 4), At(FileDir, 4 + k * 64), need)
    BY <1>6, <1>7 DEF Advances
  <2>3. Leads(e, At(FileDir, 4), At(FileDir, 4 + 64 * k), need)
    BY <1>7, <2>2
  <2>4. v \o e \in Seq(FwOps)
    BY <2>1, <2>2, AppendedOps
  <2>5. Leads(v \o e, At(sel, off), At(FileDir, 4 + 64 * k), need)
    BY <2>1, <2>2, <2>3, LeadsOn
  <2> QED BY <1>10, <2>4, <2>5
<1>12. <<a>> \in Seq(FwOps) /\ Leads(<<a>>, At(FileDir, 4 + 64 * k), At(FileDir, 4 + 64 * k), need)
  <2>1. At(FileDir, 4 + 64 * k) \in Place
    BY <1>7, AtIsPlace
  <2>2. a.do = "found"
    BY <1>4, Accesses
  <2>3. OneAccess(At(FileDir, 4 + 64 * k), a, At(FileDir, 4 + 64 * k), need)
    BY <2>2 DEF OneAccess
  <2>4. <<a>> \in Seq(FwOps)
    OBVIOUS
  <2> QED BY <2>1, <2>3, <2>4, OneLeads
<1>13. w \o <<a>> \in Seq(FwOps)
  BY <1>11, <1>12, AppendedOps
<1>14. Leads(w \o <<a>>, At(sel, off), At(FileDir, 4 + 64 * k), need)
  BY <1>11, <1>12, LeadsOn
<1>15. QemuFwCfgFindFile(name) = w \o <<a>>
  BY <1>2, <1>3, <1>4, <1>9, <1>10 DEF QemuFwCfgFindFile
<1> QED
  BY <1>1, <1>2, <1>13, <1>14, <1>15

\* QemuFwCfgIsAvailable of the SEC instance.
LEMMA IsAvailableLeads ==
  ASSUME NEW sel \in Nat, NEW off \in Nat, ~NoDevice
  PROVE  /\ QemuFwCfgIsAvailableSec \in Seq(FwOps)
         /\ Leads(QemuFwCfgIsAvailableSec, At(sel, off), At(InterfaceVersion, 4), NeededFor(FALSE))
<1>1. PICK need : need = NeededFor(FALSE)
  OBVIOUS
<1>2. PICK u, r, v : u = QemuFwCfgSelectItem(Signature) /\ r = QemuFwCfgRead32
                     /\ v = QemuFwCfgSelectItem(InterfaceVersion)
  OBVIOUS
<1>3. Advances(r, 4, need) /\ Signature \in Nat /\ InterfaceVersion \in Nat /\ 0 \in Nat /\ 4 \in Nat
  BY <1>1, <1>2, BytesAdvance DEF QemuFwCfgRead32, Signature, InterfaceVersion
<1>4. PICK w : w = u \o r
  OBVIOUS
<1>5. w \in Seq(FwOps) /\ Leads(w, At(sel, off), At(Signature, 4), need)
  BY <1>2, <1>3, <1>4, SelectThen
<1>6. v \in Seq(FwOps) /\ Leads(v, At(Signature, 4), At(InterfaceVersion, 0), need)
  BY <1>2, <1>3, SelectLeads
<1>7. r \in Seq(FwOps) /\ Leads(r, At(InterfaceVersion, 0), At(InterfaceVersion, 0 + 4), need) /\ 0 + 4 = 4
  BY <1>3 DEF Advances
<1>8. w \o v \in Seq(FwOps)
  BY <1>5, <1>6, AppendedOps
<1>9. Leads(w \o v, At(sel, off), At(InterfaceVersion, 0), need)
  BY <1>5, <1>6, LeadsOn
<1>10. PICK x : x = w \o v
  OBVIOUS
<1>11. x \in Seq(FwOps) /\ Leads(x, At(sel, off), At(InterfaceVersion, 0), need)
  BY <1>8, <1>9, <1>10
<1>12. x \o r \in Seq(FwOps)
  BY <1>7, <1>11, AppendedOps
<1>13. Leads(x \o r, At(sel, off), At(InterfaceVersion, 4), need)
  BY <1>7, <1>11, LeadsOn
<1>14. QemuFwCfgIsAvailableSec = x \o r
  BY <1>2, <1>4, <1>10 DEF QemuFwCfgIsAvailableSec
<1> QED
  BY <1>1, <1>12, <1>13, <1>14

-----------------------------------------------------------------------------
\* The invariant holds initially.
LEMMA FwInvInit == FwInit => FwInv
<1> SUFFICES ASSUME FwInit PROVE FwInv
  OBVIOUS
<1>1. FwTypes
  BY DEF FwInit, FwTypes
<1>2. Holding(fDev.sel, fDev.off + fDma, "idle", fHeld) = At(0, 0) /\ At(fWant.sel, fWant.off) = At(0, 0)
  BY DEF FwInit, At
<1>3. Leads(fTodo, At(0, 0), At(0, 0), {})
  BY AtIsPlace, NoAccessLeads DEF FwInit
<1>4. OnTheWay("idle", {})
  BY <1>2, <1>3 DEF OnTheWay, FwInit
<1> QED
  BY <1>1, <1>4 DEF FwInv

\* An access list that is used up leads nowhere else.
LEMMA UsedUp ==
  ASSUME NEW s, NEW t, NEW need, Leads(<< >>, s, t, need)
  PROVE  s = t
<1>1. Len(<< >>) = 0
  OBVIOUS
<1> QED
  BY <1>1 DEF Leads

\* Between calls the device is where the callers want it.
LEMMA IdleInStep ==
  ASSUME FwInv, fTodo = << >>
  PROVE  fDev = fWant /\ fHeld = {} /\ fDma = 0
<1>1. PICK dma \in {"idle", "busy"}, need \in SUBSET DmaBuffers : OnTheWay(dma, need)
  BY DEF FwInv
<1>2. Holding(fDev.sel, fDev.off + fDma, dma, fHeld) = Holding(fWant.sel, fWant.off, "idle", {})
  BY <1>1, UsedUp DEF OnTheWay, At
<1>3. fDev.sel = fWant.sel /\ fDev.off + fDma = fWant.off /\ dma = "idle" /\ fHeld = {}
  BY <1>2, PlaceFields
<1>4. fDma \in Nat /\ fDev \in [sel : Nat, off : Nat] /\ fWant \in [sel : Nat, off : Nat]
  BY DEF FwInv, FwTypes
<1>5. fDma = 0
  BY <1>1, <1>3, <1>4 DEF OnTheWay
<1>6. fDev = fWant
  BY <1>3, <1>4, <1>5
<1> QED
  BY <1>3, <1>5, <1>6

\* A call whose accesses lead to what it asks for keeps the invariant.
LEMMA CallOnTheWay ==
  ASSUME FwInv, FwIdle, NEW ops \in Seq(FwOps), NEW sel \in Nat, NEW off \in Nat, NEW need \in SUBSET DmaBuffers,
         fMode = "dxe-sev" => {"AccessBuffer", "AccessMapping"} \subseteq need,
         FwCall(ops, [sel |-> sel, off |-> off]),
         Leads(ops, At(fWant.sel, fWant.off), At(sel, off), need)
  PROVE  FwInv'
<1>1. fDev = fWant /\ fHeld = {} /\ fDma = 0 /\ fWant \in [sel : Nat, off : Nat]
  BY IdleInStep DEF FwIdle, FwInv, FwTypes
<1>2. /\ fWant' = [sel |-> sel, off |-> off] /\ fTodo' = ops /\ fDev' = fDev /\ fDma' = fDma
      /\ fHeld' = fHeld /\ fMode' = fMode /\ fMode # "none"
  BY DEF FwCall, FwIdle
<1>3. FwTypes'
  <2>1. [sel |-> sel, off |-> off] \in [sel : Nat, off : Nat]
    OBVIOUS
  <2> QED BY <1>1, <1>2, <2>1 DEF FwTypes
<1>4. /\ Holding(fDev'.sel, fDev'.off + fDma', "idle", fHeld') = At(fWant.sel, fWant.off)
      /\ At(fWant'.sel, fWant'.off) = At(sel, off)
  BY <1>1, <1>2 DEF At
<1>5. Leads(fTodo', Holding(fDev'.sel, fDev'.off + fDma', "idle", fHeld'), At(fWant'.sel, fWant'.off), need)
  BY <1>2, <1>4
<1>6. OnTheWay("idle", need)'
  <2>1. fDma' = 0
    BY <1>1, <1>2
  <2>2. "idle" # "busy"
    OBVIOUS
  <2> QED BY <1>2, <1>5, <2>1, <2>2 DEF OnTheWay
<1> QED
  BY <1>3, <1>6 DEF FwInv

\* Without a device a call does nothing.
LEMMA CallUnavailable ==
  ASSUME FwInv, FwIdle, FwCall(<< >>, fWant)
  PROVE  FwInv'
<1>1. fWant' = fWant /\ fTodo' = fTodo /\ fDev' = fDev /\ fDma' = fDma /\ fHeld' = fHeld /\ fMode' = fMode
  BY DEF FwCall, FwIdle
<1> QED
  BY <1>1 DEF FwInv, FwTypes, OnTheWay

\* With encrypted memory a transfer needs the descriptor and its mapping.
LEMMA NeededBuffers ==
  \A skip : /\ NeededFor(skip) \in SUBSET DmaBuffers
            /\ fMode = "dxe-sev" => {"AccessBuffer", "AccessMapping"} \subseteq NeededFor(skip)
  BY DEF NeededFor, DmaBuffers

\* A call that moves n bytes.
LEMMA BytesCallOnTheWay ==
  ASSUME FwInv, FwIdle, ~NoDevice, NEW n \in Nat, NEW ops, NEW skip,
         Advances(ops, n, NeededFor(skip)), FwCall(ops, [fWant EXCEPT !.off = @ + n])
  PROVE  FwInv'
<1>1. fWant \in [sel : Nat, off : Nat]
  BY DEF FwInv, FwTypes
<1>2. PICK sel \in Nat, off \in Nat : sel = fWant.sel /\ off = fWant.off
  BY <1>1
<1>3. [fWant EXCEPT !.off = @ + n] = [sel |-> sel, off |-> off + n]
  BY <1>1, <1>2
<1>4. off + n \in Nat /\ ops \in Seq(FwOps) /\ Leads(ops, At(sel, off), At(sel, off + n), NeededFor(skip))
  BY DEF Advances
<1>5. FwCall(ops, [sel |-> sel, off |-> off + n])
  BY <1>3
<1>6. PICK need : need = NeededFor(skip)
  OBVIOUS
<1>7. need \in SUBSET DmaBuffers /\ (fMode = "dxe-sev" => {"AccessBuffer", "AccessMapping"} \subseteq need)
  BY <1>6, NeededBuffers
<1>8. Leads(ops, At(fWant.sel, fWant.off), At(sel, off + n), need)
  BY <1>2, <1>4, <1>6
<1> QED
  BY <1>4, <1>5, <1>7, <1>8, CallOnTheWay

\* Every call keeps the invariant.
LEMMA FwMembersOnTheWay ==
  ASSUME FwInv, FwMembers
  PROVE  FwInv'
<1>1. fWant \in [sel : Nat, off : Nat]
  BY DEF FwInv, FwTypes
<1>2. PICK sel \in Nat, off \in Nat : sel = fWant.sel /\ off = fWant.off
  BY <1>1
<1>3. /\ NeededFor(FALSE) \in SUBSET DmaBuffers
      /\ fMode = "dxe-sev" => {"AccessBuffer", "AccessMapping"} \subseteq NeededFor(FALSE)
  BY NeededBuffers
<1>4. FileDir \in Nat /\ 1 \in Nat /\ 0 \in Nat /\ 4 \in Nat /\ InterfaceVersion \in Nat
  BY DEF FileDir, InterfaceVersion
<1>5. ASSUME NEW i \in {1, FileDir},
             IF fMode = "unavailable" THEN FwCall(<< >>, fWant)
             ELSE FwCall(QemuFwCfgSelectItem(i), [sel |-> i, off |-> 0])
      PROVE  FwInv'
  <2>1. FwIdle
    BY <1>5 DEF FwCall
  <2>2. CASE FwCall(<< >>, fWant)
    BY <2>1, <2>2, CallUnavailable
  <2>3. CASE FwCall(QemuFwCfgSelectItem(i), [sel |-> i, off |-> 0])
    <3>1. i \in Nat
      BY <1>4
    <3>2. /\ QemuFwCfgSelectItem(i) \in Seq(FwOps)
          /\ Leads(QemuFwCfgSelectItem(i), At(fWant.sel, fWant.off), At(i, 0), NeededFor(FALSE))
      BY <1>2, <3>1, SelectLeads
    <3> QED BY <1>3, <1>4, <2>1, <2>3, <3>1, <3>2, CallOnTheWay
  <2> QED BY <1>5, <2>2, <2>3
<1>6. ASSUME NEW n \in FwSizes, NEW ops \in {QemuFwCfgReadBytes(n), QemuFwCfgWriteBytes(n), QemuFwCfgSkipBytes(n)},
             FwCall(ops, IF NoDevice THEN fWant ELSE [fWant EXCEPT !.off = @ + n])
      PROVE  FwInv'
  <2>1. FwIdle
    BY <1>6 DEF FwCall
  <2>2. CASE NoDevice
    <3>1. ops = << >>
      BY <2>2 DEF NoDevice, QemuFwCfgReadBytes, QemuFwCfgWriteBytes, QemuFwCfgSkipBytes, UsesDma
    <3> QED BY <1>6, <2>1, <2>2, <3>1, CallUnavailable
  <2>3. CASE ~NoDevice
    <3>1. n \in Nat
      BY FwCfgAssumption
    <3>2. Advances(ops, n, NeededFor(FALSE)) \/ Advances(ops, n, NeededFor(TRUE))
      BY <2>3, <3>1, BytesAdvance
    <3> QED BY <1>6, <2>1, <2>3, <3>1, <3>2, BytesCallOnTheWay
  <2> QED BY <2>2, <2>3
<1>7. ASSUME NEW name,
             FwCall(QemuFwCfgFindFile(name),
                    IF NoDevice THEN fWant ELSE [sel |-> FileDir, off |-> 4 + 64 * EntriesRead(name)])
      PROVE  FwInv'
  <2>1. FwIdle
    BY <1>7 DEF FwCall
  <2>2. CASE NoDevice
    <3>1. QemuFwCfgFindFile(name) = << >>
      BY <2>2 DEF QemuFwCfgFindFile
    <3> QED BY <1>7, <2>1, <2>2, <3>1, CallUnavailable
  <2>3. CASE ~NoDevice
    <3>1. PICK to \in Nat : to = 4 + 64 * EntriesRead(name)
      <4>1. PICK k \in Nat : k = EntriesRead(name)
        BY EntriesReadIsNat
      <4>2. 4 + 64 * k \in Nat
        OBVIOUS
      <4> QED BY <4>1, <4>2
    <3>2. /\ QemuFwCfgFindFile(name) \in Seq(FwOps)
          /\ Leads(QemuFwCfgFindFile(name), At(fWant.sel, fWant.off), At(FileDir, to), NeededFor(FALSE))
      BY <1>2, <2>3, <3>1, FindFileLeads
    <3>3. FwCall(QemuFwCfgFindFile(name), [sel |-> FileDir, off |-> to])
      BY <1>7, <2>3, <3>1
    <3> QED BY <1>3, <1>4, <2>1, <3>2, <3>3, CallOnTheWay
  <2> QED BY <2>2, <2>3
<1>8. ASSUME fMode = "sec", FwCall(QemuFwCfgIsAvailableSec, [sel |-> InterfaceVersion, off |-> 4])
      PROVE  FwInv'
  <2>1. FwIdle /\ ~NoDevice
    BY <1>8 DEF FwCall, NoDevice
  <2>2. /\ QemuFwCfgIsAvailableSec \in Seq(FwOps)
        /\ Leads(QemuFwCfgIsAvailableSec, At(fWant.sel, fWant.off), At(InterfaceVersion, 4), NeededFor(FALSE))
    BY <1>2, <2>1, IsAvailableLeads
  <2> QED BY <1>3, <1>4, <1>8, <2>1, <2>2, CallOnTheWay
<1> QED
  BY <1>5, <1>6, <1>7, <1>8 DEF FwMembers

\* The initialization of the instance keeps the invariant.
LEMMA FwStartOnTheWay ==
  ASSUME FwInv, FwStart
  PROVE  FwInv'
<1>1. fTodo = << >> /\ FwTypes /\ fMode = "none"
  BY DEF FwStart, FwInv, FwTypes
<1>2. fDma = 0 /\ fHeld = {}
  BY <1>1, IdleInStep
<1>3. fTodo' = << >> /\ fWant' = fDev' /\ fDma' = 0 /\ fHeld' = {}
  BY <1>1, <1>2 DEF FwStart
<1>4. fDev' \in [sel : Nat, off : Nat]
  <2>1. PICK start : /\ start[2] \in Nat /\ start[3] \in Nat
                     /\ fDev' = [sel |-> start[2], off |-> start[3]]
    BY DEF FwStart, QemuFwCfgInitializeDxe, QemuFwCfgInitializePei, QemuFwCfgInitializeMmio,
           InterfaceVersion, Signature
  <2> QED BY <2>1
<1>5. FwTypes'
  BY <1>1, <1>3, <1>4 DEF FwTypes
<1>6. PICK sel \in Nat, off \in Nat : fDev' = [sel |-> sel, off |-> off]
  BY <1>4
<1>7. Holding(fDev'.sel, fDev'.off + fDma', "idle", fHeld') = At(sel, off) /\ At(fWant'.sel, fWant'.off) = At(sel, off)
  BY <1>3, <1>6 DEF At
<1>8. Leads(fTodo', At(sel, off), At(sel, off), {})
  BY <1>3, AtIsPlace, NoAccessLeads
<1>9. OnTheWay("idle", {})'
  BY <1>3, <1>7, <1>8 DEF OnTheWay
<1> QED
  BY <1>5, <1>9 DEF FwInv

\* The bytes the host moves are those the descriptor stands for.
LEMMA HostDmaOnTheWay ==
  ASSUME FwInv, HostDma
  PROVE  FwInv'
<1>1. /\ fDev \in [sel : Nat, off : Nat] /\ fDma \in Nat /\ fDma > 0
      /\ fWant' = fWant /\ fTodo' = fTodo /\ fHeld' = fHeld /\ fMode' = fMode /\ fDma' = 0
      /\ fDev' = [fDev EXCEPT !.off = @ + fDma]
  BY DEF FwInv, FwTypes, HostDma
<1>2. /\ fDev' \in [sel : Nat, off : Nat] /\ fDev'.sel = fDev.sel /\ fDev'.off = fDev.off + fDma
      /\ fDev'.off + fDma' = fDev.off + fDma
  BY <1>1
<1>3. FwTypes'
  <2>1. fDma' \in Nat
    BY <1>1
  <2> QED BY <1>1, <1>2, <2>1 DEF FwInv, FwTypes
<1>4. PICK dma \in {"idle", "busy"}, need \in SUBSET DmaBuffers : OnTheWay(dma, need)
  BY DEF FwInv
<1>5. OnTheWay(dma, need)'
  <2>1. ~(fDma' > 0)
    BY <1>1
  <2> QED BY <1>1, <1>2, <1>4, <2>1 DEF OnTheWay
<1> QED
  BY <1>3, <1>4, <1>5 DEF FwInv

\* The device dev, n bytes the host has to move and the buffers held make the place u.
IsAtPlace(dev, n, held, u, need) ==
  /\ dev \in [sel : Nat, off : Nat] /\ n \in Nat /\ held \subseteq DmaBuffers
  /\ u.dma \in {"idle", "busy"}
  /\ n > 0 => u.dma = "busy"
  /\ u.dma = "busy" => need \subseteq held
  /\ u = Holding(dev.sel, dev.off + n, u.dma, held)

\* The host has nothing to do.
LEMMA IdleAtPlace ==
  ASSUME NEW sel \in Nat, NEW off \in Nat, NEW held \in SUBSET DmaBuffers, NEW need
  PROVE  IsAtPlace([sel |-> sel, off |-> off], 0, held, Holding(sel, off, "idle", held), need)
<1>1. PICK u : u = Holding(sel, off, "idle", held)
  OBVIOUS
<1>2. u.dma = "idle"
  BY <1>1, PlaceFields
<1>3. PICK dev : dev = [sel |-> sel, off |-> off]
  OBVIOUS
<1>4. dev \in [sel : Nat, off : Nat] /\ dev.sel = sel /\ dev.off = off /\ off + 0 = off
  BY <1>3
<1>5. IsAtPlace(dev, 0, held, u, need)
  BY <1>1, <1>2, <1>4 DEF IsAtPlace
<1> QED
  BY <1>1, <1>3, <1>5

\* The host has a descriptor.
LEMMA BusyAtPlace ==
  ASSUME NEW sel \in Nat, NEW off \in Nat, NEW n \in Nat, NEW held \in SUBSET DmaBuffers, NEW need,
         need \subseteq held
  PROVE  IsAtPlace([sel |-> sel, off |-> off], n, held, Holding(sel, off + n, "busy", held), need)
<1>1. PICK u : u = Holding(sel, off + n, "busy", held)
  OBVIOUS
<1>2. u.dma = "busy"
  BY <1>1, PlaceFields
<1>3. PICK dev : dev = [sel |-> sel, off |-> off]
  OBVIOUS
<1>4. dev \in [sel : Nat, off : Nat] /\ dev.sel = sel /\ dev.off = off
  BY <1>3
<1>5. IsAtPlace(dev, n, held, u, need)
  BY <1>1, <1>2, <1>4 DEF IsAtPlace
<1> QED
  BY <1>1, <1>3, <1>5

\* What an access carries.
LEMMA AccessFields == \A a \in FwOps : /\ a.do \in {"select", "move", "start", "poll", "found"} => a.n \in Nat
                                       /\ a.do \in {"take", "drop"} => a.n \in DmaBuffers
  BY DEF FwOps

\* An access takes the device to the next place.
LEMMA AccessReaches ==
  ASSUME NEW s, NEW a \in FwOps, NEW u \in Place, NEW need, IsAtPlace(fDev, fDma, fHeld, s, need), OneAccess(s, a, u, need),
         a.do = "poll" => fDma = 0,
         fDev' = (CASE a.do = "select" -> [sel |-> a.n, off |-> 0]
                    [] a.do = "move"   -> [fDev EXCEPT !.off = @ + a.n]
                    [] OTHER           -> fDev),
         fDma' = (IF a.do = "start" THEN a.n ELSE fDma),
         fHeld' = (CASE a.do = "take" -> fHeld \cup {a.n}
                     [] a.do = "drop" -> fHeld \ {a.n}
                     [] OTHER         -> fHeld)
  PROVE  IsAtPlace(fDev', fDma', fHeld', u, need)
<1>1. PICK sel \in Nat, off \in Nat : fDev = [sel |-> sel, off |-> off]
  BY DEF IsAtPlace
<1>2. PICK busy \in Nat, held \in SUBSET DmaBuffers : busy = fDma /\ held = fHeld
  BY DEF IsAtPlace
<1>3. /\ s.sel = sel /\ s.off = off + busy /\ s.held = held /\ (busy > 0 => s.dma = "busy")
      /\ s.dma \in {"idle", "busy"} /\ (s.dma = "busy" => need \subseteq held)
  BY <1>1, <1>2, PlaceFields DEF IsAtPlace
<1>4. ASSUME s.dma = "idle" PROVE busy = 0 /\ off + busy = off
  BY <1>3, <1>4
<1>5. CASE a.do = "select"
  <2>1. s.dma = "idle" /\ u = Holding(a.n, 0, "idle", s.held)
    BY <1>5 DEF OneAccess
  <2>2. a.n \in Nat /\ fDev' = [sel |-> a.n, off |-> 0] /\ fDma' = 0 /\ fHeld' = held
    BY <1>2, <1>4, <1>5, <2>1, AccessFields
  <2>3. u = Holding(a.n, 0, "idle", held)
    BY <1>3, <2>1
  <2> QED BY <2>2, <2>3, IdleAtPlace
<1>6. CASE a.do = "move"
  <2>1. s.dma = "idle" /\ u = Holding(s.sel, s.off + a.n, "idle", s.held)
    BY <1>6 DEF OneAccess
  <2>2. a.n \in Nat /\ fDev' = [sel |-> sel, off |-> off + a.n] /\ fDma' = 0 /\ fHeld' = held
    <3>1. a.n \in Nat
      BY <1>6, AccessFields
    <3>2. fDev' = [fDev EXCEPT !.off = @ + a.n]
      BY <1>6
    <3> QED BY <1>1, <1>2, <1>4, <1>6, <2>1, <3>1, <3>2
  <2>3. u = Holding(sel, off + a.n, "idle", held) /\ off + a.n \in Nat /\ off + a.n + 0 = off + a.n
    BY <1>3, <1>4, <2>1, <2>2
  <2> QED BY <2>2, <2>3, IdleAtPlace
<1>7. CASE a.do = "start"
  <2>1. s.dma = "idle" /\ u = Holding(s.sel, s.off + a.n, "busy", s.held) /\ need \subseteq held
    BY <1>3, <1>7 DEF OneAccess
  <2>2. a.n \in Nat /\ fDev' = [sel |-> sel, off |-> off] /\ fDma' = a.n /\ fHeld' = held
    BY <1>1, <1>2, <1>7, AccessFields
  <2>3. u = Holding(sel, off + a.n, "busy", held)
    BY <1>3, <1>4, <2>1
  <2> QED BY <2>1, <2>2, <2>3, BusyAtPlace
<1>8. CASE a.do = "poll"
  <2>1. u = Holding(s.sel, s.off, "idle", s.held) /\ busy = 0
    BY <1>2, <1>8 DEF OneAccess
  <2>2. fDev' = [sel |-> sel, off |-> off] /\ fDma' = 0 /\ fHeld' = held
    BY <1>1, <1>2, <1>8, <2>1
  <2>3. u = Holding(sel, off, "idle", held) /\ off + 0 = off
    BY <1>3, <2>1
  <2> QED BY <2>2, <2>3, IdleAtPlace
<1>9. CASE a.do = "take"
  <2>1. s.dma = "idle" /\ u = Holding(s.sel, s.off, "idle", s.held \cup {a.n})
    BY <1>9 DEF OneAccess
  <2>2. a.n \in DmaBuffers /\ fDev' = [sel |-> sel, off |-> off] /\ fDma' = 0 /\ fHeld' = held \cup {a.n}
    BY <1>1, <1>2, <1>4, <1>9, <2>1, AccessFields
  <2>3. u = Holding(sel, off, "idle", held \cup {a.n}) /\ off + 0 = off /\ held \cup {a.n} \subseteq DmaBuffers
    BY <1>3, <1>4, <2>1, <2>2
  <2> QED BY <2>2, <2>3, IdleAtPlace
<1>10. CASE a.do = "drop"
  <2>1. s.dma = "idle" /\ u = Holding(s.sel, s.off, "idle", s.held \ {a.n})
    BY <1>10 DEF OneAccess
  <2>2. fDev' = [sel |-> sel, off |-> off] /\ fDma' = 0 /\ fHeld' = held \ {a.n}
    BY <1>1, <1>2, <1>4, <1>10, <2>1
  <2>3. u = Holding(sel, off, "idle", held \ {a.n}) /\ off + 0 = off /\ held \ {a.n} \subseteq DmaBuffers
    BY <1>3, <1>4, <2>1, <2>2
  <2> QED BY <2>2, <2>3, IdleAtPlace
<1>11. CASE a.do = "found"
  <2>1. u = s /\ fDev' = fDev /\ fDma' = fDma /\ fHeld' = fHeld
    BY <1>11 DEF OneAccess
  <2> QED BY <2>1 DEF IsAtPlace
<1> QED
  BY <1>5, <1>6, <1>7, <1>8, <1>9, <1>10, <1>11 DEF OneAccess

\* Every access keeps the invariant.
LEMMA FwAccessOnTheWay ==
  ASSUME FwInv, FwAccess
  PROVE  FwInv'
<1>1. PICK dma \in {"idle", "busy"}, need \in SUBSET DmaBuffers : OnTheWay(dma, need)
  BY DEF FwInv
<1>2. PICK s : s = Holding(fDev.sel, fDev.off + fDma, dma, fHeld)
  OBVIOUS
<1>3. PICK t : t = At(fWant.sel, fWant.off)
  OBVIOUS
<1>4. fTodo \in Seq(FwOps) /\ fTodo # << >> /\ Leads(fTodo, s, t, need)
  BY <1>1, <1>2, <1>3 DEF FwInv, FwTypes, FwAccess, OnTheWay
<1>5. PICK u \in Place : OneAccess(s, Head(fTodo), u, need) /\ Leads(Tail(fTodo), u, t, need)
  BY <1>4, LeadsRest
<1>6. PICK a \in FwOps : a = Head(fTodo)
  BY <1>4
<1>7. IsAtPlace(fDev, fDma, fHeld, s, need)
  BY <1>1, <1>2, PlaceFields DEF IsAtPlace, FwInv, FwTypes, OnTheWay
<1>8. IsAtPlace(fDev', fDma', fHeld', u, need)
  <2>1. OneAccess(s, a, u, need)
    BY <1>5, <1>6
  <2>2. /\ a.do = "poll" => fDma = 0
        /\ fDev' = (CASE a.do = "select" -> [sel |-> a.n, off |-> 0]
                      [] a.do = "move"   -> [fDev EXCEPT !.off = @ + a.n]
                      [] OTHER           -> fDev)
        /\ fDma' = (IF a.do = "start" THEN a.n ELSE fDma)
        /\ fHeld' = (CASE a.do = "take" -> fHeld \cup {a.n}
                       [] a.do = "drop" -> fHeld \ {a.n}
                       [] OTHER         -> fHeld)
    BY <1>6 DEF FwAccess
  <2> QED BY <1>7, <2>1, <2>2, AccessReaches
<1>9. fTodo' = Tail(fTodo) /\ fWant' = fWant /\ fMode' = fMode /\ fMode # "none"
  BY <1>4 DEF FwAccess, FwInv, FwTypes
<1>10. FwTypes'
  <2>1. Tail(fTodo) \in Seq(FwOps)
    BY <1>4
  <2>2. fWant \in [sel : Nat, off : Nat]
    BY DEF FwInv, FwTypes
  <2> QED BY <1>8, <1>9, <2>1, <2>2 DEF FwTypes, IsAtPlace
<1>11. OnTheWay(u.dma, need)'
  <2>1. Leads(fTodo', Holding(fDev'.sel, fDev'.off + fDma', u.dma, fHeld'), At(fWant'.sel, fWant'.off), need)
    BY <1>3, <1>5, <1>8, <1>9 DEF IsAtPlace
  <2>2. fMode = "dxe-sev" => {"AccessBuffer", "AccessMapping"} \subseteq need
    BY <1>1, <1>4 DEF OnTheWay
  <2> QED BY <1>8, <1>9, <2>1, <2>2 DEF OnTheWay, IsAtPlace
<1>12. u.dma \in {"idle", "busy"}
  BY <1>8 DEF IsAtPlace
<1> QED
  BY <1>10, <1>11, <1>12 DEF FwInv

\* Every step keeps the invariant.
LEMMA FwInvStep == FwInv /\ [FwNext]_fVars => FwInv'
<1> SUFFICES ASSUME FwInv, [FwNext]_fVars PROVE FwInv'
  OBVIOUS
<1>1. CASE UNCHANGED fVars
  BY <1>1 DEF fVars, FwInv, FwTypes, OnTheWay
<1> QED
  BY <1>1, FwStartOnTheWay, FwMembersOnTheWay, FwAccessOnTheWay, HostDmaOnTheWay DEF FwNext

\* Only a buffer that the transfer needed is released.
LEMMA DropsNeeded ==
  ASSUME NEW v, NEW s, NEW t, NEW need, Leads(v, s, t, need)
  PROVE  \A i \in 1 .. Len(v) : v[i].do = "drop" => v[i].n \in need
  BY DEF Leads, Through, OneAccess

\* The invariant gives the property.
LEMMA FwInvInStep == FwInv => FwCfgInStep
<1> SUFFICES ASSUME FwInv PROVE FwCfgInStep
  OBVIOUS
<1>1. FwIdle => fDev = fWant /\ fHeld = {} /\ fDma = 0
  BY IdleInStep DEF FwIdle
<1>2. ASSUME fDma > 0, fMode = "dxe-sev"
      PROVE  /\ {"AccessBuffer", "AccessMapping"} \subseteq fHeld
             /\ (\E i \in DOMAIN fTodo : fTodo[i].do = "drop" /\ fTodo[i].n = "DataMapping") =>
                  "DataMapping" \in fHeld
  <2>1. PICK dma \in {"idle", "busy"}, need \in SUBSET DmaBuffers : OnTheWay(dma, need)
    BY DEF FwInv
  <2>2. fTodo # << >>
    BY <1>2, IdleInStep DEF FwInv, FwTypes
  <2>3. need \subseteq fHeld /\ {"AccessBuffer", "AccessMapping"} \subseteq need
    BY <1>2, <2>1, <2>2 DEF OnTheWay
  <2>4. fTodo \in Seq(FwOps) /\ DOMAIN fTodo = 1 .. Len(fTodo)
    BY DEF FwInv, FwTypes
  <2>5. \A i \in 1 .. Len(fTodo) : fTodo[i].do = "drop" => fTodo[i].n \in need
    BY <2>1, DropsNeeded DEF OnTheWay
  <2> QED BY <2>3, <2>4, <2>5
<1> QED
  BY <1>1, <1>2 DEF FwCfgInStep, DmaBacked

(***************************************************************************)
(* For every directory, every transfer size and every length of the skip   *)
(* buffer: between calls of QemuFwCfgLib the device is at the item and the *)
(* offset the callers have asked for, and no shared buffer is released     *)
(* while the host works on it.                                             *)
(***************************************************************************)
THEOREM FwCfgChannel == FwSpec => []FwCfgInStep
<1>1. FwSpec => []FwInv
  BY FwInvInit, FwInvStep, PTL DEF FwSpec
<1> QED
  BY <1>1, FwInvInStep, PTL
=============================================================================
