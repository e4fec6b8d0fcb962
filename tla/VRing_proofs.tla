---------------------------- MODULE VRing_proofs ----------------------------
(***************************************************************************)
(* Facts about the split virtqueue of VRing, for every ring size and every *)
(* IdxMod that it divides: what each step of the driver and of the host    *)
(* does to the two windows of the ring and to the account of its chains.   *)
(* The proofs about the drivers' queues rest on them.                      *)
(***************************************************************************)
EXTENDS VRing, FiniteSetTheorems, TLAPS

-----------------------------------------------------------------------------
(* Division and remainder.                                                 *)

\* A positive multiple is at least as large.
LEMMA MulGe ==
  ASSUME NEW m \in Nat \ {0}, NEW d \in Int, d >= 1
  PROVE  m * d >= m
  OBVIOUS

\* Multiplication distributes over subtraction.
LEMMA MulSub ==
  ASSUME NEW m \in Int, NEW a \in Int, NEW b \in Int
  PROVE  m * a - m * b = m * (a - b)
  OBVIOUS

\* Quotient and remainder.
LEMMA DivMod ==
  ASSUME NEW m \in Nat \ {0}, NEW x \in Int
  PROVE  /\ x \div m \in Int
         /\ x % m \in 0 .. m - 1
         /\ x = m * (x \div m) + (x % m)
  OBVIOUS

\* Quotient and remainder are unique.
LEMMA ModUnique ==
  ASSUME NEW m \in Nat \ {0}, NEW x \in Int, NEW q \in Int, NEW r \in 0 .. m - 1,
         x = m * q + r
  PROVE  x % m = r
  <1> DEFINE p == x \div m
             s == x % m
  <1>1. p \in Int /\ s \in 0 .. m - 1 /\ x = m * p + s
    BY DivMod
  <1> HIDE DEF p, s
  <1>2. m * (p - q) = r - s /\ m * (q - p) = s - r
    BY <1>1, MulSub
  <1>3. ~(p - q >= 1)
    BY <1>1, <1>2, MulGe
  <1>4. ~(q - p >= 1)
    BY <1>1, <1>2, MulGe
  <1>5. p = q
    BY <1>1, <1>3, <1>4
  <1> QED
    BY <1>1, <1>5 DEF s

\* Consecutive numbers have different remainders.
LEMMA ModInjective ==
  ASSUME NEW m \in Nat \ {0}, NEW x \in Int, NEW i \in 0 .. m - 1, NEW j \in 0 .. m - 1,
         (x + i) % m = (x + j) % m
  PROVE  i = j
  <1> DEFINE p == (x + i) \div m
             q == (x + j) \div m
             r == (x + i) % m
  <1>a. p \in Int /\ r \in 0 .. m - 1 /\ x + i = m * p + r
    <2>1. x + i \in Int
      OBVIOUS
    <2> QED
      BY <2>1, DivMod
  <1>b. q \in Int /\ x + j = m * q + r
    <2>1. x + j \in Int
      OBVIOUS
    <2>2. q \in Int /\ x + j = m * q + ((x + j) % m)
      BY <2>1, DivMod
    <2> QED
      BY <2>2
  <1>1. p \in Int /\ q \in Int /\ r \in 0 .. m - 1 /\ x + i = m * p + r /\ x + j = m * q + r
    BY <1>a, <1>b
  <1> HIDE DEF p, q, r
  <1>2. m * (p - q) = i - j /\ m * (q - p) = j - i
    BY <1>1, MulSub
  <1>3. ~(p - q >= 1)
    BY <1>1, <1>2, MulGe
  <1>4. ~(q - p >= 1)
    BY <1>1, <1>2, MulGe
  <1> QED
    BY <1>1, <1>3, <1>4

\* Wrapping at a multiple of the ring size does not change the slot.
LEMMA ModWrap ==
  ASSUME NEW m \in Nat \ {0}, NEW w \in Nat, w % m = 0, NEW x \in Int
  PROVE  (x - w) % m = x % m
  <1> DEFINE p == x \div m
             r == x % m
             c == w \div m
  <1>1. p \in Int /\ c \in Int /\ r \in 0 .. m - 1 /\ x = m * p + r /\ w = m * c
    BY DivMod
  <1> HIDE DEF p, c, r
  <1>2. x - w = m * (p - c) + r
    BY <1>1, MulSub
  <1>3. (x - w) % m = r
    BY <1>1, <1>2, ModUnique
  <1> QED
    BY <1>3 DEF r

-----------------------------------------------------------------------------
(* Free-running indices.                                                   *)

\* An index stays in range.
LEMMA IdxAddType ==
  ASSUME IdxMod \in Nat \ {0}, NEW i \in Int, NEW n \in Int
  PROVE  IdxAdd(i, n) \in Idx
  BY DivMod DEF IdxAdd, Idx

\* Indices without the remainder, for steps of less than a turn.
LEMMA IdxAddCases ==
  ASSUME IdxMod \in Nat \ {0}, NEW i \in Idx, NEW n \in Idx
  PROVE  IdxAdd(i, n) = IF i + n < IdxMod THEN i + n ELSE i + n - IdxMod
  BY DEF IdxAdd, Idx

\* How far one index is ahead of another, without the remainder.
LEMMA AheadCases ==
  ASSUME IdxMod \in Nat \ {0}, NEW i \in Idx, NEW j \in Idx
  PROVE  Ahead(i, j) = IF i <= j THEN j - i ELSE j - i + IdxMod
  BY DEF Ahead, Idx

\* An index that moves on gets ahead by one, as long as it does not lap.
LEMMA AheadAdd ==
  ASSUME IdxMod \in Nat \ {0}, NEW i \in Idx, NEW j \in Idx, Ahead(i, j) + 1 < IdxMod
  PROVE  Ahead(i, IdxAdd(j, 1)) = Ahead(i, j) + 1
  <1>1. 1 \in Idx
    BY AheadCases DEF Idx
  <1>2. IdxAdd(j, 1) \in Idx
    BY IdxAddType DEF Idx
  <1>3. Ahead(i, j) = IF i <= j THEN j - i ELSE j - i + IdxMod
    BY AheadCases
  <1>4. IdxAdd(j, 1) = IF j + 1 < IdxMod THEN j + 1 ELSE j + 1 - IdxMod
    BY <1>1, IdxAddCases
  <1>5. Ahead(i, IdxAdd(j, 1)) = IF i <= IdxAdd(j, 1) THEN IdxAdd(j, 1) - i
                                 ELSE IdxAdd(j, 1) - i + IdxMod
    BY <1>2, AheadCases
  <1> QED
    BY <1>3, <1>4, <1>5 DEF Idx

\* An index that catches up loses one.
LEMMA AheadSub ==
  ASSUME IdxMod \in Nat \ {0}, NEW i \in Idx, NEW j \in Idx, i # j
  PROVE  /\ Ahead(i, j) \in 1 .. IdxMod - 1
         /\ Ahead(IdxAdd(i, 1), j) = Ahead(i, j) - 1
  <1>1. 1 \in Idx
    BY DEF Idx
  <1>2. IdxAdd(i, 1) \in Idx
    BY IdxAddType DEF Idx
  <1>3. Ahead(i, j) = IF i <= j THEN j - i ELSE j - i + IdxMod
    BY AheadCases
  <1>4. IdxAdd(i, 1) = IF i + 1 < IdxMod THEN i + 1 ELSE i + 1 - IdxMod
    BY <1>1, IdxAddCases
  <1>5. Ahead(IdxAdd(i, 1), j) = IF IdxAdd(i, 1) <= j THEN j - IdxAdd(i, 1)
                                 ELSE j - IdxAdd(i, 1) + IdxMod
    BY <1>2, AheadCases
  <1> QED
    BY <1>3, <1>4, <1>5 DEF Idx

\* It is 0 only for the same index.
LEMMA AheadType ==
  ASSUME IdxMod \in Nat \ {0}, NEW i \in Idx, NEW j \in Idx
  PROVE  Ahead(i, j) \in Idx /\ (Ahead(i, j) = 0 <=> i = j)
  BY AheadCases DEF Idx

\* The index that is n ahead.
LEMMA AheadReach ==
  ASSUME IdxMod \in Nat \ {0}, NEW i \in Idx, NEW j \in Idx
  PROVE  IdxAdd(i, Ahead(i, j)) = j
  <1>1. Ahead(i, j) \in Idx
    BY AheadType
  <1>2. Ahead(i, j) = IF i <= j THEN j - i ELSE j - i + IdxMod
    BY AheadCases
  <1>3. IdxAdd(i, Ahead(i, j)) = IF i + Ahead(i, j) < IdxMod THEN i + Ahead(i, j)
                                 ELSE i + Ahead(i, j) - IdxMod
    BY <1>1, IdxAddCases
  <1> QED
    BY <1>2, <1>3 DEF Idx

\* Steps add up.
LEMMA IdxAddShift ==
  ASSUME IdxMod \in Nat \ {0}, NEW i \in Idx, NEW k \in Nat, k + 1 < IdxMod
  PROVE  IdxAdd(IdxAdd(i, 1), k) = IdxAdd(i, k + 1)
  <1>1. 1 \in Idx /\ k \in Idx /\ k + 1 \in Idx
    BY DEF Idx
  <1>2. IdxAdd(i, 1) \in Idx
    BY <1>1, IdxAddType DEF Idx
  <1>3. IdxAdd(i, 1) = IF i + 1 < IdxMod THEN i + 1 ELSE i + 1 - IdxMod
    BY <1>1, IdxAddCases
  <1>4. IdxAdd(i, k + 1) = IF i + (k + 1) < IdxMod THEN i + (k + 1) ELSE i + (k + 1) - IdxMod
    BY <1>1, IdxAddCases
  <1>5. IdxAdd(IdxAdd(i, 1), k) = IF IdxAdd(i, 1) + k < IdxMod THEN IdxAdd(i, 1) + k
                                  ELSE IdxAdd(i, 1) + k - IdxMod
    BY <1>1, <1>2, IdxAddCases
  <1> QED
    BY <1>3, <1>4, <1>5 DEF Idx

\* The indices of one turn of the ring address different slots.
LEMMA SlotInjective ==
  ASSUME NEW qs, ValidQueueSize(qs), NEW i \in Idx, NEW j \in 0 .. qs - 1, NEW k \in 0 .. qs - 1,
         IdxAdd(i, j) % qs = IdxAdd(i, k) % qs
  PROVE  j = k
  <1>1. qs \in Nat \ {0} /\ IdxMod \in Nat \ {0} /\ qs <= IdxMod /\ IdxMod % qs = 0
    BY DEF ValidQueueSize
  <1>2. ASSUME NEW n \in 0 .. qs - 1 PROVE IdxAdd(i, n) % qs = (i + n) % qs
    <2> DEFINE x == i + n
    <2>1. n \in Idx /\ x \in Int
      BY <1>1 DEF Idx
    <2>2. IdxAdd(i, n) = x \/ IdxAdd(i, n) = x - IdxMod
      BY <1>1, <2>1, IdxAddCases
    <2> HIDE DEF x
    <2>3. (x - IdxMod) % qs = x % qs
      BY <1>1, <2>1, ModWrap
    <2>4. IdxAdd(i, n) % qs = x % qs
      BY <2>2, <2>3
    <2> QED
      BY <2>4 DEF x
  <1>3. (i + j) % qs = (i + k) % qs
    BY <1>2
  <1>4. i \in Int
    BY <1>1 DEF Idx
  <1> QED
    BY <1>1, <1>3, <1>4, ModInjective

\* The same facts, for the index of a ring of a valid size.
LEMMA RingIndex ==
  ASSUME NEW qs, ValidQueueSize(qs), NEW i \in Idx
  PROVE  /\ qs \in Nat \ {0} /\ IdxMod \in Nat \ {0} /\ qs <= IdxMod
         /\ i % qs \in 0 .. qs - 1
         /\ IdxAdd(i, 0) = i
         /\ IdxAdd(i, 1) \in Idx
         /\ \A j \in Idx : Ahead(i, j) \in Nat /\ Ahead(i, j) < IdxMod
         /\ \A k \in Nat : IdxAdd(i, k) \in Idx /\ IdxAdd(i, k) % qs \in 0 .. qs - 1
  <1>1. qs \in Nat \ {0} /\ IdxMod \in Nat \ {0} /\ qs <= IdxMod
    BY DEF ValidQueueSize
  <1>2. i \in Int /\ 0 \in Idx
    BY <1>1 DEF Idx
  <1>3. \A k \in Nat : IdxAdd(i, k) \in Idx
    BY <1>1, <1>2, IdxAddType
  <1>4. \A x \in Idx : x % qs \in 0 .. qs - 1
    <2>1. \A x \in Idx : x \in Int
      BY <1>1 DEF Idx
    <2> QED
      BY <1>1, <2>1, DivMod
  <1>5. IdxAdd(i, 0) = i
    BY <1>1, <1>2, IdxAddCases DEF Idx
  <1>6. \A j \in Idx : Ahead(i, j) \in Nat /\ Ahead(i, j) < IdxMod
    BY <1>1, AheadType DEF Idx
  <1> QED
    BY <1>1, <1>3, <1>4, <1>5, <1>6

-----------------------------------------------------------------------------
(* What the steps of the two sides do to the windows.                      *)

\* A driver that fills the next slot touches no chain on its way to the host.
LEMMA PutAvailWindows ==
  ASSUME NEW qs, ValidQueueSize(qs), NEW Id, NEW L,
         NEW r \in VRingType(qs, Id, L), NEW h \in HostType(Id), NEW x \in Id,
         Ahead(h.idx, r.availIdx) < qs
  PROVE  /\ PutAvail(r, x) \in VRingType(qs, Id, L)
         /\ PutAvail(r, x).availIdx = r.availIdx
         /\ PutAvail(r, x).availRing[r.availIdx % qs] = x
         /\ PutAvail(r, x).usedRing = r.usedRing
         /\ PutAvail(r, x).usedIdx = r.usedIdx
         /\ AvailWindow(PutAvail(r, x), h) = AvailWindow(r, h)
  <1> DEFINE s == PutAvail(r, x)
             n == Ahead(h.idx, r.availIdx)
  <1>1. qs \in Nat \ {0} /\ IdxMod \in Nat \ {0}
    BY DEF ValidQueueSize
  <1>2. /\ r.size = qs /\ r.availIdx \in Idx /\ h.idx \in Idx
        /\ r.availRing \in [0 .. qs - 1 -> Id]
    BY DEF VRingType, HostType
  <1>3. r.availIdx % qs \in 0 .. qs - 1
    BY <1>2, RingIndex
  <1>4. s = [r EXCEPT !.availRing = [r.availRing EXCEPT ![r.availIdx % qs] = x]]
    BY <1>2 DEF PutAvail
  <1>5. s \in VRingType(qs, Id, L)
    BY <1>3, <1>4 DEF VRingType
  <1>6. /\ s.availIdx = r.availIdx /\ s.availRing = [r.availRing EXCEPT ![r.availIdx % qs] = x]
        /\ s.usedRing = r.usedRing /\ s.usedIdx = r.usedIdx /\ s.size = qs
    BY <1>2, <1>4 DEF VRingType
  <1>7. n \in 0 .. qs - 1
    <2>1. n \in Nat
      BY <1>2, RingIndex
    <2> QED
      BY <1>1, <2>1
  <1>8. ASSUME NEW k \in 0 .. n - 1
        PROVE  s.availRing[IdxAdd(h.idx, k) % qs] = r.availRing[IdxAdd(h.idx, k) % qs]
    <2>1. k \in 0 .. qs - 1 /\ k # n
      BY <1>1, <1>7
    <2>2. IdxAdd(h.idx, n) = r.availIdx
      BY <1>1, <1>2, AheadReach
    <2>3. IdxAdd(h.idx, k) % qs # r.availIdx % qs
      BY <2>1, <2>2, <1>2, <1>7, SlotInjective
    <2>4. IdxAdd(h.idx, k) % qs \in 0 .. qs - 1
      <3>1. k \in Nat
        BY <2>1
      <3> QED
        BY <1>2, <3>1, RingIndex
    <2> QED
      BY <2>3, <2>4, <1>2, <1>6
  <1>9. AvailWindow(s, h) = AvailWindow(r, h)
    BY <1>2, <1>6, <1>8 DEF AvailWindow
  <1> QED
    BY <1>2, <1>3, <1>5, <1>6, <1>9

\* Moving the available index on makes the slot filled last the newest one.
LEMMA PublishWindows ==
  ASSUME NEW qs, ValidQueueSize(qs), NEW Id, NEW L,
         NEW r \in VRingType(qs, Id, L), NEW h \in HostType(Id),
         Ahead(h.idx, r.availIdx) + 1 < IdxMod
  PROVE  /\ PublishAvail(r, 1) \in VRingType(qs, Id, L)
         /\ PublishAvail(r, 1).usedRing = r.usedRing
         /\ PublishAvail(r, 1).usedIdx = r.usedIdx
         /\ AvailWindow(PublishAvail(r, 1), h) =
              [k \in 0 .. Ahead(h.idx, r.availIdx) |->
                 IF k < Ahead(h.idx, r.availIdx) THEN AvailWindow(r, h)[k]
                 ELSE r.availRing[r.availIdx % qs]]
  <1> DEFINE s == PublishAvail(r, 1)
             n == Ahead(h.idx, r.availIdx)
  <1>1. qs \in Nat \ {0} /\ IdxMod \in Nat \ {0}
    BY DEF ValidQueueSize
  <1>2. r.size = qs /\ r.availIdx \in Idx /\ h.idx \in Idx
    BY DEF VRingType, HostType
  <1>3. s = [r EXCEPT !.availIdx = IdxAdd(r.availIdx, 1)]
    BY DEF PublishAvail
  <1>4. IdxAdd(r.availIdx, 1) \in Idx
    BY <1>2, RingIndex
  <1>5. s \in VRingType(qs, Id, L)
    BY <1>3, <1>4 DEF VRingType
  <1>6. /\ s.availIdx = IdxAdd(r.availIdx, 1) /\ s.availRing = r.availRing
        /\ s.usedRing = r.usedRing /\ s.usedIdx = r.usedIdx /\ s.size = qs
    BY <1>2, <1>3 DEF VRingType
  <1>7. n \in Nat /\ Ahead(h.idx, s.availIdx) = n + 1
    BY <1>1, <1>2, <1>6, AheadAdd, RingIndex
  <1>8. IdxAdd(h.idx, n) = r.availIdx
    BY <1>1, <1>2, AheadReach
  <1>9. AvailWindow(s, h) = [k \in 0 .. n |-> r.availRing[IdxAdd(h.idx, k) % qs]]
    BY <1>6, <1>7 DEF AvailWindow
  <1>10. ASSUME NEW k \in 0 .. n
         PROVE  r.availRing[IdxAdd(h.idx, k) % qs] =
                  IF k < n THEN AvailWindow(r, h)[k] ELSE r.availRing[r.availIdx % qs]
    BY <1>2, <1>7, <1>8 DEF AvailWindow
  <1> QED
    BY <1>5, <1>6, <1>9, <1>10

\* The host takes the oldest chain published.
LEMMA FetchWindows ==
  ASSUME NEW qs, ValidQueueSize(qs), NEW Id, NEW L,
         NEW r \in VRingType(qs, Id, L), NEW h \in HostType(Id),
         HostCanFetch(r, h)
  PROVE  /\ Ahead(h.idx, r.availIdx) \in Nat \ {0}
         /\ AvailWindow(r, h)[0] \in Id
         /\ HostFetch(r, h) \in HostType(Id)
         /\ HostFetch(r, h).held = h.held \cup {AvailWindow(r, h)[0]}
         /\ AvailWindow(r, HostFetch(r, h)) =
              [k \in 0 .. Ahead(h.idx, r.availIdx) - 2 |-> AvailWindow(r, h)[k + 1]]
  <1> DEFINE g == HostFetch(r, h)
             n == Ahead(h.idx, r.availIdx)
  <1>1. qs \in Nat \ {0} /\ IdxMod \in Nat \ {0}
    BY DEF ValidQueueSize
  <1>2. /\ r.size = qs /\ r.availIdx \in Idx /\ h.idx \in Idx /\ h.held \subseteq Id
        /\ r.availRing \in [0 .. qs - 1 -> Id]
    BY DEF VRingType, HostType
  <1>3. n \in 1 .. IdxMod - 1 /\ Ahead(IdxAdd(h.idx, 1), r.availIdx) = n - 1
    BY <1>1, <1>2, AheadSub DEF HostCanFetch
  <1>4. IdxAdd(h.idx, 0) = h.idx /\ IdxAdd(h.idx, 1) \in Idx
    BY <1>2, RingIndex
  <1>5. h.idx % qs \in 0 .. qs - 1
    BY <1>2, RingIndex
  <1>6. AvailWindow(r, h)[0] = r.availRing[h.idx % qs]
    BY <1>2, <1>3, <1>4 DEF AvailWindow
  <1>7. g = [idx |-> IdxAdd(h.idx, 1), held |-> h.held \cup {r.availRing[h.idx % qs]}]
    BY <1>2 DEF HostFetch
  <1>8. g \in HostType(Id) /\ r.availRing[h.idx % qs] \in Id
    <2>1. r.availRing[h.idx % qs] \in Id
      BY <1>2, <1>5
    <2>2. h.held \cup {r.availRing[h.idx % qs]} \subseteq Id
      BY <1>2, <2>1
    <2> QED
      BY <1>4, <1>7, <2>1, <2>2 DEF HostType
  <1>9. ASSUME NEW k \in 0 .. n - 2
        PROVE  /\ k + 1 \in 0 .. n - 1
               /\ IdxAdd(IdxAdd(h.idx, 1), k) = IdxAdd(h.idx, k + 1)
    BY <1>1, <1>2, <1>3, IdxAddShift
  <1>10. AvailWindow(r, g) = [k \in 0 .. n - 2 |-> r.availRing[IdxAdd(h.idx, k + 1) % qs]]
    <2>1. AvailWindow(r, g) = [k \in 0 .. n - 2 |-> r.availRing[IdxAdd(IdxAdd(h.idx, 1), k) % qs]]
      BY <1>2, <1>3, <1>7 DEF AvailWindow
    <2> QED
      BY <2>1, <1>9
  <1>11. AvailWindow(r, g) = [k \in 0 .. n - 2 |-> AvailWindow(r, h)[k + 1]]
    BY <1>2, <1>9, <1>10 DEF AvailWindow
  <1> QED
    <2>1. n \in Nat \ {0}
      BY <1>3
    <2>2. g.held = h.held \cup {AvailWindow(r, h)[0]}
      BY <1>6, <1>7
    <2> QED
      BY <1>6, <1>8, <1>11, <2>1, <2>2

\* The host returns a chain in the next slot of the used ring.
LEMMA PutUsedWindows ==
  ASSUME NEW qs, ValidQueueSize(qs), NEW Id, NEW L,
         NEW r \in VRingType(qs, Id, L), NEW last \in Idx, NEW d \in Id, NEW len \in L,
         Ahead(last, r.usedIdx) < qs, Ahead(last, r.usedIdx) + 1 < IdxMod
  PROVE  /\ PutUsed(r, d, len) \in VRingType(qs, Id, L)
         /\ PutUsed(r, d, len).availRing = r.availRing
         /\ PutUsed(r, d, len).availIdx = r.availIdx
         /\ PutUsed(r, d, len).usedIdx = IdxAdd(r.usedIdx, 1)
         /\ UsedWindow(PutUsed(r, d, len), last) =
              [k \in 0 .. Ahead(last, r.usedIdx) |->
                 IF k < Ahead(last, r.usedIdx) THEN UsedWindow(r, last)[k]
                 ELSE [id |-> d, len |-> len]]
  <1> DEFINE s == PutUsed(r, d, len)
             n == Ahead(last, r.usedIdx)
             e == [id |-> d, len |-> len]
  <1>1. qs \in Nat \ {0} /\ IdxMod \in Nat \ {0}
    BY DEF ValidQueueSize
  <1>2. /\ r.size = qs /\ r.usedIdx \in Idx
        /\ r.usedRing \in [0 .. qs - 1 -> UsedElem(Id, L)]
    BY DEF VRingType
  <1>3. r.usedIdx % qs \in 0 .. qs - 1 /\ IdxAdd(r.usedIdx, 1) \in Idx
    BY <1>2, RingIndex
  <1>4. e \in UsedElem(Id, L)
    BY DEF UsedElem
  <1>5. s = [r EXCEPT !.usedRing = [r.usedRing EXCEPT ![r.usedIdx % qs] = e],
                      !.usedIdx = IdxAdd(r.usedIdx, 1)]
    BY <1>2 DEF PutUsed
  <1>6. [r.usedRing EXCEPT ![r.usedIdx % qs] = e] \in [0 .. qs - 1 -> UsedElem(Id, L)]
    BY <1>2, <1>3, <1>4
  <1>7. s \in VRingType(qs, Id, L)
    BY <1>3, <1>5, <1>6 DEF VRingType
  <1>8. /\ s.usedIdx = IdxAdd(r.usedIdx, 1) /\ s.usedRing = [r.usedRing EXCEPT ![r.usedIdx % qs] = e]
        /\ s.availRing = r.availRing /\ s.availIdx = r.availIdx /\ s.size = qs
    BY <1>2, <1>5 DEF VRingType
  <1>9. n \in Nat /\ Ahead(last, s.usedIdx) = n + 1
    BY <1>1, <1>2, <1>8, AheadAdd, RingIndex
  <1>10. IdxAdd(last, n) = r.usedIdx
    BY <1>1, <1>2, AheadReach
  <1>11. UsedWindow(s, last) = [k \in 0 .. n |-> s.usedRing[IdxAdd(last, k) % qs]]
    BY <1>8, <1>9 DEF UsedWindow
  <1>12. ASSUME NEW k \in 0 .. n
         PROVE  s.usedRing[IdxAdd(last, k) % qs] =
                  IF k < n THEN UsedWindow(r, last)[k] ELSE e
    <2>1. CASE k = n
      <3>1. IdxAdd(last, k) = r.usedIdx /\ ~(k < n)
        BY <2>1, <1>9, <1>10
      <3>2. s.usedRing[r.usedIdx % qs] = e
        BY <1>2, <1>3, <1>8
      <3> QED
        BY <3>1, <3>2
    <2>2. CASE k # n
      <3>1. k \in 0 .. qs - 1 /\ n \in 0 .. qs - 1 /\ k < n /\ k \in Nat /\ k \in 0 .. n - 1
        BY <2>2, <1>1, <1>9
      <3>2. IdxAdd(last, k) % qs # r.usedIdx % qs
        BY <2>2, <3>1, <1>10, SlotInjective
      <3>3. IdxAdd(last, k) % qs \in 0 .. qs - 1
        BY <3>1, RingIndex
      <3>4. s.usedRing[IdxAdd(last, k) % qs] = r.usedRing[IdxAdd(last, k) % qs]
        BY <3>2, <3>3, <1>2, <1>8
      <3>5. UsedWindow(r, last)[k] = r.usedRing[IdxAdd(last, k) % qs]
        BY <3>1, <1>2 DEF UsedWindow
      <3> QED
        BY <3>1, <3>4, <3>5
    <2> QED
      BY <2>1, <2>2
  <1> QED
    BY <1>7, <1>8, <1>11, <1>12

\* The driver consumes the oldest element returned.
LEMMA ConsumeWindows ==
  ASSUME NEW qs, ValidQueueSize(qs), NEW Id, NEW L,
         NEW r \in VRingType(qs, Id, L), NEW last \in Idx, last # r.usedIdx
  PROVE  /\ Ahead(last, r.usedIdx) \in Nat \ {0}
         /\ IdxAdd(last, 1) \in Idx
         /\ Ahead(IdxAdd(last, 1), r.usedIdx) = Ahead(last, r.usedIdx) - 1
         /\ UsedWindow(r, last)[0] = NextUsed(r, last)
         /\ NextUsed(r, last) \in UsedElem(Id, L)
         /\ UsedWindow(r, IdxAdd(last, 1)) =
              [k \in 0 .. Ahead(last, r.usedIdx) - 2 |-> UsedWindow(r, last)[k + 1]]
  <1> DEFINE n == Ahead(last, r.usedIdx)
             next == IdxAdd(last, 1)
  <1>1. qs \in Nat \ {0} /\ IdxMod \in Nat \ {0}
    BY DEF ValidQueueSize
  <1>2. /\ r.size = qs /\ r.usedIdx \in Idx
        /\ r.usedRing \in [0 .. qs - 1 -> UsedElem(Id, L)]
    BY DEF VRingType
  <1>3. n \in 1 .. IdxMod - 1 /\ Ahead(next, r.usedIdx) = n - 1
    BY <1>1, <1>2, AheadSub
  <1>4. IdxAdd(last, 0) = last /\ next \in Idx /\ last % qs \in 0 .. qs - 1
    BY RingIndex
  <1>5. NextUsed(r, last) = r.usedRing[last % qs] /\ NextUsed(r, last) \in UsedElem(Id, L)
    BY <1>2, <1>4 DEF NextUsed
  <1>6. UsedWindow(r, last)[0] = r.usedRing[last % qs]
    BY <1>2, <1>3, <1>4 DEF UsedWindow
  <1>7. ASSUME NEW k \in 0 .. n - 2
        PROVE  /\ k + 1 \in 0 .. n - 1
               /\ IdxAdd(next, k) = IdxAdd(last, k + 1)
    BY <1>1, <1>2, <1>3, IdxAddShift
  <1>8. UsedWindow(r, next) = [k \in 0 .. n - 2 |-> r.usedRing[IdxAdd(last, k + 1) % qs]]
    <2>1. UsedWindow(r, next) = [k \in 0 .. n - 2 |-> r.usedRing[IdxAdd(next, k) % qs]]
      BY <1>2, <1>3 DEF UsedWindow
    <2> QED
      BY <2>1, <1>7
  <1>9. UsedWindow(r, next) = [k \in 0 .. n - 2 |-> UsedWindow(r, last)[k + 1]]
    BY <1>2, <1>7, <1>8 DEF UsedWindow
  <1>10. n \in Nat \ {0}
    BY <1>3
  <1> QED
    BY <1>3, <1>4, <1>5, <1>6, <1>9, <1>10

-----------------------------------------------------------------------------
(* The account of the chains.                                              *)

\* The windows hold what is in the rings.
LEMMA WindowTypes ==
  ASSUME NEW qs, ValidQueueSize(qs), NEW Id, NEW L,
         NEW r \in VRingType(qs, Id, L), NEW h \in HostType(Id), NEW last \in Idx
  PROVE  /\ Ahead(h.idx, r.availIdx) \in Nat /\ Ahead(last, r.usedIdx) \in Nat
         /\ AvailWindow(r, h) \in [0 .. Ahead(h.idx, r.availIdx) - 1 -> Id]
         /\ UsedWindow(r, last) \in [0 .. Ahead(last, r.usedIdx) - 1 -> UsedElem(Id, L)]
  <1>1. /\ r.size = qs /\ r.availIdx \in Idx /\ r.usedIdx \in Idx /\ h.idx \in Idx
        /\ r.availRing \in [0 .. qs - 1 -> Id]
        /\ r.usedRing \in [0 .. qs - 1 -> UsedElem(Id, L)]
    BY DEF VRingType, HostType
  <1>2. Ahead(h.idx, r.availIdx) \in Nat /\ Ahead(last, r.usedIdx) \in Nat
    BY <1>1, RingIndex
  <1>3. ASSUME NEW k \in 0 .. Ahead(h.idx, r.availIdx) - 1
        PROVE  r.availRing[IdxAdd(h.idx, k) % qs] \in Id
    <2>1. k \in Nat
      BY <1>2
    <2>2. IdxAdd(h.idx, k) % qs \in 0 .. qs - 1
      BY <1>1, <2>1, RingIndex
    <2> QED
      BY <1>1, <2>2
  <1>4. ASSUME NEW k \in 0 .. Ahead(last, r.usedIdx) - 1
        PROVE  r.usedRing[IdxAdd(last, k) % qs] \in UsedElem(Id, L)
    <2>1. k \in Nat
      BY <1>2
    <2>2. IdxAdd(last, k) % qs \in 0 .. qs - 1
      BY <2>1, RingIndex
    <2> QED
      BY <1>1, <2>2
  <1> QED
    BY <1>1, <1>2, <1>3, <1>4 DEF AvailWindow, UsedWindow

\* No more different chains than there are fit into a window.
LEMMA WindowFits ==
  ASSUME NEW S, IsFiniteSet(S), NEW n \in Nat, NEW f \in [0 .. n - 1 -> S],
         \A i, j \in 0 .. n - 1 : f[i] = f[j] => i = j
  PROVE  n <= Cardinality(S)
  <1>1. IsFiniteSet(0 .. n - 1) /\ Cardinality(0 .. n - 1) = n
    BY FS_Interval
  <1>2. Cardinality(S) \in Nat
    BY FS_CardinalityType
  <1>3. ~(Cardinality(S) < n)
    BY <1>1, FS_PigeonHole
  <1> QED
    BY <1>2, <1>3

\* Chains of two descriptors: n of them have n heads.
LEMMA EvenHeads ==
  ASSUME NEW n \in Nat
  PROVE  /\ IsFiniteSet({2 * i : i \in 0 .. n - 1})
         /\ Cardinality({2 * i : i \in 0 .. n - 1}) = n
  <1> DEFINE S == 0 .. n - 1
             T == {2 * i : i \in S}
             f == [i \in S |-> 2 * i]
  <1>1. IsFiniteSet(S) /\ Cardinality(S) = n
    BY FS_Interval
  <1>2. f \in [S -> T]
    OBVIOUS
  <1>3. \A i, j \in S : f[i] = f[j] => i = j
    OBVIOUS
  <1>4. \A t \in T : \E i \in S : f[i] = t
    OBVIOUS
  <1> HIDE DEF S, T, f
  <1>5. f \in Bijection(S, T)
    BY <1>2, <1>3, <1>4 DEF Bijection, Injection, Surjection, IsInjective
  <1>6. ExistsBijection(S, T)
    BY <1>5 DEF ExistsBijection
  <1>7. IsFiniteSet(T) /\ Cardinality(T) = Cardinality(S)
    BY <1>1, <1>6, FS_Bijection
  <1> QED
    BY <1>1, <1>7 DEF T, S

(***************************************************************************)
(* While a driver holds a chain, the available ring has room for it; while *)
(* the host holds one, the used ring has.                                  *)
(***************************************************************************)
LEMMA PartitionFits ==
  ASSUME NEW qs, ValidQueueSize(qs), NEW Id, NEW L, IsFiniteSet(Id),
         NEW r \in VRingType(qs, Id, L), NEW h \in HostType(Id), NEW last \in Idx,
         NEW mine, ChainsPartitioned(r, h, last, mine, Id)
  PROVE  /\ Ahead(h.idx, r.availIdx) <= Cardinality(Id)
         /\ mine # {} => Ahead(h.idx, r.availIdx) < Cardinality(Id)
         /\ Ahead(last, r.usedIdx) <= Cardinality(Id)
         /\ h.held # {} => Ahead(last, r.usedIdx) < Cardinality(Id)
  <1> DEFINE a == AvailWindow(r, h)
             n == Ahead(h.idx, r.availIdx)
             u == UsedWindow(r, last)
             m == Ahead(last, r.usedIdx)
             ids == [k \in 0 .. m - 1 |-> u[k].id]
  <1>1. /\ n \in Nat /\ m \in Nat
        /\ a \in [0 .. n - 1 -> Id] /\ u \in [0 .. m - 1 -> UsedElem(Id, L)]
    BY WindowTypes
  <1>2. ids \in [0 .. m - 1 -> Id]
    BY <1>1 DEF UsedElem
  <1>3. /\ \A i, j \in 0 .. n - 1 : a[i] = a[j] => i = j
        /\ \A i, j \in 0 .. m - 1 : ids[i] = ids[j] => i = j
    BY <1>1 DEF ChainsPartitioned
  <1>4. mine \subseteq Id /\ h.held \subseteq Id
    BY DEF ChainsPartitioned
  <1>5. ASSUME NEW x \in mine PROVE a \in [0 .. n - 1 -> Id \ {x}]
    <2>1. x \notin AvailHeads(r, h)
      BY DEF ChainsPartitioned, HostHeads
    <2>2. \A k \in 0 .. n - 1 : a[k] # x
      BY <1>1, <2>1 DEF AvailHeads
    <2> QED
      BY <1>1, <2>2
  <1>6. ASSUME NEW x \in h.held PROVE ids \in [0 .. m - 1 -> Id \ {x}]
    <2>1. x \notin UsedHeads(r, last)
      BY DEF ChainsPartitioned
    <2>2. \A k \in 0 .. m - 1 : ids[k] # x
      BY <1>1, <2>1 DEF UsedHeads
    <2> QED
      BY <1>2, <2>2
  <1>7. ASSUME NEW x \in Id
        PROVE  IsFiniteSet(Id \ {x}) /\ Cardinality(Id \ {x}) = Cardinality(Id) - 1
    BY FS_RemoveElement
  <1>8. Cardinality(Id) \in Nat
    BY FS_CardinalityType
  <1> HIDE DEF a, ids, n, m
  <1>9. n <= Cardinality(Id) /\ m <= Cardinality(Id)
    BY <1>1, <1>2, <1>3, WindowFits
  <1>10. ASSUME NEW x \in mine PROVE n < Cardinality(Id)
    <2>1. n <= Cardinality(Id \ {x})
      BY <1>1, <1>3, <1>4, <1>5, <1>7, WindowFits
    <2>2. Cardinality(Id \ {x}) = Cardinality(Id) - 1
      BY <1>4, <1>7
    <2> QED
      BY <1>1, <1>8, <2>1, <2>2
  <1>11. ASSUME NEW x \in h.held PROVE m < Cardinality(Id)
    <2>1. m <= Cardinality(Id \ {x})
      BY <1>1, <1>3, <1>4, <1>6, <1>7, WindowFits
    <2>2. Cardinality(Id \ {x}) = Cardinality(Id) - 1
      BY <1>4, <1>7
    <2> QED
      BY <1>1, <1>8, <2>1, <2>2
  <1> QED
    BY <1>9, <1>10, <1>11 DEF n, m

\* The windows of a ring and a host that look the same.
LEMMA SameWindows ==
  ASSUME NEW r, NEW s, NEW h, NEW g, NEW last, NEW mine, NEW Id,
         ChainsPartitioned(r, h, last, mine, Id),
         AvailWindow(s, g) = AvailWindow(r, h), g.held = h.held,
         UsedWindow(s, last) = UsedWindow(r, last)
  PROVE  ChainsPartitioned(s, g, last, mine, Id)
  BY DEF ChainsPartitioned, AvailHeads, UsedHeads, HostHeads

\* A chain in the driver's hands is written to the next slot: nothing moves.
LEMMA PutAvailPartition ==
  ASSUME NEW qs, ValidQueueSize(qs), NEW Id, NEW L,
         NEW r \in VRingType(qs, Id, L), NEW h \in HostType(Id), NEW last \in Idx, NEW x \in Id,
         Ahead(h.idx, r.availIdx) < qs,
         NEW mine, ChainsPartitioned(r, h, last, mine, Id)
  PROVE  ChainsPartitioned(PutAvail(r, x), h, last, mine, Id)
  <1> DEFINE s == PutAvail(r, x)
  <1>1. /\ AvailWindow(s, h) = AvailWindow(r, h)
        /\ s.usedRing = r.usedRing /\ s.usedIdx = r.usedIdx /\ s \in VRingType(qs, Id, L)
    BY PutAvailWindows
  <1>2. s.size = r.size
    BY <1>1 DEF VRingType
  <1>3. UsedWindow(s, last) = UsedWindow(r, last)
    BY <1>1, <1>2 DEF UsedWindow
  <1> QED
    BY <1>1, <1>3, SameWindows

\* Publishing hands the chain of that slot to the host.
LEMMA PublishPartition ==
  ASSUME NEW qs, ValidQueueSize(qs), NEW Id, NEW L,
         NEW r \in VRingType(qs, Id, L), NEW h \in HostType(Id), NEW last \in Idx, NEW x \in Id,
         r.availRing[r.availIdx % qs] = x, Ahead(h.idx, r.availIdx) + 1 < IdxMod,
         NEW mine, x \notin mine, ChainsPartitioned(r, h, last, mine \cup {x}, Id)
  PROVE  /\ ChainsPartitioned(PublishAvail(r, 1), h, last, mine, Id)
         /\ UsedHeads(PublishAvail(r, 1), last) = UsedHeads(r, last)
         /\ HostHeads(PublishAvail(r, 1), h) = HostHeads(r, h) \cup {x}
  <1> DEFINE s == PublishAvail(r, 1)
             n == Ahead(h.idx, r.availIdx)
             a == AvailWindow(r, h)
             b == AvailWindow(s, h)
  <1>1. /\ b = [k \in 0 .. n |-> IF k < n THEN a[k] ELSE x]
        /\ s.usedRing = r.usedRing /\ s.usedIdx = r.usedIdx /\ s \in VRingType(qs, Id, L)
    BY PublishWindows
  <1>2. s.size = r.size
    BY <1>1 DEF VRingType
  <1>3. UsedWindow(s, last) = UsedWindow(r, last)
    BY <1>1, <1>2 DEF UsedWindow
  <1>4. n \in Nat /\ a \in [0 .. n - 1 -> Id]
    BY WindowTypes
  <1>5. UsedHeads(s, last) = UsedHeads(r, last)
    BY <1>3 DEF UsedHeads
  <1> HIDE DEF a, b, n, s
  <1>6. AvailHeads(r, h) = {a[k] : k \in 0 .. n - 1}
    BY <1>4 DEF AvailHeads, a
  <1>7. AvailHeads(s, h) = {b[k] : k \in 0 .. n}
    BY <1>1 DEF AvailHeads, b
  <1>8. /\ \A k \in 0 .. n - 1 : k \in 0 .. n /\ b[k] = a[k]
        /\ n \in 0 .. n /\ b[n] = x
        /\ \A k \in 0 .. n : k = n \/ k \in 0 .. n - 1
    BY <1>1, <1>4
  <1>9. AvailHeads(s, h) = AvailHeads(r, h) \cup {x}
    BY <1>6, <1>7, <1>8
  <1>10. x \notin AvailHeads(r, h) /\ x \notin h.held /\ x \notin UsedHeads(r, last)
    BY DEF ChainsPartitioned, HostHeads
  <1>11. \A i, j \in 0 .. n - 1 : a[i] = a[j] => i = j
    BY <1>4 DEF ChainsPartitioned, a
  <1>12. \A k \in 0 .. n - 1 : a[k] # x
    BY <1>6, <1>10
  <1>13. \A i, j \in 0 .. n : b[i] = b[j] => i = j
    BY <1>8, <1>11, <1>12
  <1>14. DOMAIN b = 0 .. n
    BY <1>1
  <1> QED
    BY <1>3, <1>5, <1>9, <1>10, <1>13, <1>14 DEF ChainsPartitioned, HostHeads, s, b

\* The host fetches a chain: it stays within the host's reach.
LEMMA FetchPartition ==
  ASSUME NEW qs, ValidQueueSize(qs), NEW Id, NEW L,
         NEW r \in VRingType(qs, Id, L), NEW h \in HostType(Id), NEW last \in Idx,
         HostCanFetch(r, h),
         NEW mine, ChainsPartitioned(r, h, last, mine, Id)
  PROVE  /\ ChainsPartitioned(r, HostFetch(r, h), last, mine, Id)
         /\ HostHeads(r, HostFetch(r, h)) = HostHeads(r, h)
  <1> DEFINE g == HostFetch(r, h)
             n == Ahead(h.idx, r.availIdx)
             a == AvailWindow(r, h)
             b == AvailWindow(r, g)
  <1>1. /\ n \in Nat \ {0} /\ g.held = h.held \cup {a[0]}
        /\ b = [k \in 0 .. n - 2 |-> a[k + 1]]
    BY FetchWindows
  <1>2. n \in Nat /\ a \in [0 .. n - 1 -> Id]
    BY WindowTypes
  <1> HIDE DEF a, b, n, g
  <1>3. AvailHeads(r, h) = {a[k] : k \in 0 .. n - 1}
    BY <1>2 DEF AvailHeads, a
  <1>4. AvailHeads(r, g) = {b[k] : k \in 0 .. n - 2} /\ DOMAIN b = 0 .. n - 2
    BY <1>1 DEF AvailHeads, b
  <1>5. /\ \A k \in 0 .. n - 2 : k + 1 \in 0 .. n - 1 /\ k + 1 # 0 /\ b[k] = a[k + 1]
        /\ \A k \in 0 .. n - 1 : k = 0 \/ (k - 1 \in 0 .. n - 2 /\ b[k - 1] = a[k])
        /\ 0 \in 0 .. n - 1
    BY <1>1, <1>2
  <1>6. \A i, j \in 0 .. n - 1 : a[i] = a[j] => i = j
    BY <1>2 DEF ChainsPartitioned, a
  <1>7. AvailHeads(r, h) = AvailHeads(r, g) \cup {a[0]}
    BY <1>3, <1>4, <1>5
  <1>8. a[0] \notin AvailHeads(r, g)
    BY <1>4, <1>5, <1>6
  <1>9. \A i, j \in 0 .. n - 2 : b[i] = b[j] => i = j
    <2> TAKE i \in 0 .. n - 2, j \in 0 .. n - 2
    <2> HAVE b[i] = b[j]
    <2>1. i + 1 = j + 1
      BY <1>5, <1>6
    <2> QED
      BY <1>1, <2>1
  <1>10. HostHeads(r, g) = HostHeads(r, h)
    BY <1>1, <1>7 DEF HostHeads
  <1>11. /\ mine \cup AvailHeads(r, g) \cup g.held \cup UsedHeads(r, last) = Id
         /\ mine \cap (HostHeads(r, g) \cup UsedHeads(r, last)) = {}
         /\ AvailHeads(r, g) \cap (g.held \cup UsedHeads(r, last)) = {}
         /\ g.held \cap UsedHeads(r, last) = {}
    BY <1>1, <1>7, <1>8, <1>10 DEF ChainsPartitioned
  <1>12. \A i, j \in DOMAIN AvailWindow(r, g) :
            AvailWindow(r, g)[i] = AvailWindow(r, g)[j] => i = j
    BY <1>4, <1>9 DEF b
  <1>13. ChainsPartitioned(r, g, last, mine, Id)
    BY <1>11, <1>12 DEF ChainsPartitioned
  <1> QED
    BY <1>10, <1>13 DEF g

\* The host returns a chain it holds.
LEMMA PutUsedPartition ==
  ASSUME NEW qs, ValidQueueSize(qs), NEW Id, NEW L,
         NEW r \in VRingType(qs, Id, L), NEW h \in HostType(Id), NEW last \in Idx,
         NEW d \in h.held, NEW len \in L,
         Ahead(last, r.usedIdx) < qs, Ahead(last, r.usedIdx) + 1 < IdxMod,
         NEW mine, ChainsPartitioned(r, h, last, mine, Id)
  PROVE  /\ HostRelease(h, d) \in HostType(Id)
         /\ ChainsPartitioned(PutUsed(r, d, len), HostRelease(h, d), last, mine, Id)
         /\ UsedHeads(PutUsed(r, d, len), last) = UsedHeads(r, last) \cup {d}
         /\ HostHeads(PutUsed(r, d, len), HostRelease(h, d)) = HostHeads(r, h) \ {d}
  <1> DEFINE s == PutUsed(r, d, len)
             g == HostRelease(h, d)
             n == Ahead(last, r.usedIdx)
             u == UsedWindow(r, last)
             v == UsedWindow(s, last)
             e == [id |-> d, len |-> len]
  <1>1. d \in Id /\ h \in [idx : Idx, held : SUBSET Id]
    BY DEF HostType
  <1>2. g.idx = h.idx /\ g.held = h.held \ {d} /\ g \in HostType(Id)
    BY <1>1 DEF HostRelease, HostType
  <1>3. /\ v = [k \in 0 .. n |-> IF k < n THEN u[k] ELSE e] /\ s \in VRingType(qs, Id, L)
        /\ s.availRing = r.availRing /\ s.availIdx = r.availIdx
    BY <1>1, PutUsedWindows
  <1>4. s.size = r.size
    BY <1>3 DEF VRingType
  <1>5. AvailWindow(s, g) = AvailWindow(r, h)
    BY <1>2, <1>3, <1>4 DEF AvailWindow
  <1>6. AvailHeads(s, g) = AvailHeads(r, h)
    BY <1>5 DEF AvailHeads
  <1>7. n \in Nat /\ u \in [0 .. n - 1 -> UsedElem(Id, L)]
    BY WindowTypes
  <1>8. e.id = d
    OBVIOUS
  <1> HIDE DEF u, v, n, s, g, e
  <1>9. UsedHeads(r, last) = {u[k].id : k \in 0 .. n - 1}
    BY <1>7 DEF UsedHeads, u
  <1>10. UsedHeads(s, last) = {v[k].id : k \in 0 .. n} /\ DOMAIN v = 0 .. n
    BY <1>3 DEF UsedHeads, v
  <1>11. /\ \A k \in 0 .. n - 1 : k \in 0 .. n /\ v[k] = u[k]
         /\ n \in 0 .. n /\ v[n] = e
         /\ \A k \in 0 .. n : k = n \/ k \in 0 .. n - 1
    BY <1>3, <1>7
  <1>12. UsedHeads(s, last) = UsedHeads(r, last) \cup {d}
    BY <1>8, <1>9, <1>10, <1>11
  <1>13. d \notin mine /\ d \notin UsedHeads(r, last) /\ d \notin AvailHeads(r, h)
    BY DEF ChainsPartitioned, HostHeads
  <1>14. \A i, j \in 0 .. n - 1 : u[i].id = u[j].id => i = j
    BY <1>7 DEF ChainsPartitioned, u
  <1>15. \A k \in 0 .. n - 1 : u[k].id # d
    BY <1>9, <1>13
  <1>16. \A i, j \in 0 .. n : v[i].id = v[j].id => i = j
    BY <1>8, <1>11, <1>14, <1>15
  <1>17. HostHeads(s, g) = HostHeads(r, h) \ {d}
    BY <1>2, <1>6, <1>13 DEF HostHeads
  <1>18. /\ mine \cup AvailHeads(s, g) \cup g.held \cup UsedHeads(s, last) = Id
         /\ mine \cap (HostHeads(s, g) \cup UsedHeads(s, last)) = {}
         /\ AvailHeads(s, g) \cap (g.held \cup UsedHeads(s, last)) = {}
         /\ g.held \cap UsedHeads(s, last) = {}
    BY <1>1, <1>2, <1>6, <1>12, <1>13, <1>17 DEF ChainsPartitioned
  <1>19. /\ \A i, j \in DOMAIN AvailWindow(s, g) :
              AvailWindow(s, g)[i] = AvailWindow(s, g)[j] => i = j
         /\ \A i, j \in DOMAIN UsedWindow(s, last) :
              UsedWindow(s, last)[i].id = UsedWindow(s, last)[j].id => i = j
    <2>1. \A i, j \in DOMAIN AvailWindow(s, g) :
              AvailWindow(s, g)[i] = AvailWindow(s, g)[j] => i = j
      BY <1>5 DEF ChainsPartitioned
    <2> QED
      BY <2>1, <1>10, <1>16 DEF v
  <1>20. ChainsPartitioned(s, g, last, mine, Id)
    BY <1>18, <1>19 DEF ChainsPartitioned
  <1> QED
    BY <1>2, <1>12, <1>17, <1>20 DEF s, g

\* The driver takes back the chain that was returned first.
LEMMA ConsumePartition ==
  ASSUME NEW qs, ValidQueueSize(qs), NEW Id, NEW L,
         NEW r \in VRingType(qs, Id, L), NEW h \in HostType(Id), NEW last \in Idx,
         last # r.usedIdx,
         NEW mine, ChainsPartitioned(r, h, last, mine, Id)
  PROVE  /\ NextUsed(r, last).id \in Id
         /\ NextUsed(r, last).id \in UsedHeads(r, last)
         /\ NextUsed(r, last).id \notin mine
         /\ ChainsPartitioned(r, h, IdxAdd(last, 1), mine \cup {NextUsed(r, last).id}, Id)
         /\ UsedHeads(r, IdxAdd(last, 1)) = UsedHeads(r, last) \ {NextUsed(r, last).id}
  <1> DEFINE next == IdxAdd(last, 1)
             n == Ahead(last, r.usedIdx)
             u == UsedWindow(r, last)
             v == UsedWindow(r, next)
             d == NextUsed(r, last).id
  <1>1. /\ n \in Nat \ {0} /\ u[0].id = d /\ v = [k \in 0 .. n - 2 |-> u[k + 1]]
    BY ConsumeWindows
  <1>2. n \in Nat /\ u \in [0 .. n - 1 -> UsedElem(Id, L)]
    BY WindowTypes
  <1> HIDE DEF u, v, n, next, d
  <1>3. UsedHeads(r, last) = {u[k].id : k \in 0 .. n - 1}
    BY <1>2 DEF UsedHeads, u
  <1>4. UsedHeads(r, next) = {v[k].id : k \in 0 .. n - 2} /\ DOMAIN v = 0 .. n - 2
    BY <1>1 DEF UsedHeads, v
  <1>5. /\ \A k \in 0 .. n - 2 : k + 1 \in 0 .. n - 1 /\ k + 1 # 0 /\ v[k] = u[k + 1]
        /\ \A k \in 0 .. n - 1 : k = 0 \/ (k - 1 \in 0 .. n - 2 /\ v[k - 1] = u[k])
        /\ 0 \in 0 .. n - 1
    BY <1>1, <1>2
  <1>6. \A i, j \in 0 .. n - 1 : u[i].id = u[j].id => i = j
    BY <1>2 DEF ChainsPartitioned, u
  <1>7. UsedHeads(r, last) = UsedHeads(r, next) \cup {d}
    <2>1. ASSUME NEW k \in 0 .. n - 1 PROVE u[k].id \in UsedHeads(r, next) \cup {d}
      BY <1>1, <1>4, <1>5
    <2>2. ASSUME NEW k \in 0 .. n - 2 PROVE v[k].id \in UsedHeads(r, last)
      BY <1>3, <1>5
    <2>3. d \in UsedHeads(r, last)
      BY <1>1, <1>3, <1>5
    <2> QED
      BY <1>3, <1>4, <2>1, <2>2, <2>3
  <1>8. d \notin UsedHeads(r, next)
    BY <1>1, <1>4, <1>5, <1>6
  <1>9. \A i, j \in 0 .. n - 2 : v[i].id = v[j].id => i = j
    <2> TAKE i \in 0 .. n - 2, j \in 0 .. n - 2
    <2> HAVE v[i].id = v[j].id
    <2>1. i + 1 = j + 1
      BY <1>5, <1>6
    <2> QED
      BY <1>1, <2>1
  <1>10. d \in Id /\ d \notin mine
    BY <1>7 DEF ChainsPartitioned
  <1>11. /\ (mine \cup {d}) \cup AvailHeads(r, h) \cup h.held \cup UsedHeads(r, next) = Id
         /\ (mine \cup {d}) \cap (HostHeads(r, h) \cup UsedHeads(r, next)) = {}
         /\ AvailHeads(r, h) \cap (h.held \cup UsedHeads(r, next)) = {}
         /\ h.held \cap UsedHeads(r, next) = {}
    BY <1>7, <1>8 DEF ChainsPartitioned, HostHeads
  <1>12. \A i, j \in DOMAIN UsedWindow(r, next) :
            UsedWindow(r, next)[i].id = UsedWindow(r, next)[j].id => i = j
    BY <1>4, <1>9 DEF v
  <1>13. ChainsPartitioned(r, h, next, mine \cup {d}, Id)
    BY <1>11, <1>12 DEF ChainsPartitioned
  <1> QED
    BY <1>7, <1>8, <1>10, <1>13 DEF next, d
=============================================================================
