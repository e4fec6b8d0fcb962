------------------------------ MODULE PciHotPlug ------------------------------
(***************************************************************************)
(* PciHotPlugInitDxe: the resources set aside behind a hotplug controller, *)
(* so that a device plugged in later finds bus numbers and apertures.      *)
(* QEMU's bridges give hints in a vendor capability; GetResourcePadding    *)
(* turns them into at most four descriptors that are filled in from the    *)
(* end.  UINT32 and UINT64 are Bits32 and Bits64 bits wide.                *)
(***************************************************************************)
EXTENDS PowersOfTwo, Sequences

CONSTANTS
  Bits32, Bits64,   \* widths
  DefaultIoSize,    \* 512
  DefaultMmioSize,  \* SIZE_2MB
  Bridges           \* [redHat, caps]: caps a sequence of [length, type, hint]

VARIABLES
  hpBridge,   \* the bridge of the controller
  hpHint,     \* what QueryReservationHint answered: [status, hint]
  hpRet,      \* status of GetResourcePadding
  hpPadding   \* the descriptors returned, without the end tag

hpVars == <<hpBridge, hpHint, hpRet, hpPadding>>

MAX_UINT32 == Pow2[Bits32] - 1
MAX_UINT64 == Pow2[Bits64] - 1

\* The fields of QEMU_PCI_BRIDGE_CAPABILITY_RESOURCE_RESERVATION.
Hints == [bus : 0 .. MAX_UINT32, io : 0 .. MAX_UINT64, mem : 0 .. MAX_UINT32,
          pref32 : 0 .. MAX_UINT32, pref64 : 0 .. MAX_UINT64]

\* The default sizes are powers of two that fit their registers.
ASSUME HotPlugAssumption ==
  /\ Bits32 \in Nat \ {0, 1} /\ Bits64 \in Nat /\ Bits32 <= Bits64
  /\ \E n \in 0 .. Bits64 - 1 : DefaultIoSize = Pow2[n]
  /\ \E n \in 0 .. Bits32 - 1 : DefaultMmioSize = Pow2[n]
  /\ \A b \in Bridges : b.caps \in Seq([length : STRING, type : STRING, hint : Hints])

NoHint == [bus |-> 0, io |-> 0, mem |-> 0, pref32 |-> 0, pref64 |-> 0]

HotPlugInit ==
  /\ hpBridge \in Bridges
  /\ hpHint = [status |-> "", hint |-> NoHint] /\ hpRet = "" /\ hpPadding = << >>

-----------------------------------------------------------------------------
\* The exponent of the smallest power of two that is not below x; -1 if it does not fit.
HighBitSetRoundUp(x, bits) ==
  IF x = 0 \/ x > Pow2[bits - 1] THEN -1
  ELSE CHOOSE n \in 0 .. bits - 1 : x <= Pow2[n] /\ (n > 0 => Pow2[n - 1] < x)

HighBitSetRoundUp32(x) == HighBitSetRoundUp(x, Bits32)
HighBitSetRoundUp64(x) == HighBitSetRoundUp(x, Bits64)

Padding(type, width, size) == [type |-> type, width |-> width, size |-> size]

SetIoPadding(exponent) == <<Padding("io", 64, Pow2[exponent])>>
SetMmioPadding(prefetchable, only32, exponent) ==
  <<Padding(IF prefetchable THEN "prefetch" ELSE "mem", IF prefetchable /\ ~only32 THEN 64 ELSE 32,
            Pow2[exponent])>>

(***************************************************************************)
(* The first vendor capability of the right length and type; `bad' is the  *)
(* one, if any, whose configuration space cannot be read.  The device and  *)
(* the list of capabilities are released on every path.                    *)
(***************************************************************************)
QueryReservationHint(bridge, bad) ==
  LET caps  == bridge.caps
      right == {i \in DOMAIN caps : caps[i].length = "hint" /\ caps[i].type = "reservation"}
      first == CHOOSE i \in right : \A j \in right : i <= j
      stops == IF right = {} THEN Len(caps) ELSE first
  IN  IF ~bridge.redHat THEN [status |-> "NOT_FOUND", hint |-> NoHint]
      ELSE IF bad \in 1 .. stops THEN [status |-> "DEVICE_ERROR", hint |-> NoHint]
      ELSE IF right = {} THEN [status |-> "NOT_FOUND", hint |-> NoHint]
      ELSE [status |-> "SUCCESS", hint |-> caps[first].hint]

BusPadding(h) == IF h.bus \in {0, MAX_UINT32} THEN << >> ELSE <<Padding("bus", 8, h.bus)>>

IoPadding(h) == IF HighBitSetRoundUp64(h.io) = -1 THEN << >> ELSE SetIoPadding(HighBitSetRoundUp64(h.io))

MmioPadding(h) ==
  IF HighBitSetRoundUp32(h.mem) = -1 THEN << >> ELSE SetMmioPadding(FALSE, TRUE, HighBitSetRoundUp32(h.mem))

\* Mutant: the 64-bit hint is rounded as a UINT32.
PrefetchPadding_Narrow(h) ==
  LET wide == IF h.pref32 \notin {0, MAX_UINT32} THEN h.pref32 ELSE h.pref64 % (MAX_UINT32 + 1)
  IN  IF HighBitSetRoundUp32(wide) = -1 THEN << >>
      ELSE SetMmioPadding(TRUE, wide = h.pref32, HighBitSetRoundUp32(wide))

\* A 32-bit hint excludes the 64-bit one, even when it cannot be honoured.
PrefetchPadding(h) ==
  IF h.pref32 \notin {0, MAX_UINT32}
  THEN IF HighBitSetRoundUp32(h.pref32) = -1 THEN << >> ELSE SetMmioPadding(TRUE, TRUE, HighBitSetRoundUp32(h.pref32))
  ELSE IF HighBitSetRoundUp64(h.pref64) = -1 THEN << >> ELSE SetMmioPadding(TRUE, FALSE, HighBitSetRoundUp64(h.pref64))

\* Zero means none; the maximum, or a hint that cannot be honoured, means the default.
DefaultIo(ok, h)   == ~ok \/ (h.io # 0 /\ HighBitSetRoundUp64(h.io) = -1)
DefaultMmio(ok, h) == ~ok \/ (h.mem # 0 /\ HighBitSetRoundUp32(h.mem) = -1)

ReservationRequest(q) ==
  LET ok == q.status = "SUCCESS"
      h  == q.hint
  IN  (IF DefaultMmio(ok, h) THEN SetMmioPadding(FALSE, TRUE, HighBitSetRoundUp32(DefaultMmioSize)) ELSE << >>)
      \o (IF DefaultIo(ok, h) THEN SetIoPadding(HighBitSetRoundUp64(DefaultIoSize)) ELSE << >>)
      \o (IF ok THEN PrefetchPadding(h) \o MmioPadding(h) \o IoPadding(h) \o BusPadding(h) ELSE << >>)

GetResourcePadding ==
  /\ hpRet = ""
  /\ \E bad \in 0 .. Len(hpBridge.caps), pool \in BOOLEAN :
       /\ hpHint' = QueryReservationHint(hpBridge, bad)
       /\ hpRet' = IF pool THEN "SUCCESS" ELSE "OUT_OF_RESOURCES"
       /\ hpPadding' = IF pool THEN ReservationRequest(hpHint') ELSE << >>
  /\ UNCHANGED hpBridge

HotPlugNext == GetResourcePadding

HotPlugSpec == HotPlugInit /\ [][HotPlugNext]_hpVars

-----------------------------------------------------------------------------
Sizes(type) == {hpPadding[i].size : i \in {j \in DOMAIN hpPadding : hpPadding[j].type = type}}

\* The hint that the prefetchable aperture is made of ("either 32-bit or 64-bit,
\* never both"), and the largest number of its width.
PrefetchHint(h) == IF h.pref32 \notin {0, MAX_UINT32} THEN h.pref32 ELSE h.pref64
PrefetchMax(h)  == IF h.pref32 \notin {0, MAX_UINT32} THEN MAX_UINT32 ELSE MAX_UINT64

(***************************************************************************)
(* For every combination of hints, the extreme ones included: the four     *)
(* slots of RESOURCE_PADDING are enough and no kind appears twice; an      *)
(* aperture that is reserved is a power of two that covers the hint it is  *)
(* made of, except for the I/O or 32-bit aperture of a hint that no power  *)
(* of two of its width covers, which has the default size; I/O and 32-bit  *)
(* apertures are missing only where the hint is 0, the prefetchable one    *)
(* where it is 0 or cannot be covered; without hints the defaults are      *)
(* used.                                                                   *)
(***************************************************************************)
PaddingCoversHints ==
  hpRet = "SUCCESS" =>
    LET h  == hpHint.hint
        ok == hpHint.status = "SUCCESS"
    IN  /\ Len(hpPadding) <= 4
        /\ \A i, j \in DOMAIN hpPadding : hpPadding[i].type = hpPadding[j].type => i = j
        /\ \A i \in DOMAIN hpPadding : hpPadding[i].type # "bus" => \E n \in 0 .. Bits64 - 1 : hpPadding[i].size = Pow2[n]
        /\ ~ok => Sizes("io") = {DefaultIoSize} /\ Sizes("mem") = {DefaultMmioSize} /\ Len(hpPadding) = 2
        /\ ok => /\ Sizes("io") = {} <=> h.io = 0
                 /\ Sizes("mem") = {} <=> h.mem = 0
                 /\ \A s \in Sizes("io") : s >= h.io \/ (s = DefaultIoSize /\ 2 * h.io > MAX_UINT64)
                 /\ \A s \in Sizes("mem") : s >= h.mem \/ (s = DefaultMmioSize /\ 2 * h.mem > MAX_UINT32)
                 /\ \A s \in Sizes("prefetch") : s >= PrefetchHint(h)
                 /\ Sizes("prefetch") = {} <=> PrefetchHint(h) = 0 \/ 2 * PrefetchHint(h) > PrefetchMax(h) + 1
=============================================================================
