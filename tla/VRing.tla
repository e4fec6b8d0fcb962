-------------------------------- MODULE VRing --------------------------------
(***************************************************************************)
(* The split virtqueue that every virtio driver of QemuPkg shares with its *)
(* host (VRING, set up by VirtioLib.c:VirtioRingInit).  A ring is a record *)
(* whose fields are the shared words the two sides read and write:         *)
(*                                                                         *)
(*   size       Ring->QueueSize                                            *)
(*   availRing  Avail.Ring, written by the driver only                     *)
(*   availIdx   Avail.Idx, a free-running index written by the driver      *)
(*   usedRing   Used.UsedElem, written by the host only                    *)
(*   usedIdx    Used.Idx, a free-running index written by the host         *)
(*                                                                         *)
(* Both indices are UINT16 in the code: they wrap at IdxMod (2^16 there)   *)
(* and are reduced modulo the ring size only when a slot is addressed, so  *)
(* the ring size must divide IdxMod.  The descriptor table is kept by the  *)
(* driver modules, each of which uses it in a way of its own.              *)
(*                                                                         *)
(* The host's private state is [idx, held]: the available index up to      *)
(* which it has fetched, and the chains it holds.                          *)
(***************************************************************************)
EXTENDS Integers

CONSTANT IdxMod   \* the number of values of a ring index, 2^16 in the code

\* What the proofs and the drivers rely on: a ring's size divides 2^16.
ValidQueueSize(qs) == /\ qs \in Nat \ {0}
                      /\ IdxMod \in Nat \ {0}
                      /\ qs <= IdxMod
                      /\ IdxMod % qs = 0

Idx == 0 .. IdxMod - 1

IdxAdd(i, n) == (i + n) % IdxMod

\* How far index j is ahead of index i, both free-running.
Ahead(i, j) == (j - i) % IdxMod

UsedElem(Id, Len) == [id : Id, len : Len]

VRingType(qs, Id, Len) == [ size      : {qs},
                            availRing : [0 .. qs - 1 -> Id],
                            availIdx  : Idx,
                            usedRing  : [0 .. qs - 1 -> UsedElem(Id, Len)],
                            usedIdx   : Idx ]

HostType(Id) == [ idx : Idx, held : SUBSET Id ]

\* VirtioRingInit: every field starts out zeroed.
ZeroRing(qs) == [ size      |-> qs,
                  availRing |-> [i \in 0 .. qs - 1 |-> 0],
                  availIdx  |-> 0,
                  usedRing  |-> [i \in 0 .. qs - 1 |-> [id |-> 0, len |-> 0]],
                  usedIdx   |-> 0 ]

\* The host side of a queue of a device that has been reset.
IdleHost == [ idx |-> 0, held |-> {} ]

-----------------------------------------------------------------------------
(* The driver's half.                                                      *)

\* Ring->Avail.Ring[Avail.Idx % QueueSize] = Head, still invisible to the host.
PutAvail(r, head) == [r EXCEPT !.availRing[r.availIdx % r.size] = head]

\* *Ring->Avail.Idx += n, which hands n more chains to the host.
PublishAvail(r, n) == [r EXCEPT !.availIdx = IdxAdd(@, n)]

\* The used element a driver that has consumed up to `last' reads next.
NextUsed(r, last) == r.usedRing[last % r.size]

-----------------------------------------------------------------------------
(* The host's half (external: virtio-0.9.5, 2.4).                          *)

HostCanFetch(r, h) == h.idx # r.availIdx

HostFetch(r, h) == [ idx  |-> IdxAdd(h.idx, 1),
                     held |-> h.held \cup {r.availRing[h.idx % r.size]} ]

HostRelease(h, head) == [h EXCEPT !.held = @ \ {head}]

PutUsed(r, head, len) == [r EXCEPT
                            !.usedRing[r.usedIdx % r.size] = [id |-> head, len |-> len],
                            !.usedIdx = IdxAdd(@, 1)]

-----------------------------------------------------------------------------
(* Where a chain is.  Both windows are functions on 0 .. n-1, oldest first. *)

AvailWindow(r, h) == [k \in 0 .. Ahead(h.idx, r.availIdx) - 1 |->
                        r.availRing[IdxAdd(h.idx, k) % r.size]]

UsedWindow(r, last) == [k \in 0 .. Ahead(last, r.usedIdx) - 1 |->
                          r.usedRing[IdxAdd(last, k) % r.size]]

\* The heads published to the host and not fetched yet.
AvailHeads(r, h) == {AvailWindow(r, h)[k] : k \in DOMAIN AvailWindow(r, h)}

\* The heads the host has returned and the driver has not consumed yet.
UsedHeads(r, last) == {UsedWindow(r, last)[k].id : k \in DOMAIN UsedWindow(r, last)}

\* Every chain the host can still read or write through.
HostHeads(r, h) == AvailHeads(r, h) \cup h.held

(***************************************************************************)
(* The chains in Heads are each in exactly one place: `mine' (with the     *)
(* driver), published, with the host, or returned; none occurs twice in a  *)
(* window.  `mine' is a set, the windows are indexed, so the sizes have to *)
(* add up as well.                                                         *)
(***************************************************************************)
ChainsPartitioned(r, h, last, mine, Heads) ==
  LET a == AvailWindow(r, h)
      u == UsedWindow(r, last)
  IN  /\ \A i, j \in DOMAIN a : a[i] = a[j] => i = j
      /\ \A i, j \in DOMAIN u : u[i].id = u[j].id => i = j
      /\ mine \cup AvailHeads(r, h) \cup h.held \cup UsedHeads(r, last) = Heads
      /\ mine \cap (HostHeads(r, h) \cup UsedHeads(r, last)) = {}
      /\ AvailHeads(r, h) \cap (h.held \cup UsedHeads(r, last)) = {}
      /\ h.held \cap UsedHeads(r, last) = {}
=============================================================================
