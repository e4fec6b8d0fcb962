---------------------------- MODULE VirtioDriver -----------------------------
(***************************************************************************)
(* The shape that the bring-up and tear-down code of all the virtio        *)
(* drivers of QemuPkg has: a sequence of calls each of which can fail,     *)
(* with a chain of cleanup labels to jump to, around the status register   *)
(* of the device (VIRTIO_DEVICE_PROTOCOL.SetDeviceStatus).                 *)
(*                                                                         *)
(* Every call that can fail is a step of its own with a success and a      *)
(* failure outcome, and every cleanup label is a step, because from        *)
(* DRIVER_OK on the device works concurrently with the driver.             *)
(*                                                                         *)
(* Resources are counted, not collected in a set: acquiring adds one and   *)
(* releasing subtracts one, so that a double release or a lost resource    *)
(* shows.                                                                  *)
(*                                                                         *)
(* The operators below constrain pc', devStatus' and held' only.           *)
(***************************************************************************)
EXTENDS Integers

VARIABLES
  pc,         \* the label or call the driver is at, "idle" between functions
  devStatus,  \* the device status register, as a set of VSTAT_* bits
  held        \* how many times each resource is held

StatusBits == {"ACK", "DRIVER", "FEATURES_OK", "DRIVER_OK", "FAILED"}

Acquire(S) == held' = [r \in DOMAIN held |-> IF r \in S THEN held[r] + 1 ELSE held[r]]
Release(S) == held' = [r \in DOMAIN held |-> IF r \in S THEN held[r] - 1 ELSE held[r]]

\* A call that can fail and acquires S when it succeeds.
Try(at, next, fail, S) ==
  /\ pc = at
  /\ \/ pc' = next /\ Acquire(S)
     \/ pc' = fail /\ held' = held
  /\ devStatus' = devStatus

\* SetDeviceStatus(old | bit), which can fail and then changes nothing.
SetBit(at, next, fail, bit) ==
  /\ pc = at
  /\ \/ pc' = next /\ devStatus' = devStatus \cup {bit}
     \/ pc' = fail /\ devStatus' = devStatus
  /\ held' = held

\* Cleanup that cannot fail.
Undo(at, next, S) ==
  /\ pc = at
  /\ pc' = next
  /\ Release(S)
  /\ devStatus' = devStatus

\* SetDeviceStatus(value), result ignored (and taken to succeed).
WriteStatus(at, next, value) ==
  /\ pc = at
  /\ pc' = next
  /\ devStatus' = value
  /\ held' = held

\* A step of control only.
Goto(at, next) ==
  /\ pc = at
  /\ pc' = next
  /\ UNCHANGED <<devStatus, held>>

Holds(S) == \A r \in S : held[r] = 1
Lacks(S) == \A r \in S : held[r] = 0
=============================================================================
