------------------------------ MODULE LoopDevices ------------------------------
(***************************************************************************)
(* Loop devices: LoopControl, LoopDevice and AttachOptions of                *)
(* loopdev/src/lib.rs, used by several processes at once.                    *)
(*                                                                          *)
(* Every user attaches a file of its own, then detaches it.  The kernel says  *)
(* which device is free, and that is not a reservation.                     *)
(***************************************************************************)
EXTENDS Integers, FiniteSets

CONSTANTS
  Users,
  Devices,
  None,
  Direct,    \* users that ask for direct I/O
  MaxErrors  \* bound: calls that fail for a reason of their own

VARIABLES
  backing, \* external: whose file each device is attached to, or None
  opened,  \* the device each user has open, or None
  pc,      \* where each user is
  errors,  \* calls that failed
  left     \* history: devices that a failed call left attached

vars == <<backing, opened, pc, errors, left>>

TypeOK ==
  /\ backing \in [Devices -> Users \cup {None}]
  /\ opened \in [Users -> Devices \cup {None}]
  /\ pc \in [Users -> {"idle", "open", "fd", "status", "undo", "direct", "attached"}]
  /\ errors \in 0..MaxErrors
  /\ left \subseteq Devices

Init ==
  /\ backing = [d \in Devices |-> None]
  /\ opened = [u \in Users |-> None]
  /\ pc = [u \in Users |-> "idle"]
  /\ errors = 0 /\ left = {}

Goto(u, from, to) == pc[u] = from /\ pc' = [pc EXCEPT ![u] = to]
Error == errors < MaxErrors /\ errors' = errors + 1

\* LOOP_CTL_GET_FREE, then the device is opened.
next_free(u) ==
  /\ Goto(u, "idle", "open")
  /\ \E d \in Devices : backing[d] = None /\ opened' = [opened EXCEPT ![u] = d]
  /\ UNCHANGED <<backing, errors, left>>
OpenBacking(u) ==
  /\ opened[u] # None
  /\ \/ Goto(u, "open", "fd") /\ UNCHANGED <<opened, errors>>
     \/ Goto(u, "open", "idle") /\ Error /\ opened' = [opened EXCEPT ![u] = None]
  /\ UNCHANGED <<backing, left>>

\* Mutant of SetFd: as if the kernel had reserved the device.
SetFdBusy(u) ==
  /\ Goto(u, "fd", "status")
  /\ backing' = [backing EXCEPT ![opened[u]] = u]
  /\ UNCHANGED <<opened, errors, left>>
\* LOOP_SET_FD: refused when another user has been faster.
SetFd(u) ==
  /\ opened[u] # None
  /\ \/ /\ backing[opened[u]] = None
        /\ Goto(u, "fd", "status")
        /\ backing' = [backing EXCEPT ![opened[u]] = u]
        /\ UNCHANGED <<opened, errors>>
     \/ /\ backing[opened[u]] # None
        /\ Goto(u, "fd", "idle")
        /\ opened' = [opened EXCEPT ![u] = None]
        /\ UNCHANGED <<backing, errors>>
  /\ UNCHANGED left

\* LOOP_SET_STATUS64.
SetStatus(u) ==
  /\ \/ Goto(u, "status", IF u \in Direct THEN "direct" ELSE "attached")
        /\ UNCHANGED errors
     \/ Goto(u, "status", "undo") /\ Error
  /\ UNCHANGED <<backing, opened, left>>
\* LOOP_CLR_FD, after which the user drops the device; when it fails the file
\* stays attached.
ClearFd(u) ==
  /\ backing' = [backing EXCEPT ![opened[u]] = None]
  /\ opened' = [opened EXCEPT ![u] = None]
  /\ UNCHANGED <<errors, left>>
LeaveAttached(u) ==
  /\ Error
  /\ left' = left \cup {opened[u]}
  /\ opened' = [opened EXCEPT ![u] = None]
  /\ UNCHANGED backing
\* After a LOOP_SET_STATUS64 that failed; a second failure is ignored.
DetachFailed(u) == Goto(u, "undo", "idle") /\ (ClearFd(u) \/ LeaveAttached(u))
\* LOOP_SET_DIRECT_IO: if that fails nothing is taken back.
set_direct_io(u) ==
  \/ Goto(u, "direct", "attached") /\ UNCHANGED <<backing, opened, errors, left>>
  \/ Goto(u, "direct", "idle") /\ LeaveAttached(u)

\* By the user that has attached, who is told if it fails: it may try again, or
\* drop the device.
detach(u) ==
  \/ Goto(u, "attached", "idle") /\ (ClearFd(u) \/ LeaveAttached(u))
  \/ /\ Goto(u, "attached", "attached") /\ Error
     /\ UNCHANGED <<backing, opened, left>>

Next == \E u \in Users :
  \/ next_free(u) \/ OpenBacking(u) \/ SetFd(u) \/ SetStatus(u)
  \/ DetachFailed(u) \/ set_direct_io(u) \/ detach(u)

Spec == Init /\ [][Next]_vars
------------------------------------------------------------------------------
(* Properties.                                                              *)

\* Who has attached its file to a device finds it there until it detaches it:
\* no other user's attempt on the same device, and no clean-up of a failed one,
\* takes the device away (next_free, attach_fd_with_loop_info).
AttachedIsOwn ==
  \A u \in Users : pc[u] \in {"status", "undo", "direct", "attached"} =>
    backing[opened[u]] = u

\* A device that no user has open is free again, whatever failed before: all
\* but those that were left attached because LOOP_SET_DIRECT_IO or LOOP_CLR_FD
\* failed on them, one failure each (attach_fd_with_loop_info, lib.rs:171-188).
FailedIsFree ==
  /\ \A d \in Devices : backing[d] # None => opened[backing[d]] = d \/ d \in left
  /\ Cardinality(left) <= errors
==============================================================================
