---------------------------- MODULE MCKernelObjects ----------------------------
(***************************************************************************)
(* One run for the models of what tasks share through the kernel or through   *)
(* a counted reference: EventChannels, GrantTable, LoopDevices and            *)
(* LastHandle.  `part` names the one that is explored; the models do not      *)
(* meet, and a variable that the part has not stays 0.                        *)
(***************************************************************************)
EXTENDS Integers, Sequences, FiniteSets, TLC

CONSTANTS
  None,
  Tasks, Ports, Notifies, MaxRing, MaxCancels, MaxUnbindErrors,  \* EventChannels
  Threads, Indexes, Addresses, MaxGrantErrors,  \* GrantTable
  Users, Devices, Direct, MaxLoopErrors,        \* LoopDevices
  Handles                                       \* LastHandle

ASSUME ConstantsAssumption ==
  /\ None \notin Tasks \cup Ports \cup Notifies
  /\ None \notin Threads \cup Indexes \cup Addresses
  /\ None \notin Users \cup Devices
  /\ Direct \subseteq Users
  /\ MaxRing \in Nat /\ MaxCancels \in Nat /\ MaxUnbindErrors \in Nat
  /\ MaxGrantErrors \in Nat /\ MaxLoopErrors \in Nat

VARIABLES
  part, pc, errors,
  bound, masked, ring, lock, wakes, permits, thread, port, recv, dropped, orphans, cancels,
  table, windows, index, addr, lost, stuck,
  backing, opened, left,
  live, dropping, running, count, overlap

chanVars == <<bound, masked, ring, lock, wakes, permits, thread, port, recv, dropped,
              orphans, cancels>>
grantVars == <<table, windows, index, addr, lost, stuck>>
loopVars == <<backing, opened, left>>
lastVars == <<live, dropping, running, count, overlap>>
vars == <<part, pc, errors, chanVars, grantVars, loopVars, lastVars>>

------------------------------------------------------------------------------
(* The instances.                                                           *)

Chan == INSTANCE EventChannels WITH MaxErrors <- MaxUnbindErrors
Grant == INSTANCE GrantTable WITH MaxErrors <- MaxGrantErrors
Loop == INSTANCE LoopDevices WITH MaxErrors <- MaxLoopErrors
Drops == INSTANCE LastHandle

------------------------------------------------------------------------------
NoChan == /\ bound = 0 /\ masked = 0 /\ ring = 0 /\ lock = 0 /\ wakes = 0 /\ permits = 0
          /\ thread = 0 /\ port = 0 /\ recv = 0 /\ dropped = 0 /\ orphans = 0 /\ cancels = 0
NoGrant == /\ table = 0 /\ windows = 0 /\ index = 0 /\ addr = 0 /\ lost = 0
           /\ stuck = 0
NoLoop == backing = 0 /\ opened = 0 /\ left = 0
NoDrops == live = 0 /\ dropping = 0 /\ running = 0 /\ count = 0 /\ overlap = 0

Init ==
  \/ part = "channels" /\ Chan!Init /\ NoGrant /\ NoLoop /\ NoDrops
  \/ part = "grants" /\ Grant!Init /\ NoChan /\ NoLoop /\ NoDrops
  \/ part = "loops" /\ Loop!Init /\ NoChan /\ NoGrant /\ NoDrops
  \/ part = "handles" /\ Drops!Init /\ NoChan /\ NoGrant /\ NoLoop /\ pc = 0 /\ errors = 0

Next ==
  \/ /\ part = "channels" /\ Chan!Next
     /\ UNCHANGED <<part, grantVars, loopVars, lastVars>>
  \/ /\ part = "grants" /\ Grant!Next
     /\ UNCHANGED <<part, chanVars, loopVars, lastVars>>
  \/ /\ part = "loops" /\ Loop!Next
     /\ UNCHANGED <<part, chanVars, grantVars, lastVars>>
  \/ /\ part = "handles" /\ Drops!Next
     /\ UNCHANGED <<part, chanVars, grantVars, loopVars, pc, errors>>

Spec == Init /\ [][Next]_vars

Symmetry == Permutations(Tasks) \cup Permutations(Ports)

------------------------------------------------------------------------------
(* The properties of the models, each in its part; with the first, the        *)
(* variables of the part keep their types.                                  *)

\* An open channel owns its port and is the one the thread would wake for it;
\* ports that nobody has are the work of dropped futures and of failed unbinds.
ChannelsAreRegistered ==
  part = "channels" =>
    Chan!TypeOK /\ Chan!ChannelsAreRegistered /\ Chan!PortsAreAccounted
\* An event whose owner has not been woken is on its way.
EventsAreNotLost == part = "channels" => Chan!EventsAreNotLost
\* No thread's drop takes another's window or index away; an index is in use
\* because of a window, a call under way, or a failed one; a window that nobody
\* has is the work of an munmap that failed.
MemoryIsOwn ==
  part = "grants" => Grant!TypeOK /\ Grant!MemoryIsOwn /\ Grant!IndexesAreAccounted
\* Who has attached a file finds it on its device until it detaches it; a device
\* that nobody has open is free again, unless LOOP_SET_DIRECT_IO or LOOP_CLR_FD
\* failed on it.
AttachedIsOwn == part = "loops" => Loop!TypeOK /\ Loop!AttachedIsOwn /\ Loop!FailedIsFree
\* The processor task is not aborted before the last handle is dropped, and then
\* it is, unless two drops overlap.
AbortedWithTheLast == part = "handles" => Drops!TypeOK /\ Drops!AbortedWithTheLast
==============================================================================
