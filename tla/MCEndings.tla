------------------------------- MODULE MCEndings -------------------------------
(***************************************************************************)
(* One run for the models of things that must end: BlockDevices,             *)
(* DeviceStateWaiter with and without a deadline, EventChannels,             *)
(* DomainTeardown and MmapBatch.  `part` names the one that is explored; the  *)
(* models do not meet, and share the names of variables.  A variable that     *)
(* the part has not stays as it is.                                          *)
(***************************************************************************)
EXTENDS BlockDevices, FiniteSets

CONSTANTS
  None,
  N, Desired, Top, Capacity, MaxChanges,  \* DeviceStateWaiter
  Num                                     \* MmapBatch

ASSUME ConstantsAssumption ==
  /\ N \in Nat /\ Desired \in Nat /\ Top \in Nat /\ Capacity \in Nat
  /\ MaxChanges \in Nat
  /\ Num \in Nat \ {0}

VARIABLES
  part, place,
  state, changes, watched, queued, ready, seen, outcome,
  bound, masked, ring, lock, wakes, permits, thread, port, recv, dropped, orphans, cancels,
  back, console, front, dom, vm, alive, found, todo, cur, snap, stale, count, looks,
  lateAdds, spoiled,
  away, mapped, first, paged,
  i, result, errors

nameVars == <<blkid, n, suffix, pc, value, weight>>
waitVars == <<state, changes, watched, queued, ready, seen, outcome>>
chanVars == <<bound, masked, ring, lock, wakes, permits, thread, port, recv, dropped,
              orphans, cancels>>
tearVars == <<back, console, front, dom, vm, alive, found, todo, cur, snap, stale, count,
              looks, lateAdds, spoiled>>
batchVars == <<away, mapped, first, paged>>
allVars == <<part, place, nameVars, waitVars, chanVars, tearVars, batchVars, i, result, errors>>

------------------------------------------------------------------------------
(* The instances.                                                           *)

\* With a deadline and without one.
Wait(deadline) == INSTANCE DeviceStateWaiter WITH pc <- place, HasDeadline <- deadline
\* Two tasks that take turns at one port.
Chan == INSTANCE EventChannels
  WITH pc <- place, Tasks <- {1, 2}, Ports <- {1}, Notifies <- 1..4, MaxRing <- 1,
       MaxCancels <- 1, MaxErrors <- 1
Tear == INSTANCE DomainTeardown
  WITH pc <- place, Callers <- {1, 2}, Devices <- {"disk"}, MaxAdds <- 1, MaxErrors <- 0
Batch == INSTANCE MmapBatch WITH pc <- place

------------------------------------------------------------------------------
NoNames == blkid = 0 /\ n = 0 /\ suffix = <<>> /\ pc = "loop" /\ value = 0 /\ weight = 1
NoWait == /\ state = 0 /\ changes = 0 /\ watched = 0 /\ queued = 0 /\ ready = 0
          /\ seen = 0 /\ outcome = 0
NoChan == /\ bound = 0 /\ masked = 0 /\ ring = 0 /\ lock = 0 /\ wakes = 0 /\ permits = 0
          /\ thread = 0 /\ port = 0 /\ recv = 0 /\ dropped = 0 /\ orphans = 0 /\ cancels = 0
NoTear == /\ back = 0 /\ console = 0 /\ front = 0 /\ dom = 0 /\ vm = 0 /\ alive = 0
          /\ found = 0 /\ todo = 0 /\ cur = 0 /\ snap = 0 /\ stale = 0 /\ count = 0 /\ looks = 0
          /\ lateAdds = 0 /\ spoiled = 0
NoBatch == away = 0 /\ mapped = 0 /\ first = 0 /\ paged = 0

PartInit ==
  \/ /\ part = "names" /\ Init
     /\ NoWait /\ NoChan /\ NoTear /\ NoBatch
     /\ place = 0 /\ i = 0 /\ result = 0 /\ errors = 0
  \/ /\ \/ part = "timed" /\ Wait(TRUE)!Init
        \/ part = "polling" /\ Wait(FALSE)!Init
     /\ NoNames /\ NoChan /\ NoTear /\ NoBatch /\ errors = 0
  \/ /\ part = "channels" /\ Chan!Init
     /\ NoNames /\ NoWait /\ NoTear /\ NoBatch
     /\ i = 0 /\ result = 0
  \/ /\ part = "teardown" /\ Tear!Init
     /\ NoNames /\ NoWait /\ NoChan /\ NoBatch
     /\ i = 0 /\ result = 0
  \/ /\ part = "batch" /\ Batch!Init
     /\ NoNames /\ NoWait /\ NoChan /\ NoTear

\* A step of the part leaves the variables of the others alone.
Rests ==
  /\ UNCHANGED part
  /\ part # "names" => UNCHANGED nameVars
  /\ part \notin {"timed", "polling"} => UNCHANGED waitVars
  /\ part # "channels" => UNCHANGED chanVars
  /\ part # "teardown" => UNCHANGED tearVars
  /\ part # "batch" => UNCHANGED batchVars
  /\ part = "names" => UNCHANGED place
  /\ part \notin {"timed", "polling", "batch"} => UNCHANGED <<i, result>>
  /\ part \notin {"channels", "teardown", "batch"} => UNCHANGED errors

PartNext ==
  \/ part = "names" /\ Next /\ Rests
  \/ part = "timed" /\ Wait(TRUE)!Next /\ Rests
  \/ part = "polling" /\ Wait(FALSE)!Next /\ Rests
  \/ part = "channels" /\ Chan!Next /\ Rests
  \/ part = "teardown" /\ Tear!Next /\ Rests
  \/ part = "batch" /\ Batch!Next /\ Rests

\* The fairness of each model, see there.
PartSpec ==
  /\ PartInit /\ [][PartNext]_allVars
  /\ WF_allVars(part = "names" /\ Next /\ Rests)
  /\ WF_allVars(part = "timed" /\ Wait(TRUE)!Waiter /\ Rests)
  /\ WF_allVars(part = "timed" /\ Wait(TRUE)!Deadline /\ Rests)
  /\ WF_allVars(part = "polling" /\ Wait(FALSE)!Waiter /\ Rests)
  /\ WF_allVars(part = "channels" /\ Chan!Processor /\ Rests)
  /\ WF_allVars(part = "channels" /\ Chan!OrphansRun /\ Rests)
  /\ \A t \in {1, 2} : /\ WF_allVars(part = "channels" /\ Chan!Proceeding(t) /\ Rests)
                       /\ SF_allVars(part = "channels" /\ Chan!Locking(t) /\ Rests)
                       /\ WF_allVars(part = "teardown" /\ Tear!Call(t) /\ Rests)
  /\ WF_allVars(part = "batch" /\ Batch!Call /\ Rests)

------------------------------------------------------------------------------
(* The properties of the models, each in its part.                          *)

\* An answer is true, and the variables it depends on keep their types: the digits
\* of a name and what is left of the index make up the index, success of a wait
\* means that one round has read the desired state of every device, and a window
\* mmap_batch answers 0 for shows every frame.
AnswersAreTrue ==
  /\ part = "names" => TypeOK /\ Remainder
  /\ part = "timed" => Wait(TRUE)!TypeOK /\ Wait(TRUE)!ReadyWasSeen
  /\ part = "polling" => Wait(FALSE)!TypeOK /\ Wait(FALSE)!ReadyWasSeen
  /\ part = "batch" => Batch!TypeOK /\ Batch!ZeroMeansMapped

\* wait returns, by its deadline if by nothing else; and devices that have become
\* ready are found, whether or not events come.
WaitsEnd ==
  /\ <>(part = "timed" => Wait(TRUE)!Over)
  /\ <>[](part = "polling" => Wait(FALSE)!AllReady) => <>(part = "polling" => Wait(FALSE)!Over)
\* A task that waits for an event is woken.
EventsWake ==
  \A t \in {1, 2} : (part = "channels" /\ Chan!Expecting(t))
                       ~> ~(part = "channels" /\ Chan!Expecting(t))
\* The name of every block device is found; calls of the event channel service
\* end; a destroy ends even if no driver ever reacts; mmap_batch returns unless
\* the last frame is paged out.
CallsEnd ==
  /\ <>(part = "names" => pc = "done")
  /\ \A t \in {1, 2} : (part = "channels" /\ Chan!Calling(t))
                         ~> (part = "channels" /\ place[t] \in {"idle", "open"})
  /\ \A t \in {1, 2} : (part = "teardown" /\ place[t] = "list")
                         ~> (part = "teardown" /\ place[t] = "done")
  /\ (part = "batch" /\ Batch!Answerable) ~> (part = "batch" /\ place = "done")
================================================================================
