---------------------------- MODULE EventChannels ----------------------------
(***************************************************************************)
(* The event channel service: xenevtchn/src/lib.rs.  Tasks bind ports, wait *)
(* for their events and release them again; a thread reads the ports that   *)
(* fired from the device and wakes who subscribed.                          *)
(*                                                                          *)
(* A task is a user of the service with at most one channel.  Every call    *)
(* takes the lock of the file handle and has the ioctl run by a blocking    *)
(* thread; a future that is dropped meanwhile gives the lock back, but its  *)
(* ioctl still runs.  What is done under the lock of the wake map contains  *)
(* no await and is part of one step.                                        *)
(***************************************************************************)
EXTENDS Integers, Sequences, FiniteSets

CONSTANTS
  Tasks,       \* users of the service
  Ports,       \* ports the hypervisor has to give
  Notifies,    \* identities of tokio's Notify objects, numbers
  None,        \* no task, no port, no Notify
  MaxRing,     \* bound: ports that have fired and are not read yet
  MaxCancels,  \* bound: futures that are dropped
  MaxErrors    \* bound: unbinds that fail

VARIABLES
  bound,    \* kernel: the ports bound through this file
  masked,   \* kernel: ports that fired and were not unmasked since
  ring,     \* kernel: fired ports in the order the thread will read them
  lock,     \* holder of `handle`
  wakes,    \* the wake map: for each port its Notify, or None
  permits,  \* the Notify objects that hold a permit
  thread,   \* the processor thread: where it is, the port and the Notify it has
  pc,       \* where each task is
  port,     \* the port each task has
  recv,     \* the receiver of each task's channel
  dropped,  \* tasks whose unbind was spawned by the drop of the channel
  orphans,  \* ioctls whose future was dropped
  cancels,  \* futures dropped so far
  errors    \* unbinds that have failed

kernel == <<bound, masked, ring>>
user == <<pc, port, recv, dropped>>
vars == <<kernel, lock, wakes, permits, thread, user, orphans, cancels, errors>>

Places == {"idle", "bindWait", "bindJob", "subscribe", "open", "handling",
           "unmaskJob", "unbindWait", "unbindJob", "remove"}
Reading == [at |-> "read", port |-> None, notify |-> None]

TypeOK ==
  /\ masked \subseteq bound /\ bound \subseteq Ports
  /\ ring \in Seq(Ports) /\ Len(ring) <= MaxRing
  /\ lock \in Tasks \cup {None}
  /\ wakes \in [Ports -> Notifies \cup {None}]
  /\ permits \subseteq Notifies
  /\ thread \in [at : {"read", "lookup", "notify"},
                 port : Ports \cup {None}, notify : Notifies \cup {None}]
  /\ pc \in [Tasks -> Places]
  /\ port \in [Tasks -> Ports \cup {None}]
  /\ recv \in [Tasks -> Notifies \cup {None}]
  /\ dropped \subseteq Tasks
  /\ orphans \subseteq [id : 1..MaxCancels, op : {"bind", "unmask", "unbind"},
                        port : Ports \cup {None}]
  /\ cancels \in 0..MaxCancels /\ errors \in 0..MaxErrors

Init ==
  /\ bound = {} /\ masked = {} /\ ring = <<>>
  /\ lock = None
  /\ wakes = [p \in Ports |-> None]
  /\ permits = {}
  /\ thread = Reading
  /\ pc = [t \in Tasks |-> "idle"]
  /\ port = [t \in Tasks |-> None]
  /\ recv = [t \in Tasks |-> None]
  /\ dropped = {}
  /\ orphans = {}
  /\ cancels = 0 /\ errors = 0

------------------------------------------------------------------------------
(* Helpers.                                                                 *)

\* A Notify lives as long as the map, a channel or the thread refers to it.
InUse == {wakes[p] : p \in Ports} \cup {recv[t] : t \in Tasks} \cup {thread.notify}
IsNew(n) == /\ n \in Notifies \ InUse
            /\ \A m \in Notifies \ InUse : n <= m

\* The entry of p, made if there is none: both users of wakes.entry(port).
Entry(p, n) ==
  \/ /\ wakes[p] # None
     /\ n = wakes[p]
     /\ UNCHANGED <<wakes, permits>>
  \/ /\ wakes[p] = None
     /\ IsNew(n)
     /\ wakes' = [wakes EXCEPT ![p] = n]
     /\ permits' = permits \ {n}

Goto(t, place) == pc' = [pc EXCEPT ![t] = place]
Acquire(t) == lock = None /\ lock' = t
Release(t) == lock = t /\ lock' = None
Error == errors < MaxErrors /\ errors' = errors + 1

\* The ioctls.
KernelBind(p) ==
  /\ p \in Ports \ bound
  /\ bound' = bound \cup {p}
  /\ UNCHANGED <<masked, ring>>
KernelUnbind(p) ==
  /\ bound' = bound \ {p}
  /\ masked' = masked \ {p}
  /\ UNCHANGED ring
KernelUnmask(p) ==
  /\ masked' = masked \ {p}
  /\ UNCHANGED <<bound, ring>>

------------------------------------------------------------------------------
(* Calls.                                                                   *)

StartBind(t) ==
  /\ pc[t] = "idle"
  /\ Goto(t, "bindWait")
  /\ UNCHANGED <<kernel, lock, wakes, permits, thread, port, recv, dropped,
                 orphans, cancels, errors>>

LockForBind(t) ==
  /\ pc[t] = "bindWait"
  /\ Acquire(t)
  /\ Goto(t, "bindJob")
  /\ UNCHANGED <<kernel, wakes, permits, thread, port, recv, dropped, orphans,
                 cancels, errors>>

\* The ioctl gives a port, or an error; either way the lock is released.
BindRuns(t) ==
  /\ pc[t] = "bindJob"
  /\ Release(t)
  /\ \/ \E p \in Ports :
          /\ KernelBind(p)
          /\ port' = [port EXCEPT ![t] = p]
          /\ Goto(t, "subscribe")
     \/ Goto(t, "idle") /\ UNCHANGED <<kernel, port>>
  /\ UNCHANGED <<wakes, permits, thread, recv, dropped, orphans, cancels, errors>>

Subscribe(t) ==
  /\ pc[t] = "subscribe"
  /\ \E n \in Notifies :
       /\ Entry(port[t], n)
       /\ recv' = [recv EXCEPT ![t] = n]
  /\ Goto(t, "open")
  /\ UNCHANGED <<kernel, lock, thread, port, dropped, orphans, cancels, errors>>

\* notified().await returns.
Wake(t) ==
  /\ pc[t] = "open"
  /\ recv[t] \in permits
  /\ permits' = permits \ {recv[t]}
  /\ Goto(t, "handling")
  /\ UNCHANGED <<kernel, lock, wakes, thread, port, recv, dropped, orphans,
                 cancels, errors>>

LockForUnmask(t) ==
  /\ pc[t] = "handling"
  /\ Acquire(t)
  /\ Goto(t, "unmaskJob")
  /\ UNCHANGED <<kernel, wakes, permits, thread, port, recv, dropped, orphans,
                 cancels, errors>>

UnmaskRuns(t) ==
  /\ pc[t] = "unmaskJob"
  /\ Release(t)
  /\ KernelUnmask(port[t])
  /\ Goto(t, "open")
  /\ UNCHANGED <<wakes, permits, thread, port, recv, dropped, orphans, cancels, errors>>

\* unbind is called, or the channel is dropped and a task is spawned to call it.
StartUnbind(t) ==
  /\ pc[t] \in {"open", "handling"}
  /\ Goto(t, "unbindWait")
  /\ recv' = [recv EXCEPT ![t] = None]
  /\ dropped' \in {dropped, dropped \cup {t}}
  /\ UNCHANGED <<kernel, lock, wakes, permits, thread, port, orphans, cancels, errors>>

LockForUnbind(t) ==
  /\ pc[t] = "unbindWait"
  /\ Acquire(t)
  /\ Goto(t, "unbindJob")
  /\ UNCHANGED <<kernel, wakes, permits, thread, port, recv, dropped, orphans,
                 cancels, errors>>

\* Mutant of UnbindRuns: the lock is not kept while the entry is removed.
UnbindRunsUnlocking(t) ==
  /\ pc[t] = "unbindJob"
  /\ KernelUnbind(port[t])
  /\ Release(t)
  /\ Goto(t, "remove")
  /\ UNCHANGED <<wakes, permits, thread, port, recv, dropped, orphans, cancels, errors>>
UnbindRuns(t) ==
  /\ pc[t] = "unbindJob"
  /\ KernelUnbind(port[t])
  /\ Goto(t, "remove")
  /\ UNCHANGED <<lock, wakes, permits, thread, port, recv, dropped, orphans,
                 cancels, errors>>

\* An error is returned at once: the port stays bound, with its entry in the map,
\* and nobody has it any more.
UnbindFails(t) ==
  /\ pc[t] = "unbindJob"
  /\ Error
  /\ Release(t)
  /\ Goto(t, "idle")
  /\ port' = [port EXCEPT ![t] = None]
  /\ dropped' = dropped \ {t}
  /\ UNCHANGED <<kernel, wakes, permits, thread, recv, orphans, cancels>>

\* Mutant of Remove: the lock is never given back.
RemoveKeepingLock(t) ==
  /\ pc[t] = "remove"
  /\ wakes' = [wakes EXCEPT ![port[t]] = None]
  /\ Goto(t, "idle")
  /\ port' = [port EXCEPT ![t] = None]
  /\ dropped' = dropped \ {t}
  /\ UNCHANGED <<kernel, lock, permits, thread, recv, orphans, cancels, errors>>
Remove(t) ==
  /\ pc[t] = "remove"
  /\ wakes' = [wakes EXCEPT ![port[t]] = None]
  /\ lock' = IF lock = t THEN None ELSE lock
  /\ Goto(t, "idle")
  /\ port' = [port EXCEPT ![t] = None]
  /\ dropped' = dropped \ {t}
  /\ UNCHANGED <<kernel, permits, thread, recv, orphans, cancels, errors>>

------------------------------------------------------------------------------
(* Dropped futures.  An unbind that is given up is not called again; one    *)
(* that a drop has spawned is a task of its own and is not dropped.         *)

Cancelable(t) ==
  \/ pc[t] \in {"bindWait", "bindJob", "subscribe", "unmaskJob"}
  \/ pc[t] \in {"unbindWait", "unbindJob", "remove"} /\ t \notin dropped

Outstanding(t) ==
  CASE pc[t] = "bindJob" -> {[id |-> cancels + 1, op |-> "bind", port |-> None]}
    [] pc[t] = "unmaskJob" -> {[id |-> cancels + 1, op |-> "unmask", port |-> port[t]]}
    [] pc[t] = "unbindJob" -> {[id |-> cancels + 1, op |-> "unbind", port |-> port[t]]}
    [] OTHER -> {}

Cancel(t) ==
  /\ cancels < MaxCancels
  /\ Cancelable(t)
  /\ cancels' = cancels + 1
  /\ orphans' = orphans \cup Outstanding(t)
  /\ lock' = IF lock = t THEN None ELSE lock
  /\ IF pc[t] = "unmaskJob"
       THEN Goto(t, "open") /\ UNCHANGED port
       ELSE Goto(t, "idle") /\ port' = [port EXCEPT ![t] = None]
  /\ UNCHANGED <<kernel, wakes, permits, thread, recv, dropped, errors>>

OrphanRuns(o) ==
  /\ \/ /\ \/ o.op = "bind" /\ \E p \in Ports : KernelBind(p)
           \/ o.op = "bind" /\ UNCHANGED kernel
           \/ o.op = "unmask" /\ KernelUnmask(o.port)
           \/ o.op = "unbind" /\ KernelUnbind(o.port)
        /\ UNCHANGED errors
     \/ o.op = "unbind" /\ Error /\ UNCHANGED kernel
  /\ orphans' = orphans \ {o}
  /\ UNCHANGED <<lock, wakes, permits, thread, user, cancels>>

------------------------------------------------------------------------------
(* The other end, and the processor thread.                                 *)

\* A port that is not masked fires; it then stays silent until it is unmasked.
Fire(p) ==
  /\ p \in bound \ masked
  /\ Len(ring) < MaxRing
  /\ masked' = masked \cup {p}
  /\ ring' = Append(ring, p)
  /\ UNCHANGED <<bound, lock, wakes, permits, thread, user, orphans, cancels, errors>>

ReadPort ==
  /\ thread.at = "read"
  /\ ring # <<>>
  /\ thread' = [at |-> "lookup", port |-> Head(ring), notify |-> None]
  /\ ring' = Tail(ring)
  /\ UNCHANGED <<bound, masked, lock, wakes, permits, user, orphans, cancels, errors>>

\* Mutant of Lookup: an event nobody has subscribed to yet is thrown away.
LookupOccupied ==
  /\ thread.at = "lookup"
  /\ thread' = IF wakes[thread.port] = None THEN Reading
               ELSE [thread EXCEPT !.at = "notify", !.notify = wakes[thread.port]]
  /\ UNCHANGED <<kernel, lock, wakes, permits, user, orphans, cancels, errors>>
Lookup ==
  /\ thread.at = "lookup"
  /\ \E n \in Notifies :
       /\ Entry(thread.port, n)
       /\ thread' = [thread EXCEPT !.at = "notify", !.notify = n]
  /\ UNCHANGED <<kernel, lock, user, orphans, cancels, errors>>

NotifyOne ==
  /\ thread.at = "notify"
  /\ permits' = permits \cup {thread.notify}
  /\ thread' = Reading
  /\ UNCHANGED <<kernel, lock, wakes, user, orphans, cancels, errors>>

------------------------------------------------------------------------------
Processor == ReadPort \/ Lookup \/ NotifyOne
Locking(t) == LockForBind(t) \/ LockForUnmask(t) \/ LockForUnbind(t)
Proceeding(t) ==
  \/ BindRuns(t) \/ Subscribe(t) \/ Wake(t) \/ UnmaskRuns(t)
  \/ UnbindRuns(t) \/ UnbindFails(t) \/ Remove(t)

OrphansRun == \E o \in orphans : OrphanRuns(o)

Next ==
  \/ \E t \in Tasks : \/ StartBind(t) \/ StartUnbind(t) \/ Locking(t)
                      \/ Proceeding(t) \/ Cancel(t)
  \/ OrphansRun
  \/ \E p \in Ports : Fire(p)
  \/ Processor

Spec == Init /\ [][Next]_vars

\* The lock of tokio is handed over in the order of the calls, hence SF.
FairSpec ==
  /\ Spec
  /\ WF_vars(Processor)
  /\ WF_vars(OrphansRun)
  /\ \A t \in Tasks : WF_vars(Proceeding(t)) /\ SF_vars(Locking(t))

------------------------------------------------------------------------------
(* Properties.                                                              *)

HasChannel(t) == pc[t] \in {"open", "handling", "unmaskJob"}
HoldsPort(t) == pc[t] \in Places \ {"idle", "bindWait", "bindJob", "remove"}

\* An open channel owns its port and is the one the thread would wake for it:
\* the entry is neither replaced nor removed by the unbind of the port's former
\* owner (unbind, lib.rs:132-141, keeps `handle` locked while it removes).
ChannelsAreRegistered ==
  \A t \in Tasks : HasChannel(t) =>
    /\ wakes[port[t]] = recv[t]
    /\ port[t] \in bound
    /\ \A u \in Tasks \ {t} : HoldsPort(u) => port[u] # port[t]

\* The event of p is still on its way to whoever has subscribed, or subscribes.
OnItsWay(p) ==
  \/ \E i \in 1..Len(ring) : ring[i] = p
  \/ thread.at = "lookup" /\ thread.port = p
  \/ thread.at = "notify" /\ thread.port = p /\ thread.notify = wakes[p]
  \/ wakes[p] # None /\ wakes[p] \in permits

\* An event is not lost: as long as a port is silenced by one and its owner has
\* not been woken, it is on its way, although it may come before the owner has
\* subscribed (subscribe and process, lib.rs:173-185 and 208-222).
EventsAreNotLost ==
  \A t \in Tasks :
    /\ pc[t] \in {"subscribe", "open"}
    /\ port[t] \in masked
    => OnItsWay(port[t]) \/ \E o \in orphans : o.op = "unmask" /\ o.port = port[t]

\* Ports that nobody has are the work of dropped futures and of unbinds that
\* failed, one port each: drops and other unbinds give back what they had
\* (lib.rs:45-53, 132-141).
PortsAreAccounted ==
  Cardinality(bound \ {port[t] : t \in {u \in Tasks : HoldsPort(u)}})
    + Cardinality(orphans)
    <= cancels + errors + Cardinality({o \in orphans : o.op = "unbind"})

\* Calls end: the lock is always given back, dropped futures included.
Calling(t) == pc[t] \notin {"idle", "open", "handling"}
CallsEnd == \A t \in Tasks : Calling(t) ~> (pc[t] \in {"idle", "open"})

\* A task that waits for its channel is woken once the port has fired, whatever
\* the other tasks do with theirs.
Expecting(t) == pc[t] = "open" /\ port[t] \in masked
EventsWake == \A t \in Tasks : Expecting(t) ~> ~Expecting(t)
==============================================================================
