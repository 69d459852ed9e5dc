---------------------------- MODULE DomainTeardown ----------------------------
(***************************************************************************)
(* Destroying a domain: destroy, destroy_store and destroy_backend of       *)
(* xenclient/src/lib.rs, against the drivers of the backends, other callers  *)
(* of destroy, and a task that still adds devices to the domain.            *)
(*                                                                          *)
(* The nodes are those of one domain.  All its devices are of one type, so   *)
(* their backends share a parent directory, and the directory of the type is *)
(* there with the first device; the console's backend has a parent of its   *)
(* own.  Transactions are isolated by the store: a commit is   *)
(* refused when a node the transaction used has changed since.              *)
(***************************************************************************)
EXTENDS Integers

CONSTANTS
  Callers,    \* callers of destroy
  Devices,    \* devices the domain may have
  MaxAdds,    \* bound: devices added while the domain is being destroyed
  MaxErrors   \* bound: calls to the store or the hypervisor that fail

VARIABLES
  back,     \* store: the state of each backend node
  console,  \* store: the console's backend is there
  front,    \* store: devices whose frontend names its backend
  dom,      \* store: the domain's directory, in whole, in part, or not
  vm,       \* store: the domain's vm directory is there
  alive,    \* hypervisor: the domain exists
  pc,       \* where each caller is
  found,    \* the backends each has listed, with the console's
  todo,     \* those of them it still has to close; before, devices whose backend
            \* it still has to read
  cur,      \* the one it is closing
  snap,     \* the state its transaction read
  stale,    \* store: a node that its transaction used has changed
  count,    \* wake-ups it has counted
  looks,    \* history: how often each has found each backend not closed
  lateAdds, \* devices added
  errors,   \* calls that failed
  spoiled   \* history: an error, a refused commit, or an addition that a caller
            \* cannot have listed happened

storeVars == <<back, console, front, dom, vm>>
local == <<found, todo, cur, snap, count>>
vars == <<storeVars, alive, pc, local, stale, looks, lateAdds, errors, spoiled>>

NoDevice == "none"
WakeLimit == 3
States == {"absent", "connected", "closing", "closed"}
\* Before the names of the devices are read, and until their backends are
Early == {"list", "console", "types", "ids"}
Listing == Early \cup {"paths"}

TypeOK ==
  /\ back \in [Devices -> States]
  /\ console \in BOOLEAN /\ vm \in BOOLEAN /\ alive \in BOOLEAN
  /\ front \subseteq Devices
  /\ dom \in {"whole", "part", "absent"}
  /\ pc \in [Callers -> Listing \cup {"pick", "open", "commit", "look", "rm",
                                      "remove", "domain", "done", "idle"}]
  /\ found \in [Callers -> [devices : SUBSET Devices, console : BOOLEAN]]
  /\ todo \in [Callers -> SUBSET Devices]
  /\ cur \in [Callers -> Devices \cup {NoDevice}]
  /\ snap \in [Callers -> States]
  /\ stale \in [Callers -> BOOLEAN]
  /\ count \in [Callers -> 0..WakeLimit]
  /\ looks \in [Callers -> [Devices -> 0..WakeLimit]]
  /\ lateAdds \in 0..MaxAdds /\ errors \in 0..MaxErrors
  /\ spoiled \in BOOLEAN

\* A domain with some devices and its console, as init leaves it.
Init ==
  /\ front \in SUBSET Devices
  /\ back = [d \in Devices |-> IF d \in front THEN "connected" ELSE "absent"]
  /\ console = TRUE /\ dom = "whole" /\ vm = TRUE /\ alive = TRUE
  /\ pc = [c \in Callers |-> "idle"]
  /\ found = [c \in Callers |-> [devices |-> {}, console |-> FALSE]]
  /\ todo = [c \in Callers |-> {}]
  /\ cur = [c \in Callers |-> NoDevice]
  /\ snap = [c \in Callers |-> "absent"]
  /\ stale = [c \in Callers |-> FALSE]
  /\ count = [c \in Callers |-> 0]
  /\ looks = [c \in Callers |-> [d \in Devices |-> 0]]
  /\ lateAdds = 0 /\ errors = 0 /\ spoiled = FALSE

------------------------------------------------------------------------------
Goto(c, from, to) == pc[c] = from /\ pc' = [pc EXCEPT ![c] = to]
History == <<looks, lateAdds, errors, spoiled>>

\* The nodes of ds have changed: for the transactions that used one of them.
Changed(ds) ==
  stale' = [c \in Callers |-> stale[c] \/ (pc[c] = "commit" /\ cur[c] \in ds)
                                       \/ pc[c] = "remove"]

Start(c) ==
  /\ Goto(c, "idle", "list")
  /\ UNCHANGED <<storeVars, alive, local, stale, History>>

\* destroy_store without a vm path is an error, and that is ignored.
NoVmPath(c) ==
  /\ dom # "whole"
  /\ Goto(c, "list", "domain")
  /\ UNCHANGED <<storeVars, alive, local, stale, History>>
\* What follows is read outside a transaction, one request at a time.
ReadVmPath(c) ==
  /\ dom = "whole"
  /\ Goto(c, "list", "console")
  /\ UNCHANGED <<storeVars, alive, local, stale, History>>

\* Mutant of ReadConsole: the console's backend is forgotten.
ReadNoConsole(c) ==
  /\ Goto(c, "console", "types")
  /\ found' = [found EXCEPT ![c] = [devices |-> {}, console |-> FALSE]]
  /\ UNCHANGED <<storeVars, alive, todo, cur, snap, stale, count, History>>
ReadConsole(c) ==
  /\ Goto(c, "console", "types")
  /\ found' = [found EXCEPT ![c] = [devices |-> {}, console |-> dom = "whole"]]
  /\ UNCHANGED <<storeVars, alive, todo, cur, snap, stale, count, History>>

\* The types of device there are; a directory that is not there lists nothing.
ListTypes(c) ==
  /\ Goto(c, "types", IF front = {} THEN "pick" ELSE "ids")
  /\ todo' = [todo EXCEPT ![c] = {}]
  /\ UNCHANGED <<storeVars, alive, found, cur, snap, stale, count, History>>
ListDevices(c) ==
  /\ Goto(c, "ids", IF front = {} THEN "pick" ELSE "paths")
  /\ todo' = [todo EXCEPT ![c] = front]
  /\ UNCHANGED <<storeVars, alive, found, cur, snap, stale, count, History>>
\* A device that has gone meanwhile is passed over.  With the last one the
\* backends are known.
ReadBackend(c) ==
  /\ \E d \in todo[c] :
       LET backends == found[c].devices \cup ({d} \cap front)
           rest == todo[c] \ {d}
       IN  /\ found' = [found EXCEPT ![c].devices = backends]
           /\ todo' = [todo EXCEPT ![c] = IF rest = {} THEN backends ELSE rest]
           /\ Goto(c, "paths", IF rest = {} THEN "pick" ELSE "paths")
  /\ UNCHANGED <<storeVars, alive, cur, snap, stale, count, History>>

PickBackend(c) ==
  /\ \E d \in todo[c] :
       /\ cur' = [cur EXCEPT ![c] = d]
       /\ todo' = [todo EXCEPT ![c] = @ \ {d}]
  /\ Goto(c, "pick", "open")
  /\ UNCHANGED <<storeVars, alive, found, snap, stale, count, History>>

\* The transaction reads the state; there is nothing to do without one.
ReadState(c) ==
  /\ pc[c] = "open"
  /\ \/ back[cur[c]] = "absent" /\ Goto(c, "open", "pick")
     \/ back[cur[c]] # "absent" /\ Goto(c, "open", "commit")
  /\ snap' = [snap EXCEPT ![c] = back[cur[c]]]
  /\ stale' = [stale EXCEPT ![c] = FALSE]
  /\ count' = [count EXCEPT ![c] = 0]
  /\ UNCHANGED <<storeVars, alive, found, todo, cur, History>>

\* Mutant of CommitClose: the nodes are written at once, outside a transaction.
CloseOutside(c) ==
  /\ Goto(c, "commit", "look")
  /\ back' = [back EXCEPT ![cur[c]] = IF snap[c] = "closed" THEN "closed" ELSE "closing"]
  /\ Changed({cur[c]})
  /\ UNCHANGED <<console, front, dom, vm, alive, local, History>>
\* online is 0 and the state 5 (closing) unless it was 6 (closed).
CommitClose(c) ==
  /\ ~stale[c]
  /\ Goto(c, "commit", "look")
  /\ back' = [back EXCEPT ![cur[c]] = IF snap[c] = "closed" THEN "closed" ELSE "closing"]
  /\ Changed({cur[c]})
  /\ UNCHANGED <<console, front, dom, vm, alive, local, History>>

CloseRefused(c) ==
  /\ stale[c]
  /\ Goto(c, "commit", "domain")
  /\ spoiled' = TRUE
  /\ UNCHANGED <<storeVars, alive, local, stale, looks, lateAdds, errors>>

\* A wake-up, by an event or after a second; the third ends the wait.
Look(c) ==
  /\ pc[c] = "look"
  /\ \/ /\ back[cur[c]] \in {"closed", "absent"}
        /\ Goto(c, "look", "rm")
        /\ UNCHANGED <<count, looks>>
     \/ /\ back[cur[c]] \notin {"closed", "absent"}
        /\ count' = [count EXCEPT ![c] = @ + 1]
        /\ looks' = [looks EXCEPT ![c][cur[c]] = @ + 1]
        /\ Goto(c, "look", IF count[c] + 1 >= WakeLimit THEN "rm" ELSE "look")
  /\ UNCHANGED <<storeVars, alive, found, todo, cur, snap, stale, lateAdds,
                 errors, spoiled>>

RemoveBackend(c) ==
  /\ Goto(c, "rm", "pick")
  /\ back' = [back EXCEPT ![cur[c]] = "absent"]
  /\ IF back[cur[c]] # "absent" THEN Changed({cur[c]}) ELSE UNCHANGED stale
  /\ UNCHANGED <<console, front, dom, vm, alive, local, History>>

OpenRemoval(c) ==
  /\ todo[c] = {}
  /\ Goto(c, "pick", "remove")
  /\ stale' = [stale EXCEPT ![c] = FALSE]
  /\ UNCHANGED <<storeVars, alive, local, History>>

\* The parents of the backends, the vm directory and the domain's go at once.
CommitRemoval(c) ==
  /\ ~stale[c]
  /\ Goto(c, "remove", "domain")
  /\ back' = IF found[c].devices # {} THEN [d \in Devices |-> "absent"] ELSE back
  /\ console' = (console /\ ~found[c].console)
  /\ front' = {} /\ dom' = "absent" /\ vm' = FALSE
  /\ Changed(Devices)
  /\ UNCHANGED <<alive, local, History>>

RemovalRefused(c) ==
  /\ stale[c]
  /\ Goto(c, "remove", "domain")
  /\ spoiled' = TRUE
  /\ UNCHANGED <<storeVars, alive, local, stale, looks, lateAdds, errors>>

\* Whatever became of destroy_store.
DestroyDomain(c) ==
  /\ Goto(c, "domain", "done")
  /\ alive' = FALSE
  /\ UNCHANGED <<storeVars, local, stale, History>>

\* A call fails: of the store, so that destroy_store ends, or of the hypervisor.
CallFails(c) ==
  /\ errors < MaxErrors
  /\ \/ /\ pc[c] \in Listing \cup {"pick", "open", "commit", "look", "rm", "remove"}
        /\ pc' = [pc EXCEPT ![c] = "domain"]
     \/ Goto(c, "domain", "done")
  /\ errors' = errors + 1
  /\ spoiled' = TRUE
  /\ UNCHANGED <<storeVars, alive, local, stale, looks, lateAdds>>

\* External: a driver changes its state node, if that is there.
DriverMoves(d) ==
  /\ \/ back[d] = "connected" /\ back' = [back EXCEPT ![d] = "closing"]
     \/ back[d] = "closing" /\ back' = [back EXCEPT ![d] = "closed"]
  /\ Changed({d})
  /\ UNCHANGED <<console, front, dom, vm, alive, pc, local, History>>

\* Another task's device transaction is committed; it makes the directories it
\* lacks.
AddDevice(d) ==
  /\ lateAdds < MaxAdds
  /\ d \notin front /\ back[d] = "absent"
  /\ front' = front \cup {d}
  /\ back' = [back EXCEPT ![d] = "connected"]
  /\ dom' = IF dom = "absent" THEN "part" ELSE dom
  /\ Changed({d})
  /\ lateAdds' = lateAdds + 1
  /\ spoiled' = (spoiled \/ \E c \in Callers : pc[c] \notin {"idle"} \cup Early)
  /\ UNCHANGED <<console, vm, alive, pc, local, looks, errors>>

Call(c) ==
  \/ NoVmPath(c) \/ ReadVmPath(c) \/ ReadConsole(c)
  \/ ListTypes(c) \/ ListDevices(c) \/ ReadBackend(c) \/ PickBackend(c) \/ ReadState(c)
  \/ CommitClose(c) \/ CloseRefused(c) \/ Look(c) \/ RemoveBackend(c)
  \/ OpenRemoval(c) \/ CommitRemoval(c) \/ RemovalRefused(c) \/ DestroyDomain(c)

Next ==
  \/ \E c \in Callers : Start(c) \/ Call(c) \/ CallFails(c)
  \/ \E d \in Devices : DriverMoves(d) \/ AddDevice(d)

Spec == Init /\ [][Next]_vars
\* Callers are polled while they can go on; the waits have timeouts.
FairSpec == Spec /\ \A c \in Callers : WF_vars(Call(c))

------------------------------------------------------------------------------
\* A caller that met no error, no refusal and no late device leaves nothing of
\* the domain: not in the store, not in the hypervisor (destroy, lib.rs:157-221).
NothingRemains ==
  /\ \E c \in Callers : pc[c] = "done"
  /\ ~spoiled
  => /\ front = {} /\ dom = "absent" /\ ~vm /\ ~console /\ ~alive
     /\ \A d \in Devices : back[d] = "absent"

\* A node that has been removed does not come back by being closed, also when
\* several callers destroy the domain (the transaction of destroy_backend,
\* lib.rs:227-237): only an addition makes one.
NodesComeByAddition ==
  \A d \in Devices : back[d] = "absent" /\ back'[d] # "absent"
                       => d \in front' /\ d \notin front

\* A backend that was listed is removed under its driver's hands only after a
\* caller has looked at it three times (lib.rs:239-257).
RemovalsAreForcedLate ==
  \A d \in Devices :
    /\ back[d] \in {"connected", "closing"} /\ back'[d] = "absent"
    /\ ~spoiled
    => \E c \in Callers : looks[c][d] >= WakeLimit

\* A destroy ends even if no driver ever reacts.
DestroyEnds == \A c \in Callers : pc[c] = "list" ~> pc[c] = "done"
==============================================================================
