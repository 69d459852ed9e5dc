--------------------------- MODULE DomainLifecycle ---------------------------
(***************************************************************************)
(* Domains from create to destroy: XenClient::create, init and destroy of    *)
(* xenclient/src/lib.rs with PlatformDomainManager of                        *)
(* xenplatform/src/domain.rs.  Calls of many tasks interleave, each of their *)
(* calls to the hypervisor or the store may fail, and a task may be dropped  *)
(* where it stands.  The hypervisor reuses the number of a domain that is    *)
(* gone; what the store holds for the number may be the former domain's.     *)
(*                                                                          *)
(* Each create has a uuid of its own.  A transaction on the store is one     *)
(* step, the one that commits it; DeviceTransactions has its refusals and    *)
(* DomainTeardown the steps of destroy_store.                                *)
(***************************************************************************)
EXTENDS Integers, FiniteSets

CONSTANTS
  Tasks,       \* callers of create and destroy
  Domids,      \* numbers of domains
  MaxCreates,  \* bound: creates; each has its number as uuid
  MaxErrors,   \* bound: calls that fail
  MaxCancels   \* bound: calls dropped by their caller

VARIABLES
  hyp,       \* hypervisor: for each number the domain there, or NoDomain
  decl,      \* store: whose declaration is in the domain's directory
  front,     \* store: whose devices have frontends there
  ids,       \* store: whose device ids the stored allocators hold
  backs,     \* store: whose backends there are
  vms,       \* store: the vm directories
  intro,     \* store: the domain whose ring the store serves
  pc, dom, uuid,   \* each task: where it is, its domain, its uuid
  known,     \* domains that create has returned and nobody destroys
  creates, errors, cancels,
  troubled   \* history: uuids that met an error or were dropped

storeVars == <<decl, front, ids, backs, vms, intro>>
budget == <<creates, errors, cancels>>
vars == <<hyp, storeVars, pc, dom, uuid, known, budget, troubled>>

Uuids == 1..MaxCreates
None == 0
\* The set-up of a domain, in the order of the calls.
Steps == {"vcpus", "mem", "load", "initialize", "boot"}
NoDomain == [uuid |-> None, made |-> {}, running |-> FALSE]

Creating == {"base", "vcpus", "mem", "load", "initialize", "boot", "declare",
             "introduce", "prepare", "devices", "unpause"}

TypeOK ==
  /\ hyp \in [Domids -> [uuid : Uuids \cup {None}, made : SUBSET Steps, running : BOOLEAN]]
  /\ decl \in [Domids -> Uuids \cup {None}]
  /\ front \in [Domids -> Uuids \cup {None}]
  /\ ids \in [Domids -> SUBSET Uuids] /\ backs \in [Domids -> SUBSET Uuids]
  /\ vms \subseteq Uuids
  /\ intro \in [Domids -> Uuids \cup {None}]
  /\ pc \in [Tasks -> Creating \cup {"idle", "undo", "clear", "destroy"}]
  /\ dom \in [Tasks -> Domids \cup {None}]
  /\ uuid \in [Tasks -> Uuids \cup {None}]
  /\ known \subseteq [dom : Domids, uuid : Uuids]
  /\ creates \in 0..MaxCreates /\ errors \in 0..MaxErrors /\ cancels \in 0..MaxCancels
  /\ troubled \subseteq Uuids
  /\ \A t \in Tasks : pc[t] = "idle" <=> uuid[t] = None
  /\ \A t \in Tasks : dom[t] = None <=> pc[t] \in {"idle", "base"}

Init ==
  /\ hyp = [d \in Domids |-> NoDomain]
  /\ decl = [d \in Domids |-> None] /\ front = [d \in Domids |-> None]
  /\ ids = [d \in Domids |-> {}] /\ backs = [d \in Domids |-> {}]
  /\ vms = {} /\ intro = [d \in Domids |-> None]
  /\ pc = [t \in Tasks |-> "idle"]
  /\ dom = [t \in Tasks |-> None] /\ uuid = [t \in Tasks |-> None]
  /\ known = {} /\ creates = 0 /\ errors = 0 /\ cancels = 0 /\ troubled = {}

------------------------------------------------------------------------------
Goto(t, from, to) == pc[t] = from /\ pc' = [pc EXCEPT ![t] = to]
Forget(t) == dom' = [dom EXCEPT ![t] = None] /\ uuid' = [uuid EXCEPT ![t] = None]
Calm == UNCHANGED <<known, budget, troubled>>
\* A step of task t's call that touches nothing but the store, or the hypervisor.
InStore == UNCHANGED <<hyp, dom, uuid>> /\ Calm
InHypervisor == UNCHANGED <<storeVars, dom, uuid>> /\ Calm

BeginCreate(t) ==
  /\ creates < MaxCreates
  /\ Goto(t, "idle", "base")
  /\ creates' = creates + 1
  /\ uuid' = [uuid EXCEPT ![t] = creates + 1]
  /\ UNCHANGED <<hyp, storeVars, dom, known, errors, cancels, troubled>>

CreateDomain(t) ==
  /\ Goto(t, "base", "vcpus")
  /\ \E d \in Domids :
       /\ hyp[d] = NoDomain
       /\ hyp' = [hyp EXCEPT ![d].uuid = uuid[t]]
       /\ dom' = [dom EXCEPT ![t] = d]
  /\ UNCHANGED <<storeVars, uuid>> /\ Calm

\* One call of the set-up; a domain that is gone refuses it (CallFails).
SetUp(t, step, next) ==
  /\ Goto(t, step, next)
  /\ hyp[dom[t]].uuid = uuid[t]
  /\ hyp' = [hyp EXCEPT ![dom[t]].made = @ \cup {step}]
  /\ InHypervisor
SetMaxVcpus(t) == SetUp(t, "vcpus", "mem")
SetMaxMem(t) == SetUp(t, "mem", "load")
LoadKernel(t) == SetUp(t, "load", "initialize")
Initialize(t) == SetUp(t, "initialize", "boot")
Boot(t) == SetUp(t, "boot", "declare")

\* Mutant of Declare: the directory of a former domain is not removed.
DeclareOver(t) ==
  /\ Goto(t, "declare", "introduce")
  /\ decl' = [decl EXCEPT ![dom[t]] = IF @ = None THEN uuid[t] ELSE @]
  /\ vms' = vms \cup {uuid[t]}
  /\ UNCHANGED <<front, ids, backs, intro>> /\ InStore
\* The allocators are loaded, the old directory is removed, the new one made,
\* and the allocators written back as they were loaded.
Declare(t) ==
  /\ Goto(t, "declare", "introduce")
  /\ decl' = [decl EXCEPT ![dom[t]] = uuid[t]]
  /\ front' = [front EXCEPT ![dom[t]] = None]
  /\ vms' = vms \cup {uuid[t]}
  /\ UNCHANGED <<ids, backs, intro>> /\ InStore

IntroduceDomain(t) ==
  /\ Goto(t, "introduce", "prepare")
  /\ hyp[dom[t]].uuid = uuid[t]
  /\ intro' = [intro EXCEPT ![dom[t]] = uuid[t]]
  /\ UNCHANGED <<decl, front, ids, backs, vms>> /\ InStore

Prepare(t) ==
  /\ Goto(t, "prepare", "devices")
  /\ UNCHANGED <<hyp, storeVars, dom, uuid>> /\ Calm

AddDevices(t) ==
  /\ Goto(t, "devices", "unpause")
  /\ front' = [front EXCEPT ![dom[t]] = uuid[t]]
  /\ ids' = [ids EXCEPT ![dom[t]] = @ \cup {uuid[t]}]
  /\ backs' = [backs EXCEPT ![dom[t]] = @ \cup {uuid[t]}]
  /\ UNCHANGED <<decl, vms, intro>> /\ InStore

\* The domain is started if its configuration says so, and returned.
Unpause(t) ==
  /\ Goto(t, "unpause", "idle")
  /\ hyp[dom[t]].uuid = uuid[t]
  /\ \E start \in BOOLEAN : hyp' = [hyp EXCEPT ![dom[t]].running = start]
  /\ known' = known \cup {[dom |-> dom[t], uuid |-> uuid[t]]}
  /\ Forget(t)
  /\ UNCHANGED <<storeVars, budget, troubled>>

\* A call of create fails: once there is a domain it is destroyed, whether
\* create_internal or init has failed.  Nothing is done about the store.
CallFails(t) ==
  /\ errors < MaxErrors
  /\ pc[t] \in Creating
  /\ IF pc[t] = "base"
       THEN pc' = [pc EXCEPT ![t] = "idle"] /\ Forget(t)
       ELSE pc' = [pc EXCEPT ![t] = "undo"] /\ UNCHANGED <<dom, uuid>>
  /\ errors' = errors + 1
  /\ troubled' = troubled \cup {uuid[t]}
  /\ UNCHANGED <<hyp, storeVars, known, creates, cancels>>

\* The hypervisor forgets a domain, and the store its ring.
Destroyed(d) ==
  /\ hyp' = [hyp EXCEPT ![d] = NoDomain]
  /\ intro' = [intro EXCEPT ![d] = None]
  /\ UNCHANGED <<decl, front, ids, backs, vms>>

\* The domain that could not be made is destroyed; an error is ignored.
Undo(t) ==
  /\ Goto(t, "undo", "idle")
  /\ \/ Destroyed(dom[t]) /\ UNCHANGED errors
     \/ errors < MaxErrors /\ errors' = errors + 1 /\ UNCHANGED <<hyp, storeVars>>
  /\ Forget(t)
  /\ UNCHANGED <<known, creates, cancels, troubled>>

\* Assumption: a domain is destroyed by one call at a time, and by its owner.
BeginDestroy(t, k) ==
  /\ k \in known
  /\ Goto(t, "idle", "clear")
  /\ known' = known \ {k}
  /\ dom' = [dom EXCEPT ![t] = k.dom]
  /\ uuid' = [uuid EXCEPT ![t] = k.uuid]
  /\ UNCHANGED <<hyp, storeVars, budget, troubled>>

\* Mutant of DestroyStore: the stored allocators are left behind.
DestroyStoreButIds(t) ==
  /\ Goto(t, "clear", "destroy")
  /\ decl' = [decl EXCEPT ![dom[t]] = None]
  /\ front' = [front EXCEPT ![dom[t]] = None]
  /\ backs' = [backs EXCEPT ![dom[t]] = {}]
  /\ vms' = vms \ {decl[dom[t]]}
  /\ UNCHANGED <<ids, intro, hyp, dom, uuid>> /\ Calm
\* The directory, the vm directory it names and the backends, or an error that
\* is ignored.
DestroyStore(t) ==
  /\ Goto(t, "clear", "destroy")
  /\ \/ /\ decl' = [decl EXCEPT ![dom[t]] = None]
        /\ front' = [front EXCEPT ![dom[t]] = None]
        /\ ids' = [ids EXCEPT ![dom[t]] = {}]
        /\ backs' = [backs EXCEPT ![dom[t]] = {}]
        /\ vms' = vms \ {decl[dom[t]]}
        /\ UNCHANGED <<intro, errors, troubled>>
     \/ /\ errors < MaxErrors
        /\ errors' = errors + 1
        /\ troubled' = troubled \cup {uuid[t]}
        /\ UNCHANGED storeVars
  /\ UNCHANGED <<hyp, dom, uuid, known, creates, cancels>>

DestroyDomain(t) ==
  /\ Goto(t, "destroy", "idle")
  /\ \/ Destroyed(dom[t]) /\ UNCHANGED <<errors, troubled>>
     \/ /\ errors < MaxErrors
        /\ errors' = errors + 1
        /\ troubled' = troubled \cup {uuid[t]}
        /\ UNCHANGED <<hyp, storeVars>>
  /\ Forget(t)
  /\ UNCHANGED <<known, creates, cancels>>

\* A call is dropped: nothing undoes what it has done.
Cancel(t) ==
  /\ cancels < MaxCancels
  /\ pc[t] # "idle"
  /\ pc' = [pc EXCEPT ![t] = "idle"]
  /\ cancels' = cancels + 1
  /\ troubled' = troubled \cup {uuid[t]}
  /\ Forget(t)
  /\ UNCHANGED <<hyp, storeVars, known, creates, errors>>

Create(t) ==
  \/ CreateDomain(t) \/ SetMaxVcpus(t) \/ SetMaxMem(t) \/ LoadKernel(t)
  \/ Initialize(t) \/ Boot(t) \/ Declare(t) \/ IntroduceDomain(t)
  \/ Prepare(t) \/ AddDevices(t) \/ Unpause(t)

Next ==
  \E t \in Tasks :
    \/ BeginCreate(t) \/ Create(t) \/ CallFails(t) \/ Undo(t)
    \/ (\E k \in known : BeginDestroy(t, k)) \/ DestroyStore(t) \/ DestroyDomain(t)
    \/ Cancel(t)

Spec == Init /\ [][Next]_vars

------------------------------------------------------------------------------
InProgress(u) == \E t \in Tasks : uuid[t] = u

\* What create has returned is whole, in the hypervisor and in the store, until
\* it is destroyed: no other call, failed or destroying, takes anything from it
\* although numbers of domains come round (lib.rs:44-59, 65-155, 157-161).
ReturnedAreWhole ==
  \A k \in known :
    /\ hyp[k.dom].uuid = k.uuid /\ hyp[k.dom].made = Steps
    /\ decl[k.dom] = k.uuid /\ front[k.dom] = k.uuid /\ intro[k.dom] = k.uuid
    /\ k.uuid \in vms \cap ids[k.dom] \cap backs[k.dom]

\* Domains nobody has are the work of errors in destroying and of dropped calls,
\* one each (create, lib.rs:51-58 and domain.rs:88-99).
DomainsAreAccounted ==
  Cardinality({d \in Domids :
      /\ hyp[d] # NoDomain
      /\ [dom |-> d, uuid |-> hyp[d].uuid] \notin known
      /\ ~InProgress(hyp[d].uuid)}) <= errors + cancels

\* What the store holds for a number is its present domain's, or it belongs to
\* one that met an error or was dropped.
LeftoversAreExplained ==
  \A d \in Domids : \A u \in ({decl[d], front[d]} \cup ids[d] \cup backs[d]) \ {None} :
    \/ u = hyp[d].uuid
    \/ u \in troubled

\* A vm directory is in use, or belongs to one that met an error or was dropped.
VmsAreExplained ==
  \A u \in vms : (\E d \in Domids : hyp[d].uuid = u) \/ u \in troubled
==============================================================================
