----------------------------- MODULE DomainsProofs -----------------------------
(***************************************************************************)
(* Proofs about DomainLifecycle, DomainTeardown, DeviceNodes and PciDevices,  *)
(* as MCDomains runs them, for all values of its constants.                  *)
(***************************************************************************)
EXTENDS MCDomains, FiniteSetTheorems, TLAPS

------------------------------------------------------------------------------
(* DomainLifecycle.                                                         *)

\* Whose a domain is: a call's or known, of one owner, by a uuid that is used once.
Owned ==
  /\ \A t \in Tasks : dom[t] # 0 => hyp[dom[t]].uuid = uuid[t]
  /\ \A k \in known : hyp[k.dom].uuid = k.uuid
  /\ \A s, t \in Tasks : uuid[s] = uuid[t] /\ uuid[t] # 0 => s = t
  /\ \A t \in Tasks, k \in known : uuid[t] # k.uuid
  /\ \A t \in Tasks, d \in Domids : pc[t] = "base" => hyp[d].uuid # uuid[t]
  /\ \A c, d \in Domids : hyp[c].uuid = hyp[d].uuid /\ hyp[d].uuid # 0 => c = d
  /\ \A d \in Domids : hyp[d].uuid = 0 => hyp[d] = Life!NoDomain

\* A uuid is new when a create begins.
Numbered ==
  /\ \A t \in Tasks : uuid[t] <= creates
  /\ \A k \in known : k.uuid <= creates
  /\ \A d \in Domids : hyp[d].uuid <= creates

\* How far a create has come in the hypervisor and in the store.
MadeBefore(place) ==
  CASE place = "vcpus" -> {}
    [] place = "mem" -> {"vcpus"}
    [] place = "load" -> {"vcpus", "mem"}
    [] place = "initialize" -> {"vcpus", "mem", "load"}
    [] place = "boot" -> {"vcpus", "mem", "load", "initialize"}
    [] OTHER -> Life!Steps
Advanced(t) ==
  /\ pc[t] \in Life!Creating \ {"base"} => hyp[dom[t]].made = MadeBefore(pc[t])
  /\ pc[t] \in {"introduce", "prepare", "devices", "unpause", "clear"} =>
       decl[dom[t]] = uuid[t] /\ uuid[t] \in vms
  /\ pc[t] \in {"prepare", "devices", "unpause"} => intro[dom[t]] = uuid[t]
  /\ pc[t] = "unpause" =>
       front[dom[t]] = uuid[t] /\ uuid[t] \in ids[dom[t]] \cap backs[dom[t]]
AllAdvanced == \A t \in Tasks : Advanced(t)

\* What a call leaves when it lets the hypervisor forget its domain is explained.
Stored(d) == ({decl[d], front[d]} \cup ids[d] \cup backs[d]) \ {0}
Explained ==
  /\ \A t \in Tasks : pc[t] = "undo" => uuid[t] \in troubled
  /\ \A t \in Tasks : pc[t] = "destroy" =>
       Stored(dom[t]) \subseteq troubled /\ (uuid[t] \in vms => uuid[t] \in troubled)
  /\ Life!LeftoversAreExplained
  /\ Life!VmsAreExplained

LifeInv ==
  /\ Life!TypeOK /\ Owned /\ Numbered /\ AllAdvanced /\ Life!ReturnedAreWhole
  /\ Explained /\ Life!DomainsAreAccounted

LifeStep(t) ==
  \/ Life!BeginCreate(t) \/ Life!Create(t) \/ Life!CallFails(t) \/ Life!Undo(t)
  \/ (\E k \in known : Life!BeginDestroy(t, k)) \/ Life!DestroyStore(t)
  \/ Life!DestroyDomain(t) \/ Life!Cancel(t)

Kinds == [uuid : Life!Uuids \cup {0}, made : SUBSET Life!Steps, running : BOOLEAN]

\* A call sets the domain of task t up a step further, or starts it.
Shapes(t) ==
  /\ pc[t] \in Life!Steps \cup {"unpause"}
  /\ \E r \in Kinds :
       /\ r.uuid = uuid[t] /\ hyp[dom[t]].uuid = uuid[t]
       /\ r.made = IF pc[t] \in Life!Steps THEN hyp[dom[t]].made \cup {pc[t]}
                   ELSE hyp[dom[t]].made
       /\ hyp' = [hyp EXCEPT ![dom[t]] = r]
\* The hypervisor makes a domain for task t.
Makes(t) ==
  /\ pc[t] = "base" /\ pc' = [pc EXCEPT ![t] = "vcpus"] /\ UNCHANGED uuid
  /\ \E d \in Domids, r \in Kinds :
       /\ hyp[d] = Life!NoDomain /\ r.uuid = uuid[t] /\ r.made = {}
       /\ hyp' = [hyp EXCEPT ![d] = r] /\ dom' = [dom EXCEPT ![t] = d]
\* It forgets the one that task t destroys.
Forgets(t) ==
  /\ pc[t] \in {"undo", "destroy"} /\ pc' = [pc EXCEPT ![t] = "idle"] /\ UNCHANGED known
  /\ hyp' = [hyp EXCEPT ![dom[t]] = Life!NoDomain]
HypStep(t) == UNCHANGED hyp \/ Shapes(t) \/ Makes(t) \/ Forgets(t)

LEMMA SetUpEffect ==
    ASSUME Life!TypeOK, NEW t \in Tasks, NEW step \in Life!Steps, NEW next,
           Life!SetUp(t, step, next)
    PROVE  Shapes(t)
<1> DEFINE h == hyp[dom[t]]
           r == [uuid |-> h.uuid, made |-> h.made \cup {step}, running |-> h.running]
<1>1. pc[t] = step /\ h.uuid = uuid[t] /\ hyp' = [hyp EXCEPT ![dom[t]].made = @ \cup {step}]
  BY DEF Life!SetUp, Life!Goto
<1>2. dom[t] \in Domids /\ h \in Kinds /\ hyp \in [Domids -> Kinds]
  BY <1>1 DEF Life!TypeOK, Kinds, Life!None, Life!Steps
<1>3. r \in Kinds
  BY <1>2 DEF Kinds
<1>4. [h EXCEPT !.made = @ \cup {step}] = r
  BY <1>2 DEF Kinds
<1>5. hyp' = [hyp EXCEPT ![dom[t]] = r]
  BY <1>1, <1>4, Zenon
<1> QED BY <1>1, <1>2, <1>3, <1>5 DEF Shapes

LEMMA UnpauseEffect == ASSUME Life!TypeOK, NEW t \in Tasks, Life!Unpause(t) PROVE Shapes(t)
<1> DEFINE h == hyp[dom[t]]
<1>1. PICK start \in BOOLEAN :
        pc[t] = "unpause" /\ h.uuid = uuid[t] /\ hyp' = [hyp EXCEPT ![dom[t]].running = start]
  BY DEF Life!Unpause, Life!Goto
<1> DEFINE r == [uuid |-> h.uuid, made |-> h.made, running |-> start]
<1>2. dom[t] \in Domids /\ h \in Kinds /\ hyp \in [Domids -> Kinds]
  BY <1>1 DEF Life!TypeOK, Kinds, Life!None, Life!Steps
<1>3. r \in Kinds
  BY <1>2 DEF Kinds
<1>4. [h EXCEPT !.running = start] = r
  BY <1>2 DEF Kinds
<1>5. hyp' = [hyp EXCEPT ![dom[t]] = r]
  BY <1>1, <1>4, Zenon
<1> QED BY <1>1, <1>2, <1>3, <1>5 DEF Shapes, Life!Steps

LEMMA CreateEffect == ASSUME Life!TypeOK, NEW t \in Tasks, Life!CreateDomain(t) PROVE Makes(t)
<1>1. PICK d \in Domids :
        hyp[d] = Life!NoDomain /\ hyp' = [hyp EXCEPT ![d].uuid = uuid[t]]
        /\ dom' = [dom EXCEPT ![t] = d]
  BY DEF Life!CreateDomain
<1> DEFINE r == [uuid |-> uuid[t], made |-> {}, running |-> FALSE]
<1>2. pc[t] = "base" /\ pc' = [pc EXCEPT ![t] = "vcpus"] /\ UNCHANGED uuid
  BY DEF Life!CreateDomain, Life!Goto
<1>3. r \in Kinds
  BY DEF Kinds, Life!TypeOK, Life!None
<1>4. [hyp[d] EXCEPT !.uuid = uuid[t]] = r
  <2> DEFINE h == hyp[d]
  <2>1. h \in Kinds
    BY DEF Life!TypeOK, Kinds, Life!None
  <2>2. [h EXCEPT !.uuid = uuid[t]] = [uuid |-> uuid[t], made |-> h.made, running |-> h.running]
    BY <2>1 DEF Kinds
  <2>3. h.made = {} /\ h.running = FALSE
    BY <1>1 DEF Life!NoDomain
  <2> QED BY <2>2, <2>3
<1>5. hyp' = [hyp EXCEPT ![d] = r]
  BY <1>1, <1>4, Zenon
<1> QED BY <1>1, <1>2, <1>3, <1>5 DEF Makes

LEMMA HypSteps == ASSUME Life!TypeOK, NEW t \in Tasks, LifeStep(t) PROVE HypStep(t)
<1> USE DEF HypStep, Forgets, Life!Goto, Life!Forget, Life!Calm, Life!InStore,
            Life!InHypervisor, Life!storeVars, Life!budget
<1>1. CASE Life!BeginCreate(t)
  BY <1>1 DEF Life!BeginCreate
<1>2. CASE Life!CreateDomain(t)
  BY <1>2, CreateEffect
<1>3. CASE Life!SetMaxVcpus(t)
  BY <1>3, SetUpEffect DEF Life!SetMaxVcpus, Life!Steps
<1>4. CASE Life!SetMaxMem(t)
  BY <1>4, SetUpEffect DEF Life!SetMaxMem, Life!Steps
<1>5. CASE Life!LoadKernel(t)
  BY <1>5, SetUpEffect DEF Life!LoadKernel, Life!Steps
<1>6. CASE Life!Initialize(t)
  BY <1>6, SetUpEffect DEF Life!Initialize, Life!Steps
<1>7. CASE Life!Boot(t)
  BY <1>7, SetUpEffect DEF Life!Boot, Life!Steps
<1>8. CASE Life!Declare(t)
  BY <1>8 DEF Life!Declare
<1>9. CASE Life!IntroduceDomain(t)
  BY <1>9 DEF Life!IntroduceDomain
<1>10. CASE Life!Prepare(t)
  BY <1>10 DEF Life!Prepare
<1>11. CASE Life!AddDevices(t)
  BY <1>11 DEF Life!AddDevices
<1>12. CASE Life!Unpause(t)
  BY <1>12, UnpauseEffect
<1>13. CASE Life!CallFails(t)
  BY <1>13 DEF Life!CallFails
<1>14. CASE Life!Undo(t)
  BY <1>14 DEF Life!Undo, Life!Destroyed
<1>15. CASE Life!DestroyStore(t)
  BY <1>15 DEF Life!DestroyStore
<1>16. CASE Life!DestroyDomain(t)
  BY <1>16 DEF Life!DestroyDomain, Life!Destroyed
<1>17. CASE Life!Cancel(t)
  BY <1>17 DEF Life!Cancel
<1>18. CASE \E k \in known : Life!BeginDestroy(t, k)
  BY <1>18 DEF Life!BeginDestroy
<1> QED BY <1>1, <1>2, <1>3, <1>4, <1>5, <1>6, <1>7, <1>8, <1>9, <1>10, <1>11, <1>12,
           <1>13, <1>14, <1>15, <1>16, <1>17, <1>18 DEF Life!Create, LifeStep

\* What a step of task t leaves alone: the store but for its own domain, the
\* other tasks, what is known, and what is troubled.
Framed(t) ==
  /\ \A d \in Domids \ {dom[t]} :
       /\ decl'[d] = decl[d] /\ front'[d] = front[d] /\ intro'[d] = intro[d]
       /\ ids'[d] = ids[d] /\ backs'[d] = backs[d]
  /\ \A s \in Tasks \ {t} : pc'[s] = pc[s] /\ dom'[s] = dom[s] /\ uuid'[s] = uuid[s]
  /\ \A u \in vms' \ vms : u = uuid[t] /\ UNCHANGED hyp /\ pc[t] = "declare"
  /\ \A k \in known \ known' : uuid'[t] = k.uuid
  /\ ~Life!Unpause(t) => known' \subseteq known
  /\ UNCHANGED troubled \/ (pc[t] # "idle" /\ troubled' = troubled \cup {uuid[t]})
  /\ pc[t] \in {"undo", "destroy"} /\ pc'[t] = "idle" => UNCHANGED <<decl, front, ids, backs, vms>>
  /\ creates' = creates \/ (creates < MaxCreates /\ creates' = creates + 1)
  /\ \/ UNCHANGED <<errors, cancels>>
     \/ errors < MaxLifeErrors /\ errors' = errors + 1 /\ UNCHANGED cancels
     \/ cancels < MaxCancels /\ cancels' = cancels + 1 /\ UNCHANGED errors

LEMMA Frames == ASSUME NEW t \in Tasks, Life!TypeOK, LifeStep(t) PROVE Framed(t)
<1> USE DEF Framed, Life!TypeOK, Life!Creating, Life!Goto, Life!Forget, Life!Calm,
            Life!InStore, Life!InHypervisor, Life!storeVars, Life!budget
<1>1. CASE Life!BeginCreate(t)
  BY <1>1 DEF Life!BeginCreate
<1>2. CASE Life!CreateDomain(t)
  BY <1>2 DEF Life!CreateDomain
<1>3. CASE Life!SetMaxVcpus(t)
  BY <1>3 DEF Life!SetMaxVcpus, Life!SetUp
<1>4. CASE Life!SetMaxMem(t)
  BY <1>4 DEF Life!SetMaxMem, Life!SetUp
<1>5. CASE Life!LoadKernel(t)
  BY <1>5 DEF Life!LoadKernel, Life!SetUp
<1>6. CASE Life!Initialize(t)
  BY <1>6 DEF Life!Initialize, Life!SetUp
<1>7. CASE Life!Boot(t)
  BY <1>7 DEF Life!Boot, Life!SetUp
<1>8. CASE Life!Declare(t)
  BY <1>8 DEF Life!Declare
<1>9. CASE Life!IntroduceDomain(t)
  BY <1>9 DEF Life!IntroduceDomain
<1>10. CASE Life!Prepare(t)
  BY <1>10 DEF Life!Prepare
<1>11. CASE Life!AddDevices(t)
  BY <1>11 DEF Life!AddDevices
<1>12. CASE Life!Unpause(t)
  BY <1>12 DEF Life!Unpause
<1>13. CASE Life!CallFails(t)
  BY <1>13 DEF Life!CallFails
<1>14. CASE Life!Undo(t)
  BY <1>14 DEF Life!Undo, Life!Destroyed
<1>15. CASE Life!DestroyStore(t)
  BY <1>15 DEF Life!DestroyStore
<1>16. CASE Life!DestroyDomain(t)
  BY <1>16 DEF Life!DestroyDomain, Life!Destroyed
<1>17. CASE Life!Cancel(t)
  BY <1>17 DEF Life!Cancel
<1>18. CASE \E k \in known : Life!BeginDestroy(t, k)
  BY <1>18 DEF Life!BeginDestroy
<1> QED BY <1>1, <1>2, <1>3, <1>4, <1>5, <1>6, <1>7, <1>8, <1>9, <1>10, <1>11, <1>12,
           <1>13, <1>14, <1>15, <1>16, <1>17, <1>18 DEF Life!Create, LifeStep

LEMMA HypTyped == ASSUME Life!TypeOK, NEW t \in Tasks, HypStep(t) PROVE hyp' \in [Domids -> Kinds]
<1>1. Life!NoDomain \in Kinds
  BY DEF Kinds, Life!NoDomain, Life!None
<1>2. hyp \in [Domids -> Kinds]
  BY DEF Life!TypeOK, Kinds, Life!None
<1> QED BY <1>1, <1>2 DEF HypStep, Shapes, Makes, Forgets

LEMMA ControlTyped ==
    ASSUME Life!TypeOK, NEW t \in Tasks, LifeStep(t)
    PROVE  /\ pc' \in [Tasks -> Life!Creating \cup {"idle", "undo", "clear", "destroy"}]
           /\ dom' \in [Tasks -> Domids \cup {0}]
           /\ uuid' \in [Tasks -> Life!Uuids \cup {0}]
           /\ \A s \in Tasks : pc'[s] = "idle" <=> uuid'[s] = 0
           /\ \A s \in Tasks : dom'[s] = 0 <=> pc'[s] \in {"idle", "base"}
<1> USE ConstantsAssumption DEF Life!TypeOK, Life!Uuids, Life!None, Life!Creating,
                                Life!Goto, Life!Forget, Life!Calm, Life!InStore,
                                Life!InHypervisor, Life!storeVars, Life!budget
<1>1. CASE Life!BeginCreate(t)
  BY <1>1 DEF Life!BeginCreate
<1>2. CASE Life!CreateDomain(t)
  BY <1>2 DEF Life!CreateDomain
<1>3. CASE Life!SetMaxVcpus(t)
  BY <1>3 DEF Life!SetMaxVcpus, Life!SetUp
<1>4. CASE Life!SetMaxMem(t)
  BY <1>4 DEF Life!SetMaxMem, Life!SetUp
<1>5. CASE Life!LoadKernel(t)
  BY <1>5 DEF Life!LoadKernel, Life!SetUp
<1>6. CASE Life!Initialize(t)
  BY <1>6 DEF Life!Initialize, Life!SetUp
<1>7. CASE Life!Boot(t)
  BY <1>7 DEF Life!Boot, Life!SetUp
<1>8. CASE Life!Declare(t)
  BY <1>8 DEF Life!Declare
<1>9. CASE Life!IntroduceDomain(t)
  BY <1>9 DEF Life!IntroduceDomain
<1>10. CASE Life!Prepare(t)
  BY <1>10 DEF Life!Prepare
<1>11. CASE Life!AddDevices(t)
  BY <1>11 DEF Life!AddDevices
<1>12. CASE Life!Unpause(t)
  BY <1>12 DEF Life!Unpause
<1>13. CASE Life!CallFails(t)
  BY <1>13 DEF Life!CallFails
<1>14. CASE Life!Undo(t)
  BY <1>14 DEF Life!Undo, Life!Destroyed
<1>15. CASE Life!DestroyStore(t)
  BY <1>15 DEF Life!DestroyStore
<1>16. CASE Life!DestroyDomain(t)
  BY <1>16 DEF Life!DestroyDomain, Life!Destroyed
<1>17. CASE Life!Cancel(t)
  BY <1>17 DEF Life!Cancel
<1>18. CASE \E k \in known : Life!BeginDestroy(t, k)
  BY <1>18 DEF Life!BeginDestroy
<1> QED BY <1>1, <1>2, <1>3, <1>4, <1>5, <1>6, <1>7, <1>8, <1>9, <1>10, <1>11, <1>12,
           <1>13, <1>14, <1>15, <1>16, <1>17, <1>18 DEF Life!Create, LifeStep

LEMMA StoreTyped ==
    ASSUME Life!TypeOK, NEW t \in Tasks, LifeStep(t)
    PROVE  /\ decl' \in [Domids -> Life!Uuids \cup {0}]
           /\ front' \in [Domids -> Life!Uuids \cup {0}]
           /\ ids' \in [Domids -> SUBSET Life!Uuids] /\ backs' \in [Domids -> SUBSET Life!Uuids]
           /\ vms' \subseteq Life!Uuids
           /\ intro' \in [Domids -> Life!Uuids \cup {0}]
           /\ known' \subseteq [dom : Domids, uuid : Life!Uuids]
<1>t. pc[t] # "idle" => uuid[t] \in Life!Uuids
  BY DEF Life!TypeOK, Life!None
<1> USE ConstantsAssumption, <1>t DEF Life!TypeOK, Life!None, Life!Creating, Life!Goto,
                                      Life!Forget, Life!Calm, Life!InStore,
                                      Life!InHypervisor, Life!storeVars, Life!budget
<1>1. CASE Life!BeginCreate(t)
  BY <1>1 DEF Life!BeginCreate
<1>2. CASE Life!CreateDomain(t)
  BY <1>2 DEF Life!CreateDomain
<1>3. CASE Life!SetMaxVcpus(t)
  BY <1>3 DEF Life!SetMaxVcpus, Life!SetUp
<1>4. CASE Life!SetMaxMem(t)
  BY <1>4 DEF Life!SetMaxMem, Life!SetUp
<1>5. CASE Life!LoadKernel(t)
  BY <1>5 DEF Life!LoadKernel, Life!SetUp
<1>6. CASE Life!Initialize(t)
  BY <1>6 DEF Life!Initialize, Life!SetUp
<1>7. CASE Life!Boot(t)
  BY <1>7 DEF Life!Boot, Life!SetUp
<1>8. CASE Life!Declare(t)
  BY <1>8 DEF Life!Declare
<1>9. CASE Life!IntroduceDomain(t)
  BY <1>9 DEF Life!IntroduceDomain
<1>10. CASE Life!Prepare(t)
  BY <1>10 DEF Life!Prepare
<1>11. CASE Life!AddDevices(t)
  BY <1>11 DEF Life!AddDevices
<1>12. CASE Life!Unpause(t)
  BY <1>12 DEF Life!Unpause
<1>13. CASE Life!CallFails(t)
  BY <1>13 DEF Life!CallFails
<1>14. CASE Life!Undo(t)
  BY <1>14 DEF Life!Undo, Life!Destroyed
<1>15. CASE Life!DestroyStore(t)
  BY <1>15 DEF Life!DestroyStore
<1>16. CASE Life!DestroyDomain(t)
  BY <1>16 DEF Life!DestroyDomain, Life!Destroyed
<1>17. CASE Life!Cancel(t)
  BY <1>17 DEF Life!Cancel
<1>18. CASE \E k \in known : Life!BeginDestroy(t, k)
  BY <1>18 DEF Life!BeginDestroy
<1> QED BY <1>1, <1>2, <1>3, <1>4, <1>5, <1>6, <1>7, <1>8, <1>9, <1>10, <1>11, <1>12,
           <1>13, <1>14, <1>15, <1>16, <1>17, <1>18 DEF Life!Create, LifeStep

LEMMA CountersTyped ==
    ASSUME Life!TypeOK, NEW t \in Tasks, LifeStep(t)
    PROVE  /\ creates' \in 0..MaxCreates /\ errors' \in 0..MaxLifeErrors
           /\ cancels' \in 0..MaxCancels /\ troubled' \subseteq Life!Uuids
<1>1. /\ creates \in 0..MaxCreates /\ errors \in 0..MaxLifeErrors /\ cancels \in 0..MaxCancels
      /\ MaxCreates \in Nat /\ MaxLifeErrors \in Nat /\ MaxCancels \in Nat
      /\ troubled \subseteq Life!Uuids /\ (pc[t] # "idle" => uuid[t] \in Life!Uuids)
  BY ConstantsAssumption DEF Life!TypeOK, Life!None
<1> QED BY <1>1, Frames DEF Framed

LEMMA TypeStep == ASSUME Life!TypeOK, NEW t \in Tasks, LifeStep(t) PROVE Life!TypeOK'
  BY HypSteps, HypTyped, ControlTyped, StoreTyped, CountersTyped
  DEF Life!TypeOK, Kinds, Life!None

LEMMA DomainsApart ==
    ASSUME Life!TypeOK, Owned, NEW s \in Tasks, NEW t \in Tasks, s # t, dom[t] # 0
    PROVE  dom[s] # dom[t]
  BY ConstantsAssumption DEF Life!TypeOK, Owned, Life!None

LEMMA KnownApart ==
    ASSUME Life!TypeOK, Owned, NEW t \in Tasks, NEW k \in known
    PROVE  dom[t] # k.dom
  BY ConstantsAssumption DEF Life!TypeOK, Owned, Life!None

\* Who has what does not change.
LEMMA SameOwners ==
    ASSUME Life!TypeOK, Owned, Numbered, NEW t \in Tasks, hyp' \in [Domids -> Kinds],
           UNCHANGED hyp \/ Shapes(t), UNCHANGED <<dom, uuid, known, creates>>,
           NEW to, to # "base", pc' = [pc EXCEPT ![t] = to]
    PROVE  Owned' /\ Numbered'
<1>1. \A d \in Domids : hyp'[d].uuid = hyp[d].uuid /\ (hyp[d].uuid = 0 => hyp'[d] = hyp[d])
  BY DEF Life!TypeOK, Shapes, Life!Steps, Life!None
<1>2. \A s \in Tasks : pc'[s] = "base" => pc[s] = "base"
  BY DEF Life!TypeOK
<1> QED BY <1>1, <1>2, ConstantsAssumption DEF Owned, Numbered, Life!TypeOK, Life!None

\* Task t gives up what it has, or the hypervisor does.
LEMMA FewerOwners ==
    ASSUME Life!TypeOK, Owned, Numbered, NEW t \in Tasks, hyp' \in [Domids -> Kinds],
           UNCHANGED hyp \/ Forgets(t), UNCHANGED <<known, creates>>,
           pc' = [pc EXCEPT ![t] = "idle"],
           dom' = [dom EXCEPT ![t] = 0], uuid' = [uuid EXCEPT ![t] = 0]
    PROVE  Owned' /\ Numbered'
<1>1. \A s \in Tasks \ {t} : dom'[s] = dom[s] /\ uuid'[s] = uuid[s] /\ pc'[s] = pc[s]
  BY DEF Life!TypeOK
<1>2. dom'[t] = 0 /\ uuid'[t] = 0 /\ pc'[t] = "idle" /\ creates \in Nat
  BY ConstantsAssumption DEF Life!TypeOK
<1>3. /\ Life!NoDomain.uuid = 0
      /\ \A d \in Domids : hyp'[d] = hyp[d] \/ (d = dom[t] /\ hyp'[d] = Life!NoDomain)
      /\ \/ UNCHANGED hyp
         \/ dom[t] \in Domids
  BY DEF Forgets, Life!TypeOK, Life!None, Life!NoDomain
<1>4. \A s \in Tasks : dom'[s] # 0 => hyp'[dom'[s]] = hyp[dom[s]]
  <2> SUFFICES ASSUME NEW s \in Tasks, dom'[s] # 0 PROVE hyp'[dom'[s]] = hyp[dom[s]]
    OBVIOUS
  <2>1. s # t /\ dom'[s] = dom[s]
    BY <1>1, <1>2
  <2>2. dom[s] # dom[t] /\ dom[s] \in Domids
    BY <2>1, DomainsApart DEF Life!TypeOK, Life!None
  <2> QED BY <1>3, <2>1, <2>2
<1>5. \A k \in known : hyp'[k.dom] = hyp[k.dom]
  BY <1>3, KnownApart DEF Life!TypeOK
<1>6. \A s \in Tasks : dom'[s] # 0 => hyp'[dom'[s]].uuid = uuid'[s]
  BY <1>1, <1>2, <1>4 DEF Owned
<1>7. \A k \in known : hyp'[k.dom].uuid = k.uuid
  BY <1>5 DEF Owned
<1>8. \A r, s \in Tasks : uuid'[r] = uuid'[s] /\ uuid'[s] # 0 => r = s
  BY <1>1, <1>2 DEF Owned
<1>9. \A s \in Tasks, k \in known : uuid'[s] # k.uuid
  BY <1>1, <1>2 DEF Owned, Life!TypeOK, Life!Uuids
<1>10. \A s \in Tasks, d \in Domids : pc'[s] = "base" => hyp'[d].uuid # uuid'[s]
  BY <1>1, <1>2, <1>3 DEF Owned, Life!TypeOK, Life!None
<1>11. \A c, d \in Domids : hyp'[c].uuid = hyp'[d].uuid /\ hyp'[d].uuid # 0 => c = d
  BY <1>3 DEF Owned
<1>12. \A d \in Domids : hyp'[d].uuid = 0 => hyp'[d] = Life!NoDomain
  BY <1>3 DEF Owned
<1>13. Numbered'
  BY <1>1, <1>2, <1>3 DEF Numbered
<1> QED BY <1>6, <1>7, <1>8, <1>9, <1>10, <1>11, <1>12, <1>13 DEF Owned

LEMMA OwnedStep ==
    ASSUME Life!TypeOK, Owned, Numbered, NEW t \in Tasks, LifeStep(t)
    PROVE  Owned' /\ Numbered'
<1>h. hyp' \in [Domids -> Kinds] /\ HypStep(t)
  BY HypSteps, HypTyped
<1>1. CASE Life!BeginCreate(t)
  BY <1>1, ConstantsAssumption DEF Life!BeginCreate, Owned, Numbered, Life!TypeOK,
                                   Life!None, Life!Uuids, Life!Goto, Life!Forget,
                                   Life!Calm, Life!InStore, Life!InHypervisor,
                                   Life!storeVars, Life!budget
<1>2. CASE Life!CreateDomain(t)
  <2>1. PICK d \in Domids, r \in Kinds :
           /\ hyp[d] = Life!NoDomain /\ r.uuid = uuid[t]
           /\ hyp' = [hyp EXCEPT ![d] = r] /\ dom' = [dom EXCEPT ![t] = d]
    BY <1>2, CreateEffect DEF Makes
  <2>2. pc[t] = "base" /\ pc' = [pc EXCEPT ![t] = "vcpus"] /\ UNCHANGED <<uuid, known, creates>>
    BY <1>2 DEF Life!CreateDomain, Life!Goto, Life!Forget, Life!Calm, Life!InStore,
                Life!InHypervisor, Life!storeVars, Life!budget
  <2>3. hyp[d].uuid = 0 /\ \A s \in Tasks : dom[s] # d
    BY <2>1, ConstantsAssumption DEF Life!NoDomain, Life!None, Owned, Life!TypeOK
  <2>4. \A e \in Domids : e # d => hyp'[e] = hyp[e]
    BY <2>1 DEF Life!TypeOK
  <2>5. hyp'[d].uuid = uuid[t] /\ uuid[t] # 0 /\ dom'[t] = d /\ \A k \in known : k.dom # d
    BY <2>1, <2>2, <2>3 DEF Life!TypeOK, Life!None, Life!Uuids, Owned
  <2> QED BY <2>1, <2>2, <2>3, <2>4, <2>5 DEF Owned, Numbered, Life!TypeOK, Life!None
<1>3. CASE Life!SetMaxVcpus(t)
  <2>1. Shapes(t)
    BY <1>3, SetUpEffect DEF Life!SetMaxVcpus, Life!Steps
  <2> QED BY <1>3, <1>h, <2>1, SameOwners DEF Life!SetMaxVcpus, Life!SetUp, Life!Goto,
              Life!Forget, Life!Calm, Life!InStore, Life!InHypervisor, Life!storeVars,
              Life!budget
<1>4. CASE Life!SetMaxMem(t)
  <2>1. Shapes(t)
    BY <1>4, SetUpEffect DEF Life!SetMaxMem, Life!Steps
  <2> QED BY <1>4, <1>h, <2>1, SameOwners DEF Life!SetMaxMem, Life!SetUp, Life!Goto,
              Life!Forget, Life!Calm, Life!InStore, Life!InHypervisor, Life!storeVars,
              Life!budget
<1>5. CASE Life!LoadKernel(t)
  <2>1. Shapes(t)
    BY <1>5, SetUpEffect DEF Life!LoadKernel, Life!Steps
  <2> QED BY <1>5, <1>h, <2>1, SameOwners DEF Life!LoadKernel, Life!SetUp, Life!Goto,
              Life!Forget, Life!Calm, Life!InStore, Life!InHypervisor, Life!storeVars,
              Life!budget
<1>6. CASE Life!Initialize(t)
  <2>1. Shapes(t)
    BY <1>6, SetUpEffect DEF Life!Initialize, Life!Steps
  <2> QED BY <1>6, <1>h, <2>1, SameOwners DEF Life!Initialize, Life!SetUp, Life!Goto,
              Life!Forget, Life!Calm, Life!InStore, Life!InHypervisor, Life!storeVars,
              Life!budget
<1>7. CASE Life!Boot(t)
  <2>1. Shapes(t)
    BY <1>7, SetUpEffect DEF Life!Boot, Life!Steps
  <2> QED BY <1>7, <1>h, <2>1, SameOwners DEF Life!Boot, Life!SetUp, Life!Goto,
              Life!Forget, Life!Calm, Life!InStore, Life!InHypervisor, Life!storeVars,
              Life!budget
<1>8. CASE Life!Declare(t)
  BY <1>8, <1>h, SameOwners DEF HypStep, Makes, Forgets, Life!Declare, Life!Goto,
                                Life!Forget, Life!Calm, Life!InStore, Life!InHypervisor,
                                Life!storeVars, Life!budget
<1>9. CASE Life!IntroduceDomain(t)
  BY <1>9, <1>h, SameOwners DEF HypStep, Makes, Forgets, Life!IntroduceDomain, Life!Goto,
                                Life!Forget, Life!Calm, Life!InStore, Life!InHypervisor,
                                Life!storeVars, Life!budget
<1>10. CASE Life!Prepare(t)
  BY <1>10, <1>h, SameOwners DEF HypStep, Makes, Forgets, Life!Prepare, Life!Goto,
                                 Life!Forget, Life!Calm, Life!InStore, Life!InHypervisor,
                                 Life!storeVars, Life!budget
<1>11. CASE Life!AddDevices(t)
  BY <1>11, <1>h, SameOwners DEF HypStep, Makes, Forgets, Life!AddDevices, Life!Goto,
                                 Life!Forget, Life!Calm, Life!InStore, Life!InHypervisor,
                                 Life!storeVars, Life!budget
<1>12. CASE Life!Unpause(t)
  <2>1. Shapes(t)
    BY <1>12, UnpauseEffect
  <2>2. \A d \in Domids : hyp'[d].uuid = hyp[d].uuid /\ (hyp[d].uuid = 0 => hyp'[d] = hyp[d])
    BY <2>1 DEF Life!TypeOK, Shapes, Life!Steps, Life!None
  <2>3. /\ dom[t] \in Domids /\ uuid[t] # 0 /\ hyp[dom[t]].uuid = uuid[t]
        /\ pc' = [pc EXCEPT ![t] = "idle"] /\ UNCHANGED creates
        /\ dom' = [dom EXCEPT ![t] = 0] /\ uuid' = [uuid EXCEPT ![t] = 0]
        /\ known' = known \cup {[dom |-> dom[t], uuid |-> uuid[t]]}
    BY <1>12 DEF Life!Unpause, Life!TypeOK, Life!None, Owned, Life!Goto, Life!Forget,
                 Life!Calm, Life!InStore, Life!InHypervisor, Life!storeVars, Life!budget
  <2>4. /\ \A s \in Tasks \ {t} : dom'[s] = dom[s] /\ uuid'[s] = uuid[s] /\ pc'[s] = pc[s]
        /\ dom'[t] = 0 /\ uuid'[t] = 0 /\ pc'[t] = "idle"
    BY <2>3 DEF Life!TypeOK
  <2>5. \A k \in known' : k \in known \/ (k.dom = dom[t] /\ k.uuid = uuid[t])
    BY <2>3
  <2>6. Numbered'
    BY <2>2, <2>3, <2>4, <2>5, ConstantsAssumption DEF Numbered, Life!TypeOK
  <2>7. \A s \in Tasks, k \in known' : uuid'[s] # k.uuid
    BY <2>3, <2>4, <2>5 DEF Owned, Life!TypeOK, Life!Uuids
  <2>8. \A k \in known' : hyp'[k.dom].uuid = k.uuid
    BY <2>2, <2>3, <2>5 DEF Owned, Life!TypeOK
  <2> QED BY <2>2, <2>3, <2>4, <2>6, <2>7, <2>8, ConstantsAssumption
          DEF Owned, Life!TypeOK, Life!None
<1>13. CASE Life!CallFails(t)
  <2>1. CASE pc[t] = "base"
    BY <1>13, <2>1, <1>h, FewerOwners DEF Life!CallFails, Life!None, Life!Goto,
        Life!Forget, Life!Calm, Life!InStore, Life!InHypervisor, Life!storeVars,
        Life!budget
  <2>2. CASE pc[t] # "base"
    BY <1>13, <2>2, <1>h, SameOwners DEF Life!CallFails, Life!Goto, Life!Forget,
        Life!Calm, Life!InStore, Life!InHypervisor, Life!storeVars, Life!budget
  <2> QED BY <2>1, <2>2
<1>14. CASE Life!Undo(t)
  BY <1>14, <1>h, FewerOwners DEF HypStep, Makes, Shapes, Life!Steps, Forgets, Life!Undo,
                                  Life!Destroyed, Life!None, Life!Goto, Life!Forget,
                                  Life!Calm, Life!InStore, Life!InHypervisor,
                                  Life!storeVars, Life!budget
<1>15. CASE Life!DestroyStore(t)
  BY <1>15, <1>h, SameOwners DEF HypStep, Makes, Forgets, Life!DestroyStore, Life!Goto,
                                 Life!Forget, Life!Calm, Life!InStore, Life!InHypervisor,
                                 Life!storeVars, Life!budget
<1>16. CASE Life!DestroyDomain(t)
  BY <1>16, <1>h, FewerOwners DEF HypStep, Makes, Shapes, Life!Steps, Forgets,
                                  Life!DestroyDomain, Life!Destroyed, Life!None,
                                  Life!Goto, Life!Forget, Life!Calm, Life!InStore,
                                  Life!InHypervisor, Life!storeVars, Life!budget
<1>17. CASE Life!Cancel(t)
  BY <1>17, <1>h, FewerOwners DEF HypStep, Makes, Shapes, Life!Steps, Forgets,
                                  Life!Cancel, Life!None, Life!Goto, Life!Forget,
                                  Life!Calm, Life!InStore, Life!InHypervisor,
                                  Life!storeVars, Life!budget
<1>18. CASE \E k \in known : Life!BeginDestroy(t, k)
  BY <1>18, ConstantsAssumption DEF Life!BeginDestroy, Owned, Numbered, Life!TypeOK,
                                    Life!None, Life!Goto, Life!Forget, Life!Calm,
                                    Life!InStore, Life!InHypervisor, Life!storeVars,
                                    Life!budget
<1> QED BY <1>1, <1>2, <1>3, <1>4, <1>5, <1>6, <1>7, <1>8, <1>9, <1>10, <1>11, <1>12,
           <1>13, <1>14, <1>15, <1>16, <1>17, <1>18 DEF Life!Create, LifeStep

LEMMA HypFrame ==
    ASSUME Life!TypeOK, NEW t \in Tasks, LifeStep(t), NEW d \in Domids, d # dom[t]
    PROVE  hyp'[d] = hyp[d] \/ hyp[d] = Life!NoDomain
<1>1. CASE Makes(t)
  <2>1. PICK e \in Domids, r \in Kinds :
          hyp[e] = Life!NoDomain /\ hyp' = [hyp EXCEPT ![e] = r]
    BY <1>1 DEF Makes
  <2> QED BY <2>1 DEF Life!TypeOK
<1>2. CASE UNCHANGED hyp \/ Shapes(t) \/ Forgets(t)
  BY <1>2 DEF Shapes, Forgets, Life!TypeOK
<1> QED BY <1>1, <1>2, HypSteps DEF HypStep

LEMMA VmFrame ==
    ASSUME Life!TypeOK, AllAdvanced, NEW t \in Tasks, LifeStep(t), NEW u \in vms, u # uuid[t]
    PROVE  u \in vms'
<1> USE DEF AllAdvanced, Advanced, Life!Goto, Life!Forget, Life!Calm, Life!InStore,
            Life!InHypervisor, Life!storeVars, Life!budget
<1>1. CASE Life!BeginCreate(t)
  BY <1>1 DEF Life!BeginCreate
<1>2. CASE Life!CreateDomain(t)
  BY <1>2 DEF Life!CreateDomain
<1>3. CASE Life!SetMaxVcpus(t)
  BY <1>3 DEF Life!SetMaxVcpus, Life!SetUp
<1>4. CASE Life!SetMaxMem(t)
  BY <1>4 DEF Life!SetMaxMem, Life!SetUp
<1>5. CASE Life!LoadKernel(t)
  BY <1>5 DEF Life!LoadKernel, Life!SetUp
<1>6. CASE Life!Initialize(t)
  BY <1>6 DEF Life!Initialize, Life!SetUp
<1>7. CASE Life!Boot(t)
  BY <1>7 DEF Life!Boot, Life!SetUp
<1>8. CASE Life!Declare(t)
  BY <1>8 DEF Life!Declare
<1>9. CASE Life!IntroduceDomain(t)
  BY <1>9 DEF Life!IntroduceDomain
<1>10. CASE Life!Prepare(t)
  BY <1>10 DEF Life!Prepare
<1>11. CASE Life!AddDevices(t)
  BY <1>11 DEF Life!AddDevices
<1>12. CASE Life!Unpause(t)
  BY <1>12 DEF Life!Unpause
<1>13. CASE Life!CallFails(t)
  BY <1>13 DEF Life!CallFails
<1>14. CASE Life!Undo(t)
  BY <1>14 DEF Life!Undo, Life!Destroyed
<1>15. CASE Life!DestroyStore(t)
  BY <1>15 DEF Life!DestroyStore
<1>16. CASE Life!DestroyDomain(t)
  BY <1>16 DEF Life!DestroyDomain, Life!Destroyed
<1>17. CASE Life!Cancel(t)
  BY <1>17 DEF Life!Cancel
<1>18. CASE \E k \in known : Life!BeginDestroy(t, k)
  BY <1>18 DEF Life!BeginDestroy
<1> QED BY <1>1, <1>2, <1>3, <1>4, <1>5, <1>6, <1>7, <1>8, <1>9, <1>10, <1>11, <1>12,
           <1>13, <1>14, <1>15, <1>16, <1>17, <1>18 DEF Life!Create, LifeStep

\* What task t has done is done.
LEMMA SelfAdvanced ==
    ASSUME NEW t \in Tasks, Life!TypeOK, Owned, Advanced(t), Life!ReturnedAreWhole, LifeStep(t)
    PROVE  Advanced(t)'
<1>1. CASE Life!BeginCreate(t)
  <2>1. pc'[t] \in {"idle", "base", "undo", "destroy"}
    BY <1>1 DEF Life!BeginCreate, Life!TypeOK, Life!Goto
  <2> QED BY <2>1 DEF Advanced, Life!Creating
<1>2. CASE Life!CreateDomain(t)
  <2>1. Makes(t)
    BY <1>2, CreateEffect
  <2>2. pc'[t] = "vcpus" /\ hyp'[dom'[t]].made = {}
    BY <2>1 DEF Makes, Life!TypeOK
  <2> QED BY <2>2 DEF Advanced, MadeBefore, Life!Creating
<1>3. CASE Life!SetMaxVcpus(t)
  <2>1. Shapes(t)
    BY <1>3, SetUpEffect DEF Life!SetMaxVcpus, Life!Steps
  <2>2. dom[t] \in Domids /\ UNCHANGED <<dom, uuid, decl, vms>>
    BY <1>3 DEF Life!SetMaxVcpus, Life!SetUp, Life!TypeOK, Life!None, Life!Goto,
                Life!Forget, Life!Calm, Life!InStore, Life!InHypervisor, Life!storeVars,
                Life!budget
  <2>3. hyp'[dom[t]].made = hyp[dom[t]].made \cup {pc[t]}
    BY <1>3, <2>1, <2>2 DEF Shapes, Life!SetMaxVcpus, Life!SetUp, Life!TypeOK, Life!Steps,
                            Life!Goto
  <2> QED BY <1>3, <2>2, <2>3 DEF Life!SetMaxVcpus, Life!SetUp, Advanced, MadeBefore,
                                  Life!Steps, Life!Creating, Life!TypeOK, Life!Goto
<1>4. CASE Life!SetMaxMem(t)
  <2>1. Shapes(t)
    BY <1>4, SetUpEffect DEF Life!SetMaxMem, Life!Steps
  <2>2. dom[t] \in Domids /\ UNCHANGED <<dom, uuid, decl, vms>>
    BY <1>4 DEF Life!SetMaxMem, Life!SetUp, Life!TypeOK, Life!None, Life!Goto,
                Life!Forget, Life!Calm, Life!InStore, Life!InHypervisor, Life!storeVars,
                Life!budget
  <2>3. hyp'[dom[t]].made = hyp[dom[t]].made \cup {pc[t]}
    BY <1>4, <2>1, <2>2 DEF Shapes, Life!SetMaxMem, Life!SetUp, Life!TypeOK, Life!Steps,
                            Life!Goto
  <2> QED BY <1>4, <2>2, <2>3 DEF Life!SetMaxMem, Life!SetUp, Advanced, MadeBefore,
                                  Life!Steps, Life!Creating, Life!TypeOK, Life!Goto
<1>5. CASE Life!LoadKernel(t)
  <2>1. Shapes(t)
    BY <1>5, SetUpEffect DEF Life!LoadKernel, Life!Steps
  <2>2. dom[t] \in Domids /\ UNCHANGED <<dom, uuid, decl, vms>>
    BY <1>5 DEF Life!LoadKernel, Life!SetUp, Life!TypeOK, Life!None, Life!Goto,
                Life!Forget, Life!Calm, Life!InStore, Life!InHypervisor, Life!storeVars,
                Life!budget
  <2>3. hyp'[dom[t]].made = hyp[dom[t]].made \cup {pc[t]}
    BY <1>5, <2>1, <2>2 DEF Shapes, Life!LoadKernel, Life!SetUp, Life!TypeOK, Life!Steps,
                            Life!Goto
  <2> QED BY <1>5, <2>2, <2>3 DEF Life!LoadKernel, Life!SetUp, Advanced, MadeBefore,
                                  Life!Steps, Life!Creating, Life!TypeOK, Life!Goto
<1>6. CASE Life!Initialize(t)
  <2>1. Shapes(t)
    BY <1>6, SetUpEffect DEF Life!Initialize, Life!Steps
  <2>2. dom[t] \in Domids /\ UNCHANGED <<dom, uuid, decl, vms>>
    BY <1>6 DEF Life!Initialize, Life!SetUp, Life!TypeOK, Life!None, Life!Goto,
                Life!Forget, Life!Calm, Life!InStore, Life!InHypervisor, Life!storeVars,
                Life!budget
  <2>3. hyp'[dom[t]].made = hyp[dom[t]].made \cup {pc[t]}
    BY <1>6, <2>1, <2>2 DEF Shapes, Life!Initialize, Life!SetUp, Life!TypeOK, Life!Steps,
                            Life!Goto
  <2> QED BY <1>6, <2>2, <2>3 DEF Life!Initialize, Life!SetUp, Advanced, MadeBefore,
                                  Life!Steps, Life!Creating, Life!TypeOK, Life!Goto
<1>7. CASE Life!Boot(t)
  <2>1. Shapes(t)
    BY <1>7, SetUpEffect DEF Life!Boot, Life!Steps
  <2>2. dom[t] \in Domids /\ UNCHANGED <<dom, uuid, decl, vms>>
    BY <1>7 DEF Life!Boot, Life!SetUp, Life!TypeOK, Life!None, Life!Goto, Life!Forget,
                Life!Calm, Life!InStore, Life!InHypervisor, Life!storeVars, Life!budget
  <2>3. hyp'[dom[t]].made = hyp[dom[t]].made \cup {pc[t]}
    BY <1>7, <2>1, <2>2 DEF Shapes, Life!Boot, Life!SetUp, Life!TypeOK, Life!Steps,
                            Life!Goto
  <2> QED BY <1>7, <2>2, <2>3 DEF Life!Boot, Life!SetUp, Advanced, MadeBefore, Life!Steps,
                                  Life!Creating, Life!TypeOK, Life!Goto
<1>8. CASE Life!Declare(t)
  BY <1>8 DEF Life!Declare, Advanced, MadeBefore, Life!Steps, Life!Creating, Life!TypeOK,
              Life!None, Life!Goto, Life!Forget, Life!Calm, Life!InStore,
              Life!InHypervisor, Life!storeVars, Life!budget
<1>9. CASE Life!IntroduceDomain(t)
  BY <1>9 DEF Life!IntroduceDomain, Advanced, MadeBefore, Life!Steps, Life!Creating,
              Life!TypeOK, Life!None, Life!Goto, Life!Forget, Life!Calm, Life!InStore,
              Life!InHypervisor, Life!storeVars, Life!budget
<1>10. CASE Life!Prepare(t)
  BY <1>10 DEF Life!Prepare, Advanced, MadeBefore, Life!Steps, Life!Creating, Life!TypeOK,
               Life!None, Life!Goto, Life!Forget, Life!Calm, Life!InStore,
               Life!InHypervisor, Life!storeVars, Life!budget
<1>11. CASE Life!AddDevices(t)
  BY <1>11 DEF Life!AddDevices, Advanced, MadeBefore, Life!Steps, Life!Creating,
               Life!TypeOK, Life!None, Life!Goto, Life!Forget, Life!Calm, Life!InStore,
               Life!InHypervisor, Life!storeVars, Life!budget
<1>12. CASE Life!Unpause(t)
  <2>1. pc'[t] = "idle"
    BY <1>12 DEF Life!Unpause, Life!TypeOK, Life!Goto
  <2> QED BY <2>1 DEF Advanced, Life!Creating
<1>13. CASE Life!CallFails(t)
  <2>1. pc'[t] \in {"idle", "base", "undo", "destroy"}
    BY <1>13 DEF Life!CallFails, Life!TypeOK, Life!Goto
  <2> QED BY <2>1 DEF Advanced, Life!Creating
<1>14. CASE Life!Undo(t)
  <2>1. pc'[t] \in {"idle", "base", "undo", "destroy"}
    BY <1>14 DEF Life!Undo, Life!Destroyed, Life!TypeOK, Life!Goto
  <2> QED BY <2>1 DEF Advanced, Life!Creating
<1>15. CASE Life!DestroyStore(t)
  <2>1. pc'[t] \in {"idle", "base", "undo", "destroy"}
    BY <1>15 DEF Life!DestroyStore, Life!TypeOK, Life!Goto
  <2> QED BY <2>1 DEF Advanced, Life!Creating
<1>16. CASE Life!DestroyDomain(t)
  <2>1. pc'[t] \in {"idle", "base", "undo", "destroy"}
    BY <1>16 DEF Life!DestroyDomain, Life!Destroyed, Life!TypeOK, Life!Goto
  <2> QED BY <2>1 DEF Advanced, Life!Creating
<1>17. CASE Life!Cancel(t)
  <2>1. pc'[t] \in {"idle", "base", "undo", "destroy"}
    BY <1>17 DEF Life!Cancel, Life!TypeOK, Life!Goto
  <2> QED BY <2>1 DEF Advanced, Life!Creating
<1>18. CASE \E k \in known : Life!BeginDestroy(t, k)
  BY <1>18 DEF Life!BeginDestroy, Life!ReturnedAreWhole, Advanced, MadeBefore, Life!Steps,
               Life!Creating, Life!TypeOK, Life!None, Life!Goto, Life!Forget, Life!Calm,
               Life!InStore, Life!InHypervisor, Life!storeVars, Life!budget
<1> QED BY <1>1, <1>2, <1>3, <1>4, <1>5, <1>6, <1>7, <1>8, <1>9, <1>10, <1>11, <1>12,
           <1>13, <1>14, <1>15, <1>16, <1>17, <1>18 DEF Life!Create, LifeStep

LEMMA AdvancedStep ==
    ASSUME Life!TypeOK, Owned, AllAdvanced, Life!ReturnedAreWhole, NEW t \in Tasks, LifeStep(t)
    PROVE  AllAdvanced'
<1>1. Advanced(t)'
  BY SelfAdvanced DEF AllAdvanced
<1>2. ASSUME NEW s \in Tasks, s # t PROVE Advanced(s)'
  <2>1. Advanced(s) /\ pc'[s] = pc[s] /\ dom'[s] = dom[s] /\ uuid'[s] = uuid[s]
    BY <1>2, Frames DEF AllAdvanced, Framed
  <2>2. CASE dom[s] = 0
    BY <2>1, <2>2 DEF Advanced, Life!TypeOK, Life!None, Life!Creating
  <2>3. CASE dom[s] # 0
    <3>1. dom[s] \in Domids /\ dom[s] # dom[t] /\ uuid[s] # uuid[t]
      BY <1>2, <2>3, DomainsApart DEF Life!TypeOK, Owned, Life!None
    <3>2. hyp[dom[s]] # Life!NoDomain
      BY <2>3, <3>1 DEF Owned, Life!TypeOK, Life!None, Life!NoDomain
    <3> QED BY <2>1, <3>1, <3>2, Frames, HypFrame, VmFrame DEF Advanced, Framed
  <2> QED BY <2>2, <2>3
<1> QED BY <1>1, <1>2 DEF AllAdvanced

\* What create returned is as it returned it, since another's call cannot touch
\* it, and what it returns now has been made.
LEMMA ReturnedStep ==
    ASSUME Life!TypeOK, Owned, AllAdvanced, Life!ReturnedAreWhole, NEW t \in Tasks, LifeStep(t)
    PROVE  Life!ReturnedAreWhole'
<1>1. ASSUME NEW k \in known
      PROVE  /\ hyp'[k.dom].uuid = k.uuid /\ hyp'[k.dom].made = Life!Steps
             /\ decl'[k.dom] = k.uuid /\ front'[k.dom] = k.uuid /\ intro'[k.dom] = k.uuid
             /\ k.uuid \in vms' \cap ids'[k.dom] \cap backs'[k.dom]
  <2>1. k.dom \in Domids /\ k.dom # dom[t] /\ k.uuid # uuid[t] /\ k.uuid # 0
    BY KnownApart DEF Owned, Life!TypeOK, Life!Uuids
  <2>2. hyp[k.dom] # Life!NoDomain
    BY <2>1 DEF Life!ReturnedAreWhole, Life!NoDomain, Life!None
  <2>3. hyp'[k.dom] = hyp[k.dom]
    BY <2>1, <2>2, HypFrame
  <2> QED BY <2>1, <2>3, Frames, VmFrame DEF Life!ReturnedAreWhole, Framed
<1>2. CASE Life!Unpause(t)
  <2>1. Shapes(t) /\ pc[t] = "unpause" /\ UNCHANGED <<decl, front, intro, ids, backs, vms>>
    BY <1>2, UnpauseEffect DEF Life!Unpause, Life!Goto, Life!storeVars
  <2>2. dom[t] \in Domids
    BY <2>1 DEF Life!TypeOK, Life!None
  <2>3. hyp'[dom[t]].uuid = uuid[t] /\ hyp'[dom[t]].made = hyp[dom[t]].made
    BY <2>1, <2>2 DEF Shapes, Life!TypeOK, Life!Steps
  <2>4. hyp'[dom[t]].made = Life!Steps
    BY <2>1, <2>3 DEF AllAdvanced, Advanced, MadeBefore, Life!Creating
  <2>5. \A k \in known' : k \in known \/ (k.dom = dom[t] /\ k.uuid = uuid[t])
    BY <1>2 DEF Life!Unpause
  <2> QED BY <1>1, <2>1, <2>3, <2>4, <2>5 DEF AllAdvanced, Advanced, Life!ReturnedAreWhole
<1>3. CASE ~Life!Unpause(t)
  <2>1. known' \subseteq known
    BY <1>3, Frames DEF Framed
  <2> QED BY <1>1, <2>1 DEF Life!ReturnedAreWhole
<1> QED BY <1>2, <1>3

\* A call that makes the hypervisor forget its domain has explained what stays.
ExplainedBy(t) ==
  /\ pc[t] = "undo" => uuid[t] \in troubled
  /\ pc[t] = "destroy" =>
       Stored(dom[t]) \subseteq troubled /\ (uuid[t] \in vms => uuid[t] \in troubled)

LEMMA ExplainedSelf ==
    ASSUME NEW t \in Tasks, Life!TypeOK, Owned, AllAdvanced, Explained, LifeStep(t)
    PROVE  ExplainedBy(t)'
<1>1. CASE Life!BeginCreate(t)
  <2>1. pc'[t] \notin {"undo", "destroy"}
    BY <1>1 DEF Life!BeginCreate, Life!TypeOK, Life!Goto
  <2> QED BY <2>1 DEF ExplainedBy
<1>2. CASE Life!CreateDomain(t)
  <2>1. pc'[t] \notin {"undo", "destroy"}
    BY <1>2 DEF Life!CreateDomain, Life!TypeOK, Life!Goto
  <2> QED BY <2>1 DEF ExplainedBy
<1>3. CASE Life!SetMaxVcpus(t)
  <2>1. pc'[t] \notin {"undo", "destroy"}
    BY <1>3 DEF Life!SetMaxVcpus, Life!SetUp, Life!TypeOK, Life!Goto
  <2> QED BY <2>1 DEF ExplainedBy
<1>4. CASE Life!SetMaxMem(t)
  <2>1. pc'[t] \notin {"undo", "destroy"}
    BY <1>4 DEF Life!SetMaxMem, Life!SetUp, Life!TypeOK, Life!Goto
  <2> QED BY <2>1 DEF ExplainedBy
<1>5. CASE Life!LoadKernel(t)
  <2>1. pc'[t] \notin {"undo", "destroy"}
    BY <1>5 DEF Life!LoadKernel, Life!SetUp, Life!TypeOK, Life!Goto
  <2> QED BY <2>1 DEF ExplainedBy
<1>6. CASE Life!Initialize(t)
  <2>1. pc'[t] \notin {"undo", "destroy"}
    BY <1>6 DEF Life!Initialize, Life!SetUp, Life!TypeOK, Life!Goto
  <2> QED BY <2>1 DEF ExplainedBy
<1>7. CASE Life!Boot(t)
  <2>1. pc'[t] \notin {"undo", "destroy"}
    BY <1>7 DEF Life!Boot, Life!SetUp, Life!TypeOK, Life!Goto
  <2> QED BY <2>1 DEF ExplainedBy
<1>8. CASE Life!Declare(t)
  <2>1. pc'[t] \notin {"undo", "destroy"}
    BY <1>8 DEF Life!Declare, Life!TypeOK, Life!Goto
  <2> QED BY <2>1 DEF ExplainedBy
<1>9. CASE Life!IntroduceDomain(t)
  <2>1. pc'[t] \notin {"undo", "destroy"}
    BY <1>9 DEF Life!IntroduceDomain, Life!TypeOK, Life!Goto
  <2> QED BY <2>1 DEF ExplainedBy
<1>10. CASE Life!Prepare(t)
  <2>1. pc'[t] \notin {"undo", "destroy"}
    BY <1>10 DEF Life!Prepare, Life!TypeOK, Life!Goto
  <2> QED BY <2>1 DEF ExplainedBy
<1>11. CASE Life!AddDevices(t)
  <2>1. pc'[t] \notin {"undo", "destroy"}
    BY <1>11 DEF Life!AddDevices, Life!TypeOK, Life!Goto
  <2> QED BY <2>1 DEF ExplainedBy
<1>12. CASE Life!Unpause(t)
  <2>1. pc'[t] \notin {"undo", "destroy"}
    BY <1>12 DEF Life!Unpause, Life!TypeOK, Life!Goto
  <2> QED BY <2>1 DEF ExplainedBy
<1>13. CASE Life!CallFails(t)
  <2>1. uuid[t] \in troubled' /\ (pc'[t] = "idle" \/ (pc'[t] = "undo" /\ uuid' = uuid))
    BY <1>13 DEF Life!CallFails, Life!TypeOK
  <2> QED BY <2>1 DEF ExplainedBy
<1>14. CASE Life!Undo(t)
  <2>1. pc'[t] \notin {"undo", "destroy"}
    BY <1>14 DEF Life!Undo, Life!Destroyed, Life!TypeOK, Life!Goto
  <2> QED BY <2>1 DEF ExplainedBy
<1>15. CASE Life!DestroyStore(t)
  <2>1. /\ pc[t] = "clear" /\ pc'[t] = "destroy" /\ UNCHANGED <<dom, uuid, hyp>>
        /\ dom[t] \in Domids /\ uuid[t] # 0 /\ hyp[dom[t]].uuid = uuid[t]
        /\ decl[dom[t]] = uuid[t]
    BY <1>15 DEF Life!DestroyStore, Life!Goto, Life!TypeOK, Life!None, Owned, AllAdvanced,
                 Advanced
  <2>2. CASE UNCHANGED Life!storeVars /\ troubled' = troubled \cup {uuid[t]}
    <3>1. Stored(dom[t])' = Stored(dom[t])
      BY <2>1, <2>2 DEF Stored, Life!storeVars
    <3>2. Stored(dom[t]) \subseteq troubled \cup {uuid[t]}
      BY <2>1 DEF Stored, Explained, Life!LeftoversAreExplained, Life!None
    <3> QED BY <2>1, <2>2, <3>1, <3>2 DEF ExplainedBy
  <2>3. CASE /\ decl' = [decl EXCEPT ![dom[t]] = 0] /\ front' = [front EXCEPT ![dom[t]] = 0]
             /\ ids' = [ids EXCEPT ![dom[t]] = {}] /\ backs' = [backs EXCEPT ![dom[t]] = {}]
             /\ vms' = vms \ {decl[dom[t]]}
    <3>1. decl'[dom[t]] = 0 /\ front'[dom[t]] = 0 /\ ids'[dom[t]] = {} /\ backs'[dom[t]] = {}
      BY <2>1, <2>3 DEF Life!TypeOK
    <3>2. Stored(dom[t])' = {}
      BY <2>1, <3>1 DEF Stored
    <3> QED BY <2>1, <2>3, <3>2 DEF ExplainedBy
  <2> QED BY <1>15, <2>2, <2>3 DEF Life!DestroyStore, Life!None
<1>16. CASE Life!DestroyDomain(t)
  <2>1. pc'[t] \notin {"undo", "destroy"}
    BY <1>16 DEF Life!DestroyDomain, Life!Destroyed, Life!TypeOK, Life!Goto
  <2> QED BY <2>1 DEF ExplainedBy
<1>17. CASE Life!Cancel(t)
  <2>1. pc'[t] \notin {"undo", "destroy"}
    BY <1>17 DEF Life!Cancel, Life!TypeOK, Life!Goto
  <2> QED BY <2>1 DEF ExplainedBy
<1>18. CASE \E k \in known : Life!BeginDestroy(t, k)
  <2>1. pc'[t] = "clear"
    BY <1>18 DEF Life!BeginDestroy, Life!TypeOK, Life!Goto
  <2> QED BY <2>1 DEF ExplainedBy
<1> QED BY <1>1, <1>2, <1>3, <1>4, <1>5, <1>6, <1>7, <1>8, <1>9, <1>10, <1>11, <1>12,
           <1>13, <1>14, <1>15, <1>16, <1>17, <1>18 DEF Life!Create, LifeStep

\* What is stored for the number of the domain at hand.
LEMMA StoredSelf ==
    ASSUME NEW t \in Tasks, Life!TypeOK, LifeStep(t), NEW d \in Domids, d = dom[t]
    PROVE  Stored(d)' \subseteq Stored(d) \cup {uuid[t]}
<1> USE DEF Life!TypeOK, Life!None, Stored, Life!Goto, Life!Forget, Life!Calm,
            Life!InStore, Life!InHypervisor, Life!storeVars, Life!budget
<1>1. CASE Life!BeginCreate(t)
  BY <1>1 DEF Life!BeginCreate
<1>2. CASE Life!CreateDomain(t)
  BY <1>2 DEF Life!CreateDomain
<1>3. CASE Life!SetMaxVcpus(t)
  BY <1>3 DEF Life!SetMaxVcpus, Life!SetUp
<1>4. CASE Life!SetMaxMem(t)
  BY <1>4 DEF Life!SetMaxMem, Life!SetUp
<1>5. CASE Life!LoadKernel(t)
  BY <1>5 DEF Life!LoadKernel, Life!SetUp
<1>6. CASE Life!Initialize(t)
  BY <1>6 DEF Life!Initialize, Life!SetUp
<1>7. CASE Life!Boot(t)
  BY <1>7 DEF Life!Boot, Life!SetUp
<1>8. CASE Life!Declare(t)
  BY <1>8 DEF Life!Declare
<1>9. CASE Life!IntroduceDomain(t)
  BY <1>9 DEF Life!IntroduceDomain
<1>10. CASE Life!Prepare(t)
  BY <1>10 DEF Life!Prepare
<1>11. CASE Life!AddDevices(t)
  BY <1>11 DEF Life!AddDevices
<1>12. CASE Life!Unpause(t)
  BY <1>12 DEF Life!Unpause
<1>13. CASE Life!CallFails(t)
  BY <1>13 DEF Life!CallFails
<1>14. CASE Life!Undo(t)
  BY <1>14 DEF Life!Undo, Life!Destroyed
<1>15. CASE Life!DestroyStore(t)
  BY <1>15 DEF Life!DestroyStore
<1>16. CASE Life!DestroyDomain(t)
  BY <1>16 DEF Life!DestroyDomain, Life!Destroyed
<1>17. CASE Life!Cancel(t)
  BY <1>17 DEF Life!Cancel
<1>18. CASE \E k \in known : Life!BeginDestroy(t, k)
  BY <1>18 DEF Life!BeginDestroy
<1> QED BY <1>1, <1>2, <1>3, <1>4, <1>5, <1>6, <1>7, <1>8, <1>9, <1>10, <1>11, <1>12,
           <1>13, <1>14, <1>15, <1>16, <1>17, <1>18 DEF Life!Create, LifeStep

LEMMA ExplainedStep ==
    ASSUME NEW t \in Tasks, Life!TypeOK, Owned, AllAdvanced, Explained, LifeStep(t)
    PROVE  Explained'
<1>s. troubled \subseteq troubled'
  BY Frames DEF Framed
<1>o. ASSUME NEW d \in Domids, d # dom[t]
      PROVE  Stored(d)' = Stored(d) /\ (hyp'[d] = hyp[d] \/ hyp[d] = Life!NoDomain)
  BY <1>o, Frames, HypFrame DEF Stored, Framed
<1>1. \A s \in Tasks : ExplainedBy(s)'
  <2> SUFFICES ASSUME NEW s \in Tasks, s # t PROVE ExplainedBy(s)'
    BY ExplainedSelf
  <2>1. pc'[s] = pc[s] /\ dom'[s] = dom[s] /\ uuid'[s] = uuid[s]
    BY Frames DEF Framed
  <2>2. CASE pc[s] = "destroy"
    <3>1. dom[s] \in Domids /\ dom[s] # dom[t] /\ uuid[s] # 0
      BY <2>2, DomainsApart DEF Life!TypeOK, Life!None
    <3>2. Stored(dom[s])' = Stored(dom[s])
      BY <1>o, <2>1, <3>1 DEF Stored
    <3>3. uuid[s] \in vms' => uuid[s] \in vms
      BY <3>1, Frames DEF Owned, Framed
    <3> QED BY <1>s, <2>1, <2>2, <3>2, <3>3 DEF ExplainedBy, Explained
  <2> QED BY <1>s, <2>1, <2>2 DEF ExplainedBy, Explained
<1>2. CASE Forgets(t)
  <2>1. /\ dom[t] \in Domids /\ hyp[dom[t]].uuid = uuid[t] /\ uuid[t] # 0
        /\ \A d \in Domids \ {dom[t]} : hyp'[d] = hyp[d]
    BY <1>2 DEF Forgets, Life!TypeOK, Life!None, Owned
  <2>2. Stored(dom[t]) \subseteq troubled /\ (uuid[t] \in vms => uuid[t] \in troubled)
    BY <1>2, <2>1 DEF Forgets, Explained, Stored, Life!LeftoversAreExplained, Life!None
  <2>3. \A d \in Domids : Stored(d)' = Stored(d)
    <3>1. pc[t] \in {"undo", "destroy"} /\ pc'[t] = "idle"
      BY <1>2 DEF Forgets, Life!TypeOK
    <3> QED BY <3>1, Frames DEF Stored, Framed
  <2>4. Life!LeftoversAreExplained'
    <3> SUFFICES ASSUME NEW d \in Domids, NEW u \in Stored(d)'
                 PROVE  u = hyp'[d].uuid \/ u \in troubled'
      BY DEF Life!LeftoversAreExplained, Stored, Life!None
    <3>1. CASE d = dom[t]
      BY <1>s, <2>2, <2>3, <3>1
    <3>2. CASE d # dom[t]
      BY <1>s, <2>1, <2>3, <3>2 DEF Explained, Stored, Life!LeftoversAreExplained, Life!None
    <3> QED BY <3>1, <3>2
  <2>5. vms' \subseteq vms
    BY <1>2, Frames DEF Forgets, Framed
  <2>6. Life!VmsAreExplained'
    <3> SUFFICES ASSUME NEW u \in vms', u \notin troubled'
                 PROVE  \E d \in Domids : hyp'[d].uuid = u
      BY DEF Life!VmsAreExplained
    <3>1. PICK d \in Domids : hyp[d].uuid = u
      BY <1>s, <2>5 DEF Explained, Life!VmsAreExplained
    <3>2. d # dom[t]
      BY <1>s, <2>1, <2>2, <2>5, <3>1
    <3> QED BY <2>1, <3>1, <3>2
  <2> QED BY <1>1, <2>4, <2>6 DEF Explained, ExplainedBy
<1>3. CASE ~Forgets(t)
  <2>1. \A d \in Domids : hyp'[d].uuid = hyp[d].uuid \/ hyp[d] = Life!NoDomain
    BY <1>3, HypSteps, HypFrame DEF HypStep, Shapes, Makes, Life!TypeOK, Life!Steps,
                                    Life!None
  <2>2. Life!NoDomain.uuid = 0
    BY DEF Life!NoDomain, Life!None
  <2>3. dom[t] # 0 => dom[t] \in Domids /\ hyp[dom[t]].uuid = uuid[t] /\ uuid[t] # 0
    BY DEF Life!TypeOK, Life!None, Owned
  <2>4. \A d \in Domids : Stored(d)' \subseteq Stored(d) \cup {hyp[d].uuid}
    <3> SUFFICES ASSUME NEW d \in Domids PROVE Stored(d)' \subseteq Stored(d) \cup {hyp[d].uuid}
      OBVIOUS
    <3>1. CASE d # dom[t]
      BY <1>o, <3>1
    <3>2. CASE d = dom[t]
      BY <2>3, <3>2, ConstantsAssumption, StoredSelf
    <3> QED BY <3>1, <3>2
  <2>5. Life!LeftoversAreExplained'
    <3> SUFFICES ASSUME NEW d \in Domids, NEW u \in Stored(d)', u # 0
                 PROVE  u = hyp'[d].uuid \/ u \in troubled'
      BY DEF Life!LeftoversAreExplained, Stored, Life!None
    <3>1. u \in Stored(d) \/ u = hyp[d].uuid
      BY <2>4
    <3>2. u = hyp[d].uuid \/ u \in troubled
      BY <3>1 DEF Stored, Explained, Life!LeftoversAreExplained, Life!None
    <3> QED BY <1>s, <2>1, <2>2, <3>2
  <2>6. Life!VmsAreExplained'
    <3> SUFFICES ASSUME NEW u \in vms', u \notin troubled'
                 PROVE  \E d \in Domids : hyp'[d].uuid = u
      BY DEF Life!VmsAreExplained
    <3>1. u # 0
      BY TypeStep DEF Life!TypeOK, Life!Uuids
    <3>2. CASE u \in vms
      <4>1. PICK d \in Domids : hyp[d].uuid = u
        BY <1>s, <3>2 DEF Explained, Life!VmsAreExplained
      <4> QED BY <2>1, <2>2, <3>1, <4>1
    <3>3. CASE u \notin vms
      <4>1. u = uuid[t] /\ UNCHANGED hyp /\ pc[t] = "declare"
        BY <3>3, Frames DEF Framed
      <4>2. dom[t] \in Domids /\ hyp'[dom[t]].uuid = u
        BY <4>1 DEF Owned, Life!TypeOK, Life!None
      <4> QED BY <4>2
    <3> QED BY <3>2, <3>3
  <2> QED BY <1>1, <2>5, <2>6 DEF Explained, ExplainedBy
<1> QED BY <1>2, <1>3

\* Domains nobody has.
Nobodys == {d \in Domids :
  /\ hyp[d] # Life!NoDomain
  /\ [dom |-> d, uuid |-> hyp[d].uuid] \notin known
  /\ ~Life!InProgress(hyp[d].uuid)}

LEMMA LifeCardinality == \A S : Life!Cardinality(S) = Cardinality(S)
  BY DEF Life!Cardinality, Cardinality

\* Who gives a domain up takes it over, has it destroyed, or hands it to its owner,
\* unless an error or a drop prevents it.
LEMMA Handover ==
    ASSUME NEW t \in Tasks, Life!TypeOK, LifeStep(t), dom[t] # 0,
           errors' = errors, cancels' = cancels
    PROVE  \/ uuid'[t] = uuid[t]
           \/ [dom |-> dom[t], uuid |-> uuid[t]] \in known'
           \/ Forgets(t)
<1>b. errors \in Nat /\ cancels \in Nat
  BY ConstantsAssumption DEF Life!TypeOK
<1> USE <1>b DEF Forgets, Life!TypeOK, Life!None, Life!Goto, Life!Forget, Life!Calm,
                 Life!InStore, Life!InHypervisor, Life!storeVars, Life!budget
<1>1. CASE Life!BeginCreate(t)
  BY <1>1 DEF Life!BeginCreate
<1>2. CASE Life!CreateDomain(t)
  BY <1>2 DEF Life!CreateDomain
<1>3. CASE Life!SetMaxVcpus(t)
  BY <1>3 DEF Life!SetMaxVcpus, Life!SetUp
<1>4. CASE Life!SetMaxMem(t)
  BY <1>4 DEF Life!SetMaxMem, Life!SetUp
<1>5. CASE Life!LoadKernel(t)
  BY <1>5 DEF Life!LoadKernel, Life!SetUp
<1>6. CASE Life!Initialize(t)
  BY <1>6 DEF Life!Initialize, Life!SetUp
<1>7. CASE Life!Boot(t)
  BY <1>7 DEF Life!Boot, Life!SetUp
<1>8. CASE Life!Declare(t)
  BY <1>8 DEF Life!Declare
<1>9. CASE Life!IntroduceDomain(t)
  BY <1>9 DEF Life!IntroduceDomain
<1>10. CASE Life!Prepare(t)
  BY <1>10 DEF Life!Prepare
<1>11. CASE Life!AddDevices(t)
  BY <1>11 DEF Life!AddDevices
<1>12. CASE Life!Unpause(t)
  BY <1>12 DEF Life!Unpause
<1>13. CASE Life!CallFails(t)
  BY <1>13 DEF Life!CallFails
<1>14. CASE Life!Undo(t)
  BY <1>14 DEF Life!Undo, Life!Destroyed
<1>15. CASE Life!DestroyStore(t)
  BY <1>15 DEF Life!DestroyStore
<1>16. CASE Life!DestroyDomain(t)
  BY <1>16 DEF Life!DestroyDomain, Life!Destroyed
<1>17. CASE Life!Cancel(t)
  BY <1>17 DEF Life!Cancel
<1>18. CASE \E k \in known : Life!BeginDestroy(t, k)
  BY <1>18 DEF Life!BeginDestroy
<1> QED BY <1>1, <1>2, <1>3, <1>4, <1>5, <1>6, <1>7, <1>8, <1>9, <1>10, <1>11, <1>12,
           <1>13, <1>14, <1>15, <1>16, <1>17, <1>18 DEF Life!Create, LifeStep

LEMMA NobodysGrow ==
    ASSUME NEW t \in Tasks, Life!TypeOK, Owned, LifeStep(t)
    PROVE  /\ Nobodys' \subseteq Nobodys \cup {dom[t]}
           /\ errors' = errors /\ cancels' = cancels => Nobodys' \subseteq Nobodys
<1>n. Life!NoDomain.uuid = 0
  BY DEF Life!NoDomain, Life!None
<1>1. ASSUME NEW d \in Domids, d # dom[t], d \in Nobodys' PROVE d \in Nobodys
  <2> DEFINE u == hyp'[d].uuid
  <2>1. hyp'[d] # Life!NoDomain /\ [dom |-> d, uuid |-> u] \notin known'
        /\ \A s \in Tasks : uuid'[s] # u
    BY <1>1 DEF Nobodys, Life!InProgress
  <2>2. hyp'[d] = hyp[d]
    <3> SUFFICES ASSUME hyp'[d] # hyp[d] PROVE FALSE
      OBVIOUS
    <3>1. CASE Makes(t)
      <4>1. PICK e \in Domids, r \in Kinds :
              r.uuid = uuid[t] /\ hyp' = [hyp EXCEPT ![e] = r] /\ UNCHANGED uuid
        BY <3>1 DEF Makes
      <4>2. e = d /\ u = uuid'[t]
        BY <4>1 DEF Life!TypeOK
      <4> QED BY <2>1, <4>2
    <3>2. CASE ~Makes(t)
      <4>1. UNCHANGED hyp \/ Shapes(t) \/ Forgets(t)
        BY <3>2, HypSteps DEF HypStep
      <4> QED BY <1>1, <4>1 DEF Shapes, Forgets, Life!TypeOK
    <3> QED BY <3>1, <3>2
  <2>3. [dom |-> d, uuid |-> u] \notin known
    BY <2>1, Frames DEF Framed
  <2>4. ASSUME NEW s \in Tasks, uuid[s] = u PROVE FALSE
    <3>1. s = t
      BY <2>1, <2>4, Frames DEF Framed
    <3>2. u # 0
      BY <2>1, <2>2 DEF Owned
    <3>3. CASE dom[t] # 0
      BY <1>1, <2>2, <2>4, <3>1, <3>2, <3>3 DEF Owned, Life!TypeOK, Life!None
    <3>4. CASE dom[t] = 0
      BY <2>2, <2>4, <3>1, <3>2, <3>4 DEF Owned, Life!TypeOK, Life!None
    <3> QED BY <3>3, <3>4
  <2> QED BY <2>1, <2>2, <2>3, <2>4 DEF Nobodys, Life!InProgress
<1>2. ASSUME errors' = errors, cancels' = cancels, NEW d \in Domids, d = dom[t], d \in Nobodys'
      PROVE  FALSE
  <2>1. dom[t] # 0 /\ hyp[d].uuid = uuid[t]
    BY <1>2, ConstantsAssumption DEF Owned
  <2>2. CASE Forgets(t)
    BY <1>2, <2>2 DEF Forgets, Nobodys, Life!TypeOK
  <2>3. CASE ~Forgets(t)
    <3>1. \/ uuid'[t] = uuid[t]
          \/ [dom |-> d, uuid |-> uuid[t]] \in known'
      BY <1>2, <2>1, <2>3, Handover
    <3>2. hyp'[d].uuid = uuid[t]
      <4>1. ~Makes(t)
        BY <2>1 DEF Makes, Life!TypeOK, Life!None
      <4> QED BY <1>2, <2>1, <2>3, <4>1, HypSteps DEF HypStep, Shapes, Life!TypeOK
    <3> QED BY <1>2, <3>1, <3>2 DEF Nobodys, Life!InProgress
  <2> QED BY <2>2, <2>3
<1> QED BY <1>1, <1>2 DEF Nobodys

LEMMA AccountedStep ==
    ASSUME NEW t \in Tasks, Life!TypeOK, Owned, Life!DomainsAreAccounted, LifeStep(t)
    PROVE  Life!DomainsAreAccounted'
<1>1. IsFiniteSet(Nobodys) /\ IsFiniteSet(Nobodys')
  BY ConstantsAssumption, FS_Subset DEF Nobodys
<1>2. Cardinality(Nobodys) \in Nat /\ Cardinality(Nobodys') \in Nat
      /\ errors \in Nat /\ cancels \in Nat
  BY <1>1, FS_CardinalityType, ConstantsAssumption DEF Life!TypeOK
<1>3. /\ Cardinality(Nobodys) <= errors + cancels
      /\ Cardinality(Nobodys') <= errors' + cancels' => Life!DomainsAreAccounted'
  BY LifeCardinality DEF Life!DomainsAreAccounted, Nobodys
<1>4. CASE errors' = errors /\ cancels' = cancels
  <2>1. Cardinality(Nobodys') <= Cardinality(Nobodys)
    BY <1>1, <1>4, NobodysGrow, FS_Subset
  <2> QED BY <1>2, <1>3, <1>4, <2>1
<1>5. CASE ~(errors' = errors /\ cancels' = cancels)
  <2>1. errors' + cancels' = errors + cancels + 1
    BY <1>2, <1>5, Frames DEF Framed
  <2>2. IsFiniteSet(Nobodys \cup {dom[t]})
        /\ Cardinality(Nobodys \cup {dom[t]}) \in {Cardinality(Nobodys), Cardinality(Nobodys) + 1}
    BY <1>1, <1>2, FS_AddElement
  <2>3. Cardinality(Nobodys') <= Cardinality(Nobodys \cup {dom[t]})
    BY <2>2, NobodysGrow, FS_Subset
  <2> QED BY <1>2, <1>3, <2>1, <2>2, <2>3
<1> QED BY <1>4, <1>5

LEMMA LifeInitOK == ASSUME Life!Init PROVE LifeInv
<1>1. Life!TypeOK
  BY ConstantsAssumption DEF Life!Init, Life!TypeOK, Life!None, Life!NoDomain, Life!Steps,
                             Life!Creating
<1>2. \A d \in Domids : hyp[d] = Life!NoDomain /\ hyp[d].uuid = 0
  BY DEF Life!Init, Life!NoDomain, Life!None
<1>3. Owned /\ Numbered
  BY <1>2 DEF Life!Init, Owned, Numbered, Life!None
<1>4. AllAdvanced /\ Life!ReturnedAreWhole
  BY DEF Life!Init, AllAdvanced, Advanced, Life!ReturnedAreWhole, Life!Creating
<1>5. Explained
  BY <1>2 DEF Life!Init, Explained, Stored, Life!LeftoversAreExplained,
              Life!VmsAreExplained, Life!None
<1>6. Life!DomainsAreAccounted
  <2>1. Nobodys = {}
    BY <1>2 DEF Nobodys
  <2> QED BY <2>1, LifeCardinality, FS_EmptySet
          DEF Life!Init, Life!DomainsAreAccounted, Nobodys
<1> QED BY <1>1, <1>3, <1>4, <1>5, <1>6 DEF LifeInv

LEMMA LifeNextOK == ASSUME LifeInv, Life!Next PROVE LifeInv'
<1>1. PICK t \in Tasks : LifeStep(t)
  BY DEF Life!Next, LifeStep
<1> QED BY <1>1, TypeStep, OwnedStep, AdvancedStep, ReturnedStep, ExplainedStep,
           AccountedStep DEF LifeInv

------------------------------------------------------------------------------
(* DomainTeardown.                                                          *)

Closing == {"open", "commit", "look", "rm"}
Listed == {"pick", "remove"} \cup Closing

\* Of the backends a caller has listed, some are still to be closed, and one may be
\* in hand.
Ordered ==
  \A c \in Tasks :
    /\ pc[c] \in Listed => todo[c] \subseteq found[c].devices
    /\ pc[c] \in Closing => cur[c] \in found[c].devices \ todo[c]
    /\ pc[c] = "remove" => todo[c] = {}

\* A caller looks at a backend as often as it counts, from 0.
Looked ==
  \A c \in Tasks :
    /\ pc[c] \in {"idle"} \cup Tear!Listing => \A d \in Devices : looks[c][d] = 0
    /\ pc[c] \in Listed => \A d \in todo[c] : looks[c][d] = 0
    /\ pc[c] = "open" => looks[c][cur[c]] = 0
    /\ pc[c] \in {"commit", "look", "rm"} => looks[c][cur[c]] = count[c]
    /\ pc[c] = "commit" => count[c] = 0
    /\ pc[c] = "look" => count[c] < Tear!WakeLimit

\* What a transaction that can be committed has read is what is there.
Isolated ==
  \A c \in Tasks : pc[c] = "commit" /\ ~stale[c] =>
    back[cur[c]] = snap[c] /\ snap[c] # "absent"

\* Only a destroy takes the domain's directory away.
RemovedByOne == dom # "whole" => \E c \in Tasks : pc[c] \in {"domain", "done"}

\* While nothing goes wrong, all is there or nothing is.
AllOrNothing ==
  /\ dom = "whole" => console /\ \A d \in Devices \ front : back[d] = "absent"
  /\ dom # "whole" =>
       /\ front = {} /\ dom = "absent" /\ ~vm /\ ~console
       /\ \A d \in Devices : back[d] = "absent"
  /\ \A c \in Tasks :
       /\ pc[c] \in {"domain", "done"} => dom # "whole"
       /\ pc[c] = "done" => ~alive

\* While nothing goes wrong, a caller comes to list all there is, and what it is
\* done with is gone.
ListedWhole(c) ==
  /\ pc[c] \in {"types", "ids"} /\ dom = "whole" =>
       found[c] = [devices |-> {}, console |-> TRUE]
  /\ pc[c] = "paths" /\ dom = "whole" =>
       /\ found[c] = [devices |-> front \ todo[c], console |-> TRUE]
       /\ todo[c] \subseteq front
  /\ pc[c] \in Listed /\ dom = "whole" => found[c] = [devices |-> front, console |-> TRUE]
  /\ pc[c] \in Listed => \A d \in found[c].devices \ todo[c] :
       back[d] = "absent" \/ (pc[c] \in Closing /\ d = cur[c])
  /\ pc[c] = "rm" => \/ back[cur[c]] \in {"closed", "absent"}
                     \/ count[c] >= Tear!WakeLimit
ListedAreAll == \A c \in Tasks : ListedWhole(c)

TearInv ==
  /\ Tear!TypeOK /\ Ordered /\ Looked /\ Isolated /\ RemovedByOne
  /\ ~spoiled => AllOrNothing /\ ListedAreAll

TearStep(c) == Tear!Start(c) \/ Tear!Call(c) \/ Tear!CallFails(c)

\* A caller finds the backend in hand not closed.
Missed(c) ==
  /\ count[c] + 1 < Tear!WakeLimit <=> pc'[c] = "look"
  /\ count' = [count EXCEPT ![c] = count[c] + 1]
  /\ looks' = [looks EXCEPT ![c] = [looks[c] EXCEPT ![cur[c]] = looks[c][cur[c]] + 1]]

LEMMA LookEffect ==
    ASSUME Tear!TypeOK, Ordered, Looked, NEW c \in Tasks, Tear!Look(c)
    PROVE  /\ pc[c] = "look" /\ cur[c] \in Devices
           /\ count[c] \in 0..2 /\ looks[c][cur[c]] = count[c]
           /\ pc' = [pc EXCEPT ![c] = pc'[c]] /\ pc'[c] \in {"look", "rm"}
           /\ (UNCHANGED <<count, looks>> /\ pc'[c] = "rm") \/ Missed(c)
<1>1. pc[c] = "look"
  BY DEF Tear!Look
<1>2. cur[c] \in Devices /\ count[c] \in 0..2 /\ looks[c][cur[c]] = count[c]
  BY <1>1 DEF Tear!TypeOK, Ordered, Looked, Listed, Closing, Tear!WakeLimit
<1>3. pc' = [pc EXCEPT ![c] = pc'[c]] /\ pc'[c] \in {"look", "rm"}
  BY <1>1 DEF Tear!TypeOK, Tear!Look, Tear!Goto
<1>4. (UNCHANGED <<count, looks>> /\ pc'[c] = "rm") \/ Missed(c)
  BY <1>1, <1>2 DEF Tear!TypeOK, Tear!Look, Tear!Goto, Missed, Tear!WakeLimit
<1> QED BY <1>1, <1>2, <1>3, <1>4

\* A caller reads the vm path, lists, or reads the path of a backend.
Reads(c) ==
  \/ Tear!ReadVmPath(c) \/ Tear!ReadConsole(c) \/ Tear!ListTypes(c)
  \/ Tear!ListDevices(c) \/ Tear!ReadBackend(c)

HasRead(c) ==
  /\ pc[c] \in {"list", "console", "types", "ids", "paths"}
  /\ pc'[c] \in {"console", "types", "ids", "paths", "pick"}
  /\ pc' = [pc EXCEPT ![c] = pc'[c]]
  /\ found'[c] \in [devices : SUBSET Devices, console : BOOLEAN]
  /\ found' = [found EXCEPT ![c] = found'[c]]
  /\ todo'[c] \in SUBSET Devices
  /\ todo' = [todo EXCEPT ![c] = todo'[c]]
  /\ pc'[c] = "pick" => todo'[c] \subseteq found'[c].devices
  /\ UNCHANGED <<back, console, front, dom, vm, alive, cur, snap, stale, count, looks,
                 lateAdds, errors, spoiled>>

\* A caller reads the path of device d's backend.
BackendRead(c, d) ==
  LET backends == found[c].devices \cup ({d} \cap front)
      rest == todo[c] \ {d}
  IN  /\ pc[c] = "paths"
      /\ found' = [found EXCEPT ![c] = [devices |-> backends, console |-> found[c].console]]
      /\ todo' = [todo EXCEPT ![c] = IF rest = {} THEN backends ELSE rest]
      /\ pc' = [pc EXCEPT ![c] = IF rest = {} THEN "pick" ELSE "paths"]

LEMMA BackendIsRead ==
    ASSUME Tear!TypeOK, NEW c \in Tasks, Tear!ReadBackend(c)
    PROVE  \E d \in todo[c] : BackendRead(c, d)
<1>1. PICK d \in todo[c] :
        LET backends == found[c].devices \cup ({d} \cap front)
            rest == todo[c] \ {d}
        IN  /\ found' = [found EXCEPT ![c].devices = backends]
            /\ todo' = [todo EXCEPT ![c] = IF rest = {} THEN backends ELSE rest]
            /\ Tear!Goto(c, "paths", IF rest = {} THEN "pick" ELSE "paths")
  BY DEF Tear!ReadBackend
<1>2. \A e : [found[c] EXCEPT !.devices = e] = [devices |-> e, console |-> found[c].console]
  BY DEF Tear!TypeOK
<1> QED BY <1>1, <1>2 DEF BackendRead, Tear!Goto

LEMMA ReadEffect ==
    ASSUME Tear!TypeOK, NEW c \in Tasks, Reads(c)
    PROVE  HasRead(c)
<1> USE DEF Tear!Goto, Tear!storeVars, Tear!local, Tear!History, HasRead
<1>0. /\ pc = [x \in Tasks |-> pc[x]] /\ todo = [x \in Tasks |-> todo[x]]
      /\ found = [x \in Tasks |-> found[x]]
      /\ todo[c] \subseteq Devices /\ front \subseteq Devices
      /\ found[c] \in [devices : SUBSET Devices, console : BOOLEAN]
  BY DEF Tear!TypeOK
<1>1. CASE Tear!ReadVmPath(c)
  <2>1. pc[c] = "list" /\ pc' = [pc EXCEPT ![c] = "console"] /\ UNCHANGED <<found, todo>>
    BY <1>1 DEF Tear!ReadVmPath
  <2> QED BY <1>0, <1>1, <2>1 DEF Tear!ReadVmPath, Tear!Listing, Tear!Early
<1>2. CASE Tear!ReadConsole(c)
  <2> DEFINE there == dom = "whole"
             now == [devices |-> {}, console |-> there]
  <2>1. there \in BOOLEAN
    OBVIOUS
  <2>2. pc[c] = "console" /\ pc' = [pc EXCEPT ![c] = "types"] /\ UNCHANGED todo
        /\ found' = [found EXCEPT ![c] = now]
    BY <1>2 DEF Tear!ReadConsole
  <2>3. UNCHANGED <<back, console, front, dom, vm, alive, cur, snap, stale, count, looks,
                    lateAdds, errors, spoiled>>
    BY <1>2 DEF Tear!ReadConsole
  <2> HIDE DEF there
  <2>4. now \in [devices : SUBSET Devices, console : BOOLEAN]
    BY <2>1
  <2> HIDE DEF now
  <2> QED BY <1>0, <2>2, <2>3, <2>4 DEF Tear!Listing, Tear!Early
<1>3. CASE Tear!ListTypes(c)
  <2>1. /\ pc[c] = "types" /\ UNCHANGED found /\ todo' = [todo EXCEPT ![c] = {}]
        /\ pc' = [pc EXCEPT ![c] = IF front = {} THEN "pick" ELSE "ids"]
    BY <1>3 DEF Tear!ListTypes
  <2> QED BY <1>0, <1>3, <2>1 DEF Tear!ListTypes, Tear!Listing, Tear!Early
<1>4. CASE Tear!ListDevices(c)
  <2>1. /\ pc[c] = "ids" /\ UNCHANGED found /\ todo' = [todo EXCEPT ![c] = front]
        /\ pc' = [pc EXCEPT ![c] = IF front = {} THEN "pick" ELSE "paths"]
    BY <1>4 DEF Tear!ListDevices
  <2> QED BY <1>0, <1>4, <2>1 DEF Tear!ListDevices, Tear!Listing, Tear!Early
<1>5. CASE Tear!ReadBackend(c)
  <2>1. PICK d \in todo[c] : BackendRead(c, d)
    BY <1>5, BackendIsRead
  <2>2. UNCHANGED <<back, console, front, dom, vm, alive, cur, snap, stale, count, looks,
                    lateAdds, errors, spoiled>>
    BY <1>5 DEF Tear!ReadBackend
  <2>3. found[c].devices \subseteq Devices /\ found[c].console \in BOOLEAN
        /\ found[c] = [devices |-> found[c].devices, console |-> found[c].console]
    BY <1>0
  <2> QED BY <1>0, <2>1, <2>2, <2>3 DEF BackendRead, Tear!Listing, Tear!Early
<1> QED BY <1>1, <1>2, <1>3, <1>4, <1>5 DEF Reads

LEMMA TearTypes ==
    ASSUME NEW c \in Tasks, Tear!TypeOK, Ordered, Looked, TearStep(c)
    PROVE  Tear!TypeOK'
<1>0. Reads(c) => HasRead(c)
  BY ReadEffect
<1> USE ConstantsAssumption DEF Tear!TypeOK, Tear!States, Tear!NoDevice, Tear!WakeLimit,
                                Listed, Closing, Tear!Goto, Tear!storeVars, Tear!local,
                                Tear!History
<1>1. CASE Tear!Start(c)
  BY <1>1 DEF Tear!Start, Tear!Listing, Tear!Early
<1>2. CASE Tear!NoVmPath(c)
  BY <1>2 DEF Tear!NoVmPath
<1>3. CASE Reads(c)
  <2>1. found' \in [Tasks -> [devices : SUBSET Devices, console : BOOLEAN]]
    BY <1>0, <1>3 DEF HasRead
  <2>2. todo' \in [Tasks -> SUBSET Devices]
    BY <1>0, <1>3 DEF HasRead
  <2>3. pc' \in [Tasks -> Tear!Listing \cup {"pick", "open", "commit", "look", "rm",
                                             "remove", "domain", "done", "idle"}]
    <3>1. pc'[c] \in {"console", "types", "ids", "paths", "pick"}
          /\ pc' = [pc EXCEPT ![c] = pc'[c]]
      BY <1>0, <1>3 DEF HasRead
    <3> QED BY <3>1 DEF Tear!Listing, Tear!Early
  <2>4. UNCHANGED <<back, console, front, dom, vm, alive, cur, snap, stale, count, looks,
                    lateAdds, errors, spoiled>>
    BY <1>0, <1>3 DEF HasRead
  <2> QED BY <2>1, <2>2, <2>3, <2>4
<1>4. CASE Tear!PickBackend(c)
  BY <1>4 DEF Tear!PickBackend
<1>5. CASE Tear!ReadState(c)
  <2>1. cur[c] \in Devices /\ back[cur[c]] \in Tear!States
    BY <1>5 DEF Tear!ReadState, Ordered
  <2>2. snap' \in [Tasks -> Tear!States]
    BY <1>5, <2>1 DEF Tear!ReadState
  <2>3. pc' \in [Tasks -> Tear!Listing \cup {"pick", "open", "commit", "look", "rm",
                                             "remove", "domain", "done", "idle"}]
    BY <1>5 DEF Tear!ReadState
  <2>4. stale' \in [Tasks -> BOOLEAN] /\ count' \in [Tasks -> 0..3]
    BY <1>5 DEF Tear!ReadState
  <2>5. UNCHANGED <<back, console, front, dom, vm, alive, found, todo, cur, looks,
                    lateAdds, errors, spoiled>>
    BY <1>5 DEF Tear!ReadState
  <2> QED BY <2>2, <2>3, <2>4, <2>5
<1>6. CASE Tear!CommitClose(c)
  BY <1>6 DEF Tear!CommitClose, Tear!Changed
<1>7. CASE Tear!CloseRefused(c)
  BY <1>7 DEF Tear!CloseRefused
<1>8. CASE Tear!Look(c)
  <2>1. /\ pc[c] = "look" /\ cur[c] \in Devices
        /\ count[c] \in 0..2 /\ looks[c][cur[c]] = count[c]
        /\ pc' = [pc EXCEPT ![c] = pc'[c]] /\ pc'[c] \in {"look", "rm"}
    BY <1>8, LookEffect
  <2>2. looks' \in [Tasks -> [Devices -> 0..3]] /\ count' \in [Tasks -> 0..3]
    <3>1. CASE UNCHANGED <<count, looks>>
      BY <3>1
    <3>2. CASE Missed(c)
      BY <2>1, <3>2 DEF Missed
    <3> QED BY <1>8, <3>1, <3>2, LookEffect
  <2>3. UNCHANGED <<back, console, front, dom, vm, alive, found, todo, cur, snap, stale,
                    lateAdds, errors, spoiled>>
    BY <1>8 DEF Tear!Look
  <2>4. pc' \in [Tasks -> Tear!Listing \cup {"pick", "open", "commit", "look", "rm",
                                             "remove", "domain", "done", "idle"}]
    BY <2>1
  <2> QED BY <2>2, <2>3, <2>4
<1>9. CASE Tear!RemoveBackend(c)
  BY <1>9 DEF Tear!RemoveBackend, Tear!Changed
<1>10. CASE Tear!OpenRemoval(c)
  BY <1>10 DEF Tear!OpenRemoval
<1>11. CASE Tear!CommitRemoval(c)
  BY <1>11 DEF Tear!CommitRemoval, Tear!Changed
<1>12. CASE Tear!RemovalRefused(c)
  BY <1>12 DEF Tear!RemovalRefused
<1>13. CASE Tear!DestroyDomain(c)
  BY <1>13 DEF Tear!DestroyDomain
<1>14. CASE Tear!CallFails(c)
  BY <1>14 DEF Tear!CallFails
<1> QED BY <1>1, <1>2, <1>3, <1>4, <1>5, <1>6, <1>7, <1>8, <1>9, <1>10, <1>11, <1>12,
           <1>13, <1>14 DEF TearStep, Tear!Call, Reads

LEMMA OrderStep ==
    ASSUME NEW c \in Tasks, Tear!TypeOK, Ordered, TearStep(c)
    PROVE  Ordered'
<1>0. Reads(c) => HasRead(c)
  BY ReadEffect
<1> USE DEF Tear!TypeOK, Ordered, Listed, Closing, Tear!Goto, Tear!storeVars, Tear!local,
            Tear!History
<1>1. CASE Tear!Start(c)
  BY <1>1 DEF Tear!Start
<1>2. CASE Tear!NoVmPath(c)
  BY <1>2 DEF Tear!NoVmPath
<1>3. CASE Reads(c)
  BY <1>0, <1>3 DEF HasRead
<1>4. CASE Tear!PickBackend(c)
  BY <1>4 DEF Tear!PickBackend
<1>5. CASE Tear!ReadState(c)
  BY <1>5 DEF Tear!ReadState
<1>6. CASE Tear!CommitClose(c)
  BY <1>6 DEF Tear!CommitClose, Tear!Changed
<1>7. CASE Tear!CloseRefused(c)
  BY <1>7 DEF Tear!CloseRefused
<1>8. CASE Tear!Look(c)
  BY <1>8 DEF Tear!Look
<1>9. CASE Tear!RemoveBackend(c)
  BY <1>9 DEF Tear!RemoveBackend, Tear!Changed
<1>10. CASE Tear!OpenRemoval(c)
  BY <1>10 DEF Tear!OpenRemoval
<1>11. CASE Tear!CommitRemoval(c)
  BY <1>11 DEF Tear!CommitRemoval, Tear!Changed
<1>12. CASE Tear!RemovalRefused(c)
  BY <1>12 DEF Tear!RemovalRefused
<1>13. CASE Tear!DestroyDomain(c)
  BY <1>13 DEF Tear!DestroyDomain
<1>14. CASE Tear!CallFails(c)
  BY <1>14 DEF Tear!CallFails
<1> QED BY <1>1, <1>2, <1>3, <1>4, <1>5, <1>6, <1>7, <1>8, <1>9, <1>10, <1>11, <1>12,
           <1>13, <1>14 DEF TearStep, Tear!Call, Reads

LEMMA LookStep ==
    ASSUME NEW c \in Tasks, Tear!TypeOK, Ordered, Looked, TearStep(c)
    PROVE  Looked'
<1>0. Reads(c) => HasRead(c)
  BY ReadEffect
<1> USE DEF Tear!TypeOK, Tear!Listing, Tear!Early, Ordered, Looked, Listed, Closing,
            Tear!WakeLimit, Tear!Goto, Tear!storeVars, Tear!local, Tear!History
<1>1. CASE Tear!Start(c)
  BY <1>1 DEF Tear!Start
<1>2. CASE Tear!NoVmPath(c)
  BY <1>2 DEF Tear!NoVmPath
<1>3. CASE Reads(c)
  BY <1>0, <1>3 DEF HasRead
<1>4. CASE Tear!PickBackend(c)
  BY <1>4 DEF Tear!PickBackend
<1>5. CASE Tear!ReadState(c)
  BY <1>5 DEF Tear!ReadState
<1>6. CASE Tear!CommitClose(c)
  BY <1>6 DEF Tear!CommitClose, Tear!Changed
<1>7. CASE Tear!CloseRefused(c)
  BY <1>7 DEF Tear!CloseRefused
<1>8. CASE Tear!Look(c)
  <2>1. /\ pc[c] = "look" /\ cur[c] \in Devices
        /\ count[c] \in 0..2 /\ looks[c][cur[c]] = count[c]
        /\ pc' = [pc EXCEPT ![c] = pc'[c]] /\ pc'[c] \in {"look", "rm"}
    BY <1>8, LookEffect
  <2>2. UNCHANGED <<todo, cur, found>>
    BY <1>8 DEF Tear!Look
  <2>3. CASE UNCHANGED <<count, looks>>
    BY <1>8, <2>1, <2>2, <2>3 DEF Tear!Look
  <2>4. CASE Missed(c)
    BY <1>8, <2>1, <2>2, <2>4 DEF Missed, Tear!Look
  <2> QED BY <1>8, <2>3, <2>4, LookEffect
<1>9. CASE Tear!RemoveBackend(c)
  BY <1>9 DEF Tear!RemoveBackend, Tear!Changed
<1>10. CASE Tear!OpenRemoval(c)
  BY <1>10 DEF Tear!OpenRemoval
<1>11. CASE Tear!CommitRemoval(c)
  BY <1>11 DEF Tear!CommitRemoval, Tear!Changed
<1>12. CASE Tear!RemovalRefused(c)
  BY <1>12 DEF Tear!RemovalRefused
<1>13. CASE Tear!DestroyDomain(c)
  BY <1>13 DEF Tear!DestroyDomain
<1>14. CASE Tear!CallFails(c)
  BY <1>14 DEF Tear!CallFails
<1> QED BY <1>1, <1>2, <1>3, <1>4, <1>5, <1>6, <1>7, <1>8, <1>9, <1>10, <1>11, <1>12,
           <1>13, <1>14 DEF TearStep, Tear!Call, Reads

LEMMA IsolatedStep ==
    ASSUME NEW c \in Tasks, Tear!TypeOK, Ordered, Isolated, TearStep(c)
    PROVE  Isolated'
<1>0. Reads(c) => HasRead(c)
  BY ReadEffect
<1> USE DEF Tear!TypeOK, Ordered, Isolated, Listed, Closing, Tear!Goto, Tear!storeVars,
            Tear!local, Tear!History
<1>1. CASE Tear!Start(c)
  BY <1>1 DEF Tear!Start
<1>2. CASE Tear!NoVmPath(c)
  BY <1>2 DEF Tear!NoVmPath
<1>3. CASE Reads(c)
  BY <1>0, <1>3 DEF HasRead
<1>4. CASE Tear!PickBackend(c)
  BY <1>4 DEF Tear!PickBackend
<1>5. CASE Tear!ReadState(c)
  BY <1>5 DEF Tear!ReadState
<1>6. CASE Tear!CommitClose(c)
  BY <1>6 DEF Tear!CommitClose, Tear!Changed
<1>7. CASE Tear!CloseRefused(c)
  BY <1>7 DEF Tear!CloseRefused
<1>8. CASE Tear!Look(c)
  BY <1>8 DEF Tear!Look
<1>9. CASE Tear!RemoveBackend(c)
  BY <1>9 DEF Tear!RemoveBackend, Tear!Changed
<1>10. CASE Tear!OpenRemoval(c)
  BY <1>10 DEF Tear!OpenRemoval
<1>11. CASE Tear!CommitRemoval(c)
  BY <1>11 DEF Tear!CommitRemoval, Tear!Changed
<1>12. CASE Tear!RemovalRefused(c)
  BY <1>12 DEF Tear!RemovalRefused
<1>13. CASE Tear!DestroyDomain(c)
  BY <1>13 DEF Tear!DestroyDomain
<1>14. CASE Tear!CallFails(c)
  BY <1>14 DEF Tear!CallFails
<1> QED BY <1>1, <1>2, <1>3, <1>4, <1>5, <1>6, <1>7, <1>8, <1>9, <1>10, <1>11, <1>12,
           <1>13, <1>14 DEF TearStep, Tear!Call, Reads

LEMMA RemovedStep ==
    ASSUME NEW c \in Tasks, Tear!TypeOK, RemovedByOne, TearStep(c)
    PROVE  RemovedByOne'
<1>0. Reads(c) => HasRead(c)
  BY ReadEffect
<1> USE DEF Tear!TypeOK, RemovedByOne, Tear!Goto, Tear!storeVars, Tear!local, Tear!History
<1>1. CASE Tear!Start(c)
  BY <1>1 DEF Tear!Start
<1>2. CASE Tear!NoVmPath(c)
  BY <1>2 DEF Tear!NoVmPath
<1>3. CASE Reads(c)
  BY <1>0, <1>3 DEF HasRead
<1>4. CASE Tear!PickBackend(c)
  BY <1>4 DEF Tear!PickBackend
<1>5. CASE Tear!ReadState(c)
  BY <1>5 DEF Tear!ReadState
<1>6. CASE Tear!CommitClose(c)
  BY <1>6 DEF Tear!CommitClose, Tear!Changed
<1>7. CASE Tear!CloseRefused(c)
  BY <1>7 DEF Tear!CloseRefused
<1>8. CASE Tear!Look(c)
  BY <1>8 DEF Tear!Look
<1>9. CASE Tear!RemoveBackend(c)
  BY <1>9 DEF Tear!RemoveBackend, Tear!Changed
<1>10. CASE Tear!OpenRemoval(c)
  BY <1>10 DEF Tear!OpenRemoval
<1>11. CASE Tear!CommitRemoval(c)
  BY <1>11 DEF Tear!CommitRemoval, Tear!Changed
<1>12. CASE Tear!RemovalRefused(c)
  BY <1>12 DEF Tear!RemovalRefused
<1>13. CASE Tear!DestroyDomain(c)
  BY <1>13 DEF Tear!DestroyDomain
<1>14. CASE Tear!CallFails(c)
  BY <1>14 DEF Tear!CallFails
<1> QED BY <1>1, <1>2, <1>3, <1>4, <1>5, <1>6, <1>7, <1>8, <1>9, <1>10, <1>11, <1>12,
           <1>13, <1>14 DEF TearStep, Tear!Call, Reads

LEMMA AllOrNothingStep ==
    ASSUME NEW c \in Tasks, Tear!TypeOK, Ordered, Isolated, ~spoiled', AllOrNothing,
           ListedAreAll, TearStep(c)
    PROVE  AllOrNothing'
<1>0. Reads(c) => HasRead(c)
  BY ReadEffect
<1> USE DEF Tear!TypeOK, Ordered, Isolated, Listed, Closing, AllOrNothing, ListedAreAll,
            ListedWhole,
            Tear!Goto, Tear!storeVars, Tear!local, Tear!History
<1>1. CASE Tear!Start(c)
  BY <1>1 DEF Tear!Start
<1>2. CASE Tear!NoVmPath(c)
  BY <1>2 DEF Tear!NoVmPath
<1>3. CASE Reads(c)
  <2>1. /\ \A t \in Tasks : pc'[t] \in {"domain", "done"} => pc'[t] = pc[t]
        /\ UNCHANGED <<back, console, front, dom, vm, alive>>
    BY <1>0, <1>3 DEF HasRead
  <2> QED BY <2>1
<1>4. CASE Tear!PickBackend(c)
  BY <1>4 DEF Tear!PickBackend
<1>5. CASE Tear!ReadState(c)
  BY <1>5 DEF Tear!ReadState
<1>6. CASE Tear!CommitClose(c)
  BY <1>6 DEF Tear!CommitClose, Tear!Changed
<1>7. CASE Tear!CloseRefused(c)
  BY <1>7 DEF Tear!CloseRefused
<1>8. CASE Tear!Look(c)
  BY <1>8 DEF Tear!Look
<1>9. CASE Tear!RemoveBackend(c)
  BY <1>9 DEF Tear!RemoveBackend, Tear!Changed
<1>10. CASE Tear!OpenRemoval(c)
  BY <1>10 DEF Tear!OpenRemoval
<1>11. CASE Tear!CommitRemoval(c)
  BY <1>11 DEF Tear!CommitRemoval, Tear!Changed
<1>12. CASE Tear!RemovalRefused(c)
  BY <1>12 DEF Tear!RemovalRefused
<1>13. CASE Tear!DestroyDomain(c)
  BY <1>13 DEF Tear!DestroyDomain
<1>14. CASE Tear!CallFails(c)
  BY <1>14 DEF Tear!CallFails
<1> QED BY <1>1, <1>2, <1>3, <1>4, <1>5, <1>6, <1>7, <1>8, <1>9, <1>10, <1>11, <1>12,
           <1>13, <1>14 DEF TearStep, Tear!Call, Reads

LEMMA ReadsListAll ==
    ASSUME Tear!TypeOK, NEW c \in Tasks, Reads(c), AllOrNothing, ListedAreAll
    PROVE  ListedAreAll'
<1>1. HasRead(c)
  BY ReadEffect
<1>2. /\ UNCHANGED <<back, front, dom, cur, count>>
      /\ \A t \in Tasks : t # c => pc'[t] = pc[t] /\ found'[t] = found[t] /\ todo'[t] = todo[t]
  BY <1>1 DEF HasRead, Tear!TypeOK
<1>3. \A t \in Tasks : ListedWhole(t)
  BY DEF ListedAreAll
<1>4. \A t \in Tasks : t # c => ListedWhole(t)'
  BY <1>2, <1>3 DEF ListedWhole
<1>5. ListedWhole(c)'
  <2>0. /\ pc = [x \in Tasks |-> pc[x]] /\ todo = [x \in Tasks |-> todo[x]]
        /\ found = [x \in Tasks |-> found[x]]
        /\ found[c] \in [devices : SUBSET Devices, console : BOOLEAN]
        /\ todo[c] \subseteq Devices /\ front \subseteq Devices
    BY DEF Tear!TypeOK
  <2> USE DEF Listed, Closing, Tear!Goto, Tear!local, Tear!storeVars, Tear!History
  <2>1. CASE Tear!ReadVmPath(c)
    <3>1. pc'[c] = "console"
      BY <2>0, <2>1 DEF Tear!ReadVmPath
    <3> QED BY <3>1 DEF ListedWhole
  <2>2. CASE Tear!ReadConsole(c)
    <3>1. pc'[c] = "types" /\ found'[c] = [devices |-> {}, console |-> dom = "whole"]
      BY <2>0, <2>2 DEF Tear!ReadConsole
    <3>2. CASE dom = "whole"
      <4>1. (dom = "whole") = TRUE
        BY <3>2
      <4>2. found'[c] = [devices |-> {}, console |-> TRUE]
        BY <3>1, <4>1
      <4> QED BY <3>1, <4>2 DEF ListedWhole
    <3>3. CASE dom # "whole"
      BY <1>2, <3>1, <3>3 DEF ListedWhole
    <3> QED BY <3>2, <3>3
  <2>3. CASE Tear!ListTypes(c)
    <3>1. pc[c] = "types" /\ pc'[c] \in {"ids", "pick"} /\ found'[c] = found[c]
          /\ (pc'[c] = "pick" => front = {})
      BY <2>0, <2>3 DEF Tear!ListTypes
    <3>2. dom = "whole" => found[c] = [devices |-> {}, console |-> TRUE]
      BY <1>3, <3>1 DEF ListedWhole
    <3>3. \A d \in found[c].devices : dom # "whole" => back[d] = "absent"
      BY <2>0 DEF AllOrNothing
    <3>4. CASE dom = "whole"
      <4>1. found'[c] = [devices |-> {}, console |-> TRUE] /\ found'[c].devices = {}
        BY <3>1, <3>2, <3>4
      <4> QED BY <1>2, <3>1, <3>4, <4>1 DEF ListedWhole
    <3>5. CASE dom # "whole"
      BY <1>2, <3>1, <3>3, <3>5 DEF ListedWhole
    <3> QED BY <3>4, <3>5
  <2>4. CASE Tear!ListDevices(c)
    <3>1. /\ pc[c] = "ids" /\ pc'[c] \in {"paths", "pick"} /\ found'[c] = found[c]
          /\ (pc'[c] = "pick" => front = {}) /\ todo'[c] = front
      BY <2>0, <2>4 DEF Tear!ListDevices
    <3>2. dom = "whole" => found[c] = [devices |-> {}, console |-> TRUE]
      BY <1>3, <3>1 DEF ListedWhole
    <3>3. \A d \in found[c].devices : dom # "whole" => back[d] = "absent"
      BY <2>0 DEF AllOrNothing
    <3>4. front \ todo'[c] = {}
      BY <3>1
    <3>5. CASE dom = "whole"
      <4>1. found'[c] = [devices |-> {}, console |-> TRUE] /\ found'[c].devices = {}
        BY <3>1, <3>2, <3>5
      <4> QED BY <1>2, <3>1, <3>5, <4>1, <3>4 DEF ListedWhole
    <3>6. CASE dom # "whole"
      BY <1>2, <3>1, <3>3, <3>6 DEF ListedWhole
    <3> QED BY <3>5, <3>6
  <2>5. CASE Tear!ReadBackend(c)
    <3>1. PICK d \in todo[c] : BackendRead(c, d)
      BY <2>5, BackendIsRead
    <3> DEFINE backends == found[c].devices \cup ({d} \cap front)
               rest == todo[c] \ {d}
    <3>2. /\ pc[c] = "paths"
          /\ found'[c] = [devices |-> backends, console |-> found[c].console]
          /\ \/ rest = {} /\ todo'[c] = backends /\ pc'[c] = "pick"
             \/ rest # {} /\ todo'[c] = rest /\ pc'[c] = "paths"
      BY <2>0, <3>1 DEF BackendRead
    <3>3. dom = "whole" => /\ found[c].devices = front \ todo[c] /\ todo[c] \subseteq front
                           /\ found[c].console = TRUE
      <4>1. dom = "whole" => /\ found[c] = [devices |-> front \ todo[c], console |-> TRUE]
                             /\ todo[c] \subseteq front
        BY <1>3, <3>2 DEF ListedWhole
      <4> QED BY <4>1
    <3>4. dom = "whole" => /\ backends = front \ rest /\ rest \subseteq front
                           /\ found'[c] = [devices |-> backends, console |-> TRUE]
      BY <3>1, <3>2, <3>3
    <3>5. found'[c].devices = backends
      BY <3>2
    <3> HIDE DEF backends, rest
    <3> QED BY <1>2, <3>2, <3>4, <3>5 DEF ListedWhole
  <2> QED BY <2>1, <2>2, <2>3, <2>4, <2>5 DEF Reads
<1> QED BY <1>4, <1>5 DEF ListedAreAll

LEMMA ListedStep ==
    ASSUME NEW c \in Tasks, Tear!TypeOK, Ordered, Looked, Isolated, ~spoiled',
           AllOrNothing, ListedAreAll, TearStep(c)
    PROVE  ListedAreAll'
<1>00. Reads(c) => ListedAreAll'
  BY ReadsListAll
<1> USE DEF Tear!TypeOK, Ordered, Looked, Isolated, Listed, Closing, AllOrNothing,
            ListedAreAll, ListedWhole, Tear!WakeLimit, Tear!Goto, Tear!storeVars, Tear!local,
            Tear!History
<1>1. CASE Tear!Start(c)
  BY <1>1 DEF Tear!Start
<1>2. CASE Tear!NoVmPath(c)
  BY <1>2 DEF Tear!NoVmPath
<1>3. CASE Reads(c)
  BY <1>00, <1>3
<1>4. CASE Tear!PickBackend(c)
  BY <1>4 DEF Tear!PickBackend
<1>5. CASE Tear!ReadState(c)
  BY <1>5 DEF Tear!ReadState
<1>6. CASE Tear!CommitClose(c)
  BY <1>6 DEF Tear!CommitClose, Tear!Changed
<1>7. CASE Tear!CloseRefused(c)
  BY <1>7 DEF Tear!CloseRefused
<1>8. CASE Tear!Look(c)
  BY <1>8 DEF Tear!Look
<1>9. CASE Tear!RemoveBackend(c)
  BY <1>9 DEF Tear!RemoveBackend, Tear!Changed
<1>10. CASE Tear!OpenRemoval(c)
  BY <1>10 DEF Tear!OpenRemoval
<1>11. CASE Tear!CommitRemoval(c)
  BY <1>11 DEF Tear!CommitRemoval, Tear!Changed
<1>12. CASE Tear!RemovalRefused(c)
  BY <1>12 DEF Tear!RemovalRefused
<1>13. CASE Tear!DestroyDomain(c)
  BY <1>13 DEF Tear!DestroyDomain
<1>14. CASE Tear!CallFails(c)
  BY <1>14 DEF Tear!CallFails
<1> QED BY <1>1, <1>2, <1>3, <1>4, <1>5, <1>6, <1>7, <1>8, <1>9, <1>10, <1>11, <1>12,
           <1>13, <1>14 DEF TearStep, Tear!Call, Reads

LEMMA SpoiledStays ==
    ASSUME NEW c \in Tasks, Tear!TypeOK, TearStep(c)
    PROVE  ~spoiled' => ~spoiled
<1>0. Reads(c) => HasRead(c)
  BY ReadEffect
<1> USE DEF Tear!TypeOK, Tear!Goto, Tear!storeVars, Tear!local, Tear!History
<1>1. CASE Tear!Start(c)
  BY <1>1 DEF Tear!Start
<1>2. CASE Tear!NoVmPath(c)
  BY <1>2 DEF Tear!NoVmPath
<1>3. CASE Reads(c)
  BY <1>0, <1>3 DEF HasRead
<1>4. CASE Tear!PickBackend(c)
  BY <1>4 DEF Tear!PickBackend
<1>5. CASE Tear!ReadState(c)
  BY <1>5 DEF Tear!ReadState
<1>6. CASE Tear!CommitClose(c)
  BY <1>6 DEF Tear!CommitClose, Tear!Changed
<1>7. CASE Tear!CloseRefused(c)
  BY <1>7 DEF Tear!CloseRefused
<1>8. CASE Tear!Look(c)
  BY <1>8 DEF Tear!Look
<1>9. CASE Tear!RemoveBackend(c)
  BY <1>9 DEF Tear!RemoveBackend, Tear!Changed
<1>10. CASE Tear!OpenRemoval(c)
  BY <1>10 DEF Tear!OpenRemoval
<1>11. CASE Tear!CommitRemoval(c)
  BY <1>11 DEF Tear!CommitRemoval, Tear!Changed
<1>12. CASE Tear!RemovalRefused(c)
  BY <1>12 DEF Tear!RemovalRefused
<1>13. CASE Tear!DestroyDomain(c)
  BY <1>13 DEF Tear!DestroyDomain
<1>14. CASE Tear!CallFails(c)
  BY <1>14 DEF Tear!CallFails
<1> QED BY <1>1, <1>2, <1>3, <1>4, <1>5, <1>6, <1>7, <1>8, <1>9, <1>10, <1>11, <1>12,
           <1>13, <1>14 DEF TearStep, Tear!Call, Reads

LEMMA OnlyTheseChangeBack ==
    ASSUME NEW c \in Tasks, TearStep(c)
    PROVE  \/ UNCHANGED back
           \/ Tear!CommitClose(c) \/ Tear!RemoveBackend(c) \/ Tear!CommitRemoval(c)
  BY DEF TearStep, Tear!Call, Tear!storeVars, Tear!Start, Tear!NoVmPath,
         Tear!ReadVmPath, Tear!ReadConsole, Tear!ListTypes, Tear!ListDevices,
         Tear!ReadBackend, Tear!PickBackend, Tear!ReadState, Tear!CloseRefused,
         Tear!Look, Tear!OpenRemoval, Tear!RemovalRefused, Tear!DestroyDomain,
         Tear!CallFails

\* The drivers and the task that adds devices.
Outside == \E d \in Devices : Tear!DriverMoves(d) \/ Tear!AddDevice(d)

LEMMA OutsideOK == ASSUME TearInv, Outside PROVE TearInv'
<1> PICK d \in Devices : Tear!DriverMoves(d) \/ Tear!AddDevice(d)
  BY DEF Outside
<1> USE DEF Tear!Changed, Tear!local, Tear!storeVars, Tear!History
<1>0. Tear!TypeOK /\ Ordered /\ Looked /\ Isolated /\ RemovedByOne
  BY DEF TearInv
<1>7. \A c \in Tasks : count[c] \in Nat
  BY <1>0 DEF Tear!TypeOK, Tear!WakeLimit
<1> USE <1>0 DEF Tear!TypeOK, Tear!Listing, Tear!Early
<1>1. UNCHANGED <<console, vm, alive, pc, found, todo, cur, snap, count, looks, errors>>
  BY DEF Tear!DriverMoves, Tear!AddDevice
<1>2. Tear!TypeOK'
  <2>1. PICK s \in {"connected", "closing", "closed"} : back' = [back EXCEPT ![d] = s]
    BY DEF Tear!DriverMoves, Tear!AddDevice
  <2>2. back' \in [Devices -> Tear!States]
    BY <2>1 DEF Tear!States
  <2>3. stale' \in [Tasks -> BOOLEAN]
    BY DEF Tear!DriverMoves, Tear!AddDevice
  <2>4. front' \subseteq Devices /\ dom' \in {"whole", "part", "absent"}
    BY DEF Tear!DriverMoves, Tear!AddDevice
  <2>5. lateAdds' \in 0..MaxAdds
    BY ConstantsAssumption DEF Tear!DriverMoves, Tear!AddDevice
  <2>6. spoiled' \in BOOLEAN
    BY DEF Tear!DriverMoves, Tear!AddDevice
  <2> QED BY <1>1, <2>2, <2>3, <2>4, <2>5, <2>6
<1>3. Ordered' /\ Looked'
  BY <1>1 DEF Ordered, Looked
<1>4. Isolated'
  <2>1. /\ back' = [back EXCEPT ![d] = back'[d]]
        /\ \A c \in Tasks : pc[c] = "commit" /\ cur[c] = d => stale'[c]
        /\ \A c \in Tasks : stale[c] => stale'[c]
    BY DEF Tear!DriverMoves, Tear!AddDevice
  <2>2. \A c \in Tasks : pc[c] = "commit" => cur[c] \in Devices
    BY DEF Ordered, Listed, Closing
  <2> QED BY <1>1, <2>1, <2>2 DEF Isolated
<1>5. RemovedByOne'
  BY DEF RemovedByOne, Tear!DriverMoves, Tear!AddDevice
<1>6. ASSUME ~spoiled' PROVE AllOrNothing' /\ ListedAreAll'
  <2>0. ~spoiled
    BY <1>6 DEF Tear!DriverMoves, Tear!AddDevice
  <2>1. AllOrNothing /\ ListedAreAll
    BY <2>0 DEF TearInv
  <2>2. CASE Tear!DriverMoves(d)
    <3>1. /\ back' = [back EXCEPT ![d] = back'[d]] /\ UNCHANGED <<front, dom>>
          /\ back[d] # "absent" /\ back[d] # "closed" /\ dom = "whole"
      BY <2>1, <2>2 DEF Tear!DriverMoves, AllOrNothing
    <3>2. AllOrNothing'
      BY <1>1, <2>1, <3>1 DEF AllOrNothing
    <3>3. ListedAreAll'
      <4> SUFFICES ASSUME NEW c \in Tasks, pc[c] \in Listed
                   PROVE  /\ \A e \in found[c].devices \ todo[c] :
                               back'[e] = "absent" \/ (pc[c] \in Closing /\ e = cur[c])
                          /\ pc[c] = "rm" => \/ back'[cur[c]] \in {"closed", "absent"}
                                             \/ count[c] >= Tear!WakeLimit
        BY <1>1, <2>1, <3>1 DEF ListedAreAll, ListedWhole, Listed, Closing
      <4>1. \A e \in found[c].devices \ todo[c] :
              back[e] = "absent" \/ (pc[c] \in Closing /\ e = cur[c])
        BY <2>1 DEF ListedAreAll, ListedWhole
      <4>2. count[c] \in Nat
        BY <1>7
      <4>3. pc[c] = "rm" /\ count[c] < Tear!WakeLimit => back[cur[c]] \in {"closed", "absent"}
        BY <2>1, <4>2 DEF ListedAreAll, ListedWhole, Tear!WakeLimit
      <4>4. \A e \in Devices : e # d => back'[e] = back[e]
        BY <3>1 DEF Tear!TypeOK
      <4>5. found[c].devices \subseteq Devices /\ (pc[c] = "rm" => cur[c] \in Devices)
        BY DEF Ordered, Listed, Closing
      <4> QED BY <3>1, <4>1, <4>3, <4>4, <4>5, <4>2 DEF Tear!WakeLimit
    <3> QED BY <3>2, <3>3
  <2>3. CASE Tear!AddDevice(d)
    <3>1. \A c \in Tasks : pc[c] \in {"idle", "list", "console", "types", "ids"}
      BY <1>6, <2>3 DEF Tear!AddDevice, Tear!Early
    <3>2. dom = "whole" /\ dom' = "whole"
      BY <2>3, <3>1 DEF RemovedByOne, Tear!AddDevice
    <3>3. AllOrNothing'
      BY <1>1, <2>1, <2>3, <3>1, <3>2 DEF Tear!AddDevice, AllOrNothing
    <3>4. ListedAreAll'
      <4> SUFFICES ASSUME NEW c \in Tasks PROVE ListedWhole(c)'
        BY DEF ListedAreAll
      <4>1. ListedWhole(c) /\ pc[c] \in {"idle", "list", "console", "types", "ids"}
        BY <2>1, <3>1 DEF ListedAreAll
      <4> QED BY <1>1, <3>2, <4>1 DEF ListedWhole, Listed, Closing
    <3> QED BY <3>3, <3>4
  <2> QED BY <2>2, <2>3
<1> QED BY <1>2, <1>3, <1>4, <1>5, <1>6 DEF TearInv

LEMMA TearInitOK == ASSUME Tear!Init PROVE TearInv
<1>1. Tear!TypeOK
  <2>1. back \in [Devices -> Tear!States] /\ front \subseteq Devices
    BY DEF Tear!Init, Tear!States
  <2>2. found \in [Tasks -> [devices : SUBSET Devices, console : BOOLEAN]]
    <3>1. [devices |-> {}, console |-> FALSE] \in [devices : SUBSET Devices, console : BOOLEAN]
      OBVIOUS
    <3> QED BY <3>1 DEF Tear!Init
  <2>3. looks \in [Tasks -> [Devices -> 0..3]]
    BY DEF Tear!Init
  <2>4. /\ pc \in [Tasks -> Tear!Listing \cup {"pick", "open", "commit", "look", "rm",
                                               "remove", "domain", "done", "idle"}]
        /\ todo \in [Tasks -> SUBSET Devices] /\ cur \in [Tasks -> Devices \cup {"none"}]
        /\ snap \in [Tasks -> Tear!States] /\ stale \in [Tasks -> BOOLEAN]
        /\ count \in [Tasks -> 0..3]
    BY DEF Tear!Init, Tear!States, Tear!NoDevice
  <2>5. lateAdds \in 0..MaxAdds /\ errors \in 0..MaxTearErrors
    BY ConstantsAssumption DEF Tear!Init
  <2>6. /\ console \in BOOLEAN /\ vm \in BOOLEAN /\ alive \in BOOLEAN /\ spoiled \in BOOLEAN
        /\ dom \in {"whole", "part", "absent"}
    BY DEF Tear!Init
  <2> QED BY <2>1, <2>2, <2>3, <2>4, <2>5, <2>6
          DEF Tear!TypeOK, Tear!NoDevice, Tear!WakeLimit
<1>2. Ordered /\ Looked /\ Isolated /\ RemovedByOne
  BY DEF Tear!Init, Ordered, Looked, Isolated, RemovedByOne, Listed, Closing,
         Tear!Listing, Tear!Early
<1>3. AllOrNothing /\ ListedAreAll
  BY DEF Tear!Init, AllOrNothing, ListedAreAll, ListedWhole, Listed, Closing
<1> QED BY <1>1, <1>2, <1>3 DEF TearInv

LEMMA TearNextOK == ASSUME TearInv, Tear!Next PROVE TearInv'
<1>1. ASSUME NEW c \in Tasks, TearStep(c) PROVE TearInv'
  <2>1. /\ Tear!TypeOK' /\ Ordered' /\ Looked' /\ Isolated' /\ RemovedByOne'
    BY <1>1, TearTypes, OrderStep, LookStep, IsolatedStep, RemovedStep DEF TearInv
  <2>2. ~spoiled' => ~spoiled
    BY <1>1, SpoiledStays DEF TearInv
  <2>3. ~spoiled' => AllOrNothing' /\ ListedAreAll'
    BY <1>1, <2>2, AllOrNothingStep, ListedStep DEF TearInv
  <2> QED BY <2>1, <2>3 DEF TearInv
<1> QED BY <1>1, OutsideOK DEF Tear!Next, TearStep, Outside

LEMMA TearEnds == ASSUME TearInv PROVE Tear!NothingRemains
  BY DEF TearInv, AllOrNothing, Tear!NothingRemains

\* A step that brings a backend node to be, and one that takes it away.
LEMMA NodesStep ==
    ASSUME TearInv, Tear!Next
    PROVE  Tear!NodesComeByAddition /\ Tear!RemovalsAreForcedLate
<1> USE DEF Tear!Changed, Tear!local, Tear!storeVars, Tear!History, Tear!Goto
<1>1. CASE Outside
  BY <1>1 DEF Outside, TearInv, Tear!TypeOK, Tear!DriverMoves, Tear!AddDevice,
              Tear!NodesComeByAddition, Tear!RemovalsAreForcedLate
<1>2. ASSUME NEW c \in Tasks, Tear!CommitClose(c)
      PROVE  Tear!NodesComeByAddition /\ Tear!RemovalsAreForcedLate
  BY <1>2 DEF TearInv, Tear!TypeOK, Ordered, Listed, Closing, Isolated, Tear!CommitClose,
              Tear!NodesComeByAddition, Tear!RemovalsAreForcedLate
<1>3. ASSUME NEW c \in Tasks, Tear!RemoveBackend(c)
      PROVE  Tear!NodesComeByAddition /\ Tear!RemovalsAreForcedLate
  BY <1>3 DEF TearInv, Tear!TypeOK, Ordered, Listed, Closing, Looked,
              ListedAreAll, ListedWhole,
              Tear!RemoveBackend, Tear!NodesComeByAddition, Tear!RemovalsAreForcedLate
<1>4. ASSUME NEW c \in Tasks, Tear!CommitRemoval(c)
      PROVE  Tear!NodesComeByAddition /\ Tear!RemovalsAreForcedLate
  <2>1. pc[c] = "remove" /\ \A d \in Devices : back'[d] \in {"absent", back[d]}
    BY <1>4 DEF TearInv, Tear!TypeOK, Tear!CommitRemoval
  <2>2. found[c].devices \subseteq Devices /\ todo[c] = {}
    BY <2>1 DEF TearInv, Tear!TypeOK, Ordered
  <2>3. ASSUME ~spoiled, NEW d \in Devices PROVE back[d] = "absent"
    <3>1. AllOrNothing /\ ListedAreAll
      BY <2>3 DEF TearInv
    <3>2. \A e \in found[c].devices : back[e] = "absent"
      BY <2>1, <2>2, <3>1 DEF ListedAreAll, ListedWhole, Listed, Closing
    <3>3. dom = "whole" => found[c].devices = front
      <4>1. dom = "whole" => found[c] = [devices |-> front, console |-> TRUE]
        BY <2>1, <3>1 DEF ListedAreAll, ListedWhole, Listed
      <4> QED BY <4>1
    <3> QED BY <3>1, <3>2, <3>3 DEF AllOrNothing
  <2> QED BY <2>1, <2>3 DEF Tear!NodesComeByAddition, Tear!RemovalsAreForcedLate
<1>5. CASE UNCHANGED back
  BY <1>5 DEF Tear!NodesComeByAddition, Tear!RemovalsAreForcedLate
<1> QED BY <1>1, <1>2, <1>3, <1>4, <1>5, OnlyTheseChangeBack
        DEF Outside, Tear!Next, TearStep

------------------------------------------------------------------------------
(* PciDevices.                                                              *)

InHand == {"read", "permit", "irq", "irqRight", "reset", "assign", "permissive"}

\* What is permitted for device h but its interrupt.
Regions(h) == Pci!Permits(h) \ {Pci!IrqRight(h)}
LineRight(h, i) == Pci!Right(Resources(h)[i])

\* Domain d has device a and all its regions.
Has(d, a) == a \in Hardware /\ owner[a] = d /\ Regions(a) \subseteq rights[d]

\* What a prepare was asked for is there as far as it has come, and it has no more
\* rights than are permitted for that.
Progress(d) ==
  /\ pc[d] \notin {"none", "undo", "done"} => list[d] # <<>>
  /\ pc[d] = "done" => list[d] = <<>>
  /\ pc[d] = "none" => asked[d] = <<>> /\ rights[d] = {}
  /\ pc[d] \in InHand => Pci!Hand(d) \in Hardware
  /\ pc[d] # "undo" => \A i \in 1..Pci!Handled(d) : Has(d, asked[d][i])
  /\ pc[d] # "undo" => \A x \in rights[d] :
       \/ \E i \in 1..Pci!Handled(d) : x \in Pci!Permits(asked[d][i])
       \/ pc[d] \in InHand /\ x \in Pci!Permits(Pci!Hand(d))
  /\ pc[d] = "permit" =>
       /\ lines[d] \subseteq Pci!Present(Pci!Hand(d))
       /\ Regions(Pci!Hand(d)) \subseteq
            rights[d] \cup UNION {LineRight(Pci!Hand(d), i) : i \in lines[d]}
  /\ pc[d] \in {"irq", "irqRight", "reset", "assign", "permissive"} =>
       Regions(Pci!Hand(d)) \subseteq rights[d]
  /\ pc[d] \in {"irq", "irqRight"} => Pci!Hand(d) \in Irqs
  /\ pc[d] = "permissive" => owner[Pci!Hand(d)] = d

PciInv == Pci!TypeOK /\ \A d \in Tasks : Progress(d)

Line == [io : BOOLEAN, start : Nat, size : Nat \ {0}]
RightsThereAre == ({"port", "page"} \X Nat) \cup ({"irq"} \X Hardware)

LEMMA LinesAreSound ==
    ASSUME NEW h \in Hardware, NEW i \in Pci!Present(h)
    PROVE  /\ i \in Nat /\ Resources(h)[i] \in Line
           /\ Resources(h)[i].io \/ Aligned(Resources(h)[i])
<1>1. Resources(h) \in Seq(Line) /\ (Resources(h)[i].io \/ Aligned(Resources(h)[i]))
  BY HardwareAssumption DEF Line
<1>2. i \in 1..Len(Resources(h))
  BY <1>1 DEF Pci!Present
<1> QED BY <1>1, <1>2

LEMMA RightsAreTyped ==
    ASSUME NEW r \in Line PROVE Pci!Right(r) \subseteq {"port", "page"} \X Nat
<1>1. CASE r.io
  BY <1>1 DEF Pci!Right, Line
<1>2. CASE ~r.io
  <2>1. r.start \div 4096 \in Nat /\ \A k \in 0..(Pci!PageCount(r) - 1) : k \in Nat
    BY DEF Line
  <2>2. \A k \in 0..(Pci!PageCount(r) - 1) : (r.start \div 4096) + k \in Nat
    <3> DEFINE first == r.start \div 4096
    <3>1. first \in Nat
      BY <2>1
    <3> HIDE DEF first
    <3>2. \A k \in Nat : first + k \in Nat
      BY <3>1
    <3> QED BY <2>1, <3>2 DEF first
  <2> QED BY <1>2, <2>2 DEF Pci!Right, Pci!PageSize
<1> QED BY <1>1, <1>2

\* Of the pages of a region the rounding leaves out a last one at most, which is not
\* whole.
LEMMA PagesAreCounted ==
    ASSUME NEW start \in Nat, NEW size \in Nat \ {0},
           start % 4096 = 0 \/ (start % 4096) + size <= 4096,
           NEW p \in (start \div 4096) .. ((start + size - 1) \div 4096),
           size % 4096 = 0 \/ p # (start + size - 1) \div 4096
    PROVE  p - (start \div 4096) \in 0 .. (((size + 11) \div 4096) - 1)
  OBVIOUS

\* A page that is permitted is a page of units of the region only.
LEMMA PermittedIsWhole ==
    ASSUME NEW start \in Nat, NEW size \in Nat \ {0}, start % 16 = 0, size % 16 = 0,
           start % 4096 = 0 \/ (start % 4096) + size <= 4096,
           NEW k \in 0 .. (((size + 11) \div 4096) - 1)
    PROVE  /\ start <= 4096 * ((start \div 4096) + k)
           /\ 4096 * ((start \div 4096) + k) + 4096 <= start + size
  OBVIOUS

\* What is permitted for a line is what its region needs, but a page that is not whole.
LEMMA NeededIsPermitted ==
    ASSUME NEW r \in Line, r.io \/ Aligned(r)
    PROVE  Pci!Region(r) \ Pci!Partial(r) \subseteq Pci!Right(r)
<1>1. CASE r.io
  BY <1>1 DEF Pci!Right, Pci!Region
<1>2. CASE ~r.io
  <2>1. /\ r.start \in Nat /\ r.size \in Nat \ {0}
        /\ r.start % 4096 = 0 \/ (r.start % 4096) + r.size <= 4096
    BY <1>2 DEF Line, Aligned, Pci!PageSize
  <2> DEFINE first == r.start \div 4096
             last == (r.start + r.size - 1) \div 4096
             pages == (r.size + 11) \div 4096
  <2>2. ASSUME NEW p \in first..last, r.size % 4096 = 0 \/ p # last
        PROVE  p - first \in 0..(pages - 1)
    BY <2>1, <2>2, PagesAreCounted
  <2>3. first \in Int
    BY <2>1
  <2>4. /\ Pci!Right(r) = {<<"page", first + k>> : k \in 0..(pages - 1)}
        /\ Pci!Region(r) = {<<"page", p>> : p \in first..last}
        /\ Pci!Partial(r) = IF r.size % 4096 = 0 THEN {} ELSE {<<"page", last>>}
    BY <1>2 DEF Pci!Right, Pci!Region, Pci!Partial, Pci!PageCount, Pci!PageSize
  <2> HIDE DEF first, last, pages
  <2>5. ASSUME NEW p \in first..last, <<"page", p>> \notin Pci!Partial(r)
        PROVE  <<"page", p>> \in Pci!Right(r)
    <3>1. p - first \in 0..(pages - 1)
      BY <2>2, <2>4, <2>5
    <3>2. p = first + (p - first)
      BY <2>3
    <3> QED BY <2>4, <3>1, <3>2
  <2> QED BY <2>4, <2>5
<1> QED BY <1>1, <1>2

\* What is permitted for a line is nothing of a region that is apart from it, although
\* both may have parts of one page.
LEMMA PermittedIsOwn ==
    ASSUME NEW r \in Line, NEW q \in Line, r.io \/ Aligned(r), q.io \/ Aligned(q),
           r.io = q.io => Disjoint(r, q)
    PROVE  Pci!Right(r) \cap Pci!Region(q) = {}
<1>1. CASE r.io # q.io
  BY <1>1 DEF Pci!Right, Pci!Region, Line
<1>2. CASE r.io /\ q.io
  <2>1. /\ r.start \in Nat /\ r.size \in Nat /\ q.start \in Nat /\ q.size \in Nat
        /\ r.start + r.size <= q.start \/ q.start + q.size <= r.start
    BY <1>2 DEF Line, Disjoint
  <2>2. \A p : ~(p \in r.start .. (r.start + r.size - 1)
                /\ p \in q.start .. (q.start + q.size - 1))
    BY <2>1
  <2> QED BY <1>2, <2>2 DEF Pci!Right, Pci!Region
<1>3. CASE ~r.io /\ ~q.io
  <2>1. /\ r.start \in Nat /\ r.size \in Nat \ {0}
        /\ r.start % 16 = 0 /\ r.size % 16 = 0
        /\ r.start % 4096 = 0 \/ (r.start % 4096) + r.size <= 4096
        /\ q.start \in Nat /\ q.size \in Nat \ {0}
        /\ r.start + r.size <= q.start \/ q.start + q.size <= r.start
    BY <1>3 DEF Line, Aligned, Disjoint, Pci!PageSize
  <2>2. ASSUME NEW k \in 0 .. (((r.size + 11) \div 4096) - 1),
               NEW p \in (q.start \div 4096) .. ((q.start + q.size - 1) \div 4096),
               p = (r.start \div 4096) + k
        PROVE  FALSE
    <3>1. r.start <= 4096 * p /\ 4096 * p + 4096 <= r.start + r.size
      BY <2>1, <2>2, PermittedIsWhole
    <3>2. p \in Int /\ q.start <= 4096 * p + 4095 /\ 4096 * p <= q.start + q.size - 1
      <4> DEFINE a == q.start
                 z == q.start + q.size - 1
      <4>1. a \in Nat /\ z \in Nat
        BY <2>1
      <4> HIDE DEF a, z
      <4>2. \A m \in Nat : 4096 * (m \div 4096) <= m /\ m <= 4096 * (m \div 4096) + 4095
                          /\ m \div 4096 \in Nat
        OBVIOUS
      <4>3. p \in (a \div 4096) .. (z \div 4096)
        BY <2>2 DEF a, z
      <4>4. a <= 4096 * p + 4095 /\ 4096 * p <= z /\ p \in Int
        BY <4>1, <4>2, <4>3
      <4> QED BY <4>4 DEF a, z
    <3> QED BY <2>1, <3>1, <3>2
  <2>3. \A x \in Pci!Right(r) : \E k \in 0 .. (((r.size + 11) \div 4096) - 1) :
          x = <<"page", (r.start \div 4096) + k>>
    BY <1>3 DEF Pci!Right, Pci!PageCount, Pci!PageSize
  <2>4. \A x \in Pci!Region(q) :
          \E p \in (q.start \div 4096) .. ((q.start + q.size - 1) \div 4096) :
            x = <<"page", p>>
    BY <1>3 DEF Pci!Region, Pci!PageSize
  <2> QED BY <2>2, <2>3, <2>4
<1> QED BY <1>1, <1>2, <1>3 DEF Line

\* What is permitted for a device are the rights to its lines, and its interrupt.
LEMMA PermitsAreLines ==
    ASSUME NEW h \in Hardware
    PROVE  /\ Regions(h) = UNION {LineRight(h, i) : i \in Pci!Present(h)}
           /\ Regions(h) \subseteq {"port", "page"} \X Nat
           /\ Pci!Permits(h) = Regions(h) \cup {Pci!IrqRight(h) : x \in {h} \cap Irqs}
           /\ Pci!Present(h) \subseteq Nat
<1> DEFINE all == UNION {LineRight(h, i) : i \in Pci!Present(h)}
           irqs == {Pci!IrqRight(h) : x \in {h} \cap Irqs}
<1>1. Pci!Permits(h) = all \cup irqs
  BY DEF Pci!Permits, LineRight
<1>2. \A i \in Pci!Present(h) : LineRight(h, i) \subseteq {"port", "page"} \X Nat
  BY LinesAreSound, RightsAreTyped DEF LineRight
<1>3. all \subseteq {"port", "page"} \X Nat
  BY <1>2
<1>4. Pci!IrqRight(h) \notin {"port", "page"} \X Nat
  BY DEF Pci!IrqRight
<1>5. irqs \subseteq {Pci!IrqRight(h)}
  OBVIOUS
<1>6. Pci!Present(h) \subseteq Nat
  BY LinesAreSound
<1> HIDE DEF all, irqs
<1>7. Regions(h) = all
  BY <1>1, <1>3, <1>4, <1>5 DEF Regions
<1> QED BY <1>1, <1>3, <1>6, <1>7 DEF all, irqs

\* A right that is permitted for one device is nothing that another needs.
LEMMA PermitsAreOwn ==
    ASSUME NEW g \in Hardware, NEW h \in Hardware, g # h
    PROVE  Pci!Permits(g) \cap Pci!Needs(h) = {}
<1>1. ASSUME NEW i \in Pci!Present(g), NEW j \in Pci!Present(h)
      PROVE  LineRight(g, i) \cap Pci!Region(Resources(h)[j]) = {}
  <2>1. Resources(g)[i].io = Resources(h)[j].io => Disjoint(Resources(g)[i], Resources(h)[j])
    BY HardwareAssumption
  <2> QED BY <2>1, LinesAreSound, PermittedIsOwn DEF LineRight
<1>2. ASSUME NEW x \in Pci!Permits(g)
      PROVE  (\E i \in Pci!Present(g) : x \in LineRight(g, i)) \/ x = Pci!IrqRight(g)
  BY <1>2 DEF Pci!Permits, LineRight
<1>3. ASSUME NEW x \in Pci!Needs(h)
      PROVE  (\E j \in Pci!Present(h) : x \in Pci!Region(Resources(h)[j]))
             \/ x = Pci!IrqRight(h)
  BY <1>3 DEF Pci!Needs
<1>4. Pci!IrqRight(g) # Pci!IrqRight(h)
  BY DEF Pci!IrqRight
<1>5. ASSUME NEW i \in Pci!Present(g) PROVE Pci!IrqRight(h) \notin LineRight(g, i)
  <2>1. LineRight(g, i) \subseteq {"port", "page"} \X Nat
    BY LinesAreSound, RightsAreTyped DEF LineRight
  <2> QED BY <2>1 DEF Pci!IrqRight
<1>6. ASSUME NEW j \in Pci!Present(h)
      PROVE  Pci!IrqRight(g) \notin Pci!Region(Resources(h)[j])
  BY DEF Pci!IrqRight, Pci!Region
<1> QED BY <1>1, <1>2, <1>3, <1>4, <1>5, <1>6

LEMMA FieldsApart ==
    ASSUME NEW x \in Nat, NEW y \in Nat, NEW i \in Nat, NEW j \in Nat
    PROVE  /\ i < 8 /\ j < 8 /\ x * 8 + i = y * 8 + j => x = y /\ i = j
           /\ i < 32 /\ j < 32 /\ x * 32 + i = y * 32 + j => x = y /\ i = j
           /\ i < 256 /\ j < 256 /\ x * 256 + i = y * 256 + j => x = y /\ i = j
<1>1. i < 8 /\ j < 8 /\ x * 8 + i = y * 8 + j => x = y /\ i = j
  OBVIOUS
<1>2. i < 32 /\ j < 32 /\ x * 32 + i = y * 32 + j => x = y /\ i = j
  OBVIOUS
<1>3. i < 256 /\ j < 256 /\ x * 256 + i = y * 256 + j => x = y /\ i = j
  OBVIOUS
<1> QED BY <1>1, <1>2, <1>3

\* The address of a device says which one it is, cut as it is.
LEMMA EncodeTells ==
    ASSUME NEW g \in Hardware, NEW h \in Hardware, Pci!encode(g) = Pci!encode(h)
    PROVE  g = h
<1> DEFINE R == [domain : Nat, bus : 0..255, device : 0..31, function : 0..7, vdefn : {-1}]
<1>1. g \in R /\ h \in R
  BY HardwareAssumption DEF Pci!Absent
<1>2. \A a \in R : Pci!encode(a) = a.domain * 65536 + a.bus * 256 + a.device * 8 + a.function
  <2> TAKE a \in R
  <2>1. a.bus % 256 = a.bus /\ a.device % 32 = a.device /\ a.function % 8 = a.function
        /\ a.domain # -1
    OBVIOUS
  <2> QED BY <2>1 DEF Pci!encode, Pci!Absent
<1> DEFINE slot(a) == a.domain * 256 + a.bus
           place(a) == slot(a) * 32 + a.device
<1>3. \A a \in R : /\ slot(a) \in Nat /\ place(a) \in Nat /\ a.domain \in Nat
                  /\ a.bus \in Nat /\ a.bus < 256 /\ a.device \in Nat /\ a.device < 32
                  /\ a.function \in Nat /\ a.function < 8
  <2> TAKE a \in R
  <2>1. a.domain \in Nat /\ a.bus \in 0..255 /\ a.device \in 0..31 /\ a.function \in 0..7
    OBVIOUS
  <2>2. slot(a) \in Nat
    BY <2>1
  <2>3. place(a) \in Nat
    <3> HIDE DEF slot
    <3> QED BY <2>1, <2>2
  <2> QED BY <2>1, <2>2, <2>3
<1>4. \A a \in R : Pci!encode(a) = place(a) * 8 + a.function
  BY <1>2
<1>5. place(g) = place(h) /\ g.function = h.function
  <2>1. place(g) * 8 + g.function = place(h) * 8 + h.function
    BY <1>1, <1>4
  <2>2. /\ place(g) \in Nat /\ place(h) \in Nat
        /\ g.function \in Nat /\ g.function < 8 /\ h.function \in Nat /\ h.function < 8
    BY <1>1, <1>3
  <2> HIDE DEF place
  <2> QED BY <2>1, <2>2, FieldsApart
<1>6. slot(g) = slot(h) /\ g.device = h.device
  <2>1. slot(g) * 32 + g.device = slot(h) * 32 + h.device
    BY <1>5
  <2>2. /\ slot(g) \in Nat /\ slot(h) \in Nat
        /\ g.device \in Nat /\ g.device < 32 /\ h.device \in Nat /\ h.device < 32
    BY <1>1, <1>3
  <2> HIDE DEF slot
  <2> QED BY <2>1, <2>2, FieldsApart
<1>7. g.domain = h.domain /\ g.bus = h.bus
  <2>1. g.domain \in Nat /\ h.domain \in Nat /\ g.bus \in Nat /\ h.bus \in Nat
        /\ g.bus < 256 /\ h.bus < 256 /\ g.domain * 256 + g.bus = h.domain * 256 + h.bus
    BY <1>1, <1>3, <1>6
  <2> QED BY <2>1, FieldsApart
<1> QED BY <1>1, <1>5, <1>6, <1>7

\* A device that is found by its file name is the one that was asked for.
LEMMA NameTells ==
    ASSUME NEW a \in Addresses, Pci!FileName(a) \in Hardware
    PROVE  Pci!FileName(a) = a
<1>1. a \in [domain : Int, bus : Nat, device : Nat, function : Nat, vdefn : Int]
  BY HardwareAssumption
<1>2. Pci!FileName(a).domain # -1
  BY HardwareAssumption
<1>3. a.domain # -1
  BY <1>1, <1>2 DEF Pci!FileName, Pci!Absent
<1> QED BY <1>3 DEF Pci!FileName, Pci!Absent

LEMMA TailFacts ==
    ASSUME NEW S, NEW s \in Seq(S), s # <<>>
    PROVE  /\ Head(s) = s[1] /\ Head(s) \in S
           /\ Tail(s) \in Seq(S) /\ Len(Tail(s)) = Len(s) - 1 /\ Len(s) > 0
           /\ \A i \in 1..Len(Tail(s)) : Tail(s)[i] = s[i + 1]
  OBVIOUS

PciStep(d) ==
  \/ \E wanted \in Pci!Wanted : Pci!Begin(d, wanted)
  \/ Pci!CheckAssigned(d) \/ Pci!ReadResources(d) \/ Pci!Permit(d)
  \/ Pci!PermitNothing(d) \/ Pci!ReadIrq(d) \/ Pci!MapPirq(d) \/ Pci!IrqPermission(d)
  \/ Pci!Reset(d) \/ Pci!AssignDevice(d)
  \/ Pci!EnablePermissive(d) \/ Pci!CallFails(d) \/ Pci!Undo(d)

\* A step of one prepare leaves those of the others as they are.
Apart(d) ==
  \A e \in Tasks \ {d} :
    /\ pc'[e] = pc[e] /\ list'[e] = list[e] /\ lines'[e] = lines[e]
    /\ asked'[e] = asked[e] /\ rights'[e] = rights[e]
    /\ \A h \in Hardware : owner[h] = e => owner'[h] = e

LEMMA ApartStep ==
    ASSUME NEW d \in Tasks, Pci!TypeOK, PciStep(d)
    PROVE  Apart(d)
<1> USE HardwareAssumption DEF Apart, Pci!TypeOK, Pci!Goto, Pci!sysfs, Pci!hypervisor,
                               Pci!Grant
<1>1. CASE \E wanted \in Pci!Wanted : Pci!Begin(d, wanted)
  BY <1>1 DEF Pci!Begin
<1>2. CASE Pci!CheckAssigned(d)
  BY <1>2 DEF Pci!CheckAssigned, Pci!Fail
<1>3. CASE Pci!ReadResources(d)
  BY <1>3 DEF Pci!ReadResources, Pci!Fail
<1>4. CASE Pci!Permit(d)
  BY <1>4 DEF Pci!Permit
<1>5. CASE Pci!ReadIrq(d)
  BY <1>5 DEF Pci!ReadIrq
<1>13. CASE Pci!PermitNothing(d)
  BY <1>13 DEF Pci!PermitNothing, Pci!Fail
<1>6. CASE Pci!MapPirq(d)
  BY <1>6 DEF Pci!MapPirq
<1>7. CASE Pci!IrqPermission(d)
  BY <1>7 DEF Pci!IrqPermission
<1>8. CASE Pci!Reset(d)
  BY <1>8 DEF Pci!Reset
<1>9. CASE Pci!AssignDevice(d)
  BY <1>9 DEF Pci!AssignDevice, Pci!Fail
<1>10. CASE Pci!EnablePermissive(d)
  BY <1>10 DEF Pci!EnablePermissive
<1>11. CASE Pci!CallFails(d)
  BY <1>11 DEF Pci!CallFails, Pci!Fail
<1>12. CASE Pci!Undo(d)
  BY <1>12 DEF Pci!Undo
<1> QED BY <1>1, <1>2, <1>3, <1>4, <1>5, <1>6, <1>7, <1>8, <1>9, <1>10, <1>11, <1>12,
           <1>13 DEF PciStep

LEMMA WantedSeqs == \A w \in Pci!Wanted : w \in Seq(Addresses) /\ w # <<>>
<1> SUFFICES ASSUME NEW k \in 1..MaxWanted, NEW w \in [1..k -> Addresses]
             PROVE  w \in Seq(Addresses) /\ w # <<>>
  BY DEF Pci!Wanted
<1>1. w \in Seq(Addresses)
  BY ConstantsAssumption
<1>2. Len(w) = k
  BY ConstantsAssumption
<1> QED BY <1>1, <1>2

\* The line that is next belongs to the device in hand.
LEMMA PermitGrants ==
    ASSUME Pci!TypeOK, NEW d \in Tasks, Progress(d), Pci!Permit(d)
    PROVE  /\ pc[d] = "permit" /\ Pci!Hand(d) \in Hardware
           /\ \E i \in lines[d] :
                /\ rights' = [rights EXCEPT ![d] = rights[d] \cup LineRight(Pci!Hand(d), i)]
                /\ lines' = [lines EXCEPT ![d] = lines[d] \ {i}]
                /\ LineRight(Pci!Hand(d), i) \subseteq Regions(Pci!Hand(d))
                /\ LineRight(Pci!Hand(d), i) \subseteq RightsThereAre
<1> DEFINE h == Pci!Hand(d)
<1>1. pc[d] = "permit" /\ h \in Hardware /\ lines[d] \subseteq Pci!Present(h)
  BY DEF Pci!Permit, Pci!Goto, Progress, InHand
<1>2. Pci!FileName(h) = h
  BY <1>1, HardwareAssumption DEF Pci!FileName, Pci!Absent
<1> HIDE DEF h
<1>3. PICK i \in lines[d] :
        /\ rights' = [rights EXCEPT ![d] = rights[d] \cup LineRight(h, i)]
        /\ lines' = [lines EXCEPT ![d] = lines[d] \ {i}]
  BY <1>2 DEF Pci!Permit, Pci!Grant, LineRight, h
<1>4. LineRight(h, i) \subseteq Regions(h) /\ Regions(h) \subseteq {"port", "page"} \X Nat
  BY <1>1, <1>3, PermitsAreLines
<1> QED BY <1>1, <1>3, <1>4 DEF RightsThereAre, h

LEMMA PciShape ==
    ASSUME NEW d \in Tasks, Pci!TypeOK, Progress(d), PciStep(d)
    PROVE  /\ pc' \in [Tasks -> Pci!Places]
           /\ list' \in [Tasks -> Seq(Addresses)] /\ asked' \in [Tasks -> Seq(Addresses)]
           /\ lines' \in [Tasks -> SUBSET Nat]
           /\ lines'[d] # {} => pc'[d] = "permit"
           /\ errors' \in 0..MaxPciErrors
<1> USE ConstantsAssumption DEF Pci!TypeOK, Pci!Places, Pci!Hand, Progress, InHand,
                                Pci!Goto, Pci!sysfs, Pci!hypervisor, Pci!Grant
<1>0. pc[d] # "permit" => lines[d] = {}
  OBVIOUS
<1>1. CASE \E wanted \in Pci!Wanted : Pci!Begin(d, wanted)
  <2>1. PICK w \in Pci!Wanted : Pci!Begin(d, w)
    BY <1>1
  <2>2. w \in Seq(Addresses)
    BY WantedSeqs
  <2> QED BY <2>1, <2>2 DEF Pci!Begin
<1>2. CASE Pci!CheckAssigned(d)
  BY <1>2 DEF Pci!CheckAssigned, Pci!Fail
<1>3. CASE Pci!ReadResources(d)
  <2>1. Pci!FileName(Pci!Hand(d)) \in Hardware => Pci!Present(Pci!FileName(Pci!Hand(d))) \subseteq Nat
    BY PermitsAreLines
  <2>2. /\ UNCHANGED <<list, asked, errors>> /\ pc' = [pc EXCEPT ![d] = pc'[d]]
        /\ \/ /\ pc'[d] = "permit" /\ Pci!FileName(Pci!Hand(d)) \in Hardware
              /\ lines' = [lines EXCEPT ![d] = Pci!Present(Pci!FileName(Pci!Hand(d)))]
           \/ pc'[d] = "undo" /\ lines' = [lines EXCEPT ![d] = {}]
    BY <1>3 DEF Pci!ReadResources, Pci!Fail
  <2>3. lines' \in [Tasks -> SUBSET Nat] /\ (lines'[d] # {} => pc'[d] = "permit")
    <3>1. PICK s \in SUBSET Nat :
            lines' = [lines EXCEPT ![d] = s] /\ (s # {} => pc'[d] = "permit")
      <4>1. CASE pc'[d] = "permit"
        BY <2>1, <2>2, <4>1
      <4>2. CASE lines' = [lines EXCEPT ![d] = {}]
        <5>1. {} \in SUBSET Nat
          OBVIOUS
        <5> QED BY <4>2, <5>1
      <4> QED BY <2>2, <4>1, <4>2
    <3> QED BY <3>1
  <2>4. pc' \in [Tasks -> Pci!Places]
    BY <2>2
  <2> QED BY <2>2, <2>3, <2>4
<1>4. CASE Pci!Permit(d)
  BY <1>4 DEF Pci!Permit
<1>5. CASE Pci!ReadIrq(d)
  BY <1>5 DEF Pci!ReadIrq
<1>13. CASE Pci!PermitNothing(d)
  BY <1>13 DEF Pci!PermitNothing, Pci!Fail
<1>6. CASE Pci!MapPirq(d)
  BY <1>6 DEF Pci!MapPirq
<1>7. CASE Pci!IrqPermission(d)
  BY <1>7 DEF Pci!IrqPermission
<1>8. CASE Pci!Reset(d)
  BY <1>8 DEF Pci!Reset
<1>9. CASE Pci!AssignDevice(d)
  BY <1>9 DEF Pci!AssignDevice, Pci!Fail
<1>10. CASE Pci!EnablePermissive(d)
  BY <1>0, <1>10 DEF Pci!EnablePermissive
<1>11. CASE Pci!CallFails(d)
  BY <1>11 DEF Pci!CallFails, Pci!Fail
<1>12. CASE Pci!Undo(d)
  <2>1. /\ pc[d] = "undo" /\ UNCHANGED <<lines, errors>> /\ pc' = [pc EXCEPT ![d] = "none"]
        /\ list' = [list EXCEPT ![d] = <<>>] /\ asked' = [asked EXCEPT ![d] = <<>>]
    BY <1>12 DEF Pci!Undo
  <2>2. pc' \in [Tasks -> Pci!Places] /\ lines'[d] = {} /\ lines' \in [Tasks -> SUBSET Nat]
    BY <1>0, <2>1
  <2>3. list' \in [Tasks -> Seq(Addresses)] /\ asked' \in [Tasks -> Seq(Addresses)]
    BY <2>1
  <2> QED BY <2>1, <2>2, <2>3
<1> QED BY <1>1, <1>2, <1>3, <1>4, <1>5, <1>6, <1>7, <1>8, <1>9, <1>10, <1>11, <1>12,
           <1>13 DEF PciStep

LEMMA PciGrants ==
    ASSUME NEW d \in Tasks, Pci!TypeOK, Progress(d), PciStep(d)
    PROVE  /\ owner' \in [Hardware -> Tasks \cup {Pci!Nobody}]
           /\ rights' \in [Tasks -> SUBSET RightsThereAre]
           /\ permissive' \subseteq Hardware
<1> USE DEF Pci!TypeOK, RightsThereAre, Pci!Hand, Progress, InHand, Pci!Goto, Pci!sysfs,
            Pci!hypervisor, Pci!Grant
<1>1. CASE \E wanted \in Pci!Wanted : Pci!Begin(d, wanted)
  BY <1>1 DEF Pci!Begin
<1>2. CASE Pci!CheckAssigned(d)
  BY <1>2 DEF Pci!CheckAssigned, Pci!Fail
<1>3. CASE Pci!ReadResources(d)
  BY <1>3 DEF Pci!ReadResources, Pci!Fail
<1>4. CASE Pci!Permit(d)
  <2>1. PICK i \in lines[d] :
          /\ rights' = [rights EXCEPT ![d] = rights[d] \cup LineRight(Pci!Hand(d), i)]
          /\ LineRight(Pci!Hand(d), i) \subseteq RightsThereAre
    BY <1>4, PermitGrants
  <2>2. rights' \in [Tasks -> SUBSET RightsThereAre]
    BY <2>1
  <2> QED BY <1>4, <2>2 DEF Pci!Permit
<1>5. CASE Pci!ReadIrq(d)
  BY <1>5 DEF Pci!ReadIrq
<1>13. CASE Pci!PermitNothing(d)
  BY <1>13 DEF Pci!PermitNothing, Pci!Fail
<1>6. CASE Pci!MapPirq(d)
  BY <1>6 DEF Pci!MapPirq
<1>7. CASE Pci!IrqPermission(d)
  <2>1. Pci!IrqRight(Pci!Hand(d)) \in RightsThereAre
    BY <1>7 DEF Pci!IrqPermission, Pci!IrqRight
  <2>2. /\ rights' = [rights EXCEPT ![d] = rights[d] \cup {Pci!IrqRight(Pci!Hand(d))}]
        /\ UNCHANGED <<owner, permissive>>
    BY <1>7 DEF Pci!IrqPermission
  <2>3. rights' \in [Tasks -> SUBSET RightsThereAre]
    BY <2>1, <2>2
  <2> QED BY <2>2, <2>3
<1>8. CASE Pci!Reset(d)
  BY <1>8 DEF Pci!Reset
<1>9. CASE Pci!AssignDevice(d)
  <2>1. /\ UNCHANGED <<rights, permissive>>
        /\ owner' = owner \/ \E h \in Hardware : owner' = [owner EXCEPT ![h] = d]
    BY <1>9 DEF Pci!AssignDevice, Pci!Fail, Pci!Encoded
  <2> QED BY <2>1
<1>10. CASE Pci!EnablePermissive(d)
  BY <1>10 DEF Pci!EnablePermissive
<1>11. CASE Pci!CallFails(d)
  BY <1>11 DEF Pci!CallFails, Pci!Fail
<1>12. CASE Pci!Undo(d)
  BY <1>12 DEF Pci!Undo
<1> QED BY <1>1, <1>2, <1>3, <1>4, <1>5, <1>6, <1>7, <1>8, <1>9, <1>10, <1>11, <1>12,
           <1>13 DEF PciStep

LEMMA OthersOK ==
    ASSUME NEW d \in Tasks, Apart(d), NEW e \in Tasks \ {d}, Progress(e)
    PROVE  Progress(e)'
<1>1. Pci!Hand(e)' = Pci!Hand(e) /\ Pci!Handled(e)' = Pci!Handled(e)
  BY DEF Apart, Pci!Hand, Pci!Handled
<1>2. \A a : Has(e, a) => Has(e, a)'
  BY DEF Apart, Has
<1> QED BY <1>1, <1>2 DEF Apart, Progress, InHand

LEMMA StepBegin ==
    ASSUME Pci!TypeOK, NEW d \in Tasks, Progress(d), NEW w \in Pci!Wanted, Pci!Begin(d, w)
    PROVE  Progress(d)'
<1>1. /\ pc[d] = "none" /\ pc'[d] = "check" /\ list'[d] = w /\ asked'[d] = w
      /\ rights'[d] = {} /\ w # <<>> /\ w \in Seq(Addresses)
  BY WantedSeqs DEF Pci!TypeOK, Pci!Begin, Pci!Goto, Pci!hypervisor, Progress
<1>2. Pci!Handled(d)' = 0
  BY <1>1 DEF Pci!Handled
<1> QED BY <1>1, <1>2 DEF Progress, InHand

\* An error, wherever it happens.
LEMMA StepFails ==
    ASSUME NEW d \in Tasks, pc'[d] = "undo" PROVE Progress(d)'
  BY DEF Progress, InHand

LEMMA StepCheck ==
    ASSUME Pci!TypeOK, NEW d \in Tasks, Progress(d), Pci!CheckAssigned(d), pc'[d] = "read"
    PROVE  Progress(d)'
<1>1. /\ pc[d] = "check" /\ Pci!FileName(Pci!Hand(d)) \in bound
      /\ UNCHANGED <<list, asked, owner, rights>>
  BY DEF Pci!TypeOK, Pci!CheckAssigned, Pci!Fail, Pci!Goto, Pci!hypervisor
<1>2. Pci!Hand(d) \in Addresses
  BY <1>1 DEF Pci!TypeOK, Pci!Hand, Progress
<1>3. Pci!Hand(d)' \in Hardware
  BY <1>1, <1>2, NameTells DEF Pci!TypeOK, Pci!Hand
<1> QED BY <1>1, <1>3 DEF Progress, InHand, Has, Pci!Handled

LEMMA StepRead ==
    ASSUME Pci!TypeOK, NEW d \in Tasks, Progress(d), Pci!ReadResources(d), pc'[d] = "permit"
    PROVE  Progress(d)'
<1>1. /\ pc[d] = "read" /\ Pci!FileName(Pci!Hand(d)) \in bound
      /\ lines'[d] = Pci!Present(Pci!FileName(Pci!Hand(d)))
      /\ UNCHANGED <<list, asked, owner, rights>>
  BY DEF Pci!TypeOK, Pci!ReadResources, Pci!Fail, Pci!Goto, Pci!hypervisor
<1>2. Pci!Hand(d) \in Addresses /\ Pci!Hand(d) \in Hardware
  BY <1>1 DEF Pci!TypeOK, Pci!Hand, Progress, InHand
<1>3. Pci!Hand(d)' = Pci!Hand(d) /\ lines'[d] = Pci!Present(Pci!Hand(d))
  BY <1>1, <1>2, NameTells DEF Pci!TypeOK, Pci!Hand
<1>4. Regions(Pci!Hand(d)) \subseteq UNION {LineRight(Pci!Hand(d), i) : i \in lines'[d]}
  BY <1>2, <1>3, PermitsAreLines
<1>5. Pci!Handled(d)' = Pci!Handled(d) /\ rights'[d] = rights[d]
  BY <1>1 DEF Pci!Handled
<1>6. \A a : Has(d, a) => Has(d, a)'
  BY <1>1 DEF Has
<1> QED BY <1>1, <1>2, <1>3, <1>4, <1>5, <1>6 DEF Progress, InHand

LEMMA StepPermit ==
    ASSUME Pci!TypeOK, NEW d \in Tasks, Progress(d), Pci!Permit(d)
    PROVE  Progress(d)'
<1> DEFINE h == Pci!Hand(d)
<1>1. PICK i \in lines[d] :
        /\ rights' = [rights EXCEPT ![d] = rights[d] \cup LineRight(h, i)]
        /\ lines' = [lines EXCEPT ![d] = lines[d] \ {i}]
        /\ LineRight(h, i) \subseteq Regions(h)
  BY PermitGrants
<1>2. pc[d] = "permit" /\ h \in Hardware
  BY PermitGrants
<1>3. pc'[d] = "permit" /\ UNCHANGED <<list, asked, owner>>
  BY DEF Pci!TypeOK, Pci!Permit, Pci!Goto
<1>4. h' = h /\ Pci!Handled(d)' = Pci!Handled(d)
  BY <1>3 DEF Pci!Hand, Pci!Handled
<1>5. /\ rights'[d] = rights[d] \cup LineRight(h, i)
      /\ lines'[d] = lines[d] \ {i}
  BY <1>1 DEF Pci!TypeOK
<1>6. /\ lines[d] \subseteq Pci!Present(h)
      /\ Regions(h) \subseteq rights[d] \cup UNION {LineRight(h, k) : k \in lines[d]}
  BY <1>2 DEF Progress
<1>7. Regions(h) \subseteq rights'[d] \cup UNION {LineRight(h, k) : k \in lines'[d]}
  BY <1>5, <1>6
<1>8. LineRight(h, i) \subseteq Pci!Permits(h)
  BY <1>1 DEF Regions
<1>9. \A a : Has(d, a) => Has(d, a)'
  BY <1>3, <1>5 DEF Has
<1> QED BY <1>2, <1>3, <1>4, <1>5, <1>6, <1>7, <1>8, <1>9 DEF Progress, InHand

LEMMA StepIrq ==
    ASSUME Pci!TypeOK, NEW d \in Tasks, Progress(d),
           Pci!ReadIrq(d) \/ Pci!MapPirq(d) \/ Pci!Reset(d)
    PROVE  Progress(d)'
<1> DEFINE hand == Pci!Hand(d)
<1>1. UNCHANGED <<list, asked, owner, rights, lines>>
  BY DEF Pci!ReadIrq, Pci!MapPirq, Pci!Reset, Pci!hypervisor
<1>2. Pci!Hand(d)' = hand /\ Pci!Handled(d)' = Pci!Handled(d)
  BY <1>1 DEF Pci!Hand, Pci!Handled
<1>3. \A a : Has(d, a) => Has(d, a)'
  BY <1>1 DEF Has
<1>4. CASE Pci!ReadIrq(d)
  <2>1. pc[d] = "permit" /\ lines[d] = {} /\ pc'[d] \in {"irq", "reset"}
        /\ (pc'[d] = "irq" => Pci!FileName(hand) \in bound \cap Irqs)
    BY <1>4 DEF Pci!TypeOK, Pci!ReadIrq, Pci!Goto
  <2>2. Regions(hand) \subseteq rights[d]
    BY <2>1 DEF Progress
  <2>3. hand \in Addresses
    BY <2>1 DEF Pci!TypeOK, Pci!Hand, Progress
  <2>4. pc'[d] = "irq" => hand \in Irqs
    BY <2>1, <2>3, NameTells DEF Pci!TypeOK
  <2> QED BY <1>1, <1>2, <1>3, <2>1, <2>2, <2>4 DEF Progress, InHand
<1>5. CASE Pci!MapPirq(d)
  BY <1>1, <1>2, <1>3, <1>5 DEF Pci!TypeOK, Pci!MapPirq, Pci!Goto, Progress, InHand
<1>6. CASE Pci!Reset(d)
  BY <1>1, <1>2, <1>3, <1>6 DEF Pci!TypeOK, Pci!Reset, Pci!Goto, Progress, InHand
<1> QED BY <1>4, <1>5, <1>6

LEMMA StepIrqRight ==
    ASSUME Pci!TypeOK, NEW d \in Tasks, Progress(d), Pci!IrqPermission(d)
    PROVE  Progress(d)'
<1> DEFINE hand == Pci!Hand(d)
<1>1. /\ pc[d] = "irqRight" /\ pc'[d] = "reset"
      /\ rights'[d] = rights[d] \cup {Pci!IrqRight(hand)}
      /\ UNCHANGED <<list, asked, owner>>
  BY DEF Pci!TypeOK, Pci!IrqPermission, Pci!Goto, Pci!Grant
<1>2. hand \in Hardware /\ hand \in Irqs
  BY <1>1 DEF Progress, InHand
<1>3. Pci!IrqRight(hand) \in Pci!Permits(hand)
  BY <1>2, PermitsAreLines
<1>4. Pci!Hand(d)' = hand /\ Pci!Handled(d)' = Pci!Handled(d)
  BY <1>1 DEF Pci!Hand, Pci!Handled
<1>5. \A a : Has(d, a) => Has(d, a)'
  BY <1>1 DEF Has
<1> QED BY <1>1, <1>2, <1>3, <1>4, <1>5 DEF Progress, InHand

LEMMA StepAssign ==
    ASSUME Pci!TypeOK, NEW d \in Tasks, Progress(d), Pci!AssignDevice(d), pc'[d] # "undo"
    PROVE  Progress(d)'
<1> DEFINE hand == Pci!Hand(d)
<1>1. PICK h \in Pci!Encoded(hand) :
        owner[h] = Pci!Nobody /\ owner' = [owner EXCEPT ![h] = d]
  BY DEF Pci!TypeOK, Pci!AssignDevice, Pci!Fail, Pci!Goto
<1>2. /\ pc[d] = "assign" /\ pc'[d] = "permissive" /\ UNCHANGED <<list, asked, rights>>
  BY DEF Pci!TypeOK, Pci!AssignDevice, Pci!Fail, Pci!Goto
<1>3. hand \in Hardware
  BY <1>2 DEF Progress, InHand
<1>4. h = hand
  BY <1>3, EncodeTells DEF Pci!Encoded
<1>5. owner'[hand] = d
  BY <1>1, <1>3, <1>4 DEF Pci!TypeOK
<1>6. \A a : Has(d, a) => Has(d, a)'
  BY <1>1, <1>2, HardwareAssumption DEF Has, Pci!TypeOK
<1>7. Pci!Hand(d)' = hand /\ Pci!Handled(d)' = Pci!Handled(d)
  BY <1>2 DEF Pci!Hand, Pci!Handled
<1> QED BY <1>2, <1>3, <1>5, <1>6, <1>7 DEF Progress, InHand

LEMMA EmptySeq == ASSUME NEW S, NEW s \in Seq(S) PROVE s = <<>> <=> Len(s) = 0
  OBVIOUS

LEMMA StepOn ==
    ASSUME Pci!TypeOK, NEW d \in Tasks, Progress(d), Pci!EnablePermissive(d)
    PROVE  Progress(d)'
<1> DEFINE hand == Pci!Hand(d)
           n == Pci!Handled(d)
<1>1. /\ pc[d] = "permissive" /\ pc'[d] = (IF Len(list[d]) = 1 THEN "done" ELSE "check")
      /\ list'[d] = Tail(list[d]) /\ UNCHANGED <<asked, owner, rights>>
  BY DEF Pci!TypeOK, Pci!EnablePermissive, Pci!hypervisor
<1>2. /\ list[d] # <<>> /\ list[d] \in Seq(Addresses) /\ asked[d] \in Seq(Addresses)
      /\ n \in Nat /\ \A i \in 1..Len(list[d]) : list[d][i] = asked[d][n + i]
  BY <1>1 DEF Pci!TypeOK, Progress, Pci!Handled
<1>3. /\ Len(list'[d]) = Len(list[d]) - 1 /\ hand = asked[d][n + 1] /\ Len(list[d]) > 0
      /\ list'[d] \in Seq(Addresses)
  BY <1>1, <1>2, TailFacts DEF Pci!Hand
<1>4. Pci!Handled(d)' = n + 1
  <2>1. Len(list[d]) \in Nat /\ Len(asked[d]) \in Nat
    BY <1>2
  <2>2. Pci!Handled(d)' = Len(asked[d]) - Len(list'[d])
    BY <1>1 DEF Pci!Handled
  <2> QED BY <1>3, <2>1, <2>2 DEF Pci!Handled
<1>5. Has(d, hand)
  BY <1>1 DEF Progress, InHand, Has
<1>6. \A i \in 1..(n + 1) : Has(d, asked[d][i])
  BY <1>1, <1>2, <1>3, <1>5 DEF Progress
<1>7. \A a : Has(d, a) => Has(d, a)'
  BY <1>1 DEF Has
<1>8. \A x \in rights[d] : \E i \in 1..(n + 1) : x \in Pci!Permits(asked[d][i])
  BY <1>1, <1>2, <1>3 DEF Progress
<1>9. pc'[d] = "done" <=> list'[d] = <<>>
  <2>1. Len(list[d]) \in Nat /\ (list'[d] = <<>> <=> Len(list'[d]) = 0)
    <3>1. list'[d] \in Seq(Addresses) /\ Len(list[d]) \in Nat
      BY <1>2, <1>3
    <3>2. list'[d] = <<>> <=> Len(list'[d]) = 0
      BY <3>1, EmptySeq
    <3> QED BY <3>1, <3>2
  <2> QED BY <1>1, <1>3, <2>1
<1> QED BY <1>1, <1>4, <1>6, <1>7, <1>8, <1>9 DEF Progress, InHand

LEMMA StepUndo ==
    ASSUME Pci!TypeOK, NEW d \in Tasks, Progress(d), Pci!Undo(d)
    PROVE  Progress(d)'
<1>1. pc'[d] = "none" /\ list'[d] = <<>> /\ asked'[d] = <<>> /\ rights'[d] = {}
  BY DEF Pci!TypeOK, Pci!Undo, Pci!Goto
<1>2. Pci!Handled(d)' = 0
  BY <1>1 DEF Pci!Handled
<1> QED BY <1>1, <1>2 DEF Progress, InHand

LEMMA SelfOK ==
    ASSUME Pci!TypeOK, NEW d \in Tasks, Progress(d), PciStep(d)
    PROVE  Progress(d)'
<1>1. CASE pc'[d] = "undo"
  BY <1>1, StepFails
<1>2. CASE pc'[d] # "undo"
  <2>1. CASE Pci!CheckAssigned(d)
    <3>1. pc'[d] = "read"
      BY <1>2, <2>1 DEF Pci!CheckAssigned, Pci!Fail, Pci!Goto, Pci!TypeOK
    <3> QED BY <2>1, <3>1, StepCheck
  <2>2. CASE Pci!ReadResources(d)
    <3>1. pc'[d] = "permit"
      BY <1>2, <2>2 DEF Pci!ReadResources, Pci!Fail, Pci!Goto, Pci!TypeOK
    <3> QED BY <2>2, <3>1, StepRead
  <2>3. ~Pci!CallFails(d) /\ ~Pci!PermitNothing(d)
    BY <1>2 DEF Pci!CallFails, Pci!PermitNothing, Pci!Fail, Pci!Goto, Pci!TypeOK
  <2> QED BY <1>2, <2>1, <2>2, <2>3, StepBegin, StepPermit, StepIrq, StepIrqRight,
             StepAssign, StepOn, StepUndo DEF PciStep
<1> QED BY <1>1, <1>2

\* What is left of the addresses are the last that were asked for.
LEMMA LastOnes ==
    ASSUME Pci!TypeOK, NEW d \in Tasks, Progress(d), PciStep(d), NEW e \in Tasks
    PROVE  /\ Pci!Handled(e)' >= 0
           /\ \A i \in 1..Len(list'[e]) : list'[e][i] = asked'[e][Pci!Handled(e)' + i]
<1>1. CASE list'[e] = list[e] /\ asked'[e] = asked[e]
  BY <1>1 DEF Pci!TypeOK, Pci!Handled
<1>2. CASE e = d /\ list'[e] = asked'[e] /\ list'[e] \in Seq(Addresses)
  BY <1>2 DEF Pci!Handled
<1>3. CASE e = d /\ Pci!EnablePermissive(d)
  <2> DEFINE n == Pci!Handled(d)
  <2>1. /\ list[d] # <<>> /\ list[d] \in Seq(Addresses) /\ asked[d] \in Seq(Addresses)
        /\ n \in Nat /\ \A i \in 1..Len(list[d]) : list[d][i] = asked[d][n + i]
        /\ list'[d] = Tail(list[d]) /\ UNCHANGED asked
    BY <1>3 DEF Pci!TypeOK, Progress, Pci!Handled, Pci!EnablePermissive
  <2>2. /\ Len(list'[d]) = Len(list[d]) - 1 /\ Len(list[d]) \in Nat /\ Len(asked[d]) \in Nat
        /\ \A i \in 1..(Len(list[d]) - 1) : list'[d][i] = list[d][i + 1]
    BY <2>1, TailFacts
  <2>3. Pci!Handled(d)' = n + 1
    <3>1. Pci!Handled(d)' = Len(asked[d]) - Len(list'[d])
      BY <2>1 DEF Pci!Handled
    <3> QED BY <2>2, <3>1 DEF Pci!Handled
  <2> HIDE DEF n
  <2>4. ASSUME NEW i \in 1..(Len(list[d]) - 1) PROVE list'[d][i] = asked'[d][n + 1 + i]
    <3>1. i + 1 \in 1..Len(list[d]) /\ n + (i + 1) = n + 1 + i
      BY <2>1, <2>2
    <3> QED BY <2>1, <2>2, <3>1
  <2> QED BY <1>3, <2>1, <2>2, <2>3, <2>4
<1>4. CASE e # d
  BY <1>1, <1>4, ApartStep DEF Apart
<1>5. CASE e = d /\ ~Pci!EnablePermissive(d)
  <2>1. UNCHANGED <<list, asked>> \/ (list'[d] = asked'[d] /\ list'[d] \in Seq(Addresses))
    <3>1. CASE \E w \in Pci!Wanted : Pci!Begin(d, w)
      BY <3>1, WantedSeqs DEF Pci!TypeOK, Pci!Begin
    <3>2. CASE Pci!Undo(d)
      BY <3>2 DEF Pci!TypeOK, Pci!Undo
    <3> QED BY <1>5, <3>1, <3>2 DEF PciStep, Pci!CheckAssigned, Pci!ReadResources,
                                    Pci!Permit, Pci!ReadIrq, Pci!MapPirq,
                                    Pci!IrqPermission, Pci!Reset, Pci!AssignDevice,
                                    Pci!CallFails, Pci!Fail,
                                    Pci!PermitNothing
  <2> QED BY <1>1, <1>2, <1>5, <2>1
<1> QED BY <1>3, <1>4, <1>5

LEMMA BoundStays == ASSUME NEW d \in Tasks, PciStep(d) PROVE bound' = bound
  BY DEF PciStep, Pci!Begin, Pci!CheckAssigned, Pci!ReadResources, Pci!Permit,
         Pci!ReadIrq, Pci!MapPirq, Pci!IrqPermission, Pci!Reset, Pci!AssignDevice,
         Pci!EnablePermissive, Pci!CallFails, Pci!Undo, Pci!Fail, Pci!sysfs,
         Pci!PermitNothing

LEMMA PciNextOK == ASSUME PciInv, Pci!Next PROVE PciInv'
<1>1. ASSUME NEW d \in Tasks, PciStep(d) PROVE PciInv'
  <2>1. Pci!TypeOK'
    <3>1. Pci!TypeOK /\ Progress(d)
      BY DEF PciInv
    <3>2. \A e \in Tasks \ {d} : lines'[e] # {} => pc'[e] = "permit"
      BY <1>1, <3>1, ApartStep DEF Apart, Pci!TypeOK
    <3> QED BY <1>1, <3>1, <3>2, PciShape, PciGrants, LastOnes, BoundStays
            DEF Pci!TypeOK, RightsThereAre
  <2>2. \A e \in Tasks : Progress(e)'
    BY <1>1, SelfOK, OthersOK, ApartStep DEF PciInv
  <2> QED BY <2>1, <2>2 DEF PciInv
<1>2. ASSUME NEW h \in Hardware, Pci!Rebind(h) PROVE PciInv'
  <2>1. /\ UNCHANGED <<owner, rights, pc, list, lines, asked, errors>>
        /\ bound' \subseteq Hardware /\ permissive' \subseteq Hardware
    BY <1>2 DEF PciInv, Pci!TypeOK, Pci!Rebind, Pci!hypervisor
  <2>2. Pci!TypeOK'
    BY <2>1 DEF PciInv, Pci!TypeOK, Pci!Handled
  <2>3. ASSUME NEW e \in Tasks PROVE Progress(e)'
    <3>1. Progress(e) /\ Pci!Hand(e)' = Pci!Hand(e) /\ Pci!Handled(e)' = Pci!Handled(e)
      BY <2>1 DEF PciInv, Pci!Hand, Pci!Handled
    <3>2. \A a : Has(e, a) => Has(e, a)'
      BY <2>1 DEF Has
    <3> QED BY <2>1, <3>1, <3>2 DEF Progress
  <2> QED BY <2>2, <2>3 DEF PciInv
<1> QED BY <1>1, <1>2 DEF Pci!Next, PciStep

LEMMA PciInitOK == ASSUME Pci!Init PROVE PciInv
<1>1. \A d \in Tasks : list[d] = <<>> /\ asked[d] = <<>> /\ lines[d] = {} /\ pc[d] = "none"
        /\ rights[d] = {}
  BY DEF Pci!Init
<1>2. Pci!TypeOK
  <2>1. /\ rights \in [Tasks -> SUBSET RightsThereAre] /\ lines \in [Tasks -> SUBSET Nat]
        /\ list \in [Tasks -> Seq(Addresses)] /\ asked \in [Tasks -> Seq(Addresses)]
    BY DEF Pci!Init
  <2>2. \A d \in Tasks : Pci!Handled(d) = 0 /\ Len(list[d]) = 0
    BY <1>1 DEF Pci!Handled
  <2> QED BY <1>1, <2>1, <2>2, ConstantsAssumption
          DEF Pci!Init, Pci!TypeOK, Pci!Places, RightsThereAre
<1>3. \A d \in Tasks : Progress(d)
  BY <1>1 DEF Progress, InHand, Pci!Handled
<1> QED BY <1>2, <1>3 DEF PciInv

LEMMA PciHolds == ASSUME PciInv PROVE Pci!PreparedAreWhole /\ Pci!RightsFollowOwnership
<1>1. ASSUME NEW d \in Tasks, pc[d] = "done"
      PROVE  Pci!Handled(d) = Len(asked[d]) /\ DOMAIN asked[d] = 1..Len(asked[d])
             /\ \A i \in 1..Len(asked[d]) : Has(d, asked[d][i])
  <2>1. list[d] = <<>> /\ asked[d] \in Seq(Addresses)
    BY <1>1 DEF PciInv, Progress, Pci!TypeOK
  <2>2. Pci!Handled(d) = Len(asked[d])
    BY <2>1 DEF Pci!Handled
  <2>3. \A i \in 1..Len(asked[d]) : Has(d, asked[d][i])
    BY <1>1, <2>2 DEF PciInv, Progress
  <2> QED BY <2>1, <2>2, <2>3
<1>2. Pci!PreparedAreWhole
  <2>1. ASSUME NEW h \in Hardware, NEW k \in Pci!Present(h)
        PROVE  Pci!Region(Resources(h)[k]) \ Pci!Partial(Resources(h)[k]) \subseteq Regions(h)
    <3>1. LineRight(h, k) \subseteq Regions(h)
      BY PermitsAreLines
    <3> QED BY <3>1, LinesAreSound, NeededIsPermitted DEF LineRight
  <2> QED BY <1>1, <2>1 DEF Pci!PreparedAreWhole, Has
<1>3. ASSUME NEW d \in Tasks, NEW h \in Hardware, pc[d] \in {"none", "done"},
             NEW x \in rights[d] \cap Pci!Needs(h)
      PROVE  owner[h] = d
  <2>1. pc[d] = "done"
    BY <1>3 DEF PciInv, Progress
  <2>2. PICK i \in 1..Len(asked[d]) : x \in Pci!Permits(asked[d][i]) /\ Has(d, asked[d][i])
    BY <1>1, <1>3, <2>1 DEF PciInv, Progress, InHand
  <2>3. asked[d][i] = h
    BY <1>3, <2>2, PermitsAreOwn DEF Has
  <2> QED BY <2>2, <2>3 DEF Has
<1> QED BY <1>2, <1>3 DEF Pci!RightsFollowOwnership

------------------------------------------------------------------------------
(* DeviceNodes.  A view of the store is sound for the devices ds, when the    *)
(* consoles os were orphaned, the ids in k are kept, and n devices were made. *)

Orphaned(os, node) == \E d \in os : d.serial = node.serial
Device == [kind : Nodes!ConfigKinds, backend : {c.backend : c \in Configs},
           special : BOOLEAN, id : DevIds, blk : BlkIds \cup {Nodes!NoBlk}, serial : Nat]

IsView(v, n) ==
  /\ v = [front |-> v.front, back |-> v.back, devs |-> v.devs, blks |-> v.blks]
  /\ v.front = [p \in DOMAIN v.front |-> v.front[p]]
  /\ v.back = [b \in DOMAIN v.back |-> v.back[b]]
  /\ v.devs \subseteq DevIds /\ v.blks \subseteq BlkIds
  /\ \A b \in DOMAIN v.back : b[2] \in DevIds /\ v.back[b].serial \in 1..n
\* Each device has its nodes, and every node is that of a device or has a reason.
NodesAgree(v, ds, os, k) ==
  /\ \A d \in ds :
       /\ Nodes!FrontPath(d) \in DOMAIN v.front
       /\ v.front[Nodes!FrontPath(d)] = Nodes!Node(Nodes!BackPath(d), d)
       /\ Nodes!BackPath(d) \in DOMAIN v.back
       /\ v.back[Nodes!BackPath(d)] = Nodes!Node(Nodes!FrontPath(d), d)
  /\ \A p \in DOMAIN v.front :
       \/ \E d \in ds : p = Nodes!FrontPath(d)
       \/ p = Nodes!ConsolePath /\ Orphaned(os, v.front[p])
  /\ \A b \in DOMAIN v.back :
       \/ \E d \in ds : b = Nodes!BackPath(d)
       \/ b[2] \in k.devs
       \/ Orphaned(os, v.back[b])
\* An id is one device's, or is kept.
IdsAgree(v, ds, k) ==
  /\ v.devs = {d.id : d \in ds} \cup k.devs
  /\ v.blks = ({d.blk : d \in ds} \ {Nodes!NoBlk}) \cup k.blks
  /\ \A d, e \in ds : d.id = e.id \/ (d.blk = e.blk /\ d.blk # Nodes!NoBlk) => d = e
  /\ \A d \in ds : d.id \notin k.devs /\ d.blk \notin k.blks
Sound(v, ds, os, k, n) ==
  /\ IsView(v, n) /\ NodesAgree(v, ds, os, k) /\ IdsAgree(v, ds, k)
  /\ ds \subseteq Device
  /\ \A d \in ds \cup os : d.serial \in 1..n
  /\ \A d \in ds : d.blk = Nodes!NoBlk <=> d.kind # "vbd"

Made == {results[i] : i \in 1..Len(results)}

\* While devices are added, the transaction's view is sound as well; what it writes
\* over was an orphan's; and it makes one default console at most.
Adding ==
  /\ Sound(tx, known \cup Made, orphans, kept, serial)
  /\ \A b \in DOMAIN back :
       b \in DOMAIN tx.back /\ (tx.back[b] = back[b] \/ Orphaned(orphans, back[b]))
  /\ \A i, j \in DOMAIN todo : todo[i].special /\ todo[j].special => i = j
  /\ \A i \in DOMAIN todo : todo[i].special => Nodes!ConsolePath \notin DOMAIN tx.front

NodesInv ==
  /\ Sound(Nodes!Now, known, orphans, kept, serial)
  /\ pc = "adding" => Adding
  /\ pc = "idle" => results = <<>>
  /\ pc \in {"idle", "adding"}
  /\ kept = [devs |-> kept.devs, blks |-> kept.blks]
  /\ orphans \subseteq Device /\ (\A d \in orphans : d.blk = Nodes!NoBlk <=> d.kind # "vbd")
  /\ results \in Seq(Device) /\ todo \in Seq(Configs)
  /\ Len(results) + Len(todo) <= MaxLength
  /\ serial \in Nat /\ calls \in 0..MaxCalls

LEMMA PathsDiffer ==
    ASSUME NEW d \in Device, NEW e \in Device, d.id # e.id
    PROVE  /\ ~d.special \/ ~e.special => Nodes!FrontPath(d) # Nodes!FrontPath(e)
           /\ Nodes!BackPath(d) # Nodes!BackPath(e)
<1>1. \A x, y : <<x, y>> # Nodes!ConsolePath
  BY DEF Nodes!ConsolePath
<1> QED BY <1>1 DEF Nodes!FrontPath, Nodes!BackPath

\* What add_device writes.
Added(v, d) ==
  [front |-> Nodes!Put(v.front, Nodes!FrontPath(d), Nodes!Node(Nodes!BackPath(d), d)),
   back |-> Nodes!Put(v.back, Nodes!BackPath(d), Nodes!Node(Nodes!FrontPath(d), d)),
   devs |-> v.devs \cup {d.id},
   blks |-> v.blks \cup ({d.blk} \ {Nodes!NoBlk})]

LEMMA AddSound ==
    ASSUME NEW v, NEW ds, NEW os, NEW k, NEW n \in Nat, Sound(v, ds, os, k, n),
           NEW d \in Device, d.serial = n + 1, d.id \notin v.devs, d.blk \notin v.blks,
           d.blk = Nodes!NoBlk <=> d.kind # "vbd",
           d.special => Nodes!ConsolePath \notin DOMAIN v.front
    PROVE  /\ Sound(Added(v, d), ds \cup {d}, os, k, n + 1)
           /\ \A b \in DOMAIN v.back :
                /\ b \in DOMAIN Added(v, d).back
                /\ Added(v, d).back[b] = v.back[b] \/ Orphaned(os, v.back[b])
           /\ DOMAIN Added(v, d).front = DOMAIN v.front \cup {Nodes!FrontPath(d)}
<1> DEFINE w == Added(v, d)
           fp == Nodes!FrontPath(d)
           bp == Nodes!BackPath(d)
<1>1. /\ w.front = [p \in DOMAIN v.front \cup {fp} |->
                      IF p = fp THEN Nodes!Node(bp, d) ELSE v.front[p]]
      /\ w.back = [b \in DOMAIN v.back \cup {bp} |->
                     IF b = bp THEN Nodes!Node(fp, d) ELSE v.back[b]]
      /\ w.devs = v.devs \cup {d.id} /\ w.blks = v.blks \cup ({d.blk} \ {Nodes!NoBlk})
      /\ w = [front |-> w.front, back |-> w.back, devs |-> w.devs, blks |-> w.blks]
  BY DEF Added, Nodes!Put
<1>2. fp \notin DOMAIN v.front
  <2>1. CASE d.special
    BY <2>1 DEF Nodes!FrontPath
  <2>2. CASE ~d.special
    <3> SUFFICES ASSUME fp \in DOMAIN v.front PROVE FALSE
      OBVIOUS
    <3>1. fp # Nodes!ConsolePath
      BY <2>2 DEF Nodes!FrontPath, Nodes!ConsolePath
    <3>2. PICK e \in ds : fp = Nodes!FrontPath(e)
      BY <3>1 DEF Sound, NodesAgree
    <3>3. e.id \in v.devs
      BY DEF Sound, IdsAgree
    <3> QED BY <2>2, <3>2, <3>3, PathsDiffer DEF Sound
  <2> QED BY <2>1, <2>2
<1>3. bp \in DOMAIN v.back => Orphaned(os, v.back[bp])
  <2>1. bp[2] = d.id
    BY DEF Nodes!BackPath
  <2>2. \A e \in ds : bp # Nodes!BackPath(e)
    <3> TAKE e \in ds
    <3>1. e.id \in v.devs
      BY DEF Sound, IdsAgree
    <3> QED BY <3>1, PathsDiffer DEF Sound
  <2>3. d.id \notin k.devs
    BY DEF Sound, IdsAgree
  <2> QED BY <2>1, <2>2, <2>3 DEF Sound, NodesAgree
<1>4. \A e \in ds : Nodes!FrontPath(e) # fp /\ Nodes!BackPath(e) # bp
  <2> TAKE e \in ds
  <2>1. e.id \in v.devs /\ Nodes!FrontPath(e) \in DOMAIN v.front
    BY DEF Sound, IdsAgree, NodesAgree
  <2> QED BY <1>2, <2>1, PathsDiffer DEF Sound
<1> HIDE DEF w, fp, bp
<1>5. IsView(w, n + 1)
  <2>1. /\ w.front = [p \in DOMAIN w.front |-> w.front[p]]
        /\ w.back = [b \in DOMAIN w.back |-> w.back[b]]
    BY <1>1
  <2>2. w.devs \subseteq DevIds /\ w.blks \subseteq BlkIds
    BY <1>1 DEF Sound, IsView, Device
  <2>3. ASSUME NEW b \in DOMAIN w.back
        PROVE  b[2] \in DevIds /\ w.back[b].serial \in 1..(n + 1)
    <3>1. CASE b = bp
      BY <1>1, <3>1 DEF bp, Nodes!BackPath, Nodes!Node, Device
    <3>2. CASE b # bp
      BY <1>1, <3>2 DEF Sound, IsView
    <3> QED BY <3>1, <3>2
  <2> QED BY <1>1, <2>1, <2>2, <2>3 DEF IsView
<1>6. NodesAgree(w, ds \cup {d}, os, k)
  <2>1. ASSUME NEW e \in ds \cup {d}
        PROVE  /\ Nodes!FrontPath(e) \in DOMAIN w.front
               /\ w.front[Nodes!FrontPath(e)] = Nodes!Node(Nodes!BackPath(e), e)
               /\ Nodes!BackPath(e) \in DOMAIN w.back
               /\ w.back[Nodes!BackPath(e)] = Nodes!Node(Nodes!FrontPath(e), e)
    <3>1. CASE e = d
      BY <1>1, <3>1 DEF fp, bp
    <3>2. CASE e \in ds
      BY <1>1, <1>4, <3>2 DEF Sound, NodesAgree
    <3> QED BY <3>1, <3>2
  <2>2. ASSUME NEW p \in DOMAIN w.front
        PROVE  \/ \E e \in ds \cup {d} : p = Nodes!FrontPath(e)
               \/ p = Nodes!ConsolePath /\ Orphaned(os, w.front[p])
    BY <1>1 DEF fp, Sound, NodesAgree
  <2>3. ASSUME NEW b \in DOMAIN w.back
        PROVE  \/ \E e \in ds \cup {d} : b = Nodes!BackPath(e)
               \/ b[2] \in k.devs \/ Orphaned(os, w.back[b])
    BY <1>1 DEF bp, Sound, NodesAgree
  <2> QED BY <2>1, <2>2, <2>3 DEF NodesAgree
<1>7. IdsAgree(w, ds \cup {d}, k)
  BY <1>1 DEF Sound, IdsAgree
<1>8. \A e \in (ds \cup {d}) \cup os : e.serial \in 1..(n + 1)
  BY DEF Sound
<1>9. Sound(w, ds \cup {d}, os, k, n + 1)
  BY <1>5, <1>6, <1>7, <1>8 DEF Sound
<1>10. \A b \in DOMAIN v.back :
         b \in DOMAIN w.back /\ (w.back[b] = v.back[b] \/ Orphaned(os, v.back[b]))
  BY <1>1, <1>3
<1> QED BY <1>1, <1>9, <1>10 DEF w, fp

\* What destroy_device leaves.
Without(v, d, withBlk) ==
  LET path == <<d.kind, d.id>>
      links == IF path \in DOMAIN v.front THEN {v.front[path].link} ELSE {}
  IN  [front |-> Nodes!Restrict(v.front, DOMAIN v.front \ {path}),
       back |-> Nodes!Restrict(v.back, DOMAIN v.back \ links),
       devs |-> v.devs \ {d.id}, blks |-> IF withBlk THEN v.blks \ {d.blk} ELSE v.blks]
KeptWith(k, d, withBlk) ==
  IF withBlk THEN k ELSE [devs |-> k.devs, blks |-> k.blks \cup ({d.blk} \ {Nodes!NoBlk})]

LEMMA DestroySound ==
    ASSUME NEW v, NEW ds, NEW os, NEW k, NEW n \in Nat, Sound(v, ds, os, k, n), NEW d \in ds,
           NEW withBlk \in BOOLEAN, NEW oz, oz = IF d.special THEN os \cup {d} ELSE os
    PROVE  Sound(Without(v, d, withBlk), ds \ {d}, oz, KeptWith(k, d, withBlk), n)
<1> DEFINE w == Without(v, d, withBlk)
           z == KeptWith(k, d, withBlk)
           path == <<d.kind, d.id>>
           bp == Nodes!BackPath(d)
           links == IF path \in DOMAIN v.front THEN {v.front[path].link} ELSE {}
<1>0. d \in Device /\ ds \subseteq Device
  BY DEF Sound
<1>1. /\ w.front = [p \in DOMAIN v.front \ {path} |-> v.front[p]]
      /\ w.back = [b \in DOMAIN v.back \ links |-> v.back[b]]
      /\ w.devs = v.devs \ {d.id} /\ w.blks = (IF withBlk THEN v.blks \ {d.blk} ELSE v.blks)
      /\ w = [front |-> w.front, back |-> w.back, devs |-> w.devs, blks |-> w.blks]
  BY DEF Without, Nodes!Restrict
<1>2. z.devs = k.devs
      /\ z.blks = (IF withBlk THEN k.blks ELSE k.blks \cup ({d.blk} \ {Nodes!NoBlk}))
  BY DEF KeptWith
<1>3. \A e \in ds : e # d => e.id # d.id /\ (e.blk = d.blk => e.blk = Nodes!NoBlk)
  BY DEF Sound, IdsAgree
<1>4. path # Nodes!ConsolePath
  BY DEF Nodes!ConsolePath
<1>5. \A e \in ds : e # d => Nodes!FrontPath(e) # path /\ Nodes!BackPath(e) # bp
  <2> SUFFICES ASSUME NEW e \in ds, e # d
               PROVE  Nodes!FrontPath(e) # path /\ Nodes!BackPath(e) # bp
    OBVIOUS
  <2>1. Nodes!FrontPath(e) # path
    BY <1>3, <1>4 DEF Nodes!FrontPath
  <2> QED BY <1>0, <1>3, <2>1, PathsDiffer
<1>6. IF d.special THEN path \notin DOMAIN v.front ELSE path = Nodes!FrontPath(d) /\ links = {bp}
  <2>1. CASE ~d.special
    <3>1. path = Nodes!FrontPath(d)
      BY <2>1 DEF Nodes!FrontPath
    <3>2. path \in DOMAIN v.front /\ v.front[path] = Nodes!Node(bp, d)
      BY <3>1 DEF Sound, NodesAgree
    <3>3. links = {bp}
      BY <3>2 DEF Nodes!Node
    <3> QED BY <2>1, <3>1, <3>3
  <2>2. CASE d.special
    <3>1. Nodes!FrontPath(d) # path
      BY <1>4, <2>2 DEF Nodes!FrontPath
    <3> QED BY <1>4, <1>5, <2>2, <3>1 DEF Sound, NodesAgree
  <2> QED BY <2>1, <2>2
<1>7. d.special => links = {} /\ path \notin DOMAIN v.front
  BY <1>6
<1> HIDE DEF w, z, path, links, bp
<1>8. IsView(w, n)
  <2>1. /\ w.front = [p \in DOMAIN w.front |-> w.front[p]]
        /\ w.back = [b \in DOMAIN w.back |-> w.back[b]]
    BY <1>1
  <2> QED BY <1>1, <2>1 DEF Sound, IsView
<1>9. \A node : Orphaned(os, node) => Orphaned(oz, node)
  BY DEF Orphaned
<1>10. NodesAgree(w, ds \ {d}, oz, z)
  <2>1. ASSUME NEW e \in ds \ {d}
        PROVE  /\ Nodes!FrontPath(e) \in DOMAIN w.front
               /\ w.front[Nodes!FrontPath(e)] = Nodes!Node(Nodes!BackPath(e), e)
               /\ Nodes!BackPath(e) \in DOMAIN w.back
               /\ w.back[Nodes!BackPath(e)] = Nodes!Node(Nodes!FrontPath(e), e)
    BY <1>1, <1>5, <1>6, <1>7 DEF Sound, NodesAgree
  <2>2. d.special =>
          Orphaned(oz, v.front[Nodes!FrontPath(d)]) /\ Orphaned(oz, v.back[bp])
    <3>1. /\ v.front[Nodes!FrontPath(d)] = Nodes!Node(bp, d)
          /\ v.back[bp] = Nodes!Node(Nodes!FrontPath(d), d)
      BY DEF bp, Sound, NodesAgree
    <3>2. \A link : Nodes!Node(link, d).serial = d.serial
      BY DEF Nodes!Node
    <3> QED BY <3>1, <3>2 DEF Orphaned
  <2>3. ASSUME NEW p \in DOMAIN w.front
        PROVE  \/ \E e \in ds \ {d} : p = Nodes!FrontPath(e)
               \/ p = Nodes!ConsolePath /\ Orphaned(oz, w.front[p])
    <3>1. w.front[p] = v.front[p] /\ p \in DOMAIN v.front /\ p # path
      BY <1>1
    <3>2. CASE p = Nodes!FrontPath(d)
      BY <1>6, <2>2, <3>1, <3>2 DEF Nodes!FrontPath
    <3>3. CASE p # Nodes!FrontPath(d)
      BY <1>9, <3>1, <3>3 DEF Sound, NodesAgree
    <3> QED BY <3>2, <3>3
  <2>4. ASSUME NEW b \in DOMAIN w.back
        PROVE  \/ \E e \in ds \ {d} : b = Nodes!BackPath(e)
               \/ b[2] \in z.devs \/ Orphaned(oz, w.back[b])
    <3>1. w.back[b] = v.back[b] /\ b \in DOMAIN v.back /\ b \notin links
      BY <1>1
    <3>2. CASE b = bp
      BY <1>6, <2>2, <3>1, <3>2
    <3>3. CASE b # bp
      BY <1>2, <1>9, <3>1, <3>3 DEF bp, Sound, NodesAgree
    <3> QED BY <3>2, <3>3
  <2> QED BY <2>1, <2>3, <2>4 DEF NodesAgree
<1>11. IdsAgree(w, ds \ {d}, z)
  BY <1>1, <1>2, <1>3 DEF Sound, IdsAgree
<1> QED BY <1>8, <1>10, <1>11 DEF Sound, w, z

LEMMA DeclareSound ==
    ASSUME NEW v, NEW ds, NEW os, NEW k, NEW n \in Nat, Sound(v, ds, os, k, n),
           NEW w, w = [front |-> <<>>, back |-> v.back, devs |-> v.devs, blks |-> v.blks],
           NEW z, z = [devs |-> v.devs, blks |-> v.blks]
    PROVE  Sound(w, {}, os, z, n)
<1>1. IsView(w, n)
  BY DEF Sound, IsView
<1>2. NodesAgree(w, {}, os, z)
  <2>1. ASSUME NEW b \in DOMAIN v.back PROVE b[2] \in v.devs \/ Orphaned(os, v.back[b])
    BY DEF Sound, NodesAgree, IdsAgree, Nodes!BackPath
  <2> QED BY <2>1 DEF NodesAgree
<1>3. IdsAgree(w, {}, z)
  BY DEF IdsAgree
<1> QED BY <1>1, <1>2, <1>3 DEF Sound

LEMMA NodesInitOK == ASSUME Nodes!Init PROVE NodesInv
<1>1. Sound(Nodes!Now, known, orphans, kept, serial)
  BY DEF Nodes!Init, Nodes!Now, Nodes!NoIds, Sound, IsView, NodesAgree, IdsAgree
<1> QED BY <1>1, ConstantsAssumption DEF Nodes!Init, NodesInv, Nodes!NoIds

LEMMA ListsAreSeqs ==
    ASSUME NEW wanted \in Nodes!Lists
    PROVE  /\ wanted \in Seq(Configs) /\ Len(wanted) \in 1..MaxLength
           /\ DOMAIN wanted = 1..Len(wanted)
<1>1. PICK k \in 1..MaxLength : wanted \in [1..k -> Configs]
  BY DEF Nodes!Lists
<1>2. wanted \in Seq(Configs)
  BY <1>1, ConstantsAssumption
<1>3. Len(wanted) = k
  BY <1>1, ConstantsAssumption
<1> QED BY <1>1, <1>2, <1>3

LEMMA NodesCardinality == \A S : Nodes!Cardinality(S) = Cardinality(S)
  BY DEF Nodes!Cardinality, Cardinality

\* Of the devices that are asked for, and the nodes that are there, one at most is the
\* default console's.
LEMMA OneConsole ==
    ASSUME NEW wanted \in Nodes!Lists, Nodes!BeginAdd(wanted)
    PROVE  /\ \A i, j \in DOMAIN wanted : wanted[i].special /\ wanted[j].special => i = j
           /\ \A i \in DOMAIN wanted : wanted[i].special => Nodes!ConsolePath \notin DOMAIN front
<1> DEFINE S == Nodes!Specials(wanted)
           C == {p \in DOMAIN front : p = Nodes!ConsolePath}
<1>1. IsFiniteSet(S)
  <2>1. S \subseteq 1..Len(wanted) /\ Len(wanted) \in Nat
    BY ListsAreSeqs DEF Nodes!Specials
  <2>2. IsFiniteSet(1..Len(wanted))
    BY <2>1, FS_Interval
  <2> QED BY <2>1, <2>2, FS_Subset
<1>2. IsFiniteSet(C)
  <2>1. C \subseteq {Nodes!ConsolePath}
    OBVIOUS
  <2> QED BY <2>1, FS_Singleton, FS_Subset
<1>3. /\ Cardinality(S) + Cardinality(C) <= 1
      /\ Cardinality(S) \in Nat /\ Cardinality(C) \in Nat
  BY <1>1, <1>2, FS_CardinalityType, NodesCardinality DEF Nodes!BeginAdd
<1>4. ASSUME NEW i \in S, NEW j \in S PROVE i = j
  <2>1. Cardinality(S) <= 1
    BY <1>3
  <2>2. Cardinality(S \ {i}) = 0
    <3>1. IsFiniteSet(S \ {i}) /\ Cardinality(S \ {i}) = Cardinality(S) - 1
      BY <1>1, <1>4, FS_RemoveElement
    <3>2. Cardinality(S \ {i}) \in Nat
      BY <3>1, FS_CardinalityType
    <3> HIDE DEF S, C
    <3> QED BY <1>3, <2>1, <3>1, <3>2
  <2>3. S \ {i} = {}
    BY <1>1, <2>2, FS_RemoveElement, FS_EmptySet
  <2> QED BY <2>3
<1>5. ASSUME NEW i \in S PROVE Nodes!ConsolePath \notin DOMAIN front
  <2>1. Cardinality(S) # 0
    BY <1>1, <1>5, FS_EmptySet
  <2>2. C = {}
    BY <1>2, <1>3, <2>1, FS_EmptySet
  <2> QED BY <2>2
<1> QED BY <1>4, <1>5 DEF Nodes!Specials

LEMMA BeginAddOK ==
    ASSUME NodesInv, NEW wanted \in Nodes!Lists, Nodes!BeginAdd(wanted)
    PROVE  NodesInv'
<1>1. /\ pc' = "adding" /\ todo' = wanted /\ tx' = Nodes!Now /\ results' = <<>>
      /\ UNCHANGED <<front, back, devs, blks, known, orphans, kept, serial>>
  BY DEF Nodes!BeginAdd, Nodes!store
<1>2. Made' = {} /\ Nodes!Now' = Nodes!Now
  BY <1>1 DEF Made, Nodes!Now
<1>3. Adding'
  <2>1. Sound(tx, known \cup Made, orphans, kept, serial)'
    <3>1. known \cup {} = known
      OBVIOUS
    <3> QED BY <1>1, <1>2, <3>1 DEF NodesInv
  <2>2. tx'.back = back /\ tx'.front = front
    BY <1>1 DEF Nodes!Now
  <2> QED BY <1>1, <2>1, <2>2, OneConsole DEF Adding
<1>4. calls' \in 0..MaxCalls
  BY ConstantsAssumption DEF NodesInv, Nodes!BeginAdd
<1> QED BY <1>1, <1>2, <1>3, <1>4, ListsAreSeqs DEF NodesInv

LEMMA TailOf ==
    ASSUME NEW S, NEW s \in Seq(S), s # <<>>
    PROVE  /\ Head(s) = s[1] /\ Head(s) \in S /\ Tail(s) \in Seq(S) /\ 1 \in DOMAIN s
           /\ Len(s) \in Nat /\ Len(Tail(s)) = Len(s) - 1
           /\ \A i \in DOMAIN Tail(s) : i + 1 \in DOMAIN s /\ Tail(s)[i] = s[i + 1] /\ i \in Nat
                                        /\ i # 0
  OBVIOUS

LEMMA AddOK == ASSUME NodesInv, Nodes!AddToTransaction PROVE NodesInv'
<1> DEFINE c == Head(todo)
<1>1. PICK id \in DevIds \ tx.devs, blk \in IF c.kind = "vbd" THEN BlkIds \ tx.blks ELSE {Nodes!NoBlk} :
        LET d == [kind |-> c.kind, backend |-> c.backend, special |-> c.special, id |-> id,
                  blk |-> blk, serial |-> serial + 1]
        IN  Nodes!MakeNodes(d) /\ results' = Append(results, d)
  BY DEF Nodes!AddToTransaction
<1> DEFINE d == [kind |-> c.kind, backend |-> c.backend, special |-> c.special, id |-> id,
                 blk |-> blk, serial |-> serial + 1]
<1>2. /\ pc = "adding" /\ todo # <<>> /\ todo' = Tail(todo) /\ serial' = serial + 1
      /\ UNCHANGED <<front, back, devs, blks, pc, known, orphans, kept, calls>>
      /\ tx' = Added(tx, d) /\ results' = Append(results, d)
  BY <1>1 DEF Nodes!AddToTransaction, Nodes!store, Nodes!MakeNodes, Added
<1>3. Adding /\ serial \in Nat /\ Sound(tx, known \cup Made, orphans, kept, serial)
  BY <1>2 DEF NodesInv, Adding
<1>4. c \in Configs /\ c = todo[1] /\ 1 \in DOMAIN todo /\ todo \in Seq(Configs)
  BY <1>2, TailOf DEF NodesInv
<1>5. d \in Device /\ d.serial = serial + 1 /\ d.id \notin tx.devs
      /\ (d.blk = Nodes!NoBlk <=> d.kind # "vbd") /\ d.special = c.special
  BY <1>3, <1>4, ConfigsAssumption DEF Device
<1>6. d.blk \notin tx.blks
  BY <1>3, ConfigsAssumption DEF Sound, IsView
<1>7. d.special => Nodes!ConsolePath \notin DOMAIN tx.front
  BY <1>3, <1>4, <1>5 DEF Adding
<1> HIDE DEF d
<1>8. /\ Sound(tx', (known \cup Made) \cup {d}, orphans, kept, serial + 1)
      /\ \A b \in DOMAIN tx.back :
           b \in DOMAIN tx'.back /\ (tx'.back[b] = tx.back[b] \/ Orphaned(orphans, tx.back[b]))
      /\ DOMAIN tx'.front = DOMAIN tx.front \cup {Nodes!FrontPath(d)}
  <2> DEFINE w == Added(tx, d)
             ds == known \cup Made
  <2>1. /\ Sound(w, ds \cup {d}, orphans, kept, serial + 1)
        /\ \A b \in DOMAIN tx.back :
             b \in DOMAIN w.back /\ (w.back[b] = tx.back[b] \/ Orphaned(orphans, tx.back[b]))
        /\ DOMAIN w.front = DOMAIN tx.front \cup {Nodes!FrontPath(d)}
    <3>1. Sound(tx, ds, orphans, kept, serial)
      BY <1>3
    <3> HIDE DEF ds
    <3> QED BY <1>3, <1>5, <1>6, <1>7, <3>1, AddSound
  <2>2. w = tx'
    BY <1>2
  <2> HIDE DEF w
  <2> QED BY <2>1, <2>2
<1>9. Made' = Made \cup {d} /\ results' \in Seq(Device) /\ Len(results') = Len(results) + 1
      /\ Len(results) \in Nat
  <2>1. results \in Seq(Device)
    BY DEF NodesInv
  <2>2. /\ Len(results) \in Nat /\ Len(results') = Len(results) + 1 /\ results' \in Seq(Device)
        /\ \A i \in 1..Len(results) : results'[i] = results[i]
        /\ results'[Len(results) + 1] = d
    BY <1>2, <1>5, <2>1
  <2>3. \A i \in 1..(Len(results) + 1) : i \in 1..Len(results) \/ i = Len(results) + 1
    BY <2>2
  <2> QED BY <2>2, <2>3 DEF Made
<1>10. Sound(tx, known \cup Made, orphans, kept, serial)'
  <2>1. (known \cup Made) \cup {d} = known' \cup Made'
    BY <1>2, <1>9
  <2> QED BY <1>2, <1>8, <2>1
<1>11. Adding'
  <2>1. \A b \in DOMAIN back' :
          b \in DOMAIN tx'.back /\ (tx'.back[b] = back'[b] \/ Orphaned(orphans', back'[b]))
    BY <1>2, <1>3, <1>8 DEF Adding
  <2>2. \A i, j \in DOMAIN todo' : todo'[i].special /\ todo'[j].special => i = j
    <3> SUFFICES ASSUME NEW i \in DOMAIN todo', NEW j \in DOMAIN todo',
                        todo'[i].special, todo'[j].special
                 PROVE  i = j
      OBVIOUS
    <3>1. i + 1 \in DOMAIN todo /\ j + 1 \in DOMAIN todo /\ i \in Nat /\ j \in Nat
          /\ todo[i + 1] = todo'[i] /\ todo[j + 1] = todo'[j]
      BY <1>2, <1>4, TailOf
    <3>2. i + 1 = j + 1
      BY <1>3, <3>1 DEF Adding
    <3> QED BY <3>1, <3>2
  <2>3. \A i \in DOMAIN todo' : todo'[i].special => Nodes!ConsolePath \notin DOMAIN tx'.front
    <3> SUFFICES ASSUME NEW i \in DOMAIN todo', todo'[i].special
                 PROVE  Nodes!ConsolePath \notin DOMAIN tx'.front
      OBVIOUS
    <3>1. i + 1 \in DOMAIN todo /\ i \in Nat /\ i # 0 /\ todo[i + 1] = todo'[i]
      BY <1>2, <1>4, TailOf
    <3>2. Nodes!ConsolePath \notin DOMAIN tx.front /\ (c.special => i + 1 = 1)
      BY <1>3, <1>4, <3>1 DEF Adding
    <3>3. ~c.special
      BY <3>1, <3>2
    <3>4. Nodes!FrontPath(d) # Nodes!ConsolePath
      BY <1>5, <3>3 DEF Nodes!FrontPath, Nodes!ConsolePath
    <3> QED BY <1>8, <3>2, <3>4
  <2> QED BY <1>10, <2>1, <2>2, <2>3 DEF Adding
<1>12. Sound(Nodes!Now, known, orphans, kept, serial)'
  BY <1>2 DEF NodesInv, Sound, IsView, Nodes!Now
<1>13. /\ todo' \in Seq(Configs) /\ Len(results') + Len(todo') <= MaxLength
       /\ serial' \in Nat
  <2>1. Tail(todo) \in Seq(Configs) /\ Len(Tail(todo)) = Len(todo) - 1 /\ Len(todo) \in Nat
    BY <1>2, <1>4, TailOf
  <2>2. Len(results) + Len(todo) <= MaxLength /\ MaxLength \in Nat
    BY ConstantsAssumption DEF NodesInv
  <2> QED BY <1>2, <1>3, <1>9, <2>1, <2>2
<1> QED BY <1>2, <1>9, <1>11, <1>12, <1>13 DEF NodesInv

LEMMA MadeIsRange == ASSUME NodesInv PROVE Nodes!Range(results) = Made
<1>1. DOMAIN results = 1..Len(results)
  BY DEF NodesInv
<1> QED BY <1>1 DEF Nodes!Range, Made

LEMMA AddFailsOK == ASSUME NodesInv, Nodes!AddFails PROVE NodesInv'
<1>1. /\ pc' = "idle" /\ todo' = <<>> /\ results' = <<>>
      /\ UNCHANGED <<front, back, devs, blks, known, orphans, kept, serial, calls>>
  BY DEF Nodes!AddFails, Nodes!store
<1>2. Sound(Nodes!Now, known, orphans, kept, serial)'
  BY <1>1 DEF NodesInv, Nodes!Now
<1> QED BY <1>1, <1>2, ConstantsAssumption DEF NodesInv

LEMMA CommitOK == ASSUME NodesInv, Nodes!Commit PROVE NodesInv'
<1>1. /\ pc = "adding" /\ todo = <<>> /\ pc' = "idle" /\ results' = <<>>
      /\ front' = tx.front /\ back' = tx.back /\ devs' = tx.devs /\ blks' = tx.blks
      /\ known' = known \cup Made
      /\ UNCHANGED <<todo, orphans, kept, serial, calls>>
  BY MadeIsRange DEF Nodes!Commit
<1>2. Sound(tx, known \cup Made, orphans, kept, serial)
  BY <1>1 DEF NodesInv, Adding
<1>3. Nodes!Now' = tx
  <2>1. tx = [front |-> tx.front, back |-> tx.back, devs |-> tx.devs, blks |-> tx.blks]
    BY <1>2 DEF Sound, IsView
  <2>2. Nodes!Now' = [front |-> tx.front, back |-> tx.back, devs |-> tx.devs, blks |-> tx.blks]
    BY <1>1 DEF Nodes!Now
  <2> QED BY <2>1, <2>2
<1>4. Sound(Nodes!Now, known, orphans, kept, serial)'
  BY <1>1, <1>2, <1>3
<1> QED BY <1>1, <1>4, ConstantsAssumption DEF NodesInv

LEMMA DestroyOK ==
    ASSUME NodesInv, NEW d \in known, NEW withBlk \in BOOLEAN, Nodes!Destroy(d, withBlk)
    PROVE  NodesInv'
<1>1. /\ pc = "idle" /\ known' = known \ {d} /\ calls < MaxCalls /\ calls' = calls + 1
      /\ orphans' = (IF d.special THEN orphans \cup {d} ELSE orphans)
      /\ UNCHANGED <<pc, todo, tx, results, serial>>
  BY DEF Nodes!Destroy
<1>2. kept' = KeptWith(kept, d, withBlk)
  <2>1. kept = [devs |-> kept.devs, blks |-> kept.blks]
    BY DEF NodesInv
  <2>2. kept' = IF withBlk THEN kept
                ELSE [kept EXCEPT !.blks = kept.blks \cup ({d.blk} \ {Nodes!NoBlk})]
    BY DEF Nodes!Destroy
  <2>3. [kept EXCEPT !.blks = kept.blks \cup ({d.blk} \ {Nodes!NoBlk})]
          = [devs |-> kept.devs, blks |-> kept.blks \cup ({d.blk} \ {Nodes!NoBlk})]
    BY <2>1
  <2> QED BY <2>2, <2>3 DEF KeptWith
<1>3. Nodes!Now' = Without(Nodes!Now, d, withBlk)
  BY DEF Nodes!Destroy, Nodes!Now, Without
<1>4. Sound(Nodes!Now, known, orphans, kept, serial) /\ serial \in Nat
  BY DEF NodesInv
<1>5. Sound(Without(Nodes!Now, d, withBlk), known \ {d}, orphans', KeptWith(kept, d, withBlk), serial)
  BY <1>1, <1>4, DestroySound
<1>6. Sound(Nodes!Now, known, orphans, kept, serial)'
  BY <1>1, <1>2, <1>3, <1>5
<1>7. d \in Device /\ (d.blk = Nodes!NoBlk <=> d.kind # "vbd")
  BY <1>4 DEF Sound
<1>8. /\ orphans' \subseteq Device
      /\ \A e \in orphans' : e.blk = Nodes!NoBlk <=> e.kind # "vbd"
  BY <1>1, <1>7 DEF NodesInv
<1>9. kept' = [devs |-> kept'.devs, blks |-> kept'.blks]
  BY <1>2 DEF KeptWith, NodesInv
<1>10. calls' \in 0..MaxCalls /\ serial' \in Nat
  BY <1>1, <1>4, ConstantsAssumption DEF NodesInv
<1> QED BY <1>1, <1>6, <1>8, <1>9, <1>10 DEF NodesInv

LEMMA DeclareOK == ASSUME NodesInv, Nodes!Declare PROVE NodesInv'
<1>1. /\ pc = "idle" /\ front' = <<>> /\ kept' = [devs |-> devs, blks |-> blks]
      /\ known' = {} /\ calls < MaxCalls /\ calls' = calls + 1
      /\ UNCHANGED <<back, orphans, devs, blks, pc, todo, tx, results, serial>>
  BY DEF Nodes!Declare
<1>2. Sound(Nodes!Now, known, orphans, kept, serial) /\ serial \in Nat
  BY DEF NodesInv
<1>3. /\ Nodes!Now' = [front |-> <<>>, back |-> Nodes!Now.back, devs |-> Nodes!Now.devs,
                       blks |-> Nodes!Now.blks]
      /\ kept' = [devs |-> Nodes!Now.devs, blks |-> Nodes!Now.blks]
  BY <1>1 DEF Nodes!Now
<1>4. Sound(Nodes!Now, known, orphans, kept, serial)'
  <2>1. Sound(Nodes!Now', {}, orphans, kept', serial)
    BY <1>2, <1>3, DeclareSound
  <2> QED BY <1>1, <2>1
<1>5. calls' \in 0..MaxCalls
  BY <1>1, ConstantsAssumption DEF NodesInv
<1> QED BY <1>1, <1>4, <1>5 DEF NodesInv

LEMMA NodesNextOK == ASSUME NodesInv, Nodes!Next PROVE NodesInv'
  BY BeginAddOK, AddOK, AddFailsOK, CommitOK, DestroyOK, DeclareOK DEF Nodes!Next

LEMMA NodesHold ==
    ASSUME NodesInv
    PROVE  /\ Nodes!TypeOK /\ Nodes!DevicesAreWhole /\ Nodes!LinksAgree
           /\ Nodes!IdsAreAccounted
<1> DEFINE now == Nodes!Now
<1>1. /\ now.front = front /\ now.back = back /\ now.devs = devs /\ now.blks = blks
      /\ IsView(now, serial) /\ NodesAgree(now, known, orphans, kept) /\ IdsAgree(now, known, kept)
      /\ known \subseteq Device /\ (\A d \in known \cup orphans : d.serial \in 1..serial)
      /\ \A d \in known : d.blk = Nodes!NoBlk <=> d.kind # "vbd"
  BY DEF NodesInv, Sound, Nodes!Now
<1> HIDE DEF now
<1>2. \A d \in known :
        /\ Nodes!FrontPath(d) \in DOMAIN front /\ Nodes!BackPath(d) \in DOMAIN back
        /\ front[Nodes!FrontPath(d)] = Nodes!Node(Nodes!BackPath(d), d)
        /\ back[Nodes!BackPath(d)] = Nodes!Node(Nodes!FrontPath(d), d)
  BY <1>1 DEF NodesAgree
<1>3. Nodes!DevicesAreWhole
  <2>1. \A d \in known : \A link : Nodes!Node(link, d).link = link /\ Nodes!Node(link, d).serial = d.serial
    BY DEF Nodes!Node
  <2> QED BY <1>2, <2>1 DEF Nodes!DevicesAreWhole
<1>4. Nodes!LinksAgree
  <2> SUFFICES ASSUME NEW p \in DOMAIN front
               PROVE  \/ /\ front[p].link \in DOMAIN back
                         /\ back[front[p].link].link = p
                         /\ back[front[p].link].serial = front[p].serial
                      \/ \E d \in orphans : d.serial = front[p].serial
    BY DEF Nodes!LinksAgree
  <2>1. CASE \E d \in known : p = Nodes!FrontPath(d)
    <3>1. PICK d \in known : p = Nodes!FrontPath(d)
      BY <2>1
    <3>2. \A link : Nodes!Node(link, d).link = link /\ Nodes!Node(link, d).serial = d.serial
      BY DEF Nodes!Node
    <3> QED BY <1>2, <3>1, <3>2
  <2>2. CASE Orphaned(orphans, front[p])
    BY <2>2 DEF Orphaned
  <2> QED BY <1>1, <2>1, <2>2 DEF NodesAgree
<1>5. Nodes!IdsAreAccounted
  BY <1>1 DEF IdsAgree, Nodes!IdsAreAccounted
<1>6. Nodes!TypeOK
  <2>1. \A d \in known \cup orphans : Nodes!IsDevice(d)
    BY <1>1 DEF NodesInv, Device, Nodes!IsDevice
  <2>2. ASSUME NEW p \in DOMAIN front
        PROVE  p = Nodes!ConsolePath \/ (p[1] \in Nodes!ConfigKinds /\ p[2] \in DevIds)
    BY <1>1 DEF NodesAgree, Nodes!FrontPath, Device
  <2>3. \A b \in DOMAIN back : b[2] \in DevIds /\ back[b].serial \in 1..serial
    BY <1>1 DEF IsView
  <2>4. devs \subseteq DevIds /\ blks \subseteq BlkIds
        /\ kept.devs \subseteq devs /\ kept.blks \subseteq blks
    BY <1>1 DEF IsView, IdsAgree
  <2> QED BY <2>1, <2>2, <2>3, <2>4 DEF NodesInv, Nodes!TypeOK
<1> QED BY <1>3, <1>4, <1>5, <1>6

LEMMA BackendsStep == ASSUME NodesInv, Nodes!Next PROVE Nodes!BackendsKeepTheirDevice
<1>1. CASE Nodes!Commit
  BY <1>1 DEF NodesInv, Adding, Nodes!Commit, Orphaned, Nodes!BackendsKeepTheirDevice
<1>2. ASSUME NEW d \in known, NEW withBlk \in BOOLEAN, Nodes!Destroy(d, withBlk)
      PROVE  Nodes!BackendsKeepTheirDevice
  BY <1>2 DEF Nodes!Destroy, Nodes!Restrict, Nodes!BackendsKeepTheirDevice
<1>3. CASE UNCHANGED back
  BY <1>3 DEF Nodes!BackendsKeepTheirDevice
<1> QED BY <1>1, <1>2, <1>3 DEF Nodes!Next, Nodes!BeginAdd, Nodes!AddToTransaction,
                                Nodes!AddFails, Nodes!Declare, Nodes!store

------------------------------------------------------------------------------
(* The four parts together.                                                 *)

\* Of the part that runs, its invariant
Inv ==
  /\ part = "life" => LifeInv
  /\ part = "tear" => TearInv
  /\ part = "nodes" => NodesInv
  /\ part = "pci" => PciInv

LEMMA InitOK == ASSUME Init PROVE Inv
  BY LifeInitOK, TearInitOK, NodesInitOK, PciInitOK DEF Init, Inv

LEMMA NextOK == ASSUME Inv, Next PROVE Inv'
<1>1. part' = part
  BY DEF Next
<1>2. CASE part = "life"
  BY <1>1, <1>2, LifeNextOK DEF Inv, Next
<1>3. CASE part = "tear"
  BY <1>1, <1>3, TearNextOK DEF Inv, Next
<1>4. CASE part = "nodes"
  BY <1>1, <1>4, NodesNextOK DEF Inv, Next
<1>5. CASE part = "pci"
  BY <1>1, <1>5, PciNextOK DEF Inv, Next
<1> QED BY <1>1, <1>2, <1>3, <1>4, <1>5 DEF Inv

\* Nothing that the invariants speak of changes.
LEMMA RestOK == ASSUME Inv, UNCHANGED vars PROVE Inv'
<1> USE DEF vars
<1>1. CASE part = "life"
  <2> USE <1>1 DEF lifeVars
  <2>1. LifeInv
    BY DEF Inv
  <2>2. Life!TypeOK' /\ Owned' /\ Numbered'
    BY <2>1 DEF LifeInv, Life!TypeOK, Owned, Numbered
  <2>3. AllAdvanced' /\ Life!ReturnedAreWhole'
    BY <2>1 DEF LifeInv, AllAdvanced, Advanced, Life!ReturnedAreWhole
  <2>4. Life!LeftoversAreExplained'
    BY <2>1 DEF LifeInv, Explained, Life!LeftoversAreExplained, Life!InProgress
  <2>5. Life!VmsAreExplained'
    BY <2>1 DEF LifeInv, Explained, Life!VmsAreExplained, Life!InProgress
  <2>6. Explained'
    BY <2>1, <2>4, <2>5 DEF LifeInv, Explained, Stored
  <2>7. Life!DomainsAreAccounted'
    BY <2>1 DEF LifeInv, Life!DomainsAreAccounted, Life!InProgress
  <2> QED BY <2>2, <2>3, <2>6, <2>7 DEF Inv, LifeInv
<1>2. CASE part = "tear"
  BY <1>2 DEF Inv, tearVars, TearInv, Tear!TypeOK, Ordered, Looked, Isolated,
              RemovedByOne, AllOrNothing, ListedAreAll, ListedWhole
<1>3. CASE part = "nodes"
  <2> USE <1>3 DEF nodeVars
  <2>1. NodesInv
    BY DEF Inv
  <2>2. Sound(Nodes!Now, known, orphans, kept, serial)'
    BY <2>1 DEF NodesInv, Sound, IsView, NodesAgree, IdsAgree, Nodes!Now
  <2>3. pc' = "adding" => Adding'
    BY <2>1 DEF NodesInv, Adding, Made, Sound, IsView, NodesAgree, IdsAgree
  <2> QED BY <2>1, <2>2, <2>3 DEF Inv, NodesInv
<1>4. CASE part = "pci"
  BY <1>4 DEF Inv, pciVars, PciInv, Pci!TypeOK, Progress, Has, Pci!Handled, Pci!Hand
<1> QED BY <1>1, <1>2, <1>3, <1>4 DEF Inv

LEMMA Invariance == Spec => []Inv
<1>1. Inv /\ [Next]_vars => Inv'
  BY NextOK, RestOK
<1> QED BY <1>1, InitOK, PTL DEF Spec

\* Whatever is created, destroyed, dropped and fails at once, a domain that create
\* returned stays whole in the hypervisor and in the store until a destroy of it
\* begins (XenClient::create and destroy, xenclient/src/lib.rs; tx/mod.rs).
THEOREM ReturnedStayWhole == Spec => []ReturnedAreWhole
<1>1. Inv => ReturnedAreWhole
  BY DEF Inv, ReturnedAreWhole, LifeInv
<1> QED BY <1>1, Invariance, PTL

\* A domain that nobody has, and what the store keeps of no domain, is the work
\* of a call that failed or of a future that was dropped, and of no other.
THEOREM LeftoversExplained == Spec => []LeftoversAreExplained
<1>1. Inv => LeftoversAreExplained
  BY DEF Inv, LeftoversAreExplained, LifeInv, Explained
<1> QED BY <1>1, Invariance, PTL

\* When every destroy of a domain that was begun has ended without an error, and
\* nobody else wrote to its devices, nothing is left of it, however many callers
\* destroy it at once (XenClient::destroy, destroy_store, lib.rs).
THEOREM DestroyedIsGone == Spec => []NothingRemains
<1>1. Inv => NothingRemains
  BY TearEnds DEF Inv, NothingRemains, TearInv
<1> QED BY <1>1, Invariance, PTL

\* No destroy writes a backend node back that is gone, and none takes one from a
\* driver that is still closing before it has looked at it three times.
THEOREM TornDown == Spec => NodesAreTornDown
<1>1. Inv /\ [Next]_vars =>
        [part = "tear" => Tear!NodesComeByAddition /\ Tear!RemovalsAreForcedLate]_vars
  BY NodesStep DEF Inv, Next
<1> QED BY <1>1, Invariance, PTL DEF Spec, NodesAreTornDown

\* For any configurations, ids and numbers of devices, a device keeps both its
\* nodes and its ids to itself until it is destroyed (tx/mod.rs).
THEOREM DevicesStayWhole == Spec => []DevicesAreWhole
<1>1. Inv => DevicesAreWhole
  BY NodesHold DEF Inv, DevicesAreWhole
<1> QED BY <1>1, Invariance, PTL

\* A step never gives the backend node of a device that is there to another.
THEOREM BackendsStay == Spec => BackendsAreNotTaken
<1>1. Inv /\ [Next]_vars => [part = "nodes" => Nodes!BackendsKeepTheirDevice]_vars
  BY BackendsStep DEF Inv, Next
<1> QED BY <1>1, Invariance, PTL DEF Spec, BackendsAreNotTaken

\* For any devices, whatever the sizes of their regions, a domain that was prepared
\* has those it asked for and the rights to them but for the pages at the end that the
\* code does not count, and rights follow the ownership of devices however prepares
\* and releases interleave (tx/pci.rs:101-151).
THEOREM PreparedStayWhole == Spec => []PreparedAreWhole
<1>1. Inv => PreparedAreWhole
  BY PciHolds DEF Inv, PreparedAreWhole, PciInv
<1> QED BY <1>1, Invariance, PTL
================================================================================
