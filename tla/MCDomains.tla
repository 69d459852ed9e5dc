------------------------------- MODULE MCDomains -------------------------------
(***************************************************************************)
(* One run for the four models of a domain's life: DomainLifecycle,         *)
(* DomainTeardown, DeviceNodes and PciDevices.  `part` names the one that    *)
(* is explored; the models do not meet, and share the names of variables.   *)
(* A variable that the part has not stays 0.                                *)
(***************************************************************************)
EXTENDS Integers, Sequences, FiniteSets, TLC

CONSTANTS
  Tasks,    \* tasks that create or destroy, domains that are being made
  Devices,  \* devices of the domain that is torn down
  Domids, MaxCreates, MaxLifeErrors, MaxCancels,   \* DomainLifecycle
  MaxAdds, MaxTearErrors,                          \* DomainTeardown
  DevIds, BlkIds, Configs, MaxLength, MaxCalls,    \* DeviceNodes
  Addresses, Hardware, Resources(_), Irqs, MaxWanted, MaxPciErrors  \* PciDevices

ASSUME ConstantsAssumption ==
  /\ IsFiniteSet(Domids) /\ 0 \notin Domids
  /\ MaxCreates \in Nat /\ MaxLifeErrors \in Nat /\ MaxCancels \in Nat
  /\ MaxAdds \in Nat /\ MaxTearErrors \in Nat
  /\ MaxLength \in Nat /\ MaxCalls \in Nat
  /\ MaxWanted \in Nat /\ MaxPciErrors \in Nat

VARIABLES
  part,
  hyp, decl, ids, backs, vms, intro, uuid, creates, cancels, troubled,
  console, vm, alive, found, cur, snap, stale, count, looks, lateAdds, spoiled,
  devs, blks, tx, results, orphans, kept, serial, calls,
  bound, owner, rights, permissive, list, lines, asked,
  pc, front, back, dom, known, todo, errors

lifeVars == <<hyp, decl, ids, backs, vms, intro, uuid, creates, cancels, troubled>>
tearVars == <<console, vm, alive, found, cur, snap, stale, count, looks, lateAdds, spoiled>>
nodeVars == <<devs, blks, tx, results, orphans, kept, serial, calls>>
pciVars == <<bound, owner, rights, permissive, list, lines, asked>>
vars == <<part, lifeVars, tearVars, nodeVars, pciVars, pc, front, back, dom, known, todo, errors>>

------------------------------------------------------------------------------
(* The instances.                                                           *)

Life == INSTANCE DomainLifecycle WITH MaxErrors <- MaxLifeErrors
Tear == INSTANCE DomainTeardown WITH Callers <- Tasks, MaxErrors <- MaxTearErrors
Nodes == INSTANCE DeviceNodes
Pci == INSTANCE PciDevices
  WITH Domains <- Tasks, Lines <- Resources, MaxErrors <- MaxPciErrors

\* What PCI asks of a region of memory: it consists of units of 16 bytes, and it
\* begins with a page or lies in one.  It may be smaller than a page, or end in one.
Aligned(r) ==
  /\ r.start % 16 = 0 /\ r.size % 16 = 0
  /\ r.start % Pci!PageSize = 0 \/ (r.start % Pci!PageSize) + r.size <= Pci!PageSize
Disjoint(r, q) == r.start + r.size <= q.start \/ q.start + q.size <= r.start

\* The devices there are have addresses whose parts fit their widths, and no two of
\* them have a port or a byte of memory in common.  They may have a page.
ASSUME HardwareAssumption ==
  /\ Addresses \subseteq
       [domain : Int, bus : Nat, device : Nat, function : Nat, vdefn : Int]
  /\ Hardware \subseteq
       [domain : Nat, bus : 0..255, device : 0..31, function : 0..7, vdefn : {Pci!Absent}]
  /\ Pci!Nobody \notin Tasks
  /\ \A h \in Hardware :
       /\ Resources(h) \in Seq([io : BOOLEAN, start : Nat, size : Nat \ {0}])
       /\ \A i \in Pci!Present(h) : Resources(h)[i].io \/ Aligned(Resources(h)[i])
  /\ \A g, h \in Hardware : g # h =>
       \A i \in Pci!Present(g), j \in Pci!Present(h) :
         Resources(g)[i].io = Resources(h)[j].io => Disjoint(Resources(g)[i], Resources(h)[j])

\* A configuration is of one of the kinds; a block index is not what is written for
\* none.
ASSUME ConfigsAssumption ==
  /\ \A c \in Configs : c.kind \in Nodes!ConfigKinds /\ c.special \in BOOLEAN
  /\ Nodes!NoBlk \notin BlkIds

------------------------------------------------------------------------------
NoLife == /\ hyp = 0 /\ decl = 0 /\ ids = 0 /\ backs = 0 /\ vms = 0 /\ intro = 0
          /\ uuid = 0 /\ creates = 0 /\ cancels = 0 /\ troubled = 0
NoTear == /\ console = 0 /\ vm = 0 /\ alive = 0 /\ found = 0 /\ cur = 0 /\ snap = 0
          /\ stale = 0 /\ count = 0 /\ looks = 0 /\ lateAdds = 0 /\ spoiled = 0
NoNodes == /\ devs = 0 /\ blks = 0 /\ tx = 0 /\ results = 0 /\ orphans = 0
           /\ kept = 0 /\ serial = 0 /\ calls = 0
NoPci == /\ bound = 0 /\ owner = 0 /\ rights = 0 /\ permissive = 0 /\ list = 0
         /\ lines = 0 /\ asked = 0

Init ==
  \/ /\ part = "life" /\ Life!Init
     /\ NoTear /\ NoNodes /\ NoPci /\ back = 0 /\ todo = 0
  \/ /\ part = "tear" /\ Tear!Init
     /\ NoLife /\ NoNodes /\ NoPci /\ known = 0
  \/ /\ part = "nodes" /\ Nodes!Init
     /\ NoLife /\ NoTear /\ NoPci /\ dom = 0 /\ errors = 0
  \/ /\ part = "pci" /\ Pci!Init
     /\ NoLife /\ NoTear /\ NoNodes
     /\ front = 0 /\ back = 0 /\ dom = 0 /\ known = 0 /\ todo = 0

Next ==
  \/ /\ part = "life" /\ Life!Next
     /\ UNCHANGED <<part, tearVars, nodeVars, pciVars, back, todo>>
  \/ /\ part = "tear" /\ Tear!Next
     /\ UNCHANGED <<part, lifeVars, nodeVars, pciVars, known>>
  \/ /\ part = "nodes" /\ Nodes!Next
     /\ UNCHANGED <<part, lifeVars, tearVars, pciVars, dom, errors>>
  \/ /\ part = "pci" /\ Pci!Next
     /\ UNCHANGED <<part, lifeVars, tearVars, nodeVars, front, back, dom, known, todo>>

Spec == Init /\ [][Next]_vars

------------------------------------------------------------------------------
(* What is explored.                                                        *)

Config(k, b, s, c) == [kind |-> k, backend |-> b, special |-> s, complete |-> c]
\* The default console and another channel, a disk, and a network device whose
\* configuration lacks a parameter.
MCConfigs ==
  {Config("console", "console", TRUE, TRUE), Config("console", "console", FALSE, TRUE),
   Config("vbd", "qdisk", FALSE, TRUE), Config("vif", "vif", FALSE, FALSE)}

Address(segment, dev, v) ==
  [domain |-> segment, bus |-> 1, device |-> dev, function |-> 0, vdefn |-> v]
Nic == Address(0, 0, -1)
Disk == Address(0, 1, -1)
MCHardware == {Nic, Disk}
MCIrqs == {Nic}
\* The two devices there are, and addresses without a domain, with a virtual
\* function, and with a number that is cut to another device's.
MCAddresses == {Nic, Disk, Address(-1, 0, -1), Address(0, 1, 5), Address(0, 33, -1)}
Region(io, start, size) == [io |-> io, start |-> start, size |-> size]
\* Ports, an absent one, a page, and regions that end in a page, or lie in one: in
\* the same one, the page 5.
MCResources(d) ==
  IF d = Nic THEN <<Region(TRUE, 64, 2), Region(FALSE, 0, 1), Region(FALSE, 8192, 4096),
                    Region(FALSE, 20992, 256)>>
  ELSE <<Region(FALSE, 16384, 4352)>>

Symmetry == Permutations(Tasks) \cup Permutations(Devices)

------------------------------------------------------------------------------
(* The properties of the four models, each in its part; with the first, the  *)
(* variables of the part keep their types.                                  *)

\* What create returned stays whole in the hypervisor and in the store until it
\* is destroyed.
ReturnedAreWhole == part = "life" => Life!TypeOK /\ Life!ReturnedAreWhole
\* A domain nobody has, and what the store keeps of no domain, vm directories
\* included, are the work of an error or of a dropped call.
LeftoversAreExplained ==
  part = "life" =>
    /\ Life!DomainsAreAccounted
    /\ Life!LeftoversAreExplained
    /\ Life!VmsAreExplained

\* A destroy without errors leaves nothing of the domain.
NothingRemains == part = "tear" => Tear!TypeOK /\ Tear!NothingRemains
\* A backend node that was removed does not come back by being closed, and one
\* is removed under its driver's hands only after three looks.
NodesAreTornDown ==
  [][part = "tear" => Tear!NodesComeByAddition /\ Tear!RemovalsAreForcedLate]_vars

\* A device keeps both its nodes until it is destroyed, they lead to each other,
\* and ids are taken for devices and for what was left behind.
DevicesAreWhole ==
  part = "nodes" =>
    /\ Nodes!TypeOK
    /\ Nodes!DevicesAreWhole
    /\ Nodes!LinksAgree
    /\ Nodes!IdsAreAccounted
\* No device takes over another's backend node.
BackendsAreNotTaken == [][part = "nodes" => Nodes!BackendsKeepTheirDevice]_vars

\* A domain that was prepared has the devices it was asked for, with their ports and
\* whole pages, and nobody keeps rights to what another domain's device has.
PreparedAreWhole ==
  part = "pci" => Pci!TypeOK /\ Pci!PreparedAreWhole /\ Pci!RightsFollowOwnership
================================================================================
