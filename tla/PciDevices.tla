------------------------------ MODULE PciDevices ------------------------------
(***************************************************************************)
(* Giving PCI devices to domains: PciRootDeviceConfig::prepare of            *)
(* xenclient/src/tx/pci.rs with the sysfs backend and the addresses of       *)
(* xenclient/src/pci.rs.  Several domains are prepared at once, the device   *)
(* they ask for may be the same, a call may fail, and the administrator may  *)
(* take a device from pciback meanwhile.                                     *)
(***************************************************************************)
EXTENDS Integers, Sequences

CONSTANTS
  Domains,    \* domains that are being made
  Addresses,  \* addresses that are asked for, parsed from text
  Hardware,   \* addresses of the devices there are
  Lines(_),   \* the lines of a device's "resource" file
  Irqs,       \* devices with an interrupt
  MaxWanted,  \* bound: devices a domain asks for
  MaxErrors   \* bound: calls that fail

VARIABLES
  bound,     \* sysfs: devices bound to pciback
  owner,     \* hypervisor: whom each device is assigned to
  rights,    \* hypervisor: ports, pages and interrupts of each domain
  permissive,\* sysfs: devices the driver is permissive about
  pc, list,  \* each prepare: where it is, the addresses left, the first in hand
  lines,     \* lines of resources it has still to permit
  asked,     \* history: all addresses it was asked for
  errors
hypervisor == <<owner, rights>>
sysfs == <<bound, permissive>>
vars == <<sysfs, hypervisor, pc, list, lines, asked, errors>>

Nobody == "nobody"
Absent == -1    \* a part of an address that is not given
PageSize == 4096

------------------------------------------------------------------------------
(* Addresses.  from_str takes two hexadecimal digits for the number of a    *)
(* device and one for that of a function, more than there may be.            *)

\* Display: what is written tells the parts that are given; a virtual function
\* number is not written when there is no domain.
FileName(bdf) == IF bdf.domain = Absent THEN [bdf EXCEPT !.vdefn = Absent] ELSE bdf

\* encode, where the fields are cut to their widths
encode(bdf) ==
  (IF bdf.domain = Absent THEN 0 ELSE bdf.domain) * 65536
    + ((bdf.bus % 256) * 256) + ((bdf.device % 32) * 8) + (bdf.function % 8)

\* The devices the hypervisor takes an address for
Encoded(bdf) == {d \in Hardware : encode(d) = encode(bdf)}

------------------------------------------------------------------------------
\* Mutant of PageCount: the last page is not counted.
PageCountShort(r) == (r.size - 1) \div PageSize
\* The page shift, 12, is what is added for rounding up: of a region that is not of
\* whole pages the last page is not counted, of one of 256 bytes none is.
PageCount(r) == (r.size + 11) \div PageSize

Right(r) ==
  IF r.io THEN {<<"port", p>> : p \in r.start .. (r.start + r.size - 1)}
  ELSE {<<"page", (r.start \div PageSize) + k>> : k \in 0 .. (PageCount(r) - 1)}
IrqRight(d) == <<"irq", d>>

\* The lines of device d that are used: those of absent resources start at 0.
Present(d) == {i \in DOMAIN Lines(d) : Lines(d)[i].start > 0}

\* What prepare permits for device d.
Permits(d) ==
  (UNION {Right(Lines(d)[i]) : i \in Present(d)}) \cup {IrqRight(d) : x \in {d} \cap Irqs}

\* What a domain needs to use a resource, the page of it that is not whole, and what
\* it needs to use device d.
Region(r) ==
  IF r.io THEN {<<"port", p>> : p \in r.start .. (r.start + r.size - 1)}
  ELSE {<<"page", p>> : p \in (r.start \div PageSize)
                                .. ((r.start + r.size - 1) \div PageSize)}
Partial(r) ==
  IF r.io \/ r.size % PageSize = 0 THEN {}
  ELSE {<<"page", (r.start + r.size - 1) \div PageSize>>}
Needs(d) ==
  (UNION {Region(Lines(d)[i]) : i \in Present(d)})
    \cup {IrqRight(d) : x \in {d} \cap Irqs}

Places == {"none", "check", "read", "permit", "irq", "irqRight", "reset", "assign",
           "permissive", "undo", "done"}

\* How many of the addresses it was asked for a prepare is done with.
Handled(d) == Len(asked[d]) - Len(list[d])

TypeOK ==
  /\ bound \subseteq Hardware /\ permissive \subseteq Hardware
  /\ owner \in [Hardware -> Domains \cup {Nobody}]
  /\ rights \in [Domains -> SUBSET (({"port", "page"} \X Nat) \cup ({"irq"} \X Hardware))]
  /\ pc \in [Domains -> Places]
  /\ list \in [Domains -> Seq(Addresses)] /\ asked \in [Domains -> Seq(Addresses)]
  /\ \A d \in Domains : \* what is left are the last of the addresses
       /\ Handled(d) >= 0
       /\ \A i \in 1..Len(list[d]) : list[d][i] = asked[d][Handled(d) + i]
  /\ lines \in [Domains -> SUBSET Nat]
  /\ \A d \in Domains : lines[d] # {} => pc[d] = "permit"
  /\ errors \in 0..MaxErrors

Init ==
  /\ bound \in SUBSET Hardware /\ permissive = {}
  /\ owner = [h \in Hardware |-> Nobody]
  /\ rights = [d \in Domains |-> {}]
  /\ pc = [d \in Domains |-> "none"]
  /\ list = [d \in Domains |-> <<>>] /\ lines = [d \in Domains |-> {}]
  /\ asked = [d \in Domains |-> <<>>]
  /\ errors = 0

Goto(d, from, to) == pc[d] = from /\ pc' = [pc EXCEPT ![d] = to]
Hand(d) == Head(list[d])
Grant(d, set) == rights' = [rights EXCEPT ![d] = @ \cup set]

Begin(d, wanted) ==
  /\ Goto(d, "none", "check")
  /\ list' = [list EXCEPT ![d] = wanted]
  /\ asked' = [asked EXCEPT ![d] = wanted]
  /\ UNCHANGED <<sysfs, hypervisor, lines, errors>>

\* An error ends prepare, and init; create then destroys the domain.
Fail(d, from) ==
  /\ Goto(d, from, "undo")
  /\ lines' = [lines EXCEPT ![d] = {}]
  /\ UNCHANGED <<sysfs, hypervisor, list, asked>>

CheckAssigned(d) ==
  /\ pc[d] = "check"
  /\ \/ /\ FileName(Hand(d)) \in bound
        /\ Goto(d, "check", "read")
        /\ UNCHANGED <<sysfs, hypervisor, list, lines, asked>>
     \/ FileName(Hand(d)) \notin bound /\ Fail(d, "check")
  /\ UNCHANGED errors

ReadResources(d) ==
  /\ pc[d] = "read"
  /\ \/ /\ FileName(Hand(d)) \in bound
        /\ Goto(d, "read", "permit")
        /\ lines' = [lines EXCEPT ![d] = Present(FileName(Hand(d)))]
        /\ UNCHANGED <<sysfs, hypervisor, list, asked>>
     \/ FileName(Hand(d)) \notin bound /\ Fail(d, "read")
  /\ UNCHANGED errors

\* The resources are permitted in the order of their lines.
Permit(d) ==
  /\ Goto(d, "permit", "permit")
  /\ \E i \in lines[d] :
       /\ \A j \in lines[d] : i <= j
       /\ Grant(d, Right(Lines(FileName(Hand(d)))[i]))
       /\ lines' = [lines EXCEPT ![d] = @ \ {i}]
  /\ UNCHANGED <<sysfs, owner, list, asked, errors>>

\* External: the hypervisor may refuse to permit no pages at all.
PermitNothing(d) ==
  /\ \E i \in lines[d] :
       /\ \A j \in lines[d] : i <= j
       /\ Right(Lines(FileName(Hand(d)))[i]) = {}
  /\ Fail(d, "permit")
  /\ UNCHANGED errors

\* read_irq: without an "irq" file, or a device, there is none.
ReadIrq(d) ==
  /\ pc[d] = "permit" /\ lines[d] = {}
  /\ \/ FileName(Hand(d)) \in bound \cap Irqs /\ Goto(d, "permit", "irq")
     \/ FileName(Hand(d)) \notin bound \cap Irqs /\ Goto(d, "permit", "reset")
  /\ UNCHANGED <<sysfs, hypervisor, list, lines, asked, errors>>

MapPirq(d) ==
  /\ Goto(d, "irq", "irqRight")
  /\ UNCHANGED <<sysfs, hypervisor, list, lines, asked, errors>>

IrqPermission(d) ==
  /\ Goto(d, "irqRight", "reset")
  /\ Grant(d, {IrqRight(Hand(d))})
  /\ UNCHANGED <<sysfs, owner, list, lines, asked, errors>>

\* Errors are ignored; to a device without a driver it does nothing.
Reset(d) ==
  /\ Goto(d, "reset", "assign")
  /\ UNCHANGED <<sysfs, hypervisor, list, lines, asked, errors>>

\* The hypervisor refuses a device that another domain has, or that is not there.
AssignDevice(d) ==
  /\ pc[d] = "assign"
  /\ \/ /\ \E h \in Encoded(Hand(d)) :
             owner[h] = Nobody /\ owner' = [owner EXCEPT ![h] = d]
        /\ Goto(d, "assign", "permissive")
        /\ UNCHANGED <<sysfs, rights, list, lines, asked>>
     \/ /\ \A h \in Encoded(Hand(d)) : owner[h] # Nobody
        /\ Fail(d, "assign")
  /\ UNCHANGED errors

\* Only for a device that is to be permissive; then on to the next one.
EnablePermissive(d) ==
  /\ pc[d] = "permissive"
  /\ pc' = [pc EXCEPT ![d] = IF Len(list[d]) = 1 THEN "done" ELSE "check"]
  /\ \/ UNCHANGED permissive
     \/ FileName(Hand(d)) \in bound /\ permissive' = permissive \cup {FileName(Hand(d))}
  /\ list' = [list EXCEPT ![d] = Tail(@)]
  /\ UNCHANGED <<bound, hypervisor, lines, asked, errors>>

\* A call to the hypervisor, or the write to "permissive", fails.
CallFails(d) ==
  /\ errors < MaxErrors /\ errors' = errors + 1
  /\ \E from \in {"permit", "irq", "irqRight", "assign", "permissive"} : Fail(d, from)

\* The domain is destroyed, and what it had with it.
Undo(d) ==
  /\ Goto(d, "undo", "none")
  /\ owner' = [h \in Hardware |-> IF owner[h] = d THEN Nobody ELSE owner[h]]
  /\ rights' = [rights EXCEPT ![d] = {}]
  /\ list' = [list EXCEPT ![d] = <<>>] /\ asked' = [asked EXCEPT ![d] = <<>>]
  /\ UNCHANGED <<sysfs, lines, errors>>

\* External: a device is taken from pciback, or given to it, also one that a domain
\* has.
Rebind(h) ==
  /\ bound' = IF h \in bound THEN bound \ {h} ELSE bound \cup {h}
  /\ permissive' = permissive \ {h}
  /\ UNCHANGED <<hypervisor, pc, list, lines, asked, errors>>

Wanted == UNION {[1..k -> Addresses] : k \in 1..MaxWanted}

Next ==
  \/ \E d \in Domains :
       \/ \E wanted \in Wanted : Begin(d, wanted)
       \/ CheckAssigned(d) \/ ReadResources(d) \/ Permit(d) \/ PermitNothing(d)
       \/ ReadIrq(d) \/ MapPirq(d) \/ IrqPermission(d) \/ Reset(d) \/ AssignDevice(d)
       \/ EnablePermissive(d) \/ CallFails(d) \/ Undo(d)
  \/ \E h \in Hardware : Rebind(h)

Spec == Init /\ [][Next]_vars

------------------------------------------------------------------------------
\* A domain whose prepare succeeded has the devices it was asked for, the very
\* ones, although their addresses are cut when they are encoded, and of each of
\* their resources every port and every page but a last one that is not whole:
\* the code counts one too few for it (prepare, tx/pci.rs:101-150).
PreparedAreWhole ==
  \A d \in Domains : pc[d] = "done" =>
    \A i \in DOMAIN asked[d] :
      LET h == asked[d][i]
      IN  /\ h \in Hardware
          /\ owner[h] = d
          /\ \A k \in Present(h) : Region(Lines(h)[k]) \ Partial(Lines(h)[k]) \subseteq rights[d]

\* Nobody keeps rights to what another domain's device has, pages that devices share
\* included: two domains that want the same device do not both end up with rights to
\* it (create, lib.rs:51-58).
RightsFollowOwnership ==
  \A d \in Domains, h \in Hardware :
    /\ pc[d] \in {"none", "done"}
    /\ rights[d] \cap Needs(h) # {}
    => owner[h] = d
==============================================================================
