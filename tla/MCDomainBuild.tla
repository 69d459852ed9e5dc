---------------------------- MODULE MCDomainBuild ----------------------------
(***************************************************************************)
(* One run for DomainBuild and ElfImage, a kernel on its way from a file into *)
(* a domain.  `part` names the one that is explored; the models do not meet,  *)
(* and the variables of the other stay as they are.                          *)
(***************************************************************************)
EXTENDS DomainBuild

CONSTANTS Files, Streams

VARIABLES part, file, stream, place, next, have, start, end, mem

elfVars == <<file, stream, place, next, have, start, end, mem>>
allVars == <<part, elfVars, vars>>

Elf == INSTANCE ElfImage WITH pc <- place

\* Addresses of headers are at most what the search for the lowest begins with.
ASSUME FilesAssumption ==
  /\ \A f \in Files :
       /\ f.headers \in Seq(Elf!Header) /\ f.size \in Nat
       /\ \A i \in DOMAIN f.headers : f.headers[i].paddr <= Elf!Unset
  /\ \A s \in Streams : s \in Seq([is : {"error", "junk", "short", "whole"}, size : Nat])

------------------------------------------------------------------------------
(* The images that are built and loaded.                                    *)

\* The upper half of a canonical address.
Canonical == 3 * 2^VirtBits
Upper == Canonical + 2^(VirtBits - 1)

\* A kernel of four or five pages at its base or behind it, with the list of
\* frames in a slot of the last level of its own, in the slots below the kernel
\* or just below it, behind it, and at an address that is none.  Large domains
\* have lists that reach into the kernel's area, or a base amid a page.  One has
\* a command line that is too long, and one a page for hypercalls: in the kernel,
\* the last of the domain's, below the base and behind the last.
MCImages ==
  [base : {Upper, Upper + 84}, kstart : {Upper + 84, Upper + 88}, kend : {Upper + 103},
   p2mBase : {260, Canonical + 448, Upper - 16, Upper + 448, Upper + 449},
   unmappedInitrd : BOOLEAN, initrd : {0, 3}, total : {16, 40, 62},
   longCmdline : {FALSE},
   hypercall : {NoHypercall}]
  \cup
  [base : {Upper, Upper + 81}, kstart : {Upper + 88}, kend : {Upper + 103},
   p2mBase : {256, Upper - 16}, unmappedInitrd : {TRUE}, initrd : {0}, total : {100},
   longCmdline : {FALSE}, hypercall : {NoHypercall}]
  \cup
  [base : {Upper}, kstart : {Upper + 16}, kend : {Upper + 32}, p2mBase : {256},
   unmappedInitrd : {TRUE}, initrd : {0}, total : {40}, longCmdline : {TRUE},
   hypercall : {NoHypercall}]
  \cup
  [base : {Upper}, kstart : {Upper + 16}, kend : {Upper + 32}, p2mBase : {256},
   unmappedInitrd : {TRUE}, initrd : {0}, total : {40}, longCmdline : {FALSE},
   hypercall : {Upper - 4, Upper + 24, Upper + 156, Upper + 160}]

H(load, paddr, off, filesz, memsz) ==
  [load |-> load, paddr |-> paddr, off |-> off, filesz |-> filesz, memsz |-> memsz]
Text == H(TRUE, 3, 1, 3, 3)
Data == H(TRUE, 7, 4, 1, 3)
Note == H(FALSE, 4, 2, 1, 1)
Stack == H(FALSE, 0, 0, 0, 0)
Tls == H(FALSE, 7, 4, 1, 2)
Far == H(FALSE, 9, 4, 1, 2)
Over == H(FALSE, 9, 4, 2, 2)
Long == H(TRUE, 7, 4, 2, 1)

\* Two segments with a gap between them and one that grows in memory, a note,
\* and the headers that are no kernel's; the sections at the end or before.
MCFiles ==
  [headers : {<<Text, Data>>, <<Data, Text>>, <<Text, Note, Data>>, <<Note, Data, Text>>,
              <<Text, Data, Note>>, <<Text>>, <<Data>>, <<Text, Stack>>,
              <<Text, Data, Tls>>, <<Data, Far>>, <<Data, Over>>,
              <<Text, Long>>},
   size : {6}, sections : {1, 6}, required : BOOLEAN]
Outcomes == {[is |-> "error", size |-> 0], [is |-> "junk", size |-> 0],
             [is |-> "short", size |-> 3], [is |-> "short", size |-> 5],
             [is |-> "whole", size |-> 6]}
MCStreams == {<<>>} \cup [1..1 -> Outcomes] \cup [1..2 -> Outcomes]

------------------------------------------------------------------------------
PartInit ==
  \/ /\ part = "build" /\ Init
     /\ file = 0 /\ stream = 0 /\ place = 0 /\ next = 0 /\ have = 0
     /\ start = 0 /\ end = 0 /\ mem = 0
  \/ /\ part = "elf" /\ Elf!Init
     /\ image = CHOOSE i \in Images : TRUE
     /\ Init

BuildStep == part = "build" /\ Next /\ UNCHANGED <<part, elfVars>>
ElfStep == part = "elf" /\ Elf!Next /\ UNCHANGED <<part, vars>>

PartNext == BuildStep \/ ElfStep

\* The fairness of each model, see there.
PartSpec == PartInit /\ [][PartNext]_allVars /\ WF_allVars(BuildStep) /\ WF_allVars(ElfStep)

------------------------------------------------------------------------------
(* The properties of the models, each in its part; the invariants of          *)
(* DomainBuild hold of its initial state too.                                *)

\* The variables keep their types; the kernel is where it was linked for, what is
\* mapped of a segment is its pages, and no page table can be written by the guest.
TablesAgree == TypeOK /\ KernelIsInPlace /\ SegmentsAreMapped /\ TablesAreReadOnly
\* Pages and frames are handed out once, and windows onto them are accounted for.
MemoryAgrees == PagesAreHandedOutOnce /\ FramesAreDistinct /\ WindowsAreAccounted
\* For a plain image, a kernel that was loaded is the one of the image, and the
\* loader does not panic.
KernelIsTheImage ==
  part = "elf" => Elf!TypeOK /\ Elf!LoadedIsTheImage /\ Elf!PlainImagesDoNotPanic
\* A domain is built or given up, so the search for its page tables ends; and a
\* whole image is found behind places that decode to nothing.
BuildsEnd ==
  /\ <>(part = "build" => pc \in Ended)
  /\ <>(part = "elf" /\ Elf!WholeIsThere => place = "loaded")
==============================================================================
