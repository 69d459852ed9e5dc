------------------------------ MODULE DomainBuild ------------------------------
(***************************************************************************)
(* Building a PV domain: initialize and boot of xenplatform/src/boot.rs, the *)
(* steps of xenplatform/src/x86pv.rs they call, and the windows onto the      *)
(* domain's memory of xenplatform/src/mem.rs.                                *)
(*                                                                          *)
(* The domain's pages are numbered by pfn, the machine's frames by mfn, and   *)
(* p2m takes one to the other.  A window is a run of the domain's frames      *)
(* mapped into this process.  One task builds the domain; every call to the   *)
(* kernel or the hypervisor may fail.                                        *)
(***************************************************************************)
EXTENDS PageTables, FiniteSets, TLC

CONSTANTS
  Images,      \* kernels and the domains to build of them, see ImageType
  RoundShift,  \* 22 in the code: what the end of the first area is rounded to
  ExtraPages,  \* 129: pages left free behind the tables
  SuperShift,  \* SUPERPAGE_2MB_SHIFT
  SuperBatch   \* SUPERPAGE_BATCH_SIZE

\* base, kstart, kend, p2mBase: addresses of the ELF notes and segments;
\* unmappedInitrd: the kernel takes its initrd unmapped; initrd: its pages;
\* total: the domain's pages; longCmdline: a command line beyond its array;
\* hypercall: the address of the page for hypercalls, if the kernel has one.
NoHypercall == -1   \* u64::MAX
ImageType == [base : Nat, kstart : Nat, kend : Nat, p2mBase : Nat,
              unmappedInitrd : BOOLEAN, initrd : Nat, total : Nat,
              longCmdline : BOOLEAN, hypercall : Nat \cup {NoHypercall}]
\* Of powers of two the provers know only what is said here.
ASSUME BoundsAssumption ==
  /\ 2^RoundShift \in Nat \ {0} /\ 2^SuperShift \in Nat \ {0}
  /\ 2^RoundShift % PageSize = 0
  /\ ExtraPages \in Nat /\ SuperBatch \in Nat
ASSUME ImagesAssumption == \A i \in Images : i \in ImageType /\ i.kstart < i.kend

VARIABLES
  image,  \* what is being built
  pc,     \* the step that is next
  vend,   \* virt_alloc_end
  pend,   \* pfn_alloc_end
  segs,   \* the segments and pages handed out
  p2m,    \* the frame of each pfn, once there is one
  filled, \* pfns the hypervisor has given a frame
  maps,   \* the mappings counted so far
  tries,  \* pages that alloc_page_tables assumes
  pgend,  \* virt_pgtab_end
  pages,  \* PhysicalPages: the windows it knows
  space,  \* external: the frames behind each window this process has
  memory, \* what has been written into the domain's frames
  cr3     \* the frame the vcpu starts with

memVars == <<vend, pend, segs>>
tabVars == <<maps, tries, pgend>>
winVars == <<pages, space>>
vars == <<image, pc, memVars, p2m, filled, tabVars, winVars, memory, cr3>>

Segments == {"initrd", "kernel", "startInfo", "xenstore", "console",
             "tables", "stack", "p2m"}
NoSegment == [vstart |-> 0, pfn |-> 0, pages |-> 0]
NoFrame == -1
Pfns == 0..(image.total - 1)
SharedInfo == 3 * image.total   \* external: a frame of Xen's
Steps == {"initrdEarly", "claim", "populate", "kernel", "initrd", "magic",
          "startInfo", "xenstore", "console", "tables", "tablesAlloc", "stack",
          "p2mLate", "evtchn", "setupTables", "setupStart", "hypercall", "late",
          "shared", "vcpu", "seed", "booted", "failed", "stuck", "panicked"}
Initializing == {"initrdEarly", "claim", "populate", "kernel", "initrd", "magic",
                 "startInfo", "xenstore", "console", "tables", "tablesAlloc",
                 "stack", "p2mLate", "evtchn"}
GivenUp == {"failed", "stuck"}
Ended == {"booted", "panicked"} \cup GivenUp

TypeOK ==
  /\ image \in Images /\ pc \in Steps
  /\ vend \in Nat /\ pend \in 0..image.total
  /\ \A s \in DOMAIN segs : segs[s].pfn + segs[s].pages <= pend
  /\ \A n \in Pfns : p2m[n] \in Int
  /\ filled \in 0..image.total
  /\ Len(maps) <= MaxMappings /\ tries \in Nat /\ pgend \in Nat
  /\ pc # "stuck" => DOMAIN pages \subseteq DOMAIN space
  /\ \A e \in memory : e.place \in 0..(Entries - 1)
  /\ cr3 \in Int

Init ==
  /\ image \in Images
  /\ pc = "initrdEarly" /\ vend = 0 /\ pend = 0 /\ segs = <<>>
  /\ p2m = [n \in Pfns |-> NoFrame] /\ filled = 0
  /\ maps = <<>> /\ tries = ExtraPages /\ pgend = 0
  /\ pages = <<>> /\ space = <<>> /\ memory = {} /\ cr3 = NoFrame

------------------------------------------------------------------------------
(* The windows: pfn_to_ptr, pfn_alloc, map_foreign_pages, unmap, unmap_all.   *)

\* A function with a value at x, and one without what is gone.
With(f, x, value) == [a \in DOMAIN f \cup {x} |-> IF a = x THEN value ELSE f[a]]
Without(f, gone) == [a \in DOMAIN f \ gone |-> f[a]]

\* Where the process gets a new window: the kernel chooses.
NewPtr == IF DOMAIN space = {} THEN 1 ELSE Max(DOMAIN space) + 1
\* The list of windows, by their addresses: a later one has a higher address.
Known == DOMAIN pages

\* The windows pfn_to_ptr looks at, the first of which decides.
Candidates(pfn, count) ==
  {a \in Known : /\ pfn < pages[a].pfn + pages[a].count
                 /\ IF count > 0 THEN pfn + count > pages[a].pfn
                                 ELSE pfn >= pages[a].pfn}
Window(pfn, count) == Min(Candidates(pfn, count))
OutOfRange(pfn, count) ==
  /\ Candidates(pfn, count) # {}
  /\ LET w == pages[Window(pfn, count)]
     IN  count > 0 /\ (pfn < w.pfn \/ pfn + count > w.pfn + w.count)

\* The frames asked for: those of p2m, or the pfns until it is loaded.
FramesOf(pfn, count) ==
  [k \in 1..count |-> IF filled = image.total THEN p2m[pfn + k - 1] ELSE pfn + k - 1]
\* external: the hypervisor lets the builder map the domain's frames and the
\* shared page only, and a domain has frames when it has been populated.
Mappable(frames) ==
  \A k \in DOMAIN frames : frames[k] = SharedInfo
                        \/ \E n \in Pfns : filled = image.total /\ p2m[n] = frames[k]

\* An error ends the build, and initialize and boot unmap every window they
\* know.  Windows in "leaked" have been mapped and are not known.
\* Mutant of GiveUp: the windows stay, as without the match of initialize.
GiveUpMapped(leaked) ==
  /\ pc' = "failed"
  /\ UNCHANGED winVars
GiveUp(leaked) ==
  /\ pc' = "failed"
  /\ pages' = <<>>
  /\ space' = [a \in (DOMAIN space \ Known) \cup DOMAIN leaked |->
                 IF a \in DOMAIN leaked THEN leaked[a] ELSE space[a]]
\* A munmap that fails ends unmap_all: the windows from there on stay, and so
\* does the list.
GiveUpHalfway(list, leaked) ==
  /\ pc' = "stuck"
  /\ pages' = list
  /\ \E w \in DOMAIN list :
       space' = [a \in (DOMAIN space \ Known) \cup {x \in DOMAIN list : x >= w}
                        \cup DOMAIN leaked |->
                   IF a \in DOMAIN leaked THEN leaked[a] ELSE space[a]]
Fails(leaked) ==
  /\ GiveUp(leaked) \/ GiveUpHalfway(pages, leaked)
  /\ UNCHANGED <<image, memVars, p2m, filled, tabVars, memory, cr3>>
NoLeak == <<>>
Leak(frames) == With(NoLeak, NewPtr, frames)

\* pfn_alloc and map_foreign_pages: mmap, the batch, the list, and then what
\* follows.  A window whose batch failed stays mapped.
MapPages(pfn, frames, ok) ==
  \/ /\ Mappable(frames) /\ ok
     /\ pages' = With(pages, NewPtr, [pfn |-> pfn, count |-> Len(frames)])
     /\ space' = With(space, NewPtr, frames)
  \/ Fails(NoLeak)
  \/ Fails(Leak(frames))

------------------------------------------------------------------------------
(* The allocations of boot.rs.                                              *)

Padding(start) == IF start > 0 THEN (start - vend) \div PageSize ELSE 0
BadBoundary(start) == start > 0 /\ (start % PageSize # 0 \/ start < vend)
NoMorePages(n) == pend + n > image.total

\* chk_alloc_pages, after the padding.
Advance(pad, n) ==
  /\ pend' = pend + pad + n
  /\ vend' = vend + (pad + n) * PageSize
Record(name, vstart, pad, n) ==
  segs' = With(segs, name, [vstart |-> vstart, pfn |-> pend + pad, pages |-> n])

\* alloc_segment, and the step after it.  A count of no page finds no window.
SegmentAt(name, vstart, start, n, next) ==
  IF BadBoundary(start) \/ NoMorePages(Padding(start) + n) \/ n = 0
  THEN Fails(NoLeak)
  ELSE MapPages(pend + Padding(start), FramesOf(pend + Padding(start), n),
         /\ Advance(Padding(start), n) /\ Record(name, vstart, Padding(start), n)
         /\ pc' = next
         /\ UNCHANGED <<image, p2m, filled, memory, cr3>>)

alloc_segment(name, start, n, next) ==
  SegmentAt(name, vend + Padding(start) * PageSize, start, n, next)

\* alloc_page: a page, and no window.
alloc_page(name, next) ==
  IF NoMorePages(1) THEN Fails(NoLeak)
  ELSE /\ Advance(0, 1) /\ Record(name, vend, 0, 1)
       /\ pc' = next
       /\ UNCHANGED <<image, p2m, filled, tabVars, winVars, memory, cr3>>

Skip(next) ==
  pc' = next /\ UNCHANGED <<image, memVars, p2m, filled, tabVars, winVars, memory, cr3>>
------------------------------------------------------------------------------
(* initialize_internal.                                                     *)

\* An initrd the kernel wants mapped comes first, before there is any memory.
LoadInitrdEarly ==
  /\ pc = "initrdEarly"
  /\ IF image.unmappedInitrd \/ image.initrd = 0 THEN Skip("claim")
     ELSE alloc_segment("initrd", 0, image.initrd, "claim") /\ UNCHANGED tabVars

\* set_address_size and claim_pages.
ClaimPages ==
  /\ pc = "claim"
  /\ Skip("populate") \/ Fails(NoLeak)

\* external: the first frame of a superpage, handed out from the top down.
Extent(e) == 2 * image.total - 2^SuperShift * (e + 1)
SuperFrame(n) == Extent(n \div 2^SuperShift) + (n % 2^SuperShift)
\* What the superpages of initialize_memory leave for single pages.
Supers == (image.total \div 2^SuperShift) * 2^SuperShift

\* populate_physmap gives every extent that was asked for, or fails.
Populate(n, frame) ==
  /\ p2m' = [k \in Pfns |-> IF k \in filled..(filled + n - 1) THEN frame[k] ELSE p2m[k]]
  /\ filled' = filled + n
  /\ UNCHANGED <<image, pc, memVars, tabVars, winVars, memory, cr3>>
PopulateSuperPages ==
  /\ pc = "populate" /\ filled < Supers
  /\ \/ LET left == (Supers - filled) \div 2^SuperShift
            count == IF left < SuperBatch THEN left ELSE SuperBatch
        IN  Populate(count * 2^SuperShift, [k \in Pfns |-> SuperFrame(k)])
     \/ Fails(NoLeak)
PopulateRest ==
  /\ pc = "populate" /\ filled \in Supers..(image.total - 1)
  /\ Populate(image.total - filled, [k \in Pfns |-> 2 * image.total + k]) \/ Fails(NoLeak)
\* load_p2m, claim_pages(0), and the virtual addresses start at their base.
MemoryDone ==
  /\ pc = "populate" /\ filled = image.total
  /\ \/ /\ vend' = image.base /\ pc' = "kernel"
        /\ UNCHANGED <<image, pend, segs, p2m, filled, tabVars, winVars, memory, cr3>>
     \/ Fails(NoLeak)

PagesFor(bytes) == (bytes + PageSize - 1) \div PageSize
\* The image may also fail to load into the segment.
LoadKernel ==
  /\ pc = "kernel"
  /\ \/ alloc_segment("kernel", image.kstart, PagesFor(image.kend - image.kstart),
                      "initrd") /\ UNCHANGED tabVars
     \/ Fails(NoLeak)
LoadInitrd ==
  /\ pc = "initrd"
  /\ IF ~image.unmappedInitrd \/ image.initrd = 0 THEN Skip("magic")
     ELSE alloc_segment("initrd", 0, image.initrd, "magic") /\ UNCHANGED tabVars

\* Where the list of the guest's frames is to appear decides what comes first.
p2mFirst == image.p2mBase >= image.base \/ image.p2mBase % PageSize # 0

p2mPages == (image.total + Entries - 1) \div Entries
\* The tables of the list lie behind the list, in the same segment.
P2mMap(m) ==
  [m EXCEPT !.pfn = pend,
            !.levels = [l \in Levels |-> [m.levels[l] EXCEPT !.pfn = @ + p2mPages]]]
alloc_p2m_segment(vstart, next) ==
  LET from == image.p2mBase
      to == from + p2mPages * PageSize - 1
      m == P2mMap(count_page_tables(maps, pend, from, to))
  IN  IF CannotMap(maps, image.total, from, to, pend) THEN Fails(NoLeak)
      ELSE /\ SegmentAt("p2m", vstart, 0, p2mPages + m.pgtables, next)
           /\ IF pc' \in GivenUp THEN TRUE
              ELSE maps' = Append(maps, m) /\ UNCHANGED <<tries, pgend>>

AllocP2mFirst ==
  /\ pc = "magic"
  /\ IF p2mFirst THEN alloc_p2m_segment(vend, "startInfo") ELSE Skip("startInfo")
AllocStartInfo == pc = "startInfo" /\ alloc_page("startInfo", "xenstore")
AllocXenstore == pc = "xenstore" /\ alloc_page("xenstore", "console")
\* evtchn_alloc_unbound comes before the page.
AllocConsole == pc = "console" /\ (alloc_page("console", "tables") \/ Fails(NoLeak))

\* One round of the loop of alloc_page_tables, which assumes a number of pages,
\* counts the tables for that, and is content when they fit.
TryEnd == round_up(vend + tries * PageSize, 2^RoundShift)
Counted == count_page_tables(maps, pend, image.base, TryEnd)
Needed == Counted.pgtables + ExtraPages
Fits == vend + Needed * PageSize <= TryEnd + 1
\* Mutant of NextTry: the tables counted are not taken into account.
NextTryForgetful == ExtraPages
NextTry == Needed
TryTables ==
  /\ pc = "tables"
  /\ IF CannotMap(maps, image.total, image.base, TryEnd, 0) THEN Fails(NoLeak)
     ELSE /\ tries' = NextTry
          /\ IF Fits
             THEN /\ maps' = Append(maps, Counted)
                  /\ pgend' = TryEnd + 1
                  /\ pc' = "tablesAlloc"
             ELSE UNCHANGED <<maps, pgend, pc>>
          /\ UNCHANGED <<image, memVars, p2m, filled, winVars, memory, cr3>>
AllocTables ==
  /\ pc = "tablesAlloc"
  /\ alloc_segment("tables", 0, maps[Len(maps)].pgtables, "stack")
  /\ UNCHANGED tabVars

\* The boot stack, and pages up to the end of what the tables map.
AllocStack ==
  /\ pc = "stack"
  /\ LET pad == (pgend - vend) \div PageSize - 1
     IN  IF NoMorePages(1) \/ pgend < vend + PageSize \/ pgend % PageSize # 0
            \/ NoMorePages(1 + pad)
         THEN Fails(NoLeak)
         ELSE /\ Advance(1, pad)
              /\ Record("stack", vend, 0, 1)
              /\ pc' = "p2mLate"
              /\ UNCHANGED <<image, p2m, filled, tabVars, winVars, memory, cr3>>
AllocP2mLate ==
  /\ pc = "p2mLate"
  /\ IF p2mFirst THEN Skip("evtchn") ELSE alloc_p2m_segment(image.p2mBase, "evtchn")
\* evtchn_alloc_unbound and, in boot_internal, get_domain_info.
AllocEvtchn ==
  /\ pc = "evtchn"
  /\ Skip("setupTables") \/ Fails(NoLeak)
------------------------------------------------------------------------------
(* boot_internal.                                                           *)

\* Entries go through the window of the first table of a level; what the
\* window shows further on are the level's other tables.
Written(l, i, w) ==
  {[frame |-> space[w][maps[i].levels[l].pfn - pages[w].pfn + 1 + e.place \div Entries],
    place |-> e.place % Entries, to |-> p2m[e.pfn], rw |-> e.rw] :
      e \in UNION {EntriesFor(maps, l, i, j) : j \in DOMAIN maps}}
\* A mapping without a table on a level still has its pfn looked up there.
setup_page_tables ==
  /\ pc = "setupTables"
  /\ IF \E l \in Levels, i \in DOMAIN maps : Candidates(maps[i].levels[l].pfn, 0) = {}
     THEN Fails(NoLeak)
     ELSE /\ memory' = UNION {Written(l, i, Window(maps[i].levels[l].pfn, 0)) :
                                l \in Levels, i \in DOMAIN maps}
          /\ pc' = "setupStart"
          /\ UNCHANGED <<image, memVars, p2m, filled, tabVars, winVars, cr3>>

\* The window of the start info page.  A command line beyond the array panics.
setup_start_info ==
  /\ pc = "setupStart"
  /\ LET pfn == segs["startInfo"].pfn
         then == pc' = IF image.longCmdline THEN "panicked" ELSE "hypercall"
     IN  IF OutOfRange(pfn, 1) THEN Fails(NoLeak)
         ELSE IF Candidates(pfn, 1) # {}
         THEN then /\ UNCHANGED <<image, memVars, p2m, filled, tabVars, winVars, memory, cr3>>
         ELSE MapPages(pfn, FramesOf(pfn, 1), then
                /\ UNCHANGED <<image, memVars, p2m, filled, tabVars, memory, cr3>>)
\* An address below the base or behind the last page makes the index panic.
setup_hypercall_page ==
  /\ pc = "hypercall"
  /\ IF image.hypercall = NoHypercall THEN Skip("late")
     ELSE IF \/ image.hypercall < image.base
             \/ image.hypercall >= image.base + image.total * PageSize
     THEN Skip("panicked")
     ELSE Skip("late") \/ Fails(NoLeak)

\* unmap: the first window that starts at the page.
Unmapped(pfn) == Min({a \in Known : pages[a].pfn = pfn})
\* The windows onto the tables and the list go before the tables are pinned; the
\* second munmap may fail when the first did not, and then one of unmap_all's.
bootlate ==
  /\ pc = "late"
  /\ \/ LET gone == {Unmapped(segs["tables"].pfn), Unmapped(segs["p2m"].pfn)}
        IN  /\ pages' = Without(pages, gone)
            /\ space' = Without(space, gone)
            /\ pc' = "shared"
            /\ UNCHANGED <<image, memVars, p2m, filled, tabVars, memory, cr3>>
     \/ /\ GiveUpHalfway(Without(pages, {Unmapped(segs["tables"].pfn)}), NoLeak)
        /\ UNCHANGED <<image, memVars, p2m, filled, tabVars, memory, cr3>>
     \/ Fails(NoLeak)
\* A frame is entered in the list where the others have their pfn.
setup_shared_info ==
  /\ pc = "shared"
  /\ MapPages(SharedInfo, <<SharedInfo>>, pc' = "vcpu"
       /\ UNCHANGED <<image, memVars, p2m, filled, tabVars, memory, cr3>>)
vcpu ==
  /\ pc = "vcpu"
  /\ \/ /\ cr3' = p2m[segs["tables"].pfn]
        /\ pc' = "seed"
        /\ UNCHANGED <<image, memVars, p2m, filled, tabVars, winVars, memory>>
     \/ Fails(NoLeak)
\* The grant table gets a window of its own, and it is the last step: unmap_all
\* follows, a second time if it fails.  The window stays when map_resource fails.
gnttab_seed ==
  /\ pc = "seed"
  /\ \/ /\ pc' = "booted" /\ pages' = <<>> /\ space' = Without(space, Known)
        /\ UNCHANGED <<image, memVars, p2m, filled, tabVars, memory, cr3>>
     \/ Fails(NoLeak)
     \/ Fails(Leak(<<SharedInfo + 1>>))

Next ==
  \/ LoadInitrdEarly \/ ClaimPages \/ PopulateSuperPages \/ PopulateRest \/ MemoryDone
  \/ LoadKernel \/ LoadInitrd \/ AllocP2mFirst \/ AllocStartInfo \/ AllocXenstore
  \/ AllocConsole \/ TryTables \/ AllocTables \/ AllocStack \/ AllocP2mLate
  \/ AllocEvtchn \/ setup_page_tables \/ setup_start_info \/ setup_hypercall_page
  \/ bootlate \/ setup_shared_info \/ vcpu \/ gnttab_seed

Spec == Init /\ [][Next]_vars
\* One task builds the domain, and the calls it waits for return.
FairSpec == Spec /\ WF_vars(Next)
------------------------------------------------------------------------------
(* Properties.                                                              *)

TablesWritten == memory # {}
Holds(frame, place) == {e \in memory : e.frame = frame /\ e.place = place}

\* The pages of a segment, without the tables behind the list.
UsedPages(s) == IF s = "p2m" THEN p2mPages ELSE segs[s].pages

\* What the processor finds for an address: down the levels from cr3.
PlaceOf(addr, l) == ((addr % 2^VirtBits) \div Reach(l)) % Entries
Step(frames, addr, l) == {e.to : e \in UNION {Holds(f, PlaceOf(addr, l)) : f \in frames}}
Walk(top, addr) == Step(Step(Step(Step({top}, addr, 3), addr, 2), addr, 1), addr, 0)

\* No area goes round the end of the address space, as count_page_tables takes
\* for granted.
AreasAreWhole ==
  /\ (image.base % 2^VirtBits) + (pgend - image.base) <= 2^VirtBits
  /\ (image.p2mBase % 2^VirtBits) + p2mPages * PageSize <= 2^VirtBits
\* count_page_tables looks for an overlap too, but compares whole addresses with
\* areas that have lost their upper bits: it finds none in the upper half.
AreasAreApart == maps[1].to < maps[2].from \/ maps[2].to < maps[1].from

\* The kernel gets the addresses it was linked for, however much lies between
\* them and where the allocation begins (alloc_segment, alloc_padding_pages).
\* Padding is counted in pages, so a base amid a page shifts it; a start of 0 asks
\* for none.
KernelIsInPlace ==
  "kernel" \in DOMAIN segs /\ image.kstart > 0 /\ image.base % PageSize = 0 =>
    segs["kernel"].vstart = image.kstart

\* A segment is where the start info, the registers and the kernel's own
\* addresses say: the tables take each of its pages to its frame and to no
\* other (setup_page_tables, count_page_tables, alloc_p2m_segment).  The list
\* of frames may be asked for at any address that is not the kernel's, but not
\* for one behind the kernel's base: then the tables of the kernel have no last
\* level.
SegmentsAreMapped ==
  TablesWritten /\ ~p2mFirst /\ AreasAreWhole /\ AreasAreApart =>
    \A s \in DOMAIN segs :
      \A k \in 0..(UsedPages(s) - 1) :
        Walk(p2m[segs["tables"].pfn], segs[s].vstart + k * PageSize)
          = {p2m[segs[s].pfn + k]}

TableFrames == {e.frame : e \in memory}
\* The frames of the tables of the lowest level.
LeafFrames ==
  UNION {{p2m[maps[i].levels[0].pfn + k] : k \in 0..(maps[i].levels[0].pgtables - 1)} :
           i \in DOMAIN maps}
\* The guest cannot write a page that holds a table, and can write every other
\* (get_pg_prot): Xen refuses to pin tables that are mapped writable.  Areas that
\* are not whole, or begin amid a page, may have a table without any entry: its
\* page is no table's here, and cannot be written either.
TablesAreReadOnly ==
  \A e \in memory : e.frame \in LeafFrames =>
    /\ e.rw => e.to \notin TableFrames
    /\ AreasAreWhole /\ image.base % PageSize = 0 /\ e.to \notin TableFrames => e.rw

\* Pages are handed out once, within the domain's memory, and an address says
\* which page it is (alloc_segment, alloc_page, alloc_padding_pages): vcpu and
\* setup_hypercall_page compute addresses and pages from one another.  No table
\* is in a page that was handed out for something else, the list included.
PagesAreHandedOutOnce ==
  /\ \A s, t \in DOMAIN segs :
       s # t => (segs[s].pfn..(segs[s].pfn + segs[s].pages - 1))
                  \cap (segs[t].pfn..(segs[t].pfn + segs[t].pages - 1)) = {}
  /\ \A s \in DOMAIN segs \ {"tables"} :
       \A k \in 0..(UsedPages(s) - 1) : p2m[segs[s].pfn + k] \notin TableFrames
  /\ \A s \in DOMAIN segs :
       s # "p2m" \/ p2mFirst => segs[s].vstart = image.base + segs[s].pfn * PageSize

\* Every page has a frame of its own (initialize_memory).
FramesAreDistinct ==
  \A m, n \in 0..(filled - 1) : m # n => p2m[m] # p2m[n] /\ p2m[m] # NoFrame

\* A window that is known shows the frames of its pages.  When the domain has
\* booted none is left in this process; when that failed at most the one that
\* was being made, and those that are known if munmap failed (pfn_alloc,
\* map_foreign_pages, gnttab_seed, unmap_all).
WindowsAreAccounted ==
  /\ pc \notin Ended => DOMAIN space = Known
  /\ \A a \in Known \cap DOMAIN space :
       space[a] = IF pages[a].pfn = SharedInfo THEN <<SharedInfo>>
                  ELSE FramesOf(pages[a].pfn, pages[a].count)
  /\ pc = "booted" => DOMAIN space = {}
  /\ pc = "failed" => Known = {} /\ Cardinality(DOMAIN space) <= 1
  /\ pc = "stuck" => Cardinality(DOMAIN space \ Known) <= 1

\* The build ends: the loop of alloc_page_tables finds a number of pages.
BuildEnds == <>(pc \in Ended)
==============================================================================
