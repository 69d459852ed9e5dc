------------------------------ MODULE PageTables ------------------------------
(***************************************************************************)
(* The page tables of a PV guest: which tables an area of virtual memory     *)
(* needs (count_page_tables) and what is written into them                   *)
(* (setup_page_tables, get_pg_prot), of xenplatform/src/x86pv.rs.            *)
(*                                                                          *)
(* A mapping is an area and, for each level, the range of addresses that the *)
(* tables of that level cover, how many tables that takes, and the pfn of     *)
(* the first.  The widths are parameters: 12, 9 and 48 in the code.           *)
(***************************************************************************)
EXTENDS Integers, Sequences, FiniteSetsExt

CONSTANTS PageShift, LevelShift, VirtBits

PageSize == 2^PageShift
Levels == 0..3
MaxMappings == 2
VirtMask == 2^VirtBits - 1

\* The size of what one entry of a table of level l stands for.
Reach(l) == 2^(PageShift + l * LevelShift)
Entries == 2^LevelShift

\* Of powers of two the provers know only what is said here.
ASSUME WidthsAssumption ==
  /\ PageSize \in Nat \ {0, 1} /\ Entries \in Nat \ {0, 1} /\ 2^VirtBits \in Nat \ {0, 1}
  /\ \A l \in Levels : Reach(l) \in Nat \ {0} /\ Reach(l + 1) = Reach(l) * Entries
  /\ Reach(0) = PageSize /\ Reach(4) = 2^VirtBits

round_up(addr, size) == (addr \div size) * size + size - 1
RoundDown(addr, size) == (addr \div size) * size

NoRange == [from |-> 0, to |-> 0]

\* What of the range r the tables of range c do not cover already.
Uncovered(r, c) ==
  IF c.from = c.to THEN r
  ELSE IF r.from >= c.from /\ r.to <= c.to THEN NoRange
  ELSE [from |-> IF r.from \in c.from..c.to THEN c.to + 1 ELSE r.from,
        to   |-> IF r.to \in c.from..c.to THEN c.from - 1 ELSE r.to]

\* The range that the tables of level l cover for an area.  At most one mapping
\* precedes it.  The first has the only table of the last level.
LevelRange(maps, from, to, l) ==
  IF l = 3
  THEN IF maps = <<>> THEN [from |-> 0, to |-> VirtMask] ELSE NoRange
  ELSE LET whole == [from |-> RoundDown(from, Reach(l + 1)),
                     to   |-> round_up(to, Reach(l + 1))]
       IN  IF maps = <<>> THEN whole ELSE Uncovered(whole, maps[1].levels[l])

TableCount(r, l) ==
  IF r.from < r.to THEN (r.to - r.from) \div Reach(l + 1) + 1 ELSE 0

CannotMap(maps, p2mSize, from, to, pfn) ==
  \/ Len(maps) = MaxMappings
  \/ pfn + (to - from) \div PageSize >= p2mSize
  \/ \E i \in DOMAIN maps : from < maps[i].to /\ to > maps[i].from

\* The tables lie one after the other from pfnAllocEnd, the last level first.
count_page_tables(maps, pfnAllocEnd, from, to) ==
  LET start == from % 2^VirtBits
      end == to % 2^VirtBits
      range == [l \in Levels |-> LevelRange(maps, start, end, l)]
      count == [l \in Levels |-> TableCount(range[l], l)]
      above == [l \in Levels |-> CASE l = 3 -> 0 [] l = 2 -> count[3]
                                   [] l = 1 -> count[3] + count[2]
                                   [] l = 0 -> count[3] + count[2] + count[1]]
  IN  [from |-> start, to |-> end, pfn |-> 0,
       pgtables |-> above[0] + count[0],
       levels |-> [l \in Levels |->
         [from |-> range[l].from, to |-> range[l].to, pgtables |-> count[l],
          pfn |-> pfnAllocEnd + above[l]]]]

\* A page that holds a table is not to be written by the guest.
Writable(maps, l, pfn) ==
  l > 0 \/ \A i \in DOMAIN maps :
             pfn \notin maps[i].levels[3].pfn
                          ..(maps[i].levels[3].pfn + maps[i].pgtables - 1)

\* Mutant of Below: pages are counted from the start of the slot, not of the area.
BelowRounded(maps, l, j) ==
  IF l > 0 THEN maps[j].levels[l - 1]
  ELSE [from |-> maps[j].levels[0].from, to |-> maps[j].to, pfn |-> maps[j].pfn,
        pgtables |-> maps[j].pgtables]
\* What the tables of level l of mapping i point to in mapping j: the tables
\* one level below or, from the lowest level, the pages of the area.
Below(maps, l, j) ==
  IF l > 0 THEN maps[j].levels[l - 1]
  ELSE [from |-> maps[j].from, to |-> maps[j].to, pfn |-> maps[j].pfn,
        pgtables |-> maps[j].pgtables]

\* The entries written: the place after the first entry of the level's tables,
\* the page it points to, and whether that may be written.
EntriesFor(maps, l, i, j) ==
  LET t == maps[i].levels[l]
      b == Below(maps, l, j)
      low == IF t.from > b.from THEN t.from ELSE b.from
      high == IF t.to < b.to THEN t.to ELSE b.to
      first == (low - t.from) \div Reach(l)
      pfn == (low - b.from) \div Reach(l) + b.pfn
  IN  IF (l > 0 /\ b.pgtables = 0) \/ b.from >= t.to \/ b.to <= t.from
      THEN {}
      ELSE {[place |-> p, pfn |-> pfn + p - first,
             rw |-> Writable(maps, l, pfn + p - first)] :
              p \in first..((high - t.from) \div Reach(l))}
==============================================================================
