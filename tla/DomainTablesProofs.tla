--------------------------- MODULE DomainTablesProofs --------------------------
(***************************************************************************)
(* The page tables of MCDomainBuild, proved for every kernel and domain that   *)
(* meet the assumptions of PageTables, DomainBuild and MCDomainBuild.  It      *)
(* builds on DomainBuildProofs, whose BuildInv says where segments, windows    *)
(* and tables lie.                                                           *)
(*                                                                          *)
(* An address is looked at in blocks: a block of level l is what one entry of *)
(* level l stands for, so that the number of a block, divided by the entries   *)
(* of a table, is the block of the level above.  MapInv says that the areas    *)
(* counted are the kernel's and the list's, that their tables are laid out as  *)
(* counted, and that the memory has their entries and nothing else.  From it   *)
(* follow what a walk down the levels finds (SegmentsFound) and which entries  *)
(* may be written (ReadOnly); the last part proves that every step keeps it.   *)
(***************************************************************************)
EXTENDS DomainBuildProofs

------------------------------------------------------------------------------
(* Quotients.                                                               *)

\* There is one quotient and one remainder.
LEMMA DivIs ==
    ASSUME NEW d \in Nat \ {0}, NEW q \in Nat, NEW r \in 0..(d - 1), NEW n, n = d * q + r
    PROVE  n \in Nat /\ n \div d = q /\ n % d = r
<1> DEFINE p == n \div d
           s == n % d
<1>1. n \in Nat
  <2>1. d * q \in Nat
    OBVIOUS
  <2> QED BY <2>1
<1>2. p \in Nat /\ s \in 0..(d - 1) /\ n = d * p + s
  BY <1>1, Parts
<1> HIDE DEF p, s
<1>3. d * p \in Nat /\ d * q \in Nat
  BY <1>2
<1>4. p = q
  <2>1. ASSUME p < q PROVE FALSE
    <3>1. d * p + d <= d * q
      BY <1>2, <2>1, MulGrows
    <3> QED BY <1>2, <1>3, <3>1
  <2>2. ASSUME q < p PROVE FALSE
    <3>1. d * q + d <= d * p
      BY <1>2, <2>2, MulGrows
    <3> QED BY <1>2, <1>3, <3>1
  <2> QED BY <1>2, <2>1, <2>2
<1>5. s = r
  BY <1>2, <1>3, <1>4
<1> QED BY <1>1, <1>4, <1>5 DEF p, s

\* A number lies in the blocks a to b when its quotient does.
LEMMA Between ==
    ASSUME NEW d \in Nat \ {0}, NEW n \in Nat, NEW a \in Nat, NEW b \in Nat
    PROVE  /\ d * a <= n <=> a <= n \div d
           /\ n <= d * (b + 1) - 1 <=> n \div d <= b
<1> DEFINE p == n \div d
           s == n % d
<1>1. p \in Nat /\ s \in 0..(d - 1) /\ n = d * p + s
  BY Parts
<1> HIDE DEF p, s
<1>2. d * p \in Nat /\ d * a \in Nat /\ d * b \in Nat /\ d * (b + 1) = d * b + d
  BY <1>1
<1>3. a <= p => d * a <= d * p
  BY <1>1, MulGrows
<1>4. p < a => d * p + d <= d * a
  BY <1>1, MulGrows
<1>5. p <= b => d * p <= d * b
  BY <1>1, MulGrows
<1>6. b < p => d * b + d <= d * p
  BY <1>1, MulGrows
<1> QED BY <1>1, <1>2, <1>3, <1>4, <1>5, <1>6 DEF p

LEMMA DivTwiceIs ==
    ASSUME NEW n \in Nat, NEW c \in Nat \ {0}, NEW d \in Nat \ {0}
    PROVE  (n \div c) \div d = n \div (c * d)
<1> DEFINE p == n \div c
           s == n % c
           q == p \div d
           t == p % d
           r == c * t + s
<1>1. p \in Nat /\ s \in 0..(c - 1) /\ n = c * p + s
  BY Parts
<1>2. q \in Nat /\ t \in 0..(d - 1) /\ p = d * q + t
  BY <1>1, Parts
<1> HIDE DEF p, s, q, t
<1>3. c * p = (c * d) * q + c * t
  <2>1. c * p = c * (d * q + t) /\ d * q \in Nat
    BY <1>2
  <2>2. c * (d * q + t) = c * (d * q) + c * t
    BY <1>2
  <2>3. c * (d * q) = (c * d) * q
    BY <1>2
  <2> QED BY <2>1, <2>2, <2>3
<1>4. c * d \in Nat \ {0} /\ (c * d) * q \in Nat /\ c * t \in Nat
  BY <1>2
<1>5. r \in 0..(c * d - 1)
  <2>1. c * t + c <= c * d
    BY <1>2, MulGrows
  <2> QED BY <1>1, <1>4, <2>1
<1>6. n = (c * d) * q + r
  BY <1>1, <1>3, <1>4
<1> HIDE DEF r
<1>7. PICK e \in Nat \ {0} : e = c * d
  BY <1>4
<1>8. n \div e = q
  BY <1>2, <1>5, <1>6, <1>7, DivIs
<1> QED BY <1>7, <1>8 DEF q, p

\* What is behind the first k blocks.
LEMMA DivShift ==
    ASSUME NEW d \in Nat \ {0}, NEW n \in Nat, NEW k \in Nat, d * k <= n
    PROVE  /\ n - d * k \in Nat /\ k <= n \div d
           /\ (n - d * k) \div d = n \div d - k /\ (n - d * k) % d = n % d
<1> DEFINE p == n \div d
           s == n % d
           m == n - d * k
<1>1. p \in Nat /\ s \in 0..(d - 1) /\ n = d * p + s
  BY Parts
<1>2. k <= p
  BY AtMost
<1> HIDE DEF p, s
<1>3. p - k \in Nat /\ d * (p - k) = d * p - d * k /\ d * p \in Nat /\ d * k \in Nat
  BY <1>1, <1>2
<1>4. m = d * (p - k) + s
  BY <1>1, <1>3
<1> HIDE DEF m
<1>5. m \in Nat /\ m \div d = p - k /\ m % d = s
  BY <1>1, <1>3, <1>4, DivIs, Zenon
<1> QED BY <1>2, <1>5 DEF m, p, s

\* A distance is divided into no more than lies between the quotients.
LEMMA DivLess ==
    ASSUME NEW d \in Nat \ {0}, NEW m \in Nat, NEW n \in Nat, m <= n
    PROVE  (n - m) \div d \in Nat /\ (n - m) \div d <= n \div d - m \div d
<1> DEFINE p == n \div d
           s == n % d
           q == m \div d
           t == m % d
           k == (n - m) \div d
           u == (n - m) % d
<1>1. p \in Nat /\ s \in 0..(d - 1) /\ n = d * p + s
  BY Parts
<1>2. q \in Nat /\ t \in 0..(d - 1) /\ m = d * q + t
  BY Parts
<1>3. k \in Nat /\ u \in 0..(d - 1) /\ n - m = d * k + u
  <2>1. n - m \in Nat
    OBVIOUS
  <2> QED BY <2>1, Parts
<1> HIDE DEF p, s, q, t, k, u
<1>4. d * p \in Nat /\ d * q \in Nat /\ d * k \in Nat
  BY <1>1, <1>2, <1>3
<1>5. ASSUME p - q < k PROVE FALSE
  <2>1. p < q + k /\ q + k \in Nat
    BY <1>1, <1>2, <1>3, <1>5
  <2>2. d * p + d <= d * (q + k)
    BY <1>1, <2>1, MulGrows
  <2>3. d * (q + k) = d * q + d * k
    BY <1>2, <1>3
  <2> QED BY <1>1, <1>2, <1>3, <1>4, <2>2, <2>3
<1> QED BY <1>1, <1>2, <1>3, <1>5 DEF p, q, k

------------------------------------------------------------------------------
(* Where the tables lie, and what is written into them.                     *)

\* A level's region in blocks of what one entry stands for: a block is a table
\* one level below or, on the lowest, a page.
Region(l, j) == Below(maps, l, j)
First(l, j) == Region(l, j).from \div Reach(l)
Last(l, j) == Region(l, j).to \div Reach(l)
Blocks(l, j) == IF l > 0 /\ Region(l, j).pgtables = 0 THEN {} ELSE First(l, j)..Last(l, j)
\* The page of a block
PageOf(l, j, n) == Region(l, j).pfn + n - First(l, j)

\* The tables of a mapping are those counted for its area.
Laid(ms, m) ==
  LET c == count_page_tables(ms, m.levels[3].pfn, m.from, m.to)
  IN  /\ m.from \in 0..VirtMask /\ m.to \in 0..VirtMask
      /\ m.levels = c.levels /\ m.pgtables = c.pgtables
InMemory(m) ==
  m.from \div PageSize <= m.to \div PageSize =>
    m.pfn + (m.to \div PageSize - m.from \div PageSize) < image.total
LaidInv ==
  /\ \A i \in DOMAIN maps : Laid(IF i = 1 THEN <<>> ELSE <<maps[1]>>, maps[i])
  /\ \A i \in DOMAIN maps : InMemory(maps[i])
  /\ Len(maps) = 2 =>
       maps[1].levels[3].pfn + maps[1].pgtables <= maps[2].levels[3].pfn

\* The steps at which all areas are there, or they have been written
Settled == \/ pc \in {"evtchn", "setupTables"} \cup (Tabled \ GivenUp)
           \/ memory # {}
\* The steps at which the kernel's tables have their place
Placed == pc \in {"stack", "p2mLate"} \/ Settled

\* The mapping of the list and that of the kernel
ListAt == IF p2mFirst THEN 1 ELSE 2
KernelAt == IF p2mFirst THEN 2 ELSE 1
\* Which areas are counted at a step
CountsInv ==
  /\ pc \in Early \cup {"kernel", "initrd", "magic"} => maps = <<>>
  /\ pc \in {"startInfo", "xenstore", "console", "tables"} => Len(maps) = KernelAt - 1
  /\ pc \in {"tablesAlloc", "stack", "p2mLate"} => Len(maps) = KernelAt
  /\ Settled => Len(maps) = 2
\* What they are: the kernel's from its base to the end of what is handed out, and
\* the list
RangesInv ==
  /\ KernelAt \in DOMAIN maps =>
       /\ pgend > image.base + 1 /\ pgend % PageSize = 0
       /\ maps[KernelAt].from = image.base % 2^VirtBits
       /\ maps[KernelAt].to = (pgend - 1) % 2^VirtBits
       /\ maps[KernelAt].pfn = 0
  /\ ListAt \in DOMAIN maps =>
       /\ p2mPages > 0
       /\ maps[ListAt].from = image.p2mBase % 2^VirtBits
       /\ maps[ListAt].to = (image.p2mBase + p2mPages * PageSize - 1) % 2^VirtBits
\* The segments lie where the areas say.
PlacesInv ==
  /\ Placed => /\ "tables" \in DOMAIN segs
               /\ segs["tables"].pfn = maps[KernelAt].levels[3].pfn
  /\ pc = "p2mLate" => image.base + pend * PageSize <= pgend
  /\ Settled => \A s \in DOMAIN segs \ {"p2m"} :
                  image.base + (segs[s].pfn + segs[s].pages) * PageSize <= pgend
  /\ Settled /\ ~p2mFirst => /\ "p2m" \in DOMAIN segs
                             /\ segs["p2m"].vstart = image.p2mBase
                             /\ segs["p2m"].pfn = maps[2].pfn
AreasInv == CountsInv /\ RangesInv /\ PlacesInv

\* What an entry is in memory
Entry(l, i, x) ==
  [frame |-> p2m[maps[i].levels[l].pfn + x.place \div Entries],
   place |-> x.place % Entries, to |-> p2m[x.pfn], rw |-> x.rw]
EntriesInv ==
  memory # {} =>
    /\ \A i \in DOMAIN maps : maps[i].levels[3].pfn + maps[i].pgtables <= image.total
    /\ \A l \in Levels : \A i, j \in DOMAIN maps : \A x \in EntriesFor(maps, l, i, j) :
         Entry(l, i, x) \in memory
    /\ \A e \in memory : \E l \in Levels : \E i, j \in DOMAIN maps :
         \E x \in EntriesFor(maps, l, i, j) : e = Entry(l, i, x)

ValuesInv == DOMAIN p2m = Pfns /\ (\A n \in Pfns : p2m[n] \in Int) /\ cr3 \in Int
MapInv == LaidInv /\ AreasInv /\ EntriesInv /\ ValuesInv

------------------------------------------------------------------------------
(* The regions of the levels.                                               *)

\* A range that is the blocks a to b of size R
Spans(r, R, a, b) == /\ a \in Nat /\ b \in Nat /\ a <= b
                     /\ r.from = R * a /\ r.to = R * (b + 1) - 1

LEMMA SpanOf ==
    ASSUME NEW r, NEW R \in Nat \ {0, 1}, NEW a, NEW b, Spans(r, R, a, b)
    PROVE  /\ r.from \in Nat /\ r.to \in Nat /\ r.from < r.to
           /\ r.from \div R = a /\ r.to \div R = b
           /\ (r.to - r.from) \div R + 1 = b - a + 1
<1>1. a \in Nat /\ b \in Nat /\ a <= b /\ r.from = R * a /\ r.to = R * (b + 1) - 1
  BY DEF Spans
<1>2. R * a \in Nat /\ R * b \in Nat /\ R * (b + 1) = R * b + R
  BY <1>1
<1>3. R * a <= R * b
  BY <1>1, MulGrows
<1>4. r.from = R * a + 0 /\ r.to = R * b + (R - 1) /\ 0 \in 0..(R - 1) /\ R - 1 \in 0..(R - 1)
  BY <1>1, <1>2
<1>5. r.from \div R = a /\ r.to \div R = b /\ r.from \in Nat /\ r.to \in Nat
  <2>1. PICK m : m = r.from
    OBVIOUS
  <2>2. m \in Nat /\ m \div R = a
    BY <1>1, <1>4, <2>1, DivIs
  <2>3. PICK n : n = r.to
    OBVIOUS
  <2>4. n \in Nat /\ n \div R = b
    <3>1. PICK e \in 0..(R - 1) : n = R * b + e
      BY <1>4, <2>3
    <3> QED BY <1>1, <3>1, DivIs
  <2> QED BY <2>1, <2>2, <2>3, <2>4
<1>6. r.to - r.from = R * (b - a) + (R - 1) /\ b - a \in Nat
  BY <1>1, <1>2
<1>7. (r.to - r.from) \div R = b - a
  <2>1. PICK n : n = r.to - r.from
    OBVIOUS
  <2> QED BY <1>4, <1>6, <2>1, DivIs
<1> QED BY <1>1, <1>2, <1>3, <1>4, <1>5, <1>7

\* The blocks of a whole area
LEMMA WholeSpans ==
    ASSUME NEW R \in Nat \ {0, 1}, NEW from \in Nat, NEW to \in Nat, from \div R <= to \div R
    PROVE  Spans([from |-> RoundDown(from, R), to |-> round_up(to, R)], R,
                 from \div R, to \div R)
<1>1. PICK p \in Nat, q \in Nat : p = from \div R /\ q = to \div R
  BY Parts
<1>2. RoundDown(from, R) = p * R /\ round_up(to, R) = q * R + R - 1
  BY <1>1 DEF RoundDown, round_up
<1>3. p * R = R * p /\ q * R + R = R * (q + 1) /\ q * R \in Nat
  BY <1>1
<1> QED BY <1>1, <1>2, <1>3 DEF Spans

\* What Uncovered leaves of the blocks p to q when c has the blocks a to b
LEMMA UncoveredSpans ==
    ASSUME NEW R \in Nat \ {0, 1}, NEW r, NEW c, NEW p, NEW q, NEW a, NEW b,
           Spans(r, R, p, q), Spans(c, R, a, b)
    PROVE  LET u == Uncovered(r, c)
           IN  \/ a <= p /\ q <= b /\ u = NoRange
               \/ \E x, y \in Nat :
                    /\ Spans(u, R, x, y) /\ p <= x /\ y <= q
                    /\ \A n \in p..q : n \in x..y \/ n \in a..b
                    /\ (p < a /\ b < q) \/ (\A n \in x..y : n \notin a..b)
<1> DEFINE u == Uncovered(r, c)
<1>1. /\ a \in Nat /\ b \in Nat /\ a <= b /\ c.from = R * a /\ c.to = R * (b + 1) - 1
      /\ p \in Nat /\ q \in Nat /\ p <= q /\ r.from = R * p /\ r.to = R * (q + 1) - 1
  BY DEF Spans
<1>2. c.from # c.to
  BY SpanOf
<1>3. \A x, y \in Nat : /\ (R * x <= R * y <=> x <= y)
                        /\ (R * x <= R * (y + 1) - 1 <=> x <= y)
                        /\ (R * (x + 1) - 1 <= R * (y + 1) - 1 <=> x <= y)
                        /\ (R * x <= R * (y + 1) - 1 <=> x <= y)
                        /\ (R * (x + 1) - 1 < R * y <=> x < y)
                        /\ R * x \in Nat /\ R * (x + 1) - 1 \in Nat
  <2> SUFFICES ASSUME NEW x \in Nat, NEW y \in Nat
               PROVE  /\ (R * x <= R * y <=> x <= y)
                      /\ (R * x <= R * (y + 1) - 1 <=> x <= y)
                      /\ (R * (x + 1) - 1 <= R * (y + 1) - 1 <=> x <= y)
                      /\ (R * x <= R * (y + 1) - 1 <=> x <= y)
                      /\ (R * (x + 1) - 1 < R * y <=> x < y)
                      /\ R * x \in Nat /\ R * (x + 1) - 1 \in Nat
    OBVIOUS
  <2>1. R * x \in Nat /\ R * y \in Nat /\ R * (x + 1) = R * x + R /\ R * (y + 1) = R * y + R
    OBVIOUS
  <2>2. (x <= y => R * x <= R * y) /\ (y < x => R * y + R <= R * x)
        /\ (x < y => R * x + R <= R * y)
    BY MulGrows
  <2> QED BY <2>1, <2>2
<1>4. /\ r.from >= c.from <=> a <= p
      /\ r.to <= c.to <=> q <= b
      /\ r.from \in c.from..c.to <=> p \in a..b
      /\ r.to \in c.from..c.to <=> q \in a..b
  <2>1. c.from \in Nat /\ c.to \in Nat /\ r.from \in Nat /\ r.to \in Nat
    BY <1>1, <1>3
  <2>2. (r.from >= c.from <=> a <= p) /\ (r.to <= c.to <=> q <= b)
        /\ (r.from <= c.to <=> p <= b)
    BY <1>1, <1>3
  <2>3. r.to >= c.from <=> a <= q
    BY <1>1, <1>3
  <2> QED BY <1>1, <2>1, <2>2, <2>3
<1>5. u = IF a <= p /\ q <= b THEN NoRange
          ELSE [from |-> IF p \in a..b THEN c.to + 1 ELSE r.from,
                to   |-> IF q \in a..b THEN c.from - 1 ELSE r.to]
  BY <1>2, <1>4 DEF Uncovered
<1> HIDE DEF u
<1>6. CASE a <= p /\ q <= b
  BY <1>5, <1>6 DEF u
<1>7. CASE ~(a <= p /\ q <= b)
  <2> DEFINE x == IF p \in a..b THEN b + 1 ELSE p
             y == IF q \in a..b THEN a - 1 ELSE q
  <2>1. x \in Nat /\ y \in Nat /\ x <= y /\ p <= x /\ y <= q
    BY <1>1, <1>7
  <2>2. u.from = R * x
    <3>1. u.from = IF p \in a..b THEN c.to + 1 ELSE r.from
      BY <1>5, <1>7
    <3>2. c.to + 1 = R * (b + 1)
      BY <1>1, <1>3
    <3> QED BY <1>1, <3>1, <3>2
  <2>3. u.to = R * (y + 1) - 1
    <3>1. u.to = IF q \in a..b THEN c.from - 1 ELSE r.to
      BY <1>5, <1>7
    <3>2. c.from - 1 = R * ((a - 1) + 1) - 1
      BY <1>1, <1>3
    <3> QED BY <1>1, <3>1, <3>2
  <2>4. \A n \in p..q : n \in x..y \/ n \in a..b
    BY <1>1, <1>7
  <2>5. (p < a /\ b < q) \/ (\A n \in x..y : n \notin a..b)
    BY <1>1, <1>7
  <2>6. Spans(u, R, x, y)
    BY <2>1, <2>2, <2>3 DEF Spans
  <2> HIDE DEF x, y
  <2> QED BY <2>1, <2>4, <2>5, <2>6 DEF u
<1> QED BY <1>6, <1>7

\* Sizes of blocks grow; the largest is the address space.
LEMMA Sizes ==
    ASSUME NEW l \in 0..4
    PROVE  Reach(l) \in Nat \ {0, 1}
<1>1. CASE l = 0
  BY <1>1, WidthsAssumption
<1>2. CASE l # 0
  <2>1. PICK k \in Levels : l = k + 1
    BY <1>2 DEF Levels
  <2> QED BY <2>1, Reaches
<1> QED BY <1>1, <1>2

LEMMA InSpace ==
    ASSUME NEW n \in 0..VirtMask
    PROVE  n \in Nat /\ n % 2^VirtBits = n /\ n \div 2^VirtBits = 0
<1> DEFINE V == 2^VirtBits
<1>1. V \in Nat \ {0} /\ VirtMask = V - 1
  BY WidthsAssumption DEF VirtMask
<1> HIDE DEF V
<1>2. n = V * 0 + n /\ n \in 0..(V - 1) /\ 0 \in Nat
  BY <1>1
<1>3. n \in Nat /\ n % V = n /\ n \div V = 0
  BY <1>1, <1>2, DivIs
<1> QED BY <1>3 DEF V

\* The counts of a mapping and how far its tables lie behind its first.
CountIn(ms, m) == [l \in Levels |-> TableCount(LevelRange(ms, m.from, m.to, l), l)]
StackOf(count) ==
  [l \in Levels |-> CASE l = 3 -> 0 [] l = 2 -> count[3] [] l = 1 -> count[3] + count[2]
                      [] l = 0 -> count[3] + count[2] + count[1]]
AboveIn(ms, m) == StackOf(CountIn(ms, m))

LEMMA LaidIs ==
    ASSUME NEW ms, NEW m, Laid(ms, m)
    PROVE  /\ m.pgtables = AboveIn(ms, m)[0] + CountIn(ms, m)[0]
           /\ \A l \in Levels :
                /\ m.levels[l].from = LevelRange(ms, m.from, m.to, l).from
                /\ m.levels[l].to = LevelRange(ms, m.from, m.to, l).to
                /\ m.levels[l].pgtables = CountIn(ms, m)[l]
                /\ m.levels[l].pfn = m.levels[3].pfn + AboveIn(ms, m)[l]
<1> DEFINE at == m.levels[3].pfn
           c == count_page_tables(ms, at, m.from, m.to)
           start_ == m.from % 2^VirtBits
           end_ == m.to % 2^VirtBits
           range == [l \in Levels |-> LevelRange(ms, start_, end_, l)]
           count == [l \in Levels |-> TableCount(range[l], l)]
           above == StackOf(count)
<1>1. m.levels = c.levels /\ m.pgtables = c.pgtables
  BY DEF Laid
<1>2. c = [from |-> start_, to |-> end_, pfn |-> 0, pgtables |-> above[0] + count[0],
           levels |-> [l \in Levels |->
             [from |-> range[l].from, to |-> range[l].to, pgtables |-> count[l],
              pfn |-> at + above[l]]]]
  BY DEF count_page_tables, StackOf
<1>3. start_ = m.from /\ end_ = m.to
  BY InSpace DEF Laid
<1>4. Levels = {0, 1, 2, 3}
  BY DEF Levels
<1> HIDE DEF c, start_, end_, at
<1>5. range = [l \in Levels |-> LevelRange(ms, m.from, m.to, l)]
  BY <1>3
<1>6. count = CountIn(ms, m)
  BY <1>5 DEF CountIn
<1> HIDE DEF count
<1>7. above = AboveIn(ms, m)
  BY <1>6 DEF AboveIn
<1> HIDE DEF above
<1>8. m.pgtables = AboveIn(ms, m)[0] + CountIn(ms, m)[0]
  BY <1>1, <1>2, <1>6, <1>7
<1>9. ASSUME NEW l \in Levels
      PROVE  /\ m.levels[l].from = LevelRange(ms, m.from, m.to, l).from
             /\ m.levels[l].to = LevelRange(ms, m.from, m.to, l).to
             /\ m.levels[l].pgtables = CountIn(ms, m)[l]
             /\ m.levels[l].pfn = m.levels[3].pfn + AboveIn(ms, m)[l]
  <2>1. range[l] = LevelRange(ms, m.from, m.to, l)
    BY <1>5
  <2> HIDE DEF range
  <2>2. /\ m.levels[l].from = range[l].from /\ m.levels[l].to = range[l].to
        /\ m.levels[l].pgtables = count[l] /\ m.levels[l].pfn = at + above[l]
    BY <1>1, <1>2
  <2> QED BY <1>6, <1>7, <2>1, <2>2 DEF at
<1> QED BY <1>8, <1>9

\* The tables of the levels lie one behind the other, the last level first.
LEMMA LaidStack ==
    ASSUME NEW ms, NEW m \in MappingType, Laid(ms, m)
    PROVE  /\ m.levels[2].pfn = m.levels[3].pfn + m.levels[3].pgtables
           /\ m.levels[1].pfn = m.levels[2].pfn + m.levels[2].pgtables
           /\ m.levels[0].pfn = m.levels[1].pfn + m.levels[1].pgtables
           /\ m.levels[3].pfn + m.pgtables = m.levels[0].pfn + m.levels[0].pgtables
<1> DEFINE count == CountIn(ms, m)
           above == AboveIn(ms, m)
<1>1. Levels = {0, 1, 2, 3}
  BY DEF Levels
<1>2. \A l \in Levels : m.levels[l].pgtables = count[l]
  BY LaidIs
<1>3. \A l \in Levels : m.levels[l].pfn = m.levels[3].pfn + above[l]
  BY LaidIs
<1>4. m.pgtables = above[0] + count[0]
  BY LaidIs
<1>5. /\ above[3] = 0 /\ above[2] = count[3] /\ above[1] = count[3] + count[2]
      /\ above[0] = count[3] + count[2] + count[1]
  BY <1>1 DEF AboveIn, StackOf
<1> HIDE DEF count, above
<1>6. \A l \in Levels : m.levels[l].pfn \in Nat /\ m.levels[l].pgtables \in Nat
  BY DEF MappingType
<1>7. /\ count[0] \in Nat /\ count[1] \in Nat /\ count[2] \in Nat /\ count[3] \in Nat
      /\ m.levels[3].pfn \in Nat
  BY <1>1, <1>2, <1>6
<1> QED BY <1>1, <1>2, <1>3, <1>4, <1>5, <1>7

LEMMA CountOfSpan ==
    ASSUME NEW l \in Levels, NEW r, NEW a, NEW b, Spans(r, Reach(l + 1), a, b)
    PROVE  TableCount(r, l) = b - a + 1
<1>1. r.from < r.to /\ (r.to - r.from) \div Reach(l + 1) + 1 = b - a + 1
  BY Reaches, SpanOf
<1> QED BY <1>1 DEF TableCount

\* The first mapping has tables for all of its area.
LEMMA FirstSpans ==
    ASSUME NEW m, Laid(<<>>, m), m.from <= m.to, NEW l \in Levels
    PROVE  LET R == Reach(l + 1)
           IN  /\ Spans(m.levels[l], R, m.from \div R, m.to \div R)
               /\ m.levels[l].pgtables = m.to \div R - m.from \div R + 1
<1> DEFINE R == Reach(l + 1)
           r == LevelRange(<<>>, m.from, m.to, l)
<1>1. R \in Nat \ {0, 1}
  BY Reaches
<1>2. m.from \in 0..VirtMask /\ m.to \in 0..VirtMask
  BY DEF Laid
<1>3. m.from \in Nat /\ m.to \in Nat
  BY <1>2, InSpace
<1>4. Spans(r, R, m.from \div R, m.to \div R)
  <2>1. CASE l = 3
    <3>1. R = 2^VirtBits /\ r = [from |-> 0, to |-> VirtMask]
      BY <2>1, WidthsAssumption DEF LevelRange
    <3>2. m.from \div R = 0 /\ m.to \div R = 0
      BY <1>2, <3>1, InSpace
    <3>3. r.from = R * 0 /\ r.to = R * (0 + 1) - 1
      BY <1>1, <3>1 DEF VirtMask
    <3> HIDE DEF r, R
    <3> QED BY <3>2, <3>3 DEF Spans
  <2>2. CASE l # 3
    <3>1. r = [from |-> RoundDown(m.from, R), to |-> round_up(m.to, R)]
      BY <2>2 DEF LevelRange
    <3>2. m.from \div R <= m.to \div R
      BY <1>1, <1>3, DivGrows
    <3> HIDE DEF r, R
    <3> QED BY <1>1, <1>3, <3>1, <3>2, WholeSpans
  <2> QED BY <2>1, <2>2
<1>5. /\ m.levels[l].from = r.from /\ m.levels[l].to = r.to
      /\ m.levels[l].pgtables = TableCount(r, l)
  <2>1. CountIn(<<>>, m)[l] = TableCount(r, l)
    BY DEF CountIn
  <2>2. /\ m.levels[l].from = r.from /\ m.levels[l].to = r.to
        /\ m.levels[l].pgtables = CountIn(<<>>, m)[l]
    BY LaidIs
  <2> QED BY <2>1, <2>2
<1>6. TableCount(r, l) = m.to \div R - m.from \div R + 1
  <2>1. PICK a, b : a = m.from \div R /\ b = m.to \div R
    OBVIOUS
  <2> HIDE DEF r
  <2> QED BY <1>4, <2>1, CountOfSpan
<1> HIDE DEF r, R
<1>7. Spans(m.levels[l], R, m.from \div R, m.to \div R)
  BY <1>4, <1>5 DEF Spans
<1> QED BY <1>5, <1>6, <1>7 DEF R

\* The second has tables for what the first leaves.
LEMMA SecondSpans ==
    ASSUME NEW o, Laid(<<>>, o), o.from <= o.to,
           NEW m, Laid(<<o>>, m), m.from <= m.to, NEW l \in Levels
    PROVE  LET R == Reach(l + 1)
               p == m.from \div R
               q == m.to \div R
               a == o.from \div R
               b == o.to \div R
           IN  \/ /\ a <= p /\ q <= b /\ m.levels[l].pgtables = 0
                  /\ m.levels[l].from = 0 /\ m.levels[l].to = 0
               \/ \E x, y \in Nat :
                    /\ Spans(m.levels[l], R, x, y) /\ m.levels[l].pgtables = y - x + 1
                    /\ p <= x /\ y <= q
                    /\ \A n \in p..q : n \in x..y \/ n \in a..b
                    /\ (p < a /\ b < q) \/ (\A n \in x..y : n \notin a..b)
<1> DEFINE R == Reach(l + 1)
           r == LevelRange(<<o>>, m.from, m.to, l)
           p == m.from \div R
           q == m.to \div R
           a == o.from \div R
           b == o.to \div R
<1>1. R \in Nat \ {0, 1}
  BY Reaches
<1>2. /\ m.from \in 0..VirtMask /\ m.to \in 0..VirtMask
      /\ o.from \in 0..VirtMask /\ o.to \in 0..VirtMask
  BY DEF Laid
<1>3. m.from \in Nat /\ m.to \in Nat
  BY <1>2, InSpace
<1>4. /\ m.levels[l].from = r.from /\ m.levels[l].to = r.to
      /\ m.levels[l].pgtables = TableCount(r, l)
  <2>1. CountIn(<<o>>, m)[l] = TableCount(r, l)
    BY DEF CountIn
  <2>2. /\ m.levels[l].from = r.from /\ m.levels[l].to = r.to
        /\ m.levels[l].pgtables = CountIn(<<o>>, m)[l]
    BY LaidIs
  <2> QED BY <2>1, <2>2
<1>5. <<o>> # <<>> /\ <<o>>[1] = o
  OBVIOUS
<1>6. r = NoRange /\ a <= p /\ q <= b =>
        /\ m.levels[l].pgtables = 0 /\ m.levels[l].from = 0 /\ m.levels[l].to = 0
  <2> HIDE DEF r
  <2> QED BY <1>4 DEF TableCount, NoRange
<1>7. CASE l = 3
  <2>1. R = 2^VirtBits /\ r = NoRange
    BY <1>5, <1>7, WidthsAssumption DEF LevelRange
  <2>2. a = 0 /\ b = 0 /\ p = 0 /\ q = 0
    BY <1>2, <2>1, InSpace
  <2> QED BY <1>6, <2>1, <2>2
<1>8. CASE l # 3
  <2> DEFINE w == [from |-> RoundDown(m.from, R), to |-> round_up(m.to, R)]
  <2>1. r = Uncovered(w, o.levels[l])
    BY <1>5, <1>8 DEF LevelRange
  <2>2. p <= q
    BY <1>1, <1>3, DivGrows
  <2>3. Spans(w, R, p, q)
    BY <1>1, <1>3, <2>2, WholeSpans
  <2>4. Spans(o.levels[l], R, a, b)
    BY FirstSpans
  <2> HIDE DEF r, w, R, p, q, a, b
  <2>5. \/ a <= p /\ q <= b /\ r = NoRange
        \/ \E x, y \in Nat :
             /\ Spans(r, R, x, y) /\ p <= x /\ y <= q
             /\ \A n \in p..q : n \in x..y \/ n \in a..b
             /\ (p < a /\ b < q) \/ (\A n \in x..y : n \notin a..b)
    <3>1. PICK c : c = o.levels[l]
      OBVIOUS
    <3> QED BY <1>1, <2>1, <2>3, <2>4, <3>1, UncoveredSpans
  <2>6. CASE a <= p /\ q <= b /\ r = NoRange
    BY <1>6, <2>6 DEF R, a, b, p, q
  <2>7. ASSUME NEW x \in Nat, NEW y \in Nat, Spans(r, R, x, y)
        PROVE  Spans(m.levels[l], R, x, y) /\ m.levels[l].pgtables = y - x + 1
    <3>1. TableCount(r, l) = y - x + 1
      BY <2>7, CountOfSpan DEF R
    <3>2. Spans(m.levels[l], R, x, y)
      BY <1>4, <2>7 DEF Spans
    <3> QED BY <1>4, <3>1, <3>2
  <2>8. CASE \E x, y \in Nat :
               /\ Spans(r, R, x, y) /\ p <= x /\ y <= q
               /\ \A n \in p..q : n \in x..y \/ n \in a..b
               /\ (p < a /\ b < q) \/ (\A n \in x..y : n \notin a..b)
    <3>1. \E x, y \in Nat :
            /\ Spans(m.levels[l], R, x, y) /\ m.levels[l].pgtables = y - x + 1
            /\ p <= x /\ y <= q
            /\ \A n \in p..q : n \in x..y \/ n \in a..b
            /\ (p < a /\ b < q) \/ (\A n \in x..y : n \notin a..b)
      BY <2>7, <2>8
    <3> QED BY <3>1 DEF R, p, q, a, b
  <2> QED BY <2>5, <2>6, <2>8
<1> QED BY <1>7, <1>8

------------------------------------------------------------------------------
(* The blocks of both mappings.                                             *)

\* Both areas are there,
MapsOK == maps \in Seq(MappingType) /\ Len(maps) = 2 /\ LaidInv
\* and each goes from a lower to a higher address.
AreasOK == MapsOK /\ \A j \in DOMAIN maps : maps[j].from < maps[j].to

LEMMA BothMaps ==
    ASSUME MapsOK
    PROVE  /\ DOMAIN maps = {1, 2}
           /\ Laid(<<>>, maps[1]) /\ Laid(<<maps[1]>>, maps[2])
           /\ \A j \in {1, 2} :
                /\ maps[j] \in MappingType /\ maps[j].from \in Nat /\ maps[j].to \in Nat
                /\ maps[j].levels[3].pfn \in Nat /\ maps[j].pgtables \in Nat
<1>1. DOMAIN maps = 1..Len(maps) /\ Len(maps) = 2
  BY DEF MapsOK
<1>2. 1..2 = {1, 2}
  OBVIOUS
<1>3. DOMAIN maps = {1, 2}
  BY <1>1, <1>2
<1>4. ASSUME NEW j \in 1..Len(maps) PROVE maps[j] \in MappingType
  BY ElementOfSeq DEF MapsOK
<1>5. \A m \in MappingType :
        m.from \in Nat /\ m.to \in Nat /\ m.levels[3].pfn \in Nat /\ m.pgtables \in Nat
  <2>1. 3 \in Levels
    BY DEF Levels
  <2> QED BY <2>1 DEF MappingType
<1>6. Laid(<<>>, maps[1]) /\ Laid(<<maps[1]>>, maps[2])
  <2>1. \A i \in {1, 2} : Laid(IF i = 1 THEN <<>> ELSE <<maps[1]>>, maps[i])
    BY <1>3 DEF MapsOK, LaidInv
  <2> QED BY <2>1
<1> QED BY <1>1, <1>3, <1>4, <1>5, <1>6

LEMMA BothAreas ==
    ASSUME AreasOK
    PROVE  /\ DOMAIN maps = {1, 2}
           /\ Laid(<<>>, maps[1]) /\ Laid(<<maps[1]>>, maps[2])
           /\ \A j \in {1, 2} :
                /\ maps[j] \in MappingType
                /\ maps[j].from \in Nat /\ maps[j].to \in Nat /\ maps[j].from < maps[j].to
  BY BothMaps DEF AreasOK

\* A region of tables is made of whole blocks.
LEMMA RegionSpans ==
    ASSUME AreasOK, NEW k \in Levels, NEW j \in DOMAIN maps
    PROVE  LET l == k + 1
           IN  \/ Region(l, j).pgtables = 0 /\ Blocks(l, j) = {}
               \/ /\ Spans(Region(l, j), Reach(l), First(l, j), Last(l, j))
                  /\ Region(l, j).pgtables = Last(l, j) - First(l, j) + 1
                  /\ Blocks(l, j) = First(l, j)..Last(l, j)
<1> DEFINE R == Reach(k + 1)
           t == maps[j].levels[k]
<1>1. R \in Nat \ {0, 1}
  BY Reaches
<1>2. Region(k + 1, j) = t
  BY DEF Region, Below, Levels
<1>3. t.pgtables = 0 \/ \E x, y \in Nat : Spans(t, R, x, y) /\ t.pgtables = y - x + 1
  <2>1. CASE j = 1
    <3>1. PICK m : m = maps[1]
      OBVIOUS
    <3>2. Laid(<<>>, m) /\ m.from <= m.to
      BY <3>1, BothAreas
    <3>3. Spans(m.levels[k], R, m.from \div R, m.to \div R)
          /\ m.levels[k].pgtables = m.to \div R - m.from \div R + 1
      BY <3>2, FirstSpans
    <3>4. m.from \div R \in Nat /\ m.to \div R \in Nat
      BY <3>3 DEF Spans
    <3> QED BY <2>1, <3>1, <3>3, <3>4
  <2>2. CASE j = 2
    <3>1. PICK o, m : o = maps[1] /\ m = maps[2]
      OBVIOUS
    <3>2. Laid(<<>>, o) /\ o.from <= o.to /\ Laid(<<o>>, m) /\ m.from <= m.to
      BY <3>1, BothAreas
    <3>3. \/ m.levels[k].pgtables = 0
          \/ \E x, y \in Nat :
               Spans(m.levels[k], R, x, y) /\ m.levels[k].pgtables = y - x + 1
      BY <3>2, SecondSpans
    <3> QED BY <2>2, <3>1, <3>3
  <2> QED BY <2>1, <2>2, BothAreas
<1>4. CASE t.pgtables = 0
  BY <1>2, <1>4 DEF Blocks, Levels
<1>5. ASSUME NEW x \in Nat, NEW y \in Nat, Spans(t, R, x, y), t.pgtables = y - x + 1
      PROVE  /\ Spans(t, R, First(k + 1, j), Last(k + 1, j))
             /\ t.pgtables = Last(k + 1, j) - First(k + 1, j) + 1
             /\ Blocks(k + 1, j) = First(k + 1, j)..Last(k + 1, j)
  <2>1. t.from \div R = x /\ t.to \div R = y
    <3> HIDE DEF t, R
    <3> QED BY <1>1, <1>5, SpanOf
  <2>2. First(k + 1, j) = x /\ Last(k + 1, j) = y
    BY <1>2, <2>1 DEF First, Last
  <2>3. x <= y
    BY <1>5 DEF Spans
  <2>4. t.pgtables # 0
    BY <1>5, <2>3
  <2> HIDE DEF t, R
  <2> QED BY <1>2, <1>5, <2>2, <2>4 DEF Blocks
<1> HIDE DEF t
<1> QED BY <1>2, <1>3, <1>4, <1>5

\* Both mappings have a block for every part of the areas; the first has the
\* blocks of its area, the second no others than those of its own.
LEMMA BlocksCover ==
    ASSUME AreasOK, NEW l \in 0..4
    PROVE  /\ Blocks(l, 1) = (maps[1].from \div Reach(l))..(maps[1].to \div Reach(l))
           /\ Blocks(l, 2) \subseteq (maps[2].from \div Reach(l))..(maps[2].to \div Reach(l))
           /\ (maps[2].from \div Reach(l))..(maps[2].to \div Reach(l))
                \subseteq Blocks(l, 1) \cup Blocks(l, 2)
<1> DEFINE R == Reach(l)
           a == maps[1].from \div R
           b == maps[1].to \div R
           p == maps[2].from \div R
           q == maps[2].to \div R
<1>1. CASE l = 0
  BY <1>1 DEF Blocks, First, Last, Region, Below
<1>2. CASE l # 0
  <2>1. PICK k \in Levels : l = k + 1
    BY <1>2 DEF Levels
  <2>2. R \in Nat \ {0, 1}
    BY <2>1, Reaches
  <2>3. Region(l, 1) = maps[1].levels[k] /\ Region(l, 2) = maps[2].levels[k]
    BY <2>1 DEF Region, Below, Levels
  <2>4. PICK o, m : o = maps[1] /\ m = maps[2]
    OBVIOUS
  <2>5. Laid(<<>>, o) /\ o.from <= o.to /\ Laid(<<o>>, m) /\ m.from <= m.to
    BY <2>4, BothAreas
  <2>6. Spans(o.levels[k], R, a, b) /\ o.levels[k].pgtables = b - a + 1
    BY <2>1, <2>4, <2>5, FirstSpans
  <2>7. \/ m.levels[k].pgtables = 0 /\ a <= p /\ q <= b
        \/ \E x, y \in Nat : /\ Spans(m.levels[k], R, x, y) /\ m.levels[k].pgtables = y - x + 1
                             /\ p <= x /\ y <= q /\ \A n \in p..q : n \in x..y \/ n \in a..b
    BY <2>1, <2>4, <2>5, SecondSpans
  <2>8. p \in Nat /\ q \in Nat
    BY <2>2, BothAreas, Parts
  <2> HIDE DEF a, b, p, q, R
  <2>9. a \in Nat /\ b \in Nat /\ a <= b
    BY <2>6 DEF Spans
  <2>10. Blocks(l, 1) = a..b
    <3>1. o.levels[k].from \div R = a /\ o.levels[k].to \div R = b
      BY <2>2, <2>6, <2>9, SpanOf
    <3>2. o.levels[k].pgtables # 0
      BY <2>6, <2>9
    <3> QED BY <2>3, <2>4, <3>1, <3>2 DEF Blocks, First, Last, R
  <2>11. Blocks(l, 2) \subseteq p..q /\ p..q \subseteq Blocks(l, 1) \cup Blocks(l, 2)
    <3>1. CASE m.levels[k].pgtables = 0 /\ a <= p /\ q <= b
      <4>1. Blocks(l, 2) = {}
        BY <1>2, <2>3, <2>4, <3>1 DEF Blocks
      <4> QED BY <2>8, <2>9, <2>10, <3>1, <4>1
    <3>2. ASSUME NEW x \in Nat, NEW y \in Nat, Spans(m.levels[k], R, x, y),
                 m.levels[k].pgtables = y - x + 1, p <= x, y <= q,
                 \A n \in p..q : n \in x..y \/ n \in a..b
          PROVE  Blocks(l, 2) \subseteq p..q /\ p..q \subseteq Blocks(l, 1) \cup Blocks(l, 2)
      <4>1. m.levels[k].from \div R = x /\ m.levels[k].to \div R = y
        BY <2>2, <3>2, SpanOf
      <4>2. m.levels[k].pgtables # 0
        BY <3>2 DEF Spans
      <4>3. Blocks(l, 2) = x..y
        BY <2>3, <2>4, <4>1, <4>2 DEF Blocks, First, Last, R
      <4>4. Blocks(l, 2) \subseteq p..q
        BY <2>8, <3>2, <4>3
      <4>5. ASSUME NEW n \in p..q PROVE n \in Blocks(l, 1) \cup Blocks(l, 2)
        BY <2>10, <3>2, <4>3
      <4> QED BY <4>4, <4>5
    <3> QED BY <2>7, <3>1, <3>2
  <2> QED BY <2>10, <2>11 DEF a, b, p, q, R
<1> QED BY <1>1, <1>2

\* No block has two tables, when the areas are apart.
LEMMA BlocksAreApart ==
    ASSUME AreasOK, AreasAreApart, NEW l \in 1..4
    PROVE  Blocks(l, 1) \cap Blocks(l, 2) = {}
<1> DEFINE R == Reach(l)
           a == maps[1].from \div R
           b == maps[1].to \div R
           p == maps[2].from \div R
           q == maps[2].to \div R
<1>1. PICK k \in Levels : l = k + 1
  BY DEF Levels
<1>2. R \in Nat \ {0, 1}
  BY <1>1, Reaches
<1>3. Region(l, 2) = maps[2].levels[k]
  BY <1>1 DEF Region, Below, Levels
<1>4. PICK o, m : o = maps[1] /\ m = maps[2]
  OBVIOUS
<1>5. Laid(<<>>, o) /\ o.from <= o.to /\ Laid(<<o>>, m) /\ m.from <= m.to
      /\ o.from \in Nat /\ o.to \in Nat /\ m.from \in Nat /\ m.to \in Nat
  BY <1>4, BothAreas
<1>6. \/ m.levels[k].pgtables = 0
      \/ \E x, y \in Nat : /\ Spans(m.levels[k], R, x, y) /\ m.levels[k].pgtables = y - x + 1
                           /\ (p < a /\ b < q) \/ (\A n \in x..y : n \notin a..b)
  BY <1>1, <1>4, <1>5, SecondSpans
<1>7. a \in Nat /\ b \in Nat /\ p \in Nat /\ q \in Nat /\ (b <= p \/ q <= a)
      /\ a <= b /\ p <= q
  <2>1. o.from <= o.to /\ m.from <= m.to /\ (o.to <= m.from \/ m.to <= o.from)
    BY <1>4, <1>5 DEF AreasAreApart
  <2>2. a = o.from \div R /\ b = o.to \div R /\ p = m.from \div R /\ q = m.to \div R
    BY <1>4
  <2> HIDE DEF a, b, p, q, R
  <2> QED BY <1>2, <1>5, <2>1, <2>2, Parts, DivGrows
<1>8. Blocks(l, 1) = a..b
  BY BlocksCover
<1> HIDE DEF a, b, p, q, R
<1>9. ~(p < a /\ b < q)
  BY <1>7
<1>10. CASE m.levels[k].pgtables = 0
  <2>1. Blocks(l, 2) = {}
    BY <1>3, <1>4, <1>10 DEF Blocks
  <2> QED BY <2>1
<1>11. ASSUME NEW x \in Nat, NEW y \in Nat, Spans(m.levels[k], R, x, y),
              m.levels[k].pgtables = y - x + 1, \A n \in x..y : n \notin a..b
       PROVE  Blocks(l, 1) \cap Blocks(l, 2) = {}
  <2>1. m.levels[k].from \div R = x /\ m.levels[k].to \div R = y
    BY <1>2, <1>11, SpanOf
  <2>2. m.levels[k].pgtables # 0
    BY <1>11 DEF Spans
  <2>3. Blocks(l, 2) = x..y
    BY <1>3, <1>4, <2>1, <2>2 DEF Blocks, First, Last, R
  <2> QED BY <1>8, <1>11, <2>3
<1> QED BY <1>6, <1>9, <1>10, <1>11

------------------------------------------------------------------------------
(* The pages of the tables.                                                 *)

\* The tables of a mapping lie one behind the other, from the last level on.
LEMMA TablesAreStacked ==
    ASSUME MapsOK, NEW j \in DOMAIN maps
    PROVE  /\ \A l \in 1..4 : Region(l, j).pfn \in Nat /\ Region(l, j).pgtables \in Nat
           /\ Region(4, j).pfn = maps[j].levels[3].pfn
           /\ Region(3, j).pfn = Region(4, j).pfn + Region(4, j).pgtables
           /\ Region(2, j).pfn = Region(3, j).pfn + Region(3, j).pgtables
           /\ Region(1, j).pfn = Region(2, j).pfn + Region(2, j).pgtables
           /\ Region(1, j).pfn + Region(1, j).pgtables = maps[j].levels[3].pfn + maps[j].pgtables
<1>1. PICK m : m = maps[j]
  OBVIOUS
<1>2. m \in MappingType /\ \E ms : Laid(ms, m)
  BY <1>1, BothMaps
<1>3. PICK ms : Laid(ms, m)
  BY <1>2
<1>4. /\ m.levels[2].pfn = m.levels[3].pfn + m.levels[3].pgtables
      /\ m.levels[1].pfn = m.levels[2].pfn + m.levels[2].pgtables
      /\ m.levels[0].pfn = m.levels[1].pfn + m.levels[1].pgtables
      /\ m.levels[3].pfn + m.pgtables = m.levels[0].pfn + m.levels[0].pgtables
  BY <1>2, <1>3, LaidStack
<1>5. /\ Region(1, j) = m.levels[0] /\ Region(2, j) = m.levels[1]
      /\ Region(3, j) = m.levels[2] /\ Region(4, j) = m.levels[3]
  BY <1>1 DEF Region, Below
<1>6. \A k \in {0, 1, 2, 3} : m.levels[k].pfn \in Nat /\ m.levels[k].pgtables \in Nat
  <2>1. Levels = {0, 1, 2, 3}
    BY DEF Levels
  <2> QED BY <1>2, <2>1 DEF MappingType
<1>7. \A l \in 1..4 : l \in {1, 2, 3, 4}
  OBVIOUS
<1>8. \A l \in {1, 2, 3, 4} : Region(l, j).pfn \in Nat /\ Region(l, j).pgtables \in Nat
  BY <1>5, <1>6
<1> QED BY <1>1, <1>4, <1>5, <1>7, <1>8

\* A block of a level is a table in one of the level's pages.
LEMMA BlockHasPage ==
    ASSUME AreasOK, NEW l \in 1..4, NEW j \in DOMAIN maps, NEW n \in Blocks(l, j)
    PROVE  /\ n \in Nat /\ First(l, j) \in Nat /\ Last(l, j) \in Nat
           /\ First(l, j) <= n /\ n <= Last(l, j)
           /\ Spans(Region(l, j), Reach(l), First(l, j), Last(l, j))
           /\ PageOf(l, j, n) \in Nat /\ Region(l, j).pfn <= PageOf(l, j, n)
           /\ PageOf(l, j, n) < Region(l, j).pfn + Region(l, j).pgtables
<1>1. PICK k \in Levels : l = k + 1
  BY DEF Levels
<1>2. /\ Spans(Region(l, j), Reach(l), First(l, j), Last(l, j))
      /\ Region(l, j).pgtables = Last(l, j) - First(l, j) + 1
      /\ Blocks(l, j) = First(l, j)..Last(l, j)
  BY <1>1, RegionSpans
<1>3. First(l, j) \in Nat /\ Last(l, j) \in Nat
  BY <1>2 DEF Spans
<1>4. Region(l, j).pfn \in Nat
  BY TablesAreStacked DEF AreasOK
<1> QED BY <1>2, <1>3, <1>4 DEF PageOf

\* The levels' pages are different, and lie inside those of the mapping.
LEMMA LevelsAreApart ==
    ASSUME MapsOK, NEW j \in DOMAIN maps, NEW l \in 1..4
    PROVE  /\ maps[j].levels[3].pfn <= Region(l, j).pfn
           /\ Region(l, j).pfn + Region(l, j).pgtables <= maps[j].levels[3].pfn + maps[j].pgtables
           /\ \A k \in 1..4 : k < l => Region(l, j).pfn + Region(l, j).pgtables <= Region(k, j).pfn
<1>1. \A k \in 1..4 : k \in {1, 2, 3, 4}
  OBVIOUS
<1>2. /\ \A k \in {1, 2, 3, 4} : Region(k, j).pfn \in Nat /\ Region(k, j).pgtables \in Nat
      /\ Region(4, j).pfn = maps[j].levels[3].pfn
      /\ Region(3, j).pfn = Region(4, j).pfn + Region(4, j).pgtables
      /\ Region(2, j).pfn = Region(3, j).pfn + Region(3, j).pgtables
      /\ Region(1, j).pfn = Region(2, j).pfn + Region(2, j).pgtables
      /\ Region(1, j).pfn + Region(1, j).pgtables = maps[j].levels[3].pfn + maps[j].pgtables
  BY TablesAreStacked
<1>3. \A k \in {1, 2, 3, 4} :
        /\ maps[j].levels[3].pfn <= Region(k, j).pfn
        /\ Region(k, j).pfn + Region(k, j).pgtables <= maps[j].levels[3].pfn + maps[j].pgtables
  BY <1>2
<1>4. \A k, n \in {1, 2, 3, 4} :
        k < n => Region(n, j).pfn + Region(n, j).pgtables <= Region(k, j).pfn
  BY <1>2
<1> QED BY <1>1, <1>3, <1>4

\* No page is one of two levels or of two mappings.
LEMMA RegionsAreApart ==
    ASSUME MapsOK, NEW l \in 1..4, NEW k \in 1..4, NEW i \in DOMAIN maps, NEW j \in DOMAIN maps,
           NEW p \in Nat,
           Region(l, i).pfn <= p, p < Region(l, i).pfn + Region(l, i).pgtables,
           Region(k, j).pfn <= p, p < Region(k, j).pfn + Region(k, j).pgtables
    PROVE  l = k /\ i = j
<1>1. /\ Region(l, i).pfn \in Nat /\ Region(l, i).pgtables \in Nat
      /\ Region(k, j).pfn \in Nat /\ Region(k, j).pgtables \in Nat
  BY TablesAreStacked
<1>2. i = j
  <2>1. /\ maps[i].levels[3].pfn <= Region(l, i).pfn
        /\ Region(l, i).pfn + Region(l, i).pgtables <= maps[i].levels[3].pfn + maps[i].pgtables
        /\ maps[j].levels[3].pfn <= Region(k, j).pfn
        /\ Region(k, j).pfn + Region(k, j).pgtables <= maps[j].levels[3].pfn + maps[j].pgtables
    BY LevelsAreApart
  <2>2. \A h \in DOMAIN maps : maps[h].levels[3].pfn \in Nat /\ maps[h].pgtables \in Nat
    BY BothMaps
  <2>3. maps[1].levels[3].pfn + maps[1].pgtables <= maps[2].levels[3].pfn
    BY DEF MapsOK, LaidInv
  <2>4. i \in {1, 2} /\ j \in {1, 2}
    BY BothMaps
  <2>5. ~(i = 1 /\ j = 2)
    <3> SUFFICES ASSUME i = 1, j = 2 PROVE FALSE
      OBVIOUS
    <3> QED BY <1>1, <2>1, <2>2, <2>3
  <2>6. ~(i = 2 /\ j = 1)
    <3> SUFFICES ASSUME i = 2, j = 1 PROVE FALSE
      OBVIOUS
    <3> QED BY <1>1, <2>1, <2>2, <2>3
  <2> QED BY <2>4, <2>5, <2>6
<1>3. l = k
  <2>1. k < l => Region(l, i).pfn + Region(l, i).pgtables <= Region(k, i).pfn
    BY LevelsAreApart
  <2>2. l < k => Region(k, i).pfn + Region(k, i).pgtables <= Region(l, i).pfn
    BY LevelsAreApart
  <2> QED BY <1>1, <1>2, <2>1, <2>2
<1> QED BY <1>2, <1>3

\* No two blocks have one page.
SamePage(l, i, n, k, j, m) ==
  n \in Blocks(l, i) /\ m \in Blocks(k, j) /\ PageOf(l, i, n) = PageOf(k, j, m)

LEMMA PagesDiffer ==
    ASSUME AreasOK, NEW l \in 1..4, NEW k \in 1..4, NEW i \in DOMAIN maps, NEW j \in DOMAIN maps,
           NEW n, NEW m, SamePage(l, i, n, k, j, m)
    PROVE  l = k /\ i = j /\ n = m
<1>0. n \in Blocks(l, i) /\ m \in Blocks(k, j) /\ PageOf(l, i, n) = PageOf(k, j, m)
  BY DEF SamePage
<1> DEFINE p == PageOf(l, i, n)
<1>1. /\ p \in Nat /\ Region(l, i).pfn <= p /\ p < Region(l, i).pfn + Region(l, i).pgtables
      /\ Region(k, j).pfn <= p /\ p < Region(k, j).pfn + Region(k, j).pgtables
      /\ n \in Nat /\ m \in Nat
  BY <1>0, BlockHasPage
<1>2. Region(l, i).pfn \in Nat
  BY TablesAreStacked DEF AreasOK
<1>3. p = Region(l, i).pfn + n - First(l, i) /\ p = Region(k, j).pfn + m - First(k, j)
      /\ First(l, i) \in Nat
  BY <1>0, BlockHasPage DEF PageOf
<1> HIDE DEF p
<1>4. l = k /\ i = j
  BY <1>1, RegionsAreApart DEF AreasOK
<1>5. n = m
  BY <1>1, <1>2, <1>3, <1>4
<1> QED BY <1>4, <1>5

\* Every page of the tables is that of a block.
LEMMA TablePageHasBlock ==
    ASSUME AreasOK, NEW j \in DOMAIN maps, NEW p \in TablePages(maps[j])
    PROVE  \E l \in 1..4 : \E n \in Blocks(l, j) : p = PageOf(l, j, n)
<1>1. \A k \in 1..4 : k \in {1, 2, 3, 4}
  OBVIOUS
<1>2. /\ \A k \in {1, 2, 3, 4} : Region(k, j).pfn \in Nat /\ Region(k, j).pgtables \in Nat
      /\ Region(4, j).pfn = maps[j].levels[3].pfn
      /\ Region(3, j).pfn = Region(4, j).pfn + Region(4, j).pgtables
      /\ Region(2, j).pfn = Region(3, j).pfn + Region(3, j).pgtables
      /\ Region(1, j).pfn = Region(2, j).pfn + Region(2, j).pgtables
      /\ Region(1, j).pfn + Region(1, j).pgtables = maps[j].levels[3].pfn + maps[j].pgtables
  BY TablesAreStacked DEF AreasOK
<1>3. p \in Nat /\ maps[j].levels[3].pfn <= p /\ p < maps[j].levels[3].pfn + maps[j].pgtables
  <2>1. maps[j].levels[3].pfn \in Nat /\ maps[j].pgtables \in Nat
    BY BothMaps DEF AreasOK
  <2> QED BY <2>1 DEF TablePages
<1>4. \E l \in {1, 2, 3, 4} :
        Region(l, j).pfn <= p /\ p < Region(l, j).pfn + Region(l, j).pgtables
  BY <1>2, <1>3
<1>5. PICK l \in 1..4 : Region(l, j).pfn <= p /\ p < Region(l, j).pfn + Region(l, j).pgtables
  BY <1>4
<1>6. PICK k \in Levels : l = k + 1
  BY DEF Levels
<1>7. Region(l, j).pfn \in Nat /\ Region(l, j).pgtables \in Nat
  BY <1>1, <1>2
<1>8. /\ Spans(Region(l, j), Reach(l), First(l, j), Last(l, j))
      /\ Region(l, j).pgtables = Last(l, j) - First(l, j) + 1
      /\ Blocks(l, j) = First(l, j)..Last(l, j)
  <2>1. Region(l, j).pgtables # 0
    BY <1>3, <1>5, <1>7
  <2> QED BY <1>6, <2>1, RegionSpans
<1>9. First(l, j) \in Nat /\ Last(l, j) \in Nat
  BY <1>8 DEF Spans
<1> DEFINE n == First(l, j) + (p - Region(l, j).pfn)
<1>10. n \in Blocks(l, j) /\ p = PageOf(l, j, n)
  BY <1>3, <1>5, <1>7, <1>8, <1>9 DEF PageOf
<1> QED BY <1>10

------------------------------------------------------------------------------
(* Entries.                                                                 *)

\* Tables from tf to tt, the first of them at the block K, and a region from bf
\* to bt that they have in common from low to high
Overlap(R, K, tf, tt, bf, bt, low, high) ==
  /\ R \in Nat \ {0} /\ K \in Nat /\ tf \in Nat /\ tf = R * K
  /\ tt \in Nat /\ tf <= tt /\ bf \in Nat /\ bt \in Nat /\ bf < tt /\ tf < bt
  /\ low \in Nat /\ low = (IF tf > bf THEN tf ELSE bf)
  /\ high \in Nat /\ high = (IF tt < bt THEN tt ELSE bt)
\* What they have in common, counted from where the tables begin
Common(R, K, tf, tt, bf, bt, low, high) ==
  /\ low \div R \in Nat /\ high \div R \in Nat
  /\ (low - tf) \div R = low \div R - K /\ K <= low \div R
  /\ (high - tf) \div R = high \div R - K /\ K <= high \div R
  /\ bf \div R <= low \div R /\ high \div R <= bt \div R /\ high \div R <= tt \div R
  /\ (low - bf) \div R \in Nat /\ (low - bf) \div R <= low \div R - bf \div R
  /\ bf % R = 0 \/ tf <= bf => (low - bf) \div R = low \div R - bf \div R

LEMMA CommonIs ==
    ASSUME NEW R, NEW K, NEW tf, NEW tt, NEW bf, NEW bt, NEW low, NEW high,
           Overlap(R, K, tf, tt, bf, bt, low, high)
    PROVE  Common(R, K, tf, tt, bf, bt, low, high)
<1> USE DEF Overlap
<1> DEFINE lq == low \div R
           hq == high \div R
           bq == bf \div R
<1>1. R * K <= low /\ R * K <= high
  OBVIOUS
<1>2. lq \in Nat /\ hq \in Nat /\ bq \in Nat
  BY Parts
<1>3. (low - tf) \div R = lq - K /\ K <= lq
  BY <1>1, DivShift
<1>4. (high - tf) \div R = hq - K /\ K <= hq
  BY <1>1, DivShift, Zenon
<1>5. bf <= low /\ high <= bt /\ high <= tt
  OBVIOUS
<1>6. bq <= lq /\ hq <= bt \div R /\ hq <= tt \div R
  BY <1>5, DivGrows
<1>7. bt \div R \in Nat /\ tt \div R \in Nat
  BY Parts
<1>8. (low - bf) \div R \in Nat /\ (low - bf) \div R <= lq - bq
  BY <1>5, DivLess
<1>9. bf % R = 0 \/ tf <= bf => (low - bf) \div R = lq - bq
  <2>1. CASE tf <= bf
    <3>1. low = bf
      BY <2>1
    <3>2. R * 0 = 0 /\ 0 = R * 0 + 0 /\ 0 \in 0..(R - 1)
      OBVIOUS
    <3>3. 0 \div R = 0
      BY <3>2, DivIs
    <3>4. low - bf = 0
      BY <3>1
    <3> QED BY <1>2, <3>1, <3>3, <3>4
  <2>2. CASE bf % R = 0
    <3>1. bf = R * bq
      <4>1. bf = R * (bf \div R) + (bf % R) /\ R * (bf \div R) \in Nat
        BY <1>2, Parts
      <4> QED BY <2>2, <4>1
    <3> HIDE DEF bq, lq
    <3>2. PICK c \in Nat : c = bq
      BY <1>2
    <3>3. R * c <= low
      BY <1>5, <3>1, <3>2
    <3>4. (low - R * c) \div R = low \div R - c
      BY <3>3, DivShift, Zenon
    <3> QED BY <3>1, <3>2, <3>4 DEF lq
  <2> QED BY <2>1, <2>2
<1> QED BY <1>2, <1>3, <1>4, <1>6, <1>8, <1>9 DEF Common

\* The other way round: a block that the tables and the region have has a place.
LEMMA PlaceFor ==
    ASSUME NEW R \in Nat \ {0}, NEW K \in Nat, NEW tf \in Nat, tf = R * K,
           NEW tt \in Nat, tf <= tt, NEW bf \in Nat, NEW bt \in Nat, bf < tt, tf < bt,
           NEW low \in Nat, low = IF tf > bf THEN tf ELSE bf,
           NEW high \in Nat, high = IF tt < bt THEN tt ELSE bt,
           NEW n \in Nat, K <= n, n <= tt \div R, bf \div R <= n, n <= bt \div R
    PROVE  n - K \in ((low - tf) \div R)..((high - tf) \div R)
<1> DEFINE lq == low \div R
           hq == high \div R
<1>1. R * K <= low /\ R * K <= high
  OBVIOUS
<1>2. lq \in Nat /\ hq \in Nat
  BY Parts
<1>3. (low - tf) \div R = lq - K /\ K <= lq
  BY <1>1, DivShift, Zenon
<1>4. (high - tf) \div R = hq - K /\ K <= hq
  BY <1>1, DivShift, Zenon
<1>5. lq <= n
  <2>1. CASE tf > bf
    <3>1. tf = R * K + 0 /\ 0 \in 0..(R - 1)
      OBVIOUS
    <3>2. tf \div R = K
      BY <3>1, DivIs
    <3> QED BY <2>1, <3>2
  <2>2. CASE ~(tf > bf)
    BY <2>2
  <2> QED BY <2>1, <2>2
<1>6. n <= hq
  <2>1. high = tt \/ high = bt
    OBVIOUS
  <2> QED BY <2>1
<1> HIDE DEF lq, hq
<1> QED BY <1>2, <1>3, <1>4, <1>5, <1>6

\* An entry stands for a block of its tables and of the region they point to.
LEMMA EntryStandsFor ==
    ASSUME NEW l \in Levels, NEW i, NEW j, NEW x \in EntriesFor(maps, l, i, j),
           NEW t, t = Region(l + 1, i), NEW b, b = Region(l, j),
           NEW F \in Nat, t.from = Reach(l + 1) * F, t.to \in Nat, t.from < t.to,
           b.from \in Nat, b.to \in Nat, b.pfn \in Nat
    PROVE  \E n \in Nat :
             /\ Entries * F <= n /\ x.place = n - Entries * F
             /\ F <= n \div Entries /\ n \div Entries <= t.to \div Reach(l + 1)
             /\ b.from \div Reach(l) <= n /\ n <= b.to \div Reach(l)
             /\ x.rw = Writable(maps, l, x.pfn)
             /\ x.pfn \in Nat /\ x.pfn <= b.pfn + (n - b.from \div Reach(l))
             /\ b.from % Reach(l) = 0 \/ t.from <= b.from =>
                  x.pfn = b.pfn + (n - b.from \div Reach(l))
<1> DEFINE R == Reach(l)
           K == Entries * F
           low == IF t.from > b.from THEN t.from ELSE b.from
           high == IF t.to < b.to THEN t.to ELSE b.to
           first == (low - t.from) \div R
           d == (low - b.from) \div R
<1>1. R \in Nat \ {0} /\ Entries \in Nat \ {0} /\ Reach(l + 1) = R * Entries
  BY Reaches, WidthsAssumption
<1>2. K \in Nat /\ t.from = R * K /\ t.from \in Nat
  <2>1. (R * Entries) * F = R * (Entries * F)
    BY <1>1
  <2>2. K \in Nat
    BY <1>1
  <2>3. R * K \in Nat
    BY <1>1, <2>2
  <2> QED BY <1>1, <2>1, <2>2, <2>3
<1>3. t = maps[i].levels[l] /\ b = Below(maps, l, j)
  BY DEF Region, Below, Levels
<1>4. b.from < t.to /\ t.from < b.to
  <2>1. ~(b.from >= t.to \/ b.to <= t.from)
    BY <1>3 DEF EntriesFor
  <2> QED BY <1>2, <2>1
<1>5. \E p \in first..((high - t.from) \div R) :
        x = [place |-> p, pfn |-> d + b.pfn + p - first,
             rw |-> Writable(maps, l, d + b.pfn + p - first)]
  BY <1>3 DEF EntriesFor
<1>6. PICK p \in first..((high - t.from) \div R) :
        x = [place |-> p, pfn |-> d + b.pfn + p - first,
             rw |-> Writable(maps, l, d + b.pfn + p - first)]
  BY <1>5
<1>7. low \in Nat /\ high \in Nat
  BY <1>2
<1>8. PICK tf \in Nat, tt \in Nat : tf = t.from /\ tt = t.to
  BY <1>2
<1>9. PICK bf \in Nat, bt \in Nat, bp \in Nat : bf = b.from /\ bt = b.to /\ bp = b.pfn
  OBVIOUS
<1> DEFINE n == K + p
<1>10. /\ p \in Nat
       /\ bf \div R <= n /\ n <= bt \div R /\ n <= tt \div R
       /\ d + p - first \in Nat
       /\ d + p - first <= n - bf \div R
       /\ bf % R = 0 \/ tf <= bf => d + p - first = n - bf \div R
  <2>1. tf = R * K /\ tf <= tt /\ bf < tt /\ tf < bt
    BY <1>2, <1>4, <1>8, <1>9
  <2>2. low = (IF tf > bf THEN tf ELSE bf) /\ high = (IF tt < bt THEN tt ELSE bt)
        /\ first = (low - tf) \div R /\ d = (low - bf) \div R
    BY <1>8, <1>9
  <2>3. p \in ((low - tf) \div R)..((high - tf) \div R)
    BY <1>8
  <2> HIDE DEF low, high, first, d, R, K
  <2>4. PICK lo \in Nat, hi \in Nat, k \in Nat, r \in Nat \ {0} :
            lo = low /\ hi = high /\ k = K /\ r = R
    BY <1>1, <1>2, <1>7
  <2>5. /\ lo = (IF tf > bf THEN tf ELSE bf) /\ hi = (IF tt < bt THEN tt ELSE bt)
        /\ tf = r * k /\ tf <= tt /\ bf < tt /\ tf < bt
    BY <2>1, <2>2, <2>4
  <2>6. Common(r, k, tf, tt, bf, bt, lo, hi)
    <3>1. Overlap(r, k, tf, tt, bf, bt, lo, hi)
      BY <2>5 DEF Overlap
    <3> QED BY <3>1, CommonIs
  <2>7. bf \div r \in Nat /\ bt \div r \in Nat /\ tt \div r \in Nat
    BY Parts
  <2>8. PICK lq \in Nat, hq \in Nat, bq \in Nat, bl \in Nat, tl \in Nat :
          /\ lq = lo \div r /\ hq = hi \div r /\ bq = bf \div r
          /\ bl = bt \div r /\ tl = tt \div r
    BY <2>6, <2>7 DEF Common
  <2>9. /\ first = lq - k /\ k <= lq /\ k <= hq /\ bq <= lq /\ hq <= bl /\ hq <= tl
        /\ d \in Nat /\ d <= lq - bq /\ (bf % r = 0 \/ tf <= bf => d = lq - bq)
        /\ p \in (lq - k)..(hq - k)
    BY <2>2, <2>3, <2>4, <2>6, <2>8 DEF Common
  <2>10. /\ p \in Nat /\ bq <= k + p /\ k + p <= bl /\ k + p <= tl
         /\ d + p - first \in Nat
         /\ d + p - first <= k + p - bq
         /\ bf % r = 0 \/ tf <= bf => d + p - first = k + p - bq
    BY <2>9
  <2> QED BY <2>4, <2>8, <2>10 DEF n
<1>11. x.place = p /\ x.pfn = d + b.pfn + p - first /\ x.rw = Writable(maps, l, x.pfn)
  BY <1>6
<1> HIDE DEF low, high, first, d, K
<1>12. n \in Nat /\ K <= n /\ x.place = n - K
  BY <1>2, <1>10, <1>11
<1>13. bf \div R \in Nat /\ tt \div R \in Nat
  BY <1>1, Parts
<1> HIDE DEF R, n
<1>14. x.pfn \in Nat /\ x.pfn <= b.pfn + (n - bf \div R)
       /\ (bf % R = 0 \/ tf <= bf => x.pfn = b.pfn + (n - bf \div R))
  <2>1. x.pfn = bp + (d + p - first)
    <3>1. d \in Int /\ first \in Int
      BY <1>1, <1>2, <1>7 DEF d, first, R
    <3> QED BY <1>9, <1>10, <1>11, <3>1
  <2> QED BY <1>9, <1>10, <1>12, <1>13, <2>1
<1>15. F <= n \div Entries
  BY <1>1, <1>12, AtMost DEF K
<1>16. n \div Entries <= tt \div Reach(l + 1)
  <2>1. n \div Entries <= (tt \div R) \div Entries
    BY <1>1, <1>10, <1>12, <1>13, DivGrows
  <2>2. (tt \div R) \div Entries = tt \div (R * Entries)
    BY <1>1, DivTwiceIs
  <2> QED BY <1>1, <2>1, <2>2
<1>17. /\ Entries * F <= n /\ x.place = n - Entries * F
  BY <1>12 DEF K
<1> QED BY <1>8, <1>9, <1>10, <1>11, <1>12, <1>14, <1>15, <1>16, <1>17 DEF R

\* The block n is of the tables of mapping i and of the region of mapping j.
Shared(l, i, j, F, L, n) ==
  /\ Spans(Region(l + 1, i), Reach(l + 1), F, L)
  /\ l > 0 => Region(l, j).pgtables # 0
  /\ Region(l, j).from \in Nat /\ Region(l, j).to \in Nat
  /\ Region(l, j).from < Region(l + 1, i).to /\ Region(l + 1, i).from < Region(l, j).to
  /\ n \in Nat /\ F <= n \div Entries /\ n \div Entries <= L
  /\ Region(l, j).from \div Reach(l) <= n /\ n <= Region(l, j).to \div Reach(l)

\* Such a block has an entry.
LEMMA BlockHasEntry ==
    ASSUME NEW l \in Levels, NEW i, NEW j, NEW F, NEW L, NEW n, Shared(l, i, j, F, L, n)
    PROVE  Entries * F <= n /\ \E x \in EntriesFor(maps, l, i, j) : x.place = n - Entries * F
<1> DEFINE t == Region(l + 1, i)
           b == Region(l, j)
<1>1. /\ Spans(t, Reach(l + 1), F, L) /\ (l > 0 => b.pgtables # 0)
      /\ b.from \in Nat /\ b.to \in Nat /\ b.from < t.to /\ t.from < b.to
      /\ n \in Nat /\ F <= n \div Entries /\ n \div Entries <= L
      /\ b.from \div Reach(l) <= n /\ n <= b.to \div Reach(l)
  BY DEF Shared
<1>2. t = maps[i].levels[l] /\ b = Below(maps, l, j)
  BY DEF Region, Below, Levels
<1> HIDE DEF t, b
<1> DEFINE R == Reach(l)
           K == Entries * F
           low == IF t.from > b.from THEN t.from ELSE b.from
           high == IF t.to < b.to THEN t.to ELSE b.to
           first == (low - t.from) \div R
           d == (low - b.from) \div R
           p == n - K
<1>3. R \in Nat \ {0} /\ Entries \in Nat \ {0} /\ Reach(l + 1) = R * Entries
  BY Reaches, WidthsAssumption
<1>4. F \in Nat /\ L \in Nat /\ F <= L /\ t.from = (R * Entries) * F
      /\ t.to = (R * Entries) * (L + 1) - 1
  BY <1>1, <1>3 DEF Spans
<1>5. K \in Nat /\ t.from = R * K /\ t.from \in Nat
  <2>1. (R * Entries) * F = R * (Entries * F)
    BY <1>3, <1>4
  <2>2. K \in Nat
    BY <1>3, <1>4
  <2>3. R * K \in Nat
    BY <1>3, <2>2
  <2> QED BY <1>4, <2>1, <2>2, <2>3
<1>6. t.to \in Nat /\ t.from <= t.to
  BY <1>1, <1>3, Reaches, SpanOf
<1>7. K <= n /\ n <= Entries * (L + 1) - 1
  BY <1>1, <1>3, <1>4, Between
<1>8. n <= t.to \div R
  <2> DEFINE u == Entries * (L + 1) - 1
  <2>1. u \in Nat
    <3>1. Entries * (L + 1) \in Nat
      BY <1>3, <1>4
    <3> QED BY <1>1, <1>5, <1>7, <3>1
  <2>2. R * Entries * (L + 1) = R * (Entries * (L + 1)) /\ L + 1 \in Nat
    BY <1>3, <1>4
  <2>3. Entries * (L + 1) = u + 1 /\ R * (u + 1) = R * u + R
    BY <1>3, <1>4, <2>1
  <2> HIDE DEF u
  <2>4. R * u \in Nat /\ R - 1 \in 0..(R - 1)
    BY <1>3, <2>1
  <2>5. t.to = R * u + (R - 1)
    BY <1>3, <1>4, <2>2, <2>3, <2>4
  <2>6. PICK e \in 0..(R - 1), m \in Nat : m = t.to /\ m = R * u + e
    BY <2>4, <2>5
  <2>7. m \div R = u
    BY <1>3, <2>1, <2>6, DivIs
  <2> QED BY <1>7, <2>6, <2>7 DEF u
<1>9. PICK tf \in Nat, tt \in Nat : tf = t.from /\ tt = t.to
  BY <1>5, <1>6
<1>10. PICK bf \in Nat, bt \in Nat : bf = b.from /\ bt = b.to
  BY <1>1
<1>11. low \in Nat /\ high \in Nat
  BY <1>9, <1>10
<1>12. p \in first..((high - t.from) \div R)
  <2>1. tf = R * K /\ tf <= tt /\ bf < tt /\ tf < bt /\ n <= tt \div R /\ bf \div R <= n
        /\ n <= bt \div R
    BY <1>1, <1>5, <1>6, <1>8, <1>9, <1>10
  <2>2. low = (IF tf > bf THEN tf ELSE bf) /\ high = (IF tt < bt THEN tt ELSE bt)
    BY <1>9, <1>10
  <2> HIDE DEF low, high, R, K
  <2>3. p \in ((low - tf) \div R)..((high - tf) \div R)
    BY <1>1, <1>3, <1>5, <1>7, <1>11, <2>1, <2>2, PlaceFor, Zenon
  <2> QED BY <1>9, <2>3
<1>13. [place |-> p, pfn |-> d + b.pfn + p - first,
        rw |-> Writable(maps, l, d + b.pfn + p - first)] \in EntriesFor(maps, l, i, j)
  <2>1. ~((l > 0 /\ b.pgtables = 0) \/ b.from >= t.to \/ b.to <= t.from)
    BY <1>1, <1>9, <1>10
  <2> QED BY <1>12, <1>2, <2>1, Zenon DEF EntriesFor
<1>14. [place |-> p, pfn |-> d + b.pfn + p - first,
        rw |-> Writable(maps, l, d + b.pfn + p - first)].place = p
  OBVIOUS
<1> QED BY <1>7, <1>13, <1>14

\* The areas in pages
LEMMA AreaIs ==
    ASSUME AreasOK, NEW j \in DOMAIN maps
    PROVE  /\ Region(0, j).from = maps[j].from /\ Region(0, j).to = maps[j].to
           /\ Region(0, j).pfn = maps[j].pfn /\ maps[j].pfn \in Nat
           /\ maps[j].from \in Nat /\ maps[j].to \in Nat
           /\ Blocks(0, j) = First(0, j)..Last(0, j)
           /\ First(0, j) = maps[j].from \div PageSize /\ Last(0, j) = maps[j].to \div PageSize
           /\ First(0, j) \in Nat /\ Last(0, j) \in Nat
<1>1. Reach(0) = PageSize /\ PageSize \in Nat \ {0}
  BY WidthsAssumption
<1>2. maps[j].from \in Nat /\ maps[j].to \in Nat /\ maps[j] \in MappingType
  BY BothAreas
<1>3. maps[j].pfn \in Nat
  BY <1>2 DEF MappingType
<1>4. maps[j].from \div PageSize \in Nat /\ maps[j].to \div PageSize \in Nat
  BY <1>1, <1>2, Parts
<1> QED BY <1>1, <1>2, <1>3, <1>4 DEF Blocks, First, Last, Region, Below

\* Tables that have an entry have a span.
LEMMA EntrySpans ==
    ASSUME AreasOK, NEW l \in Levels, NEW i \in DOMAIN maps, NEW j \in DOMAIN maps,
           Mapping(maps[i]), Mapping(maps[j]), NEW x \in EntriesFor(maps, l, i, j)
    PROVE  /\ Spans(Region(l + 1, i), Reach(l + 1), First(l + 1, i), Last(l + 1, i))
           /\ Blocks(l + 1, i) = First(l + 1, i)..Last(l + 1, i)
           /\ l > 0 => /\ Spans(Region(l, j), Reach(l), First(l, j), Last(l, j))
                       /\ Blocks(l, j) = First(l, j)..Last(l, j)
<1>1. x.place \div Entries \in Nat /\ x.place \div Entries < maps[i].levels[l].pgtables
  BY EntriesAreInTables
<1>2. Region(l + 1, i) = maps[i].levels[l]
  BY DEF Region, Below, Levels
<1>3. Region(l + 1, i).pgtables # 0
  <2>1. PICK q \in Nat : q = x.place \div Entries
    BY <1>1
  <2>2. ~(q < 0)
    OBVIOUS
  <2> QED BY <1>1, <1>2, <2>1, <2>2
<1>4. ASSUME l > 0
      PROVE  /\ Spans(Region(l, j), Reach(l), First(l, j), Last(l, j))
             /\ Blocks(l, j) = First(l, j)..Last(l, j)
  <2>1. Region(l, j).pgtables # 0
    <3>1. ~(l > 0 /\ Below(maps, l, j).pgtables = 0)
      BY DEF EntriesFor
    <3> QED BY <1>4, <3>1 DEF Region
  <2>2. PICK k \in Levels : l = k + 1
    BY <1>4 DEF Levels
  <2> QED BY <2>1, <2>2, RegionSpans
<1> QED BY <1>3, <1>4, RegionSpans

\* An entry points from the block's table to the block's page.
LEMMA EntryIn ==
    ASSUME AreasOK, NEW l \in Levels, NEW i \in DOMAIN maps, NEW j \in DOMAIN maps,
           Mapping(maps[i]), Mapping(maps[j]), NEW x \in EntriesFor(maps, l, i, j)
    PROVE  \E n \in Blocks(l, j) :
             /\ n \in Nat /\ n \div Entries \in Blocks(l + 1, i)
             /\ Entries * First(l + 1, i) <= n /\ x.place = n - Entries * First(l + 1, i)
             /\ x.rw = Writable(maps, l, x.pfn)
             /\ l > 0 \/ maps[j].from % PageSize = 0 \/ Region(1, i).from <= maps[j].from =>
                  x.pfn = PageOf(l, j, n)
<1>1. PICK t, b, F, L : /\ t = Region(l + 1, i) /\ b = Region(l, j)
                        /\ F = First(l + 1, i) /\ L = Last(l + 1, i)
  OBVIOUS
<1>2. Spans(t, Reach(l + 1), F, L) /\ Blocks(l + 1, i) = F..L
  BY <1>1, EntrySpans
<1>3. /\ F \in Nat /\ L \in Nat /\ t.from = Reach(l + 1) * F
      /\ t.from \in Nat /\ t.to \in Nat /\ t.from < t.to /\ t.to \div Reach(l + 1) = L
  <2>1. Reach(l + 1) \in Nat \ {0, 1}
    BY Reaches
  <2>2. F \in Nat /\ L \in Nat /\ t.from = Reach(l + 1) * F
    BY <1>2 DEF Spans
  <2>3. t.from \in Nat /\ t.to \in Nat /\ t.from < t.to /\ t.to \div Reach(l + 1) = L
    BY <1>2, <2>1, SpanOf
  <2> QED BY <2>2, <2>3
<1>4. /\ b.from \in Nat /\ b.to \in Nat /\ b.pfn \in Nat
      /\ b.from \div Reach(l) = First(l, j) /\ b.to \div Reach(l) = Last(l, j)
      /\ First(l, j) \in Nat /\ Last(l, j) \in Nat
      /\ Blocks(l, j) = First(l, j)..Last(l, j)
      /\ l > 0 \/ maps[j].from % PageSize = 0 \/ Region(1, i).from <= maps[j].from =>
           b.from % Reach(l) = 0 \/ t.from <= b.from
  <2>1. CASE l = 0
    <3>1. Reach(0) = PageSize
      BY WidthsAssumption
    <3>2. b.from = maps[j].from /\ t = Region(1, i)
      BY <1>1, <2>1, AreaIs
    <3> QED BY <1>1, <2>1, <3>1, <3>2, AreaIs
  <2>2. CASE l > 0
    <3>1. l \in 1..4
      BY <2>2 DEF Levels
    <3>2. Spans(b, Reach(l), First(l, j), Last(l, j)) /\ Blocks(l, j) = First(l, j)..Last(l, j)
      BY <1>1, <2>2, EntrySpans
    <3>3. b.pfn \in Nat
      BY <1>1, <3>1, TablesAreStacked DEF AreasOK
    <3>4. Reach(l) \in Nat \ {0, 1}
      <4>1. l \in 0..4
        BY DEF Levels
      <4> QED BY <4>1, Sizes
    <3>5. b.from \in Nat /\ b.to \in Nat
      BY <3>2, <3>4, SpanOf
    <3>6. First(l, j) \in Nat /\ Last(l, j) \in Nat /\ b.from = Reach(l) * First(l, j)
      BY <3>2 DEF Spans
    <3>7. b.from % Reach(l) = 0
      <4>1. PICK R \in Nat \ {0}, f \in Nat, n \in Nat :
              R = Reach(l) /\ f = First(l, j) /\ n = b.from
        BY <3>4, <3>5, <3>6
      <4>2. n = R * f + 0 /\ 0 \in 0..(R - 1)
        BY <3>6, <4>1
      <4>3. n % R = 0
        BY <4>2, DivIs
      <4> QED BY <4>1, <4>3
    <3> QED BY <1>1, <3>2, <3>3, <3>5, <3>6, <3>7 DEF First, Last
  <2> QED BY <2>1, <2>2 DEF Levels
<1>5. \E n \in Nat :
        /\ Entries * F <= n /\ x.place = n - Entries * F
        /\ F <= n \div Entries /\ n \div Entries <= t.to \div Reach(l + 1)
        /\ b.from \div Reach(l) <= n /\ n <= b.to \div Reach(l)
        /\ x.rw = Writable(maps, l, x.pfn)
        /\ x.pfn \in Nat /\ x.pfn <= b.pfn + (n - b.from \div Reach(l))
        /\ b.from % Reach(l) = 0 \/ t.from <= b.from =>
             x.pfn = b.pfn + (n - b.from \div Reach(l))
  BY <1>1, <1>3, <1>4, EntryStandsFor
<1>6. PICK n \in Nat :
        /\ Entries * F <= n /\ x.place = n - Entries * F
        /\ F <= n \div Entries /\ n \div Entries <= L
        /\ First(l, j) <= n /\ n <= Last(l, j)
        /\ x.rw = Writable(maps, l, x.pfn)
        /\ b.from % Reach(l) = 0 \/ t.from <= b.from =>
             x.pfn = b.pfn + (n - First(l, j))
  BY <1>3, <1>4, <1>5
<1>7. n \in Blocks(l, j)
  BY <1>4, <1>6
<1>8. n \div Entries \in Blocks(l + 1, i)
  <2>1. n \div Entries \in Nat
    BY WidthsAssumption, Parts
  <2> QED BY <1>2, <1>3, <1>6, <2>1
<1>9. b.from % Reach(l) = 0 \/ t.from <= b.from => x.pfn = PageOf(l, j, n)
  <2>1. b.pfn + (n - First(l, j)) = b.pfn + n - First(l, j)
    BY <1>4
  <2> QED BY <1>1, <1>6, <2>1 DEF PageOf
<1> QED BY <1>1, <1>4, <1>6, <1>7, <1>8, <1>9

\* Blocks of tables that one another's blocks are in reach into one another.
LEMMA EdgesMeet ==
    ASSUME NEW R \in Nat \ {0, 1}, NEW K \in Nat \ {0}, NEW F \in Nat, NEW L \in Nat,
           NEW x \in Nat, NEW y \in Nat, NEW n \in Nat,
           F <= n \div K, n \div K <= L, x <= n, n <= y
    PROVE  R * x < (R * K) * (L + 1) - 1 /\ (R * K) * F < R * (y + 1) - 1
<1>1. K * F <= n /\ n <= K * (L + 1) - 1
  BY Between
<1>2. K * F \in Nat /\ K * (L + 1) \in Nat
  OBVIOUS
<1>3. n < K * (L + 1)
  BY <1>1, <1>2
<1>4. (R * K) * F = R * (K * F) /\ (R * K) * (L + 1) = R * (K * (L + 1))
      /\ R * (y + 1) = R * y + R
  OBVIOUS
<1> DEFINE u == K * F
           v == K * (L + 1)
<1>5. R * u <= R * n /\ R * n <= R * y /\ R * x <= R * n /\ R * n + R <= R * v
  BY <1>1, <1>2, <1>3, MulGrows
<1> HIDE DEF u, v
<1>6. R * u \in Nat /\ R * n \in Nat /\ R * y \in Nat /\ R * x \in Nat /\ R * v \in Nat
  BY <1>2 DEF u, v
<1>7. R * x < R * v - 1 /\ R * u < R * y + R - 1
  BY <1>5, <1>6
<1> QED BY <1>4, <1>7 DEF u, v

\* A block whose table is there has an entry in it.
LEMMA EntryThere ==
    ASSUME AreasOK, NEW l \in Levels, NEW i \in DOMAIN maps, NEW j \in DOMAIN maps,
           NEW n \in Blocks(l, j), n \div Entries \in Blocks(l + 1, i),
           l = 0 => maps[j].from < Region(1, i).to /\ Region(1, i).from < maps[j].to
    PROVE  /\ Entries * First(l + 1, i) <= n
           /\ \E x \in EntriesFor(maps, l, i, j) : x.place = n - Entries * First(l + 1, i)
<1>1. PICK t, b, F, L : /\ t = Region(l + 1, i) /\ b = Region(l, j)
                        /\ F = First(l + 1, i) /\ L = Last(l + 1, i)
  OBVIOUS
<1>2. l + 1 \in 1..4
  BY DEF Levels
<1>3. /\ Spans(t, Reach(l + 1), F, L) /\ F \in Nat /\ L \in Nat
      /\ F <= n \div Entries /\ n \div Entries <= L
  BY <1>1, <1>2, BlockHasPage
<1>4. t.from = Reach(l + 1) * F /\ t.to = Reach(l + 1) * (L + 1) - 1
  BY <1>3 DEF Spans
<1>5. /\ b.from \in Nat /\ b.to \in Nat /\ n \in Nat
      /\ b.from \div Reach(l) <= n /\ n <= b.to \div Reach(l)
      /\ b.from < t.to /\ t.from < b.to /\ (l > 0 => b.pgtables # 0)
  <2>1. CASE l = 0
    <3>1. Reach(0) = PageSize
      BY WidthsAssumption
    <3>2. b.from = maps[j].from /\ b.to = maps[j].to /\ t = Region(1, i)
      BY <1>1, <2>1, AreaIs
    <3>3. n \in First(0, j)..Last(0, j) /\ First(0, j) \in Nat /\ Last(0, j) \in Nat
          /\ First(0, j) = b.from \div PageSize /\ Last(0, j) = b.to \div PageSize
      BY <2>1, <3>2, AreaIs
    <3>4. n \in Nat /\ First(0, j) <= n /\ n <= Last(0, j)
      BY <3>3
    <3>5. b.from \in Nat /\ b.to \in Nat
      BY <3>2, AreaIs
    <3> QED BY <2>1, <3>1, <3>2, <3>3, <3>4, <3>5
  <2>2. CASE l > 0
    <3>1. l \in 1..4
      BY <2>2 DEF Levels
    <3>2. PICK p \in Nat, q \in Nat : p = First(l, j) /\ q = Last(l, j)
      BY <3>1, BlockHasPage
    <3>3. n \in Nat /\ p <= n /\ n <= q /\ Spans(b, Reach(l), p, q)
      BY <1>1, <3>1, <3>2, BlockHasPage
    <3>4. PICK R \in Nat \ {0, 1} : R = Reach(l)
      <4>1. l \in 0..4
        BY DEF Levels
      <4> QED BY <4>1, Sizes
    <3>5. b.from \in Nat /\ b.to \in Nat /\ b.from \div R = p /\ b.to \div R = q
      BY <3>3, <3>4, SpanOf
    <3>6. Reach(l + 1) = R * Entries /\ Entries \in Nat \ {0}
      BY <3>4, Reaches, WidthsAssumption
    <3>7. b.from = R * p /\ b.to = R * (q + 1) - 1
      BY <3>3, <3>4 DEF Spans
    <3>8. R * p < (R * Entries) * (L + 1) - 1 /\ (R * Entries) * F < R * (q + 1) - 1
      BY <1>3, <3>3, <3>6, EdgesMeet
    <3>9. b.pgtables # 0
      <4>1. PICK k : k = b.pgtables
        OBVIOUS
      <4> QED BY <1>1, <2>2 DEF Blocks
    <3> QED BY <1>4, <3>3, <3>4, <3>5, <3>6, <3>7, <3>8, <3>9
  <2> QED BY <2>1, <2>2 DEF Levels
<1>6. Entries * F <= n /\ \E x \in EntriesFor(maps, l, i, j) : x.place = n - Entries * F
  <2>1. Shared(l, i, j, F, L, n)
    BY <1>1, <1>3, <1>5 DEF Shared
  <2> QED BY <2>1, BlockHasEntry
<1> QED BY <1>1, <1>6

------------------------------------------------------------------------------
(* Tables are not writable.                                                 *)

LEMMA OneFrame ==
    ASSUME BuildInv, filled = image.total,
           NEW m \in 0..(image.total - 1), NEW n \in 0..(image.total - 1), p2m[m] = p2m[n]
    PROVE  m = n
<1>1. p2m[m] = FrameOf(m) /\ p2m[n] = FrameOf(n)
  BY DEF BuildInv, FramesInv
<1>2. image \in Images
  BY DEF BuildInv, CountersInv
<1> QED BY <1>1, <1>2, FramesDiffer

\* The page an entry is written into is one of its level's tables.
LEMMA EntryPage ==
    ASSUME MapsOK, NEW l \in Levels, NEW i \in DOMAIN maps, NEW j \in DOMAIN maps,
           Mapping(maps[i]), Mapping(maps[j]), NEW x \in EntriesFor(maps, l, i, j),
           NEW p, p = maps[i].levels[l].pfn + x.place \div Entries
    PROVE  /\ p \in Nat /\ p \in TablePages(maps[i])
           /\ Region(l + 1, i).pfn <= p
           /\ p < Region(l + 1, i).pfn + Region(l + 1, i).pgtables
<1>1. Region(l + 1, i) = maps[i].levels[l] /\ l + 1 \in 1..4
  BY DEF Region, Below, Levels
<1>2. PICK q \in Nat : q = x.place \div Entries /\ q < Region(l + 1, i).pgtables
  BY <1>1, EntriesAreInTables
<1>3. Region(l + 1, i).pfn \in Nat /\ Region(l + 1, i).pgtables \in Nat
  BY <1>1, TablesAreStacked
<1>4. /\ maps[i].levels[3].pfn <= Region(l + 1, i).pfn
      /\ Region(l + 1, i).pfn + Region(l + 1, i).pgtables
           <= maps[i].levels[3].pfn + maps[i].pgtables
  BY <1>1, LevelsAreApart
<1>5. maps[i].levels[3].pfn \in Nat /\ maps[i].pgtables \in Nat
  BY BothMaps
<1>6. p = Region(l + 1, i).pfn + q
  BY <1>1, <1>2
<1> QED BY <1>2, <1>3, <1>4, <1>5, <1>6 DEF TablePages

\* An entry of the lowest level points to a page of the domain, whatever the areas.
LEMMA PointsToPage ==
    ASSUME MapsOK, image.total \in Nat, NEW i \in DOMAIN maps, NEW j \in DOMAIN maps,
           Mapping(maps[i]), Mapping(maps[j]), NEW x \in EntriesFor(maps, 0, i, j)
    PROVE  x.pfn \in 0..(image.total - 1)
<1>1. PICK t, b : t = Region(1, i) /\ b = Region(0, j)
  OBVIOUS
<1>2. /\ t = maps[i].levels[0] /\ 0 \in Levels /\ 0 + 1 = 1
      /\ b.from = maps[j].from /\ b.to = maps[j].to /\ b.pfn = maps[j].pfn
  BY <1>1 DEF Region, Below, Levels
<1>3. b.from \in Nat /\ b.to \in Nat /\ b.pfn \in Nat
  BY <1>2 DEF Mapping, MappingType
<1>4. t.from \in Nat /\ t.to \in Int /\ t.from < t.to
  <2>1. t.from \in Nat /\ t.to \in Int /\ t.pgtables = TableCount(t, 0)
    BY <1>2 DEF Mapping, MappingType
  <2>2. PICK q \in Nat : q < t.pgtables
    BY <1>2, EntriesAreInTables
  <2>3. t.pgtables # 0
    BY <2>2
  <2> QED BY <2>1, <2>3 DEF TableCount
<1>5. Reach(1) \in Nat \ {0, 1} /\ Reach(0) = PageSize /\ PageSize \in Nat \ {0}
  BY <1>2, Reaches, WidthsAssumption
<1>6. PICK F \in Nat : t.from = Reach(1) * F
  <2>1. Aligned(t, Reach(1))
    BY <1>2 DEF Mapping
  <2>2. CASE t.from = 0
    <3>1. t.from = Reach(1) * 0
      BY <1>5, <2>2
    <3> QED BY <3>1
  <2>3. CASE \E a \in Int : t.from = Reach(1) * a
    <3>1. PICK a \in Int : t.from = Reach(1) * a
      BY <2>3
    <3>2. a >= 0
      <4> SUFFICES ASSUME a <= -1 PROVE FALSE
        BY <3>1
      <4>1. Reach(1) * a <= Reach(1) * (-1)
        BY <1>5, <3>1
      <4> QED BY <1>4, <1>5, <3>1, <4>1
    <3> QED BY <3>1, <3>2
  <2> QED BY <2>1, <2>2, <2>3 DEF Aligned
<1>7. \E n \in Nat :
        /\ b.from \div Reach(0) <= n /\ n <= b.to \div Reach(0)
        /\ x.pfn \in Nat /\ x.pfn <= b.pfn + (n - b.from \div Reach(0))
  <2>1. t = Region(0 + 1, i) /\ t.from = Reach(0 + 1) * F
    BY <1>1, <1>2, <1>6
  <2> QED BY <1>1, <1>2, <1>3, <1>4, <2>1, EntryStandsFor
<1>8. PICK n \in Nat :
        /\ maps[j].from \div PageSize <= n /\ n <= maps[j].to \div PageSize
        /\ x.pfn \in Nat /\ x.pfn <= maps[j].pfn + (n - maps[j].from \div PageSize)
  BY <1>2, <1>5, <1>7
<1>9. maps[j].from \div PageSize \in Nat /\ maps[j].to \div PageSize \in Nat
  BY <1>2, <1>3, <1>5, Parts
<1>10. maps[j].pfn + (maps[j].to \div PageSize - maps[j].from \div PageSize) < image.total
  <2>1. InMemory(maps[j])
    BY DEF MapsOK, LaidInv
  <2> QED BY <1>8, <1>9, <2>1 DEF InMemory
<1> QED BY <1>2, <1>3, <1>8, <1>9, <1>10

\* An area of whole pages
OfPages(m) == m.from % PageSize = 0 /\ (m.to + 1) % PageSize = 0

\* A page of an area and tables that have it reach into one another.
LEMMA AreaMeets ==
    ASSUME AreasOK, NEW i \in DOMAIN maps, NEW j \in DOMAIN maps,
           NEW n \in Blocks(0, j), n \div Entries \in Blocks(1, i),
           (i = 1 /\ j = 1) \/ OfPages(maps[j])
    PROVE  maps[j].from < Region(1, i).to /\ Region(1, i).from < maps[j].to
<1>1. 0 \in Levels /\ 0 + 1 = 1 /\ 1 \in 1..4
  BY DEF Levels
<1>2. PICK P \in Nat \ {0, 1} : P = PageSize
  BY WidthsAssumption
<1>3. PICK R \in Nat \ {0, 1} : R = Reach(1) /\ R = P * Entries
  BY <1>1, <1>2, Reaches, WidthsAssumption
<1>4. PICK from_ \in Nat, to_ \in Nat : from_ = maps[j].from /\ to_ = maps[j].to
  BY BothAreas
<1>5. from_ < to_
  BY <1>4, BothAreas
<1>6. PICK x \in Nat, y \in Nat : x = First(1, i) /\ y = Last(1, i)
  BY <1>1, BlockHasPage
<1>7. /\ Region(1, i).from = R * x /\ Region(1, i).to = R * (y + 1) - 1
      /\ x <= n \div Entries /\ n \div Entries <= y
  BY <1>1, <1>3, <1>6, BlockHasPage DEF Spans
<1>8. n \in Nat /\ from_ \div P <= n /\ n <= to_ \div P
  <2>1. /\ First(0, j) \in Nat /\ Last(0, j) \in Nat
        /\ n \in First(0, j)..Last(0, j)
    BY AreaIs
  <2>2. First(0, j) = from_ \div P /\ Last(0, j) = to_ \div P
    BY <1>2, <1>4, AreaIs
  <2> QED BY <2>1, <2>2
<1>9. CASE i = 1 /\ j = 1
  <2>1. Blocks(1, 1) = (from_ \div R)..(to_ \div R)
    BY <1>3, <1>4, <1>9, BlocksCover
  <2>2. x = from_ \div R /\ y = to_ \div R
    <3>1. PICK m : m = maps[1]
      OBVIOUS
    <3>2. Laid(<<>>, m) /\ m.from <= m.to
      BY <3>1, BothAreas
    <3>3. Spans(m.levels[0], R, from_ \div R, to_ \div R)
      BY <1>1, <1>3, <1>4, <1>9, <3>1, <3>2, FirstSpans
    <3>4. Region(1, 1) = m.levels[0]
      BY <3>1 DEF Region, Below
    <3>5. Region(1, 1).from \div R = from_ \div R /\ Region(1, 1).to \div R = to_ \div R
      BY <3>3, <3>4, SpanOf
    <3> QED BY <1>3, <1>6, <1>9, <3>5 DEF First, Last
  <2>3. R * x <= from_
    BY <2>2, Between
  <2>4. to_ <= R * (y + 1) - 1
    BY <2>2, Between
  <2>5. R * x \in Nat /\ R * (y + 1) \in Nat
    OBVIOUS
  <2>6. R * x < to_ /\ from_ < R * (y + 1) - 1
    BY <1>5, <2>3, <2>4, <2>5
  <2> QED BY <1>4, <1>7, <2>6
<1>10. CASE OfPages(maps[j])
  <2>1. PICK c \in Nat, d \in Nat : c = from_ \div P /\ d = (to_ + 1) \div P
    BY Parts
  <2>2. from_ = P * c /\ to_ + 1 = P * d
    <3>1. from_ % P = 0 /\ (to_ + 1) % P = 0 /\ to_ + 1 \in Nat
      BY <1>2, <1>4, <1>10 DEF OfPages
    <3>2. from_ = P * (from_ \div P) + (from_ % P)
      BY Parts
    <3>3. to_ + 1 = P * ((to_ + 1) \div P) + ((to_ + 1) % P)
      BY <3>1, Parts
    <3>4. P * c \in Nat /\ P * d \in Nat
      OBVIOUS
    <3> QED BY <2>1, <3>1, <3>2, <3>3, <3>4
  <2>3. d # 0 /\ d - 1 \in Nat /\ n <= d - 1
    <3>1. d # 0
      <4>1. P * 0 = 0
        OBVIOUS
      <4> QED BY <2>2, <4>1
    <3>2. to_ <= P * ((d - 1) + 1) - 1 /\ d - 1 \in Nat
      BY <2>2, <3>1
    <3>3. to_ \div P <= d - 1
      BY <3>2, Between
    <3>4. to_ \div P \in Nat
      BY Parts
    <3> QED BY <1>8, <3>1, <3>2, <3>3, <3>4
  <2>4. c <= n
    BY <1>8, <2>1
  <2>5. P * c < (P * Entries) * (y + 1) - 1 /\ (P * Entries) * x < P * ((d - 1) + 1) - 1
    BY <1>7, <1>8, <2>3, <2>4, WidthsAssumption, EdgesMeet
  <2>6. P * d \in Nat /\ (d - 1) + 1 = d
    OBVIOUS
  <2> QED BY <1>3, <1>4, <1>7, <2>2, <2>5, <2>6
<1> QED BY <1>9, <1>10

\* Where in the tables the entry for a block is
LEMMA PlaceIs ==
    ASSUME AreasOK, NEW l \in Levels, NEW i \in DOMAIN maps, NEW n \in Nat,
           n \div Entries \in Blocks(l + 1, i),
           NEW place_, place_ = n - Entries * First(l + 1, i)
    PROVE  /\ maps[i].levels[l].pfn + place_ \div Entries = PageOf(l + 1, i, n \div Entries)
           /\ place_ % Entries = n % Entries
<1>1. PICK F : F = First(l + 1, i)
  OBVIOUS
<1>2. PICK K \in Nat \ {0} : K = Entries
  BY WidthsAssumption
<1>3. l + 1 \in 1..4 /\ Region(l + 1, i) = maps[i].levels[l]
  BY DEF Region, Below, Levels
<1>4. F \in Nat /\ F <= n \div K
  BY <1>1, <1>2, <1>3, BlockHasPage
<1>5. n \div K \in Nat /\ n = K * (n \div K) + (n % K) /\ n % K \in 0..(K - 1)
  BY Parts
<1>6. K * F <= n
  <2>1. PICK q \in Nat : q = n \div K
    BY <1>5
  <2>2. K * F <= K * q
    BY <1>4, <2>1, MulGrows
  <2>3. K * F \in Nat /\ K * q \in Nat
    BY <1>4
  <2> QED BY <1>5, <2>1, <2>2, <2>3
<1>7. (n - K * F) \div K = n \div K - F /\ (n - K * F) % K = n % K
  BY <1>4, <1>6, DivShift
<1>8. place_ \div K = n \div K - F /\ place_ % K = n % K
  BY <1>1, <1>2, <1>7
<1>9. maps[i].levels[l].pfn \in Nat
  BY <1>3, TablesAreStacked DEF AreasOK
<1>10. maps[i].levels[l].pfn + (n \div K - F) = maps[i].levels[l].pfn + n \div K - F
  BY <1>4, <1>5, <1>9
<1> QED BY <1>1, <1>2, <1>3, <1>8, <1>10 DEF PageOf

\* Of the numbers a to b one is in the block k of size K.
Meets(a, b, K, k) == \E n \in Nat : a <= n /\ n <= b /\ n \div K = k

LEMMA SomeInBlock ==
    ASSUME NEW K \in Nat \ {0}, NEW a \in Nat, NEW b \in Nat, a <= b, NEW k \in Nat,
           a \div K <= k, k <= b \div K
    PROVE  Meets(a, b, K, k)
<1>1. a \div K \in Nat /\ b \div K \in Nat
  BY Parts
<1>2. K * k \in Nat
  OBVIOUS
<1>3. CASE a <= K * k
  <2>1. K * k <= b
    <3>1. PICK q \in Nat, r \in Nat : q = b \div K /\ b = K * q + r
      BY Parts
    <3>2. K * k <= K * q /\ K * q \in Nat
      BY <3>1, MulGrows
    <3> QED BY <1>2, <3>1, <3>2
  <2>2. PICK n : n = K * k + 0
    OBVIOUS
  <2>3. n \div K = k
    BY <2>2, DivIs
  <2> QED BY <1>2, <1>3, <2>1, <2>2, <2>3 DEF Meets
<1>4. CASE K * k < a
  <2>1. k <= a \div K
    BY <1>4, AtMost
  <2>2. a \div K = k
    BY <1>1, <2>1
  <2> QED BY <2>2 DEF Meets
<1> QED BY <1>2, <1>3, <1>4

\* Every table has an entry.
LEMMA EveryTableHasEntry ==
    ASSUME AreasOK, NEW l \in Levels, NEW h \in DOMAIN maps, NEW k \in Blocks(l + 1, h),
           Mapping(maps[1]), Mapping(maps[2]), h = 1 \/ OfPages(maps[h])
    PROVE  \E j \in DOMAIN maps : \E x \in EntriesFor(maps, l, h, j) :
             maps[h].levels[l].pfn + x.place \div Entries = PageOf(l + 1, h, k)
<1>1. l + 1 \in 1..4 /\ l \in 0..4 /\ l + 1 \in 0..4
  BY DEF Levels
<1>2. PICK K \in Nat \ {0}, R \in Nat \ {0} : K = Entries /\ R = Reach(l) /\ Reach(l + 1) = R * K
  BY Reaches, WidthsAssumption
<1>3. PICK from_ \in Nat, to_ \in Nat : from_ = maps[h].from /\ to_ = maps[h].to /\ from_ < to_
  BY BothAreas
<1>4. DOMAIN maps = {1, 2}
  BY BothAreas
<1>5. k \in Nat /\ from_ \div (R * K) <= k /\ k <= to_ \div (R * K)
  <2>1. k \in Nat
    BY <1>1, BlockHasPage
  <2>2. CASE h = 1
    <3>1. Blocks(l + 1, 1) = (maps[1].from \div Reach(l + 1))..(maps[1].to \div Reach(l + 1))
      BY <1>1, BlocksCover
    <3> QED BY <1>2, <1>3, <2>1, <2>2, <3>1
  <2>3. CASE h = 2
    <3>1. Blocks(l + 1, 2) \subseteq (maps[2].from \div Reach(l + 1))..(maps[2].to \div Reach(l + 1))
      BY <1>1, BlocksCover
    <3> QED BY <1>2, <1>3, <2>1, <2>3, <3>1
  <2> QED BY <1>4, <2>2, <2>3
<1>6. PICK a \in Nat, b \in Nat : a = from_ \div R /\ b = to_ \div R
  BY Parts
<1>7. a <= b
  BY <1>3, <1>6, DivGrows
<1>8. k \in Nat /\ a \div K <= k /\ k <= b \div K
  BY <1>5, <1>6, DivTwiceIs
<1>9. Meets(a, b, K, k)
  BY <1>7, <1>8, SomeInBlock
<1>10. PICK n \in Nat : a <= n /\ n <= b /\ n \div Entries = k
  BY <1>2, <1>9 DEF Meets
<1>11. \E j \in DOMAIN maps : n \in Blocks(l, j) /\ (l = 0 => j = h)
  <2>1. CASE l = 0
    <3>1. Blocks(0, h) = First(0, h)..Last(0, h)
      BY AreaIs
    <3>2. First(0, h) = maps[h].from \div PageSize /\ Last(0, h) = maps[h].to \div PageSize
      BY AreaIs
    <3>3. R = PageSize
      BY <1>2, <2>1, WidthsAssumption
    <3> QED BY <1>3, <1>6, <1>10, <2>1, <3>1, <3>2, <3>3
  <2>2. CASE l # 0
    <3>1. /\ Blocks(l, 1) = (maps[1].from \div Reach(l))..(maps[1].to \div Reach(l))
          /\ (maps[2].from \div Reach(l))..(maps[2].to \div Reach(l))
               \subseteq Blocks(l, 1) \cup Blocks(l, 2)
      BY <1>1, BlocksCover
    <3>2. n \in (maps[h].from \div Reach(l))..(maps[h].to \div Reach(l))
      BY <1>2, <1>3, <1>6, <1>10
    <3>3. n \in Blocks(l, 1) \cup Blocks(l, 2)
      <4>1. CASE h = 1
        BY <3>1, <3>2, <4>1
      <4>2. CASE h = 2
        BY <3>1, <3>2, <4>2
      <4> QED BY <1>4, <4>1, <4>2
    <3> QED BY <1>4, <2>2, <3>3
  <2> QED BY <2>1, <2>2
<1>12. PICK j \in DOMAIN maps : n \in Blocks(l, j) /\ (l = 0 => j = h)
  BY <1>11
<1>13. l = 0 => maps[j].from < Region(1, h).to /\ Region(1, h).from < maps[j].to
  <2>1. CASE l = 0
    <3>1. n \in Blocks(0, j) /\ n \div Entries \in Blocks(1, h) /\ j = h
      BY <1>10, <1>12, <2>1
    <3> QED BY <3>1, AreaMeets
  <2> QED BY <2>1
<1>14. \E x \in EntriesFor(maps, l, h, j) : x.place = n - Entries * First(l + 1, h)
  BY <1>10, <1>12, <1>13, EntryThere
<1>15. PICK x \in EntriesFor(maps, l, h, j) : x.place = n - Entries * First(l + 1, h)
  BY <1>14
<1>16. maps[h].levels[l].pfn + x.place \div Entries = PageOf(l + 1, h, k)
  BY <1>10, <1>15, PlaceIs
<1> QED BY <1>16

------------------------------------------------------------------------------
(* Areas that do not go round the end of the address space.                 *)

\* The address space is made of whole pages.
LEMMA SpaceOfPages == \E c \in Nat \ {0} : 2^VirtBits = PageSize * c
<1>1. Levels = {0, 1, 2, 3}
  BY DEF Levels
<1>2. PICK K \in Nat \ {0}, P \in Nat \ {0} : K = Entries /\ P = PageSize
  BY WidthsAssumption
<1>3. /\ Reach(0) = P /\ Reach(0 + 1) = Reach(0) * K /\ Reach(1 + 1) = Reach(1) * K
      /\ Reach(2 + 1) = Reach(2) * K /\ Reach(3 + 1) = Reach(3) * K /\ Reach(4) = 2^VirtBits
  BY <1>1, <1>2, WidthsAssumption
<1>4. 2^VirtBits = (((P * K) * K) * K) * K
  BY <1>3
<1> DEFINE c == ((K * K) * K) * K
<1>5. c \in Nat \ {0}
  <2>1. \A x, y \in Nat \ {0} : x * y \in Nat \ {0}
    OBVIOUS
  <2> QED BY <2>1
<1>6. (((P * K) * K) * K) * K = P * c
  OBVIOUS
<1> QED BY <1>2, <1>4, <1>5, <1>6

LEMMA MultipleIs ==
    ASSUME NEW P \in Nat \ {0}, NEW z \in Nat, NEW m, m = P * z
    PROVE  m \div P = z /\ m % P = 0
<1>1. P * z \in Nat
  OBVIOUS
<1>2. m = P * z + 0 /\ 0 \in 0..(P - 1)
  BY <1>1
<1> QED BY <1>2, DivIs

\* What is left of an address at the beginning of a page is one, too.
LEMMA PartOfPages ==
    ASSUME NEW P \in Nat \ {0}, NEW c \in Nat \ {0}, NEW a \in Nat, a % P = 0
    PROVE  (a % (P * c)) % P = 0
<1>1. PICK V \in Nat \ {0} : V = P * c
  OBVIOUS
<1>2. PICK q \in Nat, r \in Nat : r = a % V /\ a = V * q + r
  <2>1. a \div V \in Nat /\ a % V \in 0..(V - 1) /\ a = V * (a \div V) + (a % V)
    BY Parts
  <2>2. a % V \in Nat
    BY <2>1
  <2> QED BY <2>1, <2>2
<1>3. PICK d \in Nat : a = P * d
  <2>1. a \div P \in Nat /\ a = P * (a \div P) + (a % P)
    BY Parts
  <2>2. P * (a \div P) \in Nat
    BY <2>1
  <2> QED BY <2>1, <2>2
<1>4. PICK e \in Nat : e = c * q
  OBVIOUS
<1>5. V * q = P * e
  BY <1>1, <1>4
<1>6. P * e <= P * d /\ P * e \in Nat /\ P * d \in Nat
  <2>1. P * e \in Nat /\ P * d \in Nat
    OBVIOUS
  <2>2. P * d = P * e + r
    BY <1>2, <1>3, <1>5
  <2> QED BY <2>1, <2>2
<1>7. e <= d
  <2>1. d < e => P * d + P <= P * e
    BY MulGrows
  <2> QED BY <1>6, <2>1
<1>8. PICK f \in Nat : f = d - e
  BY <1>7
<1>9. r = P * f + 0 /\ 0 \in 0..(P - 1)
  <2>1. P * (d - e) = P * d - P * e
    OBVIOUS
  <2>2. P * d = P * e + r
    BY <1>2, <1>3, <1>5
  <2>3. r = P * f
    BY <1>6, <1>8, <2>1, <2>2
  <2> QED BY <2>3
<1>10. r % P = 0
  BY <1>9, DivIs
<1> QED BY <1>1, <1>2, <1>10

\* What an area of n bytes at a is without its upper bits
LEMMA WholeArea ==
    ASSUME NEW V \in Nat \ {0}, NEW a \in Nat, NEW n \in Nat, n >= 2, (a % V) + n <= V
    PROVE  a % V \in Nat /\ (a + n - 1) % V = (a % V) + n - 1 /\ a % V < (a + n - 1) % V
<1>1. PICK q \in Nat, r \in Nat : r = a % V /\ a = V * q + r /\ q = a \div V
  BY Parts
<1>2. V * q \in Nat
  OBVIOUS
<1>3. PICK s \in 0..(V - 1), b \in Nat : s = r + n - 1 /\ b = a + n - 1 /\ b = V * q + s
  BY <1>1, <1>2
<1>4. b % V = s
  <2>1. b = V * q + s
    BY <1>3
  <2> QED BY <2>1, DivIs
<1> QED BY <1>1, <1>3, <1>4

\* An area of whole pages stays one.
Whole(a, n, V, P) == /\ a % P = 0 /\ n % P = 0 /\ (a % V) + n <= V /\ n >= 2
                     /\ \E c \in Nat \ {0} : V = P * c
Paged(a, n, V, P) == (a % V) % P = 0 /\ (((a + n - 1) % V) + 1) % P = 0

LEMMA AreaOfPages ==
    ASSUME NEW P \in Nat \ {0}, NEW V \in Nat \ {0}, NEW a \in Nat, NEW n \in Nat,
           Whole(a, n, V, P)
    PROVE  Paged(a, n, V, P)
<1>0. a % P = 0 /\ n % P = 0 /\ (a % V) + n <= V /\ n >= 2
  BY DEF Whole
<1>1. PICK c \in Nat \ {0} : V = P * c
  BY DEF Whole
<1>2. PICK r \in Nat : r = a % V
  <2>1. a % V \in 0..(V - 1)
    BY Parts
  <2> QED BY <2>1
<1>3. r % P = 0
  BY <1>0, <1>1, <1>2, PartOfPages
<1>4. (a + n - 1) % V = r + n - 1
  BY <1>0, <1>2, WholeArea
<1>5. PICK x \in Nat, y \in Nat : r = P * x /\ n = P * y
  <2>1. r \div P \in Nat /\ r = P * (r \div P) + (r % P)
    BY Parts
  <2>2. n \div P \in Nat /\ n = P * (n \div P) + (n % P)
    BY Parts
  <2>3. PICK x \in Nat, y \in Nat : x = r \div P /\ y = n \div P
    BY <2>1, <2>2
  <2>4. P * x \in Nat /\ P * y \in Nat
    OBVIOUS
  <2>5. r = P * x + (r % P)
    BY <2>1, <2>3
  <2>6. n = P * y + (n % P)
    BY <2>2, <2>3
  <2>7. r = P * x /\ n = P * y
    BY <1>0, <1>3, <2>4, <2>5, <2>6
  <2> QED BY <2>7
<1>6. PICK z \in Nat, m \in Nat : z = x + y /\ m = P * z /\ m = r + n
  <2>1. P * (x + y) = P * x + P * y
    OBVIOUS
  <2> QED BY <1>5, <2>1
<1>7. m % P = 0
  BY <1>6, MultipleIs
<1>8. ((a + n - 1) % V) + 1 = m
  BY <1>4, <1>6
<1> QED BY <1>2, <1>3, <1>7, <1>8 DEF Paged

\* When tables are written both mappings are there, with frames for their pages.
LEMMA MapsAre ==
    ASSUME BuildInv, MapInv, memory # {}
    PROVE  /\ MapsOK /\ filled = image.total /\ image \in ImageType /\ image.total \in Nat
           /\ DOMAIN maps = {1, 2} /\ Mapping(maps[1]) /\ Mapping(maps[2])
           /\ \A i \in DOMAIN maps : TablePages(maps[i]) \subseteq 0..(image.total - 1)
<1>1. image \in Images /\ filled = image.total /\ maps \in Seq(MappingType)
      /\ \A i \in DOMAIN maps : Mapping(maps[i])
  BY DEF BuildInv, CountersInv, TablesInv, TabsInv
<1>2. image \in ImageType /\ image.total \in Nat
  BY <1>1, TotalIsNat
<1>3. Len(maps) = 2 /\ LaidInv
  BY DEF MapInv, AreasInv, CountsInv, Settled
<1>4. MapsOK
  BY <1>1, <1>3 DEF MapsOK
<1>5. DOMAIN maps = {1, 2}
  BY <1>4, BothMaps
<1>6. ASSUME NEW i \in DOMAIN maps PROVE TablePages(maps[i]) \subseteq 0..(image.total - 1)
  <2>1. maps[i].levels[3].pfn \in Nat /\ maps[i].pgtables \in Nat
    BY <1>4, BothMaps
  <2>2. maps[i].levels[3].pfn + maps[i].pgtables <= image.total
    BY DEF MapInv, EntriesInv
  <2> QED BY <1>2, <2>1, <2>2 DEF TablePages
<1> QED BY <1>1, <1>2, <1>4, <1>5, <1>6

\* Areas that are whole go from a lower to a higher address, and consist of
\* whole pages when they begin with one.
LEMMA AreasAre ==
    ASSUME BuildInv, MapInv, memory # {}, AreasAreWhole
    PROVE  /\ AreasOK
           /\ ~p2mFirst \/ image.base % PageSize = 0 => OfPages(maps[2])
           /\ maps[KernelAt].to = maps[KernelAt].from + (pgend - image.base) - 1
           /\ maps[ListAt].to = maps[ListAt].from + p2mPages * PageSize - 1
           /\ p2mPages \in Nat /\ pgend \in Nat
<1>1. /\ MapsOK /\ image \in ImageType /\ image.total \in Nat /\ DOMAIN maps = {1, 2}
  BY MapsAre
<1>2. /\ image.base \in Nat /\ image.p2mBase \in Nat /\ pgend \in Nat
  BY <1>1 DEF ImageType, BuildInv, CountersInv
<1>3. KernelAt \in DOMAIN maps /\ ListAt \in DOMAIN maps /\ {KernelAt, ListAt} = {1, 2}
  BY <1>1 DEF KernelAt, ListAt
<1>4. PICK P \in Nat \ {0, 1}, c \in Nat \ {0}, V \in Nat \ {0} :
         P = PageSize /\ V = 2^VirtBits /\ V = P * c
  <2>1. PICK c \in Nat \ {0} : 2^VirtBits = PageSize * c
    BY SpaceOfPages
  <2>2. PICK P \in Nat \ {0, 1} : P = PageSize
    BY WidthsAssumption
  <2>3. 2^VirtBits \in Nat \ {0}
    BY WidthsAssumption
  <2> QED BY <2>1, <2>2, <2>3
<1>5. /\ pgend > image.base + 1 /\ pgend % P = 0 /\ p2mPages > 0
      /\ maps[KernelAt].from = image.base % V /\ maps[KernelAt].to = (pgend - 1) % V
      /\ maps[ListAt].from = image.p2mBase % V
      /\ maps[ListAt].to = (image.p2mBase + p2mPages * P - 1) % V
  BY <1>3, <1>4 DEF MapInv, AreasInv, RangesInv
<1>6. p2mPages \in Nat
  <2>1. image.total + Entries - 1 \in Nat /\ Entries \in Nat \ {0}
    BY <1>1, WidthsAssumption
  <2> QED BY <2>1, Parts DEF p2mPages
<1>7. PICK n \in Nat : n = pgend - image.base /\ n >= 2 /\ image.base + n - 1 = pgend - 1
  BY <1>2, <1>5
<1>8. PICK k \in Nat : k = p2mPages * P /\ k >= 2 /\ k = P * p2mPages
  <2>1. P * 1 <= P * p2mPages
    BY <1>5, <1>6, MulGrows
  <2>2. P * p2mPages \in Nat /\ p2mPages * P = P * p2mPages
    BY <1>6
  <2> QED BY <2>1, <2>2
<1>9. (image.base % V) + n <= V /\ (image.p2mBase % V) + k <= V
  BY <1>4, <1>7, <1>8 DEF AreasAreWhole
<1>10. PICK x \in Nat, y \in Nat : x = image.base /\ y = image.p2mBase
  BY <1>2
<1>11. x % V \in Nat /\ (x + n - 1) % V = (x % V) + n - 1 /\ x % V < (x + n - 1) % V
  BY <1>7, <1>9, <1>10, WholeArea
<1>12. y % V \in Nat /\ (y + k - 1) % V = (y % V) + k - 1 /\ y % V < (y + k - 1) % V
  BY <1>8, <1>9, <1>10, WholeArea
<1>13. /\ maps[KernelAt].from = x % V /\ maps[KernelAt].to = (x + n - 1) % V
       /\ maps[ListAt].from = y % V /\ maps[ListAt].to = (y + k - 1) % V
  BY <1>5, <1>7, <1>8, <1>10
<1>14. AreasOK
  BY <1>1, <1>3, <1>11, <1>12, <1>13 DEF AreasOK
<1>15. ASSUME ~p2mFirst PROVE OfPages(maps[2])
  <2>1. y % P = 0 /\ maps[2].from = y % V /\ maps[2].to = (y + k - 1) % V
    BY <1>4, <1>10, <1>13, <1>15 DEF ListAt, p2mFirst
  <2>2. k % P = 0
    <3>1. PICK z \in Nat : z = p2mPages
      BY <1>6
    <3>2. k = P * z + 0 /\ 0 \in 0..(P - 1)
      BY <1>8, <3>1
    <3> QED BY <3>2, DivIs
  <2>3. Whole(y, k, V, P)
    BY <1>4, <1>8, <1>9, <1>10, <2>1, <2>2 DEF Whole
  <2>4. Paged(y, k, V, P)
    BY <2>3, AreaOfPages
  <2> QED BY <1>4, <2>1, <2>4 DEF OfPages, Paged
<1>16. ASSUME p2mFirst, image.base % PageSize = 0 PROVE OfPages(maps[2])
  <2>1. x % P = 0 /\ maps[2].from = x % V /\ maps[2].to = (x + n - 1) % V
    BY <1>4, <1>10, <1>13, <1>16 DEF KernelAt
  <2>2. n % P = 0
    <3>1. PICK e \in Nat : e = pgend
      BY <1>2
    <3>2. e % P = 0 /\ n = e - x
      BY <1>5, <1>7, <1>10, <3>1
    <3>3. e \div P \in Nat /\ e = P * (e \div P) + (e % P)
      BY Parts
    <3>4. x \div P \in Nat /\ x = P * (x \div P) + (x % P)
      BY Parts
    <3>5. PICK f \in Nat, g \in Nat : f = e \div P /\ g = x \div P
      BY <3>3, <3>4
    <3>6. P * f \in Nat /\ P * g \in Nat
      OBVIOUS
    <3>7. e = P * f /\ x = P * g
      BY <2>1, <3>2, <3>3, <3>4, <3>5, <3>6
    <3>8. g <= f
      <4>1. f < g => P * f + P <= P * g
        BY MulGrows
      <4> QED BY <1>7, <3>2, <3>6, <3>7, <4>1
    <3>9. PICK h \in Nat : h = f - g
      BY <3>8
    <3>10. n = P * h + 0 /\ 0 \in 0..(P - 1)
      <4>1. P * (f - g) = P * f - P * g
        OBVIOUS
      <4>2. n = P * h
        BY <3>2, <3>7, <3>9, <4>1
      <4> QED BY <4>2
    <3> QED BY <3>10, DivIs
  <2>3. Whole(x, n, V, P)
    BY <1>4, <1>7, <1>9, <1>10, <2>1, <2>2 DEF Whole
  <2>4. Paged(x, n, V, P)
    BY <2>3, AreaOfPages
  <2> QED BY <1>4, <2>1, <2>4 DEF OfPages, Paged
<1>17. /\ maps[KernelAt].to = maps[KernelAt].from + (pgend - image.base) - 1
       /\ maps[ListAt].to = maps[ListAt].from + p2mPages * PageSize - 1
  BY <1>4, <1>7, <1>8, <1>11, <1>12, <1>13
<1> QED BY <1>2, <1>6, <1>14, <1>15, <1>16, <1>17

\* An entry in memory is in the table that its page says, and no other.
LEMMA EntryOf ==
    ASSUME BuildInv, MapInv, NEW e \in memory
    PROVE  \E l \in Levels : \E i, j \in DOMAIN maps : \E x \in EntriesFor(maps, l, i, j) :
             \E p \in TablePages(maps[i]) :
               /\ e = Entry(l, i, x) /\ e.frame = p2m[p] /\ p \in 0..(image.total - 1)
               /\ p = maps[i].levels[l].pfn + x.place \div Entries
               /\ Region(l + 1, i).pfn <= p
               /\ p < Region(l + 1, i).pfn + Region(l + 1, i).pgtables
<1>1. memory # {}
  OBVIOUS
<1>2. PICK l \in Levels, i \in DOMAIN maps, j \in DOMAIN maps :
         \E x \in EntriesFor(maps, l, i, j) : e = Entry(l, i, x)
  BY <1>1 DEF MapInv, EntriesInv
<1>3. PICK x \in EntriesFor(maps, l, i, j) : e = Entry(l, i, x)
  BY <1>2
<1>4. PICK p : p = maps[i].levels[l].pfn + x.place \div Entries
  OBVIOUS
<1>5. MapsOK /\ DOMAIN maps = {1, 2} /\ Mapping(maps[1]) /\ Mapping(maps[2])
      /\ TablePages(maps[i]) \subseteq 0..(image.total - 1)
  BY <1>1, MapsAre
<1>6. Mapping(maps[i]) /\ Mapping(maps[j])
  BY <1>5
<1>7. /\ p \in TablePages(maps[i]) /\ Region(l + 1, i).pfn <= p
      /\ p < Region(l + 1, i).pfn + Region(l + 1, i).pgtables
  BY <1>4, <1>5, <1>6, EntryPage
<1>8. e.frame = p2m[p]
  BY <1>3, <1>4 DEF Entry
<1> QED BY <1>3, <1>4, <1>5, <1>7, <1>8

\* A page that holds a table is one that something has been written into.
LEMMA TablePagesAreUsed ==
    ASSUME BuildInv, MapInv, memory # {}, AreasAreWhole, image.base % PageSize = 0,
           NEW i \in DOMAIN maps, NEW p \in TablePages(maps[i])
    PROVE  p2m[p] \in TableFrames
<1>1. /\ AreasOK /\ (i = 1 \/ OfPages(maps[i]))
      /\ DOMAIN maps = {1, 2} /\ Mapping(maps[1]) /\ Mapping(maps[2])
  <2>1. DOMAIN maps = {1, 2} /\ Mapping(maps[1]) /\ Mapping(maps[2])
    BY MapsAre
  <2>2. AreasOK /\ OfPages(maps[2])
    BY AreasAre
  <2> QED BY <2>1, <2>2
<1>2. PICK lv \in 1..4 : \E n \in Blocks(lv, i) : p = PageOf(lv, i, n)
  BY <1>1, TablePageHasBlock
<1>3. PICK n \in Blocks(lv, i) : p = PageOf(lv, i, n)
  BY <1>2
<1>4. PICK l \in Levels : lv = l + 1
  BY DEF Levels
<1>5. n \in Blocks(l + 1, i)
  BY <1>3, <1>4
<1>6. \E j \in DOMAIN maps : \E x \in EntriesFor(maps, l, i, j) :
        maps[i].levels[l].pfn + x.place \div Entries = PageOf(l + 1, i, n)
  BY <1>1, <1>5, EveryTableHasEntry
<1>7. PICK j \in DOMAIN maps : \E x \in EntriesFor(maps, l, i, j) :
        maps[i].levels[l].pfn + x.place \div Entries = PageOf(l + 1, i, n)
  BY <1>6
<1>8. PICK x \in EntriesFor(maps, l, i, j) :
        maps[i].levels[l].pfn + x.place \div Entries = PageOf(l + 1, i, n)
  BY <1>7
<1>9. Entry(l, i, x) \in memory
  BY <1>8 DEF MapInv, EntriesInv
<1>10. Entry(l, i, x).frame = p2m[p]
  BY <1>3, <1>4, <1>8 DEF Entry
<1> QED BY <1>9, <1>10 DEF TableFrames

\* An entry in a table of the lowest level comes from that level.
LEMMA LeafEntry ==
    ASSUME BuildInv, MapInv, NEW e \in memory, e.frame \in LeafFrames
    PROVE  \E i, j \in DOMAIN maps : \E x \in EntriesFor(maps, 0, i, j) : e = Entry(0, i, x)
<1>1. PICK l \in Levels, i \in DOMAIN maps, j \in DOMAIN maps :
         \E x \in EntriesFor(maps, l, i, j) : \E p \in TablePages(maps[i]) :
           /\ e = Entry(l, i, x) /\ e.frame = p2m[p] /\ p \in 0..(image.total - 1)
           /\ Region(l + 1, i).pfn <= p
           /\ p < Region(l + 1, i).pfn + Region(l + 1, i).pgtables
  BY EntryOf
<1>2. PICK x \in EntriesFor(maps, l, i, j), p \in TablePages(maps[i]) :
           /\ e = Entry(l, i, x) /\ e.frame = p2m[p] /\ p \in 0..(image.total - 1)
           /\ Region(l + 1, i).pfn <= p
           /\ p < Region(l + 1, i).pfn + Region(l + 1, i).pgtables
  BY <1>1
<1>3. memory # {}
  OBVIOUS
<1>4. PICK h \in DOMAIN maps : \E k \in 0..(maps[h].levels[0].pgtables - 1) :
         e.frame = p2m[maps[h].levels[0].pfn + k]
  BY DEF LeafFrames
<1>5. PICK k \in 0..(maps[h].levels[0].pgtables - 1) :
         e.frame = p2m[maps[h].levels[0].pfn + k]
  BY <1>4
<1>6. PICK q : q = maps[h].levels[0].pfn + k
  OBVIOUS
<1>7. /\ MapsOK /\ filled = image.total /\ image.total \in Nat
      /\ TablePages(maps[h]) \subseteq 0..(image.total - 1)
  BY <1>3, MapsAre
<1>8. Region(1, h) = maps[h].levels[0] /\ 1 \in 1..4 /\ 0 \in Levels /\ l + 1 \in 1..4
  BY DEF Region, Below, Levels
<1>9. Region(1, h).pfn \in Nat /\ Region(1, h).pgtables \in Nat
  BY <1>7, <1>8, TablesAreStacked
<1>10. Region(1, h).pfn <= q /\ q < Region(1, h).pfn + Region(1, h).pgtables /\ q \in Nat
  BY <1>5, <1>6, <1>8, <1>9
<1>11. q \in TablePages(maps[h])
  <2>1. /\ maps[h].levels[3].pfn <= Region(1, h).pfn
        /\ Region(1, h).pfn + Region(1, h).pgtables <= maps[h].levels[3].pfn + maps[h].pgtables
    BY <1>7, <1>8, LevelsAreApart
  <2>2. maps[h].levels[3].pfn \in Nat /\ maps[h].pgtables \in Nat
    BY <1>7, BothMaps
  <2> QED BY <1>9, <1>10, <2>1, <2>2 DEF TablePages
<1>12. p = q
  <2>1. q \in 0..(image.total - 1) /\ p \in 0..(image.total - 1) /\ p2m[p] = p2m[q]
    BY <1>2, <1>5, <1>6, <1>7, <1>11
  <2> QED BY <1>7, <2>1, OneFrame
<1>13. l + 1 = 1
  BY <1>2, <1>7, <1>8, <1>10, <1>12, RegionsAreApart
<1>14. l = 0
  BY <1>13 DEF Levels
<1> QED BY <1>2, <1>14

LEMMA ReadOnly == ASSUME BuildInv, MapInv PROVE TablesAreReadOnly
<1> SUFFICES ASSUME NEW e \in memory, e.frame \in LeafFrames
             PROVE  /\ e.rw => e.to \notin TableFrames
                    /\ AreasAreWhole /\ image.base % PageSize = 0 /\ e.to \notin TableFrames
                         => e.rw
  BY DEF TablesAreReadOnly
<1>1. PICK i \in DOMAIN maps, j \in DOMAIN maps :
         \E x \in EntriesFor(maps, 0, i, j) : e = Entry(0, i, x)
  BY LeafEntry
<1>2. PICK x \in EntriesFor(maps, 0, i, j) : e = Entry(0, i, x)
  BY <1>1
<1>3. memory # {}
  OBVIOUS
<1>4. /\ MapsOK /\ filled = image.total /\ image.total \in Nat
      /\ Mapping(maps[i]) /\ Mapping(maps[j])
  BY <1>3, MapsAre
<1>5. x.rw = Writable(maps, 0, x.pfn)
  <2>1. \E pfn_ : x.pfn = pfn_ /\ x.rw = Writable(maps, 0, pfn_)
    BY DEF EntriesFor
  <2> QED BY <2>1
<1>6. x.pfn \in 0..(image.total - 1)
  BY <1>4, PointsToPage
<1>7. e.to = p2m[x.pfn] /\ e.rw = x.rw
  BY <1>2 DEF Entry
<1>8. x.rw <=> \A h \in DOMAIN maps : x.pfn \notin TablePages(maps[h])
  <2>1. ~(0 > 0)
    OBVIOUS
  <2>2. Writable(maps, 0, x.pfn) <=> \A h \in DOMAIN maps : x.pfn \notin TablePages(maps[h])
    BY <2>1, Zenon DEF Writable, TablePages
  <2> QED BY <1>5, <2>2, Zenon
<1>9. ASSUME e.rw, e.to \in TableFrames PROVE FALSE
  <2>1. PICK f \in memory : f.frame = e.to
    BY <1>9 DEF TableFrames
  <2>2. \E h \in DOMAIN maps : \E p \in TablePages(maps[h]) :
          f.frame = p2m[p] /\ p \in 0..(image.total - 1)
    BY EntryOf
  <2>3. PICK h \in DOMAIN maps : \E p \in TablePages(maps[h]) :
          f.frame = p2m[p] /\ p \in 0..(image.total - 1)
    BY <2>2
  <2>4. PICK p \in TablePages(maps[h]) : f.frame = p2m[p] /\ p \in 0..(image.total - 1)
    BY <2>3
  <2>5. p = x.pfn
    BY <1>4, <1>6, <1>7, <2>1, <2>4, OneFrame
  <2> QED BY <1>7, <1>8, <1>9, <2>4, <2>5
<1>10. ASSUME AreasAreWhole, image.base % PageSize = 0, e.to \notin TableFrames, ~e.rw
       PROVE  FALSE
  <2>1. PICK h \in DOMAIN maps : x.pfn \in TablePages(maps[h])
    BY <1>7, <1>8, <1>10
  <2>2. p2m[x.pfn] \in TableFrames
    BY <1>3, <1>10, <2>1, TablePagesAreUsed
  <2> QED BY <1>7, <1>10, <2>2
<1> QED BY <1>9, <1>10

------------------------------------------------------------------------------
(* What the processor finds.                                                *)

\* The areas are whole, apart, and the list is made of whole pages.
WalkOK == AreasOK /\ AreasAreApart /\ OfPages(maps[2]) /\ memory # {}

\* No block has two tables, and no page two places.
LEMMA BlocksApart ==
    ASSUME WalkOK, NEW l \in 0..4
    PROVE  Blocks(l, 1) \cap Blocks(l, 2) = {}
<1>1. CASE l \in 1..4
  BY <1>1, BlocksAreApart DEF WalkOK
<1>2. CASE l = 0
  <2>1. AreasOK /\ DOMAIN maps = {1, 2}
    BY BothAreas DEF WalkOK
  <2>2. PICK P \in Nat \ {0} : P = PageSize
    BY WidthsAssumption
  <2>3. PICK a \in Nat, b \in Nat, c \in Nat, d \in Nat :
          a = maps[1].from /\ b = maps[1].to /\ c = maps[2].from /\ d = maps[2].to
    BY <2>1, BothAreas
  <2>4. (b < c \/ d < a) /\ c % P = 0 /\ (d + 1) % P = 0
    BY <2>2, <2>3 DEF WalkOK, AreasAreApart, OfPages
  <2>5. /\ Blocks(0, 1) = (a \div P)..(b \div P)
        /\ Blocks(0, 2) = (c \div P)..(d \div P)
    <3>1. /\ Blocks(0, 1) = First(0, 1)..Last(0, 1)
          /\ First(0, 1) = a \div P /\ Last(0, 1) = b \div P
      BY <2>1, <2>2, <2>3, AreaIs
    <3>2. /\ Blocks(0, 2) = First(0, 2)..Last(0, 2)
          /\ First(0, 2) = c \div P /\ Last(0, 2) = d \div P
      BY <2>1, <2>2, <2>3, AreaIs
    <3> QED BY <3>1, <3>2
  <2>6. a \div P \in Nat /\ b \div P \in Nat /\ c \div P \in Nat /\ d \div P \in Nat
    BY Parts
  <2>7. CASE b < c
    <3>1. PICK k \in Nat : k = c \div P
      BY <2>6
    <3>2. c = P * k
      <4>1. c = P * (c \div P) + (c % P)
        BY Parts
      <4> QED BY <2>4, <3>1, <4>1
    <3>3. ~(k <= b \div P)
      <4>1. ~(P * k <= b)
        BY <2>7, <3>2
      <4> QED BY <4>1, Between
    <3> QED BY <1>2, <2>5, <2>6, <3>1, <3>3
  <2>8. CASE d < a
    <3>1. PICK k \in Nat : k = d \div P /\ k = d \div P + 0
      BY <2>6
    <3>2. d + 1 <= a /\ d + 1 \in Nat
      BY <2>8
    <3>3. PICK m \in Nat : m = (d + 1) \div P /\ d + 1 = P * m
      <4>1. (d + 1) \div P \in Nat /\ d + 1 = P * ((d + 1) \div P) + ((d + 1) % P)
        BY <3>2, Parts
      <4>2. P * ((d + 1) \div P) \in Nat
        BY <4>1
      <4> QED BY <2>4, <4>1, <4>2
    <3>4. m <= a \div P
      BY <3>2, <3>3, AtMost
    <3>5. ~(m <= k)
      <4>1. ~(P * m <= d)
        BY <3>3
      <4> QED BY <3>1, <4>1, Between
    <3> QED BY <1>2, <2>5, <2>6, <3>1, <3>4, <3>5
  <2> QED BY <2>4, <2>7, <2>8
<1> QED BY <1>1, <1>2

\* The tables of the kernel begin no later than its area.
LEMMA FirstBegins ==
    ASSUME AreasOK
    PROVE  Region(1, 1).from <= maps[1].from
<1>1. PICK m : m = maps[1]
  OBVIOUS
<1>2. Laid(<<>>, m) /\ m.from <= m.to /\ m.from \in Nat /\ 0 \in Levels /\ 0 + 1 = 1
  BY <1>1, BothAreas DEF Levels
<1>3. PICK R \in Nat \ {0} : R = Reach(1)
  BY <1>2, Reaches
<1>4. Spans(m.levels[0], R, m.from \div R, m.to \div R)
  BY <1>2, <1>3, FirstSpans
<1>5. PICK x \in Nat : x = m.from \div R /\ m.levels[0].from = R * x
  BY <1>4 DEF Spans
<1>6. PICK f \in Nat : f = m.from
  BY <1>2
<1>7. R * x <= f
  BY <1>5, <1>6, Between
<1>8. Region(1, 1) = m.levels[0]
  BY <1>1 DEF Region, Below
<1> QED BY <1>1, <1>5, <1>6, <1>7, <1>8

\* The page of a block of tables is one that the domain has.
LEMMA TableInMemory ==
    ASSUME BuildInv, MapInv, memory # {}, AreasOK,
           NEW l \in 1..4, NEW i \in DOMAIN maps, NEW n \in Blocks(l, i)
    PROVE  PageOf(l, i, n) \in TablePages(maps[i]) /\ PageOf(l, i, n) \in 0..(image.total - 1)
<1>1. /\ PageOf(l, i, n) \in Nat /\ Region(l, i).pfn <= PageOf(l, i, n)
      /\ PageOf(l, i, n) < Region(l, i).pfn + Region(l, i).pgtables
  BY BlockHasPage
<1>2. MapsOK /\ TablePages(maps[i]) \subseteq 0..(image.total - 1)
  BY MapsAre
<1>3. /\ maps[i].levels[3].pfn <= Region(l, i).pfn
      /\ Region(l, i).pfn + Region(l, i).pgtables <= maps[i].levels[3].pfn + maps[i].pgtables
  BY <1>2, LevelsAreApart
<1>4. /\ Region(l, i).pfn \in Nat /\ Region(l, i).pgtables \in Nat
      /\ maps[i].levels[3].pfn \in Nat /\ maps[i].pgtables \in Nat
  BY <1>2, TablesAreStacked, BothMaps
<1>5. PageOf(l, i, n) \in TablePages(maps[i])
  BY <1>1, <1>3, <1>4 DEF TablePages
<1> QED BY <1>2, <1>5

\* An entry that the processor finds for a block points to the block's page.
LEMMA FoundIs ==
    ASSUME BuildInv, MapInv, WalkOK, NEW l \in Levels, NEW i \in DOMAIN maps, NEW j \in DOMAIN maps,
           NEW n \in Blocks(l, j), n \in Nat, n \div Entries \in Blocks(l + 1, i),
           NEW e \in memory, e.frame = p2m[PageOf(l + 1, i, n \div Entries)],
           e.place = n % Entries
    PROVE  e.to = p2m[PageOf(l, j, n)]
<1>1. /\ memory # {} /\ AreasOK /\ MapsOK /\ filled = image.total /\ DOMAIN maps = {1, 2}
      /\ Mapping(maps[1]) /\ Mapping(maps[2]) /\ l \in 0..4 /\ l + 1 \in 1..4 /\ l + 1 \in 0..4
  BY MapsAre DEF WalkOK, Levels
<1>2. PICK g \in Levels, h \in DOMAIN maps, o \in DOMAIN maps :
        \E x \in EntriesFor(maps, g, h, o) : \E p \in TablePages(maps[h]) :
          /\ e = Entry(g, h, x) /\ e.frame = p2m[p] /\ p \in 0..(image.total - 1)
          /\ p = maps[h].levels[g].pfn + x.place \div Entries
  BY EntryOf
<1>3. PICK x \in EntriesFor(maps, g, h, o), p \in TablePages(maps[h]) :
          /\ e = Entry(g, h, x) /\ e.frame = p2m[p] /\ p \in 0..(image.total - 1)
          /\ p = maps[h].levels[g].pfn + x.place \div Entries
  BY <1>2
<1>4. Mapping(maps[h]) /\ Mapping(maps[o])
  BY <1>1
<1>5. PICK m \in Blocks(g, o) :
        /\ m \in Nat /\ m \div Entries \in Blocks(g + 1, h)
        /\ x.place = m - Entries * First(g + 1, h)
        /\ g > 0 \/ maps[o].from % PageSize = 0 \/ Region(1, h).from <= maps[o].from =>
             x.pfn = PageOf(g, o, m)
  BY <1>1, <1>3, <1>4, EntryIn, Zenon
<1>6. /\ maps[h].levels[g].pfn + x.place \div Entries = PageOf(g + 1, h, m \div Entries)
      /\ x.place % Entries = m % Entries
  <2>1. PICK y : y = x.place
    OBVIOUS
  <2>2. /\ AreasOK /\ g \in Levels /\ h \in DOMAIN maps /\ m \in Nat
        /\ m \div Entries \in Blocks(g + 1, h) /\ y = m - Entries * First(g + 1, h)
    BY <1>1, <1>5, <2>1
  <2>3. /\ maps[h].levels[g].pfn + y \div Entries = PageOf(g + 1, h, m \div Entries)
        /\ y % Entries = m % Entries
    BY ONLY <2>2, PlaceIs
  <2> QED BY <2>1, <2>3
<1>7. PageOf(g + 1, h, m \div Entries) = PageOf(l + 1, i, n \div Entries)
  <2>1. PageOf(l + 1, i, n \div Entries) \in 0..(image.total - 1)
    BY <1>1, TableInMemory
  <2>2. p = PageOf(g + 1, h, m \div Entries)
    BY <1>3, <1>6
  <2> QED BY <1>1, <1>3, <2>1, <2>2, OneFrame
<1>8. g + 1 = l + 1 /\ h = i /\ m \div Entries = n \div Entries
  <2>1. PICK u \in 1..4, v \in 1..4 : u = g + 1 /\ v = l + 1
    BY DEF Levels
  <2>2. PICK a : a = m \div Entries
    OBVIOUS
  <2>3. PICK b : b = n \div Entries
    OBVIOUS
  <2>4. SamePage(u, h, a, v, i, b)
    BY <1>5, <1>7, <2>1, <2>2, <2>3 DEF SamePage
  <2>5. u = v /\ h = i /\ a = b
    BY <1>1, <2>4, PagesDiffer
  <2> QED BY <2>1, <2>2, <2>3, <2>5
<1>9. g = l
  BY <1>8 DEF Levels
<1>10. m = n
  <2>1. m % Entries = n % Entries
    BY <1>3, <1>6 DEF Entry
  <2>2. PICK K \in Nat \ {0} : K = Entries
    BY WidthsAssumption
  <2>3. m = K * (m \div K) + (m % K) /\ n = K * (n \div K) + (n % K)
    BY <1>5, Parts
  <2> QED BY <1>8, <2>1, <2>2, <2>3
<1>11. o = j
  <2>1. Blocks(l, 1) \cap Blocks(l, 2) = {}
    BY <1>1, BlocksApart
  <2>2. n \in Blocks(l, j) /\ n \in Blocks(l, o)
    BY <1>5, <1>9, <1>10
  <2> QED BY <1>1, <2>1, <2>2
<1>12. l > 0 \/ maps[j].from % PageSize = 0 \/ Region(1, i).from <= maps[j].from
  <2>1. CASE j = 2
    BY <2>1 DEF WalkOK, OfPages
  <2>2. CASE l = 0 /\ j = 1
    <3>1. n \div Entries \in Blocks(1, 1)
      <4>1. PICK from_ \in Nat, to_ \in Nat : from_ = maps[1].from /\ to_ = maps[1].to
        BY <1>1, BothAreas
      <4>2. PICK P \in Nat \ {0}, K \in Nat \ {0} : P = PageSize /\ K = Entries
        BY WidthsAssumption
      <4>3. /\ Blocks(0, 1) = First(0, 1)..Last(0, 1)
            /\ First(0, 1) = from_ \div P /\ Last(0, 1) = to_ \div P
        BY <1>1, <4>1, <4>2, AreaIs
      <4>4. from_ \div P \in Nat /\ to_ \div P \in Nat
        BY Parts
      <4>5. PICK a \in Nat, b \in Nat : a = from_ \div P /\ b = to_ \div P
        BY <4>4
      <4>6. n \in a..b
        BY <2>2, <4>3, <4>5
      <4>7. a \div K <= n \div K /\ n \div K <= b \div K
        BY <4>6, DivGrows
      <4>8. a \div K = from_ \div (P * K) /\ b \div K = to_ \div (P * K)
        BY <4>5, DivTwiceIs
      <4>9. Reach(1) = P * K
        <5>1. 0 \in Levels /\ 0 + 1 = 1
          BY DEF Levels
        <5> QED BY <4>2, <5>1, WidthsAssumption
      <4>10. Blocks(1, 1) = (from_ \div Reach(1))..(to_ \div Reach(1))
        BY <1>1, <4>1, BlocksCover
      <4>11. n \div K \in Nat /\ a \div K \in Nat /\ b \div K \in Nat
        BY Parts
      <4>12. n \div K \in (a \div K)..(b \div K)
        BY <4>7, <4>11
      <4> QED BY <4>2, <4>8, <4>9, <4>10, <4>12
    <3>2. n \div Entries \in Blocks(1, i)
      BY <2>2
    <3>3. i = 1
      BY <1>1, <3>1, <3>2, BlocksApart
    <3> QED BY <1>1, <2>2, <3>3, FirstBegins
  <2> QED BY <1>1, <2>1, <2>2 DEF Levels
<1>13. x.pfn = PageOf(l, j, n)
  BY <1>5, <1>8, <1>9, <1>10, <1>11, <1>12
<1> QED BY <1>3, <1>13 DEF Entry

\* The block n of the region of mapping j, whose table is one of mapping i
InTable(l, i, j, n) ==
  n \in Nat /\ n \in Blocks(l, j) /\ n \div Entries \in Blocks(l + 1, i)
  /\ (l = 0 => maps[j].from < Region(1, i).to /\ Region(1, i).from < maps[j].to)

\* From the table of a block the processor gets to the block.
LEMMA StepTo ==
    ASSUME BuildInv, MapInv, WalkOK, NEW l \in Levels, NEW i \in DOMAIN maps, NEW j \in DOMAIN maps,
           NEW n, InTable(l, i, j, n), NEW addr, PlaceOf(addr, l) = n % Entries
    PROVE  Step({p2m[PageOf(l + 1, i, n \div Entries)]}, addr, l) = {p2m[PageOf(l, j, n)]}
<1> DEFINE f == p2m[PageOf(l + 1, i, n \div Entries)]
           held == Holds(f, n % Entries)
<1>1. /\ n \in Nat /\ n \in Blocks(l, j) /\ n \div Entries \in Blocks(l + 1, i)
      /\ (l = 0 => maps[j].from < Region(1, i).to /\ Region(1, i).from < maps[j].to)
  BY DEF InTable
<1>2. ASSUME NEW e \in held PROVE e.to = p2m[PageOf(l, j, n)]
  <2>1. e \in memory /\ e.frame = f /\ e.place = n % Entries
    BY <1>2 DEF Holds
  <2> QED BY <1>1, <2>1, FoundIs
<1>3. \E e \in held : TRUE
  <2>1. AreasOK /\ memory # {}
    BY DEF WalkOK
  <2>2. PICK x \in EntriesFor(maps, l, i, j) : x.place = n - Entries * First(l + 1, i)
    BY <1>1, <2>1, EntryThere
  <2>3. /\ maps[i].levels[l].pfn + x.place \div Entries = PageOf(l + 1, i, n \div Entries)
        /\ x.place % Entries = n % Entries
    BY <1>1, <2>1, <2>2, PlaceIs
  <2>4. Entry(l, i, x) \in memory
    BY <2>1, <2>2 DEF MapInv, EntriesInv
  <2>5. Entry(l, i, x).frame = f /\ Entry(l, i, x).place = n % Entries
    BY <2>3 DEF Entry
  <2> QED BY <2>4, <2>5 DEF Holds
<1>4. Step({f}, addr, l) = {e.to : e \in held}
  BY DEF Step
<1> HIDE DEF f, held
<1>5. {e.to : e \in held} = {p2m[PageOf(l, j, n)]}
  BY <1>2, <1>3
<1> QED BY <1>4, <1>5 DEF f

\* A page of an area has a block on every level.
LEMMA BlockOf ==
    ASSUME AreasOK, NEW h \in DOMAIN maps, NEW a \in Nat, maps[h].from <= a, a <= maps[h].to,
           NEW l \in 0..4
    PROVE  \E j \in DOMAIN maps : a \div Reach(l) \in Blocks(l, j) /\ (l = 0 => j = h)
<1>1. PICK R \in Nat \ {0} : R = Reach(l)
  BY Sizes
<1>2. DOMAIN maps = {1, 2}
  BY BothAreas
<1>3. PICK f \in Nat, t \in Nat : f = maps[h].from /\ t = maps[h].to
  BY BothAreas
<1>4. f \div R <= a \div R /\ a \div R <= t \div R
  BY <1>3, DivGrows
<1>5. f \div R \in Nat /\ a \div R \in Nat /\ t \div R \in Nat
  BY <1>3, Parts
<1>6. a \div R \in (f \div R)..(t \div R)
  BY <1>4, <1>5
<1>7. CASE l = 0
  <2>1. R = PageSize
    BY <1>1, <1>7, WidthsAssumption
  <2>2. Blocks(0, h) = First(0, h)..Last(0, h)
    BY AreaIs
  <2>3. First(0, h) = f \div R /\ Last(0, h) = t \div R
    BY <1>3, <2>1, AreaIs
  <2> QED BY <1>1, <1>6, <1>7, <2>2, <2>3
<1>8. CASE l # 0
  <2>1. /\ Blocks(l, 1) = (maps[1].from \div Reach(l))..(maps[1].to \div Reach(l))
        /\ (maps[2].from \div Reach(l))..(maps[2].to \div Reach(l))
             \subseteq Blocks(l, 1) \cup Blocks(l, 2)
    BY BlocksCover
  <2>2. a \div Reach(l) \in (maps[h].from \div Reach(l))..(maps[h].to \div Reach(l))
    BY <1>1, <1>3, <1>6
  <2>3. a \div Reach(l) \in Blocks(l, 1) \cup Blocks(l, 2)
    <3>1. CASE h = 1
      BY <2>1, <2>2, <3>1
    <3>2. CASE h = 2
      BY <2>1, <2>2, <3>2
    <3> QED BY <1>2, <3>1, <3>2
  <2> QED BY <1>2, <1>8, <2>3
<1> QED BY <1>7, <1>8

\* One level down for an address of an area
Under(l, i, j, a) ==
  /\ a \div Reach(l + 1) \in Blocks(l + 1, i) /\ a \div Reach(l) \in Blocks(l, j)
  /\ l = 0 => (i = 1 /\ j = 1) \/ j = 2
LeadsDown(l, i, j, a, addr) ==
  Step({p2m[PageOf(l + 1, i, a \div Reach(l + 1))]}, addr, l)
    = {p2m[PageOf(l, j, a \div Reach(l))]}

LEMMA DownOne ==
    ASSUME BuildInv, MapInv, WalkOK, NEW l \in Levels, NEW a \in Nat,
           NEW i \in DOMAIN maps, NEW j \in DOMAIN maps, Under(l, i, j, a),
           NEW addr, addr % 2^VirtBits = a
    PROVE  LeadsDown(l, i, j, a, addr)
<1>0. /\ a \div Reach(l + 1) \in Blocks(l + 1, i) /\ a \div Reach(l) \in Blocks(l, j)
      /\ l = 0 => (i = 1 /\ j = 1) \/ j = 2
  BY DEF Under
<1>1. PICK R \in Nat \ {0}, K \in Nat \ {0} : R = Reach(l) /\ K = Entries /\ Reach(l + 1) = R * K
  BY Reaches, WidthsAssumption
<1>2. PICK n : n = a \div R
  OBVIOUS
<1>3. n \in Nat
  BY <1>2, Parts
<1>4. n \div K = a \div (R * K)
  BY <1>2, DivTwiceIs
<1>5. n \in Blocks(l, j) /\ n \div Entries \in Blocks(l + 1, i)
      /\ n \div Entries = a \div Reach(l + 1) /\ n = a \div Reach(l)
  BY <1>0, <1>1, <1>2, <1>4
<1>6. l = 0 => maps[j].from < Region(1, i).to /\ Region(1, i).from < maps[j].to
  <2>1. CASE l = 0
    <3>1. AreasOK /\ ((i = 1 /\ j = 1) \/ OfPages(maps[j]))
      BY <1>0, <2>1 DEF WalkOK
    <3>2. n \in Blocks(0, j) /\ n \div Entries \in Blocks(1, i)
      BY <1>5, <2>1
    <3> QED BY <3>1, <3>2, AreaMeets
  <2> QED BY <2>1
<1>7. InTable(l, i, j, n)
  BY <1>3, <1>5, <1>6 DEF InTable
<1>8. PlaceOf(addr, l) = n % Entries
  BY <1>5 DEF PlaceOf
<1>9. Step({p2m[PageOf(l + 1, i, n \div Entries)]}, addr, l) = {p2m[PageOf(l, j, n)]}
  BY <1>7, <1>8, StepTo
<1> QED BY <1>5, <1>9 DEF LeadsDown

\* Every address of an area is mapped to its page.
LEMMA Walks ==
    ASSUME BuildInv, MapInv, WalkOK, NEW h \in DOMAIN maps, NEW a \in 0..VirtMask,
           maps[h].from <= a, a <= maps[h].to, NEW addr, addr % 2^VirtBits = a
    PROVE  Walk(p2m[maps[1].levels[3].pfn], addr) = {p2m[PageOf(0, h, a \div PageSize)]}
<1>1. AreasOK /\ DOMAIN maps = {1, 2} /\ a \in Nat
  BY BothAreas, InSpace DEF WalkOK
<1>2. \A l \in {0, 1, 2, 3, 4} :
        \E j \in DOMAIN maps : a \div Reach(l) \in Blocks(l, j) /\ (l = 0 => j = h)
  <2>1. ASSUME NEW l \in {0, 1, 2, 3, 4}
        PROVE  \E j \in DOMAIN maps : a \div Reach(l) \in Blocks(l, j) /\ (l = 0 => j = h)
    <3>1. l \in 0..4
      OBVIOUS
    <3> QED BY <1>1, <3>1, BlockOf
  <2> QED BY <2>1
<1>3. a \div Reach(0) \in Blocks(0, h)
  BY <1>2
<1>4. PICK i \in DOMAIN maps : a \div Reach(1) \in Blocks(1, i)
  BY <1>2
<1>5. PICK j \in DOMAIN maps : a \div Reach(2) \in Blocks(2, j)
  BY <1>2
<1>6. PICK k \in DOMAIN maps : a \div Reach(3) \in Blocks(3, k)
  BY <1>2
<1>7. 0 \in Levels /\ 1 \in Levels /\ 2 \in Levels /\ 3 \in Levels
      /\ 0 + 1 = 1 /\ 1 + 1 = 2 /\ 2 + 1 = 3 /\ 3 + 1 = 4
  BY DEF Levels
<1>8. a \div Reach(4) = 0 /\ 0 \in Blocks(4, 1) /\ PageOf(4, 1, 0) = maps[1].levels[3].pfn
  <2>1. a \div Reach(4) = 0
    BY InSpace, WidthsAssumption
  <2>2. maps[1].from \in 0..VirtMask /\ maps[1].to \in 0..VirtMask
    BY <1>1, BothAreas DEF Laid
  <2>3. maps[1].from \div Reach(4) = 0 /\ maps[1].to \div Reach(4) = 0
    BY <2>2, InSpace, WidthsAssumption
  <2>4. Blocks(4, 1) = (maps[1].from \div Reach(4))..(maps[1].to \div Reach(4))
    BY <1>1, BlocksCover
  <2>5. 0 \in Blocks(4, 1)
    BY <2>3, <2>4
  <2>6. First(4, 1) \in Nat /\ First(4, 1) <= 0
    BY <1>1, <2>5, BlockHasPage
  <2>7. Region(4, 1).pfn = maps[1].levels[3].pfn /\ Region(4, 1).pfn \in Nat
    BY <1>1, TablesAreStacked DEF AreasOK
  <2> QED BY <2>1, <2>5, <2>6, <2>7 DEF PageOf
<1>9. PICK s4, s3, s2, s1, s0 : /\ s4 = {p2m[PageOf(4, 1, a \div Reach(4))]}
                                /\ s3 = {p2m[PageOf(3, k, a \div Reach(3))]}
                                /\ s2 = {p2m[PageOf(2, j, a \div Reach(2))]}
                                /\ s1 = {p2m[PageOf(1, i, a \div Reach(1))]}
                                /\ s0 = {p2m[PageOf(0, h, a \div Reach(0))]}
  OBVIOUS
<1>10. Step(s4, addr, 3) = s3
  <2>1. a \div Reach(3 + 1) \in Blocks(3 + 1, 1) /\ 1 \in DOMAIN maps /\ ~(3 = 0)
    BY <1>1, <1>7, <1>8
  <2>2. Under(3, 1, k, a)
    BY <1>6, <2>1 DEF Under
  <2>3. LeadsDown(3, 1, k, a, addr)
    BY <1>1, <1>7, <2>2, DownOne
  <2> QED BY <1>7, <1>9, <2>3 DEF LeadsDown
<1>11. Step(s3, addr, 2) = s2
  <2>1. a \div Reach(2 + 1) \in Blocks(2 + 1, k) /\ ~(2 = 0)
    BY <1>6, <1>7
  <2>2. Under(2, k, j, a)
    BY <1>5, <2>1 DEF Under
  <2>3. LeadsDown(2, k, j, a, addr)
    BY <1>1, <1>7, <2>2, DownOne
  <2> QED BY <1>7, <1>9, <2>3 DEF LeadsDown
<1>12. Step(s2, addr, 1) = s1
  <2>1. a \div Reach(1 + 1) \in Blocks(1 + 1, j) /\ ~(1 = 0)
    BY <1>5, <1>7
  <2>2. Under(1, j, i, a)
    BY <1>4, <2>1 DEF Under
  <2>3. LeadsDown(1, j, i, a, addr)
    BY <1>1, <1>7, <2>2, DownOne
  <2> QED BY <1>7, <1>9, <2>3 DEF LeadsDown
<1>13. Step(s1, addr, 0) = s0
  <2>1. a \div Reach(0 + 1) \in Blocks(0 + 1, i)
    BY <1>4, <1>7
  <2>2. (i = 1 /\ h = 1) \/ h = 2
    <3>1. ASSUME h = 1 PROVE i = 1
      <4>1. PICK f \in Nat, t \in Nat : f = maps[1].from /\ t = maps[1].to /\ f <= a /\ a <= t
        BY <1>1, <3>1, BothAreas
      <4>2. PICK R \in Nat \ {0} : R = Reach(1)
        BY <1>7, Reaches
      <4>3. f \div R <= a \div R /\ a \div R <= t \div R
        BY <1>1, <4>1, DivGrows
      <4>4. f \div R \in Nat /\ a \div R \in Nat /\ t \div R \in Nat
        BY <1>1, Parts
      <4>5. Blocks(1, 1) = (maps[1].from \div Reach(1))..(maps[1].to \div Reach(1))
        BY <1>1, BlocksCover
      <4>6. a \div Reach(1) \in Blocks(1, 1)
        BY <4>1, <4>2, <4>3, <4>4, <4>5
      <4>7. Blocks(1, 1) \cap Blocks(1, 2) = {}
        BY BlocksApart
      <4> QED BY <1>1, <1>4, <4>6, <4>7
    <3> QED BY <1>1, <3>1
  <2>3. Under(0, i, h, a)
    BY <1>3, <2>1, <2>2 DEF Under
  <2>4. LeadsDown(0, i, h, a, addr)
    BY <1>1, <1>7, <2>3, DownOne
  <2> QED BY <1>7, <1>9, <2>4 DEF LeadsDown
<1>14. Walk(p2m[maps[1].levels[3].pfn], addr) = s0
  <2>1. s4 = {p2m[maps[1].levels[3].pfn]}
    BY <1>8, <1>9
  <2> QED BY <1>10, <1>11, <1>12, <1>13, <2>1 DEF Walk
<1> QED BY <1>9, <1>14, WidthsAssumption

\* The address of a page of an area, and which page it is.
PageAt(x, n, V, P) == /\ (x + P * n) % V = (x % V) + P * n
                      /\ ((x % V) + P * n) \div P = (x % V) \div P + n

LEMMA PageAtIs ==
    ASSUME NEW V \in Nat \ {0}, NEW P \in Nat \ {0}, NEW x \in Nat, NEW n \in Nat,
           (x % V) + P * n < V
    PROVE  PageAt(x, n, V, P)
<1>1. x \div V \in Nat /\ x % V \in 0..(V - 1) /\ x = V * (x \div V) + (x % V)
  BY Parts
<1>2. PICK q \in Nat, r \in Nat : q = x \div V /\ r = x % V
  BY <1>1
<1>3. V * q \in Nat /\ P * n \in Nat
  OBVIOUS
<1>4. x = V * q + r
  BY <1>1, <1>2
<1>5. PICK s \in 0..(V - 1), b \in Nat : s = r + P * n /\ b = x + P * n
  BY <1>2, <1>3
<1>6. b = V * q + s
  BY <1>3, <1>4, <1>5
<1>7. b % V = s
  BY <1>6, DivIs
<1>8. r \div P \in Nat /\ r % P \in 0..(P - 1) /\ r = P * (r \div P) + (r % P)
  BY Parts
<1>9. PICK c \in Nat, d \in 0..(P - 1) : c = r \div P /\ d = r % P
  BY <1>8
<1>10. PICK e \in Nat : e = c + n
  OBVIOUS
<1>11. s = P * e + d
  <2>1. P * (c + n) = P * c + P * n
    OBVIOUS
  <2>2. r = P * c + d
    BY <1>8, <1>9
  <2>3. P * c \in Nat
    OBVIOUS
  <2> QED BY <1>3, <1>5, <1>10, <2>1, <2>2, <2>3
<1>12. s \div P = e
  BY <1>11, DivIs
<1> QED BY <1>2, <1>5, <1>7, <1>9, <1>10, <1>12 DEF PageAt

\* The pages of an area are found at their addresses.
LEMMA AreaFound ==
    ASSUME BuildInv, MapInv, WalkOK, NEW h \in DOMAIN maps, NEW x \in Nat, NEW n \in Nat,
           NEW len \in Nat, maps[h].from = x % 2^VirtBits, maps[h].to = maps[h].from + len - 1,
           PageSize * n < len
    PROVE  Walk(p2m[maps[1].levels[3].pfn], x + PageSize * n) = {p2m[maps[h].pfn + n]}
<1>1. AreasOK
  BY DEF WalkOK
<1>2. PICK P \in Nat \ {0}, V \in Nat \ {0} : P = PageSize /\ V = 2^VirtBits /\ VirtMask = V - 1
  BY WidthsAssumption DEF VirtMask
<1>3. PICK f \in Nat, t \in Nat : f = maps[h].from /\ t = maps[h].to
  BY <1>1, BothAreas
<1>4. t <= V - 1
  <2>1. t \in 0..VirtMask
    BY <1>1, <1>3, BothAreas DEF Laid
  <2> QED BY <1>2, <2>1
<1>5. f = x % V /\ t = f + len - 1
  BY <1>2, <1>3
<1>6. P * n \in Nat /\ P * n < len
  BY <1>2
<1>7. PICK a \in Nat : a = f + P * n
  BY <1>6
<1>8. f <= a /\ a <= t /\ a < V
  BY <1>4, <1>5, <1>6, <1>7
<1>9. PageAt(x, n, V, P)
  <2>1. (x % V) + P * n < V
    BY <1>5, <1>7, <1>8
  <2> QED BY <2>1, PageAtIs
<1>10. (x + P * n) % V = a /\ a \div P = f \div P + n
  BY <1>5, <1>7, <1>9 DEF PageAt
<1>11. PICK addr : addr = x + P * n
  OBVIOUS
<1>12. Walk(p2m[maps[1].levels[3].pfn], addr) = {p2m[PageOf(0, h, a \div PageSize)]}
  <2>1. addr % 2^VirtBits = a /\ a \in 0..VirtMask /\ maps[h].from <= a /\ a <= maps[h].to
    BY <1>2, <1>3, <1>8, <1>10, <1>11
  <2> QED BY <2>1, Walks
<1>13. PageOf(0, h, a \div PageSize) = maps[h].pfn + n
  <2>1. Region(0, h).pfn = maps[h].pfn /\ maps[h].pfn \in Nat
    BY <1>1, AreaIs
  <2>2. First(0, h) = f \div P
    BY <1>1, <1>2, <1>3, AreaIs
  <2>3. PICK c \in Nat, b \in Nat : c = f \div P /\ b = maps[h].pfn
    BY <2>1, Parts
  <2>4. b + (c + n) - c = b + n
    OBVIOUS
  <2> QED BY <1>2, <1>10, <2>1, <2>2, <2>3, <2>4 DEF PageOf
<1> QED BY <1>2, <1>11, <1>12, <1>13

LEMMA SegmentsFound == ASSUME BuildInv, MapInv PROVE SegmentsAreMapped
<1> SUFFICES ASSUME TablesWritten, ~p2mFirst, AreasAreWhole, AreasAreApart,
                    NEW s \in DOMAIN segs, NEW k \in 0..(UsedPages(s) - 1)
             PROVE  Walk(p2m[segs["tables"].pfn], segs[s].vstart + k * PageSize)
                      = {p2m[segs[s].pfn + k]}
  BY DEF SegmentsAreMapped
<1>1. memory # {} /\ Settled /\ Placed
  BY DEF TablesWritten, Settled, Placed
<1>2. KernelAt = 1 /\ ListAt = 2
  BY DEF KernelAt, ListAt
<1>3. /\ DOMAIN maps = {1, 2} /\ image \in ImageType
      /\ image.base \in Nat /\ image.p2mBase \in Nat /\ pgend \in Nat /\ p2mPages \in Nat
  BY <1>1, MapsAre, AreasAre DEF ImageType
<1>4. WalkOK
  BY <1>1, AreasAre DEF WalkOK
<1>5. segs["tables"].pfn = maps[1].levels[3].pfn
  BY <1>1, <1>2 DEF MapInv, AreasInv, PlacesInv
<1>6. /\ segs[s].pfn \in Nat /\ segs[s].pages \in Nat \ {0}
      /\ UsedPages(s) \in Nat /\ UsedPages(s) <= segs[s].pages
      /\ s # "p2m" => segs[s].vstart = image.base + segs[s].pfn * PageSize
  BY DEF BuildInv, SegsInv
<1>7. PICK P \in Nat \ {0} : P = PageSize
  BY WidthsAssumption
<1>8. k \in Nat /\ k + 1 <= UsedPages(s)
  BY <1>6
<1>9. CASE s # "p2m"
  <2>1. PICK n \in Nat : n = segs[s].pfn + k
    BY <1>6, <1>8
  <2>2. image.base + (segs[s].pfn + segs[s].pages) * P <= pgend
    BY <1>1, <1>7, <1>9 DEF MapInv, AreasInv, PlacesInv
  <2>3. PICK m \in Nat : m = segs[s].pfn + segs[s].pages
    BY <1>6
  <2>4. n + 1 <= m
    BY <1>6, <1>8, <2>1, <2>3
  <2>5. P * n + P <= P * m /\ P * n \in Nat /\ P * m \in Nat /\ m * P = P * m
    BY <2>4, MulGrows
  <2>6. PICK len \in Nat : len = pgend - image.base /\ P * n < len
    BY <1>3, <2>2, <2>3, <2>5
  <2>7. /\ maps[1].from = image.base % 2^VirtBits /\ maps[1].to = maps[1].from + len - 1
        /\ maps[1].pfn = 0
    BY <1>1, <1>2, <1>3, <2>6, AreasAre DEF MapInv, AreasInv, RangesInv
  <2>8. Walk(p2m[maps[1].levels[3].pfn], image.base + PageSize * n) = {p2m[maps[1].pfn + n]}
    BY <1>3, <1>4, <1>7, <2>6, <2>7, AreaFound
  <2>9. segs[s].vstart + k * PageSize = image.base + PageSize * n
    <3>1. PICK c \in Nat : c = segs[s].pfn
      BY <1>6
    <3>2. P * (c + k) = c * P + k * P
      BY <1>8
    <3>3. c * P \in Nat /\ k * P \in Nat
      BY <1>8
    <3> QED BY <1>3, <1>6, <1>7, <1>9, <2>1, <3>1, <3>2, <3>3
  <2> QED BY <1>5, <2>1, <2>7, <2>8, <2>9
<1>10. CASE s = "p2m"
  <2>1. segs[s].vstart = image.p2mBase /\ segs[s].pfn = maps[2].pfn
    BY <1>1, <1>10 DEF MapInv, AreasInv, PlacesInv
  <2>2. k + 1 <= p2mPages
    BY <1>8, <1>10 DEF UsedPages
  <2>3. PICK c \in Nat : c = p2mPages
    BY <1>3
  <2>4. P * k + P <= P * c /\ P * k \in Nat /\ P * c \in Nat /\ c * P = P * c /\ k * P = P * k
    BY <1>8, <2>2, <2>3, MulGrows
  <2>5. PICK len \in Nat : len = p2mPages * PageSize /\ P * k < len
    BY <1>7, <2>3, <2>4
  <2>6. maps[2].from = image.p2mBase % 2^VirtBits /\ maps[2].to = maps[2].from + len - 1
    BY <1>1, <1>2, <1>3, <2>5, AreasAre DEF MapInv, AreasInv, RangesInv
  <2>7. Walk(p2m[maps[1].levels[3].pfn], image.p2mBase + PageSize * k) = {p2m[maps[2].pfn + k]}
    BY <1>3, <1>4, <1>7, <1>8, <2>5, <2>6, AreaFound
  <2> QED BY <1>5, <1>7, <2>1, <2>4, <2>7
<1> QED BY <1>9, <1>10

------------------------------------------------------------------------------
(* The areas and the entries stay what the invariant says.                   *)

LEMMA AreasStay ==
    ASSUME MapInv, UNCHANGED <<image, maps, pgend, p2m, memory>>, cr3' \in Int
    PROVE  LaidInv' /\ RangesInv' /\ EntriesInv' /\ ValuesInv'
<1>1. LaidInv'
  BY DEF MapInv, LaidInv, Laid, InMemory
<1>2. RangesInv'
  BY DEF MapInv, AreasInv, RangesInv, KernelAt, ListAt, p2mFirst, p2mPages
<1>3. EntriesInv'
  <2>1. \A l, i, x : Entry(l, i, x)' = Entry(l, i, x)
    BY DEF Entry
  <2> QED BY <2>1 DEF MapInv, EntriesInv
<1>4. ValuesInv'
  BY DEF MapInv, ValuesInv, Pfns
<1> QED BY <1>1, <1>2, <1>3, <1>4

\* Steps that change no segment: an error, and those after the last segment.
LEMMA QuietMapOK ==
    ASSUME MapInv, UNCHANGED <<image, segs, maps, pgend, p2m, memory>>, cr3' \in Int,
           pc' \in GivenUp \/ (Settled /\ pc' \in {"setupTables"} \cup Tabled)
    PROVE  MapInv'
<1>1. LaidInv' /\ RangesInv' /\ EntriesInv' /\ ValuesInv'
  BY AreasStay
<1>2. (Settled' => Settled) /\ (Placed' => Placed) /\ KernelAt' = KernelAt
      /\ p2mFirst' = p2mFirst
  BY DEF Settled, Placed, Tabled, Ended, GivenUp, KernelAt, p2mFirst
<1>3. CountsInv'
  BY <1>2 DEF MapInv, AreasInv, CountsInv, Early, Tabled, Ended, GivenUp
<1>4. PlacesInv'
  BY <1>2 DEF MapInv, AreasInv, PlacesInv, Tabled, Ended, GivenUp
<1> QED BY <1>1, <1>3, <1>4 DEF MapInv, AreasInv

LEMMA FailMapOK == ASSUME MapInv, NEW leaked, Fails(leaked) PROVE MapInv'
<1>1. /\ pc' \in GivenUp /\ UNCHANGED <<image, segs, maps, pgend, p2m, memory, cr3>>
  BY DEF Fails, GiveUp, GiveUpHalfway, GivenUp, memVars, tabVars
<1>2. cr3' \in Int
  BY <1>1 DEF MapInv, ValuesInv
<1> QED BY <1>1, <1>2, QuietMapOK

\* Before there is an area.
LEMMA EarlyMapOK ==
    ASSUME BuildInv, MapInv, pc \in Early \cup {"kernel", "initrd"},
           pc' \in Early \cup {"kernel", "initrd", "magic"},
           UNCHANGED <<maps, memory>>, ValuesInv'
    PROVE  MapInv'
<1>1. memory' = {} /\ maps' = <<>>
  BY DEF BuildInv, TablesInv, MapInv, AreasInv, CountsInv, Early, Tabled, Ended, GivenUp
<1>2. Len(<<>>) = 0 /\ DOMAIN <<>> = {}
  OBVIOUS
<1>3. LaidInv' /\ EntriesInv' /\ RangesInv'
  BY <1>1, <1>2 DEF LaidInv, EntriesInv, RangesInv
<1>4. ~Settled' /\ ~Placed'
  BY <1>1 DEF Settled, Placed, Early, Tabled, Ended, GivenUp
<1>5. CountsInv' /\ PlacesInv'
  BY <1>1, <1>4 DEF CountsInv, PlacesInv, Early
<1> QED BY <1>3, <1>5 DEF MapInv, AreasInv

LEMMA InitMapOK == ASSUME Init PROVE MapInv
<1>1. memory = {} /\ maps = <<>> /\ pc = "initrdEarly"
  BY DEF Init
<1>2. Len(<<>>) = 0 /\ DOMAIN <<>> = {}
  OBVIOUS
<1>3. LaidInv /\ EntriesInv /\ RangesInv
  BY <1>1, <1>2 DEF LaidInv, EntriesInv, RangesInv
<1>4. ~Settled /\ ~Placed
  BY <1>1 DEF Settled, Placed, Tabled, Ended, GivenUp
<1>5. CountsInv /\ PlacesInv
  BY <1>1, <1>4 DEF CountsInv, PlacesInv, Early
<1>6. ValuesInv
  BY DEF Init, ValuesInv, NoFrame
<1> QED BY <1>3, <1>5, <1>6 DEF MapInv, AreasInv

\* What a new segment leaves alone
LEMMA SegmentKeeps ==
    ASSUME NEW name, NEW vstart, NEW start_, NEW n, NEW next_,
           SegmentAt(name, vstart, start_, n, next_)
    PROVE  UNCHANGED <<image, p2m, filled, memory, cr3>>
  BY DEF SegmentAt, MapPages, Fails

\* Before there is memory no segment is made.
LEMMA InitrdEarlyMapOK == ASSUME BuildInv, MapInv, LoadInitrdEarly PROVE MapInv'
<1>1. pc = "initrdEarly" /\ UNCHANGED <<image, p2m, memory, cr3>>
  BY SegmentKeeps DEF LoadInitrdEarly, Skip, alloc_segment
<1>2. UNCHANGED maps
  BY DEF LoadInitrdEarly, Skip, tabVars
<1>3. ValuesInv'
  BY <1>1 DEF MapInv, ValuesInv, Pfns
<1>4. CASE \E leaked : Fails(leaked)
  BY <1>4, FailMapOK
<1>5. CASE ~\E leaked : Fails(leaked)
  <2>1. pc' = "claim"
    BY <1>5 DEF LoadInitrdEarly, Skip, alloc_segment, SegmentAt, MapPages
  <2> QED BY <1>1, <1>2, <1>3, <2>1, EarlyMapOK DEF Early
<1> QED BY <1>4, <1>5

LEMMA PopulateMapOK ==
    ASSUME BuildInv, MapInv, ClaimPages \/ PopulateSuperPages \/ PopulateRest \/ MemoryDone
    PROVE  MapInv'
<1>1. CASE Fails(NoLeak)
  BY <1>1, FailMapOK
<1>2. CASE ~Fails(NoLeak) /\ (ClaimPages \/ MemoryDone)
  <2>1. /\ pc \in Early /\ pc' \in Early \cup {"kernel"}
        /\ UNCHANGED <<image, maps, memory, p2m, cr3>>
    BY <1>2 DEF ClaimPages, MemoryDone, Skip, Early, tabVars
  <2>2. ValuesInv'
    BY <2>1 DEF MapInv, ValuesInv, Pfns
  <2> QED BY <2>1, <2>2, EarlyMapOK
<1>3. CASE ~Fails(NoLeak) /\ (PopulateSuperPages \/ PopulateRest)
  <2>1. PICK n, frame : Populate(n, frame) /\ \A k \in Pfns : frame[k] \in Int
    <3>1. image.total \in Nat /\ 2^SuperShift \in Nat \ {0}
      BY BoundsAssumption, TotalIsNat DEF BuildInv, CountersInv
    <3>2. CASE PopulateSuperPages
      <4>1. PICK n : Populate(n, [k \in Pfns |-> SuperFrame(k)])
        BY <1>3, <3>2 DEF PopulateSuperPages
      <4>2. \A k \in Pfns : SuperFrame(k) \in Int
        <5> SUFFICES ASSUME NEW k \in Pfns PROVE SuperFrame(k) \in Int
          OBVIOUS
        <5>1. k \in Nat
          BY <3>1 DEF Pfns
        <5>2. PICK d \in Nat \ {0} : d = 2^SuperShift
          BY <3>1
        <5>3. k \div d \in Int /\ k % d \in Int
          BY <5>1
        <5>4. d * (k \div d + 1) \in Int
          BY <5>3
        <5> QED BY <3>1, <5>2, <5>3, <5>4 DEF SuperFrame, Extent
      <4> QED BY <4>1, <4>2
    <3>3. CASE PopulateRest
      <4>1. Populate(image.total - filled, [k \in Pfns |-> 2 * image.total + k])
        BY <1>3, <3>3 DEF PopulateRest
      <4>2. \A k \in Pfns : 2 * image.total + k \in Int
        BY <3>1 DEF Pfns
      <4> QED BY <4>1, <4>2
    <3> QED BY <1>3, <3>2, <3>3
  <2>2. UNCHANGED <<image, maps, memory, cr3>> /\ pc' = pc /\ pc \in Early
    BY <1>3, <2>1 DEF Populate, PopulateSuperPages, PopulateRest, Early, tabVars
  <2>3. ValuesInv'
    BY <2>1, <2>2 DEF Populate, MapInv, ValuesInv, Pfns
  <2> QED BY <2>2, <2>3, EarlyMapOK
<1> QED BY <1>1, <1>2, <1>3

LEMMA LoadsMapOK == ASSUME BuildInv, MapInv, LoadKernel \/ LoadInitrd PROVE MapInv'
<1>1. CASE \E leaked : Fails(leaked)
  BY <1>1, FailMapOK
<1>2. CASE ~\E leaked : Fails(leaked)
  <2>1. pc \in {"kernel", "initrd"} /\ pc' \in {"initrd", "magic"}
    BY <1>2 DEF LoadKernel, LoadInitrd, Skip, alloc_segment, SegmentAt, MapPages
  <2>2. UNCHANGED maps
    BY <1>2 DEF LoadKernel, LoadInitrd, Skip, tabVars
  <2>3. UNCHANGED <<image, p2m, memory, cr3>>
    BY <1>2, SegmentKeeps DEF LoadKernel, LoadInitrd, Skip, alloc_segment
  <2>4. ValuesInv'
    BY <2>3 DEF MapInv, ValuesInv, Pfns
  <2> QED BY <2>1, <2>2, <2>3, <2>4, EarlyMapOK
<1> QED BY <1>1, <1>2

LEMMA PagesMapOK ==
    ASSUME BuildInv, MapInv, AllocStartInfo \/ AllocXenstore \/ AllocConsole PROVE MapInv'
<1>1. CASE \E leaked : Fails(leaked)
  BY <1>1, FailMapOK
<1>2. CASE ~\E leaked : Fails(leaked)
  <2>1. /\ pc \in {"startInfo", "xenstore", "console"} /\ pc' \in {"xenstore", "console", "tables"}
        /\ UNCHANGED <<image, p2m, tabVars, memory, cr3>>
    BY <1>2 DEF AllocStartInfo, AllocXenstore, AllocConsole, alloc_page
  <2>2. UNCHANGED <<image, p2m, maps, pgend, memory>> /\ cr3' \in Int
    BY <2>1 DEF tabVars, MapInv, ValuesInv
  <2>3. LaidInv' /\ RangesInv' /\ EntriesInv' /\ ValuesInv'
    BY <2>2, AreasStay
  <2>4. ~Settled' /\ ~Placed' /\ KernelAt' = KernelAt
    <3>1. memory' = {}
      BY <2>1 DEF BuildInv, TablesInv, Tabled, Ended, GivenUp
    <3> QED BY <2>1, <3>1 DEF Settled, Placed, Tabled, Ended, GivenUp, KernelAt, p2mFirst
  <2>5. CountsInv'
    BY <2>1, <2>2, <2>4 DEF MapInv, AreasInv, CountsInv, Early
  <2>6. PlacesInv'
    BY <2>1, <2>4 DEF PlacesInv
  <2> QED BY <2>3, <2>5, <2>6 DEF MapInv, AreasInv
<1> QED BY <1>1, <1>2

\* The tables are the first of their segment.
LEMMA AllocTablesMapOK == ASSUME BuildInv, MapInv, AllocTables PROVE MapInv'
<1> DEFINE n == maps[Len(maps)].pgtables
           vstart == vend + Padding(0) * PageSize
<1>1. pc = "tablesAlloc" /\ SegmentAt("tables", vstart, 0, n, "stack") /\ UNCHANGED tabVars
  BY DEF AllocTables, alloc_segment
<1>2. CASE \E leaked : Fails(leaked)
  BY <1>2, FailMapOK
<1>3. CASE ~\E leaked : Fails(leaked)
  <2>1. UNCHANGED <<image, p2m, maps, pgend, memory>> /\ cr3' \in Int
    BY <1>1, SegmentKeeps DEF tabVars, MapInv, ValuesInv
  <2>2. pc' = "stack" /\ Record("tables", vstart, 0, n)
    BY <1>1, <1>3 DEF SegmentAt, MapPages, Padding
  <2>3. LaidInv' /\ RangesInv' /\ EntriesInv' /\ ValuesInv'
    BY <2>1, AreasStay
  <2>4. ~Settled' /\ KernelAt' = KernelAt
    <3>1. memory' = {}
      BY <1>1, <2>1 DEF BuildInv, TablesInv, Tabled, Ended, GivenUp
    <3> QED BY <2>1, <2>2, <3>1 DEF Settled, Tabled, Ended, GivenUp, KernelAt, p2mFirst
  <2>5. CountsInv'
    BY <1>1, <2>1, <2>2, <2>4 DEF MapInv, AreasInv, CountsInv, Early
  <2>6. maps[KernelAt].levels[3].pfn = pend
    <3>1. Len(maps) = KernelAt /\ KernelAt \in {1, 2}
      BY <1>1 DEF MapInv, AreasInv, CountsInv, KernelAt
    <3>2. maps \in Seq(MappingType)
      BY DEF BuildInv, TabsInv
    <3>3. KernelAt \in DOMAIN maps
      BY <3>1, <3>2
    <3> QED BY <1>1, <3>1, <3>3 DEF BuildInv, TabsInv, Tabled, Ended, GivenUp
  <2>7. "tables" \in DOMAIN segs' /\ segs'["tables"].pfn = pend
    <3>1. pend \in Nat
      BY DEF BuildInv, CountersInv
    <3> QED BY <2>2, <3>1 DEF Record, With
  <2>8. PlacesInv'
    BY <2>1, <2>2, <2>4, <2>6, <2>7 DEF PlacesInv
  <2> QED BY <2>3, <2>5, <2>8 DEF MapInv, AreasInv
<1> QED BY <1>2, <1>3

\* Pages are handed out up to the end of the kernel's area.
LEMMA StackMapOK == ASSUME BuildInv, BuildInv', MapInv, AllocStack PROVE MapInv'
<1>1. CASE \E leaked : Fails(leaked)
  BY <1>1, FailMapOK
<1>2. CASE ~\E leaked : Fails(leaked)
  <2>1. /\ pc = "stack" /\ pc' = "p2mLate" /\ Record("stack", vend, 0, 1)
        /\ Advance(1, (pgend - vend) \div PageSize - 1) /\ ~(pgend < vend + PageSize)
        /\ UNCHANGED <<image, p2m, tabVars, memory, cr3>>
    BY <1>2 DEF AllocStack
  <2>2. UNCHANGED <<image, p2m, maps, pgend, memory>> /\ cr3' \in Int
    BY <2>1 DEF tabVars, MapInv, ValuesInv
  <2>3. LaidInv' /\ RangesInv' /\ EntriesInv' /\ ValuesInv'
    BY <2>2, AreasStay
  <2>4. ~Settled' /\ Placed /\ KernelAt' = KernelAt
    <3>1. memory' = {}
      BY <2>1 DEF BuildInv, TablesInv, Tabled, Ended, GivenUp
    <3> QED BY <2>1, <3>1 DEF Settled, Placed, Tabled, Ended, GivenUp, KernelAt, p2mFirst
  <2>5. CountsInv'
    BY <2>1, <2>2, <2>4 DEF MapInv, AreasInv, CountsInv, Early
  <2>6. "tables" \in DOMAIN segs' /\ segs'["tables"] = segs["tables"]
    BY <2>1, <2>4 DEF MapInv, AreasInv, PlacesInv, Record, With
  <2>7. vend' <= pgend
    <3>1. PICK P \in Nat \ {0} : P = PageSize
      BY WidthsAssumption
    <3>2. vend \in Nat /\ pgend \in Nat /\ pgend - vend \in Nat
      BY <2>1, <3>1 DEF BuildInv, CountersInv
    <3>3. PICK q \in Nat : q = (pgend - vend) \div P
      BY <3>1, <3>2, Parts
    <3>4. P * q <= pgend - vend
      <4>1. pgend - vend = P * q + ((pgend - vend) % P) /\ (pgend - vend) % P \in 0..(P - 1)
        BY <3>2, <3>3, Parts
      <4>2. P * q \in Nat
        OBVIOUS
      <4> QED BY <3>2, <4>1, <4>2
    <3>5. vend' = vend + (1 + (q - 1)) * P
      BY <2>1, <3>1, <3>3 DEF Advance
    <3>6. 1 + (q - 1) = q /\ q * P = P * q /\ P * q \in Nat
      OBVIOUS
    <3> QED BY <3>2, <3>4, <3>5, <3>6
  <2>8. image'.base + pend' * PageSize <= pgend'
    <3>1. vend' = image'.base + pend' * PageSize'
      BY <2>1 DEF BuildInv, CountersInv, Early, GivenUp
    <3> QED BY <2>2, <2>7, <3>1
  <2>9. PlacesInv'
    BY <2>1, <2>2, <2>4, <2>6, <2>8 DEF MapInv, AreasInv, PlacesInv
  <2> QED BY <2>3, <2>5, <2>9 DEF MapInv, AreasInv
<1> QED BY <1>1, <1>2

\* A segment that was handed out lies in the kernel's area.
LEMMA UpToEnd ==
    ASSUME BuildInv, image.base + pend * PageSize <= pgend, NEW s \in DOMAIN segs
    PROVE  image.base + (segs[s].pfn + segs[s].pages) * PageSize <= pgend
<1>1. PICK P \in Nat : P = PageSize
  BY WidthsAssumption
<1>2. /\ pend \in Nat /\ image.base \in Nat /\ pgend \in Nat
  BY TotalIsNat DEF BuildInv, CountersInv, ImageType
<1>3. PICK n \in Nat : n = segs[s].pfn + segs[s].pages /\ n <= pend
  BY DEF BuildInv, SegsInv
<1>4. P * n <= P * pend /\ n * P = P * n /\ pend * P = P * pend
      /\ P * n \in Nat /\ P * pend \in Nat
  BY <1>2, <1>3, MulGrows
<1> QED BY <1>1, <1>2, <1>3, <1>4

LEMMA ListThere == ASSUME BuildInv, MapInv, AllocP2mLate, p2mFirst PROVE MapInv'
<1>1. /\ pc = "p2mLate" /\ pc' = "evtchn"
      /\ UNCHANGED <<image, memVars, p2m, tabVars, memory, cr3>>
  BY DEF AllocP2mLate, Skip
<1>2. UNCHANGED <<image, segs, p2m, maps, pgend, memory>> /\ cr3' \in Int
  BY <1>1 DEF tabVars, memVars, MapInv, ValuesInv
<1>3. LaidInv' /\ RangesInv' /\ EntriesInv' /\ ValuesInv'
  BY <1>2, AreasStay
<1>4. Placed /\ KernelAt' = KernelAt /\ KernelAt = 2 /\ p2mFirst'
  BY <1>1 DEF Placed, KernelAt, p2mFirst
<1>5. CountsInv'
  BY <1>1, <1>2, <1>4 DEF MapInv, AreasInv, CountsInv, Early
<1>6. \A s \in DOMAIN segs : image.base + (segs[s].pfn + segs[s].pages) * PageSize <= pgend
  BY <1>1, UpToEnd DEF MapInv, AreasInv, PlacesInv
<1>7. PlacesInv'
  BY <1>1, <1>2, <1>4, <1>6 DEF MapInv, AreasInv, PlacesInv
<1> QED BY <1>3, <1>5, <1>7 DEF MapInv, AreasInv

\* When all areas are there neither they nor the segments change.
LEMMA LateMapOK ==
    ASSUME BuildInv, MapInv,
           AllocEvtchn \/ setup_start_info \/ setup_hypercall_page \/ bootlate
             \/ setup_shared_info \/ vcpu \/ gnttab_seed
    PROVE  MapInv'
<1>1. CASE \E leaked : Fails(leaked)
  BY <1>1, FailMapOK
<1>2. CASE ~\E leaked : Fails(leaked)
  <2>1. /\ pc \in {"evtchn"} \cup (Tabled \ Ended) /\ pc' \in {"setupTables"} \cup Tabled
        /\ UNCHANGED <<image, memVars, p2m, tabVars, memory>>
        /\ cr3' = cr3 \/ (pc = "vcpu" /\ cr3' = p2m[segs["tables"].pfn])
    BY <1>2 DEF AllocEvtchn, setup_start_info, setup_hypercall_page, bootlate,
                setup_shared_info, vcpu, gnttab_seed, Skip, MapPages, Tabled, Ended,
                GivenUp, GiveUpHalfway
  <2>2. UNCHANGED <<image, segs, p2m, maps, pgend, memory>>
    BY <2>1 DEF tabVars, memVars
  <2>3. Settled /\ Placed
    BY <2>1 DEF Settled, Placed, Tabled, Ended, GivenUp
  <2>4. segs["tables"].pfn \in Pfns
    <3>1. "tables" \in DOMAIN segs
      BY <2>3 DEF MapInv, AreasInv, PlacesInv
    <3>2. /\ segs["tables"].pfn \in Nat /\ segs["tables"].pages \in Nat \ {0}
          /\ segs["tables"].pfn + segs["tables"].pages <= pend
      BY <3>1 DEF BuildInv, SegsInv
    <3>3. pend \in 0..image.total /\ image.total \in Nat
      BY TotalIsNat DEF BuildInv, CountersInv
    <3> QED BY <3>2, <3>3 DEF Pfns
  <2>5. cr3' \in Int
    BY <2>1, <2>4 DEF MapInv, ValuesInv
  <2> QED BY <2>1, <2>2, <2>3, <2>5, QuietMapOK
<1> QED BY <1>1, <1>2

------------------------------------------------------------------------------
(* Areas that are counted.                                                   *)

\* The bits an address loses are whole pages.
LEMMA PartOf ==
    ASSUME NEW c \in Nat \ {0}, 2^VirtBits = PageSize * c, NEW n \in Nat
    PROVE  /\ n \div 2^VirtBits \in Nat /\ n \div PageSize \in Nat
           /\ (n % 2^VirtBits) \div PageSize = n \div PageSize - c * (n \div 2^VirtBits)
<1>1. PICK P \in Nat \ {0}, V \in Nat \ {0} : P = PageSize /\ V = 2^VirtBits
  BY WidthsAssumption
<1>2. n \div V \in Nat /\ n % V \in 0..(V - 1) /\ n = V * (n \div V) + (n % V)
  BY Parts
<1>3. PICK q \in Nat : q = n \div V
  BY <1>2
<1>4. V * q = P * (c * q) /\ c * q \in Nat /\ P * (c * q) \in Nat
  <2>1. (P * c) * q = P * (c * q)
    OBVIOUS
  <2> QED BY <1>1, <2>1
<1>5. PICK k \in Nat : k = c * q
  BY <1>4
<1>6. P * k <= n /\ n % V = n - P * k
  BY <1>2, <1>3, <1>4, <1>5
<1>7. (n - P * k) \div P = n \div P - k
  BY <1>6, DivShift
<1>8. n \div P \in Nat
  BY Parts
<1> QED BY <1>1, <1>2, <1>3, <1>5, <1>6, <1>7, <1>8

LEMMA QuotientsNear ==
    ASSUME NEW a \in Nat, NEW b \in Nat, a <= b
    PROVE  (b % 2^VirtBits) \div PageSize - (a % 2^VirtBits) \div PageSize
             <= b \div PageSize - a \div PageSize
<1>1. PICK c \in Nat \ {0} : 2^VirtBits = PageSize * c
  BY SpaceOfPages
<1>2. PICK V \in Nat \ {0} : V = 2^VirtBits
  BY WidthsAssumption
<1>3. a \div V \in Nat /\ b \div V \in Nat /\ a \div V <= b \div V
  BY Parts, DivGrows
<1>4. PICK p \in Nat, q \in Nat : p = a \div V /\ q = b \div V /\ p <= q
  BY <1>3
<1>5. c * p <= c * q /\ c * p \in Nat /\ c * q \in Nat
  BY <1>4, MulGrows
<1>6. /\ (a % 2^VirtBits) \div PageSize = a \div PageSize - c * p /\ a \div PageSize \in Nat
      /\ (b % 2^VirtBits) \div PageSize = b \div PageSize - c * q /\ b \div PageSize \in Nat
  BY <1>1, <1>2, <1>4, PartOf
<1>7. PICK x \in Nat, y \in Nat : x = a \div PageSize /\ y = b \div PageSize
  BY <1>6
<1> QED BY <1>5, <1>6, <1>7

\* From the first of a page, or to the last.
LEMMA PagesBetween ==
    ASSUME NEW P \in Nat \ {0}, NEW a \in Nat, NEW b \in Nat, a <= b,
           a % P = 0 \/ (b + 1) % P = 0
    PROVE  b \div P - a \div P = (b - a) \div P
<1>1. PICK p \in Nat, r \in 0..(P - 1) : p = a \div P /\ r = a % P /\ a = P * p + r
  BY Parts
<1>2. CASE a % P = 0
  <2>1. P * p <= b /\ b - a = b - P * p
    BY <1>1, <1>2
  <2>2. (b - P * p) \div P = b \div P - p
    BY <2>1, DivShift
  <2> QED BY <1>1, <2>1, <2>2
<1>3. CASE (b + 1) % P = 0
  <2>1. b + 1 \in Nat
    OBVIOUS
  <2>2. (b + 1) \div P \in Nat /\ b + 1 = P * ((b + 1) \div P) + ((b + 1) % P)
    BY <2>1, Parts
  <2>3. PICK z \in Nat : z = (b + 1) \div P /\ b + 1 = P * z + 0
    BY <1>3, <2>2
  <2>4. z # 0
    <3>1. z = 0 => P * z = 0
      OBVIOUS
    <3> QED BY <2>3, <3>1
  <2>5. PICK y \in Nat : y = z - 1
    BY <2>4
  <2>6. P * z = P * y + P /\ P * y \in Nat
    BY <2>5
  <2>7. b = P * y + (P - 1) /\ P - 1 \in 0..(P - 1)
    BY <2>3, <2>6
  <2>8. b \div P = y
    <3>1. PICK e \in 0..(P - 1) : e = P - 1 /\ b = P * y + e
      BY <2>7
    <3> QED BY <3>1, DivIs
  <2>9. p <= y
    BY <1>1, <2>8, DivGrows
  <2>10. PICK k \in Nat, s \in 0..(P - 1) : k = y - p /\ s = P - 1 - r
    <3>1. y - p \in Nat /\ P - 1 - r \in 0..(P - 1)
      BY <2>9
    <3> QED BY <3>1
  <2>11. P * k = P * y - P * p /\ P * p \in Nat
    BY <2>10
  <2>12. b - a = P * k + s
    BY <1>1, <2>6, <2>7, <2>10, <2>11
  <2>13. (b - a) \div P = k
    BY <2>12, DivIs
  <2> QED BY <1>1, <2>8, <2>10, <2>13
<1> QED BY <1>2, <1>3

\* Wherever n pages begin, the last address is no more than n quotients on.
LEMMA PagesFrom ==
    ASSUME NEW P \in Nat \ {0}, NEW a \in Nat, NEW n \in Nat \ {0}
    PROVE  (a + P * n - 1) \div P - a \div P <= n
<1>1. P * n \in Nat /\ P * n >= 1
  OBVIOUS
<1>2. PICK b \in Nat, e \in Nat : b = a + P * n /\ e = b - 1
  BY <1>1
<1>3. e \div P <= b \div P /\ e \div P \in Nat
  BY <1>2, DivGrows, Parts
<1>4. P * n <= b /\ b - P * n = a
  BY <1>1, <1>2
<1>5. (b - P * n) \div P = b \div P - n
  BY <1>4, DivShift
<1>6. PICK x \in Nat, y \in Nat, z \in Nat : x = a \div P /\ y = b \div P /\ z = e \div P
  BY Parts
<1> QED BY <1>2, <1>3, <1>4, <1>5, <1>6

LEMMA ModTwice == \A n \in Int : (n % 2^VirtBits) % 2^VirtBits = n % 2^VirtBits
                                 /\ n % 2^VirtBits \in 0..VirtMask
<1> SUFFICES ASSUME NEW n \in Int
             PROVE  /\ (n % 2^VirtBits) % 2^VirtBits = n % 2^VirtBits
                    /\ n % 2^VirtBits \in 0..VirtMask
  OBVIOUS
<1>1. n % 2^VirtBits \in 0..VirtMask
  BY WidthsAssumption DEF VirtMask
<1> QED BY <1>1, InSpace

\* What count_page_tables makes is laid out as counted.
LEMMA CountedIsLaid ==
    ASSUME NEW ms, ms = <<>> \/ Mapping(ms[1]), NEW at \in Nat, NEW from \in Int, NEW to \in Int
    PROVE  LET m == count_page_tables(ms, at, from, to)
           IN  /\ Laid(ms, m) /\ m.from = from % 2^VirtBits /\ m.to = to % 2^VirtBits
               /\ m.pfn = 0
<1>1. PICK a \in 0..VirtMask, b \in 0..VirtMask :
        /\ a = from % 2^VirtBits /\ b = to % 2^VirtBits
        /\ a % 2^VirtBits = a /\ b % 2^VirtBits = b
  BY ModTwice
<1>2. PICK m : m = count_page_tables(ms, at, from, to)
  OBVIOUS
<1>3. m.from = a /\ m.to = b /\ m.pfn = 0
  BY <1>1, <1>2 DEF count_page_tables
<1>4. count_page_tables(ms, at, a, b) = m
  <2> DEFINE range(s, e) == [l \in Levels |-> LevelRange(ms, s, e, l)]
             count(s, e) == [l \in Levels |-> TableCount(range(s, e)[l], l)]
             above(s, e) == StackOf(count(s, e))
             Whole_(s, e) ==
               [from |-> s, to |-> e, pfn |-> 0, pgtables |-> above(s, e)[0] + count(s, e)[0],
                levels |-> [l \in Levels |->
                  [from |-> range(s, e)[l].from, to |-> range(s, e)[l].to,
                   pgtables |-> count(s, e)[l], pfn |-> at + above(s, e)[l]]]]
  <2>1. /\ m = Whole_(from % 2^VirtBits, to % 2^VirtBits)
        /\ count_page_tables(ms, at, a, b) = Whole_(a % 2^VirtBits, b % 2^VirtBits)
    BY <1>2 DEF count_page_tables, StackOf
  <2> HIDE DEF Whole_
  <2> QED BY <1>1, <2>1
<1>5. m.levels[3].pfn = at
  BY <1>2, CountedIsMapping
<1>6. Laid(ms, m)
  BY <1>3, <1>4, <1>5 DEF Laid
<1> QED BY <1>1, <1>2, <1>3, <1>6

\* So are the tables of the list, behind it.
LEMMA P2mIsLaid ==
    ASSUME NEW ms, NEW m, Mapping(m), Laid(ms, m), m.levels[3].pfn = pend,
           pend \in Nat, p2mPages \in Nat
    PROVE  LET n == P2mMap(m)
           IN  Laid(ms, n) /\ n.from = m.from /\ n.to = m.to /\ n.pfn = pend
<1>1. PICK n : n = P2mMap(m)
  OBVIOUS
<1>2. m \in MappingType /\ Levels = {0, 1, 2, 3}
  BY DEF Mapping, Levels
<1>3. /\ n.from = m.from /\ n.to = m.to /\ n.pfn = pend /\ n.pgtables = m.pgtables
      /\ n.levels = [l \in Levels |-> [m.levels[l] EXCEPT !.pfn = @ + p2mPages]]
  BY <1>1, <1>2 DEF P2mMap, MappingType
<1>4. n.levels[3].pfn = pend + p2mPages
  BY <1>1, P2mIsMapping
<1> DEFINE start_ == m.from % 2^VirtBits
           end_ == m.to % 2^VirtBits
           range == [l \in Levels |-> LevelRange(ms, start_, end_, l)]
           count == [l \in Levels |-> TableCount(range[l], l)]
           above == StackOf(count)
           Made_(at) == count_page_tables(ms, at, m.from, m.to)
<1>5. \A at : Made_(at) =
        [from |-> start_, to |-> end_, pfn |-> 0, pgtables |-> above[0] + count[0],
         levels |-> [l \in Levels |->
           [from |-> range[l].from, to |-> range[l].to, pgtables |-> count[l],
            pfn |-> at + above[l]]]]
  BY DEF count_page_tables, StackOf
<1>6. m.levels = Made_(pend).levels /\ m.pgtables = Made_(pend).pgtables
  BY DEF Laid
<1> HIDE DEF Made_
<1> HIDE DEF range, count, above
<1>7. ASSUME NEW l \in Levels
      PROVE  /\ m.levels[l].from = range[l].from /\ m.levels[l].to = range[l].to
             /\ m.levels[l].pgtables = count[l] /\ m.levels[l].pfn = pend + above[l]
  <2>1. PICK c : c = Made_(pend)
    OBVIOUS
  <2>2. c = [from |-> start_, to |-> end_, pfn |-> 0, pgtables |-> above[0] + count[0],
             levels |-> [k \in Levels |->
               [from |-> range[k].from, to |-> range[k].to, pgtables |-> count[k],
                pfn |-> pend + above[k]]]]
    BY <1>5, <2>1
  <2> HIDE DEF start_, end_
  <2> QED BY <1>6, <2>1, <2>2
<1>8. \A l \in Levels : m.levels[l].pgtables \in Nat /\ m.levels[l].pfn \in Nat
  BY <1>2 DEF MappingType
<1>9. \A l \in Levels : above[l] \in Nat
  <2>1. \A l \in Levels : m.levels[l].pgtables = count[l]
    BY <1>7
  <2>2. count[0] \in Nat /\ count[1] \in Nat /\ count[2] \in Nat /\ count[3] \in Nat
    BY <1>2, <1>8, <2>1
  <2>3. /\ above[3] = 0 /\ above[2] = count[3] /\ above[1] = count[3] + count[2]
        /\ above[0] = count[3] + count[2] + count[1]
    BY <1>2 DEF above, StackOf
  <2> QED BY <1>2, <2>2, <2>3
<1> HIDE DEF start_, end_
<1>10. PICK at \in Nat : at = pend + p2mPages
  OBVIOUS
<1>11. n.levels = Made_(at).levels
  <2>1. ASSUME NEW l \in Levels
        PROVE  [m.levels[l] EXCEPT !.pfn = @ + p2mPages]
                 = [from |-> range[l].from, to |-> range[l].to, pgtables |-> count[l],
                    pfn |-> at + above[l]]
    <3>1. (pend + above[l]) + p2mPages = at + above[l]
      BY <1>9, <1>10
    <3>2. m.levels[l] \in [from : Nat, to : Int, pgtables : Nat, pfn : Nat]
      BY <1>2 DEF MappingType
    <3>3. \A r \in [from : Nat, to : Int, pgtables : Nat, pfn : Nat] :
            [r EXCEPT !.pfn = @ + p2mPages]
              = [from |-> r.from, to |-> r.to, pgtables |-> r.pgtables, pfn |-> r.pfn + p2mPages]
      OBVIOUS
    <3>6. [m.levels[l] EXCEPT !.pfn = @ + p2mPages]
            = [from |-> m.levels[l].from, to |-> m.levels[l].to,
               pgtables |-> m.levels[l].pgtables, pfn |-> m.levels[l].pfn + p2mPages]
      BY ONLY <3>2, <3>3, Zenon
    <3> QED BY <1>7, <3>1, <3>6
  <2> QED BY <1>3, <1>5, <2>1
<1>12. n.pgtables = Made_(at).pgtables
  BY <1>3, <1>5, <1>6
<1>13. Laid(ms, n)
  BY <1>3, <1>4, <1>10, <1>11, <1>12 DEF Laid, Made_
<1> QED BY <1>1, <1>3, <1>13

\* An area more, whose tables lie behind those before.
LEMMA AreaAppended ==
    ASSUME BuildInv, LaidInv, pc \notin Tabled \cup {"tablesAlloc"}, Len(maps) <= 1,
           NEW m, Mapping(m), Laid(maps, m), InMemory(m), pend <= m.levels[3].pfn,
           maps' = Append(maps, m), image' = image
    PROVE  /\ LaidInv' /\ Len(maps') = Len(maps) + 1 /\ maps'[Len(maps) + 1] = m
           /\ \A i \in DOMAIN maps : maps'[i] = maps[i]
           /\ DOMAIN maps' = DOMAIN maps \cup {Len(maps) + 1}
<1>1. maps \in Seq(MappingType) /\ m \in MappingType /\ Len(maps) \in {0, 1}
  <2>1. maps \in Seq(MappingType)
    BY DEF BuildInv, TabsInv
  <2>2. Len(maps) \in Nat
    BY <2>1
  <2>3. m \in MappingType
    BY DEF Mapping
  <2>4. \A k \in Nat : k <= 1 => k \in {0, 1}
    OBVIOUS
  <2>5. Len(maps) \in {0, 1}
    BY ONLY <2>2, <2>4, Len(maps) <= 1, Zenon
  <2> QED BY ONLY <2>1, <2>3, <2>5, Zenon
<1>2. /\ Len(maps') = Len(maps) + 1 /\ maps'[Len(maps) + 1] = m
      /\ \A i \in DOMAIN maps : maps'[i] = maps[i]
      /\ DOMAIN maps' = DOMAIN maps \cup {Len(maps) + 1}
      /\ DOMAIN maps = 1..Len(maps)
  BY <1>1
<1>3. InMemory(m)' = InMemory(m)
  BY DEF InMemory
<1>4. CASE Len(maps) = 0
  <2>1. maps = <<>> /\ DOMAIN maps' = {1} /\ maps'[1] = m /\ Len(maps') = 1
    BY <1>1, <1>2, <1>4
  <2>2. Laid(<<>>, maps'[1]) /\ InMemory(maps[1])'
    BY <1>3, <2>1 DEF InMemory
  <2>3. LaidInv'
    BY <2>1, <2>2 DEF LaidInv, InMemory, Laid
  <2> QED BY <1>2, <2>3
<1>5. CASE Len(maps) = 1
  <2>1. DOMAIN maps = {1} /\ DOMAIN maps' = {1, 2} /\ maps'[2] = m /\ maps'[1] = maps[1]
    BY <1>2, <1>5
  <2>2. maps = <<maps[1]>>
    BY <1>1, <1>5
  <2>3. Laid(<<>>, maps'[1]) /\ Laid(<<maps'[1]>>, maps'[2])
    BY <2>1, <2>2 DEF LaidInv
  <2>4. InMemory(maps[1])' /\ InMemory(maps[2])'
    BY <2>1 DEF LaidInv, InMemory
  <2>5. maps'[1].levels[3].pfn + maps'[1].pgtables <= maps'[2].levels[3].pfn
    <3>1. Mapping(maps[1]) /\ Apart(maps[1])
      BY <2>1 DEF BuildInv, TabsInv
    <3>2. 3 \in Levels
      BY DEF Levels
    <3>3. /\ maps[1].levels[3].pfn \in Nat /\ maps[1].pgtables \in Nat
          /\ m.levels[3].pfn \in Nat /\ pend \in Nat
      BY <1>1, <3>1, <3>2 DEF Mapping, MappingType, BuildInv, CountersInv
    <3>4. maps[1].levels[3].pfn + maps[1].pgtables <= pend
      BY <3>1 DEF Apart
    <3> QED BY <2>1, <3>3, <3>4
  <2>6. \A i \in DOMAIN maps' : Laid(IF i = 1 THEN <<>> ELSE <<maps'[1]>>, maps'[i])
    BY <2>1, <2>3
  <2>7. LaidInv'
    BY <2>1, <2>4, <2>5, <2>6 DEF LaidInv, InMemory, Laid
  <2> QED BY <1>2, <2>7
<1> QED BY <1>1, <1>4, <1>5

LEMMA ListPages ==
    ASSUME image \in Images, image.total > 0
    PROVE  p2mPages \in Nat \ {0} /\ image.p2mBase \in Nat
<1>1. PICK K \in Nat \ {0} : K = Entries
  BY WidthsAssumption
<1>2. PICK n \in Nat : n = image.total + K - 1 /\ K * 1 <= n
  BY TotalIsNat, <1>1
<1>3. n \div K \in Nat /\ 1 <= n \div K
  BY <1>2, Parts, AtMost
<1> QED BY <1>1, <1>2, <1>3, ImagesAssumption DEF p2mPages, ImageType

\* The first area has the table of the last level.
LEMMA FirstHasTable ==
    ASSUME NEW m, Mapping(m), Laid(<<>>, m)
    PROVE  m.pgtables >= 1
<1>1. 3 \in Levels /\ 3 + 1 = 4
  BY DEF Levels
<1>2. m.levels[3].from = 0 /\ m.levels[3].to = VirtMask
  <2>1. /\ m.levels[3].from = LevelRange(<<>>, m.from, m.to, 3).from
        /\ m.levels[3].to = LevelRange(<<>>, m.from, m.to, 3).to
    BY <1>1, LaidIs
  <2> QED BY <2>1 DEF LevelRange
<1>3. VirtMask \in Nat /\ VirtMask > 0
  BY WidthsAssumption DEF VirtMask
<1>4. PICK R \in Nat \ {0} : R = Reach(4)
  BY WidthsAssumption
<1>5. VirtMask \div R \in Nat
  BY <1>3, Parts
<1>6. m.levels[3].pgtables = VirtMask \div R + 1
  BY <1>1, <1>2, <1>3, <1>4 DEF Mapping, TableCount
<1>7. /\ m.levels[3].pfn + m.levels[3].pgtables <= m.levels[3].pfn + m.pgtables
      /\ m.levels[3].pfn \in Nat /\ m.levels[3].pgtables \in Nat /\ m.pgtables \in Nat
  BY <1>1 DEF Mapping, MappingType
<1> QED BY <1>5, <1>6, <1>7

\* The end that a round of the search assumes
LEMMA TryEndIs ==
    ASSUME BuildInv, pc = "tables"
    PROVE  TryEnd \in Nat /\ (TryEnd + 1) % PageSize = 0 /\ TryEnd > image.base
<1>1. PICK S \in Nat \ {0}, P \in Nat \ {0, 1} : S = 2^RoundShift /\ P = PageSize /\ S % P = 0
  BY BoundsAssumption, WidthsAssumption
<1>2. /\ vend \in Nat /\ tries \in Nat /\ pend \in Nat /\ image.base \in Nat
      /\ vend = image.base + pend * P
  BY <1>1, TotalIsNat DEF BuildInv, CountersInv, Early, GivenUp, ImageType
<1>3. pend >= 1
  <2>1. "startInfo" \in DOMAIN segs
    BY DEF BuildInv, SegsInv, Started
  <2>2. /\ segs["startInfo"].pfn \in Nat /\ segs["startInfo"].pages \in Nat \ {0}
        /\ segs["startInfo"].pfn + segs["startInfo"].pages <= pend
    BY <2>1 DEF BuildInv, SegsInv
  <2>3. pend \in Nat
    BY <1>2
  <2> QED BY <2>2, <2>3
<1>4. pend * P >= P /\ pend * P \in Nat /\ tries * P \in Nat
  <2>1. P * 1 <= P * pend
    BY <1>2, <1>3, MulGrows
  <2> QED BY <1>2, <2>1
<1>5. PICK x \in Nat : x = vend + tries * P /\ x >= image.base + P
  BY <1>2, <1>4
<1>6. PICK q \in Nat, r \in 0..(S - 1) : q = x \div S /\ x = S * q + r
  BY Parts
<1>7. TryEnd = q * S + S - 1
  BY <1>1, <1>5, <1>6 DEF TryEnd, round_up
<1>8. q * S = S * q /\ S * q \in Nat /\ S * (q + 1) = S * q + S
  OBVIOUS
<1>9. TryEnd \in Nat /\ TryEnd + 1 = S * (q + 1)
  BY <1>7, <1>8
<1>10. TryEnd > image.base
  BY <1>2, <1>5, <1>6, <1>7, <1>8
<1>11. PICK u \in Nat : S = P * u
  <2>1. S \div P \in Nat /\ S = P * (S \div P) + (S % P)
    BY Parts
  <2>2. PICK u \in Nat, e \in Nat : u = S \div P /\ e = S % P /\ e = 0
    BY <1>1, <2>1
  <2>3. S = P * u + e
    BY <2>1, <2>2
  <2>4. P * u \in Nat
    OBVIOUS
  <2> QED BY <2>2, <2>3, <2>4
<1>12. S * (q + 1) = P * (u * (q + 1)) /\ u * (q + 1) \in Nat
  BY <1>11
<1>13. PICK z \in Nat, e \in Nat : z = u * (q + 1) /\ e = TryEnd + 1 /\ e = P * z
  BY <1>9, <1>12
<1>14. e % P = 0
  BY <1>13, MultipleIs
<1> QED BY <1>1, <1>9, <1>10, <1>13, <1>14

------------------------------------------------------------------------------
(* The areas are mapped to pages that are there.                             *)

\* Whatever the upper bits of an area are, its pages are in memory.
LEMMA AreaInMemory ==
    ASSUME NEW m, Mapping(m), NEW a \in Nat, NEW b \in Nat, a <= b,
           m.from = a % 2^VirtBits, m.to = b % 2^VirtBits, image.total \in Nat,
           m.pfn + (b \div PageSize - a \div PageSize) < image.total
    PROVE  InMemory(m)
<1>1. PICK P \in Nat \ {0} : P = PageSize
  BY WidthsAssumption
<1>2. PICK x \in Nat, y \in Nat : x = a \div P /\ y = b \div P
  BY Parts
<1>3. m.from \in Nat /\ m.to \in Nat /\ m.pfn \in Nat
  BY DEF Mapping, MappingType
<1>4. PICK u \in Nat, v \in Nat : u = m.from \div P /\ v = m.to \div P
  BY <1>3, Parts
<1>5. v - u <= y - x
  BY <1>1, <1>2, <1>4, QuotientsNear
<1>6. m.pfn + (y - x) < image.total
  BY <1>1, <1>2
<1>7. m.pfn + (v - u) < image.total
  BY <1>2, <1>3, <1>4, <1>5, <1>6
<1> QED BY <1>1, <1>4, <1>7 DEF InMemory

\* The area of the list, behind which its tables have place.
LEMMA ListArea ==
    ASSUME BuildInv, MapInv, image.total > 0, NEW to, NEW counted, NEW m,
           to = image.p2mBase + p2mPages * PageSize - 1,
           ~CannotMap(maps, image.total, image.p2mBase, to, pend),
           counted = count_page_tables(maps, pend, image.p2mBase, to),
           m = P2mMap(counted), pend + p2mPages + m.pgtables <= image.total,
           p2mFirst => maps = <<>>
    PROVE  /\ p2mPages > 0 /\ Mapping(m) /\ Laid(maps, m) /\ InMemory(m)
           /\ pend <= m.levels[3].pfn /\ m.pfn = pend
           /\ m.from = image.p2mBase % 2^VirtBits /\ m.to = to % 2^VirtBits
<1>1. image \in Images /\ image.total \in Nat /\ pend \in Nat
  BY TotalIsNat DEF BuildInv, CountersInv
<1>2. PICK P \in Nat \ {0, 1}, n \in Nat \ {0}, a \in Nat :
        P = PageSize /\ n = p2mPages /\ a = image.p2mBase
  BY <1>1, ListPages, WidthsAssumption
<1>3. P * n \in Nat /\ P * n >= 1 /\ n * P = P * n
  OBVIOUS
<1>4. PICK b \in Nat : b = to /\ b = a + P * n - 1 /\ a <= b
  BY <1>2, <1>3
<1>5. maps = <<>> \/ Mapping(maps[1])
  BY FirstMapping DEF BuildInv
<1>6. Mapping(counted) /\ counted.levels[3].pfn = pend
  <2>1. a \in Int /\ b \in Int /\ counted = count_page_tables(maps, pend, a, b)
    BY <1>2, <1>4
  <2> QED BY <1>1, <1>5, <2>1, CountedIsMapping
<1>7. Laid(maps, counted) /\ counted.from = a % 2^VirtBits /\ counted.to = b % 2^VirtBits
  <2>1. a \in Int /\ b \in Int /\ counted = count_page_tables(maps, pend, a, b)
    BY <1>2, <1>4
  <2> QED BY <1>1, <1>5, <2>1, CountedIsLaid
<1>8. Mapping(m) /\ m.levels[3].pfn = pend + n
  BY <1>1, <1>2, <1>6, P2mIsMapping
<1>9. /\ Laid(maps, m) /\ m.pfn = pend
      /\ m.from = a % 2^VirtBits /\ m.to = b % 2^VirtBits
  BY <1>1, <1>2, <1>6, <1>7, P2mIsLaid
<1>10. PICK x \in Nat, y \in Nat, z \in Nat :
         x = a \div P /\ y = b \div P /\ z = (b - a) \div P
  <2>1. b - a \in Nat
    BY <1>4
  <2> QED BY <2>1, Parts
<1>11. pend + z < image.total
  <2>1. ~(pend + (to - image.p2mBase) \div PageSize >= image.total)
    BY DEF CannotMap
  <2>2. (to - image.p2mBase) \div PageSize = z
    BY <1>2, <1>4, <1>10, Zenon
  <2> QED BY <1>1, <2>1, <2>2
<1>12. pend + (y - x) < image.total
  <2>1. CASE a % P = 0
    <3>1. y - x = z
      BY <1>4, <1>10, <2>1, PagesBetween
    <3> QED BY <1>11, <3>1
  <2>2. CASE a % P # 0
    <3>1. maps = <<>>
      BY <1>2, <2>2 DEF p2mFirst
    <3>2. m.pgtables >= 1
      BY <1>8, <1>9, <3>1, FirstHasTable
    <3>3. y - x <= n
      BY <1>4, <1>10, PagesFrom
    <3>4. m.pgtables \in Nat /\ pend + n + m.pgtables <= image.total
      BY <1>2, <1>8 DEF Mapping, MappingType
    <3> QED BY ONLY <1>1, <3>2, <3>3, <3>4, x \in Nat, y \in Nat, n \in Nat
  <2> QED BY <2>1, <2>2
<1>13. InMemory(m)
  <2>1. m.pfn + (b \div PageSize - a \div PageSize) < image.total
    BY <1>2, <1>9, <1>10, <1>12
  <2> QED BY <1>1, <1>4, <1>8, <1>9, <2>1, AreaInMemory
<1> QED BY <1>1, <1>2, <1>4, <1>8, <1>9, <1>13

\* The area of the kernel, which begins at the first page
LEMMA KernelArea ==
    ASSUME BuildInv, MapInv, pc = "tables",
           ~CannotMap(maps, image.total, image.base, TryEnd, 0)
    PROVE  /\ Mapping(Counted) /\ Laid(maps, Counted) /\ InMemory(Counted)
           /\ pend = Counted.levels[3].pfn /\ Counted.pfn = 0
           /\ Counted.from = image.base % 2^VirtBits
           /\ Counted.to = TryEnd % 2^VirtBits
<1>1. image.total \in Nat /\ image.base \in Nat /\ pend \in Nat
  BY TotalIsNat DEF BuildInv, CountersInv, ImageType
<1>2. PICK P \in Nat \ {0}, a \in Nat, b \in Nat :
        P = PageSize /\ a = image.base /\ b = TryEnd /\ a <= b /\ (b + 1) % P = 0
  BY <1>1, TryEndIs, WidthsAssumption
<1>3. PICK c : c = Counted /\ c = count_page_tables(maps, pend, a, b)
  BY <1>2 DEF Counted
<1>4. maps = <<>> \/ Mapping(maps[1])
  BY FirstMapping DEF BuildInv
<1>5. a \in Int /\ b \in Int
  OBVIOUS
<1>6. Mapping(c) /\ c.levels[3].pfn = pend
  BY <1>1, <1>3, <1>4, <1>5, CountedIsMapping
<1>7. Laid(maps, c) /\ c.from = a % 2^VirtBits /\ c.to = b % 2^VirtBits /\ c.pfn = 0
  BY <1>1, <1>3, <1>4, <1>5, CountedIsLaid
<1>8. b \div P - a \div P = (b - a) \div P
  BY <1>2, PagesBetween
<1>9. (b - a) \div P < image.total
  <2>1. b - a \in Nat
    BY <1>2
  <2>2. (b - a) \div P \in Nat
    BY <2>1, Parts
  <2>3. ~(0 + (TryEnd - image.base) \div PageSize >= image.total)
    BY DEF CannotMap
  <2>4. ~(0 + (b - a) \div P >= image.total)
    BY <1>2, <2>3
  <2> QED BY <1>1, <2>2, <2>4
<1>10. c.pfn + (b \div PageSize - a \div PageSize) < image.total
  <2>1. PICK x \in Nat, y \in Nat : x = a \div P /\ y = b \div P
    BY Parts
  <2>2. y - x < image.total
    BY <1>8, <1>9, <2>1
  <2>3. c.pfn + (y - x) < image.total
    BY <1>7, <2>1, <2>2
  <2> QED BY <1>2, <2>1, <2>3
<1>11. InMemory(c)
  BY <1>1, <1>2, <1>6, <1>7, <1>10, AreaInMemory
<1> QED BY <1>2, <1>3, <1>6, <1>7, <1>11

\* The list and its area, at the one step or the other.
LEMMA ListMapOK ==
    ASSUME BuildInv, MapInv, NEW vstart, NEW next_,
           \/ pc = "magic" /\ p2mFirst /\ next_ = "startInfo"
           \/ pc = "p2mLate" /\ ~p2mFirst /\ next_ = "evtchn" /\ vstart = image.p2mBase,
           alloc_p2m_segment(vstart, next_)
    PROVE  MapInv'
<1> DEFINE to_ == image.p2mBase + p2mPages * PageSize - 1
           counted == count_page_tables(maps, pend, image.p2mBase, to_)
           m == P2mMap(counted)
           n == p2mPages + m.pgtables
<1>1. CASE \E leaked : Fails(leaked)
  BY <1>1, FailMapOK
<1>2. CASE ~\E leaked : Fails(leaked)
  <2>1. /\ ~CannotMap(maps, image.total, image.p2mBase, to_, pend)
        /\ SegmentAt("p2m", vstart, 0, n, next_)
        /\ pc' \notin GivenUp => maps' = Append(maps, m) /\ UNCHANGED <<tries, pgend>>
    BY <1>2 DEF alloc_p2m_segment
  <2>2. image \in Images /\ image.total \in Nat /\ pend \in Nat
    BY TotalIsNat DEF BuildInv, CountersInv
  <2>3. p2mPages \in Nat /\ image.p2mBase \in Nat /\ PageSize \in Nat
    <3>1. image.total + Entries - 1 \in Nat /\ Entries \in Nat \ {0}
      BY <2>2, WidthsAssumption
    <3>2. p2mPages \in Nat
      BY <3>1, Parts DEF p2mPages
    <3> QED BY <2>2, <3>2, ImagesAssumption, WidthsAssumption DEF ImageType
  <2>4. m.pgtables \in Nat
    <3>1. maps = <<>> \/ Mapping(maps[1])
      BY FirstMapping DEF BuildInv
    <3>2. p2mPages * PageSize \in Nat
      BY <2>3
    <3>3. image.p2mBase \in Int /\ to_ \in Int
      BY <2>3, <3>2
    <3> HIDE DEF to_
    <3>4. Mapping(counted) /\ counted.levels[3].pfn = pend
      BY <2>2, <3>1, <3>3, CountedIsMapping
    <3>5. Mapping(m)
      BY <2>2, <2>3, <3>4, P2mIsMapping
    <3> QED BY <3>5 DEF Mapping, MappingType
  <2> HIDE DEF m, counted, to_
  <2>5. n \in Nat /\ n >= p2mPages
    BY <2>3, <2>4
  <2>6. Padding(0) = 0
    BY DEF Padding
  <2>7. n # 0 /\ pend + 0 + n <= image.total /\ Made("p2m", vstart, 0, n, next_)
    BY <1>2, <2>1, <2>5, <2>6, SegmentAtCases
  <2>8. /\ pc' = next_ /\ maps' = Append(maps, m) /\ pgend' = pgend
        /\ segs' = With(segs, "p2m", [vstart |-> vstart, pfn |-> pend + 0, pages |-> n])
        /\ UNCHANGED <<image, p2m, memory>>
    <3>1. next_ \notin GivenUp
      BY DEF Making, Ended, GivenUp
    <3> QED BY <2>1, <2>7, <3>1 DEF Made
  <2>9. cr3' = cr3 /\ memory' = {}
    BY <2>1, <2>8, SegmentKeeps DEF BuildInv, TablesInv, Tabled, Ended, GivenUp
  <2>10. image.total > 0 /\ pend + p2mPages + m.pgtables <= image.total
    BY <2>2, <2>3, <2>4, <2>5, <2>7
  <2>11. maps \in Seq(MappingType) /\ DOMAIN maps = 1..Len(maps)
    BY DEF BuildInv, TabsInv
  <2>12. Len(maps) \in Nat
    BY <2>11, LenProperties
  <2>13. Len(maps) <= 1 /\ ListAt' = ListAt /\ KernelAt' = KernelAt /\ p2mFirst' = p2mFirst
         /\ ListAt = Len(maps) + 1
    <3>1. p2mFirst' = p2mFirst
      BY <2>8 DEF p2mFirst
    <3>2. CASE pc = "magic" /\ p2mFirst
      <4>1. maps = <<>> /\ Len(<<>>) = 0
        BY <3>2 DEF MapInv, AreasInv, CountsInv
      <4> QED BY <3>1, <3>2, <4>1 DEF ListAt, KernelAt
    <3>3. CASE pc = "p2mLate" /\ ~p2mFirst
      <4>1. Len(maps) = KernelAt
        BY <3>3 DEF MapInv, AreasInv, CountsInv
      <4>2. KernelAt = 1 /\ ListAt = 2 /\ KernelAt' = KernelAt /\ ListAt' = ListAt
        BY <3>1, <3>3 DEF ListAt, KernelAt
      <4> QED BY <3>1, <4>1, <4>2
    <3> QED BY <3>2, <3>3
  <2>14. p2mFirst => maps = <<>>
    BY DEF MapInv, AreasInv, CountsInv
  <2>15. /\ p2mPages > 0 /\ Mapping(m) /\ Laid(maps, m) /\ InMemory(m)
         /\ pend <= m.levels[3].pfn /\ m.pfn = pend
         /\ m.from = image.p2mBase % 2^VirtBits /\ m.to = to_ % 2^VirtBits
    BY <2>1, <2>10, <2>14, ListArea DEF m, counted, to_
  <2>16. pc \notin Tabled \cup {"tablesAlloc"}
    BY DEF Tabled, Ended, GivenUp
  <2>17. /\ LaidInv' /\ Len(maps') = Len(maps) + 1 /\ maps'[ListAt] = m
         /\ \A i \in DOMAIN maps : maps'[i] = maps[i]
         /\ DOMAIN maps' = DOMAIN maps \cup {ListAt}
    BY <2>8, <2>13, <2>15, <2>16, AreaAppended DEF MapInv
  <2>18. CountsInv'
    <3>1. CASE pc = "magic" /\ p2mFirst
      <4>1. Len(maps) = 0 /\ KernelAt = 2 /\ pc' = "startInfo"
        BY <2>8, <2>13, <3>1 DEF ListAt, KernelAt
      <4> QED BY <2>9, <2>13, <2>17, <4>1
          DEF CountsInv, Early, Settled, Tabled, Ended, GivenUp
    <3>2. CASE pc = "p2mLate" /\ ~p2mFirst
      <4>1. Len(maps) = 1 /\ pc' = "evtchn"
        BY <2>8, <3>2 DEF MapInv, AreasInv, CountsInv, KernelAt
      <4> QED BY <2>17, <4>1 DEF CountsInv, Early
    <3> QED BY <3>1, <3>2
  <2>19. RangesInv'
    <3>1. p2mPages' = p2mPages
      BY <2>8 DEF p2mPages
    <3>2. /\ p2mPages > 0
          /\ maps'[ListAt].from = image.p2mBase % 2^VirtBits
          /\ maps'[ListAt].to = (image.p2mBase + p2mPages * PageSize - 1) % 2^VirtBits
      BY <2>15, <2>17 DEF to_
    <3>3. KernelAt \in DOMAIN maps' => KernelAt \in DOMAIN maps /\ maps'[KernelAt] = maps[KernelAt]
      BY <2>17 DEF ListAt, KernelAt
    <3> QED BY <2>8, <2>13, <3>1, <3>2, <3>3 DEF MapInv, AreasInv, RangesInv
  <2>20. EntriesInv'
    BY <2>9 DEF EntriesInv
  <2>21. ValuesInv'
    BY <2>8, <2>9 DEF MapInv, ValuesInv, Pfns
  <2>22. PlacesInv'
    <3>1. CASE pc = "magic"
      <4>1. pc' = "startInfo"
        BY <2>8, <3>1
      <4>2. ~Settled' /\ ~Placed'
        BY <2>9, <4>1 DEF Settled, Placed, Tabled, Ended, GivenUp
      <4> QED BY <4>1, <4>2 DEF PlacesInv
    <3>2. CASE pc = "p2mLate" /\ ~p2mFirst /\ vstart = image.p2mBase
      <4>1. pc' = "evtchn" /\ Placed
        BY <2>8, <3>2 DEF Placed
      <4>2. /\ "p2m" \in DOMAIN segs' /\ segs'["p2m"].vstart = image.p2mBase
            /\ segs'["p2m"].pfn = pend
        BY <2>2, <2>8, <3>2 DEF With
      <4>3. /\ DOMAIN segs' \ {"p2m"} \subseteq DOMAIN segs
            /\ \A s \in DOMAIN segs \ {"p2m"} : s \in DOMAIN segs' /\ segs'[s] = segs[s]
        BY <2>8 DEF With
      <4>4. image.base + pend * PageSize <= pgend
        BY <3>2 DEF MapInv, AreasInv, PlacesInv
      <4>5. \A s \in DOMAIN segs : image.base + (segs[s].pfn + segs[s].pages) * PageSize <= pgend
        BY <4>4, UpToEnd
      <4>6. \A s \in DOMAIN segs' \ {"p2m"} :
              image.base + (segs'[s].pfn + segs'[s].pages) * PageSize <= pgend
        BY <4>3, <4>5
      <4>7. "tables" \in DOMAIN segs /\ segs["tables"].pfn = maps[KernelAt].levels[3].pfn
        BY <4>1 DEF MapInv, AreasInv, PlacesInv
      <4>8. KernelAt = 1 /\ ListAt = 2 /\ 1 \in DOMAIN maps
        BY <2>11, <2>13, <3>2 DEF KernelAt, ListAt
      <4>9. "tables" \in DOMAIN segs' /\ segs'["tables"].pfn = maps'[KernelAt].levels[3].pfn
        BY <2>17, <4>3, <4>7, <4>8
      <4>10. segs'["p2m"].pfn = maps'[2].pfn
        BY <2>15, <2>17, <4>2, <4>8
      <4> QED BY <2>8, <2>13, <4>1, <4>2, <4>6, <4>9, <4>10 DEF PlacesInv
    <3> QED BY <3>1, <3>2
  <2> QED BY <2>17, <2>18, <2>19, <2>20, <2>21, <2>22 DEF MapInv, AreasInv
<1> QED BY <1>1, <1>2

LEMMA P2mStepsMapOK == ASSUME BuildInv, MapInv, AllocP2mFirst \/ AllocP2mLate PROVE MapInv'
<1>1. CASE AllocP2mFirst /\ p2mFirst
  <2>1. pc = "magic" /\ alloc_p2m_segment(vend, "startInfo")
    BY <1>1 DEF AllocP2mFirst
  <2> QED BY <1>1, <2>1, ListMapOK
<1>2. CASE AllocP2mLate /\ ~p2mFirst
  <2>1. pc = "p2mLate" /\ alloc_p2m_segment(image.p2mBase, "evtchn")
    BY <1>2 DEF AllocP2mLate
  <2> QED BY <1>2, <2>1, ListMapOK
<1>3. CASE AllocP2mLate /\ p2mFirst
  BY <1>3, ListThere
<1>4. CASE AllocP2mFirst /\ ~p2mFirst
  <2>1. /\ pc = "magic" /\ pc' = "startInfo"
        /\ UNCHANGED <<image, segs, p2m, maps, pgend, memory, cr3>>
    BY <1>4 DEF AllocP2mFirst, Skip, memVars, tabVars
  <2>2. cr3' \in Int
    BY <2>1 DEF MapInv, ValuesInv
  <2>3. LaidInv' /\ RangesInv' /\ EntriesInv' /\ ValuesInv'
    BY <2>1, <2>2, AreasStay
  <2>4. maps = <<>> /\ Len(<<>>) = 0 /\ KernelAt' = 1 /\ memory' = {}
    BY <1>4, <2>1 DEF MapInv, AreasInv, CountsInv, KernelAt, p2mFirst, BuildInv, TablesInv,
                      Tabled, Ended, GivenUp
  <2>5. ~Settled' /\ ~Placed'
    BY <2>1, <2>4 DEF Settled, Placed, Tabled, Ended, GivenUp
  <2>6. CountsInv'
    BY <2>1, <2>4, <2>5 DEF CountsInv, Early
  <2>7. PlacesInv'
    BY <2>1, <2>5 DEF PlacesInv
  <2> QED BY <2>3, <2>6, <2>7 DEF MapInv, AreasInv
<1> QED BY <1>1, <1>2, <1>3, <1>4

\* A round that is content has the kernel's area, up to the end it assumed.
LEMMA TryTablesMapOK == ASSUME BuildInv, MapInv, TryTables PROVE MapInv'
<1>1. pc = "tables"
  BY DEF TryTables
<1>2. CASE Fails(NoLeak)
  BY <1>2, FailMapOK
<1>3. CASE ~Fails(NoLeak)
  <2>1. /\ ~CannotMap(maps, image.total, image.base, TryEnd, 0)
        /\ \/ maps' = Append(maps, Counted) /\ pgend' = TryEnd + 1 /\ pc' = "tablesAlloc"
           \/ UNCHANGED <<maps, pgend, pc>>
        /\ UNCHANGED <<image, segs, p2m, memory, cr3>>
    BY <1>3 DEF TryTables, memVars
  <2>2. memory' = {} /\ cr3' \in Int
    BY <1>1, <2>1 DEF BuildInv, TablesInv, Tabled, Ended, GivenUp, MapInv, ValuesInv
  <2>3. maps \in Seq(MappingType) /\ Len(maps) = KernelAt - 1
    BY <1>1 DEF BuildInv, TabsInv, MapInv, AreasInv, CountsInv
  <2>4. KernelAt' = KernelAt /\ ListAt' = ListAt /\ <<KernelAt, ListAt>> \in {<<1, 2>>, <<2, 1>>}
    BY <2>1 DEF KernelAt, ListAt, p2mFirst
  <2>5. pc' \in {"tables", "tablesAlloc"}
    BY <1>1, <2>1
  <2>6. ~Settled' /\ ~Placed'
    BY <2>2, <2>5 DEF Settled, Placed, Tabled, Ended, GivenUp
  <2>7. PlacesInv'
    BY <2>5, <2>6 DEF PlacesInv
  <2>8. CASE UNCHANGED <<maps, pgend, pc>>
    <3>1. LaidInv' /\ RangesInv' /\ EntriesInv' /\ ValuesInv'
      BY <2>1, <2>2, <2>8, AreasStay
    <3>2. CountsInv'
      BY <1>1, <2>3, <2>4, <2>6, <2>8 DEF CountsInv, Early
    <3> QED BY <2>7, <3>1, <3>2 DEF MapInv, AreasInv
  <2>9. CASE maps' = Append(maps, Counted) /\ pgend' = TryEnd + 1 /\ pc' = "tablesAlloc"
    <3>1. PICK m : m = Counted
      OBVIOUS
    <3>2. /\ Mapping(m) /\ Laid(maps, m) /\ InMemory(m) /\ pend = m.levels[3].pfn
          /\ m.pfn = 0 /\ m.from = image.base % 2^VirtBits /\ m.to = TryEnd % 2^VirtBits
      BY <1>1, <2>1, <3>1, KernelArea
    <3>3. pend \in Nat /\ pend <= m.levels[3].pfn
      <4>1. pend \in Nat
        BY DEF BuildInv, CountersInv
      <4> QED BY <3>2, <4>1
    <3>4. Len(maps) <= 1 /\ Len(maps) + 1 = KernelAt
      BY <2>3, <2>4
    <3>5. pc \notin Tabled \cup {"tablesAlloc"}
      BY <1>1 DEF Tabled, Ended, GivenUp
    <3>6. /\ LaidInv' /\ Len(maps') = KernelAt /\ maps'[KernelAt] = m
          /\ \A i \in DOMAIN maps : maps'[i] = maps[i]
          /\ DOMAIN maps' = DOMAIN maps \cup {KernelAt}
      BY <2>1, <2>9, <3>1, <3>2, <3>3, <3>4, <3>5, AreaAppended DEF MapInv
    <3>7. CountsInv'
      BY <2>4, <2>6, <2>9, <3>6 DEF CountsInv, Early
    <3>8. RangesInv'
      <4>1. pgend' > image.base + 1 /\ pgend' % PageSize = 0 /\ pgend' - 1 = TryEnd
        <5>1. TryEnd \in Nat /\ (TryEnd + 1) % PageSize = 0 /\ TryEnd > image.base
          BY <1>1, TryEndIs
        <5>2. image.base \in Nat
          BY TotalIsNat DEF BuildInv, CountersInv, ImageType
        <5> QED BY <2>9, <5>1, <5>2
      <4>2. maps'[KernelAt].to = (pgend' - 1) % 2^VirtBits
        BY <3>2, <3>6, <4>1
      <4>3. ListAt \in DOMAIN maps' => ListAt \in DOMAIN maps /\ maps'[ListAt] = maps[ListAt]
        BY <2>4, <3>6
      <4>4. p2mPages' = p2mPages
        BY <2>1 DEF p2mPages
      <4> QED BY <2>1, <2>4, <3>2, <3>6, <4>1, <4>2, <4>3, <4>4
          DEF MapInv, AreasInv, RangesInv
    <3>9. EntriesInv'
      BY <2>2 DEF EntriesInv
    <3>10. ValuesInv'
      BY <2>1, <2>2 DEF MapInv, ValuesInv, Pfns
    <3> QED BY <2>7, <3>6, <3>7, <3>8, <3>9, <3>10 DEF MapInv, AreasInv
  <2> QED BY <2>1, <2>8, <2>9
<1> QED BY <1>2, <1>3

\* setup_page_tables writes every entry of every table, each into its page.
LEMMA WrittenIs ==
    ASSUME BuildInv, pc = "setupTables", NEW l \in Levels, NEW i \in DOMAIN maps,
           Candidates(maps[i].levels[l].pfn, 0) # {}
    PROVE  LET written == Written(l, i, Window(maps[i].levels[l].pfn, 0))
           IN  /\ \A j \in DOMAIN maps : \A x \in EntriesFor(maps, l, i, j) :
                    Entry(l, i, x) \in written
               /\ \A e \in written : \E j \in DOMAIN maps : \E x \in EntriesFor(maps, l, i, j) :
                    e = Entry(l, i, x)
<1>1. PICK w : w = Window(maps[i].levels[l].pfn, 0)
  OBVIOUS
<1> DEFINE Put(x) ==
      [frame |-> space[w][maps[i].levels[l].pfn - pages[w].pfn + 1 + x.place \div Entries],
       place |-> x.place % Entries, to |-> p2m[x.pfn], rw |-> x.rw]
<1>2. ASSUME NEW j \in DOMAIN maps, NEW x \in EntriesFor(maps, l, i, j)
      PROVE  Put(x) = Entry(l, i, x)
  <2>1. PICK k : k = maps[i].levels[l].pfn + x.place \div Entries
    OBVIOUS
  <2>2. space[w][maps[i].levels[l].pfn - pages[w].pfn + 1 + x.place \div Entries] = p2m[k]
    BY <1>1, <2>1, FrameWritten
  <2> QED BY <2>1, <2>2 DEF Entry
<1>3. Written(l, i, w) = {Put(x) : x \in UNION {EntriesFor(maps, l, i, j) : j \in DOMAIN maps}}
  BY DEF Written
<1> HIDE DEF Put
<1>4. \A j \in DOMAIN maps : \A x \in EntriesFor(maps, l, i, j) : Put(x) \in Written(l, i, w)
  BY <1>3
<1>5. \A e \in Written(l, i, w) : \E j \in DOMAIN maps : \E x \in EntriesFor(maps, l, i, j) :
        e = Put(x)
  BY <1>3
<1> QED BY <1>1, <1>2, <1>4, <1>5

LEMMA SetupTablesMapOK == ASSUME BuildInv, MapInv, setup_page_tables PROVE MapInv'
<1>1. CASE Fails(NoLeak)
  BY <1>1, FailMapOK
<1>2. CASE ~Fails(NoLeak)
  <2>1. /\ pc = "setupTables" /\ pc' = "setupStart"
        /\ \A l \in Levels, i \in DOMAIN maps : Candidates(maps[i].levels[l].pfn, 0) # {}
        /\ memory' = UNION {Written(l, i, Window(maps[i].levels[l].pfn, 0)) :
                              l \in Levels, i \in DOMAIN maps}
        /\ UNCHANGED <<image, segs, maps, pgend, p2m, cr3>>
    BY <1>2 DEF setup_page_tables, memVars, tabVars
  <2>2. LaidInv'
    BY <2>1 DEF MapInv, LaidInv, Laid, InMemory
  <2>3. RangesInv'
    BY <2>1 DEF MapInv, AreasInv, RangesInv, KernelAt, ListAt, p2mFirst, p2mPages
  <2>4. ValuesInv'
    BY <2>1 DEF MapInv, ValuesInv, Pfns
  <2>5. Settled /\ Placed /\ KernelAt' = KernelAt /\ p2mFirst' = p2mFirst
    BY <2>1 DEF Settled, Placed, KernelAt, p2mFirst
  <2>6. CountsInv'
    BY <2>1, <2>5 DEF MapInv, AreasInv, CountsInv, Early
  <2>7. PlacesInv'
    BY <2>1, <2>5 DEF MapInv, AreasInv, PlacesInv
  <2>8. EntriesInv'
    <3>1. \A i \in DOMAIN maps : maps[i].levels[3].pfn + maps[i].pgtables <= image.total
      <4> SUFFICES ASSUME NEW i \in DOMAIN maps
                   PROVE  maps[i].levels[3].pfn + maps[i].pgtables <= image.total
        OBVIOUS
      <4>1. PICK m : m = maps[i]
        OBVIOUS
      <4>2. Mapping(m) /\ Apart(m)
        BY <2>1, <4>1 DEF BuildInv, TabsInv, Tabled, Ended, GivenUp
      <4>3. m.levels[3].pfn \in Nat /\ m.pgtables \in Nat
        <5>1. 3 \in Levels
          BY DEF Levels
        <5> QED BY <4>2, <5>1 DEF Mapping, MappingType
      <4>4. pend \in 0..image.total /\ image.total \in Nat
        BY TotalIsNat DEF BuildInv, CountersInv
      <4>5. m.levels[3].pfn + m.pgtables <= pend
        BY <4>2 DEF Apart
      <4> QED BY <4>1, <4>3, <4>4, <4>5
    <3>2. /\ \A l \in Levels : \A i \in DOMAIN maps :
               Written(l, i, Window(maps[i].levels[l].pfn, 0)) \subseteq memory'
          /\ \A e \in memory' : \E l \in Levels : \E i \in DOMAIN maps :
               e \in Written(l, i, Window(maps[i].levels[l].pfn, 0))
      BY <2>1
    <3>3. \A l \in Levels : \A i, j \in DOMAIN maps : \A x \in EntriesFor(maps, l, i, j) :
            Entry(l, i, x) \in memory'
      <4> SUFFICES ASSUME NEW l \in Levels, NEW i \in DOMAIN maps, NEW j \in DOMAIN maps,
                          NEW x \in EntriesFor(maps, l, i, j)
                   PROVE  Entry(l, i, x) \in memory'
        OBVIOUS
      <4>1. Entry(l, i, x) \in Written(l, i, Window(maps[i].levels[l].pfn, 0))
        BY <2>1, WrittenIs
      <4> QED BY <3>2, <4>1
    <3>4. \A e \in memory' : \E l \in Levels : \E i, j \in DOMAIN maps :
            \E x \in EntriesFor(maps, l, i, j) : e = Entry(l, i, x)
      <4> SUFFICES ASSUME NEW e \in memory'
                   PROVE  \E l \in Levels : \E i, j \in DOMAIN maps :
                            \E x \in EntriesFor(maps, l, i, j) : e = Entry(l, i, x)
        OBVIOUS
      <4>1. PICK l \in Levels, i \in DOMAIN maps :
              e \in Written(l, i, Window(maps[i].levels[l].pfn, 0))
        BY <3>2
      <4>2. \E j \in DOMAIN maps : \E x \in EntriesFor(maps, l, i, j) : e = Entry(l, i, x)
        BY <2>1, <4>1, WrittenIs
      <4> QED BY <4>2
    <3>5. \A l, i, x : Entry(l, i, x)' = Entry(l, i, x)
      BY <2>1 DEF Entry
    <3> QED BY <2>1, <3>1, <3>3, <3>4, <3>5 DEF EntriesInv
  <2> QED BY <2>2, <2>3, <2>4, <2>6, <2>7, <2>8 DEF MapInv, AreasInv
<1> QED BY <1>1, <1>2

LEMMA MapNextOK == ASSUME BuildInv, MapInv, Next PROVE MapInv'
<1>1. BuildInv'
  BY BuildNextOK
<1>2. CASE LoadInitrdEarly \/ LoadKernel \/ LoadInitrd
  BY <1>2, InitrdEarlyMapOK, LoadsMapOK
<1>3. CASE ClaimPages \/ PopulateSuperPages \/ PopulateRest \/ MemoryDone
  BY <1>3, PopulateMapOK
<1>4. CASE AllocP2mFirst \/ AllocP2mLate
  BY <1>4, P2mStepsMapOK
<1>5. CASE AllocStartInfo \/ AllocXenstore \/ AllocConsole \/ AllocStack
  BY <1>1, <1>5, PagesMapOK, StackMapOK
<1>6. CASE TryTables \/ AllocTables
  BY <1>6, TryTablesMapOK, AllocTablesMapOK
<1>7. CASE setup_page_tables
  BY <1>7, SetupTablesMapOK
<1>8. CASE AllocEvtchn \/ setup_start_info \/ setup_hypercall_page \/ bootlate
             \/ setup_shared_info \/ vcpu \/ gnttab_seed
  BY <1>8, LateMapOK
<1> QED BY <1>2, <1>3, <1>4, <1>5, <1>6, <1>7, <1>8 DEF Next

\* The values keep their types, by the two invariants.
LEMMA TypesHold == ASSUME BuildInv, MapInv PROVE TypeOK
<1>1. /\ image \in Images /\ pc \in Steps /\ vend \in Nat /\ pend \in 0..image.total
      /\ filled \in 0..image.total /\ tries \in Nat /\ pgend \in Nat
  BY DEF BuildInv, CountersInv
<1>2. \A s \in DOMAIN segs : segs[s].pfn + segs[s].pages <= pend
  BY DEF BuildInv, SegsInv
<1>3. (\A n \in Pfns : p2m[n] \in Int) /\ cr3 \in Int
  BY DEF MapInv, ValuesInv
<1>4. Len(maps) <= MaxMappings
  BY DEF BuildInv, TabsInv, MaxMappings
<1>5. pc # "stuck" => DOMAIN pages \subseteq DOMAIN space
  BY DEF BuildInv, WinsInv, Known
<1>6. ASSUME NEW e \in memory PROVE e.place \in 0..(Entries - 1)
  <2>1. PICK l \in Levels, i \in DOMAIN maps, j \in DOMAIN maps :
          \E x \in EntriesFor(maps, l, i, j) : e = Entry(l, i, x)
    BY DEF MapInv, EntriesInv
  <2>2. PICK x \in EntriesFor(maps, l, i, j) : e = Entry(l, i, x)
    BY <2>1
  <2>3. x.place \in Int
    BY DEF EntriesFor
  <2>4. PICK K \in Nat \ {0} : K = Entries
    BY WidthsAssumption
  <2>5. x.place % K \in 0..(K - 1)
    BY <2>3
  <2> QED BY <2>2, <2>4, <2>5 DEF Entry
<1> QED BY <1>1, <1>2, <1>3, <1>4, <1>5, <1>6 DEF TypeOK

------------------------------------------------------------------------------
(* Of the run.                                                              *)

LEMMA MapRests == ASSUME MapInv, UNCHANGED vars PROVE MapInv'
<1>1. UNCHANGED <<image, pc, pend, segs, p2m, maps, pgend, memory, cr3>>
  BY DEF vars, memVars, tabVars
<1>2. cr3' \in Int
  BY <1>1 DEF MapInv, ValuesInv
<1>3. LaidInv' /\ RangesInv' /\ EntriesInv' /\ ValuesInv'
  BY <1>1, <1>2, AreasStay
<1>4. CountsInv' /\ PlacesInv'
  BY <1>1 DEF MapInv, AreasInv, CountsInv, PlacesInv, Settled, Placed, KernelAt, p2mFirst
<1> QED BY <1>3, <1>4 DEF MapInv, AreasInv

------------------------------------------------------------------------------
(* The place of the kernel: one step makes its segment, no other changes it.  *)

Kept == /\ image' = image
        /\ \/ segs' = segs
           \/ \E s, r : s # "kernel" /\ segs' = With(segs, s, r)

LEMMA KeptInPlace == ASSUME KernelIsInPlace, Kept PROVE KernelIsInPlace'
<1>1. ASSUME NEW s, NEW r, s # "kernel", segs' = With(segs, s, r), "kernel" \in DOMAIN segs'
      PROVE  "kernel" \in DOMAIN segs /\ segs'["kernel"] = segs["kernel"]
  BY <1>1 DEF With
<1> QED BY <1>1 DEF Kept, KernelIsInPlace

LEMMA FailsKept == ASSUME NEW leaked, Fails(leaked) PROVE Kept
  BY DEF Fails, memVars, Kept

LEMMA SkipKept == ASSUME NEW next_, Skip(next_) PROVE Kept
  BY DEF Skip, memVars, Kept

LEMMA SegmentKept ==
    ASSUME NEW name, name # "kernel", NEW vstart, NEW start_, NEW n, NEW next_,
           SegmentAt(name, vstart, start_, n, next_)
    PROVE  Kept
<1>1. CASE \E leaked : Fails(leaked)
  BY <1>1, FailsKept
<1>2. CASE ~\E leaked : Fails(leaked)
  <2>1. Record(name, vstart, Padding(start_), n) /\ image' = image
    BY <1>2 DEF SegmentAt, MapPages
  <2> QED BY <2>1 DEF Record, Kept
<1> QED BY <1>1, <1>2

LEMMA PageKept ==
    ASSUME NEW name, name # "kernel", NEW next_, alloc_page(name, next_) PROVE Kept
<1>1. CASE Fails(NoLeak)
  BY <1>1, FailsKept
<1>2. CASE ~Fails(NoLeak)
  <2>1. Record(name, vend, 0, 1) /\ image' = image
    BY <1>2 DEF alloc_page
  <2> QED BY <2>1 DEF Record, Kept
<1> QED BY <1>1, <1>2

\* What is left up to a boundary is whole pages when it begins and ends with one.
LEMMA PaddingEndsThere ==
    ASSUME NEW a \in Nat, NEW b \in Nat, a <= b, a % PageSize = 0, b % PageSize = 0
    PROVE  a + ((b - a) \div PageSize) * PageSize = b
<1> DEFINE p == a \div PageSize
           q == b \div PageSize
<1>1. PageSize \in Nat \ {0}
  BY WidthsAssumption
<1>2. p \in Nat /\ q \in Nat /\ a = PageSize * p /\ b = PageSize * q
  BY <1>1, Parts
<1> HIDE DEF p, q
<1>3. p <= q
  <2>1. ASSUME q < p PROVE FALSE
    <3>1. PageSize * q + PageSize <= PageSize * p
      BY <1>1, <1>2, <2>1, MulGrows
    <3> QED BY <1>1, <1>2, <3>1
  <2> QED BY <1>2, <2>1
<1>4. b - a = PageSize * (q - p) + 0 /\ q - p \in Nat /\ 0 \in 0..(PageSize - 1)
  BY <1>1, <1>2, <1>3
<1>5. (b - a) \div PageSize = q - p
  <2>1. \A n : n = PageSize * (q - p) + 0 => n \div PageSize = q - p
    BY <1>1, <1>4, DivIs
  <2> QED BY <1>4, <2>1
<1>6. (q - p) * PageSize = PageSize * q - PageSize * p
  BY <1>1, <1>2
<1> QED BY <1>2, <1>5, <1>6

LEMMA KernelLoadedThere ==
    ASSUME BuildInv, LoadKernel, KernelIsInPlace PROVE KernelIsInPlace'
<1> DEFINE n == PagesFor(image.kend - image.kstart)
<1>1. CASE \E leaked : Fails(leaked)
  BY <1>1, FailsKept, KeptInPlace
<1>2. CASE ~\E leaked : Fails(leaked)
  <2>1. /\ SegmentAt("kernel", vend + Padding(image.kstart) * PageSize, image.kstart, n,
                     "initrd")
        /\ pc = "kernel"
    BY <1>2 DEF LoadKernel, alloc_segment
  <2> HIDE DEF n
  <2>2. /\ ~BadBoundary(image.kstart) /\ image' = image
        /\ Record("kernel", vend + Padding(image.kstart) * PageSize,
                  Padding(image.kstart), n)
    BY <1>2, <2>1 DEF SegmentAt, MapPages
  <2>3. segs'["kernel"].vstart = vend + Padding(image.kstart) * PageSize
    BY <2>2 DEF Record, With
  <2>4. ASSUME image.kstart > 0, image.base % PageSize = 0
        PROVE  vend + Padding(image.kstart) * PageSize = image.kstart
    <3>1. image.kstart \in Nat /\ image.base \in Nat /\ vend \in Nat
      BY TotalIsNat DEF BuildInv, CountersInv, ImageType
    <3>2. image.kstart % PageSize = 0 /\ vend <= image.kstart
      BY <2>2, <2>4, <3>1 DEF BadBoundary
    <3>3. vend % PageSize = 0
      <4>1. vend = image.base + pend * PageSize /\ pend \in Nat
        BY <2>1 DEF BuildInv, CountersInv, Early, GivenUp
      <4>2. PageSize \in Nat \ {0}
        BY WidthsAssumption
      <4>3. image.base = PageSize * (image.base \div PageSize)
            /\ image.base \div PageSize \in Nat
        <5>1. /\ image.base \div PageSize \in Nat
              /\ image.base = PageSize * (image.base \div PageSize) + (image.base % PageSize)
          BY <3>1, <4>2, Parts
        <5>2. PageSize * (image.base \div PageSize) \in Nat
          BY <4>2, <5>1
        <5> QED BY <2>4, <5>1, <5>2
      <4>4. /\ vend = PageSize * (image.base \div PageSize + pend) + 0
            /\ image.base \div PageSize + pend \in Nat /\ 0 \in 0..(PageSize - 1)
        BY <4>1, <4>2, <4>3
      <4> QED BY <4>2, <4>4, DivIs
    <3>4. Padding(image.kstart) = (image.kstart - vend) \div PageSize
      BY <2>4 DEF Padding
    <3> QED BY <3>1, <3>2, <3>3, <3>4, PaddingEndsThere
  <2> QED BY <2>2, <2>3, <2>4 DEF KernelIsInPlace
<1> QED BY <1>1, <1>2

LEMMA KernelStays == ASSUME BuildInv, Next, KernelIsInPlace PROVE KernelIsInPlace'
<1>1. CASE \E leaked : Fails(leaked)
  BY <1>1, FailsKept, KeptInPlace
<1>2. CASE LoadKernel
  BY <1>2, KernelLoadedThere
<1>3. CASE ~(\E leaked : Fails(leaked)) /\ ~LoadKernel
  <2> SUFFICES Kept
    BY KeptInPlace
  <2>1. CASE ClaimPages \/ PopulateSuperPages \/ PopulateRest \/ MemoryDone
    BY <1>3, <2>1, SkipKept DEF ClaimPages, PopulateSuperPages, PopulateRest, Populate,
          MemoryDone, memVars, Kept
  <2>2. CASE LoadInitrdEarly \/ LoadInitrd \/ AllocTables
    BY <1>3, <2>2, SkipKept, SegmentKept
       DEF LoadInitrdEarly, LoadInitrd, AllocTables, alloc_segment
  <2>3. CASE AllocP2mFirst \/ AllocP2mLate
    <3>1. Kept \/ \E vstart, next_ : alloc_p2m_segment(vstart, next_)
      BY <2>3, SkipKept DEF AllocP2mFirst, AllocP2mLate
    <3>2. ASSUME NEW vstart, NEW next_, alloc_p2m_segment(vstart, next_) PROVE Kept
      <4>1. \E k : SegmentAt("p2m", vstart, 0, k, next_)
        BY <1>3, <3>2 DEF alloc_p2m_segment
      <4> QED BY <4>1, SegmentKept
    <3> QED BY <3>1, <3>2
  <2>4. CASE AllocStartInfo \/ AllocXenstore \/ AllocConsole
    BY <1>3, <2>4, PageKept DEF AllocStartInfo, AllocXenstore, AllocConsole
  <2>5. CASE AllocStack
    <3>1. Record("stack", vend, 0, 1) /\ image' = image
      BY <1>3, <2>5 DEF AllocStack
    <3> QED BY <3>1 DEF Record, Kept
  <2>6. CASE TryTables \/ AllocEvtchn \/ setup_hypercall_page
    BY <1>3, <2>6, SkipKept DEF TryTables, AllocEvtchn, setup_hypercall_page, memVars, Kept
  <2>7. CASE setup_page_tables
    BY <1>3, <2>7 DEF setup_page_tables, memVars, Kept
  <2>8. CASE setup_start_info
    BY <1>3, <2>8 DEF setup_start_info, MapPages, memVars, Kept
  <2>9. CASE bootlate \/ setup_shared_info
    BY <1>3, <2>9 DEF bootlate, setup_shared_info, MapPages, memVars, Kept
  <2>10. CASE vcpu \/ gnttab_seed
    BY <1>3, <2>10 DEF vcpu, gnttab_seed, memVars, Kept
  <2> QED BY <1>3, <2>1, <2>2, <2>3, <2>4, <2>5, <2>6, <2>7, <2>8, <2>9, <2>10 DEF Next
<1> QED BY <1>1, <1>2, <1>3

LEMMA KernelRests == ASSUME KernelIsInPlace, UNCHANGED vars PROVE KernelIsInPlace'
  BY KeptInPlace DEF vars, memVars, Kept

\* No page that holds a table can be written by the guest, and every other page of
\* the kernel's area can; the kernel gets the addresses it was linked for; and when the
\* areas do not meet, each page of a segment is
\* found where the start info, the registers and the kernel's own addresses say,
\* and at no second place (count_page_tables, alloc_p2m_segment, alloc_page_tables
\* and setup_page_tables).  Every value keeps its type.
THEOREM TablesHold == PartSpec => []TablesAgree
<1>1. ASSUME PartInit PROVE BuildInv /\ MapInv /\ KernelIsInPlace
  <2>1. BuildInv /\ MapInv /\ DOMAIN segs = {}
    BY <1>1, InitBuildOK, InitMapOK DEF PartInit, Init
  <2> QED BY <2>1 DEF KernelIsInPlace
<1>2. ASSUME BuildInv, MapInv, KernelIsInPlace, [PartNext]_allVars
      PROVE  BuildInv' /\ MapInv' /\ KernelIsInPlace'
  BY <1>2, RunSteps, BuildNextOK, MapNextOK, KernelStays, BuildRests, MapRests, KernelRests
     DEF BuildStep
<1>3. ASSUME BuildInv, MapInv, KernelIsInPlace PROVE TablesAgree
  BY <1>3, TypesHold, ReadOnly, SegmentsFound DEF TablesAgree
<1> QED BY <1>1, <1>2, <1>3, PTL DEF PartSpec
================================================================================
