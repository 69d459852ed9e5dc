--------------------------- MODULE DomainBuildProofs ---------------------------
(***************************************************************************)
(* Theorems of MCDomainBuild, proved for every kernel and domain that meet    *)
(* the assumptions of PageTables, DomainBuild and MCDomainBuild, and for any   *)
(* outcomes of the decoders and of the kernel's and the hypervisor's calls.   *)
(*                                                                          *)
(* ElfImage: what parse_sync measures, what load copies and what the notes    *)
(* and the other headers overwrite are three different sets of headers;       *)
(* ElfInv says how they fit together while the loops go over them.            *)
(*                                                                          *)
(* DomainBuild: BuildInv says where everything lies while pages are handed    *)
(* out.  Frames follow from page numbers; segments lie one behind the other,  *)
(* and tables inside the segment they were counted for; a window has all of   *)
(* the tables of a mapping or none of them, so that an entry written through  *)
(* the window of the first table of a level stays inside the tables.          *)
(***************************************************************************)
EXTENDS MCDomainBuild, FiniteSetTheorems, SequenceTheorems, TLAPS

------------------------------------------------------------------------------
(* ElfImage.                                                                *)

\* The range has every header to be loaded of the first n.
InRange(n) ==
  \A i \in Elf!Loads(file) : i <= n =>
    /\ start <= file.headers[i].paddr
    /\ file.headers[i].paddr + file.headers[i].memsz <= end

\* A place is as the image says, or empty still; those that the first n headers
\* load are as it says.
Filled(n) ==
  \A k \in DOMAIN mem :
    /\ mem[k] \in {Elf!Zero, Elf!Says(file, start + k)} /\ mem[k] < have
    /\ (\E i \in Elf!Loads(file) : i <= n /\ start + k \in Elf!Occupied(file.headers[i]))
         => mem[k] = Elf!Says(file, start + k)

ElfInv ==
  /\ Elf!TypeOK
  /\ next >= 1 /\ (place = "notes" => next = 1)
  /\ place = "measure" => InRange(next - 1)
  /\ place \in {"load", "loaded"} => InRange(Len(file.headers))
  /\ place = "load" /\ Elf!Plain(file) => Filled(next - 1)
  /\ place = "loaded" /\ Elf!Plain(file) => Filled(Len(file.headers))
  /\ Elf!PlainImagesDoNotPanic

LEMMA HeadersTyped ==
  ASSUME NEW f \in Files
  PROVE  /\ Len(f.headers) \in Nat /\ DOMAIN f.headers = 1..Len(f.headers)
         /\ \A i \in DOMAIN f.headers :
              /\ f.headers[i].load \in BOOLEAN
              /\ f.headers[i].paddr \in Nat /\ f.headers[i].off \in Nat
              /\ f.headers[i].filesz \in Nat /\ f.headers[i].memsz \in Nat
              /\ f.headers[i].paddr <= Elf!Unset
         /\ Elf!Loads(f) = {i \in 1..Len(f.headers) : f.headers[i].load}
<1>1. f.headers \in Seq(Elf!Header)
  BY FilesAssumption
<1>2. \A i \in 1..Len(f.headers) : f.headers[i] \in Elf!Header
  BY <1>1
<1>3. \A i \in 1..Len(f.headers) :
        /\ f.headers[i].load \in BOOLEAN
        /\ f.headers[i].paddr \in Nat /\ f.headers[i].off \in Nat
        /\ f.headers[i].filesz \in Nat /\ f.headers[i].memsz \in Nat
  BY <1>2 DEF Elf!Header
<1>4. DOMAIN f.headers = 1..Len(f.headers) /\ Len(f.headers) \in Nat
  BY <1>1
<1> QED BY <1>3, <1>4, FilesAssumption DEF Elf!Loads

\* What a plain image says of an address of a header is what that header says.
LEMMA SaysOfOne ==
  ASSUME NEW f \in Files, Elf!Plain(f), NEW i \in Elf!Loads(f), NEW a \in Elf!Occupied(f.headers[i])
  PROVE  Elf!Says(f, a) = IF a - f.headers[i].paddr < f.headers[i].filesz
                          THEN f.headers[i].off + a - f.headers[i].paddr ELSE Elf!Zero
<1> DEFINE here == {j \in Elf!Loads(f) : a \in Elf!Occupied(f.headers[j])}
<1>1. here = {i}
  BY DEF Elf!Plain
<1>2. (CHOOSE j \in here : TRUE) = i
  BY <1>1
<1>3. here # {}
  BY <1>1
<1> HIDE DEF here
<1> QED BY <1>2, <1>3 DEF Elf!Says, here

LEMMA SaysOfNone ==
  ASSUME NEW f, NEW a, \A i \in Elf!Loads(f) : a \notin Elf!Occupied(f.headers[i])
  PROVE  Elf!Says(f, a) = Elf!Zero
  BY DEF Elf!Says

\* A header copies what the image says of its addresses, wherever it lies.
LEMMA HeaderSays ==
  ASSUME NEW f \in Files, Elf!Plain(f), NEW n \in DOMAIN f.headers,
         NEW a \in Elf!Occupied(f.headers[n])
  PROVE  Elf!Says(f, a) = IF a - f.headers[n].paddr < f.headers[n].filesz
                          THEN f.headers[n].off + a - f.headers[n].paddr ELSE Elf!Zero
<1> USE HeadersTyped
<1>1. CASE n \in Elf!Loads(f)
  BY <1>1, SaysOfOne
<1>2. CASE n \notin Elf!Loads(f)
  <2> DEFINE h == f.headers[n]
  <2>1. PICK i \in Elf!Loads(f) :
          /\ h.filesz = h.memsz /\ h.paddr >= f.headers[i].paddr
          /\ h.paddr - f.headers[i].paddr = h.off - f.headers[i].off
          /\ h.paddr + h.filesz <= f.headers[i].paddr + f.headers[i].filesz
    BY <1>2 DEF Elf!Plain, Elf!Inside
  <2> DEFINE l == f.headers[i]
  <2>2. l.filesz <= l.memsz
    BY DEF Elf!Plain
  <2>3. a \in Int /\ a >= h.paddr /\ a < h.paddr + h.memsz
    BY DEF Elf!Occupied
  <2>4. /\ h.paddr \in Nat /\ h.off \in Nat /\ h.filesz \in Nat /\ h.memsz \in Nat
        /\ l.paddr \in Nat /\ l.off \in Nat /\ l.filesz \in Nat /\ l.memsz \in Nat
    BY DEF Elf!Loads
  <2>5. h.filesz = h.memsz /\ h.paddr >= l.paddr /\ h.paddr - l.paddr = h.off - l.off
        /\ h.paddr + h.filesz <= l.paddr + l.filesz
    BY <2>1
  <2> HIDE HeadersTyped
  <2> HIDE DEF h, l
  <2>6. a \in Elf!Occupied(l)
    BY <2>5, <2>2, <2>3, <2>4 DEF Elf!Occupied
  <2>7. Elf!Says(f, a) = IF a - l.paddr < l.filesz
                         THEN l.off + a - l.paddr ELSE Elf!Zero
    BY <2>6, SaysOfOne DEF l
  <2>8. a - l.paddr < l.filesz /\ a - h.paddr < h.filesz
        /\ l.off + a - l.paddr = h.off + a - h.paddr
    BY <2>5, <2>2, <2>3, <2>4
  <2> QED BY <2>7, <2>8 DEF h
<1> QED BY <1>1, <1>2

LEMMA ElfInitOK == ASSUME Elf!Init PROVE ElfInv
  BY FilesAssumption DEF Elf!Init, ElfInv, Elf!TypeOK, Elf!Unset,
                         Elf!PlainImagesDoNotPanic

Outcome == [is : {"error", "junk", "short", "whole"}, size : Nat]

LEMMA DecodeOK == ASSUME ElfInv, Elf!Decode PROVE ElfInv'
<1> USE DEF ElfInv, Elf!TypeOK
<1>1. stream \in Seq(Outcome) /\ file.size \in Nat
  BY FilesAssumption DEF Outcome
<1>2. /\ place = "decode" /\ UNCHANGED <<file, stream, start, end>>
      /\ place' \in {"decode", "notes", "refused"} /\ next' \in Nat /\ next' >= 1
      /\ (place' = "notes" => next' = 1)
  BY DEF Elf!Decode, Elf!Refuse
<1>3. have' \in 0..file.size
  <2>1. CASE next > Len(stream)
    BY <2>1 DEF Elf!Decode, Elf!Refuse
  <2>2. CASE ~(next > Len(stream))
    <3>1. next \in 1..Len(stream)
      BY <1>1, <2>2
    <3>2. stream[next] \in Outcome
      BY <1>1, <3>1
    <3>3. stream[next].size \in Nat
      BY <3>2 DEF Outcome
    <3> QED BY <1>1, <2>2, <3>3 DEF Elf!Decode
  <2> QED BY <2>1, <2>2
<1> QED BY <1>2, <1>3 DEF Elf!PlainImagesDoNotPanic

LEMMA NotesOK == ASSUME ElfInv, Elf!ParseNotes PROVE ElfInv'
<1> USE DEF ElfInv, Elf!TypeOK
<1>1. /\ place = "notes" /\ next = 1
      /\ UNCHANGED <<file, stream, next, have, start, end, mem>>
      /\ place' \in {"measure", "refused"}
  BY DEF Elf!ParseNotes, Elf!Refuse
<1>2. InRange(next - 1)'
  BY <1>1, HeadersTyped DEF InRange
<1> QED BY <1>1, <1>2 DEF Elf!PlainImagesDoNotPanic

LEMMA MeasureOK == ASSUME ElfInv, Elf!MeasureHeader PROVE ElfInv'
<1> USE DEF ElfInv, Elf!TypeOK
<1>1. place = "measure" /\ UNCHANGED <<file, stream, have>> /\ InRange(next - 1)
  BY DEF Elf!MeasureHeader
<1>2. CASE next <= Len(file.headers)
  <2> DEFINE h == file.headers[next]
  <2>1. /\ h.load \in BOOLEAN /\ h.paddr \in Nat /\ h.memsz \in Nat
        /\ next \in 1..Len(file.headers)
    BY <1>2, HeadersTyped
  <2>2. /\ start' = IF h.load /\ h.paddr < start THEN h.paddr ELSE start
        /\ end' = IF h.load /\ h.paddr + h.memsz > end THEN h.paddr + h.memsz ELSE end
        /\ next' = next + 1 /\ UNCHANGED <<place, mem>>
    BY <1>1, <1>2 DEF Elf!MeasureHeader, Elf!Measure
  <2>3. start' \in Nat /\ end' \in Nat /\ start' <= start /\ end' >= end
        /\ (h.load => start' <= h.paddr /\ h.paddr + h.memsz <= end')
    BY <2>1, <2>2
  <2>4. \A i \in Elf!Loads(file) : /\ i \in Nat /\ file.headers[i].paddr \in Nat
                                 /\ file.headers[i].memsz \in Nat /\ file.headers[i].load
    BY HeadersTyped
  <2>5. ASSUME NEW i \in Elf!Loads(file), i <= next
        PROVE  /\ start' <= file.headers[i].paddr
               /\ file.headers[i].paddr + file.headers[i].memsz <= end'
    <3>1. CASE i = next
      BY <2>3, <2>4, <3>1
    <3>2. CASE i <= next - 1
      <4>1. /\ start <= file.headers[i].paddr
            /\ file.headers[i].paddr + file.headers[i].memsz <= end
        BY <1>1, <3>2 DEF InRange
      <4> QED BY <2>3, <2>4, <4>1
    <3> QED BY <2>4, <2>5, <3>1, <3>2
  <2>6. InRange(next - 1)'
    BY <1>1, <2>2, <2>5 DEF InRange
  <2> HIDE DEF h
  <2> QED BY <1>1, <2>2, <2>3, <2>6 DEF Elf!PlainImagesDoNotPanic
<1>3. CASE ~(next <= Len(file.headers))
  <2>1. /\ place' = "load" /\ next' = 1 /\ UNCHANGED <<start, end>>
        /\ mem' = [k \in 0..(end - start - 1) |-> Elf!Zero]
    BY <1>1, <1>3 DEF Elf!MeasureHeader
  <2>2. InRange(Len(file.headers))'
    BY <1>1, <1>3, <2>1, HeadersTyped DEF InRange
  <2>3. mem' \in [0..(end' - start' - 1) -> Int]
    BY <2>1 DEF Elf!Zero
  <2>4. Filled(0)'
    <3>1. \A k \in DOMAIN mem' : mem'[k] = Elf!Zero
      BY <2>1
    <3>2. \A i \in Elf!Loads(file) : ~(i <= 0)
      BY HeadersTyped
    <3> QED BY <1>1, <3>1, <3>2 DEF Filled, Elf!Zero
  <2>5. Filled(next - 1)'
    BY <2>1, <2>4 DEF Filled
  <2> QED BY <1>1, <2>1, <2>2, <2>3, <2>5 DEF Elf!PlainImagesDoNotPanic
<1> QED BY <1>2, <1>3

\* A header of a plain image lies in the range.
LEMMA HeadersFit ==
  ASSUME NEW f \in Files, f = file, Elf!Plain(f), InRange(Len(f.headers)), start \in Nat, end \in Nat,
         NEW n \in DOMAIN f.headers
  PROVE  ~Elf!Outside(f.headers[n])
<1> DEFINE h == f.headers[n]
<1>1. CASE n \in Elf!Loads(f)
  <2>1. start <= h.paddr /\ h.paddr + h.memsz <= end /\ h.paddr \in Nat /\ h.memsz \in Nat
    BY <1>1, HeadersTyped DEF InRange
  <2>2. h.filesz <= h.memsz /\ h.filesz \in Nat
    BY <1>1, HeadersTyped DEF Elf!Plain
  <2> HIDE DEF h
  <2>3. ~Elf!Outside(h)
    BY <2>1, <2>2 DEF Elf!Outside
  <2> QED BY <2>3 DEF h
<1>2. CASE n \notin Elf!Loads(f)
  <2>1. PICK i \in Elf!Loads(f) :
          /\ h.filesz = h.memsz /\ h.paddr >= f.headers[i].paddr
          /\ h.paddr + h.filesz <= f.headers[i].paddr + f.headers[i].filesz
    BY <1>2 DEF Elf!Plain, Elf!Inside
  <2> DEFINE l == f.headers[i]
  <2>2. l.filesz <= l.memsz
    BY DEF Elf!Plain
  <2>3. start <= l.paddr /\ l.paddr + l.memsz <= end
    BY HeadersTyped DEF InRange
  <2>4. /\ h.paddr \in Nat /\ h.filesz \in Nat /\ h.memsz \in Nat
        /\ l.paddr \in Nat /\ l.filesz \in Nat /\ l.memsz \in Nat
    BY HeadersTyped
  <2>5. h.filesz = h.memsz /\ h.paddr >= l.paddr /\ h.paddr + h.filesz <= l.paddr + l.filesz
    BY <2>1
  <2> HIDE DEF h, l
  <2>6. ~Elf!Outside(h)
    BY <2>2, <2>3, <2>4, <2>5 DEF Elf!Outside
  <2> QED BY <2>6 DEF h
<1> QED BY <1>1, <1>2

LEMMA CopyOK ==
  ASSUME ElfInv, place = "load", Elf!Plain(file), next \in DOMAIN file.headers,
         Elf!Available(file.headers[next]), mem' = Elf!Copied(file.headers[next]),
         next' = next + 1, UNCHANGED <<file, have, start, end>>
  PROVE  Filled(next - 1)'
<1> DEFINE head == file.headers[next]
<1>1. /\ file \in Files /\ Filled(next - 1) /\ start \in Nat /\ end \in Nat
      /\ mem \in [0..(end - start - 1) -> Int] /\ have \in Nat /\ next \in Nat
  BY FilesAssumption DEF ElfInv, Elf!TypeOK
<1>2. /\ head.paddr \in Nat /\ head.off \in Nat /\ head.filesz \in Nat /\ head.memsz \in Nat
      /\ head.off + head.filesz <= have
  BY <1>1, HeadersTyped DEF Elf!Available
<1>3. DOMAIN mem' = DOMAIN mem
  BY DEF Elf!Copied
<1>4. head.filesz <= head.memsz
  BY <1>1, HeadersTyped DEF Elf!Plain, Elf!Inside
<1>5. next' - 1 = next
  BY <1>1
<1> HIDE DEF head
<1> SUFFICES ASSUME NEW k \in DOMAIN mem
             PROVE  /\ mem'[k] \in {Elf!Zero, Elf!Says(file, start + k)} /\ mem'[k] < have
                    /\ (\E i \in Elf!Loads(file) : i <= next /\ start + k \in Elf!Occupied(file.headers[i]))
                         => mem'[k] = Elf!Says(file, start + k)
  BY <1>1, <1>3, <1>5 DEF Filled
<1>6. k \in Nat
  BY <1>1
<1>7. start \in Nat /\ have \in Nat /\ next \in Nat
  BY <1>1
<1>8. CASE start + k \in Elf!Occupied(head)
  <2> DEFINE p == k - (head.paddr - start)
  <2>1. p \in 0..(head.memsz - 1)
    BY <1>7, <1>2, <1>6, <1>8 DEF Elf!Occupied
  <2>2. /\ start + k - head.paddr < head.filesz
              => Elf!Says(file, start + k) = head.off + (start + k) - head.paddr
        /\ ~(start + k - head.paddr < head.filesz) => Elf!Says(file, start + k) = Elf!Zero
    <3> DEFINE addr == start + k
    <3>1. addr \in Elf!Occupied(file.headers[next])
      BY <1>8 DEF head
    <3> HIDE DEF addr
    <3>2. Elf!Says(file, addr) = IF addr - head.paddr < head.filesz
                              THEN head.off + addr - head.paddr ELSE Elf!Zero
      BY <1>1, <3>1, HeaderSays DEF head
    <3>3. /\ addr - head.paddr < head.filesz => Elf!Says(file, addr) = head.off + addr - head.paddr
          /\ ~(addr - head.paddr < head.filesz) => Elf!Says(file, addr) = Elf!Zero
      BY <3>2
    <3> QED BY <1>7, <1>2, <1>6, <3>3 DEF addr
  <2>3. mem'[k] = IF p \in 0..(head.filesz - 1) THEN head.off + p
                  ELSE IF p \in head.filesz..(head.memsz - 1) THEN Elf!Zero ELSE mem[k]
    BY DEF Elf!Copied, head
  <2>4. /\ p \in 0..(head.filesz - 1) <=> start + k - head.paddr < head.filesz
        /\ p \notin 0..(head.filesz - 1) => p \in head.filesz..(head.memsz - 1)
        /\ head.off + p = head.off + (start + k) - head.paddr
        /\ p \in 0..(head.filesz - 1) => head.off + p < have
    BY <1>7, <1>2, <1>6, <2>1
  <2> HIDE DEF p
  <2>5. mem'[k] = Elf!Says(file, start + k)
    BY <2>2, <2>3, <2>4
  <2>6. mem'[k] < have
    BY <1>1, <2>3, <2>4 DEF Elf!Zero
  <2> QED BY <2>5, <2>6
<1>9. CASE start + k \notin Elf!Occupied(head)
  <2>1. mem'[k] = mem[k]
    <3> DEFINE p == k - (head.paddr - start)
    <3>1. p \notin 0..(head.filesz - 1) /\ p \notin head.filesz..(head.memsz - 1)
      BY <1>7, <1>2, <1>4, <1>6, <1>9 DEF Elf!Occupied
    <3>2. mem'[k] = IF p \in 0..(head.filesz - 1) THEN head.off + p
                    ELSE IF p \in head.filesz..(head.memsz - 1) THEN Elf!Zero ELSE mem[k]
      BY DEF Elf!Copied, head
    <3> QED BY <3>1, <3>2
  <2>2. ASSUME NEW i \in Elf!Loads(file), i <= next, start + k \in Elf!Occupied(file.headers[i])
        PROVE  i <= next - 1
    <3>1. i # next
      BY <1>9, <2>2 DEF head
    <3>2. i \in Nat
      BY <1>1, HeadersTyped
    <3> QED BY <1>7, <2>2, <3>1, <3>2
  <2> QED BY <1>1, <2>1, <2>2 DEF Filled
<1> QED BY <1>8, <1>9

LEMMA LoadOK == ASSUME ElfInv, Elf!LoadHeader PROVE ElfInv'
<1> USE DEF ElfInv, Elf!TypeOK
<1>1. place = "load" /\ UNCHANGED <<file, stream>> /\ InRange(Len(file.headers))
  BY DEF Elf!LoadHeader
<1>2. CASE next > Len(file.headers)
  <2>1. place' = "loaded" /\ UNCHANGED <<next, have, start, end, mem>>
    BY <1>2 DEF Elf!LoadHeader
  <2>2. ASSUME Elf!Plain(file) PROVE Filled(Len(file.headers))'
    <3>1. Filled(next - 1)
      BY <1>1, <2>2
    <3>2. \A i \in Elf!Loads(file) : i <= Len(file.headers) => i <= next - 1
      BY <1>2, HeadersTyped
    <3> QED BY <1>1, <2>1, <3>1, <3>2 DEF Filled
  <2>3. InRange(Len(file.headers))'
    BY <1>1, <2>1 DEF InRange
  <2> QED BY <1>1, <2>1, <2>2, <2>3 DEF Elf!PlainImagesDoNotPanic
<1>3. CASE ~(next > Len(file.headers))
  <2> DEFINE h == file.headers[next]
  <2>1. next \in DOMAIN file.headers
    BY <1>3, HeadersTyped
  <2>2. CASE ~Elf!Available(h)
    BY <1>1, <1>3, <2>2 DEF Elf!LoadHeader, Elf!Refuse, Elf!PlainImagesDoNotPanic
  <2>3. CASE Elf!Available(h) /\ Elf!Outside(h)
    <3>1. ~Elf!Plain(file)
      BY <1>1, <2>1, <2>3, HeadersFit
    <3>2. place' = "panicked" /\ UNCHANGED <<next, have, start, end, mem>>
      BY <1>3, <2>3 DEF Elf!LoadHeader
    <3> QED BY <1>1, <3>1, <3>2 DEF Elf!PlainImagesDoNotPanic
  <2>4. CASE Elf!Available(h) /\ ~Elf!Outside(h)
    <3>1. /\ mem' = Elf!Copied(h) /\ next' = next + 1
          /\ UNCHANGED <<place, have, start, end>>
      BY <1>3, <2>4 DEF Elf!LoadHeader
    <3>2. mem' \in [0..(end' - start' - 1) -> Int]
      <4>1. h.off \in Nat /\ h.paddr \in Nat /\ h.filesz \in Nat /\ h.memsz \in Nat
        BY <2>1, HeadersTyped
      <4>2. mem \in [0..(end - start - 1) -> Int]
        BY <1>1
      <4> HIDE DEF h
      <4> QED BY <3>1, <4>1, <4>2 DEF Elf!Copied, Elf!Zero
    <3>3. Elf!Plain(file) => Filled(next - 1)'
      BY <1>1, <2>1, <2>4, <3>1, CopyOK
    <3>4. InRange(Len(file.headers))'
      BY <1>1, <3>1 DEF InRange
    <3> HIDE DEF h
    <3> QED BY <1>1, <3>1, <3>2, <3>3, <3>4 DEF Elf!PlainImagesDoNotPanic
  <2> QED BY <2>2, <2>3, <2>4
<1> QED BY <1>2, <1>3

LEMMA ElfNextOK == ASSUME ElfInv, Elf!Next PROVE ElfInv'
  BY DecodeOK, NotesOK, MeasureOK, LoadOK DEF Elf!Next

LEMMA ElfHolds ==
  ASSUME ElfInv PROVE Elf!TypeOK /\ Elf!LoadedIsTheImage /\ Elf!PlainImagesDoNotPanic
<1> SUFFICES ASSUME place = "loaded", Elf!Plain(file)
             PROVE  /\ \A k \in DOMAIN mem : mem[k] = Elf!Says(file, start + k) /\ mem[k] < have
                    /\ \A i \in Elf!Loads(file) :
                         /\ start <= file.headers[i].paddr
                         /\ file.headers[i].paddr + file.headers[i].memsz <= end
  BY DEF ElfInv, Elf!LoadedIsTheImage
<1>1. file \in Files /\ Filled(Len(file.headers)) /\ InRange(Len(file.headers))
  BY DEF ElfInv, Elf!TypeOK
<1>2. \A i \in Elf!Loads(file) : i <= Len(file.headers)
  BY <1>1, HeadersTyped
<1>3. ASSUME NEW k \in DOMAIN mem PROVE mem[k] = Elf!Says(file, start + k) /\ mem[k] < have
  <2>1. CASE \E i \in Elf!Loads(file) : start + k \in Elf!Occupied(file.headers[i])
    BY <1>1, <1>2, <2>1 DEF Filled
  <2>2. CASE ~\E i \in Elf!Loads(file) : start + k \in Elf!Occupied(file.headers[i])
    <3>1. Elf!Says(file, start + k) = Elf!Zero
      BY <2>2, SaysOfNone
    <3> QED BY <1>1, <3>1 DEF Filled
  <2> QED BY <2>1, <2>2
<1> QED BY <1>1, <1>2, <1>3 DEF InRange

------------------------------------------------------------------------------
(* The smallest and the largest of numbers.                                 *)

\* A set with 0, and with n + 1 if it has n, has every number: otherwise those of
\* 0..t that it lacks would go into fewer, each to the one before it.
LEMMA NatSetInduction ==
    ASSUME NEW S, 0 \in S, \A n \in Nat : n \in S => n + 1 \in S
    PROVE  Nat \subseteq S
<1> SUFFICES ASSUME NEW t \in Nat, t \notin S PROVE FALSE
  OBVIOUS
<1> DEFINE L == (0..t) \ S
           M == L \ {t}
           f == [n \in L |-> n - 1]
<1>1. IsFiniteSet(L) /\ t \in L
  <2>1. IsFiniteSet(0..t)
    BY FS_Interval
  <2> QED BY <2>1, FS_Subset
<1>2. IsFiniteSet(M) /\ Cardinality(M) = Cardinality(L) - 1 /\ Cardinality(L) \in Nat
  BY <1>1, FS_RemoveElement, FS_CardinalityType
<1>3. f \in [L -> M]
  <2> SUFFICES ASSUME NEW n \in L PROVE n - 1 \in M
    OBVIOUS
  <2>1. n \in 1..t /\ n - 1 \in Nat
    OBVIOUS
  <2>2. n - 1 \notin S
    <3>1. (n - 1) + 1 = n
      BY <2>1
    <3> QED BY <2>1, <3>1
  <2> QED BY <2>1, <2>2
<1>4. Cardinality(M) < Cardinality(L)
  BY <1>2
<1>5. PICK x \in L, y \in L : x # y /\ f[x] = f[y]
  <2> HIDE DEF L, M, f
  <2> QED BY <1>1, <1>2, <1>3, <1>4, FS_PigeonHole
<1> QED BY <1>5

LEMMA MinThere ==
    ASSUME NEW A \in SUBSET Nat, A # {}
    PROVE  Min(A) \in A
<1> DEFINE S == {n \in Nat : (\E m \in 0..n : m \in A)
                               => \E x \in A : \A y \in A : x <= y}
<1>1. 0 \in S
  OBVIOUS
<1>2. ASSUME NEW n \in Nat, n \in S PROVE n + 1 \in S
  <2> SUFFICES ASSUME NEW m \in 0..(n + 1), m \in A
               PROVE  \E x \in A : \A y \in A : x <= y
    OBVIOUS
  <2>1. CASE \E k \in 0..n : k \in A
    BY <1>2, <2>1
  <2>2. CASE \A k \in 0..n : k \notin A
    <3>1. m = n + 1 /\ \A y \in A : m <= y
      BY <2>2
    <3> QED BY <3>1
  <2> QED BY <2>1, <2>2
<1>3. Nat \subseteq S
  <2> HIDE DEF S
  <2> QED BY <1>1, <1>2, NatSetInduction
<1>4. PICK a \in A : TRUE
  OBVIOUS
<1>5. a \in 0..a /\ a \in S
  BY <1>3
<1>6. \E x \in A : \A y \in A : x <= y
  BY <1>5
<1> QED BY <1>6 DEF Min

LEMMA MaxThere ==
    ASSUME NEW b \in Nat, NEW A \in SUBSET (1..b), A # {}
    PROVE  Max(A) \in A /\ \A y \in A : y <= Max(A)
<1> DEFINE S == {n \in Nat : (\E m \in A : b - m <= n)
                               => \E x \in A : \A y \in A : x >= y}
<1>1. 0 \in S
  OBVIOUS
<1>2. ASSUME NEW n \in Nat, n \in S PROVE n + 1 \in S
  <2> SUFFICES ASSUME NEW m \in A, b - m <= n + 1
               PROVE  \E x \in A : \A y \in A : x >= y
    OBVIOUS
  <2>1. CASE \E k \in A : b - k <= n
    BY <1>2, <2>1
  <2>2. CASE \A k \in A : b - k > n
    <3>1. \A y \in A : m >= y
      BY <2>2
    <3> QED BY <3>1
  <2> QED BY <2>1, <2>2
<1>3. Nat \subseteq S
  <2> HIDE DEF S
  <2> QED BY <1>1, <1>2, NatSetInduction
<1>4. PICK a \in A : TRUE
  OBVIOUS
<1>5. b - a \in Nat /\ b - a <= b - a
  OBVIOUS
<1>6. \E x \in A : \A y \in A : x >= y
  BY <1>3, <1>5
<1>7. Max(A) \in A /\ \A y \in A : Max(A) >= y
  BY <1>6 DEF Max
<1> QED BY <1>7

\* A new window is at an address of its own.
LEMMA NewPtrIsNew ==
    ASSUME NEW b \in Nat, DOMAIN space \subseteq 1..b
    PROVE  NewPtr \in Nat \ {0} /\ NewPtr \notin DOMAIN space /\ NewPtr <= b + 1
<1>1. CASE DOMAIN space = {}
  BY <1>1 DEF NewPtr
<1>2. CASE DOMAIN space # {}
  <2>1. Max(DOMAIN space) \in DOMAIN space /\ \A y \in DOMAIN space : y <= Max(DOMAIN space)
    BY <1>2, MaxThere
  <2>2. NewPtr = Max(DOMAIN space) + 1
    BY <1>2 DEF NewPtr
  <2> QED BY <2>1, <2>2
<1> QED BY <1>1, <1>2

------------------------------------------------------------------------------
(* DomainBuild.                                                             *)

Early == {"initrdEarly", "claim", "populate"}
\* The steps at which the start info page is there
Started == {"xenstore", "console", "tables", "tablesAlloc", "stack", "p2mLate", "evtchn",
            "setupTables", "setupStart"}
\* The steps at which the tables are written
Tabled == {"setupStart", "hypercall", "late", "shared", "vcpu", "seed"} \cup Ended

\* A range that whole tables of size R cover, or none
Aligned(r, R) ==
  /\ r.from \in Nat /\ r.to \in Int
  /\ \/ r.from = 0 /\ r.to = 0
     \/ \E a, b \in Int : r.from = R * a /\ r.to = R * b - 1

MappingType ==
  [from : Nat, to : Nat, pfn : Nat, pgtables : Nat,
   levels : [Levels -> [from : Nat, to : Int, pgtables : Nat, pfn : Nat]]]
Mapping(m) ==
  /\ m \in MappingType
  /\ \A l \in Levels :
       /\ m.levels[l].from = m.levels[l].to => m.levels[l].to = 0
       /\ l < 3 => Aligned(m.levels[l], Reach(l + 1))
       /\ m.levels[l].pgtables = TableCount(m.levels[l], l)
       /\ m.levels[3].pfn <= m.levels[l].pfn
       /\ m.levels[l].pfn + m.levels[l].pgtables <= m.levels[3].pfn + m.pgtables

\* The pages that hold the tables of a mapping
TablePages(m) == m.levels[3].pfn..(m.levels[3].pfn + m.pgtables - 1)
Pages(s) == segs[s].pfn..(segs[s].pfn + segs[s].pages - 1)
Used(s) == segs[s].pfn..(segs[s].pfn + UsedPages(s) - 1)
Shown(a) == pages[a].pfn..(pages[a].pfn + pages[a].count - 1)

CountersInv ==
  /\ image \in Images /\ pc \in Steps
  /\ vend \in Nat /\ pend \in 0..image.total /\ filled \in 0..image.total
  /\ tries \in Nat /\ pgend \in Nat
  /\ pc \in {"initrdEarly", "claim"} => filled = 0
  /\ pc \in Early => pend = 0
  /\ pc \notin Early \cup GivenUp =>
       filled = image.total /\ vend = image.base + pend * PageSize

\* Every page that has a frame has the one its number says.
FrameOf(k) == IF k < Supers THEN SuperFrame(k) ELSE 2 * image.total + k
FramesInv == \A k \in 0..(filled - 1) : p2m[k] = FrameOf(k)

SegsInv ==
  /\ pc \in Early => DOMAIN segs = {}
  /\ pc \in Started => "startInfo" \in DOMAIN segs
  /\ \A s \in DOMAIN segs :
       /\ segs[s].pfn \in Nat /\ segs[s].pages \in Nat \ {0}
       /\ segs[s].pfn + segs[s].pages <= pend
       /\ UsedPages(s) \in Nat /\ UsedPages(s) <= segs[s].pages
       /\ s # "p2m" \/ p2mFirst => segs[s].vstart = image.base + segs[s].pfn * PageSize
  /\ \A s, t \in DOMAIN segs : s # t => \/ segs[s].pfn + segs[s].pages <= segs[t].pfn
                                        \/ segs[t].pfn + segs[t].pages <= segs[s].pfn

\* Tables that have a place keep it to themselves, and a window has all of them or none.
Apart(m) ==
  /\ m.levels[3].pfn + m.pgtables <= pend
  /\ \A s \in DOMAIN segs \ {"tables"} : TablePages(m) \cap Used(s) = {}
  /\ \A a \in Known : TablePages(m) \subseteq Shown(a) \/ TablePages(m) \cap Shown(a) = {}

\* Until they are allocated, which is the next step, the tables are to lie at the end.
TabsInv ==
  /\ maps \in Seq(MappingType) /\ Len(maps) <= 2
  /\ pc \in Early => maps = <<>>
  /\ pc = "tablesAlloc" => maps # <<>>
  /\ \A i \in DOMAIN maps : Mapping(maps[i])
  /\ pc \notin Tabled => \A i \in DOMAIN maps :
       IF pc = "tablesAlloc" /\ i = Len(maps) THEN maps[i].levels[3].pfn = pend
       ELSE Apart(maps[i])

WinsInv ==
  /\ pc \in Early => Known = {}
  /\ \E b \in Nat : DOMAIN space \subseteq 1..b
  /\ pc # "stuck" => Known \subseteq DOMAIN space
  /\ pc \notin Ended => DOMAIN space = Known
  /\ \A a \in Known :
       /\ pages[a].pfn \in Nat /\ pages[a].count \in Nat \ {0}
       /\ \/ /\ pages[a].pfn + pages[a].count <= pend
             /\ space[a] = FramesOf(pages[a].pfn, pages[a].count)
          \/ pages[a].pfn = SharedInfo /\ space[a] = <<SharedInfo>> /\ pc \in Tabled
          \/ a \notin DOMAIN space /\ pc = "stuck"
  /\ pc = "booted" => DOMAIN space = {}
  /\ pc = "failed" => Known = {} /\ Cardinality(DOMAIN space) <= 1
  /\ pc = "stuck" => Cardinality(DOMAIN space \ Known) <= 1

\* A table is in a page that no segment uses for something else.
TablesInv ==
  /\ pc \notin Tabled => memory = {}
  /\ memory # {} => filled = image.total
  /\ \A e \in memory : \E k \in 0..(image.total - 1) :
       /\ e.frame = p2m[k]
       /\ \A s \in DOMAIN segs \ {"tables"} : k \notin Used(s)

BuildInv ==
  /\ CountersInv /\ FramesInv /\ SegsInv /\ TabsInv /\ WinsInv /\ TablesInv

------------------------------------------------------------------------------
(* Numbers.                                                                 *)

LEMMA MulGrows ==
    \A x, y, z \in Nat : /\ x <= y => z * x <= z * y
                         /\ x < y => z * x + z <= z * y
  OBVIOUS

LEMMA DivMod ==
    ASSUME NEW n \in Nat, NEW d \in Nat \ {0}, NEW q \in Int, q = n \div d,
           NEW r \in Int, r = n % d
    PROVE  n = d * q + r /\ q \in Nat /\ r \in 0..(d - 1)
  OBVIOUS

LEMMA Parts ==
    ASSUME NEW n \in Nat, NEW d \in Nat \ {0}
    PROVE  n \div d \in Nat /\ n % d \in 0..(d - 1) /\ n = d * (n \div d) + (n % d)
<1>1. \A q \in Int, r \in Int : q = n \div d /\ r = n % d => n = d * q + r
  BY DivMod
<1>2. \A q \in Int, r \in Int : q = n \div d /\ r = n % d => q \in Nat /\ r \in 0..(d - 1)
  BY DivMod
<1>3. n \div d \in Int /\ n % d \in Int
  OBVIOUS
<1>4. n = d * (n \div d) + (n % d)
  BY ONLY <1>1, <1>3, Zenon
<1>5. n \div d \in Nat /\ n % d \in 0..(d - 1)
  BY ONLY <1>2, <1>3, Zenon
<1> QED BY <1>4, <1>5

\* A quotient is as large as every number whose multiple is no larger.
LEMMA AtMost ==
    ASSUME NEW n \in Nat, NEW d \in Nat \ {0}, NEW q \in Nat, d * q <= n
    PROVE  q <= n \div d
<1>1. n \div d \in Nat /\ n % d \in 0..(d - 1) /\ n = d * (n \div d) + (n % d)
  BY Parts
<1> DEFINE p == n \div d
<1>2. SUFFICES ASSUME p + 1 <= q PROVE FALSE
  BY <1>1
<1>3. d * (p + 1) <= d * q /\ d * (p + 1) = d * p + d
  BY <1>1, <1>2
<1> QED BY <1>1, <1>3

\* Quotients grow with what is divided.
LEMMA DivGrows ==
    ASSUME NEW m \in Nat, NEW n \in Nat, m <= n, NEW d \in Nat \ {0}
    PROVE  m \div d <= n \div d
<1>1. m \div d \in Nat /\ m % d \in 0..(d - 1) /\ m = d * (m \div d) + (m % d)
  BY Parts
<1>2. d * (m \div d) \in Nat /\ d * (m \div d) <= n
  BY <1>1
<1> QED BY <1>1, <1>2, AtMost

\* To divide twice is to divide by the product.
LEMMA DivTwice ==
    ASSUME NEW n \in Nat, NEW c \in Nat \ {0}, NEW d \in Nat \ {0}
    PROVE  (n \div c) \div d <= n \div (c * d)
<1> DEFINE p == n \div c
           q == p \div d
<1>1. p \in Nat /\ n % c \in 0..(c - 1) /\ n = c * p + (n % c)
  BY Parts
<1>2. q \in Nat /\ p % d \in 0..(d - 1) /\ p = d * q + (p % d)
  BY <1>1, Parts
<1>3. c * (d * q) <= c * p
  <2>1. d * q \in Nat /\ d * q <= p
    BY <1>2
  <2> HIDE DEF p, q
  <2> QED BY <1>1, <2>1
<1>4. (c * d) * q = c * (d * q)
  BY <1>2
<1>5. c * d \in Nat \ {0} /\ (c * d) * q <= n
  BY <1>1, <1>3, <1>4
<1> QED BY <1>2, <1>5, AtMost

------------------------------------------------------------------------------
(* Frames.                                                                  *)

\* The superpages' frames lie below those of the single pages.
LEMMA SupersAre ==
    ASSUME image.total \in Nat
    PROVE  /\ Supers = 2^SuperShift * (image.total \div 2^SuperShift)
           /\ image.total \div 2^SuperShift \in Nat
           /\ Supers \in Nat /\ Supers <= image.total
<1> DEFINE d == 2^SuperShift
           S == image.total \div d
           r == image.total % d
<1>1. d \in Nat \ {0}
  BY BoundsAssumption
<1>2. S \in Nat /\ r \in 0..(d - 1) /\ image.total = d * S + r
  BY <1>1, Parts, Zenon
<1>3. Supers = S * d
  BY DEF Supers
<1> HIDE DEF d, S, r
<1>4. Supers = d * S /\ d * S \in Nat
  BY <1>1, <1>2, <1>3
<1>5. Supers \in Nat /\ Supers <= image.total
  BY <1>1, <1>2, <1>4
<1> QED BY <1>2, <1>4, <1>5 DEF S, d

LEMMA SuperFramesDiffer ==
    ASSUME image \in Images, NEW m \in 0..(Supers - 1), NEW n \in 0..(Supers - 1)
    PROVE  /\ SuperFrame(m) \in Nat /\ SuperFrame(m) < 2 * image.total
           /\ SuperFrame(m) = SuperFrame(n) => m = n
<1> DEFINE d == 2^SuperShift
           T == image.total
           S == T \div d
           a == m \div d
           b == n \div d
           r == m % d
           s == n % d
<1>0. T \in Nat /\ d \in Nat \ {0}
  BY ImagesAssumption, BoundsAssumption DEF ImageType
<1>1. S \in Nat /\ d * S <= T /\ Supers = d * S
  BY <1>0, SupersAre
<1>11. m \in Nat /\ n \in Nat
  BY <1>0, <1>1
<1>2. a \in Nat /\ r \in 0..(d - 1) /\ m = d * a + r
  BY <1>0, <1>11, Parts, Zenon
<1>3. b \in Nat /\ s \in 0..(d - 1) /\ n = d * b + s
  BY <1>0, <1>11, Parts, Zenon
<1>4. SuperFrame(m) = 2 * T - d * (a + 1) + r /\ SuperFrame(n) = 2 * T - d * (b + 1) + s
  BY DEF SuperFrame, Extent
<1> HIDE DEF d, T, S, a, b, r, s
<1>5. d * (a + 1) = d * a + d /\ d * (b + 1) = d * b + d /\ d * a \in Nat /\ d * b \in Nat
  BY <1>0, <1>2, <1>3
<1>6. SuperFrame(m) \in Int /\ SuperFrame(m) < 2 * T
  BY <1>0, <1>2, <1>4, <1>5
<1>7. a + 1 <= S
  <2> SUFFICES ASSUME S <= a PROVE FALSE
    BY <1>1, <1>2
  <2>1. d * S <= d * a
    BY <1>0, <1>1, <1>2, MulGrows
  <2>2. m < d * S
    BY <1>1
  <2> QED BY <1>0, <1>1, <1>2, <1>5, <2>1, <2>2
<1>8. d * (a + 1) <= d * S
  BY <1>0, <1>1, <1>2, <1>7, MulGrows
<1>9. SuperFrame(m) >= 0
  BY <1>0, <1>1, <1>2, <1>4, <1>5, <1>8
<1>10. ASSUME SuperFrame(m) = SuperFrame(n) PROVE m = n
  <2>1. d * a - r = d * b - s
    BY <1>0, <1>2, <1>3, <1>4, <1>5, <1>10
  <2>2. CASE a = b
    BY <2>1, <2>2, <1>0, <1>2, <1>3, <1>5
  <2>3. CASE a < b
    <3>1. d * a + d <= d * b
      BY <1>0, <1>2, <1>3, <2>3, MulGrows
    <3> QED BY <1>0, <1>2, <1>3, <1>5, <2>1, <3>1
  <2>4. CASE b < a
    <3>1. d * b + d <= d * a
      BY <1>0, <1>2, <1>3, <2>4, MulGrows
    <3> QED BY <1>0, <1>2, <1>3, <1>5, <2>1, <3>1
  <2> QED BY <1>2, <1>3, <2>2, <2>3, <2>4
<1> QED BY <1>6, <1>9, <1>10 DEF T

LEMMA FramesDiffer ==
    ASSUME image \in Images, NEW m \in 0..(image.total - 1), NEW n \in 0..(image.total - 1)
    PROVE  /\ FrameOf(m) \in Nat
           /\ FrameOf(m) = FrameOf(n) => m = n
<1>0. image.total \in Nat /\ 2^SuperShift \in Nat \ {0}
  BY ImagesAssumption, BoundsAssumption DEF ImageType
<1>1. Supers \in Nat
  BY <1>0, SupersAre
<1>2. \A k \in {m, n} : k < Supers => SuperFrame(k) \in Nat /\ SuperFrame(k) < 2 * image.total
  BY <1>1, SuperFramesDiffer
<1> QED BY <1>0, <1>1, <1>2, SuperFramesDiffer DEF FrameOf

------------------------------------------------------------------------------
(* Page tables.                                                             *)

LEMMA Reaches ==
    ASSUME NEW l \in Levels
    PROVE  /\ Reach(l) \in Nat \ {0} /\ Reach(l + 1) \in Nat \ {0, 1}
           /\ Reach(l + 1) = Reach(l) * Entries
<1>1. Reach(l) \in Nat \ {0} /\ Reach(l + 1) = Reach(l) * Entries /\ Entries \in Nat \ {0, 1}
  BY WidthsAssumption
<1>2. \A x \in Nat \ {0}, y \in Nat \ {0, 1} : x * y \in Nat \ {0, 1}
  OBVIOUS
<1> QED BY <1>1, <1>2

LEMMA AlignedHasEnds ==
    ASSUME NEW r, NEW R \in Nat \ {0, 1}, Aligned(r, R), r.from = r.to
    PROVE  r.to = 0
<1> SUFFICES ASSUME NEW a \in Int, NEW b \in Int, r.from = R * a, r.to = R * b - 1
             PROVE  FALSE
  BY DEF Aligned
<1>1. R * (b - a) = 1
  <2>1. R * (b - a) = R * b - R * a /\ R * a \in Int /\ R * b \in Int
    OBVIOUS
  <2>2. R * a = R * b - 1
    OBVIOUS
  <2> QED BY <2>1, <2>2
<1>2. CASE b - a <= 0
  BY <1>1, <1>2
<1>3. CASE b - a >= 1
  <2>1. R * (b - a) >= R
    BY <1>3
  <2> QED BY <1>1, <2>1
<1> QED BY <1>2, <1>3

LEMMA UncoveredAligned ==
    ASSUME NEW r, NEW c, NEW R \in Nat \ {0, 1}, Aligned(r, R), Aligned(c, R)
    PROVE  Aligned(Uncovered(r, c), R)
<1>1. CASE c.from = c.to \/ (r.from >= c.from /\ r.to <= c.to)
  BY <1>1 DEF Uncovered, NoRange, Aligned
<1>2. CASE c.from # c.to /\ ~(r.from >= c.from /\ r.to <= c.to)
  <2> DEFINE u == [from |-> IF r.from \in c.from..c.to THEN c.to + 1 ELSE r.from,
                   to   |-> IF r.to \in c.from..c.to THEN c.from - 1 ELSE r.to]
  <2>1. Uncovered(r, c) = u
    BY <1>2 DEF Uncovered
  <2>2. PICK a, b \in Int : c.from = R * a /\ c.to = R * b - 1
    BY <1>2 DEF Aligned
  <2>3. u.from \in Nat /\ u.to \in Int
    BY DEF Aligned
  <2>4. CASE r.from = 0 /\ r.to = 0
    <3>1. r.from = R * 0 /\ R * 0 = 0
      BY <2>4
    <3>2. CASE r.from \in c.from..c.to
      BY <1>2, <2>4, <3>2 DEF Aligned
    <3>3. CASE r.from \notin c.from..c.to
      BY <2>1, <2>3, <2>4, <3>3 DEF Aligned
    <3> QED BY <3>2, <3>3
  <2>5. CASE \E x, y \in Int : r.from = R * x /\ r.to = R * y - 1
    <3>1. PICK x, y \in Int : r.from = R * x /\ r.to = R * y - 1
      BY <2>5
    <3>2. \E m \in {x, b} : u.from = R * m
      <4>1. c.to + 1 = R * b
        BY <2>2
      <4> QED BY <3>1, <4>1
    <3>3. \E n \in {y, a} : u.to = R * n - 1
      BY <2>2, <3>1
    <3> QED BY <2>1, <2>3, <3>2, <3>3 DEF Aligned
  <2> QED BY <2>4, <2>5 DEF Aligned
<1> QED BY <1>1, <1>2

LEMMA WholeAligned ==
    ASSUME NEW from \in Nat, NEW to \in Nat, NEW R \in Nat \ {0, 1}
    PROVE  Aligned([from |-> RoundDown(from, R), to |-> round_up(to, R)], R)
<1>1. PICK p \in Nat, q \in Nat : p = from \div R /\ q = to \div R
  BY Parts
<1>2. RoundDown(from, R) = p * R /\ round_up(to, R) = q * R + R - 1
  BY <1>1 DEF RoundDown, round_up
<1>3. p * R = R * p /\ q * R + R = R * (q + 1) /\ R * p \in Nat /\ q * R \in Nat
  BY <1>1
<1>4. RoundDown(from, R) \in Nat /\ round_up(to, R) \in Int
  BY <1>2, <1>3
<1>5. RoundDown(from, R) = R * p /\ round_up(to, R) = R * (q + 1) - 1
  BY <1>2, <1>3
<1> QED BY <1>4, <1>5 DEF Aligned

\* The range of a level for an area, after none or one mapping
LEMMA LevelRangeAligned ==
    ASSUME NEW ms, ms = <<>> \/ Mapping(ms[1]),
           NEW from \in Nat, NEW to \in Nat, NEW l \in Levels
    PROVE  LET r == LevelRange(ms, from, to, l)
           IN  /\ r.from \in Nat /\ r.to \in Int /\ (r.from = r.to => r.to = 0)
               /\ l < 3 => Aligned(r, Reach(l + 1))
<1> DEFINE r == LevelRange(ms, from, to, l)
<1>1. CASE l = 3
  <2>1. r = [from |-> 0, to |-> VirtMask] \/ r = NoRange
    BY <1>1 DEF LevelRange
  <2> QED BY <1>1, <2>1, WidthsAssumption DEF VirtMask, NoRange
<1>2. CASE l # 3
  <2> DEFINE R == Reach(l + 1)
             w == [from |-> RoundDown(from, R), to |-> round_up(to, R)]
  <2>1. R \in Nat \ {0, 1}
    BY Reaches
  <2>2. Aligned(w, R)
    BY <2>1, WholeAligned
  <2>3. r = IF ms = <<>> THEN w ELSE Uncovered(w, ms[1].levels[l])
    BY <1>2 DEF LevelRange
  <2>4. l < 3
    BY <1>2 DEF Levels
  <2> HIDE DEF r, w, R
  <2>5. CASE ms = <<>>
    <3>1. Aligned(r, R)
      BY <2>2, <2>3, <2>5
    <3>2. r.from = r.to => r.to = 0
      BY <2>1, <3>1, AlignedHasEnds
    <3> QED BY <3>1, <3>2 DEF R, r, Aligned
  <2>6. CASE ms # <<>>
    <3>1. Aligned(ms[1].levels[l], R)
      BY <2>4, <2>6 DEF Mapping, R
    <3>2. Aligned(r, R)
      BY <2>1, <2>2, <2>3, <2>6, <3>1, UncoveredAligned
    <3>3. r.from = r.to => r.to = 0
      BY <2>1, <3>2, AlignedHasEnds
    <3> QED BY <3>2, <3>3 DEF R, r, Aligned
  <2> QED BY <2>5, <2>6
<1> QED BY <1>1, <1>2

LEMMA CountOfTables ==
    ASSUME NEW l \in Levels, NEW r, r.from \in Nat, r.to \in Int
    PROVE  TableCount(r, l) \in Nat
<1>1. CASE r.from < r.to
  <2>1. r.to - r.from \in Nat /\ Reach(l + 1) \in Nat \ {0}
    BY <1>1, Reaches
  <2>2. (r.to - r.from) \div Reach(l + 1) \in Nat
    BY <2>1, Parts
  <2> QED BY <1>1, <2>2 DEF TableCount
<1>2. CASE ~(r.from < r.to)
  BY <1>2 DEF TableCount
<1> QED BY <1>1, <1>2

\* What count_page_tables makes is a mapping, whose tables begin at the page given.
LEMMA CountedIsMapping ==
    ASSUME NEW ms, ms = <<>> \/ Mapping(ms[1]), NEW at \in Nat,
           NEW from \in Int, NEW to \in Int
    PROVE  /\ Mapping(count_page_tables(ms, at, from, to))
           /\ count_page_tables(ms, at, from, to).levels[3].pfn = at
<1> DEFINE start_ == from % 2^VirtBits
           end_ == to % 2^VirtBits
           range == [l \in Levels |-> LevelRange(ms, start_, end_, l)]
           count == [l \in Levels |-> TableCount(range[l], l)]
           above == [l \in Levels |-> CASE l = 3 -> 0 [] l = 2 -> count[3]
                                        [] l = 1 -> count[3] + count[2]
                                        [] l = 0 -> count[3] + count[2] + count[1]]
           m == count_page_tables(ms, at, from, to)
<1>1. start_ \in Nat /\ end_ \in Nat
  BY WidthsAssumption
<1>2. \A l \in Levels : /\ range[l].from \in Nat /\ range[l].to \in Int
                        /\ (range[l].from = range[l].to => range[l].to = 0)
                        /\ l < 3 => Aligned(range[l], Reach(l + 1))
  BY <1>1, LevelRangeAligned
<1>3. \A l \in Levels : count[l] \in Nat /\ count[l] = TableCount(range[l], l)
  BY <1>2, CountOfTables
<1>4. m = [from |-> start_, to |-> end_, pfn |-> 0, pgtables |-> above[0] + count[0],
           levels |-> [l \in Levels |->
             [from |-> range[l].from, to |-> range[l].to, pgtables |-> count[l],
              pfn |-> at + above[l]]]]
  BY DEF count_page_tables
<1> HIDE DEF m, range, count, start_, end_
<1>5. /\ above[3] = 0 /\ above[2] = count[3] /\ above[1] = count[3] + count[2]
      /\ above[0] = count[3] + count[2] + count[1]
  BY DEF Levels
<1>6. count[0] \in Nat /\ count[1] \in Nat /\ count[2] \in Nat /\ count[3] \in Nat
  BY <1>3 DEF Levels
<1> HIDE DEF above
<1>7. \A l \in {0, 1, 2, 3} : above[l] \in Nat /\ above[l] + count[l] <= above[0] + count[0]
  BY <1>5, <1>6
<1>8. \A l \in Levels :
        /\ m.levels[l].from = range[l].from /\ m.levels[l].to = range[l].to
        /\ m.levels[l].pgtables = count[l] /\ m.levels[l].pfn = at + above[l]
  BY <1>4
<1>9. Levels = {0, 1, 2, 3}
  BY DEF Levels
<1>10. m.levels[3].pfn = at
  BY <1>5, <1>8, <1>9
<1>11. m.pgtables = above[0] + count[0] /\ above[0] + count[0] \in Nat
  BY <1>4, <1>6, <1>7
<1>12. ASSUME NEW l \in Levels
       PROVE  /\ m.levels[l].pfn \in Nat /\ m.levels[l].pgtables \in Nat
              /\ m.levels[3].pfn <= m.levels[l].pfn
              /\ m.levels[l].pfn + m.levels[l].pgtables <= m.levels[3].pfn + m.pgtables
  <2>1. above[l] \in Nat /\ above[l] + count[l] <= above[0] + count[0]
    BY <1>7, <1>9
  <2>2. count[l] \in Nat
    BY <1>3
  <2>3. m.levels[l].pgtables = count[l] /\ m.levels[l].pfn = at + above[l]
    BY <1>8
  <2> HIDE DEF above
  <2> QED BY <1>10, <1>11, <2>1, <2>2, <2>3
<1>13. m \in MappingType
  <2>1. ASSUME NEW l \in Levels
        PROVE  [from |-> range[l].from, to |-> range[l].to, pgtables |-> count[l],
                pfn |-> at + above[l]] \in [from : Nat, to : Int, pgtables : Nat, pfn : Nat]
    <3>1. above[l] \in Nat
      BY <1>7, <1>9
    <3>2. at + above[l] \in Nat /\ count[l] \in Nat
      BY <1>3, <3>1
    <3> QED BY <1>2, <3>2
  <2> QED BY <1>1, <1>4, <1>11, <2>1 DEF MappingType
<1>14. ASSUME NEW l \in Levels
       PROVE  m.levels[l].from = m.levels[l].to => m.levels[l].to = 0
  BY <1>2, <1>8
<1>15. ASSUME NEW l \in Levels, l < 3 PROVE Aligned(m.levels[l], Reach(l + 1))
  BY <1>2, <1>8, <1>15 DEF Aligned
<1>16. ASSUME NEW l \in Levels PROVE m.levels[l].pgtables = TableCount(m.levels[l], l)
  BY <1>3, <1>8 DEF TableCount
<1>17. Mapping(m)
  BY <1>12, <1>13, <1>14, <1>15, <1>16 DEF Mapping
<1> QED BY <1>10, <1>17 DEF m

\* The tables of the list lie behind the list.
LEMMA P2mIsMapping ==
    ASSUME NEW m, Mapping(m), pend \in Nat, p2mPages \in Nat, m.levels[3].pfn = pend
    PROVE  /\ Mapping(P2mMap(m)) /\ P2mMap(m).levels[3].pfn = pend + p2mPages
           /\ P2mMap(m).pgtables = m.pgtables
<1> DEFINE n == P2mMap(m)
           moved == [l \in Levels |-> [m.levels[l] EXCEPT !.pfn = @ + p2mPages]]
<1>1. m \in MappingType
  BY DEF Mapping
<1>2. n = [m EXCEPT !.pfn = pend, !.levels = moved]
  BY DEF P2mMap
<1>3. moved \in [Levels -> [from : Nat, to : Int, pgtables : Nat, pfn : Nat]]
  BY <1>1 DEF MappingType
<1>4. n \in MappingType /\ n.levels = moved /\ n.pgtables = m.pgtables
  BY <1>1, <1>2, <1>3, Zenon DEF MappingType
<1>5. \A l \in Levels :
        /\ n.levels[l].from = m.levels[l].from /\ n.levels[l].to = m.levels[l].to
        /\ n.levels[l].pgtables = m.levels[l].pgtables
        /\ n.levels[l].pfn = m.levels[l].pfn + p2mPages
  BY <1>1, <1>4 DEF MappingType
<1> HIDE DEF n, moved
<1>6. 3 \in Levels
  BY DEF Levels
<1>7. ASSUME NEW l \in Levels
      PROVE  /\ n.levels[3].pfn <= n.levels[l].pfn
             /\ n.levels[l].pfn + n.levels[l].pgtables <= n.levels[3].pfn + n.pgtables
  <2>1. /\ m.levels[3].pfn <= m.levels[l].pfn
        /\ m.levels[l].pfn + m.levels[l].pgtables <= m.levels[3].pfn + m.pgtables
    BY DEF Mapping
  <2>2. m.levels[l].pfn \in Nat /\ m.levels[l].pgtables \in Nat /\ m.pgtables \in Nat
    BY <1>1 DEF MappingType
  <2> QED BY <1>4, <1>5, <1>6, <2>1, <2>2
<1>8. ASSUME NEW l \in Levels
      PROVE  n.levels[l].from = n.levels[l].to => n.levels[l].to = 0
  BY <1>5 DEF Mapping
<1>9. ASSUME NEW l \in Levels, l < 3 PROVE Aligned(n.levels[l], Reach(l + 1))
  <2>1. Aligned(m.levels[l], Reach(l + 1))
    BY <1>9 DEF Mapping
  <2> QED BY <1>5, <2>1 DEF Aligned
<1>10. ASSUME NEW l \in Levels PROVE n.levels[l].pgtables = TableCount(n.levels[l], l)
  <2>1. m.levels[l].pgtables = TableCount(m.levels[l], l)
    BY DEF Mapping
  <2> QED BY <1>5, <2>1 DEF TableCount
<1>11. Mapping(n)
  BY <1>4, <1>7, <1>8, <1>9, <1>10 DEF Mapping
<1> QED BY <1>4, <1>5, <1>6, <1>11 DEF n

LEMMA NegativeDiv == \A d \in Nat \ {0}, n \in Int : n < 0 => n \div d < 0
  OBVIOUS

\* An entry of a level lies in one of the level's tables.
LEMMA EntriesAreInTables ==
    ASSUME NEW ms, NEW i \in DOMAIN ms, NEW j \in DOMAIN ms, Mapping(ms[i]), Mapping(ms[j]),
           NEW l \in Levels, NEW e \in EntriesFor(ms, l, i, j)
    PROVE  /\ e.place \div Entries \in Nat
           /\ e.place \div Entries < ms[i].levels[l].pgtables
<1> DEFINE t == ms[i].levels[l]
           b == Below(ms, l, j)
           low == IF t.from > b.from THEN t.from ELSE b.from
           high == IF t.to < b.to THEN t.to ELSE b.to
           R == Reach(l)
           D == Reach(l + 1)
<1>1. t.from \in Nat /\ t.to \in Int /\ (t.from = t.to => t.to = 0) /\ t.pgtables = TableCount(t, l)
  BY DEF Mapping, MappingType
<1>2. b.from \in Nat /\ b.to \in Int
  <2>1. CASE l > 0
    <3>1. l - 1 \in Levels
      BY <2>1 DEF Levels
    <3> QED BY <2>1, <3>1 DEF Below, Mapping, MappingType
  <2>2. CASE ~(l > 0)
    BY <2>2 DEF Below, Mapping, MappingType
  <2> QED BY <2>1, <2>2
<1>3. /\ b.from < t.to /\ t.from < b.to
      /\ e.place \in ((low - t.from) \div R)..((high - t.from) \div R)
  <2>1. ~(b.from >= t.to \/ b.to <= t.from)
    BY DEF EntriesFor
  <2>2. \E p \in ((low - t.from) \div R)..((high - t.from) \div R) : e.place = p
    BY DEF EntriesFor
  <2> QED BY <1>1, <1>2, <2>1, <2>2
<1>4. R \in Nat \ {0} /\ D \in Nat \ {0} /\ D = R * Entries /\ Entries \in Nat \ {0}
  BY Reaches, WidthsAssumption
<1>5. low - t.from \in Nat /\ high \in Int /\ high <= t.to
  BY <1>1, <1>2
<1>6. (low - t.from) \div R \in Nat
  BY <1>4, <1>5, Parts
<1>7. t.from < t.to /\ t.to - t.from \in Nat /\ high - t.from \in Nat
      /\ high - t.from <= t.to - t.from
  <2>1. t.from # t.to
    BY <1>1, <1>2, <1>3
  <2>2. ASSUME t.to < t.from PROVE FALSE
    <3>1. high - t.from \in Int /\ high - t.from < 0
      BY <1>1, <1>2, <1>5, <2>2
    <3>2. \A n \in Int : n < 0 => n \div R < 0
      BY <1>4, NegativeDiv
    <3>3. (high - t.from) \div R < 0 /\ (high - t.from) \div R \in Int
      BY <1>4, <3>1, <3>2
    <3> QED BY <1>3, <1>6, <3>3
  <2> QED BY <1>1, <1>2, <1>3, <1>5, <2>1, <2>2
<1>8. (high - t.from) \div R \in Nat
  BY <1>4, <1>7, Parts
<1> HIDE DEF t, b, low, high, R, D
<1>9. e.place \in Nat /\ e.place <= (high - t.from) \div R
  BY <1>3, <1>6, <1>8
<1>10. e.place \div Entries \in Nat /\ e.place \div Entries <= ((high - t.from) \div R) \div Entries
  BY <1>4, <1>8, <1>9, Parts, DivGrows
<1>11. ((high - t.from) \div R) \div Entries <= (high - t.from) \div D
  BY <1>4, <1>7, DivTwice
<1>12. (high - t.from) \div D <= (t.to - t.from) \div D
  BY <1>4, <1>7, DivGrows
<1>13. /\ (high - t.from) \div D \in Nat /\ (t.to - t.from) \div D \in Nat
       /\ ((high - t.from) \div R) \div Entries \in Nat
  BY <1>4, <1>7, <1>8, Parts
<1>14. t.pgtables = (t.to - t.from) \div D + 1
  BY <1>1, <1>7 DEF TableCount, D
<1> QED BY <1>10, <1>11, <1>12, <1>14, <1>13 DEF t

------------------------------------------------------------------------------
(* Errors.                                                                  *)

StayVars == <<image, memVars, p2m, filled, tabVars, memory, cr3>>

LEMMA TotalIsNat == ASSUME image \in Images PROVE image \in ImageType /\ image.total \in Nat
  BY ImagesAssumption DEF ImageType

\* An error leaves all but the windows alone.
LEMMA EndedOK ==
    ASSUME BuildInv, pc \notin Ended, pc' \in GivenUp, UNCHANGED StayVars, WinsInv'
    PROVE  BuildInv'
<1>1. UNCHANGED <<image, vend, pend, segs, p2m, filled, maps, tries, pgend, memory>>
  BY DEF StayVars, memVars, tabVars
<1>2. pc' \in Ended /\ pc' \notin Early /\ pc' \notin Started /\ pc' \in Tabled /\ pc' \in Steps
      /\ pc' # "tablesAlloc" /\ pc' # "booted" /\ pc' \notin {"initrdEarly", "claim"}
  BY DEF GivenUp, Ended, Early, Started, Tabled, Steps
<1>3. CountersInv'
  BY <1>1, <1>2 DEF BuildInv, CountersInv
<1>4. FramesInv'
  BY <1>1 DEF BuildInv, FramesInv, FrameOf, Supers, SuperFrame, Extent
<1>5. SegsInv'
  BY <1>1, <1>2 DEF BuildInv, SegsInv, UsedPages, p2mPages, p2mFirst
<1>6. TabsInv'
  BY <1>1, <1>2 DEF BuildInv, TabsInv
<1>7. TablesInv'
  BY <1>1, <1>2 DEF BuildInv, TablesInv, Used, UsedPages, p2mPages
<1> QED BY <1>3, <1>4, <1>5, <1>6, <1>7 DEF BuildInv

\* What an error leaves besides the windows known: the one that was being made.
LEMMA LeakedIsOne ==
    ASSUME BuildInv, NEW leaked, leaked = NoLeak \/ \E frames : leaked = Leak(frames)
    PROVE  /\ NewPtr \in Nat \ {0} /\ NewPtr \notin DOMAIN space
           /\ \E b \in Nat : DOMAIN space \subseteq 1..b /\ NewPtr <= b
           /\ DOMAIN leaked \subseteq {NewPtr}
           /\ \A S : S \subseteq DOMAIN leaked => Cardinality(S) <= 1
<1>1. PICK b \in Nat : DOMAIN space \subseteq 1..b
  BY DEF BuildInv, WinsInv
<1>2. NewPtr \in Nat \ {0} /\ NewPtr \notin DOMAIN space /\ NewPtr <= b + 1
  BY <1>1, NewPtrIsNew
<1>3. b + 1 \in Nat /\ DOMAIN space \subseteq 1..(b + 1)
  BY <1>1
<1>4. DOMAIN leaked \subseteq {NewPtr}
  BY DEF NoLeak, Leak, With
<1>5. ASSUME NEW S, S \subseteq DOMAIN leaked PROVE Cardinality(S) <= 1
  <2>1. S = {} \/ S = {NewPtr}
    BY <1>4, <1>5
  <2>2. Cardinality({}) = 0 /\ Cardinality({NewPtr}) = 1
    BY FS_EmptySet, FS_Singleton
  <2> QED BY <2>1, <2>2
<1> QED BY <1>2, <1>3, <1>4, <1>5

\* A munmap that fails leaves windows that show what the list says of them.
LEMMA HalfwayOK ==
    ASSUME BuildInv, pc \notin Ended, NEW leaked, NEW list,
           leaked = NoLeak \/ \E frames : leaked = Leak(frames),
           DOMAIN list \subseteq Known, \A a \in DOMAIN list : list[a] = pages[a],
           GiveUpHalfway(list, leaked), UNCHANGED StayVars
    PROVE  BuildInv'
<1>1. /\ pc' = "stuck" /\ pages' = list
      /\ UNCHANGED <<image, pend, p2m, filled>>
  BY DEF GiveUpHalfway, StayVars, memVars
<1>2. /\ pc' \in GivenUp /\ pc' \in Ended /\ pc' \notin Early /\ pc' \in Tabled
      /\ pc' # "booted" /\ pc' # "failed"
  BY <1>1 DEF GivenUp, Ended, Early, Tabled
<1>3. PICK w \in DOMAIN list :
        space' = [a \in (DOMAIN space \ Known) \cup {x \in DOMAIN list : x >= w}
                         \cup DOMAIN leaked |->
                    IF a \in DOMAIN leaked THEN leaked[a] ELSE space[a]]
  BY DEF GiveUpHalfway
<1>4. DOMAIN space = Known /\ Known' = DOMAIN list
  BY <1>1 DEF BuildInv, WinsInv, Known
<1>5. PICK b \in Nat : DOMAIN space \subseteq 1..b /\ NewPtr <= b
  BY LeakedIsOne
<1>6. NewPtr \in Nat \ {0} /\ NewPtr \notin DOMAIN space /\ DOMAIN leaked \subseteq {NewPtr}
  BY LeakedIsOne
<1>7. DOMAIN space' = {x \in DOMAIN list : x >= w} \cup DOMAIN leaked
  BY <1>3, <1>4
<1>8. DOMAIN space' \subseteq 1..b
  BY <1>4, <1>5, <1>6, <1>7
<1>9. Cardinality(DOMAIN space' \ Known') <= 1
  <2>1. DOMAIN space' \ Known' \subseteq DOMAIN leaked
    BY <1>4, <1>7
  <2> QED BY <2>1, LeakedIsOne
<1>10. ASSUME NEW a \in Known'
       PROVE  /\ pages'[a].pfn \in Nat /\ pages'[a].count \in Nat \ {0}
              /\ \/ /\ pages'[a].pfn + pages'[a].count <= pend'
                    /\ (space[a] = FramesOf(pages[a].pfn, pages[a].count))'
                 \/ (pages[a].pfn = SharedInfo /\ space[a] = <<SharedInfo>>)'
                 \/ a \notin DOMAIN space'
  <2>1. a \in Known /\ pages'[a] = pages[a]
    BY <1>1, <1>4
  <2>2. /\ pages[a].pfn \in Nat /\ pages[a].count \in Nat \ {0}
        /\ \/ /\ pages[a].pfn + pages[a].count <= pend
              /\ space[a] = FramesOf(pages[a].pfn, pages[a].count)
           \/ pages[a].pfn = SharedInfo /\ space[a] = <<SharedInfo>>
    BY <2>1 DEF BuildInv, WinsInv, Ended, GivenUp
  <2>3. CASE a \notin DOMAIN space'
    BY <2>1, <2>2, <2>3
  <2>4. CASE a \in DOMAIN space'
    <3>1. a \notin DOMAIN leaked
      BY <1>4, <1>6, <2>1
    <3>2. space'[a] = space[a]
      BY <1>3, <2>4, <3>1
    <3> QED BY <1>1, <2>1, <2>2, <3>2 DEF FramesOf, SharedInfo
  <2> QED BY <2>3, <2>4
<1>11. WinsInv'
  BY <1>1, <1>2, <1>5, <1>8, <1>9, <1>10 DEF WinsInv
<1> QED BY <1>2, <1>11, EndedOK

LEMMA FailOK ==
    ASSUME BuildInv, pc \notin Ended, NEW leaked, Fails(leaked),
           leaked = NoLeak \/ \E frames : leaked = Leak(frames)
    PROVE  BuildInv'
<1>1. UNCHANGED StayVars
  BY DEF Fails, StayVars
<1>2. CASE GiveUpHalfway(pages, leaked)
  BY <1>1, <1>2, HalfwayOK DEF Known
<1>3. CASE GiveUp(leaked)
  <2>1. pc' = "failed" /\ Known' = {}
    BY <1>3 DEF GiveUp, Known
  <2>2. pc' \in GivenUp /\ pc' \in Ended /\ pc' \notin Early /\ pc' # "booted" /\ pc' # "stuck"
    BY <2>1 DEF GivenUp, Ended, Early
  <2>3. DOMAIN space' = DOMAIN leaked
    BY <1>3 DEF GiveUp, BuildInv, WinsInv
  <2>4. Cardinality(DOMAIN space') <= 1 /\ \E b \in Nat : DOMAIN space' \subseteq 1..b
    BY <2>3, LeakedIsOne
  <2>5. WinsInv'
    BY <2>1, <2>2, <2>4 DEF WinsInv
  <2> QED BY <1>1, <2>2, <2>5, EndedOK
<1> QED BY <1>2, <1>3 DEF Fails

------------------------------------------------------------------------------
(* Steps that change nothing the invariant is about, but the place.         *)

\* The build goes on to a place where no more is claimed.
GoesOn ==
  /\ pc \notin Ended /\ pc' \in Steps \ ({"booted", "tablesAlloc"} \cup GivenUp)
  /\ pc # "tablesAlloc"
  /\ pc' \in Early <=> pc \in Early
  /\ pc' \in {"initrdEarly", "claim"} => pc \in {"initrdEarly", "claim"}
  /\ pc' \in Started => pc \in Started
  /\ pc' \in Tabled <=> pc \in Tabled

LEMMA QuietOK ==
    ASSUME BuildInv, GoesOn,
           UNCHANGED <<image, memVars, p2m, filled, tabVars, winVars, memory>>
    PROVE  BuildInv'
<1>1. UNCHANGED <<image, vend, pend, segs, p2m, filled, maps, tries, pgend, pages, space, memory>>
  BY DEF memVars, tabVars, winVars
<1>2. CountersInv'
  BY <1>1 DEF BuildInv, CountersInv, GoesOn, Ended, GivenUp
<1>3. FramesInv'
  BY <1>1 DEF BuildInv, FramesInv, FrameOf, Supers, SuperFrame, Extent
<1>4. SegsInv'
  BY <1>1 DEF BuildInv, SegsInv, UsedPages, p2mPages, p2mFirst, GoesOn
<1>5. TabsInv'
  <2>1. maps' \in Seq(MappingType) /\ Len(maps') <= 2 /\ (pc' \in Early => maps' = <<>>)
        /\ \A i \in DOMAIN maps' : Mapping(maps'[i])
    BY <1>1 DEF BuildInv, TabsInv, GoesOn
  <2>2. \A i \in DOMAIN maps : Apart(maps[i])' = Apart(maps[i])
    BY <1>1 DEF Apart, TablePages, Used, UsedPages, p2mPages, Known, Shown
  <2> QED BY <1>1, <2>1, <2>2 DEF BuildInv, TabsInv, GoesOn
<1>6. WinsInv'
  BY <1>1 DEF BuildInv, WinsInv, Known, FramesOf, SharedInfo, GoesOn, Ended, GivenUp
<1>7. TablesInv'
  BY <1>1 DEF BuildInv, TablesInv, Used, UsedPages, p2mPages, GoesOn
<1> QED BY <1>2, <1>3, <1>4, <1>5, <1>6, <1>7 DEF BuildInv

LEMMA SkipOK ==
    ASSUME BuildInv, NEW next_, Skip(next_),
           \/ pc = "initrdEarly" /\ next_ = "claim"
           \/ pc = "claim" /\ next_ = "populate"
           \/ pc = "initrd" /\ next_ = "magic"
           \/ pc = "magic" /\ next_ = "startInfo"
           \/ pc = "p2mLate" /\ next_ = "evtchn"
           \/ pc = "evtchn" /\ next_ = "setupTables"
           \/ pc = "hypercall" /\ next_ \in {"late", "panicked"}
    PROVE  BuildInv'
<1>1. GoesOn
  BY DEF Skip, GoesOn, Early, Started, Tabled, Ended, GivenUp, Steps
<1> QED BY <1>1, QuietOK DEF Skip

LEMMA VcpuOK == ASSUME BuildInv, vcpu PROVE BuildInv'
<1>1. CASE Fails(NoLeak)
  BY <1>1, FailOK DEF vcpu, Ended, GivenUp
<1>2. CASE ~Fails(NoLeak)
  <2>1. GoesOn
    BY <1>2 DEF vcpu, GoesOn, Early, Started, Tabled, Ended, GivenUp, Steps
  <2> QED BY <1>2, <2>1, QuietOK DEF vcpu
<1> QED BY <1>1, <1>2

------------------------------------------------------------------------------
(* Memory.                                                                  *)

LEMMA InitBuildOK == ASSUME Init PROVE BuildInv
<1>1. image.total \in Nat
  BY TotalIsNat DEF Init
<1>2. DOMAIN <<>> = {} /\ 0 \in Nat /\ 1..0 = {}
  OBVIOUS
<1>3. CountersInv
  BY <1>1, BoundsAssumption DEF Init, CountersInv, Early, Steps
<1>4. FramesInv
  BY DEF Init, FramesInv
<1>5. SegsInv
  BY <1>2 DEF Init, SegsInv, Started
<1>6. TabsInv
  BY <1>2 DEF Init, TabsInv
<1>7. WinsInv
  <2>1. DOMAIN space = {} /\ Known = {}
    BY <1>2 DEF Init, Known
  <2> QED BY <1>2, <2>1 DEF Init, WinsInv
<1>8. TablesInv
  BY DEF Init, TablesInv
<1> QED BY <1>3, <1>4, <1>5, <1>6, <1>7, <1>8 DEF BuildInv

\* Frames are given to the pages from the first on, by their numbers.
LEMMA PopulatedOK ==
    ASSUME BuildInv, pc = "populate", NEW n \in Nat, filled + n <= image.total,
           NEW frame, \A k \in filled..(filled + n - 1) : frame[k] = FrameOf(k),
           Populate(n, frame)
    PROVE  BuildInv'
<1>1. UNCHANGED <<image, pc, vend, pend, segs, maps, tries, pgend, pages, space, memory>>
      /\ filled' = filled + n
  BY DEF Populate, memVars, tabVars, winVars
<1>2. image.total \in Nat /\ filled \in 0..image.total
  BY TotalIsNat DEF BuildInv, CountersInv
<1>3. filled' \in 0..image.total
  BY <1>1, <1>2
<1>4. pc \in Early /\ pc \notin {"initrdEarly", "claim"} /\ pc \notin Tabled
  BY DEF Early, Tabled, Ended, GivenUp
<1>5. CountersInv'
  BY <1>1, <1>3, <1>4 DEF BuildInv, CountersInv
<1>6. FramesInv'
  <2> SUFFICES ASSUME NEW k \in 0..(filled' - 1) PROVE p2m'[k] = FrameOf(k)
    BY <1>1 DEF FramesInv, FrameOf, Supers, SuperFrame, Extent
  <2>1. k \in 0..(image.total - 1) /\ k \in Pfns
    BY <1>1, <1>2, <1>3 DEF Pfns
  <2>2. p2m'[k] = IF k \in filled..(filled + n - 1) THEN frame[k] ELSE p2m[k]
    BY <2>1 DEF Populate
  <2>3. CASE k \in filled..(filled + n - 1)
    BY <2>2, <2>3
  <2>4. CASE k \notin filled..(filled + n - 1)
    <3>1. k \in 0..(filled - 1)
      BY <1>1, <1>2, <2>4
    <3> QED BY <2>2, <2>4, <3>1 DEF BuildInv, FramesInv
  <2> QED BY <2>3, <2>4
<1>7. Known = {} /\ maps = <<>> /\ memory = {} /\ DOMAIN segs = {}
  BY <1>4 DEF BuildInv, WinsInv, TabsInv, TablesInv, SegsInv
<1>8. SegsInv'
  BY <1>1, <1>4, <1>7 DEF BuildInv, SegsInv
<1>9. TabsInv'
  BY <1>1, <1>7 DEF BuildInv, TabsInv
<1>10. WinsInv'
  <2>1. Known' = {}
    BY <1>1, <1>7 DEF Known
  <2> QED BY <1>1, <1>7, <2>1 DEF BuildInv, WinsInv, Ended, GivenUp
<1>11. TablesInv'
  BY <1>1, <1>7 DEF TablesInv
<1> QED BY <1>5, <1>6, <1>8, <1>9, <1>10, <1>11 DEF BuildInv

LEMMA PopulateOK == ASSUME BuildInv, PopulateSuperPages \/ PopulateRest PROVE BuildInv'
<1>0. /\ image \in Images /\ filled \in 0..image.total /\ image.total \in Nat
      /\ pc = "populate" /\ pc \notin Ended
  BY TotalIsNat DEF BuildInv, CountersInv, PopulateSuperPages, PopulateRest, Ended, GivenUp
<1>1. CASE Fails(NoLeak)
  BY <1>0, <1>1, FailOK
<1>2. CASE PopulateSuperPages /\ ~Fails(NoLeak)
  <2> DEFINE d == 2^SuperShift
             rest == (Supers - filled) \div d
             many == IF rest < SuperBatch THEN rest ELSE SuperBatch
  <2>1. filled < Supers /\ Populate(many * d, [k \in Pfns |-> SuperFrame(k)])
    BY <1>2 DEF PopulateSuperPages
  <2>2. d \in Nat \ {0} /\ SuperBatch \in Nat /\ Supers \in Nat /\ Supers <= image.total
    BY <1>0, BoundsAssumption, SupersAre
  <2>3. Supers - filled \in Nat
    BY <1>0, <2>1, <2>2
  <2>4. rest \in Nat /\ d * rest <= Supers - filled
    <3>1. rest \in Nat /\ (Supers - filled) % d \in 0..(d - 1)
          /\ Supers - filled = d * rest + ((Supers - filled) % d)
      BY <2>2, <2>3, Parts, Zenon
    <3> HIDE DEF rest
    <3>2. d * rest \in Nat
      BY <2>2, <3>1
    <3> QED BY <2>3, <3>1, <3>2
  <2> HIDE DEF rest, d
  <2>5. many \in Nat /\ many <= rest
    BY <2>2, <2>4
  <2> HIDE DEF many
  <2>6. d * many <= d * rest /\ many * d = d * many /\ d * many \in Nat /\ d * rest \in Nat
    BY <2>2, <2>4, <2>5, MulGrows
  <2>7. many * d \in Nat /\ filled + many * d <= Supers
    BY <1>0, <2>2, <2>3, <2>4, <2>6
  <2>8. \A k \in filled..(filled + many * d - 1) :
          [j \in Pfns |-> SuperFrame(j)][k] = FrameOf(k)
    BY <1>0, <2>2, <2>7 DEF Pfns, FrameOf
  <2> QED BY <1>0, <2>1, <2>2, <2>7, <2>8, PopulatedOK DEF d
<1>3. CASE PopulateRest /\ ~Fails(NoLeak)
  <2> DEFINE n == image.total - filled
             frame == [k \in Pfns |-> 2 * image.total + k]
  <2>1. n \in Nat /\ filled + n <= image.total /\ Populate(n, frame)
    BY <1>0, <1>3 DEF PopulateRest
  <2>2. \A k \in filled..(filled + n - 1) : frame[k] = FrameOf(k)
    <3>1. Supers \in Nat /\ filled >= Supers
      BY <1>0, <1>3, SupersAre DEF PopulateRest
    <3> QED BY <1>0, <3>1 DEF Pfns, FrameOf
  <2> HIDE DEF n, frame
  <2> QED BY <1>0, <2>1, <2>2, PopulatedOK
<1> QED BY <1>1, <1>2, <1>3

LEMMA MemoryDoneOK == ASSUME BuildInv, MemoryDone PROVE BuildInv'
<1>0. pc = "populate" /\ pc \notin Ended /\ pc \in Early /\ pc \notin Tabled /\ filled = image.total
  BY DEF MemoryDone, Ended, GivenUp, Early, Tabled
<1>1. CASE Fails(NoLeak)
  BY <1>0, <1>1, FailOK
<1>2. CASE ~Fails(NoLeak)
  <2>1. UNCHANGED <<image, pend, segs, p2m, filled, maps, tries, pgend, pages, space, memory>>
        /\ vend' = image.base /\ pc' = "kernel"
    BY <1>2 DEF MemoryDone, tabVars, winVars
  <2>2. Known = {} /\ maps = <<>> /\ memory = {} /\ DOMAIN segs = {} /\ pend = 0
    BY <1>0 DEF BuildInv, WinsInv, TabsInv, TablesInv, SegsInv, CountersInv
  <2>3. pc' \notin Early /\ pc' \notin Started /\ pc' \notin Tabled /\ pc' \notin Ended
        /\ pc' \in Steps
    BY <2>1 DEF Early, Started, Tabled, Ended, GivenUp, Steps
  <2>4. CountersInv'
    <3>1. image.base \in Nat /\ image.total \in Nat /\ 0 * PageSize = 0
      BY ImagesAssumption, WidthsAssumption DEF BuildInv, CountersInv, ImageType
    <3> QED BY <1>0, <2>1, <2>2, <2>3, <3>1 DEF BuildInv, CountersInv, Early
  <2>5. FramesInv'
    BY <2>1 DEF BuildInv, FramesInv, FrameOf, Supers, SuperFrame, Extent
  <2>6. SegsInv'
    BY <2>1, <2>2, <2>3 DEF BuildInv, SegsInv
  <2>7. TabsInv'
    BY <2>1, <2>2, <2>3 DEF BuildInv, TabsInv
  <2>8. WinsInv'
    <3>1. Known' = {}
      BY <2>1, <2>2 DEF Known
    <3> QED BY <1>0, <2>1, <2>2, <2>3, <3>1 DEF BuildInv, WinsInv, Ended, GivenUp
  <2>9. TablesInv'
    BY <2>1, <2>2 DEF TablesInv
  <2> QED BY <2>4, <2>5, <2>6, <2>7, <2>8, <2>9 DEF BuildInv
<1> QED BY <1>1, <1>2

------------------------------------------------------------------------------
(* Allocations.                                                             *)

\* A segment with a window is made of n pages behind pad pages of padding.
Made(name, vstart, pad, n, next_) ==
  /\ pc' = next_
  /\ pend' = pend + pad + n /\ vend' = vend + (pad + n) * PageSize
  /\ segs' = With(segs, name, [vstart |-> vstart, pfn |-> pend + pad, pages |-> n])
  /\ pages' = With(pages, NewPtr, [pfn |-> pend + pad, count |-> n])
  /\ space' = With(space, NewPtr, FramesOf(pend + pad, n))
  /\ UNCHANGED <<image, p2m, filled, memory>>

\* The places where segments are made: memory is there, the tables are not.
Making(name, next_) ==
  /\ pc \notin Ended \cup Early \cup Tabled
  /\ next_ \in Steps /\ next_ \notin Ended \cup Early \cup Tabled
  /\ next_ \in Started => pc \in Started \/ name = "startInfo"

LEMMA Paddings ==
    ASSUME CountersInv, NEW start_ \in Nat, ~BadBoundary(start_)
    PROVE  Padding(start_) \in Nat
<1>1. vend \in Nat /\ PageSize \in Nat \ {0}
  BY WidthsAssumption DEF CountersInv
<1>2. CASE start_ > 0
  <2>1. start_ - vend \in Nat
    BY <1>1, <1>2 DEF BadBoundary
  <2> QED BY <1>1, <1>2, <2>1, Parts DEF Padding
<1>3. CASE ~(start_ > 0)
  BY <1>3 DEF Padding
<1> QED BY <1>2, <1>3

LEMMA FramesCount ==
    ASSUME NEW pfn, NEW n \in Nat
    PROVE  Len(FramesOf(pfn, n)) = n
  BY DEF FramesOf

\* A segment is made, or the build fails with at most one window left.
LEMMA SegmentAtCases ==
    ASSUME BuildInv, NEW name, NEW vstart, NEW start_ \in Nat, NEW n \in Nat, NEW next_,
           SegmentAt(name, vstart, start_, n, next_)
    PROVE  \/ Fails(NoLeak)
           \/ \E frames : Fails(Leak(frames))
           \/ /\ Padding(start_) \in Nat /\ n # 0
              /\ pend + Padding(start_) + n <= image.total
              /\ Mappable(FramesOf(pend + Padding(start_), n))
              /\ Made(name, vstart, Padding(start_), n, next_)
<1> DEFINE pad == Padding(start_)
<1>1. SUFFICES ASSUME ~Fails(NoLeak), ~\E frames : Fails(Leak(frames))
      PROVE  /\ pad \in Nat /\ n # 0 /\ pend + pad + n <= image.total
             /\ Mappable(FramesOf(pend + pad, n))
             /\ Made(name, vstart, pad, n, next_)
  OBVIOUS
<1>2. ~BadBoundary(start_) /\ ~NoMorePages(pad + n) /\ n # 0
  BY <1>1 DEF SegmentAt
<1>3. pad \in Nat
  BY <1>2, Paddings DEF BuildInv
<1>4. MapPages(pend + pad, FramesOf(pend + pad, n),
        /\ Advance(pad, n) /\ Record(name, vstart, pad, n)
        /\ pc' = next_
        /\ UNCHANGED <<image, p2m, filled, memory, cr3>>)
  BY <1>2 DEF SegmentAt
<1>5. /\ Mappable(FramesOf(pend + pad, n))
      /\ Advance(pad, n) /\ Record(name, vstart, pad, n)
      /\ pc' = next_ /\ UNCHANGED <<image, p2m, filled, memory>>
      /\ pages' = With(pages, NewPtr, [pfn |-> pend + pad, count |-> Len(FramesOf(pend + pad, n))])
      /\ space' = With(space, NewPtr, FramesOf(pend + pad, n))
  BY <1>1, <1>4 DEF MapPages
<1>6. Made(name, vstart, pad, n, next_)
  BY <1>5, FramesCount DEF Made, Advance, Record
<1>7. pend \in Nat /\ image.total \in Nat
  BY TotalIsNat DEF BuildInv, CountersInv
<1>8. pend + pad + n <= image.total
  BY <1>2, <1>3, <1>7 DEF NoMorePages
<1> QED BY <1>2, <1>3, <1>5, <1>6, <1>8

\* Before there is memory no page can be mapped: an early initrd always fails.
LEMMA NothingToMap ==
    ASSUME BuildInv, pc = "initrdEarly", NEW pfn \in Nat, NEW n \in Nat \ {0},
           pfn + n <= image.total
    PROVE  ~Mappable(FramesOf(pfn, n))
<1>1. filled = 0 /\ image.total \in Nat
  BY TotalIsNat DEF BuildInv, CountersInv
<1>2. filled # image.total /\ pfn < 3 * image.total
  BY <1>1
<1>3. 1 \in DOMAIN FramesOf(pfn, n) /\ FramesOf(pfn, n)[1] = pfn
  BY <1>2 DEF FramesOf
<1> QED BY <1>1, <1>2, <1>3 DEF Mappable, SharedInfo

LEMMA MadeCounters ==
    ASSUME BuildInv, NEW name, NEW vstart, NEW pad \in Nat, NEW n \in Nat \ {0}, NEW next_,
           Making(name, next_), pend + pad + n <= image.total, Made(name, vstart, pad, n, next_),
           tries' \in Nat, pgend' \in Nat
    PROVE  CountersInv' /\ FramesInv' /\ TablesInv'
<1>1. /\ pc' = next_ /\ pend' = pend + pad + n /\ vend' = vend + (pad + n) * PageSize
      /\ UNCHANGED <<image, p2m, filled, memory>>
  BY DEF Made
<1>2. /\ pend \in Nat /\ image.total \in Nat /\ image.base \in Nat /\ vend \in Nat
      /\ PageSize \in Nat /\ filled = image.total /\ vend = image.base + pend * PageSize
  BY TotalIsNat, WidthsAssumption DEF BuildInv, CountersInv, Making, Ended, GivenUp, ImageType
<1>3. FramesInv'
  BY <1>1 DEF BuildInv, FramesInv, FrameOf, Supers, SuperFrame, Extent
<1>4. TablesInv'
  <2>1. memory = {}
    BY DEF BuildInv, TablesInv, Making
  <2> QED BY <1>1, <2>1 DEF TablesInv
<1>5. vend' \in Nat /\ vend' = image.base + pend' * PageSize
  <2>1. pend' * PageSize = pend * PageSize + (pad + n) * PageSize
    BY <1>1, <1>2
  <2>2. (pad + n) * PageSize \in Nat /\ pend * PageSize \in Nat
    BY <1>2
  <2> QED BY <1>1, <1>2, <2>1, <2>2
<1>6. CountersInv'
  BY <1>1, <1>2, <1>5 DEF BuildInv, CountersInv, Making, Early, Ended, GivenUp
<1> QED BY <1>3, <1>4, <1>6

LEMMA MadeSegs ==
    ASSUME BuildInv, NEW name, NEW vstart, NEW pad \in Nat, NEW n \in Nat \ {0}, NEW next_,
           Making(name, next_), pend + pad + n <= image.total,
           pc' = next_, pend' \in Nat, pend' >= pend + pad + n, image' = image,
           segs' = With(segs, name, [vstart |-> vstart, pfn |-> pend + pad, pages |-> n]),
           name = "p2m" => n >= p2mPages,
           name # "p2m" \/ p2mFirst => vstart = vend + pad * PageSize
    PROVE  SegsInv'
<1>1. /\ pend \in Nat /\ image.total \in Nat /\ image.base \in Nat
      /\ PageSize \in Nat /\ vend = image.base + pend * PageSize /\ p2mPages \in Nat
  <2>1. p2mPages \in Nat
    <3>1. image.total + Entries - 1 \in Nat /\ Entries \in Nat \ {0}
      BY TotalIsNat, WidthsAssumption DEF BuildInv, CountersInv
    <3> QED BY <3>1, Parts DEF p2mPages
  <2> QED BY <2>1, TotalIsNat, WidthsAssumption
          DEF BuildInv, CountersInv, Making, Ended, GivenUp, ImageType
<1>2. /\ DOMAIN segs' = DOMAIN segs \cup {name}
      /\ segs'[name] = [vstart |-> vstart, pfn |-> pend + pad, pages |-> n]
      /\ \A s \in DOMAIN segs \ {name} : segs'[s] = segs[s]
  BY DEF With
<1>3. p2mFirst' = p2mFirst /\ p2mPages' = p2mPages
  BY DEF p2mFirst, p2mPages
<1>4. ASSUME NEW s \in DOMAIN segs'
      PROVE  /\ segs'[s].pfn \in Nat /\ segs'[s].pages \in Nat \ {0}
             /\ segs'[s].pfn + segs'[s].pages <= pend'
             /\ UsedPages(s)' \in Nat /\ UsedPages(s)' <= segs'[s].pages
             /\ s # "p2m" \/ p2mFirst' => segs'[s].vstart = image'.base + segs'[s].pfn * PageSize
  <2>1. CASE s = name
    <3>1. (pend + pad) * PageSize = pend * PageSize + pad * PageSize
          /\ pend * PageSize \in Nat /\ pad * PageSize \in Nat
      BY <1>1
    <3>2. UsedPages(s)' = IF s = "p2m" THEN p2mPages ELSE n
      BY <1>2, <1>3, <2>1 DEF UsedPages
    <3> QED BY <1>1, <1>2, <1>3, <2>1, <3>1, <3>2
  <2>2. CASE s # name
    <3>1. UsedPages(s)' = UsedPages(s)
      BY <1>2, <1>3, <2>2 DEF UsedPages
    <3>2. s \in DOMAIN segs /\ segs'[s] = segs[s]
      BY <1>2, <2>2
    <3>3. /\ segs[s].pfn \in Nat /\ segs[s].pages \in Nat \ {0}
          /\ segs[s].pfn + segs[s].pages <= pend
          /\ UsedPages(s) \in Nat /\ UsedPages(s) <= segs[s].pages
          /\ s # "p2m" \/ p2mFirst => segs[s].vstart = image.base + segs[s].pfn * PageSize
      BY <3>2 DEF BuildInv, SegsInv
    <3> QED BY <1>1, <1>3, <3>1, <3>2, <3>3
  <2> QED BY <2>1, <2>2
<1>5. ASSUME NEW s \in DOMAIN segs', NEW t \in DOMAIN segs', s # t
      PROVE  \/ segs'[s].pfn + segs'[s].pages <= segs'[t].pfn
             \/ segs'[t].pfn + segs'[t].pages <= segs'[s].pfn
  <2>1. \A r \in DOMAIN segs : segs[r].pfn \in Nat /\ segs[r].pages \in Nat
                               /\ segs[r].pfn + segs[r].pages <= pend
    BY DEF BuildInv, SegsInv
  <2>2. CASE s = name
    BY <1>1, <1>2, <1>5, <2>1, <2>2
  <2>3. CASE t = name
    BY <1>1, <1>2, <1>5, <2>1, <2>3
  <2>4. CASE s # name /\ t # name
    BY <1>2, <1>5, <2>4 DEF BuildInv, SegsInv
  <2> QED BY <2>2, <2>3, <2>4
<1>6. pc' \notin Early /\ (pc' \in Started => "startInfo" \in DOMAIN segs')
  BY <1>2 DEF BuildInv, SegsInv, Making
<1> QED BY <1>4, <1>5, <1>6 DEF SegsInv

LEMMA MadeWins ==
    ASSUME BuildInv, NEW name, NEW vstart, NEW pad \in Nat, NEW n \in Nat \ {0}, NEW next_,
           Making(name, next_), pend + pad + n <= image.total, Made(name, vstart, pad, n, next_)
    PROVE  WinsInv'
<1>1. /\ pc' = next_ /\ pend' = pend + pad + n
      /\ UNCHANGED <<image, p2m, filled>>
      /\ pages' = With(pages, NewPtr, [pfn |-> pend + pad, count |-> n])
      /\ space' = With(space, NewPtr, FramesOf(pend + pad, n))
      /\ pend \in Nat
  BY DEF Made, BuildInv, CountersInv
<1>2. PICK b \in Nat : DOMAIN space \subseteq 1..b
  BY DEF BuildInv, WinsInv
<1>3. NewPtr \in Nat \ {0} /\ NewPtr \notin DOMAIN space /\ NewPtr <= b + 1
  BY <1>2, NewPtrIsNew
<1>4. DOMAIN space' = DOMAIN space \cup {NewPtr} /\ Known' = Known \cup {NewPtr}
      /\ DOMAIN space = Known
  BY <1>1 DEF With, Known, BuildInv, WinsInv, Making
<1>5. DOMAIN space' \subseteq 1..(b + 1) /\ b + 1 \in Nat
  BY <1>2, <1>3, <1>4
<1>6. ASSUME NEW a \in Known'
      PROVE  /\ pages'[a].pfn \in Nat /\ pages'[a].count \in Nat \ {0}
             /\ pages'[a].pfn + pages'[a].count <= pend'
             /\ (space[a] = FramesOf(pages[a].pfn, pages[a].count))'
  <2>1. FramesOf(pages[a].pfn, pages[a].count)' = FramesOf(pages'[a].pfn, pages'[a].count)
    BY <1>1 DEF FramesOf
  <2>2. CASE a = NewPtr
    <3>1. pages'[a] = [pfn |-> pend + pad, count |-> n] /\ space'[a] = FramesOf(pend + pad, n)
      BY <1>1, <2>2 DEF With
    <3> QED BY <1>1, <2>1, <3>1
  <2>3. CASE a # NewPtr
    <3>1. a \in Known /\ pages'[a] = pages[a] /\ space'[a] = space[a]
      BY <1>1, <1>4, <2>3 DEF With, Known
    <3>2. /\ pages[a].pfn \in Nat /\ pages[a].count \in Nat \ {0}
          /\ pages[a].pfn + pages[a].count <= pend
          /\ space[a] = FramesOf(pages[a].pfn, pages[a].count)
      BY <3>1 DEF BuildInv, WinsInv, Making
    <3> QED BY <1>1, <2>1, <3>1, <3>2
  <2> QED BY <2>2, <2>3
<1>7. pc' \notin Early /\ pc' # "booted" /\ pc' \notin GivenUp
  BY <1>1 DEF Making, Ended, GivenUp
<1> QED BY <1>4, <1>5, <1>6, <1>7 DEF WinsInv, GivenUp

LEMMA StaysApart ==
    ASSUME BuildInv, NEW name, NEW vstart, NEW pad \in Nat, NEW n \in Nat \ {0},
           pend' \in Nat, pend' >= pend + pad + n, image' = image,
           segs' = With(segs, name, [vstart |-> vstart, pfn |-> pend + pad, pages |-> n]),
           name = "p2m" => n >= p2mPages,
           \/ UNCHANGED pages
           \/ pages' = With(pages, NewPtr, [pfn |-> pend + pad, count |-> n]),
           NEW m, Mapping(m), Apart(m)
    PROVE  Apart(m)'
<1>1. m.levels[3].pfn \in Nat /\ m.pgtables \in Nat /\ pend \in Nat
  <2>1. 3 \in Levels
    BY DEF Levels
  <2> QED BY <2>1 DEF Mapping, MappingType, BuildInv, CountersInv
<1>2. m.levels[3].pfn + m.pgtables <= pend
  BY DEF Apart
<1>3. ASSUME NEW s \in DOMAIN segs' \ {"tables"} PROVE TablePages(m) \cap Used(s)' = {}
  <2>1. CASE s = name
    <3>1. segs'[s].pfn = pend + pad
      BY <2>1 DEF With
    <3> QED BY <1>1, <1>2, <3>1 DEF TablePages, Used
  <2>2. CASE s # name
    <3>1. s \in DOMAIN segs \ {"tables"} /\ segs'[s] = segs[s]
      BY <2>2 DEF With
    <3>2. Used(s)' = Used(s)
      BY <3>1 DEF Used, UsedPages, p2mPages
    <3> QED BY <3>1, <3>2 DEF Apart
  <2> QED BY <2>1, <2>2
<1>4. ASSUME NEW a \in Known'
      PROVE  TablePages(m) \subseteq Shown(a)' \/ TablePages(m) \cap Shown(a)' = {}
  <2>1. CASE a \in Known /\ pages'[a] = pages[a]
    BY <2>1 DEF Apart, Shown
  <2>2. CASE pages'[a] = [pfn |-> pend + pad, count |-> n]
    BY <1>1, <1>2, <2>2 DEF Shown, TablePages
  <2> QED BY <2>1, <2>2 DEF With, Known
<1> QED BY <1>1, <1>2, <1>3, <1>4 DEF Apart, TablePages

LEMMA MadeOK ==
    ASSUME BuildInv, NEW name, NEW vstart, NEW pad \in Nat, NEW n \in Nat \ {0}, NEW next_,
           Making(name, next_), pend + pad + n <= image.total, Made(name, vstart, pad, n, next_),
           name = "p2m" => n >= p2mPages,
           name # "p2m" \/ p2mFirst => vstart = vend + pad * PageSize,
           tries' \in Nat, pgend' \in Nat, TabsInv'
    PROVE  BuildInv'
<1>1. CountersInv' /\ FramesInv' /\ TablesInv'
  BY MadeCounters
<1>2. WinsInv'
  BY MadeWins
<1>3. SegsInv'
  <2>1. pc' = next_ /\ pend' = pend + pad + n /\ pend' \in Nat /\ image' = image
    BY <1>1 DEF Made, CountersInv
  <2>2. segs' = With(segs, name, [vstart |-> vstart, pfn |-> pend + pad, pages |-> n])
    BY DEF Made
  <2>3. pend' >= pend + pad + n
    BY <2>1 DEF BuildInv, CountersInv
  <2> QED BY <2>1, <2>2, <2>3, MadeSegs
<1> QED BY <1>1, <1>2, <1>3 DEF BuildInv

\* A segment is made while the tables counted before have their place.
LEMMA MadeTabs ==
    ASSUME BuildInv, NEW name, NEW vstart, NEW pad \in Nat, NEW n \in Nat \ {0}, NEW next_,
           Making(name, next_), pc # "tablesAlloc", next_ # "tablesAlloc",
           pend + pad + n <= image.total, Made(name, vstart, pad, n, next_),
           name = "p2m" => n >= p2mPages, UNCHANGED maps
    PROVE  TabsInv'
<1>1. /\ pc' = next_ /\ image' = image
      /\ pend' \in Nat /\ pend' >= pend + pad + n
      /\ segs' = With(segs, name, [vstart |-> vstart, pfn |-> pend + pad, pages |-> n])
      /\ pages' = With(pages, NewPtr, [pfn |-> pend + pad, count |-> n])
  BY DEF Made, BuildInv, CountersInv
<1>2. ASSUME NEW i \in DOMAIN maps PROVE Mapping(maps[i]) /\ Apart(maps[i])'
  <2>1. Mapping(maps[i]) /\ Apart(maps[i])
    BY DEF BuildInv, TabsInv, Making
  <2>2. PICK m : m = maps[i]
    OBVIOUS
  <2>3. Apart(m)'
    BY <1>1, <2>1, <2>2, StaysApart
  <2> QED BY <2>1, <2>2, <2>3 DEF Apart, TablePages
<1> QED BY <1>1, <1>2 DEF BuildInv, TabsInv, Making

LEMMA SegmentOK ==
    ASSUME BuildInv, NEW name, name # "p2m", NEW start_ \in Nat, NEW n \in Nat, NEW next_,
           Making(name, next_), pc # "tablesAlloc", next_ # "tablesAlloc",
           alloc_segment(name, start_, n, next_), UNCHANGED tabVars
    PROVE  BuildInv'
<1> DEFINE pad == Padding(start_)
           vstart == vend + pad * PageSize
<1>1. SegmentAt(name, vstart, start_, n, next_) /\ pc \notin Ended
  BY DEF alloc_segment, Making
<1> HIDE DEF vstart
<1>2. CASE Fails(NoLeak) \/ \E frames : Fails(Leak(frames))
  BY <1>1, <1>2, FailOK
<1>3. CASE ~(Fails(NoLeak) \/ \E frames : Fails(Leak(frames)))
  <2>1. pad \in Nat /\ n # 0 /\ pend + pad + n <= image.total /\ Made(name, vstart, pad, n, next_)
    BY <1>1, <1>3, SegmentAtCases
  <2>2. TabsInv'
    BY <2>1, MadeTabs DEF tabVars
  <2>3. tries' \in Nat /\ pgend' \in Nat
    BY DEF tabVars, BuildInv, CountersInv
  <2>4. vstart = vend + pad * PageSize
    BY DEF vstart
  <2> HIDE DEF pad
  <2> QED BY <2>1, <2>2, <2>3, <2>4, MadeOK
<1> QED BY <1>2, <1>3

LEMMA EarlyOK == ASSUME BuildInv, LoadInitrdEarly PROVE BuildInv'
<1>1. pc = "initrdEarly" /\ pc \notin Ended
  BY DEF LoadInitrdEarly, Ended, GivenUp
<1>2. CASE Skip("claim")
  BY <1>1, <1>2, SkipOK
<1>3. CASE alloc_segment("initrd", 0, image.initrd, "claim")
  <2>1. image.initrd \in Nat /\ Padding(0) = 0
    BY ImagesAssumption DEF BuildInv, CountersInv, ImageType, Padding
  <2>2. CASE Fails(NoLeak) \/ \E frames : Fails(Leak(frames))
    BY <1>1, <2>2, FailOK
  <2>3. CASE ~(Fails(NoLeak) \/ \E frames : Fails(Leak(frames)))
    <3>1. /\ image.initrd # 0 /\ pend + 0 + image.initrd <= image.total
          /\ Mappable(FramesOf(pend + 0, image.initrd))
      BY <1>3, <2>1, <2>3, SegmentAtCases DEF alloc_segment
    <3>2. pend \in Nat /\ pend + 0 = pend
      BY DEF BuildInv, CountersInv
    <3> QED BY <1>1, <2>1, <3>1, <3>2, NothingToMap
  <2> QED BY <2>2, <2>3
<1> QED BY <1>2, <1>3 DEF LoadInitrdEarly

LEMMA LoadsOK == ASSUME BuildInv, LoadKernel \/ LoadInitrd PROVE BuildInv'
<1>1. image \in ImageType /\ image.kstart < image.kend
  BY ImagesAssumption DEF BuildInv, CountersInv
<1>2. CASE Fails(NoLeak)
  <2>1. pc \notin Ended
    BY DEF LoadKernel, LoadInitrd, Ended, GivenUp
  <2> QED BY <1>2, <2>1, FailOK
<1>3. CASE LoadKernel /\ ~Fails(NoLeak)
  <2> DEFINE n == PagesFor(image.kend - image.kstart)
  <2>1. n \in Nat /\ image.kstart \in Nat
    <3>1. image.kend - image.kstart + PageSize - 1 \in Nat /\ PageSize \in Nat \ {0}
      BY <1>1, WidthsAssumption DEF ImageType
    <3>2. (image.kend - image.kstart + PageSize - 1) \div PageSize \in Nat
      BY <3>1, Parts
    <3> QED BY <1>1, <3>2 DEF PagesFor, ImageType
  <2>2. alloc_segment("kernel", image.kstart, n, "initrd") /\ UNCHANGED tabVars /\ pc = "kernel"
    BY <1>3 DEF LoadKernel
  <2>3. Making("kernel", "initrd") /\ pc # "tablesAlloc"
    BY <2>2 DEF Making, Ended, GivenUp, Early, Tabled, Started, Steps
  <2> HIDE DEF n
  <2> QED BY <2>1, <2>2, <2>3, SegmentOK
<1>4. CASE LoadInitrd
  <2>1. pc = "initrd" /\ Making("initrd", "magic") /\ pc # "tablesAlloc"
    BY <1>4 DEF LoadInitrd, Making, Ended, GivenUp, Early, Tabled, Started, Steps
  <2>2. CASE Skip("magic")
    BY <2>1, <2>2, SkipOK
  <2>3. CASE alloc_segment("initrd", 0, image.initrd, "magic") /\ UNCHANGED tabVars
    <3>1. image.initrd \in Nat
      BY <1>1 DEF ImageType
    <3> QED BY <2>1, <2>3, <3>1, SegmentOK
  <2> QED BY <1>4, <2>2, <2>3 DEF LoadInitrd
<1> QED BY <1>2, <1>3, <1>4

\* Tables that a new segment was made for have their place in it.
LEMMA NewApart ==
    ASSUME BuildInv, pc \notin Ended \cup Tabled, NEW name, NEW vstart, NEW n \in Nat,
           NEW m, Mapping(m),
           pend <= m.levels[3].pfn, m.levels[3].pfn + m.pgtables <= pend + n,
           name = "tables" \/ (name = "p2m" /\ m.levels[3].pfn = pend + p2mPages),
           p2mPages \in Nat, image' = image, pend' = pend + n,
           segs' = With(segs, name, [vstart |-> vstart, pfn |-> pend, pages |-> n]),
           pages' = With(pages, NewPtr, [pfn |-> pend, count |-> n])
    PROVE  Apart(m)'
<1>1. m.levels[3].pfn \in Nat /\ m.pgtables \in Nat /\ pend \in Nat
  <2>1. 3 \in Levels
    BY DEF Levels
  <2> QED BY <2>1 DEF Mapping, MappingType, BuildInv, CountersInv
<1>2. ASSUME NEW s \in DOMAIN segs' \ {"tables"} PROVE TablePages(m) \cap Used(s)' = {}
  <2>1. CASE s = name
    <3>1. segs'[s].pfn = pend /\ UsedPages(s)' = p2mPages
      BY <2>1, <1>2 DEF With, UsedPages, p2mPages
    <3> QED BY <1>1, <2>1, <1>2, <3>1 DEF TablePages, Used
  <2>2. CASE s # name
    <3>1. s \in DOMAIN segs /\ segs'[s] = segs[s]
      BY <2>2 DEF With
    <3>2. Used(s)' = Used(s)
      BY <3>1 DEF Used, UsedPages, p2mPages
    <3>3. /\ segs[s].pfn \in Nat /\ segs[s].pages \in Nat
          /\ segs[s].pfn + segs[s].pages <= pend
          /\ UsedPages(s) \in Nat /\ UsedPages(s) <= segs[s].pages
      BY <3>1 DEF BuildInv, SegsInv
    <3>4. TablePages(m) \cap Used(s) = {}
      BY <1>1, <3>3 DEF TablePages, Used
    <3> QED BY <3>2, <3>4
  <2> QED BY <2>1, <2>2
<1>3. ASSUME NEW a \in Known'
      PROVE  TablePages(m) \subseteq Shown(a)' \/ TablePages(m) \cap Shown(a)' = {}
  <2>1. CASE pages'[a] = [pfn |-> pend, count |-> n]
    BY <1>1, <2>1 DEF TablePages, Shown
  <2>2. CASE a \in Known /\ pages'[a] = pages[a]
    <3>1. /\ pages[a].pfn \in Nat /\ pages[a].count \in Nat
          /\ pages[a].pfn + pages[a].count <= pend
      BY <2>2 DEF BuildInv, WinsInv
    <3> QED BY <1>1, <2>2, <3>1 DEF TablePages, Shown
  <2> QED BY <2>1, <2>2 DEF With, Known
<1>4. (m.levels[3].pfn + m.pgtables <= pend)'
  BY <1>1
<1> QED BY <1>2, <1>3, <1>4 DEF Apart, TablePages

LEMMA FirstMapping == ASSUME TabsInv PROVE maps = <<>> \/ Mapping(maps[1])
<1>1. CASE maps # <<>>
  <2>1. maps \in Seq(MappingType)
    BY DEF TabsInv
  <2>2. 1 \in DOMAIN maps
    BY <1>1, <2>1
  <2> QED BY <2>2 DEF TabsInv
<1> QED BY <1>1

LEMMA Appended ==
    ASSUME NEW S, NEW s \in Seq(S), NEW x \in S
    PROVE  /\ Append(s, x) \in Seq(S) /\ Len(Append(s, x)) = Len(s) + 1
           /\ Append(s, x)[Len(s) + 1] = x
           /\ \A i \in DOMAIN Append(s, x) : \/ i \in DOMAIN s /\ Append(s, x)[i] = s[i]
                                             \/ i = Len(s) + 1
<1>1. Append(s, x) \in Seq(S) /\ Len(Append(s, x)) = Len(s) + 1 /\ Len(s) \in Nat
  OBVIOUS
<1>2. DOMAIN Append(s, x) = 1..(Len(s) + 1) /\ DOMAIN s = 1..Len(s)
  BY <1>1
<1>3. \A i \in 1..Len(s) : Append(s, x)[i] = s[i]
  OBVIOUS
<1>4. \A i \in 1..(Len(s) + 1) : i \in 1..Len(s) \/ i = Len(s) + 1
  BY <1>1
<1>5. Append(s, x)[Len(s) + 1] = x
  OBVIOUS
<1> QED BY <1>1, <1>2, <1>3, <1>4, <1>5

LEMMA P2mOK ==
    ASSUME BuildInv, NEW vstart, NEW next_, Making("p2m", next_),
           pc # "tablesAlloc", next_ # "tablesAlloc",
           p2mFirst => vstart = vend, alloc_p2m_segment(vstart, next_)
    PROVE  BuildInv'
<1> DEFINE from_ == image.p2mBase
           to_ == from_ + p2mPages * PageSize - 1
           counted == count_page_tables(maps, pend, from_, to_)
           m == P2mMap(counted)
           n == p2mPages + m.pgtables
<1>1. pc \notin Ended /\ next_ \notin GivenUp
  BY DEF Making, Ended, GivenUp
<1>2. CASE Fails(NoLeak) \/ \E frames : Fails(Leak(frames))
  BY <1>1, <1>2, FailOK
<1>3. CASE ~(Fails(NoLeak) \/ \E frames : Fails(Leak(frames)))
  <2>1. ~CannotMap(maps, image.total, from_, to_, pend)
    BY <1>3 DEF alloc_p2m_segment
  <2>2. /\ SegmentAt("p2m", vstart, 0, n, next_)
        /\ IF pc' \in GivenUp THEN TRUE
           ELSE maps' = Append(maps, m) /\ UNCHANGED <<tries, pgend>>
    BY <2>1 DEF alloc_p2m_segment
  <2>3. from_ \in Nat /\ PageSize \in Nat /\ pend \in Nat /\ p2mPages \in Nat
    <3>1. image.total + Entries - 1 \in Nat /\ Entries \in Nat \ {0}
      BY TotalIsNat, WidthsAssumption DEF BuildInv, CountersInv
    <3>2. p2mPages \in Nat
      BY <3>1, Parts DEF p2mPages
    <3> QED BY <3>2, ImagesAssumption, WidthsAssumption DEF BuildInv, CountersInv, ImageType
  <2>4. to_ \in Int
    BY <2>3
  <2>5. Mapping(counted) /\ counted.levels[3].pfn = pend
    <3>1. maps = <<>> \/ Mapping(maps[1])
      BY FirstMapping DEF BuildInv
    <3>2. from_ \in Int /\ to_ \in Int /\ pend \in Nat
      BY <2>3, <2>4
    <3> HIDE DEF from_, to_
    <3> QED BY <3>1, <3>2, CountedIsMapping
  <2>6. Mapping(m) /\ m.levels[3].pfn = pend + p2mPages
    BY <2>3, <2>5, P2mIsMapping
  <2>7. m \in MappingType /\ m.pgtables \in Nat
    BY <2>6 DEF Mapping, MappingType
  <2>8. n \in Nat /\ n >= p2mPages
    BY <2>3, <2>7
  <2>9. Len(maps) # 2
    BY <2>1 DEF CannotMap, MaxMappings
  <2> HIDE DEF m, counted, from_, to_
  <2>10. Padding(0) = 0
    BY DEF Padding
  <2>11. /\ 0 \in Nat /\ n # 0 /\ pend + 0 + n <= image.total
         /\ Made("p2m", vstart, 0, n, next_)
    BY <1>3, <2>2, <2>8, <2>10, SegmentAtCases
  <2>12. maps' = Append(maps, m) /\ UNCHANGED <<tries, pgend>>
    BY <1>1, <2>2, <2>11 DEF Made
  <2>13. maps \in Seq(MappingType) /\ Len(maps) <= 2
    BY DEF BuildInv, TabsInv
  <2>14. maps' \in Seq(MappingType) /\ Len(maps') = Len(maps) + 1 /\ Len(maps') <= 2
         /\ \A i \in DOMAIN maps' : (i \in DOMAIN maps /\ maps'[i] = maps[i]) \/ maps'[i] = m
    <3>1. /\ Append(maps, m) \in Seq(MappingType) /\ Len(Append(maps, m)) = Len(maps) + 1
          /\ \A i \in DOMAIN Append(maps, m) :
               (i \in DOMAIN maps /\ Append(maps, m)[i] = maps[i]) \/ Append(maps, m)[i] = m
      BY <2>7, <2>13, Appended
    <3>2. Len(maps) \in Nat
      BY <2>13, LenProperties
    <3>3. \A k \in Nat : k <= 2 /\ k # 2 => k + 1 <= 2
      OBVIOUS
    <3>4. Len(maps) + 1 <= 2
      BY <2>9, <2>13, <3>2, <3>3, Zenon
    <3> QED BY <2>12, <3>1, <3>4
  <2>15. /\ pc' = next_ /\ image' = image /\ pend' = pend + n /\ pend' \in Nat
         /\ pend' >= pend + 0 + n
         /\ segs' = With(segs, "p2m", [vstart |-> vstart, pfn |-> pend + 0, pages |-> n])
         /\ pages' = With(pages, NewPtr, [pfn |-> pend + 0, count |-> n])
         /\ pend + 0 = pend
    BY <2>3, <2>8, <2>11 DEF Made
  <2> HIDE DEF n
  <2>16. n \in Nat \ {0}
    BY <2>8, <2>11
  <2>17. \A i \in DOMAIN maps : Mapping(maps[i]) /\ Apart(maps[i])
    BY DEF BuildInv, TabsInv, Making
  <2>18. ASSUME NEW o, Mapping(o), Apart(o) PROVE Apart(o)'
    BY <2>8, <2>15, <2>16, <2>18, StaysApart
  <2>19. ASSUME NEW o, o = m PROVE Apart(o)'
    <3>1. Mapping(o) /\ o.levels[3].pfn = pend + p2mPages /\ o.pgtables \in Nat
          /\ n = p2mPages + o.pgtables
      BY <2>6, <2>7, <2>19 DEF n
    <3>2. pend <= o.levels[3].pfn /\ o.levels[3].pfn + o.pgtables <= pend + n
      BY <2>3, <3>1
    <3> QED BY <2>3, <2>8, <2>15, <3>1, <3>2, NewApart DEF Making
  <2>20. ASSUME NEW i \in DOMAIN maps' PROVE Mapping(maps'[i]) /\ Apart(maps[i])'
    <3>1. PICK o : o = maps'[i]
      OBVIOUS
    <3>2. Mapping(o) /\ Apart(o)'
      BY <2>6, <2>14, <2>17, <2>18, <2>19, <3>1
    <3> QED BY <3>1, <3>2 DEF Apart, TablePages
  <2>21. TabsInv'
    BY <2>14, <2>15, <2>20 DEF TabsInv, Making
  <2>22. tries' \in Nat /\ pgend' \in Nat
    BY <2>12 DEF BuildInv, CountersInv
  <2>23. p2mFirst => vstart = vend + 0 * PageSize
    BY <2>3 DEF BuildInv, CountersInv
  <2> QED BY <2>8, <2>11, <2>16, <2>21, <2>22, <2>23, MadeOK
<1> QED BY <1>2, <1>3

LEMMA P2mStepsOK == ASSUME BuildInv, AllocP2mFirst \/ AllocP2mLate PROVE BuildInv'
<1>1. CASE AllocP2mFirst
  <2>1. pc = "magic" /\ Making("p2m", "startInfo") /\ pc # "tablesAlloc"
    BY <1>1 DEF AllocP2mFirst, Making, Ended, GivenUp, Early, Tabled, Started, Steps
  <2> QED BY <1>1, <2>1, P2mOK, SkipOK DEF AllocP2mFirst
<1>2. CASE AllocP2mLate
  <2>1. pc = "p2mLate" /\ Making("p2m", "evtchn") /\ pc # "tablesAlloc"
    BY <1>2 DEF AllocP2mLate, Making, Ended, GivenUp, Early, Tabled, Started, Steps
  <2>2. CASE p2mFirst
    BY <1>2, <2>1, <2>2, SkipOK DEF AllocP2mLate
  <2>3. CASE ~p2mFirst
    <3>1. alloc_p2m_segment(image.p2mBase, "evtchn")
      BY <1>2, <2>3 DEF AllocP2mLate
    <3> QED BY <2>1, <2>3, <3>1, P2mOK
  <2> QED BY <2>2, <2>3
<1> QED BY <1>1, <1>2

\* A page without a window, and k pages that nobody uses behind it.
LEMMA PageOK ==
    ASSUME BuildInv, NEW name, name # "p2m", NEW k \in Nat, NEW next_, Making(name, next_),
           pc # "tablesAlloc", next_ # "tablesAlloc", pc' = next_,
           pend + 1 + k <= image.total, pend' = pend + (1 + k),
           vend' = vend + (1 + k) * PageSize, Record(name, vend, 0, 1),
           UNCHANGED <<image, p2m, filled, tabVars, winVars, memory>>
    PROVE  BuildInv'
<1>1. /\ pend \in Nat /\ image.total \in Nat /\ image.base \in Nat /\ vend \in Nat
      /\ PageSize \in Nat /\ filled = image.total /\ vend = image.base + pend * PageSize
      /\ tries \in Nat /\ pgend \in Nat
  BY TotalIsNat, WidthsAssumption DEF BuildInv, CountersInv, Making, Ended, GivenUp, ImageType
<1>2. UNCHANGED <<image, p2m, filled, maps, tries, pgend, pages, space, memory>>
  BY DEF tabVars, winVars
<1>3. pend' \in Nat /\ pend' >= pend + 0 + 1 /\ pend + 0 + 1 <= image.total
      /\ pend' <= image.total /\ 0 \in Nat /\ 1 \in Nat \ {0}
  BY <1>1
<1>4. segs' = With(segs, name, [vstart |-> vend, pfn |-> pend + 0, pages |-> 1])
  BY DEF Record
<1>5. CountersInv'
  <2>1. pend' * PageSize = pend * PageSize + (1 + k) * PageSize
        /\ (1 + k) * PageSize \in Nat /\ pend * PageSize \in Nat
    BY <1>1
  <2>2. vend' \in Nat /\ vend' = image.base + pend' * PageSize
    BY <1>1, <2>1
  <2> QED BY <1>1, <1>2, <1>3, <2>2 DEF BuildInv, CountersInv, Making, Early, Ended, GivenUp
<1>6. FramesInv'
  BY <1>2 DEF BuildInv, FramesInv, FrameOf, Supers, SuperFrame, Extent
<1>7. TablesInv'
  <2>1. memory = {}
    BY DEF BuildInv, TablesInv, Making
  <2> QED BY <1>2, <2>1 DEF TablesInv
<1>8. SegsInv'
  <2>1. vend = vend + 0 * PageSize
    BY <1>1
  <2> QED BY <1>2, <1>3, <1>4, <2>1, MadeSegs
<1>9. WinsInv'
  <2>1. DOMAIN space' = DOMAIN space /\ Known' = Known
        /\ DOMAIN space = Known
    BY <1>2 DEF BuildInv, WinsInv, Known, Making
  <2>2. ASSUME NEW a \in Known'
        PROVE  /\ pages'[a].pfn \in Nat /\ pages'[a].count \in Nat \ {0}
               /\ pages'[a].pfn + pages'[a].count <= pend'
               /\ (space[a] = FramesOf(pages[a].pfn, pages[a].count))'
    <3>1. /\ pages[a].pfn \in Nat /\ pages[a].count \in Nat \ {0}
          /\ pages[a].pfn + pages[a].count <= pend
          /\ space[a] = FramesOf(pages[a].pfn, pages[a].count)
      BY <2>1 DEF BuildInv, WinsInv, Making
    <3>2. (space[a] = FramesOf(pages[a].pfn, pages[a].count))'
      BY <1>2, <3>1 DEF FramesOf
    <3> QED BY <1>1, <1>2, <1>3, <3>1, <3>2
  <2>3. pc' \notin Early /\ pc' # "booted" /\ pc' \notin GivenUp
    BY DEF Making, Ended, GivenUp
  <2>4. \E b \in Nat : DOMAIN space' \subseteq 1..b
    BY <1>2 DEF BuildInv, WinsInv
  <2> QED BY <2>1, <2>2, <2>3, <2>4 DEF WinsInv, GivenUp
<1>10. TabsInv'
  <2>1. ASSUME NEW i \in DOMAIN maps PROVE Mapping(maps[i]) /\ Apart(maps[i])'
    <3>1. Mapping(maps[i]) /\ Apart(maps[i])
      BY DEF BuildInv, TabsInv, Making
    <3>2. PICK m : m = maps[i]
      OBVIOUS
    <3>3. Apart(m)'
      BY <1>2, <1>3, <1>4, <3>1, <3>2, StaysApart
    <3> QED BY <1>2, <3>1, <3>2, <3>3 DEF Apart, TablePages
  <2> QED BY <1>2, <2>1 DEF BuildInv, TabsInv, Making
<1> QED BY <1>5, <1>6, <1>7, <1>8, <1>9, <1>10 DEF BuildInv

LEMMA AllocPageOK ==
    ASSUME BuildInv, NEW name, name # "p2m", NEW next_, Making(name, next_),
           pc # "tablesAlloc", next_ # "tablesAlloc", alloc_page(name, next_)
    PROVE  BuildInv'
<1>1. CASE NoMorePages(1)
  <2>1. Fails(NoLeak) /\ pc \notin Ended
    BY <1>1 DEF alloc_page, Making
  <2> QED BY <2>1, FailOK
<1>2. CASE ~NoMorePages(1)
  <2>1. /\ Advance(0, 1) /\ Record(name, vend, 0, 1) /\ pc' = next_
        /\ UNCHANGED <<image, p2m, filled, tabVars, winVars, memory>>
    BY <1>2 DEF alloc_page
  <2>2. pend \in Nat /\ image.total \in Nat /\ vend \in Nat /\ PageSize \in Nat
    BY TotalIsNat, WidthsAssumption DEF BuildInv, CountersInv
  <2>3. /\ pend + 1 + 0 <= image.total /\ pend' = pend + (1 + 0)
        /\ vend' = vend + (1 + 0) * PageSize /\ 0 \in Nat
    BY <1>2, <2>1, <2>2 DEF Advance, NoMorePages
  <2> QED BY <2>1, <2>3, PageOK
<1> QED BY <1>1, <1>2

LEMMA PagesOK == ASSUME BuildInv, AllocStartInfo \/ AllocXenstore \/ AllocConsole PROVE BuildInv'
<1>1. CASE AllocStartInfo
  <2>1. pc = "startInfo" /\ Making("startInfo", "xenstore") /\ alloc_page("startInfo", "xenstore")
    BY <1>1 DEF AllocStartInfo, Making, Ended, GivenUp, Early, Tabled, Started, Steps
  <2> QED BY <2>1, AllocPageOK
<1>2. CASE AllocXenstore
  <2>1. pc = "xenstore" /\ Making("xenstore", "console") /\ alloc_page("xenstore", "console")
    BY <1>2 DEF AllocXenstore, Making, Ended, GivenUp, Early, Tabled, Started, Steps
  <2> QED BY <2>1, AllocPageOK
<1>3. CASE AllocConsole
  <2>1. pc = "console" /\ pc \notin Ended /\ Making("console", "tables")
    BY <1>3 DEF AllocConsole, Making, Ended, GivenUp, Early, Tabled, Started, Steps
  <2>2. CASE Fails(NoLeak)
    BY <2>1, <2>2, FailOK
  <2>3. CASE alloc_page("console", "tables")
    BY <2>1, <2>3, AllocPageOK
  <2> QED BY <1>3, <2>2, <2>3 DEF AllocConsole
<1> QED BY <1>1, <1>2, <1>3

LEMMA StackOK == ASSUME BuildInv, AllocStack PROVE BuildInv'
<1> DEFINE pad == (pgend - vend) \div PageSize - 1
<1>1. pc = "stack" /\ pc \notin Ended /\ Making("stack", "p2mLate")
  BY DEF AllocStack, Making, Ended, GivenUp, Early, Tabled, Started, Steps
<1>2. CASE Fails(NoLeak)
  BY <1>1, <1>2, FailOK
<1>3. CASE ~Fails(NoLeak)
  <2>1. /\ ~NoMorePages(1 + pad) /\ ~(pgend < vend + PageSize)
        /\ Advance(1, pad) /\ Record("stack", vend, 0, 1) /\ pc' = "p2mLate"
        /\ UNCHANGED <<image, p2m, filled, tabVars, winVars, memory>>
    BY <1>3 DEF AllocStack
  <2>2. pend \in Nat /\ image.total \in Nat /\ vend \in Nat /\ PageSize \in Nat \ {0}
        /\ pgend \in Nat
    BY TotalIsNat, WidthsAssumption DEF BuildInv, CountersInv
  <2>3. pad \in Nat
    <3>1. pgend - vend \in Nat /\ PageSize * 1 <= pgend - vend
      BY <2>1, <2>2
    <3>2. 1 <= (pgend - vend) \div PageSize /\ (pgend - vend) \div PageSize \in Nat
      BY <2>2, <3>1, AtMost, Parts
    <3> QED BY <3>2
  <2> HIDE DEF pad
  <2>4. /\ pend + 1 + pad <= image.total /\ pend' = pend + (1 + pad)
        /\ vend' = vend + (1 + pad) * PageSize
    BY <2>1, <2>2, <2>3 DEF Advance, NoMorePages
  <2> QED BY <1>1, <2>1, <2>3, <2>4, PageOK
<1> QED BY <1>2, <1>3

\* What a round of the search counts lies at the end of what is handed out.
LEMMA TryTablesOK == ASSUME BuildInv, TryTables PROVE BuildInv'
<1>1. pc = "tables" /\ pc \notin Ended \cup Early \cup Tabled /\ pc \in Started
  BY DEF TryTables, Ended, GivenUp, Early, Tabled, Started
<1>2. CASE Fails(NoLeak)
  BY <1>1, <1>2, FailOK
<1>3. CASE ~Fails(NoLeak)
  <2>1. /\ ~CannotMap(maps, image.total, image.base, TryEnd, 0)
        /\ tries' = Needed
        /\ \/ /\ maps' = Append(maps, Counted) /\ pgend' = TryEnd + 1 /\ pc' = "tablesAlloc"
           \/ UNCHANGED <<maps, pgend, pc>>
        /\ UNCHANGED <<image, vend, pend, segs, p2m, filled, pages, space, memory>>
    BY <1>3 DEF TryTables, NextTry, memVars, winVars
  <2>2. /\ pend \in Nat /\ image.base \in Nat /\ vend \in Nat /\ tries \in Nat
        /\ PageSize \in Nat
        /\ ExtraPages \in Nat /\ 2^RoundShift \in Nat \ {0}
    BY ImagesAssumption, WidthsAssumption, BoundsAssumption
    DEF BuildInv, CountersInv, ImageType
  <2>3. TryEnd \in Nat
    <3> DEFINE x == vend + tries * PageSize
    <3>1. x \in Nat
      <4>1. tries * PageSize \in Nat
        BY <2>2
      <4> QED BY <2>2, <4>1
    <3>2. x \div 2^RoundShift \in Nat
      BY <2>2, <3>1, Parts
    <3>3. TryEnd = (x \div 2^RoundShift) * 2^RoundShift + 2^RoundShift - 1
      BY DEF TryEnd, round_up
    <3> HIDE DEF x
    <3>4. (x \div 2^RoundShift) * 2^RoundShift \in Nat
      BY <2>2, <3>2
    <3> QED BY <2>2, <3>3, <3>4
  <2>4. Mapping(Counted) /\ Counted.levels[3].pfn = pend
    <3>1. maps = <<>> \/ Mapping(maps[1])
      BY FirstMapping DEF BuildInv
    <3> QED BY <2>2, <2>3, <3>1, CountedIsMapping DEF Counted
  <2>5. Counted \in MappingType /\ Counted.pgtables \in Nat
    BY <2>4 DEF Mapping, MappingType
  <2>6. tries' \in Nat /\ pgend' \in Nat
    BY <2>1, <2>2, <2>3, <2>5 DEF Needed, BuildInv, CountersInv
  <2>7. pc' \in {"tables", "tablesAlloc"}
    BY <1>1, <2>1
  <2>8. pc' \in Steps /\ pc' \notin Early /\ pc' \in Started /\ pc' \notin Tabled /\ pc' \notin Ended
        /\ pc' \notin {"initrdEarly", "claim", "booted"} \cup GivenUp
    BY <2>7 DEF Steps, Early, Started, Tabled, Ended, GivenUp
  <2>9. CountersInv'
    BY <1>1, <2>1, <2>6, <2>8 DEF BuildInv, CountersInv, Ended, GivenUp
  <2>10. FramesInv'
    BY <2>1 DEF BuildInv, FramesInv, FrameOf, Supers, SuperFrame, Extent
  <2>11. SegsInv'
    BY <1>1, <2>1, <2>8 DEF BuildInv, SegsInv, UsedPages, p2mPages, p2mFirst
  <2>12. TablesInv'
    BY <1>1, <2>1, <2>8 DEF BuildInv, TablesInv
  <2>13. WinsInv'
    BY <1>1, <2>1, <2>8 DEF BuildInv, WinsInv, Known, FramesOf, SharedInfo
  <2>14. \A i \in DOMAIN maps : Mapping(maps[i]) /\ Apart(maps[i])
    BY <1>1 DEF BuildInv, TabsInv
  <2>15. TabsInv'
    <3>1. maps \in Seq(MappingType) /\ Len(maps) <= 2 /\ Len(maps) # 2
      BY <2>1 DEF BuildInv, TabsInv, CannotMap, MaxMappings
    <3>2. Len(maps) \in Nat /\ DOMAIN maps = 1..Len(maps)
      BY <3>1, LenProperties
    <3>3. CASE UNCHANGED <<maps, pgend, pc>>
      <4>1. \A i \in DOMAIN maps : Apart(maps[i])' = Apart(maps[i])
        BY <2>1, <3>3 DEF Apart, TablePages, Used, UsedPages, p2mPages, Known, Shown
      <4> QED BY <1>1, <2>8, <2>14, <3>1, <3>3, <4>1 DEF TabsInv
    <3>4. CASE maps' = Append(maps, Counted) /\ pc' = "tablesAlloc"
      <4>1. /\ Append(maps, Counted) \in Seq(MappingType)
            /\ Len(Append(maps, Counted)) = Len(maps) + 1
            /\ Append(maps, Counted)[Len(maps) + 1] = Counted
            /\ \A i \in DOMAIN Append(maps, Counted) :
                 \/ i \in DOMAIN maps /\ Append(maps, Counted)[i] = maps[i]
                 \/ i = Len(maps) + 1
        BY <2>5, <3>1, Appended
      <4>2. /\ maps' \in Seq(MappingType) /\ Len(maps') = Len(maps) + 1
            /\ maps'[Len(maps) + 1] = Counted
            /\ \A i \in DOMAIN maps' : \/ i \in DOMAIN maps /\ maps'[i] = maps[i]
                                       \/ i = Len(maps')
        BY <3>4, <4>1
      <4>3. Len(maps') <= 2 /\ maps' # <<>>
        <5>1. Len(<<>>) = 0
          OBVIOUS
        <5> QED BY <3>1, <3>2, <4>2, <5>1
      <4>4. ASSUME NEW i \in DOMAIN maps'
            PROVE  /\ Mapping(maps'[i])
                   /\ IF i = Len(maps') THEN maps'[i].levels[3].pfn = pend'
                      ELSE Apart(maps[i])'
        <5>1. CASE i = Len(maps')
          BY <2>1, <2>4, <4>2, <5>1
        <5>2. CASE i # Len(maps')
          <6>1. i \in DOMAIN maps /\ maps'[i] = maps[i]
            BY <4>2, <5>2
          <6>2. Apart(maps[i])' = Apart(maps[i])
            BY <2>1, <6>1 DEF Apart, TablePages, Used, UsedPages, p2mPages, Known, Shown
          <6> QED BY <2>14, <5>2, <6>1, <6>2
        <5> QED BY <5>1, <5>2
      <4> QED BY <2>8, <3>4, <4>2, <4>3, <4>4 DEF TabsInv
    <3> QED BY <2>1, <3>3, <3>4
  <2> QED BY <2>9, <2>10, <2>11, <2>12, <2>13, <2>15 DEF BuildInv
<1> QED BY <1>2, <1>3

LEMMA AllocTablesOK == ASSUME BuildInv, AllocTables PROVE BuildInv'
<1> DEFINE last == Len(maps)
           n == maps[last].pgtables
<1>1. pc = "tablesAlloc" /\ pc \notin Ended \cup Tabled /\ Making("tables", "stack")
  BY DEF AllocTables, Making, Ended, GivenUp, Early, Tabled, Started, Steps
<1>2. maps \in Seq(MappingType) /\ maps # <<>> /\ last \in DOMAIN maps
  <2>1. maps \in Seq(MappingType) /\ maps # <<>>
    BY <1>1 DEF BuildInv, TabsInv
  <2>2. last \in Nat /\ DOMAIN maps = 1..last
    BY <2>1, LenProperties
  <2>3. last # 0
    BY <2>1, EmptySeq
  <2> QED BY <2>1, <2>2, <2>3
<1>3. Mapping(maps[last]) /\ maps[last].levels[3].pfn = pend
  BY <1>1, <1>2 DEF BuildInv, TabsInv
<1>4. n \in Nat
  BY <1>3 DEF Mapping, MappingType
<1>5. Padding(0) = 0 /\ 0 \in Nat
  BY DEF Padding
<1>6. pend \in Nat /\ PageSize \in Nat /\ vend \in Nat /\ p2mPages \in Nat
  <2>1. image.total + Entries - 1 \in Nat /\ Entries \in Nat \ {0}
    BY TotalIsNat, WidthsAssumption DEF BuildInv, CountersInv
  <2>2. p2mPages \in Nat
    BY <2>1, Parts DEF p2mPages
  <2> QED BY <2>2, WidthsAssumption DEF BuildInv, CountersInv
<1> HIDE DEF last, n
<1> DEFINE vstart == vend + 0 * PageSize
<1>7. SegmentAt("tables", vstart, 0, n, "stack") /\ UNCHANGED tabVars
  BY <1>5 DEF AllocTables, alloc_segment, n, last
<1>8. CASE Fails(NoLeak) \/ \E frames : Fails(Leak(frames))
  BY <1>1, <1>8, FailOK
<1>9. CASE ~(Fails(NoLeak) \/ \E frames : Fails(Leak(frames)))
  <2>1. n # 0 /\ pend + 0 + n <= image.total /\ Made("tables", vstart, 0, n, "stack")
    BY <1>4, <1>5, <1>7, <1>9, SegmentAtCases
  <2>2. /\ pc' = "stack" /\ image' = image /\ pend' = pend + n /\ pend' \in Nat
        /\ pend' >= pend + 0 + n /\ maps' = maps
        /\ segs' = With(segs, "tables", [vstart |-> vstart, pfn |-> pend + 0, pages |-> n])
        /\ pages' = With(pages, NewPtr, [pfn |-> pend + 0, count |-> n])
        /\ pend + 0 = pend /\ n \in Nat \ {0}
    BY <1>4, <1>6, <1>7, <2>1 DEF Made, tabVars
  <2>3. ASSUME NEW i \in DOMAIN maps PROVE Mapping(maps[i]) /\ Apart(maps[i])'
    <3>1. PICK m : m = maps[i]
      OBVIOUS
    <3>2. Mapping(m) /\ (i # last => Apart(m))
      BY <1>1, <3>1 DEF BuildInv, TabsInv, last
    <3>3. CASE i = last
      <4>1. m.levels[3].pfn = pend /\ m.pgtables = n
        BY <1>3, <3>1, <3>3 DEF n
      <4>2. pend <= m.levels[3].pfn /\ m.levels[3].pfn + m.pgtables <= pend + n
        BY <1>4, <1>6, <4>1
      <4>3. Apart(m)'
        BY <1>1, <1>4, <1>6, <2>2, <3>2, <4>2, NewApart
      <4> QED BY <2>2, <3>1, <3>2, <4>3 DEF Apart, TablePages
    <3>4. CASE i # last
      <4> DEFINE name == "tables"
      <4>1. /\ Mapping(m) /\ Apart(m) /\ (name = "p2m" => n >= p2mPages)
            /\ segs' = With(segs, name, [vstart |-> vstart, pfn |-> pend + 0, pages |-> n])
        BY <2>2, <3>2, <3>4
      <4> HIDE DEF name, vstart
      <4>2. Apart(m)'
        BY <1>5, <2>2, <4>1, StaysApart
      <4> QED BY <2>2, <3>1, <3>2, <4>2 DEF Apart, TablePages
    <3> QED BY <3>3, <3>4
  <2>4. pc' \notin Early /\ pc' # "tablesAlloc"
    BY <2>2 DEF Early
  <2>5. TabsInv'
    BY <2>2, <2>3, <2>4 DEF BuildInv, TabsInv
  <2>6. tries' \in Nat /\ pgend' \in Nat
    BY <1>7 DEF tabVars, BuildInv, CountersInv
  <2> QED BY <1>1, <1>5, <2>1, <2>2, <2>5, <2>6, MadeOK
<1> QED BY <1>8, <1>9

LEMMA EvtchnOK ==
    ASSUME BuildInv, ClaimPages \/ AllocEvtchn \/ setup_hypercall_page PROVE BuildInv'
<1>1. CASE Fails(NoLeak)
  <2>1. pc \notin Ended
    BY DEF ClaimPages, AllocEvtchn, setup_hypercall_page, Ended, GivenUp
  <2> QED BY <1>1, <2>1, FailOK
<1>2. CASE ~Fails(NoLeak)
  BY <1>2, SkipOK DEF ClaimPages, AllocEvtchn, setup_hypercall_page
<1> QED BY <1>1, <1>2

------------------------------------------------------------------------------
(* boot_internal.                                                           *)

\* The windows show the tables: an entry goes into the frame of its table's page.
LEMMA FrameWritten ==
    ASSUME BuildInv, pc = "setupTables", NEW l \in Levels, NEW i \in DOMAIN maps,
           Candidates(maps[i].levels[l].pfn, 0) # {},
           NEW w, w = Window(maps[i].levels[l].pfn, 0),
           NEW j \in DOMAIN maps, NEW x \in EntriesFor(maps, l, i, j),
           NEW k, k = maps[i].levels[l].pfn + x.place \div Entries
    PROVE  /\ k \in 0..(image.total - 1) /\ k \in TablePages(maps[i])
           /\ space[w][maps[i].levels[l].pfn - pages[w].pfn + 1 + x.place \div Entries] = p2m[k]
<1> DEFINE t == maps[i].levels[l]
<1>1. PICK m : m = maps[i]
  OBVIOUS
<1>2. pc \notin Ended \cup Early \cup Tabled \cup {"tablesAlloc"}
  BY DEF Ended, GivenUp, Early, Tabled
<1>3. \A n \in DOMAIN maps : Mapping(maps[n])
  BY DEF BuildInv, TabsInv
<1>4. Mapping(m) /\ Apart(m)
  BY <1>1, <1>2 DEF BuildInv, TabsInv
<1>5. w \in Candidates(t.pfn, 0)
  <2>1. Candidates(t.pfn, 0) \in SUBSET Nat
    BY DEF Candidates, BuildInv, WinsInv
  <2> QED BY <2>1, MinThere DEF Window
<1>6. /\ w \in Known /\ pages[w].pfn \in Nat /\ pages[w].count \in Nat
      /\ pages[w].pfn + pages[w].count <= pend
      /\ space[w] = FramesOf(pages[w].pfn, pages[w].count)
      /\ pages[w].pfn <= t.pfn /\ t.pfn < pages[w].pfn + pages[w].count
  <2>1. w \in Known /\ t.pfn < pages[w].pfn + pages[w].count /\ t.pfn >= pages[w].pfn
    BY <1>5 DEF Candidates
  <2>2. t.pfn \in Nat
    BY <1>1, <1>4 DEF Mapping, MappingType
  <2>3. /\ pages[w].pfn \in Nat /\ pages[w].count \in Nat
        /\ pages[w].pfn + pages[w].count <= pend
        /\ space[w] = FramesOf(pages[w].pfn, pages[w].count)
    BY <1>2, <2>1 DEF BuildInv, WinsInv
  <2> QED BY <2>1, <2>2, <2>3
<1>7. PICK q : q = x.place \div Entries
  OBVIOUS
<1>8. q \in Nat /\ q < t.pgtables
  BY <1>3, <1>7, EntriesAreInTables
<1>9. k = t.pfn + q
  BY <1>7
<1>10. /\ t.pfn \in Nat /\ t.pgtables \in Nat /\ m.levels[3].pfn \in Nat
       /\ m.pgtables \in Nat
      /\ m.levels[3].pfn <= t.pfn
      /\ t.pfn + t.pgtables <= m.levels[3].pfn + m.pgtables
  <2>1. 3 \in Levels
    BY DEF Levels
  <2> QED BY <1>1, <1>4, <2>1 DEF Mapping, MappingType
<1> HIDE DEF t
<1>11. t.pfn \in TablePages(m) /\ k \in TablePages(m)
  BY <1>8, <1>9, <1>10 DEF TablePages
<1>12. TablePages(m) \subseteq Shown(w)
  <2>1. t.pfn \in Shown(w)
    BY <1>6, <1>10 DEF Shown
  <2> QED BY <1>4, <1>6, <1>11, <2>1 DEF Apart
<1>13. k \in Nat /\ pages[w].pfn <= k /\ k < pages[w].pfn + pages[w].count
  BY <1>6, <1>8, <1>9, <1>10, <1>11, <1>12 DEF Shown
<1>14. pend \in 0..image.total /\ image.total \in Nat /\ filled = image.total
  BY <1>2, TotalIsNat DEF BuildInv, CountersInv, Ended, GivenUp
<1>15. k \in 0..(image.total - 1)
  BY <1>6, <1>13, <1>14
<1>16. space[w][t.pfn - pages[w].pfn + 1 + q] = p2m[k]
  <2>1. PICK n : n = t.pfn - pages[w].pfn + 1 + q
    OBVIOUS
  <2>2. n \in 1..pages[w].count /\ pages[w].pfn + n - 1 = k
    BY <1>6, <1>8, <1>9, <1>10, <1>13, <2>1
  <2>3. FramesOf(pages[w].pfn, pages[w].count)[n] = p2m[pages[w].pfn + n - 1]
    BY <1>14, <2>2 DEF FramesOf
  <2> QED BY <1>6, <2>1, <2>2, <2>3
<1> QED BY <1>1, <1>7, <1>11, <1>15, <1>16 DEF t

\* What is written goes into pages of the tables.
LEMMA WrittenOK ==
    ASSUME BuildInv, pc = "setupTables", NEW l \in Levels, NEW i \in DOMAIN maps,
           Candidates(maps[i].levels[l].pfn, 0) # {},
           NEW e \in Written(l, i, Window(maps[i].levels[l].pfn, 0))
    PROVE  \E k \in 0..(image.total - 1) :
             /\ e.frame = p2m[k]
             /\ \A s \in DOMAIN segs \ {"tables"} : k \notin Used(s)
<1>1. PICK w : w = Window(maps[i].levels[l].pfn, 0)
  OBVIOUS
<1>2. PICK j \in DOMAIN maps : \E x \in EntriesFor(maps, l, i, j) :
        e.frame = space[w][maps[i].levels[l].pfn - pages[w].pfn + 1 + x.place \div Entries]
  BY <1>1 DEF Written
<1>3. PICK x \in EntriesFor(maps, l, i, j) :
        e.frame = space[w][maps[i].levels[l].pfn - pages[w].pfn + 1 + x.place \div Entries]
  BY <1>2
<1>4. PICK k : k = maps[i].levels[l].pfn + x.place \div Entries
  OBVIOUS
<1>5. k \in 0..(image.total - 1) /\ k \in TablePages(maps[i]) /\ e.frame = p2m[k]
  BY <1>1, <1>3, <1>4, FrameWritten
<1>6. Apart(maps[i])
  BY DEF BuildInv, TabsInv, Tabled, Ended, GivenUp
<1> QED BY <1>5, <1>6 DEF Apart

LEMMA SetupTablesOK == ASSUME BuildInv, setup_page_tables PROVE BuildInv'
<1>1. pc = "setupTables" /\ pc \notin Ended \cup Early \cup Tabled /\ pc \in Started
  BY DEF setup_page_tables, Ended, GivenUp, Early, Tabled, Started
<1>2. CASE Fails(NoLeak)
  BY <1>1, <1>2, FailOK
<1>3. CASE ~Fails(NoLeak)
  <2>1. /\ \A l \in Levels, i \in DOMAIN maps : Candidates(maps[i].levels[l].pfn, 0) # {}
        /\ memory' = UNION {Written(l, i, Window(maps[i].levels[l].pfn, 0)) :
                              l \in Levels, i \in DOMAIN maps}
        /\ pc' = "setupStart"
        /\ UNCHANGED <<image, memVars, p2m, filled, tabVars, winVars>>
    BY <1>3 DEF setup_page_tables
  <2>2. UNCHANGED <<image, vend, pend, segs, p2m, filled, maps, tries, pgend, pages, space>>
    BY <2>1 DEF memVars, tabVars, winVars
  <2>3. pc' \in Steps /\ pc' \notin Ended \cup Early /\ pc' \in Tabled
    BY <2>1 DEF Steps, Ended, GivenUp, Early, Tabled
  <2>4. CountersInv'
    BY <1>1, <2>2, <2>3 DEF BuildInv, CountersInv, Early, Ended, GivenUp
  <2>5. FramesInv'
    BY <2>2 DEF BuildInv, FramesInv, FrameOf, Supers, SuperFrame, Extent
  <2>6. SegsInv'
    BY <1>1, <2>2, <2>3 DEF BuildInv, SegsInv, UsedPages, p2mPages, p2mFirst
  <2>7. TabsInv'
    BY <2>1, <2>2, <2>3 DEF BuildInv, TabsInv
  <2>8. WinsInv'
    BY <1>1, <2>2, <2>3 DEF BuildInv, WinsInv, Known, FramesOf, SharedInfo, Ended, GivenUp
  <2>9. TablesInv'
    <3>1. filled = image.total
      BY <1>1 DEF BuildInv, CountersInv, Ended, GivenUp
    <3>2. ASSUME NEW e \in memory'
          PROVE  \E k \in 0..(image.total - 1) :
                   /\ e.frame = p2m[k]
                   /\ \A s \in DOMAIN segs \ {"tables"} : k \notin Used(s)
      <4>1. PICK l \in Levels, i \in DOMAIN maps :
              e \in Written(l, i, Window(maps[i].levels[l].pfn, 0))
        BY <2>1
      <4> QED BY <1>1, <2>1, <4>1, WrittenOK
    <3>3. \A s : Used(s)' = Used(s)
      BY <2>2 DEF Used, UsedPages, p2mPages
    <3> QED BY <2>2, <2>3, <3>1, <3>2, <3>3 DEF TablesInv
  <2> QED BY <2>4, <2>5, <2>6, <2>7, <2>8, <2>9 DEF BuildInv
<1> QED BY <1>2, <1>3

\* When the tables are written only windows come and go.
LEMMA LateOK ==
    ASSUME BuildInv, pc \in Tabled \ Ended, pc' \in Tabled \ ({"setupStart"} \cup GivenUp), WinsInv',
           UNCHANGED <<image, memVars, p2m, filled, tabVars, memory>>
    PROVE  BuildInv'
<1>1. UNCHANGED <<image, vend, pend, segs, p2m, filled, maps, tries, pgend, memory>>
  BY DEF memVars, tabVars
<1>2. /\ pc \notin Ended \cup Early /\ pc' \in Steps /\ pc' \notin Early \cup Started
      /\ pc' \notin GivenUp /\ pc' # "tablesAlloc"
  BY DEF Tabled, Ended, GivenUp, Early, Steps, Started
<1>3. CountersInv'
  BY <1>1, <1>2 DEF BuildInv, CountersInv, Ended, GivenUp, Early
<1>4. FramesInv'
  BY <1>1 DEF BuildInv, FramesInv, FrameOf, Supers, SuperFrame, Extent
<1>5. TabsInv'
  BY <1>1, <1>2 DEF BuildInv, TabsInv
<1>6. TablesInv'
  BY <1>1, <1>2 DEF BuildInv, TablesInv, Used, UsedPages, p2mPages
<1>7. SegsInv'
  BY <1>1, <1>2 DEF BuildInv, SegsInv, UsedPages, p2mPages, p2mFirst
<1> QED BY <1>3, <1>4, <1>5, <1>6, <1>7 DEF BuildInv

\* One window more.
LEMMA MappedOK ==
    ASSUME BuildInv, pc \in Tabled \ Ended, pc' \in Tabled \ ({"booted", "setupStart"} \cup GivenUp),
           NEW pfn \in Nat, NEW frames, Len(frames) = 1,
           \/ pfn + 1 <= pend /\ frames = FramesOf(pfn, 1)
           \/ pfn = SharedInfo /\ frames = <<SharedInfo>>,
           pages' = With(pages, NewPtr, [pfn |-> pfn, count |-> Len(frames)]),
           space' = With(space, NewPtr, frames),
           UNCHANGED <<image, memVars, p2m, filled, tabVars, memory>>
    PROVE  BuildInv'
<1>1. UNCHANGED <<image, pend, p2m, filled>>
  BY DEF memVars
<1>2. PICK b \in Nat : DOMAIN space \subseteq 1..b
  BY DEF BuildInv, WinsInv
<1>3. NewPtr \in Nat \ {0} /\ NewPtr \notin DOMAIN space /\ NewPtr <= b + 1
  BY <1>2, NewPtrIsNew
<1>4. DOMAIN space' = DOMAIN space \cup {NewPtr} /\ Known' = Known \cup {NewPtr}
      /\ DOMAIN space = Known
  BY DEF With, Known, BuildInv, WinsInv
<1>5. DOMAIN space' \subseteq 1..(b + 1) /\ b + 1 \in Nat
  BY <1>2, <1>3, <1>4
<1>6. ASSUME NEW a \in Known'
      PROVE  /\ pages'[a].pfn \in Nat /\ pages'[a].count \in Nat \ {0}
             /\ \/ /\ pages'[a].pfn + pages'[a].count <= pend'
                   /\ (space[a] = FramesOf(pages[a].pfn, pages[a].count))'
                \/ (pages[a].pfn = SharedInfo /\ space[a] = <<SharedInfo>>)'
  <2>1. FramesOf(pages[a].pfn, pages[a].count)' = FramesOf(pages'[a].pfn, pages'[a].count)
        /\ SharedInfo' = SharedInfo
    BY <1>1 DEF FramesOf, SharedInfo
  <2>2. CASE a = NewPtr
    <3>1. pages'[a] = [pfn |-> pfn, count |-> 1] /\ space'[a] = frames
      BY <2>2 DEF With
    <3> QED BY <1>1, <2>1, <3>1
  <2>3. CASE a # NewPtr
    <3>1. a \in Known /\ pages'[a] = pages[a] /\ space'[a] = space[a]
      BY <1>4, <2>3 DEF With, Known
    <3>2. /\ pages[a].pfn \in Nat /\ pages[a].count \in Nat \ {0}
          /\ \/ /\ pages[a].pfn + pages[a].count <= pend
                /\ space[a] = FramesOf(pages[a].pfn, pages[a].count)
             \/ pages[a].pfn = SharedInfo /\ space[a] = <<SharedInfo>>
      BY <3>1 DEF BuildInv, WinsInv
    <3> QED BY <1>1, <2>1, <3>1, <3>2
  <2> QED BY <2>2, <2>3
<1>7. pc' \notin Early
  BY DEF Tabled, Ended, GivenUp, Early
<1>8. WinsInv'
  BY <1>4, <1>5, <1>6, <1>7 DEF WinsInv, GivenUp
<1> QED BY <1>8, LateOK

LEMMA StartInfoOK == ASSUME BuildInv, setup_start_info PROVE BuildInv'
<1> DEFINE pfn == segs["startInfo"].pfn
           then == IF image.longCmdline THEN "panicked" ELSE "hypercall"
<1>1. pc = "setupStart" /\ pc \in Tabled \ Ended
  BY DEF setup_start_info, Tabled, Ended, GivenUp
<1>2. then \in Tabled \ ({"booted", "setupStart"} \cup GivenUp)
  BY DEF Tabled, Ended, GivenUp
<1>3. pfn \in Nat /\ pfn + 1 <= pend
  <2>1. "startInfo" \in DOMAIN segs
    BY <1>1 DEF BuildInv, SegsInv, Started
  <2>2. pend \in Nat
    BY DEF BuildInv, CountersInv
  <2> QED BY <2>1, <2>2 DEF BuildInv, SegsInv
<1>4. CASE Fails(NoLeak) \/ Fails(Leak(FramesOf(pfn, 1)))
  BY <1>1, <1>4, FailOK
<1>5. CASE ~(Fails(NoLeak) \/ Fails(Leak(FramesOf(pfn, 1))))
  <2>1. CASE Candidates(pfn, 1) # {}
    <3>1. pc' = then /\ UNCHANGED <<image, memVars, p2m, filled, tabVars, winVars, memory>>
      BY <1>5, <2>1 DEF setup_start_info
    <3>2. GoesOn
      BY <1>1, <3>1 DEF GoesOn, Ended, GivenUp, Steps, Early, Started, Tabled
    <3> QED BY <3>1, <3>2, QuietOK
  <2>2. CASE Candidates(pfn, 1) = {}
    <3>1. /\ pages' = With(pages, NewPtr, [pfn |-> pfn, count |-> Len(FramesOf(pfn, 1))])
          /\ space' = With(space, NewPtr, FramesOf(pfn, 1))
          /\ pc' = then /\ UNCHANGED <<image, memVars, p2m, filled, tabVars, memory>>
      BY <1>5, <2>2 DEF setup_start_info, MapPages
    <3>2. Len(FramesOf(pfn, 1)) = 1
      BY FramesCount
    <3>3. PICK frames : frames = FramesOf(pfn, 1)
      OBVIOUS
    <3> HIDE DEF pfn, then
    <3> QED BY <1>1, <1>2, <1>3, <3>1, <3>2, <3>3, MappedOK
  <2> QED BY <2>1, <2>2
<1> QED BY <1>4, <1>5

LEMMA SharedInfoOK == ASSUME BuildInv, setup_shared_info PROVE BuildInv'
<1>1. pc = "shared" /\ pc \in Tabled \ Ended
  BY DEF setup_shared_info, Tabled, Ended, GivenUp
<1>2. CASE Fails(NoLeak) \/ Fails(Leak(<<SharedInfo>>))
  BY <1>1, <1>2, FailOK
<1>3. CASE ~(Fails(NoLeak) \/ Fails(Leak(<<SharedInfo>>)))
  <2>1. /\ pages' = With(pages, NewPtr, [pfn |-> SharedInfo, count |-> Len(<<SharedInfo>>)])
        /\ space' = With(space, NewPtr, <<SharedInfo>>)
        /\ pc' = "vcpu" /\ UNCHANGED <<image, memVars, p2m, filled, tabVars, memory>>
    BY <1>3 DEF setup_shared_info, MapPages
  <2>2. SharedInfo \in Nat /\ Len(<<SharedInfo>>) = 1
        /\ pc' \in Tabled \ ({"booted", "setupStart"} \cup GivenUp)
    BY <2>1, TotalIsNat DEF BuildInv, CountersInv, SharedInfo, Tabled, GivenUp
  <2>3. PICK frames, pfn : frames = <<SharedInfo>> /\ pfn = SharedInfo
    OBVIOUS
  <2> QED BY <1>1, <2>1, <2>2, <2>3, MappedOK
<1> QED BY <1>2, <1>3

LEMMA BootlateOK == ASSUME BuildInv, bootlate PROVE BuildInv'
<1>1. pc = "late" /\ pc \in Tabled \ Ended
  BY DEF bootlate, Tabled, Ended, GivenUp
<1> DEFINE list == Without(pages, {Unmapped(segs["tables"].pfn)})
<1>2. CASE Fails(NoLeak)
  BY <1>1, <1>2, FailOK
<1>4. CASE GiveUpHalfway(list, NoLeak) /\ ~Fails(NoLeak)
  <2>1. UNCHANGED StayVars
    BY <1>1, <1>4 DEF bootlate, StayVars
  <2>2. DOMAIN list \subseteq Known /\ \A a \in DOMAIN list : list[a] = pages[a]
    BY DEF Without, Known
  <2> QED BY <1>1, <1>4, <2>1, <2>2, HalfwayOK
<1>3. CASE ~Fails(NoLeak) /\ ~GiveUpHalfway(list, NoLeak)
  <2> DEFINE gone_ == {Unmapped(segs["tables"].pfn), Unmapped(segs["p2m"].pfn)}
  <2>1. /\ pages' = Without(pages, gone_) /\ space' = Without(space, gone_)
        /\ pc' = "shared" /\ UNCHANGED <<image, memVars, p2m, filled, tabVars, memory>>
    BY <1>3 DEF bootlate
  <2> HIDE DEF gone_
  <2>2. pc' \in Tabled \ ({"booted", "setupStart"} \cup GivenUp) /\ pc' \notin Early
    BY <2>1 DEF Tabled, Early, GivenUp
  <2>3. DOMAIN space = Known /\ \E b \in Nat : DOMAIN space \subseteq 1..b
    BY <1>1 DEF BuildInv, WinsInv
  <2>4. Known' = Known \ gone_ /\ DOMAIN space' = DOMAIN space \ gone_
    BY <2>1 DEF Known, Without
  <2>5. ASSUME NEW a \in Known'
        PROVE  /\ pages'[a].pfn \in Nat /\ pages'[a].count \in Nat \ {0}
               /\ \/ /\ pages'[a].pfn + pages'[a].count <= pend'
                     /\ (space[a] = FramesOf(pages[a].pfn, pages[a].count))'
                  \/ (pages[a].pfn = SharedInfo /\ space[a] = <<SharedInfo>>)'
    <3>1. a \in Known /\ pages'[a] = pages[a] /\ space'[a] = space[a]
      BY <2>1, <2>3, <2>4 DEF Known, Without
    <3>2. UNCHANGED <<image, pend, p2m, filled>>
      BY <2>1 DEF memVars
    <3> QED BY <1>1, <3>1, <3>2 DEF BuildInv, WinsInv, FramesOf, SharedInfo, Ended, GivenUp
  <2>6. WinsInv'
    BY <2>2, <2>3, <2>4, <2>5 DEF WinsInv, GivenUp
  <2> QED BY <1>1, <2>1, <2>2, <2>6, LateOK
<1> QED BY <1>2, <1>3, <1>4

LEMMA SeedOK == ASSUME BuildInv, gnttab_seed PROVE BuildInv'
<1>1. pc = "seed" /\ pc \in Tabled \ Ended
  BY DEF gnttab_seed, Tabled, Ended, GivenUp
<1>2. CASE Fails(NoLeak) \/ Fails(Leak(<<SharedInfo + 1>>))
  BY <1>1, <1>2, FailOK
<1>3. CASE ~(Fails(NoLeak) \/ Fails(Leak(<<SharedInfo + 1>>)))
  <2>1. /\ pc' = "booted" /\ pages' = <<>> /\ space' = Without(space, Known)
        /\ UNCHANGED <<image, memVars, p2m, filled, tabVars, memory>>
    BY <1>3 DEF gnttab_seed
  <2>2. DOMAIN space = Known
    BY <1>1 DEF BuildInv, WinsInv
  <2>3. DOMAIN space' = {} /\ Known' = {}
    BY <2>1, <2>2 DEF Without, Known
  <2>4. pc' \in Tabled \ ({"setupStart"} \cup GivenUp)
    BY <2>1 DEF Tabled, Ended, GivenUp
  <2>5. WinsInv'
    <3>1. 0 \in Nat /\ DOMAIN space' \subseteq 1..0
      BY <2>3
    <3> QED BY <2>1, <2>3, <3>1 DEF WinsInv, Early
  <2> QED BY <1>1, <2>1, <2>4, <2>5, LateOK
<1> QED BY <1>2, <1>3

LEMMA BuildNextOK == ASSUME BuildInv, Next PROVE BuildInv'
<1> USE DEF Next
<1>1. CASE LoadInitrdEarly \/ LoadKernel \/ LoadInitrd
  BY <1>1, EarlyOK, LoadsOK
<1>2. CASE ClaimPages \/ AllocEvtchn \/ setup_hypercall_page
  BY <1>2, EvtchnOK
<1>3. CASE PopulateSuperPages \/ PopulateRest \/ MemoryDone
  BY <1>3, PopulateOK, MemoryDoneOK
<1>4. CASE AllocP2mFirst \/ AllocP2mLate
  BY <1>4, P2mStepsOK
<1>5. CASE AllocStartInfo \/ AllocXenstore \/ AllocConsole \/ AllocStack
  BY <1>5, PagesOK, StackOK
<1>6. CASE TryTables \/ AllocTables
  BY <1>6, TryTablesOK, AllocTablesOK
<1>7. CASE setup_page_tables \/ setup_start_info \/ bootlate \/ setup_shared_info
  BY <1>7, SetupTablesOK, StartInfoOK, BootlateOK, SharedInfoOK
<1>8. CASE vcpu \/ gnttab_seed
  BY <1>8, VcpuOK, SeedOK
<1> QED BY <1>1, <1>2, <1>3, <1>4, <1>5, <1>6, <1>7, <1>8

LEMMA BuildHolds == ASSUME BuildInv PROVE MemoryAgrees
<1>1. /\ image \in Images /\ image.total \in Nat /\ pend \in 0..image.total
      /\ filled \in 0..image.total
  BY TotalIsNat DEF BuildInv, CountersInv
<1>2. PagesAreHandedOutOnce
  <2>1. ASSUME NEW s \in DOMAIN segs, NEW u \in DOMAIN segs, s # u
        PROVE  Pages(s) \cap Pages(u) = {}
    <3>1. /\ segs[s].pfn \in Nat /\ segs[s].pages \in Nat
          /\ segs[u].pfn \in Nat /\ segs[u].pages \in Nat
      BY DEF BuildInv, SegsInv
    <3>2. \/ segs[s].pfn + segs[s].pages <= segs[u].pfn
          \/ segs[u].pfn + segs[u].pages <= segs[s].pfn
      BY <2>1 DEF BuildInv, SegsInv
    <3> QED BY <3>1, <3>2 DEF Pages
  <2>2. ASSUME NEW s \in DOMAIN segs \ {"tables"}, NEW k \in 0..(UsedPages(s) - 1),
               NEW e \in memory, e.frame = p2m[segs[s].pfn + k]
        PROVE  FALSE
    <3> DEFINE n == segs[s].pfn + k
    <3>1. /\ segs[s].pfn \in Nat /\ segs[s].pages \in Nat
          /\ segs[s].pfn + segs[s].pages <= pend
          /\ UsedPages(s) \in Nat /\ UsedPages(s) <= segs[s].pages
      BY DEF BuildInv, SegsInv
    <3>2. n \in Used(s) /\ n \in 0..(image.total - 1)
      BY <1>1, <3>1 DEF Used
    <3>3. PICK j \in 0..(image.total - 1) :
            e.frame = p2m[j] /\ \A r \in DOMAIN segs \ {"tables"} : j \notin Used(r)
      BY DEF BuildInv, TablesInv
    <3>4. filled = image.total
      BY DEF BuildInv, TablesInv
    <3> HIDE DEF n
    <3>5. p2m[n] = FrameOf(n) /\ p2m[j] = FrameOf(j)
      BY <1>1, <3>2, <3>4 DEF BuildInv, FramesInv
    <3>6. n = j
      BY <1>1, <2>2, <3>2, <3>3, <3>5, FramesDiffer DEF n
    <3> QED BY <3>2, <3>3, <3>6
  <2>3. \A s \in DOMAIN segs :
          s # "p2m" \/ p2mFirst => segs[s].vstart = image.base + segs[s].pfn * PageSize
    BY DEF BuildInv, SegsInv
  <2> QED BY <2>1, <2>2, <2>3 DEF PagesAreHandedOutOnce, Pages, TableFrames
<1>3. FramesAreDistinct
  <2> SUFFICES ASSUME NEW m \in 0..(filled - 1), NEW n \in 0..(filled - 1), m # n
               PROVE  p2m[m] # p2m[n] /\ p2m[m] # NoFrame
    BY DEF FramesAreDistinct
  <2>1. p2m[m] = FrameOf(m) /\ p2m[n] = FrameOf(n)
    BY DEF BuildInv, FramesInv
  <2>2. m \in 0..(image.total - 1) /\ n \in 0..(image.total - 1)
    BY <1>1
  <2>3. FrameOf(m) \in Nat /\ FrameOf(m) # FrameOf(n)
    BY <1>1, <2>2, FramesDiffer
  <2> QED BY <2>1, <2>3 DEF NoFrame
<1>4. WindowsAreAccounted
  <2>1. ASSUME NEW a \in Known \cap DOMAIN space
        PROVE  space[a] = IF pages[a].pfn = SharedInfo THEN <<SharedInfo>>
                          ELSE FramesOf(pages[a].pfn, pages[a].count)
    <3>1. pages[a].pfn \in Nat /\ pages[a].count \in Nat \ {0}
      BY DEF BuildInv, WinsInv
    <3>2. CASE pages[a].pfn = SharedInfo /\ space[a] = <<SharedInfo>>
      BY <3>2
    <3>3. CASE /\ pages[a].pfn + pages[a].count <= pend
               /\ space[a] = FramesOf(pages[a].pfn, pages[a].count)
      <4>1. pages[a].pfn # 3 * image.total
        BY <1>1, <3>1, <3>3
      <4> QED BY <3>3, <4>1 DEF SharedInfo
    <3> QED BY <3>2, <3>3 DEF BuildInv, WinsInv
  <2> QED BY <2>1 DEF BuildInv, WinsInv, WindowsAreAccounted
<1> QED BY <1>2, <1>3, <1>4 DEF MemoryAgrees

------------------------------------------------------------------------------
(* Of the run.                                                              *)

KernelInv == part = "elf" => ElfInv

\* The kernel that was loaded from a plain image is the one of the image: every unit
\* of its memory is what the headers say or empty, none comes from behind the data
\* that was decoded, and no plain image makes an index of the loader panic.
THEOREM KernelLoaded == PartSpec => []KernelIsTheImage
<1>1. PartInit => KernelInv
  BY ElfInitOK DEF PartInit, KernelInv
<1>2. KernelInv /\ [PartNext]_allVars => KernelInv'
  <2> SUFFICES ASSUME KernelInv, [PartNext]_allVars, part' = "elf" PROVE ElfInv'
    BY DEF KernelInv
  <2>1. CASE ElfStep
    BY <2>1, ElfNextOK DEF ElfStep, KernelInv
  <2>2. CASE BuildStep
    BY <2>2 DEF BuildStep
  <2>3. CASE UNCHANGED allVars
    <3>1. ElfInv /\ UNCHANGED elfVars
      BY <2>3 DEF KernelInv, allVars
    <3> QED BY <3>1 DEF elfVars, ElfInv, Elf!TypeOK, InRange, Filled,
                        Elf!PlainImagesDoNotPanic
  <2> QED BY <2>1, <2>2, <2>3 DEF PartNext
<1>3. KernelInv => KernelIsTheImage
  BY ElfHolds DEF KernelInv, KernelIsTheImage
<1> QED BY <1>1, <1>2, <1>3, PTL DEF PartSpec

\* A step of the run builds on or leaves the build as it is.
LEMMA RunSteps == [PartNext]_allVars => BuildStep \/ UNCHANGED vars
  BY DEF PartNext, ElfStep, allVars

LEMMA BuildRests == ASSUME BuildInv, UNCHANGED vars PROVE BuildInv'
<1>1. UNCHANGED <<image, pc, vend, pend, segs, p2m, filled, maps, tries, pgend, pages,
                  space, memory>>
  BY DEF vars, memVars, tabVars, winVars
<1>2. CountersInv' /\ FramesInv' /\ SegsInv'
  BY <1>1 DEF BuildInv, CountersInv, FramesInv, FrameOf, Supers, SuperFrame,
              Extent, SegsInv, UsedPages, p2mPages, p2mFirst
<1>3. TabsInv'
  <2>1. \A i \in DOMAIN maps : Apart(maps[i])' = Apart(maps[i])
    BY <1>1 DEF Apart, TablePages, Used, UsedPages, p2mPages, Known, Shown
  <2> QED BY <1>1, <2>1 DEF BuildInv, TabsInv
<1>4. WinsInv' /\ TablesInv'
  BY <1>1 DEF BuildInv, WinsInv, TablesInv, Known, FramesOf, SharedInfo, Used,
              UsedPages, p2mPages
<1> QED BY <1>2, <1>3, <1>4 DEF BuildInv

\* Pages and frames are handed out once, no table is in a page that is used for
\* something else, and no window is lost but where a munmap failed (initialize, boot
\* and what they call).
THEOREM MemoryKept == PartSpec => []MemoryAgrees
<1>1. ASSUME PartInit PROVE BuildInv
  BY <1>1, InitBuildOK DEF PartInit
<1>2. ASSUME BuildInv, [PartNext]_allVars PROVE BuildInv'
  BY <1>2, RunSteps, BuildNextOK, BuildRests DEF BuildStep
<1> QED BY <1>1, <1>2, BuildHolds, PTL DEF PartSpec
================================================================================
