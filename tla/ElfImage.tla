-------------------------------- MODULE ElfImage --------------------------------
(***************************************************************************)
(* A kernel image from its file into the domain's memory: load, parse_sync   *)
(* and the segment loop of xenplatform/src/elfloader.rs.                     *)
(*                                                                          *)
(* Sizes and addresses are in units of some bytes.  A place in the kernel's   *)
(* segment holds the unit of the file that was copied there, or Zero.        *)
(***************************************************************************)
EXTENDS Integers, Sequences, FiniteSetsExt

CONSTANTS
  Files,   \* images: headers, one to be loaded at least; notes; size
  Streams  \* what the places that look like compressed data decode to

\* load: a PT_LOAD header with permissions.  required: the notes are all there.
Header == [load : BOOLEAN, paddr : Nat, off : Nat, filesz : Nat, memsz : Nat]
Loads(f) == {i \in DOMAIN f.headers : f.headers[i].load}

VARIABLES
  file,   \* the image that was compressed
  stream, \* the outcomes of decoding, in the order of the places
  pc,     \* the step that is next
  next,   \* the place or header it is at
  have,   \* units of the image that were decoded, 0 for something else
  start, end,  \* the physical range of the PT_LOAD headers
  mem     \* the segment of the kernel

vars == <<file, stream, pc, next, have, start, end, mem>>

Zero == -1
Unset == 1000   \* u64::MAX

TypeOK ==
  /\ file \in Files /\ stream \in Streams
  /\ pc \in {"decode", "notes", "measure", "load", "loaded", "refused", "panicked"}
  /\ next \in Nat /\ have \in 0..file.size
  /\ start \in Nat /\ end \in Nat
  /\ pc \in {"load", "loaded"} => mem \in [0..(end - start - 1) -> Int]

Init ==
  /\ file \in Files /\ stream \in Streams
  /\ pc = "decode" /\ next = 1 /\ have = 0
  /\ start = Unset /\ end = 0 /\ mem = <<>>

Refuse == pc' = "refused" /\ UNCHANGED <<next, have, start, end, mem>>

Decoded(o) == o # "error"
\* One place with the magic of gzip or xz.  An error after some output counts
\* as the end of the data (read_one_stream), and its output is the image.
Decode ==
  /\ pc = "decode"
  /\ IF next > Len(stream) THEN Refuse
     ELSE /\ IF Decoded(stream[next].is)
             THEN /\ have' = IF stream[next].is = "junk" THEN 0
                             ELSE IF stream[next].is = "whole" \/ stream[next].size > file.size
                             THEN file.size ELSE stream[next].size
                  /\ pc' = "notes" /\ next' = 1
             ELSE next' = next + 1 /\ UNCHANGED <<pc, have>>
          /\ UNCHANGED <<start, end, mem>>
  /\ UNCHANGED <<file, stream>>

\* The header table is at the front of the file, the section table at its end:
\* the notes are found through the sections.
ParseNotes ==
  /\ pc = "notes"
  /\ IF have < file.sections \/ ~file.required THEN Refuse
     ELSE pc' = "measure" /\ UNCHANGED <<next, have, start, end, mem>>
  /\ UNCHANGED <<file, stream>>

\* Only headers that are to be loaded count.
Measure ==
  LET h == file.headers[next]
  IN  /\ start' = IF h.load /\ h.paddr < start THEN h.paddr ELSE start
      /\ end' = IF h.load /\ h.paddr + h.memsz > end THEN h.paddr + h.memsz ELSE end
MeasureHeader ==
  /\ pc = "measure"
  /\ IF next <= Len(file.headers)
     THEN Measure /\ next' = next + 1 /\ UNCHANGED <<pc, mem>>
     ELSE /\ pc' = "load" /\ next' = 1
          /\ mem' = [k \in 0..(end - start - 1) |-> Zero]
          /\ UNCHANGED <<start, end>>
  /\ UNCHANGED <<file, stream, have>>

\* Mutant of Available: the data is not compared with the file.
AvailableAlways(h) == TRUE
\* segment_data: the bytes of the header are in the file.
Available(h) == h.off + h.filesz <= have

\* Every header is copied, whatever its type.  Indexes before or behind the
\* segment panic, and so does a header that is longer in the file than in memory;
\* a copy ends with the segment, the fill does not.
Outside(h) ==
  \/ h.paddr < start \/ h.paddr > end
  \/ h.filesz > h.memsz
  \/ h.memsz > h.filesz /\ h.paddr + h.memsz > end
Copied(h) ==
  [k \in DOMAIN mem |->
    LET p == k - (h.paddr - start)
    IN  IF p \in 0..(h.filesz - 1) THEN h.off + p
        ELSE IF p \in h.filesz..(h.memsz - 1) THEN Zero ELSE mem[k]]
LoadHeader ==
  /\ pc = "load"
  /\ IF next > Len(file.headers) THEN pc' = "loaded" /\ UNCHANGED <<next, have, start, end, mem>>
     ELSE LET h == file.headers[next]
          IN  IF ~Available(h) THEN Refuse
              ELSE IF Outside(h) THEN pc' = "panicked" /\ UNCHANGED <<next, have, start, end, mem>>
              ELSE /\ mem' = Copied(h) /\ next' = next + 1
                   /\ UNCHANGED <<pc, have, start, end>>
  /\ UNCHANGED <<file, stream>>

Next == Decode \/ ParseNotes \/ MeasureHeader \/ LoadHeader

Spec == Init /\ [][Next]_vars
FairSpec == Spec /\ WF_vars(Next)
------------------------------------------------------------------------------
(* Properties.                                                              *)

\* A header that is not to be loaded lies in one that is, as a note does; and those
\* that are do not meet, nor are they longer in the file than in memory.
Occupied(h) == h.paddr..(h.paddr + h.memsz - 1)
Inside(f, h) ==
  \E i \in Loads(f) :
    LET l == f.headers[i]
    IN  /\ h.filesz = h.memsz /\ h.paddr >= l.paddr /\ h.paddr - l.paddr = h.off - l.off
        /\ h.paddr + h.filesz <= l.paddr + l.filesz
Plain(f) ==
  /\ \A i \in DOMAIN f.headers \ Loads(f) : Inside(f, f.headers[i])
  /\ \A i \in Loads(f) : f.headers[i].filesz <= f.headers[i].memsz
  /\ \A i, j \in Loads(f) : i # j =>
       Occupied(f.headers[i]) \cap Occupied(f.headers[j]) = {}

\* What an image says of an address.
Says(f, a) ==
  LET here == {i \in Loads(f) : a \in Occupied(f.headers[i])}
  IN  IF here = {} THEN Zero
      ELSE LET l == f.headers[CHOOSE i \in here : TRUE]
           IN  IF a - l.paddr < l.filesz THEN l.off + a - l.paddr ELSE Zero

\* A kernel that was loaded from a plain image is the one of the image, though
\* parse_sync and load look at different headers, and however short the data was
\* that the decoder gave out.
LoadedIsTheImage ==
  pc = "loaded" /\ Plain(file) =>
    /\ \A k \in DOMAIN mem : mem[k] = Says(file, start + k) /\ mem[k] < have
    /\ \A i \in Loads(file) : start <= file.headers[i].paddr
                           /\ file.headers[i].paddr + file.headers[i].memsz <= end

\* Nothing of such an image makes the loader panic.
PlainImagesDoNotPanic == Plain(file) => pc # "panicked"

\* A whole image is found if every place before it gives no output at all.
WholeIsThere ==
  /\ \E n \in DOMAIN stream : /\ stream[n].is = "whole"
                            /\ \A m \in 1..(n - 1) : stream[m].is = "error"
  /\ file.required /\ Plain(file)
WholeIsFound == WholeIsThere => <>(pc = "loaded")
==============================================================================
