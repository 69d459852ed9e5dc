----------------------------- MODULE BlockDevices -----------------------------
(***************************************************************************)
(* Names and numbers of block devices: vbd_blkidx_to_disk_name of           *)
(* xenclient/src/util.rs, one step for each turn of its loop, and the       *)
(* virtual device numbers of xenclient/src/tx/vbd.rs.                       *)
(*                                                                          *)
(* A name is xvd and letters: a to z, then aa to zz, and so on, as if        *)
(* counted in base 26 with digits 1 to 26.  A letter is its digit, 1 to 26;  *)
(* the loop finds them from the last to the first.                          *)
(***************************************************************************)
EXTENDS Integers, Sequences, SequencesExt

CONSTANT MaxIndex  \* the highest index named
ASSUME IndexAssumption == MaxIndex \in Nat

VARIABLES
  blkid,   \* the argument
  n,       \* what is left to name
  suffix,  \* the digits found, the last letter's first
  pc,
  value,   \* history: the number the digits found stand for
  weight   \* history: what the next digit counts
vars == <<blkid, n, suffix, pc, value, weight>>

Letters == 26

TypeOK ==
  /\ blkid \in 0..MaxIndex
  /\ n \in 0..blkid
  /\ suffix \in Seq(1..Letters)
  /\ pc \in {"loop", "done"}
  /\ value \in Nat /\ weight \in Nat

Init ==
  /\ blkid \in 0..MaxIndex
  /\ n = blkid /\ suffix = <<>> /\ pc = "loop"
  /\ value = 0 /\ weight = 1

\* Mutant of Turn: n / 26 without taking one off, as for a number with zeros.
TurnZeroBased ==
  /\ pc = "loop"
  /\ suffix' = Append(suffix, (n % Letters) + 1)
  /\ value' = value + ((n % Letters) + 1) * weight
  /\ weight' = Letters * weight
  /\ IF n >= Letters
       THEN n' = n \div Letters /\ UNCHANGED pc
       ELSE pc' = "done" /\ UNCHANGED n
  /\ UNCHANGED blkid
Turn ==
  /\ pc = "loop"
  /\ suffix' = Append(suffix, (n % Letters) + 1)
  /\ value' = value + ((n % Letters) + 1) * weight
  /\ weight' = Letters * weight
  /\ IF n >= Letters
       THEN n' = (n \div Letters) - 1 /\ UNCHANGED pc
       ELSE pc' = "done" /\ UNCHANGED n
  /\ UNCHANGED blkid

Next == Turn
Spec == Init /\ [][Next]_vars
FairSpec == Spec /\ WF_vars(Next)

\* A turn takes the last digit off what is left to name, and at the end nothing
\* is left: the invariant of the loop (util.rs:7-16).
Remainder ==
  IF pc = "loop" THEN (n + 1) * weight + value = blkid + 1 ELSE value = blkid + 1

\* The number a name stands for, read as it is written.
NumberOf(name) ==
  LET read[k \in 0..Len(name)] == IF k = 0 THEN 0 ELSE Letters * read[k - 1] + name[k]
  IN  read[Len(name)]

\* The name of a block device is the one at its index, so that two devices never
\* share one (vbd_blkidx_to_disk_name, util.rs:3-20).
NameIsItsNumber == pc = "done" => NumberOf(Reverse(suffix)) = blkid + 1

\* The loop ends.
NameIsFound == <>(pc = "done")

------------------------------------------------------------------------------
(* Virtual device numbers.  Each device has a range of them, one for the    *)
(* disk and one for each of its partitions.                                 *)

StandardDisks == 5             \* the last index with a number of the old kind
StandardBase == 202 * 256      \* major 202, Xen's virtual block device
ExtendedBase == 268435456      \* 2^28
Partitions(idx) == IF idx <= StandardDisks THEN 16 ELSE 256
VirtualDevice(idx) ==
  IF idx <= StandardDisks THEN StandardBase + idx * 16 ELSE ExtendedBase + idx * 256

\* The numbers of device idx, from the disk's to the last partition's.
Numbers(idx) == VirtualDevice(idx) .. (VirtualDevice(idx) + Partitions(idx) - 1)
==============================================================================
