------------------------------- MODULE MmapBatch -------------------------------
(***************************************************************************)
(* mmap_batch of xencall/src/lib.rs: frames of a domain are mapped into a     *)
(* window, and those that were paged out are tried again.                    *)
(*                                                                          *)
(* The kernel says of each frame whether it was paged out; a frame may be     *)
(* brought back between two tries.                                          *)
(***************************************************************************)
EXTENDS Integers

CONSTANT Num   \* the frames of a batch, one at least

VARIABLES
  away,    \* external: the frames that are paged out
  errors,  \* the frames the kernel last reported as paged out
  mapped,  \* external: the frames that the window shows
  pc,      \* where the call is
  i,       \* the frame it looks at
  first,   \* the first frame of the batch it puts together
  paged,   \* batches tried again
  result   \* what was returned, Failed for an error

vars == <<away, errors, mapped, pc, i, first, paged, result>>

Failed == -1
Pending == -2
Frames == 0..(Num - 1)

TypeOK ==
  /\ away \subseteq Frames /\ errors \subseteq Frames /\ mapped \subseteq Frames
  /\ pc \in {"map", "scan", "extend", "retry", "done"}
  /\ i \in 0..Num /\ first \in Frames
  /\ paged \in 0..1
  /\ result \in {Pending, Failed, 0, 1}

Init ==
  /\ away \in SUBSET Frames
  /\ errors = {} /\ mapped = {} /\ pc = "map" /\ i = 0 /\ first = 0
  /\ paged = 0 /\ result = Pending

Return(r) == pc' = "done" /\ result' = r

\* external: a paged frame is brought back.
PageIn ==
  /\ pc # "done"
  /\ \E f \in away : away' = away \ {f}
  /\ UNCHANGED <<errors, mapped, pc, i, first, paged, result>>

\* The batch as a whole.  Without ENOENT its answer is the answer.
MapAll ==
  /\ pc = "map"
  /\ \/ /\ away = {} /\ mapped' = Frames /\ Return(0) /\ UNCHANGED errors
     \/ /\ away # {}
        /\ mapped' = Frames \ away /\ errors' = away
        /\ pc' = "scan" /\ UNCHANGED result
     \/ Return(Failed) /\ UNCHANGED <<mapped, errors>>
  /\ UNCHANGED <<away, i, first, paged>>

Scan ==
  /\ pc = "scan"
  /\ IF i \notin errors
     THEN i' = i + 1 /\ UNCHANGED <<pc, first, paged>>
     ELSE /\ paged' = paged + 1 /\ first' = i
          /\ pc' = "extend" /\ UNCHANGED i
  /\ UNCHANGED <<away, errors, mapped, result>>

\* The end of the run of paged frames is looked for among the frames only: the
\* loop goes on for ever behind the last.  i is held there.
Extend ==
  /\ pc = "extend"
  /\ i' = IF i < Num THEN i + 1 ELSE Num
  /\ pc' = IF i' < Num /\ i' \notin errors THEN "retry" ELSE "extend"
  /\ UNCHANGED <<away, errors, mapped, first, paged, result>>

\* There are frames behind the batch, so the call returns, with the number of
\* batches it tried again, whatever the second answer was.
Retry ==
  /\ pc = "retry"
  /\ \/ /\ mapped' = mapped \cup (first..(i - 1) \ away)
        /\ errors' = (errors \ (first..(i - 1))) \cup (first..(i - 1) \cap away)
        /\ Return(paged)
     \/ Return(Failed) /\ UNCHANGED <<mapped, errors>>
  /\ UNCHANGED <<away, i, first, paged>>

Call == MapAll \/ Scan \/ Extend \/ Retry
Next == PageIn \/ Call

Spec == Init /\ [][Next]_vars
\* The call is one task, and the kernel answers it.
FairSpec == Spec /\ WF_vars(Call)
------------------------------------------------------------------------------
(* Properties.                                                              *)

\* An answer of 0 means that the window shows every frame: pfn_alloc and
\* map_foreign_pages hand out the window on no other answer.  The search for a
\* paged frame never leaves the array (Scan has no bound of its own).
ZeroMeansMapped ==
  /\ result = 0 => mapped = Frames
  /\ pc = "scan" => \E f \in errors : f >= i

\* The call returns unless the last frame was paged out.
Answerable == pc = "scan" /\ Num - 1 \notin errors
BatchReturns == Answerable ~> (pc = "done")
==============================================================================
