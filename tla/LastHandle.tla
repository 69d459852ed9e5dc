------------------------------- MODULE LastHandle -------------------------------
(***************************************************************************)
(* The end of the store connection: Clone and Drop of XsdSocket in           *)
(* xenstore/src/bus.rs.  The last handle to go aborts the processor task.     *)
(* The drop of EventChannelService in xenevtchn/src/lib.rs has the same form. *)
(*                                                                          *)
(* A drop looks at the number of references while it still has its own, and   *)
(* gives its own up afterwards.                                             *)
(***************************************************************************)
EXTENDS Integers, FiniteSets

CONSTANT Handles

VARIABLES
  live,     \* handles in use
  dropping, \* handles whose drop has looked at the count
  running,  \* the processor task runs
  count,    \* the strong count of the Arc
  overlap   \* history: a handle was dropped while another was

vars == <<live, dropping, running, count, overlap>>

TypeOK ==
  /\ live \subseteq Handles /\ dropping \subseteq Handles
  /\ live \cap dropping = {}
  /\ count = Cardinality(live \cup dropping)
  /\ running \in BOOLEAN /\ overlap \in BOOLEAN

Init ==
  /\ live \in {{h} : h \in Handles}
  /\ dropping = {} /\ running = TRUE /\ count = 1 /\ overlap = FALSE

CloneHandle ==
  /\ live # {}
  /\ \E h \in Handles \ (live \cup dropping) : live' = live \cup {h}
  /\ count' = count + 1
  /\ UNCHANGED <<dropping, running, overlap>>

\* Mutant of Look: one reference too many counts as the last.
LookEarly(h) ==
  /\ h \in live
  /\ live' = live \ {h} /\ dropping' = dropping \cup {h}
  /\ running' = (running /\ count > 2)
  /\ overlap' = (overlap \/ dropping # {})
  /\ UNCHANGED count
Look(h) ==
  /\ h \in live
  /\ live' = live \ {h} /\ dropping' = dropping \cup {h}
  /\ running' = (running /\ count > 1)
  /\ overlap' = (overlap \/ dropping # {})
  /\ UNCHANGED count
\* The fields go after drop.
Release(h) ==
  /\ h \in dropping
  /\ dropping' = dropping \ {h} /\ count' = count - 1
  /\ UNCHANGED <<live, running, overlap>>

Next == CloneHandle \/ \E h \in Handles : Look(h) \/ Release(h)

Spec == Init /\ [][Next]_vars
------------------------------------------------------------------------------
(* Properties.                                                              *)

\* The task is not aborted while a handle is in use.  When none is left it runs
\* on only if two handles were dropped at once: both have counted two.
AbortedWithTheLast ==
  /\ ~running => live = {}
  /\ live \cup dropping = {} /\ running => overlap
==============================================================================
