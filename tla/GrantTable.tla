------------------------------- MODULE GrantTable -------------------------------
(***************************************************************************)
(* Mapping granted pages: GrantTab and MappedMemory of xengnt/src/lib.rs.     *)
(* Threads share the device file and the address space.                     *)
(*                                                                          *)
(* The driver gives each group of references an index; a mapping of the file *)
(* at that index is a window.  Indexes and addresses are used again.         *)
(***************************************************************************)
EXTENDS Integers, FiniteSets

CONSTANTS
  Threads,
  Indexes,   \* external: the driver's indexes
  Addresses, \* external: where the kernel may place windows
  None,
  MaxErrors  \* bound: calls that fail

VARIABLES
  table,   \* external: the indexes in use
  windows, \* external: the index behind each address, None without a window
  pc,      \* where each thread is
  index,   \* the index it works with
  addr,    \* the address of its MappedMemory
  errors,  \* calls that failed
  lost,    \* history: indexes whose call failed, never given back
  stuck    \* history: windows whose munmap failed, by address

vars == <<table, windows, pc, index, addr, errors, lost, stuck>>

TypeOK ==
  /\ table \subseteq Indexes /\ lost \subseteq table
  /\ windows \in [Addresses -> Indexes \cup {None}]
  /\ pc \in [Threads -> {"idle", "mmap", "live", "munmap", "unmap"}]
  /\ index \in [Threads -> Indexes \cup {None}]
  /\ addr \in [Threads -> Addresses \cup {None}]
  /\ errors \in 0..MaxErrors /\ stuck \subseteq Addresses

Init ==
  /\ table = {} /\ windows = [a \in Addresses |-> None]
  /\ pc = [t \in Threads |-> "idle"]
  /\ index = [t \in Threads |-> None] /\ addr = [t \in Threads |-> None]
  /\ errors = 0 /\ lost = {} /\ stuck = {}

Goto(t, from, to) == pc[t] = from /\ pc' = [pc EXCEPT ![t] = to]
Error == errors < MaxErrors /\ errors' = errors + 1

\* GrantDevice::map_grant_ref: the references are mapped under an index.
map_grant_ref(t) ==
  /\ Goto(t, "idle", "mmap")
  /\ \E n \in Indexes \ table :
       table' = table \cup {n} /\ index' = [index EXCEPT ![t] = n]
  /\ UNCHANGED <<windows, addr, errors, lost, stuck>>

\* The window.  After EAGAIN the loop tries again.
Mmap(t) ==
  /\ Goto(t, "mmap", "live")
  /\ \E a \in {a \in Addresses : windows[a] = None} :
       /\ windows' = [windows EXCEPT ![a] = index[t]]
       /\ addr' = [addr EXCEPT ![t] = a]
  /\ index' = [index EXCEPT ![t] = None]
  /\ UNCHANGED <<table, errors, lost, stuck>>
\* Another error is returned, and the index stays in use.
MmapFails(t) ==
  /\ Goto(t, "mmap", "idle") /\ Error
  /\ lost' = lost \cup {index[t]}
  /\ index' = [index EXCEPT ![t] = None]
  /\ UNCHANGED <<table, windows, addr, stuck>>

\* Mutant of get_offset_for_vaddr: the window goes before its index is asked for.
get_offset_late(t) ==
  /\ Goto(t, "live", "munmap")
  /\ windows' = [windows EXCEPT ![addr[t]] = None]
  /\ UNCHANGED <<table, index, addr, errors, lost, stuck>>
\* The drop of the MappedMemory asks for the index behind its address,
get_offset_for_vaddr(t) ==
  /\ Goto(t, "live", "munmap")
  /\ index' = [index EXCEPT ![t] = windows[addr[t]]]
  /\ UNCHANGED <<table, windows, addr, errors, lost, stuck>>
\* and does nothing more if that fails,
GetOffsetFails(t) ==
  /\ Goto(t, "live", "idle") /\ Error
  /\ lost' = lost \cup {windows[addr[t]]}
  /\ addr' = [addr EXCEPT ![t] = None]
  /\ UNCHANGED <<table, windows, index, stuck>>
\* takes the window away, an error ignored,
Munmap(t) ==
  /\ Goto(t, "munmap", "unmap")
  /\ \/ windows' = [windows EXCEPT ![addr[t]] = None] /\ UNCHANGED <<errors, stuck>>
     \/ Error /\ stuck' = stuck \cup {addr[t]} /\ UNCHANGED windows
  /\ addr' = [addr EXCEPT ![t] = None]
  /\ UNCHANGED <<table, index, lost>>
\* and gives the index back, whether or not a window is left behind.
unmap_grant_ref(t) ==
  /\ Goto(t, "unmap", "idle")
  /\ \/ table' = table \ {index[t]} /\ UNCHANGED <<errors, lost, stuck>>
     \/ Error /\ lost' = lost \cup {index[t]} /\ UNCHANGED table
  /\ index' = [index EXCEPT ![t] = None]
  /\ UNCHANGED <<windows, addr, stuck>>

Next == \E t \in Threads :
  \/ map_grant_ref(t) \/ Mmap(t) \/ MmapFails(t) \/ get_offset_for_vaddr(t)
  \/ GetOffsetFails(t) \/ Munmap(t) \/ unmap_grant_ref(t)

Spec == Init /\ [][Next]_vars
------------------------------------------------------------------------------
(* Properties.                                                              *)

\* What is seen through the windows but those that should have gone
Shown == {windows[a] : a \in Addresses \ stuck} \ {None}
InHand == {index[t] : t \in Threads} \ {None}

\* Who has a MappedMemory has a window of its own, onto an index of its own:
\* no other thread's drop takes one of them away, and what an munmap that failed
\* has left is nobody's (map_grant_refs, unmap).
MemoryIsOwn ==
  /\ \A t \in Threads : pc[t] = "live" =>
       /\ windows[addr[t]] \in table \ (InHand \cup lost)
       /\ addr[t] \notin stuck
  /\ \A t, u \in Threads : t # u /\ addr[t] # None => addr[t] # addr[u]
  /\ \A a, b \in Addresses \ stuck :
       a # b /\ windows[a] # None => windows[a] # windows[b]

\* An index is in use because of a window, because a call is under way, or
\* because a call failed after it was made; each window left behind took a failure.
IndexesAreAccounted ==
  /\ table = Shown \cup InHand \cup lost
  /\ Cardinality(stuck) <= errors
==============================================================================
