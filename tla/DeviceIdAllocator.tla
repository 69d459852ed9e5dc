------------------------- MODULE DeviceIdAllocator -------------------------
(***************************************************************************)
(* xenclient/src/devalloc.rs: the bitmap allocator behind device ids and   *)
(* block indexes.  Its owner holds it behind a Mutex, so calls do not      *)
(* interleave; one iteration of the scan in allocate() is one step here.   *)
(* Between transactions the allocator lives in the store as bytes, so      *)
(* serialize() followed by deserialize() is an operation of its own.       *)
(***************************************************************************)
EXTENDS Integers, Sequences

CONSTANTS DEVICE_COUNT,    \* devalloc.rs:3
          Releasable       \* bound: the ids that callers give back

\* A whole number of bytes, and a cursor that fits four of them
ASSUME SizeAssumption ==
    /\ DEVICE_COUNT \in Nat \ {0}
    /\ DEVICE_COUNT % 8 = 0
    /\ DEVICE_COUNT \div (256 * 256 * 256) < 256
ASSUME ReleasableAssumption == Releasable \subseteq 0 .. DEVICE_COUNT - 1

VARIABLES states,          \* the BitVec: one flag for every id
          cursor,          \* where the scan is
          start,           \* allocate()'s local: where its scan began
          pc,              \* "idle", or "scan" inside allocate()'s loop
          ret              \* what the last call returned

vars == <<states, cursor, start, pc, ret>>

BYTE_COUNT == DEVICE_COUNT \div 8

Abs == INSTANCE IdAllocator
         WITH allocated <- {id \in 0 .. DEVICE_COUNT - 1 : states[id]},
              next <- IF pc = "scan" THEN start ELSE cursor

Ids == Abs!Ids
NoId == Abs!NoId
-----------------------------------------------------------------------------
(* The stored form: four little-endian bytes of cursor, then the flags,    *)
(* eight to a byte, the first in the most significant bit.                 *)

Place == <<1, 256, 256 * 256, 256 * 256 * 256>>
Weight == <<128, 64, 32, 16, 8, 4, 2, 1>>

CursorByte(c, n) == (c \div Place[n]) % 256

FlagByte(flags, n) ==
    LET bit(k) == IF flags[8 * n + k] THEN Weight[k + 1] ELSE 0
    IN  bit(0) + bit(1) + bit(2) + bit(3) + bit(4) + bit(5) + bit(6) + bit(7)

serialize(flags, c) ==
    [n \in 1 .. BYTE_COUNT + 4 |->
        IF n <= 4 THEN CursorByte(c, n) ELSE FlagByte(flags, n - 5)]

\* deserialize() refuses any other length, and load_id_allocator then starts
\* from a new allocator.
deserializable(bytes) == Len(bytes) = BYTE_COUNT + 4

CursorOf(bytes) ==
    bytes[1] * Place[1] + bytes[2] * Place[2] + bytes[3] * Place[3]
        + bytes[4] * Place[4]

\* Mutant: the first flag of a byte in its least significant bit
FlagsOfLsbFirst(bytes) ==
    [id \in Ids |-> (bytes[5 + (id \div 8)] \div Weight[8 - (id % 8)]) % 2 = 1]

FlagsOf(bytes) ==
    [id \in Ids |-> (bytes[5 + (id \div 8)] \div Weight[1 + (id % 8)]) % 2 = 1]
-----------------------------------------------------------------------------
Init ==
    /\ states = [id \in Ids |-> FALSE]
    /\ cursor = 0
    /\ start = 0
    /\ pc = "idle"
    /\ ret = NoId

\* Mutant: every scan ends at id 0 instead of where it began
AllocateCallFromZero ==
    /\ pc = "idle"
    /\ pc' = "scan"
    /\ start' = 0
    /\ UNCHANGED <<states, cursor, ret>>

\* allocate() up to its loop
AllocateCall ==
    /\ pc = "idle"
    /\ pc' = "scan"
    /\ start' = cursor
    /\ UNCHANGED <<states, cursor, ret>>

\* Mutant: the cursor does not wrap
ScanTakeNoWrap ==
    /\ pc = "scan"
    /\ ~states[cursor]
    /\ states' = [states EXCEPT ![cursor] = TRUE]
    /\ cursor' = cursor + 1
    /\ ret' = cursor
    /\ pc' = "idle"
    /\ UNCHANGED start

\* One iteration that finds the flag clear: the id is taken and returned.
ScanTake ==
    /\ pc = "scan"
    /\ ~states[cursor]
    /\ states' = [states EXCEPT ![cursor] = TRUE]
    /\ cursor' = (cursor + 1) % DEVICE_COUNT
    /\ ret' = cursor
    /\ pc' = "idle"
    /\ UNCHANGED start

\* Mutant: the test for the full circle is one id early
ScanSkipStopsShort ==
    /\ pc = "scan"
    /\ states[cursor]
    /\ cursor' = (cursor + 1) % DEVICE_COUNT
    /\ IF (cursor + 2) % DEVICE_COUNT = start
         THEN pc' = "idle" /\ ret' = NoId
         ELSE UNCHANGED <<pc, ret>>
    /\ UNCHANGED <<states, start>>

\* Mutant: no test for the full circle
ScanSkipForever ==
    /\ pc = "scan"
    /\ states[cursor]
    /\ cursor' = (cursor + 1) % DEVICE_COUNT
    /\ UNCHANGED <<states, start, pc, ret>>

\* One iteration that finds it set, and stops where the scan began.
ScanSkip ==
    /\ pc = "scan"
    /\ states[cursor]
    /\ cursor' = (cursor + 1) % DEVICE_COUNT
    /\ IF cursor' = start THEN pc' = "idle" /\ ret' = NoId
                          ELSE UNCHANGED <<pc, ret>>
    /\ UNCHANGED <<states, start>>

release(id) ==
    /\ pc = "idle"
    /\ states' = [states EXCEPT ![id] = FALSE]
    /\ ret' = NoId
    /\ UNCHANGED <<cursor, start, pc>>

\* before_commit() writes the bytes, the next transaction loads them.
Reload ==
    LET bytes == serialize(states, cursor)
    IN  /\ pc = "idle"
        /\ IF deserializable(bytes)
             THEN states' = FlagsOf(bytes) /\ cursor' = CursorOf(bytes)
             ELSE states' = [id \in Ids |-> FALSE] /\ cursor' = 0
        /\ UNCHANGED <<start, pc, ret>>

Next ==
    \/ AllocateCall
    \/ ScanTake
    \/ ScanSkip
    \/ \E id \in Releasable : release(id)
    \/ Reload

\* The loop of allocate() runs to its end: nothing in it waits.
Spec == Init /\ [][Next]_vars /\ WF_vars(ScanTake \/ ScanSkip)
-----------------------------------------------------------------------------
TypeOK ==
    /\ states \in [Ids -> BOOLEAN]
    /\ cursor \in Ids
    /\ start \in Ids
    /\ pc \in {"idle", "scan"}
    /\ ret \in Ids \cup {NoId}

\* The scan of allocate() (devalloc.rs:44-59) has skipped ids in use only:
\* whatever lies between where it began and where it is, going round past
\* the last id, is taken.
ScannedAreTaken ==
    pc = "scan" => \A id \in Ids : Abs!InArc(start, cursor, id) => states[id]

\* What a commit stores (devalloc.rs:70-78) the next transaction reads back
\* unchanged (devalloc.rs:25-41): no id is lost or gained on the way, at any
\* cursor, one above 255 included.
StoredFormIsFaithful ==
    LET bytes == serialize(states, cursor)
    IN  /\ deserializable(bytes)
        /\ FlagsOf(bytes) = states
        /\ CursorOf(bytes) = cursor

\* allocate() is next-fit and answers None only when every id is in use,
\* and neither release() nor a trip through the store disturbs that
\* (devalloc.rs:43-64): the allocator implements IdAllocator.
ImplementsIdAllocator == Abs!AbsSpec

\* allocate() returns: the scan meets a free id or comes round to where it
\* began (devalloc.rs:51-58).
AllocateReturns == pc = "scan" ~> pc = "idle"
=============================================================================
