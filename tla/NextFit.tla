------------------------------ MODULE NextFit ------------------------------
(***************************************************************************)
(* Next-fit search among the ids 0 .. DEVICE_COUNT - 1: what "the next     *)
(* free id" means, for IdAllocator and for the device modules.             *)
(***************************************************************************)
EXTENDS Naturals

CONSTANT DEVICE_COUNT      \* devalloc.rs:3, 4096 in the code

ASSUME DeviceCountAssumption == DEVICE_COUNT \in Nat \ {0}

Ids == 0 .. DEVICE_COUNT - 1

NoId == DEVICE_COUNT       \* Rust's None: the one value that is no id

Succ(id) == (id + 1) % DEVICE_COUNT

\* The ids met on the way from "from" up to, and without, "to", going round.
\* The arc from an id to itself is empty.
InArc(from, to, id) ==
    IF from <= to THEN from <= id /\ id < to
                  ELSE from <= id \/ id < to

IsNextFree(used, from, id) ==
    /\ id \in Ids \ used
    /\ \A other \in Ids : InArc(from, id, other) => other \in used
=============================================================================
