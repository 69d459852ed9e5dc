--------------------------- MODULE DeviceRegistry ---------------------------
(***************************************************************************)
(* What callers of XenTransaction and destroy_device rely on, for the      *)
(* devices of one domain: a list of devices is added in one step, every    *)
(* device gets the next free ids, a disk has a block index besides, and    *)
(* ids come free only after the device that had them is gone.              *)
(***************************************************************************)
EXTENDS NextFit, Sequences, FiniteSets

CONSTANT Orders            \* what may be added at once: lists of kinds

VARIABLES devices,         \* [kind, id, blk] of every device there is
          devs, blks       \* the two allocators: ids in use, search start

regVars == <<devices, devs, blks>>

EmptyAllocator == [used |-> {}, next |-> 0]

\* The n-th id that is free, counted from where the search starts
Free(alloc, n) ==
    CHOOSE id \in Ids \ alloc.used :
        Cardinality({o \in Ids \ alloc.used : InArc(alloc.next, id, o)}) = n - 1

FreeCount(alloc) == Cardinality(Ids \ alloc.used)

Taken(alloc, n) ==
    IF n = 0 THEN alloc
    ELSE [used |-> alloc.used \cup {Free(alloc, i) : i \in 1 .. n},
          next |-> Succ(Free(alloc, n))]

Without(alloc, id) == [alloc EXCEPT !.used = @ \ {id}]

DisksAmong(order, n) == Cardinality({i \in 1 .. n : order[i] = "disk"})
-----------------------------------------------------------------------------
RegInit ==
    /\ devices = {}
    /\ devs = EmptyAllocator
    /\ blks = EmptyAllocator

Add(order) ==
    LET count == Len(order)
        disks == DisksAmong(order, count)
    IN  /\ count <= FreeCount(devs) /\ disks <= FreeCount(blks)
        /\ devices' = devices \cup
               {[kind |-> order[i], id |-> Free(devs, i),
                 blk |-> IF order[i] = "disk" THEN Free(blks, DisksAmong(order, i))
                                              ELSE NoId] : i \in 1 .. count}
        /\ devs' = Taken(devs, count)
        /\ blks' = Taken(blks, disks)

Remove(d) ==
    /\ devices' = devices \ {d}
    /\ UNCHANGED <<devs, blks>>

\* The ids of a removed device come free, both at once.
Release(id, blk) ==
    /\ id \in devs.used /\ \A d \in devices : d.id # id
    /\ blk # NoId => blk \in blks.used /\ \A d \in devices : d.blk # blk
    /\ devs' = Without(devs, id)
    /\ blks' = Without(blks, blk)
    /\ UNCHANGED devices

RegNext ==
    \/ \E order \in Orders : Add(order)
    \/ \E d \in devices : Remove(d)
    \/ \E id \in Ids, blk \in Ids \cup {NoId} : Release(id, blk)

RegSpec == RegInit /\ [][RegNext]_regVars
=============================================================================
