------------------------- MODULE DeviceTransactions -------------------------
(***************************************************************************)
(* xenclient/src/tx/mod.rs and the loops of xenclient/src/lib.rs around    *)
(* it: tasks add and destroy devices of one domain, each through           *)
(* transactions of the store that may be refused and tried again.          *)
(*                                                                         *)
(* The id allocators live in the store as the keys "devid" and "blkid".  A *)
(* transaction loads them, changes its copies, and writes both back when   *)
(* it commits; the store refuses a commit (EAGAIN) when a key that the     *)
(* transaction used was changed after it was first used.                   *)
(*                                                                         *)
(* A task that destroys a device removes the backend node, then the        *)
(* frontend node (destroy_backend, twice), then gives the ids back.        *)
(***************************************************************************)
EXTENDS NextFit, Sequences, FiniteSets, SequencesExt

CONSTANTS Tasks,           \* tasks that call into XenClient for this domain
          Orders,          \* lists of kinds of device, "nic" or "disk"
          MaxCalls,        \* bound: calls begun
          MaxCancels       \* bound: calls given up by their caller

ASSUME BoundsAssumption ==
    /\ IsFiniteSet(Tasks) /\ "driver" \notin Tasks
    /\ Orders \subseteq Seq({"nic", "disk"}) \ {<<>>}
    /\ MaxCalls \in Nat /\ MaxCancels \in Nat

VARIABLES
    devs, blks,            \* the store: devid-alloc-state, blkid-alloc-state
    front, back,           \* the store: nodes of devices
    open,                  \* the store: how many transactions are open
    pc,                    \* where each task is
    order,                 \* the list a task adds
    dev,                   \* the device a task destroys
    side,                  \* the node destroy_backend works on
    txn,                   \* each XenTransaction: its allocators, its new nodes
    results,               \* what the caller's loop has collected
    seen,                  \* the store: keys used by each task's transaction
    stale,                 \* the store: one of them changed since
    near,                  \* the store: nodes were added or removed since
    known,                 \* devices that add calls returned and nobody destroyed
    abandoned,             \* devices whose destroy_device call was given up
    aborting,              \* aborts spawned by Drop and not yet sent
    lost,                  \* transactions left open for good
    calls, cancels

keyVars == <<devs, blks, front, back>>
storeVars == <<open, seen, stale, near>>
localVars == <<order, dev, side, txn, results>>
callerVars == <<known, abandoned, calls, cancels>>
dropVars == <<aborting, lost>>
vars == <<keyVars, storeVars, pc, localVars, callerVars, dropVars>>

NoDevice == [kind |-> "none", id |-> NoId, blk |-> NoId, by |-> 0]
NewAllocator == [used |-> {}, next |-> 0]
NoTransaction == [devs |-> NewAllocator, blks |-> NewAllocator, new |-> <<>>]

Adding(t) == dev[t] = NoDevice

\* The task has a transaction open: a plain XsdTransaction, or, once both
\* allocators are loaded, a XenTransaction, which aborts it when dropped.
Plain(t) == pc[t] \in {"load devid", "load blkid", "read", "close"}
Holds(t) == Plain(t) \/ pc[t] \in {"fill", "commit"}

At(t, from, to) == pc[t] = from /\ pc' = [pc EXCEPT ![t] = to]
-----------------------------------------------------------------------------
(* The store (external).  Changing keys spoils every other transaction     *)
(* that used one of them; adding or removing nodes may spoil any, for they *)
(* share directories.                                                      *)

Changed(t, keys, dirs) ==
    /\ stale' = [u \in Tasks |-> u # t /\ (stale[u] \/ seen[u] \cap keys # {})]
    /\ near' = [u \in Tasks |-> u # t /\ (near[u] \/ (dirs /\ Holds(u)))]

OpenTransaction(t) ==
    /\ open' = open + 1
    /\ seen' = [seen EXCEPT ![t] = {}]
    /\ stale' = [stale EXCEPT ![t] = FALSE]
    /\ near' = [near EXCEPT ![t] = FALSE]

\* Mutant: the allocators are read outside the transaction
UseOutside(t, keys) == UNCHANGED <<open, seen, stale, near>>

Use(t, keys) ==
    /\ seen' = [seen EXCEPT ![t] = @ \cup keys]
    /\ UNCHANGED <<open, stale, near>>

\* The store forgets the transaction of t, which it may still count as open.
Forget(t) ==
    /\ seen' = [seen EXCEPT ![t] = {}]
    /\ stale' = [stale EXCEPT ![t] = FALSE]
    /\ near' = [near EXCEPT ![t] = FALSE]

\* What the store may answer to the end of t's transaction
MayCommit(t) == ~stale[t]
MayRefuse(t) == stale[t] \/ near[t]

DevidKey == <<"alloc", "devid", 0>>
BlkidKey == <<"alloc", "blkid", 0>>
Key(where, d) == <<where, d.kind, d.id>>
Keys(where, ds) == {Key(where, d) : d \in ds}
Nodes(where) == IF where = "front" THEN front ELSE back
HasNode(where, d) == Key(where, d) \in Keys(where, Nodes(where))

\* Nodes written over nodes, and nodes removed, by their keys
Written(nodes, ds) ==
    {n \in nodes : Key("any", n) \notin Keys("any", ds)} \cup ds
Removed(nodes, d) == {n \in nodes : Key("any", n) # Key("any", d)}
-----------------------------------------------------------------------------
Init ==
    /\ devs = NewAllocator /\ blks = NewAllocator
    /\ front = {} /\ back = {} /\ open = 0
    /\ pc = [t \in Tasks |-> "idle"]
    /\ order = [t \in Tasks |-> <<>>]
    /\ dev = [t \in Tasks |-> NoDevice]
    /\ side = [t \in Tasks |-> "back"]
    /\ txn = [t \in Tasks |-> NoTransaction]
    /\ results = [t \in Tasks |-> <<>>]
    /\ seen = [t \in Tasks |-> {}]
    /\ stale = [t \in Tasks |-> FALSE]
    /\ near = [t \in Tasks |-> FALSE]
    /\ known = {} /\ abandoned = {}
    /\ aborting = 0 /\ lost = 0
    /\ calls = 0 /\ cancels = 0

BeginAdd(t, list) ==
    /\ calls < MaxCalls
    /\ At(t, "idle", "begin")
    /\ order' = [order EXCEPT ![t] = list]
    /\ calls' = calls + 1
    /\ UNCHANGED <<keyVars, storeVars, dev, side, txn, results, known, abandoned,
                   cancels, dropVars>>

\* Assumption: a device is destroyed by one call at a time.
BeginDestroy(t, d) ==
    /\ calls < MaxCalls
    /\ At(t, "idle", "find")
    /\ known' = known \ {d}
    /\ dev' = [dev EXCEPT ![t] = d]
    /\ calls' = calls + 1
    /\ UNCHANGED <<keyVars, storeVars, order, side, txn, results, abandoned,
                   cancels, dropVars>>

\* The call is over and its locals are gone.
EndCall(t) ==
    /\ pc' = [pc EXCEPT ![t] = "idle"]
    /\ order' = [order EXCEPT ![t] = <<>>]
    /\ dev' = [dev EXCEPT ![t] = NoDevice]
    /\ side' = [side EXCEPT ![t] = "back"]
    /\ txn' = [txn EXCEPT ![t] = NoTransaction]
    /\ results' = [results EXCEPT ![t] = <<>>]
-----------------------------------------------------------------------------
(* XenTransaction, and the loop that begins again when it was refused      *)

\* Mutant: the lists of results are made before the loop, not in it
BeginKeepsResults(t) ==
    /\ At(t, "begin", "load devid")
    /\ OpenTransaction(t)
    /\ txn' = [txn EXCEPT ![t] = NoTransaction]
    /\ UNCHANGED <<keyVars, order, dev, side, results, callerVars, dropVars>>

Begin(t) ==
    /\ At(t, "begin", "load devid")
    /\ OpenTransaction(t)
    /\ txn' = [txn EXCEPT ![t] = NoTransaction]
    /\ results' = [results EXCEPT ![t] = <<>>]
    /\ UNCHANGED <<keyVars, order, dev, side, callerVars, dropVars>>

LoadDevid(t) ==
    /\ At(t, "load devid", "load blkid")
    /\ Use(t, {DevidKey})
    /\ txn' = [txn EXCEPT ![t].devs = devs]
    /\ UNCHANGED <<keyVars, order, dev, side, results, callerVars, dropVars>>

LoadBlkid(t) ==
    /\ At(t, "load blkid", "fill")
    /\ Use(t, {BlkidKey})
    /\ txn' = [txn EXCEPT ![t].blks = blks]
    /\ UNCHANGED <<keyVars, order, dev, side, results, callerVars, dropVars>>

\* The next free id of an allocator, as a set that is empty when there is none
NextId(alloc) == {id \in Ids : IsNextFree(alloc.used, alloc.next, id)}

\* Mutant: the search start does not wrap
AllocateNoWrap(alloc, id) == [used |-> alloc.used \cup {id}, next |-> id + 1]

Allocate(alloc, id) == [used |-> alloc.used \cup {id}, next |-> Succ(id)]

\* add_to_transaction of the next device in the list, which takes a devid and,
\* for a disk, a block index, and writes both nodes.
AddDevice(t) ==
    LET n == Len(txn[t].new) + 1
        kind == order[t][n]
    IN  /\ pc[t] = "fill" /\ Adding(t)
        /\ \E id \in NextId(txn[t].devs),
              blk \in IF kind = "disk" THEN NextId(txn[t].blks) ELSE {NoId} :
              LET d == [kind |-> kind, id |-> id, blk |-> blk, by |-> t]
              IN  /\ txn' = [txn EXCEPT
                         ![t] = [devs |-> Allocate(@.devs, id),
                                 blks |-> IF kind = "disk" THEN Allocate(@.blks, blk)
                                                           ELSE @.blks,
                                 new |-> Append(@.new, d)]]
                  /\ results' = [results EXCEPT ![t] = Append(@, d)]
                  /\ Use(t, {Key("front", d), Key("back", d)})
        /\ pc' = [pc EXCEPT ![t] = IF n = Len(order[t]) THEN "commit" ELSE "fill"]
        /\ UNCHANGED <<keyVars, order, dev, side, callerVars, dropVars>>

\* Mutant: no Drop for XenTransaction
ExhaustedNoDrop(t) ==
    LET kind == order[t][Len(txn[t].new) + 1]
    IN  /\ pc[t] = "fill" /\ Adding(t)
        /\ \/ NextId(txn[t].devs) = {}
           \/ kind = "disk" /\ NextId(txn[t].blks) = {}
        /\ EndCall(t)
        /\ Forget(t)
        /\ UNCHANGED <<keyVars, open, callerVars, aborting, lost>>

\* DevIdExhausted: the call fails and the dropped transaction is aborted.
Exhausted(t) ==
    LET kind == order[t][Len(txn[t].new) + 1]
    IN  /\ pc[t] = "fill" /\ Adding(t)
        /\ \/ NextId(txn[t].devs) = {}
           \/ kind = "disk" /\ NextId(txn[t].blks) = {}
        /\ EndCall(t)
        /\ Forget(t)
        /\ aborting' = aborting + 1
        /\ UNCHANGED <<keyVars, open, callerVars, lost>>

ReleaseIds(t) ==
    /\ ~Adding(t)
    /\ At(t, "fill", "commit")
    /\ txn' = [txn EXCEPT ![t].devs.used = @ \ {dev[t].id},
                          ![t].blks.used = @ \ {dev[t].blk}]
    /\ UNCHANGED <<keyVars, storeVars, order, dev, side, results, callerVars,
                   dropVars>>

\* Mutant: before_commit stores the devid allocator only
CommitDevidOnly(t) ==
    LET new == ToSet(txn[t].new)
    IN  /\ MayCommit(t)
        /\ At(t, "commit", "reply")
        /\ devs' = txn[t].devs
        /\ front' = Written(front, new)
        /\ back' = Written(back, new)
        /\ open' = open - 1
        /\ seen' = [seen EXCEPT ![t] = {}]
        /\ Changed(t, {DevidKey} \cup Keys("front", new) \cup Keys("back", new), TRUE)
        /\ UNCHANGED <<blks, localVars, callerVars, dropVars>>

\* before_commit writes both allocators, whether they changed or not.
Commit(t) ==
    LET new == ToSet(txn[t].new)
    IN  /\ MayCommit(t)
        /\ At(t, "commit", "reply")
        /\ devs' = txn[t].devs /\ blks' = txn[t].blks
        /\ front' = Written(front, new)
        /\ back' = Written(back, new)
        /\ open' = open - 1
        /\ seen' = [seen EXCEPT ![t] = {}]
        /\ Changed(t, {DevidKey, BlkidKey} \cup Keys("front", new) \cup Keys("back", new),
                   TRUE)
        /\ UNCHANGED <<localVars, callerVars, dropVars>>

\* Mutant: the commit is sent again instead of the transaction begun again
CommitRefusedSentAgain(t) ==
    /\ MayRefuse(t)
    /\ At(t, "commit", "commit")
    /\ UNCHANGED <<keyVars, storeVars, localVars, callerVars, dropVars>>

\* EAGAIN: maybe_commit answers false and the loop begins again.
CommitRefused(t) ==
    /\ MayRefuse(t)
    /\ At(t, "commit", "begin")
    /\ open' = open - 1
    /\ Forget(t)
    /\ UNCHANGED <<keyVars, localVars, callerVars, dropVars>>

Return(t) ==
    /\ pc[t] = "reply"
    /\ known' = known \cup ToSet(results[t])
    /\ EndCall(t)
    /\ UNCHANGED <<keyVars, storeVars, abandoned, calls, cancels, dropVars>>
-----------------------------------------------------------------------------
(* destroy_device and destroy_backend                                      *)

\* The backend path is read from the frontend node.
FindBackend(t) ==
    /\ At(t, "find", "start")
    /\ side' = [side EXCEPT ![t] =
                   IF HasNode("front", dev[t]) THEN "back" ELSE "front"]
    /\ UNCHANGED <<keyVars, storeVars, order, dev, txn, results, callerVars, dropVars>>

\* destroy_backend is done with one node: on to the frontend's, or the ids.
NextSide(t) ==
    /\ pc' = [pc EXCEPT ![t] = IF side[t] = "back" THEN "start" ELSE "begin"]
    /\ side' = [side EXCEPT ![t] = "front"]

StartClose(t) ==
    /\ At(t, "start", "read")
    /\ OpenTransaction(t)
    /\ UNCHANGED <<keyVars, localVars, callerVars, dropVars>>

ReadState(t) ==
    /\ HasNode(side[t], dev[t])
    /\ At(t, "read", "close")
    /\ Use(t, {Key(side[t], dev[t])})
    /\ UNCHANGED <<keyVars, localVars, callerVars, dropVars>>

\* No state: destroy_backend returns and leaves its transaction open.
ReadNothing(t) ==
    /\ pc[t] = "read" /\ ~HasNode(side[t], dev[t])
    /\ NextSide(t)
    /\ Forget(t)
    /\ lost' = lost + 1
    /\ UNCHANGED <<keyVars, open, order, dev, txn, results, callerVars, aborting>>

\* "online" and "state" are written and committed.
Close(t) ==
    /\ MayCommit(t)
    /\ At(t, "close", "wait")
    /\ open' = open - 1
    /\ seen' = [seen EXCEPT ![t] = {}]
    /\ Changed(t, {Key(side[t], dev[t])}, FALSE)
    /\ UNCHANGED <<keyVars, localVars, callerVars, dropVars>>

\* EAGAIN: commit() is an error, and destroy_device fails with it.
CloseRefused(t) ==
    /\ MayRefuse(t) /\ pc[t] = "close"
    /\ open' = open - 1
    /\ Forget(t)
    /\ known' = known \cup {dev[t]}
    /\ EndCall(t)
    /\ UNCHANGED <<keyVars, abandoned, calls, cancels, dropVars>>

\* The driver closed its side, or three waits are over: the node goes.
RemoveNode(t) ==
    /\ pc[t] = "wait"
    /\ IF side[t] = "front"
         THEN front' = Removed(front, dev[t]) /\ UNCHANGED back
         ELSE back' = Removed(back, dev[t]) /\ UNCHANGED front
    /\ Changed(t, {Key(side[t], dev[t])}, TRUE)
    /\ NextSide(t)
    /\ UNCHANGED <<devs, blks, open, seen, order, dev, txn, results, callerVars,
                   dropVars>>
-----------------------------------------------------------------------------
\* A caller gives up: the future is dropped wherever it is.  Only between the
\* loads and the commit does a transaction end with it.
Cancel(t) ==
    /\ cancels < MaxCancels
    /\ pc[t] # "idle"
    /\ cancels' = cancels + 1
    /\ abandoned' = IF Adding(t) THEN abandoned ELSE abandoned \cup {dev[t]}
    /\ aborting' = IF pc[t] = "fill" THEN aborting + 1 ELSE aborting
    /\ lost' = IF Plain(t) \/ pc[t] = "commit" THEN lost + 1 ELSE lost
    /\ EndCall(t)
    /\ Forget(t)
    /\ UNCHANGED <<keyVars, open, known, calls>>

\* The task that Drop spawned
Abort ==
    /\ aborting > 0
    /\ aborting' = aborting - 1
    /\ open' = open - 1
    /\ UNCHANGED <<keyVars, seen, stale, near, pc, localVars, callerVars, lost>>

\* A driver (external) writes the state of its node.
DriverWrites(where, d) ==
    /\ Changed("driver", {Key(where, d)}, FALSE)
    /\ UNCHANGED <<keyVars, open, seen, pc, localVars, callerVars, dropVars>>
-----------------------------------------------------------------------------
Task(t) ==
    \/ Begin(t) \/ LoadDevid(t) \/ LoadBlkid(t)
    \/ AddDevice(t) \/ Exhausted(t) \/ ReleaseIds(t)
    \/ Commit(t) \/ CommitRefused(t) \/ Return(t)
    \/ FindBackend(t) \/ StartClose(t) \/ ReadState(t) \/ ReadNothing(t)
    \/ Close(t) \/ CloseRefused(t) \/ RemoveNode(t)

Next ==
    \/ \E t \in Tasks : \/ \E list \in Orders : BeginAdd(t, list)
                        \/ \E d \in known : BeginDestroy(t, d)
                        \/ Task(t)
                        \/ Cancel(t)
    \/ Abort
    \/ \E where \in {"front", "back"} :
          \E d \in Nodes(where) : DriverWrites(where, d)

Spec == Init /\ [][Next]_vars

\* A task whose call is in progress is polled and the store answers it; the
\* spawned aborts run.  Nothing obliges anybody to begin a call or a driver to
\* act.
FairSpec == Spec /\ (\A t \in Tasks : WF_vars(Task(t))) /\ WF_vars(Abort)
-----------------------------------------------------------------------------
Allocator == [used : SUBSET Ids, next : Ids]
Device == [kind : {"nic", "disk"}, id : Ids, blk : Ids \cup {NoId}, by : Tasks]
Transaction == [devs : Allocator, blks : Allocator, new : Seq(Device)]
Places == {"idle", "begin", "load devid", "load blkid", "fill", "commit",
           "reply", "find", "start", "read", "close", "wait"}

TypeOK ==
    /\ devs \in Allocator /\ blks \in Allocator
    /\ front \subseteq Device /\ back \subseteq Device /\ open \in Nat
    /\ pc \in [Tasks -> Places]
    /\ order \in [Tasks -> Orders \cup {<<>>}]
    /\ dev \in [Tasks -> Device \cup {NoDevice}]
    /\ side \in [Tasks -> {"front", "back"}]
    /\ txn \in [Tasks -> Transaction]
    /\ results \in [Tasks -> Seq(Device)]
    /\ stale \in [Tasks -> BOOLEAN] /\ near \in [Tasks -> BOOLEAN]
    /\ known \subseteq Device /\ abandoned \subseteq Device
    /\ aborting \in Nat /\ lost \in Nat /\ calls \in Nat /\ cancels \in Nat

\* No two devices of the domain share an id, no two disks a block index, and
\* whatever has a node or is in a caller's hands holds its ids in the stored
\* allocators (tx/mod.rs:51-66, 299-315; lib.rs:257, 278-287).
DevicesHoldTheirIds ==
    LET all == front \cup back \cup known
    IN  /\ \A d \in all : /\ d.id \in devs.used
                          /\ d.kind = "disk" => d.blk \in blks.used
        /\ \A d, e \in all :
              d # e => /\ d.id # e.id
                       /\ {d.kind, e.kind} = {"disk"} => d.blk # e.blk

\* No id is lost: each belongs to a device in the store, in a caller's hands or
\* on its way out.  In particular a refused or failed attempt to add devices
\* takes none (tx/mod.rs:299-321, lib.rs:98-141).
IdsAreAccounted ==
    LET owners == front \cup known \cup abandoned
                    \cup {dev[t] : t \in {u \in Tasks : ~Adding(u) /\ pc[u] # "reply"}}
    IN  /\ devs.used \subseteq {d.id : d \in owners}
        /\ blks.used \subseteq {d.blk : d \in owners}

\* Both: the stored allocators and the devices agree.
IdsMatchDevices == DevicesHoldTheirIds /\ IdsAreAccounted

\* The devices a call returns are those that its one committed transaction
\* wrote, none of an attempt that was refused (lib.rs:98-141).
ReturnedDevicesAreStored == known \subseteq front

\* The store has no transaction open but those in progress, those that are being
\* aborted, and those that a cancelled call or destroy_backend of a node that is
\* gone have left (tx/mod.rs:331-341, lib.rs:229-231).
TransactionsAreAccounted ==
    open = Cardinality({t \in Tasks : Holds(t)}) + aborting + lost

\* Every call ends, refused as its commits may be (lib.rs:98-141, 278-287).
CallsEnd == \A t \in Tasks : pc[t] # "idle" ~> pc[t] = "idle"

Registry == INSTANCE DeviceRegistry
              WITH devices <- {[kind |-> d.kind, id |-> d.id, blk |-> d.blk] :
                                  d \in front}

\* For its callers the calls take effect one after the other, as one step each
\* (tx/mod.rs:30-49, 299-321; lib.rs:98-141, 261-289).
ImplementsRegistry == Registry!RegSpec
=============================================================================
