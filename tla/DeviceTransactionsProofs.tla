---------------------- MODULE DeviceTransactionsProofs ----------------------
(***************************************************************************)
(* Proofs about DeviceTransactions for any finite set of tasks, any number  *)
(* of ids, any lists of devices and any number of calls and cancellations:  *)
(* its invariants, and that it implements DeviceRegistry.                   *)
(***************************************************************************)
EXTENDS DeviceTransactions, FiniteSetTheorems, SequenceTheorems, TLAPS

(* What has to be known of the store *)

AllKeys == {"alloc", "front", "back"} \X {"devid", "blkid", "nic", "disk"} \X Nat

Types == TypeOK /\ seen \in [Tasks -> SUBSET AllKeys]

Tearing == {"find", "start", "read", "close", "wait"}
Releasing == {"begin", "load devid", "load blkid", "fill", "commit"}

\* A task has a device on its way out until the commit that gives back its ids.
Out(t) == ~Adding(t) /\ pc[t] # "reply"
Leaving == {dev[t] : t \in {u \in Tasks : Out(u)}}
Live == front \cup back \cup known \cup Leaving
Owners == front \cup known \cup abandoned \cup Leaving

\* Devices of one set share no id, and disks no block index.
Apart(S) ==
    \A d, e \in S :
        d # e => /\ d.id # e.id
                 /\ d.kind = "disk" /\ e.kind = "disk" => d.blk # e.blk
Held(S) ==
    \A d \in S : /\ d.id \in devs.used
                 /\ d.kind = "disk" => d.blk \in blks.used
NicsBare(S) == \A d \in S : d.kind = "nic" => d.blk = NoId

LiveHold == Held(Live) /\ Apart(Live) /\ NicsBare(Live)

\* The ids and block indexes of a set of devices
IdsOf(S) == {d.id : d \in S}
BlksOf(S) == {d.blk : d \in {e \in S : e.kind = "disk"}}

Accounted ==
    /\ devs.used \subseteq {d.id : d \in Owners}
    /\ blks.used \subseteq {d.blk : d \in Owners}

\* What a task has at each place of its call
Shape(t) ==
    /\ pc[t] = "idle" => Adding(t)
    /\ pc[t] \in Tearing => ~Adding(t)
    /\ pc[t] \in {"idle", "find"} => side[t] = "back"
    /\ ~Adding(t) => results[t] = <<>> /\ txn[t].new = <<>>
    /\ pc[t] \in {"idle", "load devid", "load blkid"} =>
          results[t] = <<>> /\ txn[t].new = <<>>
    /\ pc[t] \in Releasing /\ Adding(t) => order[t] \in Orders
    /\ pc[t] = "fill" /\ Adding(t) => Len(txn[t].new) < Len(order[t])
    /\ pc[t] \in {"fill", "commit", "reply"} => results[t] = txn[t].new
    /\ \A d \in ToSet(txn[t].new) : d.by = t

\* The allocators of an attempt that adds devices, over the stored ones
Extends(t, new) ==
    /\ txn[t].devs.used = devs.used \cup IdsOf(new)
    /\ txn[t].blks.used = blks.used \cup BlksOf(new)
    /\ \A d \in new : /\ d.id \notin devs.used
                      /\ d.kind = "disk" => d.blk \notin blks.used
    /\ Apart(new) /\ NicsBare(new)

\* The transaction of a task was spoilt, or its allocators are the stored ones
\* and what the task has changed in them.
Loaded(t) ==
    /\ pc[t] = "load blkid" =>
          DevidKey \in seen[t] /\ (~stale[t] => txn[t].devs = devs)
    /\ pc[t] \in {"fill", "commit"} =>
          /\ DevidKey \in seen[t]
          /\ ~stale[t] /\ Adding(t) => Extends(t, ToSet(txn[t].new))
          /\ ~stale[t] /\ ~Adding(t) =>
                LET T == txn[t]
                IN  IF pc[t] = "fill"
                      THEN T.devs = devs /\ T.blks = blks
                      ELSE /\ T.devs.used = devs.used \ {dev[t].id}
                           /\ T.blks.used = blks.used \ {dev[t].blk}

\* Where a device is that a task destroys
Going(t) ==
    Out(t) =>
      /\ dev[t] \notin known
      /\ \A u \in Tasks : u # t /\ Out(u) => dev[u] # dev[t]
      /\ pc[t] \in Tearing => dev[t] \in front
      /\ pc[t] \in Tearing /\ side[t] = "front" => dev[t] \notin back
      /\ pc[t] \in Releasing => dev[t] \notin front \cup back

\* Devices of a committed attempt are nobody's until the call returns.
Fresh(t) ==
    pc[t] = "reply" =>
      /\ ToSet(results[t]) \subseteq front \ known
      /\ \A u \in Tasks : Out(u) => dev[u] \notin ToSet(results[t])

Local == \A t \in Tasks : Shape(t)
Synced == \A t \in Tasks : Loaded(t)
Placed == known \subseteq front /\ \A t \in Tasks : Going(t) /\ Fresh(t)

IInv == Types /\ Local /\ Synced /\ Placed /\ LiveHold /\ Accounted
-----------------------------------------------------------------------------
(* Facts about the constants, keys and lists *)

LEMMA Basics ==
    /\ NoDevice \notin Device /\ NoId \notin Ids
    /\ 0 \in Ids /\ Ids \subseteq Nat
    /\ \A id \in Ids : Succ(id) \in Ids
    /\ DevidKey \in AllKeys /\ BlkidKey \in AllKeys /\ DevidKey # BlkidKey
    /\ \A d \in Device : Key("front", d) \in AllKeys /\ Key("back", d) \in AllKeys
<1>1. DEVICE_COUNT \in Nat /\ DEVICE_COUNT > 0
  BY DeviceCountAssumption
<1>2. NoId \notin Ids /\ 0 \in Ids /\ Ids \subseteq Nat
  BY <1>1 DEF NoId, Ids
<1>3. \A id \in Ids : Succ(id) \in Ids
  BY <1>1 DEF Succ, Ids
<1>4. NoDevice \notin Device
  BY DEF NoDevice, Device
<1>5. DevidKey \in AllKeys /\ BlkidKey \in AllKeys /\ DevidKey # BlkidKey
  BY DEF DevidKey, BlkidKey, AllKeys
<1>6. ASSUME NEW d \in Device
      PROVE  Key("front", d) \in AllKeys /\ Key("back", d) \in AllKeys
  BY <1>2 DEF Key, AllKeys, Device
<1> QED BY <1>2, <1>3, <1>4, <1>5, <1>6

\* What a list of devices holds, and what appending to it adds
LEMMA Lists ==
    /\ <<>> \in Seq(Device) /\ ToSet(<<>>) = {} /\ Len(<<>>) = 0
    /\ \A s \in Seq(Device) :
          /\ ToSet(s) \subseteq Device /\ Len(s) \in Nat
          /\ \A d \in Device : /\ Append(s, d) \in Seq(Device)
                              /\ Len(Append(s, d)) = Len(s) + 1
                              /\ ToSet(Append(s, d)) = ToSet(s) \cup {d}
<1>1. <<>> \in Seq(Device) /\ ToSet(<<>>) = {} /\ Len(<<>>) = 0
  BY DEF ToSet
<1>2. ASSUME NEW s \in Seq(Device)
      PROVE  ToSet(s) \subseteq Device /\ Len(s) \in Nat
  BY <1>2 DEF ToSet
<1>3. ASSUME NEW s \in Seq(Device), NEW d \in Device
      PROVE  /\ Append(s, d) \in Seq(Device)
             /\ Len(Append(s, d)) = Len(s) + 1
             /\ ToSet(Append(s, d)) = ToSet(s) \cup {d}
  <2>1. /\ Len(s) \in Nat /\ DOMAIN s = 1 .. Len(s)
        /\ DOMAIN Append(s, d) = 1 .. Len(s) + 1
        /\ Append(s, d) \in Seq(Device) /\ Len(Append(s, d)) = Len(s) + 1
        /\ Append(s, d)[Len(s) + 1] = d
        /\ \A i \in 1 .. Len(s) : Append(s, d)[i] = s[i]
    BY AppendProperties, LenProperties
  <2>2. ASSUME NEW e \in ToSet(Append(s, d)) PROVE e \in ToSet(s) \cup {d}
    BY <2>1, <2>2 DEF ToSet
  <2>3. ASSUME NEW e \in ToSet(s) PROVE e \in ToSet(Append(s, d))
    BY <2>1, <2>3 DEF ToSet
  <2>4. d \in ToSet(Append(s, d))
    <3>1. Len(s) + 1 \in 1 .. Len(s) + 1
      BY <2>1
    <3> QED BY <2>1, <3>1 DEF ToSet
  <2> QED BY <2>1, <2>2, <2>3, <2>4
<1> QED BY <1>1, <1>2, <1>3

\* The kinds of the devices in a list
LEMMA Kinds ==
    ASSUME NEW list \in Orders
    PROVE  /\ list \in Seq({"nic", "disk"}) /\ Len(list) \in Nat /\ Len(list) > 0
           /\ \A n \in 1 .. Len(list) : list[n] \in {"nic", "disk"}
  BY BoundsAssumption, EmptySeq, LenProperties, ElementOfSeq
-----------------------------------------------------------------------------
(* Open transactions *)

Count == Cardinality({t \in Tasks : Holds(t)})

\* How the number of tasks that have a transaction open changes with a step of one
LEMMA CountStep ==
    ASSUME NEW t \in Tasks, NEW place, DOMAIN pc = Tasks,
           pc' = [pc EXCEPT ![t] = place]
    PROVE  /\ Count \in Nat /\ Count' \in Nat
           /\ (Holds(t) <=> Holds(t)') => Count' = Count
           /\ ~Holds(t) /\ Holds(t)' => Count' = Count + 1
           /\ Holds(t) /\ ~Holds(t)' => Count = Count' + 1
<1> DEFINE H == {u \in Tasks : Holds(u)}
<1>1. \A u \in Tasks : u # t => (Holds(u) <=> Holds(u)')
  BY DEF Holds, Plain
<1>2. H' = IF Holds(t)' THEN H \cup {t} ELSE H \ {t}
  BY <1>1
<1>3. IsFiniteSet(H)
  BY BoundsAssumption, FS_Subset
<1>4. Cardinality(H) \in Nat /\ (t \in H => Cardinality(H) # 0)
  BY <1>3, FS_CardinalityType, FS_EmptySet
<1>5. /\ Cardinality(H \cup {t}) = IF t \in H THEN Cardinality(H) ELSE Cardinality(H) + 1
      /\ Cardinality(H \ {t}) = IF t \in H THEN Cardinality(H) - 1 ELSE Cardinality(H)
  BY <1>3, FS_AddElement, FS_RemoveElement
<1>6. t \in H <=> Holds(t)
  OBVIOUS
<1>7. Count = Cardinality(H) /\ Count' = Cardinality(H')
  BY DEF Count
<1> HIDE DEF H
<1> QED BY <1>2, <1>4, <1>5, <1>6, <1>7

\* Every place of a call is one.
LEMMA PlaceNames ==
    /\ "idle" \in Places /\ "reply" \in Places /\ "begin" \in Places
    /\ "load devid" \in Places /\ "load blkid" \in Places /\ "fill" \in Places
    /\ "commit" \in Places /\ "find" \in Places /\ "start" \in Places
    /\ "read" \in Places /\ "close" \in Places /\ "wait" \in Places
  BY DEF Places

\* A task moves from one place to another.
LEMMA Moves ==
    ASSUME pc \in [Tasks -> Places], NEW t \in Tasks, NEW from, NEW to \in Places,
           At(t, from, to)
    PROVE  /\ pc' \in [Tasks -> Places] /\ pc' = [pc EXCEPT ![t] = to]
           /\ pc[t] = from /\ pc'[t] = to
  BY DEF At

\* What changes of a transaction when one of its allocators does
LEMMA TxnSteps ==
    ASSUME txn \in [Tasks -> Transaction], NEW t \in Tasks
    PROVE  /\ \A a \in Allocator :
                /\ txn' = [txn EXCEPT ![t].devs = a] =>
                      /\ txn' \in [Tasks -> Transaction]
                      /\ txn'[t].devs = a /\ txn'[t].blks = txn[t].blks
                      /\ txn'[t].new = txn[t].new
                      /\ \A u \in Tasks : u # t => txn'[u] = txn[u]
                /\ txn' = [txn EXCEPT ![t].blks = a] =>
                      /\ txn' \in [Tasks -> Transaction]
                      /\ txn'[t].blks = a /\ txn'[t].devs = txn[t].devs
                      /\ txn'[t].new = txn[t].new
                      /\ \A u \in Tasks : u # t => txn'[u] = txn[u]
           /\ \A i, b : 
                txn' = [txn EXCEPT ![t].devs.used = @ \ {i}, ![t].blks.used = @ \ {b}] =>
                      /\ txn' \in [Tasks -> Transaction]
                      /\ txn'[t].devs.used = txn[t].devs.used \ {i}
                      /\ txn'[t].blks.used = txn[t].blks.used \ {b}
                      /\ txn'[t].new = txn[t].new
                      /\ \A u \in Tasks : u # t => txn'[u] = txn[u]
<1>1. ASSUME NEW a \in Allocator, txn' = [txn EXCEPT ![t].devs = a]
      PROVE  /\ txn' \in [Tasks -> Transaction]
             /\ txn'[t].devs = a /\ txn'[t].blks = txn[t].blks
             /\ txn'[t].new = txn[t].new
             /\ \A u \in Tasks : u # t => txn'[u] = txn[u]
  BY <1>1 DEF Transaction
<1>2. ASSUME NEW a \in Allocator, txn' = [txn EXCEPT ![t].blks = a]
      PROVE  /\ txn' \in [Tasks -> Transaction]
             /\ txn'[t].blks = a /\ txn'[t].devs = txn[t].devs
             /\ txn'[t].new = txn[t].new
             /\ \A u \in Tasks : u # t => txn'[u] = txn[u]
  BY <1>2 DEF Transaction
<1>3. ASSUME NEW i, NEW b,
             txn' = [txn EXCEPT ![t].devs.used = @ \ {i}, ![t].blks.used = @ \ {b}]
      PROVE  /\ txn' \in [Tasks -> Transaction]
             /\ txn'[t].devs.used = txn[t].devs.used \ {i}
             /\ txn'[t].blks.used = txn[t].blks.used \ {b}
             /\ txn'[t].new = txn[t].new
             /\ \A u \in Tasks : u # t => txn'[u] = txn[u]
  <2>1. /\ txn'[t].devs = [txn[t].devs EXCEPT !.used = txn[t].devs.used \ {i}]
        /\ txn'[t].blks = [txn[t].blks EXCEPT !.used = txn[t].blks.used \ {b}]
        /\ txn'[t].new = txn[t].new
    BY <1>3 DEF Transaction
  <2>2. txn' = [txn EXCEPT ![t] = txn'[t]]
    BY <1>3
  <2>3. txn'[t] = [devs |-> txn'[t].devs, blks |-> txn'[t].blks, new |-> txn'[t].new]
    BY <1>3 DEF Transaction
  <2>4. txn'[t] \in Transaction
    <3>1. txn[t].devs \in Allocator /\ txn[t].blks \in Allocator /\ txn[t].new \in Seq(Device)
      BY DEF Transaction
    <3>2. txn'[t].devs \in Allocator /\ txn'[t].blks \in Allocator
      <4>1. [txn[t].devs EXCEPT !.used = txn[t].devs.used \ {i}] \in Allocator
        BY <3>1 DEF Allocator
      <4>2. [txn[t].blks EXCEPT !.used = txn[t].blks.used \ {b}] \in Allocator
        BY <3>1 DEF Allocator
      <4> QED BY <2>1, <4>1, <4>2
    <3> QED BY <2>1, <2>3, <3>1, <3>2 DEF Transaction
  <2>5. txn' \in [Tasks -> Transaction]
    BY <2>2, <2>4
  <2>6. /\ txn'[t].devs.used = txn[t].devs.used \ {i}
        /\ txn'[t].blks.used = txn[t].blks.used \ {b}
    BY <2>1 DEF Transaction, Allocator
  <2> QED BY <1>3, <2>1, <2>5, <2>6
<1> QED BY <1>1, <1>2, <1>3

\* What the end of a call leaves of it
LEMMA EndCallTypes ==
    ASSUME Types, NEW t \in Tasks, EndCall(t)
    PROVE  /\ pc' \in [Tasks -> Places] /\ pc' = [pc EXCEPT ![t] = "idle"]
           /\ order' \in [Tasks -> Orders \cup {<<>>}]
           /\ dev' \in [Tasks -> Device \cup {NoDevice}]
           /\ side' \in [Tasks -> {"front", "back"}]
           /\ txn' \in [Tasks -> Transaction]
           /\ results' \in [Tasks -> Seq(Device)]
           /\ txn'[t].new = <<>> /\ results'[t] = <<>> /\ dev'[t] = NoDevice
           /\ pc'[t] = "idle"
<1>1. NoTransaction \in Transaction /\ NoTransaction.new = <<>>
  BY Basics, Lists DEF NewAllocator, Allocator, NoTransaction, Transaction
<1>2. pc' \in [Tasks -> Places] /\ pc' = [pc EXCEPT ![t] = "idle"] /\ pc'[t] = "idle"
  BY PlaceNames DEF EndCall, Types, TypeOK
<1>3. txn' \in [Tasks -> Transaction] /\ txn'[t].new = <<>>
  BY <1>1 DEF EndCall, Types, TypeOK
<1>4. results' \in [Tasks -> Seq(Device)] /\ results'[t] = <<>>
  BY Lists DEF EndCall, Types, TypeOK
<1> QED BY <1>2, <1>3, <1>4 DEF EndCall, Types, TypeOK

\* Flags that the store keeps for transactions stay flags.
LEMMA FlagTypes ==
    ASSUME Types
    PROVE  /\ \A t, keys, dirs : Changed(t, keys, dirs) =>
                 stale' \in [Tasks -> BOOLEAN] /\ near' \in [Tasks -> BOOLEAN]
           /\ \A t \in Tasks : Forget(t) =>
                 /\ stale' \in [Tasks -> BOOLEAN] /\ near' \in [Tasks -> BOOLEAN]
                 /\ seen' \in [Tasks -> SUBSET AllKeys]
<1>1. ASSUME NEW t, NEW keys, NEW dirs, Changed(t, keys, dirs)
      PROVE  stale' \in [Tasks -> BOOLEAN] /\ near' \in [Tasks -> BOOLEAN]
  BY <1>1 DEF Changed
<1>2. ASSUME NEW t \in Tasks, Forget(t)
      PROVE  /\ stale' \in [Tasks -> BOOLEAN] /\ near' \in [Tasks -> BOOLEAN]
             /\ seen' \in [Tasks -> SUBSET AllKeys]
  BY <1>2 DEF Forget, Types, TypeOK
<1> QED BY <1>1, <1>2

\* A step that keeps the types and the account of open transactions
Steady == Types' /\ TransactionsAreAccounted'

LEMMA BeginAddSteady ==
    ASSUME Types, TransactionsAreAccounted, NEW t \in Tasks, NEW list \in Orders,
           BeginAdd(t, list)
    PROVE  Steady
<1>1. At(t, "idle", "begin") /\ pc' \in [Tasks -> Places]
  BY PlaceNames, Moves DEF BeginAdd, Types, TypeOK
<1>2. Count' = Count /\ Count \in Nat
  BY <1>1, CountStep DEF At, Types, TypeOK, Holds, Plain
<1>3. calls' \in Nat
  <2>1. calls \in Nat
    BY DEF Types, TypeOK
  <2> QED BY <2>1 DEF BeginAdd
<1>4. Types'
  BY <1>1, <1>3 DEF BeginAdd, Types, TypeOK, keyVars, storeVars, dropVars
<1> QED BY <1>2, <1>4 DEF BeginAdd, storeVars, dropVars, TransactionsAreAccounted, Count,
                          Steady

LEMMA BeginDestroySteady ==
    ASSUME Types, TransactionsAreAccounted, NEW t \in Tasks, NEW d \in known,
           BeginDestroy(t, d)
    PROVE  Steady
<1>1. At(t, "idle", "find") /\ pc' \in [Tasks -> Places]
  BY PlaceNames, Moves DEF BeginDestroy, Types, TypeOK
<1>2. Count' = Count /\ Count \in Nat
  BY <1>1, CountStep DEF At, Types, TypeOK, Holds, Plain
<1>3. calls' \in Nat
  <2>1. calls \in Nat
    BY DEF Types, TypeOK
  <2> QED BY <2>1 DEF BeginDestroy
<1>4. Types'
  BY <1>1, <1>3 DEF BeginDestroy, Types, TypeOK, keyVars, storeVars, dropVars
<1> QED BY <1>2, <1>4 DEF BeginDestroy, storeVars, dropVars, TransactionsAreAccounted,
                          Count, Steady

\* The steps that open a transaction
LEMMA OpenSteady ==
    ASSUME Types, TransactionsAreAccounted, NEW t \in Tasks,
           Begin(t) \/ StartClose(t)
    PROVE  Steady
<1>1. /\ pc' \in [Tasks -> Places]
      /\ At(t, "begin", "load devid") \/ At(t, "start", "read")
      /\ OpenTransaction(t)
  BY PlaceNames, Moves DEF Begin, StartClose, Types, TypeOK
<1>2. Count' = Count + 1 /\ Count \in Nat
  BY <1>1, CountStep DEF At, Types, TypeOK, Holds, Plain
<1>3. NoTransaction \in Transaction
  BY Basics, Lists DEF NewAllocator, Allocator, NoTransaction, Transaction
<1>4. txn' \in [Tasks -> Transaction]
  BY <1>3 DEF Begin, StartClose, Types, TypeOK, localVars
<1>5. results' \in [Tasks -> Seq(Device)]
  BY Lists DEF Begin, StartClose, Types, TypeOK, localVars
<1>6. open' = open + 1 /\ open' \in Nat
  <2>1. open \in Nat
    BY DEF Types, TypeOK
  <2>2. open' = open + 1
    BY <1>1 DEF OpenTransaction
  <2> QED BY <2>1, <2>2
<1>7. stale' \in [Tasks -> BOOLEAN] /\ near' \in [Tasks -> BOOLEAN]
      /\ seen' \in [Tasks -> SUBSET AllKeys]
  BY <1>1 DEF OpenTransaction, Types, TypeOK
<1>8. UNCHANGED <<keyVars, order, dev, side, callerVars, dropVars>>
  BY DEF Begin, StartClose, localVars
<1>9. Types'
  BY <1>1, <1>4, <1>5, <1>6, <1>8, <1>7 DEF Types, TypeOK, keyVars, callerVars, dropVars
<1>10. aborting \in Nat /\ lost \in Nat /\ open = Count + aborting + lost
  BY DEF Types, TypeOK, TransactionsAreAccounted, Count
<1>11. open' = Count' + aborting' + lost'
  BY <1>2, <1>6, <1>8, <1>10 DEF dropVars
<1> QED BY <1>9, <1>11 DEF TransactionsAreAccounted, Count, Steady

\* The steps that use an open one
LEMMA LoadSteady ==
    ASSUME Types, TransactionsAreAccounted, NEW t \in Tasks,
           LoadDevid(t) \/ LoadBlkid(t) \/ ReadState(t)
    PROVE  Steady
<1>1. /\ pc' \in [Tasks -> Places]
      /\ \/ At(t, "load devid", "load blkid") \/ At(t, "load blkid", "fill")
         \/ At(t, "read", "close")
  BY PlaceNames, Moves DEF LoadDevid, LoadBlkid, ReadState, Types, TypeOK
<1>2. Count' = Count /\ Count \in Nat
  BY <1>1, CountStep DEF At, Types, TypeOK, Holds, Plain
<1>3. txn' \in [Tasks -> Transaction]
  BY TxnSteps DEF LoadDevid, LoadBlkid, ReadState, Types, TypeOK, localVars
<1>4. UNCHANGED <<keyVars, open, stale, near, order, dev, side, results, callerVars,
                  dropVars>>
  BY DEF LoadDevid, LoadBlkid, ReadState, Use, localVars
<1>5. seen' \in [Tasks -> SUBSET AllKeys]
  <2>1. CASE LoadDevid(t) \/ LoadBlkid(t)
    <3>1. PICK k \in AllKeys : Use(t, {k})
      BY <2>1, Basics DEF LoadDevid, LoadBlkid
    <3> QED BY <3>1 DEF Use, Types
  <2>2. CASE ReadState(t)
    <3>1. dev[t] \in Device
      <4>1. PICK n \in Nodes(side[t]) : Key(side[t], dev[t]) = Key(side[t], n)
        BY <2>2 DEF ReadState, HasNode, Keys
      <4>2. n \in Device /\ n.kind # "none"
        BY DEF Nodes, Types, TypeOK, Device
      <4> QED BY <4>1, <4>2 DEF Key, Types, TypeOK, NoDevice
    <3>2. Key(side[t], dev[t]) \in AllKeys
      BY <3>1, Basics DEF Types, TypeOK
    <3> QED BY <2>2, <3>2 DEF ReadState, Use, Types
  <2> QED BY <2>1, <2>2
<1>6. Types'
  BY <1>1, <1>3, <1>4, <1>5 DEF Types, TypeOK, keyVars, callerVars, dropVars
<1> QED BY <1>2, <1>4, <1>6 DEF dropVars, TransactionsAreAccounted, Count, Steady

\* The device that add_to_transaction makes, and what it changes
Adds(t, d) ==
    /\ d.by = t /\ d.id \notin txn[t].devs.used
    /\ d.kind = "nic" => d.blk = NoId
    /\ d.kind = "disk" => d.blk \in Ids /\ d.blk \notin txn[t].blks.used
    /\ txn' \in [Tasks -> Transaction]
    /\ txn'[t].devs.used = txn[t].devs.used \cup {d.id}
    /\ txn'[t].blks.used =
          txn[t].blks.used \cup (IF d.kind = "disk" THEN {d.blk} ELSE {})
    /\ txn'[t].new = Append(txn[t].new, d)
    /\ \A u \in Tasks : u # t => txn'[u] = txn[u]
    /\ results' = [results EXCEPT ![t] = Append(@, d)]
    /\ Use(t, {Key("front", d), Key("back", d)})

LEMMA Added ==
    ASSUME Types, Local, NEW t \in Tasks, AddDevice(t)
    PROVE  \E d \in Device : Adds(t, d)
<1> DEFINE n == Len(txn[t].new) + 1
           kind == order[t][n]
           Made(id, blk) == [kind |-> kind, id |-> id, blk |-> blk, by |-> t]
<1>1. txn[t] \in Transaction /\ txn[t].new \in Seq(Device) /\ Len(txn[t].new) \in Nat
  <2>1. txn[t] \in Transaction
    BY DEF Types, TypeOK
  <2> QED BY <2>1, Lists DEF Transaction
<1>2. order[t] \in Orders /\ Len(txn[t].new) < Len(order[t])
  BY DEF AddDevice, Local, Shape, Releasing
<1>3. kind \in {"nic", "disk"}
  <2>1. n \in 1 .. Len(order[t])
    BY <1>1, <1>2, Kinds
  <2> QED BY <1>2, <2>1, Kinds
<1>4. PICK id \in NextId(txn[t].devs),
           blk \in IF kind = "disk" THEN NextId(txn[t].blks) ELSE {NoId} :
        /\ txn' = [txn EXCEPT
               ![t] = [devs |-> Allocate(@.devs, id),
                       blks |-> IF kind = "disk" THEN Allocate(@.blks, blk) ELSE @.blks,
                       new |-> Append(@.new, Made(id, blk))]]
        /\ results' = [results EXCEPT ![t] = Append(@, Made(id, blk))]
        /\ Use(t, {Key("front", Made(id, blk)), Key("back", Made(id, blk))})
  BY DEF AddDevice
<1> DEFINE d == Made(id, blk)
<1>5. /\ id \in Ids /\ id \notin txn[t].devs.used
      /\ kind = "disk" => blk \in Ids /\ blk \notin txn[t].blks.used
      /\ kind # "disk" => blk = NoId
  BY <1>4 DEF NextId, IsNextFree
<1>6. d \in Device /\ d.by = t /\ d.kind = kind /\ d.id = id /\ d.blk = blk
  BY <1>3, <1>5 DEF Device
<1>7. Append(txn[t].new, d) \in Seq(Device)
  BY <1>1, <1>6, Lists
<1>8. /\ Allocate(txn[t].devs, id) \in Allocator
      /\ Allocate(txn[t].devs, id).used = txn[t].devs.used \cup {id}
      /\ kind = "disk" => /\ Allocate(txn[t].blks, blk) \in Allocator
                          /\ Allocate(txn[t].blks, blk).used = txn[t].blks.used \cup {blk}
      /\ txn[t].blks \in Allocator
  <2>1. txn[t].devs \in Allocator /\ txn[t].blks \in Allocator
    BY <1>1 DEF Transaction
  <2> QED BY <1>5, <2>1, Basics DEF Allocate, Allocator
<1>9. /\ txn'[t].devs = Allocate(txn[t].devs, id)
      /\ txn'[t].blks = IF kind = "disk" THEN Allocate(txn[t].blks, blk) ELSE txn[t].blks
      /\ txn'[t].new = Append(txn[t].new, d)
      /\ \A u \in Tasks : u # t => txn'[u] = txn[u]
      /\ txn' = [txn EXCEPT ![t] = [devs |-> txn'[t].devs, blks |-> txn'[t].blks,
                                    new |-> txn'[t].new]]
  BY <1>4 DEF Types, TypeOK
<1> HIDE DEF d, Made
<1>10. [devs |-> txn'[t].devs, blks |-> txn'[t].blks, new |-> txn'[t].new] \in Transaction
  BY <1>7, <1>8, <1>9 DEF Transaction
<1>11. txn' \in [Tasks -> Transaction]
  BY <1>9, <1>10 DEF Types, TypeOK
<1>12. /\ txn'[t].devs.used = txn[t].devs.used \cup {d.id}
       /\ txn'[t].blks.used =
                   txn[t].blks.used \cup (IF d.kind = "disk" THEN {d.blk} ELSE {})
  BY <1>6, <1>8, <1>9
<1>13. /\ results' = [results EXCEPT ![t] = Append(@, d)]
       /\ Use(t, {Key("front", d), Key("back", d)})
  BY <1>4 DEF d
<1> QED BY <1>3, <1>5, <1>6, <1>9, <1>11, <1>12, <1>13 DEF Adds

LEMMA FillSteady ==
    ASSUME Types, Local, TransactionsAreAccounted, NEW t \in Tasks,
           AddDevice(t) \/ ReleaseIds(t)
    PROVE  Steady
<1>1. PICK place \in {"fill", "commit"} : pc' = [pc EXCEPT ![t] = place] /\ pc[t] = "fill"
  BY DEF AddDevice, ReleaseIds, At
<1>2. Count' = Count /\ pc' \in [Tasks -> Places]
  BY <1>1, CountStep, PlaceNames DEF Types, TypeOK, Holds, Plain
<1>3. UNCHANGED <<keyVars, open, stale, near, order, dev, side, callerVars, dropVars>>
  BY DEF AddDevice, ReleaseIds, Use, storeVars
<1>4. /\ txn' \in [Tasks -> Transaction] /\ results' \in [Tasks -> Seq(Device)]
      /\ seen' \in [Tasks -> SUBSET AllKeys]
  <2>1. CASE AddDevice(t)
    <3>1. PICK d \in Device : Adds(t, d)
      BY <2>1, Added
    <3>2. Append(results[t], d) \in Seq(Device)
      BY Lists DEF Types, TypeOK
    <3>3. {Key("front", d), Key("back", d)} \subseteq AllKeys
      BY Basics
    <3> QED BY <3>1, <3>2, <3>3 DEF Adds, Use, Types, TypeOK
  <2>2. CASE ReleaseIds(t)
    BY <2>2, TxnSteps DEF ReleaseIds, storeVars, Types, TypeOK
  <2> QED BY <2>1, <2>2
<1>5. Types'
  BY <1>2, <1>3, <1>4 DEF Types, TypeOK, keyVars, callerVars, dropVars
<1> QED BY <1>2, <1>3, <1>5 DEF dropVars, TransactionsAreAccounted, Count, Steady

LEMMA OneLess ==
    \A o, c, m, a, l \in Nat :
        c = m + 1 /\ o = c + a + l => o - 1 \in Nat /\ o - 1 = m + a + l
  OBVIOUS

\* The ends of a transaction: open - 1, and one task less that holds one
LEMMA CloseCount ==
    ASSUME Types, TransactionsAreAccounted, NEW t \in Tasks, NEW place,
           pc' = [pc EXCEPT ![t] = place], Holds(t), ~Holds(t)',
           open' = open - 1, UNCHANGED dropVars
    PROVE  open' \in Nat /\ TransactionsAreAccounted'
<1>1. Count \in Nat /\ Count' \in Nat /\ Count = Count' + 1
  BY CountStep DEF Types, TypeOK
<1>2. aborting \in Nat /\ lost \in Nat /\ open \in Nat /\ open = Count + aborting + lost
  BY DEF Types, TypeOK, TransactionsAreAccounted, Count
<1>3. open' = open - 1 /\ aborting' = aborting /\ lost' = lost
  BY DEF dropVars
<1>4. open' = Count' + aborting' + lost' /\ open' \in Nat
  <2>1. PICK m \in Nat : m = Count'
    BY <1>1
  <2>2. PICK c \in Nat : c = Count
    BY <1>1
  <2>3. c = m + 1 /\ open = c + aborting + lost
    BY <1>1, <1>2, <2>1, <2>2
  <2>4. open - 1 \in Nat /\ open - 1 = m + aborting + lost
    BY <1>2, <2>3, OneLess
  <2> QED BY <1>3, <2>1, <2>4
<1> QED BY <1>4 DEF TransactionsAreAccounted, Count

\* Nodes that are written and removed are devices.
LEMMA NodeTypes ==
    ASSUME Types
    PROVE  /\ \A S \in SUBSET Device : Written(front, S) \in SUBSET Device
                                       /\ Written(back, S) \in SUBSET Device
           /\ \A d : Removed(front, d) \in SUBSET Device /\ Removed(back, d) \in SUBSET Device
  BY DEF Written, Removed, Types, TypeOK

LEMMA CommitSteady ==
    ASSUME Types, TransactionsAreAccounted, NEW t \in Tasks,
           Commit(t) \/ Close(t)
    PROVE  Steady
<1>1. /\ pc' \in [Tasks -> Places] /\ open' = open - 1 /\ UNCHANGED dropVars
      /\ At(t, "commit", "reply") \/ At(t, "close", "wait")
      /\ UNCHANGED <<localVars, callerVars>>
      /\ seen' = [seen EXCEPT ![t] = {}]
  BY PlaceNames, Moves DEF Commit, Close, Types, TypeOK
<1>2. open' \in Nat /\ TransactionsAreAccounted'
  <2>1. Holds(t) /\ ~Holds(t)'
    BY <1>1 DEF At, Holds, Plain, Types, TypeOK
  <2> QED BY <1>1, <2>1, CloseCount DEF At
<1>3. /\ devs' \in Allocator /\ blks' \in Allocator
      /\ front' \subseteq Device /\ back' \subseteq Device
  <2>1. CASE Commit(t)
    <3>1. /\ txn[t].devs \in Allocator /\ txn[t].blks \in Allocator
          /\ ToSet(txn[t].new) \subseteq Device
      BY Lists DEF Types, TypeOK, Transaction
    <3> QED BY <2>1, <3>1, NodeTypes DEF Commit
  <2>2. CASE Close(t)
    BY <2>2 DEF Close, keyVars, Types, TypeOK
  <2> QED BY <2>1, <2>2
<1>4. stale' \in [Tasks -> BOOLEAN] /\ near' \in [Tasks -> BOOLEAN]
  BY FlagTypes DEF Commit, Close
<1>5. seen' \in [Tasks -> SUBSET AllKeys]
  BY <1>1 DEF Types
<1>6. Types'
  BY <1>1, <1>2, <1>3, <1>4, <1>5 DEF Types, TypeOK, localVars, callerVars, dropVars
<1> QED BY <1>2, <1>6 DEF Steady

LEMMA RefusedSteady ==
    ASSUME Types, Local, TransactionsAreAccounted, NEW t \in Tasks,
           CommitRefused(t) \/ CloseRefused(t)
    PROVE  Steady
<1>1. open' = open - 1 /\ UNCHANGED <<dropVars, keyVars>> /\ Forget(t)
      /\ UNCHANGED <<abandoned, calls, cancels>>
  BY DEF CommitRefused, CloseRefused, callerVars
<1>2. /\ Holds(t)
      /\ pc' = [pc EXCEPT ![t] = "begin"] \/ pc' = [pc EXCEPT ![t] = "idle"]
      /\ pc' \in [Tasks -> Places]
  <2>1. CASE CommitRefused(t)
    BY <2>1, PlaceNames DEF CommitRefused, At, Holds, Types, TypeOK
  <2>2. CASE CloseRefused(t)
    <3>1. Holds(t)
      BY <2>2 DEF CloseRefused, Holds, Plain
    <3> QED BY <2>2, <3>1, EndCallTypes DEF CloseRefused
  <2> QED BY <2>1, <2>2
<1>3. ~Holds(t)'
  BY <1>2 DEF Holds, Plain, Types, TypeOK
<1>4. open' \in Nat /\ TransactionsAreAccounted'
  BY <1>1, <1>2, <1>3, CloseCount
<1>5. /\ order' \in [Tasks -> Orders \cup {<<>>}]
      /\ dev' \in [Tasks -> Device \cup {NoDevice}]
      /\ side' \in [Tasks -> {"front", "back"}]
      /\ txn' \in [Tasks -> Transaction]
      /\ results' \in [Tasks -> Seq(Device)]
      /\ known' \subseteq Device
  <2>1. CASE CommitRefused(t)
    BY <2>1 DEF CommitRefused, localVars, callerVars, Types, TypeOK
  <2>2. CASE CloseRefused(t)
    <3>1. dev[t] \in Device
      BY <2>2 DEF CloseRefused, Local, Shape, Tearing, Adding, Types, TypeOK
    <3>2. known' = known \cup {dev[t]} /\ known \subseteq Device
      BY <2>2 DEF CloseRefused, Types, TypeOK
    <3> QED BY <2>2, <3>1, <3>2, EndCallTypes DEF CloseRefused
  <2> QED BY <2>1, <2>2
<1>6. Types'
  BY <1>1, <1>2, <1>4, <1>5, FlagTypes DEF Types, TypeOK, keyVars, dropVars
<1> QED BY <1>4, <1>6 DEF Steady

LEMMA TearSteady ==
    ASSUME Types, TransactionsAreAccounted, NEW t \in Tasks,
           FindBackend(t) \/ RemoveNode(t)
    PROVE  Steady
<1>1. /\ pc' \in [Tasks -> Places] /\ side' \in [Tasks -> {"front", "back"}]
      /\ UNCHANGED <<devs, blks, open, seen, order, dev, txn, results, callerVars, dropVars>>
  <2>1. CASE FindBackend(t)
    BY <2>1, PlaceNames, Moves DEF FindBackend, Types, TypeOK, keyVars, storeVars
  <2>2. CASE RemoveNode(t)
    BY <2>2, PlaceNames DEF RemoveNode, NextSide, Types, TypeOK
  <2> QED BY <2>1, <2>2
<1>2. Count' = Count
  <2>1. PICK place \in {"start", "begin"} :
          pc' = [pc EXCEPT ![t] = place] /\ pc[t] \in {"find", "wait"}
    BY DEF FindBackend, RemoveNode, NextSide, At
  <2> QED BY <2>1, CountStep DEF Types, TypeOK, Holds, Plain
<1>3. front' \subseteq Device /\ back' \subseteq Device
  <2>1. front \subseteq Device /\ back \subseteq Device
    BY DEF Types, TypeOK
  <2>2. front' \in {front, Removed(front, dev[t])} /\ back' \in {back, Removed(back, dev[t])}
    BY DEF FindBackend, RemoveNode, keyVars
  <2> QED BY <2>1, <2>2, NodeTypes
<1>4. stale' \in [Tasks -> BOOLEAN] /\ near' \in [Tasks -> BOOLEAN]
  BY FlagTypes DEF FindBackend, RemoveNode, storeVars, Types, TypeOK
<1>5. Types'
  BY <1>1, <1>3, <1>4 DEF Types, TypeOK, callerVars, dropVars
<1> QED BY <1>1, <1>2, <1>5 DEF dropVars, TransactionsAreAccounted, Count, Steady

LEMMA ReadNothingSteady ==
    ASSUME Types, TransactionsAreAccounted, NEW t \in Tasks, ReadNothing(t)
    PROVE  Steady
<1>1. /\ pc' \in [Tasks -> Places] /\ side' \in [Tasks -> {"front", "back"}]
      /\ UNCHANGED <<keyVars, open, order, dev, txn, results, callerVars, aborting>>
      /\ lost' = lost + 1
  BY PlaceNames DEF ReadNothing, NextSide, Types, TypeOK
<1>2. Count \in Nat /\ Count' \in Nat /\ Count = Count' + 1
  <2>1. PICK place \in {"start", "begin"} :
          pc' = [pc EXCEPT ![t] = place] /\ pc[t] = "read"
    BY DEF ReadNothing, NextSide
  <2> QED BY <2>1, CountStep DEF Types, TypeOK, Holds, Plain
<1>3. aborting \in Nat /\ lost \in Nat /\ open = Count + aborting + lost
  BY DEF Types, TypeOK, TransactionsAreAccounted, Count
<1>4. lost' \in Nat /\ open' = Count' + aborting' + lost'
  BY <1>1, <1>2, <1>3
<1>5. Types'
  BY <1>1, <1>4, FlagTypes DEF ReadNothing, Types, TypeOK, keyVars, callerVars
<1> QED BY <1>4, <1>5 DEF TransactionsAreAccounted, Count, Steady

LEMMA ReturnSteady ==
    ASSUME Types, TransactionsAreAccounted, NEW t \in Tasks, Return(t)
    PROVE  Steady
<1>1. UNCHANGED <<keyVars, storeVars, abandoned, calls, cancels, dropVars>>
  BY DEF Return
<1>2. known' \subseteq Device
  BY Lists DEF Return, Types, TypeOK
<1>3. Count' = Count
  <2>1. pc[t] = "reply" /\ pc' = [pc EXCEPT ![t] = "idle"]
    BY DEF Return, EndCall
  <2> QED BY <2>1, CountStep DEF Types, TypeOK, Holds, Plain
<1>4. Types'
  BY <1>1, <1>2, EndCallTypes DEF Return, Types, TypeOK, keyVars, storeVars, dropVars
<1> QED BY <1>1, <1>3, <1>4 DEF storeVars, dropVars, TransactionsAreAccounted, Count, Steady

\* The attempt to add found no id: its transaction is aborted.
LEMMA ExhaustedSteady ==
    ASSUME Types, TransactionsAreAccounted, NEW t \in Tasks, Exhausted(t)
    PROVE  Steady
<1>1. UNCHANGED <<keyVars, open, callerVars, lost>> /\ aborting' = aborting + 1
      /\ EndCall(t) /\ Forget(t)
  BY DEF Exhausted
<1>2. Count \in Nat /\ Count' \in Nat /\ Count = Count' + 1
  <2>1. pc[t] = "fill" /\ pc' = [pc EXCEPT ![t] = "idle"]
    BY DEF Exhausted, EndCall
  <2> QED BY <2>1, CountStep DEF Types, TypeOK, Holds, Plain
<1>3. aborting \in Nat /\ lost \in Nat /\ open = Count + aborting + lost
  BY DEF Types, TypeOK, TransactionsAreAccounted, Count
<1>4. aborting' \in Nat /\ open' = Count' + aborting' + lost'
  BY <1>1, <1>2, <1>3
<1>5. Types'
  BY <1>1, <1>4, EndCallTypes, FlagTypes DEF Types, TypeOK, keyVars, callerVars
<1> QED BY <1>4, <1>5 DEF TransactionsAreAccounted, Count, Steady

LEMMA CancelSteady ==
    ASSUME Types, TransactionsAreAccounted, NEW t \in Tasks, Cancel(t)
    PROVE  Steady
<1>1. UNCHANGED <<keyVars, open, known, calls>> /\ cancels' = cancels + 1
      /\ EndCall(t) /\ Forget(t)
  BY DEF Cancel
<1>2. pc' = [pc EXCEPT ![t] = "idle"]
  BY <1>1 DEF EndCall
<1>3. aborting \in Nat /\ lost \in Nat /\ cancels \in Nat /\ open = Count + aborting + lost
  BY DEF Types, TypeOK, TransactionsAreAccounted, Count
<1>4. /\ aborting' \in Nat /\ lost' \in Nat /\ cancels' \in Nat
      /\ open' = Count' + aborting' + lost'
  <2>1. CASE Holds(t)
    <3>1. Count \in Nat /\ Count' \in Nat /\ Count = Count' + 1
      <4>1. ~Holds(t)'
        BY <1>2 DEF Holds, Plain, Types, TypeOK
      <4> QED BY <1>2, <2>1, <4>1, CountStep DEF Types, TypeOK
    <3>2. CASE pc[t] = "fill"
      <4>1. aborting' = aborting + 1 /\ lost' = lost
        BY <3>2 DEF Cancel, Plain
      <4> QED BY <1>1, <1>3, <3>1, <4>1
    <3>3. CASE pc[t] # "fill"
      <4>1. aborting' = aborting /\ lost' = lost + 1
        BY <2>1, <3>3 DEF Cancel, Holds
      <4> QED BY <1>1, <1>3, <3>1, <4>1
    <3> QED BY <3>2, <3>3
  <2>2. CASE ~Holds(t)
    <3>1. Count' = Count
      <4>1. ~Holds(t)'
        BY <1>2 DEF Holds, Plain, Types, TypeOK
      <4> QED BY <1>2, <2>2, <4>1, CountStep DEF Types, TypeOK
    <3>2. aborting' = aborting /\ lost' = lost
      BY <2>2 DEF Cancel, Holds
    <3> QED BY <1>1, <1>3, <3>1, <3>2
  <2> QED BY <2>1, <2>2
<1>5. abandoned' \subseteq Device
  BY DEF Cancel, Adding, Types, TypeOK
<1>6. Types'
  BY <1>1, <1>4, <1>5, EndCallTypes, FlagTypes DEF Types, TypeOK, keyVars
<1> QED BY <1>4, <1>6 DEF TransactionsAreAccounted, Count, Steady

\* The spawned aborts, and the drivers
LEMMA OthersSteady ==
    ASSUME Types, TransactionsAreAccounted,
           \/ Abort
           \/ \E where \in {"front", "back"} : \E d \in Nodes(where) : DriverWrites(where, d)
    PROVE  Steady
<1>1. Count' = Count /\ Count \in Nat
  <2>1. pc' = pc
    BY DEF Abort, DriverWrites
  <2>2. Count \in Nat
    <3>1. IsFiniteSet({t \in Tasks : Holds(t)})
      BY BoundsAssumption, FS_Subset
    <3> QED BY <3>1, FS_CardinalityType DEF Count
  <2> QED BY <2>1, <2>2 DEF Count, Holds, Plain
<1>2. aborting \in Nat /\ lost \in Nat /\ open \in Nat /\ open = Count + aborting + lost
  BY DEF Types, TypeOK, TransactionsAreAccounted, Count
<1>3. CASE Abort
  <2>1. aborting > 0 /\ aborting' = aborting - 1 /\ open' = open - 1 /\ lost' = lost
    BY <1>3 DEF Abort
  <2>2. PICK c \in Nat : c = Count
    BY <1>1
  <2>3. aborting' \in Nat /\ open' \in Nat /\ open' = c + aborting' + lost'
    BY <1>2, <2>1, <2>2
  <2>4. Types'
    BY <1>3, <2>1, <2>3 DEF Abort, Types, TypeOK, keyVars, localVars, callerVars
  <2> QED BY <1>1, <2>2, <2>3, <2>4 DEF TransactionsAreAccounted, Count, Steady
<1>4. CASE \E where \in {"front", "back"} : \E d \in Nodes(where) : DriverWrites(where, d)
  <2>1. stale' \in [Tasks -> BOOLEAN] /\ near' \in [Tasks -> BOOLEAN]
    BY <1>4, FlagTypes DEF DriverWrites
  <2>2. UNCHANGED <<keyVars, open, seen, pc, localVars, callerVars, dropVars>>
    BY <1>4 DEF DriverWrites
  <2>3. Types'
    BY <2>1, <2>2 DEF Types, TypeOK, keyVars, localVars, callerVars, dropVars
  <2> QED BY <1>1, <2>2, <2>3 DEF dropVars, TransactionsAreAccounted, Count, Steady
<1> QED BY <1>3, <1>4

-----------------------------------------------------------------------------
(* A step of one task leaves the others where they are and what they have. *)

OthersStay(t) ==
    \A u \in Tasks : u # t =>
      /\ pc'[u] = pc[u] /\ order'[u] = order[u] /\ dev'[u] = dev[u]
      /\ side'[u] = side[u] /\ txn'[u] = txn[u] /\ results'[u] = results[u]

StoreStays(t) ==
    \A u \in Tasks : u # t => seen'[u] = seen[u] /\ (stale[u] => stale'[u])

StepOf(t) ==
    \/ \E list \in Orders : BeginAdd(t, list)
    \/ \E d \in known : BeginDestroy(t, d)
    \/ Task(t)
    \/ Cancel(t)

LEMMA OthersKeepTheirs ==
    ASSUME Types, Local, NEW t \in Tasks, StepOf(t)
    PROVE  OthersStay(t)
<1> USE DEF OthersStay, Types, TypeOK, At, localVars
<1>1. CASE \E list \in Orders : BeginAdd(t, list)
  BY <1>1 DEF BeginAdd
<1>2. CASE \E d \in known : BeginDestroy(t, d)
  BY <1>2 DEF BeginDestroy
<1>3. CASE Begin(t)
  BY <1>3 DEF Begin
<1>4. CASE LoadDevid(t) \/ LoadBlkid(t) \/ ReleaseIds(t)
  <2>1. \A u \in Tasks : u # t => txn'[u] = txn[u]
    BY <1>4 DEF LoadDevid, LoadBlkid, ReleaseIds
  <2> QED BY <1>4, <2>1 DEF LoadDevid, LoadBlkid, ReleaseIds
<1>5. CASE AddDevice(t)
  <2>1. \A u \in Tasks : u # t => txn'[u] = txn[u]
    BY <1>5, Added DEF Adds
  <2>2. \A u \in Tasks : u # t => results'[u] = results[u] /\ pc'[u] = pc[u]
    BY <1>5 DEF AddDevice
  <2> QED BY <1>5, <2>1, <2>2 DEF AddDevice
<1>6. CASE Exhausted(t) \/ Return(t) \/ CloseRefused(t) \/ Cancel(t)
  <2>1. EndCall(t)
    BY <1>6 DEF Exhausted, Return, CloseRefused, Cancel
  <2> QED BY <2>1 DEF EndCall
<1>7. CASE Commit(t) \/ CommitRefused(t) \/ StartClose(t) \/ ReadState(t) \/ Close(t)
  BY <1>7 DEF Commit, CommitRefused, StartClose, ReadState, Close
<1>8. CASE FindBackend(t) \/ ReadNothing(t) \/ RemoveNode(t)
  BY <1>8 DEF FindBackend, ReadNothing, RemoveNode, NextSide
<1> QED BY <1>1, <1>2, <1>3, <1>4, <1>5, <1>6, <1>7, <1>8 DEF StepOf, Task

LEMMA StoreKeepsOthers ==
    ASSUME Types, NEW t \in Tasks, StepOf(t)
    PROVE  StoreStays(t)
<1> USE DEF StoreStays, Types, TypeOK
<1>1. CASE \/ OpenTransaction(t) \/ \E keys : Use(t, keys)
           \/ UNCHANGED <<seen, stale>> \/ Forget(t)
           \/ \E keys, dirs : Changed(t, keys, dirs)
                              /\ (seen' = seen \/ seen' = [seen EXCEPT ![t] = {}])
  BY <1>1 DEF OpenTransaction, Use, Forget, Changed
<1>2. ASSUME ~(\/ OpenTransaction(t) \/ \E keys : Use(t, keys)
               \/ UNCHANGED <<seen, stale>> \/ Forget(t))
      PROVE  \E keys, dirs : Changed(t, keys, dirs)
                             /\ (seen' = seen \/ seen' = [seen EXCEPT ![t] = {}])
  <2>1. Commit(t) \/ Close(t) \/ RemoveNode(t)
    BY <1>2 DEF StepOf, Task, BeginAdd, BeginDestroy, Begin, LoadDevid, LoadBlkid, AddDevice,
                Exhausted, ReleaseIds, CommitRefused, Return, FindBackend, StartClose,
                ReadState, ReadNothing, CloseRefused, Cancel, storeVars
  <2> QED BY <2>1 DEF Commit, Close, RemoveNode
<1> QED BY <1>1, <1>2

(* What a task has at each place *)

LEMMA ShapeOfOne ==
    ASSUME Local, NEW t \in Tasks, OthersStay(t), Shape(t)'
    PROVE  Local'
<1>1. ASSUME NEW u \in Tasks, u # t PROVE Shape(u)'
  <2>1. /\ pc'[u] = pc[u] /\ order'[u] = order[u] /\ dev'[u] = dev[u]
        /\ side'[u] = side[u] /\ txn'[u] = txn[u] /\ results'[u] = results[u]
    BY <1>1 DEF OthersStay
  <2>2. Shape(u)
    BY DEF Local
  <2> QED BY <2>1, <2>2, Zenon DEF Shape, Adding
<1> QED BY <1>1 DEF Local

\* A call that is over has left nothing behind.
LEMMA ShapeAtEnd == ASSUME Types, NEW t \in Tasks, EndCall(t) PROVE Shape(t)'
<1>1. /\ pc'[t] = "idle" /\ dev'[t] = NoDevice
      /\ results'[t] = <<>> /\ txn'[t].new = <<>>
  BY EndCallTypes
<1>2. side'[t] = "back"
  BY DEF EndCall, Types, TypeOK
<1> QED BY <1>1, <1>2, Lists DEF Shape, Adding, Tearing, Releasing

LEMMA ShapeOfBegin ==
    ASSUME Types, Local, NEW t \in Tasks,
           \/ \E list \in Orders : BeginAdd(t, list)
           \/ \E d \in known : BeginDestroy(t, d)
    PROVE  Shape(t)'
<1> USE DEF Types, TypeOK, At
<1>1. Shape(t) /\ pc[t] = "idle"
  BY DEF Local, BeginAdd, BeginDestroy
<1>2. CASE \E list \in Orders : BeginAdd(t, list)
  <2>1. /\ pc'[t] = "begin" /\ order'[t] \in Orders /\ dev'[t] = dev[t]
        /\ side'[t] = side[t] /\ txn'[t] = txn[t] /\ results'[t] = results[t]
    BY <1>2 DEF BeginAdd
  <2> QED BY <1>1, <2>1 DEF Shape, Adding, Tearing, Releasing
<1>3. CASE \E d \in known : BeginDestroy(t, d)
  <2>1. /\ pc'[t] = "find" /\ order'[t] = order[t] /\ dev'[t] \in Device
        /\ side'[t] = side[t] /\ txn'[t] = txn[t] /\ results'[t] = results[t]
    BY <1>3 DEF BeginDestroy
  <2>2. side[t] = "back"
    BY <1>1 DEF Shape
  <2> QED BY <1>1, <2>1, <2>2, Basics DEF Shape, Adding, Tearing, Releasing
<1> QED BY <1>2, <1>3

LEMMA ShapeOfLoad ==
    ASSUME Types, Local, NEW t \in Tasks,
           Begin(t) \/ LoadDevid(t) \/ LoadBlkid(t) \/ ReleaseIds(t)
    PROVE  Shape(t)'
<1> USE DEF Types, TypeOK, At, Adding, Tearing, Releasing
<1>1. Shape(t)
  BY DEF Local
<1>2. CASE Begin(t)
  <2>1. /\ pc[t] = "begin" /\ pc'[t] = "load devid" /\ order'[t] = order[t] /\ dev'[t] = dev[t]
        /\ side'[t] = side[t] /\ txn'[t].new = <<>> /\ results'[t] = <<>>
    BY <1>2 DEF Begin, NoTransaction
  <2> QED BY <1>1, <2>1, Lists DEF Shape
<1>3. CASE LoadDevid(t) \/ LoadBlkid(t)
  <2>1. /\ order'[t] = order[t] /\ dev'[t] = dev[t]
        /\ side'[t] = side[t] /\ txn'[t].new = txn[t].new /\ results'[t] = results[t]
    BY <1>3, TxnSteps DEF LoadDevid, LoadBlkid
  <2>2. pc[t] \in {"load devid", "load blkid"} /\ pc'[t] \in {"load blkid", "fill"}
    BY <1>3 DEF LoadDevid, LoadBlkid
  <2>3. results[t] = <<>> /\ txn[t].new = <<>>
    BY <1>1, <2>2 DEF Shape
  <2>4. Adding(t) => order[t] \in Orders /\ Len(<<>>) < Len(order[t])
    BY <1>1, <2>2, Kinds, Lists DEF Shape
  <2> QED BY <2>1, <2>2, <2>3, <2>4, Lists DEF Shape
<1>4. CASE ReleaseIds(t)
  <2>1. /\ pc[t] = "fill" /\ pc'[t] = "commit" /\ ~Adding(t)
        /\ order'[t] = order[t] /\ dev'[t] = dev[t]
        /\ side'[t] = side[t] /\ txn'[t].new = txn[t].new /\ results'[t] = results[t]
    BY <1>4, TxnSteps DEF ReleaseIds
  <2> QED BY <1>1, <2>1 DEF Shape
<1> QED BY <1>2, <1>3, <1>4

LEMMA ShapeOfAdd ==
    ASSUME Types, Local, NEW t \in Tasks, AddDevice(t)
    PROVE  Shape(t)'
<1>1. Shape(t) /\ pc[t] = "fill" /\ Adding(t)
  BY DEF Local, AddDevice
<1>2. PICK d \in Device : Adds(t, d)
  BY Added
<1>3. /\ order'[t] = order[t] /\ dev'[t] = dev[t] /\ side'[t] = side[t]
      /\ pc'[t] = IF Len(txn[t].new) + 1 = Len(order[t]) THEN "commit" ELSE "fill"
  BY DEF AddDevice, Types, TypeOK
<1>4. txn[t].new \in Seq(Device)
  BY DEF Types, TypeOK, Transaction
<1>5. /\ Len(txn'[t].new) = Len(txn[t].new) + 1 /\ Len(txn[t].new) \in Nat
      /\ ToSet(txn'[t].new) = ToSet(txn[t].new) \cup {d}
  BY <1>2, <1>4, Lists DEF Adds
<1>6. order[t] \in Orders /\ Len(txn[t].new) < Len(order[t]) /\ Len(order[t]) \in Nat
  BY <1>1, Kinds DEF Shape, Releasing
<1>7. pc'[t] = "fill" => Len(txn'[t].new) < Len(order'[t])
  BY <1>3, <1>5, <1>6
<1>8. results'[t] = txn'[t].new
  BY <1>1, <1>2 DEF Adds, Shape, Types, TypeOK
<1>9. \A e \in ToSet(txn'[t].new) : e.by = t
  BY <1>1, <1>2, <1>5 DEF Adds, Shape
<1>10. pc'[t] \in {"commit", "fill"}
  BY <1>3
<1> QED BY <1>1, <1>3, <1>6, <1>7, <1>8, <1>9, <1>10 DEF Shape, Adding, Tearing, Releasing

LEMMA ShapeOfRest ==
    ASSUME Types, Local, NEW t \in Tasks,
           \/ Commit(t) \/ CommitRefused(t) \/ FindBackend(t) \/ StartClose(t)
           \/ ReadState(t) \/ ReadNothing(t) \/ Close(t) \/ RemoveNode(t)
    PROVE  Shape(t)'
<1> USE DEF Types, TypeOK, At, localVars
<1>1. Shape(t)
  BY DEF Local
<1>2. /\ order'[t] = order[t] /\ dev'[t] = dev[t] /\ txn'[t] = txn[t]
      /\ results'[t] = results[t]
  BY DEF Commit, CommitRefused, FindBackend, StartClose, ReadState, ReadNothing, Close,
         RemoveNode
<1>3. CASE Commit(t) \/ CommitRefused(t)
  <2>1. pc[t] = "commit" /\ pc'[t] \in {"begin", "reply"} /\ side'[t] = side[t]
    BY <1>3 DEF Commit, CommitRefused
  <2> QED BY <1>1, <1>2, <2>1 DEF Shape, Adding, Tearing, Releasing
<1>4. CASE FindBackend(t) \/ StartClose(t) \/ ReadState(t) \/ ReadNothing(t) \/ Close(t)
           \/ RemoveNode(t)
  <2>1. pc[t] \in Tearing /\ pc'[t] \in {"start", "read", "close", "wait", "begin"}
    BY <1>4 DEF FindBackend, StartClose, ReadState, ReadNothing, Close, RemoveNode, NextSide,
                Tearing
  <2>2. ~Adding(t)
    BY <1>1, <2>1 DEF Shape
  <2> QED BY <1>1, <1>2, <2>1, <2>2 DEF Shape, Adding, Tearing, Releasing
<1> QED BY <1>3, <1>4

LEMMA LocalKept ==
    ASSUME Types, Local, NEW t \in Tasks, StepOf(t)
    PROVE  Local'
<1>1. OthersStay(t)
  BY OthersKeepTheirs
<1>2. Shape(t)'
  <2>1. CASE Exhausted(t) \/ Return(t) \/ CloseRefused(t) \/ Cancel(t)
    BY <2>1, ShapeAtEnd DEF Exhausted, Return, CloseRefused, Cancel
  <2> QED BY <2>1, ShapeOfBegin, ShapeOfLoad, ShapeOfAdd, ShapeOfRest DEF StepOf, Task
<1> QED BY <1>1, <1>2, ShapeOfOne

-----------------------------------------------------------------------------
(* Where devices are, and that they hold their ids *)

Kept == Placed' /\ LiveHold' /\ Accounted'

\* Steps that change no node, no stored allocator and nobody's device
LEMMA QuietKeeps ==
    ASSUME Types, Placed, LiveHold, Accounted, NEW t \in Tasks, OthersStay(t),
           UNCHANGED <<keyVars, known, abandoned>>,
           dev'[t] = dev[t], Out(t)' <=> Out(t), pc'[t] # "reply",
           Out(t) => /\ pc'[t] \in Tearing => dev[t] \in front
                     /\ pc'[t] \in Tearing /\ side'[t] = "front" => dev[t] \notin back
                     /\ pc'[t] \in Releasing => dev[t] \notin front \cup back
    PROVE  Kept
<1>1. \A u \in Tasks : (Out(u)' <=> Out(u)) /\ dev'[u] = dev[u]
  BY DEF OthersStay, Out, Adding
<1>2. UNCHANGED <<devs, blks, front, back, known, abandoned>>
  BY DEF keyVars
<1>3. Leaving' = Leaving
  BY <1>1 DEF Leaving
<1>4. Live' = Live /\ Owners' = Owners
  BY <1>2, <1>3 DEF Live, Owners
<1>5. LiveHold' /\ Accounted'
  BY <1>2, <1>4 DEF LiveHold, Held, Apart, NicsBare, Accounted
<1>6. Going(t)' /\ Fresh(t)'
  BY <1>1, <1>2 DEF Placed, Going, Fresh
<1>7. ASSUME NEW u \in Tasks, u # t PROVE Going(u)' /\ Fresh(u)'
  <2>1. pc'[u] = pc[u] /\ side'[u] = side[u] /\ results'[u] = results[u]
    BY <1>7 DEF OthersStay
  <2>2. Going(u) /\ Fresh(u)
    BY DEF Placed
  <2> QED BY <1>1, <1>2, <2>1, <2>2 DEF Going, Fresh
<1> QED BY <1>2, <1>5, <1>6, <1>7 DEF Placed, Kept

LEMMA HasNodeOfMember ==
    \A d : (d \in front => HasNode("front", d)) /\ (d \in back => HasNode("back", d))
  BY DEF HasNode, Keys, Nodes

\* The steps of a transaction before its end, and of calls that add devices
LEMMA AttemptKeeps ==
    ASSUME Types, Local, Placed, LiveHold, Accounted, NEW t \in Tasks, OthersStay(t),
           \/ \E list \in Orders : BeginAdd(t, list)
           \/ Begin(t) \/ LoadDevid(t) \/ LoadBlkid(t) \/ AddDevice(t) \/ ReleaseIds(t)
           \/ CommitRefused(t) \/ Exhausted(t) \/ (Cancel(t) /\ Adding(t))
    PROVE  Kept
<1>1. UNCHANGED <<keyVars, known, abandoned>>
  BY DEF BeginAdd, Begin, LoadDevid, LoadBlkid, AddDevice, ReleaseIds, CommitRefused,
         Exhausted, Cancel, callerVars
<1>2. CASE Exhausted(t) \/ (Cancel(t) /\ Adding(t))
  <2>1. Adding(t) /\ dev'[t] = NoDevice /\ pc'[t] = "idle"
    BY <1>2, EndCallTypes DEF Exhausted, Cancel
  <2>2. ~Out(t) /\ ~Out(t)' /\ dev'[t] = dev[t] /\ pc'[t] # "reply"
    BY <2>1 DEF Out, Adding
  <2> QED BY <1>1, <2>2, QuietKeeps
<1>3. CASE ~(Exhausted(t) \/ (Cancel(t) /\ Adding(t)))
  <2>1. dev' = dev
    BY <1>3 DEF BeginAdd, Begin, LoadDevid, LoadBlkid, AddDevice, ReleaseIds, CommitRefused,
                localVars
  <2>2. pc[t] \in {"idle"} \cup Releasing /\ pc'[t] \in Releasing
    BY <1>3 DEF BeginAdd, Begin, LoadDevid, LoadBlkid, AddDevice, ReleaseIds, CommitRefused,
                At, Releasing, Types, TypeOK
  <2>3. pc[t] = "idle" => Adding(t)
    BY DEF Local, Shape
  <2>4. Out(t)' <=> Out(t)
    BY <2>1, <2>2 DEF Out, Adding, Releasing
  <2>5. Out(t) => dev[t] \notin front \cup back
    BY <2>2, <2>3 DEF Placed, Going, Out
  <2>6. pc'[t] # "reply" /\ pc'[t] \notin Tearing
    BY <2>2 DEF Releasing, Tearing
  <2> QED BY <1>1, <2>1, <2>4, <2>5, <2>6, QuietKeeps
<1> QED BY <1>2, <1>3

\* destroy_backend up to the removal of a node
LEMMA CloseKeeps ==
    ASSUME Types, Local, Placed, LiveHold, Accounted, NEW t \in Tasks, OthersStay(t),
           FindBackend(t) \/ StartClose(t) \/ ReadState(t) \/ ReadNothing(t) \/ Close(t)
    PROVE  Kept
<1>1. UNCHANGED <<keyVars, known, abandoned>> /\ dev' = dev
  BY DEF FindBackend, StartClose, ReadState, ReadNothing, Close, callerVars, localVars
<1>2. pc[t] \in Tearing
  BY DEF FindBackend, StartClose, ReadState, ReadNothing, Close, At, Tearing
<1>3. Out(t) /\ dev[t] \in front /\ (side[t] = "front" => dev[t] \notin back)
  BY <1>2 DEF Local, Shape, Out, Tearing, Placed, Going
<1>4. pc'[t] \in Tearing /\ (side'[t] = "front" => dev[t] \notin back)
  <2>1. CASE FindBackend(t)
    BY <1>3, <2>1, HasNodeOfMember DEF FindBackend, At, Tearing, Types, TypeOK
  <2>2. CASE StartClose(t) \/ ReadState(t) \/ Close(t)
    BY <1>3, <2>2 DEF StartClose, ReadState, Close, At, Tearing, localVars, Types, TypeOK
  <2>3. CASE ReadNothing(t)
    <3>1. side[t] = "back" /\ dev[t] \notin back
      BY <1>3, <2>3, HasNodeOfMember DEF ReadNothing, Types, TypeOK
    <3> QED BY <2>3, <3>1 DEF ReadNothing, NextSide, Tearing, Types, TypeOK
  <2> QED BY <2>1, <2>2, <2>3
<1>5. pc'[t] # "reply" /\ pc'[t] \notin Releasing
  BY <1>4 DEF Tearing, Releasing
<1>6. Out(t)' <=> Out(t)
  BY <1>1, <1>3, <1>5 DEF Out, Adding
<1> QED BY <1>1, <1>3, <1>4, <1>5, <1>6, QuietKeeps

\* Devices that only change hands hold their ids as before.
LEMMA HandsChange ==
    ASSUME LiveHold, Accounted, UNCHANGED <<devs, blks>>,
           Live' \subseteq Live, Owners \subseteq Owners'
    PROVE  LiveHold' /\ Accounted'
  BY DEF LiveHold, Held, Apart, NicsBare, Accounted

\* What is on its way out when one task ends, begins or changes its call
LEMMA LeavingOfOne ==
    ASSUME NEW t \in Tasks, OthersStay(t)
    PROVE  /\ \A u \in Tasks : u # t => (Out(u)' <=> Out(u)) /\ dev'[u] = dev[u]
           /\ Leaving' \subseteq Leaving \cup (IF Out(t)' THEN {dev'[t]} ELSE {})
           /\ Leaving \subseteq Leaving' \cup (IF Out(t) THEN {dev[t]} ELSE {})
<1>1. \A u \in Tasks : u # t => (Out(u)' <=> Out(u)) /\ dev'[u] = dev[u]
  BY DEF OthersStay, Out, Adding
<1> QED BY <1>1 DEF Leaving

LEMMA BeginDestroyKeeps ==
    ASSUME Types, Local, Placed, LiveHold, Accounted, NEW t \in Tasks, OthersStay(t),
           NEW d \in known, BeginDestroy(t, d)
    PROVE  Kept
<1>1. /\ UNCHANGED <<devs, blks, front, back, abandoned>>
      /\ known' = known \ {d} /\ dev'[t] = d /\ pc[t] = "idle" /\ pc'[t] = "find"
      /\ side' = side
  BY DEF BeginDestroy, At, keyVars, Types, TypeOK
<1>2. ~Out(t) /\ Out(t)'
  BY <1>1, Basics DEF Local, Shape, Out, Adding, Types, TypeOK
<1>3. side[t] = "back" /\ d \in front
  BY <1>1 DEF Local, Shape, Placed
<1>4. \A u \in Tasks : u # t => (Out(u)' <=> Out(u)) /\ dev'[u] = dev[u]
  BY LeavingOfOne
<1>5. Live' \subseteq Live /\ Owners \subseteq Owners'
  <2>1. Leaving' \subseteq Leaving \cup {d} /\ Leaving \subseteq Leaving'
    BY <1>1, <1>2, LeavingOfOne
  <2>2. d \in Leaving'
    BY <1>1, <1>2 DEF Leaving
  <2> QED BY <1>1, <2>1, <2>2 DEF Live, Owners
<1>6. Going(t)' /\ Fresh(t)'
  <2>1. \A u \in Tasks : Out(u) => dev[u] # d
    BY DEF Placed, Going
  <2> QED BY <1>1, <1>3, <1>4, <2>1 DEF Going, Fresh, Tearing, Releasing
<1>7. ASSUME NEW u \in Tasks, u # t PROVE Going(u)' /\ Fresh(u)'
  <2>1. pc'[u] = pc[u] /\ side'[u] = side[u] /\ results'[u] = results[u] /\ dev'[u] = dev[u]
    BY <1>7 DEF OthersStay
  <2>2. Going(u) /\ Fresh(u)
    BY DEF Placed
  <2>3. Going(u)'
    BY <1>1, <1>4, <1>7, <2>1, <2>2 DEF Going
  <2>4. Fresh(u)'
    BY <1>1, <1>4, <1>7, <2>1, <2>2 DEF Fresh
  <2> QED BY <2>3, <2>4
<1> QED BY <1>1, <1>5, <1>6, <1>7, HandsChange DEF Placed, Kept

\* destroy_device fails before anything was removed: the caller keeps the device.
LEMMA CloseRefusedKeeps ==
    ASSUME Types, Local, Placed, LiveHold, Accounted, NEW t \in Tasks, OthersStay(t),
           CloseRefused(t)
    PROVE  Kept
<1>1. /\ UNCHANGED <<devs, blks, front, back, abandoned>>
      /\ known' = known \cup {dev[t]} /\ dev'[t] = NoDevice /\ pc[t] = "close"
      /\ pc'[t] = "idle"
  BY EndCallTypes DEF CloseRefused, keyVars
<1>2. Out(t) /\ ~Out(t)' /\ dev[t] \in front
  BY <1>1 DEF Local, Shape, Out, Adding, Tearing, Placed, Going
<1>3. \A u \in Tasks : u # t => (Out(u)' <=> Out(u)) /\ dev'[u] = dev[u]
  BY LeavingOfOne
<1>4. Live' \subseteq Live /\ Owners \subseteq Owners'
  <2>1. Leaving' \subseteq Leaving /\ Leaving \subseteq Leaving' \cup {dev[t]}
    BY <1>2, LeavingOfOne
  <2>2. dev[t] \in Leaving
    BY <1>2 DEF Leaving
  <2> QED BY <1>1, <2>1, <2>2 DEF Live, Owners
<1>5. Going(t)' /\ Fresh(t)'
  BY <1>1, <1>2 DEF Going, Fresh
<1>6. ASSUME NEW u \in Tasks, u # t PROVE Going(u)' /\ Fresh(u)'
  <2>1. pc'[u] = pc[u] /\ side'[u] = side[u] /\ results'[u] = results[u] /\ dev'[u] = dev[u]
    BY <1>6 DEF OthersStay
  <2>2. Going(u) /\ Fresh(u) /\ Going(t)
    BY DEF Placed
  <2>3. Going(u)'
    BY <1>1, <1>2, <1>3, <1>6, <2>1, <2>2 DEF Going
  <2>4. Fresh(u)'
    BY <1>1, <1>2, <1>3, <1>6, <2>1, <2>2 DEF Fresh
  <2> QED BY <2>3, <2>4
<1> QED BY <1>1, <1>2, <1>4, <1>5, <1>6, HandsChange DEF Placed, Kept

\* A call to destroy that is given up leaves its device to nobody.
LEMMA CancelDestroyKeeps ==
    ASSUME Types, Local, Placed, LiveHold, Accounted, NEW t \in Tasks, OthersStay(t),
           Cancel(t), ~Adding(t)
    PROVE  Kept
<1>1. /\ UNCHANGED <<devs, blks, front, back, known>>
      /\ abandoned' = abandoned \cup {dev[t]} /\ dev'[t] = NoDevice /\ pc'[t] = "idle"
  BY EndCallTypes DEF Cancel, keyVars
<1>2. ~Out(t)'
  BY <1>1 DEF Out, Adding
<1>3. \A u \in Tasks : u # t => (Out(u)' <=> Out(u)) /\ dev'[u] = dev[u]
  BY LeavingOfOne
<1>4. Live' \subseteq Live /\ Owners \subseteq Owners'
  <2>1. Leaving' \subseteq Leaving /\ Leaving \subseteq Leaving' \cup {dev[t]}
    BY <1>2, LeavingOfOne
  <2> QED BY <1>1, <2>1 DEF Live, Owners
<1>5. Going(t)' /\ Fresh(t)'
  BY <1>1, <1>2 DEF Going, Fresh
<1>6. ASSUME NEW u \in Tasks, u # t PROVE Going(u)' /\ Fresh(u)'
  <2>1. pc'[u] = pc[u] /\ side'[u] = side[u] /\ results'[u] = results[u] /\ dev'[u] = dev[u]
    BY <1>6 DEF OthersStay
  <2>2. Going(u) /\ Fresh(u)
    BY DEF Placed
  <2>3. Going(u)'
    BY <1>1, <1>2, <1>3, <1>6, <2>1, <2>2 DEF Going
  <2>4. Fresh(u)'
    BY <1>1, <1>2, <1>3, <1>6, <2>1, <2>2 DEF Fresh
  <2> QED BY <2>3, <2>4
<1> QED BY <1>1, <1>4, <1>5, <1>6, HandsChange DEF Placed, Kept

\* What was committed becomes the caller's.
LEMMA ReturnKeeps ==
    ASSUME Types, Local, Placed, LiveHold, Accounted, NEW t \in Tasks, OthersStay(t),
           Return(t)
    PROVE  Kept
<1> DEFINE R == ToSet(results[t])
<1>1. /\ UNCHANGED <<devs, blks, front, back, abandoned>>
      /\ known' = known \cup R /\ dev'[t] = NoDevice /\ pc[t] = "reply"
      /\ pc'[t] = "idle"
  BY EndCallTypes DEF Return, keyVars
<1>2. ~Out(t) /\ ~Out(t)'
  BY <1>1 DEF Out, Adding
<1>3. R \subseteq front \ known /\ \A u \in Tasks : Out(u) => dev[u] \notin R
  BY <1>1 DEF Placed, Fresh
<1>4. \A u \in Tasks : u # t => (Out(u)' <=> Out(u)) /\ dev'[u] = dev[u]
  BY LeavingOfOne
<1>5. Live' \subseteq Live /\ Owners \subseteq Owners'
  <2>1. Leaving' \subseteq Leaving /\ Leaving \subseteq Leaving'
    BY <1>2, LeavingOfOne
  <2> QED BY <1>1, <1>3, <2>1 DEF Live, Owners
<1>6. Going(t)' /\ Fresh(t)'
  BY <1>1, <1>2 DEF Going, Fresh
<1>7. ASSUME NEW u \in Tasks, u # t PROVE Going(u)' /\ Fresh(u)'
  <2>1. pc'[u] = pc[u] /\ side'[u] = side[u] /\ results'[u] = results[u] /\ dev'[u] = dev[u]
    BY <1>7 DEF OthersStay
  <2>2. Going(u) /\ Fresh(u)
    BY DEF Placed
  <2>3. Going(u)'
    BY <1>1, <1>2, <1>3, <1>4, <1>7, <2>1, <2>2 DEF Going
  <2>4. Fresh(u)'
    <3>1. pc[u] = "reply" => ToSet(results[u]) \cap R = {}
      <4>1. /\ \A e \in R : e.by = t
            /\ pc[u] = "reply" => \A e \in ToSet(results[u]) : e.by = u
        BY <1>1 DEF Local, Shape
      <4> QED BY <1>7, <4>1
    <3> QED BY <1>1, <1>2, <1>4, <2>1, <2>2, <3>1 DEF Fresh
  <2> QED BY <2>3, <2>4
<1> QED BY <1>1, <1>3, <1>5, <1>6, <1>7, HandsChange DEF Placed, Kept

\* The node that destroy_backend removes is that of its device alone.
LEMMA RemovedIsOne ==
    ASSUME LiveHold, NEW d \in Live
    PROVE  Removed(front, d) = front \ {d} /\ Removed(back, d) = back \ {d}
<1>1. ASSUME NEW n \in Live, Key("any", n) = Key("any", d) PROVE n = d
  BY <1>1 DEF Key, LiveHold, Apart
<1> QED BY <1>1 DEF Removed, Live

LEMMA RemoveKeeps ==
    ASSUME Types, Local, Placed, LiveHold, Accounted, NEW t \in Tasks, OthersStay(t),
           RemoveNode(t)
    PROVE  Kept
<1>1. /\ UNCHANGED <<devs, blks, known, abandoned>>
      /\ dev'[t] = dev[t] /\ pc[t] = "wait"
  BY DEF RemoveNode, callerVars
<1>2. Out(t) /\ dev[t] \in front /\ (side[t] = "front" => dev[t] \notin back)
  BY <1>1 DEF Local, Shape, Out, Tearing, Placed, Going
<1>3. dev[t] \in Live
  BY <1>2 DEF Live, Leaving
<1>4. /\ side'[t] = "front"
      /\ side[t] = "front" => front' = front \ {dev[t]} /\ back' = back /\ pc'[t] = "begin"
      /\ side[t] = "back" => front' = front /\ back' = back \ {dev[t]} /\ pc'[t] = "start"
      /\ side[t] \in {"front", "back"}
  BY <1>3, RemovedIsOne DEF RemoveNode, NextSide, Types, TypeOK
<1>5. Out(t)'
  BY <1>1, <1>2, <1>4 DEF Out, Adding
<1>6. \A u \in Tasks : u # t => (Out(u)' <=> Out(u)) /\ dev'[u] = dev[u]
  BY LeavingOfOne
<1>7. Leaving' = Leaving /\ dev[t] \in Leaving
  BY <1>1, <1>2, <1>5, <1>6 DEF Leaving
<1>8. Live' \subseteq Live /\ Owners \subseteq Owners'
  BY <1>1, <1>4, <1>7 DEF Live, Owners
<1>9. Going(t)' /\ Fresh(t)'
  <2>1. Going(t)
    BY DEF Placed
  <2> QED BY <1>1, <1>2, <1>4, <1>6, <2>1 DEF Going, Fresh, Tearing, Releasing
<1>10. ASSUME NEW u \in Tasks, u # t PROVE Going(u)' /\ Fresh(u)'
  <2>1. pc'[u] = pc[u] /\ side'[u] = side[u] /\ results'[u] = results[u] /\ dev'[u] = dev[u]
    BY <1>10 DEF OthersStay
  <2>2. Going(u) /\ Fresh(u)
    BY DEF Placed
  <2>3. front' \subseteq front /\ back' \subseteq back /\ front \subseteq front' \cup {dev[t]}
    BY <1>4
  <2>4. Going(u)'
    BY <1>1, <1>2, <1>5, <1>6, <1>10, <2>1, <2>2, <2>3 DEF Going
  <2>5. Fresh(u)'
    BY <1>1, <1>2, <1>5, <1>6, <1>10, <2>1, <2>2, <2>3 DEF Fresh
  <2> QED BY <2>4, <2>5
<1>11. known' \subseteq front'
  BY <1>1, <1>2, <1>4 DEF Placed, Going
<1> QED BY <1>1, <1>8, <1>9, <1>10, <1>11, HandsChange DEF Placed, Kept

\* Nodes of devices with ids of their own replace none.
LEMMA WrittenIsAdded ==
    ASSUME LiveHold, NEW new, \A d \in new : d.id \notin devs.used
    PROVE  Written(front, new) = front \cup new /\ Written(back, new) = back \cup new
<1>1. ASSUME NEW n \in Live, NEW d \in new PROVE Key("any", n) # Key("any", d)
  BY DEF Key, LiveHold, Held
<1> QED BY <1>1 DEF Written, Keys, Live

\* An attempt to add devices is committed.
LEMMA CommitAddsKeeps ==
    ASSUME Types, Local, Synced, Placed, LiveHold, Accounted, NEW t \in Tasks, OthersStay(t),
           Commit(t), Adding(t)
    PROVE  Kept
<1> DEFINE new == ToSet(txn[t].new)
<1>1. /\ UNCHANGED <<known, abandoned>> /\ devs' = txn[t].devs /\ blks' = txn[t].blks
      /\ dev'[t] = dev[t] /\ results'[t] = results[t] /\ pc[t] = "commit" /\ pc'[t] = "reply"
      /\ front' = Written(front, new) /\ back' = Written(back, new) /\ ~stale[t]
  BY DEF Commit, MayCommit, At, localVars, callerVars, Types, TypeOK
<1>2. Extends(t, new)
  BY <1>1 DEF Synced, Loaded
<1> HIDE DEF new
<1>3. /\ front' = front \cup new /\ back' = back \cup new
      /\ devs'.used = devs.used \cup IdsOf(new) /\ blks'.used = blks.used \cup BlksOf(new)
      /\ \A d \in new : /\ d.id \notin devs.used
                        /\ d.kind = "disk" => d.blk \notin blks.used
  BY <1>1, <1>2, WrittenIsAdded DEF Extends
<1>4. Leaving' = Leaving
  <2>1. ~Out(t) /\ ~Out(t)'
    BY <1>1 DEF Out, Adding
  <2> QED BY <2>1, LeavingOfOne
<1>5. Live' = Live \cup new /\ Owners' = Owners \cup new
  BY <1>1, <1>3, <1>4 DEF Live, Owners
<1>6. LiveHold'
  <2>1. Held(Live)' /\ NicsBare(Live)'
    BY <1>2, <1>3, <1>5 DEF LiveHold, Held, NicsBare, Extends, IdsOf, BlksOf
  <2>2. ASSUME NEW d \in Live, NEW e \in new
        PROVE  d.id # e.id /\ (d.kind = "disk" /\ e.kind = "disk" => d.blk # e.blk)
    BY <1>3 DEF LiveHold, Held
  <2>3. Apart(Live \cup new)
    BY <1>2, <2>2 DEF LiveHold, Apart, Extends
  <2> QED BY <1>5, <2>1, <2>3 DEF LiveHold, Apart
<1>7. Accounted'
  BY <1>3, <1>5 DEF Accounted, IdsOf, BlksOf
<1>8. new \cap Live = {}
  BY <1>3 DEF LiveHold, Held
<1>9. \A u \in Tasks : (Out(u)' <=> Out(u)) /\ dev'[u] = dev[u]
                       /\ (Out(u) => dev[u] \in Live)
  <2>1. ~Out(t) /\ ~Out(t)'
    BY <1>1 DEF Out, Adding
  <2> QED BY <1>1, <2>1, LeavingOfOne DEF Live, Leaving
<1>10. Going(t)' /\ Fresh(t)'
  <2>1. ToSet(results'[t]) = new
    BY <1>1 DEF Local, Shape, new
  <2> QED BY <1>1, <1>3, <1>8, <1>9, <2>1 DEF Going, Fresh, Tearing, Releasing, Out, Live, Adding
<1>11. ASSUME NEW u \in Tasks, u # t PROVE Going(u)' /\ Fresh(u)'
  <2>1. pc'[u] = pc[u] /\ side'[u] = side[u] /\ results'[u] = results[u] /\ dev'[u] = dev[u]
    BY <1>11 DEF OthersStay
  <2>2. Going(u) /\ Fresh(u)
    BY DEF Placed
  <2>3. Going(u)'
    BY <1>1, <1>3, <1>8, <1>9, <2>1, <2>2 DEF Going
  <2>4. Fresh(u)'
    BY <1>1, <1>3, <1>8, <1>9, <2>1, <2>2 DEF Fresh
  <2> QED BY <2>3, <2>4
<1>12. known' \subseteq front'
  BY <1>1, <1>3 DEF Placed
<1> QED BY <1>6, <1>7, <1>10, <1>11, <1>12 DEF Placed, Kept

\* The ids of a device that has been torn down are given back.
LEMMA CommitReleasesKeeps ==
    ASSUME Types, Local, Synced, Placed, LiveHold, Accounted, NEW t \in Tasks, OthersStay(t),
           Commit(t), ~Adding(t)
    PROVE  Kept
<1> DEFINE x == dev[t]
<1>1. /\ UNCHANGED <<known, abandoned>> /\ devs' = txn[t].devs /\ blks' = txn[t].blks
      /\ dev'[t] = x /\ results'[t] = results[t] /\ pc[t] = "commit" /\ pc'[t] = "reply"
      /\ front' = Written(front, ToSet(txn[t].new)) /\ back' = Written(back, ToSet(txn[t].new))
      /\ ~stale[t]
  BY DEF Commit, MayCommit, At, localVars, callerVars, Types, TypeOK
<1>2. results[t] = <<>> /\ txn[t].new = <<>>
  BY DEF Local, Shape
<1>3. front' = front /\ back' = back
  BY <1>1, <1>2, Lists DEF Written, Keys
<1>4. /\ devs'.used = devs.used \ {x.id} /\ blks'.used = blks.used \ {x.blk}
  BY <1>1 DEF Synced, Loaded
<1>5. Out(t) /\ ~Out(t)' /\ x \in Live /\ x \notin front \cup back \cup known
  BY <1>1 DEF Out, Live, Leaving, Placed, Going, Releasing
<1>6. \A u \in Tasks : u # t => (Out(u)' <=> Out(u)) /\ dev'[u] = dev[u]
                                /\ (Out(u) => dev[u] # x)
  BY <1>5, LeavingOfOne DEF Placed, Going
<1> HIDE DEF x
<1>7. Leaving' \subseteq Leaving \ {x} /\ Leaving \subseteq Leaving' \cup {x}
  BY <1>5, <1>6 DEF Leaving, x
<1>8. Live' \subseteq Live \ {x} /\ Owners \subseteq Owners' \cup {x}
  BY <1>1, <1>3, <1>5, <1>7 DEF Live, Owners
<1>9. LiveHold'
  <2>1. ASSUME NEW d \in Live', d.kind = "disk" PROVE d.blk \in blks'.used
    <3>1. d \in Live /\ d # x /\ d.blk \in blks.used /\ d.blk \in Ids
      BY <1>8, <2>1 DEF LiveHold, Held, Types, TypeOK, Allocator
    <3>2. x \in Device
      BY <1>5 DEF Out, Adding, x, Types, TypeOK
    <3>3. d.blk # x.blk
      BY <1>5, <2>1, <3>1, <3>2, Basics DEF LiveHold, Apart, NicsBare, Device
    <3> QED BY <1>4, <3>1, <3>3
  <2>2. \A d \in Live' : d.id \in devs'.used
    BY <1>4, <1>5, <1>8 DEF LiveHold, Held, Apart
  <2> QED BY <1>8, <2>1, <2>2 DEF LiveHold, Held, Apart, NicsBare
<1>10. Accounted'
  BY <1>4, <1>8 DEF Accounted
<1>11. Going(t)' /\ Fresh(t)'
  BY <1>1, <1>2, <1>5, Lists DEF Going, Fresh
<1>12. ASSUME NEW u \in Tasks, u # t PROVE Going(u)' /\ Fresh(u)'
  <2>1. pc'[u] = pc[u] /\ side'[u] = side[u] /\ results'[u] = results[u] /\ dev'[u] = dev[u]
    BY <1>12 DEF OthersStay
  <2>2. Going(u) /\ Fresh(u)
    BY DEF Placed
  <2>3. Going(u)'
    BY <1>1, <1>3, <1>5, <1>6, <1>12, <2>1, <2>2 DEF Going
  <2>4. Fresh(u)'
    BY <1>1, <1>3, <1>5, <1>6, <1>12, <2>1, <2>2 DEF Fresh
  <2> QED BY <2>3, <2>4
<1> QED BY <1>1, <1>3, <1>9, <1>10, <1>11, <1>12 DEF Placed, Kept

-----------------------------------------------------------------------------
(* The allocators of a transaction that was not spoilt *)

Working == {"load blkid", "fill", "commit"}

LEMMA SyncedOfOne ==
    ASSUME Types, Synced, NEW t \in Tasks, OthersStay(t), StoreStays(t),
           UNCHANGED <<devs, blks>>, Loaded(t)'
    PROVE  Synced'
<1>1. ASSUME NEW u \in Tasks, u # t PROVE Loaded(u)'
  <2>1. /\ pc'[u] = pc[u] /\ dev'[u] = dev[u] /\ txn'[u] = txn[u]
        /\ seen'[u] = seen[u] /\ (stale[u] => stale'[u])
    BY <1>1 DEF OthersStay, StoreStays
  <2>2. Loaded(u)
    BY DEF Synced
  <2> QED BY <2>1, <2>2 DEF Loaded, Extends, Adding
<1> QED BY <1>1 DEF Synced

\* A commit writes the allocators, and spoils whoever has read them.
LEMMA CommitSynced ==
    ASSUME Types, Synced, NEW t \in Tasks, OthersStay(t), Commit(t)
    PROVE  Synced'
<1>1. pc'[t] = "reply"
  BY DEF Commit, At, Types, TypeOK
<1>2. Loaded(t)'
  BY <1>1 DEF Loaded
<1>3. ASSUME NEW u \in Tasks, u # t PROVE Loaded(u)'
  <2>1. /\ pc'[u] = pc[u] /\ seen'[u] = seen[u]
        /\ DevidKey \in seen[u] => stale'[u]
    BY <1>3 DEF OthersStay, Commit, Changed, Types
  <2>2. pc[u] \in Working => DevidKey \in seen[u]
    BY DEF Synced, Loaded, Working
  <2> QED BY <2>1, <2>2 DEF Loaded, Working
<1> QED BY <1>2, <1>3 DEF Synced

LEMMA LoadsAreLoaded ==
    ASSUME Types, Local, Synced, NEW t \in Tasks, LoadDevid(t) \/ LoadBlkid(t)
    PROVE  Loaded(t)'
<1> USE DEF Types, TypeOK
<1>1. UNCHANGED <<devs, blks, stale, dev>>
  BY DEF LoadDevid, LoadBlkid, Use, keyVars
<1>2. CASE LoadDevid(t)
  <2>1. pc'[t] = "load blkid" /\ DevidKey \in seen'[t] /\ txn'[t].devs = devs
    BY <1>2, TxnSteps DEF LoadDevid, At, Use
  <2> QED BY <1>1, <2>1 DEF Loaded
<1>3. CASE LoadBlkid(t)
  <2>1. /\ pc[t] = "load blkid" /\ pc'[t] = "fill" /\ seen[t] \subseteq seen'[t]
        /\ txn'[t].blks = blks /\ txn'[t].devs = txn[t].devs /\ txn'[t].new = txn[t].new
    BY <1>3, TxnSteps DEF LoadBlkid, At, Use
  <2>2. DevidKey \in seen[t] /\ (~stale[t] => txn[t].devs = devs) /\ txn[t].new = <<>>
    BY <2>1 DEF Synced, Loaded, Local, Shape
  <2>3. ~stale[t] => Extends(t, {})'
    BY <1>1, <2>1, <2>2 DEF Extends, IdsOf, BlksOf, Apart, NicsBare
  <2>4. ToSet(txn'[t].new) = {}
    BY <2>1, <2>2, Lists
  <2> QED BY <1>1, <2>1, <2>2, <2>3, <2>4 DEF Loaded, Adding
<1> QED BY <1>2, <1>3

LEMMA AddIsLoaded ==
    ASSUME Types, Local, Synced, NEW t \in Tasks, AddDevice(t)
    PROVE  Loaded(t)'
<1> DEFINE new == ToSet(txn[t].new)
<1>1. /\ UNCHANGED <<devs, blks, stale, dev>> /\ Adding(t) /\ pc[t] = "fill"
      /\ pc'[t] \in {"fill", "commit"}
  BY DEF AddDevice, Use, keyVars, Types, TypeOK
<1>2. PICK d \in Device : Adds(t, d)
  BY Added
<1>3. DevidKey \in seen[t] /\ (~stale[t] => Extends(t, new))
  BY <1>1 DEF Synced, Loaded
<1>4. ToSet(txn'[t].new) = new \cup {d}
  <2>1. txn[t].new \in Seq(Device)
    BY DEF Types, TypeOK, Transaction
  <2> QED BY <1>2, <2>1, Lists DEF Adds
<1> HIDE DEF new
<1>5. PICK all : all = new \cup {d}
  OBVIOUS
<1>6. ASSUME ~stale[t] PROVE Extends(t, all)'
  <2>1. Extends(t, new)
    BY <1>3, <1>6
  <2>2. /\ txn'[t].devs.used = devs'.used \cup IdsOf(all)
        /\ txn'[t].blks.used = blks'.used \cup BlksOf(all)
    BY <1>1, <1>2, <1>5, <2>1 DEF Adds, Extends, IdsOf, BlksOf
  <2>3. \A e \in new : d.id # e.id /\ (d.kind = "disk" /\ e.kind = "disk" => d.blk # e.blk)
    BY <1>2, <2>1 DEF Adds, Extends, IdsOf, BlksOf
  <2>4. Apart(all) /\ NicsBare(all)
    BY <1>2, <1>5, <2>1, <2>3 DEF Adds, Extends, Apart, NicsBare
  <2>5. \A e \in all : /\ e.id \notin devs'.used
                       /\ e.kind = "disk" => e.blk \notin blks'.used
    BY <1>1, <1>2, <1>5, <2>1 DEF Adds, Extends
  <2> QED BY <2>2, <2>4, <2>5 DEF Extends, IdsOf, BlksOf, Apart, NicsBare
<1>7. DevidKey \in seen'[t]
  BY <1>2, <1>3 DEF Adds, Use, Types
<1>8. Adding(t)'
  BY <1>1 DEF Adding
<1> QED BY <1>1, <1>4, <1>5, <1>6, <1>7, <1>8 DEF Loaded

LEMMA ReleaseIsLoaded ==
    ASSUME Types, Local, Synced, NEW t \in Tasks, ReleaseIds(t)
    PROVE  Loaded(t)'
<1>1. /\ UNCHANGED <<devs, blks, stale, seen, dev>> /\ ~Adding(t)
      /\ pc[t] = "fill" /\ pc'[t] = "commit"
  BY DEF ReleaseIds, At, keyVars, storeVars, Types, TypeOK
<1>2. /\ txn'[t].devs.used = txn[t].devs.used \ {dev[t].id}
      /\ txn'[t].blks.used = txn[t].blks.used \ {dev[t].blk}
  <2>1. txn \in [Tasks -> Transaction] /\ txn[t] \in Transaction
    BY DEF Types, TypeOK
  <2>2. /\ txn'[t].devs = [txn[t].devs EXCEPT !.used = txn[t].devs.used \ {dev[t].id}]
        /\ txn'[t].blks = [txn[t].blks EXCEPT !.used = txn[t].blks.used \ {dev[t].blk}]
    BY <2>1 DEF ReleaseIds, Transaction
  <2> QED BY <2>1, <2>2 DEF Transaction, Allocator
<1>3. DevidKey \in seen[t] /\ (~stale[t] => txn[t].devs = devs /\ txn[t].blks = blks)
  BY <1>1 DEF Synced, Loaded
<1> QED BY <1>1, <1>2, <1>3 DEF Loaded, Adding

LEMMA SyncedKept ==
    ASSUME Types, Local, Synced, NEW t \in Tasks, StepOf(t)
    PROVE  Synced'
<1>1. OthersStay(t) /\ StoreStays(t)
  BY OthersKeepTheirs, StoreKeepsOthers
<1>2. CASE Commit(t)
  BY <1>1, <1>2, CommitSynced
<1>3. CASE LoadDevid(t) \/ LoadBlkid(t) \/ AddDevice(t) \/ ReleaseIds(t)
  <2>1. UNCHANGED <<devs, blks>>
    BY <1>3 DEF LoadDevid, LoadBlkid, AddDevice, ReleaseIds, keyVars
  <2>2. Loaded(t)'
    BY <1>3, LoadsAreLoaded, AddIsLoaded, ReleaseIsLoaded
  <2> QED BY <1>1, <2>1, <2>2, SyncedOfOne
<1>4. CASE \/ \E list \in Orders : BeginAdd(t, list)
           \/ \E d \in known : BeginDestroy(t, d)
           \/ Begin(t) \/ CommitRefused(t)
           \/ FindBackend(t) \/ StartClose(t) \/ ReadState(t) \/ Close(t)
  <2>1. UNCHANGED <<devs, blks>>
    BY <1>4 DEF BeginAdd, BeginDestroy, Begin, CommitRefused, FindBackend, StartClose,
                ReadState, Close, keyVars
  <2>2. pc'[t] \notin Working
    BY <1>4 DEF BeginAdd, BeginDestroy, Begin, CommitRefused, FindBackend, StartClose,
                ReadState, Close, At, Working, Types, TypeOK
  <2> QED BY <1>1, <2>1, <2>2, SyncedOfOne DEF Loaded, Working
<1>5. CASE Exhausted(t) \/ Return(t) \/ CloseRefused(t) \/ Cancel(t) \/ ReadNothing(t)
           \/ RemoveNode(t)
  <2>1. UNCHANGED <<devs, blks>>
    BY <1>5 DEF Exhausted, Return, CloseRefused, Cancel, ReadNothing, RemoveNode, keyVars
  <2>2. pc'[t] \notin Working
    BY <1>5 DEF Exhausted, Return, CloseRefused, Cancel, ReadNothing, RemoveNode, EndCall,
                NextSide, Working, Types, TypeOK
  <2> QED BY <1>1, <2>1, <2>2, SyncedOfOne DEF Loaded, Working
<1> QED BY <1>2, <1>3, <1>4, <1>5 DEF StepOf, Task

-----------------------------------------------------------------------------
(* The invariant *)

AllOfIt == IInv /\ TransactionsAreAccounted

\* Nothing is open, allocated or under way at the beginning.
LEMMA InitHolds == Init => AllOfIt
<1> SUFFICES ASSUME Init PROVE AllOfIt
  OBVIOUS
<1>1. NewAllocator \in Allocator /\ NewAllocator.used = {} /\ NoTransaction.new = <<>>
  BY Basics DEF NewAllocator, NoTransaction, Allocator
<1>2. NoTransaction \in Transaction
  BY <1>1, Lists DEF NoTransaction, Transaction
<1>3. \A t \in Tasks : /\ pc[t] = "idle" /\ Adding(t) /\ side[t] = "back"
                       /\ results[t] = <<>> /\ txn[t].new = <<>>
  BY <1>1 DEF Init, Adding
<1>4. Types
  <2>1. /\ pc \in [Tasks -> Places] /\ order \in [Tasks -> Orders \cup {<<>>}]
        /\ dev \in [Tasks -> Device \cup {NoDevice}] /\ side \in [Tasks -> {"front", "back"}]
        /\ txn \in [Tasks -> Transaction] /\ results \in [Tasks -> Seq(Device)]
    BY <1>2, Lists, PlaceNames DEF Init
  <2>2. seen \in [Tasks -> SUBSET AllKeys] /\ stale \in [Tasks -> BOOLEAN]
        /\ near \in [Tasks -> BOOLEAN]
    BY DEF Init
  <2>3. /\ open \in Nat /\ aborting \in Nat /\ lost \in Nat /\ calls \in Nat /\ cancels \in Nat
    BY DEF Init
  <2> QED BY <1>1, <2>1, <2>2, <2>3 DEF Init, Types, TypeOK
<1>5. \A t \in Tasks : ~Out(t) /\ ~Holds(t) /\ pc[t] # "reply" /\ pc[t] \notin Working
  BY <1>3 DEF Out, Holds, Plain, Working
<1>6. Local
  BY <1>3, Lists DEF Local, Shape, Tearing, Releasing
<1>7. Synced /\ Placed
  BY <1>5 DEF Init, Synced, Loaded, Working, Placed, Going, Fresh
<1>8. LiveHold /\ Accounted
  <2>1. Live = {}
    BY <1>5 DEF Init, Live, Leaving
  <2> QED BY <1>1, <2>1 DEF Init, LiveHold, Held, Apart, NicsBare, Accounted
<1>9. TransactionsAreAccounted
  <2>1. {t \in Tasks : Holds(t)} = {}
    BY <1>5
  <2>2. open = 0 /\ aborting = 0 /\ lost = 0
    BY DEF Init
  <2> QED BY <2>1, <2>2, FS_EmptySet DEF TransactionsAreAccounted
<1> QED BY <1>4, <1>6, <1>7, <1>8, <1>9 DEF IInv, AllOfIt

LEMMA TypesKept ==
    ASSUME Types, Local, TransactionsAreAccounted, NEW t \in Tasks, StepOf(t)
    PROVE  Steady
  BY BeginAddSteady, BeginDestroySteady, OpenSteady, LoadSteady, FillSteady, CommitSteady,
     RefusedSteady, TearSteady, ReadNothingSteady, ReturnSteady, ExhaustedSteady, CancelSteady
  DEF StepOf, Task

LEMMA PlacesKept ==
    ASSUME Types, Local, Synced, Placed, LiveHold, Accounted, NEW t \in Tasks, StepOf(t)
    PROVE  Kept
<1>1. OthersStay(t)
  BY OthersKeepTheirs
<1>2. CASE \/ \E list \in Orders : BeginAdd(t, list)
           \/ Begin(t) \/ LoadDevid(t) \/ LoadBlkid(t) \/ AddDevice(t) \/ ReleaseIds(t)
           \/ CommitRefused(t) \/ Exhausted(t) \/ (Cancel(t) /\ Adding(t))
  BY <1>1, <1>2, AttemptKeeps
<1>3. CASE FindBackend(t) \/ StartClose(t) \/ ReadState(t) \/ ReadNothing(t) \/ Close(t)
  BY <1>1, <1>3, CloseKeeps
<1>4. CASE \/ \E d \in known : BeginDestroy(t, d)
           \/ CloseRefused(t) \/ (Cancel(t) /\ ~Adding(t)) \/ Return(t) \/ RemoveNode(t)
  BY <1>1, <1>4, BeginDestroyKeeps, CloseRefusedKeeps, CancelDestroyKeeps, ReturnKeeps,
     RemoveKeeps
<1>5. CASE Commit(t)
  BY <1>1, <1>5, CommitAddsKeeps, CommitReleasesKeeps
<1> QED BY <1>2, <1>3, <1>4, <1>5 DEF StepOf, Task

\* Aborts and drivers touch no allocator, device or call.
LEMMA OthersKeep ==
    ASSUME AllOfIt,
           \/ Abort
           \/ \E where \in {"front", "back"} : \E d \in Nodes(where) : DriverWrites(where, d)
    PROVE  AllOfIt'
<1>1. Types' /\ TransactionsAreAccounted'
  BY OthersSteady DEF AllOfIt, IInv, Steady
<1>2. UNCHANGED <<devs, blks, front, back, seen, pc, order, dev, side, txn, results, known,
                  abandoned>>
  BY DEF Abort, DriverWrites, keyVars, localVars, callerVars
<1>3. \A u \in Tasks : stale[u] => stale'[u]
  BY BoundsAssumption DEF Abort, DriverWrites, Changed
<1>4. \A u \in Tasks : (Out(u)' <=> Out(u))
  BY <1>2 DEF Out, Adding
<1>5. Leaving' = Leaving
  BY <1>2, <1>4 DEF Leaving
<1>6. Live' = Live /\ Owners' = Owners
  BY <1>2, <1>5 DEF Live, Owners
<1>7. LiveHold' /\ Accounted'
  BY <1>2, <1>6 DEF AllOfIt, IInv, LiveHold, Held, Apart, NicsBare, Accounted
<1>8. Local'
  BY <1>2 DEF AllOfIt, IInv, Local, Shape, Adding
<1>9. Synced'
  BY <1>2, <1>3 DEF AllOfIt, IInv, Synced, Loaded, Extends, Adding
<1>10. Placed'
  BY <1>2, <1>4 DEF AllOfIt, IInv, Placed, Going, Fresh
<1> QED BY <1>1, <1>7, <1>8, <1>9, <1>10 DEF AllOfIt, IInv

LEMMA StutterKeeps == ASSUME AllOfIt, UNCHANGED vars PROVE AllOfIt'
<1>1. UNCHANGED <<devs, blks, front, back, open, seen, stale, near, pc, order, dev, side,
                  txn, results, known, abandoned, calls, cancels, aborting, lost>>
  BY DEF vars, keyVars, storeVars, localVars, callerVars, dropVars
<1>2. \A u \in Tasks : (Out(u)' <=> Out(u)) /\ (Holds(u)' <=> Holds(u))
  BY <1>1 DEF Out, Adding, Holds, Plain
<1>3. Leaving' = Leaving
  BY <1>1, <1>2 DEF Leaving
<1>4. Live' = Live /\ Owners' = Owners
  BY <1>1, <1>3 DEF Live, Owners
<1>5. LiveHold' /\ Accounted'
  BY <1>1, <1>4 DEF AllOfIt, IInv, LiveHold, Held, Apart, NicsBare, Accounted
<1>6. Local'
  BY <1>1 DEF AllOfIt, IInv, Local, Shape, Adding
<1>7. Synced' /\ Placed'
  BY <1>1, <1>2 DEF AllOfIt, IInv, Synced, Loaded, Extends, Adding, Placed, Going, Fresh
<1>8. Types'
  BY <1>1 DEF AllOfIt, IInv, Types, TypeOK
<1>9. TransactionsAreAccounted'
  <2>1. {t \in Tasks : Holds(t)}' = {t \in Tasks : Holds(t)}
    BY <1>2
  <2> QED BY <1>1, <2>1 DEF AllOfIt, TransactionsAreAccounted
<1> QED BY <1>5, <1>6, <1>7, <1>8, <1>9 DEF AllOfIt, IInv

\* The invariant is inductive: this is the whole of the argument, step by step.
LEMMA Inductive == AllOfIt /\ [Next]_vars => AllOfIt'
<1> SUFFICES ASSUME AllOfIt, [Next]_vars PROVE AllOfIt'
  OBVIOUS
<1>1. ASSUME NEW t \in Tasks, StepOf(t) PROVE AllOfIt'
  <2>1. Types /\ Local /\ Synced /\ Placed /\ LiveHold /\ Accounted /\ TransactionsAreAccounted
    BY DEF AllOfIt, IInv
  <2>2. Types' /\ TransactionsAreAccounted'
    BY <1>1, <2>1, TypesKept DEF Steady
  <2>3. Local' /\ Synced'
    BY <1>1, <2>1, LocalKept, SyncedKept
  <2>4. Placed' /\ LiveHold' /\ Accounted'
    BY <1>1, <2>1, PlacesKept DEF Kept
  <2> QED BY <2>2, <2>3, <2>4 DEF AllOfIt, IInv
<1> QED BY <1>1, OthersKeep, StutterKeeps DEF Next, StepOf

LEMMA Invariance == Spec => []AllOfIt
<1> QED BY InitHolds, Inductive, PTL DEF Spec
-----------------------------------------------------------------------------
\* The variables keep their types, whatever the number of tasks, ids, lists and
\* calls (tx/mod.rs:19-28, lib.rs:98-141, 229-289).
THEOREM TypeCorrect == Spec => []TypeOK
<1>1. AllOfIt => TypeOK
  BY DEF AllOfIt, IInv, Types
<1> QED BY <1>1, Invariance, PTL

\* Every transaction that the store counts as open is in progress, is about to be
\* aborted, or was left by a cancelled call or by destroy_backend of a node that is
\* gone: no refusal or failure of an attempt leaks one (tx/mod.rs:331-341,
\* lib.rs:229-231).
THEOREM TransactionsCorrect == Spec => []TransactionsAreAccounted
<1>1. AllOfIt => TransactionsAreAccounted
  BY DEF AllOfIt
<1> QED BY <1>1, Invariance, PTL

\* The stored allocators and the devices agree: ids in use are unique and marked
\* used, and every used id has an owner, however attempts were refused, begun
\* again, failed or cancelled (tx/mod.rs:51-66, 299-321; lib.rs:98-141, 257-287).
THEOREM IdsCorrect == Spec => []IdsMatchDevices
<1>1. ASSUME AllOfIt PROVE DevicesHoldTheirIds
  <2> DEFINE all == front \cup back \cup known
  <2>1. all \subseteq Live
    BY DEF Live
  <2>2. ASSUME NEW d \in all PROVE d.id \in devs.used /\ (d.kind = "disk" => d.blk \in blks.used)
    BY <1>1, <2>1 DEF AllOfIt, IInv, LiveHold, Held
  <2>3. ASSUME NEW d \in all, NEW e \in all, d # e
        PROVE  d.id # e.id /\ ({d.kind, e.kind} = {"disk"} => d.blk # e.blk)
    <3>1. d.id # e.id /\ (d.kind = "disk" /\ e.kind = "disk" => d.blk # e.blk)
      BY <1>1, <2>1, <2>3 DEF AllOfIt, IInv, LiveHold, Apart
    <3>2. {d.kind, e.kind} = {"disk"} => d.kind = "disk" /\ e.kind = "disk"
      OBVIOUS
    <3> QED BY <3>1, <3>2
  <2> QED BY <2>2, <2>3 DEF DevicesHoldTheirIds
<1>2. ASSUME AllOfIt PROVE IdsAreAccounted
  <2>1. Owners = front \cup known \cup abandoned
                    \cup {dev[t] : t \in {u \in Tasks : ~Adding(u) /\ pc[u] # "reply"}}
    BY DEF Owners, Leaving, Out
  <2> QED BY <1>2, <2>1 DEF AllOfIt, IInv, Accounted, IdsAreAccounted
<1>3. AllOfIt => IdsMatchDevices
  BY <1>1, <1>2 DEF IdsMatchDevices
<1> QED BY <1>3, Invariance, PTL

\* What a call has returned is in the store until somebody destroys it: results of
\* a refused attempt are never among it (lib.rs:98-141).
THEOREM ReturnedCorrect == Spec => []ReturnedDevicesAreStored
<1>1. AllOfIt => ReturnedDevicesAreStored
  BY DEF AllOfIt, IInv, Placed, ReturnedDevicesAreStored
<1> QED BY <1>1, Invariance, PTL
-----------------------------------------------------------------------------
(* The ids that an allocator hands out one after the other are the first     *)
(* free ones of DeviceRegistry.                                              *)

\* How far an id lies behind another, going round
Pos(from, id) == IF from <= id THEN id - from ELSE id - from + DEVICE_COUNT

LEMMA Positions ==
    ASSUME NEW from \in Ids
    PROVE  /\ \A x \in Ids : Pos(from, x) \in Nat /\ Pos(from, x) < DEVICE_COUNT
           /\ \A x, y \in Ids : Pos(from, x) = Pos(from, y) => x = y
           /\ \A x, y \in Ids : InArc(from, x, y) <=> Pos(from, y) < Pos(from, x)
  BY DeviceCountAssumption DEF Ids, Pos, InArc

\* A search that starts behind an id
LEMMA AfterSucc ==
    ASSUME NEW from \in Ids, NEW last \in Ids, NEW id \in Ids, NEW o \in Ids,
           Pos(from, last) < Pos(from, id)
    PROVE  /\ Succ(last) \in Ids
           /\ InArc(Succ(last), id, o)
                <=> Pos(from, last) < Pos(from, o) /\ Pos(from, o) < Pos(from, id)
<1>1. /\ DEVICE_COUNT \in Nat /\ from \in Nat /\ last \in Nat /\ id \in Nat /\ o \in Nat
      /\ from < DEVICE_COUNT /\ last < DEVICE_COUNT /\ id < DEVICE_COUNT /\ o < DEVICE_COUNT
  BY DeviceCountAssumption DEF Ids
<1>2. Succ(last) = IF last + 1 = DEVICE_COUNT THEN 0 ELSE last + 1
  BY <1>1 DEF Succ
<1> QED BY <1>1, <1>2 DEF Ids, Pos, InArc

\* The free ids, and those of them that a search meets before an id
FreeIds(alloc) == Ids \ alloc.used
Before(alloc, id) == {o \in FreeIds(alloc) : InArc(alloc.next, id, o)}

LEMMA Counts ==
    ASSUME NEW alloc \in Allocator
    PROVE  /\ IsFiniteSet(FreeIds(alloc))
           /\ \A S \in SUBSET FreeIds(alloc) : IsFiniteSet(S) /\ Cardinality(S) \in Nat
<1>1. IsFiniteSet(Ids)
  BY DeviceCountAssumption, FS_Interval DEF Ids
<1> QED BY <1>1, FS_Subset, FS_CardinalityType DEF FreeIds

LEMMA Cards == ASSUME NEW S PROVE Registry!Cardinality(S) = Cardinality(S)
  BY DEF Cardinality, Registry!Cardinality

\* As many ids as come before it tell an id.
LEMMA FreeIsOne ==
    ASSUME NEW alloc \in Allocator, NEW id \in FreeIds(alloc), NEW n \in Nat,
           Cardinality(Before(alloc, id)) = n
    PROVE  Registry!Free(alloc, n + 1) = id
<1> DEFINE F == FreeIds(alloc)
<1>1. alloc.next \in Ids /\ F \subseteq Ids
  BY DEF Allocator, FreeIds
<1>2. ASSUME NEW x \in F, NEW y \in F, Pos(alloc.next, x) < Pos(alloc.next, y)
      PROVE  Cardinality(Before(alloc, x)) < Cardinality(Before(alloc, y))
  <2>1. Before(alloc, x) \cup {x} \subseteq Before(alloc, y) /\ x \notin Before(alloc, x)
    BY <1>1, <1>2, Positions DEF Before
  <2>2. IsFiniteSet(Before(alloc, x)) /\ IsFiniteSet(Before(alloc, y))
        /\ Cardinality(Before(alloc, x)) \in Nat /\ Cardinality(Before(alloc, y)) \in Nat
    BY Counts DEF Before
  <2>3. Cardinality(Before(alloc, x) \cup {x}) = Cardinality(Before(alloc, x)) + 1
    BY <2>1, <2>2, FS_AddElement
  <2>4. Cardinality(Before(alloc, x) \cup {x}) <= Cardinality(Before(alloc, y))
    BY <2>1, <2>2, FS_Subset
  <2> QED BY <2>2, <2>3, <2>4
<1>3. ASSUME NEW x \in F, Cardinality(Before(alloc, x)) = n PROVE x = id
  <2>1. /\ Pos(alloc.next, x) \in Nat /\ Pos(alloc.next, id) \in Nat
        /\ (Pos(alloc.next, x) = Pos(alloc.next, id) => x = id)
    BY <1>1, Positions
  <2>2. ~(Pos(alloc.next, x) < Pos(alloc.next, id)) /\ ~(Pos(alloc.next, id) < Pos(alloc.next, x))
    BY <1>2, <1>3
  <2> QED BY <2>1, <2>2
<1>4. Registry!Free(alloc, n + 1) =
        CHOOSE x \in F : Cardinality(Before(alloc, x)) = n
  <2>1. (n + 1) - 1 = n
    OBVIOUS
  <2>2. Registry!Free(alloc, n + 1) =
          CHOOSE x \in F : Cardinality(Before(alloc, x)) = (n + 1) - 1
    BY Cards DEF Registry!Free, Before, FreeIds, Ids, InArc, Registry!Ids, Registry!InArc
  <2> QED BY <2>1, <2>2
<1> HIDE DEF F
<1> QED BY <1>3, <1>4 DEF F

FirstFree(alloc, n) == {Registry!Free(alloc, i) : i \in 1 .. n}

\* The first n free ids are there, and are those up to the n-th.
Chain(alloc, n) ==
    /\ FirstFree(alloc, n) \subseteq FreeIds(alloc)
    /\ Cardinality(FirstFree(alloc, n)) = n
    /\ n > 0 => LET last == Registry!Free(alloc, n)
                IN  FirstFree(alloc, n) = Before(alloc, last) \cup {last}

LEMMA ChainStarts ==
    ASSUME NEW alloc \in Allocator
    PROVE  Chain(alloc, 0) /\ Registry!Taken(alloc, 0) = alloc
<1>1. FirstFree(alloc, 0) = {}
  BY DEF FirstFree
<1> QED BY <1>1, FS_EmptySet DEF Chain, Registry!Taken

LEMMA ChainFits ==
    ASSUME NEW alloc \in Allocator, NEW n \in Nat, Chain(alloc, n)
    PROVE  n <= Registry!FreeCount(alloc)
<1>1. Registry!FreeCount(alloc) = Cardinality(FreeIds(alloc))
  BY Cards DEF Registry!FreeCount, Registry!Ids, FreeIds, Ids
<1>2. Cardinality(FirstFree(alloc, n)) <= Cardinality(FreeIds(alloc))
  BY Counts, FS_Subset DEF Chain
<1> QED BY <1>1, <1>2 DEF Chain

\* Next-fit finds the free id after those that it has handed out.
LEMMA ChainGrows ==
    ASSUME NEW alloc \in Allocator, NEW n \in Nat, Chain(alloc, n),
           NEW id \in NextId(Registry!Taken(alloc, n))
    PROVE  /\ Registry!Free(alloc, n + 1) = id
           /\ Allocate(Registry!Taken(alloc, n), id) = Registry!Taken(alloc, n + 1)
           /\ Chain(alloc, n + 1)
<1> DEFINE from == alloc.next
           first == FirstFree(alloc, n)
<1>1. /\ from \in Ids /\ id \in Ids /\ alloc.used \subseteq Ids
      /\ alloc = [used |-> alloc.used, next |-> alloc.next]
  BY DEF Allocator, NextId, IsNextFree
<1>2. Registry!Taken(alloc, n).used = alloc.used \cup first
  BY ChainStarts, <1>1 DEF Registry!Taken, FirstFree
<1>3. id \in FreeIds(alloc) /\ id \notin first
  BY <1>2 DEF NextId, IsNextFree, FreeIds
<1>4. \A o \in FreeIds(alloc) \ first : ~InArc(Registry!Taken(alloc, n).next, id, o)
  BY <1>2 DEF NextId, IsNextFree, FreeIds
<1>5. Before(alloc, id) = first
  <2>1. CASE n = 0
    <3>1. first = {} /\ Registry!Taken(alloc, n) = alloc
      BY <2>1, ChainStarts DEF FirstFree
    <3> QED BY <1>4, <3>1 DEF Before
  <2>2. CASE n > 0
    <3> DEFINE last == Registry!Free(alloc, n)
    <3>1. first = Before(alloc, last) \cup {last} /\ first \subseteq FreeIds(alloc)
      BY <2>2 DEF Chain
    <3>2. Registry!Taken(alloc, n).next = Succ(last)
      BY <2>2 DEF Registry!Taken, Registry!Succ, Succ
    <3> HIDE DEF last, first, from
    <3>3. last \in Ids /\ FreeIds(alloc) \subseteq Ids /\ last # id
      BY <1>3, <3>1 DEF FreeIds
    <3>4. /\ \A x \in Ids : Pos(from, x) \in Nat
          /\ \A x, y \in Ids : Pos(from, x) = Pos(from, y) => x = y
          /\ \A x, y \in Ids : InArc(from, x, y) <=> Pos(from, y) < Pos(from, x)
      BY <1>1, Positions
    <3>5. \A o \in FreeIds(alloc) : o \in first <=> ~(Pos(from, last) < Pos(from, o))
      <4> SUFFICES ASSUME NEW o \in FreeIds(alloc)
                   PROVE  o \in first <=> ~(Pos(from, last) < Pos(from, o))
        OBVIOUS
      <4>1. o \in first <=> Pos(from, o) < Pos(from, last) \/ o = last
        BY <3>1, <3>3, <3>4 DEF Before, from
      <4>2. Pos(from, o) \in Nat /\ Pos(from, last) \in Nat
            /\ (Pos(from, o) = Pos(from, last) => o = last)
        BY <3>3, <3>4
      <4> QED BY <4>1, <4>2
    <3>6. Pos(from, last) < Pos(from, id)
      BY <1>3, <3>5
    <3>7. \A o \in FreeIds(alloc) :
            InArc(Succ(last), id, o)
               <=> Pos(from, last) < Pos(from, o) /\ Pos(from, o) < Pos(from, id)
      BY <1>1, <3>3, <3>6, AfterSucc
    <3>8. ASSUME NEW o \in FreeIds(alloc)
          PROVE  Pos(from, o) < Pos(from, id) <=> o \in first
      <4>1. Pos(from, o) \in Nat /\ Pos(from, last) \in Nat /\ Pos(from, id) \in Nat
        BY <1>1, <3>3, <3>4
      <4>2. CASE o \in first
        BY <3>5, <3>6, <4>1, <4>2
      <4>3. CASE o \notin first
        BY <1>4, <3>2, <3>5, <3>7, <4>3
      <4> QED BY <4>2, <4>3
    <3>9. \A o \in FreeIds(alloc) : InArc(from, id, o) <=> Pos(from, o) < Pos(from, id)
      BY <1>1, <3>3, <3>4
    <3> QED BY <3>1, <3>8, <3>9 DEF Before, from
  <2> QED BY <2>1, <2>2
<1>6. Cardinality(Before(alloc, id)) = n
  BY <1>5 DEF Chain
<1>7. Registry!Free(alloc, n + 1) = id
  BY <1>3, <1>6, FreeIsOne
<1>8. FirstFree(alloc, n + 1) = first \cup {id}
  <2>1. 1 .. n + 1 = (1 .. n) \cup {n + 1}
    OBVIOUS
  <2> QED BY <1>7, <2>1 DEF FirstFree
<1>9. Allocate(Registry!Taken(alloc, n), id) = Registry!Taken(alloc, n + 1)
  <2>1. n + 1 # 0
    OBVIOUS
  <2>2. Registry!Taken(alloc, n + 1) =
          [used |-> alloc.used \cup FirstFree(alloc, n + 1), next |-> Succ(id)]
    BY <1>7, <2>1, Zenon DEF Registry!Taken, FirstFree, Registry!Succ, Succ
  <2> QED BY <1>2, <1>8, <2>2 DEF Allocate
<1>10. Chain(alloc, n + 1)
  <2>1. FirstFree(alloc, n + 1) \subseteq FreeIds(alloc)
    BY <1>3, <1>8 DEF Chain
  <2>2. Cardinality(FirstFree(alloc, n + 1)) = n + 1
    BY <1>3, <1>8, Counts, FS_AddElement DEF Chain
  <2> QED BY <1>5, <1>7, <1>8, <2>1, <2>2 DEF Chain
<1> QED BY <1>7, <1>9, <1>10

\* A list of devices: the disks among the first, one more at a time
LEMMA DisksCount ==
    ASSUME NEW list, NEW n \in Nat
    PROVE  /\ Registry!DisksAmong(list, 0) = 0 /\ Registry!DisksAmong(list, n) \in Nat
           /\ Registry!DisksAmong(list, n + 1) =
                 Registry!DisksAmong(list, n) + (IF list[n + 1] = "disk" THEN 1 ELSE 0)
<1> DEFINE D(m) == {i \in 1 .. m : list[i] = "disk"}
<1>1. \A m \in Nat : Registry!DisksAmong(list, m) = Cardinality(D(m))
  BY Cards DEF Registry!DisksAmong
<1>2. D(0) = {} /\ D(n + 1) = IF list[n + 1] = "disk" THEN D(n) \cup {n + 1} ELSE D(n)
  OBVIOUS
<1>3. IsFiniteSet(D(n)) /\ n + 1 \notin D(n)
  <2>1. IsFiniteSet(1 .. n) /\ D(n) \subseteq 1 .. n
    BY FS_Interval
  <2> QED BY <2>1, FS_Subset
<1> HIDE DEF D
<1>4. n \in Nat /\ n + 1 \in Nat /\ 0 \in Nat /\ Cardinality(D(n)) \in Nat
  BY <1>3, FS_CardinalityType
<1>5. Cardinality(D(n) \cup {n + 1}) = Cardinality(D(n)) + 1 /\ Cardinality(D(0)) = 0
  BY <1>2, <1>3, FS_AddElement, FS_EmptySet
<1>6. /\ Registry!DisksAmong(list, 0) = Cardinality(D(0))
      /\ Registry!DisksAmong(list, n) = Cardinality(D(n))
      /\ Registry!DisksAmong(list, n + 1) = Cardinality(D(n + 1))
  BY <1>1, <1>4
<1>7. CASE list[n + 1] = "disk"
  BY <1>2, <1>4, <1>5, <1>6, <1>7
<1>8. CASE list[n + 1] # "disk"
  BY <1>2, <1>4, <1>5, <1>6, <1>8
<1> QED BY <1>7, <1>8

\* What an attempt that was not spoilt has done to the stored allocators: each of
\* its devices has the next free ids, or its device's ids are free.
Made(t, i) ==
    LET d == txn[t].new[i]
    IN  /\ d.kind = order[t][i] /\ d.id = Registry!Free(devs, i)
        /\ d.blk = IF order[t][i] = "disk"
                     THEN Registry!Free(blks, Registry!DisksAmong(order[t], i)) ELSE NoId
Follows(t) ==
    pc[t] \in {"fill", "commit"} /\ ~stale[t] =>
      IF Adding(t)
        THEN LET n == Len(txn[t].new)
                 k == Registry!DisksAmong(order[t], n)
             IN  /\ pc[t] = "commit" => n = Len(order[t])
                 /\ Chain(devs, n) /\ txn[t].devs = Registry!Taken(devs, n)
                 /\ Chain(blks, k) /\ txn[t].blks = Registry!Taken(blks, k)
                 /\ \A i \in 1 .. n : Made(t, i)
        ELSE pc[t] = "commit" =>
                /\ txn[t].devs = Registry!Without(devs, dev[t].id)
                /\ txn[t].blks = Registry!Without(blks, dev[t].blk)

AllFollow == \A t \in Tasks : Follows(t)

LEMMA FollowsOfOne ==
    ASSUME Types, AllFollow, NEW t \in Tasks, OthersStay(t), StoreStays(t),
           UNCHANGED <<devs, blks>>, Follows(t)'
    PROVE  AllFollow'
<1>1. ASSUME NEW u \in Tasks, u # t PROVE Follows(u)'
  <2>1. /\ pc'[u] = pc[u] /\ order'[u] = order[u] /\ dev'[u] = dev[u] /\ txn'[u] = txn[u]
        /\ (stale[u] => stale'[u])
    BY <1>1 DEF OthersStay, StoreStays
  <2>2. Follows(u)
    BY DEF AllFollow
  <2> QED BY <2>1, <2>2 DEF Follows, Adding, Made
<1> QED BY <1>1 DEF AllFollow

LEMMA LoadFollows ==
    ASSUME Types, Local, Synced, NEW t \in Tasks, LoadBlkid(t)
    PROVE  Follows(t)'
<1>1. UNCHANGED <<devs, blks, stale, dev, order>> /\ devs \in Allocator /\ blks \in Allocator
  BY DEF LoadBlkid, Use, keyVars, Types, TypeOK
<1>2. /\ pc[t] = "load blkid" /\ pc'[t] = "fill"
      /\ txn'[t].blks = blks /\ txn'[t].devs = txn[t].devs /\ txn'[t].new = txn[t].new
  BY <1>1, TxnSteps DEF LoadBlkid, At, Types, TypeOK
<1>3. (~stale[t] => txn[t].devs = devs) /\ txn[t].new = <<>>
  BY <1>2 DEF Synced, Loaded, Local, Shape
<1>4. Len(txn'[t].new) = 0
  BY <1>2, <1>3, Lists
<1>5. Registry!DisksAmong(order[t], 0)' = 0
  BY DisksCount
<1>6. /\ Chain(devs, 0) /\ Registry!Taken(devs, 0) = devs
      /\ Chain(blks, 0) /\ Registry!Taken(blks, 0) = blks
  BY <1>1, ChainStarts
<1>7. ~stale[t] =>
        /\ Chain(devs, 0)' /\ (txn[t].devs = Registry!Taken(devs, 0))'
        /\ Chain(blks, 0)' /\ (txn[t].blks = Registry!Taken(blks, 0))'
  BY <1>1, <1>2, <1>3, <1>6
<1>8. \A i \in 1 .. 0 : Made(t, i)'
  OBVIOUS
<1> QED BY <1>1, <1>2, <1>4, <1>5, <1>7, <1>8 DEF Follows, Adding

LEMMA ReleaseFollows ==
    ASSUME Types, Local, Synced, NEW t \in Tasks, ReleaseIds(t)
    PROVE  Follows(t)'
<1>1. /\ UNCHANGED <<devs, blks, stale, dev>> /\ ~Adding(t)
      /\ pc[t] = "fill" /\ pc'[t] = "commit"
  BY DEF ReleaseIds, At, keyVars, storeVars, Types, TypeOK
<1>2. ~stale[t] => txn[t].devs = devs /\ txn[t].blks = blks
  BY <1>1 DEF Synced, Loaded
<1>3. /\ txn'[t].devs = [txn[t].devs EXCEPT !.used = @ \ {dev[t].id}]
      /\ txn'[t].blks = [txn[t].blks EXCEPT !.used = @ \ {dev[t].blk}]
  BY DEF ReleaseIds, Transaction, Types, TypeOK
<1> QED BY <1>1, <1>2, <1>3 DEF Follows, Adding, Registry!Without

LEMMA AddFollows ==
    ASSUME Types, Local, AllFollow, NEW t \in Tasks, AddDevice(t)
    PROVE  Follows(t)'
<1> DEFINE n == Len(txn[t].new)
           kind == order[t][n + 1]
           k == Registry!DisksAmong(order[t], n)
<1>1. /\ UNCHANGED <<devs, blks, stale, dev, order>> /\ Adding(t) /\ pc[t] = "fill"
      /\ pc'[t] = IF n + 1 = Len(order[t]) THEN "commit" ELSE "fill"
  BY DEF AddDevice, Use, keyVars, Types, TypeOK
<1>2. txn[t].new \in Seq(Device) /\ n \in Nat /\ devs \in Allocator /\ blks \in Allocator
  <2>1. txn[t] \in Transaction /\ devs \in Allocator /\ blks \in Allocator
    BY DEF Types, TypeOK
  <2> QED BY <2>1, Lists DEF Transaction
<1>3. SUFFICES ASSUME ~stale[t] PROVE Follows(t)'
  BY <1>1 DEF Follows
<1>4. /\ Chain(devs, n) /\ txn[t].devs = Registry!Taken(devs, n)
      /\ Chain(blks, k) /\ txn[t].blks = Registry!Taken(blks, k)
      /\ \A i \in 1 .. n : Made(t, i)
  BY <1>1, <1>3 DEF AllFollow, Follows
<1>5. PICK id \in NextId(txn[t].devs),
           blk \in IF kind = "disk" THEN NextId(txn[t].blks) ELSE {NoId} :
        txn' = [txn EXCEPT
               ![t] = [devs |-> Allocate(@.devs, id),
                       blks |-> IF kind = "disk" THEN Allocate(@.blks, blk) ELSE @.blks,
                       new |-> Append(@.new, [kind |-> kind, id |-> id, blk |-> blk,
                                              by |-> t])]]
  BY DEF AddDevice
<1> DEFINE d == [kind |-> kind, id |-> id, blk |-> blk, by |-> t]
<1>6. /\ txn'[t].devs = Allocate(txn[t].devs, id)
      /\ txn'[t].blks = IF kind = "disk" THEN Allocate(txn[t].blks, blk) ELSE txn[t].blks
      /\ txn'[t].new = Append(txn[t].new, d)
  BY <1>5 DEF Types, TypeOK
<1>7. /\ Registry!Free(devs, n + 1) = id /\ Chain(devs, n + 1)
      /\ txn'[t].devs = Registry!Taken(devs, n + 1)
  BY <1>2, <1>4, <1>5, <1>6, ChainGrows
<1> DEFINE k1 == Registry!DisksAmong(order[t], n + 1)
<1>8. k \in Nat /\ k1 = k + (IF kind = "disk" THEN 1 ELSE 0)
  BY <1>2, DisksCount
<1> HIDE DEF k, k1, kind
<1>9. /\ Chain(blks, k1) /\ txn'[t].blks = Registry!Taken(blks, k1)
      /\ blk = IF kind = "disk" THEN Registry!Free(blks, k1) ELSE NoId
  <2>1. CASE kind = "disk"
    <3>1. k1 = k + 1
      BY <1>8, <2>1
    <3>2. blk \in NextId(Registry!Taken(blks, k))
      BY <1>4, <1>5, <2>1
    <3>3. /\ Registry!Free(blks, k + 1) = blk /\ Chain(blks, k + 1)
          /\ Allocate(Registry!Taken(blks, k), blk) = Registry!Taken(blks, k + 1)
      BY <1>2, <1>4, <1>8, <3>2, ChainGrows
    <3> QED BY <1>4, <1>6, <2>1, <3>1, <3>3
  <2>2. CASE kind # "disk"
    <3>1. k1 = k
      BY <1>8, <2>2
    <3> QED BY <1>4, <1>5, <1>6, <2>2, <3>1
  <2> QED BY <2>1, <2>2
<1>10. Len(txn'[t].new) = n + 1
       /\ \A i \in 1 .. n + 1 : txn'[t].new[i] = IF i = n + 1 THEN d ELSE txn[t].new[i]
  BY <1>2, <1>6, AppendProperties, LenProperties
<1>11. d.kind = kind /\ d.id = id /\ d.blk = blk
  OBVIOUS
<1> HIDE DEF d
<1>12. PICK m, q : m = n + 1 /\ q = k1
  OBVIOUS
<1>13. ASSUME NEW i \in 1 .. m PROVE Made(t, i)'
  <2>1. CASE i = m
    BY <1>1, <1>7, <1>9, <1>10, <1>11, <1>12, <2>1 DEF Made, kind, k1
  <2>2. CASE i # m
    <3>1. i \in 1 .. n
      BY <1>2, <1>12, <2>2
    <3> QED BY <1>1, <1>4, <1>10, <1>12, <2>2, <3>1 DEF Made
  <2> QED BY <2>1, <2>2
<1>14. Adding(t)'
  BY <1>1 DEF Adding
<1>15. /\ Chain(devs, m)' /\ Chain(blks, q)'
       /\ (txn[t].devs = Registry!Taken(devs, m))' /\ (txn[t].blks = Registry!Taken(blks, q))'
  BY <1>1, <1>7, <1>9, <1>12
<1>16. /\ Len(txn'[t].new) = m /\ q = Registry!DisksAmong(order[t], m)'
       /\ (pc'[t] = "commit" => m = Len(order'[t]))
  BY <1>1, <1>10, <1>12 DEF k1
<1> QED BY <1>13, <1>14, <1>15, <1>16 DEF Follows

LEMMA FollowKept ==
    ASSUME Types, Local, Synced, AllFollow, NEW t \in Tasks, StepOf(t)
    PROVE  AllFollow'
<1>1. OthersStay(t) /\ StoreStays(t)
  BY OthersKeepTheirs, StoreKeepsOthers
<1>2. CASE Commit(t)
  <2>1. pc'[t] = "reply"
    BY <1>2 DEF Commit, At, Types, TypeOK
  <2>2. ASSUME NEW u \in Tasks, u # t PROVE Follows(u)'
    <3>1. pc'[u] = pc[u] /\ (DevidKey \in seen[u] => stale'[u])
      BY <1>1, <1>2, <2>2 DEF OthersStay, Commit, Changed, Types
    <3>2. pc[u] \in {"fill", "commit"} => DevidKey \in seen[u]
      BY DEF Synced, Loaded
    <3> QED BY <3>1, <3>2 DEF Follows
  <2> QED BY <2>1, <2>2 DEF AllFollow, Follows
<1>3. CASE LoadBlkid(t) \/ AddDevice(t) \/ ReleaseIds(t)
  <2>1. UNCHANGED <<devs, blks>>
    BY <1>3 DEF LoadBlkid, AddDevice, ReleaseIds, keyVars
  <2>2. Follows(t)'
    BY <1>3, LoadFollows, AddFollows, ReleaseFollows
  <2> QED BY <1>1, <2>1, <2>2, FollowsOfOne
<1>4. CASE \/ \E list \in Orders : BeginAdd(t, list)
           \/ \E d \in known : BeginDestroy(t, d)
           \/ Begin(t) \/ LoadDevid(t) \/ CommitRefused(t)
           \/ FindBackend(t) \/ StartClose(t) \/ ReadState(t) \/ Close(t)
  <2>1. UNCHANGED <<devs, blks>>
    BY <1>4 DEF BeginAdd, BeginDestroy, Begin, LoadDevid, CommitRefused, FindBackend,
                StartClose, ReadState, Close, keyVars
  <2>2. pc'[t] \notin {"fill", "commit"}
    BY <1>4 DEF BeginAdd, BeginDestroy, Begin, LoadDevid, CommitRefused, FindBackend,
                StartClose, ReadState, Close, At, Types, TypeOK
  <2> QED BY <1>1, <2>1, <2>2, FollowsOfOne DEF Follows
<1>5. CASE Exhausted(t) \/ Return(t) \/ CloseRefused(t) \/ Cancel(t) \/ ReadNothing(t)
           \/ RemoveNode(t)
  <2>1. UNCHANGED <<devs, blks>>
    BY <1>5 DEF Exhausted, Return, CloseRefused, Cancel, ReadNothing, RemoveNode, keyVars
  <2>2. pc'[t] \notin {"fill", "commit"}
    BY <1>5 DEF Exhausted, Return, CloseRefused, Cancel, ReadNothing, RemoveNode, EndCall,
                NextSide, Types, TypeOK
  <2> QED BY <1>1, <2>1, <2>2, FollowsOfOne DEF Follows
<1> QED BY <1>2, <1>3, <1>4, <1>5 DEF StepOf, Task

LEMMA QuietFollows ==
    ASSUME Types, AllFollow,
           \/ Abort \/ UNCHANGED vars
           \/ \E where \in {"front", "back"} : \E d \in Nodes(where) : DriverWrites(where, d)
    PROVE  AllFollow'
<1>1. UNCHANGED <<devs, blks, pc, order, dev, txn>>
  BY DEF Abort, DriverWrites, keyVars, localVars, vars
<1>2. \A u \in Tasks : stale[u] => stale'[u]
  BY BoundsAssumption DEF Abort, DriverWrites, Changed, vars, storeVars
<1> QED BY <1>1, <1>2 DEF AllFollow, Follows, Adding, Made
-----------------------------------------------------------------------------
(* Steps of DeviceRegistry *)

Entry(d) == [kind |-> d.kind, id |-> d.id, blk |-> d.blk]

LEMMA AddsInOneStep ==
    ASSUME Types, Local, Synced, Placed, LiveHold, AllFollow, NEW t \in Tasks,
           Commit(t), Adding(t), NEW list, list = order[t]
    PROVE  Registry!Add(list)
<1> DEFINE new == txn[t].new
           n == Len(list)
<1>1. /\ devs' = txn[t].devs /\ blks' = txn[t].blks /\ pc[t] = "commit" /\ ~stale[t]
      /\ front' = Written(front, ToSet(new))
  BY DEF Commit, MayCommit, At
<1>2. front' = front \cup ToSet(new)
  <2>1. Extends(t, ToSet(new))
    BY <1>1 DEF Synced, Loaded
  <2> QED BY <1>1, <2>1, WrittenIsAdded DEF Extends
<1>3. /\ Len(new) = n /\ Chain(devs, n) /\ devs' = Registry!Taken(devs, n)
      /\ Chain(blks, Registry!DisksAmong(list, n))
      /\ blks' = Registry!Taken(blks, Registry!DisksAmong(list, n))
      /\ \A i \in 1 .. n : Made(t, i)
  BY <1>1 DEF AllFollow, Follows
<1>4. n \in Nat /\ new \in Seq(Device) /\ devs \in Allocator /\ blks \in Allocator
  <2>1. txn[t] \in Transaction /\ devs \in Allocator /\ blks \in Allocator
    BY DEF Types, TypeOK
  <2>2. new \in Seq(Device)
    BY <2>1 DEF Transaction
  <2> QED BY <1>3, <2>1, <2>2, Lists
<1>5. /\ n <= Registry!FreeCount(devs)
      /\ Registry!DisksAmong(list, n) <= Registry!FreeCount(blks)
  BY <1>3, <1>4, ChainFits, DisksCount
<1> DEFINE New(i) == [kind |-> list[i], id |-> Registry!Free(devs, i),
                      blk |-> IF list[i] = "disk"
                                THEN Registry!Free(blks, Registry!DisksAmong(list, i))
                                ELSE NoId]
<1>6. \A i \in 1 .. n : Entry(new[i]) = New(i)
  BY <1>3 DEF Made, Entry
<1>7. ToSet(new) = {new[i] : i \in 1 .. n}
  BY <1>3, <1>4 DEF ToSet
<1> HIDE DEF New, new, n
<1>8. {Entry(d) : d \in front'} = {Entry(d) : d \in front} \cup {New(i) : i \in 1 .. n}
  BY <1>2, <1>6, <1>7
<1> QED BY <1>3, <1>5, <1>8 DEF Registry!Add, New, n, Entry, Registry!NoId, NoId

LEMMA ReleasesInOneStep ==
    ASSUME Types, Local, Synced, Placed, LiveHold, AllFollow, NEW t \in Tasks,
           Commit(t), ~Adding(t)
    PROVE  Registry!Release(dev[t].id, dev[t].blk) /\ dev[t] \in Device
<1> DEFINE x == dev[t]
<1>1. /\ devs' = txn[t].devs /\ blks' = txn[t].blks /\ pc[t] = "commit" /\ ~stale[t]
      /\ front' = Written(front, ToSet(txn[t].new))
  BY DEF Commit, MayCommit, At
<1>2. front' = front
  <2>1. txn[t].new = <<>>
    BY DEF Local, Shape
  <2> QED BY <1>1, <2>1, Lists DEF Written, Keys
<1>3. devs' = Registry!Without(devs, x.id) /\ blks' = Registry!Without(blks, x.blk)
  BY <1>1 DEF AllFollow, Follows
<1>4. x \in Live /\ x \notin front /\ x \in Device /\ front \subseteq Live /\ front \subseteq Device
  BY <1>1 DEF Out, Live, Leaving, Placed, Going, Releasing, Adding, Types, TypeOK
<1> HIDE DEF x
<1>5. x.id \in devs.used /\ (x.blk # NoId => x.kind = "disk" /\ x.blk \in blks.used)
  BY <1>4 DEF LiveHold, Held, NicsBare, Device
<1>6. \A d \in front : d.id # x.id /\ (x.blk # NoId => d.blk # x.blk)
  BY <1>4, <1>5 DEF LiveHold, Apart, NicsBare, Device
<1>7. /\ \A d \in {Entry(e) : e \in front} : d.id # x.id
      /\ x.blk # NoId => \A d \in {Entry(e) : e \in front} : d.blk # x.blk
  BY <1>6 DEF Entry
<1>8. Registry!Release(x.id, x.blk)
  BY <1>2, <1>3, <1>5, <1>7 DEF Registry!Release, Entry, Registry!NoId, NoId
<1> QED BY <1>4, <1>8 DEF x

LEMMA RemovesInOneStep ==
    ASSUME Types, Local, Placed, LiveHold, NEW t \in Tasks, RemoveNode(t), side[t] = "front",
           NEW e, e = Entry(dev[t])
    PROVE  Registry!Remove(e) /\ dev[t] \in front
<1>1. UNCHANGED <<devs, blks>> /\ pc[t] = "wait" /\ front' = Removed(front, dev[t])
  BY DEF RemoveNode
<1>2. dev[t] \in front
  BY <1>1 DEF Local, Shape, Out, Tearing, Placed, Going
<1>3. dev[t] \in Live /\ front \subseteq Live
  BY <1>2 DEF Live
<1>4. front' = front \ {dev[t]}
  BY <1>1, <1>3, RemovedIsOne
<1>5. \A d \in front : d # dev[t] => Entry(d) # Entry(dev[t])
  <2>1. \A d \in front : d # dev[t] => d.id # dev[t].id
    BY <1>3 DEF LiveHold, Apart
  <2> QED BY <2>1 DEF Entry
<1>6. {Entry(d) : d \in front'} = {Entry(d) : d \in front} \ {Entry(dev[t])}
  BY <1>2, <1>4, <1>5
<1> QED BY <1>1, <1>2, <1>6 DEF Registry!Remove, Entry

\* For its callers a call takes effect at its commits and at the removal of the
\* frontend node, and nowhere else: the detailed steps are those of DeviceRegistry
\* (tx/mod.rs:30-49, 299-321; lib.rs:98-141, 261-289).
THEOREM RegistryImplemented == Spec => ImplementsRegistry
<1>1. Init => Registry!RegInit /\ AllFollow
  <2> SUFFICES ASSUME Init PROVE Registry!RegInit /\ AllFollow
    OBVIOUS
  <2>1. Registry!RegInit
    BY DEF Init, Registry!RegInit, Registry!EmptyAllocator, NewAllocator
  <2>2. \A t \in Tasks : pc[t] = "idle"
    BY DEF Init
  <2> QED BY <2>1, <2>2 DEF AllFollow, Follows
<1>2. AllOfIt /\ AllFollow /\ [Next]_vars => AllFollow'
  <2> SUFFICES ASSUME AllOfIt, AllFollow, [Next]_vars PROVE AllFollow'
    OBVIOUS
  <2>1. Types /\ Local /\ Synced
    BY DEF AllOfIt, IInv
  <2>2. ASSUME NEW t \in Tasks, StepOf(t) PROVE AllFollow'
    BY <2>1, <2>2, FollowKept
  <2> QED BY <2>1, <2>2, QuietFollows DEF Next, StepOf
<1>3. AllOfIt /\ AllFollow /\ [Next]_vars => [Registry!RegNext]_(Registry!regVars)
  <2> SUFFICES ASSUME AllOfIt, AllFollow, [Next]_vars
               PROVE  [Registry!RegNext]_(Registry!regVars)
    OBVIOUS
  <2>1. Types /\ Local /\ Synced /\ Placed /\ LiveHold
    BY DEF AllOfIt, IInv
  <2>2. CASE UNCHANGED <<devs, blks, front>>
    BY <2>2 DEF Registry!regVars
  <2>3. ASSUME NEW t \in Tasks, Commit(t) PROVE Registry!RegNext
    <3>1. CASE Adding(t)
      <4>1. order[t] \in Orders
        <5>1. pc[t] = "commit"
          BY <2>3 DEF Commit, At
        <5> QED BY <2>1, <3>1, <5>1 DEF Local, Shape, Releasing
      <4>2. PICK list \in Orders : list = order[t]
        BY <4>1
      <4>3. Registry!Add(list)
        BY <2>1, <2>3, <3>1, <4>2, AddsInOneStep
      <4> QED BY <4>3 DEF Registry!RegNext
    <3>2. CASE ~Adding(t)
      <4>1. Registry!Release(dev[t].id, dev[t].blk) /\ dev[t] \in Device
        BY <2>1, <2>3, <3>2, ReleasesInOneStep
      <4>2. dev[t].id \in Registry!Ids /\ dev[t].blk \in Registry!Ids \cup {Registry!NoId}
        BY <4>1 DEF Device, Ids, NoId, Registry!Ids, Registry!NoId
      <4> QED BY <4>1, <4>2 DEF Registry!RegNext
    <3> QED BY <3>1, <3>2
  <2>4. ASSUME NEW t \in Tasks, RemoveNode(t), side[t] = "front" PROVE Registry!RegNext
    <3>1. PICK e : e = Entry(dev[t])
      OBVIOUS
    <3>2. Registry!Remove(e) /\ dev[t] \in front
      BY <2>1, <2>4, <3>1, RemovesInOneStep
    <3>3. e \in {[kind |-> d.kind, id |-> d.id, blk |-> d.blk] : d \in front}
      BY <3>1, <3>2 DEF Entry
    <3> QED BY <3>2, <3>3 DEF Registry!RegNext
  <2>5. ASSUME NEW t \in Tasks, StepOf(t), ~Commit(t), ~(RemoveNode(t) /\ side[t] = "front")
        PROVE  UNCHANGED <<devs, blks, front>>
    BY <2>5 DEF StepOf, Task, BeginAdd, BeginDestroy, Begin, LoadDevid, LoadBlkid, AddDevice,
                Exhausted, ReleaseIds, CommitRefused, Return, FindBackend, StartClose,
                ReadState, ReadNothing, Close, CloseRefused, RemoveNode, Cancel, keyVars
  <2>6. ASSUME NEW t \in Tasks, StepOf(t) PROVE [Registry!RegNext]_(Registry!regVars)
    BY <2>2, <2>3, <2>4, <2>5, <2>6
  <2>7. CASE \/ Abort \/ UNCHANGED vars
             \/ \E where \in {"front", "back"} : \E d \in Nodes(where) : DriverWrites(where, d)
    BY <2>2, <2>7 DEF Abort, DriverWrites, vars, keyVars
  <2> QED BY <2>6, <2>7 DEF Next, StepOf
<1> QED BY <1>1, <1>2, <1>3, Invariance, PTL DEF Spec, ImplementsRegistry, Registry!RegSpec
=============================================================================
