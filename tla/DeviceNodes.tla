------------------------------ MODULE DeviceNodes ------------------------------
(***************************************************************************)
(* The nodes of a domain's devices in the store: add_to_transaction of the  *)
(* kinds of device in xenclient/src/tx/, add_device and                     *)
(* add_domain_declaration of tx/mod.rs, and destroy_device of               *)
(* xenclient/src/lib.rs.                                                    *)
(*                                                                          *)
(* A device has a frontend node in the domain's directory and a backend     *)
(* node in the backend domain's, each with a link to the other.  One call   *)
(* runs at a time and each transaction is committed in a step of its own;   *)
(* DeviceTransactions has the interleavings.  A domain's number may come     *)
(* round while nodes of its former owner are still there.                   *)
(***************************************************************************)
EXTENDS Integers, Sequences, FiniteSets, Functions

CONSTANTS
  DevIds, BlkIds,   \* what the allocators give, in ascending order
  Configs,          \* devices that may be asked for
  MaxLength,        \* bound: devices of one transaction
  MaxCalls          \* bound: calls

\* A configuration has a kind; a backend type, which the caller may choose;
\* `special`, for a channel that is the default console; and `complete`, when
\* its parameters are given.
ConfigKinds == {"console", "vif", "vbd", "9pfs", "pci"}

VARIABLES
  front,    \* store: frontend nodes, from paths to their contents
  back,     \* store: backend nodes
  devs, blks, \* store: ids taken
  pc,       \* "idle" or "adding", in the transaction that adds devices
  todo,     \* configurations still to be added
  tx,       \* that transaction's view of the store, with its own writes
  results,  \* what the loops of init have collected
  known,    \* devices that were returned and are not destroyed
  orphans,  \* history: default consoles that were destroyed; nodes remain
  kept,     \* ids that nobody will release
  serial,   \* devices made so far
  calls
store == <<front, back, devs, blks>>
vars == <<store, pc, todo, tx, results, known, orphans, kept, serial, calls>>

NoBlk == -1
ConsolePath == <<"console">>
FrontPath(d) == IF d.special THEN ConsolePath ELSE <<d.kind, d.id>>
BackPath(d) == <<d.backend, d.id>>
Now == [front |-> front, back |-> back, devs |-> devs, blks |-> blks]
NoTx == [front |-> <<>>, back |-> <<>>, devs |-> {}, blks |-> {}]
NoIds == [devs |-> {}, blks |-> {}]

IsDevice(d) == /\ d.kind \in ConfigKinds /\ d.id \in DevIds
               /\ d.blk \in IF d.kind = "vbd" THEN BlkIds ELSE {NoBlk}
               /\ d.serial \in 1..serial

TypeOK ==
  /\ devs \subseteq DevIds /\ blks \subseteq BlkIds
  /\ pc \in {"idle", "adding"}
  /\ Len(results) + Len(todo) <= MaxLength
  /\ \A d \in known \cup orphans : IsDevice(d)
  /\ \A p \in DOMAIN front : p = ConsolePath \/ (p[1] \in ConfigKinds /\ p[2] \in DevIds)
  /\ \A b \in DOMAIN back : b[2] \in DevIds /\ back[b].serial \in 1..serial
  /\ kept.devs \subseteq devs /\ kept.blks \subseteq blks
  /\ calls \in 0..MaxCalls

Init ==
  /\ front = <<>> /\ back = <<>> /\ devs = {} /\ blks = {}
  /\ pc = "idle" /\ todo = <<>> /\ tx = NoTx /\ results = <<>>
  /\ known = {} /\ orphans = {} /\ kept = NoIds
  /\ serial = 0 /\ calls = 0

------------------------------------------------------------------------------
Lists == UNION {[1..k -> Configs] : k \in 1..MaxLength}
Specials(list) == {i \in DOMAIN list : list[i].special}

\* XenTransaction::new.  Assumption: a domain has one default console.
BeginAdd(list) ==
  /\ pc = "idle" /\ calls < MaxCalls
  /\ Cardinality(Specials(list)) + Cardinality({p \in DOMAIN front : p = ConsolePath}) <= 1
  /\ pc' = "adding" /\ calls' = calls + 1
  /\ todo' = list /\ tx' = Now /\ results' = <<>>
  /\ UNCHANGED <<store, known, orphans, kept, serial>>

Node(link, d) == [link |-> link, serial |-> d.serial]
Put(nodes, path, node) ==
  [p \in DOMAIN nodes \cup {path} |-> IF p = path THEN node ELSE nodes[p]]

\* Mutant of MakeNodes: every channel is put where the default console belongs.
MakeNodesAtConsole(d) ==
  LET path == IF d.kind = "console" THEN ConsolePath ELSE FrontPath(d)
  IN  tx' = [front |-> Put(tx.front, path, Node(BackPath(d), d)),
             back |-> Put(tx.back, BackPath(d), Node(path, d)),
             devs |-> tx.devs \cup {d.id},
             blks |-> tx.blks \cup ({d.blk} \ {NoBlk})]
\* add_device: both nodes are made, or written over, and linked.
MakeNodes(d) ==
  tx' = [front |-> Put(tx.front, FrontPath(d), Node(BackPath(d), d)),
         back |-> Put(tx.back, BackPath(d), Node(FrontPath(d), d)),
         devs |-> tx.devs \cup {d.id},
         blks |-> tx.blks \cup ({d.blk} \ {NoBlk})]

\* add_to_transaction of the next configuration.
AddToTransaction ==
  /\ pc = "adding" /\ todo # <<>>
  /\ Head(todo).complete
  /\ \E id \in DevIds \ tx.devs,
        blk \in IF Head(todo).kind = "vbd" THEN BlkIds \ tx.blks ELSE {NoBlk} :
       LET d == [kind |-> Head(todo).kind, backend |-> Head(todo).backend,
                 special |-> Head(todo).special, id |-> id, blk |-> blk,
                 serial |-> serial + 1]
       IN  MakeNodes(d) /\ results' = Append(results, d)
  /\ todo' = Tail(todo)
  /\ serial' = serial + 1
  /\ UNCHANGED <<store, pc, known, orphans, kept, calls>>

\* No id is left, or a parameter is missing, which is found after ids were taken:
\* the transaction is dropped and aborted.
AddFails ==
  /\ pc = "adding" /\ todo # <<>>
  /\ \/ ~Head(todo).complete
     \/ tx.devs = DevIds
     \/ Head(todo).kind = "vbd" /\ tx.blks = BlkIds
  /\ pc' = "idle" /\ todo' = <<>> /\ tx' = NoTx /\ results' = <<>>
  /\ UNCHANGED <<store, known, orphans, kept, serial, calls>>

Commit ==
  /\ pc = "adding" /\ todo = <<>>
  /\ front' = tx.front /\ back' = tx.back /\ devs' = tx.devs /\ blks' = tx.blks
  /\ known' = known \cup Range(results)
  /\ pc' = "idle" /\ tx' = NoTx /\ results' = <<>>
  /\ UNCHANGED <<todo, orphans, kept, serial, calls>>

\* destroy_device: the nodes that device/<kind>/<id> leads to go, and the ids are
\* given back whatever was found; the block index if the caller names it.
Destroy(d, withBlk) ==
  /\ pc = "idle" /\ calls < MaxCalls
  /\ LET path == <<d.kind, d.id>>
         links == IF path \in DOMAIN front THEN {front[path].link} ELSE {}
     IN  /\ back' = Restrict(back, DOMAIN back \ links)
         /\ front' = Restrict(front, DOMAIN front \ {path})
  /\ devs' = devs \ {d.id}
  /\ blks' = IF withBlk THEN blks \ {d.blk} ELSE blks
  /\ known' = known \ {d}
  /\ orphans' = IF d.special THEN orphans \cup {d} ELSE orphans
  /\ kept' = IF withBlk THEN kept ELSE [kept EXCEPT !.blks = @ \cup ({d.blk} \ {NoBlk})]
  /\ calls' = calls + 1
  /\ UNCHANGED <<pc, todo, tx, results, serial>>

\* Mutant of Declare: the allocators are loaded after the directory is gone.
DeclareFresh ==
  /\ pc = "idle" /\ calls < MaxCalls
  /\ front' = <<>> /\ devs' = {} /\ blks' = {} /\ kept' = NoIds
  /\ known' = {} /\ calls' = calls + 1
  /\ UNCHANGED <<back, orphans, pc, todo, tx, results, serial>>
\* add_domain_declaration for the next domain of this number, when the former
\* one's nodes were left behind: its directory goes, the allocators, which were
\* loaded before, are written back.
Declare ==
  /\ pc = "idle" /\ calls < MaxCalls
  /\ front' = <<>>
  /\ kept' = [devs |-> devs, blks |-> blks]
  /\ known' = {} /\ calls' = calls + 1
  /\ UNCHANGED <<back, orphans, devs, blks, pc, todo, tx, results, serial>>

Next ==
  \/ \E list \in Lists : BeginAdd(list)
  \/ AddToTransaction \/ AddFails \/ Commit
  \/ \E d \in known, withBlk \in BOOLEAN : Destroy(d, withBlk)
  \/ Declare

Spec == Init /\ [][Next]_vars

------------------------------------------------------------------------------
\* Frontend and backend of a device lead to each other; except that the default
\* console, which destroy_device does not find at device/console/<id>, may be
\* left with a link to a node that has become another's (add_device,
\* tx/mod.rs:212-282, destroy_device, lib.rs:263-290).
LinksAgree ==
  \A p \in DOMAIN front :
    \/ /\ front[p].link \in DOMAIN back
       /\ back[front[p].link].link = p
       /\ back[front[p].link].serial = front[p].serial
    \/ \E d \in orphans : d.serial = front[p].serial

\* A device that was returned keeps both its nodes until it is destroyed: no
\* other device is put on them, and none is destroyed in its place.
DevicesAreWhole ==
  \A d \in known :
    /\ FrontPath(d) \in DOMAIN front /\ front[FrontPath(d)].serial = d.serial
    /\ BackPath(d) \in DOMAIN back /\ back[BackPath(d)].serial = d.serial

\* An id is taken for a device that is there, or was left by a former domain, or
\* by a destroy that did not name the block index.
IdsAreAccounted ==
  /\ devs = {d.id : d \in known} \cup kept.devs
  /\ blks = ({d.blk : d \in known} \ {NoBlk}) \cup kept.blks

\* A device never takes over a backend node, be it one that a former domain of
\* the number left behind (add_domain_declaration, tx/mod.rs:141-142, keeps the
\* former domain's ids taken); except that of a destroyed default console.
BackendsKeepTheirDevice ==
  \A b \in DOMAIN back \cap DOMAIN back' :
    back'[b].serial # back[b].serial => \E d \in orphans : d.serial = back[b].serial
================================================================================
