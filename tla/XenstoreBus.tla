---------------------------- MODULE XenstoreBus ----------------------------
(***************************************************************************)
(* xenstore/src/bus.rs with the calls of lib.rs that feed it: one          *)
(* connection to the store shared by many tasks.                           *)
(*                                                                         *)
(*   caller --txq--> processor --toStore--> store                          *)
(*   caller <-slot-- processor <--rxq-- reader <--fromStore-- store        *)
(*   watcher <-chan- processor            watcher --unwatchq--> processor  *)
(*                                                                         *)
(* A caller takes a request id, enters a one-shot sender in the reply map  *)
(* under it, queues the message and waits.  The processor task selects     *)
(* between the three queues; the reader is a thread of its own.  The store *)
(* is outside this repository: it serves one request at a time, in order,  *)
(* and stops while the socket towards the client is full.                  *)
(*                                                                         *)
(* A request is named by its number n, 1 for the first id ever handed out. *)
(* The code knows only the id; n is what the id stands for, and doubles as *)
(* the identity of the one-shot channel made for the call.                 *)
(***************************************************************************)
EXTENDS Integers, Sequences, FiniteSets, SequencesExt

CONSTANTS Callers,         \* tasks that call send_buf
          Handles,         \* XsdWatchHandle objects, each with a path of its own
          IdSpace,         \* number of request ids: 2^32 in the code
          TxCap, RxCap,    \* channels of bus.rs:95-96, 10 in the code
          UnwatchCap,      \* channel of bus.rs:97, 1000 in the code
          WatchCap,        \* channel of bus.rs:185, 10 in the code
          SocketCap,       \* messages the socket holds in each direction
          MaxRequests,     \* bound: calls begun
          MaxChanges,      \* bound: changes of watched paths
          Failures         \* may the processor task end?

ASSUME CapacityAssumption ==
    /\ {IdSpace, TxCap, RxCap, UnwatchCap, WatchCap, SocketCap} \subseteq Nat \ {0}
    /\ MaxRequests \in Nat /\ MaxChanges \in Nat
    /\ Failures \in BOOLEAN
    /\ Handles # {} => SocketCap > 1

VARIABLES
    next_request_id,       \* bus.rs:63, shared by callers and processor
    issued,                \* how many ids were handed out
    pc,                    \* where each caller is inside send_buf
    call,                  \* the message of each caller's call
    slot,                  \* what each caller's one-shot receiver holds
    replies,               \* the reply map: id to one-shot
    txq, rxq, unwatchq,    \* the channels into the processor
    writing,               \* the message the processor is writing
    running,               \* the processor task has not ended
    toStore, fromStore,    \* the socket
    next_watch_id,         \* bus.rs:64
    watches,               \* the watch map: id to handle
    handle,                \* each handle's life and id
    chan,                  \* events waiting in each handle's channel
    registered,            \* the store's watches: <<path, token>>
    executed,              \* calls the store has executed
    changes,               \* changes of watched paths so far
    unseen,                \* handles whose path changed since they last woke
    refused                \* calls that try_send turned away

idVars == <<next_request_id, issued>>
callVars == <<pc, call, slot, refused>>
queueVars == <<txq, rxq, unwatchq, writing, running>>
socketVars == <<toStore, fromStore>>
watchVars == <<next_watch_id, watches, handle, chan>>
storeVars == <<registered, executed, changes, unseen>>
vars == <<idVars, callVars, replies, queueVars, socketVars, watchVars, storeVars>>

RequestIds == 0 .. IdSpace - 1
NoMessage == [n |-> 0, req |-> 0, typ |-> "none", args |-> <<>>]
NoReply == 0               \* the one-shot holds nothing yet
Closed == -1               \* its sender was dropped: RecvError

\* Caller c still holds the receiver of its one-shot.
Listening(c) == pc[c] \in {"registered", "waiting"}

InPipe ==
    ToSet(txq) \cup ToSet(toStore) \cup ToSet(fromStore) \cup ToSet(rxq)
        \cup {writing}

\* Requests whose id is in use: of calls in progress, and of messages under
\* way, callers' or the processor's own
LiveCalls == {call[c] : c \in {d \in Callers : pc[d] # "idle"}}
UnderWay == {m \in InPipe : m.n > 0}
Outstanding == LiveCalls \cup UnderWay

\* Assumption: an id comes round again only after the request that had it is
\* done with.  The code has no check; it relies on there being 2^32 ids.
WindowOpen == \A m \in Outstanding : issued + 1 - m.n < IdSpace

\* Mutant: ids wrap one too early
TakeIdWrapsEarly ==
    /\ WindowOpen
    /\ issued' = issued + 1
    /\ next_request_id' = (next_request_id + 1) % (IdSpace - 1)

\* Mutant: ids do not wrap
TakeIdNoWrap ==
    /\ WindowOpen
    /\ issued' = issued + 1
    /\ next_request_id' = next_request_id + 1

TakeId ==
    /\ WindowOpen
    /\ issued' = issued + 1
    /\ next_request_id' = (next_request_id + 1) % IdSpace

NextMessage(typ, args) ==
    [n |-> issued + 1, req |-> next_request_id, typ |-> typ, args |-> args]
-----------------------------------------------------------------------------
Init ==
    /\ next_request_id = 0 /\ issued = 0
    /\ pc = [c \in Callers |-> "idle"]
    /\ call = [c \in Callers |-> NoMessage]
    /\ slot = [c \in Callers |-> NoReply]
    /\ refused = {}
    /\ replies = <<>>
    /\ txq = <<>> /\ rxq = <<>> /\ unwatchq = <<>>
    /\ writing = NoMessage /\ running = TRUE
    /\ toStore = <<>> /\ fromStore = <<>>
    /\ next_watch_id = 0 /\ watches = <<>>
    /\ handle = [h \in Handles |-> [st |-> "none", id |-> 0]]
    /\ chan = [h \in Handles |-> 0]
    /\ registered = {} /\ executed = {}
    /\ changes = 0 /\ unseen = {}
-----------------------------------------------------------------------------
(* Callers: send_buf, bus.rs:138-167                                       *)

Begin(c, typ, args) ==
    /\ pc[c] = "idle"
    /\ issued < MaxRequests
    /\ TakeId
    /\ call' = [call EXCEPT ![c] = NextMessage(typ, args)]
    /\ pc' = [pc EXCEPT ![c] = "numbered"]
    /\ UNCHANGED <<slot, refused, replies, queueVars, socketVars, watchVars,
                   storeVars>>

\* Any request but a watch
Request(c) == Begin(c, "op", <<>>)

\* bind_watch_id sends the path, then the token (lib.rs:245-252).
BindWatch(c, h) ==
    /\ handle[h].st = "created"
    /\ \A d \in Callers : call[d].args # <<h, handle[h].id>>
    /\ Begin(c, "watch", <<h, handle[h].id>>)

\* Mutant: entry().or_insert(), which keeps a sender left there earlier
RegisterIfVacant(c) ==
    LET id == call[c].req
    IN  /\ pc[c] = "numbered"
        /\ replies' = [i \in DOMAIN replies \cup {id} |->
                          IF i \in DOMAIN replies THEN replies[i] ELSE call[c].n]
        /\ pc' = [pc EXCEPT ![c] = "registered"]
        /\ UNCHANGED <<idVars, call, slot, refused, queueVars, socketVars,
                       watchVars, storeVars>>

\* Entering the sender drops one that is there under the same id already.
Register(c) ==
    LET id == call[c].req
        loses(d) == /\ Listening(d)
                    /\ id \in DOMAIN replies
                    /\ replies[id] = call[d].n
    IN  /\ pc[c] = "numbered"
        /\ replies' = [i \in DOMAIN replies \cup {id} |->
                          IF i = id THEN call[c].n ELSE replies[i]]
        /\ slot' = [d \in Callers |-> IF loses(d) THEN Closed ELSE slot[d]]
        /\ pc' = [pc EXCEPT ![c] = "registered"]
        /\ UNCHANGED <<idVars, call, refused, queueVars, socketVars, watchVars,
                       storeVars>>

Enqueue(c) ==
    /\ pc[c] = "registered"
    /\ running /\ Len(txq) < TxCap
    /\ txq' = Append(txq, call[c])
    /\ pc' = [pc EXCEPT ![c] = "waiting"]
    /\ UNCHANGED <<idVars, call, slot, refused, replies, rxq, unwatchq, writing,
                   running, socketVars, watchVars, storeVars>>

EndCall(c) ==
    /\ pc' = [pc EXCEPT ![c] = "idle"]
    /\ call' = [call EXCEPT ![c] = NoMessage]
    /\ slot' = [slot EXCEPT ![c] = NoReply]

\* try_send fails: the call returns an error and its sender stays in the map.
Refuse(c) ==
    /\ pc[c] = "registered"
    /\ ~running \/ Len(txq) >= TxCap
    /\ refused' = refused \cup {call[c].n}
    /\ EndCall(c)
    /\ UNCHANGED <<idVars, replies, queueVars, socketVars, watchVars, storeVars>>

\* The one-shot resolves: a reply, or RecvError when its sender is gone.
Return(c) ==
    /\ pc[c] = "waiting"
    /\ slot[c] # NoReply
    /\ handle' = [h \in Handles |->
                     IF /\ slot[c] # Closed
                        /\ call[c].typ = "watch" /\ call[c].args[1] = h
                     THEN [handle[h] EXCEPT !.st = "bound"] ELSE handle[h]]
    /\ EndCall(c)
    /\ UNCHANGED <<idVars, refused, replies, queueVars, socketVars,
                   next_watch_id, watches, chan, storeVars>>

\* The caller's future is dropped at one of its awaits, by a timeout around it.
Cancel(c) ==
    /\ pc[c] \in {"numbered", "waiting"}
    /\ EndCall(c)
    /\ UNCHANGED <<idVars, refused, replies, queueVars, socketVars, watchVars,
                   storeVars>>
-----------------------------------------------------------------------------
(* The processor task, bus.rs:229-304: one action per arm of its select!.  *)
(* An arm that writes holds the task until the socket takes the message.   *)

Selecting == running /\ writing = NoMessage

SelectTx ==
    /\ Selecting /\ txq # <<>>
    /\ writing' = Head(txq)
    /\ txq' = Tail(txq)
    /\ UNCHANGED <<idVars, callVars, replies, rxq, unwatchq, running, socketVars,
                   watchVars, storeVars>>

\* Mutant: the message is written, and written again
WriteAllAgain ==
    /\ running /\ writing # NoMessage
    /\ Len(toStore) < SocketCap
    /\ toStore' = Append(toStore, writing)
    /\ writing' \in {writing, NoMessage}
    /\ UNCHANGED <<idVars, callVars, replies, txq, rxq, unwatchq, running,
                   fromStore, watchVars, storeVars>>

WriteAll ==
    /\ running /\ writing # NoMessage
    /\ Len(toStore) < SocketCap
    /\ toStore' = Append(toStore, writing)
    /\ writing' = NoMessage
    /\ UNCHANGED <<idVars, callVars, replies, txq, rxq, unwatchq, running,
                   fromStore, watchVars, storeVars>>

\* Mutant: the sender is looked up, not taken out
SelectReplyKeepsSender ==
    LET m == Head(rxq)
        wakes(c) == /\ Listening(c)
                    /\ m.req \in DOMAIN replies
                    /\ replies[m.req] = call[c].n
    IN  /\ Selecting /\ rxq # <<>> /\ m.typ = "reply"
        /\ rxq' = Tail(rxq)
        /\ slot' = [c \in Callers |-> IF wakes(c) THEN m.n ELSE slot[c]]
        /\ UNCHANGED <<idVars, pc, call, refused, replies, txq, unwatchq, writing,
                       running, socketVars, watchVars, storeVars>>

\* Mutant: replies are taken in the order of the ids in the map
SelectReplyInOrder ==
    LET m == Head(rxq)
        first(i) == i \in DOMAIN replies /\ \A j \in DOMAIN replies : i <= j
        wakes(c) == \E i \in DOMAIN replies :
                       first(i) /\ Listening(c) /\ replies[i] = call[c].n
    IN  /\ Selecting /\ rxq # <<>> /\ m.typ = "reply"
        /\ rxq' = Tail(rxq)
        /\ replies' = [i \in {j \in DOMAIN replies : ~first(j)} |-> replies[i]]
        /\ slot' = [c \in Callers |-> IF wakes(c) THEN m.n ELSE slot[c]]
        /\ UNCHANGED <<idVars, pc, call, refused, txq, unwatchq, writing, running,
                       socketVars, watchVars, storeVars>>

\* Mutant: whatever carries the id of a pending call is taken for its reply
SelectReplyOfAnyType ==
    LET m == Head(rxq)
    IN  /\ Selecting /\ rxq # <<>>
        /\ m.typ = "reply" \/ m.req \in DOMAIN replies
        /\ rxq' = Tail(rxq)
        /\ replies' = [i \in DOMAIN replies \ {m.req} |-> replies[i]]
        /\ slot' = [c \in Callers |->
                       IF /\ Listening(c) /\ m.req \in DOMAIN replies
                          /\ replies[m.req] = call[c].n
                       THEN m.n ELSE slot[c]]
        /\ UNCHANGED <<idVars, pc, call, refused, txq, unwatchq, writing, running,
                       socketVars, watchVars, storeVars>>

SelectReply ==
    LET m == Head(rxq)
        wakes(c) == /\ Listening(c)
                    /\ m.req \in DOMAIN replies
                    /\ replies[m.req] = call[c].n
    IN  /\ Selecting /\ rxq # <<>> /\ m.typ = "reply"
        /\ rxq' = Tail(rxq)
        /\ replies' = [i \in DOMAIN replies \ {m.req} |-> replies[i]]
        /\ slot' = [c \in Callers |-> IF wakes(c) THEN m.n ELSE slot[c]]
        /\ UNCHANGED <<idVars, pc, call, refused, txq, unwatchq, writing, running,
                       socketVars, watchVars, storeVars>>

\* try_send into a handle's channel: dropped when the handle is, or when full.
SelectEvent ==
    LET m == Head(rxq)
        takes(h) == /\ m.args[2] \in DOMAIN watches
                    /\ watches[m.args[2]] = h
                    /\ handle[h].st # "dropped"
                    /\ chan[h] < WatchCap
    IN  /\ Selecting /\ rxq # <<>> /\ m.typ = "event"
        /\ rxq' = Tail(rxq)
        /\ chan' = [h \in Handles |-> IF takes(h) THEN chan[h] + 1 ELSE chan[h]]
        /\ UNCHANGED <<idVars, callVars, replies, txq, unwatchq, writing, running,
                       socketVars, next_watch_id, watches, handle, storeVars>>

\* bus.rs:282-285 puts the id first and the path second.
SelectUnwatch ==
    /\ Selecting /\ unwatchq # <<>>
    /\ TakeId
    /\ writing' = NextMessage("unwatch", <<Head(unwatchq).id, Head(unwatchq).path>>)
    /\ unwatchq' = Tail(unwatchq)
    /\ UNCHANGED <<callVars, replies, txq, rxq, running, socketVars, watchVars,
                   storeVars>>

\* process() returns, on an I/O error or a message it cannot parse, or Drop
\* aborts it: the receivers go and what is queued in them with them; the reply
\* map stays with the sockets that share it.
ProcessorEnds ==
    /\ Failures /\ running
    /\ running' = FALSE
    /\ txq' = <<>> /\ rxq' = <<>> /\ unwatchq' = <<>> /\ writing' = NoMessage
    /\ UNCHANGED <<idVars, callVars, replies, socketVars, watchVars, storeVars>>

Processor ==
    SelectTx \/ WriteAll \/ SelectReply \/ SelectEvent \/ SelectUnwatch

\* Mutant: try_send, which drops the message when the queue is full
ReaderDrops ==
    /\ running
    /\ fromStore # <<>>
    /\ rxq' = IF Len(rxq) < RxCap THEN Append(rxq, Head(fromStore)) ELSE rxq
    /\ fromStore' = Tail(fromStore)
    /\ UNCHANGED <<idVars, callVars, replies, txq, unwatchq, writing, running,
                   toStore, watchVars, storeVars>>

\* The reader thread, bus.rs:202-209; blocking_send waits for room.
Reader ==
    /\ running
    /\ fromStore # <<>> /\ Len(rxq) < RxCap
    /\ rxq' = Append(rxq, Head(fromStore))
    /\ fromStore' = Tail(fromStore)
    /\ UNCHANGED <<idVars, callVars, replies, txq, unwatchq, writing, running,
                   toStore, watchVars, storeVars>>
-----------------------------------------------------------------------------
(* Watch handles: lib.rs:45-56, 231-239 and bus.rs:178-188                 *)

CreateWatch(h) ==
    /\ handle[h].st = "none"
    /\ handle' = [handle EXCEPT ![h] = [st |-> "created", id |-> next_watch_id]]
    /\ watches' = [i \in DOMAIN watches \cup {next_watch_id} |->
                       IF i = next_watch_id THEN h ELSE watches[i]]
    /\ next_watch_id' = (next_watch_id + 1) % IdSpace
    /\ UNCHANGED <<idVars, callVars, replies, queueVars, socketVars, chan, storeVars>>

Alive(h) == handle[h].st \in {"created", "bound"}

\* The owner wakes on an event; what it reads next shows all changes so far.
WakeWatcher(h) ==
    /\ Alive(h) /\ chan[h] > 0
    /\ chan' = [chan EXCEPT ![h] = @ - 1]
    /\ unseen' = unseen \ {h}
    /\ UNCHANGED <<idVars, callVars, replies, queueVars, socketVars, next_watch_id,
                   watches, handle, registered, executed, changes>>

\* Drop for XsdWatchHandle: a full or closed channel loses the request, and
\* the entry in the watch map is never taken out.
DropWatch(h) ==
    /\ Alive(h)
    /\ \A c \in Callers : call[c].args # <<h, handle[h].id>>
    /\ handle' = [handle EXCEPT ![h].st = "dropped"]
    /\ chan' = [chan EXCEPT ![h] = 0]
    /\ unwatchq' = IF running /\ Len(unwatchq) < UnwatchCap
                   THEN Append(unwatchq, [id |-> handle[h].id, path |-> h])
                   ELSE unwatchq
    /\ UNCHANGED <<idVars, callVars, replies, txq, rxq, writing, running, socketVars,
                   next_watch_id, watches, storeVars>>
-----------------------------------------------------------------------------
(* The store (external): serves in order, answers every request, and fires *)
(* a watch once when it is set and then at each change of its path.        *)

Reply(m) == [n |-> m.n, req |-> m.req, typ |-> "reply", args |-> <<>>]
Event(w) == [n |-> 0, req |-> 0, typ |-> "event", args |-> w]

ServeRequest ==
    LET m == Head(toStore)
    IN  /\ toStore # <<>> /\ m.typ \in {"op", "unwatch"}
        /\ Len(fromStore) < SocketCap
        /\ toStore' = Tail(toStore)
        /\ fromStore' = Append(fromStore, Reply(m))
        /\ IF m.typ = "unwatch"
             THEN registered' = registered \ {m.args} /\ UNCHANGED executed
             ELSE executed' = executed \cup {m.n} /\ UNCHANGED registered
        /\ UNCHANGED <<idVars, callVars, replies, queueVars, watchVars, changes,
                       unseen>>

ServeWatch ==
    LET m == Head(toStore)
    IN  /\ toStore # <<>> /\ m.typ = "watch"
        /\ Len(fromStore) + 1 < SocketCap
        /\ toStore' = Tail(toStore)
        /\ fromStore' = fromStore \o <<Reply(m), Event(m.args)>>
        /\ registered' = registered \cup {m.args}
        /\ executed' = executed \cup {m.n}
        /\ unseen' = unseen \cup {m.args[1]}
        /\ UNCHANGED <<idVars, callVars, replies, queueVars, watchVars, changes>>

PathChanges(w) ==
    /\ changes < MaxChanges
    /\ Len(fromStore) < SocketCap
    /\ changes' = changes + 1
    /\ fromStore' = Append(fromStore, Event(w))
    /\ unseen' = unseen \cup {w[1]}
    /\ UNCHANGED <<idVars, callVars, replies, queueVars, toStore, watchVars,
                   registered, executed>>
-----------------------------------------------------------------------------
Caller(c) == Register(c) \/ Enqueue(c) \/ Refuse(c) \/ Return(c)

Next ==
    \/ \E c \in Callers : \/ Request(c)
                          \/ \E h \in Handles : BindWatch(c, h)
                          \/ Caller(c)
                          \/ Cancel(c)
    \/ Processor
    \/ ProcessorEnds
    \/ Reader
    \/ \E h \in Handles : CreateWatch(h) \/ WakeWatcher(h) \/ DropWatch(h)
    \/ ServeRequest
    \/ ServeWatch
    \/ \E w \in registered : PathChanges(w)

Spec == Init /\ [][Next]_vars

\* tokio keeps polling a task that can proceed and the reader thread is
\* scheduled; the store serves what it is sent.  Nothing obliges a task to
\* start a call, to drop one, or to drop a handle.
Fairness ==
    /\ \A c \in Callers : WF_vars(Caller(c))
    /\ WF_vars(Processor)
    /\ WF_vars(Reader)
    /\ WF_vars(ServeRequest \/ ServeWatch)

FairSpec == Spec /\ Fairness
-----------------------------------------------------------------------------
Plain == [n : Nat, req : RequestIds, typ : {"none", "op", "reply"}, args : {<<>>}]
PathFirst == [n : Nat, req : RequestIds, typ : {"watch", "event"},
              args : Handles \X RequestIds]
TokenFirst == [n : Nat, req : RequestIds, typ : {"unwatch"},
               args : RequestIds \X Handles]
Message == Plain \cup PathFirst \cup TokenFirst

CallsOK ==
    /\ next_request_id \in RequestIds /\ issued \in Nat
    /\ pc \in [Callers -> {"idle", "numbered", "registered", "waiting"}]
    /\ call \in [Callers -> Message]
    /\ slot \in [Callers -> Nat \cup {Closed}]
    /\ refused \subseteq Nat

RepliesOK ==
    /\ DOMAIN replies \subseteq RequestIds
    /\ \A i \in DOMAIN replies : replies[i] \in Nat

QueuesOK ==
    /\ txq \in Seq(Message) /\ Len(txq) <= TxCap
    /\ rxq \in Seq(Message) /\ Len(rxq) <= RxCap
    /\ unwatchq \in Seq([id : RequestIds, path : Handles])
    /\ Len(unwatchq) <= UnwatchCap
    /\ writing \in Message /\ running \in BOOLEAN

SocketOK ==
    /\ toStore \in Seq(Message) /\ Len(toStore) <= SocketCap
    /\ fromStore \in Seq(Message) /\ Len(fromStore) <= SocketCap

WatchesOK ==
    /\ next_watch_id \in RequestIds
    /\ DOMAIN watches \subseteq RequestIds
    /\ \A i \in DOMAIN watches : watches[i] \in Handles
    /\ handle \in [Handles -> [st : {"none", "created", "bound", "dropped"},
                              id : RequestIds]]
    /\ chan \in [Handles -> 0 .. WatchCap]

StoreOK ==
    /\ registered \subseteq Handles \X RequestIds
    /\ executed \subseteq Nat /\ changes \in Nat /\ unseen \subseteq Handles

TypeOK ==
    CallsOK /\ RepliesOK /\ QueuesOK /\ SocketOK /\ WatchesOK /\ StoreOK

\* Whatever a call's one-shot holds is the answer to that call's own request,
\* and nobody drops its sender: no reply goes astray through a reused id, an
\* id shared by caller and processor, or an event taken for a reply
\* (bus.rs:139-146, 247-265, 275-280).
ReplyReachesItsCall ==
    \A c \in Callers : slot[c] \in {NoReply, call[c].n}

\* Two requests under way, callers' or the processor's own unwatches, never
\* share an id (bus.rs:139-144, 275-280).
IdsUnderWayDiffer ==
    \A a, b \in Outstanding : a.req = b.req => a.n = b.n

\* While the processor runs, a caller that waits for an answer can still get
\* it: its sender is in the map and its request, or the answer, is under way
\* (bus.rs:146 comes before :158, the entry goes only with the reply :263).
WaitingCallsAreServed ==
    running =>
        \A c \in Callers :
            pc[c] = "waiting" /\ slot[c] = NoReply =>
                /\ call[c].req \in DOMAIN replies
                /\ replies[call[c].req] = call[c].n
                /\ \E m \in InPipe : m.n = call[c].n

\* While the processor runs, the map holds nothing but calls in progress,
\* calls given up whose answer is still to come, and calls that try_send
\* refused, which stay for good (bus.rs:146, 158-160).
EntriesAreAccounted ==
    running =>
        \A i \in DOMAIN replies :
            \/ replies[i] \in refused
            \/ \E m \in Outstanding : m.n = replies[i]

\* An event lost to a full channel loses no wake-up: while a live watch has a
\* change its owner has not looked at, an event waits for it or is on its way
\* (bus.rs:260-262).
NoLostWakeup ==
    running =>
        \A h \in unseen :
            Alive(h) => \/ chan[h] > 0
                        \/ \E m \in InPipe :
                              m.typ = "event" /\ m.args = <<h, handle[h].id>>

\* Every call ends: with the reply, with an error, or given up (bus.rs:138-167).
CallsReturn == \A c \in Callers : pc[c] = "waiting" ~> pc[c] = "idle"

\* A watch whose bind_watch returned is taken out of the store once its handle
\* is dropped (lib.rs:52-56, bus.rs:273-295).
DroppedWatchesAreRemoved ==
    \A h \in Handles :
        [](handle[h].st = "bound" =>
               [](handle[h].st = "dropped" =>
                      <>(<<h, handle[h].id>> \notin registered)))

\* Unwatches take numbers too, but only callers' requests are asked for.
Requests == 1 .. MaxRequests

Unexecuted ==
    {call[c].n : c \in {d \in Callers : pc[d] \in {"numbered", "registered"}}}
        \cup {m.n : m \in {k \in ToSet(txq) \cup ToSet(toStore) \cup {writing} :
                             k.typ \in {"op", "watch"}}}

Answered == {c \in Callers : slot[c] \notin {NoReply, Closed}}

Rpc == INSTANCE XenstoreRpc
         WITH NoRequest <- 0,
              pending <- [c \in Callers |-> call[c].n],
              answered <- Answered,
              open <- Unexecuted

\* For its callers the bus is a remote call that runs at most once, answers only
\* what was executed, and is never executed once it was refused
\* (bus.rs:138-167, 229-304).
ImplementsRpc == Rpc!RpcSpec
=============================================================================
