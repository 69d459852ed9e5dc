------------------------- MODULE XenstoreBusProofs -------------------------
(***************************************************************************)
(* Proofs about XenstoreBus for every number of callers and handles, every *)
(* capacity of the queues and every number of ids.                         *)
(***************************************************************************)
EXTENDS XenstoreBus, SequenceTheorems, FiniteSetTheorems, TLAPS

\* The capacities and the number of ids are positive, so id 0 exists.
LEMMA Capacities ==
    /\ IdSpace \in Nat /\ IdSpace > 0
    /\ TxCap \in Nat /\ RxCap \in Nat /\ UnwatchCap \in Nat
    /\ WatchCap \in Nat /\ SocketCap \in Nat
    /\ TxCap > 0 /\ RxCap > 0 /\ UnwatchCap > 0 /\ WatchCap > 0 /\ SocketCap > 0
    /\ 0 \in RequestIds
  BY CapacityAssumption, SMT DEF RequestIds

\* The next id is an id, one further or, after the last, id 0.
LEMMA IdWraps ==
    ASSUME NEW i \in RequestIds
    PROVE  /\ (i + 1) % IdSpace \in RequestIds
           /\ i + 1 < IdSpace => (i + 1) % IdSpace = i + 1
           /\ i + 1 = IdSpace => (i + 1) % IdSpace = 0
<1>1. i \in Nat /\ IdSpace \in Nat /\ i < IdSpace /\ IdSpace > 0
  BY Capacities, SMT DEF RequestIds
<1>2. i + 1 < IdSpace => (i + 1) % IdSpace = i + 1
  BY <1>1, SMT
<1>3. i + 1 = IdSpace => (i + 1) % IdSpace = 0
  BY <1>1, SMT
<1> QED
  BY <1>1, <1>2, <1>3, SMT DEF RequestIds

\* What queues do to the messages in them
LEMMA SeqSteps ==
    ASSUME NEW S, NEW s \in Seq(S)
    PROVE  /\ ToSet(s) \subseteq S
           /\ s # <<>> => /\ Head(s) \in S /\ Tail(s) \in Seq(S)
                          /\ Len(Tail(s)) = Len(s) - 1
                          /\ Head(s) \in ToSet(s)
                          /\ ToSet(Tail(s)) \subseteq ToSet(s)
                          /\ ToSet(s) = ToSet(Tail(s)) \cup {Head(s)}
           /\ \A e \in S : /\ Append(s, e) \in Seq(S)
                           /\ Len(Append(s, e)) = Len(s) + 1
                           /\ ToSet(Append(s, e)) = ToSet(s) \cup {e}
<1>1. ToSet(s) \subseteq S
  BY ElementOfSeq, LenProperties DEF ToSet
<1>2. ASSUME s # <<>>
      PROVE  /\ Head(s) \in S /\ Tail(s) \in Seq(S)
             /\ Len(Tail(s)) = Len(s) - 1
             /\ Head(s) \in ToSet(s)
             /\ ToSet(Tail(s)) \subseteq ToSet(s)
             /\ ToSet(s) = ToSet(Tail(s)) \cup {Head(s)}
  <2>1. /\ Len(s) \in Nat /\ Len(s) > 0 /\ DOMAIN s = 1 .. Len(s)
        /\ Head(s) = s[1] /\ Head(s) \in S
        /\ Tail(s) \in Seq(S) /\ Len(Tail(s)) = Len(s) - 1
        /\ \A i \in 1 .. Len(Tail(s)) : Tail(s)[i] = s[i + 1]
    BY <1>2, EmptySeq, LenProperties, HeadTailProperties, SMT
  <2>2. DOMAIN Tail(s) = 1 .. Len(s) - 1
    BY <2>1, LenProperties
  <2>3. ASSUME NEW i \in 1 .. Len(s)
        PROVE  s[i] \in ToSet(Tail(s)) \cup {Head(s)}
    <3>1. CASE i = 1
      BY <2>1, <3>1
    <3>2. CASE i # 1
      <4>1. i - 1 \in 1 .. Len(Tail(s)) /\ Tail(s)[i - 1] = s[i]
        BY <2>1, <3>2
      <4> QED
        BY <2>1, <2>2, <4>1 DEF ToSet
    <3> QED
      BY <3>1, <3>2
  <2>4. Head(s) \in ToSet(s) /\ ToSet(Tail(s)) \subseteq ToSet(s)
    BY <2>1, <2>2 DEF ToSet
  <2>5. ToSet(s) \subseteq ToSet(Tail(s)) \cup {Head(s)}
    BY <2>1, <2>3 DEF ToSet
  <2> QED
    BY <2>1, <2>4, <2>5
<1>3. ASSUME NEW e \in S
      PROVE  /\ Append(s, e) \in Seq(S)
             /\ Len(Append(s, e)) = Len(s) + 1
             /\ ToSet(Append(s, e)) = ToSet(s) \cup {e}
  <2>1. /\ Len(s) \in Nat /\ DOMAIN s = 1 .. Len(s)
        /\ Append(s, e) \in Seq(S) /\ Len(Append(s, e)) = Len(s) + 1
        /\ \A i \in 1 .. Len(s) : Append(s, e)[i] = s[i]
        /\ Append(s, e)[Len(s) + 1] = e
    BY LenProperties, AppendProperties
  <2>2. DOMAIN Append(s, e) = 1 .. Len(s) + 1
    BY <2>1, LenProperties
  <2> QED
    BY <2>1, <2>2, SMT DEF ToSet
<1> QED
  BY <1>1, <1>2, <1>3

\* The fields of a message have their types, whatever its kind.
LEMMA MessageFields ==
    ASSUME NEW m \in Message
    PROVE  /\ m.n \in Nat /\ m.req \in RequestIds
           /\ m.typ \in {"watch", "event"} => m.args \in Handles \X RequestIds
  BY DEF Message, Plain, PathFirst, TokenFirst

\* Records with the fields of each kind are messages.
LEMMA MessageKinds ==
    ASSUME NEW n \in Nat, NEW id \in RequestIds
    PROVE  /\ \A typ \in {"none", "op", "reply"} :
                [n |-> n, req |-> id, typ |-> typ, args |-> <<>>] \in Message
           /\ \A typ \in {"watch", "event"}, a \in Handles \X RequestIds :
                [n |-> n, req |-> id, typ |-> typ, args |-> a] \in Message
           /\ \A a \in RequestIds \X Handles :
                [n |-> n, req |-> id, typ |-> "unwatch", args |-> a] \in Message
  BY DEF Message, Plain, PathFirst, TokenFirst

\* A part of the state that a step leaves alone keeps its type.
LEMMA Frame ==
    /\ UNCHANGED <<idVars, callVars>> /\ CallsOK => CallsOK'
    /\ UNCHANGED replies /\ RepliesOK => RepliesOK'
    /\ UNCHANGED queueVars /\ QueuesOK => QueuesOK'
    /\ UNCHANGED socketVars /\ SocketOK => SocketOK'
    /\ UNCHANGED watchVars /\ WatchesOK => WatchesOK'
    /\ UNCHANGED storeVars /\ StoreOK => StoreOK'
  BY DEF idVars, callVars, queueVars, socketVars, watchVars, storeVars,
         CallsOK, RepliesOK, QueuesOK, SocketOK, WatchesOK, StoreOK

\* The variables have their types initially.
LEMMA TypeInit == Init => TypeOK
<1> SUFFICES ASSUME Init PROVE TypeOK
  OBVIOUS
<1> USE DEF Init
<1>1. NoMessage \in Message
  BY MessageKinds, Capacities DEF NoMessage
<1>2. CallsOK
  BY <1>1, Capacities DEF CallsOK, NoReply
<1>3. RepliesOK
  BY DEF RepliesOK
<1>4. QueuesOK
  BY <1>1, Capacities DEF QueuesOK
<1>5. SocketOK
  BY Capacities DEF SocketOK
<1>6. WatchesOK
  BY Capacities DEF WatchesOK
<1>7. StoreOK
  BY DEF StoreOK
<1> QED
  BY <1>2, <1>3, <1>4, <1>5, <1>6, <1>7 DEF TypeOK

\* A step of a caller keeps the types.
LEMMA TypeCallers ==
    ASSUME TypeOK, NEW c \in Callers,
           \/ Request(c) \/ (\E h \in Handles : BindWatch(c, h))
           \/ Caller(c) \/ Cancel(c)
    PROVE  TypeOK'
<1> USE DEF TypeOK
<1>1. ASSUME NEW typ, NEW args, Begin(c, typ, args),
             NextMessage(typ, args) \in Message
      PROVE  TypeOK'
  <2>1. CallsOK'
    BY <1>1, IdWraps DEF Begin, CallsOK, TakeId
  <2> QED
    BY <1>1, <2>1, Frame DEF Begin
<1>2. CASE Request(c)
  <2>1. NextMessage("op", <<>>) \in Message
    <3>1. issued + 1 \in Nat /\ next_request_id \in RequestIds
      BY DEF CallsOK
    <3> QED
      BY <3>1 DEF NextMessage, Message, Plain
  <2> QED
    BY <1>1, <1>2, <2>1 DEF Request
<1>3. ASSUME NEW h \in Handles, BindWatch(c, h)
      PROVE  TypeOK'
  <2>1. NextMessage("watch", <<h, handle[h].id>>) \in Message
    <3>1. issued + 1 \in Nat /\ next_request_id \in RequestIds
      BY DEF CallsOK
    <3>2. <<h, handle[h].id>> \in Handles \X RequestIds
      BY DEF WatchesOK
    <3> QED
      BY <3>1, <3>2 DEF NextMessage, Message, PathFirst
  <2> QED
    BY <1>1, <1>3, <2>1 DEF BindWatch
<1>4. CASE Register(c)
  <2>1. call[c].n \in Nat /\ call[c].req \in RequestIds
    BY MessageFields DEF CallsOK
  <2>2. slot' \in [Callers -> Nat \cup {Closed}]
    BY <1>4 DEF Register, CallsOK
  <2>3. /\ pc' = [pc EXCEPT ![c] = "registered"]
        /\ UNCHANGED <<idVars, call, refused, queueVars, socketVars, watchVars,
                       storeVars>>
    BY <1>4 DEF Register
  <2>4. CallsOK'
    BY <2>2, <2>3 DEF CallsOK, idVars
  <2>5. RepliesOK'
    BY <1>4, <2>1 DEF Register, RepliesOK
  <2> QED
    BY <2>3, <2>4, <2>5, Frame
<1>5. CASE Enqueue(c)
  <2>1. call[c] \in Message
    BY DEF CallsOK
  <2>2. CallsOK'
    BY <1>5 DEF Enqueue, CallsOK, idVars
  <2>3. QueuesOK'
    BY <1>5, <2>1, SeqSteps, Capacities DEF Enqueue, QueuesOK
  <2> QED
    BY <1>5, <2>2, <2>3, Frame DEF Enqueue
<1>6. CASE Refuse(c)
  <2>1. NoMessage \in Message /\ call[c].n \in Nat
    BY MessageKinds, MessageFields, Capacities DEF NoMessage, CallsOK
  <2>2. CallsOK'
    BY <1>6, <2>1 DEF Refuse, EndCall, CallsOK, idVars, NoReply
  <2> QED
    BY <1>6, <2>2, Frame DEF Refuse
<1>7. CASE Return(c)
  <2>1. NoMessage \in Message
    BY MessageKinds, Capacities DEF NoMessage
  <2>2. CallsOK'
    BY <1>7, <2>1 DEF Return, EndCall, CallsOK, idVars, NoReply
  <2>3. WatchesOK'
    BY <1>7 DEF Return, WatchesOK
  <2> QED
    BY <1>7, <2>2, <2>3, Frame DEF Return
<1>8. CASE Cancel(c)
  <2>1. NoMessage \in Message
    BY MessageKinds, Capacities DEF NoMessage
  <2>2. CallsOK'
    BY <1>8, <2>1 DEF Cancel, EndCall, CallsOK, idVars, NoReply
  <2> QED
    BY <1>8, <2>2, Frame DEF Cancel
<1> QED
  BY <1>2, <1>3, <1>4, <1>5, <1>6, <1>7, <1>8 DEF Caller

\* A step of the processor or the reader keeps the types.
LEMMA TypeProcessor ==
    ASSUME TypeOK, Processor \/ ProcessorEnds \/ Reader
    PROVE  TypeOK'
<1> USE DEF TypeOK
<1>0. NoMessage \in Message
  BY MessageKinds, Capacities DEF NoMessage
<1>1. CASE SelectTx
  <2>1. QueuesOK'
    BY <1>1, SeqSteps, Capacities DEF SelectTx, QueuesOK
  <2> QED
    BY <1>1, <2>1, Frame DEF SelectTx
<1>2. CASE WriteAll
  <2>1. QueuesOK'
    BY <1>0, <1>2 DEF WriteAll, QueuesOK
  <2>2. SocketOK'
    BY <1>2, SeqSteps, Capacities DEF WriteAll, QueuesOK, SocketOK
  <2> QED
    BY <1>2, <2>1, <2>2, Frame DEF WriteAll
<1>3. CASE SelectReply
  <2>1. rxq # <<>> /\ Head(rxq) \in Message /\ Head(rxq).n \in Nat
    BY <1>3, SeqSteps, MessageFields DEF SelectReply, QueuesOK
  <2>2. slot' \in [Callers -> Nat \cup {Closed}]
    BY <1>3, <2>1 DEF SelectReply, CallsOK
  <2>3. /\ rxq' = Tail(rxq)
        /\ replies' = [i \in DOMAIN replies \ {Head(rxq).req} |-> replies[i]]
        /\ UNCHANGED <<idVars, pc, call, refused, txq, unwatchq, writing, running,
                       socketVars, watchVars, storeVars>>
    BY <1>3 DEF SelectReply
  <2>4. CallsOK'
    BY <2>2, <2>3 DEF CallsOK, idVars
  <2>5. RepliesOK'
    BY <2>3 DEF RepliesOK
  <2>6. QueuesOK'
    BY <2>1, <2>3, SeqSteps, Capacities DEF QueuesOK
  <2> QED
    BY <2>3, <2>4, <2>5, <2>6, Frame
<1>4. CASE SelectEvent
  <2>1. chan' \in [Handles -> 0 .. WatchCap]
    BY <1>4, Capacities DEF SelectEvent, WatchesOK
  <2>2. /\ rxq' = Tail(rxq) /\ rxq # <<>>
        /\ UNCHANGED <<idVars, callVars, replies, txq, unwatchq, writing, running,
                       socketVars, next_watch_id, watches, handle, storeVars>>
    BY <1>4 DEF SelectEvent
  <2>3. QueuesOK'
    BY <2>2, SeqSteps, Capacities DEF QueuesOK
  <2>4. WatchesOK'
    BY <2>1, <2>2 DEF WatchesOK
  <2> QED
    BY <2>2, <2>3, <2>4, Frame
<1>5. CASE SelectUnwatch
  <2> DEFINE u == Head(unwatchq)
  <2>1. u \in [id : RequestIds, path : Handles]
    BY <1>5, SeqSteps DEF SelectUnwatch, QueuesOK
  <2>2. NextMessage("unwatch", <<u.id, u.path>>) \in Message
    <3>1. issued + 1 \in Nat /\ next_request_id \in RequestIds
      BY DEF CallsOK
    <3> QED
      BY <2>1, <3>1 DEF NextMessage, Message, TokenFirst
  <2>3. QueuesOK'
    BY <1>5, <2>2, SeqSteps, Capacities DEF SelectUnwatch, QueuesOK
  <2>4. CallsOK'
    BY <1>5, IdWraps DEF SelectUnwatch, TakeId, CallsOK, callVars
  <2> QED
    BY <1>5, <2>3, <2>4, Frame DEF SelectUnwatch
<1>6. CASE ProcessorEnds
  <2>1. QueuesOK'
    <3>1. /\ <<>> \in Seq(Message) /\ Len(<<>>) = 0
          /\ <<>> \in Seq([id : RequestIds, path : Handles])
      BY EmptySeq
    <3>2. /\ txq' = <<>> /\ rxq' = <<>> /\ unwatchq' = <<>>
          /\ writing' = NoMessage /\ running' = FALSE
      BY <1>6 DEF ProcessorEnds
    <3>3. /\ Len(txq') <= TxCap /\ Len(rxq') <= RxCap
          /\ Len(unwatchq') <= UnwatchCap
      BY <3>1, <3>2, Capacities, SMT
    <3> QED
      BY <1>0, <3>1, <3>2, <3>3, Zenon DEF QueuesOK
  <2> QED
    BY <1>6, <2>1, Frame DEF ProcessorEnds
<1>7. CASE Reader
  <2>1. QueuesOK'
    BY <1>7, SeqSteps, Capacities DEF Reader, QueuesOK, SocketOK
  <2>2. SocketOK'
    BY <1>7, SeqSteps, Capacities DEF Reader, SocketOK
  <2> QED
    BY <1>7, <2>1, <2>2, Frame DEF Reader
<1> QED
  BY <1>1, <1>2, <1>3, <1>4, <1>5, <1>6, <1>7 DEF Processor

\* A step of a handle's owner keeps the types.
LEMMA TypeWatchers ==
    ASSUME TypeOK, NEW h \in Handles,
           CreateWatch(h) \/ WakeWatcher(h) \/ DropWatch(h)
    PROVE  TypeOK'
<1> USE DEF TypeOK
<1>1. CASE CreateWatch(h)
  <2>1. WatchesOK'
    BY <1>1, IdWraps DEF CreateWatch, WatchesOK
  <2> QED
    BY <1>1, <2>1, Frame DEF CreateWatch
<1>2. CASE WakeWatcher(h)
  <2>1. WatchesOK'
    BY <1>2, Capacities DEF WakeWatcher, WatchesOK
  <2>2. StoreOK'
    BY <1>2 DEF WakeWatcher, StoreOK
  <2> QED
    BY <1>2, <2>1, <2>2, Frame DEF WakeWatcher
<1>3. CASE DropWatch(h)
  <2>1. [id |-> handle[h].id, path |-> h] \in [id : RequestIds, path : Handles]
    BY DEF WatchesOK
  <2>2. WatchesOK'
    BY <1>3, Capacities DEF DropWatch, WatchesOK
  <2>3. QueuesOK'
    <3>1. UNCHANGED <<txq, rxq, writing, running>>
      BY <1>3 DEF DropWatch
    <3>2. \/ unwatchq' = unwatchq
          \/ /\ Len(unwatchq) < UnwatchCap
             /\ unwatchq' = Append(unwatchq, [id |-> handle[h].id, path |-> h])
      BY <1>3, Zenon DEF DropWatch
    <3>3. /\ unwatchq' \in Seq([id : RequestIds, path : Handles])
          /\ Len(unwatchq') <= UnwatchCap
      <4> DEFINE U == [id : RequestIds, path : Handles]
                 u == [id |-> handle[h].id, path |-> h]
      <4>1. unwatchq \in Seq(U) /\ u \in U /\ Len(unwatchq) <= UnwatchCap
        BY <2>1 DEF QueuesOK
      <4>2. \/ unwatchq' = unwatchq
            \/ /\ Len(unwatchq) < UnwatchCap
               /\ unwatchq' = Append(unwatchq, u)
        BY <3>2
      <4> HIDE DEF U, u
      <4>3. Append(unwatchq, u) \in Seq(U)
            /\ Len(Append(unwatchq, u)) = Len(unwatchq) + 1
            /\ Len(unwatchq) \in Nat
        BY <4>1, AppendProperties, LenProperties
      <4>4. unwatchq' \in Seq(U) /\ Len(unwatchq') <= UnwatchCap
        BY <4>1, <4>2, <4>3, Capacities
      <4> QED
        BY <4>4 DEF U
    <3> QED
      BY <3>1, <3>3 DEF QueuesOK
  <2> QED
    BY <1>3, <2>2, <2>3, Frame DEF DropWatch
<1> QED
  BY <1>1, <1>2, <1>3

\* A step of the store keeps the types.
LEMMA TypeStore ==
    ASSUME TypeOK,
           ServeRequest \/ ServeWatch \/ (\E w \in registered : PathChanges(w))
    PROVE  TypeOK'
<1> USE DEF TypeOK
<1> DEFINE m == Head(toStore)
<1>1. toStore # <<>> => /\ m \in Message /\ Reply(m) \in Message
                        /\ m.n \in Nat
                        /\ m.typ = "watch" => m.args \in Handles \X RequestIds
  <2>1. SUFFICES ASSUME toStore # <<>>
                 PROVE  m \in Message /\ Reply(m) \in Message
                        /\ m.n \in Nat
                        /\ (m.typ = "watch" => m.args \in Handles \X RequestIds)
    OBVIOUS
  <2>2. m \in Message
    BY <2>1, SeqSteps DEF SocketOK
  <2>3. Reply(m) \in Message
    BY <2>2, MessageFields DEF Reply, Message, Plain
  <2> QED
    BY <2>2, <2>3, MessageFields
<1>2. ASSUME NEW w \in Handles \X RequestIds
      PROVE  Event(w) \in Message /\ w[1] \in Handles
  BY Capacities DEF Event, Message, PathFirst
<1>3. CASE ServeRequest
  <2>1. SocketOK'
    BY <1>1, <1>3, SeqSteps, Capacities DEF ServeRequest, SocketOK
  <2>2. StoreOK'
    BY <1>1, <1>3 DEF ServeRequest, StoreOK
  <2> QED
    BY <1>3, <2>1, <2>2, Frame DEF ServeRequest
<1>4. CASE ServeWatch
  <2>1. /\ m \in Message /\ Reply(m) \in Message /\ m.n \in Nat
        /\ m.args \in Handles \X RequestIds
        /\ Event(m.args) \in Message /\ m.args[1] \in Handles
    BY <1>1, <1>2, <1>4 DEF ServeWatch
  <2>2. <<Reply(m), Event(m.args)>> \in Seq(Message)
        /\ Len(<<Reply(m), Event(m.args)>>) = 2
    BY <2>1
  <2>3. SocketOK'
    BY <1>4, <2>2, SeqSteps, ConcatProperties, Capacities DEF ServeWatch, SocketOK
  <2>4. StoreOK'
    BY <1>4, <2>1 DEF ServeWatch, StoreOK
  <2> QED
    BY <1>4, <2>3, <2>4, Frame DEF ServeWatch
<1>5. ASSUME NEW w \in registered, PathChanges(w)
      PROVE  TypeOK'
  <2>1. Event(w) \in Message /\ w[1] \in Handles
    BY <1>2 DEF StoreOK
  <2>2. SocketOK'
    BY <1>5, <2>1, SeqSteps, Capacities DEF PathChanges, SocketOK
  <2>3. StoreOK'
    BY <1>5, <2>1 DEF PathChanges, StoreOK
  <2> QED
    BY <1>5, <2>2, <2>3, Frame DEF PathChanges
<1> QED
  BY <1>3, <1>4, <1>5

\* Every step keeps the types and the queues within their capacities.
LEMMA TypeNext == TypeOK /\ [Next]_vars => TypeOK'
<1>1. TypeOK /\ UNCHANGED vars => TypeOK'
  BY Frame DEF vars, TypeOK
<1> QED
  BY <1>1, TypeCallers, TypeProcessor, TypeWatchers, TypeStore DEF Next

\* In every reachable state the variables have their types and every queue is
\* within its capacity.
THEOREM TypeCorrect == Spec => []TypeOK
  BY TypeInit, TypeNext, PTL DEF Spec
-----------------------------------------------------------------------------
(* The inductive invariant.  The ids in use lie in a window that ends at   *)
(* next_request_id and is at most IdSpace long, so an id names one request;*)
(* and the reply map leads from the id of a call to its one-shot, or to    *)
(* nobody's.                                                               *)

\* How far back the number of m was handed out: 1 for the latest.
Age(m) == issued + 1 - m.n

Window ==
    \A m \in Outstanding :
        /\ m.n > 0
        /\ Age(m) \in 1 .. IdSpace
        /\ m.req = next_request_id - Age(m)
             \/ m.req = next_request_id - Age(m) + IdSpace

\* Only events and the idle processor's placeholder carry no number.
Kinds ==
    \A m \in LiveCalls \cup InPipe : m.n = 0 <=> m.typ \in {"event", "none"}

Slots ==
    \A c \in Callers :
        /\ slot[c] \in {NoReply, call[c].n}
        /\ ~Listening(c) => slot[c] = NoReply

CallsDiffer ==
    \A c, d \in Callers :
        pc[c] # "idle" /\ pc[d] # "idle" /\ call[c].n = call[d].n => c = d

\* An entry stands under the id of its request and is no newer than the latest.
Entries ==
    \A i \in DOMAIN replies :
        /\ replies[i] <= issued
        /\ \A m \in Outstanding : m.n = replies[i] => m.req = i

\* A call has an entry from the time it enters it until its slot is filled.
OwnEntry ==
    \A c \in Callers :
        pc[c] # "idle" =>
            IF Listening(c) /\ slot[c] = NoReply
            THEN call[c].req \in DOMAIN replies /\ replies[call[c].req] = call[c].n
            ELSE \A i \in DOMAIN replies : replies[i] # call[c].n

RouteInv ==
    /\ Kinds /\ Slots /\ CallsDiffer /\ Entries /\ OwnEntry
    /\ WaitingCallsAreServed /\ EntriesAreAccounted

IInv == TypeOK /\ Window /\ RouteInv

\* Whatever is in the pipe or in use is a message.
LEMMA AllAreMessages ==
    ASSUME TypeOK
    PROVE  InPipe \subseteq Message /\ Outstanding \subseteq Message
<1>1. /\ ToSet(txq) \subseteq Message /\ ToSet(toStore) \subseteq Message
      /\ ToSet(fromStore) \subseteq Message /\ ToSet(rxq) \subseteq Message
      /\ writing \in Message
  BY SeqSteps DEF TypeOK, QueuesOK, SocketOK
<1>2. LiveCalls \subseteq Message
  BY DEF LiveCalls, TypeOK, CallsOK
<1>3. InPipe \subseteq Message
  BY <1>1 DEF InPipe
<1> QED
  BY <1>2, <1>3 DEF Outstanding, UnderWay

\* Two requests whose id is in use have the same id only if they are one.
LEMMA WindowGivesOneRequest ==
    ASSUME TypeOK, Window,
           NEW a \in Outstanding, NEW b \in Outstanding
    PROVE  a.req = b.req <=> a.n = b.n
<1>1. a \in Message /\ b \in Message
  BY AllAreMessages
<1>2. /\ a.n \in Nat /\ a.req \in RequestIds
      /\ b.n \in Nat /\ b.req \in RequestIds
  BY <1>1, MessageFields
<1>3. /\ next_request_id \in RequestIds /\ issued \in Nat
  BY DEF TypeOK, CallsOK
<1>4. /\ issued + 1 - a.n \in 1 .. IdSpace
      /\ \/ a.req = next_request_id - (issued + 1 - a.n)
         \/ a.req = next_request_id - (issued + 1 - a.n) + IdSpace
      /\ issued + 1 - b.n \in 1 .. IdSpace
      /\ \/ b.req = next_request_id - (issued + 1 - b.n)
         \/ b.req = next_request_id - (issued + 1 - b.n) + IdSpace
  BY DEF Window, Age
<1> QED
  BY <1>2, <1>3, <1>4, Capacities, SMT DEF RequestIds

\* A step that hands out no id and puts nothing new under way keeps the window.
LEMMA WindowKept ==
    ASSUME Window, UNCHANGED idVars,
           \A m \in Outstanding' : \E k \in Outstanding : k.n = m.n /\ k.req = m.req
    PROVE  Window'
  BY DEF Window, Age, idVars

\* A step that takes the next id for a new request moves the window by one.
LEMMA WindowMoves ==
    ASSUME TypeOK, Window, TakeId, NEW new \in Message,
           new.n = issued + 1, new.req = next_request_id,
           \A m \in Outstanding' : m = new \/ m \in Outstanding
    PROVE  Window'
<1>1. SUFFICES ASSUME NEW m \in Outstanding'
               PROVE  /\ m.n > 0
                      /\ issued' + 1 - m.n \in 1 .. IdSpace
                      /\ \/ m.req = next_request_id' - (issued' + 1 - m.n)
                         \/ m.req = next_request_id' - (issued' + 1 - m.n) + IdSpace
  BY DEF Window, Age
<1>2. /\ next_request_id \in RequestIds /\ issued \in Nat
      /\ issued' = issued + 1
      /\ next_request_id + 1 < IdSpace => next_request_id' = next_request_id + 1
      /\ next_request_id + 1 = IdSpace => next_request_id' = 0
  BY IdWraps DEF TypeOK, CallsOK, TakeId
<1>3. CASE m = new
  BY <1>2, <1>3, Capacities, SMT DEF RequestIds
<1>4. CASE m \in Outstanding
  <2>1. m \in Message
    BY <1>4, AllAreMessages
  <2>2. m.n \in Nat /\ m.req \in RequestIds
    BY <2>1, MessageFields
  <2>3. issued + 1 - m.n < IdSpace
    BY <1>4 DEF TakeId, WindowOpen
  <2>4. /\ m.n > 0
        /\ issued + 1 - m.n \in 1 .. IdSpace
        /\ \/ m.req = next_request_id - (issued + 1 - m.n)
           \/ m.req = next_request_id - (issued + 1 - m.n) + IdSpace
    BY <1>4 DEF Window, Age
  <2> QED
    BY <1>2, <2>2, <2>3, <2>4, Capacities, SMT DEF RequestIds
<1> QED
  BY <1>1, <1>3, <1>4

\* A step that only passes messages on, under the numbers they have.
LEMMA PassedOn ==
    ASSUME TypeOK, Window, RouteInv, Kinds',
           UNCHANGED <<idVars, callVars, replies, running>>,
           \A m \in UnderWay' : \E k \in UnderWay : k.n = m.n /\ k.req = m.req,
           \A m \in UnderWay : \E k \in UnderWay' : k.n = m.n /\ k.req = m.req
    PROVE  Window' /\ RouteInv'
<1>1. LiveCalls' = LiveCalls
  BY DEF LiveCalls, callVars
<1>2. /\ \A m \in Outstanding' : \E k \in Outstanding : k.n = m.n /\ k.req = m.req
      /\ \A m \in Outstanding : \E k \in Outstanding' : k.n = m.n /\ k.req = m.req
  BY <1>1 DEF Outstanding
<1>3. Window'
  BY <1>2, WindowKept DEF idVars
<1>4. Slots' /\ CallsDiffer' /\ OwnEntry'
  BY DEF RouteInv, Slots, CallsDiffer, OwnEntry, Listening, callVars
<1>5. Entries'
  BY <1>2 DEF RouteInv, Entries, idVars
<1>6. EntriesAreAccounted'
  BY <1>2 DEF RouteInv, EntriesAreAccounted, callVars
<1>7. WaitingCallsAreServed'
  <2>1. SUFFICES ASSUME running, NEW c \in Callers, pc[c] = "waiting",
                        slot[c] = NoReply
                 PROVE  \E m \in InPipe' : m.n = call[c].n
    BY DEF RouteInv, WaitingCallsAreServed, callVars
  <2>2. PICK m \in InPipe : m.n = call[c].n
    BY <2>1 DEF RouteInv, WaitingCallsAreServed
  <2>3. call[c] \in Outstanding
    BY <2>1 DEF Outstanding, LiveCalls
  <2>4. m \in UnderWay
    BY <2>2, <2>3 DEF Window, UnderWay
  <2> QED
    BY <2>2, <2>4 DEF UnderWay
<1> QED
  BY <1>3, <1>4, <1>5, <1>6, <1>7 DEF RouteInv

-----------------------------------------------------------------------------
(* Steps that pass messages on, bring events, or move no message at all    *)

\* A step that brings no request and loses none keeps the invariant.
LEMMA PassingOn ==
    ASSUME TypeOK, Window, RouteInv, UNCHANGED <<idVars, callVars, replies, running>>,
           \A m \in InPipe' : \/ m \in InPipe \/ m = NoMessage
                               \/ (m.n = 0 /\ m.typ = "event"),
           \A m \in InPipe : m \in InPipe' \/ m.n = 0
    PROVE  Window' /\ RouteInv'
<1>1. LiveCalls' = LiveCalls
  BY DEF LiveCalls, callVars
<1>2. Kinds'
  BY <1>1 DEF RouteInv, Kinds, NoMessage
<1>3. UnderWay' = UnderWay
  <2>1. NoMessage.n = 0
    BY DEF NoMessage
  <2> QED
    BY <2>1 DEF UnderWay
<1> QED
  BY <1>2, <1>3, PassedOn

\* So do the steps that pass a request on, deliver or bring events, or
\* concern handles only.
LEMMA RouteMoves ==
    ASSUME IInv,
           \/ SelectTx \/ WriteAll \/ SelectEvent \/ Reader
           \/ (\E w \in registered : PathChanges(w))
           \/ (\E h \in Handles : CreateWatch(h) \/ WakeWatcher(h) \/ DropWatch(h))
    PROVE  Window' /\ RouteInv'
<1> USE DEF IInv
<1>0. /\ txq \in Seq(Message) /\ rxq \in Seq(Message)
      /\ toStore \in Seq(Message) /\ fromStore \in Seq(Message)
      /\ writing \in Message
  BY DEF TypeOK, QueuesOK, SocketOK
<1>1. CASE SelectTx
  <2>1. /\ ToSet(txq) = ToSet(txq') \cup {writing'}
        /\ writing = NoMessage
        /\ UNCHANGED <<idVars, callVars, replies, rxq, running, toStore, fromStore>>
    BY <1>0, <1>1, SeqSteps DEF SelectTx, Selecting, socketVars
  <2>2. InPipe = InPipe' \cup {NoMessage} /\ NoMessage.n = 0
    BY <2>1 DEF InPipe, NoMessage
  <2> QED
    BY <2>1, <2>2, PassingOn
<1>2. CASE WriteAll
  <2>1. /\ ToSet(toStore') = ToSet(toStore) \cup {writing}
        /\ writing' = NoMessage
        /\ UNCHANGED <<idVars, callVars, replies, txq, rxq, running, fromStore>>
    BY <1>0, <1>2, SeqSteps DEF WriteAll
  <2>2. InPipe' = InPipe \cup {NoMessage}
    BY <2>1 DEF InPipe
  <2> QED
    BY <2>1, <2>2, PassingOn
<1>3. CASE SelectEvent
  <2>1. /\ ToSet(rxq) = ToSet(rxq') \cup {Head(rxq)}
        /\ Head(rxq).typ = "event"
        /\ UNCHANGED <<idVars, callVars, replies, txq, writing, running,
                       toStore, fromStore>>
    BY <1>0, <1>3, SeqSteps DEF SelectEvent, socketVars
  <2>2. InPipe = InPipe' \cup {Head(rxq)}
    BY <2>1 DEF InPipe
  <2>3. Head(rxq).n = 0
    BY <2>1, <2>2 DEF RouteInv, Kinds
  <2> QED
    BY <2>1, <2>2, <2>3, PassingOn
<1>4. CASE Reader
  <2>1. /\ ToSet(fromStore) = ToSet(fromStore') \cup {Head(fromStore)}
        /\ Head(fromStore) \in Message
        /\ UNCHANGED <<idVars, callVars, replies, txq, writing, running, toStore>>
    BY <1>0, <1>4, SeqSteps DEF Reader
  <2>2. ToSet(rxq') = ToSet(rxq) \cup {Head(fromStore)}
    BY <1>0, <1>4, <2>1, SeqSteps DEF Reader
  <2>3. InPipe' = InPipe
    BY <2>1, <2>2 DEF InPipe
  <2> QED
    BY <2>1, <2>3, PassingOn
<1>5. ASSUME NEW w \in registered, PathChanges(w)
      PROVE  Window' /\ RouteInv'
  <2>1. Event(w) \in Message
    BY Capacities DEF TypeOK, StoreOK, Event, Message, PathFirst
  <2>2. /\ ToSet(fromStore') = ToSet(fromStore) \cup {Event(w)}
        /\ UNCHANGED <<idVars, callVars, replies, txq, rxq, writing, running, toStore>>
    BY <1>0, <1>5, <2>1, SeqSteps DEF PathChanges, queueVars
  <2>3. InPipe' = InPipe \cup {Event(w)}
    BY <2>2 DEF InPipe
  <2>4. Event(w).n = 0 /\ Event(w).typ = "event"
    BY DEF Event
  <2> QED
    BY <2>2, <2>3, <2>4, PassingOn
<1>6. ASSUME NEW h \in Handles, CreateWatch(h) \/ WakeWatcher(h) \/ DropWatch(h)
      PROVE  Window' /\ RouteInv'
  <2>1. UNCHANGED <<idVars, callVars, replies, running, txq, rxq, writing,
                    toStore, fromStore>>
    BY <1>6 DEF CreateWatch, WakeWatcher, DropWatch, queueVars, socketVars
  <2>2. InPipe' = InPipe
    BY <2>1 DEF InPipe
  <2> QED
    BY <2>1, <2>2, PassingOn
<1> QED
  BY <1>1, <1>2, <1>3, <1>4, <1>5, <1>6

\* So does the store, which puts an answer in the place of a request.
LEMMA RouteStore ==
    ASSUME IInv, ServeRequest \/ ServeWatch
    PROVE  Window' /\ RouteInv'
<1> USE DEF IInv
<1> DEFINE m == Head(toStore)
<1>0. /\ toStore \in Seq(Message) /\ fromStore \in Seq(Message)
      /\ toStore # <<>> /\ m \in Message
      /\ ToSet(toStore) = ToSet(toStore') \cup {m}
      /\ m.typ \in {"op", "watch", "unwatch"}
  BY SeqSteps DEF TypeOK, SocketOK, ServeRequest, ServeWatch
<1>1. /\ m \in InPipe /\ m.n \in Nat /\ m.n > 0
  <2>1. m \in InPipe
    BY <1>0 DEF InPipe
  <2>2. m.n \in Nat /\ m.n # 0
    BY <1>0, <2>1, MessageFields DEF RouteInv, Kinds
  <2> QED
    BY <2>1, <2>2
<1>2. /\ Reply(m) \in Message /\ Reply(m).n = m.n /\ Reply(m).req = m.req
      /\ Reply(m).typ = "reply"
  BY <1>0, MessageFields DEF Reply, Message, Plain
<1>3. UNCHANGED <<idVars, callVars, replies, running, txq, rxq, writing>>
  BY DEF ServeRequest, ServeWatch, queueVars
<1> DEFINE more == IF m.typ = "watch" THEN {Event(m.args)} ELSE {}
<1>4. /\ ToSet(fromStore') = ToSet(fromStore) \cup {Reply(m)} \cup more
      /\ \A e \in more : e.n = 0 /\ e.typ = "event"
  <2>1. \A e \in more : e.n = 0 /\ e.typ = "event"
    BY DEF Event
  <2>2. CASE ServeRequest
    <3>1. ToSet(fromStore') = ToSet(fromStore) \cup {Reply(m)}
      BY <1>0, <1>2, <2>2, SeqSteps DEF ServeRequest
    <3>2. more = {}
      BY <2>2 DEF ServeRequest
    <3> QED
      BY <2>1, <3>1, <3>2
  <2>3. CASE ServeWatch
    <3>1. Event(m.args) \in Message /\ more = {Event(m.args)}
      BY <1>0, <2>3, MessageFields, Capacities
         DEF ServeWatch, Event, Message, PathFirst
    <3>2. fromStore' = Append(Append(fromStore, Reply(m)), Event(m.args))
      BY <1>0, <1>2, <2>3, <3>1 DEF ServeWatch
    <3>3. /\ Append(fromStore, Reply(m)) \in Seq(Message)
          /\ ToSet(Append(fromStore, Reply(m))) = ToSet(fromStore) \cup {Reply(m)}
      BY <1>0, <1>2, SeqSteps
    <3>4. ToSet(fromStore')
            = ToSet(Append(fromStore, Reply(m))) \cup {Event(m.args)}
      <4> DEFINE s1 == Append(fromStore, Reply(m))
                 e1 == Event(m.args)
      <4>1. s1 \in Seq(Message) /\ e1 \in Message /\ fromStore' = Append(s1, e1)
        BY <3>1, <3>2, <3>3
      <4> HIDE DEF s1, e1
      <4>2. ToSet(fromStore') = ToSet(s1) \cup {e1}
        BY <4>1, SeqSteps
      <4> QED
        BY <4>2 DEF s1, e1
    <3> QED
      BY <2>1, <3>1, <3>3, <3>4
  <2> QED
    BY <2>2, <2>3
<1> HIDE DEF more
<1>5. /\ InPipe \cup {Reply(m)} \cup more = InPipe' \cup {m}
      /\ Reply(m) \in InPipe'
  BY <1>0, <1>3, <1>4 DEF InPipe
<1>6. Kinds'
  <2>1. LiveCalls' = LiveCalls
    BY <1>3 DEF LiveCalls, callVars
  <2> QED
    BY <1>1, <1>2, <1>4, <1>5, <2>1 DEF RouteInv, Kinds
<1>7. \A k \in UnderWay' : \E l \in UnderWay : l.n = k.n /\ l.req = k.req
  BY <1>1, <1>2, <1>4, <1>5 DEF UnderWay
<1>8. \A k \in UnderWay : \E l \in UnderWay' : l.n = k.n /\ l.req = k.req
  BY <1>1, <1>2, <1>4, <1>5 DEF UnderWay
<1> QED
  BY <1>3, <1>6, <1>7, <1>8, PassedOn

-----------------------------------------------------------------------------
(* Steps of a call                                                         *)

\* The message of a call in progress is in use, with a number handed out before.
LEMMA LiveCallFields ==
    ASSUME IInv, NEW c \in Callers, pc[c] # "idle"
    PROVE  /\ call[c] \in Outstanding /\ call[c] \in Message
           /\ call[c].n \in Nat /\ call[c].n > 0 /\ call[c].n <= issued
           /\ call[c].req \in RequestIds
<1>1. call[c] \in Outstanding
  BY DEF Outstanding, LiveCalls
<1>2. call[c] \in Message
  BY DEF IInv, TypeOK, CallsOK
<1>3. call[c].n \in Nat /\ call[c].req \in RequestIds
  BY <1>2, MessageFields
<1>4. call[c].n > 0 /\ issued + 1 - call[c].n \in 1 .. IdSpace
  BY <1>1 DEF IInv, Window, Age
<1> QED
  BY <1>1, <1>2, <1>3, <1>4, Capacities DEF IInv, TypeOK, CallsOK

\* A new call takes a number nobody has and keeps the invariant.
LEMMA RouteBegin ==
    ASSUME IInv, NEW c \in Callers, NEW typ \in {"op", "watch"}, NEW args,
           Begin(c, typ, args), NextMessage(typ, args) \in Message
    PROVE  Window' /\ RouteInv'
<1> USE DEF IInv
<1> DEFINE new == NextMessage(typ, args)
<1>1. /\ new.n = issued + 1 /\ new.req = next_request_id /\ new.typ = typ
      /\ issued \in Nat /\ issued' = issued + 1
      /\ new \in Message
  BY DEF NextMessage, TypeOK, CallsOK, Begin, TakeId
<1>2. /\ pc[c] = "idle" /\ pc' = [pc EXCEPT ![c] = "numbered"]
      /\ call' = [call EXCEPT ![c] = new]
      /\ pc \in [Callers -> {"idle", "numbered", "registered", "waiting"}]
      /\ call \in [Callers -> Message]
      /\ UNCHANGED <<slot, refused, replies, txq, rxq, writing, running,
                     toStore, fromStore>>
  BY DEF Begin, TypeOK, CallsOK, queueVars, socketVars
<1> HIDE DEF new
<1>3. InPipe' = InPipe /\ UnderWay' = UnderWay
  BY <1>2 DEF InPipe, UnderWay
<1>4. LiveCalls' = LiveCalls \cup {new}
  BY <1>2 DEF LiveCalls
<1>5. Outstanding' = Outstanding \cup {new}
  BY <1>3, <1>4 DEF Outstanding
<1>6. Window'
  BY <1>1, <1>5, WindowMoves DEF Begin
<1>7. \A d \in Callers : pc[d] # "idle" => call[d].n \in Nat /\ call[d].n <= issued
  BY LiveCallFields
<1>8. Kinds'
  BY <1>1, <1>3, <1>4 DEF RouteInv, Kinds
<1>9. Slots'
  BY <1>2 DEF RouteInv, Slots, Listening
<1>10. CallsDiffer'
  BY <1>1, <1>2, <1>7 DEF RouteInv, CallsDiffer
<1>11. \A i \in DOMAIN replies : replies[i] \in Nat /\ replies[i] <= issued
  BY DEF RouteInv, Entries, TypeOK, RepliesOK
<1>12. Entries'
  BY <1>1, <1>2, <1>5, <1>11 DEF RouteInv, Entries
<1>13. OwnEntry'
  BY <1>1, <1>2, <1>11 DEF RouteInv, OwnEntry, Listening
<1>14. WaitingCallsAreServed'
  BY <1>2, <1>3 DEF RouteInv, WaitingCallsAreServed
<1>15. EntriesAreAccounted'
  BY <1>2, <1>5 DEF RouteInv, EntriesAreAccounted
<1> QED
  BY <1>6, <1>8, <1>9, <1>10, <1>12, <1>13, <1>14, <1>15 DEF RouteInv

\* Entering the sender drops nobody's: whoever had the id is done with.
LEMMA RouteRegister ==
    ASSUME IInv, NEW c \in Callers, Register(c)
    PROVE  Window' /\ RouteInv'
<1> USE DEF IInv
<1> DEFINE id == call[c].req
<1>1. /\ pc[c] = "numbered" /\ pc' = [pc EXCEPT ![c] = "registered"]
      /\ replies' = [i \in DOMAIN replies \cup {id} |->
                        IF i = id THEN call[c].n ELSE replies[i]]
      /\ UNCHANGED <<idVars, call, refused, txq, rxq, writing, running,
                     toStore, fromStore>>
      /\ pc \in [Callers -> {"idle", "numbered", "registered", "waiting"}]
      /\ slot \in [Callers -> Nat \cup {Closed}]
  BY DEF Register, TypeOK, CallsOK, queueVars, socketVars
<1>2. /\ call[c] \in Outstanding /\ call[c].n \in Nat /\ call[c].n > 0
      /\ call[c].n <= issued
  BY <1>1, LiveCallFields
<1>3. slot' = slot
  <2>1. ASSUME NEW d \in Callers, Listening(d), id \in DOMAIN replies,
               replies[id] = call[d].n
        PROVE  FALSE
    <3>1. pc[d] # "idle" /\ call[d] \in Outstanding
      BY <2>1, LiveCallFields DEF Listening
    <3>2. call[d].req = id
      BY <2>1, <3>1 DEF RouteInv, Entries
    <3>3. call[d].n = call[c].n
      BY <1>2, <3>1, <3>2, WindowGivesOneRequest
    <3> QED
      BY <1>1, <2>1, <3>1, <3>3 DEF RouteInv, CallsDiffer, Listening
  <2>2. slot' = [d \in Callers |->
                   IF Listening(d) /\ id \in DOMAIN replies /\ replies[id] = call[d].n
                   THEN Closed ELSE slot[d]]
    BY DEF Register
  <2>3. \A d \in Callers : slot'[d] = slot[d]
    BY <2>1, <2>2
  <2> QED
    BY <1>1, <2>2, <2>3
<1>4. InPipe' = InPipe /\ LiveCalls' = LiveCalls
  BY <1>1 DEF InPipe, LiveCalls
<1>5. Outstanding' = Outstanding
  BY <1>4 DEF Outstanding, UnderWay
<1>6. Window'
  BY <1>1, <1>5, WindowKept
<1>7. Kinds'
  BY <1>4 DEF RouteInv, Kinds
<1>8. Slots'
  BY <1>1, <1>3 DEF RouteInv, Slots, Listening
<1>9. CallsDiffer'
  BY <1>1 DEF RouteInv, CallsDiffer
<1>10. Entries'
  <2>1. \A m \in Outstanding : m.n = call[c].n => m.req = id
    BY <1>2, WindowGivesOneRequest
  <2>2. issued' = issued
    BY <1>1 DEF idVars
  <2> QED
    BY <1>1, <1>2, <1>5, <2>1, <2>2 DEF RouteInv, Entries
<1>11. OwnEntry'
  <2>1. SUFFICES ASSUME NEW d \in Callers, pc'[d] # "idle"
                 PROVE  IF Listening(d)' /\ slot[d] = NoReply
                        THEN /\ call[d].req \in DOMAIN replies'
                             /\ replies'[call[d].req] = call[d].n
                        ELSE \A i \in DOMAIN replies' : replies'[i] # call[d].n
    BY <1>1, <1>3 DEF OwnEntry
  <2>2. CASE d = c
    BY <1>1, <2>2 DEF RouteInv, Slots, Listening
  <2>3. CASE d # c
    <3>1. pc[d] # "idle" /\ (Listening(d)' <=> Listening(d))
      BY <1>1, <2>1, <2>3 DEF Listening
    <3>2. call[d].n # call[c].n /\ call[d].req # id
      <4>1. call[d].n # call[c].n
        BY <1>1, <2>3, <3>1 DEF RouteInv, CallsDiffer
      <4> QED
        BY <1>2, <3>1, <4>1, LiveCallFields, WindowGivesOneRequest
    <3>3. IF Listening(d) /\ slot[d] = NoReply
          THEN call[d].req \in DOMAIN replies /\ replies[call[d].req] = call[d].n
          ELSE \A i \in DOMAIN replies : replies[i] # call[d].n
      BY <3>1 DEF RouteInv, OwnEntry
    <3> QED
      BY <1>1, <3>1, <3>2, <3>3
  <2> QED
    BY <2>2, <2>3
<1>12. WaitingCallsAreServed'
  <2>1. SUFFICES ASSUME running, NEW d \in Callers, pc'[d] = "waiting",
                        slot[d] = NoReply
                 PROVE  /\ call[d].req \in DOMAIN replies'
                        /\ replies'[call[d].req] = call[d].n
                        /\ \E m \in InPipe : m.n = call[d].n
    BY <1>1, <1>3, <1>4 DEF WaitingCallsAreServed
  <2>2. pc[d] = "waiting"
    BY <1>1, <2>1
  <2> QED
    BY <1>1, <1>3, <1>11, <2>1, <2>2
       DEF RouteInv, WaitingCallsAreServed, OwnEntry, Listening
<1>13. EntriesAreAccounted'
  BY <1>1, <1>2, <1>5 DEF RouteInv, EntriesAreAccounted
<1> QED
  BY <1>6, <1>7, <1>8, <1>9, <1>10, <1>11, <1>12, <1>13 DEF RouteInv

\* Queueing the message keeps the invariant.
LEMMA RouteEnqueue ==
    ASSUME IInv, NEW c \in Callers, Enqueue(c)
    PROVE  Window' /\ RouteInv'
<1> USE DEF IInv
<1>1. /\ pc[c] = "registered" /\ pc' = [pc EXCEPT ![c] = "waiting"]
      /\ txq' = Append(txq, call[c]) /\ txq \in Seq(Message)
      /\ UNCHANGED <<idVars, call, slot, refused, replies, rxq, writing, running,
                     toStore, fromStore>>
      /\ pc \in [Callers -> {"idle", "numbered", "registered", "waiting"}]
  BY DEF Enqueue, TypeOK, CallsOK, QueuesOK, socketVars
<1>2. /\ call[c] \in Outstanding /\ call[c] \in Message /\ call[c].n > 0
      /\ call[c] \in LiveCalls
  BY <1>1, LiveCallFields DEF LiveCalls
<1>3. ToSet(txq') = ToSet(txq) \cup {call[c]}
  BY <1>1, <1>2, SeqSteps
<1>4. InPipe' = InPipe \cup {call[c]} /\ LiveCalls' = LiveCalls
  BY <1>1, <1>3 DEF InPipe, LiveCalls
<1>5. Outstanding' = Outstanding
  BY <1>2, <1>4 DEF Outstanding, UnderWay
<1>6. Window'
  BY <1>1, <1>5, WindowKept
<1>7. Kinds'
  BY <1>2, <1>4 DEF RouteInv, Kinds
<1>8. Slots' /\ CallsDiffer' /\ OwnEntry'
  BY <1>1 DEF RouteInv, Slots, CallsDiffer, OwnEntry, Listening
<1>9. Entries'
  BY <1>1, <1>5 DEF RouteInv, Entries, idVars
<1>10. WaitingCallsAreServed'
  <2>1. SUFFICES ASSUME running, NEW d \in Callers, pc'[d] = "waiting",
                        slot[d] = NoReply
                 PROVE  /\ call[d].req \in DOMAIN replies
                        /\ replies[call[d].req] = call[d].n
                        /\ \E m \in InPipe' : m.n = call[d].n
    BY <1>1 DEF WaitingCallsAreServed
  <2>2. CASE d = c
    BY <1>1, <1>4, <2>1, <2>2 DEF RouteInv, OwnEntry, Listening
  <2>3. CASE d # c
    BY <1>1, <1>4, <2>1, <2>3 DEF RouteInv, WaitingCallsAreServed
  <2> QED
    BY <2>2, <2>3
<1>11. EntriesAreAccounted'
  BY <1>1, <1>5 DEF RouteInv, EntriesAreAccounted
<1> QED
  BY <1>6, <1>7, <1>8, <1>9, <1>10, <1>11 DEF RouteInv

\* A call that ends leaves no entry behind that nobody will take out: it never
\* had one, its reply took it, its answer is still to come, or it was refused.
LEMMA RouteEnd ==
    ASSUME IInv, NEW c \in Callers, Refuse(c) \/ Return(c) \/ Cancel(c)
    PROVE  Window' /\ RouteInv'
<1> USE DEF IInv
<1>1. /\ pc[c] # "idle" /\ pc' = [pc EXCEPT ![c] = "idle"]
      /\ call' = [call EXCEPT ![c] = NoMessage]
      /\ slot' = [slot EXCEPT ![c] = NoReply]
      /\ UNCHANGED <<idVars, replies, txq, rxq, writing, running, toStore, fromStore>>
      /\ pc \in [Callers -> {"idle", "numbered", "registered", "waiting"}]
      /\ call \in [Callers -> Message]
      /\ slot \in [Callers -> Nat \cup {Closed}]
  BY DEF Refuse, Return, Cancel, EndCall, TypeOK, CallsOK, queueVars, socketVars
<1>2. InPipe' = InPipe /\ UnderWay' = UnderWay
  BY <1>1 DEF InPipe, UnderWay
<1>3. LiveCalls' \subseteq LiveCalls /\ LiveCalls \subseteq LiveCalls' \cup {call[c]}
  BY <1>1 DEF LiveCalls
<1>4. Outstanding' \subseteq Outstanding
      /\ Outstanding \subseteq Outstanding' \cup {call[c]}
  BY <1>2, <1>3 DEF Outstanding
<1>5. Window'
  BY <1>1, <1>4, WindowKept
<1>6. Kinds'
  BY <1>2, <1>3 DEF RouteInv, Kinds
<1>7. Slots' /\ CallsDiffer' /\ OwnEntry'
  BY <1>1 DEF RouteInv, Slots, CallsDiffer, OwnEntry, Listening, NoMessage, NoReply
<1>8. Entries'
  BY <1>1, <1>4 DEF RouteInv, Entries, idVars
<1>9. WaitingCallsAreServed'
  BY <1>1, <1>2 DEF RouteInv, WaitingCallsAreServed
<1>10. EntriesAreAccounted'
  <2>1. SUFFICES ASSUME running, NEW i \in DOMAIN replies
                 PROVE  \/ replies[i] \in refused'
                        \/ \E m \in Outstanding' : m.n = replies[i]
    BY <1>1 DEF EntriesAreAccounted
  <2>2. refused \subseteq refused'
    BY DEF Refuse, Return, Cancel
  <2>3. CASE replies[i] # call[c].n
    BY <1>4, <2>1, <2>2, <2>3 DEF RouteInv, EntriesAreAccounted
  <2>4. CASE replies[i] = call[c].n
    <3>1. Listening(c) /\ slot[c] = NoReply
      BY <1>1, <2>4 DEF RouteInv, OwnEntry
    <3>2. CASE Refuse(c)
      BY <2>4, <3>2 DEF Refuse
    <3>3. CASE ~Refuse(c)
      <4>1. pc[c] = "waiting"
        BY <3>1, <3>3 DEF Return, Cancel, Listening
      <4>2. PICK m \in InPipe : m.n = call[c].n
        BY <2>1, <3>1, <4>1 DEF RouteInv, WaitingCallsAreServed
      <4>3. call[c].n > 0
        BY <1>1, LiveCallFields
      <4>4. m \in Outstanding'
        BY <1>2, <4>2, <4>3 DEF UnderWay, Outstanding
      <4> QED
        BY <2>4, <4>2, <4>4
    <3> QED
      BY <3>2, <3>3
  <2> QED
    BY <2>3, <2>4
<1> QED
  BY <1>5, <1>6, <1>7, <1>8, <1>9, <1>10 DEF RouteInv
-----------------------------------------------------------------------------
(* Steps of the processor that answer a call, take an id, or end the task  *)

\* A reply takes out the entry of its own request, and wakes its own caller.
LEMMA RouteReply ==
    ASSUME IInv, SelectReply
    PROVE  Window' /\ RouteInv'
<1> USE DEF IInv
<1> DEFINE m == Head(rxq)
<1>1. /\ m.typ = "reply" /\ rxq # <<>> /\ rxq \in Seq(Message) /\ rxq' = Tail(rxq)
      /\ replies' = [i \in DOMAIN replies \ {m.req} |-> replies[i]]
      /\ UNCHANGED <<idVars, pc, call, refused, txq, writing, running,
                     toStore, fromStore>>
      /\ slot \in [Callers -> Nat \cup {Closed}]
  BY DEF SelectReply, TypeOK, QueuesOK, CallsOK, socketVars
<1>2. slot' = [c \in Callers |->
                 IF Listening(c) /\ m.req \in DOMAIN replies /\ replies[m.req] = call[c].n
                 THEN m.n ELSE slot[c]]
  BY DEF SelectReply
<1>3. m \in Message /\ ToSet(rxq) = ToSet(rxq') \cup {m}
  BY <1>1, SeqSteps
<1>4. InPipe = InPipe' \cup {m} /\ LiveCalls' = LiveCalls
  BY <1>1, <1>3 DEF InPipe, LiveCalls
<1>5. m.n \in Nat /\ m.n > 0 /\ m \in Outstanding
  <2>1. m.n \in Nat /\ m.n # 0
    BY <1>1, <1>3, <1>4, MessageFields DEF RouteInv, Kinds
  <2> QED
    BY <1>4, <2>1 DEF Outstanding, UnderWay
<1> HIDE DEF m
<1>6. Outstanding' \subseteq Outstanding /\ Outstanding \subseteq Outstanding' \cup {m}
  BY <1>4 DEF Outstanding, UnderWay
<1>7. \A c \in Callers : pc[c] # "idle" =>
         /\ call[c] \in Outstanding /\ call[c].n > 0 /\ call[c].n \in Nat
         /\ call[c].req = m.req <=> call[c].n = m.n
  BY <1>5, LiveCallFields, WindowGivesOneRequest
<1>8. \A c \in Callers :
         Listening(c) /\ m.req \in DOMAIN replies /\ replies[m.req] = call[c].n
           => call[c].n = m.n
  BY <1>7 DEF RouteInv, Entries, Listening
<1>9. Window'
  <2>1. UNCHANGED idVars
    BY <1>1
  <2> QED
    BY <1>6, <2>1, WindowKept
<1>10. Kinds'
  BY <1>4 DEF RouteInv, Kinds
<1>11. Slots'
  BY <1>1, <1>2, <1>8 DEF RouteInv, Slots, Listening
<1>12. CallsDiffer'
  BY <1>1 DEF RouteInv, CallsDiffer
<1>13. Entries'
  BY <1>1, <1>6 DEF RouteInv, Entries, idVars
<1>14. OwnEntry'
  <2>1. SUFFICES ASSUME NEW c \in Callers, pc[c] # "idle"
                 PROVE  IF Listening(c) /\ slot'[c] = NoReply
                        THEN /\ call[c].req \in DOMAIN replies'
                             /\ replies'[call[c].req] = call[c].n
                        ELSE \A i \in DOMAIN replies' : replies'[i] # call[c].n
    BY <1>1 DEF OwnEntry, Listening
  <2>2. IF Listening(c) /\ slot[c] = NoReply
        THEN call[c].req \in DOMAIN replies /\ replies[call[c].req] = call[c].n
        ELSE \A i \in DOMAIN replies : replies[i] # call[c].n
    BY <2>1 DEF RouteInv, OwnEntry
  <2>3. CASE call[c].req = m.req
    <3>1. \A i \in DOMAIN replies' : replies'[i] # call[c].n
      BY <1>1, <1>7, <2>1, <2>3 DEF RouteInv, Entries
    <3>2. Listening(c) => slot'[c] # NoReply
      BY <1>2, <1>5, <2>2, <2>3 DEF NoReply
    <3> QED
      BY <3>1, <3>2
  <2>4. CASE call[c].req # m.req
    <3>1. slot'[c] = slot[c]
      BY <1>2, <1>7, <1>8, <2>1, <2>4
    <3> QED
      BY <1>1, <2>2, <2>4, <3>1
  <2> QED
    BY <2>3, <2>4
<1>15. WaitingCallsAreServed'
  <2>1. SUFFICES ASSUME running, NEW c \in Callers, pc[c] = "waiting",
                        slot'[c] = NoReply
                 PROVE  /\ call[c].req \in DOMAIN replies'
                        /\ replies'[call[c].req] = call[c].n
                        /\ \E k \in InPipe' : k.n = call[c].n
    BY <1>1 DEF WaitingCallsAreServed
  <2>2. /\ call[c].req \in DOMAIN replies'
        /\ replies'[call[c].req] = call[c].n
    BY <1>1, <1>14, <2>1 DEF OwnEntry, Listening
  <2>3. call[c].req # m.req
    BY <1>1, <2>2
  <2>4. slot[c] = NoReply
    BY <1>2, <1>7, <1>8, <2>1, <2>3
  <2>5. PICK k \in InPipe : k.n = call[c].n
    BY <2>1, <2>4 DEF RouteInv, WaitingCallsAreServed
  <2>6. k # m
    BY <1>7, <2>1, <2>3, <2>5
  <2> QED
    BY <1>4, <2>2, <2>5, <2>6
<1>16. EntriesAreAccounted'
  <2>1. SUFFICES ASSUME running, NEW i \in DOMAIN replies, i # m.req
                 PROVE  \/ replies[i] \in refused
                        \/ \E k \in Outstanding' : k.n = replies[i]
    BY <1>1 DEF EntriesAreAccounted
  <2>2. replies[i] # m.n
    BY <1>5, <2>1 DEF RouteInv, Entries
  <2> QED
    BY <1>6, <2>1, <2>2 DEF RouteInv, EntriesAreAccounted
<1> QED
  BY <1>9, <1>10, <1>11, <1>12, <1>13, <1>14, <1>15, <1>16 DEF RouteInv

\* The processor's own request takes a number nobody has.
LEMMA RouteUnwatch ==
    ASSUME IInv, SelectUnwatch
    PROVE  Window' /\ RouteInv'
<1> USE DEF IInv
<1> DEFINE u == Head(unwatchq)
           new == NextMessage("unwatch", <<u.id, u.path>>)
<1>1. /\ new.n = issued + 1 /\ new.req = next_request_id /\ new.typ = "unwatch"
      /\ issued \in Nat /\ issued' = issued + 1 /\ TakeId
  BY DEF NextMessage, TypeOK, CallsOK, SelectUnwatch, TakeId
<1>2. /\ writing = NoMessage /\ writing' = new
      /\ UNCHANGED <<callVars, replies, txq, rxq, running, toStore, fromStore>>
  BY DEF SelectUnwatch, Selecting, socketVars
<1>3. new \in Message
  BY <1>2, TypeProcessor DEF TypeOK, QueuesOK, Processor
<1> HIDE DEF new
<1>4. InPipe' \cup {NoMessage} = InPipe \cup {new} /\ LiveCalls' = LiveCalls
  BY <1>2 DEF InPipe, LiveCalls, callVars
<1>5. Outstanding' = Outstanding \cup {new} /\ new \in InPipe'
  <2>1. NoMessage.n = 0 /\ new.n > 0 /\ new # NoMessage
    BY <1>1 DEF NoMessage
  <2> QED
    BY <1>2, <1>4, <2>1 DEF Outstanding, UnderWay, InPipe
<1>6. Window'
  BY <1>1, <1>3, <1>5, WindowMoves
<1>7. Kinds'
  BY <1>1, <1>4 DEF RouteInv, Kinds, NoMessage
<1>8. Slots' /\ CallsDiffer' /\ OwnEntry'
  BY <1>2 DEF RouteInv, Slots, CallsDiffer, OwnEntry, Listening, callVars
<1>9. \A i \in DOMAIN replies : replies[i] \in Nat /\ replies[i] <= issued
  BY DEF RouteInv, Entries, TypeOK, RepliesOK
<1>10. Entries'
  BY <1>1, <1>2, <1>5, <1>9 DEF RouteInv, Entries
<1>11. WaitingCallsAreServed'
  <2>1. SUFFICES ASSUME running, NEW c \in Callers, pc[c] = "waiting",
                        slot[c] = NoReply
                 PROVE  \E k \in InPipe' : k.n = call[c].n
    BY <1>2 DEF RouteInv, WaitingCallsAreServed, callVars
  <2>2. PICK k \in InPipe : k.n = call[c].n
    BY <2>1 DEF RouteInv, WaitingCallsAreServed
  <2>3. call[c].n > 0
    BY <2>1, LiveCallFields
  <2> QED
    BY <1>4, <2>2, <2>3 DEF NoMessage
<1>12. EntriesAreAccounted'
  BY <1>2, <1>5 DEF RouteInv, EntriesAreAccounted, callVars
<1> QED
  BY <1>6, <1>7, <1>8, <1>10, <1>11, <1>12 DEF RouteInv

\* The end of the processor task keeps what does not depend on it.
LEMMA RouteProcessorEnds ==
    ASSUME IInv, ProcessorEnds
    PROVE  Window' /\ RouteInv'
<1> USE DEF IInv
<1>1. /\ running' = FALSE
      /\ txq' = <<>> /\ rxq' = <<>> /\ writing' = NoMessage
      /\ UNCHANGED <<idVars, callVars, replies, toStore, fromStore>>
  BY DEF ProcessorEnds, socketVars
<1>2. InPipe' \subseteq InPipe \cup {NoMessage} /\ LiveCalls' = LiveCalls
  BY <1>1 DEF InPipe, LiveCalls, callVars, ToSet
<1>3. Outstanding' \subseteq Outstanding
  BY <1>2 DEF Outstanding, UnderWay, NoMessage
<1>4. Window'
  BY <1>1, <1>3, WindowKept
<1>5. Kinds'
  BY <1>2 DEF RouteInv, Kinds, NoMessage
<1>6. Slots' /\ CallsDiffer' /\ OwnEntry'
  BY <1>1 DEF RouteInv, Slots, CallsDiffer, OwnEntry, Listening, callVars
<1>7. Entries'
  BY <1>1, <1>3 DEF RouteInv, Entries, idVars
<1>8. WaitingCallsAreServed' /\ EntriesAreAccounted'
  BY <1>1 DEF WaitingCallsAreServed, EntriesAreAccounted
<1> QED
  BY <1>4, <1>5, <1>6, <1>7, <1>8 DEF RouteInv
-----------------------------------------------------------------------------
\* The inductive invariant holds initially.
LEMMA IInit == Init => IInv
<1> SUFFICES ASSUME Init PROVE IInv
  OBVIOUS
<1>1. TypeOK
  BY TypeInit
<1>2. /\ \A c \in Callers : pc[c] = "idle" /\ slot[c] = NoReply
      /\ DOMAIN replies = {}
      /\ txq = <<>> /\ rxq = <<>> /\ toStore = <<>> /\ fromStore = <<>>
      /\ writing = NoMessage
  BY DEF Init
<1>3. ToSet(<<>>) = {}
  BY DEF ToSet
<1>4. InPipe = {NoMessage} /\ LiveCalls = {}
  BY <1>2, <1>3 DEF InPipe, LiveCalls
<1>5. Outstanding = {}
  BY <1>4 DEF Outstanding, UnderWay, NoMessage
<1>6. Window
  BY <1>5 DEF Window
<1>7. Kinds
  BY <1>4 DEF Kinds, NoMessage
<1>8. Slots /\ CallsDiffer /\ OwnEntry /\ WaitingCallsAreServed
  BY <1>2 DEF Slots, CallsDiffer, OwnEntry, WaitingCallsAreServed
<1>9. Entries /\ EntriesAreAccounted
  BY <1>2 DEF Entries, EntriesAreAccounted
<1> QED
  BY <1>1, <1>6, <1>7, <1>8, <1>9 DEF IInv, RouteInv

\* Every step keeps the inductive invariant.
LEMMA INext == IInv /\ [Next]_vars => IInv'
<1>1. TypeOK /\ [Next]_vars => TypeOK'
  BY TypeNext
<1> SUFFICES ASSUME IInv, [Next]_vars PROVE Window' /\ RouteInv'
  BY <1>1 DEF IInv
<1>2. ASSUME NEW c \in Callers, Request(c)
      PROVE  Window' /\ RouteInv'
  <2>1. NextMessage("op", <<>>) \in Message
    BY DEF IInv, TypeOK, CallsOK, NextMessage, Message, Plain
  <2> QED
    BY <1>2, <2>1, RouteBegin DEF Request
<1>3. ASSUME NEW c \in Callers, NEW h \in Handles, BindWatch(c, h)
      PROVE  Window' /\ RouteInv'
  <2>1. <<h, handle[h].id>> \in Handles \X RequestIds
    BY DEF IInv, TypeOK, WatchesOK
  <2>2. NextMessage("watch", <<h, handle[h].id>>) \in Message
    BY <2>1 DEF IInv, TypeOK, CallsOK, NextMessage, Message, PathFirst
  <2> QED
    BY <1>3, <2>2, RouteBegin DEF BindWatch
<1>4. ASSUME NEW c \in Callers, Caller(c) \/ Cancel(c)
      PROVE  Window' /\ RouteInv'
  BY <1>4, RouteRegister, RouteEnqueue, RouteEnd DEF Caller
<1>5. CASE Processor \/ ProcessorEnds \/ Reader
  <2>1. CASE SelectTx \/ WriteAll \/ SelectEvent \/ Reader
    BY <2>1, RouteMoves, Zenon
  <2>2. CASE SelectReply
    BY <2>2, RouteReply
  <2>3. CASE SelectUnwatch
    BY <2>3, RouteUnwatch
  <2>4. CASE ProcessorEnds
    BY <2>4, RouteProcessorEnds
  <2> QED
    BY <1>5, <2>1, <2>2, <2>3, <2>4 DEF Processor
<1>6. ASSUME NEW h \in Handles, CreateWatch(h) \/ WakeWatcher(h) \/ DropWatch(h)
      PROVE  Window' /\ RouteInv'
  BY <1>6, RouteMoves
<1>7. CASE ServeRequest \/ ServeWatch \/ (\E w \in registered : PathChanges(w))
  <2>1. CASE ServeRequest \/ ServeWatch
    BY <2>1, RouteStore
  <2>2. CASE \E w \in registered : PathChanges(w)
    BY <2>2, RouteMoves, Zenon
  <2> QED
    BY <1>7, <2>1, <2>2
<1>8. CASE UNCHANGED vars
  <2>1. /\ UNCHANGED <<idVars, callVars, replies, running>>
        /\ UNCHANGED <<txq, rxq, writing, toStore, fromStore>>
    BY <1>8 DEF vars, queueVars, socketVars
  <2>2. InPipe' = InPipe
    BY <2>1 DEF InPipe
  <2>3. TypeOK /\ Window /\ RouteInv
    BY DEF IInv
  <2> QED
    BY <2>1, <2>2, <2>3, PassingOn
<1> QED
  BY <1>2, <1>3, <1>4, <1>5, <1>6, <1>7, <1>8 DEF Next

\* What the invariant says of a state
LEMMA IInvGives ==
    IInv => /\ ReplyReachesItsCall /\ IdsUnderWayDiffer
            /\ WaitingCallsAreServed /\ EntriesAreAccounted
<1> SUFFICES ASSUME IInv
             PROVE  /\ ReplyReachesItsCall /\ IdsUnderWayDiffer
                    /\ WaitingCallsAreServed /\ EntriesAreAccounted
  OBVIOUS
<1>1. ReplyReachesItsCall
  BY DEF IInv, RouteInv, Slots, ReplyReachesItsCall
<1>2. IdsUnderWayDiffer
  BY WindowGivesOneRequest DEF IInv, IdsUnderWayDiffer
<1> QED
  BY <1>1, <1>2 DEF IInv, RouteInv

\* In every reachable state what a caller's one-shot holds is the answer to the
\* caller's own request, and no sender was dropped for a reused id.
THEOREM RepliesCorrect == Spec => []ReplyReachesItsCall
  BY IInit, INext, IInvGives, PTL DEF Spec

\* Two requests under way never share an id, however many ids there are and
\* however often they have come round.
THEOREM IdsCorrect == Spec => []IdsUnderWayDiffer
  BY IInit, INext, IInvGives, PTL DEF Spec

\* No call waits for an answer that can no longer reach it while the processor
\* task runs.
THEOREM CallsServed == Spec => []WaitingCallsAreServed
  BY IInit, INext, IInvGives, PTL DEF Spec

\* While the processor task runs, every entry of the reply map belongs to a
\* request in progress or under way, or to one that try_send refused.
THEOREM EntriesCorrect == Spec => []EntriesAreAccounted
  BY IInit, INext, IInvGives, PTL DEF Spec
-----------------------------------------------------------------------------
(* The refinement.  A request of a caller is in one place on its way to    *)
(* the store, so that it is executed once; and what has come back with the *)
(* number of a call in progress is the answer to an executed request.      *)

OnTheWay == ToSet(txq) \cup ToSet(toStore) \cup {writing}
Entering == {c \in Callers : pc[c] \in {"numbered", "registered"}}
IsCallers(m) == m.typ \in {"op", "watch"}

Messages ==
    \A c \in Callers :
        IF pc[c] = "idle" THEN call[c] = NoMessage ELSE IsCallers(call[c])

\* No two messages of a queue have the same number.
Line(s) == \A i, j \in 1 .. Len(s) : i # j => s[i].n # s[j].n

Lines ==
    /\ Line(txq) /\ Line(toStore)
    /\ \A m \in ToSet(txq) \cup ToSet(toStore) : m.n > 0 /\ m.n # writing.n
    /\ \A a \in ToSet(txq), b \in ToSet(toStore) : a.n # b.n
    /\ writing.n = 0 => writing = NoMessage

NotSentYet ==
    \A c \in Entering :
        call[c].n \notin executed /\ \A m \in OnTheWay : m.n # call[c].n

Answers ==
    \A m \in InPipe, c \in Callers :
        pc[c] # "idle" /\ m.n = call[c].n => IsCallers(m) \/ m.n \in executed

SlotsExecuted == \A c \in Callers : slot[c] # NoReply => slot[c] \in executed

NumbersIssued == \A n \in executed \cup refused : n <= issued

RpcInv ==
    /\ Messages /\ Lines /\ NotSentYet /\ Answers /\ SlotsExecuted
    /\ NumbersIssued

Pending == [c \in Callers |-> call[c].n]
\* Messages of callers that have not entered a queue, and those in a set
Entered == {call[c] : c \in Entering}
CallersOf(S) == {m \in S : IsCallers(m)}
NumbersOf(S) == {m.n : m \in S}

Maps == Rpc!RpcNext \/ UNCHANGED <<Pending, Answered, Unexecuted, executed, refused>>

\* The requests that the store may still execute
LEMMA UnexecutedIs ==
    /\ Unexecuted = NumbersOf(Entered \cup CallersOf(OnTheWay))
    /\ Unexecuted' = NumbersOf(Entered' \cup CallersOf(OnTheWay'))
<1>1. Unexecuted = NumbersOf(Entered \cup CallersOf(OnTheWay))
  BY DEF Unexecuted, NumbersOf, CallersOf, Entered, Entering, OnTheWay, IsCallers
<1>2. Unexecuted' = NumbersOf(Entered' \cup CallersOf(OnTheWay'))
  BY DEF Unexecuted, NumbersOf, CallersOf, Entered, Entering, OnTheWay, IsCallers
<1> QED BY <1>1, <1>2

\* What a caller waits for follows from its message.
LEMMA PendingIs ==
    ASSUME NEW c \in Callers, \A d \in Callers : d # c => call'[d] = call[d]
    PROVE  Pending' = [Pending EXCEPT ![c] = call'[c].n] /\ Pending[c] = call[c].n
<1>1. /\ Pending = [d \in Callers |-> call[d].n]
      /\ Pending' = [d \in Callers |-> call'[d].n]
  BY DEF Pending
<1>2. \A d \in Callers : d # c => call'[d].n = call[d].n
  OBVIOUS
<1> QED BY <1>1, <1>2

\* The steps of the abstract specification, in terms of this one
LEMMA RpcSteps ==
    /\ \A c \in Callers, r \in Requests :
          /\ r \notin Unexecuted \cup executed \cup refused /\ Pending[c] = 0
          /\ Pending' = [Pending EXCEPT ![c] = r] /\ Unexecuted' = Unexecuted \cup {r}
          /\ UNCHANGED <<Answered, executed, refused>>
          => Maps
    /\ \A r \in Unexecuted :
          /\ Unexecuted' = Unexecuted \ {r} /\ executed' = executed \cup {r}
          /\ UNCHANGED <<Pending, Answered, refused>>
          => Maps
    /\ \A c \in Callers :
          /\ Pending[c] \in executed /\ Answered' = Answered \cup {c}
          /\ UNCHANGED <<Pending, Unexecuted, executed, refused>>
          => Maps
    /\ \A c \in Callers :
          /\ Pending[c] \in Unexecuted /\ Pending' = [Pending EXCEPT ![c] = 0]
          /\ Unexecuted' = Unexecuted \ {Pending[c]}
          /\ refused' = refused \cup {Pending[c]}
          /\ UNCHANGED <<Answered, executed>>
          => Maps
    /\ \A c \in Callers :
          /\ Pending[c] # 0 /\ Pending' = [Pending EXCEPT ![c] = 0]
          /\ Answered' = Answered \ {c} /\ UNCHANGED <<executed, refused>>
          /\ Unexecuted' = Unexecuted \/ Unexecuted' = Unexecuted \ {Pending[c]}
          => Maps
    /\ /\ Unexecuted' \subseteq Unexecuted
       /\ UNCHANGED <<Pending, Answered, executed, refused>>
       => Maps
<1>1. ASSUME NEW c \in Callers, NEW r \in Requests,
             r \notin Unexecuted \cup executed \cup refused, Pending[c] = 0,
             Pending' = [Pending EXCEPT ![c] = r], Unexecuted' = Unexecuted \cup {r},
             UNCHANGED <<Answered, executed, refused>>
      PROVE  Maps
  <2>1. Rpc!Ask(c)
    BY <1>1 DEF Rpc!Ask, Pending
  <2> QED BY <2>1 DEF Maps, Rpc!RpcNext
<1>2. ASSUME NEW r \in Unexecuted, Unexecuted' = Unexecuted \ {r},
             executed' = executed \cup {r}, UNCHANGED <<Pending, Answered, refused>>
      PROVE  Maps
  <2>1. Rpc!Execute(r)
    BY <1>2 DEF Rpc!Execute, Pending
  <2> QED BY <2>1 DEF Maps, Rpc!RpcNext
<1>3. ASSUME NEW c \in Callers, Pending[c] \in executed,
             Answered' = Answered \cup {c},
             UNCHANGED <<Pending, Unexecuted, executed, refused>>
      PROVE  Maps
  <2>1. Rpc!Answer(c)
    BY <1>3 DEF Rpc!Answer, Pending
  <2> QED BY <2>1 DEF Maps, Rpc!RpcNext
<1>4. ASSUME NEW c \in Callers, Pending[c] \in Unexecuted,
             Pending' = [Pending EXCEPT ![c] = 0],
             Unexecuted' = Unexecuted \ {Pending[c]},
             refused' = refused \cup {Pending[c]}, UNCHANGED <<Answered, executed>>
      PROVE  Maps
  <2>1. Rpc!Refuse(c)
    BY <1>4 DEF Rpc!Refuse, Pending
  <2> QED BY <2>1 DEF Maps, Rpc!RpcNext
<1>5. ASSUME NEW c \in Callers, Pending[c] # 0, Pending' = [Pending EXCEPT ![c] = 0],
             Answered' = Answered \ {c}, UNCHANGED <<executed, refused>>,
             Unexecuted' = Unexecuted \/ Unexecuted' = Unexecuted \ {Pending[c]}
      PROVE  Maps
  <2>1. Rpc!End(c)
    BY <1>5 DEF Rpc!End, Pending
  <2> QED BY <2>1 DEF Maps, Rpc!RpcNext
<1>6. ASSUME Unexecuted' \subseteq Unexecuted,
             UNCHANGED <<Pending, Answered, executed, refused>>
      PROVE  Maps
  <2>1. Rpc!Lose
    BY <1>6 DEF Rpc!Lose, Pending
  <2> QED BY <2>1 DEF Maps, Rpc!RpcNext
<1> QED BY <1>1, <1>2, <1>3, <1>4, <1>5, <1>6

\* Numbers in the pipe were handed out.
LEMMA NumbersInUse ==
    ASSUME IInv
    PROVE  /\ issued \in Nat
           /\ \A m \in InPipe : /\ m \in Message /\ m.n \in Nat /\ m.n <= issued
                                /\ m.n = 0 <=> m.typ \in {"event", "none"}
           /\ \A c \in Callers : pc[c] # "idle" =>
                 call[c].n \in Nat /\ call[c].n > 0 /\ call[c].n <= issued
<1>1. issued \in Nat
  BY DEF IInv, TypeOK, CallsOK
<1>2. ASSUME NEW m \in InPipe
      PROVE  /\ m \in Message /\ m.n \in Nat /\ m.n <= issued
             /\ m.n = 0 <=> m.typ \in {"event", "none"}
  <2>1. m \in Message /\ m.n \in Nat
    BY AllAreMessages, MessageFields DEF IInv
  <2>2. m.n > 0 => issued + 1 - m.n \in 1 .. IdSpace
    BY DEF IInv, Window, Age, Outstanding, UnderWay
  <2>3. m.n = 0 <=> m.typ \in {"event", "none"}
    BY DEF IInv, RouteInv, Kinds
  <2> QED BY <1>1, <2>1, <2>2, <2>3, Capacities
<1> QED BY <1>1, <1>2, LiveCallFields

\* What queues do to the numbers in them
LEMMA LineSteps ==
    ASSUME NEW s \in Seq(Message), Line(s)
    PROVE  /\ s # <<>> => /\ Line(Tail(s))
                          /\ \A m \in ToSet(Tail(s)) : m.n # Head(s).n
           /\ \A e \in Message : (\A m \in ToSet(s) : m.n # e.n) => Line(Append(s, e))
<1>1. ASSUME s # <<>>
      PROVE  Line(Tail(s)) /\ \A m \in ToSet(Tail(s)) : m.n # Head(s).n
  <2>1. /\ Len(s) \in Nat /\ Len(s) > 0 /\ Head(s) = s[1]
        /\ Tail(s) \in Seq(Message) /\ Len(Tail(s)) = Len(s) - 1
        /\ \A i \in 1 .. Len(Tail(s)) : Tail(s)[i] = s[i + 1]
    BY <1>1, EmptySeq, LenProperties, HeadTailProperties, SMT
  <2>2. DOMAIN Tail(s) = 1 .. Len(s) - 1
    BY <2>1, LenProperties
  <2>3. \A i \in 1 .. Len(s) - 1 : i + 1 \in 1 .. Len(s) /\ i + 1 # 1
    BY <2>1
  <2>4. Line(Tail(s))
    BY <2>1, <2>3 DEF Line
  <2>5. \A m \in ToSet(Tail(s)) : m.n # Head(s).n
    <3>1. ASSUME NEW i \in 1 .. Len(s) - 1 PROVE Tail(s)[i].n # Head(s).n
      <4>1. 1 \in 1 .. Len(s)
        BY <2>1
      <4> QED BY <2>1, <2>3, <4>1 DEF Line
    <3> QED BY <2>2, <3>1 DEF ToSet
  <2> QED BY <2>4, <2>5
<1>2. ASSUME NEW e \in Message, \A m \in ToSet(s) : m.n # e.n
      PROVE  Line(Append(s, e))
  <2>1. /\ Len(s) \in Nat /\ DOMAIN s = 1 .. Len(s) /\ Len(Append(s, e)) = Len(s) + 1
        /\ \A i \in 1 .. Len(s) : Append(s, e)[i] = s[i]
        /\ Append(s, e)[Len(s) + 1] = e
    BY LenProperties, AppendProperties
  <2>2. \A i \in 1 .. Len(s) : s[i].n # e.n
    BY <1>2, <2>1 DEF ToSet
  <2>3. \A i \in 1 .. Len(s) + 1 : i \in 1 .. Len(s) \/ i = Len(s) + 1
    BY <2>1
  <2> QED BY <2>1, <2>2, <2>3 DEF Line
<1> QED BY <1>1, <1>2

\* Every step keeps the invariant and is a step of the abstract specification.
Refines == RpcInv' /\ Maps

\* A call begins: its number is new.
LEMMA RefinesBegin ==
    ASSUME IInv, RpcInv, NEW c \in Callers, NEW typ \in {"op", "watch"}, NEW args,
           Begin(c, typ, args)
    PROVE  Refines
<1> DEFINE new == NextMessage(typ, args)
<1>1. /\ pc[c] = "idle" /\ pc' = [pc EXCEPT ![c] = "numbered"]
      /\ call' = [call EXCEPT ![c] = new]
      /\ issued < MaxRequests /\ issued' = issued + 1
      /\ UNCHANGED <<slot, txq, rxq, writing, toStore, fromStore, executed, refused>>
      /\ new.n = issued + 1 /\ IsCallers(new)
  BY DEF Begin, TakeId, NextMessage, IsCallers, queueVars, socketVars, storeVars
<1>2. /\ pc \in [Callers -> {"idle", "numbered", "registered", "waiting"}]
      /\ call \in [Callers -> Message]
  BY DEF IInv, TypeOK, CallsOK
<1>3. InPipe' = InPipe /\ OnTheWay' = OnTheWay /\ OnTheWay \subseteq InPipe
  BY <1>1 DEF InPipe, OnTheWay
<1>4. /\ issued \in Nat /\ \A m \in InPipe : m.n \in Nat /\ m.n <= issued
      /\ \A d \in Callers : pc[d] # "idle" => call[d].n \in Nat /\ call[d].n <= issued
      /\ \A n \in executed \cup refused : n \in Nat /\ n <= issued
  BY NumbersInUse DEF RpcInv, NumbersIssued, IInv, TypeOK, CallsOK, StoreOK
<1> HIDE DEF new
<1>5. /\ \A d \in Callers : d # c => pc'[d] = pc[d] /\ call'[d] = call[d]
      /\ pc'[c] = "numbered" /\ call'[c] = new
  BY <1>1, <1>2
<1>6. RpcInv'
  <2>1. Messages'
    BY <1>1, <1>5 DEF RpcInv, Messages
  <2>2. Lines'
    BY <1>1 DEF RpcInv, Lines, Line
  <2>3. \A m \in InPipe : m.n # new.n
    BY <1>1, <1>4
  <2>4. NotSentYet'
    BY <1>1, <1>3, <1>4, <1>5, <2>3 DEF RpcInv, NotSentYet, Entering, OnTheWay
  <2>5. Answers'
    BY <1>1, <1>3, <1>5, <2>3 DEF RpcInv, Answers
  <2>6. SlotsExecuted'
    BY <1>1 DEF RpcInv, SlotsExecuted
  <2>7. NumbersIssued'
    BY <1>1, <1>4 DEF NumbersIssued
  <2> QED BY <2>1, <2>2, <2>4, <2>5, <2>6, <2>7 DEF RpcInv
<1>7. Maps
  <2>1. Entering' = Entering \cup {c} /\ c \notin Entering
    BY <1>1, <1>5 DEF Entering
  <2>2. Unexecuted' = Unexecuted \cup {new.n}
    <3>1. Entered' = Entered \cup {new}
      <4>1. \A d \in Entering : d # c
        BY <2>1
      <4>2. \A d \in Entering : call'[d] = call[d]
        BY <1>5, <4>1 DEF Entering
      <4>3. Entered' = {call'[d] : d \in Entering \cup {c}}
        BY <2>1 DEF Entered
      <4>4. {call'[d] : d \in Entering \cup {c}}
              = {call'[d] : d \in Entering} \cup {call'[c]}
        OBVIOUS
      <4>5. {call'[d] : d \in Entering} = {call[d] : d \in Entering}
        BY <4>2
      <4> QED BY <1>5, <4>3, <4>4, <4>5 DEF Entered
    <3> QED BY <1>3, <3>1, UnexecutedIs DEF NumbersOf
  <2>3. new.n \notin Unexecuted \cup executed \cup refused
    <3>1. \A m \in Entered : m.n # new.n
      BY <1>1, <1>4 DEF Entering, Entered
    <3>2. \A m \in OnTheWay : m.n # new.n
      BY <1>1, <1>3, <1>4
    <3>3. new.n \notin executed \cup refused
      BY <1>1, <1>4
    <3> QED BY <3>1, <3>2, <3>3, UnexecutedIs DEF NumbersOf, CallersOf
  <2>4. Pending' = [Pending EXCEPT ![c] = new.n] /\ Pending[c] = 0
    <3>1. call[c] = NoMessage
      BY <1>1 DEF RpcInv, Messages
    <3>2. Pending' = [Pending EXCEPT ![c] = call'[c].n] /\ Pending[c] = call[c].n
      BY <1>5, PendingIs
    <3> QED BY <1>5, <3>1, <3>2 DEF NoMessage
  <2>5. new.n \in Requests
    BY <1>1, <1>4, CapacityAssumption DEF Requests
  <2>6. UNCHANGED <<Answered, executed, refused>>
    BY <1>1 DEF Answered
  <2> QED BY <2>2, <2>3, <2>4, <2>5, <2>6, RpcSteps
<1> QED BY <1>6, <1>7 DEF Refines

\* The sender is entered: nothing changes for the caller.
LEMMA RefinesRegister ==
    ASSUME IInv, RpcInv, IInv', NEW c \in Callers, Register(c)
    PROVE  Refines
<1>1. /\ pc[c] = "numbered" /\ pc' = [pc EXCEPT ![c] = "registered"]
      /\ UNCHANGED <<idVars, call, txq, rxq, writing, toStore, fromStore, executed,
                     refused>>
      /\ slot' \in [Callers -> Nat \cup {Closed}]
      /\ \A d \in Callers : slot'[d] \in {Closed, slot[d]}
  BY DEF Register, queueVars, socketVars, storeVars, IInv, TypeOK, CallsOK
<1>2. pc \in [Callers -> {"idle", "numbered", "registered", "waiting"}]
  BY DEF IInv, TypeOK, CallsOK
<1>3. InPipe' = InPipe /\ OnTheWay' = OnTheWay /\ Entering' = Entering
  BY <1>1, <1>2 DEF InPipe, OnTheWay, Entering
<1>4. \A d \in Callers : pc'[d] = "idle" <=> pc[d] = "idle"
  BY <1>1, <1>2
<1>5. \A d \in Callers : slot'[d] = slot[d]
  <2>1. \A d \in Callers : slot'[d] \in {NoReply, call[d].n} /\ call[d].n \in Nat
    BY <1>1, MessageFields DEF IInv, RouteInv, Slots, TypeOK, CallsOK
  <2> QED BY <1>1, <2>1 DEF NoReply, Closed
<1>6. RpcInv'
  BY <1>1, <1>3, <1>4, <1>5
     DEF RpcInv, Messages, Lines, Line, NotSentYet, Answers, SlotsExecuted, NumbersIssued, idVars
<1>7. Unexecuted' = Unexecuted
  <2>1. Entered' = Entered
    BY <1>1, <1>3 DEF Entered
  <2> QED BY <1>3, <2>1, UnexecutedIs
<1>8. Answered' = Answered
  BY <1>5 DEF Answered
<1> QED BY <1>1, <1>6, <1>7, <1>8 DEF Refines, Maps, Pending

\* The message is queued: it is one way to the store instead of the other.
LEMMA RefinesEnqueue ==
    ASSUME IInv, RpcInv, NEW c \in Callers, Enqueue(c)
    PROVE  Refines
<1>1. /\ pc[c] = "registered" /\ pc' = [pc EXCEPT ![c] = "waiting"]
      /\ txq' = Append(txq, call[c])
      /\ UNCHANGED <<idVars, call, slot, rxq, writing, toStore, fromStore, executed,
                     refused>>
  BY DEF Enqueue, socketVars, storeVars
<1>2. /\ pc \in [Callers -> {"idle", "numbered", "registered", "waiting"}]
      /\ call[c] \in Message /\ txq \in Seq(Message)
  BY DEF IInv, TypeOK, CallsOK, QueuesOK
<1>3. ToSet(txq') = ToSet(txq) \cup {call[c]}
  BY <1>1, <1>2, SeqSteps
<1>4. InPipe' = InPipe \cup {call[c]} /\ OnTheWay' = OnTheWay \cup {call[c]}
      /\ Entering' = Entering \ {c} /\ c \in Entering
  BY <1>1, <1>2, <1>3 DEF InPipe, OnTheWay, Entering
<1>5. IsCallers(call[c]) /\ call[c].n > 0
  BY <1>1, NumbersInUse DEF RpcInv, Messages
<1>6. \A m \in OnTheWay : m.n # call[c].n
  BY <1>4 DEF RpcInv, NotSentYet
<1>7. \A d \in Callers : pc'[d] = "idle" <=> pc[d] = "idle"
  BY <1>1, <1>2
<1>8. RpcInv'
  <2>1. Messages' /\ SlotsExecuted' /\ NumbersIssued'
    BY <1>1, <1>7 DEF RpcInv, Messages, SlotsExecuted, NumbersIssued, idVars
  <2>2. Lines'
    <3>1. Line(txq')
      BY <1>1, <1>2, <1>6, LineSteps DEF RpcInv, Lines, OnTheWay
    <3> QED BY <1>1, <1>3, <1>5, <1>6, <3>1 DEF RpcInv, Lines, Line, OnTheWay
  <2>3. NotSentYet'
    <3>1. \A d \in Callers : d # c /\ pc[d] # "idle" => call[d].n # call[c].n
      BY <1>1 DEF IInv, RouteInv, CallsDiffer
    <3> QED BY <1>1, <1>4, <3>1 DEF RpcInv, NotSentYet, Entering
  <2>4. Answers'
    BY <1>1, <1>4, <1>5, <1>7 DEF RpcInv, Answers
  <2> QED BY <2>1, <2>2, <2>3, <2>4 DEF RpcInv
<1>9. Unexecuted' = Unexecuted
  <2>1. Entered = Entered' \cup {call[c]}
    BY <1>1, <1>4 DEF Entered
  <2>2. CallersOf(OnTheWay') = CallersOf(OnTheWay) \cup {call[c]}
    BY <1>4, <1>5 DEF CallersOf
  <2>3. Entered' \cup CallersOf(OnTheWay') = Entered \cup CallersOf(OnTheWay)
    BY <2>1, <2>2
  <2> QED BY <2>3, UnexecutedIs
<1> QED BY <1>1, <1>8, <1>9 DEF Refines, Maps, Pending, Answered

\* A call ends: refused, answered, or dropped.
LEMMA RefinesEnd ==
    ASSUME IInv, RpcInv, NEW c \in Callers, Refuse(c) \/ Return(c) \/ Cancel(c)
    PROVE  Refines
<1>1. /\ pc[c] # "idle" /\ pc' = [pc EXCEPT ![c] = "idle"]
      /\ call' = [call EXCEPT ![c] = NoMessage]
      /\ slot' = [slot EXCEPT ![c] = NoReply]
      /\ UNCHANGED <<idVars, txq, rxq, writing, toStore, fromStore, executed>>
  BY DEF Refuse, Return, Cancel, EndCall, queueVars, socketVars, storeVars
<1>2. /\ pc \in [Callers -> {"idle", "numbered", "registered", "waiting"}]
      /\ call \in [Callers -> Message] /\ slot \in [Callers -> Nat \cup {Closed}]
  BY DEF IInv, TypeOK, CallsOK
<1>3. InPipe' = InPipe /\ OnTheWay' = OnTheWay /\ Entering' = Entering \ {c}
  BY <1>1, <1>2 DEF InPipe, OnTheWay, Entering
<1>4. /\ \A d \in Callers : d # c => /\ pc'[d] = pc[d] /\ call'[d] = call[d]
                                     /\ slot'[d] = slot[d]
      /\ pc'[c] = "idle" /\ call'[c] = NoMessage /\ slot'[c] = NoReply
  BY <1>1, <1>2
<1>5. RpcInv'
  <2>1. Messages' /\ SlotsExecuted'
    BY <1>1, <1>4 DEF RpcInv, Messages, SlotsExecuted
  <2>2. Lines'
    BY <1>1 DEF RpcInv, Lines, Line
  <2>3. NotSentYet'
    BY <1>1, <1>3, <1>4 DEF RpcInv, NotSentYet, Entering
  <2>4. Answers'
    BY <1>1, <1>3, <1>4 DEF RpcInv, Answers
  <2>5. NumbersIssued'
    <3>1. refused' \subseteq refused \cup {call[c].n}
      BY DEF Refuse, Return, Cancel
    <3>2. call[c].n <= issued
      BY <1>1, NumbersInUse
    <3> QED BY <1>1, <3>1, <3>2 DEF RpcInv, NumbersIssued, idVars
  <2> QED BY <2>1, <2>2, <2>3, <2>4, <2>5 DEF RpcInv
<1>6. Pending' = [Pending EXCEPT ![c] = 0] /\ Pending[c] = call[c].n
  <2>1. Pending' = [Pending EXCEPT ![c] = call'[c].n] /\ Pending[c] = call[c].n
    BY <1>4, PendingIs
  <2> QED BY <1>4, <2>1 DEF NoMessage
<1>7. call[c].n \in Nat /\ call[c].n > 0
  BY <1>1, NumbersInUse
<1>8. Unexecuted' = NumbersOf({call[d] : d \in Entering \ {c}} \cup CallersOf(OnTheWay))
  <2>1. Entered' = {call[d] : d \in Entering \ {c}}
    BY <1>3, <1>4 DEF Entered, Entering
  <2> QED BY <1>3, <2>1, UnexecutedIs
<1>9. c \in Entering => Unexecuted' = Unexecuted \ {call[c].n} /\ call[c].n \in Unexecuted
  <2>1. SUFFICES ASSUME c \in Entering
                 PROVE  Unexecuted' = Unexecuted \ {call[c].n} /\ call[c].n \in Unexecuted
    OBVIOUS
  <2>2. /\ \A d \in Entering \ {c} : call[d].n # call[c].n
        /\ \A m \in OnTheWay : m.n # call[c].n
    BY <2>1 DEF IInv, RouteInv, CallsDiffer, Entering, RpcInv, NotSentYet
  <2>3. Entered = {call[d] : d \in Entering \ {c}} \cup {call[c]}
    BY <2>1 DEF Entered
  <2> QED BY <1>8, <2>2, <2>3, UnexecutedIs DEF NumbersOf, CallersOf
<1>10. c \notin Entering => Unexecuted' = Unexecuted
  <2>1. c \notin Entering => Entering \ {c} = Entering
    OBVIOUS
  <2> QED BY <1>8, <2>1, UnexecutedIs DEF Entered
<1>11. Answered' = Answered \ {c}
  BY <1>4 DEF Answered
<1>12. CASE Refuse(c)
  <2>1. c \in Entering /\ refused' = refused \cup {call[c].n}
    BY <1>12 DEF Refuse, Entering
  <2>2. slot[c] = NoReply
    BY <2>1 DEF RpcInv, NotSentYet, SlotsExecuted, IInv, RouteInv, Slots
  <2>3. Answered' = Answered
    BY <1>11, <2>2 DEF Answered
  <2>4. Maps
    BY <1>1, <1>6, <1>9, <2>1, <2>3, RpcSteps
  <2> QED BY <1>5, <2>4 DEF Refines
<1>13. CASE Return(c) \/ Cancel(c)
  <2>1. refused' = refused
    BY <1>13 DEF Return, Cancel
  <2>2. Unexecuted' = Unexecuted \/ Unexecuted' = Unexecuted \ {Pending[c]}
    BY <1>6, <1>9, <1>10
  <2>3. Pending[c] # 0
    BY <1>6, <1>7
  <2>4. Maps
    BY <1>1, <1>6, <1>11, <2>1, <2>2, <2>3, RpcSteps
  <2> QED BY <1>5, <2>4 DEF Refines
<1> QED BY <1>12, <1>13

\* A step in which messages only move towards the store, get lost, or bring
\* events is no step of a call.
LEMMA RefinesPassing ==
    ASSUME IInv, RpcInv, Lines', UNCHANGED <<issued, callVars, executed>>,
           \A m \in OnTheWay' : m \in OnTheWay \/ m = NoMessage,
           \A m \in InPipe' : m \in InPipe \/ m.n = 0
    PROVE  Refines
<1>1. UNCHANGED <<pc, call, slot, refused>>
  BY DEF callVars
<1>2. Entering' = Entering
  BY <1>1 DEF Entering
<1>3. NoMessage.n = 0 /\ ~IsCallers(NoMessage)
  BY DEF NoMessage, IsCallers
<1>4. \A c \in Callers : pc[c] # "idle" => call[c].n \in Nat /\ call[c].n > 0
  BY NumbersInUse
<1>5. Messages' /\ SlotsExecuted' /\ NumbersIssued'
  BY <1>1 DEF RpcInv, Messages, SlotsExecuted, NumbersIssued
<1>6. NotSentYet'
  BY <1>1, <1>2, <1>3, <1>4 DEF RpcInv, NotSentYet, Entering
<1>7. Answers'
  BY <1>1, <1>4 DEF RpcInv, Answers
<1>8. Unexecuted' \subseteq Unexecuted
  <2>1. Entered' = Entered
    BY <1>1, <1>2 DEF Entered
  <2>2. CallersOf(OnTheWay') \subseteq CallersOf(OnTheWay)
    BY <1>3 DEF CallersOf
  <2> QED BY <2>1, <2>2, UnexecutedIs DEF NumbersOf
<1>9. Maps
  BY <1>1, <1>8, RpcSteps DEF Pending, Answered
<1> QED BY <1>5, <1>6, <1>7, <1>9 DEF RpcInv, Refines

\* Steps that pass on, and steps that concern handles only
LEMMA RefinesMoves ==
    ASSUME IInv, RpcInv,
           \/ SelectTx \/ WriteAll \/ SelectEvent \/ Reader \/ ProcessorEnds
           \/ (\E w \in registered : PathChanges(w))
           \/ (\E h \in Handles : CreateWatch(h) \/ WakeWatcher(h) \/ DropWatch(h))
           \/ UNCHANGED vars
    PROVE  Refines
<1>0. /\ txq \in Seq(Message) /\ rxq \in Seq(Message)
      /\ toStore \in Seq(Message) /\ fromStore \in Seq(Message)
      /\ writing \in Message /\ NoMessage.n = 0
  BY DEF IInv, TypeOK, QueuesOK, SocketOK, NoMessage
<1>1. CASE SelectTx
  <2>1. /\ txq # <<>> /\ txq' = Tail(txq) /\ writing' = Head(txq) /\ writing = NoMessage
        /\ UNCHANGED <<issued, callVars, executed, rxq, toStore, fromStore>>
    BY <1>1 DEF SelectTx, Selecting, idVars, socketVars, storeVars
  <2>2. /\ ToSet(txq) = ToSet(txq') \cup {writing'}
        /\ Line(txq') /\ \A m \in ToSet(txq') : m.n # writing'.n
    BY <1>0, <2>1, SeqSteps, LineSteps DEF RpcInv, Lines
  <2>3. Lines'
    BY <2>1, <2>2 DEF RpcInv, Lines, Line
  <2>4. OnTheWay' \subseteq OnTheWay /\ InPipe' \subseteq InPipe
    BY <2>1, <2>2 DEF OnTheWay, InPipe
  <2> QED BY <2>1, <2>3, <2>4, RefinesPassing
<1>2. CASE WriteAll
  <2>1. /\ writing # NoMessage /\ writing' = NoMessage /\ toStore' = Append(toStore, writing)
        /\ UNCHANGED <<issued, callVars, executed, txq, rxq, fromStore>>
    BY <1>2 DEF WriteAll, idVars, storeVars
  <2>2. ToSet(toStore') = ToSet(toStore) \cup {writing}
    BY <1>0, <2>1, SeqSteps
  <2>3. Line(toStore')
    BY <1>0, <2>1, LineSteps DEF RpcInv, Lines
  <2>4. writing.n \in Nat /\ writing.n # 0
    BY <1>0, <2>1, MessageFields DEF RpcInv, Lines
  <2>5. Lines'
    BY <1>0, <2>1, <2>2, <2>3, <2>4 DEF RpcInv, Lines, Line
  <2>6. OnTheWay' = OnTheWay \cup {NoMessage} /\ InPipe' = InPipe \cup {NoMessage}
    BY <2>1, <2>2 DEF OnTheWay, InPipe
  <2> QED BY <1>0, <2>1, <2>5, <2>6, RefinesPassing
<1>3. CASE SelectEvent \/ Reader \/ \E w \in registered : PathChanges(w)
  <2>1. UNCHANGED <<issued, callVars, executed, txq, writing, toStore>>
    BY <1>3 DEF SelectEvent, Reader, PathChanges, idVars, queueVars, socketVars, storeVars
  <2>2. Lines' /\ OnTheWay' = OnTheWay
    BY <2>1 DEF RpcInv, Lines, Line, OnTheWay
  <2>3. \A m \in InPipe' : m \in InPipe \/ m.n = 0
    <3>1. CASE SelectEvent
      <4>1. ToSet(rxq') \subseteq ToSet(rxq) /\ fromStore' = fromStore
        BY <1>0, <3>1, SeqSteps DEF SelectEvent, socketVars
      <4> QED BY <2>1, <4>1 DEF InPipe
    <3>2. CASE Reader
      <4>1. /\ fromStore # <<>> /\ Head(fromStore) \in Message
            /\ ToSet(fromStore) = ToSet(fromStore') \cup {Head(fromStore)}
        BY <1>0, <3>2, SeqSteps DEF Reader
      <4>2. ToSet(rxq') = ToSet(rxq) \cup {Head(fromStore)}
        BY <1>0, <3>2, <4>1, SeqSteps DEF Reader
      <4> QED BY <2>1, <4>1, <4>2 DEF InPipe
    <3>3. ASSUME NEW w \in registered, PathChanges(w)
          PROVE  \A m \in InPipe' : m \in InPipe \/ m.n = 0
      <4>1. Event(w) \in Message /\ Event(w).n = 0
        BY Capacities DEF IInv, TypeOK, StoreOK, Event, Message, PathFirst
      <4>2. ToSet(fromStore') = ToSet(fromStore) \cup {Event(w)} /\ rxq' = rxq
        BY <1>0, <3>3, <4>1, SeqSteps DEF PathChanges, queueVars
      <4> QED BY <2>1, <4>1, <4>2 DEF InPipe
    <3> QED BY <1>3, <3>1, <3>2, <3>3
  <2> QED BY <2>1, <2>2, <2>3, RefinesPassing
<1>4. CASE ProcessorEnds
  <2>1. /\ txq' = <<>> /\ rxq' = <<>> /\ writing' = NoMessage
        /\ UNCHANGED <<issued, callVars, executed, toStore, fromStore>>
    BY <1>4 DEF ProcessorEnds, idVars, socketVars, storeVars
  <2>2. ToSet(<<>>) = {} /\ Line(<<>>)
    BY DEF ToSet, Line
  <2>3. OnTheWay' \subseteq OnTheWay \cup {NoMessage} /\ InPipe' \subseteq InPipe \cup {NoMessage}
    BY <2>1, <2>2 DEF OnTheWay, InPipe
  <2>4. Lines'
    <3>1. \A m \in ToSet(toStore) : m.n > 0 /\ m.n # 0
      BY <1>0, SeqSteps, MessageFields DEF RpcInv, Lines
    <3> QED BY <1>0, <2>1, <2>2, <3>1 DEF RpcInv, Lines, Line
  <2> QED BY <1>0, <2>1, <2>3, <2>4, RefinesPassing
<1>5. CASE \/ (\E h \in Handles : CreateWatch(h) \/ WakeWatcher(h) \/ DropWatch(h))
           \/ UNCHANGED vars
  <2>1. UNCHANGED <<issued, callVars, executed, txq, rxq, writing, toStore, fromStore>>
    BY <1>5 DEF CreateWatch, WakeWatcher, DropWatch, vars, idVars, queueVars,
                socketVars, storeVars
  <2>2. Lines' /\ OnTheWay' = OnTheWay /\ InPipe' = InPipe
    BY <2>1 DEF RpcInv, Lines, Line, OnTheWay, InPipe
  <2> QED BY <2>1, <2>2, RefinesPassing
<1> QED BY <1>1, <1>2, <1>3, <1>4, <1>5

\* A reply fills the slot of the call it answers, whose request was executed.
LEMMA RefinesReply ==
    ASSUME IInv, RpcInv, SelectReply
    PROVE  Refines
<1> DEFINE m == Head(rxq)
<1>1. /\ m.typ = "reply" /\ rxq # <<>> /\ rxq \in Seq(Message) /\ rxq' = Tail(rxq)
      /\ UNCHANGED <<issued, pc, call, refused, txq, writing, toStore, fromStore,
                     executed>>
      /\ slot \in [Callers -> Nat \cup {Closed}]
  BY DEF SelectReply, IInv, TypeOK, QueuesOK, CallsOK, idVars, socketVars, storeVars
<1>2. slot' = [c \in Callers |->
                 IF Listening(c) /\ m.req \in DOMAIN replies /\ replies[m.req] = call[c].n
                 THEN m.n ELSE slot[c]]
  BY DEF SelectReply
<1>3. m \in Message /\ m \in InPipe /\ InPipe' \subseteq InPipe
  <2>1. m \in Message /\ ToSet(rxq) = ToSet(rxq') \cup {m}
    BY <1>1, SeqSteps
  <2> QED BY <1>1, <2>1 DEF InPipe
<1>4. m.n \in Nat /\ m.n > 0 /\ m \in Outstanding
  <2>1. m.n \in Nat /\ m.n # 0
    BY <1>1, <1>3, NumbersInUse
  <2> QED BY <1>3, <2>1 DEF Outstanding, UnderWay
<1> HIDE DEF m
<1>5. \A c \in Callers :
         Listening(c) /\ m.req \in DOMAIN replies /\ replies[m.req] = call[c].n
           => call[c].n = m.n /\ m.n \in executed
  <2>1. SUFFICES ASSUME NEW c \in Callers, Listening(c), m.req \in DOMAIN replies,
                        replies[m.req] = call[c].n
                 PROVE  call[c].n = m.n /\ m.n \in executed
    OBVIOUS
  <2>2. pc[c] # "idle" /\ call[c] \in Outstanding
    BY <2>1, LiveCallFields DEF Listening
  <2>3. call[c].req = m.req
    BY <2>1, <2>2 DEF IInv, RouteInv, Entries
  <2>4. call[c].n = m.n
    BY <1>4, <2>2, <2>3, WindowGivesOneRequest DEF IInv
  <2> QED BY <1>1, <1>3, <2>2, <2>4 DEF RpcInv, Answers, IsCallers
<1>6. RpcInv'
  <2>1. Messages' /\ Lines' /\ NumbersIssued'
    BY <1>1 DEF RpcInv, Messages, Lines, Line, NumbersIssued
  <2>2. NotSentYet'
    BY <1>1 DEF RpcInv, NotSentYet, Entering, OnTheWay
  <2>3. Answers'
    BY <1>1, <1>3 DEF RpcInv, Answers
  <2>4. SlotsExecuted'
    BY <1>1, <1>2, <1>5 DEF RpcInv, SlotsExecuted
  <2> QED BY <2>1, <2>2, <2>3, <2>4 DEF RpcInv
<1>7. UNCHANGED <<Pending, Unexecuted, executed, refused>>
  <2>1. Pending' = Pending
    BY <1>1 DEF Pending
  <2>2. Entered' = Entered /\ OnTheWay' = OnTheWay
    BY <1>1 DEF Entered, Entering, OnTheWay
  <2> QED BY <1>1, <2>1, <2>2, UnexecutedIs
<1>8. Maps
  <2>1. CASE \E c \in Callers :
                Listening(c) /\ m.req \in DOMAIN replies /\ replies[m.req] = call[c].n
    <3>1. PICK c \in Callers :
                 Listening(c) /\ m.req \in DOMAIN replies /\ replies[m.req] = call[c].n
      BY <2>1
    <3>2. call[c].n = m.n /\ m.n \in executed
      BY <1>5, <3>1
    <3>3. slot'[c] = m.n /\ \A d \in Callers : d # c => slot'[d] = slot[d]
      BY <1>2, <3>1 DEF IInv, RouteInv, CallsDiffer, Listening
    <3>4. Answered' = Answered \cup {c}
      BY <1>4, <3>3 DEF Answered, NoReply, Closed
    <3>5. Pending[c] \in executed
      BY <3>2 DEF Pending
    <3> QED BY <1>7, <3>4, <3>5, RpcSteps
  <2>2. CASE ~\E c \in Callers :
                Listening(c) /\ m.req \in DOMAIN replies /\ replies[m.req] = call[c].n
    <3>1. \A c \in Callers : slot'[c] = slot[c]
      BY <1>2, <2>2
    <3>2. Answered' = Answered
      BY <3>1 DEF Answered
    <3> QED BY <1>7, <3>2 DEF Maps
  <2> QED BY <2>1, <2>2
<1> QED BY <1>6, <1>8 DEF Refines

\* The processor's own request takes a new number and is no caller's.
LEMMA RefinesUnwatch ==
    ASSUME IInv, RpcInv, SelectUnwatch
    PROVE  Refines
<1> DEFINE u == Head(unwatchq)
           new == NextMessage("unwatch", <<u.id, u.path>>)
<1>1. /\ new.n = issued + 1 /\ new.typ = "unwatch" /\ issued' = issued + 1
      /\ writing = NoMessage /\ writing' = new
      /\ UNCHANGED <<callVars, txq, rxq, toStore, fromStore, executed>>
  BY DEF NextMessage, SelectUnwatch, Selecting, TakeId, socketVars, storeVars
<1> HIDE DEF new
<1>2. /\ issued \in Nat /\ \A m \in InPipe : m.n \in Nat /\ m.n <= issued
      /\ \A c \in Callers : pc[c] # "idle" => call[c].n \in Nat /\ call[c].n <= issued
      /\ \A n \in executed \cup refused : n \in Nat /\ n <= issued
  BY NumbersInUse DEF RpcInv, NumbersIssued, IInv, TypeOK, CallsOK, StoreOK
<1>3. OnTheWay' \subseteq OnTheWay \cup {new} /\ InPipe' \subseteq InPipe \cup {new}
  BY <1>1 DEF OnTheWay, InPipe
<1>4. UNCHANGED <<pc, call, slot, refused>>
  BY <1>1 DEF callVars
<1>5. \A c \in Callers : pc[c] # "idle" => call[c].n # new.n
  BY <1>1, <1>2
<1>6. RpcInv'
  <2>1. Messages' /\ SlotsExecuted'
    BY <1>1, <1>4 DEF RpcInv, Messages, SlotsExecuted
  <2>2. NumbersIssued'
    BY <1>1, <1>2, <1>4 DEF NumbersIssued
  <2>3. Lines'
    <3>1. \A m \in ToSet(txq) \cup ToSet(toStore) : m.n # new.n
      BY <1>1, <1>2 DEF InPipe
    <3>2. new.n # 0
      BY <1>1, <1>2
    <3> QED BY <1>1, <3>1, <3>2 DEF RpcInv, Lines, Line
  <2>4. NotSentYet'
    BY <1>1, <1>3, <1>4, <1>5 DEF RpcInv, NotSentYet, Entering
  <2>5. Answers'
    BY <1>1, <1>3, <1>4, <1>5 DEF RpcInv, Answers
  <2> QED BY <2>1, <2>2, <2>3, <2>4, <2>5 DEF RpcInv
<1>7. Unexecuted' \subseteq Unexecuted
  <2>1. Entered' = Entered
    BY <1>4 DEF Entered, Entering
  <2>2. CallersOf(OnTheWay') \subseteq CallersOf(OnTheWay)
    BY <1>1, <1>3 DEF CallersOf, IsCallers
  <2> QED BY <2>1, <2>2, UnexecutedIs DEF NumbersOf
<1>8. Maps
  BY <1>1, <1>4, <1>7, RpcSteps DEF Pending, Answered
<1> QED BY <1>6, <1>8 DEF Refines

\* What the store puts into the socket: a reply and, for a watch, its event.
LEMMA StoreAdds ==
    ASSUME TypeOK, ServeRequest \/ ServeWatch
    PROVE  LET m == Head(toStore)
           IN  /\ m \in Message
               /\ ServeRequest =>
                     ToSet(fromStore') = ToSet(fromStore) \cup {Reply(m)}
               /\ ServeWatch =>
                     ToSet(fromStore') = ToSet(fromStore) \cup {Reply(m), Event(m.args)}
<1> DEFINE m == Head(toStore)
<1>1. fromStore \in Seq(Message) /\ m \in Message /\ Reply(m) \in Message
  BY SeqSteps, MessageFields
     DEF TypeOK, SocketOK, ServeRequest, ServeWatch, Reply, Message, Plain
<1>2. ServeRequest => ToSet(fromStore') = ToSet(fromStore) \cup {Reply(m)}
  BY <1>1, SeqSteps DEF ServeRequest
<1>3. ServeWatch =>
         ToSet(fromStore') = ToSet(fromStore) \cup {Reply(m), Event(m.args)}
  <2>1. SUFFICES ASSUME ServeWatch
                 PROVE  ToSet(fromStore')
                          = ToSet(fromStore) \cup {Reply(m), Event(m.args)}
    OBVIOUS
  <2> DEFINE r == Reply(m)
             e == Event(m.args)
             s1 == Append(fromStore, r)
  <2>2. r \in Message /\ e \in Message /\ fromStore' = fromStore \o <<r, e>>
    BY <1>1, <2>1, MessageFields, Capacities
       DEF ServeWatch, Event, Message, PathFirst
  <2> HIDE DEF r, e
  <2>3. fromStore' = Append(s1, e)
    BY <1>1, <2>2
  <2>4. s1 \in Seq(Message) /\ ToSet(s1) = ToSet(fromStore) \cup {r}
    BY <1>1, <2>2, SeqSteps
  <2> HIDE DEF s1
  <2>5. ToSet(fromStore') = ToSet(s1) \cup {e}
    <3>1. e \in Message
      BY <2>2
    <3> QED BY <2>3, <2>4, <3>1, SeqSteps
  <2> QED BY <2>4, <2>5 DEF r, e
<1> QED BY <1>1, <1>2, <1>3

\* The store executes the oldest message: nothing else carries its number.
LEMMA RefinesStore ==
    ASSUME IInv, RpcInv, ServeRequest \/ ServeWatch
    PROVE  Refines
<1> DEFINE m == Head(toStore)
<1>1. /\ toStore # <<>> /\ toStore' = Tail(toStore)
      /\ m.typ \in {"op", "watch", "unwatch"}
      /\ IF IsCallers(m) THEN executed' = executed \cup {m.n} ELSE UNCHANGED executed
      /\ UNCHANGED <<issued, callVars, txq, rxq, writing>>
  BY DEF ServeRequest, ServeWatch, IsCallers, idVars, queueVars
<1>2. toStore \in Seq(Message) /\ fromStore \in Seq(Message)
  BY DEF IInv, TypeOK, SocketOK
<1>3. /\ m \in Message /\ ToSet(toStore) = ToSet(toStore') \cup {m}
      /\ Line(toStore') /\ \A k \in ToSet(toStore') : k.n # m.n
  BY <1>1, <1>2, SeqSteps, LineSteps DEF RpcInv, Lines
<1>4. Reply(m).n = m.n /\ Event(m.args).n = 0
  BY DEF Reply, Event
<1>5. \A k \in ToSet(fromStore') : k \in ToSet(fromStore) \/ k.n \in {0, m.n}
  BY <1>4, StoreAdds DEF IInv
<1>6. m \in OnTheWay /\ m \in InPipe /\ OnTheWay = OnTheWay' \cup {m}
  BY <1>1, <1>3 DEF OnTheWay, InPipe
<1>7. m.n \in Nat /\ m.n > 0 /\ m.n <= issued
  <2>1. m.n \in Nat /\ m.n <= issued /\ m.n # 0
    BY <1>1, <1>6, NumbersInUse
  <2> QED BY <2>1
<1> HIDE DEF m
<1>8. \A k \in OnTheWay' : k.n # m.n
  <2>1. /\ \A k \in ToSet(txq) : k.n # m.n
        /\ m.n # writing.n
    BY <1>3 DEF RpcInv, Lines
  <2> QED BY <1>1, <1>3, <2>1 DEF OnTheWay
<1>9. \A k \in InPipe' : k \in InPipe \/ k.n \in {0, m.n}
  BY <1>1, <1>3, <1>5 DEF InPipe
<1>10. UNCHANGED <<pc, call, slot, refused, Entering, Entered, Pending, Answered>>
  BY <1>1 DEF callVars, Entering, Entered, Pending, Answered
<1>11. \A c \in Entering : call[c].n # m.n
  BY <1>6 DEF RpcInv, NotSentYet
<1>12. executed \subseteq executed' /\ executed' \subseteq executed \cup {m.n}
  BY <1>1
<1>13. RpcInv'
  <2>1. Messages' /\ SlotsExecuted'
    BY <1>10, <1>12 DEF RpcInv, Messages, SlotsExecuted
  <2>2. NumbersIssued'
    BY <1>1, <1>7, <1>10, <1>12 DEF RpcInv, NumbersIssued
  <2>3. Lines'
    BY <1>1, <1>3 DEF RpcInv, Lines, Line
  <2>4. NotSentYet'
    BY <1>6, <1>10, <1>11, <1>12 DEF RpcInv, NotSentYet
  <2>5. Answers'
    <3>1. SUFFICES ASSUME NEW k \in InPipe', NEW c \in Callers, pc[c] # "idle",
                          k.n = call[c].n
                   PROVE  IsCallers(k) \/ k.n \in executed'
      BY <1>10 DEF Answers
    <3>2. CASE k \in InPipe
      BY <1>12, <3>1, <3>2 DEF RpcInv, Answers
    <3>3. CASE k.n = m.n
      BY <1>1, <1>6, <1>12, <3>1, <3>3 DEF RpcInv, Answers
    <3>4. call[c].n # 0
      BY <3>1, NumbersInUse
    <3> QED BY <1>9, <3>1, <3>2, <3>3, <3>4
  <2> QED BY <2>1, <2>2, <2>3, <2>4, <2>5 DEF RpcInv
<1>14. CASE IsCallers(m)
  <2>1. CallersOf(OnTheWay) = CallersOf(OnTheWay') \cup {m}
    BY <1>6, <1>14 DEF CallersOf
  <2>2. \A k \in Entered \cup CallersOf(OnTheWay') : k.n # m.n
    BY <1>8, <1>11 DEF Entered, CallersOf
  <2>3. Entered \cup CallersOf(OnTheWay) = Entered \cup CallersOf(OnTheWay') \cup {m}
    BY <2>1
  <2>4. Unexecuted' = Unexecuted \ {m.n} /\ m.n \in Unexecuted
    <3>1. Unexecuted = NumbersOf(Entered \cup CallersOf(OnTheWay') \cup {m})
      BY <2>3, UnexecutedIs
    <3>2. Unexecuted' = NumbersOf(Entered \cup CallersOf(OnTheWay'))
      BY <1>10, UnexecutedIs
    <3> QED BY <2>2, <3>1, <3>2 DEF NumbersOf
  <2>5. executed' = executed \cup {m.n}
    BY <1>1, <1>14
  <2>6. Maps
    BY <1>10, <2>4, <2>5, RpcSteps
  <2> QED BY <1>13, <2>6 DEF Refines
<1>15. CASE ~IsCallers(m)
  <2>1. CallersOf(OnTheWay) = CallersOf(OnTheWay')
    BY <1>6, <1>15 DEF CallersOf
  <2>2. Unexecuted' = Unexecuted
    BY <1>10, <2>1, UnexecutedIs
  <2>3. executed' = executed
    BY <1>1, <1>15
  <2> QED BY <1>10, <1>13, <2>2, <2>3 DEF Refines, Maps
<1> QED BY <1>14, <1>15

\* Every step of the bus is a step of the remote call, or none.
LEMMA RefinesNext == IInv /\ RpcInv /\ [Next]_vars => IInv' /\ Refines
<1>1. IInv /\ [Next]_vars => IInv'
  BY INext
<1> SUFFICES ASSUME IInv, RpcInv, [Next]_vars, IInv' PROVE Refines
  BY <1>1
<1>2. ASSUME NEW c \in Callers, Request(c) \/ \E h \in Handles : BindWatch(c, h)
      PROVE  Refines
  <2>1. CASE Request(c)
    BY <2>1, RefinesBegin DEF Request
  <2>2. CASE \E h \in Handles : BindWatch(c, h)
    BY <2>2, RefinesBegin DEF BindWatch
  <2> QED BY <1>2, <2>1, <2>2
<1>3. ASSUME NEW c \in Callers, Caller(c) \/ Cancel(c)
      PROVE  Refines
  BY <1>3, RefinesRegister, RefinesEnqueue, RefinesEnd DEF Caller
<1>4. CASE \/ SelectTx \/ WriteAll \/ SelectEvent \/ Reader \/ ProcessorEnds
           \/ (\E w \in registered : PathChanges(w))
           \/ (\E h \in Handles : CreateWatch(h) \/ WakeWatcher(h) \/ DropWatch(h))
           \/ UNCHANGED vars
  BY <1>4, RefinesMoves, Zenon
<1>5. CASE SelectReply
  BY <1>5, RefinesReply
<1>6. CASE SelectUnwatch
  BY <1>6, RefinesUnwatch
<1>7. CASE ServeRequest \/ ServeWatch
  BY <1>7, RefinesStore, Zenon
<1> QED BY <1>2, <1>3, <1>4, <1>5, <1>6, <1>7 DEF Next, Processor

\* The bus starts where the remote call does.
LEMMA RefinesInit == Init => RpcInv /\ Rpc!RpcInit
<1> SUFFICES ASSUME Init PROVE RpcInv /\ Rpc!RpcInit
  OBVIOUS
<1>1. /\ \A c \in Callers : pc[c] = "idle" /\ call[c] = NoMessage /\ slot[c] = NoReply
      /\ txq = <<>> /\ rxq = <<>> /\ toStore = <<>> /\ fromStore = <<>>
      /\ writing = NoMessage /\ executed = {} /\ refused = {}
  BY DEF Init
<1>2. ToSet(<<>>) = {} /\ Line(<<>>)
  BY DEF ToSet, Line
<1>3. Entering = {} /\ InPipe = {NoMessage} /\ OnTheWay = {NoMessage}
  BY <1>1, <1>2 DEF Entering, InPipe, OnTheWay
<1>4. RpcInv
  BY <1>1, <1>2, <1>3
     DEF RpcInv, Messages, Lines, NotSentYet, Answers, SlotsExecuted, NumbersIssued
<1>5. Unexecuted = {}
  <2>1. Entered = {} /\ CallersOf(OnTheWay) = {}
    BY <1>3 DEF Entered, CallersOf, IsCallers, NoMessage
  <2> QED BY <2>1, UnexecutedIs DEF NumbersOf
<1>6. Pending = [c \in Callers |-> 0] /\ Answered = {}
  BY <1>1 DEF Pending, Answered, NoMessage
<1> QED BY <1>1, <1>4, <1>5, <1>6 DEF Rpc!RpcInit, Pending

\* However many callers share the connection, and however often the ids come
\* round: the store executes a request at most once, a call gets an answer only
\* after its request was executed, and a refused request is never executed.
THEOREM RefinesRpc == Spec => ImplementsRpc
<1>1. IInv /\ RpcInv /\ [Next]_vars => [Rpc!RpcNext]_Rpc!rpcVars
  <2> SUFFICES ASSUME IInv, RpcInv, [Next]_vars
               PROVE  Rpc!RpcNext \/ UNCHANGED Rpc!rpcVars
    OBVIOUS
  <2>1. Maps
    BY RefinesNext DEF Refines
  <2> QED BY <2>1 DEF Maps, Rpc!rpcVars, Pending
<1>2. IInv /\ RpcInv /\ [Next]_vars => IInv' /\ RpcInv'
  BY RefinesNext DEF Refines
<1> QED BY IInit, RefinesInit, <1>1, <1>2, PTL DEF Spec, ImplementsRpc, Rpc!RpcSpec
-----------------------------------------------------------------------------
(* Wake-ups.  The store knows a live handle by the id it has, and that id  *)
(* leads the processor to the handle's channel.                            *)

Created == {h \in Handles : handle[h].st # "none"}
Bindings == {<<h, handle[h].id>> : h \in Created}

\* Ids are given out in order, and nobody's entry is replaced.
WatchIds ==
    /\ \A h \in Created : /\ handle[h].id < Cardinality(Created)
                          /\ handle[h].id \in DOMAIN watches
                          /\ watches[handle[h].id] = h
    /\ Created # Handles => next_watch_id = Cardinality(Created)

WatchInv ==
    /\ WatchIds
    /\ \A m \in InPipe \cup LiveCalls : m.typ = "watch" => m.args \in Bindings
    /\ \A m \in LiveCalls : m.typ = "watch" => Alive(m.args[1])
    /\ registered \subseteq Bindings
    /\ unseen \subseteq Created

\* Events leave the pipe when the processor takes them or ends, and what asks
\* for a watch comes from bind_watch.
LEMMA PipeSteps ==
    ASSUME IInv, [Next]_vars
    PROVE  /\ \A m \in InPipe :
                 m.typ = "event" =>
                     m \in InPipe' \/ ~running' \/ (SelectEvent /\ m = Head(rxq))
           /\ \A m \in InPipe' \cup LiveCalls' :
                 m.typ = "watch" =>
                     \/ m \in InPipe \cup LiveCalls
                     \/ \E c \in Callers, h \in Handles :
                           BindWatch(c, h) /\ m.args = <<h, handle[h].id>>
           /\ \A m \in LiveCalls' :
                 m.typ = "watch" =>
                     \/ m \in LiveCalls
                     \/ \E c \in Callers, h \in Handles :
                           BindWatch(c, h) /\ m.args = <<h, handle[h].id>>
<1> DEFINE Kept == \A m \in InPipe :
                      m.typ = "event" =>
                          m \in InPipe' \/ ~running' \/ (SelectEvent /\ m = Head(rxq))
           Asked == \A m \in InPipe' \cup LiveCalls' :
                       m.typ = "watch" =>
                           \/ m \in InPipe \cup LiveCalls
                           \/ \E c \in Callers, h \in Handles :
                                 BindWatch(c, h) /\ m.args = <<h, handle[h].id>>
           Live == \A m \in LiveCalls' :
                      m.typ = "watch" =>
                           \/ m \in LiveCalls
                           \/ \E c \in Callers, h \in Handles :
                                 BindWatch(c, h) /\ m.args = <<h, handle[h].id>>
<1>0. /\ txq \in Seq(Message) /\ rxq \in Seq(Message)
      /\ toStore \in Seq(Message) /\ fromStore \in Seq(Message)
      /\ writing \in Message /\ NoMessage.typ = "none"
      /\ call \in [Callers -> Message]
      /\ pc \in [Callers -> {"idle", "numbered", "registered", "waiting"}]
  BY DEF IInv, TypeOK, QueuesOK, SocketOK, CallsOK, NoMessage
<1>1. ASSUME NEW c \in Callers, Request(c) \/ \E h \in Handles : BindWatch(c, h)
      PROVE  Kept /\ Asked /\ Live
  <2>1. \E typ \in {"op", "watch"} : \E args :
           /\ Begin(c, typ, args)
           /\ typ = "watch" =>
                 \E h \in Handles : BindWatch(c, h) /\ args = <<h, handle[h].id>>
    <3>1. CASE Request(c)
      <4>1. Begin(c, "op", <<>>) /\ "op" # "watch"
        BY <3>1 DEF Request
      <4> QED BY <4>1
    <3>2. ASSUME NEW h \in Handles, BindWatch(c, h)
          PROVE  \E typ \in {"op", "watch"} : \E args :
                    /\ Begin(c, typ, args)
                    /\ typ = "watch" =>
                          \E k \in Handles : BindWatch(c, k) /\ args = <<k, handle[k].id>>
      <4>1. Begin(c, "watch", <<h, handle[h].id>>)
        BY <3>2 DEF BindWatch
      <4> QED BY <3>2, <4>1
    <3> QED BY <1>1, <3>1, <3>2
  <2>2. PICK typ \in {"op", "watch"} : \E args :
               /\ Begin(c, typ, args)
               /\ typ = "watch" =>
                     \E h \in Handles : BindWatch(c, h) /\ args = <<h, handle[h].id>>
    BY <2>1
  <2>3. PICK args :
               /\ Begin(c, typ, args)
               /\ typ = "watch" =>
                     \E h \in Handles : BindWatch(c, h) /\ args = <<h, handle[h].id>>
    BY <2>2
  <2> DEFINE new == NextMessage(typ, args)
  <2>4. /\ call' = [call EXCEPT ![c] = new] /\ pc' = [pc EXCEPT ![c] = "numbered"]
        /\ new.typ = typ /\ new.args = args
        /\ UNCHANGED <<txq, rxq, writing, toStore, fromStore>>
    BY <2>3 DEF Begin, NextMessage, queueVars, socketVars
  <2> HIDE DEF new
  <2>5. InPipe' = InPipe /\ LiveCalls' \subseteq LiveCalls \cup {new}
    BY <1>0, <2>4 DEF InPipe, LiveCalls
  <2> QED BY <2>3, <2>4, <2>5
<1>2. ASSUME NEW c \in Callers, Caller(c) \/ Cancel(c)
      PROVE  Kept /\ Asked /\ Live
  <2>1. LiveCalls' \subseteq LiveCalls
    BY <1>0, <1>2 DEF Caller, Register, Enqueue, Refuse, Return, Cancel, EndCall, LiveCalls
  <2>2. CASE Enqueue(c)
    <3>1. /\ ToSet(txq') = ToSet(txq) \cup {call[c]} /\ call[c] \in LiveCalls
          /\ UNCHANGED <<rxq, writing, toStore, fromStore>>
      BY <1>0, <2>2, SeqSteps DEF Enqueue, LiveCalls, socketVars
    <3>2. InPipe' = InPipe \cup {call[c]}
      BY <3>1 DEF InPipe
    <3> QED BY <2>1, <3>1, <3>2
  <2>3. CASE Register(c) \/ Refuse(c) \/ Return(c) \/ Cancel(c)
    <3>1. InPipe' = InPipe
      BY <2>3 DEF Register, Refuse, Return, Cancel, queueVars, socketVars, InPipe
    <3> QED BY <2>1, <3>1
  <2> QED BY <1>2, <2>2, <2>3 DEF Caller
<1>3. CASE \/ Processor \/ ProcessorEnds \/ Reader \/ ServeRequest \/ ServeWatch
           \/ (\E w \in registered : PathChanges(w))
           \/ (\E h \in Handles : CreateWatch(h) \/ WakeWatcher(h) \/ DropWatch(h))
           \/ UNCHANGED vars
  <2>1. LiveCalls' = LiveCalls
    BY <1>3 DEF Processor, SelectTx, WriteAll, SelectReply, SelectEvent, SelectUnwatch,
                ProcessorEnds, Reader, ServeRequest, ServeWatch, PathChanges,
                CreateWatch, WakeWatcher, DropWatch, vars, callVars, LiveCalls
  <2> SUFFICES /\ \A m \in InPipe :
                     m.typ = "event" =>
                         m \in InPipe' \/ ~running' \/ (SelectEvent /\ m = Head(rxq))
               /\ \A m \in InPipe' : m.typ = "watch" => m \in InPipe
    BY <2>1
  <2>2. CASE SelectTx
    <3>1. /\ ToSet(txq) = ToSet(txq') \cup {writing'} /\ writing = NoMessage
          /\ UNCHANGED <<rxq, toStore, fromStore>>
      BY <1>0, <2>2, SeqSteps DEF SelectTx, Selecting, socketVars
    <3> QED BY <1>0, <3>1 DEF InPipe
  <2>3. CASE WriteAll
    <3>1. /\ ToSet(toStore') = ToSet(toStore) \cup {writing} /\ writing' = NoMessage
          /\ UNCHANGED <<txq, rxq, fromStore>>
      BY <1>0, <2>3, SeqSteps DEF WriteAll
    <3> QED BY <1>0, <3>1 DEF InPipe
  <2>4. CASE SelectReply \/ SelectEvent
    <3>1. /\ ToSet(rxq) = ToSet(rxq') \cup {Head(rxq)}
          /\ SelectEvent \/ Head(rxq).typ = "reply"
          /\ UNCHANGED <<txq, writing, toStore, fromStore>>
      BY <1>0, <2>4, SeqSteps DEF SelectReply, SelectEvent, socketVars
    <3> QED BY <3>1 DEF InPipe
  <2>5. CASE SelectUnwatch
    <3>1. /\ writing = NoMessage /\ writing'.typ = "unwatch"
          /\ UNCHANGED <<txq, rxq, toStore, fromStore>>
      BY <2>5 DEF SelectUnwatch, Selecting, NextMessage, socketVars
    <3> QED BY <1>0, <3>1 DEF InPipe
  <2>6. CASE ProcessorEnds
    <3>1. /\ txq' = <<>> /\ rxq' = <<>> /\ writing' = NoMessage /\ ~running'
          /\ UNCHANGED <<toStore, fromStore>>
      BY <2>6 DEF ProcessorEnds, socketVars
    <3>2. ToSet(<<>>) = {}
      BY DEF ToSet
    <3> QED BY <1>0, <3>1, <3>2 DEF InPipe
  <2>7. CASE Reader
    <3>1. /\ ToSet(fromStore) = ToSet(fromStore') \cup {Head(fromStore)}
          /\ Head(fromStore) \in Message /\ UNCHANGED <<txq, writing, toStore>>
      BY <1>0, <2>7, SeqSteps DEF Reader
    <3>2. ToSet(rxq') = ToSet(rxq) \cup {Head(fromStore)}
      BY <1>0, <2>7, <3>1, SeqSteps DEF Reader
    <3> QED BY <3>1, <3>2 DEF InPipe
  <2>8. CASE ServeRequest \/ ServeWatch
    <3> DEFINE m == Head(toStore)
    <3>1. /\ m \in Message /\ ToSet(toStore) = ToSet(toStore') \cup {m}
          /\ m.typ \in {"op", "watch", "unwatch"} /\ UNCHANGED <<txq, rxq, writing>>
      BY <1>0, <2>8, SeqSteps DEF ServeRequest, ServeWatch, queueVars
    <3>2. Reply(m).typ = "reply" /\ Event(m.args).typ = "event"
      BY DEF Reply, Event
    <3>3. /\ ToSet(fromStore) \subseteq ToSet(fromStore')
          /\ \A k \in ToSet(fromStore') : k \in ToSet(fromStore) \/ k.typ # "watch"
      BY <2>8, <3>2, StoreAdds DEF IInv
    <3> QED BY <3>1, <3>3 DEF InPipe
  <2>9. ASSUME NEW w \in registered, PathChanges(w)
        PROVE  /\ \A m \in InPipe :
                     m.typ = "event" =>
                         m \in InPipe' \/ ~running' \/ (SelectEvent /\ m = Head(rxq))
               /\ \A m \in InPipe' : m.typ = "watch" => m \in InPipe
    <3>1. Event(w) \in Message /\ Event(w).typ = "event"
      BY Capacities DEF IInv, TypeOK, StoreOK, Event, Message, PathFirst
    <3>2. /\ ToSet(fromStore') = ToSet(fromStore) \cup {Event(w)}
          /\ UNCHANGED <<txq, rxq, writing, toStore>>
      BY <1>0, <2>9, <3>1, SeqSteps DEF PathChanges, queueVars
    <3> QED BY <3>1, <3>2 DEF InPipe
  <2>10. CASE \/ (\E h \in Handles : CreateWatch(h) \/ WakeWatcher(h) \/ DropWatch(h))
              \/ UNCHANGED vars
    <3>1. InPipe' = InPipe
      BY <2>10 DEF CreateWatch, WakeWatcher, DropWatch, vars, queueVars, socketVars, InPipe
    <3> QED BY <3>1
  <2> QED BY <1>3, <2>2, <2>3, <2>4, <2>5, <2>6, <2>7, <2>8, <2>9, <2>10 DEF Processor
<1>4. Kept /\ Asked /\ Live
  BY <1>1, <1>2, <1>3, Zenon DEF Next
<1> QED BY <1>4

\* A call that returns may make a handle bound.
LEMMA ReturnBinds ==
    ASSUME NEW c \in Callers, Return(c), NEW h \in Handles,
           handle \in [Handles -> [st : {"none", "created", "bound", "dropped"},
                                 id : RequestIds]]
    PROVE  /\ handle'[h].id = handle[h].id
           /\ \/ handle'[h].st = handle[h].st
              \/ /\ handle'[h].st = "bound" /\ call[c] \in LiveCalls
                 /\ call[c].typ = "watch" /\ call[c].args[1] = h
<1>1. \/ handle'[h] = handle[h]
      \/ /\ handle'[h] = [handle[h] EXCEPT !.st = "bound"]
         /\ call[c].typ = "watch" /\ call[c].args[1] = h
  BY DEF Return
<1>2. call[c] \in LiveCalls
  BY DEF Return, LiveCalls
<1> QED BY <1>1, <1>2

\* Apart from its creation a handle keeps its id, and is alive until it is
\* dropped, which is not while it is being bound.
LEMMA HandleSteps ==
    ASSUME IInv, WatchInv, [Next]_vars, ~\E h \in Handles : CreateWatch(h)
    PROVE  /\ UNCHANGED <<next_watch_id, watches>>
           /\ \A h \in Handles :
                 /\ handle'[h].id = handle[h].id
                 /\ handle'[h].st = "none" <=> handle[h].st = "none"
                 /\ Alive(h)' => Alive(h)
                 /\ Alive(h) => Alive(h)' \/ DropWatch(h)
<1>1. handle \in [Handles -> [st : {"none", "created", "bound", "dropped"},
                             id : RequestIds]]
  BY DEF IInv, TypeOK, WatchesOK
<1>2. UNCHANGED <<next_watch_id, watches>>
  BY DEF Next, vars, watchVars, Request, BindWatch, Begin, Caller, Register,
         Enqueue, Refuse, Return, Cancel, Processor, SelectTx, WriteAll,
         SelectReply, SelectEvent, SelectUnwatch, ProcessorEnds, Reader,
         WakeWatcher, DropWatch, ServeRequest, ServeWatch, PathChanges
<1> DEFINE Kept(h) == /\ handle'[h].id = handle[h].id
                      /\ handle'[h].st = "none" <=> handle[h].st = "none"
                      /\ Alive(h)' => Alive(h)
                      /\ Alive(h) => Alive(h)' \/ DropWatch(h)
<1>3. CASE \E c \in Callers : Return(c)
  <2>1. PICK c \in Callers : Return(c)
    BY <1>3
  <2>2. \A h \in Handles :
           /\ handle'[h].id = handle[h].id
           /\ \/ handle'[h].st = handle[h].st
              \/ handle'[h].st = "bound" /\ handle[h].st \in {"created", "bound"}
    BY <1>1, <2>1, ReturnBinds DEF WatchInv, Alive
  <2> QED BY <1>2, <2>2 DEF Alive
<1>4. ASSUME NEW k \in Handles, DropWatch(k)
      PROVE  \A h \in Handles : Kept(h)
  <2>1. handle' = [handle EXCEPT ![k].st = "dropped"] /\ Alive(k)
    BY <1>4 DEF DropWatch
  <2>2. /\ handle'[k].id = handle[k].id /\ handle'[k].st = "dropped"
        /\ \A h \in Handles : h # k => handle'[h] = handle[h]
    BY <1>1, <2>1
  <2> QED BY <1>4, <2>1, <2>2 DEF Alive
<1>5. CASE ~(\E c \in Callers : Return(c)) /\ ~(\E h \in Handles : DropWatch(h))
  <2>1. handle' = handle
    BY <1>5
       DEF Next, vars, watchVars, Request, BindWatch, Begin, Caller, Register,
           Enqueue, Refuse, Cancel, Processor, SelectTx, WriteAll,
           SelectReply, SelectEvent, SelectUnwatch, ProcessorEnds, Reader,
           WakeWatcher, ServeRequest, ServeWatch, PathChanges
  <2> QED BY <1>2, <2>1 DEF Alive
<1> QED BY <1>2, <1>3, <1>4, <1>5

\* While every handle can have an id of its own, the watch map and the store
\* know each handle by its id.
LEMMA WatchNext ==
    ASSUME IsFiniteSet(Handles), Cardinality(Handles) <= IdSpace,
           IInv, WatchInv, [Next]_vars
    PROVE  WatchInv'
<1>1. /\ handle \in [Handles -> [st : {"none", "created", "bound", "dropped"},
                                id : RequestIds]]
      /\ next_watch_id \in RequestIds /\ registered \subseteq Handles \X RequestIds
  BY DEF IInv, TypeOK, WatchesOK, StoreOK
<1>2. /\ Created \subseteq Handles /\ IsFiniteSet(Created)
      /\ Cardinality(Created) \in Nat /\ Cardinality(Handles) \in Nat
      /\ Created # Handles => Cardinality(Created) < Cardinality(Handles)
  <2>1. Created \subseteq Handles
    BY DEF Created
  <2> QED BY <2>1, FS_Subset, FS_CardinalityType
<1>3. ASSUME NEW h \in Handles, CreateWatch(h)
      PROVE  WatchIds' /\ Bindings \subseteq Bindings' /\ Created \subseteq Created'
  <2>1. /\ h \notin Created /\ Created # Handles
        /\ handle' = [handle EXCEPT ![h] = [st |-> "created", id |-> next_watch_id]]
        /\ watches' = [i \in DOMAIN watches \cup {next_watch_id} |->
                          IF i = next_watch_id THEN h ELSE watches[i]]
        /\ next_watch_id' = (next_watch_id + 1) % IdSpace
    BY <1>3 DEF CreateWatch, Created
  <2>2. next_watch_id = Cardinality(Created)
    BY <2>1 DEF WatchInv, WatchIds
  <2>3. /\ handle'[h] = [st |-> "created", id |-> next_watch_id]
        /\ \A k \in Handles : k # h => handle'[k] = handle[k]
    BY <1>1, <2>1
  <2>4. Created' = Created \cup {h}
    BY <2>1, <2>3 DEF Created
  <2>5. Cardinality(Created') = Cardinality(Created) + 1
    BY <1>2, <2>1, <2>4, FS_AddElement
  <2>6. \A k \in Created : /\ handle'[k].id = handle[k].id /\ handle[k].id \in RequestIds
                           /\ handle[k].id < Cardinality(Created)
                           /\ handle[k].id \in DOMAIN watches
                           /\ watches[handle[k].id] = k
    BY <1>1, <2>1, <2>3 DEF Created, WatchInv, WatchIds
  <2>7. \A k \in Created' : /\ handle'[k].id < Cardinality(Created')
                            /\ handle'[k].id \in DOMAIN watches'
                            /\ watches'[handle'[k].id] = k
    <3>1. /\ handle'[h].id < Cardinality(Created')
          /\ handle'[h].id \in DOMAIN watches' /\ watches'[handle'[h].id] = h
      BY <1>2, <2>1, <2>2, <2>3, <2>5
    <3>2. ASSUME NEW k \in Created
          PROVE  /\ handle'[k].id < Cardinality(Created')
                 /\ handle'[k].id \in DOMAIN watches' /\ watches'[handle'[k].id] = k
      <4>1. handle[k].id # next_watch_id /\ handle[k].id < Cardinality(Created) + 1
        BY <1>2, <2>2, <2>6 DEF RequestIds
      <4> QED BY <2>1, <2>5, <2>6, <4>1
    <3> QED BY <2>4, <3>1, <3>2
  <2>8. Created' # Handles => next_watch_id' = Cardinality(Created')
    <3>1. Created' \subseteq Handles /\ IsFiniteSet(Created')
      BY <1>2, <2>4, FS_AddElement
    <3>2. Created' # Handles => Cardinality(Created') < Cardinality(Handles)
      BY <1>2, <2>5, <3>1, FS_Subset
    <3> QED BY <1>1, <1>2, <2>1, <2>2, <2>5, <3>2, IdWraps, Capacities
  <2>9. Bindings \subseteq Bindings'
    BY <2>4, <2>6 DEF Bindings
  <2> QED BY <2>4, <2>7, <2>8, <2>9 DEF WatchIds
<1>4. ASSUME ~\E h \in Handles : CreateWatch(h)
      PROVE  /\ UNCHANGED <<Created, next_watch_id, watches>>
             /\ \A h \in Created : handle'[h].id = handle[h].id
  <2>1. UNCHANGED <<next_watch_id, watches>>
    BY <1>4, HandleSteps
  <2>2. \A h \in Handles : /\ handle'[h].id = handle[h].id
                           /\ handle'[h].st = "none" <=> handle[h].st = "none"
    BY <1>4, HandleSteps DEF Alive
  <2> QED BY <2>1, <2>2 DEF Created
<1>5. WatchIds' /\ Bindings \subseteq Bindings' /\ Created \subseteq Created'
  <2>1. ASSUME ~\E h \in Handles : CreateWatch(h)
        PROVE  WatchIds' /\ Bindings \subseteq Bindings' /\ Created \subseteq Created'
    BY <1>4, <2>1 DEF WatchInv, WatchIds, Bindings
  <2> QED BY <1>3, <2>1
<1>6. \A m \in InPipe' \cup LiveCalls' : m.typ = "watch" => m.args \in Bindings'
  <2>1. \A c \in Callers, h \in Handles :
           BindWatch(c, h) => <<h, handle[h].id>> \in Bindings
    BY DEF BindWatch, Bindings, Created
  <2> QED BY <1>5, <2>1, PipeSteps DEF WatchInv
<1>7. \A m \in LiveCalls' : m.typ = "watch" => Alive(m.args[1])'
  <2>1. SUFFICES ASSUME NEW m \in LiveCalls', m.typ = "watch"
                 PROVE  Alive(m.args[1])'
    OBVIOUS
  <2>2. m.args \in Bindings /\ Alive(m.args[1])
    <3>1. CASE \E c \in Callers, h \in Handles :
                  BindWatch(c, h) /\ m.args = <<h, handle[h].id>>
      BY <3>1 DEF BindWatch, Alive, Bindings, Created
    <3>2. CASE ~\E c \in Callers, h \in Handles :
                  BindWatch(c, h) /\ m.args = <<h, handle[h].id>>
      BY <2>1, <3>2, PipeSteps DEF WatchInv
    <3> QED BY <3>1, <3>2
  <2>3. PICK h \in Handles : m.args = <<h, handle[h].id>>
    BY <2>2 DEF Bindings, Created
  <2>4. CASE \E k \in Handles : CreateWatch(k)
    <3>1. PICK k \in Handles : CreateWatch(k)
      BY <2>4
    <3>2. /\ h # k
          /\ handle' = [handle EXCEPT ![k] = [st |-> "created", id |-> next_watch_id]]
      BY <2>2, <2>3, <3>1 DEF CreateWatch, Alive
    <3>3. handle'[h] = handle[h]
      BY <1>1, <3>2
    <3> QED BY <2>2, <2>3, <3>3 DEF Alive
  <2>5. CASE ~\E k \in Handles : CreateWatch(k)
    <3>1. ~DropWatch(h)
      <4>1. SUFFICES ASSUME DropWatch(h) PROVE FALSE
        OBVIOUS
      <4>2. /\ \A c \in Callers : call[c].args # <<h, handle[h].id>>
            /\ UNCHANGED <<pc, call>>
        BY <4>1 DEF DropWatch, callVars
      <4> QED BY <2>3, <4>2 DEF LiveCalls
    <3> QED BY <2>2, <2>3, <2>5, <3>1, HandleSteps
  <2> QED BY <2>4, <2>5
<1>8. registered' \subseteq Bindings' /\ unseen' \subseteq Created'
  <2>1. CASE ServeWatch
    <3> DEFINE m == Head(toStore)
    <3>1. m \in InPipe /\ m.typ = "watch"
      BY <2>1, SeqSteps DEF ServeWatch, InPipe, IInv, TypeOK, SocketOK
    <3>2. m.args \in Bindings /\ m.args[1] \in Created
      BY <3>1 DEF WatchInv, Bindings
    <3> QED BY <1>5, <2>1, <3>2 DEF ServeWatch, WatchInv
  <2>2. ASSUME NEW w \in registered, PathChanges(w)
        PROVE  registered' \subseteq Bindings' /\ unseen' \subseteq Created'
    <3>1. w[1] \in Created
      BY DEF WatchInv, Bindings
    <3> QED BY <1>5, <2>2, <3>1 DEF PathChanges, WatchInv
  <2>3. CASE ~ServeWatch /\ ~\E w \in registered : PathChanges(w)
    <3>1. registered' \subseteq registered /\ unseen' \subseteq unseen
      BY <2>3 DEF Next, vars, storeVars, Request, BindWatch, Begin, Caller, Register,
                  Enqueue, Refuse, Return, Cancel, Processor, SelectTx, WriteAll,
                  SelectReply, SelectEvent, SelectUnwatch, ProcessorEnds, Reader,
                  CreateWatch, WakeWatcher, DropWatch, ServeRequest
    <3> QED BY <1>5, <3>1 DEF WatchInv
  <2> QED BY <2>1, <2>2, <2>3
<1> QED BY <1>5, <1>6, <1>7, <1>8 DEF WatchInv

\* An event that is taken leaves its queue.
LEMMA EventLeaves ==
    ASSUME TypeOK, UNCHANGED rxq
    PROVE  ~SelectEvent
<1>1. SUFFICES ASSUME SelectEvent PROVE FALSE
  OBVIOUS
<1>2. /\ rxq \in Seq(Message) /\ rxq # <<>> /\ rxq' = Tail(rxq)
      /\ Len(rxq) \in Nat
  BY <1>1, LenProperties DEF SelectEvent, TypeOK, QueuesOK
<1>3. Len(Tail(rxq)) = Len(rxq) - 1
  BY <1>2, SeqSteps
<1> QED BY <1>2, <1>3

\* No step loses the last wake-up of a live handle: an event that finds the
\* channel full leaves events in it.
LEMMA WakeNext ==
    ASSUME IInv, IInv', WatchInv, NoLostWakeup, [Next]_vars
    PROVE  NoLostWakeup'
<1> SUFFICES ASSUME running', NEW h \in unseen', Alive(h)'
             PROVE  \/ chan'[h] > 0
                    \/ \E m \in InPipe' :
                          m.typ = "event" /\ m.args = <<h, handle'[h].id>>
  BY DEF NoLostWakeup
<1>1. /\ h \in Handles /\ chan \in [Handles -> 0 .. WatchCap]
      /\ chan' \in [Handles -> 0 .. WatchCap]
      /\ WatchCap \in Nat /\ WatchCap > 0
  BY Capacities DEF IInv, TypeOK, WatchesOK, StoreOK
<1>2. running
  BY DEF Next, vars, queueVars, Request, BindWatch, Begin, Caller, Register, Enqueue,
         Refuse, Return, Cancel, Processor, SelectTx, WriteAll, SelectReply,
         SelectEvent, SelectUnwatch, ProcessorEnds, Reader, CreateWatch,
         WakeWatcher, DropWatch, ServeRequest, ServeWatch, PathChanges
\* The event of a change goes into the pipe with it.
<1>3. CASE ServeWatch
  <2> DEFINE m == Head(toStore)
  <2>1. m \in InPipe /\ m.typ = "watch"
    BY <1>3, SeqSteps DEF ServeWatch, InPipe, IInv, TypeOK, SocketOK
  <2>2. /\ unseen' = unseen \cup {m.args[1]} /\ UNCHANGED <<chan, handle>>
        /\ Event(m.args) \in InPipe' /\ Event(m.args).typ = "event"
        /\ Event(m.args).args = m.args
    BY <1>3, StoreAdds DEF ServeWatch, watchVars, InPipe, Event, IInv
  <2>3. m.args \in Bindings
    BY <2>1 DEF WatchInv
  <2>4. CASE h = m.args[1]
    <3>1. m.args = <<h, handle[h].id>>
      BY <2>3, <2>4 DEF Bindings
    <3> QED BY <2>2, <3>1
  <2>5. ~SelectEvent
    BY <1>3, EventLeaves DEF ServeWatch, queueVars, IInv
  <2>6. CASE h \in unseen
    BY <1>2, <1>3, <2>2, <2>5, <2>6, PipeSteps DEF NoLostWakeup, Alive
  <2> QED BY <2>2, <2>4, <2>6
<1>4. ASSUME NEW w \in registered, PathChanges(w)
      PROVE  \/ chan'[h] > 0
             \/ \E m \in InPipe' :
                   m.typ = "event" /\ m.args = <<h, handle'[h].id>>
  <2>1. /\ unseen' = unseen \cup {w[1]} /\ UNCHANGED <<chan, handle>>
        /\ fromStore' = Append(fromStore, Event(w))
    BY <1>4 DEF PathChanges, watchVars
  <2>2. Event(w) \in Message /\ Event(w).typ = "event" /\ Event(w).args = w
    BY Capacities DEF IInv, TypeOK, StoreOK, Event, Message, PathFirst
  <2>3. Event(w) \in InPipe'
    <3>1. fromStore \in Seq(Message)
      BY DEF IInv, TypeOK, SocketOK
    <3>2. Event(w) \in ToSet(fromStore')
      BY <2>1, <2>2, <3>1, SeqSteps
    <3> QED BY <3>2 DEF InPipe
  <2>4. CASE h = w[1]
    <3>1. w = <<h, handle[h].id>>
      BY <2>4 DEF WatchInv, Bindings
    <3> QED BY <2>1, <2>2, <2>3, <3>1
  <2>5. ~SelectEvent
    BY <1>4, EventLeaves DEF PathChanges, queueVars, IInv
  <2>6. CASE h \in unseen
    BY <1>2, <1>4, <2>1, <2>5, <2>6, PipeSteps DEF NoLostWakeup, Alive
  <2> QED BY <2>1, <2>4, <2>6
\* An event reaches the channel of the handle, or the channel is full.
<1>5. CASE SelectEvent
  <2> DEFINE m == Head(rxq)
  <2>1. /\ UNCHANGED <<handle, unseen>>
        /\ chan' = [k \in Handles |->
                      IF /\ m.args[2] \in DOMAIN watches /\ watches[m.args[2]] = k
                         /\ handle[k].st # "dropped" /\ chan[k] < WatchCap
                      THEN chan[k] + 1 ELSE chan[k]]
    BY <1>5 DEF SelectEvent, storeVars
  <2>2. chan[h] > 0 => chan'[h] > 0
    BY <1>1, <2>1
  <2>3. Alive(h) /\ h \in Created
    BY <1>1, <2>1 DEF Alive, Created
  <2>4. m.args = <<h, handle[h].id>> => chan'[h] > 0
    <3>1. handle[h].id \in DOMAIN watches /\ watches[handle[h].id] = h
      BY <2>3 DEF WatchInv, WatchIds
    <3>2. handle[h].st # "dropped"
      BY <2>3 DEF Alive
    <3> QED BY <1>1, <2>1, <3>1, <3>2
  <2>5. \/ chan[h] > 0
        \/ \E k \in InPipe : k.typ = "event" /\ k.args = <<h, handle[h].id>>
    BY <1>2, <2>1, <2>3 DEF NoLostWakeup
  <2> QED BY <2>1, <2>2, <2>4, <2>5, PipeSteps
<1>6. CASE \E k \in Handles : CreateWatch(k)
  <2>1. PICK k \in Handles : CreateWatch(k)
    BY <1>6
  <2>2. /\ UNCHANGED <<unseen, chan>> /\ h \in Created /\ h # k
        /\ handle' = [handle EXCEPT ![k] = [st |-> "created", id |-> next_watch_id]]
    BY <2>1 DEF CreateWatch, storeVars, WatchInv, Created
  <2>3. handle'[h] = handle[h]
    BY <2>2 DEF IInv, TypeOK, WatchesOK
  <2>4. Alive(h)
    BY <2>3 DEF Alive
  <2>5. ~SelectEvent
    BY <2>1, EventLeaves DEF CreateWatch, queueVars, IInv
  <2> QED BY <1>2, <2>2, <2>3, <2>4, <2>5, PipeSteps DEF NoLostWakeup
<1>7. CASE /\ ~ServeWatch /\ ~SelectEvent /\ ~\E k \in Handles : CreateWatch(k)
           /\ ~\E w \in registered : PathChanges(w)
  <2>1. handle'[h].id = handle[h].id /\ Alive(h)
    BY <1>1, <1>7, HandleSteps
  <2>2. h \in unseen /\ (chan[h] > 0 => chan'[h] > 0)
    <3>1. CASE \E k \in Handles : WakeWatcher(k)
      <4>1. PICK k \in Handles : WakeWatcher(k)
        BY <3>1
      <4>2. h \in unseen /\ h # k /\ chan'[h] = chan[h]
        BY <1>1, <4>1 DEF WakeWatcher
      <4> QED BY <4>2
    <3>2. CASE \E k \in Handles : DropWatch(k)
      <4>1. PICK k \in Handles : DropWatch(k)
        BY <3>2
      <4>2. h # k
        BY <1>1, <4>1 DEF DropWatch, Alive, IInv, TypeOK, WatchesOK
      <4>3. h \in unseen /\ chan'[h] = chan[h]
        BY <1>1, <4>1, <4>2 DEF DropWatch, storeVars
      <4> QED BY <4>3
    <3>3. CASE ~(\E k \in Handles : WakeWatcher(k)) /\ ~(\E k \in Handles : DropWatch(k))
      <4>1. UNCHANGED <<unseen, chan>>
        BY <1>7, <3>3
           DEF Next, vars, storeVars, watchVars, Request, BindWatch, Begin, Caller,
               Register, Enqueue, Refuse, Return, Cancel, Processor, SelectTx,
               WriteAll, SelectReply, SelectUnwatch, ProcessorEnds, Reader,
               ServeRequest
      <4> QED BY <4>1
    <3> QED BY <3>1, <3>2, <3>3
  <2> QED BY <1>2, <1>7, <2>1, <2>2, PipeSteps DEF NoLostWakeup
<1> QED BY <1>3, <1>4, <1>5, <1>6, <1>7

\* As long as there are ids for all handles, whatever the channels lose: a live
\* watch never has a change unseen with neither an event waiting nor under way.
THEOREM WakeupsCorrect ==
    ASSUME IsFiniteSet(Handles), Cardinality(Handles) <= IdSpace
    PROVE  Spec => []NoLostWakeup
<1>1. Init => IInv /\ WatchInv /\ NoLostWakeup
  <2> SUFFICES ASSUME Init PROVE WatchInv /\ NoLostWakeup
    BY IInit
  <2>1. Created = {} /\ unseen = {} /\ registered = {} /\ next_watch_id = 0
    BY DEF Init, Created
  <2>2. \A m \in InPipe \cup LiveCalls : m.typ # "watch"
    <3>1. ToSet(<<>>) = {}
      BY DEF ToSet
    <3> QED BY <3>1 DEF Init, InPipe, LiveCalls, NoMessage
  <2>3. Cardinality(Created) = 0
    BY <2>1, FS_EmptySet
  <2> QED BY <2>1, <2>2, <2>3 DEF WatchInv, WatchIds, NoLostWakeup
<1>2. IInv /\ WatchInv /\ NoLostWakeup /\ [Next]_vars
        => IInv' /\ WatchInv' /\ NoLostWakeup'
  <2>1. IInv /\ [Next]_vars => IInv'
    BY INext
  <2> QED BY <2>1, WatchNext, WakeNext
<1> QED BY <1>1, <1>2, PTL DEF Spec
=============================================================================
