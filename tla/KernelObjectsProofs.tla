-------------------------- MODULE KernelObjectsProofs --------------------------
(***************************************************************************)
(* Proofs about EventChannels, GrantTable, LoopDevices and LastHandle, as     *)
(* MCKernelObjects runs them, for all values of its constants.               *)
(***************************************************************************)
EXTENDS MCKernelObjects, FiniteSetTheorems, SequenceTheorems, TLAPS

\* The instances count as this module does.
LEMMA CountsAgree ==
  \A S : Chan!Cardinality(S) = Cardinality(S) /\ Drops!Cardinality(S) = Cardinality(S)
  BY DEF Chan!Cardinality, Drops!Cardinality, Cardinality
LEMMA LeftoversAgree ==
  \A S : Grant!Cardinality(S) = Cardinality(S) /\ Loop!Cardinality(S) = Cardinality(S)
  BY DEF Grant!Cardinality, Loop!Cardinality, Cardinality

\* A set has at most one element more with another one.
LEMMA OneMore ==
  ASSUME NEW S, NEW x, IsFiniteSet(S)
  PROVE  /\ IsFiniteSet(S \cup {x}) /\ Cardinality(S \cup {x}) \in Nat
         /\ Cardinality(S \cup {x}) <= Cardinality(S) + 1
<1>1. Cardinality(S) \in Nat /\ IsFiniteSet(S \cup {x})
  BY FS_AddElement, FS_CardinalityType
<1>2. Cardinality(S \cup {x}) \in {Cardinality(S), Cardinality(S) + 1}
  BY FS_AddElement
<1> QED BY <1>1, <1>2

\* What failed calls have left, one thing each, still has a failure for each when
\* there is one more thing and one more failure.
LEMMA OneMoreFailed ==
  ASSUME NEW S, NEW T, NEW n \in Nat, NEW m, IsFiniteSet(S), Cardinality(S) <= n,
         \/ T = S /\ m \in {n, n + 1}
         \/ (\E x : T = S \cup {x}) /\ m = n + 1
  PROVE  IsFiniteSet(T) /\ Cardinality(T) <= m
<1>1. Cardinality(S) \in Nat
  BY FS_CardinalityType
<1>2. CASE T = S /\ m \in {n, n + 1}
  BY <1>1, <1>2
<1>3. ASSUME NEW x, T = S \cup {x}, m = n + 1
      PROVE  IsFiniteSet(T) /\ Cardinality(T) <= m
  <2>1. /\ IsFiniteSet(S \cup {x}) /\ Cardinality(S \cup {x}) \in Nat
        /\ Cardinality(S \cup {x}) <= Cardinality(S) + 1
    BY OneMore
  <2>2. IsFiniteSet(T) /\ Cardinality(T) \in Nat /\ Cardinality(T) <= Cardinality(S) + 1
    BY <1>3, <2>1
  <2> QED BY <1>1, <1>3, <2>2
<1> QED BY <1>2, <1>3

------------------------------------------------------------------------------
(* EventChannels.                                                           *)

\* Who is inside a call holds the lock from the ioctl on, until it is dropped.
Locked ==
  \A t \in Tasks :
    pc[t] \in {"bindJob", "unmaskJob", "unbindJob", "remove"} => lock = t

\* What a task has of its port at each place
HasPort(t) == Chan!HoldsPort(t) \/ pc[t] = "remove"

Holding ==
  /\ \A t \in Tasks : HasPort(t) => port[t] \in Ports
  /\ \A t \in Tasks : Chan!HoldsPort(t) => port[t] \in bound
  /\ \A t \in Tasks, u \in Tasks :
        Chan!HoldsPort(t) /\ HasPort(u) /\ port[t] = port[u] => t = u

\* An unbind whose future was dropped has its port to itself until it runs.
Unbinding ==
  \A o \in orphans : o.op = "unbind" =>
    /\ o.port \in bound
    /\ \A t \in Tasks : HasPort(t) => port[t] # o.port
    /\ \A q \in orphans : q.op = "unbind" /\ q.port = o.port => q = o

\* Two ports never have one Notify, and that of a channel is its port's.
NotifiesDiffer ==
  /\ \A p, q \in Ports : wakes[p] # None /\ wakes[p] = wakes[q] => p = q
  /\ \A t \in Tasks : Chan!HasChannel(t) => recv[t] \in Notifies /\ wakes[port[t]] = recv[t]

\* What the thread has at each place
ThreadHolds ==
  /\ thread.at # "read" => thread.port \in Ports
  /\ thread.at = "notify" => thread.notify \in Notifies

ChanInv == Chan!TypeOK /\ Locked /\ Holding /\ Unbinding /\ NotifiesDiffer /\ ThreadHolds

\* The map keeps the entries it has; a new one is a Notify nobody refers to.
LEMMA EntrySteps ==
  ASSUME Chan!TypeOK, NotifiesDiffer, NEW p \in Ports, NEW n, Chan!Entry(p, n),
         None \notin Notifies
  PROVE  /\ wakes' \in [Ports -> Notifies \cup {None}] /\ permits' \subseteq Notifies
         /\ n \in Notifies /\ wakes'[p] = n
         /\ \A q \in Ports : q # p \/ wakes[p] # None => wakes'[q] = wakes[q]
         /\ \A q \in Ports : q # p => wakes[q] # n
         /\ \A q \in Ports : wakes[q] # None /\ wakes[q] \in permits
                => wakes[q] \in permits'
<1>1. wakes \in [Ports -> Notifies \cup {None}] /\ permits \subseteq Notifies
  BY DEF Chan!TypeOK
<1>2. CASE wakes[p] # None /\ n = wakes[p] /\ UNCHANGED <<wakes, permits>>
  BY <1>1, <1>2 DEF NotifiesDiffer
<1>3. CASE /\ wakes[p] = None /\ Chan!IsNew(n)
           /\ wakes' = [wakes EXCEPT ![p] = n] /\ permits' = permits \ {n}
  <2>1. n \in Notifies /\ \A q \in Ports : wakes[q] # n
    BY <1>3 DEF Chan!IsNew, Chan!InUse
  <2> QED BY <1>1, <1>3, <2>1
<1> QED BY <1>2, <1>3 DEF Chan!Entry

LEMMA ChanInitOK == ASSUME Chan!Init PROVE ChanInv
<1> USE ConstantsAssumption DEF Chan!Init, HasPort, Chan!HoldsPort, Chan!HasChannel,
                                Chan!Reading
<1>1. Chan!TypeOK
  BY DEF Chan!TypeOK, Chan!Places
<1>2. Locked /\ Holding /\ Unbinding /\ NotifiesDiffer /\ ThreadHolds
  BY DEF Locked, Holding, Unbinding, NotifiesDiffer, ThreadHolds, Chan!Places
<1> QED BY <1>1, <1>2 DEF ChanInv

\* A task moves on inside a call, or a call begins or ends.
LEMMA TaskOK ==
  ASSUME ChanInv, NEW t \in Tasks,
         Chan!StartBind(t) \/ Chan!StartUnbind(t) \/ Chan!Locking(t) \/ Chan!Proceeding(t)
  PROVE  ChanInv'
<1> USE ConstantsAssumption DEF ChanInv, Chan!TypeOK, Locked, Holding, Unbinding,
                                NotifiesDiffer, ThreadHolds, HasPort, Chan!HoldsPort,
                                Chan!HasChannel, Chan!Places, Chan!Goto, Chan!Acquire,
                                Chan!Release
<1>1. CASE Chan!StartBind(t)
  BY <1>1 DEF Chan!StartBind, Chan!kernel
<1>2. CASE Chan!StartUnbind(t)
  BY <1>2 DEF Chan!StartUnbind, Chan!kernel
<1>3. CASE Chan!LockForBind(t)
  BY <1>3 DEF Chan!LockForBind, Chan!kernel
<1>4. CASE Chan!LockForUnmask(t)
  BY <1>4 DEF Chan!LockForUnmask, Chan!kernel
<1>5. CASE Chan!LockForUnbind(t)
  BY <1>5 DEF Chan!LockForUnbind, Chan!kernel
<1>6. CASE Chan!BindRuns(t)
  BY <1>6 DEF Chan!BindRuns, Chan!KernelBind, Chan!kernel
<1>7. CASE Chan!Subscribe(t)
  BY <1>7, EntrySteps DEF Chan!Subscribe, Chan!kernel
<1>8. CASE Chan!Wake(t)
  BY <1>8 DEF Chan!Wake, Chan!kernel
<1>9. CASE Chan!UnmaskRuns(t)
  BY <1>9 DEF Chan!UnmaskRuns, Chan!KernelUnmask
<1>10. CASE Chan!UnbindRuns(t)
  BY <1>10 DEF Chan!UnbindRuns, Chan!KernelUnbind
<1>11. CASE Chan!UnbindFails(t)
  BY <1>11 DEF Chan!UnbindFails, Chan!Error, Chan!kernel
<1>12. CASE Chan!Remove(t)
  BY <1>12 DEF Chan!Remove, Chan!kernel
<1> QED BY <1>1, <1>2, <1>3, <1>4, <1>5, <1>6, <1>7, <1>8, <1>9, <1>10, <1>11, <1>12
        DEF Chan!Locking, Chan!Proceeding

\* A future is dropped, or an ioctl of a dropped one runs.
LEMMA CancelOK ==
  ASSUME ChanInv,
         (\E t \in Tasks : Chan!Cancel(t)) \/ Chan!OrphansRun
  PROVE  ChanInv'
<1> USE ConstantsAssumption DEF ChanInv, Chan!TypeOK, Locked, Holding, Unbinding,
                                NotifiesDiffer, ThreadHolds, HasPort, Chan!HoldsPort,
                                Chan!HasChannel, Chan!Places, Chan!Goto
<1>1. ASSUME NEW t \in Tasks, Chan!Cancel(t)
      PROVE  ChanInv'
  <2> USE <1>1 DEF Chan!Cancel, Chan!Cancelable, Chan!kernel
  <2>0. Chan!Outstanding(t) \subseteq
          [id : 1..MaxCancels, op : {"bind", "unmask", "unbind"}, port : Ports \cup {None}]
    BY DEF Chan!Outstanding
  <2>1. Chan!TypeOK'
    BY <2>0
  <2> USE DEF Chan!Outstanding
  <2>2. Locked' /\ Holding' /\ NotifiesDiffer' /\ ThreadHolds'
    OBVIOUS
  <2>3. Unbinding'
    OBVIOUS
  <2> QED BY <2>1, <2>2, <2>3
<1>2. ASSUME NEW o \in orphans, Chan!OrphanRuns(o)
      PROVE  ChanInv'
  BY <1>2 DEF Chan!OrphanRuns, Chan!KernelBind, Chan!KernelUnmask, Chan!KernelUnbind,
              Chan!Error, Chan!kernel, Chan!user
<1> QED BY <1>1, <1>2 DEF Chan!OrphansRun

\* A port fires, or the thread moves on.
LEMMA ProcessorOK ==
  ASSUME ChanInv, (\E p \in Ports : Chan!Fire(p)) \/ Chan!Processor
  PROVE  ChanInv'
<1> USE ConstantsAssumption DEF ChanInv, Chan!TypeOK, Locked, Holding, Unbinding,
                                NotifiesDiffer, ThreadHolds, HasPort, Chan!HoldsPort,
                                Chan!HasChannel, Chan!Places
<1>1. ASSUME NEW p \in Ports, Chan!Fire(p)
      PROVE  ChanInv'
  BY <1>1 DEF Chan!Fire, Chan!user
<1>2. CASE Chan!ReadPort
  BY <1>2 DEF Chan!ReadPort, Chan!user
<1>3. CASE Chan!Lookup
  <2>1. PICK n \in Notifies :
          /\ Chan!Entry(thread.port, n)
          /\ thread' = [thread EXCEPT !.at = "notify", !.notify = n]
    BY <1>3 DEF Chan!Lookup
  <2>2. thread.port \in Ports /\ None \notin Notifies
    BY <1>3 DEF Chan!Lookup
  <2>3. /\ wakes' \in [Ports -> Notifies \cup {None}] /\ permits' \subseteq Notifies
        /\ wakes'[thread.port] = n
        /\ \A q \in Ports : q # thread.port \/ wakes[thread.port] # None
                              => wakes'[q] = wakes[q]
        /\ \A q \in Ports : q # thread.port => wakes[q] # n
    <3> HIDE DEF Chan!TypeOK, NotifiesDiffer, ThreadHolds
    <3> QED BY <2>1, <2>2, EntrySteps
  <2>4. UNCHANGED <<bound, masked, ring, lock, pc, port, recv, dropped, orphans, cancels,
                    errors>>
    BY <1>3 DEF Chan!Lookup, Chan!kernel, Chan!user
  <2>5. /\ thread'.at = "notify" /\ thread'.port = thread.port /\ thread'.notify = n
        /\ thread' \in [at : {"read", "lookup", "notify"},
                        port : Ports \cup {None}, notify : Notifies \cup {None}]
    BY <2>1
  <2>6. Chan!TypeOK'
    BY <2>3, <2>4, <2>5
  <2>7. NotifiesDiffer'
    BY <2>2, <2>3, <2>4
  <2>8. Locked' /\ Holding' /\ Unbinding' /\ ThreadHolds'
    BY <2>2, <2>4, <2>5
  <2> QED BY <2>6, <2>7, <2>8
<1>4. CASE Chan!NotifyOne
  BY <1>4 DEF Chan!NotifyOne, Chan!Reading, Chan!kernel, Chan!user
<1> QED BY <1>1, <1>2, <1>3, <1>4 DEF Chan!Processor

\* An open channel owns its port, and it is the one the thread would wake for it.
LEMMA ChannelsFollow == ChanInv => Chan!ChannelsAreRegistered
<1> SUFFICES ASSUME ChanInv, NEW t \in Tasks, Chan!HasChannel(t)
             PROVE  /\ wakes[port[t]] = recv[t] /\ port[t] \in bound
                    /\ \A u \in Tasks \ {t} : Chan!HoldsPort(u) => port[u] # port[t]
  BY DEF Chan!ChannelsAreRegistered
<1>1. Chan!HoldsPort(t)
  BY DEF Chan!HasChannel, Chan!HoldsPort, Chan!Places
<1> QED BY <1>1 DEF ChanInv, Holding, NotifiesDiffer, HasPort

\* Whose event must be on its way.
Silenced(t) == pc[t] \in {"subscribe", "open"} /\ port[t] \in masked
Unmasking(p) == \E o \in orphans : o.op = "unmask" /\ o.port = p

LEMMA TaskKeepsEvents ==
  ASSUME ChanInv, Chan!EventsAreNotLost, NEW t \in Tasks,
         Chan!StartBind(t) \/ Chan!StartUnbind(t) \/ Chan!Locking(t) \/ Chan!Proceeding(t),
         NEW u \in Tasks, Silenced(u)'
  PROVE  Chan!OnItsWay(port[u])' \/ Unmasking(port[u])'
<1>1. /\ pc \in [Tasks -> Chan!Places] /\ port \in [Tasks -> Ports \cup {None}]
      /\ masked \subseteq bound /\ bound \subseteq Ports
      /\ wakes \in [Ports -> Notifies \cup {None}]
  BY DEF ChanInv, Chan!TypeOK
<1>2. Silenced(u) => port[u] \in Ports /\ (Chan!OnItsWay(port[u]) \/ Unmasking(port[u]))
  BY <1>1 DEF Silenced, Chan!EventsAreNotLost, Unmasking
<1>3. CASE \/ Chan!StartBind(t) \/ Chan!StartUnbind(t) \/ Chan!Locking(t)
           \/ Chan!UnmaskRuns(t) \/ Chan!UnbindRuns(t)
  <2>1. UNCHANGED <<ring, thread, wakes, permits, port, orphans>>
    BY <1>3 DEF Chan!StartBind, Chan!StartUnbind, Chan!Locking, Chan!LockForBind,
                Chan!LockForUnmask, Chan!LockForUnbind, Chan!UnmaskRuns, Chan!UnbindRuns,
                Chan!KernelUnmask, Chan!KernelUnbind, Chan!kernel
  <2>2. Silenced(u)
    BY <1>1, <1>3, <2>1 DEF Silenced, Chan!StartBind, Chan!StartUnbind, Chan!Locking,
                            Chan!LockForBind, Chan!LockForUnmask, Chan!LockForUnbind,
                            Chan!UnmaskRuns, Chan!UnbindRuns, Chan!KernelUnmask,
                            Chan!KernelUnbind, Chan!kernel, Chan!Goto
  <2> QED BY <1>2, <2>1, <2>2 DEF Chan!OnItsWay, Unmasking
<1>4. CASE Chan!BindRuns(t)
  <2>1. UNCHANGED <<ring, thread, wakes, permits, masked, orphans>>
    BY <1>4 DEF Chan!BindRuns, Chan!KernelBind, Chan!kernel
  <2>2. Silenced(u) /\ port'[u] = port[u]
    BY <1>1, <1>4, <2>1 DEF Silenced, Chan!BindRuns, Chan!KernelBind, Chan!kernel, Chan!Goto
  <2> QED BY <1>2, <2>1, <2>2 DEF Chan!OnItsWay, Unmasking
<1>5. CASE Chan!Subscribe(t)
  <2>1. UNCHANGED <<ring, thread, masked, port, orphans>> /\ pc[t] = "subscribe"
    BY <1>5 DEF Chan!Subscribe, Chan!kernel
  <2>2. Silenced(u)
    BY <1>1, <1>5, <2>1 DEF Silenced, Chan!Subscribe, Chan!Goto
  <2>3. port[t] \in Ports
    BY <2>1 DEF ChanInv, Holding, HasPort, Chan!HoldsPort, Chan!Places
  <2>4. PICK n \in Notifies : Chan!Entry(port[t], n)
    BY <1>5 DEF Chan!Subscribe
  <2>5. Chan!OnItsWay(port[u]) => Chan!OnItsWay(port[u])'
    <3>1. ASSUME Chan!OnItsWay(port[u]) PROVE Chan!OnItsWay(port[u])'
      <4> DEFINE q == port[u]
      <4>1. q \in Ports /\ q' = q
        BY <1>2, <2>1, <2>2
      <4>2. Chan!OnItsWay(q)
        BY <3>1
      <4> HIDE DEF q
      <4>3. UNCHANGED <<ring, thread>>
        BY <2>1
      <4>4. /\ \A r \in Ports : r # port[t] \/ wakes[port[t]] # None => wakes'[r] = wakes[r]
            /\ \A r \in Ports : wakes[r] # None /\ wakes[r] \in permits
                  => wakes[r] \in permits'
        BY ConstantsAssumption, <2>3, <2>4, EntrySteps DEF ChanInv
      <4>5. wakes[q] = None => \/ \E i \in 1..Len(ring) : ring[i] = q
                               \/ thread.at = "lookup" /\ thread.port = q
        BY ConstantsAssumption, <4>2 DEF Chan!OnItsWay, ChanInv, ThreadHolds
      <4>6. Chan!OnItsWay(q)'
        BY <4>1, <4>2, <4>3, <4>4, <4>5 DEF Chan!OnItsWay
      <4> QED BY <4>6 DEF q
    <3> QED BY <3>1
  <2> QED BY <1>2, <2>1, <2>2, <2>5 DEF Unmasking
<1>6. CASE Chan!Wake(t)
  <2>1. UNCHANGED <<ring, thread, wakes, masked, port, orphans>>
    BY <1>6 DEF Chan!Wake, Chan!kernel
  <2>2. Silenced(u) /\ u # t
    BY <1>1, <1>6, <2>1 DEF Silenced, Chan!Wake, Chan!Goto
  <2>3. Chan!HoldsPort(t) /\ Chan!HoldsPort(u) /\ Chan!HasChannel(t)
    BY <1>6, <2>2 DEF Chan!Wake, Silenced, Chan!HoldsPort, Chan!HasChannel, Chan!Places
  <2>4. port[t] # port[u] /\ port[t] \in Ports /\ wakes[port[t]] = recv[t]
    BY <2>2, <2>3 DEF ChanInv, Holding, NotifiesDiffer, HasPort
  <2>5. wakes[port[u]] # None => wakes[port[u]] # recv[t]
    BY <1>2, <2>2, <2>4 DEF ChanInv, NotifiesDiffer
  <2>6. permits' = permits \ {recv[t]}
    BY <1>6 DEF Chan!Wake
  <2> QED BY <1>2, <2>1, <2>2, <2>5, <2>6 DEF Chan!OnItsWay, Unmasking
<1>7. CASE Chan!UnbindFails(t)
  <2>1. UNCHANGED <<ring, thread, wakes, permits, masked, orphans>>
    BY <1>7 DEF Chan!UnbindFails, Chan!kernel
  <2>2. Silenced(u) /\ port'[u] = port[u]
    BY <1>1, <1>7, <2>1 DEF Silenced, Chan!UnbindFails, Chan!Goto
  <2> QED BY <1>2, <2>1, <2>2 DEF Chan!OnItsWay, Unmasking
<1>8. CASE Chan!Remove(t)
  <2>1. UNCHANGED <<ring, thread, permits, masked, orphans>> /\ pc[t] = "remove"
    BY <1>8 DEF Chan!Remove, Chan!kernel
  <2>2. Silenced(u) /\ u # t /\ port'[u] = port[u]
    BY <1>1, <1>8, <2>1 DEF Silenced, Chan!Remove, Chan!Goto
  <2>3. port[t] # port[u]
    BY <2>1, <2>2 DEF ChanInv, Holding, HasPort, Chan!HoldsPort, Silenced, Chan!Places
  <2>4. wakes'[port[u]] = wakes[port[u]]
    BY <1>1, <1>2, <1>8, <2>2, <2>3 DEF Chan!Remove
  <2> QED BY <1>2, <2>1, <2>2, <2>4 DEF Chan!OnItsWay, Unmasking
<1> QED BY <1>3, <1>4, <1>5, <1>6, <1>7, <1>8 DEF Chan!Proceeding

LEMMA CancelKeepsEvents ==
  ASSUME ChanInv, Chan!EventsAreNotLost,
         (\E t \in Tasks : Chan!Cancel(t)) \/ Chan!OrphansRun,
         NEW u \in Tasks, Silenced(u)'
  PROVE  Chan!OnItsWay(port[u])' \/ Unmasking(port[u])'
<1>1. pc \in [Tasks -> Chan!Places] /\ port \in [Tasks -> Ports \cup {None}]
  BY DEF ChanInv, Chan!TypeOK
<1>2. Silenced(u) => Chan!OnItsWay(port[u]) \/ Unmasking(port[u])
  BY DEF Silenced, Chan!EventsAreNotLost, Unmasking
<1>3. ASSUME NEW t \in Tasks, Chan!Cancel(t)
      PROVE  Chan!OnItsWay(port[u])' \/ Unmasking(port[u])'
  <2>1. UNCHANGED <<ring, thread, wakes, permits, masked>> /\ orphans \subseteq orphans'
    BY <1>3 DEF Chan!Cancel, Chan!kernel
  <2>2. CASE u = t /\ pc[t] = "unmaskJob"
    <3> DEFINE o == [id |-> cancels + 1, op |-> "unmask", port |-> port[t]]
    <3>1. Chan!Outstanding(t) = {o}
      BY <2>2 DEF Chan!Outstanding
    <3>2. o \in orphans' /\ o.op = "unmask" /\ o.port = port[t]
      BY <1>3, <3>1 DEF Chan!Cancel
    <3>3. port' = port
      BY <1>3, <2>2 DEF Chan!Cancel
    <3> QED BY <2>2, <3>2, <3>3 DEF Unmasking
  <2>3. CASE u # t \/ pc[t] # "unmaskJob"
    <3>1. Silenced(u) /\ port'[u] = port[u]
      BY <1>1, <1>3, <2>1, <2>3 DEF Chan!Cancel, Chan!Goto, Silenced
    <3> QED BY <1>2, <2>1, <3>1 DEF Chan!OnItsWay, Unmasking
  <2> QED BY <2>2, <2>3
<1>4. ASSUME NEW o \in orphans, Chan!OrphanRuns(o)
      PROVE  Chan!OnItsWay(port[u])' \/ Unmasking(port[u])'
  <2>1. /\ UNCHANGED <<ring, thread, wakes, permits, pc, port>>
        /\ masked' \subseteq masked /\ orphans' = orphans \ {o}
    BY <1>4 DEF Chan!OrphanRuns, Chan!KernelBind, Chan!KernelUnmask, Chan!KernelUnbind,
                Chan!kernel, Chan!user, Chan!Error
  <2>2. Silenced(u) /\ port[u] \in masked'
    BY <2>1 DEF Silenced
  <2>3. ~(o.op = "unmask" /\ o.port = port[u])
    BY <1>4, <2>2 DEF Chan!OrphanRuns, Chan!KernelUnmask
  <2> QED BY <1>2, <2>1, <2>2, <2>3 DEF Chan!OnItsWay, Unmasking
<1> QED BY <1>3, <1>4 DEF Chan!OrphansRun

LEMMA ProcessorKeepsEvents ==
  ASSUME ChanInv, Chan!EventsAreNotLost,
         (\E p \in Ports : Chan!Fire(p)) \/ Chan!Processor,
         NEW u \in Tasks, Silenced(u)'
  PROVE  Chan!OnItsWay(port[u])' \/ Unmasking(port[u])'
<1>1. /\ ring \in Seq(Ports) /\ masked \subseteq Ports
      /\ wakes \in [Ports -> Notifies \cup {None}] /\ permits \subseteq Notifies
      /\ thread \in [at : {"read", "lookup", "notify"},
                     port : Ports \cup {None}, notify : Notifies \cup {None}]
  BY DEF ChanInv, Chan!TypeOK
<1>2. /\ Silenced(u) => Chan!OnItsWay(port[u]) \/ Unmasking(port[u])
      /\ Silenced(u) => port[u] \in Ports
  BY <1>1 DEF Silenced, Chan!EventsAreNotLost, Unmasking
<1>3. UNCHANGED <<pc, port, orphans>>
  BY DEF Chan!Fire, Chan!Processor, Chan!ReadPort, Chan!Lookup, Chan!NotifyOne, Chan!user
<1>4. ASSUME NEW p \in Ports, Chan!Fire(p)
      PROVE  Chan!OnItsWay(port[u])' \/ Unmasking(port[u])'
  <2>1. /\ UNCHANGED <<thread, wakes, permits>>
        /\ masked' = masked \cup {p} /\ ring' = Append(ring, p)
    BY <1>4 DEF Chan!Fire
  <2>2. CASE port[u] = p
    <3>1. Len(ring) + 1 \in 1..Len(ring') /\ ring'[Len(ring) + 1] = p
      BY <1>1, <2>1
    <3> QED BY <1>3, <2>2, <3>1 DEF Chan!OnItsWay
  <2>3. CASE port[u] # p
    <3>1. Silenced(u)
      BY <1>3, <2>1, <2>3 DEF Silenced
    <3>2. \A i \in 1..Len(ring) : i \in 1..Len(ring') /\ ring'[i] = ring[i]
      BY <1>1, <2>1
    <3> QED BY <1>2, <1>3, <2>1, <3>1, <3>2 DEF Chan!OnItsWay, Unmasking
  <2> QED BY <2>2, <2>3
<1>5. CASE Chan!ReadPort
  <2>1. /\ UNCHANGED <<wakes, permits, masked>> /\ thread.at = "read" /\ ring # <<>>
        /\ thread'.at = "lookup" /\ thread'.port = Head(ring) /\ ring' = Tail(ring)
    BY <1>5 DEF Chan!ReadPort
  <2>2. Silenced(u)
    BY <1>3, <2>1 DEF Silenced
  <2>3. \A i \in 1..Len(ring) :
           ring[i] = Head(ring) \/ \E j \in 1..Len(ring') : ring'[j] = ring[i]
    <3> SUFFICES ASSUME NEW i \in 1..Len(ring), i # 1
                 PROVE  \E j \in 1..Len(ring') : ring'[j] = ring[i]
      BY <1>1
    <3>1. i - 1 \in 1..Len(ring') /\ ring'[i - 1] = ring[i]
      BY <1>1, <2>1
    <3> QED BY <3>1
  <2> QED BY <1>2, <1>3, <2>1, <2>2, <2>3 DEF Chan!OnItsWay, Unmasking
<1>6. CASE Chan!Lookup
  <2>1. PICK n \in Notifies :
          /\ Chan!Entry(thread.port, n)
          /\ thread' = [thread EXCEPT !.at = "notify", !.notify = n]
    BY <1>6 DEF Chan!Lookup
  <2>2. thread.at = "lookup" /\ thread.port \in Ports /\ UNCHANGED <<masked, ring>>
    BY <1>6 DEF Chan!Lookup, Chan!kernel, ChanInv, ThreadHolds
  <2>3. /\ wakes'[thread.port] = n
        /\ \A q \in Ports : q # thread.port => wakes'[q] = wakes[q]
        /\ \A q \in Ports : wakes[q] # None /\ wakes[q] \in permits
              => wakes[q] \in permits'
    BY ConstantsAssumption, <2>1, <2>2, EntrySteps DEF ChanInv
  <2>4. Silenced(u)
    BY <1>3, <2>2 DEF Silenced
  <2>5. thread'.at = "notify" /\ thread'.port = thread.port /\ thread'.notify = n
    BY <1>1, <2>1
  <2>6. CASE port[u] = thread.port
    BY <1>3, <2>3, <2>5, <2>6 DEF Chan!OnItsWay
  <2>7. CASE port[u] # thread.port
    BY <1>2, <1>3, <2>2, <2>3, <2>4, <2>7 DEF Chan!OnItsWay, Unmasking
  <2> QED BY <2>6, <2>7
<1>7. CASE Chan!NotifyOne
  <2>1. /\ UNCHANGED <<wakes, masked, ring>> /\ thread.at = "notify"
        /\ permits' = permits \cup {thread.notify} /\ thread.notify \in Notifies
    BY <1>7 DEF Chan!NotifyOne, Chan!kernel, ChanInv, ThreadHolds
  <2>2. Silenced(u)
    BY <1>3, <2>1 DEF Silenced
  <2> QED BY ConstantsAssumption, <1>2, <1>3, <2>1, <2>2 DEF Chan!OnItsWay, Unmasking
<1> QED BY <1>4, <1>5, <1>6, <1>7 DEF Chan!Processor

\* Ports that tasks have, bound ports that none has, and dropped futures that may
\* still bind one, or have kept nothing but their ioctl.
Held == {port[t] : t \in {u \in Tasks : Chan!HoldsPort(u)}}
Spare == bound \ Held
Given == {o \in orphans : o.op # "unbind"}

\* Every port to spare, and every ioctl but an unbind, has a dropped future or an
\* unbind that failed of its own.
Counted ==
  /\ IsFiniteSet(bound) /\ IsFiniteSet(orphans)
  /\ \A o \in orphans : o.id <= cancels
  /\ Cardinality(Spare) + Cardinality(Given) <= cancels + errors

LEMMA CountedAtFirst == ASSUME Chan!Init PROVE Counted
<1>1. /\ Spare = {} /\ Given = {} /\ orphans = {} /\ bound = {}
      /\ cancels = 0 /\ errors = 0
  BY DEF Spare, Given, Chan!Init
<1> QED BY <1>1, FS_EmptySet DEF Counted

\* The sets that are counted are finite.
LEMMA CountedSizes ==
  ASSUME Counted
  PROVE  /\ IsFiniteSet(Spare) /\ IsFiniteSet(Given)
         /\ Cardinality(Spare) \in Nat /\ Cardinality(Given) \in Nat
  BY FS_Subset, FS_CardinalityType DEF Counted, Spare, Given

\* No port comes to be spare and no ioctl is left.
LEMMA CountedLess ==
  ASSUME Counted, ChanInv, IsFiniteSet(bound'), orphans' \subseteq orphans,
         Spare' \subseteq Spare, cancels' = cancels, errors' \in {errors, errors + 1}
  PROVE  Counted'
<1>1. Given' \subseteq Given
  BY DEF Given
<1>2. IsFiniteSet(orphans')
  BY FS_Subset DEF Counted
<1>3. /\ Cardinality(Spare') <= Cardinality(Spare) /\ Cardinality(Spare') \in Nat
      /\ Cardinality(Given') <= Cardinality(Given) /\ Cardinality(Given') \in Nat
  BY <1>1, CountedSizes, FS_Subset, FS_CardinalityType
<1>4. cancels \in Nat /\ errors \in Nat
  BY ConstantsAssumption DEF ChanInv, Chan!TypeOK
<1>5. Cardinality(Spare') + Cardinality(Given') <= cancels' + errors'
  BY <1>3, <1>4, CountedSizes DEF Counted
<1> QED BY <1>2, <1>5 DEF Counted

\* A call goes on.
LEMMA CountedTask ==
  ASSUME Counted, ChanInv, NEW t \in Tasks,
         Chan!StartBind(t) \/ Chan!StartUnbind(t) \/ Chan!Locking(t) \/ Chan!Proceeding(t)
  PROVE  Counted'
<1> USE DEF Chan!Goto, Chan!kernel
<1>1. orphans' = orphans /\ cancels' = cancels /\ errors' \in {errors, errors + 1}
  BY DEF Chan!StartBind, Chan!StartUnbind, Chan!Locking, Chan!Proceeding,
         Chan!LockForBind, Chan!LockForUnmask, Chan!LockForUnbind, Chan!BindRuns,
         Chan!Subscribe, Chan!Wake, Chan!UnmaskRuns, Chan!UnbindRuns, Chan!UnbindFails,
         Chan!Error, Chan!Remove
<1>2. /\ pc \in [Tasks -> Chan!Places] /\ port \in [Tasks -> Ports \cup {None}]
      /\ IsFiniteSet(bound)
  BY DEF ChanInv, Chan!TypeOK, Counted
<1>3. CASE \/ Chan!StartBind(t) \/ Chan!StartUnbind(t) \/ Chan!Locking(t)
           \/ Chan!Subscribe(t) \/ Chan!Wake(t) \/ Chan!UnmaskRuns(t) \/ Chan!Remove(t)
  <2>1. bound' = bound
    BY <1>3 DEF Chan!StartBind, Chan!StartUnbind, Chan!Locking, Chan!LockForBind,
                Chan!LockForUnmask, Chan!LockForUnbind, Chan!Subscribe, Chan!Wake,
                Chan!UnmaskRuns, Chan!Remove, Chan!KernelUnmask
  <2>2. \A u \in Tasks : Chan!HoldsPort(u) => Chan!HoldsPort(u)' /\ port'[u] = port[u]
    BY <1>2, <1>3 DEF Chan!StartBind, Chan!StartUnbind, Chan!Locking, Chan!LockForBind,
                      Chan!LockForUnmask, Chan!LockForUnbind, Chan!Subscribe, Chan!Wake,
                      Chan!UnmaskRuns, Chan!Remove, Chan!HoldsPort, Chan!Places
  <2>3. Spare' \subseteq Spare
    BY <2>1, <2>2 DEF Spare, Held
  <2> QED BY <1>1, <1>2, <2>1, <2>3, CountedLess
<1>4. CASE Chan!BindRuns(t)
  <2>1. \A u \in Tasks : Chan!HoldsPort(u) => Chan!HoldsPort(u)' /\ port'[u] = port[u]
    BY <1>2, <1>4 DEF Chan!BindRuns, Chan!HoldsPort, Chan!Places
  <2>2. \/ bound' = bound
        \/ \E p \in Ports : bound' = bound \cup {p} /\ Chan!HoldsPort(t)' /\ port'[t] = p
    BY <1>2, <1>4 DEF Chan!BindRuns, Chan!KernelBind, Chan!HoldsPort, Chan!Places
  <2>3. IsFiniteSet(bound')
    BY <1>2, <2>2, FS_AddElement
  <2>4. Spare' \subseteq Spare
    BY <2>1, <2>2 DEF Spare, Held
  <2> QED BY <1>1, <2>3, <2>4, CountedLess
<1>5. CASE Chan!UnbindRuns(t)
  <2>1. bound' = bound \ {port[t]}
    BY <1>5 DEF Chan!UnbindRuns, Chan!KernelUnbind
  <2>2. \A u \in Tasks \ {t} :
           Chan!HoldsPort(u) => Chan!HoldsPort(u)' /\ port'[u] = port[u]
    BY <1>2, <1>5 DEF Chan!UnbindRuns, Chan!HoldsPort
  <2>3. IsFiniteSet(bound')
    BY <1>2, <2>1, FS_RemoveElement
  <2>4. Spare' \subseteq Spare
    BY <2>1, <2>2 DEF Spare, Held
  <2> QED BY <1>1, <2>3, <2>4, CountedLess
<1>6. CASE Chan!UnbindFails(t)
  <2>1. bound' = bound /\ errors' = errors + 1
    BY <1>6 DEF Chan!UnbindFails, Chan!Error
  <2>2. \A u \in Tasks \ {t} :
           Chan!HoldsPort(u) => Chan!HoldsPort(u)' /\ port'[u] = port[u]
    BY <1>2, <1>6 DEF Chan!UnbindFails, Chan!HoldsPort
  <2>3. Spare' \subseteq Spare \cup {port[t]} /\ Given' = Given
    BY <1>1, <2>1, <2>2 DEF Spare, Held, Given
  <2>4. /\ IsFiniteSet(Spare \cup {port[t]})
        /\ Cardinality(Spare \cup {port[t]}) <= Cardinality(Spare) + 1
    BY CountedSizes, OneMore
  <2>5. Cardinality(Spare') <= Cardinality(Spare) + 1 /\ Cardinality(Spare') \in Nat
    BY <2>3, <2>4, CountedSizes, FS_Subset, FS_CardinalityType
  <2>6. cancels \in Nat /\ errors \in Nat
    BY ConstantsAssumption DEF ChanInv, Chan!TypeOK
  <2>7. Cardinality(Spare') + Cardinality(Given') <= cancels' + errors'
    BY <1>1, <2>1, <2>3, <2>5, <2>6, CountedSizes DEF Counted
  <2> QED BY <1>1, <2>1, <2>7 DEF Counted
<1> QED BY <1>3, <1>4, <1>5, <1>6 DEF Chan!Proceeding

\* A future is dropped: it leaves a port to spare, or an ioctl to run, or both if
\* that is an unbind.
LEMMA CountedCancel ==
  ASSUME Counted, ChanInv, NEW t \in Tasks, Chan!Cancel(t)
  PROVE  Counted'
<1>1. /\ bound' = bound /\ cancels' = cancels + 1 /\ cancels \in Nat
      /\ errors' = errors /\ errors \in Nat
      /\ orphans' = orphans \cup Chan!Outstanding(t)
  BY ConstantsAssumption DEF Chan!Cancel, Chan!kernel, ChanInv, Chan!TypeOK
<1>2. /\ pc \in [Tasks -> Chan!Places] /\ port \in [Tasks -> Ports \cup {None}]
  BY DEF ChanInv, Chan!TypeOK
<1>3. /\ IsFiniteSet(orphans') /\ \A o \in orphans' : o.id <= cancels'
  <2>1. CASE Chan!Outstanding(t) = {}
    BY <1>1, <2>1 DEF Counted, ChanInv, Chan!TypeOK
  <2>2. CASE Chan!Outstanding(t) # {}
    <3>1. PICK o : Chan!Outstanding(t) = {o} /\ o.id = cancels + 1
      BY <2>2 DEF Chan!Outstanding
    <3> QED BY <1>1, <3>1, FS_AddElement DEF Counted, ChanInv, Chan!TypeOK
  <2> QED BY <2>1, <2>2
<1>4. \A u \in Tasks \ {t} : Chan!HoldsPort(u) => Chan!HoldsPort(u)' /\ port'[u] = port[u]
  BY <1>2 DEF Chan!Cancel, Chan!Goto, Chan!HoldsPort
<1>5. CASE pc[t] \in {"bindJob", "unmaskJob"}
  <2>1. Chan!HoldsPort(t) => Chan!HoldsPort(t)' /\ port'[t] = port[t]
    BY <1>2, <1>5 DEF Chan!Cancel, Chan!Goto, Chan!HoldsPort, Chan!Places
  <2>2. Spare' \subseteq Spare
    BY <1>1, <1>4, <2>1 DEF Spare, Held
  <2>3. PICK o : Chan!Outstanding(t) = {o} /\ o.op # "unbind"
    <3> DEFINE job(op, p) == [id |-> cancels + 1, op |-> op, port |-> p]
    <3>1. \/ Chan!Outstanding(t) = {job("bind", None)}
          \/ Chan!Outstanding(t) = {job("unmask", port[t])}
      BY <1>5 DEF Chan!Outstanding
    <3>2. job("bind", None).op # "unbind" /\ job("unmask", port[t]).op # "unbind"
      OBVIOUS
    <3> HIDE DEF job
    <3> QED BY <3>1, <3>2
  <2>4. Given' = Given \cup {o}
    BY <1>1, <2>3 DEF Given
  <2>5. Cardinality(Given') <= Cardinality(Given) + 1 /\ Cardinality(Given') \in Nat
    BY <2>4, CountedSizes, OneMore
  <2>6. Cardinality(Spare') <= Cardinality(Spare) /\ Cardinality(Spare') \in Nat
    BY <2>2, CountedSizes, FS_Subset, FS_CardinalityType
  <2>7. Cardinality(Spare') + Cardinality(Given') <= cancels' + errors'
    BY <1>1, <2>5, <2>6, CountedSizes DEF Counted
  <2> QED BY <1>1, <1>3, <2>7 DEF Counted
<1>6. CASE pc[t] \notin {"bindJob", "unmaskJob"}
  <2>1. Spare' \subseteq Spare \cup {port[t]}
    BY <1>1, <1>4 DEF Spare, Held
  <2>2. Given' = Given
    BY <1>1, <1>6 DEF Given, Chan!Outstanding
  <2>3. /\ IsFiniteSet(Spare \cup {port[t]})
        /\ Cardinality(Spare \cup {port[t]}) <= Cardinality(Spare) + 1
    BY CountedSizes, OneMore
  <2>4. Cardinality(Spare') <= Cardinality(Spare) + 1 /\ Cardinality(Spare') \in Nat
    BY <2>1, <2>3, CountedSizes, FS_Subset, FS_CardinalityType
  <2>5. Cardinality(Spare') + Cardinality(Given') <= cancels' + errors'
    BY <1>1, <2>2, <2>4, CountedSizes DEF Counted
  <2> QED BY <1>1, <1>3, <2>5 DEF Counted
<1> QED BY <1>5, <1>6

\* The ioctl of a dropped future runs: a bind leaves its port to spare.
LEMMA CountedOrphan ==
  ASSUME Counted, ChanInv, NEW o \in orphans, Chan!OrphanRuns(o)
  PROVE  Counted'
<1>1. /\ orphans' = orphans \ {o} /\ UNCHANGED <<cancels, pc, port>>
      /\ errors' \in {errors, errors + 1}
  BY DEF Chan!OrphanRuns, Chan!Error, Chan!user
<1>2. Held' = Held
  BY <1>1 DEF Held, Chan!HoldsPort
<1>3. CASE bound' \subseteq bound
  <2>1. IsFiniteSet(bound') /\ Spare' \subseteq Spare
    BY <1>2, <1>3, FS_Subset DEF Spare, Counted
  <2> QED BY <1>1, <2>1, CountedLess
<1>4. CASE ~(bound' \subseteq bound)
  <2>1. o.op = "bind" /\ \E p \in Ports : bound' = bound \cup {p}
    BY <1>4 DEF Chan!OrphanRuns, Chan!KernelBind, Chan!KernelUnmask, Chan!KernelUnbind,
                Chan!kernel
  <2>2. PICK p \in Ports : bound' = bound \cup {p}
    BY <2>1
  <2>3. IsFiniteSet(bound') /\ IsFiniteSet(orphans')
    BY <1>1, <2>2, FS_AddElement, FS_RemoveElement DEF Counted
  <2>4. Spare' \subseteq Spare \cup {p} /\ Given' = Given \ {o} /\ o \in Given
    BY <1>1, <1>2, <2>1, <2>2 DEF Spare, Given
  <2>5. /\ IsFiniteSet(Spare \cup {p})
        /\ Cardinality(Spare \cup {p}) <= Cardinality(Spare) + 1
    BY CountedSizes, OneMore
  <2>6. Cardinality(Spare') <= Cardinality(Spare) + 1 /\ Cardinality(Spare') \in Nat
    BY <2>4, <2>5, CountedSizes, FS_Subset, FS_CardinalityType
  <2>7. Cardinality(Given') = Cardinality(Given) - 1
    BY <2>4, CountedSizes, FS_RemoveElement
  <2>8. cancels \in Nat /\ errors \in Nat
    BY ConstantsAssumption DEF ChanInv, Chan!TypeOK
  <2>9. Cardinality(Spare') + Cardinality(Given') <= cancels' + errors'
    BY <1>1, <2>6, <2>7, <2>8, CountedSizes DEF Counted
  <2> QED BY <1>1, <2>3, <2>9 DEF Counted
<1> QED BY <1>3, <1>4

LEMMA CountedOK == ASSUME Counted, ChanInv, Chan!Next PROVE Counted'
<1>1. CASE (\E p \in Ports : Chan!Fire(p)) \/ Chan!Processor
  <2>1. UNCHANGED <<bound, orphans, cancels, pc, port, errors>>
    BY <1>1 DEF Chan!Fire, Chan!Processor, Chan!ReadPort, Chan!Lookup, Chan!NotifyOne,
                Chan!kernel, Chan!user
  <2> QED BY <2>1 DEF Counted, Spare, Held, Given, Chan!HoldsPort
<1> QED BY <1>1, CountedTask, CountedCancel, CountedOrphan DEF Chan!Next, Chan!OrphansRun

\* What is counted is what the property counts: unbinds apart.
LEMMA PortsFollow == Counted /\ ChanInv => Chan!PortsAreAccounted
<1> SUFFICES ASSUME Counted, ChanInv PROVE Chan!PortsAreAccounted
  OBVIOUS
<1> DEFINE unbinds == {o \in orphans : o.op = "unbind"}
<1>1. /\ IsFiniteSet(unbinds) /\ Cardinality(unbinds) \in Nat
      /\ IsFiniteSet(Given) /\ Cardinality(Given) \in Nat /\ Cardinality(Spare) \in Nat
  BY CountedSizes, FS_Subset, FS_CardinalityType DEF Counted
<1>2. orphans = Given \cup unbinds /\ Given \cap unbinds = {}
  BY DEF Given
<1>3. Cardinality(orphans) = Cardinality(Given) + Cardinality(unbinds)
  <2> HIDE DEF unbinds
  <2>1. Cardinality(Given \cup unbinds)
          = Cardinality(Given) + Cardinality(unbinds) - Cardinality(Given \cap unbinds)
    BY <1>1, FS_Union
  <2>2. Cardinality(Given \cap unbinds) = 0
    BY <1>2, FS_EmptySet
  <2> QED BY <1>1, <1>2, <2>1, <2>2
<1>4. cancels \in Nat /\ errors \in Nat
  BY ConstantsAssumption DEF ChanInv, Chan!TypeOK
<1>5. Cardinality(Spare) + Cardinality(orphans) <= cancels + errors + Cardinality(unbinds)
  BY <1>1, <1>3, <1>4 DEF Counted
<1> QED BY <1>5, CountsAgree DEF Chan!PortsAreAccounted, Spare, Held

LEMMA ChanStepOK ==
  ASSUME ChanInv, Chan!EventsAreNotLost, Chan!Next
  PROVE  ChanInv' /\ Chan!EventsAreNotLost'
<1>1. ChanInv'
  BY TaskOK, CancelOK, ProcessorOK DEF Chan!Next
<1>2. \A u \in Tasks : Silenced(u)' => Chan!OnItsWay(port[u])' \/ Unmasking(port[u])'
  BY TaskKeepsEvents, CancelKeepsEvents, ProcessorKeepsEvents DEF Chan!Next
<1> QED BY <1>1, <1>2 DEF Chan!EventsAreNotLost, Silenced, Unmasking

------------------------------------------------------------------------------
(* GrantTable.                                                              *)

\* What a thread has at each place.  An index it works with is in the table,
\* given up by nobody, and from munmap on it is the one behind its window.
GrantPlaces ==
  \A t \in Threads :
    /\ pc[t] \in {"live", "munmap"} <=> addr[t] # None
    /\ pc[t] \in {"mmap", "munmap", "unmap"} <=> index[t] # None
    /\ pc[t] \in {"mmap", "unmap"} =>
         /\ index[t] \in table \ lost
         /\ \A a \in Addresses \ stuck : windows[a] # index[t]
    /\ pc[t] = "munmap" => windows[addr[t]] = index[t]

\* A window shows an index of its own; who has its address has it whole.
WindowsDiffer ==
  /\ \A a, b \in Addresses \ stuck :
        a # b /\ windows[a] # None => windows[a] # windows[b]
  /\ \A a \in Addresses \ stuck : windows[a] # None => windows[a] \in table
  /\ \A a \in stuck : windows[a] # None
  /\ \A t \in Threads : addr[t] # None =>
       /\ windows[addr[t]] # None /\ windows[addr[t]] \notin lost
       /\ addr[t] \notin stuck

\* No two threads work with one index or one address.
ThreadsDiffer ==
  \A t, u \in Threads : t # u =>
    /\ index[t] # None => index[t] # index[u]
    /\ addr[t] # None => addr[t] # addr[u]

\* Every index in use is explained, and every window left behind has a failure.
TableIsAccounted == table = Grant!Shown \cup Grant!InHand \cup lost
StuckAreCounted == IsFiniteSet(stuck) /\ Cardinality(stuck) <= errors

GrantInv ==
  /\ Grant!TypeOK /\ GrantPlaces /\ WindowsDiffer /\ ThreadsDiffer
  /\ TableIsAccounted /\ StuckAreCounted

LEMMA GrantInitOK == ASSUME Grant!Init PROVE GrantInv
<1>1. StuckAreCounted
  BY FS_EmptySet DEF Grant!Init, StuckAreCounted
<1> QED BY <1>1, ConstantsAssumption
        DEF Grant!Init, GrantInv, Grant!TypeOK, GrantPlaces, WindowsDiffer,
            ThreadsDiffer, TableIsAccounted, Grant!Shown, Grant!InHand

\* A window is left behind by an error only.
LEMMA StuckStay ==
    ASSUME GrantInv, NEW t \in Threads,
           \/ Grant!map_grant_ref(t) \/ Grant!Mmap(t) \/ Grant!MmapFails(t)
           \/ Grant!get_offset_for_vaddr(t)
           \/ Grant!GetOffsetFails(t) \/ Grant!Munmap(t) \/ Grant!unmap_grant_ref(t)
    PROVE  StuckAreCounted'
<1>1. /\ errors \in Nat
      /\ \/ stuck' = stuck /\ errors' \in {errors, errors + 1}
         \/ stuck' = stuck \cup {addr[t]} /\ errors' = errors + 1
  BY ConstantsAssumption
     DEF GrantInv, Grant!TypeOK, Grant!map_grant_ref, Grant!Mmap, Grant!MmapFails,
         Grant!get_offset_for_vaddr, Grant!GetOffsetFails, Grant!Munmap,
         Grant!unmap_grant_ref, Grant!Error
<1> QED BY <1>1, OneMoreFailed DEF GrantInv, StuckAreCounted

\* A step of one thread: the others' indexes and windows stay theirs
\* (map_grant_refs and unmap, xengnt/src/lib.rs).
LEMMA GrantStepOK ==
    ASSUME GrantInv, NEW t \in Threads,
           \/ Grant!map_grant_ref(t) \/ Grant!Mmap(t) \/ Grant!MmapFails(t)
           \/ Grant!get_offset_for_vaddr(t)
           \/ Grant!GetOffsetFails(t) \/ Grant!Munmap(t) \/ Grant!unmap_grant_ref(t)
    PROVE  GrantInv'
<1> DEFINE Rest == /\ Grant!TypeOK /\ GrantPlaces /\ WindowsDiffer /\ ThreadsDiffer
                   /\ TableIsAccounted
<1>0. StuckAreCounted'
  BY StuckStay
<1> SUFFICES ASSUME Rest PROVE Rest'
  BY <1>0 DEF GrantInv
<1> USE ConstantsAssumption DEF Grant!TypeOK, GrantPlaces, WindowsDiffer, ThreadsDiffer,
                                TableIsAccounted, Grant!Shown, Grant!InHand, Grant!Goto,
                                Grant!Error
<1>1. CASE Grant!map_grant_ref(t)
  BY <1>1 DEF Grant!map_grant_ref
<1>2. CASE Grant!Mmap(t)
  BY <1>2 DEF Grant!Mmap
<1>3. CASE Grant!MmapFails(t)
  BY <1>3 DEF Grant!MmapFails
<1>4. CASE Grant!get_offset_for_vaddr(t)
  BY <1>4 DEF Grant!get_offset_for_vaddr
<1>5. CASE Grant!GetOffsetFails(t)
  BY <1>5 DEF Grant!GetOffsetFails
<1>6. CASE Grant!Munmap(t)
  BY <1>6 DEF Grant!Munmap
<1>7. CASE Grant!unmap_grant_ref(t)
  BY <1>7 DEF Grant!unmap_grant_ref
<1> QED BY <1>1, <1>2, <1>3, <1>4, <1>5, <1>6, <1>7

\* What a thread shows is in nobody's hand.
LEMMA MemoryFollows == GrantInv => Grant!MemoryIsOwn /\ Grant!IndexesAreAccounted
<1> SUFFICES ASSUME GrantInv PROVE Grant!MemoryIsOwn /\ Grant!IndexesAreAccounted
  OBVIOUS
<1> USE DEF GrantInv, Grant!TypeOK, GrantPlaces, WindowsDiffer, ThreadsDiffer
<1>1. ASSUME NEW t \in Threads, pc[t] = "live"
      PROVE  /\ windows[addr[t]] \in table \ (Grant!InHand \cup lost)
             /\ addr[t] \notin stuck
  <2>1. ASSUME NEW u \in Threads, index[u] # None PROVE index[u] # windows[addr[t]]
    BY <1>1, <2>1
  <2> QED BY <1>1, <2>1 DEF Grant!InHand
<1>2. Grant!IndexesAreAccounted
  BY LeftoversAgree DEF Grant!IndexesAreAccounted, TableIsAccounted, StuckAreCounted
<1> QED BY <1>1, <1>2 DEF Grant!MemoryIsOwn

------------------------------------------------------------------------------
(* LoopDevices.                                                             *)

\* Who has nothing open is idle, and the other way round.
OpenedIsInUse == \A u \in Users : pc[u] = "idle" <=> opened[u] = None

\* A device that a user has opened and not attached is not attached for it.
NotYetAttached == \A u \in Users : pc[u] \in {"open", "fd"} => backing[opened[u]] # u

\* Direct I/O is set for those that asked for it.
OnlyDirect == \A u \in Users : pc[u] = "direct" => u \in Direct

\* Who has a file on a device that was not left has that device open, and every
\* device that was left has a failure of its own.
AttachedIsOpen ==
  \A d \in Devices : backing[d] # None => opened[backing[d]] = d \/ d \in left
LeftAreCounted == IsFiniteSet(left) /\ Cardinality(left) <= errors

LoopInv ==
  /\ Loop!TypeOK /\ OpenedIsInUse /\ NotYetAttached /\ OnlyDirect
  /\ Loop!AttachedIsOwn /\ AttachedIsOpen /\ LeftAreCounted

LEMMA LoopInitOK == ASSUME Loop!Init PROVE LoopInv
<1>1. LeftAreCounted
  BY FS_EmptySet DEF Loop!Init, LeftAreCounted
<1> QED BY <1>1, ConstantsAssumption
        DEF Loop!Init, LoopInv, Loop!TypeOK, OpenedIsInUse, NotYetAttached, OnlyDirect,
            Loop!AttachedIsOwn, AttachedIsOpen

\* A device is left attached by a failure only.
LEMMA LeftStay ==
    ASSUME LoopInv, NEW u \in Users,
           \/ Loop!next_free(u) \/ Loop!OpenBacking(u) \/ Loop!SetFd(u) \/ Loop!SetStatus(u)
           \/ Loop!DetachFailed(u) \/ Loop!set_direct_io(u) \/ Loop!detach(u)
    PROVE  LeftAreCounted'
<1>1. /\ errors \in Nat
      /\ \/ left' = left /\ errors' \in {errors, errors + 1}
         \/ left' = left \cup {opened[u]} /\ errors' = errors + 1
  BY ConstantsAssumption
     DEF LoopInv, Loop!TypeOK, Loop!next_free, Loop!OpenBacking, Loop!SetFd,
         Loop!SetStatus, Loop!DetachFailed, Loop!set_direct_io, Loop!detach,
         Loop!ClearFd, Loop!LeaveAttached, Loop!Error
<1> QED BY <1>1, OneMoreFailed DEF LoopInv, LeftAreCounted

\* A step of one user: the others' devices stay theirs, be it attached, refused,
\* undone or detached (LoopDevice and AttachOptions, lib.rs).
LEMMA LoopStepOK ==
    ASSUME LoopInv, NEW u \in Users,
           \/ Loop!next_free(u) \/ Loop!OpenBacking(u) \/ Loop!SetFd(u) \/ Loop!SetStatus(u)
           \/ Loop!DetachFailed(u) \/ Loop!set_direct_io(u) \/ Loop!detach(u)
    PROVE  LoopInv'
<1> DEFINE Rest == /\ Loop!TypeOK /\ OpenedIsInUse /\ NotYetAttached /\ OnlyDirect
                   /\ Loop!AttachedIsOwn /\ AttachedIsOpen
<1>0. LeftAreCounted'
  BY LeftStay
<1> SUFFICES ASSUME Rest PROVE Rest'
  BY <1>0 DEF LoopInv
<1> USE ConstantsAssumption DEF Loop!TypeOK, OpenedIsInUse, NotYetAttached, OnlyDirect,
                                Loop!AttachedIsOwn, AttachedIsOpen, Loop!Goto, Loop!Error,
                                Loop!ClearFd, Loop!LeaveAttached
<1>1. CASE Loop!next_free(u)
  BY <1>1 DEF Loop!next_free
<1>2. CASE Loop!OpenBacking(u)
  BY <1>2 DEF Loop!OpenBacking
<1>3. CASE Loop!SetFd(u)
  BY <1>3 DEF Loop!SetFd
<1>4. CASE Loop!SetStatus(u)
  BY <1>4 DEF Loop!SetStatus
<1>5. CASE Loop!DetachFailed(u)
  BY <1>5 DEF Loop!DetachFailed
<1>6. CASE Loop!set_direct_io(u)
  BY <1>6 DEF Loop!set_direct_io
<1>7. CASE Loop!detach(u)
  BY <1>7 DEF Loop!detach
<1> QED BY <1>1, <1>2, <1>3, <1>4, <1>5, <1>6, <1>7

------------------------------------------------------------------------------
(* LastHandle.                                                              *)

\* The handles are counted; while one is in use the task runs, and when none is
\* left it runs on only if two drops have met.
DropsInv ==
  /\ Drops!TypeOK /\ IsFiniteSet(live \cup dropping)
  /\ ~running => live = {}
  /\ live = {} /\ running => overlap

LEMMA DropsInitOK == ASSUME Drops!Init PROVE DropsInv
<1>1. PICK h \in Handles : live = {h}
  BY DEF Drops!Init
<1>2. IsFiniteSet({h}) /\ Cardinality({h}) = 1 /\ {h} \cup {} = {h}
  BY FS_Singleton
<1> QED BY <1>1, <1>2, CountsAgree DEF Drops!Init, DropsInv, Drops!TypeOK

\* A handle is cloned, looks at the count, or goes (Clone and Drop of XsdSocket,
\* bus.rs).
LEMMA DropsStepOK == ASSUME DropsInv, Drops!Next PROVE DropsInv'
<1> USE CountsAgree DEF DropsInv, Drops!TypeOK
<1>1. CASE Drops!CloneHandle
  <2>1. PICK h \in Handles \ (live \cup dropping) : live' = live \cup {h}
    BY <1>1 DEF Drops!CloneHandle
  <2>2. /\ live # {} /\ count' = count + 1
        /\ UNCHANGED <<dropping, running, overlap>>
    BY <1>1 DEF Drops!CloneHandle
  <2>3. live' \cup dropping' = (live \cup dropping) \cup {h}
    BY <2>1, <2>2
  <2>4. /\ IsFiniteSet(live' \cup dropping')
        /\ Cardinality(live' \cup dropping') = count + 1
    BY <2>1, <2>3, FS_AddElement
  <2> QED BY <2>1, <2>2, <2>4
<1>2. ASSUME NEW h \in Handles, Drops!Look(h) PROVE DropsInv'
  <2>1. /\ h \in live /\ live' = live \ {h} /\ dropping' = dropping \cup {h}
        /\ running' = (running /\ count > 1)
        /\ overlap' = (overlap \/ dropping # {}) /\ count' = count
    BY <1>2 DEF Drops!Look
  <2>2. live' \cup dropping' = live \cup dropping
    BY <2>1
  <2>3. count \in Nat
    BY FS_CardinalityType
  <2>4. (live \cup dropping) \ {h} = {} <=> count = 1
    <3>1. Cardinality((live \cup dropping) \ {h}) = count - 1
          /\ IsFiniteSet((live \cup dropping) \ {h})
      BY <2>1, FS_RemoveElement
    <3> QED BY <2>3, <3>1, FS_EmptySet
  <2>5. count # 0
    BY <2>1, FS_EmptySet
  <2>6. ~running' => live' = {}
    BY <2>1, <2>3, <2>4, <2>5
  <2>7. live' = {} /\ running' => overlap'
    BY <2>1, <2>3, <2>4
  <2> QED BY <2>1, <2>2, <2>6, <2>7
<1>3. ASSUME NEW h \in Handles, Drops!Release(h) PROVE DropsInv'
  <2>1. /\ h \in dropping /\ dropping' = dropping \ {h} /\ count' = count - 1
        /\ UNCHANGED <<live, running, overlap>>
    BY <1>3 DEF Drops!Release
  <2>2. live' \cup dropping' = (live \cup dropping) \ {h}
    BY <2>1
  <2>3. /\ IsFiniteSet(live' \cup dropping')
        /\ Cardinality(live' \cup dropping') = count - 1
    BY <2>1, <2>2, FS_RemoveElement
  <2> QED BY <2>1, <2>3
<1> QED BY <1>1, <1>2, <1>3 DEF Drops!Next

------------------------------------------------------------------------------
(* The parts together.                                                      *)

Inv ==
  /\ part = "channels" => ChanInv /\ Chan!EventsAreNotLost /\ Counted
  /\ part = "grants" => GrantInv
  /\ part = "loops" => LoopInv
  /\ part = "handles" => DropsInv

\* A step is one of the part, and the part stays the same.
LEMMA PartSteps ==
  ASSUME Next
  PROVE  /\ part' = part
         /\ part = "channels" => Chan!Next
         /\ part = "grants" => Grant!Next
         /\ part = "loops" => Loop!Next
         /\ part = "handles" => Drops!Next
  BY DEF Next

LEMMA InitOK == ASSUME Init PROVE Inv
<1>1. CASE part = "channels"
  <2>1. Chan!Init
    BY <1>1 DEF Init
  <2>2. Chan!EventsAreNotLost
    BY <2>1 DEF Chan!Init, Chan!EventsAreNotLost
  <2> QED BY <1>1, <2>1, <2>2, ChanInitOK, CountedAtFirst DEF Inv
<1>2. CASE part # "channels"
  BY <1>2, GrantInitOK, LoopInitOK, DropsInitOK DEF Init, Inv
<1> QED BY <1>1, <1>2

\* Nothing that the invariants speak of changes.
LEMMA RestOK == ASSUME Inv, UNCHANGED vars PROVE Inv'
<1> USE DEF vars
<1>1. CASE part = "channels"
  BY <1>1 DEF Inv, chanVars, ChanInv, Chan!TypeOK, Locked, Holding, Unbinding,
              NotifiesDiffer, ThreadHolds, HasPort, Chan!HoldsPort, Chan!HasChannel,
              Chan!EventsAreNotLost, Chan!OnItsWay, Counted, Spare, Held, Given
<1>2. CASE part = "grants"
  BY <1>2 DEF Inv, grantVars, GrantInv, Grant!TypeOK, GrantPlaces, WindowsDiffer,
              ThreadsDiffer, TableIsAccounted, StuckAreCounted, Grant!Shown, Grant!InHand
<1>3. CASE part = "loops"
  BY <1>3 DEF Inv, loopVars, LoopInv, Loop!TypeOK, OpenedIsInUse, NotYetAttached,
              OnlyDirect, Loop!AttachedIsOwn, AttachedIsOpen, LeftAreCounted
<1>4. CASE part = "handles"
  BY <1>4 DEF Inv, lastVars, DropsInv, Drops!TypeOK
<1> QED BY <1>1, <1>2, <1>3, <1>4 DEF Inv

LEMMA Invariance == Spec => []Inv
<1>1. Init => Inv
  BY InitOK
<1>2. Inv /\ [Next]_vars => Inv'
  <2> SUFFICES ASSUME Inv, [Next]_vars PROVE Inv'
    OBVIOUS
  <2>1. CASE Next
    <3> USE <2>1, PartSteps
    <3>1. CASE part = "channels"
      BY <3>1, ChanStepOK, CountedOK DEF Inv
    <3>2. CASE part = "grants"
      BY <3>2, GrantStepOK DEF Inv, Grant!Next
    <3>3. CASE part = "loops"
      BY <3>3, LoopStepOK DEF Inv, Loop!Next
    <3>4. CASE part = "handles"
      BY <3>4, DropsStepOK DEF Inv
    <3> QED BY <3>1, <3>2, <3>3, <3>4 DEF Inv
  <2>2. CASE UNCHANGED vars
    BY <2>2, RestOK
  <2> QED BY <2>1, <2>2
<1> QED BY <1>1, <1>2, PTL DEF Spec

\* An open channel owns its port and is the one the thread wakes for it, and
\* ports that nobody has are the work of dropped futures and of failed unbinds, for
\* any numbers of tasks, ports, events, failures and futures dropped anywhere
\* (xenevtchn/src/lib.rs).
THEOREM ChannelsRegistered == Spec => []ChannelsAreRegistered
<1>1. Inv => ChannelsAreRegistered
  BY ChannelsFollow, PortsFollow DEF Inv, ChannelsAreRegistered, ChanInv
<1> QED BY <1>1, Invariance, PTL

\* The event that silenced a port is on its way to the port's owner until the
\* owner is woken, although the thread may read it before the owner has
\* subscribed (subscribe and process, lib.rs:173-185 and 208-222).
THEOREM EventsNotLost == Spec => []EventsAreNotLost
<1>1. Inv => EventsAreNotLost
  BY DEF Inv, EventsAreNotLost
<1> QED BY <1>1, Invariance, PTL

\* However many threads map and drop at once, a window shows its owner's pages
\* until its owner drops it, and an index that is in use has a window, a call
\* under way, or a failed call to explain it.  A window that stays behind has an
\* munmap that failed, and is never taken for another's (xengnt/src/lib.rs).
THEOREM MemoryStays == Spec => []MemoryIsOwn
<1>1. Inv => MemoryIsOwn
  BY MemoryFollows DEF Inv, MemoryIsOwn, GrantInv
<1> QED BY <1>1, Invariance, PTL

\* Of any number of users that race for devices nobody loses one that it has
\* attached to another's attempt or to the clean-up of a failed one.  A device that
\* no user has open is free, unless LOOP_SET_DIRECT_IO or LOOP_CLR_FD, the one of a
\* clean-up included, failed on it: there are no more such devices than failures
\* (loopdev/src/lib.rs).
THEOREM AttachedStay == Spec => []AttachedIsOwn
<1>1. Inv => AttachedIsOwn
  BY LeftoversAgree DEF Inv, AttachedIsOwn, LoopInv, Loop!FailedIsFree, AttachedIsOpen,
                        LeftAreCounted
<1> QED BY <1>1, Invariance, PTL

\* The processor task is not aborted while a handle is in use, and when none is
\* left it has been aborted, unless two drops overlapped at some time, which may
\* leave it running for good, however many handles are cloned (bus.rs:340, Drop).
THEOREM AbortedAtTheEnd == Spec => []AbortedWithTheLast
<1>1. Inv => AbortedWithTheLast
  BY DEF Inv, AbortedWithTheLast, DropsInv, Drops!AbortedWithTheLast
<1> QED BY <1>1, Invariance, PTL
==============================================================================
