----------------------------- MODULE EndingsProofs -----------------------------
(***************************************************************************)
(* Proofs about MCEndings: the answers of the calls that end.  The parts do  *)
(* not meet, so each has an invariant of its own, for any values of the      *)
(* constants.                                                               *)
(***************************************************************************)
EXTENDS MCEndings, TLAPS

(* BlockDevices, for every index.                                           *)

\* One digit split off, and what is left, count the same (util.rs:8-13).
LEMMA DigitSplitsOff ==
    ASSUME NEW k \in Nat, NEW w \in Nat, k >= Letters
    PROVE  /\ k \div Letters - 1 \in Nat /\ k \div Letters - 1 < k
           /\ (k \div Letters - 1 + 1) * (Letters * w) + ((k % Letters) + 1) * w
                = (k + 1) * w
<1> DEFINE q == k \div Letters
           c == k % Letters
<1>1. q \in Nat /\ c \in Nat /\ k = Letters * q + c /\ q >= 1 /\ q < k
  BY DEF Letters
<1>2. (q - 1 + 1) * (Letters * w) = (Letters * q) * w
  <2> HIDE DEF q
  <2> QED BY <1>1 DEF Letters
<1>3. (k + 1) * w = (Letters * q + (c + 1)) * w
  <2> HIDE DEF q, c
  <2> QED BY <1>1 DEF Letters
<1>4. (Letters * q + (c + 1)) * w = (Letters * q) * w + (c + 1) * w
  <2> HIDE DEF q, c
  <2>1. \A a, b, z \in Int : (a + b) * z = a * z + b * z
    OBVIOUS
  <2> QED BY <1>1, <2>1 DEF Letters
<1> QED BY <1>1, <1>2, <1>3, <1>4

\* A turn keeps the types of the variables.
LEMMA TurnTypes == ASSUME TypeOK, Turn PROVE TypeOK'
<1>1. blkid \in Nat /\ n \in Nat /\ n <= blkid /\ weight \in Nat /\ value \in Nat
  BY IndexAssumption DEF TypeOK
<1>2. (n % Letters) + 1 \in 1..Letters
  BY <1>1 DEF Letters
<1>3. suffix' \in Seq(1..Letters)
  BY <1>2 DEF Turn, TypeOK
<1>4. value' \in Nat /\ weight' \in Nat
  BY <1>1, <1>2 DEF Turn, Letters
<1>5. n' \in 0..blkid'
  BY <1>1, DigitSplitsOff DEF Turn, TypeOK, Letters
<1> QED BY <1>3, <1>4, <1>5 DEF Turn, TypeOK

\* What a turn takes off what is left it adds to the digits found.
LEMMA TurnRemainder == ASSUME TypeOK, Remainder, Turn PROVE Remainder'
<1>1. blkid \in Nat /\ n \in Nat /\ weight \in Nat /\ value \in Nat
  BY IndexAssumption DEF TypeOK
<1>2. /\ (n + 1) * weight + value = blkid + 1
      /\ value' = value + ((n % Letters) + 1) * weight
      /\ weight' = Letters * weight /\ blkid' = blkid
  BY DEF Turn, Remainder
<1>3. CASE n >= Letters
  <2>1. pc' = "loop" /\ n' = n \div Letters - 1
    BY <1>3 DEF Turn
  <2>2. (n' + 1) * weight' + ((n % Letters) + 1) * weight = (n + 1) * weight
    BY <1>1, <1>2, <1>3, <2>1, DigitSplitsOff
  <2>3. (n + 1) * weight \in Int /\ ((n % Letters) + 1) * weight \in Int
        /\ (n' + 1) * weight' \in Int
    BY <1>1, <1>2, <1>3, <2>1, DigitSplitsOff DEF Letters
  <2>4. (n' + 1) * weight' + value' = blkid' + 1
    BY <1>1, <1>2, <2>2, <2>3
  <2> QED BY <2>1, <2>4 DEF Remainder
<1>4. CASE n < Letters
  <2>1. pc' = "done" /\ n % Letters = n
    BY <1>1, <1>4 DEF Turn, Letters
  <2>2. value' = blkid' + 1
    BY <1>1, <1>2, <2>1
  <2> QED BY <2>1, <2>2 DEF Remainder
<1> QED BY <1>1, <1>3, <1>4 DEF Letters

\* The digits found so far, read as they are written after a number, add their
\* value to it; there is such a reading.
Reading(f, number, name) ==
  f = [k \in 0..Len(name) |-> IF k = 0 THEN number ELSE Letters * f[k - 1] + name[k]]
Reads ==
  \A number \in Nat :
    /\ \E f : Reading(f, number, Reverse(suffix))
    /\ \A f : Reading(f, number, Reverse(suffix)) => f[Len(suffix)] = number * weight + value

LEMMA ReverseOfAppend ==
    ASSUME NEW s \in Seq(1..Letters), NEW c \in 1..Letters
    PROVE  /\ Len(s) \in Nat /\ Len(Reverse(s)) = Len(s)
           /\ Len(Append(s, c)) = Len(s) + 1 /\ Len(Reverse(Append(s, c))) = Len(s) + 1
           /\ Reverse(Append(s, c))[1] = c
           /\ \A k \in 1..Len(s) : Reverse(Append(s, c))[k + 1] = Reverse(s)[k]
<1>1. /\ Len(s) \in Nat /\ Len(Append(s, c)) = Len(s) + 1
      /\ Append(s, c)[Len(s) + 1] = c
      /\ \A k \in 1..Len(s) : Append(s, c)[k] = s[k]
  OBVIOUS
<1>2. \A t : Len(t) \in Nat => Len(Reverse(t)) = Len(t)
  <2> SUFFICES ASSUME NEW t, Len(t) \in Nat PROVE Len(Reverse(t)) = Len(t)
    OBVIOUS
  <2>1. Reverse(t) = [k \in 1..Len(t) |-> t[(Len(t) - k) + 1]]
    BY DEF Reverse
  <2> QED BY <2>1
<1>3. \A k \in 1..(Len(s) + 1) :
        Reverse(Append(s, c))[k] = Append(s, c)[((Len(s) + 1) - k) + 1]
  BY <1>1 DEF Reverse
<1>4. \A k \in 1..Len(s) : Reverse(s)[k] = s[(Len(s) - k) + 1]
  BY <1>1 DEF Reverse
<1>5. Reverse(Append(s, c))[1] = c
  BY <1>1, <1>3
<1>6. ASSUME NEW k \in 1..Len(s)
      PROVE  Reverse(Append(s, c))[k + 1] = Reverse(s)[k]
  <2>1. /\ k + 1 \in 1..(Len(s) + 1) /\ (Len(s) - k) + 1 \in 1..Len(s)
        /\ ((Len(s) + 1) - (k + 1)) + 1 = (Len(s) - k) + 1
    BY <1>1
  <2> QED BY <1>1, <1>3, <1>4, <2>1
<1>7. Len(Reverse(s)) = Len(s) /\ Len(Reverse(Append(s, c))) = Len(Append(s, c))
  <2>1. Len(Append(s, c)) \in Nat
    BY <1>1
  <2> QED BY <1>1, <1>2, <2>1
<1> QED BY <1>1, <1>5, <1>6, <1>7

\* A first digit more is a number more to begin with.
LEMMA ReadingOfAppend ==
    ASSUME NEW s \in Seq(1..Letters), NEW c \in 1..Letters, NEW number \in Nat
    PROVE  /\ \A f : Reading(f, number, Reverse(Append(s, c))) =>
                 Reading([k \in 0..Len(s) |-> f[k + 1]], Letters * number + c, Reverse(s))
           /\ \A f : Reading(f, Letters * number + c, Reverse(s)) =>
                 Reading([k \in 0..(Len(s) + 1) |-> IF k = 0 THEN number ELSE f[k - 1]],
                         number, Reverse(Append(s, c)))
<1> DEFINE old == Reverse(s)
           new == Reverse(Append(s, c))
<1>1. /\ Len(s) \in Nat /\ Len(old) = Len(s) /\ Len(new) = Len(s) + 1 /\ new[1] = c
      /\ \A k \in 1..Len(s) : new[k + 1] = old[k]
  BY ReverseOfAppend
<1> HIDE DEF old, new
<1>2. ASSUME NEW f, Reading(f, number, new)
      PROVE  Reading([k \in 0..Len(s) |-> f[k + 1]], Letters * number + c, old)
  <2>1. \A k \in 0..(Len(s) + 1) :
          f[k] = IF k = 0 THEN number ELSE Letters * f[k - 1] + new[k]
    BY <1>1, <1>2 DEF Reading
  <2> DEFINE g == [k \in 0..Len(s) |-> f[k + 1]]
  <2>2. ASSUME NEW k \in 0..Len(s)
        PROVE  g[k] = IF k = 0 THEN Letters * number + c ELSE Letters * g[k - 1] + old[k]
    <3>1. /\ k + 1 \in 0..(Len(s) + 1) /\ k + 1 # 0 /\ (k + 1) - 1 = k
          /\ 0 \in 0..(Len(s) + 1) /\ 0 + 1 = 1
      BY <1>1
    <3>2. g[k] = Letters * f[k] + new[k + 1]
      BY <2>1, <3>1
    <3>3. CASE k = 0
      BY <1>1, <2>1, <3>1, <3>2, <3>3
    <3>4. CASE k # 0
      <4>1. k \in 1..Len(s) /\ k - 1 \in 0..Len(s) /\ (k - 1) + 1 = k
        BY <1>1, <3>4
      <4>2. g[k - 1] = f[k]
        BY <4>1
      <4> QED BY <1>1, <3>2, <3>4, <4>1, <4>2
    <3> QED BY <3>3, <3>4
  <2>3. g = [k \in 0..Len(old) |-> IF k = 0 THEN Letters * number + c
                                   ELSE Letters * g[k - 1] + old[k]]
    BY <1>1, <2>2
  <2> QED BY <2>3 DEF Reading
<1>3. ASSUME NEW f, Reading(f, Letters * number + c, old)
      PROVE  Reading([k \in 0..(Len(s) + 1) |-> IF k = 0 THEN number ELSE f[k - 1]], number, new)
  <2>1. \A k \in 0..Len(s) :
          f[k] = IF k = 0 THEN Letters * number + c ELSE Letters * f[k - 1] + old[k]
    BY <1>1, <1>3 DEF Reading
  <2> DEFINE g == [k \in 0..(Len(s) + 1) |-> IF k = 0 THEN number ELSE f[k - 1]]
  <2>2. ASSUME NEW k \in 0..(Len(s) + 1)
        PROVE  g[k] = IF k = 0 THEN number ELSE Letters * g[k - 1] + new[k]
    <3>1. CASE k = 0
      BY <3>1
    <3>2. CASE k = 1
      <4>1. g[1] = f[0] /\ g[0] = number /\ 1 - 1 = 0 /\ f[0] = Letters * number + c
        BY <1>1, <2>1
      <4> QED BY <1>1, <3>2, <4>1
    <3>3. CASE k \notin {0, 1}
      <4>1. /\ k - 1 \in 1..Len(s) /\ k - 1 # 0 /\ (k - 1) + 1 = k
            /\ k - 1 \in 0..(Len(s) + 1)
        BY <1>1, <3>3
      <4>2. g[k] = f[k - 1] /\ g[k - 1] = f[(k - 1) - 1]
        BY <3>3, <4>1
      <4>3. f[k - 1] = Letters * f[(k - 1) - 1] + old[k - 1]
        BY <1>1, <2>1, <4>1
      <4>4. new[k] = old[k - 1]
        BY <1>1, <4>1
      <4> QED BY <3>3, <4>2, <4>3, <4>4
    <3> QED BY <3>1, <3>2, <3>3
  <2>3. g = [k \in 0..Len(new) |-> IF k = 0 THEN number ELSE Letters * g[k - 1] + new[k]]
    BY <1>1, <2>2
  <2> QED BY <2>3 DEF Reading
<1> QED BY <1>2, <1>3 DEF old, new

LEMMA TurnReads == ASSUME TypeOK, Reads, Turn PROVE Reads'
<1> DEFINE c == (n % Letters) + 1
<1>1. n \in Nat /\ weight \in Nat /\ value \in Nat /\ suffix \in Seq(1..Letters)
  BY IndexAssumption DEF TypeOK
<1>2. c \in 1..Letters /\ c \in Nat
  BY <1>1 DEF Letters
<1>3. suffix' = Append(suffix, c) /\ value' = value + c * weight /\ weight' = Letters * weight
  BY DEF Turn
<1> HIDE DEF c
<1>4. ASSUME NEW number \in Nat
      PROVE  /\ \E f : Reading(f, number, Reverse(suffix'))
             /\ \A f : Reading(f, number, Reverse(suffix')) =>
                    f[Len(suffix')] = number * weight' + value'
  <2>1. Letters * number + c \in Nat
    BY <1>2 DEF Letters
  <2>2. PICK g : Reading(g, Letters * number + c, Reverse(suffix))
    BY <2>1 DEF Reads
  <2>3. \E f : Reading(f, number, Reverse(suffix'))
    BY <1>1, <1>2, <1>3, <2>2, ReadingOfAppend
  <2>4. ASSUME NEW f, Reading(f, number, Reverse(suffix'))
        PROVE  f[Len(suffix')] = number * weight' + value'
    <3>1. Reading([k \in 0..Len(suffix) |-> f[k + 1]], Letters * number + c, Reverse(suffix))
      BY <1>1, <1>2, <1>3, <2>4, ReadingOfAppend
    <3>2. [k \in 0..Len(suffix) |-> f[k + 1]][Len(suffix)]
            = (Letters * number + c) * weight + value
      BY <2>1, <3>1 DEF Reads
    <3>3. Len(suffix) \in Nat /\ Len(suffix') = Len(suffix) + 1
      BY <1>1, <1>2, <1>3, ReverseOfAppend
    <3>4. f[Len(suffix')] = (Letters * number + c) * weight + value
      BY <3>2, <3>3
    <3>5. (Letters * number + c) * weight = number * (Letters * weight) + c * weight
      <4>1. \A x, y, z \in Int : (x + y) * z = x * z + y * z
        OBVIOUS
      <4>2. Letters * number \in Int /\ (Letters * number) * weight = number * (Letters * weight)
        BY <1>1 DEF Letters
      <4> QED BY <1>1, <1>2, <4>1, <4>2
    <3>6. number * (Letters * weight) \in Int /\ c * weight \in Int
      BY <1>1, <1>2 DEF Letters
    <3> QED BY <1>1, <1>3, <3>4, <3>5, <3>6
  <2> QED BY <2>3, <2>4
<1> QED BY <1>4 DEF Reads

\* At the end the digits read as they are written give the number.
LEMMA ReadsTheName ==
    ASSUME TypeOK, Reads
    PROVE  NumberOf(Reverse(suffix)) = value
<1> DEFINE name == Reverse(suffix)
           read == CHOOSE f : f = [k \in 0..Len(name) |->
                                     IF k = 0 THEN 0 ELSE Letters * f[k - 1] + name[k]]
<1>1. Len(name) = Len(suffix)
  <2>1. suffix \in Seq(1..Letters) /\ 1 \in 1..Letters
    BY DEF TypeOK, Letters
  <2> QED BY <2>1, ReverseOfAppend
<1>2. Reading(read, 0, name)
  <2>1. \E f : Reading(f, 0, name)
    BY DEF Reads
  <2> HIDE DEF name
  <2> QED BY <2>1 DEF Reading
<1>3. NumberOf(name) = read[Len(name)]
  BY DEF NumberOf
<1> HIDE DEF read
<1>4. read[Len(suffix)] = 0 * weight + value
  BY <1>2 DEF Reads
<1>5. weight \in Nat /\ value \in Nat
  BY DEF TypeOK
<1> QED BY <1>1, <1>3, <1>4, <1>5

NameInv == TypeOK /\ Remainder /\ Reads

LEMMA NameInitOK == ASSUME Init PROVE NameInv
<1>1. TypeOK /\ Remainder
  BY IndexAssumption DEF Init, TypeOK, Remainder
<1>2. ASSUME NEW number \in Nat
      PROVE  /\ \E f : Reading(f, number, Reverse(<<>>))
             /\ \A f : Reading(f, number, Reverse(<<>>)) => f[0] = number
  <2>1. Len(Reverse(<<>>)) = 0
    BY DEF Reverse
  <2>2. Reading([k \in 0..0 |-> number], number, Reverse(<<>>))
    <3> DEFINE g == [k \in 0..0 |-> number]
    <3>1. g = [k \in 0..0 |-> IF k = 0 THEN number ELSE Letters * g[k - 1] + Reverse(<<>>)[k]]
      OBVIOUS
    <3> QED BY <2>1, <3>1 DEF Reading
  <2>3. ASSUME NEW f, Reading(f, number, Reverse(<<>>)) PROVE f[0] = number
    BY <2>1, <2>3 DEF Reading
  <2> QED BY <2>2, <2>3
<1>3. /\ suffix = <<>> /\ Len(suffix) = 0 /\ weight = 1 /\ value = 0
      /\ \A number \in Nat : number * 1 + 0 = number
  BY DEF Init
<1>4. Reads
  BY <1>2, <1>3 DEF Reads
<1> QED BY <1>1, <1>4 DEF NameInv

LEMMA NameNextOK == ASSUME NameInv, Next PROVE NameInv'
  BY TurnTypes, TurnRemainder, TurnReads DEF Next, NameInv

LEMMA NameStutters == ASSUME NameInv, UNCHANGED vars PROVE NameInv'
  BY DEF vars, NameInv, TypeOK, Remainder, Reads

LEMMA NameIsTrue == ASSUME NameInv PROVE NameIsItsNumber
  BY ReadsTheName DEF NameInv, Remainder, NameIsItsNumber

\* The types hold of every name that is made (util.rs:3-20), and whatever the
\* index, the digits found and what is left of it make up the index, and at the
\* end nothing is left (util.rs:7-16).
THEOREM RemainderHolds == Spec => [](TypeOK /\ Remainder)
<1>1. NameInv /\ [Next]_vars => NameInv'
  BY NameNextOK, NameStutters
<1>2. NameInv => TypeOK /\ Remainder
  BY DEF NameInv
<1> QED BY <1>1, <1>2, NameInitOK, PTL DEF Spec

\* Two devices never share a virtual device number, that of a partition included
\* (tx/vbd.rs:107-116).
THEOREM NumbersAreDisjoint ==
    ASSUME NEW a \in Nat, NEW b \in Nat, a # b
    PROVE  Numbers(a) \cap Numbers(b) = {}
<1>1. /\ VirtualDevice(a) \in Nat /\ Partitions(a) \in Nat
      /\ VirtualDevice(b) \in Nat /\ Partitions(b) \in Nat
  BY DEF VirtualDevice, Partitions, StandardDisks, StandardBase, ExtendedBase
<1>2. \/ VirtualDevice(a) + Partitions(a) <= VirtualDevice(b)
      \/ VirtualDevice(b) + Partitions(b) <= VirtualDevice(a)
  BY DEF VirtualDevice, Partitions, StandardDisks, StandardBase, ExtendedBase
<1> QED BY <1>1, <1>2 DEF Numbers

------------------------------------------------------------------------------
(* DeviceStateWaiter, with a deadline or without.                            *)

\* All devices read so far in a round were ready if as many were counted.
Counting ==
  place = "check" /\ ready = i - 1 => \A d \in 1..(i - 1) : seen[d] = Desired

\* do_wait has an outcome only when it is over.
Ongoing == place # "done" => outcome = "none"

Waited(deadline) ==
  Wait(deadline)!TypeOK /\ Counting /\ Ongoing /\ Wait(deadline)!ReadyWasSeen

LEMMA WaitInitOK ==
    ASSUME NEW deadline \in BOOLEAN, Wait(deadline)!Init
    PROVE  Waited(deadline)
  BY ConstantsAssumption
  DEF Wait!Init, Waited, Wait!TypeOK, Counting, Ongoing, Wait!ReadyWasSeen, Wait!Devices,
      Wait!Unread

\* A driver's change, whatever it changes, leaves the round as it is.
LEMMA ChangeOK ==
    ASSUME NEW deadline \in BOOLEAN, Waited(deadline),
           NEW d \in Wait(deadline)!Devices, NEW s \in Wait(deadline)!States,
           Wait(deadline)!Change(d, s)
    PROVE  Waited(deadline)'
  BY ConstantsAssumption
  DEF Waited, Wait!TypeOK, Counting, Ongoing, Wait!ReadyWasSeen, Wait!Change, Wait!Running,
      Wait!Event, Wait!Devices

\* One read of check_states (devstate.rs:70-96).
LEMMA CheckOK ==
    ASSUME NEW deadline \in BOOLEAN, Waited(deadline), Wait(deadline)!CheckState
    PROVE  Waited(deadline)'
<1> USE ConstantsAssumption DEF Waited, Wait!TypeOK, Wait!Devices, Wait!store
<1>1. state[i] \in Wait(deadline)!States /\ i \in 1..N /\ state' = state
  BY DEF Wait!CheckState
<1>2. CASE /\ Wait(deadline)!Unfit(state[i]) /\ Wait(deadline)!Return("failed")
           /\ UNCHANGED <<i, ready>>
  BY <1>1, <1>2 DEF Wait!CheckState, Wait!Return, Counting, Ongoing, Wait!ReadyWasSeen
<1>3. CASE ~(/\ Wait(deadline)!Unfit(state[i]) /\ Wait(deadline)!Return("failed")
             /\ UNCHANGED <<i, ready>>)
  <2>1. /\ i' = i + 1 /\ place' = "check" /\ place = "check" /\ i <= N
        /\ ready' = IF state[i] = Desired THEN ready + 1 ELSE ready
        /\ seen' = [seen EXCEPT ![i] = state[i]]
        /\ UNCHANGED <<outcome, result, changes, watched, queued>>
    BY <1>3 DEF Wait!CheckState, Wait!Running
  <2>2. Wait(deadline)!TypeOK'
    BY <1>1, <2>1
  <2>3. Counting'
    <3> SUFFICES ASSUME ready' = i' - 1, NEW d \in 1..(i' - 1) PROVE seen'[d] = Desired
      BY DEF Counting
    <3>1. state[i] = Desired /\ ready = i - 1
      BY <2>1
    <3> QED BY <1>1, <2>1, <3>1 DEF Counting
  <2> QED BY <2>1, <2>2, <2>3 DEF Ongoing, Wait!ReadyWasSeen
<1> QED BY <1>2, <1>3

\* The other steps of do_wait, and the deadline (devstate.rs:100-131).
LEMMA RoundOK ==
    ASSUME NEW deadline \in BOOLEAN, Waited(deadline),
           \/ Wait(deadline)!BindWatch \/ Wait(deadline)!StartRound
           \/ Wait(deadline)!EndRound \/ Wait(deadline)!Deadline
    PROVE  Waited(deadline)'
<1> USE ConstantsAssumption
    DEF Waited, Wait!TypeOK, Counting, Ongoing, Wait!ReadyWasSeen, Wait!Devices, Wait!store
<1>1. CASE Wait(deadline)!BindWatch
  BY <1>1 DEF Wait!BindWatch, Wait!Event, Wait!Running
<1>2. CASE Wait(deadline)!StartRound
  BY <1>2 DEF Wait!StartRound, Wait!Running, Wait!Unread
<1>3. CASE Wait(deadline)!EndRound
  BY <1>3 DEF Wait!EndRound, Wait!Return, Wait!Running
<1>4. CASE Wait(deadline)!Deadline
  BY <1>4 DEF Wait!Deadline
<1> QED BY <1>1, <1>2, <1>3, <1>4

LEMMA WaitNextOK ==
    ASSUME NEW deadline \in BOOLEAN, Waited(deadline), Wait(deadline)!Next
    PROVE  Waited(deadline)'
<1>1. CASE Wait(deadline)!CheckState
  BY <1>1, CheckOK
<1>2. CASE \E d \in Wait(deadline)!Devices, s \in Wait(deadline)!States :
             Wait(deadline)!Change(d, s)
  BY <1>2, ChangeOK
<1> QED BY <1>1, <1>2, RoundOK DEF Wait!Next, Wait!Waiter

------------------------------------------------------------------------------
(* MmapBatch.                                                               *)

\* What a batch knows where it is: a paged frame lies ahead of the search for the
\* first; the one search that was successful is the one it makes again; an answer
\* is given at the end, and 0 only at once, for the whole window.
Searching ==
  /\ place \in {"map", "scan"} => paged = 0
  /\ place = "map" => i = 0
  /\ place \in {"extend", "retry"} => paged = 1
  /\ place # "done" => result = Batch!Pending

Mapped == Batch!TypeOK /\ Searching /\ Batch!ZeroMeansMapped

LEMMA BatchInitOK == ASSUME Batch!Init PROVE Mapped
  BY ConstantsAssumption
  DEF Batch!Init, Mapped, Batch!TypeOK, Searching, Batch!ZeroMeansMapped, Batch!Frames,
      Batch!Pending

LEMMA BatchNextOK == ASSUME Mapped, Batch!Next PROVE Mapped'
<1> USE ConstantsAssumption
    DEF Mapped, Batch!TypeOK, Searching, Batch!ZeroMeansMapped, Batch!Frames, Batch!Pending,
        Batch!Failed
<1>1. CASE Batch!PageIn
  BY <1>1 DEF Batch!PageIn
<1>2. CASE Batch!MapAll
  <2>1. /\ place = "map" /\ i = 0 /\ UNCHANGED <<away, i, first, paged>>
        /\ away \subseteq Batch!Frames
    BY <1>2 DEF Batch!MapAll
  <2>2. CASE away # {} /\ mapped' = Batch!Frames \ away /\ errors' = away
             /\ place' = "scan" /\ UNCHANGED result
    <3>1. PICK f \in away : f \in 0..(Num - 1)
      BY <2>1, <2>2
    <3>2. Batch!ZeroMeansMapped'
      BY <2>1, <2>2, <3>1
    <3> QED BY <2>1, <2>2, <3>2
  <2>3. CASE mapped' = Batch!Frames /\ Batch!Return(0) /\ UNCHANGED errors
    BY <2>1, <2>3 DEF Batch!Return
  <2>4. CASE Batch!Return(Batch!Failed) /\ UNCHANGED <<mapped, errors>>
    BY <2>1, <2>4 DEF Batch!Return
  <2> QED BY <1>2, <2>2, <2>3, <2>4 DEF Batch!MapAll
<1>3. CASE Batch!Scan
  BY <1>3 DEF Batch!Scan
<1>4. CASE Batch!Extend
  BY <1>4 DEF Batch!Extend
<1>5. CASE Batch!Retry
  <2>1. /\ place = "retry" /\ paged = 1 /\ place' = "done" /\ result' \in {1, -1}
        /\ UNCHANGED <<away, i, first, paged>>
    BY <1>5 DEF Batch!Retry, Batch!Return
  <2>2. first..(i - 1) \subseteq 0..(Num - 1)
    OBVIOUS
  <2>3. mapped' \subseteq 0..(Num - 1) /\ errors' \subseteq 0..(Num - 1)
    BY <1>5, <2>2 DEF Batch!Retry
  <2> QED BY <2>1, <2>3
<1> QED BY <1>1, <1>2, <1>3, <1>4, <1>5 DEF Batch!Next, Batch!Call

------------------------------------------------------------------------------
(* The parts together.                                                      *)

IInv ==
  /\ IF part = "names" THEN NameInv ELSE pc = "loop"
  /\ part = "timed" => Waited(TRUE)
  /\ part = "polling" => Waited(FALSE)
  /\ part = "batch" => Mapped

LEMMA PartInitOK == ASSUME PartInit PROVE IInv
<1>1. Init => NameInv
  BY NameInitOK
<1> QED BY <1>1, WaitInitOK, BatchInitOK DEF PartInit, IInv, NoNames

LEMMA PartNextOK == ASSUME IInv, PartNext PROVE IInv'
<1>1. Rests /\ part' = part /\ (part # "names" => pc' = pc)
  BY DEF PartNext, Rests, nameVars
<1>2. CASE part = "names" /\ Next /\ Rests
  BY <1>1, <1>2, NameNextOK DEF IInv
<1>3. CASE part = "timed" /\ Wait(TRUE)!Next /\ Rests
  <2>1. Waited(TRUE)
    BY <1>3 DEF IInv
  <2> QED BY <1>1, <1>3, <2>1, WaitNextOK DEF IInv
<1>4. CASE part = "polling" /\ Wait(FALSE)!Next /\ Rests
  <2>1. Waited(FALSE)
    BY <1>4 DEF IInv
  <2> QED BY <1>1, <1>4, <2>1, WaitNextOK DEF IInv
<1>5. CASE part = "batch" /\ Batch!Next /\ Rests
  BY <1>1, <1>5, BatchNextOK DEF IInv
<1>6. CASE part \in {"channels", "teardown"} /\ Rests
  BY <1>1, <1>6 DEF IInv
<1> QED BY <1>2, <1>3, <1>4, <1>5, <1>6 DEF PartNext

LEMMA PartStutters == ASSUME IInv, UNCHANGED allVars PROVE IInv'
<1> USE DEF allVars, nameVars, waitVars, batchVars
<1>1. part' = part
  OBVIOUS
<1>2. (NameInv => NameInv') /\ pc' = pc
  BY NameStutters DEF vars
<1>3. \A deadline \in BOOLEAN : Waited(deadline) => Waited(deadline)'
  BY DEF Waited, Wait!TypeOK, Counting, Ongoing, Wait!ReadyWasSeen
<1>4. Mapped => Mapped'
  BY DEF Mapped, Batch!TypeOK, Searching, Batch!ZeroMeansMapped
<1> QED BY <1>1, <1>2, <1>3, <1>4 DEF IInv

LEMMA IInvariance == PartSpec => []IInv
<1>1. PartInit => IInv
  BY PartInitOK
<1>2. IInv /\ [PartNext]_allVars => IInv'
  BY PartNextOK, PartStutters
<1> QED BY <1>1, <1>2, PTL DEF PartSpec

\* Whatever a call answers is true, for any index, any number of devices and
\* states, any capacity of the watch and any number of frames: the digits of a
\* name make up its index, do_wait succeeds only when one round has read the
\* desired state of every device, and a window that mmap_batch answers 0 for
\* shows every frame.
THEOREM AnswersCorrect == PartSpec => []AnswersAreTrue
<1>1. IInv => AnswersAreTrue
  BY DEF IInv, NameInv, Waited, Mapped, AnswersAreTrue
<1> QED BY <1>1, IInvariance, PTL

\* The name of a block device, read as a number, is the one at its index, whatever
\* the index: two devices never share a name (util.rs:3-20).
THEOREM NamesCorrect == PartSpec => []NameIsItsNumber
<1>1. IInv => NameIsItsNumber
  BY NameIsTrue DEF IInv, NameIsItsNumber
<1> QED BY <1>1, IInvariance, PTL
=============================================================================
