---------------------- MODULE DeviceIdAllocatorProofs ----------------------
(***************************************************************************)
(* Proofs about DeviceIdAllocator for every DEVICE_COUNT that is a whole   *)
(* number of bytes and fits a four-byte cursor.                            *)
(***************************************************************************)
EXTENDS DeviceIdAllocator, TLAPS

\* Every index of the bitmap has a successor in the bitmap: the cursor never
\* leaves it (devalloc.rs:49).
LEMMA CursorWraps ==
    ASSUME NEW c \in Ids
    PROVE  /\ (c + 1) % DEVICE_COUNT \in Ids
           /\ c + 1 < DEVICE_COUNT => (c + 1) % DEVICE_COUNT = c + 1
           /\ c + 1 = DEVICE_COUNT => (c + 1) % DEVICE_COUNT = 0
<1>1. c \in Nat /\ DEVICE_COUNT \in Nat /\ c < DEVICE_COUNT /\ DEVICE_COUNT > 0
  BY SizeAssumption DEF Ids, Abs!Ids
<1>2. c + 1 < DEVICE_COUNT => (c + 1) % DEVICE_COUNT = c + 1
  BY <1>1, SMT
<1>3. c + 1 = DEVICE_COUNT => (c + 1) % DEVICE_COUNT = 0
  BY <1>1, SMT
<1> QED
  BY <1>1, <1>2, <1>3 DEF Ids, Abs!Ids

\* Four little-endian bytes give the cursor back (devalloc.rs:30-33, 72-75).
LEMMA CursorRoundTrip ==
    ASSUME NEW flags \in [Ids -> BOOLEAN], NEW c \in Ids
    PROVE  CursorOf(serialize(flags, c)) = c
<1>1. c \in Nat /\ c \div (256 * 256 * 256) < 256
  BY SizeAssumption, SMT DEF Ids, Abs!Ids
<1>2. BYTE_COUNT \in Nat
  BY SizeAssumption, SMT DEF BYTE_COUNT
<1>3. /\ serialize(flags, c)[1] = CursorByte(c, 1)
      /\ serialize(flags, c)[2] = CursorByte(c, 2)
      /\ serialize(flags, c)[3] = CursorByte(c, 3)
      /\ serialize(flags, c)[4] = CursorByte(c, 4)
  BY <1>2, SMT DEF serialize
<1>4. /\ CursorByte(c, 1) = c % 256
      /\ CursorByte(c, 2) = (c \div 256) % 256
      /\ CursorByte(c, 3) = (c \div (256 * 256)) % 256
      /\ CursorByte(c, 4) = (c \div (256 * 256 * 256)) % 256
  BY <1>1, SMT DEF CursorByte, Place
<1>5. CursorOf(serialize(flags, c))
        = (c % 256)
          + ((c \div 256) % 256) * 256
          + ((c \div (256 * 256)) % 256) * (256 * 256)
          + ((c \div (256 * 256 * 256)) % 256) * (256 * 256 * 256)
  BY <1>1, <1>3, <1>4, SMT DEF CursorOf, Place
<1>6. /\ c = (c % 256) + (c \div 256) * 256
      /\ c \div 256 = ((c \div 256) % 256) + (c \div (256 * 256)) * 256
      /\ c \div (256 * 256)
           = ((c \div (256 * 256)) % 256) + (c \div (256 * 256 * 256)) * 256
      /\ c \div (256 * 256 * 256) = (c \div (256 * 256 * 256)) % 256
  BY <1>1, SMT
<1> QED
  BY <1>1, <1>5, <1>6, SMT

\* The flags come back from their packed bytes (devalloc.rs:38, 76).
LEMMA FlagsRoundTrip ==
    ASSUME NEW flags \in [Ids -> BOOLEAN], NEW c \in Ids
    PROVE  FlagsOf(serialize(flags, c)) = flags
<1> DEFINE bytes == serialize(flags, c)
<1>1. SUFFICES ASSUME NEW id \in Ids
               PROVE  ((bytes[5 + (id \div 8)] \div Weight[1 + (id % 8)]) % 2 = 1)
                        <=> flags[id]
  BY Zenon DEF FlagsOf
<1> DEFINE n == id \div 8
           k == id % 8
<1>2. /\ id \in Nat /\ n \in Nat /\ k \in 0 .. 7
      /\ id = 8 * n + k
      /\ n < BYTE_COUNT /\ BYTE_COUNT \in Nat
      /\ \A j \in 0 .. 7 : 8 * n + j \in Ids
  BY SizeAssumption, SMT DEF Ids, Abs!Ids, BYTE_COUNT
<1>3. bytes[5 + n] = FlagByte(flags, n)
  BY <1>2, SMT DEF serialize
<1>4. ((FlagByte(flags, n) \div Weight[1 + k]) % 2 = 1) <=> flags[8 * n + k]
  <2> DEFINE bit(j) == IF flags[8 * n + j] THEN Weight[j + 1] ELSE 0
  <2>1. FlagByte(flags, n) = bit(0) + bit(1) + bit(2) + bit(3) + bit(4)
                             + bit(5) + bit(6) + bit(7)
    BY DEF FlagByte
  <2>2. /\ bit(0) \in {0, 128} /\ bit(1) \in {0, 64} /\ bit(2) \in {0, 32}
        /\ bit(3) \in {0, 16} /\ bit(4) \in {0, 8} /\ bit(5) \in {0, 4}
        /\ bit(6) \in {0, 2} /\ bit(7) \in {0, 1}
    BY SMT DEF Weight
  <2>3. CASE k = 0
    BY <2>1, <2>2, <2>3, SMT DEF Weight
  <2>4. CASE k = 1
    BY <2>1, <2>2, <2>4, SMT DEF Weight
  <2>5. CASE k = 2
    BY <2>1, <2>2, <2>5, SMT DEF Weight
  <2>6. CASE k = 3
    BY <2>1, <2>2, <2>6, SMT DEF Weight
  <2>7. CASE k = 4
    BY <2>1, <2>2, <2>7, SMT DEF Weight
  <2>8. CASE k = 5
    BY <2>1, <2>2, <2>8, SMT DEF Weight
  <2>9. CASE k = 6
    BY <2>1, <2>2, <2>9, SMT DEF Weight
  <2>10. CASE k = 7
    BY <2>1, <2>2, <2>10, SMT DEF Weight
  <2> QED
    BY <1>2, <2>3, <2>4, <2>5, <2>6, <2>7, <2>8, <2>9, <2>10
<1> QED
  BY <1>2, <1>3, <1>4

\* What serialize writes has the length deserialize wants.
LEMMA LengthRoundTrip ==
    ASSUME NEW flags \in [Ids -> BOOLEAN], NEW c \in Ids
    PROVE  deserializable(serialize(flags, c))
<1>1. BYTE_COUNT + 4 \in Nat
  BY SizeAssumption, SMT DEF BYTE_COUNT
<1>2. ASSUME NEW n \in 1 .. BYTE_COUNT + 4
      PROVE  serialize(flags, c)[n] =
               IF n <= 4 THEN CursorByte(c, n) ELSE FlagByte(flags, n - 5)
  BY DEF serialize
<1> QED
  BY <1>1, SMT DEF deserializable, serialize
-----------------------------------------------------------------------------
\* The inductive invariant: what a running scan has skipped is what makes its
\* answer right, and the types keep the cursor on the bitmap.
IInv == TypeOK /\ ScannedAreTaken

\* The inductive invariant holds initially.
LEMMA InitInv == Init => IInv
  BY SizeAssumption, SMT
     DEF Init, IInv, TypeOK, ScannedAreTaken, Ids, NoId, Abs!Ids, Abs!NoId

\* Moving the cursor over a taken id extends the arc of taken ids by that id,
\* unless it closes the circle, and then every id is taken.
LEMMA ArcGrows ==
    ASSUME NEW from \in Ids, NEW c \in Ids, NEW id \in Ids
    PROVE  LET c2 == (c + 1) % DEVICE_COUNT
           IN  /\ c2 # from /\ Abs!InArc(from, c2, id)
                    => id = c \/ Abs!InArc(from, c, id)
               /\ c2 = from => id = c \/ Abs!InArc(from, c, id)
<1> DEFINE c2 == (c + 1) % DEVICE_COUNT
<1>1. /\ c2 \in Ids
      /\ c + 1 < DEVICE_COUNT => c2 = c + 1
      /\ c + 1 = DEVICE_COUNT => c2 = 0
  BY CursorWraps
<1>2. c + 1 < DEVICE_COUNT \/ c + 1 = DEVICE_COUNT
  BY SizeAssumption, SMT DEF Ids, Abs!Ids
<1> HIDE DEF c2
<1>3. /\ c2 # from /\ Abs!InArc(from, c2, id)
           => id = c \/ Abs!InArc(from, c, id)
      /\ c2 = from => id = c \/ Abs!InArc(from, c, id)
  BY <1>1, <1>2, SizeAssumption, SMT DEF Abs!InArc, Ids, Abs!Ids
<1> QED
  BY <1>3 DEF c2

\* Every step keeps the inductive invariant.
LEMMA NextInv == IInv /\ [Next]_vars => IInv'
<1> SUFFICES ASSUME IInv, [Next]_vars
             PROVE  IInv'
  OBVIOUS
<1> USE DEF IInv, TypeOK
<1>1. CASE AllocateCall
  BY <1>1, SMT DEF AllocateCall, ScannedAreTaken, Abs!InArc, Ids, Abs!Ids
<1>2. CASE ScanTake
  BY <1>2, CursorWraps DEF ScanTake, ScannedAreTaken
<1>3. CASE ScanSkip
  <2>1. TypeOK'
    BY <1>3, CursorWraps DEF ScanSkip
  <2>2. ASSUME pc' = "scan", NEW id \in Ids, Abs!InArc(start, cursor', id)
        PROVE  states[id]
    <3>1. cursor' # start
      BY <1>3, <2>2 DEF ScanSkip
    <3>2. id = cursor \/ Abs!InArc(start, cursor, id)
      BY <1>3, <2>2, <3>1, ArcGrows DEF ScanSkip
    <3> QED
      BY <1>3, <3>2 DEF ScanSkip, ScannedAreTaken
  <2>3. ScannedAreTaken'
    BY <1>3, <2>2 DEF ScanSkip, ScannedAreTaken, Abs!InArc
  <2> QED
    BY <2>1, <2>3
<1>4. ASSUME NEW id \in Releasable, release(id)
      PROVE  IInv'
  BY <1>4, ReleasableAssumption DEF release, ScannedAreTaken, NoId, Ids, Abs!Ids
<1>5. CASE Reload
  <2>1. states' = states /\ cursor' = cursor
    BY <1>5, LengthRoundTrip, FlagsRoundTrip, CursorRoundTrip DEF Reload
  <2> QED
    BY <1>5, <2>1 DEF Reload, ScannedAreTaken
<1>6. CASE UNCHANGED vars
  BY <1>6 DEF vars, ScannedAreTaken
<1> QED
  BY <1>1, <1>2, <1>3, <1>4, <1>5, <1>6 DEF Next

\* In every reachable state the variables have their types.
THEOREM TypeCorrect == Spec => []TypeOK
<1>1. IInv => TypeOK
  BY DEF IInv
<1> QED
  BY InitInv, NextInv, <1>1, PTL DEF Spec

\* In every reachable state a running scan has skipped taken ids only
\* (devalloc.rs:44-59).
THEOREM ScanCorrect == Spec => []ScannedAreTaken
<1>1. IInv => ScannedAreTaken
  BY DEF IInv
<1> QED
  BY InitInv, NextInv, <1>1, PTL DEF Spec

\* In every reachable state the bytes a commit would store give the very same
\* allocator back (devalloc.rs:25-41, 70-78).
THEOREM StoredFormCorrect == Spec => []StoredFormIsFaithful
<1>1. IInv => StoredFormIsFaithful
  BY LengthRoundTrip, FlagsRoundTrip, CursorRoundTrip
     DEF IInv, TypeOK, StoredFormIsFaithful
<1> QED
  BY InitInv, NextInv, <1>1, PTL DEF Spec

\* Every step of the code's allocator is a step of the next-fit allocator over
\* sets of ids, or a stutter: an id in use is never handed out and None means
\* that all are in use (devalloc.rs:43-64).
THEOREM RefinesIdAllocator == Spec => ImplementsIdAllocator
<1> DEFINE used == {id \in 0 .. DEVICE_COUNT - 1 : states[id]}
           from == IF pc = "scan" THEN start ELSE cursor
<1> USE DEF Abs!Ids, Abs!NoId, Ids, NoId
<1>1. Init => Abs!AbsInit
  BY SizeAssumption DEF Init, Abs!AbsInit
<1>2. IInv /\ [Next]_vars => [Abs!AbsNext]_(Abs!absVars)
  <2> SUFFICES ASSUME IInv, [Next]_vars
               PROVE  Abs!AbsNext \/ UNCHANGED Abs!absVars
    BY DEF Abs!absVars
  <2> USE DEF IInv, TypeOK
  <2>1. CASE AllocateCall
    BY <2>1 DEF AllocateCall, Abs!absVars
  <2>2. CASE ScanTake
    <3>1. Abs!IsNextFree(used, from, cursor)
      BY <2>2 DEF ScanTake, Abs!IsNextFree, ScannedAreTaken
    <3>2. used' = used \cup {cursor}
      BY <2>2 DEF ScanTake
    <3>3. from' = Abs!Succ(cursor) /\ ret' = cursor /\ cursor \in Ids
      BY <2>2 DEF ScanTake, Abs!Succ
    <3> QED
      BY <3>1, <3>2, <3>3 DEF Abs!AbsNext, Abs!AbsAllocate
  <2>3. CASE ScanSkip
    <3>1. used' = used
      BY <2>3 DEF ScanSkip
    <3>2. CASE cursor' = start
      <4>1. ASSUME NEW id \in Ids
            PROVE  states[id]
        BY <2>3, <3>2, ArcGrows DEF ScanSkip, ScannedAreTaken
      <4>2. used = Ids
        BY <4>1
      <4>3. from' = from /\ ret' = NoId
        BY <2>3, <3>2 DEF ScanSkip
      <4> QED
        BY <3>1, <4>2, <4>3 DEF Abs!AbsNext, Abs!AbsExhausted
    <3>3. CASE cursor' # start
      BY <2>3, <3>1, <3>3 DEF ScanSkip, Abs!absVars
    <3> QED
      BY <3>2, <3>3
  <2>4. ASSUME NEW id \in Releasable, release(id)
        PROVE  Abs!AbsNext
    <3>1. used' = used \ {id}
      BY <2>4, ReleasableAssumption DEF release
    <3>2. from' = from /\ ret' = NoId /\ id \in Ids
      BY <2>4, ReleasableAssumption DEF release
    <3> QED
      BY <3>1, <3>2 DEF Abs!AbsNext, Abs!AbsRelease
  <2>5. CASE Reload
    <3>1. states' = states /\ cursor' = cursor
      BY <2>5, LengthRoundTrip, FlagsRoundTrip, CursorRoundTrip DEF Reload
    <3> QED
      BY <2>5, <3>1 DEF Reload, Abs!absVars
  <2>6. CASE UNCHANGED vars
    BY <2>6 DEF vars, Abs!absVars
  <2> QED
    BY <2>1, <2>2, <2>3, <2>4, <2>5, <2>6 DEF Next
<1> QED
  BY InitInv, NextInv, <1>1, <1>2, PTL
     DEF Spec, ImplementsIdAllocator, Abs!AbsSpec
=============================================================================
