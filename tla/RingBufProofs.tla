--------------------------- MODULE RingBufProofs ---------------------------
(***************************************************************************)
(* Proofs about module RingBuf, for every capacity and every argument: the *)
(* inductive invariant, and that the buffer implements ByteQueue.          *)
(***************************************************************************)
EXTENDS RingBuf, SequenceTheorems, TLAPS

\* An index that has gone past the end of the array once comes back by Size.
LEMMA Wrap ==
  ASSUME NEW a \in 0..(2 * Size - 1)
  PROVE  /\ a % Size = IF a < Size THEN a ELSE a - Size
         /\ a % Size \in 0..(Size - 1)
<1> USE RingAssumption
<1>1. CASE a < Size
  BY <1>1
<1>2. CASE a >= Size
  BY <1>2
<1>3. QED
  BY <1>1, <1>2

\* The same, for an index that is known to be inside or past the array.
LEMMA WrapCases ==
  ASSUME NEW a \in 0..(2 * Size - 1)
  PROVE  /\ a < Size => a % Size = a
         /\ ~(a < Size) => a % Size = a - Size
         /\ a % Size \in 0..(Size - 1)
BY Wrap

\* A caller's bytes: a sequence no longer than the longest argument.
LEMMA StringLength ==
  ASSUME NEW s \in ByteStrings
  PROVE  /\ s \in Seq(Byte) /\ Len(s) \in 0..MaxLen
         /\ \A i \in 1..Len(s) : s[i] \in Byte
<1>1. PICK k \in 0..MaxLen : s \in [1..k -> Byte]
  BY DEF ByteStrings
<1>2. k \in Nat
  BY RingAssumption
<1>3. QED
  BY <1>1, <1>2

\* A freshly initialised buffer satisfies the invariant.
LEMMA InitInv == Init => IInv
<1> SUFFICES ASSUME Init PROVE IInv
  OBVIOUS
<1> USE RingAssumption DEF Init, Tasks
<1>1. TypeOK
  <2>1. << >> \in ByteStrings
    BY DEF ByteStrings
  <2>2. QED
    BY <2>1 DEF TypeOK
<1>2. InsideHoldsLock /\ WriteInProgress /\ ReadInProgress /\ RoomIsStillThere
  BY DEF InsideHoldsLock, WriteInProgress, ReadInProgress, RoomIsStillThere
<1>3. HeadFollowsContents
  BY Wrap DEF HeadFollowsContents
<1>4. QED
  BY <1>1, <1>2, <1>3 DEF IInv

-----------------------------------------------------------------------------
(* What the invariant says of the task that is inside an operation.        *)

\* The parts of the type invariant the arithmetic below needs, as plain facts.
LEMMA TypeFacts ==
  ASSUME TypeOK
  PROVE  /\ data \in [0..(Size - 1) -> Byte]
         /\ head \in 0..(Size - 1) /\ tail \in 0..(Size - 1) /\ count \in 0..Size
         /\ Size \in Nat \ {0} /\ MaxLen \in Nat
         /\ pc \in [Tasks -> {"idle", "first", "rest", "publish"}]
         /\ n \in [Tasks -> 0..Size] /\ loaded \in [Tasks -> 0..Size]
         /\ Len(src) \in 0..MaxLen /\ \A i \in 1..Len(src) : src[i] \in Byte
<1>1. src \in ByteStrings
  BY DEF TypeOK
<1>2. Len(src) \in 0..MaxLen /\ \A i \in 1..Len(src) : src[i] \in Byte
  BY <1>1, StringLength
<1>3. QED
  BY RingAssumption, <1>2 DEF TypeOK

\* What is known of a writer inside rb_write: its length fits and its indices
\* are inside the array.
LEMMA WriterFacts ==
  ASSUME TypeOK, WriteInProgress, pc["producer"] # "idle"
  PROVE  /\ n["producer"] \in 0..Size
         /\ n["producer"] <= Len(src) /\ n["producer"] <= Size - count
         /\ FirstPart(head, n["producer"]) \in 0..n["producer"]
         /\ FirstPart(head, n["producer"]) <= Size - head
         /\ FirstPart(head, n["producer"]) \in {n["producer"], Size - head}
         /\ pc["producer"] = "publish" => loaded["producer"] = count
<1>1. /\ n["producer"] \in 0..Size
      /\ n["producer"] <= Len(src) /\ n["producer"] <= Size - count
      /\ pc["producer"] = "publish" => loaded["producer"] = count
  <2>1. n["producer"] \in 0..Size /\ Len(src) \in Nat /\ count \in 0..Size /\ Size \in Nat
    BY TypeFacts DEF Tasks
  <2>2. /\ n["producer"] = Lesser(Len(src), Size - count)
        /\ pc["producer"] = "publish" => loaded["producer"] = count
    BY DEF WriteInProgress
  <2>3. QED
    BY <2>1, <2>2 DEF Lesser
<1>2. head \in 0..(Size - 1) /\ Size \in Nat
  BY TypeFacts
<1>3. QED
  BY <1>1, <1>2 DEF FirstPart, Lesser

\* What is known of a reader inside rb_read.
LEMMA ReaderFacts ==
  ASSUME TypeOK, ReadInProgress, pc["consumer"] # "idle"
  PROVE  /\ n["consumer"] \in 0..Size
         /\ n["consumer"] <= count /\ n["consumer"] <= MaxLen
         /\ FirstPart(tail, n["consumer"]) \in 0..n["consumer"]
         /\ FirstPart(tail, n["consumer"]) <= Size - tail
         /\ FirstPart(tail, n["consumer"]) \in {n["consumer"], Size - tail}
         /\ pc["consumer"] = "publish" => loaded["consumer"] = count
<1>1. /\ n["consumer"] \in 0..Size
      /\ n["consumer"] <= count /\ n["consumer"] <= MaxLen
      /\ pc["consumer"] = "publish" => loaded["consumer"] = count
  BY TypeFacts DEF ReadInProgress, Tasks
<1>2. tail \in 0..(Size - 1) /\ Size \in Nat
  BY TypeFacts
<1>3. QED
  BY <1>1, <1>2 DEF FirstPart, Lesser

-----------------------------------------------------------------------------
(* Type correctness.                                                       *)

\* Every step of either task keeps the indices inside the array and the count
\* inside the capacity.
LEMMA NextType == IInv /\ [Next]_vars => TypeOK'
<1> SUFFICES ASSUME IInv, [Next]_vars PROVE TypeOK'
  OBVIOUS
<1>1. TypeOK /\ WriteInProgress /\ ReadInProgress
  BY DEF IInv
<1>2. /\ Size \in Nat \ {0} /\ MaxLen \in Nat
      /\ head \in 0..(Size - 1) /\ tail \in 0..(Size - 1) /\ count \in 0..Size
  BY <1>1, TypeFacts
<1> USE DEF Tasks, Goto, Acquire
<1>3. ASSUME NEW s \in ByteStrings, WriteBegin(s) PROVE TypeOK'
  <2>1. Lesser(Len(s), Size - count) \in 0..Size
    BY <1>1, TypeFacts, StringLength DEF Lesser
  <2>2. QED
    BY <1>3, <1>1, <2>1 DEF WriteBegin, TypeOK
<1>4. CASE WriteFirst
  <2>1. pc["producer"] # "idle"
    BY <1>4 DEF WriteFirst
  <2> DEFINE first == FirstPart(head, n["producer"])
             stored(i) == IF i \in head..(head + first - 1)
                          THEN src[i - head + 1] ELSE data[i]
  <2>2. data' \in [0..(Size - 1) -> Byte]
    <3>1. ASSUME NEW i \in 0..(Size - 1) PROVE stored(i) \in Byte
      <4>1. data[i] \in Byte
        BY <1>1, TypeFacts
      <4>2. i \in head..(head + first - 1) => i - head + 1 \in 1..Len(src)
        <5>1. first \in Nat /\ first <= n["producer"] /\ n["producer"] \in Nat
          BY <1>1, <2>1, TypeFacts, WriterFacts
        <5>2. n["producer"] <= Len(src) /\ Len(src) \in Nat /\ head \in Nat
          BY <1>1, <2>1, TypeFacts, WriterFacts
        <5> HIDE DEF first
        <5>3. QED
          BY <5>1, <5>2
      <4>3. \A j \in 1..Len(src) : src[j] \in Byte
        BY <1>1, TypeFacts
      <4>4. QED
        BY <4>1, <4>2, <4>3
    <3>2. data' = [i \in 0..(Size - 1) |-> stored(i)]
      BY <1>4 DEF WriteFirst
    <3> HIDE DEF stored
    <3>3. QED
      BY <3>1, <3>2
  <2>3. QED
    BY <1>4, <1>1, <2>2 DEF WriteFirst, TypeOK
<1>5. CASE WriteRest
  <2>1. pc["producer"] # "idle"
    BY <1>5 DEF WriteRest
  <2> DEFINE first == FirstPart(head, n["producer"])
             stored(i) == IF i < n["producer"] - first
                          THEN src[first + i + 1] ELSE data[i]
  <2>2. data' \in [0..(Size - 1) -> Byte]
    <3>1. ASSUME NEW i \in 0..(Size - 1) PROVE stored(i) \in Byte
      <4>1. data[i] \in Byte
        BY <1>1, TypeFacts
      <4>2. i < n["producer"] - first => first + i + 1 \in 1..Len(src)
        <5>1. first \in Nat /\ first <= n["producer"] /\ n["producer"] \in Nat
          BY <1>1, <2>1, TypeFacts, WriterFacts
        <5>2. n["producer"] <= Len(src) /\ Len(src) \in Nat /\ head \in Nat
          BY <1>1, <2>1, TypeFacts, WriterFacts
        <5> HIDE DEF first
        <5>3. QED
          BY <5>1, <5>2
      <4>3. \A j \in 1..Len(src) : src[j] \in Byte
        BY <1>1, TypeFacts
      <4>4. QED
        BY <4>1, <4>2, <4>3
    <3>2. data' = [i \in 0..(Size - 1) |-> stored(i)]
      BY <1>5 DEF WriteRest
    <3> HIDE DEF stored
    <3>3. QED
      BY <3>1, <3>2
  <2>3. QED
    BY <1>5, <1>1, <2>2 DEF WriteRest, TypeOK
<1>6. CASE WritePublish
  <2>1. pc["producer"] = "publish"
    BY <1>6 DEF WritePublish
  <2> DEFINE k == n["producer"]
  <2>2. k \in 0..Size /\ k <= Size - count /\ loaded["producer"] = count
    BY <1>1, <2>1, WriterFacts
  <2>3. head' = (head + k) % Size /\ count' = count + k /\ accepted' = k /\ room' = 0
    BY <1>6, <2>2 DEF WritePublish
  <2> HIDE DEF k
  <2>4. head + k \in 0..(2 * Size - 1)
    BY <1>2, <2>2
  <2>5. head' \in 0..(Size - 1)
    BY <2>3, <2>4, Wrap
  <2>6. count' \in 0..Size /\ accepted' \in 0..Size /\ room' \in 0..Size
    BY <1>2, <2>3, <2>2
  <2>7. QED
    BY <1>6, <1>1, <2>5, <2>6 DEF WritePublish, TypeOK
<1>7. ASSUME NEW len \in 0..MaxLen, ReadBegin(len) PROVE TypeOK'
  <2>1. Lesser(len, count) \in 0..Size
    BY <1>1, TypeFacts DEF Lesser
  <2>2. QED
    BY <1>7, <1>1, <2>1 DEF ReadBegin, TypeOK
<1>8. CASE ReadFirst
  <2>1. pc["consumer"] # "idle"
    BY <1>8 DEF ReadFirst
  <2> DEFINE first == FirstPart(tail, n["consumer"])
  <2>2. first \in Nat /\ \A i \in 1..first : data[tail + i - 1] \in Byte
    <3>1. first \in Nat /\ first <= Size - tail
      BY <1>1, <2>1, ReaderFacts
    <3>2. data \in [0..(Size - 1) -> Byte]
      BY <1>1, TypeFacts
    <3> HIDE DEF first
    <3>3. \A i \in 1..first : tail + i - 1 \in 0..(Size - 1)
      BY <1>2, <3>1
    <3>4. QED
      BY <3>1, <3>2, <3>3
  <2>3. dst' = [i \in 1..first |-> data[tail + i - 1]]
    BY <1>8 DEF ReadFirst
  <2>4. dst' \in Seq(Byte)
    <3> HIDE DEF first
    <3> QED BY <2>2, <2>3
  <2>5. QED
    BY <1>8, <1>1, <2>4 DEF ReadFirst, TypeOK
<1>9. CASE ReadRest
  <2>1. pc["consumer"] = "rest"
    BY <1>9 DEF ReadRest
  <2> DEFINE k == n["consumer"]
             first == FirstPart(tail, k)
             moved(i) == IF i <= first THEN dst[i] ELSE data[i - first - 1]
  <2>2. dst \in Seq(Byte) /\ Len(dst) = first
    BY <1>1, <2>1 DEF ReadInProgress, TypeOK
  <2>3. k \in 0..Size
    BY <1>1, <2>1, ReaderFacts
  <2>4. \A i \in 1..k : moved(i) \in Byte
    <3>1. first \in 0..k /\ first \in {k, Size - tail}
      BY <1>1, <2>1, ReaderFacts
    <3>2. data \in [0..(Size - 1) -> Byte]
      BY <1>1, TypeFacts
    <3> HIDE DEF k, first
    <3>3. \A i \in 1..k : i > first => i - first - 1 \in 0..(Size - 1)
      BY <1>2, <2>3, <3>1
    <3>4. QED
      BY <2>2, <2>3, <3>1, <3>2, <3>3
  <2>5. dst' = [i \in 1..k |-> moved(i)]
    BY <1>9 DEF ReadRest
  <2>6. dst' \in Seq(Byte)
    <3> HIDE DEF moved, k
    <3> QED BY <2>3, <2>4, <2>5
  <2>7. loaded' \in [Tasks -> 0..Size]
    BY <1>9, <1>1, TypeFacts DEF ReadRest
  <2>8. QED
    BY <1>9, <1>1, <2>6, <2>7 DEF ReadRest, TypeOK
<1>10. CASE ReadPublish
  <2>1. pc["consumer"] = "publish"
    BY <1>10 DEF ReadPublish
  <2> DEFINE k == n["consumer"]
  <2>2. k \in 0..Size /\ k <= count /\ loaded["consumer"] = count
    BY <1>1, <2>1, ReaderFacts
  <2>3. tail' = (tail + k) % Size /\ count' = count - k
    BY <1>10, <2>2 DEF ReadPublish
  <2> HIDE DEF k
  <2>4. tail + k \in 0..(2 * Size - 1)
    BY <1>2, <2>2
  <2>5. tail' \in 0..(Size - 1)
    BY <2>3, <2>4, Wrap
  <2>6. count' \in 0..Size
    BY <1>2, <2>3, <2>2
  <2>7. QED
    BY <1>10, <1>1, <2>5, <2>6 DEF ReadPublish, TypeOK
<1>11. CASE FreeSpace
  <2>1. room' \in 0..Size
    BY <1>11, <1>1, TypeFacts DEF FreeSpace
  <2>2. QED
    BY <1>11, <1>1, <2>1 DEF FreeSpace, TypeOK
<1>12. CASE SetEof
  BY <1>12, <1>1 DEF SetEof, TypeOK
<1>13. CASE Reset
  <2>1. head' \in 0..(Size - 1) /\ tail' \in 0..(Size - 1) /\ count' \in 0..Size
    BY <1>13, RingAssumption DEF Reset
  <2>2. eof' \in BOOLEAN
    BY <1>13 DEF Reset
  <2>3. QED
    BY <1>13, <1>1, <2>1, <2>2 DEF Reset, TypeOK
<1>14. CASE UNCHANGED vars
  BY <1>14, <1>1 DEF vars, TypeOK
<1>15. QED
  BY <1>3, <1>4, <1>5, <1>6, <1>7, <1>8, <1>9, <1>10, <1>11, <1>12, <1>13, <1>14
  DEF Next

-----------------------------------------------------------------------------
(* The lock: only one task is inside an operation.                         *)

\* Two tasks are never inside operations at once: the lock excludes the other.
LEMMA OnlyOneInside ==
  ASSUME TypeOK, InsideHoldsLock
  PROVE  /\ pc["producer"] # "idle" => pc["consumer"] = "idle" /\ lock = "producer"
         /\ pc["consumer"] # "idle" => pc["producer"] = "idle" /\ lock = "consumer"
         /\ lock = "none" => pc["producer"] = "idle" /\ pc["consumer"] = "idle"
BY DEF TypeOK, InsideHoldsLock, Tasks

\* Every step leaves the lock with the task that is inside, if one is.
LEMMA NextLock == IInv /\ [Next]_vars => InsideHoldsLock'
<1> SUFFICES ASSUME IInv, [Next]_vars PROVE InsideHoldsLock'
  OBVIOUS
<1>1. /\ pc \in [Tasks -> {"idle", "first", "rest", "publish"}]
      /\ InsideHoldsLock
  BY DEF IInv, TypeOK
<1> USE <1>1 DEF InsideHoldsLock, Tasks, Goto, Acquire
<1>2. ASSUME NEW s \in ByteStrings, WriteBegin(s) PROVE InsideHoldsLock'
  BY <1>2 DEF WriteBegin
<1>3. CASE WriteFirst \/ WriteRest \/ WritePublish
  BY <1>3 DEF WriteFirst, WriteRest, WritePublish
<1>4. ASSUME NEW len \in 0..MaxLen, ReadBegin(len) PROVE InsideHoldsLock'
  BY <1>4 DEF ReadBegin
<1>5. CASE ReadFirst \/ ReadRest \/ ReadPublish
  BY <1>5 DEF ReadFirst, ReadRest, ReadPublish
<1>6. CASE FreeSpace \/ SetEof \/ Reset
  BY <1>6 DEF FreeSpace, SetEof, Reset
<1>7. CASE UNCHANGED vars
  BY <1>7 DEF vars
<1>8. QED
  BY <1>2, <1>3, <1>4, <1>5, <1>6, <1>7 DEF Next

-----------------------------------------------------------------------------
(* The measured room, and where the write index points.                    *)

\* What the two publishing steps do to the indices and the count.
LEMMA WritePublishes ==
  ASSUME IInv, WritePublish
  PROVE  /\ n["producer"] \in 0..(Size - count)
         /\ head' = (head + n["producer"]) % Size
         /\ count' = count + n["producer"]
         /\ tail' = tail /\ data' = data
<1>1. pc["producer"] = "publish"
  BY DEF WritePublish
<1>2. TypeOK /\ WriteInProgress
  BY DEF IInv
<1>3. n["producer"] \in 0..(Size - count) /\ loaded["producer"] = count
  BY <1>1, <1>2, TypeFacts, WriterFacts
<1>4. QED
  BY <1>3 DEF WritePublish

\* What rb_read's publishing step does to the read index and the count.
LEMMA ReadPublishes ==
  ASSUME IInv, ReadPublish
  PROVE  /\ n["consumer"] \in 0..count
         /\ tail' = (tail + n["consumer"]) % Size
         /\ count' = count - n["consumer"]
         /\ head' = head /\ data' = data
<1>1. pc["consumer"] = "publish"
  BY DEF ReadPublish
<1>2. TypeOK /\ ReadInProgress
  BY DEF IInv
<1>3. n["consumer"] \in 0..count /\ loaded["consumer"] = count
  BY <1>1, <1>2, TypeFacts, ReaderFacts
<1>4. QED
  BY <1>3 DEF ReadPublish

\* No other step moves an index or the count, except a reset.
LEMMA OthersKeepIndices ==
  ASSUME [Next]_vars, ~WritePublish, ~ReadPublish, ~Reset
  PROVE  UNCHANGED <<head, tail, count>>
BY DEF Next, vars, WriteBegin, WriteFirst, WriteRest, ReadBegin, ReadFirst,
       ReadRest, FreeSpace, SetEof

\* Every step leaves the write index where the queued bytes end.
LEMMA NextHead == IInv /\ [Next]_vars => HeadFollowsContents'
<1> SUFFICES ASSUME IInv, [Next]_vars PROVE HeadFollowsContents'
  OBVIOUS
<1>1. /\ head \in 0..(Size - 1) /\ tail \in 0..(Size - 1) /\ count \in 0..Size
      /\ Size \in Nat \ {0}
  BY TypeFacts DEF IInv
<1>2. head = IF tail + count < Size THEN tail + count ELSE tail + count - Size
  <2>1. tail + count \in 0..(2 * Size - 1)
    BY <1>1
  <2>2. QED
    BY <1>1, <2>1, Wrap DEF IInv, HeadFollowsContents
<1>3. CASE WritePublish
  <2> DEFINE k == n["producer"]
  <2>1. k \in 0..(Size - count) /\ head' = (head + k) % Size
        /\ count' = count + k /\ tail' = tail
    BY <1>3, WritePublishes
  <2> HIDE DEF k
  <2>2. head + k \in 0..(2 * Size - 1) /\ tail + (count + k) \in 0..(2 * Size - 1)
    BY <2>1, <1>1
  <2>3. head' = IF head + k < Size THEN head + k ELSE head + k - Size
    BY <1>1, <2>1, <2>2, Wrap
  <2>4. (tail + (count + k)) % Size =
          IF tail + (count + k) < Size THEN tail + (count + k)
          ELSE tail + (count + k) - Size
    BY <1>1, <2>1, <2>2, Wrap
  <2>5. head' = (tail + (count + k)) % Size
    BY <1>2, <1>1, <2>1, <2>3, <2>4
  <2>6. QED
    BY <2>1, <2>5 DEF HeadFollowsContents
<1>4. CASE ReadPublish
  <2> DEFINE k == n["consumer"]
  <2>1. k \in 0..count /\ tail' = (tail + k) % Size
        /\ count' = count - k /\ head' = head
    BY <1>4, ReadPublishes
  <2> HIDE DEF k
  <2>2. tail + k \in 0..(2 * Size - 1)
    BY <2>1, <1>1
  <2>3. tail' = IF tail + k < Size THEN tail + k ELSE tail + k - Size
    BY <1>1, <2>1, <2>2, Wrap
  <2>4. tail' + (count - k) \in 0..(2 * Size - 1)
    BY <1>1, <2>1, <2>3
  <2>5. (tail' + (count - k)) % Size =
          IF tail' + (count - k) < Size THEN tail' + (count - k)
          ELSE tail' + (count - k) - Size
    BY <1>1, <2>1, <2>3, <2>4, Wrap
  <2>6. head = (tail' + (count - k)) % Size
    <3>1. k \in 0..count
      BY <2>1
    <3>2. CASE tail + k < Size
      BY <1>2, <1>1, <2>3, <2>5, <3>1, <3>2
    <3>3. CASE tail + k >= Size
      BY <1>2, <1>1, <2>3, <2>5, <3>1, <3>3
    <3>4. QED
      BY <1>1, <3>1, <3>2, <3>3
  <2>7. QED
    BY <2>1, <2>6 DEF HeadFollowsContents
<1>5. CASE Reset
  <2>1. (0 + 0) % Size = 0
    BY Wrap, RingAssumption
  <2>2. QED
    BY <1>5, <2>1 DEF Reset, HeadFollowsContents
<1>6. CASE ~WritePublish /\ ~ReadPublish /\ ~Reset
  BY <1>6, OthersKeepIndices DEF HeadFollowsContents, IInv
<1>7. QED
  BY <1>3, <1>4, <1>5, <1>6

\* Every step leaves at least the room the producer last measured.
LEMMA NextRoom == IInv /\ [Next]_vars => RoomIsStillThere'
<1> SUFFICES ASSUME IInv, [Next]_vars PROVE RoomIsStillThere'
  OBVIOUS
<1>1. /\ count \in 0..Size /\ room \in 0..Size /\ Size \in Nat
      /\ RoomIsStillThere
  BY TypeFacts DEF IInv, TypeOK
<1> USE <1>1 DEF RoomIsStillThere
<1>2. CASE WritePublish
  <2>1. room' = 0
    BY <1>2 DEF WritePublish
  <2>2. QED
    BY <1>2, <2>1, WritePublishes
<1>3. CASE ReadPublish
  <2>1. room' = room
    BY <1>3 DEF ReadPublish
  <2>2. n["consumer"] \in 0..count /\ count' = count - n["consumer"]
    BY <1>3, ReadPublishes
  <2>3. QED
    BY <2>1, <2>2
<1>4. CASE Reset
  BY <1>4 DEF Reset
<1>5. CASE FreeSpace
  BY <1>5 DEF FreeSpace
<1>6. CASE ~WritePublish /\ ~ReadPublish /\ ~Reset /\ ~FreeSpace
  <2>1. UNCHANGED <<count, room>>
    BY <1>6 DEF Next, vars, WriteBegin, WriteFirst, WriteRest, ReadBegin,
                ReadFirst, ReadRest, SetEof
  <2>2. QED
    BY <2>1
<1>7. QED
  BY <1>2, <1>3, <1>4, <1>5, <1>6

-----------------------------------------------------------------------------
(* The bytes an operation in progress has moved.                           *)

\* Every step leaves a write in progress with its bytes in place behind the
\* queued ones.
LEMMA NextWrite == IInv /\ [Next]_vars => WriteInProgress'
<1> SUFFICES ASSUME IInv, [Next]_vars PROVE WriteInProgress'
  OBVIOUS
<1>1. TypeOK /\ InsideHoldsLock /\ WriteInProgress
  BY DEF IInv
<1>2. /\ pc \in [Tasks -> {"idle", "first", "rest", "publish"}]
      /\ n \in [Tasks -> 0..Size] /\ loaded \in [Tasks -> 0..Size]
      /\ Size \in Nat \ {0}
  BY <1>1, TypeFacts
<1>3. pc'["producer"] = "idle" => WriteInProgress'
  BY DEF WriteInProgress
<1> USE DEF Goto, Acquire, Tasks
<1>4. ASSUME NEW s \in ByteStrings, WriteBegin(s) PROVE WriteInProgress'
  <2>1. pc'["producer"] = "first" /\ count' = count /\ src' = s
    BY <1>4, <1>2 DEF WriteBegin
  <2>2. n'["producer"] = Lesser(Len(s), Size - count)
    BY <1>4, <1>2 DEF WriteBegin
  <2>3. QED
    BY <2>1, <2>2 DEF WriteInProgress
<1>5. CASE WriteFirst
  <2>1. pc["producer"] = "first" /\ pc'["producer"] = "rest"
    BY <1>5, <1>2 DEF WriteFirst
  <2>2. UNCHANGED <<n, src, count, head>>
    BY <1>5 DEF WriteFirst
  <2>3. n["producer"] = Lesser(Len(src), Size - count)
    BY <1>1, <2>1 DEF WriteInProgress
  <2> DEFINE first == FirstPart(head, n["producer"])
  <2>4. ASSUME NEW i \in 1..first PROVE data'[head + i - 1] = src[i]
    <3>1. head \in 0..(Size - 1) /\ first \in Nat /\ first <= Size - head
      BY <1>1, <2>1, TypeFacts, WriterFacts
    <3>2. data' = [j \in 0..(Size - 1) |->
                     IF j \in head..(head + first - 1) THEN src[j - head + 1] ELSE data[j]]
      BY <1>5 DEF WriteFirst
    <3> HIDE DEF first
    <3>3. head + i - 1 \in 0..(Size - 1) /\ head + i - 1 \in head..(head + first - 1)
      BY <1>2, <3>1
    <3>4. (head + i - 1) - head + 1 = i
      BY <3>1
    <3>5. QED
      BY <3>2, <3>3, <3>4
  <2>5. QED
    BY <2>1, <2>2, <2>3, <2>4 DEF WriteInProgress, FirstPart, Lesser
<1>6. CASE WriteRest
  <2>1. pc["producer"] = "rest" /\ pc'["producer"] = "publish"
    BY <1>6, <1>2 DEF WriteRest
  <2>2. UNCHANGED <<n, src, count, head>> /\ loaded'["producer"] = count
    BY <1>6, <1>2 DEF WriteRest
  <2>3. n["producer"] = Lesser(Len(src), Size - count)
    BY <1>1, <2>1 DEF WriteInProgress
  <2> DEFINE k == n["producer"]
             first == FirstPart(head, k)
  <2>4. ASSUME NEW i \in 1..k PROVE data'[(head + i - 1) % Size] = src[i]
    <3>1. /\ head \in 0..(Size - 1) /\ first \in 0..k /\ first <= Size - head
          /\ first \in {k, Size - head} /\ k \in 0..Size
      BY <1>1, <2>1, TypeFacts, WriterFacts
    <3>2. \A j \in 1..first : data[head + j - 1] = src[j]
      BY <1>1, <2>1 DEF WriteInProgress
    <3>3. data' = [j \in 0..(Size - 1) |->
                     IF j < k - first THEN src[first + j + 1] ELSE data[j]]
      BY <1>6 DEF WriteRest
    <3> HIDE DEF k, first
    <3>4. head + i - 1 \in 0..(2 * Size - 1)
      BY <1>2, <3>1
    <3>5. CASE i <= first
      <4>1. (head + i - 1) % Size = head + i - 1 /\ head + i - 1 \in 0..(Size - 1)
        <5>1. head + i - 1 < Size
          BY <1>2, <3>1, <3>5
        <5>2. QED
          BY <3>4, <5>1, Wrap
      <4>2. ~(head + i - 1 < k - first)
        BY <1>2, <3>1, <3>5
      <4>3. data'[head + i - 1] = data[head + i - 1]
        BY <3>3, <4>1, <4>2
      <4>4. QED
        BY <3>1, <3>2, <3>5, <4>1, <4>3
    <3>6. CASE i > first
      <4>1. first = Size - head
        BY <3>1, <3>6
      <4>2. (head + i - 1) % Size = i - first - 1 /\ i - first - 1 \in 0..(Size - 1)
        <5>1. ~(head + i - 1 < Size)
          BY <1>2, <3>1, <3>6, <4>1
        <5>2. /\ (head + i - 1) % Size = (head + i - 1) - Size
              /\ (head + i - 1) % Size \in 0..(Size - 1)
          BY <3>4, <5>1, WrapCases, Zenon
        <5>3. (head + i - 1) - Size = i - first - 1
          BY <1>2, <3>1, <4>1
        <5>4. QED
          BY <5>2, <5>3, Zenon
      <4>3. i - first - 1 < k - first /\ first + (i - first - 1) + 1 = i
        BY <3>1, <3>6
      <4>4. QED
        BY <3>3, <4>2, <4>3
    <3>7. QED
      BY <3>1, <3>5, <3>6
  <2>5. QED
    BY <2>1, <2>2, <2>3, <2>4 DEF WriteInProgress
<1>7. CASE WritePublish
  BY <1>7, <1>2, <1>3 DEF WritePublish
<1>8. ASSUME NEW len \in 0..MaxLen, ReadBegin(len) PROVE WriteInProgress'
  <2>1. pc["producer"] = "idle"
    BY <1>8, <1>1, OnlyOneInside DEF ReadBegin
  <2>2. pc'["producer"] = "idle"
    BY <1>8, <1>2, <2>1 DEF ReadBegin
  <2>3. QED
    BY <1>3, <2>2
<1>9. CASE ReadFirst \/ ReadRest \/ ReadPublish
  <2>1. pc["consumer"] # "idle"
    BY <1>9 DEF ReadFirst, ReadRest, ReadPublish
  <2>2. pc["producer"] = "idle"
    BY <1>1, <2>1, OnlyOneInside
  <2>3. pc'["producer"] = "idle"
    BY <1>9, <1>2, <2>2 DEF ReadFirst, ReadRest, ReadPublish
  <2>4. QED
    BY <1>3, <2>3
<1>10. CASE FreeSpace \/ Reset
  <2>1. pc'["producer"] = "idle"
    BY <1>10, <1>1, OnlyOneInside DEF FreeSpace, Reset
  <2>2. QED
    BY <1>3, <2>1
<1>11. CASE SetEof
  BY <1>11, <1>3 DEF SetEof
<1>12. CASE UNCHANGED vars
  BY <1>12, <1>1 DEF vars, WriteInProgress, FirstPart, Lesser
<1>13. QED
  BY <1>4, <1>5, <1>6, <1>7, <1>8, <1>9, <1>10, <1>11, <1>12 DEF Next

\* Every step leaves a read in progress with the oldest bytes copied in order.
LEMMA NextRead == IInv /\ [Next]_vars => ReadInProgress'
<1> SUFFICES ASSUME IInv, [Next]_vars PROVE ReadInProgress'
  OBVIOUS
<1>1. TypeOK /\ InsideHoldsLock /\ ReadInProgress
  BY DEF IInv
<1>2. /\ pc \in [Tasks -> {"idle", "first", "rest", "publish"}]
      /\ n \in [Tasks -> 0..Size] /\ loaded \in [Tasks -> 0..Size]
      /\ tail \in 0..(Size - 1) /\ count \in 0..Size
      /\ Size \in Nat \ {0} /\ MaxLen \in Nat
  BY <1>1, TypeFacts
<1>3. pc'["consumer"] = "idle" => ReadInProgress'
  BY DEF ReadInProgress
<1> USE DEF Goto, Acquire, Tasks
<1>4. ASSUME NEW len \in 0..MaxLen, ReadBegin(len) PROVE ReadInProgress'
  <2>1. pc'["consumer"] = "first" /\ count' = count
    BY <1>4, <1>2 DEF ReadBegin
  <2>2. n'["consumer"] = Lesser(len, count)
    BY <1>4, <1>2 DEF ReadBegin
  <2>3. n'["consumer"] <= count' /\ n'["consumer"] <= MaxLen
    BY <1>2, <2>1, <2>2 DEF Lesser
  <2>4. QED
    BY <2>1, <2>3 DEF ReadInProgress
<1>5. CASE ReadFirst
  <2>1. pc["consumer"] = "first" /\ pc'["consumer"] = "rest"
    BY <1>5, <1>2 DEF ReadFirst
  <2>2. UNCHANGED <<n, data, tail, count>>
    BY <1>5 DEF ReadFirst
  <2> DEFINE k == n["consumer"]
             first == FirstPart(tail, k)
  <2>3. first \in 0..k /\ first <= Size - tail /\ k \in 0..count /\ k <= MaxLen
    BY <1>1, <1>2, <2>1, ReaderFacts
  <2>4. dst' = [i \in 1..first |-> data[tail + i - 1]]
    BY <1>5 DEF ReadFirst
  <2>5. Len(dst') = first
    <3> HIDE DEF first
    <3> QED BY <2>3, <2>4
  <2>6. ASSUME NEW i \in 1..first PROVE dst'[i] = Contents[i]
    <3> HIDE DEF first, k
    <3>1. tail + i - 1 \in 0..(Size - 1)
      BY <1>2, <2>3
    <3>2. (tail + i - 1) % Size = tail + i - 1
      BY <1>2, <2>3, <3>1, Wrap
    <3>3. i \in 1..count
      BY <1>2, <2>3
    <3>4. QED
      BY <2>4, <3>2, <3>3 DEF Contents
  <2>7. Contents' = Contents
    BY <2>2 DEF Contents
  <2>8. FirstPart(tail, n["consumer"])' = first
    BY <2>2 DEF FirstPart, Lesser
  <2>9. QED
    BY <2>1, <2>2, <2>3, <2>5, <2>6, <2>7, <2>8 DEF ReadInProgress
<1>6. CASE ReadRest
  <2>1. pc["consumer"] = "rest" /\ pc'["consumer"] = "publish"
    BY <1>6, <1>2 DEF ReadRest
  <2>2. UNCHANGED <<n, data, tail, count>> /\ loaded'["consumer"] = count
    BY <1>6, <1>2 DEF ReadRest
  <2> DEFINE k == n["consumer"]
             first == FirstPart(tail, k)
  <2>3. /\ first \in 0..k /\ first <= Size - tail /\ first \in {k, Size - tail}
        /\ k \in 0..count /\ k <= MaxLen
    BY <1>1, <1>2, <2>1, ReaderFacts
  <2>4. dst' = [i \in 1..k |-> IF i <= first THEN dst[i] ELSE data[i - first - 1]]
    BY <1>6 DEF ReadRest
  <2>5. Len(dst') = k
    <3> HIDE DEF first, k
    <3> QED BY <2>3, <2>4
  <2>6. \A i \in 1..first : dst[i] = Contents[i]
    BY <1>1, <2>1 DEF ReadInProgress
  <2>7. ASSUME NEW i \in 1..k PROVE dst'[i] = Contents[i]
    <3> HIDE DEF first, k
    <3>1. CASE i <= first
      BY <2>3, <2>4, <2>6, <3>1
    <3>2. CASE i > first
      <4>1. first = Size - tail
        BY <2>3, <3>2
      <4>2. tail + i - 1 \in 0..(2 * Size - 1) /\ i \in 1..count
        BY <1>2, <2>3
      <4>3. (tail + i - 1) % Size = i - first - 1
        <5>1. tail + i - 1 >= Size /\ i \in Nat /\ tail \in Nat
          BY <1>2, <2>3, <3>2, <4>1
        <5>2. (tail + i - 1) % Size = tail + i - 1 - Size
          BY RingAssumption, <4>2, <5>1, Wrap
        <5>3. QED
          BY <1>2, <4>1, <5>1, <5>2
      <4>4. QED
        BY <2>3, <2>4, <3>2, <4>2, <4>3 DEF Contents
    <3>3. QED
      BY <2>3, <3>1, <3>2
  <2>8. Contents' = Contents
    BY <2>2 DEF Contents
  <2>9. QED
    BY <2>1, <2>2, <2>3, <2>5, <2>7, <2>8 DEF ReadInProgress
<1>7. CASE ReadPublish
  BY <1>7, <1>2, <1>3 DEF ReadPublish
<1>8. ASSUME NEW s \in ByteStrings, WriteBegin(s) PROVE ReadInProgress'
  <2>1. pc["consumer"] = "idle"
    BY <1>8, <1>1, OnlyOneInside DEF WriteBegin
  <2>2. pc'["consumer"] = "idle"
    BY <1>8, <1>2, <2>1 DEF WriteBegin
  <2>3. QED
    BY <1>3, <2>2
<1>9. CASE WriteFirst \/ WriteRest \/ WritePublish
  <2>1. pc["producer"] # "idle"
    BY <1>9 DEF WriteFirst, WriteRest, WritePublish
  <2>2. pc["consumer"] = "idle"
    BY <1>1, <2>1, OnlyOneInside
  <2>3. pc'["consumer"] = "idle"
    BY <1>9, <1>2, <2>2 DEF WriteFirst, WriteRest, WritePublish
  <2>4. QED
    BY <1>3, <2>3
<1>10. CASE FreeSpace \/ Reset
  <2>1. pc'["consumer"] = "idle"
    BY <1>10, <1>1, OnlyOneInside DEF FreeSpace, Reset
  <2>2. QED
    BY <1>3, <2>1
<1>11. CASE SetEof \/ UNCHANGED vars
  <2>1. UNCHANGED <<pc, n, loaded, dst, data, tail, count>>
    BY <1>11 DEF SetEof, vars
  <2>2. QED
    BY <1>1, <2>1 DEF ReadInProgress, Contents, FirstPart, Lesser
<1>12. QED
  BY <1>4, <1>5, <1>6, <1>7, <1>8, <1>9, <1>10, <1>11 DEF Next

-----------------------------------------------------------------------------

\* The inductive invariant holds in every state of the buffer, for every
\* capacity and every argument.
THEOREM Invariance == Spec => []IInv
<1>1. Init => IInv
  BY InitInv
<1>2. IInv /\ [Next]_vars => IInv'
  BY NextType, NextLock, NextHead, NextWrite, NextRead, NextRoom DEF IInv
<1>3. QED
  BY <1>1, <1>2, PTL DEF Spec

\* rb_write, rb_read and rb_reset keep the indices inside the array and the
\* count inside the capacity at each of their steps.
THEOREM TypeCorrect == Spec => []TypeOK
<1>1. IInv => TypeOK
  BY DEF IInv
<1>2. QED
  BY <1>1, Invariance, PTL

\* The bytes a producer fetched for the space rb_free_space returned always
\* fit: no consumer step takes that space back.
THEOREM RoomCorrect == Spec => []RoomIsStillThere
<1>1. IInv => RoomIsStillThere
  BY DEF IInv
<1>2. QED
  BY <1>1, Invariance, PTL

-----------------------------------------------------------------------------
(***************************************************************************)
(* The ring buffer implements the bounded FIFO queue: the queued bytes     *)
(* (Contents) start empty, and every step of either task is a queue        *)
(* operation or leaves them alone.  The steps that copy stutter: they only *)
(* touch storage no queued byte is in.                                     *)
(***************************************************************************)

\* The i-th queued byte's place in the array, and where the contents end.
LEMMA Places ==
  ASSUME IInv
  PROVE  /\ Size \in Nat \ {0} /\ count \in 0..Size
         /\ head \in 0..(Size - 1) /\ tail \in 0..(Size - 1)
         /\ head = IF tail + count < Size THEN tail + count ELSE tail + count - Size
         /\ \A i \in 1..count :
              /\ (tail + i - 1) % Size =
                   IF tail + i - 1 < Size THEN tail + i - 1 ELSE (tail + i - 1) - Size
              /\ (tail + i - 1) % Size \in 0..(Size - 1)
<1>1. /\ Size \in Nat \ {0} /\ count \in 0..Size
      /\ head \in 0..(Size - 1) /\ tail \in 0..(Size - 1)
  BY TypeFacts DEF IInv
<1>2. tail + count \in 0..(2 * Size - 1)
  BY <1>1
<1>3. head = IF tail + count < Size THEN tail + count ELSE tail + count - Size
  BY <1>1, <1>2, Wrap DEF IInv, HeadFollowsContents
<1>4. ASSUME NEW i \in 1..count
      PROVE  /\ (tail + i - 1) % Size =
                  IF tail + i - 1 < Size THEN tail + i - 1 ELSE (tail + i - 1) - Size
             /\ (tail + i - 1) % Size \in 0..(Size - 1)
  <2>1. tail + i - 1 \in 0..(2 * Size - 1)
    BY <1>1
  <2>2. /\ tail + i - 1 < Size => (tail + i - 1) % Size = tail + i - 1
        /\ ~(tail + i - 1 < Size) => (tail + i - 1) % Size = (tail + i - 1) - Size
        /\ (tail + i - 1) % Size \in 0..(Size - 1)
    BY <2>1, WrapCases, Zenon
  <2>3. QED
    BY <2>2, Zenon
<1>5. QED
  BY <1>1, <1>3, <1>4

\* The queued bytes are a sequence of bytes as long as the count.
LEMMA ContentsIsSeq ==
  ASSUME IInv
  PROVE  /\ Contents \in Seq(Byte) /\ Len(Contents) = count
         /\ \A i \in 1..count : Contents[i] = data[(tail + i - 1) % Size]
<1>1. count \in Nat
  BY Places
<1>2. data \in [0..(Size - 1) -> Byte]
  BY TypeFacts DEF IInv
<1>3. \A i \in 1..count : data[(tail + i - 1) % Size] \in Byte
  BY Places, <1>2
<1>4. QED
  BY <1>1, <1>3 DEF Contents

\* An empty buffer is an empty queue.
LEMMA InitRefines == Init => Q!Init
<1> SUFFICES ASSUME Init PROVE Q!Init
  OBVIOUS
<1>1. Contents = << >>
  BY DEF Contents, Init
<1>2. QED
  BY <1>1 DEF Init, Q!Init

\* The first copy of a write fills free places only.
LEMMA WriteFirstKeepsContents ==
  ASSUME IInv, WriteFirst
  PROVE  Contents' = Contents
<1> DEFINE k == n["producer"]
           first == FirstPart(head, k)
<1>1. pc["producer"] # "idle" /\ UNCHANGED <<tail, count>>
  BY DEF WriteFirst
<1>2. TypeOK /\ WriteInProgress
  BY DEF IInv
<1>3. k \in 0..Size /\ k <= Size - count /\ first \in 0..k /\ first <= Size - head
  BY <1>1, <1>2, WriterFacts
<1>4. data' = [j \in 0..(Size - 1) |->
                 IF j \in head..(head + first - 1) THEN src[j - head + 1] ELSE data[j]]
  BY DEF WriteFirst
<1> HIDE DEF k, first
<1>5. ASSUME NEW i \in 1..count
      PROVE  data'[(tail + i - 1) % Size] = data[(tail + i - 1) % Size]
  <2> DEFINE j == (tail + i - 1) % Size
  <2>1. /\ j = IF tail + i - 1 < Size THEN tail + i - 1 ELSE (tail + i - 1) - Size
        /\ j \in 0..(Size - 1)
    BY Places
  <2> HIDE DEF j
  <2>2. /\ Size \in Nat \ {0} /\ count \in 0..Size
        /\ head \in 0..(Size - 1) /\ tail \in 0..(Size - 1)
        /\ head = IF tail + count < Size THEN tail + count ELSE tail + count - Size
    BY Places
  <2>3. ~(j \in head..(head + first - 1))
    BY <1>3, <2>1, <2>2
  <2>4. data'[j] = data[j]
    BY <1>4, <2>1, <2>3
  <2>5. QED
    BY <2>4 DEF j
<1>6. QED
  BY <1>1, <1>5 DEF Contents

\* So does the copy of the bytes that wrapped.
LEMMA WriteRestKeepsContents ==
  ASSUME IInv, WriteRest
  PROVE  Contents' = Contents
<1> DEFINE k == n["producer"]
           first == FirstPart(head, k)
<1>1. pc["producer"] # "idle" /\ UNCHANGED <<tail, count>>
  BY DEF WriteRest
<1>2. TypeOK /\ WriteInProgress
  BY DEF IInv
<1>3. /\ k \in 0..Size /\ k <= Size - count
      /\ first \in 0..k /\ first \in {k, Size - head}
  BY <1>1, <1>2, WriterFacts
<1>4. data' = [j \in 0..(Size - 1) |->
                 IF j < k - first THEN src[first + j + 1] ELSE data[j]]
  BY DEF WriteRest
<1> HIDE DEF k, first
<1>5. ASSUME NEW i \in 1..count
      PROVE  data'[(tail + i - 1) % Size] = data[(tail + i - 1) % Size]
  <2> DEFINE j == (tail + i - 1) % Size
  <2>1. /\ j = IF tail + i - 1 < Size THEN tail + i - 1 ELSE (tail + i - 1) - Size
        /\ j \in 0..(Size - 1)
    BY Places
  <2> HIDE DEF j
  <2>2. /\ Size \in Nat \ {0} /\ count \in 0..Size
        /\ head \in 0..(Size - 1) /\ tail \in 0..(Size - 1)
        /\ head = IF tail + count < Size THEN tail + count ELSE tail + count - Size
    BY Places
  <2>3. ~(j < k - first)
    BY <1>3, <2>1, <2>2
  <2>4. data'[j] = data[j]
    BY <1>4, <2>1, <2>3
  <2>5. QED
    BY <2>4 DEF j
<1>6. QED
  BY <1>1, <1>5 DEF Contents

\* Publishing a write appends the bytes that fitted.
LEMMA WritePublishRefines ==
  ASSUME IInv, WritePublish
  PROVE  Q!Put(src)
<1> DEFINE k == n["producer"]
<1>1. pc["producer"] = "publish"
  BY DEF WritePublish
<1>2. TypeOK /\ WriteInProgress
  BY DEF IInv
<1>3. /\ k \in 0..(Size - count) /\ count' = count + k
      /\ tail' = tail /\ data' = data
  BY WritePublishes
<1>4. k = Lesser(Len(src), Size - count) /\ k <= Len(src)
  BY <1>1, <1>2, WriterFacts DEF WriteInProgress
<1>5. \A i \in 1..k : data[(head + i - 1) % Size] = src[i]
  BY <1>1, <1>2 DEF WriteInProgress
<1>6. accepted' = k
  BY DEF WritePublish
<1>7. src \in Seq(Byte) /\ Len(src) \in Nat
  BY <1>2, StringLength DEF TypeOK
<1>8. Contents \in Seq(Byte) /\ Len(Contents) = count
  BY ContentsIsSeq
<1> HIDE DEF k
<1> DEFINE added == SubSeq(src, 1, k)
<1>9. k \in Nat /\ count \in Nat
  BY <1>3, Places
<1>10. /\ added \in Seq(Byte) /\ Len(added) = k
       /\ \A i \in 1..k : added[i] = src[i]
  BY <1>4, <1>7, <1>9
<1> HIDE DEF added
<1> DEFINE new == Contents \o added
<1>11. /\ new \in Seq(Byte) /\ Len(new) = count + k
       /\ \A i \in 1..(count + k) : new[i] =
             IF i <= count THEN Contents[i] ELSE added[i - count]
  BY <1>8, <1>10, ConcatProperties
<1> HIDE DEF new
<1>12. Contents' = [i \in 1..(count + k) |-> data[(tail + i - 1) % Size]]
  BY <1>3 DEF Contents
<1>13. ASSUME NEW i \in 1..(count + k)
       PROVE  data[(tail + i - 1) % Size] = new[i]
  <2>1. CASE i <= count
    <3>1. i \in 1..count
      BY <1>9, <2>1
    <3>2. Contents[i] = data[(tail + i - 1) % Size]
      BY <3>1, ContentsIsSeq
    <3>3. QED
      BY <1>11, <2>1, <3>2
  <2>2. CASE i > count
    <3> DEFINE m == i - count
    <3>1. m \in 1..k /\ i = count + m
      BY <1>9, <2>2
    <3> HIDE DEF m
    <3>2. /\ Size \in Nat \ {0} /\ count \in 0..Size
          /\ head \in 0..(Size - 1) /\ tail \in 0..(Size - 1)
          /\ head = IF tail + count < Size THEN tail + count ELSE tail + count - Size
      BY Places
    <3>3. head + m - 1 \in 0..(2 * Size - 1) /\ tail + i - 1 \in 0..(2 * Size - 1)
      BY <1>3, <3>1, <3>2
    <3>4. (head + m - 1) % Size =
            IF head + m - 1 < Size THEN head + m - 1 ELSE head + m - 1 - Size
      BY <1>9, <3>1, <3>2, <3>3, Wrap
    <3>5. (tail + i - 1) % Size =
            IF tail + i - 1 < Size THEN tail + i - 1 ELSE (tail + i - 1) - Size
      BY <3>1, <3>2, <3>3, Wrap
    <3> DEFINE p == (head + m - 1) % Size
               q == (tail + i - 1) % Size
    <3>6. p = IF head + m - 1 < Size THEN head + m - 1 ELSE head + m - 1 - Size
      BY <3>4
    <3>7. q = IF tail + i - 1 < Size THEN tail + i - 1 ELSE (tail + i - 1) - Size
      BY <3>5
    <3>8. p = q
      <4> HIDE DEF p, q
      <4> QED BY <1>3, <3>1, <3>2, <3>6, <3>7
    <3>9. data[p] = src[m]
      BY <1>5, <3>1
    <3>10. new[i] = added[m] /\ added[m] = src[m]
      <4>1. ~(i <= count) /\ i - count = m
        BY <1>9, <2>2, <3>1
      <4>2. QED
        BY <1>10, <1>11, <3>1, <4>1
    <3>11. QED
      BY <3>8, <3>9, <3>10
  <2>3. QED
    BY <1>9, <2>1, <2>2
<1>14. Contents' = Contents \o added
  <2>1. new = [i \in 1..(count + k) |-> new[i]]
    BY <1>9, <1>11
  <2>2. Contents' = new
    BY <1>12, <1>13, <2>1
  <2>3. QED
    BY <2>2 DEF new
<1>15. UNCHANGED <<eof, got>>
  BY DEF WritePublish
<1>16. accepted' = Q!Lesser(Len(src), Size - Len(Contents))
  BY <1>4, <1>6, <1>8 DEF Lesser, Q!Lesser
<1>17. Contents' = Contents \o SubSeq(src, 1, accepted')
  BY <1>6, <1>14 DEF added
<1>18. QED
  BY <1>15, <1>16, <1>17 DEF Q!Put

\* Publishing a read removes the bytes it returns, the oldest ones.
LEMMA ReadPublishRefines ==
  ASSUME IInv, ReadPublish
  PROVE  n["consumer"] \in 0..MaxLen /\ Q!Get(n["consumer"])
<1> DEFINE k == n["consumer"]
<1>1. pc["consumer"] = "publish"
  BY DEF ReadPublish
<1>2. TypeOK /\ ReadInProgress
  BY DEF IInv
<1>3. /\ k \in 0..count /\ count' = count - k /\ tail' = (tail + k) % Size
      /\ data' = data
  BY ReadPublishes
<1>4. k <= MaxLen /\ dst \in Seq(Byte) /\ Len(dst) = k
      /\ \A i \in 1..k : dst[i] = Contents[i]
  BY <1>1, <1>2 DEF ReadInProgress, TypeOK
<1>5. Contents \in Seq(Byte) /\ Len(Contents) = count
  BY ContentsIsSeq
<1>6. got' = dst /\ UNCHANGED <<eof, accepted>>
  BY DEF ReadPublish
<1> HIDE DEF k
<1>7. k \in Nat /\ count \in Nat /\ MaxLen \in Nat
  BY <1>3, Places, RingAssumption
<1>8. dst = SubSeq(Contents, 1, k)
  <2> DEFINE t == SubSeq(Contents, 1, k)
  <2>1. t \in Seq(Byte) /\ Len(t) = k /\ \A i \in 1..k : t[i] = Contents[i]
    BY <1>3, <1>5, <1>7
  <2> HIDE DEF t
  <2>2. dst = t
    BY <1>4, <2>1, SeqEqual
  <2>3. QED
    BY <2>2 DEF t
<1>9. Contents' = SubSeq(Contents, k + 1, count)
  <2> DEFINE t == SubSeq(Contents, k + 1, count)
  <2>1. /\ t \in Seq(Byte) /\ Len(t) = count - k
        /\ \A i \in 1..(count - k) : t[i] = Contents[k + i]
    BY <1>3, <1>5, <1>7
  <2>2. Contents' = [i \in 1..(count - k) |-> data[(tail' + i - 1) % Size]]
    BY <1>3 DEF Contents
  <2>3. ASSUME NEW i \in 1..(count - k)
        PROVE  data[(tail' + i - 1) % Size] = t[i]
    <3>1. /\ Size \in Nat \ {0} /\ count \in 0..Size /\ tail \in 0..(Size - 1)
          /\ k + i \in 1..count /\ i \in Nat
      BY <1>3, <1>7, Places
    <3>2. tail' = IF tail + k < Size THEN tail + k ELSE tail + k - Size
      <4>1. tail + k \in 0..(2 * Size - 1) /\ tail \in Nat
        BY <1>3, <1>7, <3>1
      <4>2. (tail + k) % Size = IF tail + k < Size THEN tail + k ELSE tail + k - Size
        BY RingAssumption, <1>7, <4>1, Wrap
      <4>3. QED
        BY <1>3, <4>2
    <3> DEFINE p == (tail' + i - 1) % Size
               q == (tail + (k + i) - 1) % Size
    <3>3. p = IF tail' + i - 1 < Size THEN tail' + i - 1 ELSE tail' + i - 1 - Size
      <4>1. tail' + i - 1 \in 0..(2 * Size - 1) /\ tail' \in Nat /\ i \in Nat
        BY <1>7, <3>1, <3>2
      <4> DEFINE t1 == tail'
      <4>2. t1 + i - 1 \in 0..(2 * Size - 1) /\ t1 \in Nat /\ i \in Nat
        BY <4>1
      <4> HIDE DEF t1
      <4>3. (t1 + i - 1) % Size =
              IF t1 + i - 1 < Size THEN t1 + i - 1 ELSE t1 + i - 1 - Size
        BY RingAssumption, <4>2, Wrap
      <4>4. QED
        BY <4>3 DEF t1
    <3>4. q = IF tail + (k + i) - 1 < Size THEN tail + (k + i) - 1
              ELSE tail + (k + i) - 1 - Size
      BY <3>1, Places
    <3>5. p = q
      <4> HIDE DEF p, q
      <4> QED BY <1>7, <3>1, <3>2, <3>3, <3>4
    <3>6. Contents[k + i] = data[q]
      BY <3>1, ContentsIsSeq
    <3>7. QED
      BY <2>1, <3>5, <3>6
  <2>4. Contents' = t
    <3> HIDE DEF t
    <3>1. t = [i \in 1..(count - k) |-> t[i]]
      BY <1>7, <2>1
    <3>2. QED
      BY <2>2, <2>3, <3>1
  <2>5. QED
    BY <2>4
<1>10. Q!Lesser(k, Len(Contents)) = k
  BY <1>3, <1>5, <1>7 DEF Q!Lesser
<1>11. k \in 0..MaxLen
  BY <1>4, <1>7
<1>12. Q!Get(k)
  BY <1>5, <1>6, <1>8, <1>9, <1>10 DEF Q!Get
<1>13. QED
  BY <1>11, <1>12 DEF k

\* Every step of the buffer is a step of the queue or changes nothing of it.
LEMMA NextRefines ==
  ASSUME IInv, [Next]_vars
  PROVE  [Q!Next]_(Q!vars)
<1> USE DEF Q!vars
<1>1. CASE WritePublish
  <2>1. src \in Q!ByteStrings
    BY DEF IInv, TypeOK, ByteStrings, Q!ByteStrings
  <2>2. QED
    BY <1>1, <2>1, WritePublishRefines DEF Q!Next
<1>2. CASE ReadPublish
  BY <1>2, ReadPublishRefines DEF Q!Next
<1>3. CASE WriteFirst \/ WriteRest
  <2>1. Contents' = Contents
    BY <1>3, WriteFirstKeepsContents, WriteRestKeepsContents
  <2>2. UNCHANGED <<eof, accepted, got>>
    BY <1>3 DEF WriteFirst, WriteRest
  <2>3. QED
    BY <2>1, <2>2
<1>4. CASE Reset
  <2>1. Contents' = << >> /\ eof' = FALSE /\ UNCHANGED <<accepted, got>>
    BY <1>4 DEF Reset, Contents
  <2>2. QED
    BY <2>1 DEF Q!Next, Q!Clear
<1>5. CASE SetEof
  <2>1. Contents' = Contents /\ eof' = TRUE /\ UNCHANGED <<accepted, got>>
    BY <1>5 DEF SetEof, Contents
  <2>2. QED
    BY <2>1 DEF Q!Next, Q!EndOfData
<1>6. ASSUME \/ \E s \in ByteStrings : WriteBegin(s)
             \/ \E len \in 0..MaxLen : ReadBegin(len)
             \/ ReadFirst \/ ReadRest \/ FreeSpace \/ UNCHANGED vars
      PROVE  UNCHANGED <<Contents, eof, accepted, got>>
  <2>1. UNCHANGED <<data, tail, count, eof, accepted, got>>
    BY <1>6 DEF WriteBegin, ReadBegin, ReadFirst, ReadRest, FreeSpace, vars
  <2>2. QED
    BY <2>1 DEF Contents
<1>7. QED
  BY <1>1, <1>2, <1>3, <1>4, <1>5, <1>6 DEF Next

\* The ring buffer, with its steps interleaved in any way the lock allows, is
\* a bounded FIFO queue of bytes, for every capacity.
THEOREM Implements == Spec => ImplementsByteQueue
<1>1. Init => Q!Init
  BY InitRefines
<1>2. IInv /\ [Next]_vars => [Q!Next]_(Q!vars)
  BY NextRefines
<1>3. Q!Spec <=> Q!Init /\ [][Q!Next]_(Q!vars)
  BY DEF Q!Spec
<1>4. QED
  BY <1>1, <1>2, <1>3, Invariance, PTL DEF Spec, ImplementsByteQueue
=============================================================================
