------------------------------ MODULE RingBuf ------------------------------
(***************************************************************************)
(* src/modules/tdeck_i2s/ring_buf.h: the byte ring buffer between the      *)
(* MicroPython thread and a FreeRTOS task.  One task writes, one task      *)
(* reads; every operation runs under rb->lock.  Between taking and giving  *)
(* the lock an operation is several machine steps on another core, so the  *)
(* copies and the updates are separate actions here: the lock is what      *)
(* makes them one operation, and the module ByteQueue is what they         *)
(* implement together.                                                     *)
(***************************************************************************)
EXTENDS Integers, Sequences

CONSTANTS
  Byte,    \* the bytes
  Size,    \* rb->size
  MaxLen   \* the largest len any caller passes

ASSUME RingAssumption == Size \in Nat \ {0} /\ MaxLen \in Nat /\ Byte # {}

VARIABLES
  data,      \* rb->data
  head,      \* next write index
  tail,      \* next read index
  count,     \* bytes currently queued
  eof,       \* producer has no more data to add, ever
  lock,      \* which task holds rb->lock, or "none"
  pc,        \* where each of the two tasks is inside an operation
  src,       \* rb_write's argument
  n,         \* each task's local n: how many bytes the operation moves
  loaded,    \* each task's load of rb->count before it stores it back
  dst,       \* rb_read's output so far
  accepted,  \* what the last rb_write returned
  got,       \* the bytes the last rb_read returned
  room       \* the producer's last rb_free_space(), 0 once it has written

vars == <<data, head, tail, count, eof, lock, pc, src, n, loaded, dst,
          accepted, got, room>>

Tasks == {"producer", "consumer"}

ByteStrings == UNION {[1..k -> Byte] : k \in 0..MaxLen}

Lesser(a, b) == IF a < b THEN a ELSE b

\* The bytes queued, oldest first: what data, tail and count stand for.
Contents == [i \in 1..count |-> data[(tail + i - 1) % Size]]

\* The memory rb_init allocates is not cleared: any bytes may be there.
Init ==
  /\ data \in [0..(Size - 1) -> Byte]
  /\ head = 0 /\ tail = 0 /\ count = 0
  /\ eof = FALSE
  /\ lock = "none"
  /\ pc = [t \in Tasks |-> "idle"]
  /\ src = << >>
  /\ n = [t \in Tasks |-> 0]
  /\ loaded = [t \in Tasks |-> 0]
  /\ dst = << >>
  /\ accepted = 0
  /\ got = << >>
  /\ room = 0

\* Slip: the operation runs without taking the lock.
AcquireUnlocked(t) == pc[t] = "idle" /\ lock' = t

\* xSemaphoreTake(rb->lock, portMAX_DELAY) by task t, idle so far.
Acquire(t) == pc[t] = "idle" /\ lock = "none" /\ lock' = t

Goto(t, to) == pc' = [pc EXCEPT ![t] = to]

-----------------------------------------------------------------------------
(* rb_write, by the producer.                                              *)

WriteBegin(s) ==
  /\ Acquire("producer")
  /\ src' = s
  /\ n' = [n EXCEPT !["producer"] = Lesser(Len(s), Size - count)]
  /\ Goto("producer", "first")
  /\ UNCHANGED <<data, head, tail, count, eof, loaded, dst, accepted, got, room>>

\* How much of the operation fits before the end of the array.
FirstPart(index, k) == Lesser(Size - index, k)

WriteFirst ==
  /\ pc["producer"] = "first"
  /\ data' = [i \in 0..(Size - 1) |->
                IF i \in head..(head + FirstPart(head, n["producer"]) - 1)
                THEN src[i - head + 1] ELSE data[i]]
  /\ Goto("producer", "rest")
  /\ UNCHANGED <<head, tail, count, eof, lock, src, n, loaded, dst, accepted, got, room>>

\* The bytes that wrapped; rb->count is loaded for the update that follows.
WriteRest ==
  /\ pc["producer"] = "rest"
  /\ LET first == FirstPart(head, n["producer"]) IN
     data' = [i \in 0..(Size - 1) |->
                IF i < n["producer"] - first THEN src[first + i + 1] ELSE data[i]]
  /\ loaded' = [loaded EXCEPT !["producer"] = count]
  /\ Goto("producer", "publish")
  /\ UNCHANGED <<head, tail, count, eof, lock, src, n, dst, accepted, got, room>>

WritePublish ==
  /\ pc["producer"] = "publish"
  /\ head' = (head + n["producer"]) % Size
  /\ count' = loaded["producer"] + n["producer"]
  /\ lock' = "none"
  /\ accepted' = n["producer"]
  /\ room' = 0
  /\ Goto("producer", "idle")
  /\ UNCHANGED <<data, tail, eof, src, n, loaded, dst, got>>

-----------------------------------------------------------------------------
(* rb_read, by the consumer.                                               *)

ReadBegin(len) ==
  /\ Acquire("consumer")
  /\ n' = [n EXCEPT !["consumer"] = Lesser(len, count)]
  /\ dst' = << >>
  /\ Goto("consumer", "first")
  /\ UNCHANGED <<data, head, tail, count, eof, src, loaded, accepted, got, room>>

ReadFirst ==
  /\ pc["consumer"] = "first"
  /\ dst' = [i \in 1..FirstPart(tail, n["consumer"]) |-> data[tail + i - 1]]
  /\ Goto("consumer", "rest")
  /\ UNCHANGED <<data, head, tail, count, eof, lock, src, n, loaded, accepted, got, room>>

ReadRest ==
  /\ pc["consumer"] = "rest"
  /\ LET first == FirstPart(tail, n["consumer"]) IN
     dst' = [i \in 1..n["consumer"] |->
               IF i <= first THEN dst[i] ELSE data[i - first - 1]]
  /\ loaded' = [loaded EXCEPT !["consumer"] = count]
  /\ Goto("consumer", "publish")
  /\ UNCHANGED <<data, head, tail, count, eof, lock, src, n, accepted, got, room>>

ReadPublish ==
  /\ pc["consumer"] = "publish"
  /\ tail' = (tail + n["consumer"]) % Size
  /\ count' = loaded["consumer"] - n["consumer"]
  /\ lock' = "none"
  /\ got' = dst
  /\ Goto("consumer", "idle")
  /\ UNCHANGED <<data, head, eof, src, n, loaded, dst, accepted, room>>

-----------------------------------------------------------------------------
(* rb_free_space, by the producer: a feed() that is about to write reads   *)
(* it first and then fetches no more bytes than it returned.               *)

\* Slip: the space is what follows the read index in the array.
FreeSpaceToEnd ==
  /\ pc["producer"] = "idle" /\ lock = "none"
  /\ room' = Size - tail
  /\ UNCHANGED <<data, head, tail, count, eof, lock, pc, src, n, loaded, dst,
                 accepted, got>>

FreeSpace ==
  /\ pc["producer"] = "idle" /\ lock = "none"
  /\ room' = Size - count
  /\ UNCHANGED <<data, head, tail, count, eof, lock, pc, src, n, loaded, dst,
                 accepted, got>>

\* rb->eof = true, by the producer, without the lock.
SetEof ==
  /\ pc["producer"] = "idle"
  /\ eof' = TRUE
  /\ UNCHANGED <<data, head, tail, count, lock, pc, src, n, loaded, dst,
                 accepted, got, room>>

\* rb_reset: play(), record() and the ssh task's next client start empty.
Reset ==
  /\ lock = "none"
  /\ head' = 0 /\ tail' = 0 /\ count' = 0
  /\ eof' = FALSE
  /\ UNCHANGED <<data, lock, pc, src, n, loaded, dst, accepted, got, room>>

Next ==
  \/ \E s \in ByteStrings : WriteBegin(s)
  \/ WriteFirst \/ WriteRest \/ WritePublish
  \/ \E len \in 0..MaxLen : ReadBegin(len)
  \/ ReadFirst \/ ReadRest \/ ReadPublish
  \/ FreeSpace \/ SetEof \/ Reset

Spec == Init /\ [][Next]_vars

-----------------------------------------------------------------------------
(* Properties.                                                             *)

\* Every variable has its type: the indices stay inside the array and the
\* count inside the capacity, in the middle of an operation too.
TypeOK ==
  /\ data \in [0..(Size - 1) -> Byte]
  /\ head \in 0..(Size - 1) /\ tail \in 0..(Size - 1) /\ count \in 0..Size
  /\ eof \in BOOLEAN
  /\ lock \in Tasks \union {"none"}
  /\ pc \in [Tasks -> {"idle", "first", "rest", "publish"}]
  /\ src \in ByteStrings
  /\ n \in [Tasks -> 0..Size]
  /\ loaded \in [Tasks -> 0..Size]
  /\ dst \in Seq(Byte) /\ got \in Seq(Byte)
  /\ accepted \in 0..Size /\ room \in 0..Size

\* The room a feed measured is still there when it writes, whatever the
\* consumer did in between: the bytes it fetched from its file for that room
\* are all queued, and rb_write's result may be ignored, as
\* audioplayer_feed_internal does.
RoomIsStillThere == room <= Size - count

\* The tasks never hold up each other's halves: a task inside an operation
\* is the one that holds the lock.
InsideHoldsLock == \A t \in Tasks : pc[t] # "idle" <=> lock = t

\* head is always where the queued bytes end.
HeadFollowsContents == head = (tail + count) % Size

\* A write in progress moves what its caller passed and what fits; its bytes
\* are in place behind the queued ones once both copies are done.
WriteInProgress ==
  pc["producer"] # "idle" =>
    LET k == n["producer"] IN
    /\ k = Lesser(Len(src), Size - count)
    /\ pc["producer"] = "rest" =>
         \A i \in 1..FirstPart(head, k) : data[head + i - 1] = src[i]
    /\ pc["producer"] = "publish" =>
         /\ loaded["producer"] = count
         /\ \A i \in 1..k : data[(head + i - 1) % Size] = src[i]

\* A read in progress has copied the oldest queued bytes, in order.
ReadInProgress ==
  pc["consumer"] # "idle" =>
    LET k == n["consumer"] IN
    /\ k <= count /\ k <= MaxLen
    /\ pc["consumer"] = "rest" =>
         /\ Len(dst) = FirstPart(tail, k)
         /\ \A i \in 1..FirstPart(tail, k) : dst[i] = Contents[i]
    /\ pc["consumer"] = "publish" =>
         /\ loaded["consumer"] = count
         /\ Len(dst) = k
         /\ \A i \in 1..k : dst[i] = Contents[i]

\* The inductive invariant: what every operation of either task preserves at
\* each of its steps.
IInv ==
  /\ TypeOK
  /\ InsideHoldsLock
  /\ HeadFollowsContents
  /\ WriteInProgress
  /\ ReadInProgress
  /\ RoomIsStillThere

\* The buffer is the bounded FIFO queue ByteQueue describes: no byte is lost,
\* repeated or reordered between rb_write and rb_read however their steps
\* interleave, and a write is cut short only by a full buffer.
Q == INSTANCE ByteQueue WITH queue <- Contents
ImplementsByteQueue == Q!Spec
=============================================================================
