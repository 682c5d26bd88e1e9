----------------------------- MODULE ByteQueue -----------------------------
(***************************************************************************)
(* What a byte ring buffer promises its producer and its consumer: a       *)
(* bounded FIFO queue of bytes.  A write that does not fit is cut short,   *)
(* never reordered and never blocked; a read returns the oldest bytes.     *)
(* src/modules/tdeck_i2s/ring_buf.h implements it (module RingBuf) for the *)
(* audio player, the audio recorder and the ssh server.                    *)
(***************************************************************************)
EXTENDS Integers, Sequences

CONSTANTS
  Byte,    \* the bytes
  Size,    \* capacity of the buffer
  MaxLen   \* the largest len any caller passes

VARIABLES
  queue,     \* the bytes queued, oldest first
  eof,       \* the producer has no more data to add, ever
  accepted,  \* what the last write returned
  got        \* the bytes the last read returned

vars == <<queue, eof, accepted, got>>

\* Byte strings a caller may pass.
ByteStrings == UNION {[1..n -> Byte] : n \in 0..MaxLen}

Lesser(a, b) == IF a < b THEN a ELSE b

Init ==
  /\ queue = << >>
  /\ eof = FALSE
  /\ accepted = 0
  /\ got = << >>

\* Queue as many of the bytes of src as fit.
Put(src) ==
  /\ accepted' = Lesser(Len(src), Size - Len(queue))
  /\ queue' = queue \o SubSeq(src, 1, accepted')
  /\ UNCHANGED <<eof, got>>

\* Take up to len of the oldest bytes.
Get(len) ==
  LET n == Lesser(len, Len(queue)) IN
  /\ got' = SubSeq(queue, 1, n)
  /\ queue' = SubSeq(queue, n + 1, Len(queue))
  /\ UNCHANGED <<eof, accepted>>

EndOfData == eof' = TRUE /\ UNCHANGED <<queue, accepted, got>>

Clear ==
  /\ queue' = << >>
  /\ eof' = FALSE
  /\ UNCHANGED <<accepted, got>>

Next ==
  \/ \E src \in ByteStrings : Put(src)
  \/ \E len \in 0..MaxLen : Get(len)
  \/ EndOfData
  \/ Clear

Spec == Init /\ [][Next]_vars
=============================================================================
