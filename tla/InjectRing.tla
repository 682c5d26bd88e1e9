---------------------------- MODULE InjectRing ----------------------------
(***************************************************************************)
(* src/modules/tdeck_kvm/tdeck_kvm.c: the ring of injected "ghost keys".   *)
(* The sshd task on core 1 pushes what its client types; the MicroPython   *)
(* thread pushes for telnetd, vncd and the trackball, and pops, in         *)
(* kvm_read.  Nothing locks it.  A push is four steps, because the other   *)
(* core may take a step between any two; a pop is one, since only the      *)
(* MicroPython thread moves inject_tail.  Every byte pushed is a number of *)
(* its own, and 0 is what the ring holds before the first.                 *)
(***************************************************************************)
EXTENDS Integers, Sequences

CONSTANTS
  Ring,      \* INJECT_BUF_SIZE
  MaxBytes   \* bound: bytes ever injected

ASSUME InjectAssumption == Ring \in Nat \ {0, 1} /\ MaxBytes \in Nat

VARIABLES
  injectBuf, injectHead, injectTail,
  push,    \* each producer inside internal_inject_n: its step, the byte it is at,
           \* the last one of the call, the head it works with, what it keeps of it
  fresh,   \* how many bytes have been injected
  taken,   \* the bytes whose push was published, in that order
  keys,    \* what kvm_read has returned
  met      \* history: two pushes have been in progress at once

kvm == <<injectBuf, injectHead, injectTail>>
ivars == <<kvm, push, fresh, taken, keys, met>>

Producers == {"sshd", "python"}
Idle == [at |-> "idle", byte |-> 0, last |-> 0, head |-> 0, kept |-> {}]

InitInject ==
  /\ injectBuf = [i \in 0..(Ring - 1) |-> 0] /\ injectHead = 0 /\ injectTail = 0
  /\ push = [p \in Producers |-> Idle]
  /\ fresh = 0 /\ taken = << >> /\ keys = << >> /\ met = FALSE

\* internal_inject_n is called with k bytes.
Inject(p, k) ==
  /\ push[p].at = "idle" /\ fresh + k <= MaxBytes
  /\ fresh' = fresh + k
  /\ push' = [push EXCEPT ![p] = [@ EXCEPT !.at = "load", !.byte = fresh + 1, !.last = fresh + k]]
  /\ met' = (met \/ \E q \in Producers \ {p} : push[q].at # "idle")
  /\ UNCHANGED <<kvm, taken, keys>>

\* inject_head is loaded, or kept in a register since the previous byte: it is
\* not volatile.
LoadHead(p) ==
  /\ push[p].at = "load"
  /\ \E h \in {injectHead} \union push[p].kept :
       push' = [push EXCEPT ![p].at = "test", ![p].head = h]
  /\ UNCHANGED <<kvm, fresh, taken, keys, met>>

\* On to the next byte of the call, or out of it.
NextByte(p) ==
  IF push[p].byte = push[p].last THEN Idle
  ELSE [push[p] EXCEPT !.at = "load", !.byte = @ + 1,
                       !.kept = {IF push[p].at = "publish" THEN (push[p].head + 1) % Ring ELSE push[p].head}]

\* Slip: the ring is filled to the last slot, which makes it look empty.
NeverFull(h) == FALSE

Full(h) == (h + 1) % Ring = injectTail

\* A byte that finds the ring full is dropped.
TestRoom(p) ==
  /\ push[p].at = "test"
  /\ push' = [push EXCEPT ![p] = IF Full(push[p].head) THEN NextByte(p) ELSE [@ EXCEPT !.at = "store"]]
  /\ UNCHANGED <<kvm, fresh, taken, keys, met>>

StoreByte(p) ==
  /\ push[p].at = "store"
  /\ injectBuf' = [injectBuf EXCEPT ![push[p].head] = push[p].byte]
  /\ push' = [push EXCEPT ![p].at = "publish"]
  /\ UNCHANGED <<injectHead, injectTail, fresh, taken, keys, met>>

PublishHead(p) ==
  /\ push[p].at = "publish"
  /\ injectHead' = (push[p].head + 1) % Ring
  /\ taken' = Append(taken, push[p].byte)
  /\ push' = [push EXCEPT ![p] = NextByte(p)]
  /\ UNCHANGED <<injectBuf, injectTail, fresh, keys, met>>

\* kvm_read pops a byte; the MicroPython thread is not inside a push of its own.
PopKey ==
  /\ push["python"].at = "idle" /\ injectTail # injectHead
  /\ keys' = Append(keys, injectBuf[injectTail])
  /\ injectTail' = (injectTail + 1) % Ring
  /\ UNCHANGED <<injectBuf, injectHead, push, fresh, taken, met>>

NextInject ==
  \/ \E p \in Producers :
       \/ \E k \in 1..Ring : Inject(p, k)
       \/ LoadHead(p) \/ TestRoom(p) \/ StoreByte(p) \/ PublishHead(p)
  \/ PopKey

SpecInject == InitInject /\ [][NextInject]_ivars

-----------------------------------------------------------------------------
\* The bytes between tail and head.
Injected == [i \in 1..((injectHead - injectTail) % Ring) |-> injectBuf[(injectTail + i - 1) % Ring]]

\* As long as no two pushes have overlapped, the ring is a queue: what was read
\* and what waits is what was pushed, in order, whatever read ran beside it.  When two
\* have, more can go wrong than the one dropped byte modsshd.c:40-47 expects: a slow push
\* publishes an old head, and keys that were read come back.
KeysInOrder == met \/ keys \o Injected = taken
===========================================================================
