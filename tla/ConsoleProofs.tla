----------------------------- MODULE ConsoleProofs -----------------------------
(***************************************************************************)
(* Proofs about modules Console and InjectRing, for any scheduler queue,   *)
(* time limit, length of chunk and size of ring: an ssh client sees its    *)
(* own output only, notifications alternate, the mirror goes where it may, *)
(* a login is final, and injected keys arrive in order.                    *)
(*                                                                         *)
(* What a chunk of keys does to a telnet connection is a recursive         *)
(* function of its length.  That it exists, and what it preserves, is      *)
(* proved with NaturalsClosed, an induction over a set of naturals.        *)
(***************************************************************************)
EXTENDS Console, InjectRing, SequenceTheorems, WellFoundedInduction, TLAPS

-----------------------------------------------------------------------------
(* Keys, one after another.                                                *)

\* A set that holds 0 and, with every natural, the next one, holds them all.
LEMMA NaturalsClosed ==
  ASSUME NEW T, 0 \in T, \A n \in Nat : n \in T => n + 1 \in T
  PROVE  \A n \in Nat : n \in T
<1> DEFINE less == {ss \in Nat \X Nat : ss[1] < ss[2]}
           left == Nat \ T
<1>1. SUFFICES ASSUME left # {} PROVE FALSE
  OBVIOUS
<1>2. IsWellFoundedOn(less, Nat)
  BY NatLessThanWellFounded DEF OpToRel
<1>3. PICK x \in left : \A y \in left : ~(<<y, x>> \in less)
  <2> HIDE DEF less
  <2>1. left \subseteq Nat
    OBVIOUS
  <2> HIDE DEF left
  <2>2. QED
    BY <1>1, <1>2, <2>1, WFMin
<1>4. x - 1 \in Nat /\ x - 1 < x
  BY <1>3
<1>5. x - 1 \in T
  BY <1>3, <1>4
<1>6. QED
  BY <1>3, <1>4, <1>5

\* A connection after i keys of a chunk, in terms of f, what it is after each of them.
FedTo(f, c, chunk, i) == IF i = 0 THEN [c EXCEPT !.ticks = 0] ELSE Key(f[i - 1], chunk[i])

\* There is such a function for any number of keys, since there is for none and for one more.
LEMMA FedExists ==
  ASSUME NEW c, NEW chunk, NEW m \in Nat
  PROVE  \E f : f = [i \in 0..m |-> FedTo(f, c, chunk, i)]
<1> DEFINE T == {n \in Nat : \E f : f = [i \in 0..n |-> FedTo(f, c, chunk, i)]}
<1>1. 0 \in T
  <2> DEFINE f == [i \in 0..0 |-> [c EXCEPT !.ticks = 0]]
  <2>1. f = [i \in 0..0 |-> FedTo(f, c, chunk, i)]
    BY DEF FedTo
  <2>2. QED
    BY <2>1
<1>2. ASSUME NEW n \in Nat, n \in T PROVE n + 1 \in T
  <2>1. PICK f : f = [i \in 0..n |-> FedTo(f, c, chunk, i)]
    BY <1>2
  <2>2. \A i \in 0..n : f[i] = FedTo(f, c, chunk, i)
    BY <2>1, Zenon
  <2> DEFINE g == [i \in 0..(n + 1) |-> IF i = n + 1 THEN Key(f[n], chunk[i]) ELSE f[i]]
  <2>3. ASSUME NEW i \in 0..(n + 1) PROVE g[i] = FedTo(g, c, chunk, i)
    <3>1. CASE i = 0
      BY <2>2, <3>1 DEF FedTo
    <3>2. CASE i # 0 /\ i # n + 1
      <4>1. i \in 0..n /\ i - 1 \in 0..n /\ i - 1 # n + 1
        BY <3>2
      <4>2. g[i] = f[i] /\ g[i - 1] = f[i - 1]
        BY <3>2, <4>1
      <4>3. f[i] = Key(f[i - 1], chunk[i])
        BY <2>2, <3>2, <4>1 DEF FedTo
      <4>4. QED
        BY <3>2, <4>2, <4>3 DEF FedTo
    <3>3. CASE i = n + 1
      <4>1. i # 0 /\ i - 1 = n /\ n \in 0..(n + 1) /\ n # n + 1
        BY <3>3
      <4>2. g[i] = Key(f[n], chunk[i]) /\ g[n] = f[n]
        BY <3>3, <4>1
      <4>3. QED
        BY <4>1, <4>2 DEF FedTo
    <3>4. QED
      BY <3>1, <3>2, <3>3
  <2>4. g = [i \in 0..(n + 1) |-> FedTo(g, c, chunk, i)]
    BY <2>3, Zenon
  <2> HIDE DEF g
  <2>5. QED
    BY <2>4
<1> HIDE DEF T
<1>3. m \in T
  BY <1>1, <1>2, NaturalsClosed
<1>4. QED
  BY <1>3 DEF T

LEMMA FedIsRecursive ==
  ASSUME NEW c, NEW chunk, Len(chunk) \in Nat
  PROVE  \A i \in 0..Len(chunk) : Fed(c, chunk)[i] = FedTo(Fed(c, chunk), c, chunk, i)
<1> DEFINE f == Fed(c, chunk)
<1>1. f = CHOOSE g : g = [i \in 0..Len(chunk) |-> FedTo(g, c, chunk, i)]
  BY Zenon DEF Fed, FedTo
<1>2. \E g : g = [i \in 0..Len(chunk) |-> FedTo(g, c, chunk, i)]
  BY FedExists
<1> HIDE DEF f
<1>3. f = [i \in 0..Len(chunk) |-> FedTo(f, c, chunk, i)]
  BY <1>1, <1>2, Zenon
<1>4. \A i \in 0..Len(chunk) : f[i] = FedTo(f, c, chunk, i)
  BY <1>3, Zenon
<1>5. QED
  BY <1>4 DEF f

LEMMA FedStart ==
  ASSUME NEW c, NEW chunk, Len(chunk) \in Nat
  PROVE  Fed(c, chunk)[0] = [c EXCEPT !.ticks = 0]
BY FedIsRecursive DEF FedTo

LEMMA FedStep ==
  ASSUME NEW c, NEW chunk, Len(chunk) \in Nat
  PROVE  \A i \in 1..Len(chunk) : Fed(c, chunk)[i] = Key(Fed(c, chunk)[i - 1], chunk[i])
<1>1. ASSUME NEW i \in 1..Len(chunk) PROVE Fed(c, chunk)[i] = FedTo(Fed(c, chunk), c, chunk, i)
  BY FedIsRecursive
<1>2. ASSUME NEW i \in 1..Len(chunk), NEW f PROVE FedTo(f, c, chunk, i) = Key(f[i - 1], chunk[i])
  BY DEF FedTo
<1>3. QED
  BY <1>1, <1>2

\* What every key preserves, a chunk preserves: S stands for what is to be preserved.
LEMMA FedStaysIn ==
  ASSUME NEW S, NEW Keys, \A d \in S : \A key \in Keys : Key(d, key) \in S,
         NEW c, NEW chunk \in Seq(Keys), NEW from \in 0..Len(chunk), Fed(c, chunk)[from] \in S
  PROVE  \A i \in from..Len(chunk) : Fed(c, chunk)[i] \in S
<1> DEFINE f == Fed(c, chunk)
           T == {n \in Nat : from + n <= Len(chunk) => f[from + n] \in S}
<1>1. Len(chunk) \in Nat /\ \A i \in 1..Len(chunk) : chunk[i] \in Keys
  OBVIOUS
<1>2. \A i \in 1..Len(chunk) : f[i] = Key(f[i - 1], chunk[i])
  BY <1>1, FedStep
<1>3. f[from] \in S
  OBVIOUS
<1> HIDE DEF f
<1>4. 0 \in T
  BY <1>3
<1>5. ASSUME NEW n \in Nat, n \in T PROVE n + 1 \in T
  <2>1. SUFFICES ASSUME from + (n + 1) <= Len(chunk) PROVE f[from + (n + 1)] \in S
    OBVIOUS
  <2>2. /\ from + (n + 1) \in 1..Len(chunk) /\ (from + (n + 1)) - 1 = from + n
        /\ from + n <= Len(chunk)
    BY <1>1, <2>1
  <2>3. f[from + n] \in S
    BY <1>5, <2>2
  <2>4. QED
    BY <1>1, <1>2, <2>2, <2>3
<1>6. ASSUME NEW i \in from..Len(chunk) PROVE f[i] \in S
  <2>1. i - from \in Nat /\ from + (i - from) = i
    BY <1>1
  <2> HIDE DEF T
  <2>2. i - from \in T
    BY <1>4, <1>5, <2>1, NaturalsClosed
  <2>3. QED
    BY <1>1, <2>1, <2>2 DEF T
<1>7. QED
  BY <1>6 DEF f

-----------------------------------------------------------------------------
(* sshd.                                                                   *)

Places == {"none", "boot", "poll", "leave"} \union Serving
SshStates == {"idle", "listening", "connected", "stopped"}

ServerTypes ==
  /\ ssh \in [known : BOOLEAN, at : Places, state : SshStates, stop : BOOLEAN, told : BOOLEAN]
  /\ ssh.at # "none" => ssh.known /\ ssh.state # "stopped"
  /\ ssh.at \in {"select", "handshake"} => ~ssh.told

OwnOutput == ssh.at \in Serving => "before" \notin tx

\* What the notifications say, the last one shown and those to come.
Said == <<shown>> \o toasts
Alternate(all) == \A i \in 1..(Len(all) - 1) : all[i] # all[i + 1]

\* The newest of them tells whether a client is there whose coming was announced.
Announced == ssh.told /\ ssh.at \in Session \union {"end"}

ToastTypes == shown \in BOOLEAN /\ toasts \in Seq(BOOLEAN) /\ refused \in BOOLEAN
Saying(there) == refused \/ (Alternate(Said) /\ (Said[Len(Said)] = TRUE <=> there))

Hosted == ServerTypes /\ OwnOutput /\ ToastTypes /\ Saying(Announced)

LEMMA SaidFacts ==
  ASSUME NEW s \in BOOLEAN, NEW q \in Seq(BOOLEAN)
  PROVE  /\ <<s>> \o q \in Seq(BOOLEAN) /\ Len(<<s>> \o q) = 1 + Len(q)
         /\ (<<s>> \o q)[1] = s
         /\ \A i \in 1..Len(q) : (<<s>> \o q)[1 + i] = q[i]
<1>1. <<s>> \in Seq(BOOLEAN) /\ Len(<<s>>) = 1 /\ <<s>>[1] = s /\ Len(q) \in Nat
  OBVIOUS
<1>2. /\ <<s>> \o q \in Seq(BOOLEAN) /\ Len(<<s>> \o q) = 1 + Len(q)
      /\ \A i \in 1..(1 + Len(q)) : (<<s>> \o q)[i] = IF i <= 1 THEN <<s>>[i] ELSE q[i - 1]
  BY <1>1, ConcatProperties
<1>3. \A i \in 1..Len(q) : 1 + i \in 1..(1 + Len(q)) /\ ~(1 + i <= 1) /\ (1 + i) - 1 = i
  BY <1>1
<1>4. QED
  BY <1>1, <1>2, <1>3

\* A notification that differs from the newest one keeps them alternating.
LEMMA NotifyKeepsSaying ==
  ASSUME ToastTypes, NEW c \in BOOLEAN, Notify(c), NEW there, Saying(there), ~there <=> c
  PROVE  /\ ToastTypes'
         /\ refused' \/ (Alternate(Said') /\ (Said'[Len(Said')] = TRUE <=> c))
<1>1. shown' = shown /\ ((refused' = TRUE /\ toasts' = toasts) \/ (toasts' = Append(toasts, c) /\ refused' = refused))
  BY DEF Notify
<1>2. ToastTypes'
  <2>1. shown' \in BOOLEAN
    BY <1>1 DEF ToastTypes
  <2>2. refused' \in BOOLEAN
    BY <1>1 DEF ToastTypes
  <2>3. toasts' \in Seq(BOOLEAN)
    <3>1. Append(toasts, c) \in Seq(BOOLEAN)
      BY AppendProperties DEF ToastTypes
    <3>2. QED
      BY <1>1, <3>1 DEF ToastTypes
  <2>4. QED
    BY <2>1, <2>2, <2>3 DEF ToastTypes
<1>3. ASSUME ~refused'
      PROVE  Alternate(Said') /\ (Said'[Len(Said')] = TRUE <=> c)
  <2> DEFINE n == Len(toasts)
  <2>1. n \in Nat /\ shown \in BOOLEAN /\ toasts \in Seq(BOOLEAN)
    BY DEF ToastTypes
  <2>2. /\ toasts' \in Seq(BOOLEAN) /\ Len(toasts') = n + 1 /\ toasts'[n + 1] = c
        /\ (\A i \in 1..n : toasts'[i] = toasts[i]) /\ ~refused
    BY <1>1, <1>3, <2>1, AppendProperties
  <2>3. /\ Said \in Seq(BOOLEAN) /\ Len(Said) = 1 + n /\ Said[1] = shown
        /\ \A i \in 1..n : Said[1 + i] = toasts[i]
    BY <2>1, SaidFacts DEF Said
  <2>4. /\ Said' \in Seq(BOOLEAN) /\ Len(Said') = 1 + (n + 1) /\ Said'[1] = shown
        /\ \A i \in 1..(n + 1) : Said'[1 + i] = toasts'[i]
    BY <1>1, <2>1, <2>2, SaidFacts DEF Said
  <2> HIDE DEF n
  <2>5. ASSUME NEW i \in 1..(1 + n) PROVE Said'[i] = Said[i]
    <3>1. CASE i = 1
      BY <2>3, <2>4, <3>1
    <3>2. CASE i # 1
      <4>1. i - 1 \in 1..n /\ i - 1 \in 1..(n + 1) /\ 1 + (i - 1) = i
        BY <2>1, <3>2
      <4>2. QED
        BY <2>2, <2>3, <2>4, <4>1
    <3>3. QED
      BY <3>1, <3>2
  <2>6. Said'[1 + (n + 1)] = c
    BY <2>1, <2>2, <2>4
  <2>7. Alternate(Said) /\ (Said[1 + n] = TRUE <=> there)
    BY <2>2, <2>3 DEF Saying
  <2>8. Said[1 + n] # c
    <3>1. Said[1 + n] \in BOOLEAN
      BY <2>1, <2>3
    <3>2. QED
      BY <2>7, <3>1
  <2>9. ASSUME NEW i \in 1..(Len(Said') - 1) PROVE Said'[i] # Said'[i + 1]
    <3>1. CASE i = 1 + n
      <4>1. i + 1 = 1 + (n + 1) /\ i \in 1..(1 + n)
        BY <2>1, <3>1
      <4>2. QED
        BY <2>5, <2>6, <2>8, <3>1, <4>1
    <3>2. CASE i # 1 + n
      <4>1. i \in 1..(1 + n) /\ i + 1 \in 1..(1 + n) /\ i \in 1..(Len(Said) - 1)
        BY <2>1, <2>3, <2>4, <3>2
      <4>2. Said[i] # Said[i + 1]
        BY <2>7, <4>1 DEF Alternate
      <4>3. QED
        BY <2>5, <4>1, <4>2
    <3>3. QED
      BY <3>1, <3>2
  <2>10. QED
    BY <2>4, <2>6, <2>9 DEF Alternate
<1>4. QED
  BY <1>2, <1>3

\* Showing one takes the oldest away.
LEMMA ToastKeepsSaying ==
  ASSUME ToastTypes, Toast, Saying(Announced)
  PROVE  ToastTypes' /\ (refused' \/ (Alternate(Said') /\ (Said'[Len(Said')] = TRUE <=> Announced)))
<1>1. toasts # << >> /\ shown' = Head(toasts) /\ toasts' = Tail(toasts) /\ refused' = refused
  BY DEF Toast
<1> DEFINE n == Len(toasts)
<1>2. n \in Nat /\ n > 0 /\ shown \in BOOLEAN /\ toasts \in Seq(BOOLEAN)
  BY <1>1 DEF ToastTypes
<1>3. shown' = toasts[1] /\ shown' \in BOOLEAN
  BY <1>1, <1>2
<1>4. toasts' \in Seq(BOOLEAN) /\ Len(toasts') = n - 1 /\ \A i \in 1..(n - 1) : toasts'[i] = toasts[i + 1]
  BY <1>1, <1>2, HeadTailProperties
<1>5. ToastTypes'
  BY <1>1, <1>3, <1>4 DEF ToastTypes
<1>6. ASSUME ~refused
      PROVE  Alternate(Said') /\ (Said'[Len(Said')] = TRUE <=> Announced)
  <2>1. /\ Len(Said) = 1 + n /\ \A i \in 1..n : Said[1 + i] = toasts[i]
    BY <1>2, SaidFacts DEF Said
  <2>2. /\ Len(Said') = 1 + (n - 1) /\ Said'[1] = shown'
        /\ \A i \in 1..(n - 1) : Said'[1 + i] = toasts'[i]
    BY <1>2, <1>3, <1>4, SaidFacts DEF Said
  <2> HIDE DEF n
  <2>3. ASSUME NEW i \in 1..n PROVE Said'[i] = Said[i + 1]
    <3>1. CASE i = 1
      BY <1>2, <1>3, <2>1, <2>2, <3>1
    <3>2. CASE i # 1
      <4>1. i - 1 \in 1..(n - 1) /\ 1 + (i - 1) = i /\ (i - 1) + 1 = i /\ 1 + i = i + 1
        BY <1>2, <3>2
      <4>2. QED
        BY <1>4, <2>1, <2>2, <4>1
    <3>3. QED
      BY <3>1, <3>2
  <2>4. Alternate(Said) /\ (Said[n + 1] = TRUE <=> Announced)
    <3>1. Len(Said) = n + 1
      BY <1>2, <2>1
    <3>2. QED
      BY <1>6, <3>1 DEF Saying
  <2>5. Len(Said') = n /\ n \in 1..n
    BY <1>2, <2>2
  <2>6. ASSUME NEW i \in 1..(Len(Said') - 1) PROVE Said'[i] # Said'[i + 1]
    <3>1. i \in 1..n /\ i + 1 \in 1..n /\ i + 1 \in 1..(Len(Said) - 1)
      BY <1>2, <2>1, <2>5
    <3>2. Said[i + 1] # Said[(i + 1) + 1]
      BY <2>4, <3>1 DEF Alternate
    <3>3. QED
      BY <2>3, <3>1, <3>2
  <2>7. QED
    BY <2>3, <2>4, <2>5, <2>6 DEF Alternate
<1>7. QED
  BY <1>1, <1>5, <1>6

\* Nothing is announced, and whether a client is there that was does not change.
LEMMA NoToastKeepsSaying ==
  ASSUME Hosted, NoToast, Announced' <=> Announced
  PROVE  ToastTypes' /\ Saying(Announced)'
BY DEF Hosted, NoToast, ToastTypes, Saying, Said, Alternate

\* The steps of the MicroPython thread.
LEMMA ThreadKeepsHosted ==
  ASSUME Hosted, SshStart \/ SshStop \/ Display \/ Toast \/ Telnet
  PROVE  Hosted'
<1> USE DEF Places, SshStates
<1>1. CASE SshStart
  <2>1. PICK at \in {"boot", "none"} :
          ssh' = [ssh EXCEPT !.known = TRUE, !.at = at, !.state = "idle", !.stop = FALSE, !.told = FALSE]
    BY <1>1 DEF SshStart
  <2>2. ssh.at = "none"
    BY <1>1 DEF SshStart, Hosted, ServerTypes
  <2>3. ServerTypes' /\ ssh'.at = at
    BY <2>1 DEF Hosted, ServerTypes
  <2>4. OwnOutput' /\ (Announced' <=> Announced)
    BY <2>2, <2>3 DEF OwnOutput, Serving, Session, Announced
  <2>5. NoToast
    BY <1>1 DEF SshStart, NoToast
  <2>6. QED
    BY <2>3, <2>4, <2>5, NoToastKeepsSaying DEF Hosted
<1>2. CASE SshStop
  <2>1. ssh' = [ssh EXCEPT !.stop = TRUE] /\ tx' = tx /\ NoToast
    BY <1>2 DEF SshStop, NoToast
  <2>2. ServerTypes' /\ ssh'.at = ssh.at /\ (ssh'.told <=> ssh.told)
    BY <2>1 DEF Hosted, ServerTypes
  <2>3. QED
    BY <2>1, <2>2, NoToastKeepsSaying DEF Hosted, OwnOutput, Announced
<1>3. CASE Display
  <2>1. /\ ssh' = ssh /\ NoToast
        /\ tx' = tx \union {IF ssh.at \in Serving THEN "since" ELSE "before"}
    BY <1>3 DEF Display, NoToast, Serving, Session
  <2>2. ServerTypes' /\ OwnOutput' /\ (Announced' <=> Announced)
    BY <2>1 DEF Hosted, ServerTypes, OwnOutput, Announced
  <2>3. QED
    BY <2>1, <2>2, NoToastKeepsSaying DEF Hosted
<1>4. CASE Toast
  <2>1. ssh' = ssh /\ tx' = tx
    BY <1>4 DEF Toast
  <2>2. ToastTypes /\ Saying(Announced)
    BY DEF Hosted
  <2>3. ToastTypes' /\ (refused' \/ (Alternate(Said') /\ (Said'[Len(Said')] = TRUE <=> Announced)))
    BY <1>4, <2>2, ToastKeepsSaying
  <2>4. ToastTypes' /\ Saying(Announced)'
    BY <2>1, <2>3 DEF Saying, Announced, Alternate
  <2>5. QED
    BY <2>1, <2>4 DEF Hosted, ServerTypes, OwnOutput
<1>5. CASE Telnet
  <2>1. UNCHANGED sshd
    BY <1>5 DEF Telnet, TelnetStart, TimerTaken, TelnetStop, Greet, Hear, Quiet, GiveUp, Gone, OthersOfTel
  <2>2. ServerTypes' /\ OwnOutput' /\ NoToast /\ (Announced' <=> Announced)
    BY <2>1 DEF sshd, Hosted, ServerTypes, OwnOutput, NoToast, Announced
  <2>3. QED
    BY <2>2, NoToastKeepsSaying DEF Hosted
<1>6. QED
  BY <1>1, <1>2, <1>3, <1>4, <1>5

\* The task goes on with its client and announces nothing.
LEMMA MoveKeepsHosted ==
  ASSUME Hosted, NEW at \in Serving, ssh.at \in Serving, SshTo(at), tx' \subseteq tx, NoToast,
         at \in {"select", "handshake"} => ~ssh.told,
         ssh.told => (at \in Session \union {"end"} <=> ssh.at \in Session \union {"end"})
  PROVE  Hosted'
<1>1. ssh' = [ssh EXCEPT !.at = at] /\ at \in Places
  BY DEF SshTo, Places
<1>2. ServerTypes' /\ ssh'.at = at /\ (ssh'.told <=> ssh.told)
  BY <1>1 DEF Hosted, ServerTypes, Serving, Session
<1>3. OwnOutput'
  BY <1>2 DEF Hosted, OwnOutput
<1>4. Announced' <=> Announced
  BY <1>2 DEF Announced
<1>5. QED
  BY <1>2, <1>3, <1>4, NoToastKeepsSaying DEF Hosted

\* The steps of the task that announce nothing.
Unannounced ==
  \/ Listen \/ StopSeen \/ Leave \/ Accept \/ FirstByte \/ Round \/ Read \/ Sent \/ Finish
  \/ CutShort \/ Shutdown \/ CloseClient

LEMMA TaskKeepsHosted ==
  ASSUME Hosted, Unannounced
  PROVE  Hosted'
<1> USE DEF SshStates, SshTo, Serving, Session
<1>1. NoToast
  BY DEF Unannounced, Listen, StopSeen, Leave, Accept, FirstByte, Round, Read, Sent, Output, Finish, CutShort,
         Shutdown, CloseClient
<1>2. CASE Listen \/ StopSeen \/ Leave
  <2>1. ServerTypes' /\ ssh'.at \notin Serving /\ ssh.at \notin Serving
    BY <1>2 DEF Listen, StopSeen, Leave, Hosted, ServerTypes, Places
  <2>2. QED
    BY <1>1, <2>1, NoToastKeepsSaying DEF Hosted, OwnOutput, Announced
<1>3. CASE Accept
  <2>1. ssh.at = "poll" /\ ssh' = [ssh EXCEPT !.at = "select", !.told = FALSE] /\ tx' = {}
    BY <1>3 DEF Accept
  <2>2. ServerTypes' /\ ssh'.at = "select"
    BY <2>1 DEF Hosted, ServerTypes, Places
  <2>3. QED
    BY <1>1, <2>1, <2>2, NoToastKeepsSaying DEF Hosted, OwnOutput, Announced
<1>4. CASE FirstByte
  <2>1. PICK at \in {"handshake", "end", "close"} : ssh.at = "select" /\ SshTo(at) /\ tx' = tx
    BY <1>4 DEF FirstByte, NoData
  <2>2. ~ssh.told
    BY <2>1 DEF Hosted, ServerTypes
  <2>3. QED
    BY <1>1, <2>1, <2>2, MoveKeepsHosted
<1>5. CASE Round \/ Read \/ Sent
  <2>1. \E at \in Session : ssh.at \in Session /\ SshTo(at) /\ tx' \subseteq tx
    BY <1>5 DEF Round, Read, Sent, Output, NoData
  <2>2. QED
    BY <1>1, <2>1, MoveKeepsHosted
<1>6. CASE Finish \/ CutShort
  <2>1. ssh.at \in Session /\ SshTo("end") /\ tx' = tx
    BY <1>6 DEF Finish, CutShort, NoData
  <2>2. QED
    BY <1>1, <2>1, MoveKeepsHosted
<1>7. CASE Shutdown
  <2>1. ssh.at = "shutdown" /\ SshTo("close") /\ tx' = tx
    BY <1>7 DEF Shutdown, NoData
  <2>2. QED
    BY <1>1, <2>1, MoveKeepsHosted
<1>8. CASE CloseClient
  <2>1. /\ ssh.at = "close"
        /\ ssh' = [ssh EXCEPT !.at = "poll", !.state = IF ssh.stop THEN ssh.state ELSE "listening"]
    BY <1>8 DEF CloseClient
  <2>2. ServerTypes' /\ ssh'.at = "poll"
    BY <2>1 DEF Hosted, ServerTypes, Places
  <2>3. OwnOutput' /\ ~Announced' /\ ~Announced
    BY <2>1, <2>2 DEF OwnOutput, Announced
  <2>4. QED
    BY <1>1, <2>2, <2>3, NoToastKeepsSaying DEF Hosted
<1>9. QED
  BY <1>2, <1>3, <1>4, <1>5, <1>6, <1>7, <1>8 DEF Unannounced

LEMMA HandshakeKeepsHosted ==
  ASSUME Hosted, Handshake
  PROVE  Hosted'
<1> USE DEF Places, SshStates, SshTo, Serving, Session
<1>1. ssh.at = "handshake" /\ tx' = tx /\ ~Announced
  BY DEF Handshake, NoData, Announced
<1>2. CASE SshTo("end") /\ NoToast
  <2>1. ServerTypes' /\ ssh'.at = "end" /\ ~ssh'.told
    BY <1>1, <1>2 DEF Hosted, ServerTypes
  <2>2. OwnOutput'
    BY <1>1 DEF Hosted, OwnOutput
  <2>3. QED
    <3>1. Announced' <=> Announced
      BY <1>1, <2>1 DEF Announced
    <3>2. QED
      BY <1>2, <2>1, <2>2, <3>1, NoToastKeepsSaying DEF Hosted
<1>3. CASE ssh' = [ssh EXCEPT !.at = "session", !.state = "connected", !.told = TRUE] /\ Notify(TRUE)
  <2>1. ServerTypes' /\ ssh'.at = "session" /\ ssh'.told = TRUE
    BY <1>1, <1>3 DEF Hosted, ServerTypes
  <2>2. OwnOutput'
    BY <1>1 DEF Hosted, OwnOutput
  <2>3. ToastTypes' /\ (refused' \/ (Alternate(Said') /\ (Said'[Len(Said')] = TRUE <=> TRUE)))
    BY <1>1, <1>3, NotifyKeepsSaying DEF Hosted
  <2>4. Saying(Announced)'
    BY <2>1, <2>3 DEF Saying, Announced, Alternate
  <2>5. QED
    BY <2>1, <2>2, <2>3, <2>4 DEF Hosted
<1>4. QED
  BY <1>2, <1>3 DEF Handshake

LEMMA EndClientKeepsHosted ==
  ASSUME Hosted, EndClient
  PROVE  Hosted'
<1> USE DEF Places, SshStates, SshTo, Serving, Session
<1>1. ssh.at = "end" /\ NotifyEnd /\ ssh' = [ssh EXCEPT !.at = "shutdown"] /\ tx' = tx
  BY DEF EndClient, NoData
<1>2. ServerTypes' /\ ssh'.at = "shutdown"
  BY <1>1 DEF Hosted, ServerTypes
<1>3. OwnOutput' /\ ~Announced'
  BY <1>1, <1>2 DEF Hosted, OwnOutput, Announced
<1>4. CASE ssh.told
  <2>1. Announced /\ Notify(FALSE)
    BY <1>1, <1>4 DEF Announced, NotifyEnd
  <2>2. ToastTypes' /\ (refused' \/ (Alternate(Said') /\ (Said'[Len(Said')] = TRUE <=> FALSE)))
    BY <2>1, NotifyKeepsSaying DEF Hosted
  <2>3. Saying(Announced)'
    BY <1>3, <2>2 DEF Saying, Alternate
  <2>4. QED
    BY <1>2, <1>3, <2>2, <2>3 DEF Hosted
<1>5. CASE ~ssh.told
  <2>1. ~Announced /\ NoToast
    BY <1>1, <1>5 DEF Announced, NotifyEnd
  <2>2. QED
    BY <1>2, <1>3, <2>1, NoToastKeepsSaying DEF Hosted
<1>6. QED
  BY <1>4, <1>5

\* The inductive form of OutputIsOwn and ToastsAlternate.
THEOREM HostedInvariance == SpecConsole => []Hosted
<1>1. InitConsole => Hosted
  <2> SUFFICES ASSUME InitConsole PROVE Hosted
    OBVIOUS
  <2>1. ServerTypes /\ OwnOutput /\ ~Announced
    BY DEF InitConsole, ServerTypes, OwnOutput, Announced, NoServer, Places, SshStates, Serving, Session
  <2>2. shown = FALSE /\ toasts = << >> /\ refused = FALSE /\ << >> \in Seq(BOOLEAN)
    BY DEF InitConsole
  <2>3. ToastTypes
    BY <2>2 DEF ToastTypes
  <2>4. Len(Said) = 1 /\ Said[1] = FALSE
    BY <2>2, SaidFacts DEF Said
  <2>5. Saying(Announced)
    BY <2>1, <2>4 DEF Saying, Alternate
  <2>6. QED
    BY <2>1, <2>3, <2>5 DEF Hosted
<1>2. Hosted /\ [NextConsole]_cvars => Hosted'
  <2> SUFFICES ASSUME Hosted, [NextConsole]_cvars PROVE Hosted'
    OBVIOUS
  <2>1. CASE SshStart \/ SshStop \/ Display \/ Toast \/ Telnet
    BY <2>1, ThreadKeepsHosted
  <2>2. CASE Unannounced
    BY <2>2, TaskKeepsHosted
  <2>3. CASE Handshake
    BY <2>3, HandshakeKeepsHosted
  <2>4. CASE EndClient
    BY <2>4, EndClientKeepsHosted
  <2>5. CASE UNCHANGED cvars
    <3>1. ServerTypes' /\ OwnOutput' /\ NoToast /\ (Announced' <=> Announced)
      BY <2>5 DEF cvars, sshd, Hosted, ServerTypes, OwnOutput, NoToast, Announced
    <3>2. QED
      BY <3>1, NoToastKeepsSaying DEF Hosted
  <2>6. QED
    BY <2>1, <2>2, <2>3, <2>4, <2>5 DEF NextConsole, SshTask, SshObliged, Unannounced
<1>3. QED
  BY <1>1, <1>2, PTL DEF SpecConsole

\* A client of sshd is shown only what the terminal displayed since it came
\* (modsshd.c:188): the ring is emptied when it is accepted.
THEOREM OutputStaysOwn == SpecConsole => []OutputIsOwn
<1>1. Hosted => OutputIsOwn
  BY DEF Hosted, OwnOutput, Serving, Session, OutputIsOwn
<1>2. QED
  BY <1>1, HostedInvariance, PTL

\* "connected" and "disconnected" alternate as long as none was refused (modsshd.c:176-178).
THEOREM ToastsStayAlternate == SpecConsole => []ToastsAlternate
<1>1. Hosted => ToastsAlternate
  BY DEF Hosted, Saying, Said, Alternate, ToastsAlternate
<1>2. QED
  BY <1>1, HostedInvariance, PTL
-----------------------------------------------------------------------------
(* telnetd and the mirror.                                                 *)

Typed == Texts \union {"enter", "backspace"}
States == {"user", "pass", "shell"}
Conns == [open : BOOLEAN, authed : BOOLEAN, state : States, line : Texts \union {"", "other"},
          named : BOOLEAN, ticks : Nat, burst : BOOLEAN]

\* What is true of every connection: LoginIsFinal, and that a login needs a socket.
Sound(c) == /\ c.authed => c.open
            /\ c.state = "shell" => c.authed
            /\ (c.authed /\ ~c.burst) => c.state = "shell"
Good == {c \in Conns : Sound(c)}

Kept == (ssh.at # "none" /\ ~ssh.stop /\ ~lost) => mirror = "ssh"

Linked ==
  /\ conn \in Good /\ lost \in BOOLEAN /\ tel \in [on : BOOLEAN, timer : BOOLEAN]
  /\ ~tel.on => ~conn.open
  /\ Kept
  /\ mirror = "telnet" => (conn.open /\ conn.authed)

\* A key: it neither opens nor closes the connection, and takes no login back.
LEMMA KeyKeeps ==
  ASSUME NEW c \in Good, c.open, NEW key \in Typed
  PROVE  Key(c, key) \in Good /\ Key(c, key).open /\ (c.authed => Key(c, key).authed)
<1> DEFINE d == [c EXCEPT !.burst = c.burst \/ c.state = "shell"]
<1> USE DEF States, Texts, Typed
<1>1. /\ d \in Conns /\ d.state = c.state /\ d.line = c.line /\ d.named = c.named
      /\ (d.open <=> c.open) /\ (d.authed <=> c.authed)
      /\ (d.burst <=> (c.burst \/ c.state = "shell"))
  BY DEF Good, Conns
<1>2. Sound(c)
  BY DEF Good
<1>3. Key(c, key) = IF key = "enter" THEN Submit(d)
                    ELSE IF key = "backspace" THEN [d EXCEPT !.line = ""]
                    ELSE [d EXCEPT !.line = IF d.line = "" THEN key ELSE "other"]
  BY DEF Key
<1> HIDE DEF d
<1>4. CASE key # "enter"
  <2>1. PICK line \in Texts \union {"", "other"} : Key(c, key) = [d EXCEPT !.line = line]
    BY <1>3, <1>4
  <2>2. Key(c, key) \in Conns
    BY <1>1, <2>1 DEF Conns
  <2>3. Key(c, key).state = d.state /\ (Key(c, key).open <=> d.open)
    BY <1>1, <2>1 DEF Conns
  <2>4. (Key(c, key).authed <=> d.authed) /\ (Key(c, key).burst <=> d.burst)
    BY <1>1, <2>1 DEF Conns
  <2>5. QED
    BY <1>1, <1>2, <2>2, <2>3, <2>4 DEF Good, Sound
<1>5. CASE key = "enter" /\ d.state = "user"
  <2>1. PICK named \in BOOLEAN : Key(c, key) = [d EXCEPT !.named = named, !.line = "", !.state = "pass"]
    BY <1>3, <1>5 DEF Submit
  <2>2. Key(c, key) \in Conns
    BY <1>1, <2>1 DEF Conns
  <2>3. Key(c, key).state = "pass" /\ (Key(c, key).open <=> d.open)
    BY <1>1, <2>1 DEF Conns
  <2>4. (Key(c, key).authed <=> d.authed) /\ (Key(c, key).burst <=> d.burst)
    BY <1>1, <2>1 DEF Conns
  <2>5. QED
    BY <1>1, <1>2, <1>5, <2>2, <2>3, <2>4 DEF Good, Sound
<1>6. CASE key = "enter" /\ d.state # "user" /\ d.named /\ d.line = "password"
  <2>1. \/ Key(c, key) = [d EXCEPT !.line = "", !.state = "shell", !.authed = TRUE]
    BY <1>3, <1>6 DEF Submit
  <2>2. Key(c, key) \in Conns
    BY <1>1, <2>1 DEF Conns
  <2>3. Key(c, key).state = "shell" /\ (Key(c, key).open <=> d.open)
    BY <1>1, <2>1 DEF Conns
  <2>4. Key(c, key).authed = TRUE
    BY <1>1, <2>1 DEF Conns
  <2>5. QED
    BY <1>1, <1>2, <1>6, <2>2, <2>3, <2>4 DEF Good, Sound
<1>7. CASE key = "enter" /\ d.state # "user" /\ ~(d.named /\ d.line = "password")
  <2>1. Key(c, key) = [d EXCEPT !.line = "", !.named = FALSE, !.state = "user"]
    BY <1>3, <1>7 DEF Submit
  <2>2. Key(c, key) \in Conns
    BY <1>1, <2>1 DEF Conns
  <2>3. Key(c, key).state = "user" /\ (Key(c, key).open <=> d.open)
    BY <1>1, <2>1 DEF Conns
  <2>4. (Key(c, key).authed <=> d.authed) /\ (Key(c, key).burst <=> d.burst)
    BY <1>1, <2>1 DEF Conns
  <2>5. QED
    BY <1>1, <1>2, <1>7, <2>2, <2>3, <2>4 DEF Good, Sound
<1>8. QED
  BY <1>4, <1>5, <1>6, <1>7

\* All the keys of a chunk: a login in the middle is still there at the end.
LEMMA ChunkKeeps ==
  ASSUME NEW c \in Good, c.open, NEW heard \in Seq(Typed)
  PROVE  LET e == Fed(c, heard)[Len(heard)] IN
         e \in Good /\ e.open /\ ((c.authed \/ Logins(c, heard)) => e.authed)
<1> DEFINE Open == {d \in Good : d.open}
           Known == {d \in Good : d.authed}
<1>1. Len(heard) \in Nat /\ DOMAIN heard = 1..Len(heard)
  OBVIOUS
<1>2. Fed(c, heard)[0] = [c EXCEPT !.ticks = 0]
  BY <1>1, FedStart
<1>3. Fed(c, heard)[0] \in Open /\ (c.authed => Fed(c, heard)[0].authed)
  <2> DEFINE e == [c EXCEPT !.ticks = 0]
  <2>1. c \in Conns /\ Sound(c) /\ c.open
    BY DEF Good
  <2>2. /\ e \in Conns /\ e.state = c.state
        /\ (e.open <=> c.open) /\ (e.authed <=> c.authed) /\ (e.burst <=> c.burst)
    BY <2>1 DEF Conns
  <2> HIDE DEF e
  <2>3. e \in Good /\ e.open /\ (c.authed => e.authed)
    BY <2>1, <2>2 DEF Good, Sound
  <2>4. QED
    BY <1>2, <2>3 DEF e
<1>4. \A d \in Open : \A key \in Typed : Key(d, key) \in Open
  BY KeyKeeps
<1>5. \A d \in Known : d.open
  BY DEF Good, Sound
<1>6. \A d \in Known : \A key \in Typed : Key(d, key) \in Known
  BY <1>5, KeyKeeps
<1>7. \A i \in 0..Len(heard) : Fed(c, heard)[i] \in Open
  <2> HIDE DEF Open
  <2>1. 0 \in 0..Len(heard)
    BY <1>1
  <2>2. QED
    BY <1>3, <1>4, <2>1, FedStaysIn
<1>8. ASSUME NEW from \in 0..Len(heard), Fed(c, heard)[from].authed
      PROVE  Fed(c, heard)[Len(heard)].authed
  <2>1. Fed(c, heard)[from] \in Known
    BY <1>7, <1>8
  <2>2. \A i \in from..Len(heard) : Fed(c, heard)[i] \in Known
    <3> HIDE DEF Known
    <3>1. QED
      BY <1>6, <2>1, FedStaysIn
  <2>3. Len(heard) \in from..Len(heard)
    BY <1>1
  <2>4. QED
    BY <2>2, <2>3
<1>9. ASSUME c.authed \/ Logins(c, heard) PROVE Fed(c, heard)[Len(heard)].authed
  <2>1. CASE c.authed
    <3>1. 0 \in 0..Len(heard)
      BY <1>1
    <3>2. QED
      BY <1>3, <1>8, <2>1, <3>1
  <2>2. CASE Logins(c, heard)
    <3>1. PICK i \in 1..Len(heard) : Fed(c, heard)[i].state = "shell"
      BY <1>1, <2>2 DEF Logins
    <3>2. i \in 0..Len(heard)
      BY <1>1
    <3>3. Fed(c, heard)[i].authed
      BY <1>7, <3>1, <3>2 DEF Good, Sound
    <3>4. QED
      BY <1>8, <3>2, <3>3
  <2>3. QED
    BY <1>9, <2>1, <2>2
<1>10. Len(heard) \in 0..Len(heard)
  BY <1>1
<1>11. QED
  BY <1>7, <1>9, <1>10

\* A key whose answer cannot be sent changes the line only.
LEMMA KeyRaisingKeeps ==
  ASSUME NEW c \in Good, NEW key \in Typed
  PROVE  LET e == KeyRaising(c, key) IN
         e \in Good /\ (e.open <=> c.open) /\ (e.authed <=> c.authed)
<1> USE DEF Typed, Texts, States
<1>1. PICK line \in Texts \union {"", "other"}, named \in BOOLEAN :
        KeyRaising(c, key) = [c EXCEPT !.line = line, !.named = named]
  <2>1. CASE key = "enter"
    <3>1. KeyRaising(c, key) = [c EXCEPT !.line = "", !.named = IF c.state = "user" THEN c.line = "user" ELSE c.named]
      BY <2>1 DEF KeyRaising
    <3>2. (IF c.state = "user" THEN c.line = "user" ELSE c.named) \in BOOLEAN
      BY DEF Good, Conns
    <3>3. QED
      BY <3>1, <3>2
  <2>2. CASE key # "enter"
    <3>1. PICK line \in Texts \union {"", "other"} : KeyRaising(c, key) = [c EXCEPT !.line = line]
      BY <2>2 DEF KeyRaising
    <3>2. c.named \in BOOLEAN /\ [c EXCEPT !.line = line] = [c EXCEPT !.line = line, !.named = c.named]
      BY DEF Good, Conns
    <3>3. QED
      BY <3>1, <3>2
  <2>3. QED
    BY <2>1, <2>2
<1>2. c \in Conns /\ Sound(c)
  BY DEF Good
<1>3. LET e == KeyRaising(c, key) IN
      /\ e \in Conns /\ e.state = c.state
      /\ (e.open <=> c.open) /\ (e.authed <=> c.authed) /\ (e.burst <=> c.burst)
  BY <1>1, <1>2 DEF Conns
<1>4. QED
  BY <1>2, <1>3 DEF Good, Sound

\* The tick that hears something.
LEMMA HearKeepsLinked ==
  ASSUME Linked, Hear
  PROVE  Linked'
<1>1. conn.open /\ tel' = tel /\ ssh' = ssh
  BY DEF Hear, OthersOfTel, sshd
<1>2. CASE UNCHANGED <<conn, mirror, lost>>
  BY <1>1, <1>2 DEF Linked, Kept
<1>3. CASE conn.state # "shell"
  <2>1. PICK chunk \in Chunks, raises \in BOOLEAN :
          LET heard == IF raises THEN Front(chunk) ELSE chunk
              c     == Fed(conn, heard)[Len(heard)]
          IN /\ conn' = IF raises THEN KeyRaising(c, Last(chunk))
                         ELSE [c EXCEPT !.ticks = IF c.authed THEN 0 ELSE 1]
             /\ mirror' = IF Logins(conn, heard) THEN "telnet" ELSE mirror
             /\ lost' = (lost \/ Logins(conn, heard))
    BY <1>3 DEF Hear
  <2> DEFINE heard == IF raises THEN Front(chunk) ELSE chunk
             c == Fed(conn, heard)[Len(heard)]
  <2>2. chunk \in Seq(Typed) /\ Len(chunk) \in Nat \ {0}
    <3>1. PICK n \in 1..MaxChunk : chunk \in [1..n -> Typed]
      BY DEF Chunks, Typed
    <3>2. n \in Nat \ {0}
      BY ConsoleAssumption
    <3>3. QED
      BY <3>1, <3>2
  <2>3. heard \in Seq(Typed)
    BY <2>2 DEF Front
  <2>4. Last(chunk) \in Typed
    BY <2>2 DEF Last
  <2>5. /\ conn' = IF raises THEN KeyRaising(c, Last(chunk)) ELSE [c EXCEPT !.ticks = IF c.authed THEN 0 ELSE 1]
        /\ mirror' = IF Logins(conn, heard) THEN "telnet" ELSE mirror
        /\ lost' = (lost \/ Logins(conn, heard))
    BY <2>1
  <2> HIDE DEF heard
  <2>6. c \in Good /\ c.open /\ ((conn.authed \/ Logins(conn, heard)) => c.authed)
    BY <1>1, <2>3, ChunkKeeps DEF Linked
  <2> HIDE DEF c
  <2>7. conn' \in Good /\ conn'.open /\ (c.authed => conn'.authed)
    <3>1. CASE raises
      BY <2>4, <2>5, <2>6, <3>1, KeyRaisingKeeps
    <3>2. CASE ~raises
      <4>1. PICK n \in Nat : conn' = [c EXCEPT !.ticks = n]
        BY <2>5, <3>2
      <4>2. c \in Conns /\ Sound(c)
        BY <2>6 DEF Good
      <4>3. /\ conn' \in Conns /\ conn'.state = c.state
            /\ (conn'.open <=> c.open) /\ (conn'.authed <=> c.authed) /\ (conn'.burst <=> c.burst)
        BY <4>1, <4>2 DEF Conns
      <4>4. QED
        BY <2>6, <4>2, <4>3 DEF Good, Sound
    <3>3. QED
      BY <3>1, <3>2
  <2>8. lost' \in BOOLEAN /\ Kept' /\ ~(~tel'.on /\ conn.open)
    BY <1>1, <2>5 DEF Linked, Kept
  <2>9. mirror' = "telnet" => conn'.authed
    BY <2>5, <2>6, <2>7 DEF Linked
  <2>10. QED
    BY <1>1, <2>7, <2>8, <2>9 DEF Linked
<1>4. QED
  BY <1>2, <1>3 DEF Hear

LEMMA CloseKeepsLinked ==
  ASSUME Linked, Close, ssh' = ssh, tel' \in [on : BOOLEAN, timer : BOOLEAN]
  PROVE  Linked'
<1>1. conn' \in Good /\ conn'.open = FALSE
  BY DEF Close, NoConn, Good, Conns, Sound, States, Texts
<1>2. lost' \in BOOLEAN
  BY DEF Close, Linked
<1>3. mirror' # "telnet"
  BY DEF Close, Detaches, Linked
<1>4. Kept'
  BY DEF Close, Detaches, Linked, Kept
<1>5. QED
  BY <1>1, <1>2, <1>3, <1>4 DEF Linked

LEMMA TelnetKeepsLinked ==
  ASSUME Linked, TelnetStart \/ TimerTaken \/ TelnetStop \/ Greet \/ Quiet \/ GiveUp \/ Gone
  PROVE  Linked'
<1>1. ssh' = ssh
  BY DEF TelnetStart, TimerTaken, TelnetStop, Greet, Quiet, GiveUp, Gone, OthersOfTel, sshd
<1>2. NoConn \in Good /\ ~NoConn.open /\ [NoConn EXCEPT !.open = TRUE, !.ticks = 1] \in Good
  BY DEF NoConn, Good, Conns, Sound, States, Texts
<1>3. CASE TelnetStart
  <2>1. tel' \in [on : BOOLEAN, timer : BOOLEAN] /\ conn' = NoConn /\ mirror' = mirror /\ lost' = lost /\ ~conn.open
    BY <1>3 DEF TelnetStart, Linked
  <2>2. QED
    BY <1>1, <1>2, <2>1 DEF Linked, Kept
<1>4. CASE TimerTaken
  <2>1. tel' \in [on : BOOLEAN, timer : BOOLEAN] /\ (tel'.on <=> tel.on) /\ conn' = conn /\ mirror' = mirror /\ lost' = lost
    BY <1>4 DEF TimerTaken, Linked
  <2>2. QED
    BY <1>1, <2>1 DEF Linked, Kept
<1>5. CASE TelnetStop
  <2>1. tel' \in [on : BOOLEAN, timer : BOOLEAN]
    BY <1>5 DEF TelnetStop
  <2>2. CASE conn.open
    BY <1>5, <1>1, <2>1, <2>2, CloseKeepsLinked DEF TelnetStop
  <2>3. CASE ~conn.open
    <3>1. conn' = conn /\ mirror' = mirror /\ lost' = lost
      BY <1>5, <2>3 DEF TelnetStop
    <3>2. QED
      BY <1>1, <2>1, <2>3, <3>1 DEF Linked, Kept
  <2>4. QED
    BY <2>2, <2>3
<1>6. CASE Greet
  <2>1. tel' = tel /\ tel.on /\ conn' \in Good /\ ~conn.open /\ mirror' = mirror /\ lost' = lost
    BY <1>2, <1>6 DEF Greet, Ticks, Linked
  <2>2. QED
    BY <1>1, <2>1 DEF Linked, Kept
<1>7. CASE Quiet
  <2>1. tel' = tel /\ ~conn.authed /\ mirror' = mirror /\ lost' = lost /\ conn' = [conn EXCEPT !.ticks = conn.ticks + 1]
    BY <1>7 DEF Quiet
  <2>2. conn \in Conns /\ Sound(conn) /\ tel.on
    BY <1>7 DEF Linked, Good, Quiet, Ticks
  <2>3. PICK n \in Nat : conn' = [conn EXCEPT !.ticks = n]
    <3>1. conn.ticks \in Nat
      BY <2>2 DEF Conns
    <3>2. conn.ticks + 1 \in Nat
      BY <3>1
    <3>3. QED
      BY <2>1, <3>2
  <2>4. /\ conn' \in Conns /\ conn'.state = conn.state
        /\ (conn'.open <=> conn.open) /\ (conn'.authed <=> conn.authed) /\ (conn'.burst <=> conn.burst)
    BY <2>2, <2>3 DEF Conns
  <2>5. conn' \in Good
    BY <2>2, <2>4 DEF Good, Sound
  <2>6. QED
    BY <1>1, <2>1, <2>2, <2>5 DEF Linked, Kept
<1>8. CASE GiveUp \/ Gone
  <2>1. Close /\ tel' = tel
    BY <1>8 DEF GiveUp, Gone
  <2>2. tel' \in [on : BOOLEAN, timer : BOOLEAN]
    BY <2>1 DEF Linked
  <2>3. QED
    BY <1>1, <2>1, <2>2, CloseKeepsLinked
<1>9. QED
  BY <1>3, <1>4, <1>5, <1>6, <1>7, <1>8

\* sshd takes the mirror and gives it up; none of its steps touches telnetd.
LEMMA SshKeepsLinked ==
  ASSUME Linked, Hosted, SshStart \/ SshStop \/ Display \/ Toast \/ SshTask
  PROVE  Linked'
<1>1. tel' = tel /\ conn' = conn
  BY DEF SshStart, SshStop, Display, Toast, SshTask, SshObliged, Listen, StopSeen, Leave, Accept, FirstByte,
         Handshake, Round, Read, Sent, Output, Finish, CutShort, EndClient, Shutdown, CloseClient, OthersOfSsh
<1>2. CASE SshStart
  <2>1. mirror' = "ssh" /\ lost' = FALSE
    BY <1>2 DEF SshStart
  <2>2. QED
    BY <1>1, <2>1 DEF Linked, Kept
<1>3. CASE SshStop
  <2>1. mirror' = "none" /\ lost' = lost /\ ssh' = [ssh EXCEPT !.stop = TRUE]
    BY <1>3 DEF SshStop
  <2>2. ssh'.stop = TRUE
    BY <2>1 DEF Hosted, ServerTypes
  <2>3. QED
    BY <1>1, <2>1, <2>2 DEF Linked, Kept
<1>4. CASE Display \/ Toast
  <2>1. mirror' = mirror /\ lost' = lost /\ ssh' = ssh
    BY <1>4 DEF Display, Toast
  <2>2. QED
    BY <1>1, <2>1 DEF Linked, Kept
<1>5. CASE SshTask
  <2>1. mirror' = mirror /\ lost' = lost
    BY <1>5 DEF SshTask, SshObliged, Listen, StopSeen, Leave, Accept, FirstByte, Handshake, Round, Read, Sent, Output,
       Finish, CutShort, EndClient, Shutdown, CloseClient, OthersOfSsh
  <2>2. ssh.at # "none" /\ (ssh'.stop <=> ssh.stop)
    <3>1. CASE Listen \/ StopSeen \/ Leave
      BY <3>1 DEF Listen, StopSeen, Leave, SshTo, Hosted, ServerTypes
    <3>2. CASE Accept \/ FirstByte \/ Handshake
      BY <3>2 DEF Accept, FirstByte, Handshake, SshTo, Hosted, ServerTypes
    <3>3. CASE Round \/ Read \/ Sent \/ Finish \/ CutShort
      BY <3>3 DEF Round, Read, Sent, Output, Finish, CutShort, SshTo, Hosted, ServerTypes
    <3>4. CASE EndClient \/ Shutdown \/ CloseClient
      BY <3>4 DEF EndClient, Shutdown, CloseClient, SshTo, Hosted, ServerTypes
    <3>5. QED
      BY <1>5, <3>1, <3>2, <3>3, <3>4 DEF SshTask, SshObliged
  <2>3. QED
    BY <1>1, <2>1, <2>2 DEF Linked, Kept
<1>6. QED
  BY <1>2, <1>3, <1>4, <1>5

\* The inductive form of MirrorIsKept and LoginIsFinal.
THEOREM LinkedInvariance == SpecConsole => []Linked
<1>1. InitConsole => Linked
  <2> SUFFICES ASSUME InitConsole PROVE Linked
    OBVIOUS
  <2>1. conn \in Good /\ conn.open = FALSE
    BY DEF InitConsole, NoConn, Good, Conns, Sound, States, Texts
  <2>2. mirror = "none" /\ lost = FALSE /\ ssh.at = "none" /\ tel \in [on : BOOLEAN, timer : BOOLEAN]
    BY DEF InitConsole, NoServer
  <2>3. QED
    BY <2>1, <2>2 DEF Linked, Kept
<1>2. Linked /\ Hosted /\ [NextConsole]_cvars => Linked'
  <2> SUFFICES ASSUME Linked, Hosted, [NextConsole]_cvars PROVE Linked'
    OBVIOUS
  <2>1. CASE SshStart \/ SshStop \/ Display \/ Toast \/ SshTask
    BY <2>1, SshKeepsLinked
  <2>2. CASE TelnetStart \/ TimerTaken \/ TelnetStop \/ Greet \/ Quiet \/ GiveUp \/ Gone
    BY <2>2, TelnetKeepsLinked
  <2>3. CASE Hear
    BY <2>3, HearKeepsLinked
  <2>4. CASE UNCHANGED cvars
    BY <2>4 DEF cvars, sshd, Linked, Kept
  <2>5. QED
    BY <2>1, <2>2, <2>3, <2>4 DEF NextConsole, Telnet
<1>3. QED
  BY <1>1, <1>2, HostedInvariance, PTL DEF SpecConsole

\* A running sshd keeps the mirror until telnetd touches it (modsshd.c:33), and the
\* terminal's output goes to no telnet connection that is closed or not logged in.
THEOREM MirrorStaysKept == SpecConsole => []MirrorIsKept
<1>1. Linked => MirrorIsKept
  BY DEF Linked, Kept, MirrorIsKept
<1>2. QED
  BY <1>1, LinkedInvariance, PTL

\* Nobody types into the shell without a login, in whatever chunks the keys arrive,
\* and no key takes a login back unless it came in the chunk of the login (telnetd.py:174-193).
THEOREM LoginsAreFinal == SpecConsole => []LoginIsFinal
<1>1. Linked => LoginIsFinal
  BY DEF Linked, Good, Sound, LoginIsFinal
<1>2. QED
  BY <1>1, LinkedInvariance, PTL

-----------------------------------------------------------------------------
(* The ring of injected keys.                                              *)

Steps == {"idle", "load", "test", "store", "publish"}
Pushes == [at : Steps, byte : Nat, last : Nat, head : 0..(Ring - 1), kept : SUBSET (0..(Ring - 1))]

RingTypes ==
  /\ injectHead \in 0..(Ring - 1) /\ injectTail \in 0..(Ring - 1)
  /\ injectBuf \in [0..(Ring - 1) -> Nat]
  /\ push \in [Producers -> Pushes]
  /\ fresh \in Nat /\ keys \in Seq(Nat) /\ taken \in Seq(Nat) /\ met \in BOOLEAN

\* A push that meets no other: the head it works with is the ring's, there is room
\* where it stores, and what it is about to publish is there.
Fits(r) ==
  /\ r.at = "idle" => r.kept = {}
  /\ r.kept \subseteq {injectHead}
  /\ r.at \in {"test", "store", "publish"} => r.head = injectHead
  /\ r.at \in {"store", "publish"} => (injectHead + 1) % Ring # injectTail
  /\ r.at = "publish" => injectBuf[injectHead] = r.byte

Alone == (\E p \in Producers : push[p].at = "idle") /\ \A p \in Producers : Fits(push[p])

\* What was taken is what was read, and then what waits between tail and head.
Count == (injectHead - injectTail) % Ring
InOrder ==
  /\ Len(taken) = Len(keys) + Count
  /\ \A i \in 1..Len(keys) : taken[i] = keys[i]
  /\ \A i \in 1..Count : taken[Len(keys) + i] = injectBuf[(injectTail + (i - 1)) % Ring]

Pushed == RingTypes /\ (met \/ (Alone /\ InOrder))

LEMMA Around ==
  ASSUME NEW a \in 0..(2 * Ring - 1)
  PROVE  /\ a % Ring \in 0..(Ring - 1)
         /\ a < Ring => a % Ring = a
         /\ ~(a < Ring) => a % Ring = a - Ring
<1>1. CASE a < Ring
  BY <1>1, InjectAssumption
<1>2. CASE ~(a < Ring)
  <2>1. a % Ring = a - Ring
    BY <1>2, InjectAssumption
  <2>2. QED
    BY <1>2, <2>1, InjectAssumption
<1>3. QED
  BY <1>1, <1>2

LEMMA Between ==
  ASSUME NEW h \in 0..(Ring - 1), NEW t \in 0..(Ring - 1)
  PROVE  /\ (h - t) % Ring \in 0..(Ring - 1)
         /\ h >= t => (h - t) % Ring = h - t
         /\ ~(h >= t) => (h - t) % Ring = (h - t) + Ring
<1>1. CASE h >= t
  BY <1>1, InjectAssumption
<1>2. CASE ~(h >= t)
  <2>1. (h - t) % Ring = (h - t) + Ring
    BY <1>2, InjectAssumption
  <2>2. QED
    BY <1>2, <2>1, InjectAssumption
<1>3. QED
  BY <1>1, <1>2

\* The next slot.
LEMMA NextSlot ==
  ASSUME NEW h \in 0..(Ring - 1)
  PROVE  /\ (h + 1) % Ring \in 0..(Ring - 1)
         /\ h + 1 < Ring => (h + 1) % Ring = h + 1
         /\ ~(h + 1 < Ring) => (h + 1) % Ring = 0 /\ h + 1 = Ring
<1>1. h + 1 \in 0..(2 * Ring - 1)
  BY InjectAssumption
<1>2. QED
  BY <1>1, Around, InjectAssumption

\* The slots that wait are none of them the one at head, which comes after them.
LEMMA Waiting ==
  ASSUME NEW h \in 0..(Ring - 1), NEW t \in 0..(Ring - 1)
  PROVE  /\ (t + ((h - t) % Ring)) % Ring = h
         /\ \A i \in 1..((h - t) % Ring) : /\ (t + (i - 1)) % Ring \in 0..(Ring - 1)
                                           /\ (t + (i - 1)) % Ring # h
<1>1. PICK c \in 0..(Ring - 1) : c = (h - t) % Ring
  BY Between
<1>2. (h >= t => c = h - t) /\ (~(h >= t) => c = (h - t) + Ring)
  BY <1>1, Between
<1>3. t + c \in 0..(2 * Ring - 1)
  BY <1>2, InjectAssumption
<1>4. (t + c) % Ring = h
  BY <1>2, <1>3, Around, InjectAssumption
<1>5. ASSUME NEW i \in 1..c
      PROVE  (t + (i - 1)) % Ring \in 0..(Ring - 1) /\ (t + (i - 1)) % Ring # h
  <2>1. t + (i - 1) \in 0..(2 * Ring - 1)
    BY <1>2, InjectAssumption
  <2>2. QED
    BY <1>2, <2>1, Around, InjectAssumption
<1>6. \A i \in 1..c : (t + (i - 1)) % Ring \in 0..(Ring - 1) /\ (t + (i - 1)) % Ring # h
  BY <1>5
<1>7. QED
  BY <1>1, <1>4, <1>6, Zenon

\* One more byte waits when head moves to a slot that is not tail.
LEMMA OneMore ==
  ASSUME NEW h \in 0..(Ring - 1), NEW t \in 0..(Ring - 1), (h + 1) % Ring # t
  PROVE  (((h + 1) % Ring) - t) % Ring = ((h - t) % Ring) + 1
<1> DEFINE g == (h + 1) % Ring
<1>1. g \in 0..(Ring - 1) /\ (h + 1 < Ring => g = h + 1) /\ (~(h + 1 < Ring) => g = 0 /\ h + 1 = Ring)
  BY NextSlot
<1>2. g # t
  OBVIOUS
<1>3. (g >= t => (g - t) % Ring = g - t) /\ (~(g >= t) => (g - t) % Ring = (g - t) + Ring)
  BY <1>1, Between
<1>4. (h >= t => (h - t) % Ring = h - t) /\ (~(h >= t) => (h - t) % Ring = (h - t) + Ring)
  BY Between
<1> HIDE DEF g
<1>5. (g - t) % Ring = ((h - t) % Ring) + 1
  BY <1>1, <1>2, <1>3, <1>4, InjectAssumption
<1>6. QED
  BY <1>5 DEF g

\* One less when tail moves and there is one; the rest are in the slots they were in.
LEMMA OneLess ==
  ASSUME NEW h \in 0..(Ring - 1), NEW t \in 0..(Ring - 1), h # t
  PROVE  /\ (h - t) % Ring \in Nat \ {0}
         /\ (h - ((t + 1) % Ring)) % Ring = ((h - t) % Ring) - 1
         /\ \A i \in 1..(((h - t) % Ring) - 1) : (((t + 1) % Ring) + (i - 1)) % Ring = (t + i) % Ring
         /\ (h + 1) % Ring # (t + 1) % Ring
<1>1. PICK u \in 0..(Ring - 1), c \in 0..(Ring - 1) : u = (t + 1) % Ring /\ c = (h - t) % Ring
  BY NextSlot, Between
<1>2. (t + 1 < Ring => u = t + 1) /\ (~(t + 1 < Ring) => u = 0 /\ t + 1 = Ring)
  BY <1>1, NextSlot
<1>3. (h >= u => (h - u) % Ring = h - u) /\ (~(h >= u) => (h - u) % Ring = (h - u) + Ring)
  BY <1>2, Between
<1>4. (h >= t => c = h - t) /\ (~(h >= t) => c = (h - t) + Ring)
  BY <1>1, Between
<1>5. c \in Nat \ {0} /\ (h - u) % Ring = c - 1
  BY <1>2, <1>3, <1>4, InjectAssumption
<1>6. ASSUME NEW i \in 1..(c - 1) PROVE (u + (i - 1)) % Ring = (t + i) % Ring
  <2>1. u + (i - 1) \in 0..(2 * Ring - 1) /\ t + i \in 0..(2 * Ring - 1)
    BY <1>2, <1>4, InjectAssumption
  <2>2. QED
    BY <1>2, <1>4, <2>1, Around, InjectAssumption
<1>7. (h + 1) % Ring # u
  <2>1. /\ (h + 1 < Ring => (h + 1) % Ring = h + 1)
        /\ (~(h + 1 < Ring) => (h + 1) % Ring = 0 /\ h + 1 = Ring)
    BY NextSlot
  <2>2. QED
    BY <1>2, <2>1, InjectAssumption
<1>8. \A i \in 1..(c - 1) : (u + (i - 1)) % Ring = (t + i) % Ring
  BY <1>6
<1>9. QED
  BY <1>1, <1>5, <1>7, <1>8, Zenon

\* A producer's step while the other is outside: what is left to show is that it fits.
LEMMA StaysAlone ==
  ASSUME RingTypes, Alone, NEW p \in Producers,
         \A q \in Producers \ {p} : push[q].at = "idle" /\ push'[q] = push[q],
         Fits(push[p])'
  PROVE  Alone'
<1>1. PICK q \in Producers : q # p
  BY DEF Producers
<1>2. push'[q].at = "idle"
  BY <1>1
<1>3. ASSUME NEW o \in Producers, o # p PROVE Fits(push[o])'
  <2>1. push'[o] = push[o] /\ push[o].at = "idle" /\ Fits(push[o])
    BY <1>3 DEF Alone
  <2>2. push'[o].kept = {} /\ push'[o].at = "idle"
    BY <2>1 DEF Fits
  <2>3. QED
    BY <2>2 DEF Fits
<1>4. QED
  BY <1>1, <1>2, <1>3 DEF Alone

LEMMA OneMoves ==
  ASSUME RingTypes, NEW p \in Producers, NEW r \in Pushes, push' = [push EXCEPT ![p] = r]
  PROVE  push' \in [Producers -> Pushes] /\ push'[p] = r /\ \A q \in Producers \ {p} : push'[q] = push[q]
BY DEF RingTypes

\* Who is inside is alone there.
LEMMA OthersIdle ==
  ASSUME Alone, NEW p \in Producers, push[p].at # "idle"
  PROVE  \A q \in Producers \ {p} : push[q].at = "idle"
BY DEF Alone, Producers

LEMMA InjectKeeps ==
  ASSUME Pushed, NEW p \in Producers, NEW k \in 1..Ring, Inject(p, k)
  PROVE  Pushed'
<1> DEFINE r == [push[p] EXCEPT !.at = "load", !.byte = fresh + 1, !.last = fresh + k]
<1>1. push[p].at = "idle" /\ fresh' = fresh + k /\ push' = [push EXCEPT ![p] = r]
      /\ met' = (met \/ \E q \in Producers \ {p} : push[q].at # "idle") /\ UNCHANGED <<kvm, taken, keys>>
  BY DEF Inject
<1>2. fresh \in Nat /\ fresh + k \in Nat /\ fresh + 1 \in Nat /\ push[p] \in Pushes
  BY InjectAssumption DEF Pushed, RingTypes
<1>3. r \in Pushes /\ r.kept = push[p].kept /\ r.at = "load"
  BY <1>2 DEF Pushes, Steps
<1> HIDE DEF r
<1>4. push' \in [Producers -> Pushes] /\ push'[p] = r /\ \A q \in Producers \ {p} : push'[q] = push[q]
  BY <1>1, <1>3, OneMoves DEF Pushed
<1>5. RingTypes'
  <2>1. met' \in BOOLEAN
    BY <1>1
  <2>2. QED
    BY <1>1, <1>2, <1>4, <2>1 DEF Pushed, RingTypes, kvm
<1>6. ASSUME ~met' PROVE Alone' /\ InOrder'
  <2>1. Alone /\ InOrder /\ \A q \in Producers \ {p} : push[q].at = "idle"
    BY <1>1, <1>6 DEF Pushed
  <2>2. push[p].kept = {}
    BY <1>1, <2>1 DEF Alone, Fits
  <2>3. Fits(push[p])'
    BY <1>3, <1>4, <2>2 DEF Fits
  <2>4. Alone'
    BY <1>4, <2>1, <2>3, StaysAlone DEF Pushed
  <2>5. InOrder'
    BY <1>1, <2>1 DEF InOrder, Count, kvm
  <2>6. QED
    BY <2>4, <2>5
<1>7. QED
  BY <1>5, <1>6 DEF Pushed

\* The next byte of the call, whatever became of this one.
LEMMA NextByteFacts ==
  ASSUME RingTypes, NEW p \in Producers
  PROVE  /\ NextByte(p) \in Pushes /\ NextByte(p).at \in {"idle", "load"}
         /\ NextByte(p).at = "idle" => NextByte(p).kept = {}
         /\ NextByte(p).kept \subseteq {IF push[p].at = "publish" THEN (push[p].head + 1) % Ring ELSE push[p].head}
<1> DEFINE h == IF push[p].at = "publish" THEN (push[p].head + 1) % Ring ELSE push[p].head
<1>1. push[p] \in Pushes /\ push[p].head \in 0..(Ring - 1) /\ push[p].byte \in Nat
  BY DEF RingTypes, Pushes
<1>2. h \in 0..(Ring - 1)
  BY <1>1, NextSlot
<1>3. CASE push[p].byte = push[p].last
  <2>1. NextByte(p) = Idle /\ 0 \in 0..(Ring - 1)
    BY <1>3, InjectAssumption DEF NextByte
  <2>2. QED
    BY <2>1 DEF Idle, Pushes, Steps
<1>4. CASE push[p].byte # push[p].last
  <2>1. NextByte(p) = [push[p] EXCEPT !.at = "load", !.byte = push[p].byte + 1, !.kept = {h}]
    BY <1>4 DEF NextByte
  <2>2. push[p].byte + 1 \in Nat /\ {h} \subseteq 0..(Ring - 1)
    BY <1>1, <1>2
  <2> HIDE DEF h
  <2>3. PICK m \in Nat, some \in SUBSET (0..(Ring - 1)) : /\ some = {h}
          /\ NextByte(p) = [push[p] EXCEPT !.at = "load", !.byte = m, !.kept = some]
    BY <2>1, <2>2
  <2>4. NextByte(p) \in Pushes /\ NextByte(p).at = "load" /\ NextByte(p).kept = {h}
    BY <1>1, <2>3 DEF Pushes, Steps
  <2>5. QED
    BY <2>4 DEF h
<1>5. QED
  BY <1>3, <1>4

\* The steps that leave the ring as it is.
LEMMA WorkKeeps ==
  ASSUME Pushed, NEW p \in Producers, LoadHead(p) \/ TestRoom(p)
  PROVE  Pushed'
<1>1. push[p] \in Pushes /\ injectHead \in 0..(Ring - 1) /\ UNCHANGED <<kvm, fresh, taken, keys, met>>
  BY DEF LoadHead, TestRoom, Pushed, RingTypes
<1>2. PICK r \in Pushes : /\ push' = [push EXCEPT ![p] = r]
                          /\ push[p].at # "idle"
                          /\ Fits(push[p]) => Fits(r)
  <2>1. CASE LoadHead(p)
    <3>1. PICK h \in {injectHead} \union push[p].kept : push' = [push EXCEPT ![p].at = "test", ![p].head = h]
      BY <2>1 DEF LoadHead
    <3> DEFINE r == [push[p] EXCEPT !.at = "test", !.head = h]
    <3>2. h \in 0..(Ring - 1)
      BY <1>1 DEF Pushes
    <3>3. push' = [push EXCEPT ![p] = r]
      BY <3>1 DEF Pushed, RingTypes
    <3>4. r \in Pushes /\ r.at = "test" /\ r.head = h /\ r.kept = push[p].kept
      BY <1>1, <3>2 DEF Pushes, Steps
    <3> HIDE DEF r
    <3>5. Fits(push[p]) => Fits(r)
      BY <3>1, <3>4 DEF Fits
    <3>6. QED
      BY <2>1, <3>3, <3>4, <3>5 DEF LoadHead
  <2>2. CASE TestRoom(p) /\ Full(push[p].head)
    <3>1. push[p].at = "test" /\ push' = [push EXCEPT ![p] = NextByte(p)]
      BY <2>2 DEF TestRoom
    <3>2. /\ NextByte(p) \in Pushes /\ NextByte(p).at \in {"idle", "load"}
          /\ NextByte(p).at = "idle" => NextByte(p).kept = {}
          /\ NextByte(p).kept \subseteq {push[p].head}
      BY <1>1, <3>1, NextByteFacts DEF Pushed, Pushes
    <3>3. Fits(push[p]) => Fits(NextByte(p))
      BY <3>1, <3>2 DEF Fits
    <3>4. QED
      BY <3>1, <3>2, <3>3
  <2>3. CASE TestRoom(p) /\ ~Full(push[p].head)
    <3> DEFINE r == [push[p] EXCEPT !.at = "store"]
    <3>1. push[p].at = "test" /\ push' = [push EXCEPT ![p] = r]
      BY <2>3 DEF TestRoom
    <3>2. r \in Pushes /\ r.at = "store" /\ r.head = push[p].head /\ r.kept = push[p].kept
      BY <1>1 DEF Pushes, Steps
    <3> HIDE DEF r
    <3>3. Fits(push[p]) => Fits(r)
      BY <2>3, <3>1, <3>2 DEF Fits, Full
    <3>4. QED
      BY <3>1, <3>2, <3>3
  <2>4. QED
    BY <2>1, <2>2, <2>3
<1>3. push' \in [Producers -> Pushes] /\ push'[p] = r /\ \A q \in Producers \ {p} : push'[q] = push[q]
  BY <1>2, OneMoves DEF Pushed
<1>4. RingTypes'
  BY <1>1, <1>3 DEF Pushed, RingTypes, kvm
<1>5. ASSUME ~met' PROVE Alone' /\ InOrder'
  <2>1. Alone /\ InOrder
    BY <1>1, <1>5 DEF Pushed
  <2>2. \A q \in Producers \ {p} : push[q].at = "idle"
    BY <1>2, <2>1, OthersIdle
  <2>3. Fits(push[p])'
    BY <1>1, <1>2, <1>3, <2>1 DEF Alone, Fits, kvm
  <2>4. Alone'
    BY <1>3, <2>1, <2>2, <2>3, StaysAlone DEF Pushed
  <2>5. InOrder'
    BY <1>1, <2>1 DEF InOrder, Count, kvm
  <2>6. QED
    BY <2>4, <2>5
<1>6. QED
  BY <1>4, <1>5 DEF Pushed

\* The byte is stored beside what waits.
LEMMA StoreKeeps ==
  ASSUME Pushed, NEW p \in Producers, StoreByte(p)
  PROVE  Pushed'
<1> DEFINE r == [push[p] EXCEPT !.at = "publish"]
<1>1. /\ push[p].at = "store" /\ injectBuf' = [injectBuf EXCEPT ![push[p].head] = push[p].byte]
      /\ UNCHANGED <<injectHead, injectTail, fresh, taken, keys, met>>
      /\ push' = [push EXCEPT ![p].at = "publish"]
  BY DEF StoreByte
<1>2. /\ push[p] \in Pushes /\ push \in [Producers -> Pushes] /\ injectBuf \in [0..(Ring - 1) -> Nat]
      /\ injectHead \in 0..(Ring - 1) /\ injectTail \in 0..(Ring - 1)
  BY DEF Pushed, RingTypes
<1>3. push' = [push EXCEPT ![p] = r]
  BY <1>1, <1>2
<1>4. /\ r \in Pushes /\ r.at = "publish" /\ r.head = push[p].head /\ r.kept = push[p].kept /\ r.byte = push[p].byte
      /\ push[p].byte \in Nat /\ push[p].head \in 0..(Ring - 1)
  BY <1>2 DEF Pushes, Steps
<1> HIDE DEF r
<1>5. push' \in [Producers -> Pushes] /\ push'[p] = r /\ \A q \in Producers \ {p} : push'[q] = push[q]
  BY <1>3, <1>4, OneMoves DEF Pushed
<1>6. RingTypes'
  <2>1. injectBuf' \in [0..(Ring - 1) -> Nat]
    BY <1>1, <1>2, <1>4
  <2>2. QED
    BY <1>1, <1>5, <2>1 DEF Pushed, RingTypes
<1>7. ASSUME ~met' PROVE Alone' /\ InOrder'
  <2>1. Alone /\ InOrder
    BY <1>1, <1>7 DEF Pushed
  <2>2. \A q \in Producers \ {p} : push[q].at = "idle"
    BY <1>1, <2>1, OthersIdle
  <2>3. Fits(push[p]) /\ push[p].head = injectHead
    BY <1>1, <2>1 DEF Alone, Fits
  <2>4. injectBuf'[injectHead] = push[p].byte /\ \A i \in 0..(Ring - 1) : i # injectHead => injectBuf'[i] = injectBuf[i]
    BY <1>1, <1>2, <2>3
  <2>5. Fits(push[p])'
    BY <1>1, <1>4, <1>5, <2>3, <2>4 DEF Fits
  <2>6. Alone'
    BY <1>5, <2>1, <2>2, <2>5, StaysAlone DEF Pushed
  <2>7. ASSUME NEW i \in 1..Count PROVE injectBuf'[(injectTail + (i - 1)) % Ring] = injectBuf[(injectTail + (i - 1)) % Ring]
    <3>1. (injectTail + (i - 1)) % Ring \in 0..(Ring - 1) /\ (injectTail + (i - 1)) % Ring # injectHead
      BY <1>2, Waiting DEF Count
    <3>2. QED
      BY <2>4, <3>1
  <2>8. InOrder'
    <3>1. Count' = Count
      BY <1>1 DEF Count
    <3>2. QED
      BY <1>1, <2>1, <2>7, <3>1 DEF InOrder
  <2>9. QED
    BY <2>6, <2>8
<1>8. QED
  BY <1>6, <1>7 DEF Pushed

\* The byte joins those that wait, behind them.
LEMMA PublishKeeps ==
  ASSUME Pushed, NEW p \in Producers, PublishHead(p)
  PROVE  Pushed'
<1> DEFINE r == NextByte(p)
<1>1. /\ push[p].at = "publish" /\ injectHead' = (push[p].head + 1) % Ring
      /\ taken' = Append(taken, push[p].byte) /\ push' = [push EXCEPT ![p] = r]
      /\ UNCHANGED <<injectBuf, injectTail, fresh, keys, met>>
  BY DEF PublishHead
<1>2. /\ injectHead \in 0..(Ring - 1) /\ injectTail \in 0..(Ring - 1)
      /\ taken \in Seq(Nat) /\ keys \in Seq(Nat)
  BY DEF Pushed, RingTypes
<1>3. push[p].byte \in Nat /\ push[p].head \in 0..(Ring - 1)
  BY DEF Pushed, RingTypes, Pushes
<1>4. /\ r \in Pushes /\ r.at \in {"idle", "load"} /\ (r.at = "idle" => r.kept = {})
      /\ r.kept \subseteq {injectHead'}
  BY <1>1, NextByteFacts DEF Pushed
<1> HIDE DEF r
<1>5. push' \in [Producers -> Pushes] /\ push'[p] = r /\ \A q \in Producers \ {p} : push'[q] = push[q]
  BY <1>1, <1>4, OneMoves DEF Pushed
<1>6. /\ taken' \in Seq(Nat) /\ Len(taken') = Len(taken) + 1 /\ taken'[Len(taken) + 1] = push[p].byte
      /\ \A i \in 1..Len(taken) : taken'[i] = taken[i]
  BY <1>1, <1>2, <1>3, AppendProperties
<1>7. RingTypes'
  <2>1. injectHead' \in 0..(Ring - 1)
    BY <1>1, <1>3, NextSlot
  <2>2. QED
    BY <1>1, <1>5, <1>6, <2>1 DEF Pushed, RingTypes
<1>8. ASSUME ~met' PROVE Alone' /\ InOrder'
  <2>1. Alone /\ InOrder
    BY <1>1, <1>8 DEF Pushed
  <2>2. \A q \in Producers \ {p} : push[q].at = "idle"
    BY <1>1, <2>1, OthersIdle
  <2>3. /\ push[p].head = injectHead /\ (injectHead + 1) % Ring # injectTail
        /\ injectBuf[injectHead] = push[p].byte
    BY <1>1, <2>1 DEF Alone, Fits
  <2>4. Fits(push[p])'
    BY <1>4, <1>5 DEF Fits
  <2>5. Alone'
    BY <1>5, <2>1, <2>2, <2>4, StaysAlone DEF Pushed
  <2>6. Count' = Count + 1 /\ Count \in Nat /\ (injectTail + Count) % Ring = injectHead
    BY <1>1, <1>2, <2>3, OneMore, Between, Waiting DEF Count
  <2>7. /\ Len(taken) = Len(keys) + Count /\ Len(keys) \in Nat
        /\ \A i \in 1..Len(keys) : taken[i] = keys[i]
        /\ \A i \in 1..Count : taken[Len(keys) + i] = injectBuf[(injectTail + (i - 1)) % Ring]
    BY <1>2, <2>1 DEF InOrder
  <2>8. Len(taken') = Len(keys') + Count'
    BY <1>1, <1>6, <2>6, <2>7
  <2>9. ASSUME NEW i \in 1..Len(keys') PROVE taken'[i] = keys'[i]
    <3>1. i \in 1..Len(keys) /\ i \in 1..Len(taken)
      BY <1>1, <2>6, <2>7
    <3>2. QED
      BY <1>1, <1>6, <2>7, <3>1
  <2>10. ASSUME NEW i \in 1..Count' PROVE taken'[Len(keys') + i] = injectBuf'[(injectTail' + (i - 1)) % Ring]
    <3>1. CASE i = Count + 1
      <4>1. Len(keys) + i = Len(taken) + 1 /\ i - 1 = Count
        BY <2>6, <2>7, <3>1
      <4>2. QED
        BY <1>1, <1>6, <2>3, <2>6, <4>1
    <3>2. CASE i # Count + 1
      <4>1. i \in 1..Count /\ Len(keys) + i \in 1..Len(taken)
        BY <2>6, <2>7, <3>2
      <4>2. QED
        BY <1>1, <1>6, <2>7, <4>1
    <3>3. QED
      BY <3>1, <3>2
  <2>11. InOrder'
    BY <2>8, <2>9, <2>10 DEF InOrder
  <2>12. QED
    BY <2>5, <2>11
<1>9. QED
  BY <1>7, <1>8 DEF Pushed

\* The oldest of them is read, whatever push is going on beside it.
LEMMA PopKeeps ==
  ASSUME Pushed, PopKey
  PROVE  Pushed'
<1> DEFINE x == injectBuf[injectTail]
<1>1. /\ injectTail # injectHead /\ keys' = Append(keys, x) /\ injectTail' = (injectTail + 1) % Ring
      /\ UNCHANGED <<injectBuf, injectHead, push, fresh, taken, met>>
  BY DEF PopKey
<1>2. /\ injectHead \in 0..(Ring - 1) /\ injectTail \in 0..(Ring - 1)
      /\ taken \in Seq(Nat) /\ keys \in Seq(Nat) /\ x \in Nat
  BY DEF Pushed, RingTypes
<1>3. /\ keys' \in Seq(Nat) /\ Len(keys') = Len(keys) + 1 /\ keys'[Len(keys) + 1] = x
      /\ \A i \in 1..Len(keys) : keys'[i] = keys[i]
  <2> HIDE DEF x
  <2>1. QED
    BY <1>1, <1>2, AppendProperties
<1>4. RingTypes'
  <2>1. injectTail' \in 0..(Ring - 1)
    BY <1>1, <1>2, NextSlot
  <2>2. QED
    BY <1>1, <1>3, <2>1 DEF Pushed, RingTypes
<1>5. ASSUME ~met' PROVE Alone' /\ InOrder'
  <2>1. Alone /\ InOrder
    BY <1>1, <1>5 DEF Pushed
  <2>2. /\ Count \in Nat \ {0} /\ Count' = Count - 1
        /\ \A i \in 1..(Count - 1) : (injectTail' + (i - 1)) % Ring = (injectTail + i) % Ring
        /\ (injectHead' + 1) % Ring # injectTail'
    BY <1>1, <1>2, OneLess DEF Count
  <2>3. Alone'
    <3>1. ASSUME NEW q \in Producers PROVE Fits(push[q])'
      BY <1>1, <2>1, <2>2 DEF Alone, Fits
    <3>2. QED
      BY <1>1, <2>1, <3>1 DEF Alone
  <2>4. /\ Len(taken) = Len(keys) + Count /\ Len(keys) \in Nat
        /\ \A i \in 1..Len(keys) : taken[i] = keys[i]
        /\ \A i \in 1..Count : taken[Len(keys) + i] = injectBuf[(injectTail + (i - 1)) % Ring]
    BY <1>2, <2>1 DEF InOrder
  <2>5. Len(taken') = Len(keys') + Count'
    BY <1>1, <1>3, <2>2, <2>4
  <2>6. taken[Len(keys) + 1] = x
    <3>1. 1 \in 1..Count /\ injectTail + (1 - 1) = injectTail
      BY <1>2, <2>2
    <3>2. (injectTail + (1 - 1)) % Ring = injectTail
      <4>1. injectTail \in 0..(2 * Ring - 1) /\ injectTail < Ring
        BY <1>2, InjectAssumption
      <4>2. QED
        BY <3>1, <4>1, Around
    <3>3. QED
      BY <2>4, <3>1, <3>2
  <2>7. ASSUME NEW i \in 1..Len(keys') PROVE taken'[i] = keys'[i]
    <3>1. CASE i = Len(keys) + 1
      BY <1>1, <1>3, <2>6, <3>1
    <3>2. CASE i # Len(keys) + 1
      <4>1. i \in 1..Len(keys)
        BY <1>3, <2>4, <3>2
      <4>2. QED
        BY <1>1, <1>3, <2>4, <4>1
    <3>3. QED
      BY <3>1, <3>2
  <2>8. ASSUME NEW i \in 1..Count' PROVE taken'[Len(keys') + i] = injectBuf'[(injectTail' + (i - 1)) % Ring]
    <3>1. i \in 1..(Count - 1) /\ i + 1 \in 1..Count /\ (i + 1) - 1 = i /\ Len(keys') + i = Len(keys) + (i + 1)
      BY <1>3, <2>2, <2>4
    <3>2. taken[Len(keys) + (i + 1)] = injectBuf[(injectTail + i) % Ring]
      BY <2>4, <3>1
    <3>3. QED
      BY <1>1, <2>2, <3>1, <3>2
  <2>9. InOrder'
    BY <2>5, <2>7, <2>8 DEF InOrder
  <2>10. QED
    BY <2>3, <2>9
<1>6. QED
  BY <1>4, <1>5 DEF Pushed

\* The inductive form of KeysInOrder.
THEOREM PushedInvariance == SpecInject => []Pushed
<1>1. InitInject => Pushed
  <2> SUFFICES ASSUME InitInject PROVE Pushed
    OBVIOUS
  <2>1. 0 \in 0..(Ring - 1) /\ << >> \in Seq(Nat) /\ Len(<< >>) = 0
    BY InjectAssumption
  <2>2. Idle \in Pushes /\ Idle.at = "idle" /\ Idle.kept = {}
    BY <2>1 DEF Idle, Pushes, Steps
  <2>3. RingTypes
    <3>1. injectBuf \in [0..(Ring - 1) -> Nat]
      BY DEF InitInject
    <3>2. QED
      BY <2>1, <2>2, <3>1 DEF InitInject, RingTypes
  <2>4. Alone
    BY <2>2 DEF InitInject, Alone, Fits, Producers
  <2>5. Count = 0
    BY <2>1, Between DEF InitInject, Count
  <2>6. InOrder
    BY <2>1, <2>5 DEF InitInject, InOrder
  <2>7. QED
    BY <2>3, <2>4, <2>6 DEF Pushed
<1>2. Pushed /\ [NextInject]_ivars => Pushed'
  <2> SUFFICES ASSUME Pushed, [NextInject]_ivars PROVE Pushed'
    OBVIOUS
  <2>1. ASSUME NEW p \in Producers, NEW k \in 1..Ring, Inject(p, k) PROVE Pushed'
    BY <2>1, InjectKeeps
  <2>2. ASSUME NEW p \in Producers, LoadHead(p) \/ TestRoom(p) PROVE Pushed'
    BY <2>2, WorkKeeps
  <2>3. ASSUME NEW p \in Producers, StoreByte(p) PROVE Pushed'
    BY <2>3, StoreKeeps
  <2>4. ASSUME NEW p \in Producers, PublishHead(p) PROVE Pushed'
    BY <2>4, PublishKeeps
  <2>5. CASE PopKey
    BY <2>5, PopKeeps
  <2>6. CASE UNCHANGED ivars
    BY <2>6 DEF ivars, kvm, Pushed, RingTypes, Alone, Fits, InOrder, Count
  <2>7. QED
    BY <2>1, <2>2, <2>3, <2>4, <2>5, <2>6 DEF NextInject
<1>3. QED
  BY <1>1, <1>2, PTL DEF SpecInject

\* The injection ring is a queue for any size and whatever is read beside a push, as
\* long as no two pushes overlap (tdeck_kvm.c:34-86).
THEOREM KeysStayInOrder == SpecInject => []KeysInOrder
<1>1. Pushed => KeysInOrder
  <2> SUFFICES ASSUME RingTypes, InOrder PROVE keys \o Injected = taken
    BY DEF Pushed, KeysInOrder
  <2>1. /\ keys \in Seq(Nat) /\ taken \in Seq(Nat) /\ Len(keys) \in Nat /\ injectBuf \in [0..(Ring - 1) -> Nat]
        /\ injectHead \in 0..(Ring - 1) /\ injectTail \in 0..(Ring - 1)
    BY DEF RingTypes
  <2>2. Count \in Nat /\ \A i \in 1..Count : (injectTail + (i - 1)) % Ring \in 0..(Ring - 1)
    BY <2>1, Between, Waiting DEF Count
  <2>3. ASSUME NEW i \in 1..Count PROVE injectTail + i - 1 = injectTail + (i - 1)
    BY <2>1, <2>2
  <2>4. Injected = [i \in 1..Count |-> injectBuf[(injectTail + (i - 1)) % Ring]]
    BY <2>3 DEF Injected, Count
  <2>5. /\ Injected \in Seq(Nat) /\ Len(Injected) = Count
        /\ \A i \in 1..Count : Injected[i] = injectBuf[(injectTail + (i - 1)) % Ring]
    <3> DEFINE slot(i) == injectBuf[(injectTail + (i - 1)) % Ring]
    <3>1. \A i \in 1..Count : slot(i) \in Nat
      BY <2>1, <2>2
    <3>2. Injected = [i \in 1..Count |-> slot(i)]
      BY <2>4
    <3> HIDE DEF slot
    <3>3. Injected \in [1..Count -> Nat]
      BY <3>1, <3>2
    <3>4. Injected \in Seq(Nat) /\ Len(Injected) = Count
      BY <2>2, <3>3
    <3>5. \A i \in 1..Count : Injected[i] = slot(i)
      BY <3>2, Zenon
    <3>6. QED
      BY <3>4, <3>5 DEF slot
  <2>6. /\ keys \o Injected \in Seq(Nat) /\ Len(keys \o Injected) = Len(keys) + Count
        /\ \A i \in 1..(Len(keys) + Count) :
             (keys \o Injected)[i] = IF i <= Len(keys) THEN keys[i] ELSE Injected[i - Len(keys)]
    BY <2>1, <2>5, ConcatProperties
  <2>7. /\ Len(taken) = Len(keys) + Count
        /\ \A i \in 1..Len(keys) : taken[i] = keys[i]
        /\ \A i \in 1..Count : taken[Len(keys) + i] = injectBuf[(injectTail + (i - 1)) % Ring]
    BY DEF InOrder
  <2>8. ASSUME NEW i \in 1..Len(taken) PROVE (keys \o Injected)[i] = taken[i]
    <3>1. CASE i <= Len(keys)
      <4>1. i \in 1..Len(keys) /\ i \in 1..(Len(keys) + Count)
        BY <2>1, <2>2, <2>7, <3>1
      <4>2. (keys \o Injected)[i] = keys[i]
        BY <2>6, <3>1, <4>1
      <4>3. QED
        BY <2>7, <4>1, <4>2
    <3>2. CASE ~(i <= Len(keys))
      <4>1. i - Len(keys) \in 1..Count /\ Len(keys) + (i - Len(keys)) = i /\ i \in 1..(Len(keys) + Count)
        BY <2>1, <2>2, <2>7, <3>2
      <4>2. (keys \o Injected)[i] = Injected[i - Len(keys)]
        BY <2>6, <3>2, <4>1
      <4>3. taken[Len(keys) + (i - Len(keys))] = Injected[i - Len(keys)]
        BY <2>5, <2>7, <4>1
      <4>4. QED
        BY <4>1, <4>2, <4>3
    <3>3. QED
      BY <3>1, <3>2
  <2>9. QED
    BY <2>1, <2>6, <2>7, <2>8, SeqEqual
<1>2. QED
  BY <1>1, PushedInvariance, PTL
=============================================================================
