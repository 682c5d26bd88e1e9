----------------------------- MODULE VncdProofs -----------------------------
(***************************************************************************)
(* Proofs about module Vncd, for any rows, any limits and texts of any     *)
(* length: every row that is taken for unchanged is what the client shows  *)
(* or will show, and every key that a client sends is typed once.          *)
(***************************************************************************)
EXTENDS Vncd, FiniteSetTheorems, SequenceTheorems, TLAPS

-----------------------------------------------------------------------------
(* The shape of a connection and of what is on its way to and from it.     *)

Words == {"http", "version", "sectype", "init", "key", "ping", "close", "bad", "mask", "body",
          "request", "cut", "len", "empty"}
Units == Words \X Nat
Items == [row : Rows \union {"none"}, now : BOOLEAN]

States(w) == IF w THEN {"http", "msg", "mask", "text"}
             ELSE {"version", "sectype", "init", "msg", "body", "len", "text"}
Conns == [open : BOOLEAN, state : States(TRUE) \union States(FALSE) \union {"none"}, need : Nat,
          kind : Words \union {"none"}, closing : BOOLEAN, awaiting : BOOLEAN, waited : Nat,
          len : Nat]

\* A connection c of the server w: every state but that of a text waits for one unit.
Live(w, c) == /\ c \in Conns /\ c.open /\ c.state \in States(w)
              /\ c.state # "text" => c.need = 1

Talking ==
  /\ web \in BOOLEAN /\ on \in BOOLEAN
  /\ rxbuf \in Seq(Units) /\ wire \in Seq(Units)
  /\ outq \in Seq(Items) /\ dirty \subseteq Rows /\ shown \subseteq Rows
  /\ Live(web, conn) \/ (conn = NoConn /\ rxbuf = << >> /\ wire = << >> /\ owed = 0)
  /\ at # "idle" => on /\ conn.open
  /\ ~on => ~conn.open

LEMMA NotOpen == ~NoConn.open
BY DEF NoConn

\* What a client sends are units.
LEMMA SentUnits ==
  ASSUME NEW units \in Opening \union Messages
  PROVE  units \in Seq(Units)
<1>1. MaxText \in Nat
  BY VncdAssumption
<1>2. \A n \in Nat : Text(n) \in Seq(Units)
  <2>1. ASSUME NEW n \in Nat PROVE Text(n) \in Seq(Units)
    <3>1. Say("key", 1) \in Units
      BY DEF Say, Units, Words
    <3>2. QED
      BY <3>1 DEF Text
  <2>2. QED
    BY <2>1
<1>3. ASSUME NEW v \in Words, NEW w \in Words, NEW m \in Nat, NEW n \in Nat
      PROVE  <<Say(v, m)>> \in Seq(Units) /\ <<Say(v, m), Say(w, n)>> \in Seq(Units)
  <2>1. Say(v, m) \in Units /\ Say(w, n) \in Units
    BY DEF Say, Units
  <2>2. QED
    BY <2>1
<1>4. ASSUME NEW v \in Words, NEW w \in Words, NEW m \in Nat, NEW n \in Nat, NEW k \in Nat
      PROVE  <<Say(v, m), Say(w, n)>> \o Text(k) \in Seq(Units)
  BY <1>2, <1>3
<1>5. CASE units \in Opening
  <2>1. CASE web
    BY <1>3, <1>5, <2>1 DEF Opening, Words
  <2>2. CASE ~web
    <3>1. PICK ok \in {0, 1} : units = <<Say("version", 0), Say("sectype", ok), Say("init", 0)>>
      BY <1>5, <2>2 DEF Opening
    <3>2. Say("version", 0) \in Units /\ Say("sectype", ok) \in Units /\ Say("init", 0) \in Units
      BY DEF Say, Units, Words
    <3>3. QED
      BY <3>1, <3>2
  <2>3. QED
    BY <2>1, <2>2
<1>6. CASE units \in Messages
  <2>1. CASE web
    <3>1. CASE \E kind \in {"key", "ping"}, n \in 1..MaxText :
                 units = <<Say(kind, n), Say("mask", 0)>> \o Text(n)
      <4>1. PICK kind \in {"key", "ping"}, n \in 1..MaxText :
              units = <<Say(kind, n), Say("mask", 0)>> \o Text(n)
        BY <3>1
      <4>2. kind \in Words /\ "mask" \in Words /\ n \in Nat
        BY <1>1 DEF Words
      <4>3. QED
        BY <1>4, <4>1, <4>2
    <3>2. CASE units = <<Say("close", 0), Say("mask", 0)>> \/ units = <<Say("bad", 0)>>
      <4>1. {"close", "mask", "bad"} \subseteq Words
        BY DEF Words
      <4>2. QED
        BY <1>3, <3>2, <4>1
    <3>3. \/ \E kind \in {"key", "ping"}, n \in 1..MaxText :
               units = <<Say(kind, n), Say("mask", 0)>> \o Text(n)
          \/ units = <<Say("close", 0), Say("mask", 0)>> \/ units = <<Say("bad", 0)>>
      <4> DEFINE Frame(kind, n) == <<Say(kind, n), Say("mask", 0)>> \o Text(n)
                 Others == {<<Say("close", 0), Say("mask", 0)>>, <<Say("bad", 0)>>}
      <4>1. Messages = {Frame(kind, n) : kind \in {"key", "ping"}, n \in 1..MaxText} \union Others
        BY <2>1 DEF Messages
      <4>2. units \in Others => units = <<Say("close", 0), Say("mask", 0)>> \/ units = <<Say("bad", 0)>>
        OBVIOUS
      <4> SUFFICES (\E kind \in {"key", "ping"}, n \in 1..MaxText : units = Frame(kind, n)) \/ units \in Others
        BY <4>2
      <4> HIDE DEF Frame, Others
      <4>3. QED
        BY <1>6, <4>1
    <3>4. QED
      BY <3>1, <3>2, <3>3
  <2>2. CASE ~web
    <3>1. CASE \E n \in 0..MaxText : units = <<Say("cut", 0), Say("len", n)>> \o Text(n)
      <4>1. PICK n \in 0..MaxText : units = <<Say("cut", 0), Say("len", n)>> \o Text(n)
        BY <3>1
      <4>2. "cut" \in Words /\ "len" \in Words /\ n \in Nat
        BY <1>1 DEF Words
      <4>3. QED
        BY <1>4, <4>1, <4>2
    <3>2. CASE \E kind \in {"key", "request", "bad"} :
                 units = <<Say(kind, 1), Say("body", 0)>> \/ units = <<Say(kind, 0)>>
      <4>1. {"key", "request", "body", "bad"} \subseteq Words
        BY DEF Words
      <4>2. QED
        BY <1>3, <3>2, <4>1
    <3>3. \/ \E n \in 0..MaxText : units = <<Say("cut", 0), Say("len", n)>> \o Text(n)
          \/ \E kind \in {"key", "request", "bad"} :
               units = <<Say(kind, 1), Say("body", 0)>> \/ units = <<Say(kind, 0)>>
      <4>1. \/ units \in {<<Say(kind, 1), Say("body", 0)>> : kind \in {"key", "request"}}
            \/ units \in {<<Say("cut", 0), Say("len", n)>> \o Text(n) : n \in 0..MaxText}
            \/ units \in {<<Say("bad", 0)>>}
        BY <1>6, <2>2 DEF Messages
      <4>2. QED
        BY <4>1
    <3>4. QED
      BY <3>1, <3>2, <3>3
  <2>3. QED
    BY <2>1, <2>2
<1>7. QED
  BY <1>5, <1>6

\* The unit a turn of _process_rx() looks at, and what it makes of it.
Unit == IF conn.need = 0 THEN Say("empty", 0) ELSE rxbuf[1]
Turn == IF web THEN AdvanceWeb(Unit) ELSE AdvanceRfb(Unit)

LEMMA UnitFacts ==
  ASSUME Talking, conn.open, Len(rxbuf) >= conn.need
  PROVE  Unit \in Units /\ Unit[1] \in Words /\ Unit[2] \in Nat
<1>1. conn.need \in Nat /\ rxbuf \in Seq(Units)
  BY NotOpen DEF Talking, Live, Conns
<1>2. Say("empty", 0) \in Units
  BY DEF Say, Units, Words
<1>3. Unit \in Units
  BY <1>1, <1>2 DEF Unit
<1>4. QED
  BY <1>3 DEF Units

\* The connection stays alive, and what is queued for it is not pixels.
LEMMA TurnFacts ==
  ASSUME Talking, conn.open, Len(rxbuf) >= conn.need
  PROVE  /\ Turn = <<Turn[1], Turn[2]>> /\ Live(web, Turn[1])
         /\ Turn[2] \in Seq({Talk})
<1>1. Live(web, conn)
  BY NotOpen DEF Talking
<1>2. PICK u : u = Unit
  OBVIOUS
<1>3. u[1] \in Words /\ u[2] \in Nat
  BY <1>2, UnitFacts
<1> DEFINE Good(t) == t = <<t[1], t[2]>> /\ Live(web, t[1]) /\ t[2] \in Seq({Talk})
<1>0. ASSUME NEW c, NEW q, Live(web, c), q \in Seq({Talk}) PROVE Good(<<c, q>>)
  BY <1>0
<1> SUFFICES Good(Turn)
  OBVIOUS
<1> HIDE DEF Good
<1>4. << >> \in Seq({Talk}) /\ <<Talk>> \in Seq({Talk}) /\ <<Talk, Talk>> \in Seq({Talk})
      /\ <<Talk, Talk, Talk>> \in Seq({Talk})
  OBVIOUS
<1>5. ASSUME NEW s \in States(web), NEW k \in Nat, s # "text" => k = 1
      PROVE  Live(web, To(s, k))
  BY <1>1, <1>5 DEF To, Live, Conns, States
<1>6. Live(web, NextMessage)
  BY <1>5 DEF NextMessage, States
<1>7. Live(web, [conn EXCEPT !.closing = TRUE]) /\ Live(web, [NextMessage EXCEPT !.closing = TRUE])
  BY <1>1, <1>6 DEF Live, Conns
<1>8. CASE web
  <2>1. Turn = AdvanceWeb(u)
    BY <1>2, <1>8 DEF Turn
  <2>2. CASE conn.state = "http"
    <3>1. Turn \in {<<NextMessage, <<Talk, Talk, Talk>>>>, <<[conn EXCEPT !.closing = TRUE], << >>>>}
      BY <2>1, <2>2 DEF AdvanceWeb
    <3>2. QED
      BY <1>0, <1>4, <1>6, <1>7, <3>1
  <2>3. CASE conn.state = "msg"
    <3>1. Turn \in {<<[conn EXCEPT !.closing = TRUE], << >>>>,
                    <<[To("mask", 1) EXCEPT !.kind = u[1], !.len = u[2]], << >>>>}
      BY <2>1, <2>3 DEF AdvanceWeb
    <3>2. Live(web, To("mask", 1))
      BY <1>5, <1>8 DEF States
    <3>3. Live(web, [To("mask", 1) EXCEPT !.kind = u[1], !.len = u[2]])
      BY <1>3, <3>2 DEF Live, Conns
    <3>4. QED
      BY <1>0, <1>4, <1>7, <3>1, <3>3
  <2>4. CASE conn.state = "mask"
    <3>1. Turn = <<[To("text", conn.len) EXCEPT !.len = 0], << >>>>
      BY <2>1, <2>4 DEF AdvanceWeb
    <3>2. Live(web, To("text", conn.len))
      BY <1>1, <1>5, <1>8 DEF States, Live, Conns
    <3>3. Live(web, [To("text", conn.len) EXCEPT !.len = 0])
      BY <3>2 DEF Live, Conns
    <3>4. QED
      BY <1>0, <1>4, <3>1, <3>3
  <2>5. CASE conn.state = "text"
    <3>1. Turn \in {<<[NextMessage EXCEPT !.closing = TRUE], << >>>>,
                    <<NextMessage, <<Talk, Talk>>>>, <<NextMessage, << >>>>}
      BY <2>1, <2>5 DEF AdvanceWeb
    <3>2. QED
      BY <1>0, <1>4, <1>6, <1>7, <3>1
  <2>6. QED
    BY <1>1, <1>8, <2>2, <2>3, <2>4, <2>5 DEF Live, States
<1>9. CASE ~web
  <2>1. Turn = AdvanceRfb(u)
    BY <1>2, <1>9 DEF Turn
  <2>2. CASE conn.state \in {"version", "init"}
    <3>1. Turn \in {<<NextMessage, <<Talk>>>>, <<To("sectype", 1), <<Talk>>>>}
      BY <2>1, <2>2 DEF AdvanceRfb
    <3>2. Live(web, To("sectype", 1))
      BY <1>5, <1>9 DEF States
    <3>3. QED
      BY <1>0, <1>4, <1>6, <3>1, <3>2
  <2>3. CASE conn.state = "sectype"
    <3>1. Turn \in {<<To("init", 1), <<Talk>>>>, <<[conn EXCEPT !.closing = TRUE], <<Talk>>>>}
      BY <2>1, <2>3 DEF AdvanceRfb
    <3>2. Live(web, To("init", 1))
      BY <1>5, <1>9 DEF States
    <3>3. QED
      BY <1>0, <1>4, <1>7, <3>1, <3>2
  <2>4. CASE conn.state = "msg"
    <3>1. Turn \in {<<[To("body", 1) EXCEPT !.kind = u[1]], << >>>>, <<To("len", 1), << >>>>,
                    <<[conn EXCEPT !.closing = TRUE], << >>>>}
      BY <2>1, <2>4 DEF AdvanceRfb
    <3>2. Live(web, To("body", 1)) /\ Live(web, To("len", 1))
      BY <1>5, <1>9 DEF States
    <3>3. Live(web, [To("body", 1) EXCEPT !.kind = u[1]])
      BY <1>3, <3>2 DEF Live, Conns
    <3>4. QED
      BY <1>0, <1>4, <1>7, <3>1, <3>2, <3>3
  <2>5. CASE conn.state = "body"
    <3>1. Turn \in {<<[NextMessage EXCEPT !.awaiting = TRUE, !.waited = 0], << >>>>,
                    <<NextMessage, << >>>>}
      BY <2>1, <2>5 DEF AdvanceRfb
    <3>2. Live(web, [NextMessage EXCEPT !.awaiting = TRUE, !.waited = 0])
      BY <1>6 DEF Live, Conns
    <3>3. QED
      BY <1>0, <1>4, <1>6, <3>1, <3>2
  <2>6. CASE conn.state = "len"
    <3>1. Turn = <<AfterLength(u[2]), << >>>>
      BY <2>1, <2>6 DEF AdvanceRfb
    <3>2. Live(web, AfterLength(u[2]))
      BY <1>3, <1>5, <1>6, <1>9 DEF AfterLength, States
    <3>3. QED
      BY <1>0, <1>4, <3>1, <3>2
  <2>7. CASE conn.state = "text"
    <3>1. Turn = <<NextMessage, << >>>>
      BY <2>1, <2>7 DEF AdvanceRfb
    <3>2. QED
      BY <1>0, <1>4, <1>6, <3>1
  <2>8. QED
    BY <1>1, <1>9, <2>2, <2>3, <2>4, <2>5, <2>6, <2>7 DEF Live, States
<1>10. QED
  BY <1>8, <1>9 DEF Talking

-----------------------------------------------------------------------------
(* What the client comes to show.                                          *)

\* A sequence is what comes first of it and what comes after that.
LEMMA Cut ==
  ASSUME NEW S, NEW s \in Seq(S), NEW n \in 0..Len(s)
  PROVE  /\ SubSeq(s, 1, n) \in Seq(S) /\ SubSeq(s, n + 1, Len(s)) \in Seq(S)
         /\ s = SubSeq(s, 1, n) \o SubSeq(s, n + 1, Len(s))
<1>1. PICK L \in Nat : L = Len(s)
  OBVIOUS
<1>2. 1 \in 1..(L + 1) /\ n \in (1 - 1)..L /\ L \in n..L
  BY <1>1
<1>3. SubSeq(s, 1, n) \o SubSeq(s, n + 1, L) = SubSeq(s, 1, L)
  BY <1>1, <1>2, ConcatAdjacentSubSeq
<1>4. SubSeq(s, 1, L) = s
  BY <1>1, SubSeqFull
<1>5. \A i \in 1..L : s[i] \in S
  BY <1>1
<1>6. SubSeq(s, 1, n) \in Seq(S)
  <2>1. 1 \in Int /\ n \in Int /\ \A i \in 1..n : s[i] \in S
    BY <1>1, <1>2, <1>5
  <2>2. QED
    BY <2>1, SubSeqProperties
<1>7. SubSeq(s, n + 1, L) \in Seq(S)
  <2>1. n + 1 \in Int /\ L \in Int /\ \A i \in (n + 1)..L : s[i] \in S
    BY <1>1, <1>2, <1>5
  <2>2. QED
    BY <2>1, SubSeqProperties
<1>8. QED
  BY <1>1, <1>3, <1>4, <1>6, <1>7

\* Talk is about no row.
LEMMA TalkFacts == Talk \in Items /\ \A r \in Rows : Talk.row # r
BY VncdAssumption DEF Talk, Items

\* What is sent first is shown first.
LEMMA ShownInTurn ==
  ASSUME NEW p \in Seq(Items), NEW q \in Seq(Items), NEW s \in SUBSET Rows
  PROVE  ShownAfter(p \o q, s) = ShownAfter(q, ShownAfter(p, s))
<1> DEFINE pq == p \o q
<1>1. /\ Len(p) \in Nat /\ Len(q) \in Nat
      /\ DOMAIN p = 1..Len(p) /\ DOMAIN q = 1..Len(q) /\ DOMAIN pq = 1..(Len(p) + Len(q))
      /\ \A i \in 1..Len(p) : pq[i] = p[i]
      /\ \A i \in 1..Len(q) : pq[Len(p) + i] = q[i]
  OBVIOUS
<1> HIDE DEF pq
<1> DEFINE None(x, r) == \A i \in DOMAIN x : x[i].row # r
           Final(x, r) == \E i \in DOMAIN x : x[i] = Pixels(r) /\ \A j \in DOMAIN x : j > i => x[j].row # r
<1>2. ASSUME NEW r \in Rows
      PROVE  None(pq, r) <=> None(p, r) /\ None(q, r)
  <2>1. \A i \in DOMAIN pq : i \in DOMAIN p \/ i - Len(p) \in DOMAIN q
    BY <1>1
  <2>2. \A i \in DOMAIN pq : i - Len(p) \in DOMAIN q => pq[i] = q[i - Len(p)]
    BY <1>1
  <2>3. None(p, r) /\ None(q, r) => None(pq, r)
    BY <1>1, <2>1, <2>2
  <2>4. ASSUME None(pq, r) PROVE None(p, r) /\ None(q, r)
    <3>1. \A i \in DOMAIN p : i \in DOMAIN pq
      BY <1>1
    <3>2. \A i \in DOMAIN q : Len(p) + i \in DOMAIN pq
      BY <1>1
    <3>3. QED
      BY <1>1, <2>4, <3>1, <3>2
  <2>5. QED
    BY <2>3, <2>4
<1>3. ASSUME NEW r \in Rows
      PROVE  Final(pq, r) <=> Final(q, r) \/ (Final(p, r) /\ None(q, r))
  <2>1. ASSUME NEW i \in DOMAIN q, q[i] = Pixels(r), \A j \in DOMAIN q : j > i => q[j].row # r
        PROVE  Final(pq, r)
    <3>1. Len(p) + i \in DOMAIN pq /\ pq[Len(p) + i] = Pixels(r)
      BY <1>1, <2>1
    <3>2. ASSUME NEW j \in DOMAIN pq, j > Len(p) + i PROVE pq[j].row # r
      <4>1. j - Len(p) \in DOMAIN q /\ j - Len(p) > i /\ pq[j] = q[j - Len(p)]
        BY <1>1, <3>2
      <4>2. QED
        BY <2>1, <4>1
    <3>3. QED
      BY <3>1, <3>2
  <2>2. ASSUME NEW i \in DOMAIN p, p[i] = Pixels(r), \A j \in DOMAIN p : j > i => p[j].row # r, None(q, r)
        PROVE  Final(pq, r)
    <3>1. i \in DOMAIN pq /\ pq[i] = Pixels(r)
      BY <1>1, <2>2
    <3>2. ASSUME NEW j \in DOMAIN pq, j > i PROVE pq[j].row # r
      <4>1. CASE j \in DOMAIN p
        BY <1>1, <2>2, <3>2, <4>1
      <4>2. CASE j \notin DOMAIN p
        <5>1. j - Len(p) \in DOMAIN q /\ pq[j] = q[j - Len(p)]
          BY <1>1, <4>2
        <5>2. QED
          BY <2>2, <5>1
      <4>3. QED
        BY <4>1, <4>2
    <3>3. QED
      BY <3>1, <3>2
  <2>3. ASSUME NEW i \in DOMAIN pq, pq[i] = Pixels(r), \A j \in DOMAIN pq : j > i => pq[j].row # r
        PROVE  Final(q, r) \/ (Final(p, r) /\ None(q, r))
    <3>1. CASE i \in DOMAIN p
      <4>1. p[i] = Pixels(r) /\ \A j \in DOMAIN p : j > i => p[j].row # r
        BY <1>1, <2>3, <3>1
      <4>2. ASSUME NEW j \in DOMAIN q PROVE q[j].row # r
        <5>1. Len(p) + j \in DOMAIN pq /\ Len(p) + j > i /\ pq[Len(p) + j] = q[j]
          BY <1>1, <3>1
        <5>2. QED
          BY <2>3, <5>1
      <4>3. QED
        BY <3>1, <4>1, <4>2
    <3>2. CASE i \notin DOMAIN p
      <4>1. i - Len(p) \in DOMAIN q /\ q[i - Len(p)] = Pixels(r)
        BY <1>1, <2>3, <3>2
      <4>2. ASSUME NEW j \in DOMAIN q, j > i - Len(p) PROVE q[j].row # r
        <5>1. Len(p) + j \in DOMAIN pq /\ Len(p) + j > i /\ pq[Len(p) + j] = q[j]
          BY <1>1, <3>2, <4>2
        <5>2. QED
          BY <2>3, <5>1
      <4>3. QED
        BY <4>1, <4>2
    <3>3. QED
      BY <3>1, <3>2
  <2>4. QED
    BY <2>1, <2>2, <2>3
<1>4. ASSUME NEW x, NEW t, NEW r \in Rows
      PROVE  r \in ShownAfter(x, t) <=> (r \in t /\ None(x, r)) \/ Final(x, r)
  BY DEF ShownAfter
<1> HIDE DEF None, Final
<1>5. ASSUME NEW r \in Rows
      PROVE  r \in ShownAfter(pq, s) <=> r \in ShownAfter(q, ShownAfter(p, s))
  <2>1. r \in ShownAfter(pq, s) <=> (r \in s /\ None(p, r) /\ None(q, r)) \/ Final(q, r) \/ (Final(p, r) /\ None(q, r))
    BY <1>2, <1>3, <1>4
  <2>2. r \in ShownAfter(p, s) <=> (r \in s /\ None(p, r)) \/ Final(p, r)
    BY <1>4
  <2>3. r \in ShownAfter(q, ShownAfter(p, s)) <=> (r \in ShownAfter(p, s) /\ None(q, r)) \/ Final(q, r)
    BY <1>4
  <2>4. QED
    BY <2>1, <2>2, <2>3
<1>6. ShownAfter(pq, s) \subseteq Rows /\ ShownAfter(q, ShownAfter(p, s)) \subseteq Rows
  BY DEF ShownAfter
<1>7. QED
  BY <1>5, <1>6 DEF pq

\* What is no pixels changes nothing.
LEMMA TalkShowsNothing ==
  ASSUME NEW q \in Seq(Items), NEW t \in Seq({Talk}), NEW s \in SUBSET Rows
  PROVE  q \o t \in Seq(Items) /\ ShownAfter(q \o t, s) = ShownAfter(q, s)
<1>1. \A i \in DOMAIN t : t[i] = Talk
  OBVIOUS
<1>2. t \in Seq(Items)
  BY TalkFacts
<1>3. \A u \in SUBSET Rows : ShownAfter(t, u) = u
  BY <1>1, TalkFacts DEF ShownAfter, Pixels
<1>4. ShownAfter(q, s) \in SUBSET Rows
  BY DEF ShownAfter
<1>5. QED
  BY <1>2, <1>3, <1>4, ShownInTurn

\* The rows of a set in the order in which they are queued.
LEMMA OrderFacts ==
  ASSUME NEW S \in SUBSET Rows
  PROVE  /\ Cardinality(S) \in Nat
         /\ SetToSeq(S) \in [1..Cardinality(S) -> S]
         /\ IsInjective(SetToSeq(S))
         /\ \A r \in S : \E k \in 1..Cardinality(S) : SetToSeq(S)[k] = r
<1>1. IsFiniteSet(S)
  BY VncdAssumption, FS_Subset
<1>2. PICK N \in Nat : N = Cardinality(S) /\ ExistsBijection(1..N, S)
  BY <1>1, FS_CardinalityType
<1>3. SetToSeq(S) \in [1..N -> S] /\ IsInjective(SetToSeq(S))
  BY <1>2 DEF SetToSeq, ExistsBijection, Bijection, Injection
<1>4. SetToSeq(S) \in Injection(1..N, S)
  BY <1>3 DEF Injection
<1>5. Cardinality(1..N) = N
  <2>1. Cardinality(1..N) = IF 1 > N THEN 0 ELSE N - 1 + 1
    BY FS_Interval
  <2>2. QED
    BY <2>1
<1>6. SetToSeq(S) \in Surjection(1..N, S)
  BY <1>1, <1>2, <1>4, <1>5, FS_Injection
<1>7. QED
  BY <1>2, <1>3, <1>6 DEF Surjection

\* An update shows its rows, and every other one stays as it is.
LEMMA UpdateShows ==
  ASSUME web \in BOOLEAN, NEW S \in SUBSET Rows, NEW s \in SUBSET Rows
  PROVE  Update(S) \in Seq(Items) /\ s \union S \subseteq ShownAfter(Update(S), s)
<1> DEFINE lead == IF web THEN 0 ELSE 1
           each == IF web THEN 3 ELSE 2
           order == SetToSeq(S)
<1>1. PICK N \in Nat : N = Cardinality(S) /\ order \in [1..N -> S]
  BY OrderFacts
<1>2. IsInjective(order) /\ \A r \in S : \E k \in 1..N : order[k] = r
  BY <1>1, OrderFacts
<1>3. order \in Seq(S) /\ Len(order) = N
  BY <1>1
<1> DEFINE u == [i \in 1..(lead + (each * N)) |->
                  IF i > lead /\ (i - lead) % each = 0 THEN Pixels(order[(i - lead) \div each]) ELSE Talk]
<1>4. Update(S) = u
  BY <1>3 DEF Update
<1> HIDE DEF order
<1>5. ASSUME NEW i \in 1..(lead + (each * N))
      PROVE  (i > lead /\ (i - lead) % each = 0)
               => /\ (i - lead) \div each \in 1..N
                  /\ i = lead + (each * ((i - lead) \div each))
  <2>1. CASE web
    BY <2>1
  <2>2. CASE ~web
    BY <2>2
  <2>3. QED
    BY <2>1, <2>2
<1>6. lead + (each * N) \in Nat
  BY <1>1
<1>7. ASSUME NEW k \in 1..N
      PROVE  LET i == lead + (each * k) IN
             /\ i \in 1..(lead + (each * N)) /\ i > lead /\ (i - lead) % each = 0
             /\ (i - lead) \div each = k
  <2>1. CASE web
    BY <2>1
  <2>2. CASE ~web
    BY <2>2
  <2>3. QED
    BY <2>1, <2>2
<1> HIDE DEF lead, each
<1>8. ASSUME NEW r \in Rows PROVE Pixels(r) \in Items /\ Pixels(r).row = r
  BY DEF Pixels, Items
<1>9. u \in Seq(Items)
  <2>1. ASSUME NEW i \in 1..(lead + (each * N)) PROVE u[i] \in Items
    BY <1>1, <1>5, <1>8, TalkFacts
  <2>2. QED
    BY <1>6, <2>1
<1>10. ASSUME NEW i \in DOMAIN u, NEW r \in Rows, u[i].row = r
       PROVE  \E k \in 1..N : i = lead + (each * k) /\ order[k] = r /\ u[i] = Pixels(r)
  <2>1. CASE i > lead /\ (i - lead) % each = 0
    <3>1. PICK k \in 1..N : k = (i - lead) \div each /\ i = lead + (each * k)
      BY <1>5, <2>1
    <3>2. u[i] = Pixels(order[k]) /\ order[k] \in Rows
      BY <1>1, <2>1, <3>1
    <3>3. QED
      BY <1>8, <1>10, <3>1, <3>2
  <2>2. CASE ~(i > lead /\ (i - lead) % each = 0)
    BY <1>10, <2>2, TalkFacts
  <2>3. QED
    BY <2>1, <2>2
<1>11. ASSUME NEW k \in 1..N
       PROVE  lead + (each * k) \in DOMAIN u /\ u[lead + (each * k)] = Pixels(order[k])
  BY <1>7
<1> HIDE DEF u
<1>12. ASSUME NEW r \in S PROVE r \in ShownAfter(u, s)
  <2>1. PICK k \in 1..N : order[k] = r
    BY <1>2
  <2>2. ASSUME NEW j \in DOMAIN u, j > lead + (each * k) PROVE u[j].row # r
    <3>1. SUFFICES ASSUME u[j].row = r PROVE FALSE
      OBVIOUS
    <3>2. PICK l \in 1..N : j = lead + (each * l) /\ order[l] = r
      BY <1>10, <3>1
    <3>3. l = k
      BY <1>1, <1>2, <2>1, <3>2 DEF IsInjective
    <3>4. j = lead + (each * k)
      BY <3>2, <3>3
    <3>5. QED
      BY <1>6, <1>9, <2>2, <3>4
  <2>3. QED
    BY <1>11, <2>1, <2>2 DEF ShownAfter
<1>13. ASSUME NEW r \in s, r \notin S PROVE r \in ShownAfter(u, s)
  <2>1. \A i \in DOMAIN u : u[i].row # r
    BY <1>1, <1>10, <1>13
  <2>2. QED
    BY <2>1 DEF ShownAfter
<1>14. QED
  BY <1>4, <1>9, <1>12, <1>13

-----------------------------------------------------------------------------
(* Rows.  What is taken for unchanged is, or is about to be, shown.        *)

Shows == Talking /\ RowsAreShown

\* The types of the queues and pictures are kept, and the connection alive or none.
LEMMA ClosedKeeps == ASSUME Talking, Closed, at' = "idle", on' \in BOOLEAN, UNCHANGED web PROVE Shows'
BY NotOpen DEF Talking, Shows, RowsAreShown, Closed

LEMMA ParseKeeps == ASSUME Shows, Parse PROVE Shows'
<1>1. conn.open /\ Live(web, conn)
  BY NotOpen DEF Shows, Talking, Parse
<1>2. Len(rxbuf) >= conn.need /\ conn.need \in Nat
  BY <1>1 DEF Parse, Live, Conns
<1>3. Live(web, Turn[1]) /\ Turn[2] \in Seq({Talk})
  BY <1>1, <1>2, TurnFacts DEF Shows
<1>4. conn' = Turn[1] /\ outq' = outq \o Turn[2]
  BY DEF Parse, Turn, Unit
<1>5. rxbuf' \in Seq(Units)
  BY <1>2 DEF Shows, Talking, Parse
<1>6. outq' \in Seq(Items) /\ ShownAfter(outq', shown) = ShownAfter(outq, shown)
  BY <1>3, <1>4, TalkShowsNothing DEF Shows, Talking
<1>7. Talking'
  BY <1>1, <1>3, <1>4, <1>5, <1>6 DEF Shows, Talking, Parse, fixed, Live
<1>8. RowsAreShown'
  BY <1>1, <1>6 DEF Shows, RowsAreShown, Parse, ShownAfter
<1>9. QED
  BY <1>7, <1>8 DEF Shows

LEMMA ScanKeeps == ASSUME Shows, Scan PROVE Shows'
<1>1. conn.open /\ Live(web, conn) /\ dirty \subseteq Rows /\ shown \subseteq Rows /\ web \in BOOLEAN
  BY NotOpen DEF Shows, Talking, Scan, Parsed
<1>2. PICK u \in Seq(Items) : u = Update(dirty)
  BY <1>1, UpdateShows
<1>3. CASE outq' = outq \o u /\ conn' = [conn EXCEPT !.awaiting = FALSE] /\ at' = "send"
           /\ UNCHANGED failed
  <2>1. outq' \in Seq(Items) /\ Live(web, conn') /\ conn'.open
    <3>1. outq' \in Seq(Items)
      BY <1>3 DEF Shows, Talking
    <3>2. Live(web, conn') /\ conn'.open
      BY <1>1, <1>3 DEF Live, Conns
    <3>3. QED
      BY <3>1, <3>2
  <2>2. Talking'
    BY <1>1, <1>3, <2>1 DEF Shows, Talking, Scan, Parsed, fixed, input
  <2>3. ShownAfter(outq', shown) = ShownAfter(u, ShownAfter(outq, shown))
    BY <1>1, <1>3, ShownInTurn DEF Shows, Talking
  <2>4. ShownAfter(outq, shown) \union dirty \subseteq ShownAfter(outq', shown)
    <3>1. ShownAfter(outq, shown) \in SUBSET Rows
      BY DEF ShownAfter
    <3>2. QED
      BY <1>1, <1>2, <2>3, <3>1, UpdateShows
  <2>5. RowsAreShown'
    <3>1. ~failed => Rows \subseteq ShownAfter(outq', shown)
      BY <1>1, <2>4 DEF Shows, RowsAreShown
    <3>2. UNCHANGED shown
      BY DEF Scan
    <3>3. QED
      BY <1>3, <3>1, <3>2 DEF RowsAreShown, ShownAfter
  <2>6. QED
    BY <2>2, <2>5 DEF Shows
<1>4. CASE /\ \E n \in 0..(Len(u) - 1) : outq' = outq \o SubSeq(u, 1, n)
           /\ UNCHANGED conn /\ at' = "idle" /\ failed' = TRUE
  <2>1. PICK n \in 0..(Len(u) - 1) : outq' = outq \o SubSeq(u, 1, n)
    BY <1>4
  <2>2. outq' \in Seq(Items)
    <3>1. SubSeq(u, 1, n) \in Seq(Items)
      BY <1>2
    <3>2. QED
      BY <2>1, <3>1 DEF Shows, Talking
  <2>3. Talking'
    BY <1>1, <1>4, <2>2 DEF Shows, Talking, Scan, Parsed, fixed, input
  <2>4. QED
    BY <1>4, <2>3 DEF Shows, RowsAreShown
<1>5. QED
  BY <1>2, <1>3, <1>4 DEF Scan, Found

LEMMA SendSomeKeeps == ASSUME Shows, SendSome PROVE Shows'
<1>1. conn.open /\ on
  BY DEF Shows, Talking, SendSome
<1>2. PICK n \in 0..Len(outq) : outq' = SubSeq(outq, n + 1, Len(outq))
                               /\ shown' = ShownAfter(SubSeq(outq, 1, n), shown)
  BY DEF SendSome
<1>3. outq \in Seq(Items) /\ shown \in SUBSET Rows
  BY DEF Shows, Talking
<1>4. PICK p \in Seq(Items), q \in Seq(Items) :
        p = SubSeq(outq, 1, n) /\ q = SubSeq(outq, n + 1, Len(outq)) /\ outq = p \o q
  <2>1. /\ SubSeq(outq, 1, n) \in Seq(Items) /\ SubSeq(outq, n + 1, Len(outq)) \in Seq(Items)
        /\ outq = SubSeq(outq, 1, n) \o SubSeq(outq, n + 1, Len(outq))
    BY <1>3, Cut, Zenon
  <2>2. QED
    BY <2>1, Zenon
<1>5. ShownAfter(outq', shown') = ShownAfter(outq, shown)
  <2>1. ShownAfter(p \o q, shown) = ShownAfter(q, ShownAfter(p, shown))
    BY <1>3, ShownInTurn
  <2>2. outq' = q /\ shown' = ShownAfter(p, shown) /\ outq = p \o q
    BY <1>2, <1>4
  <2>3. QED
    BY <2>1, <2>2
<1>6. shown' \subseteq Rows
  BY <1>2 DEF ShownAfter
<1>7. Talking'
  BY <1>1, <1>2, <1>4, <1>6 DEF Shows, Talking, SendSome, fixed, input
<1>8. RowsAreShown'
  <2>1. UNCHANGED <<conn, dirty, failed>>
    BY DEF SendSome
  <2>2. QED
    BY <1>5, <2>1 DEF Shows, RowsAreShown, ShownAfter
<1>9. QED
  BY <1>7, <1>8 DEF Shows

LEMMA ChangeKeeps == ASSUME Shows, Change PROVE Shows'
<1>1. PICK r \in Rows :
        /\ dirty' = dirty \union {r} /\ shown' = shown \ {r}
        /\ outq' = [i \in DOMAIN outq |-> [outq[i] EXCEPT !.now = @ /\ outq[i].row # r]]
  BY DEF Change
<1>2. outq \in Seq(Items) /\ conn.open
  BY DEF Shows, Talking, Change
<1>3. ASSUME NEW i \in DOMAIN outq
      PROVE  /\ outq'[i] \in Items /\ outq'[i].row = outq[i].row
             /\ outq[i].row # r => outq'[i] = outq[i]
  <2>1. PICK item \in Items : item = outq[i]
    BY <1>2, <1>3
  <2>2. outq'[i] = [item EXCEPT !.now = @ /\ item.row # r]
    BY <1>1, <1>3, <2>1
  <2>3. item = [row |-> item.row, now |-> item.now]
    BY <2>1 DEF Items
  <2>4. item.now \in BOOLEAN
    BY <2>1 DEF Items
  <2>5. outq'[i] = [row |-> item.row, now |-> item.now /\ item.row # r]
    BY <2>2, <2>3
  <2>6. item.row # r => (item.now /\ item.row # r) = item.now
    BY <2>4
  <2>7. outq'[i] \in Items /\ outq'[i].row = item.row
    BY <2>1, <2>4, <2>5 DEF Items
  <2>8. QED
    BY <2>1, <2>3, <2>5, <2>6, <2>7
<1>4. outq' \in Seq(Items) /\ DOMAIN outq' = DOMAIN outq
  <2>1. PICK L \in Nat : DOMAIN outq = 1..L
    BY <1>2
  <2>2. DOMAIN outq' = 1..L /\ outq' = [i \in 1..L |-> outq'[i]]
    BY <1>1, <2>1
  <2>3. \A i \in 1..L : outq'[i] \in Items
    BY <1>3, <2>1
  <2>4. outq' \in [1..L -> Items]
    BY <2>2, <2>3
  <2>5. QED
    BY <2>1, <2>2, <2>4
<1>5. Talking'
  BY <1>1, <1>2, <1>4 DEF Shows, Talking, Change, fixed, input
<1>6. ASSUME NEW x \in Rows, x # r, x \in ShownAfter(outq, shown)
      PROVE  x \in ShownAfter(outq', shown')
  <2>1. x \in shown => x \in shown'
    BY <1>1, <1>6
  <2>2. (\A i \in DOMAIN outq : outq[i].row # x) => \A i \in DOMAIN outq' : outq'[i].row # x
    BY <1>3, <1>4
  <2>3. ASSUME NEW i \in DOMAIN outq, outq[i] = Pixels(x), \A j \in DOMAIN outq : j > i => outq[j].row # x
        PROVE  outq'[i] = Pixels(x) /\ \A j \in DOMAIN outq' : j > i => outq'[j].row # x
    <3>1. outq[i].row = x
      BY <2>3 DEF Pixels
    <3>2. QED
      BY <1>3, <1>4, <1>6, <2>3, <3>1
  <2>4. QED
    BY <1>4, <1>6, <2>1, <2>2, <2>3 DEF ShownAfter
<1>7. RowsAreShown'
  <2>1. UNCHANGED <<conn, failed>>
    BY DEF Change
  <2>2. QED
    BY <1>1, <1>6, <2>1 DEF Shows, RowsAreShown
<1>8. QED
  BY <1>5, <1>7 DEF Shows

LEMMA ServingKeeps ==
  ASSUME Shows, Arrive \/ Send \/ Hangup \/ Recv \/ NothingFound \/ SendFails
  PROVE  Shows'
<1>1. UNCHANGED <<web, on, outq, dirty, shown, failed>>
  BY DEF Arrive, Send, Hangup, Recv, NothingFound, SendFails, fixed, output
<1>2. CASE Arrive \/ Hangup
  BY <1>1, <1>2 DEF Arrive, Hangup, Shows, Talking, RowsAreShown, input, ShownAfter
<1>3. CASE Send
  <2>1. PICK units \in Opening \union Messages : wire' = wire \o units
    BY <1>3 DEF Send
  <2>2. wire' \in Seq(Units)
    BY <2>1, SentUnits DEF Shows, Talking
  <2>3. Live(web, conn) /\ conn.open
    BY <1>3, NotOpen DEF Send, Shows, Talking
  <2>4. QED
    BY <1>1, <1>3, <2>2, <2>3 DEF Send, Shows, Talking, RowsAreShown, ShownAfter
<1>4. CASE Recv \/ NothingFound \/ SendFails
  <2>1. Live(web, conn) /\ conn.open /\ on
    BY <1>4, NotOpen DEF Recv, NothingFound, Parsed, SendFails, Shows, Talking
  <2>2. Live(web, conn') /\ conn'.open
    <3>1. Live(web, [conn EXCEPT !.closing = TRUE])
      BY <2>1 DEF Live, Conns
    <3>2. conn.waited + 1 \in Nat /\ (conn.waited + 1 < MaxWaitTicks) \in BOOLEAN
      BY <2>1 DEF Live, Conns
    <3>3. ASSUME NEW b \in BOOLEAN, NEW k \in Nat
          PROVE  Live(web, [conn EXCEPT !.waited = k, !.awaiting = b])
      BY <2>1 DEF Live, Conns
    <3>4. Live(web, [conn EXCEPT !.waited = @ + 1, !.awaiting = conn.waited + 1 < MaxWaitTicks])
      BY <3>2, <3>3
    <3>5. \/ conn' = conn \/ conn' = [conn EXCEPT !.closing = TRUE]
          \/ conn' = [conn EXCEPT !.waited = @ + 1, !.awaiting = conn.waited + 1 < MaxWaitTicks]
      BY <1>4 DEF Recv, NothingFound, SendFails
    <3>6. QED
      BY <2>1, <3>1, <3>4, <3>5 DEF Live
  <2>3. rxbuf' \in Seq(Units) /\ wire' \in Seq(Units)
    <3>1. CASE UNCHANGED <<rxbuf, wire>>
      BY <3>1 DEF Shows, Talking
    <3>2. CASE \E n \in 0..Len(wire) : rxbuf' = rxbuf \o SubSeq(wire, 1, n)
                                      /\ wire' = SubSeq(wire, n + 1, Len(wire))
      BY <3>2 DEF Shows, Talking
    <3>3. QED
      BY <1>4, <3>1, <3>2 DEF Recv, NothingFound, SendFails, input
  <2>4. QED
    BY <1>1, <2>1, <2>2, <2>3 DEF Shows, Talking, RowsAreShown, ShownAfter
<1>5. QED
  BY <1>2, <1>3, <1>4

LEMMA TickKeeps == ASSUME Shows, Tick PROVE Shows'
<1>1. UNCHANGED <<web, on, rxbuf, wire, owed, shown>> /\ on
  BY DEF Tick, fixed, input
<1>2. CASE ~conn.open /\ client # "away"
  <2>1. /\ conn' = [NoConn EXCEPT !.open = TRUE, !.state = IF web THEN "http" ELSE "version", !.need = 1]
        /\ outq' = IF web THEN << >> ELSE <<Talk>>
        /\ dirty' = Rows
    BY <1>2 DEF Tick
  <2>2. Live(web, conn')
    BY <2>1 DEF Live, Conns, States, NoConn, Shows, Talking
  <2>3. << >> \in Seq(Items) /\ <<Talk>> \in Seq(Items)
    BY TalkFacts
  <2>4. outq' \in Seq(Items) /\ conn'.open
    BY <2>1, <2>2, <2>3 DEF Live
  <2>5. QED
    BY <1>1, <2>1, <2>2, <2>4 DEF Shows, Talking, RowsAreShown
<1>3. CASE ~(~conn.open /\ client # "away")
  <2>1. UNCHANGED <<conn, outq, dirty, failed>> /\ at' = IF conn.open THEN "recv" ELSE "idle"
    BY <1>3 DEF Tick
  <2>2. QED
    BY <1>1, <2>1 DEF Shows, Talking, RowsAreShown, ShownAfter
<1>4. QED
  BY <1>2, <1>3

LEMMA TurningKeeps == ASSUME Shows, EndTick \/ Stop \/ Restart PROVE Shows'
<1>1. CASE Closed /\ at' = "idle" /\ on' \in BOOLEAN /\ UNCHANGED web
  BY <1>1, ClosedKeeps DEF Shows
<1>2. CASE EndTick /\ ~MayClose
  BY <1>2 DEF EndTick, Shows, Talking, RowsAreShown, fixed, input, output, ShownAfter
<1>3. CASE Restart
  <2>1. conn = NoConn /\ rxbuf = << >> /\ wire = << >> /\ owed = 0 /\ ~conn.open
    BY <1>3 DEF Restart, Shows, Talking, Live
  <2>2. UNCHANGED <<at, conn, rxbuf, wire, owed, outq, dirty, shown, failed>> /\ at = "idle"
    BY <1>3 DEF Restart, Shows, Talking, input, output
  <2>3. QED
    BY <1>3, <2>1, <2>2 DEF Restart, Shows, Talking, RowsAreShown
<1>4. QED
  BY <1>1, <1>2, <1>3 DEF EndTick, Stop, Shows, Talking, fixed

\* The inductive form of RowsAreShown: what the tick works on is typed, and a tick that
\* is under way has a connection.
THEOREM ShowsInvariance == SpecVnc => []Shows
<1>1. InitVnc => Shows
  BY NotOpen DEF InitVnc, Shows, Talking, RowsAreShown
<1>2. ASSUME Shows, [NextVnc]_vvars PROVE Shows'
  <2>1. CASE UNCHANGED vvars
    BY <1>2, <2>1 DEF vvars, Shows, Talking, RowsAreShown, ShownAfter
  <2>2. CASE Change
    BY <1>2, <2>2, ChangeKeeps
  <2>3. CASE Arrive \/ Send \/ Hangup \/ Recv \/ NothingFound \/ SendFails
    BY <1>2, <2>3, ServingKeeps
  <2>4. CASE Tick
    BY <1>2, <2>4, TickKeeps
  <2>5. CASE Parse
    BY <1>2, <2>5, ParseKeeps
  <2>6. CASE Scan
    BY <1>2, <2>6, ScanKeeps
  <2>7. CASE SendSome
    BY <1>2, <2>7, SendSomeKeeps
  <2>8. CASE EndTick \/ Stop \/ Restart
    BY <1>2, <2>8, TurningKeeps
  <2>9. QED
    BY <1>2, <2>1, <2>2, <2>3, <2>4, <2>5, <2>6, <2>7, <2>8 DEF NextVnc, Steps
<1>3. QED
  BY <1>1, <1>2, PTL DEF SpecVnc

\* A row the scan takes for unchanged is, or will be without another scan, what the
\* client shows, whatever is drawn while its pixels are half sent; until memory for an
\* update runs out.
THEOREM RowsStayShown == SpecVnc => []RowsAreShown
<1>1. Shows => RowsAreShown
  BY DEF Shows
<1>2. QED
  BY <1>1, ShowsInvariance, PTL

-----------------------------------------------------------------------------
(* Keys.  The client has written T, of which the server has taken b units; *)
(* C are the places where a message begins, and the next one to be read    *)
(* whole begins behind the r units that are still of the present one.      *)

Kinds == IF web THEN {"key", "ping", "close", "bad"} ELSE {"key", "request", "cut", "bad"}

\* The units of the message that begins at a.
Span(T, a) == IF T[a][1] = "bad" THEN 1
              ELSE IF web THEN 2 + T[a][2]
              ELSE IF T[a][1] = "cut" THEN 2 + T[a + 1][2]
              ELSE 2

Written(T, C) ==
  /\ T \in Seq(Units) /\ C \subseteq 1..Len(T)
  /\ \A a \in C : /\ T[a][1] \in Kinds
                  /\ T[a][1] # "bad" => a + 1 <= Len(T)
                  /\ a + Span(T, a) \in C \union {Len(T) + 1}
                  /\ \A i \in 1..(Span(T, a) - 1) : a + i \notin C

OnTheWay(T, b) ==
  /\ b + Len(rxbuf) + Len(wire) = Len(T)
  /\ \A i \in 1..Len(rxbuf) : rxbuf[i] = T[b + i]
  /\ \A i \in 1..Len(wire) : wire[i] = T[b + Len(rxbuf) + i]

\* In connection c, r units are missing of what it is in the middle of.
Ahead(c, T, b, r) ==
  /\ c.state \in {"http", "version"} => b = 0
  /\ c.state = "http" => r = IF T = << >> THEN 0 ELSE 1
  /\ c.state = "version" => r = IF T = << >> THEN 0 ELSE 3
  /\ c.state = "sectype" => r = 2
  /\ c.state \in {"init", "body"} => r = 1
  /\ c.state = "msg" => r = 0
  /\ c.state = "len" => b < Len(T) /\ r = 1 + T[b + 1][2]
  /\ c.state = "mask" => r = 1 + c.len
  /\ c.state = "text" => r = c.need

Clear(T, C, b, r) == b + r + 1 \in C \union {Len(T) + 1} /\ \A i \in 1..r : b + i \notin C

\* The keys still to be begun, and the one that is being read.
Keys(T, C, b) == {a \in C : a > b /\ T[a][1] = "key"}
InKey(c) == c.kind = "key" /\ c.state \in IF web THEN {"mask", "text"} ELSE {"body"}

Framed(T, C, b, r) ==
  /\ Written(T, C) /\ OnTheWay(T, b) /\ Ahead(conn, T, b, r) /\ Clear(T, C, b, r)
  /\ owed = (IF InKey(conn) THEN 1 ELSE 0) + Cardinality(Keys(T, C, b))

InFrame == \E T \in Seq(Units), b \in Nat, r \in Nat : \E C \in SUBSET Nat : Framed(T, C, b, r)

\* A handshake that was refused leaves the connection where it was, to be closed.
Refused == conn.closing /\ conn.state # "msg"

Typing == Shows /\ owed \in Nat /\ (conn.open => Refused \/ InFrame)

LEMMA KeysFinite ==
  ASSUME NEW T, NEW C, Written(T, C), NEW b
  PROVE  IsFiniteSet(Keys(T, C, b)) /\ Cardinality(Keys(T, C, b)) \in Nat
<1>1. PICK L \in Nat : L = Len(T)
  BY DEF Written
<1>2. IsFiniteSet(1..L)
  BY FS_Interval
<1>3. Keys(T, C, b) \subseteq 1..L
  BY <1>1 DEF Written, Keys
<1>4. IsFiniteSet(Keys(T, C, b))
  BY <1>2, <1>3, FS_Subset
<1>5. QED
  BY <1>4, FS_CardinalityType

\* recv() moves units, and keeps the stream.
LEMMA RecvKeepsStream ==
  ASSUME Talking, NEW T \in Seq(Units), NEW b \in Nat, OnTheWay(T, b), NEW n \in 0..Len(wire),
         rxbuf' = rxbuf \o SubSeq(wire, 1, n), wire' = SubSeq(wire, n + 1, Len(wire))
  PROVE  OnTheWay(T, b)'
<1>1. PICK K \in Nat, L \in Nat : K = Len(rxbuf) /\ L = Len(wire)
  BY DEF Talking
<1>2. PICK p : p = SubSeq(wire, 1, n)
  OBVIOUS
<1>3. \A i \in 1..L : wire[i] \in Units
  BY <1>1 DEF Talking
<1>4. p \in Seq(Units) /\ Len(p) = n /\ \A i \in 1..n : p[i] = wire[i]
  <2>1. 1 \in Int /\ n \in Int /\ \A i \in 1..n : wire[i] \in Units
    BY <1>1, <1>3
  <2>2. /\ SubSeq(wire, 1, n) \in Seq(Units) /\ Len(SubSeq(wire, 1, n)) = IF 1 <= n THEN n - 1 + 1 ELSE 0
        /\ \A i \in 1..(n - 1 + 1) : SubSeq(wire, 1, n)[i] = wire[1 + i - 1]
    BY <2>1, SubSeqProperties
  <2>3. QED
    BY <1>1, <1>2, <2>2
<1>5. Len(wire') = L - n /\ \A i \in 1..(L - n) : wire'[i] = wire[n + i]
  <2>1. n + 1 \in Int /\ L \in Int /\ \A i \in (n + 1)..L : wire[i] \in Units
    BY <1>1, <1>3
  <2>2. /\ Len(SubSeq(wire, n + 1, L)) = IF n + 1 <= L THEN L - (n + 1) + 1 ELSE 0
        /\ \A i \in 1..(L - (n + 1) + 1) : SubSeq(wire, n + 1, L)[i] = wire[n + 1 + i - 1]
    BY <2>1, SubSeqProperties
  <2>3. QED
    BY <1>1, <2>2
<1>6. /\ Len(rxbuf') = K + n
      /\ \A i \in 1..K : rxbuf'[i] = rxbuf[i]
      /\ \A i \in 1..n : rxbuf'[K + i] = wire[i]
  <2>1. rxbuf \in Seq(Units) /\ rxbuf' = rxbuf \o p
    BY <1>2 DEF Talking
  <2>2. QED
    BY <1>1, <1>4, <2>1
<1>7. Len(T) = b + K + L /\ (\A i \in 1..K : rxbuf[i] = T[b + i]) /\ \A i \in 1..L : wire[i] = T[b + K + i]
  BY <1>1 DEF OnTheWay
<1>8. ASSUME NEW i \in 1..(K + n) PROVE rxbuf'[i] = T[b + i]
  <2>1. CASE i <= K
    <3>1. i \in 1..K
      BY <1>1, <2>1
    <3>2. QED
      BY <1>6, <1>7, <3>1
  <2>2. CASE i > K
    <3>1. PICK j \in 1..n : i = K + j
      <4>1. i - K \in 1..n /\ i = K + (i - K)
        BY <1>1, <2>2
      <4>2. QED
        BY <4>1
    <3>2. rxbuf'[i] = wire[j] /\ wire[j] = T[b + K + j] /\ b + K + j = b + i
      BY <1>1, <1>6, <1>7, <3>1
    <3>3. QED
      BY <3>2
  <2>3. QED
    BY <1>1, <2>1, <2>2
<1>9. ASSUME NEW i \in 1..(L - n) PROVE wire'[i] = T[b + (K + n) + i]
  <2>1. n + i \in 1..L /\ b + (K + n) + i = b + K + (n + i)
    BY <1>1
  <2>2. QED
    BY <1>5, <1>7, <2>1
<1>10. b + (K + n) + (L - n) = Len(T)
  BY <1>1, <1>7
<1>11. QED
  BY <1>5, <1>6, <1>8, <1>9, <1>10 DEF OnTheWay

\* A turn of _process_rx() takes units, and they are the next of the stream.
LEMMA ParseTakes ==
  ASSUME Talking, NEW T \in Seq(Units), NEW b \in Nat, OnTheWay(T, b), NEW k \in 0..Len(rxbuf),
         rxbuf' = SubSeq(rxbuf, k + 1, Len(rxbuf)), wire' = wire
  PROVE  OnTheWay(T, b + k)'
<1>1. PICK K \in Nat, L \in Nat : K = Len(rxbuf) /\ L = Len(wire)
  BY DEF Talking
<1>2. \A i \in 1..K : rxbuf[i] \in Units
  BY <1>1 DEF Talking
<1>3. Len(rxbuf') = K - k /\ \A i \in 1..(K - k) : rxbuf'[i] = rxbuf[k + i]
  <2>1. k + 1 \in Int /\ K \in Int /\ \A i \in (k + 1)..K : rxbuf[i] \in Units
    BY <1>1, <1>2
  <2>2. /\ Len(SubSeq(rxbuf, k + 1, K)) = IF k + 1 <= K THEN K - (k + 1) + 1 ELSE 0
        /\ \A i \in 1..(K - (k + 1) + 1) : SubSeq(rxbuf, k + 1, K)[i] = rxbuf[k + 1 + i - 1]
    BY <2>1, SubSeqProperties
  <2>3. Len(rxbuf') = K - k
    BY <1>1, <2>2
  <2>4. ASSUME NEW i \in 1..(K - k) PROVE rxbuf'[i] = rxbuf[k + i]
    <3>1. i \in 1..(K - (k + 1) + 1) /\ k + 1 + i - 1 = k + i
      BY <1>1
    <3>2. QED
      BY <1>1, <2>2, <3>1
  <2>5. QED
    BY <2>3, <2>4
<1>4. Len(T) = b + K + L /\ (\A i \in 1..K : rxbuf[i] = T[b + i]) /\ \A i \in 1..L : wire[i] = T[b + K + i]
  BY <1>1 DEF OnTheWay
<1>5. ASSUME NEW i \in 1..(K - k) PROVE rxbuf'[i] = T[b + k + i]
  <2>1. k + i \in 1..K /\ b + k + i = b + (k + i)
    BY <1>1
  <2>2. QED
    BY <1>3, <1>4, <2>1
<1>6. ASSUME NEW i \in 1..L PROVE wire'[i] = T[b + k + (K - k) + i]
  <2>1. b + k + (K - k) + i = b + K + i
    BY <1>1
  <2>2. QED
    BY <1>4, <2>1
<1>7. b + k + (K - k) + L = Len(T)
  BY <1>1, <1>4
<1>8. QED
  BY <1>1, <1>3, <1>5, <1>6, <1>7 DEF OnTheWay

\* What a client sends follows what it has sent.
LEMMA SendExtends ==
  ASSUME Talking, NEW T \in Seq(Units), NEW b \in Nat, OnTheWay(T, b), NEW units \in Seq(Units),
         rxbuf' = rxbuf, wire' = wire \o units
  PROVE  OnTheWay(T \o units, b)'
<1>1. PICK K \in Nat, L \in Nat, M \in Nat : K = Len(rxbuf) /\ L = Len(wire) /\ M = Len(units)
  BY DEF Talking
<1>2. PICK U : U = T \o units
  OBVIOUS
<1>3. /\ Len(U) = Len(T) + M /\ Len(T) \in Nat
      /\ \A i \in 1..Len(T) : U[i] = T[i]
      /\ \A i \in 1..M : U[Len(T) + i] = units[i]
  BY <1>1, <1>2
<1>4. /\ Len(wire') = L + M
      /\ \A i \in 1..L : wire'[i] = wire[i]
      /\ \A i \in 1..M : wire'[L + i] = units[i]
  <2>1. wire \in Seq(Units)
    BY DEF Talking
  <2>2. QED
    BY <1>1, <2>1
<1>5. Len(T) = b + K + L /\ (\A i \in 1..K : rxbuf[i] = T[b + i]) /\ \A i \in 1..L : wire[i] = T[b + K + i]
  BY <1>1 DEF OnTheWay
<1>6. ASSUME NEW i \in 1..K PROVE rxbuf'[i] = U[b + i]
  <2>1. b + i \in 1..Len(T)
    BY <1>1, <1>5
  <2>2. QED
    BY <1>3, <1>5, <2>1
<1>7. ASSUME NEW i \in 1..(L + M) PROVE wire'[i] = U[b + K + i]
  <2>1. CASE i <= L
    <3>1. b + K + i \in 1..Len(T) /\ i \in 1..L
      BY <1>1, <1>5, <2>1
    <3>2. QED
      BY <1>3, <1>4, <1>5, <3>1
  <2>2. CASE i > L
    <3>1. PICK j \in 1..M : i = L + j
      <4>1. i - L \in 1..M /\ i = L + (i - L)
        BY <1>1, <2>2
      <4>2. QED
        BY <4>1
    <3>2. b + K + i = Len(T) + j
      BY <1>1, <1>5, <3>1
    <3>3. QED
      BY <1>3, <1>4, <3>1, <3>2
  <2>3. QED
    BY <1>1, <2>1, <2>2
<1>8. b + K + (L + M) = Len(U)
  BY <1>1, <1>3, <1>5
<1>9. OnTheWay(U, b)'
  BY <1>1, <1>4, <1>6, <1>7, <1>8 DEF OnTheWay
<1>10. QED
  BY <1>2, <1>9

\* A message is as long as its first units say.
LEMMA MessageFacts ==
  ASSUME NEW units \in Messages
  PROVE  /\ units[1][1] \in Kinds
         /\ units[1][1] = "bad" => Len(units) = 1
         /\ units[1][1] # "bad"
              => /\ Len(units) >= 2
                 /\ Len(units) = IF web THEN 2 + units[1][2]
                                 ELSE IF units[1][1] = "cut" THEN 2 + units[2][2] ELSE 2
<1>1. MaxText \in Nat
  BY VncdAssumption
<1>2. ASSUME NEW x, NEW y, NEW n \in Nat
      PROVE  LET m == <<x, y>> \o Text(n) IN Len(m) = n + 2 /\ m[1] = x /\ m[2] = y
  <2>1. Text(n) \in Seq(Units) /\ Len(Text(n)) = n
    <3>1. Say("key", 1) \in Units
      BY DEF Say, Units, Words
    <3>2. QED
      BY <3>1 DEF Text
  <2>2. <<x, y>> \in Seq({x, y} \union Units) /\ Text(n) \in Seq({x, y} \union Units)
    BY <2>1
  <2>3. QED
    BY <2>1, <2>2
<1>3. CASE web
  <2> DEFINE Frame(kind, n) == <<Say(kind, n), Say("mask", 0)>> \o Text(n)
             Others == {<<Say("close", 0), Say("mask", 0)>>, <<Say("bad", 0)>>}
  <2>1. Messages = {Frame(kind, n) : kind \in {"key", "ping"}, n \in 1..MaxText} \union Others
    BY <1>3 DEF Messages
  <2> HIDE DEF Frame, Others
  <2>2. ASSUME NEW kind \in {"key", "ping"}, NEW n \in 1..MaxText, units = Frame(kind, n)
        PROVE  Len(units) = n + 2 /\ units[1] = Say(kind, n) /\ n \in Nat
    BY <1>1, <1>2, <2>2 DEF Frame
  <2>3. CASE \E kind \in {"key", "ping"}, n \in 1..MaxText : units = Frame(kind, n)
    BY <1>3, <2>2, <2>3 DEF Say, Kinds
  <2>4. CASE units \in Others
    <3>1. CASE units = <<Say("close", 0), Say("mask", 0)>>
      <4>1. Len(units) = 2 /\ units[1] = <<"close", 0>>
        BY <3>1 DEF Say
      <4>2. QED
        BY <1>3, <4>1 DEF Kinds
    <3>2. CASE units = <<Say("bad", 0)>>
      BY <1>3, <3>2 DEF Say, Kinds
    <3>3. QED
      BY <2>4, <3>1, <3>2 DEF Others
  <2>5. QED
    BY <2>1, <2>3, <2>4
<1>4. CASE ~web
  <2> DEFINE Cuts(n) == <<Say("cut", 0), Say("len", n)>> \o Text(n)
             Shorts == {<<Say(kind, 1), Say("body", 0)>> : kind \in {"key", "request"}}
             Bads == {<<Say("bad", 0)>>}
  <2>1. Messages = Shorts \union {Cuts(n) : n \in 0..MaxText} \union Bads
    BY <1>4 DEF Messages
  <2> HIDE DEF Cuts, Shorts, Bads
  <2>2. CASE \E n \in 0..MaxText : units = Cuts(n)
    <3>1. PICK n \in 0..MaxText : units = Cuts(n)
      BY <2>2
    <3>2. Len(units) = n + 2 /\ units[1] = Say("cut", 0) /\ units[2] = Say("len", n) /\ n \in Nat
      BY <1>1, <1>2, <3>1 DEF Cuts
    <3>3. QED
      BY <1>4, <3>2 DEF Say, Kinds
  <2>3. CASE units \in Shorts
    BY <1>4, <2>3 DEF Shorts, Say, Kinds
  <2>4. CASE units \in Bads
    BY <1>4, <2>4 DEF Bads, Say, Kinds
  <2>5. QED
    BY <2>1, <2>2, <2>3, <2>4
<1>5. QED
  BY <1>3, <1>4

\* What it opens with is no message and no key.
LEMMA OpeningFacts ==
  ASSUME NEW units \in Opening
  PROVE  Len(units) = (IF web THEN 1 ELSE 3) /\ units[1][1] # "key"
BY DEF Opening, Say

LEMMA WrittenMore ==
  ASSUME NEW T, NEW C, Written(T, C), NEW units \in Messages
  PROVE  LET U == T \o units IN
         /\ Written(U, C \union {Len(T) + 1})
         /\ Len(U) > Len(T) /\ U[Len(T) + 1] = units[1] /\ \A i \in 1..Len(T) : U[i] = T[i]
<1>1. units \in Seq(Units) /\ T \in Seq(Units)
  BY SentUnits DEF Written
<1>2. PICK L \in Nat, M \in Nat, U \in Seq(Units) : L = Len(T) /\ M = Len(units) /\ U = T \o units
  <2>1. Len(T) \in Nat /\ Len(units) \in Nat /\ T \o units \in Seq(Units)
    BY <1>1
  <2>2. QED
    BY <2>1, Zenon
<1>3. /\ Len(U) = L + M
      /\ \A i \in 1..L : U[i] = T[i]
      /\ \A i \in 1..M : U[L + i] = units[i]
  BY <1>1, <1>2
<1>4. M >= 1
  BY <1>2, MessageFacts
<1>5. U[L + 1] = units[1] /\ (M >= 2 => U[L + 2] = units[2])
  BY <1>3, <1>4
<1> DEFINE D == C \union {L + 1}
<1>6. L + 1 + Span(U, L + 1) = Len(U) + 1
  <2>1. L + 1 + 1 = L + 2
    BY <1>2
  <2>2. Span(U, L + 1) = M
    <3>1. CASE units[1][1] = "bad"
      BY <1>2, <1>5, <3>1, MessageFacts DEF Span
    <3>2. CASE units[1][1] # "bad"
      BY <1>2, <1>5, <2>1, <3>2, MessageFacts DEF Span
    <3>3. QED
      BY <3>1, <3>2
  <2>3. QED
    BY <1>3, <2>2
<1>7. ASSUME NEW a \in C
      PROVE  a \in 1..L /\ U[a] = T[a] /\ Span(U, a) = Span(T, a)
  <2>1. a \in 1..L /\ U[a] = T[a]
    BY <1>2, <1>3 DEF Written
  <2>2. CASE T[a][1] = "bad"
    BY <2>1, <2>2 DEF Span
  <2>3. CASE T[a][1] # "bad"
    <3>1. a + 1 \in 1..L
      BY <1>2, <2>1, <2>3 DEF Written
    <3>2. U[a + 1] = T[a + 1]
      BY <1>3, <3>1
    <3>3. QED
      BY <2>1, <3>2 DEF Span
  <2>4. QED
    BY <2>1, <2>2, <2>3
<1>8. ASSUME NEW a \in D
      PROVE  /\ U[a][1] \in Kinds
             /\ U[a][1] # "bad" => a + 1 <= Len(U)
             /\ a + Span(U, a) \in D \union {Len(U) + 1}
             /\ \A i \in 1..(Span(U, a) - 1) : a + i \notin D
  <2>1. CASE a \in C
    <3>1. /\ T[a][1] \in Kinds /\ (T[a][1] # "bad" => a + 1 <= L)
          /\ a + Span(T, a) \in C \union {L + 1}
          /\ \A i \in 1..(Span(T, a) - 1) : a + i \notin C
      BY <1>2, <2>1 DEF Written
    <3>2. C \subseteq 1..L
      BY <1>2 DEF Written
    <3>3. a + Span(T, a) \in 1..(L + 1)
      <4>1. \A x \in C \union {L + 1} : x \in 1..(L + 1)
        BY <1>2, <3>2
      <4>2. QED
        BY <3>1, <4>1
    <3>4. PICK p \in Int : p = Span(T, a)
      <4>1. T[a] \in Units /\ (T[a][1] # "bad" => T[a + 1] \in Units)
        BY <1>1, <1>2, <1>7, <2>1, <3>1
      <4>2. Span(T, a) \in Int
        BY <4>1 DEF Span, Units
      <4>3. QED
        BY <4>2
    <3>5. a + p <= L + 1 /\ a \in 1..L
      BY <1>7, <2>1, <3>3, <3>4
    <3>6. \A i \in 1..(p - 1) : a + i # L + 1
      BY <1>2, <3>4, <3>5
    <3>7. U[a][1] # "bad" => a + 1 <= Len(U)
      BY <1>2, <1>3, <1>7, <2>1, <3>1
    <3>8. QED
      BY <1>7, <2>1, <3>1, <3>4, <3>6, <3>7
  <2>2. CASE a = L + 1
    <3>1. U[a][1] \in Kinds /\ (U[a][1] # "bad" => a + 1 <= Len(U))
      BY <1>2, <1>3, <1>5, <2>2, MessageFacts
    <3>2. C \subseteq 1..L
      BY <1>2 DEF Written
    <3>3. \A i \in 1..(Span(U, a) - 1) : a + i \notin D
      BY <1>2, <2>2, <3>2
    <3>4. QED
      BY <1>6, <2>2, <3>1, <3>3
  <2>3. QED
    BY <2>1, <2>2
<1>9. D \subseteq 1..Len(U)
  <2>1. \A x \in C : x \in 1..L
    BY <1>2 DEF Written
  <2>2. \A x \in 1..L : x \in 1..Len(U)
    BY <1>2, <1>3
  <2>3. L + 1 \in 1..Len(U)
    BY <1>2, <1>3, <1>4
  <2>4. QED
    BY <2>1, <2>2, <2>3
<1>10. Written(U, D)
  BY <1>8, <1>9 DEF Written
<1>11. QED
  BY <1>2, <1>3, <1>4, <1>5, <1>10

LEMMA SendKeepsFrame ==
  ASSUME Shows, Send, InFrame
  PROVE  InFrame'
<1>1. PICK T \in Seq(Units), b \in Nat, r \in Nat : \E C \in SUBSET Nat : Framed(T, C, b, r)
  BY DEF InFrame
<1>2. PICK C \in SUBSET Nat : Framed(T, C, b, r)
  BY <1>1
<1>3. Written(T, C) /\ OnTheWay(T, b) /\ Ahead(conn, T, b, r) /\ Clear(T, C, b, r)
      /\ owed = (IF InKey(conn) THEN 1 ELSE 0) + Cardinality(Keys(T, C, b))
  BY <1>2 DEF Framed
<1>4. PICK units \in Opening \union Messages :
        /\ (units \in Opening) <=> (conn.state \in {"version", "http"} /\ wire = << >> /\ rxbuf = << >>)
        /\ wire' = wire \o units
        /\ owed' = IF units[1][1] = "key" THEN owed + 1 ELSE owed
  BY DEF Send
<1>5. UNCHANGED <<conn, rxbuf, web>> /\ conn.open
  BY DEF Send, fixed
<1>6. Live(web, conn) /\ web \in BOOLEAN /\ rxbuf \in Seq(Units) /\ wire \in Seq(Units)
  BY <1>5, NotOpen DEF Shows, Talking
<1>7. units \in Seq(Units)
  BY SentUnits
<1>8. PICK L \in Nat : L = Len(T) /\ b <= L /\ C \subseteq 1..L
  <2>1. b <= Len(T) /\ Len(T) \in Nat
    BY <1>3, <1>6 DEF OnTheWay
  <2>2. QED
    BY <1>3, <2>1 DEF Written
<1>9. PICK U \in Seq(Units) : U = T \o units
  <2>1. T \o units \in Seq(Units)
    BY <1>7
  <2>2. QED
    BY <2>1, Zenon
<1>10. OnTheWay(U, b)'
  BY <1>3, <1>4, <1>5, <1>7, <1>9, SendExtends DEF Shows
<1>11. CASE units \in Opening
  <2>1. conn.state \in {"version", "http"} /\ Len(wire) = 0 /\ Len(rxbuf) = 0
    BY <1>4, <1>11
  <2>2. b = 0 /\ L = 0 /\ T = << >> /\ C = {}
    BY <1>3, <1>8, <2>1 DEF Ahead, OnTheWay
  <2>3. Len(U) = Len(units) /\ Len(units) = IF web THEN 1 ELSE 3
    BY <1>7, <1>8, <1>9, <1>11, <2>2, OpeningFacts
  <2>4. conn.state = IF web THEN "http" ELSE "version"
    BY <1>6, <2>1 DEF Live, States
  <2>5. U # << >> /\ Len(U) \in Nat
    BY <2>3
  <2>6. Ahead(conn, U, b, Len(U))'
    BY <1>5, <2>2, <2>3, <2>4, <2>5 DEF Ahead
  <2>7. Written(U, C)' /\ Clear(U, C, b, Len(U))'
    BY <2>2, <2>3 DEF Written, Clear
  <2>8. owed' = owed /\ Keys(T, C, b) = {} /\ Keys(U, C, b)' = {}
    BY <1>4, <1>11, <2>2, OpeningFacts DEF Keys
  <2>9. InKey(conn)' <=> InKey(conn)
    BY <1>5 DEF InKey
  <2>10. Framed(U, C, b, Len(U))'
    BY <1>3, <1>10, <2>6, <2>7, <2>8, <2>9 DEF Framed
  <2>11. QED
    BY <2>5, <2>10 DEF InFrame
<1>12. CASE units \notin Opening
  <2> DEFINE D == C \union {L + 1}
  <2>1. units \in Messages
    BY <1>12
  <2>2. /\ Written(U, D) /\ Len(U) > L /\ U[L + 1] = units[1]
        /\ \A i \in 1..L : U[i] = T[i]
    BY <1>3, <1>8, <1>9, <2>1, WrittenMore
  <2>3. Written(U, D)'
    BY <1>5, <2>2 DEF Written, Kinds, Span
  <2>4. Ahead(conn, U, b, r)'
    <3>1. conn.state \in {"version", "http"} => T # << >>
      <4>1. SUFFICES ASSUME conn.state \in {"version", "http"}, T = << >> PROVE FALSE
        OBVIOUS
      <4>2. Len(rxbuf) = 0 /\ Len(wire) = 0
        BY <1>3, <1>6, <4>1 DEF OnTheWay
      <4>3. rxbuf = << >> /\ wire = << >>
        BY <1>6, <4>2
      <4>4. QED
        BY <1>4, <1>12, <4>1, <4>3
    <3>2. U # << >> /\ Len(U) \in Nat
      BY <1>8, <2>2
    <3>3. b < L => U[b + 1] = T[b + 1]
      BY <1>8, <2>2
    <3>4. QED
      BY <1>3, <1>5, <1>8, <2>2, <3>1, <3>2, <3>3 DEF Ahead
  <2>5. Clear(U, D, b, r)'
    <3>1. b + r + 1 \in D /\ b + r + 1 <= L + 1
      BY <1>3, <1>8 DEF Clear
    <3>2. \A i \in 1..r : b + i # L + 1
      BY <1>8, <3>1
    <3>3. QED
      BY <1>3, <3>1, <3>2 DEF Clear
  <2>6. Keys(U, D, b)' = Keys(T, C, b) \union (IF units[1][1] = "key" THEN {L + 1} ELSE {})
    <3>1. L + 1 > b
      BY <1>8
    <3>2. \A a \in C : U[a] = T[a]
      BY <1>8, <2>2
    <3>3. QED
      BY <1>8, <2>2, <3>1, <3>2 DEF Keys
  <2>7. L + 1 \notin Keys(T, C, b)
    BY <1>8 DEF Keys
  <2>8. Cardinality(Keys(U, D, b)') = Cardinality(Keys(T, C, b)) + (IF units[1][1] = "key" THEN 1 ELSE 0)
    <3>1. PICK K : K = Keys(T, C, b) /\ IsFiniteSet(K) /\ Cardinality(K) \in Nat
      BY <1>3, KeysFinite
    <3>2. Cardinality(K \union {L + 1}) = Cardinality(K) + 1
      BY <2>7, <3>1, FS_AddElement
    <3>3. CASE units[1][1] = "key"
      BY <2>6, <3>1, <3>2, <3>3
    <3>4. CASE units[1][1] # "key"
      <4>1. Keys(U, D, b)' = K
        BY <2>6, <3>1, <3>4
      <4>2. QED
        BY <3>1, <3>4, <4>1
    <3>5. QED
      BY <3>3, <3>4
  <2>9. InKey(conn)' <=> InKey(conn)
    BY <1>5 DEF InKey
  <2>10. Cardinality(Keys(T, C, b)) \in Nat
    BY <1>3, KeysFinite
  <2>11. owed' = (IF InKey(conn)' THEN 1 ELSE 0) + Cardinality(Keys(U, D, b)')
    BY <1>3, <1>4, <2>8, <2>9, <2>10
  <2>12. Framed(U, D, b, r)'
    BY <1>10, <2>3, <2>4, <2>5, <2>11 DEF Framed
  <2>13. D \in SUBSET Nat
    <3>1. L + 1 \in Nat /\ \A x \in C : x \in Nat
      BY <1>8
    <3>2. QED
      BY <3>1, Zenon
  <2>14. QED
    BY <2>12, <2>13 DEF InFrame
<1>13. QED
  BY <1>11, <1>12

\* Inside a message no other begins.
LEMMA InsideKeepsFrame ==
  ASSUME NEW T \in Seq(Units), NEW C \in SUBSET Nat, NEW b \in Nat, NEW r \in Nat, NEW k \in 0..r,
         Framed(T, C, b, r), OnTheWay(T, b + k)', Ahead(conn, T, b + k, r - k)', web' = web,
         InKey(conn)' => InKey(conn),
         owed' = IF InKey(conn) /\ ~InKey(conn)' THEN owed - 1 ELSE owed
  PROVE  InFrame'
<1>1. Written(T, C) /\ Clear(T, C, b, r)
      /\ owed = (IF InKey(conn) THEN 1 ELSE 0) + Cardinality(Keys(T, C, b))
  BY DEF Framed
<1>2. Written(T, C)'
  BY <1>1 DEF Written, Kinds, Span
<1>3. Clear(T, C, b + k, r - k)'
  <2>1. b + k + (r - k) + 1 = b + r + 1
    OBVIOUS
  <2>2. ASSUME NEW i \in 1..(r - k) PROVE b + k + i \notin C
    <3>1. k + i \in 1..r /\ b + k + i = b + (k + i)
      OBVIOUS
    <3>2. QED
      BY <1>1, <3>1 DEF Clear
  <2>3. QED
    BY <1>1, <2>1, <2>2 DEF Clear
<1>4. Keys(T, C, b + k) = Keys(T, C, b)
  <2>1. ASSUME NEW a \in C, a > b PROVE a > b + k
    <3>1. SUFFICES ASSUME a <= b + k PROVE FALSE
      OBVIOUS
    <3>2. a - b \in 1..r /\ a = b + (a - b)
      BY <2>1, <3>1
    <3>3. QED
      BY <1>1, <3>2 DEF Clear
  <2>2. \A a \in C : a > b + k => a > b
    OBVIOUS
  <2>3. QED
    BY <2>1, <2>2 DEF Keys
<1>5. Cardinality(Keys(T, C, b)) \in Nat
  BY <1>1, KeysFinite
<1>6. owed' = (IF InKey(conn)' THEN 1 ELSE 0) + Cardinality(Keys(T, C, b + k))
  <2>1. PICK n \in Nat : n = Cardinality(Keys(T, C, b)) /\ n = Cardinality(Keys(T, C, b + k))
    BY <1>4, <1>5
  <2>2. owed = (IF InKey(conn) THEN 1 ELSE 0) + n
    BY <1>1, <2>1
  <2>3. QED
    BY <2>1, <2>2
<1>7. Framed(T, C, b + k, r - k)'
  BY <1>2, <1>3, <1>6 DEF Framed, Keys
<1>8. b + k \in Nat /\ r - k \in Nat
  OBVIOUS
<1>9. QED
  BY <1>7, <1>8 DEF InFrame

\* The first unit of a message is read.
LEMMA BeginKeepsFrame ==
  ASSUME NEW T \in Seq(Units), NEW C \in SUBSET Nat, NEW b \in Nat, NEW r \in Nat,
         Framed(T, C, b, 0), b + 1 \in C, r = Span(T, b + 1) - 1,
         OnTheWay(T, b + 1)', Ahead(conn, T, b + 1, r)', web' = web, owed' = owed,
         ~InKey(conn), InKey(conn)' <=> T[b + 1][1] = "key"
  PROVE  InFrame'
<1>1. Written(T, C) /\ owed = Cardinality(Keys(T, C, b)) /\ IsFiniteSet(Keys(T, C, b))
      /\ Cardinality(Keys(T, C, b)) \in Nat
  <2>1. PICK n : n = Cardinality(Keys(T, C, b))
    OBVIOUS
  <2>2. Written(T, C) /\ owed = 0 + n
    BY <2>1 DEF Framed
  <2>3. IsFiniteSet(Keys(T, C, b)) /\ n \in Nat
    BY <2>1, <2>2, KeysFinite
  <2>4. QED
    BY <2>1, <2>2, <2>3
<1>2. Written(T, C)'
  BY <1>1 DEF Written, Kinds, Span
<1>3. Clear(T, C, b + 1, r)'
  <2>1. Span(T, b + 1) = r + 1
    <3>1. T[b + 1] \in Units /\ (T[b + 1][1] # "bad" => T[b + 1 + 1] \in Units)
      BY <1>1 DEF Written
    <3>2. Span(T, b + 1) \in Int
      BY <3>1 DEF Span, Units
    <3>3. QED
      BY <3>2
  <2>2. b + 1 + (r + 1) \in C \union {Len(T) + 1} /\ \A i \in 1..r : b + 1 + i \notin C
    <3>1. r + 1 - 1 = r
      OBVIOUS
    <3>2. QED
      BY <1>1, <2>1, <3>1 DEF Written
  <2>3. b + 1 + r + 1 = b + 1 + (r + 1)
    OBVIOUS
  <2>4. QED
    BY <2>2, <2>3 DEF Clear
<1>4. Keys(T, C, b + 1) = Keys(T, C, b) \ {b + 1}
  <2>1. \A a \in C : a > b + 1 <=> (a > b /\ a # b + 1)
    OBVIOUS
  <2>2. QED
    BY <2>1 DEF Keys
<1>5. b + 1 \in Keys(T, C, b) <=> T[b + 1][1] = "key"
  BY DEF Keys
<1>6. owed' = (IF InKey(conn)' THEN 1 ELSE 0) + Cardinality(Keys(T, C, b + 1))
  <2>1. PICK K : K = Keys(T, C, b) /\ IsFiniteSet(K) /\ Cardinality(K) \in Nat
    BY <1>1
  <2>2. Cardinality(K \ {b + 1}) = IF b + 1 \in K THEN Cardinality(K) - 1 ELSE Cardinality(K)
    BY <2>1, FS_RemoveElement
  <2>3. PICK m \in Nat : m = Cardinality(K)
    BY <2>1
  <2>4. Cardinality(Keys(T, C, b + 1)) = IF b + 1 \in K THEN m - 1 ELSE m
    BY <1>4, <2>1, <2>2, <2>3
  <2>5. owed' = m
    BY <1>1, <2>1, <2>3
  <2>6. QED
    BY <1>5, <2>1, <2>3, <2>4, <2>5
<1>7. Framed(T, C, b + 1, r)'
  BY <1>2, <1>3, <1>6 DEF Framed, Keys
<1>8. QED
  BY <1>7 DEF InFrame

LEMMA ParseKeepsFrame ==
  ASSUME Shows, Parse, InFrame
  PROVE  (Refused \/ InFrame)'
<1>1. PICK T \in Seq(Units), b \in Nat, r \in Nat : \E C \in SUBSET Nat : Framed(T, C, b, r)
  BY DEF InFrame
<1>2. PICK C \in SUBSET Nat : Framed(T, C, b, r)
  BY <1>1
<1>3. Written(T, C) /\ OnTheWay(T, b) /\ Ahead(conn, T, b, r) /\ Clear(T, C, b, r)
  BY <1>2 DEF Framed
<1>4. conn.open /\ Live(web, conn) /\ Talking /\ web \in BOOLEAN
  BY NotOpen DEF Shows, Talking, Parse
<1>5. PICK k \in Nat : k = conn.need /\ k \in 0..Len(rxbuf) /\ (conn.state # "text" => k = 1)
  BY <1>4 DEF Parse, Live, Conns, Talking
<1>6. web' = web /\ owed' = (IF Types THEN owed - 1 ELSE owed)
  BY DEF Parse, fixed
<1>7. OnTheWay(T, b + k)'
  BY <1>3, <1>4, <1>5, ParseTakes DEF Parse
<1>8. PICK L \in Nat : L = Len(T) /\ b + k <= L /\ b <= L
  <2>1. Len(rxbuf) \in Nat /\ Len(wire) \in Nat /\ Len(T) \in Nat
    BY <1>4 DEF Talking
  <2>2. QED
    BY <1>3, <1>5, <2>1 DEF OnTheWay
<1>9. conn.state # "text" => Unit = T[b + 1] /\ b < L
  BY <1>3, <1>5, <1>8 DEF Unit, OnTheWay
<1>10. PICK u : u = Unit
  OBVIOUS
<1>11. u[1] \in Words /\ u[2] \in Nat
  BY <1>4, <1>5, <1>10, UnitFacts
<1>12. conn' = Turn[1] /\ Turn = IF web THEN AdvanceWeb(u) ELSE AdvanceRfb(u)
  BY <1>10 DEF Parse, Turn, Unit
<1>13. ASSUME k \in 0..r, Ahead(conn', T, b + k, r - k), InKey(conn)' => InKey(conn),
              Types <=> (InKey(conn) /\ ~InKey(conn)')
       PROVE  InFrame'
  <2>1. Ahead(conn, T, b + k, r - k)'
    BY <1>13 DEF Ahead
  <2>2. owed' = IF InKey(conn) /\ ~InKey(conn)' THEN owed - 1 ELSE owed
    BY <1>6, <1>13
  <2>3. QED
    BY <1>2, <1>6, <1>7, <1>13, <2>1, <2>2, InsideKeepsFrame
<1>14. CASE conn.state = "msg"
  <2>1. k = 1 /\ r = 0 /\ b + 1 \in C
    BY <1>3, <1>5, <1>8, <1>14 DEF Ahead, Clear
  <2>2. u = T[b + 1] /\ u[1] \in Kinds
    BY <1>3, <1>9, <1>10, <1>14, <2>1 DEF Written
  <2>3. ~InKey(conn) /\ owed' = owed
    BY <1>6, <1>14 DEF InKey, Types
  <2>4. ASSUME NEW q \in Nat, q = Span(T, b + 1) - 1, Ahead(conn', T, b + 1, q),
               InKey(conn)' <=> u[1] = "key"
        PROVE  InFrame'
    <3>1. Ahead(conn, T, b + 1, q)' /\ OnTheWay(T, b + 1)' /\ Framed(T, C, b, 0)
      BY <1>2, <1>7, <2>1, <2>4 DEF Ahead
    <3>2. QED
      BY <1>6, <2>1, <2>2, <2>3, <2>4, <3>1, BeginKeepsFrame
  <2>5. CASE web
    <3>1. CASE u[1] = "bad"
      <4>1. conn' = [conn EXCEPT !.closing = TRUE]
        BY <1>12, <1>14, <2>5, <3>1 DEF AdvanceWeb
      <4>2. conn'.state = "msg"
        BY <1>4, <1>14, <4>1 DEF Live, Conns
      <4>3. Span(T, b + 1) = 1
        BY <2>2, <3>1 DEF Span
      <4>4. Ahead(conn', T, b + 1, 0) /\ ~InKey(conn)'
        BY <4>2 DEF Ahead, InKey
      <4>5. QED
        BY <2>4, <3>1, <4>3, <4>4
    <3>2. CASE u[1] # "bad"
      <4>1. conn' = [To("mask", 1) EXCEPT !.kind = u[1], !.len = u[2]]
        BY <1>12, <1>14, <2>5, <3>2 DEF AdvanceWeb
      <4>2. conn'.state = "mask" /\ conn'.kind = u[1] /\ conn'.len = u[2]
        BY <1>4, <4>1 DEF To, Live, Conns
      <4>3. Span(T, b + 1) = 2 + u[2]
        BY <2>2, <2>5, <3>2 DEF Span
      <4>4. Ahead(conn', T, b + 1, 1 + u[2]) /\ (InKey(conn)' <=> u[1] = "key")
        BY <1>6, <2>5, <4>2 DEF Ahead, InKey
      <4>5. 1 + u[2] \in Nat /\ 1 + u[2] = Span(T, b + 1) - 1
        BY <1>11, <4>3
      <4>6. QED
        BY <2>4, <4>4, <4>5
    <3>3. QED
      BY <3>1, <3>2
  <2>6. CASE ~web
    <3>1. CASE u[1] \in {"key", "request"}
      <4>1. conn' = [To("body", 1) EXCEPT !.kind = u[1]]
        BY <1>12, <1>14, <2>6, <3>1 DEF AdvanceRfb
      <4>2. conn'.state = "body" /\ conn'.kind = u[1]
        BY <1>4, <4>1 DEF To, Live, Conns
      <4>3. Span(T, b + 1) = 2
        BY <2>2, <2>6, <3>1 DEF Span
      <4>4. Ahead(conn', T, b + 1, 1) /\ (InKey(conn)' <=> u[1] = "key")
        BY <1>6, <2>6, <4>2 DEF Ahead, InKey
      <4>5. QED
        BY <2>4, <4>3, <4>4
    <3>2. CASE u[1] = "cut"
      <4>1. conn' = To("len", 1)
        BY <1>12, <1>14, <2>6, <3>2 DEF AdvanceRfb
      <4>2. conn'.state = "len"
        BY <1>4, <4>1 DEF To, Live, Conns
      <4>3. b + 1 + 1 <= L /\ T[b + 1 + 1] \in Units
        BY <1>3, <1>8, <2>1, <2>2, <3>2 DEF Written
      <4>4. T[b + 1 + 1][2] \in Nat
        BY <4>3 DEF Units
      <4>5. Span(T, b + 1) = 2 + T[b + 1 + 1][2]
        BY <2>2, <2>6, <3>2 DEF Span
      <4>6. Ahead(conn', T, b + 1, 1 + T[b + 1 + 1][2]) /\ ~InKey(conn)'
        BY <1>6, <1>8, <2>6, <4>2, <4>3 DEF Ahead, InKey
      <4>7. 1 + T[b + 1 + 1][2] \in Nat /\ 1 + T[b + 1 + 1][2] = Span(T, b + 1) - 1
        BY <4>4, <4>5
      <4>8. QED
        BY <2>4, <3>2, <4>6, <4>7
    <3>3. CASE u[1] = "bad"
      <4>1. conn' = [conn EXCEPT !.closing = TRUE]
        BY <1>12, <1>14, <2>6, <3>3 DEF AdvanceRfb
      <4>2. conn'.state = "msg"
        BY <1>4, <1>14, <4>1 DEF Live, Conns
      <4>3. Span(T, b + 1) = 1
        BY <2>2, <3>3 DEF Span
      <4>4. Ahead(conn', T, b + 1, 0) /\ ~InKey(conn)'
        BY <4>2 DEF Ahead, InKey
      <4>5. QED
        BY <2>4, <3>3, <4>3, <4>4
    <3>4. QED
      BY <2>2, <2>6, <3>1, <3>2, <3>3 DEF Kinds
  <2>7. QED
    BY <2>5, <2>6
<1>15. CASE web /\ conn.state \in {"http", "mask", "text"}
  <2>1. CASE conn.state = "http"
    <3>1. CASE u[2] = 1
      <4>1. conn' = NextMessage
        BY <1>12, <1>15, <2>1, <3>1 DEF AdvanceWeb
      <4>2. conn'.state = "msg"
        BY <1>4, <4>1 DEF NextMessage, To, Live, Conns
      <4>3. k = 1 /\ r = 1
        BY <1>3, <1>5, <1>8, <1>9, <2>1 DEF Ahead
      <4>4. Ahead(conn', T, b + k, r - k)
        BY <4>2, <4>3 DEF Ahead
      <4>5. QED
        BY <1>13, <2>1, <4>2, <4>3, <4>4 DEF InKey, Types
    <3>2. CASE u[2] # 1
      <4>1. conn' = [conn EXCEPT !.closing = TRUE]
        BY <1>12, <1>15, <2>1, <3>2 DEF AdvanceWeb
      <4>2. QED
        BY <1>4, <2>1, <4>1 DEF Refused, Live, Conns
    <3>3. QED
      BY <3>1, <3>2
  <2>2. CASE conn.state = "mask"
    <3>1. conn' = [To("text", conn.len) EXCEPT !.len = 0]
      BY <1>12, <1>15, <2>2 DEF AdvanceWeb
    <3>2. conn'.state = "text" /\ conn'.need = conn.len /\ conn'.kind = conn.kind /\ conn.len \in Nat
      BY <1>4, <3>1 DEF To, Live, Conns
    <3>3. k = 1 /\ r = 1 + conn.len
      BY <1>3, <1>5, <2>2 DEF Ahead
    <3>4. k \in 0..r /\ r - k = conn.len
      BY <3>2, <3>3
    <3>5. Ahead(conn', T, b + k, r - k)
      BY <3>2, <3>4 DEF Ahead
    <3>6. QED
      BY <1>6, <1>13, <1>15, <2>2, <3>2, <3>4, <3>5 DEF InKey, Types
  <2>3. CASE conn.state = "text"
    <3>1. conn' \in {NextMessage, [NextMessage EXCEPT !.closing = TRUE]}
      BY <1>12, <1>15, <2>3 DEF AdvanceWeb
    <3>2. conn'.state = "msg"
      BY <1>4, <3>1 DEF NextMessage, To, Live, Conns
    <3>3. k = r
      BY <1>3, <1>5, <2>3 DEF Ahead
    <3>4. k \in 0..r /\ Ahead(conn', T, b + k, r - k)
      BY <3>2, <3>3 DEF Ahead
    <3>5. QED
      BY <1>6, <1>13, <1>15, <2>3, <3>2, <3>4 DEF InKey, Types
  <2>4. QED
    BY <1>15, <2>1, <2>2, <2>3
<1>16. CASE ~web /\ conn.state \in {"version", "sectype", "init", "body", "len", "text"}
  <2>1. CASE conn.state = "version"
    <3>1. conn' = To("sectype", 1)
      BY <1>12, <1>16, <2>1 DEF AdvanceRfb
    <3>2. conn'.state = "sectype"
      BY <1>4, <3>1 DEF To, Live, Conns
    <3>3. k = 1 /\ r = 3
      BY <1>3, <1>5, <1>8, <1>9, <2>1 DEF Ahead
    <3>4. Ahead(conn', T, b + k, r - k)
      BY <3>2, <3>3 DEF Ahead
    <3>5. QED
      BY <1>6, <1>13, <1>16, <2>1, <3>2, <3>3, <3>4 DEF InKey, Types
  <2>2. CASE conn.state = "sectype"
    <3>1. CASE u[2] = 1
      <4>1. conn' = To("init", 1)
        BY <1>12, <1>16, <2>2, <3>1 DEF AdvanceRfb
      <4>2. conn'.state = "init"
        BY <1>4, <4>1 DEF To, Live, Conns
      <4>3. k = 1 /\ r = 2
        BY <1>3, <1>5, <2>2 DEF Ahead
      <4>4. Ahead(conn', T, b + k, r - k)
        BY <4>2, <4>3 DEF Ahead
      <4>5. QED
        BY <1>6, <1>13, <1>16, <2>2, <4>2, <4>3, <4>4 DEF InKey, Types
    <3>2. CASE u[2] # 1
      <4>1. conn' = [conn EXCEPT !.closing = TRUE]
        BY <1>12, <1>16, <2>2, <3>2 DEF AdvanceRfb
      <4>2. QED
        BY <1>4, <2>2, <4>1 DEF Refused, Live, Conns
    <3>3. QED
      BY <3>1, <3>2
  <2>3. CASE conn.state = "init"
    <3>1. conn' = NextMessage
      BY <1>12, <1>16, <2>3 DEF AdvanceRfb
    <3>2. conn'.state = "msg"
      BY <1>4, <3>1 DEF NextMessage, To, Live, Conns
    <3>3. k = 1 /\ r = 1
      BY <1>3, <1>5, <2>3 DEF Ahead
    <3>4. Ahead(conn', T, b + k, r - k)
      BY <3>2, <3>3 DEF Ahead
    <3>5. QED
      BY <1>6, <1>13, <1>16, <2>3, <3>2, <3>3, <3>4 DEF InKey, Types
  <2>4. CASE conn.state = "body"
    <3>1. conn' \in {NextMessage, [NextMessage EXCEPT !.awaiting = TRUE, !.waited = 0]}
      BY <1>12, <1>16, <2>4 DEF AdvanceRfb
    <3>2. conn'.state = "msg"
      BY <1>4, <3>1 DEF NextMessage, To, Live, Conns
    <3>3. k = 1 /\ r = 1
      BY <1>3, <1>5, <2>4 DEF Ahead
    <3>4. Ahead(conn', T, b + k, r - k)
      BY <3>2, <3>3 DEF Ahead
    <3>5. QED
      BY <1>6, <1>13, <1>16, <2>4, <3>2, <3>3, <3>4 DEF InKey, Types
  <2>5. CASE conn.state = "len"
    <3>1. conn' = AfterLength(u[2])
      BY <1>12, <1>16, <2>5 DEF AdvanceRfb
    <3>2. IF u[2] > 0 THEN conn'.state = "text" /\ conn'.need = u[2] ELSE conn'.state = "msg"
      BY <1>4, <1>11, <3>1 DEF AfterLength, NextMessage, To, Live, Conns
    <3>3. k = 1 /\ r = 1 + u[2]
      BY <1>3, <1>5, <1>9, <1>10, <2>5 DEF Ahead
    <3>4. k \in 0..r /\ r - k = u[2]
      BY <1>11, <3>3
    <3>5. Ahead(conn', T, b + k, r - k)
      BY <1>11, <3>2, <3>4 DEF Ahead
    <3>6. QED
      BY <1>6, <1>13, <1>16, <2>5, <3>2, <3>4, <3>5 DEF InKey, Types
  <2>6. CASE conn.state = "text"
    <3>1. conn' = NextMessage
      BY <1>12, <1>16, <2>6 DEF AdvanceRfb
    <3>2. conn'.state = "msg"
      BY <1>4, <3>1 DEF NextMessage, To, Live, Conns
    <3>3. k = r
      BY <1>3, <1>5, <2>6 DEF Ahead
    <3>4. k \in 0..r /\ Ahead(conn', T, b + k, r - k)
      BY <3>2, <3>3 DEF Ahead
    <3>5. QED
      BY <1>6, <1>13, <1>16, <2>6, <3>2, <3>4 DEF InKey, Types
  <2>7. QED
    BY <1>16, <2>1, <2>2, <2>3, <2>4, <2>5, <2>6
<1>17. QED
  BY <1>4, <1>14, <1>15, <1>16 DEF Live, States

\* What the tick does with a connection besides parsing leaves it in its message.
LEMMA OtherwiseSame ==
  ASSUME Typing, conn.open, UNCHANGED <<web, owed>>,
         \/ conn' = conn \/ conn' = [conn EXCEPT !.closing = TRUE]
         \/ \E n \in Nat, w \in BOOLEAN : conn' = [conn EXCEPT !.waited = n, !.awaiting = w]
         \/ \E w \in BOOLEAN : conn' = [conn EXCEPT !.awaiting = w],
         \/ UNCHANGED <<rxbuf, wire>>
         \/ \E n \in 0..Len(wire) : rxbuf' = rxbuf \o SubSeq(wire, 1, n)
                                   /\ wire' = SubSeq(wire, n + 1, Len(wire))
  PROVE  owed' \in Nat /\ (Refused \/ InFrame)'
<1>1. Live(web, conn) /\ Talking
  BY NotOpen DEF Typing, Shows, Talking
<1>2. /\ conn'.state = conn.state /\ conn'.need = conn.need /\ conn'.kind = conn.kind
      /\ conn'.len = conn.len /\ (conn.closing => conn'.closing)
  BY <1>1 DEF Live, Conns
<1>3. CASE Refused
  BY <1>2, <1>3 DEF Refused, Typing
<1>4. CASE InFrame
  <2>1. PICK T \in Seq(Units), b \in Nat, r \in Nat : \E C \in SUBSET Nat : Framed(T, C, b, r)
    BY <1>4 DEF InFrame
  <2>2. PICK C \in SUBSET Nat : Framed(T, C, b, r)
    BY <2>1
  <2>3. OnTheWay(T, b)'
    <3>1. OnTheWay(T, b)
      BY <2>2 DEF Framed
    <3>2. CASE UNCHANGED <<rxbuf, wire>>
      BY <3>1, <3>2 DEF OnTheWay
    <3>3. CASE \E n \in 0..Len(wire) : rxbuf' = rxbuf \o SubSeq(wire, 1, n)
                                      /\ wire' = SubSeq(wire, n + 1, Len(wire))
      BY <1>1, <3>1, <3>3, RecvKeepsStream
    <3>4. QED
      BY <3>2, <3>3
  <2>4. Written(T, C)' /\ Ahead(conn, T, b, r)' /\ Clear(T, C, b, r)' /\ (InKey(conn)' <=> InKey(conn))
    BY <1>2, <2>2 DEF Framed, Written, Kinds, Span, Ahead, Clear, InKey
  <2>5. Framed(T, C, b, r)'
    BY <2>2, <2>3, <2>4 DEF Framed, Keys
  <2>6. QED
    BY <2>5 DEF InFrame, Typing
<1>5. QED
  BY <1>3, <1>4 DEF Typing

\* A connection begins with nothing written.
LEMMA AcceptedInFrame ==
  ASSUME Typing, Tick, ~conn.open, client # "away"
  PROVE  owed' \in Nat /\ InFrame'
<1>1. rxbuf' = << >> /\ wire' = << >> /\ owed' = 0 /\ web' = web
  BY DEF Tick, Typing, Shows, Talking, Live, input, fixed
<1>2. conn' = [NoConn EXCEPT !.open = TRUE, !.state = IF web THEN "http" ELSE "version", !.need = 1]
  BY DEF Tick
<1>3. conn'.state = (IF web THEN "http" ELSE "version") /\ conn'.kind = "none"
  BY <1>2 DEF NoConn
<1>4. PICK T \in Seq(Units) : T = << >> /\ Len(T) = 0
  <2>1. << >> \in Seq(Units) /\ Len(<< >>) = 0
    OBVIOUS
  <2>2. QED
    BY <2>1, Zenon
<1>5. Written(T, {})' /\ Clear(T, {}, 0, 0)' /\ OnTheWay(T, 0)'
  BY <1>1, <1>4 DEF Written, Clear, OnTheWay
<1>6. Ahead(conn, T, 0, 0)' /\ ~InKey(conn)'
  BY <1>3, <1>4 DEF Ahead, InKey
<1>7. Keys(T, {}, 0)' = {} /\ Cardinality({}) = 0
  BY FS_EmptySet DEF Keys
<1>8. Framed(T, {}, 0, 0)'
  <2>1. owed' = (IF InKey(conn)' THEN 1 ELSE 0) + Cardinality(Keys(T, {}, 0)')
    <3>1. Cardinality(Keys(T, {}, 0)') = 0
      BY <1>7
    <3>2. QED
      BY <1>1, <1>6, <3>1
  <2>2. QED
    BY <1>5, <1>6, <2>1 DEF Framed
<1>9. 0 \in Nat /\ {} \in SUBSET Nat
  OBVIOUS
<1>10. InFrame'
  BY <1>8, <1>9 DEF InFrame
<1>11. QED
  BY <1>1, <1>10

\* A key is owed whenever one is typed.
LEMMA ParseKeepsOwed ==
  ASSUME Typing, Parse
  PROVE  owed' \in Nat
<1>1. owed' = (IF Types THEN owed - 1 ELSE owed) /\ owed \in Nat
  BY DEF Parse, Typing
<1>2. CASE Types
  <2>1. InKey(conn) /\ conn.open /\ ~conn.closing
    BY <1>2 DEF Types, InKey, Parse, Typing, Shows, Talking
  <2>2. PICK T \in Seq(Units), b \in Nat, r \in Nat : \E C \in SUBSET Nat : Framed(T, C, b, r)
    BY <2>1 DEF Typing, Refused, InFrame
  <2>3. PICK C \in SUBSET Nat : Framed(T, C, b, r)
    BY <2>2
  <2>4. PICK n \in Nat : n = Cardinality(Keys(T, C, b))
    BY <2>3, KeysFinite DEF Framed
  <2>5. owed = 1 + n
    BY <2>1, <2>3, <2>4 DEF Framed
  <2>6. QED
    BY <1>1, <1>2, <2>4, <2>5
<1>3. QED
  BY <1>1, <1>2

\* The inductive form of KeysAreTyped: wherever ticks and packets cut the stream, the
\* server is inside the message that the client meant, and what is owed are the keys
\* that begin further on and the one that is being read.
THEOREM TypingInvariance == SpecVnc => []Typing
<1>1. InitVnc => owed \in Nat /\ ~conn.open
  BY NotOpen DEF InitVnc
<1>2. ASSUME Typing, [NextVnc]_vvars, Shows' PROVE Typing'
  <2> SUFFICES owed' \in Nat /\ (conn'.open => (Refused \/ InFrame)')
    BY <1>2 DEF Typing
  <2>1. CASE UNCHANGED <<web, conn, rxbuf, wire, owed>>
    BY <1>2, <2>1, OtherwiseSame DEF Typing
  <2>2. CASE Send
    <3>1. owed' \in Nat /\ UNCHANGED conn
      BY <1>2, <2>2 DEF Send, Typing
    <3>2. Refused => Refused'
      BY <3>1 DEF Refused
    <3>3. QED
      BY <1>2, <2>2, <3>1, <3>2, SendKeepsFrame DEF Typing
  <2>3. CASE Parse
    <3>1. conn.open /\ ~Refused
      BY <1>2, <2>3 DEF Parse, Typing, Shows, Talking, Refused
    <3>2. QED
      BY <1>2, <2>3, <3>1, ParseKeepsFrame, ParseKeepsOwed DEF Typing
  <2>4. CASE Recv \/ Scan \/ NothingFound \/ SendFails
    <3>1. conn.open /\ UNCHANGED <<web, owed>> /\ Live(web, conn)
      BY <1>2, <2>4, NotOpen DEF Recv, Scan, NothingFound, SendFails, Parsed, Typing, Shows, Talking,
                                 fixed, input
    <3>2. conn.waited + 1 \in Nat /\ (conn.waited + 1 < MaxWaitTicks) \in BOOLEAN
      BY <3>1 DEF Live, Conns
    <3>3. \/ conn' = conn \/ conn' = [conn EXCEPT !.closing = TRUE]
          \/ conn' = [conn EXCEPT !.awaiting = FALSE]
          \/ conn' = [conn EXCEPT !.waited = conn.waited + 1, !.awaiting = conn.waited + 1 < MaxWaitTicks]
      BY <2>4 DEF Recv, Scan, NothingFound, SendFails
    <3>4. \/ UNCHANGED <<rxbuf, wire>>
          \/ \E n \in 0..Len(wire) : rxbuf' = rxbuf \o SubSeq(wire, 1, n)
                                    /\ wire' = SubSeq(wire, n + 1, Len(wire))
      BY <2>4 DEF Recv, Scan, NothingFound, SendFails, input
    <3>5. \/ conn' = conn \/ conn' = [conn EXCEPT !.closing = TRUE]
          \/ \E n \in Nat, w \in BOOLEAN : conn' = [conn EXCEPT !.waited = n, !.awaiting = w]
          \/ \E w \in BOOLEAN : conn' = [conn EXCEPT !.awaiting = w]
      BY <3>2, <3>3
    <3>6. QED
      BY <1>2, <3>1, <3>4, <3>5, OtherwiseSame
  <2>5. CASE Closed
    BY <2>5, NotOpen DEF Closed
  <2>6. CASE Tick /\ ~conn.open /\ client # "away"
    BY <1>2, <2>6, AcceptedInFrame
  <2>7. CASE Restart
    <3>1. ~conn'.open /\ owed' \in Nat
      BY <1>2, <2>7 DEF Restart, Typing, Shows, Talking, input
    <3>2. QED
      BY <3>1
  <2>8. CASE Arrive \/ Hangup \/ Change \/ SendSome \/ UNCHANGED vvars
    <3>1. UNCHANGED <<web, conn, rxbuf, wire, owed>>
      BY <2>8 DEF Arrive, Hangup, Change, SendSome, vvars, fixed, input
    <3>2. QED
      BY <2>1, <3>1
  <2>9. CASE Tick /\ ~(~conn.open /\ client # "away")
    <3>1. UNCHANGED <<web, conn, rxbuf, wire, owed>>
      BY <2>9 DEF Tick, fixed, input
    <3>2. QED
      BY <2>1, <3>1
  <2>10. CASE EndTick \/ Stop
    <3>1. Closed \/ UNCHANGED <<web, conn, rxbuf, wire, owed>>
      BY <2>10 DEF EndTick, Stop, fixed, input
    <3>2. QED
      BY <2>1, <2>5, <3>1
  <2>11. QED
    BY <1>2, <2>2, <2>3, <2>4, <2>6, <2>7, <2>8, <2>9, <2>10 DEF NextVnc, Steps
<1>3. Shows /\ owed \in Nat /\ ~conn.open => Typing
  BY DEF Typing
<1>4. QED
  BY <1>1, <1>2, <1>3, ShowsInvariance, PTL DEF SpecVnc

\* Every key that the client sends is typed, once, and nothing else is, however its
\* bytes are cut into ticks and whatever texts it sends that look like keys.
THEOREM KeysStayTyped == SpecVnc => []KeysAreTyped
<1>1. Typing => KeysAreTyped
  <2> SUFFICES ASSUME Typing PROVE KeysAreTyped
    OBVIOUS
  <2>1. owed \in Nat
    BY DEF Typing
  <2>2. ASSUME conn.open, conn.state = "msg", rxbuf = << >>, wire = << >> PROVE owed = 0
    <3>1. PICK T \in Seq(Units), b \in Nat, r \in Nat : \E C \in SUBSET Nat : Framed(T, C, b, r)
      BY <2>2 DEF Typing, Refused, InFrame
    <3>2. PICK C \in SUBSET Nat : Framed(T, C, b, r)
      BY <3>1
    <3>3. b = Len(T) /\ C \subseteq 1..Len(T)
      BY <2>2, <3>2 DEF Framed, OnTheWay, Written
    <3>4. Keys(T, C, b) = {} /\ Cardinality({}) = 0
      <4>1. \A a \in C : ~(a > b)
        <5>1. PICK L \in Nat : L = Len(T)
          BY <3>1
        <5>2. QED
          BY <3>3, <5>1
      <4>2. QED
        BY <4>1, FS_EmptySet DEF Keys
    <3>5. ~InKey(conn)
      BY <2>2 DEF InKey
    <3>6. QED
      BY <3>2, <3>4, <3>5 DEF Framed
  <2>3. QED
    BY <2>1, <2>2 DEF KeysAreTyped
<1>2. QED
  BY <1>1, TypingInvariance, PTL
=============================================================================
