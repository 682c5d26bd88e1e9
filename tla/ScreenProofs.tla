----------------------------- MODULE ScreenProofs -----------------------------
(***************************************************************************)
(* Proofs about Terminal, for all fonts, all parameters and bars of any    *)
(* length.                                                                 *)
(*                                                                         *)
(* The functions of st.c call each other, so each has a lemma: given a     *)
(* Term that is in order it returns one.  For what repeats a character     *)
(* the lemma is an induction over a set of naturals.                       *)
(***************************************************************************)
EXTENDS Terminal, WellFoundedInduction, TLAPS

-----------------------------------------------------------------------------
(* A Term in order.                                                        *)

Fields == {"col", "row", "c", "top", "bot", "wrap", "alt", "saved", "esc", "history", "back",
           "dirty", "behind", "bar", "shrunk"}
Cursors == [x : Int, y : Int, wrapnext : BOOLEAN, origin : BOOLEAN]

\* As long as no rows have been lost, every cursor and every mark is on one of them.
Rooted(t) ==
  \/ t.shrunk
  \/ /\ t.c.y \in 0..(t.row - 1) /\ \A b \in BOOLEAN : t.saved[b].y \in 0..(t.row - 1)
     /\ t.dirty \subseteq 0..(t.row - 1)

\* The screen and its scroll region; a cursor saved on a larger screen may be anywhere.
Framed(t) ==
  /\ DOMAIN t = Fields
  /\ t.col \in Nat \ {0} /\ t.row \in Nat \ {0}
  /\ t.top \in Int /\ t.bot \in Int /\ 0 <= t.top /\ t.top <= t.bot /\ t.bot < t.row
  /\ t.alt \in BOOLEAN /\ t.saved \in [BOOLEAN -> Cursors] /\ t.c \in Cursors
  /\ t.shrunk \in BOOLEAN /\ Rooted(t)

OnScreen(t) == t.c.x \in 0..(t.col - 1) /\ t.c.y \in 0..(t.row - 1)
Marked(t) == t.behind \subseteq t.dirty

\* In origin mode the cursor is in the region; while a bar is drawn it may be above it.
InRegion(t) == t.c.origin => t.c.y \in t.top..t.bot

Good(t) == Framed(t) /\ OnScreen(t) /\ Marked(t)

\* What most functions leave alone.
Fixed(u, t) ==
  /\ DOMAIN u = Fields
  /\ u.col = t.col /\ u.row = t.row /\ u.top = t.top /\ u.bot = t.bot
  /\ u.alt = t.alt /\ u.saved = t.saved /\ u.shrunk = t.shrunk

\* A change of cells or marks: it moves nothing, marks rows, and takes no mark back.
Still(u, t) ==
  Fixed(u, t) /\ u.c = t.c /\ t.dirty \subseteq u.dirty /\ u.dirty \subseteq t.dirty \union (0..(t.row - 1))

LEMMA Limits ==
  ASSUME NEW i \in Int, NEW low \in Int, NEW high \in Int, low <= high
  PROVE  /\ Within(i, low, high) \in low..high
         /\ i \in low..high => Within(i, low, high) = i
         /\ i < low => Within(i, low, high) = low
         /\ i > high => Within(i, low, high) = high
BY DEF Within

LEMMA FixedIsFramed ==
  ASSUME NEW t, NEW u, Framed(t), Fixed(u, t), u.c \in Cursors,
         t.shrunk \/ (u.c.y \in 0..(t.row - 1) /\ u.dirty \subseteq t.dirty \union (0..(t.row - 1)))
  PROVE  Framed(u)
<1>1. Rooted(u)
  BY DEF Framed, Fixed, Rooted
<1>2. QED
  BY <1>1 DEF Framed, Fixed

LEMMA StillIsFramed ==
  ASSUME NEW t, NEW u, Framed(t), Still(u, t)
  PROVE  Framed(u)
<1>1. u.c \in Cursors /\ (t.shrunk \/ u.c.y \in 0..(t.row - 1))
  BY DEF Framed, Still, Fixed, Rooted
<1>2. QED
  BY <1>1, FixedIsFramed DEF Still

LEMMA StillIsGood ==
  ASSUME NEW t, NEW u, Good(t), Still(u, t), u.behind \subseteq u.dirty
  PROVE  Good(u) /\ (InRegion(t) => InRegion(u))
<1>1. Framed(u)
  BY StillIsFramed DEF Good
<1>2. OnScreen(u) /\ (InRegion(t) => InRegion(u))
  BY DEF Good, OnScreen, InRegion, Still, Fixed
<1>3. QED
  BY <1>1, <1>2 DEF Good, Marked

LEMMA StillTwice ==
  ASSUME NEW t, NEW u, NEW v, Still(u, t), Still(v, u)
  PROVE  Still(v, t)
BY DEF Still, Fixed

LEMMA ChangedFacts ==
  ASSUME NEW t, DOMAIN t = Fields, NEW i, NEW j
  PROVE  /\ Still(Changed(t, i, j), t) /\ Changed(t, i, j).dirty = t.dirty
         /\ Changed(t, i, j).behind \subseteq t.behind \union ((i..j) \intersect (0..(t.row - 1)))
BY DEF Changed, Still, Fixed, Fields

LEMMA SetDirtFacts ==
  ASSUME NEW t, Framed(t), NEW i \in Int, NEW j \in Int
  PROVE  /\ Still(SetDirt(t, i, j), t) /\ SetDirt(t, i, j).behind = t.behind
         /\ SetDirt(t, i, j).dirty = t.dirty \union (Within(i, 0, t.row - 1)..Within(j, 0, t.row - 1))
<1> DEFINE rows == Within(i, 0, t.row - 1)..Within(j, 0, t.row - 1)
           u == SetDirt(t, i, j)
<1>1. 0 \in Int /\ t.row - 1 \in Int /\ 0 <= t.row - 1 /\ DOMAIN t = Fields
  BY DEF Framed
<1>2. Within(i, 0, t.row - 1) \in 0..(t.row - 1) /\ Within(j, 0, t.row - 1) \in 0..(t.row - 1)
  BY <1>1 DEF Within
<1>3. rows \subseteq 0..(t.row - 1)
  BY <1>1, <1>2
<1>4. u = [t EXCEPT !.dirty = t.dirty \union rows]
  BY DEF SetDirt
<1> HIDE DEF rows
<1>5. /\ DOMAIN u = Fields /\ u.dirty = t.dirty \union rows /\ u.behind = t.behind /\ u.c = t.c
      /\ u.col = t.col /\ u.row = t.row /\ u.top = t.top /\ u.bot = t.bot /\ u.alt = t.alt /\ u.saved = t.saved
      /\ u.shrunk = t.shrunk
  BY <1>1, <1>4 DEF Fields
<1> HIDE DEF u
<1>6. Still(u, t)
  BY <1>3, <1>5 DEF Still, Fixed
<1>7. QED
  BY <1>5, <1>6 DEF u, rows

\* The rows of the screen between two are marked, wherever the two are.
LEMMA SetDirtMarks ==
  ASSUME NEW t, Framed(t), NEW i \in Int, NEW j \in Int, NEW r \in 0..(t.row - 1), i <= r, r <= j
  PROVE  r \in SetDirt(t, i, j).dirty
<1>1. /\ 0 \in Int /\ t.row - 1 \in Int /\ 0 <= t.row - 1
  BY DEF Framed
<1>2. Within(i, 0, t.row - 1) \in Int /\ Within(j, 0, t.row - 1) \in Int
  BY <1>1 DEF Within
<1>3. Within(i, 0, t.row - 1) <= r /\ r <= Within(j, 0, t.row - 1)
  BY <1>1 DEF Within
<1>4. r \in Within(i, 0, t.row - 1)..Within(j, 0, t.row - 1)
  BY <1>2, <1>3
<1>5. QED
  BY <1>4, SetDirtFacts DEF Framed

\* tclearregion: it marks the rows between its corners, and changes no others.
LEMMA ClearFacts ==
  ASSUME NEW t, Framed(t), NEW y1 \in Int, NEW y2 \in Int
  PROVE  /\ Still(Clear(t, y1, y2), t) /\ (Marked(t) => Marked(Clear(t, y1, y2)))
         /\ \A r \in 0..(t.row - 1) : (y1 <= r /\ r <= y2) => r \in Clear(t, y1, y2).dirty
<1> DEFINE from == Within(Lower(y1, y2), 0, t.row - 1)
           to == Within(y1 + y2 - Lower(y1, y2), 0, t.row - 1)
           d == SetDirt(t, from, to)
           u == Clear(t, y1, y2)
<1>1. u = Changed(d, from, to)
  BY DEF Clear
<1>2. Lower(y1, y2) \in Int /\ y1 + y2 - Lower(y1, y2) \in Int /\ Lower(y1, y2) <= y1 + y2 - Lower(y1, y2)
  BY DEF Lower
<1>3. 0 \in Int /\ t.row - 1 \in Int /\ 0 <= t.row - 1 /\ DOMAIN t = Fields
  BY DEF Framed
<1>4. from \in 0..(t.row - 1) /\ to \in 0..(t.row - 1) /\ from <= to
  BY <1>2, <1>3 DEF Within
<1>5. Within(from, 0, t.row - 1) = from /\ Within(to, 0, t.row - 1) = to
  BY <1>4, <1>3 DEF Within
<1>6. \A r \in 0..(t.row - 1) : (y1 <= r /\ r <= y2) => (from <= r /\ r <= to)
  BY <1>3 DEF Within, Lower
<1> HIDE DEF from, to
<1>7. Still(d, t) /\ d.behind = t.behind /\ d.dirty = t.dirty \union (from..to)
  <2>1. from \in Int /\ to \in Int
    BY <1>4
  <2>2. QED
    BY <1>5, <2>1, SetDirtFacts
<1>8. DOMAIN d = Fields /\ d.row = t.row
  BY <1>7 DEF Still, Fixed
<1> HIDE DEF d
<1>9. /\ Still(u, d) /\ u.dirty = d.dirty /\ u.behind \subseteq d.behind \union ((from..to) \intersect (0..(d.row - 1)))
  BY <1>1, <1>8, ChangedFacts
<1> HIDE DEF u
<1>10. Still(u, t)
  BY <1>7, <1>9, StillTwice
<1>11. Marked(t) => Marked(u)
  BY <1>7, <1>9 DEF Marked
<1>12. ASSUME NEW r \in 0..(t.row - 1), y1 <= r, r <= y2 PROVE r \in u.dirty
  <2>1. r \in from..to
    BY <1>4, <1>6, <1>12
  <2>2. QED
    BY <1>7, <1>9, <2>1
<1>13. QED
  BY <1>10, <1>11, <1>12 DEF u

LEMMA ClearKeeps ==
  ASSUME NEW t, Good(t), NEW y1 \in Int, NEW y2 \in Int
  PROVE  Good(Clear(t, y1, y2)) /\ Still(Clear(t, y1, y2), t) /\ (InRegion(t) => InRegion(Clear(t, y1, y2)))
<1>1. Framed(t) /\ Marked(t)
  BY DEF Good
<1>2. Still(Clear(t, y1, y2), t) /\ Marked(Clear(t, y1, y2))
  BY <1>1, ClearFacts
<1>3. QED
  BY <1>2, StillIsGood DEF Marked

\* tmoveto: wherever to, the cursor ends on the screen, and in the region in origin mode.
LEMMA MoveToKeeps ==
  ASSUME NEW t, Framed(t), NEW x \in Int, NEW y \in Int
  PROVE  LET u == MoveTo(t, x, y) IN
         /\ Framed(u) /\ OnScreen(u) /\ InRegion(u) /\ Fixed(u, t)
         /\ u.behind = t.behind /\ t.dirty \subseteq u.dirty /\ (u.c.origin <=> t.c.origin)
<1> DEFINE to == IF t.c.origin THEN Within(y, t.top, t.bot) ELSE Within(y, 0, t.row - 1)
           column == Within(x, 0, t.col - 1)
           u == MoveTo(t, x, y)
<1>1. /\ DOMAIN t = Fields /\ t.c \in Cursors /\ t.top \in Int /\ t.bot \in Int /\ t.row \in Int /\ t.col \in Int
      /\ 0 <= t.top /\ t.top <= t.bot /\ t.bot < t.row /\ 0 < t.col
  BY DEF Framed
<1>2. column \in 0..(t.col - 1) /\ to \in 0..(t.row - 1) /\ (t.c.origin => to \in t.top..t.bot)
  BY <1>1 DEF Within
<1>3. u = [t EXCEPT !.c = [t.c EXCEPT !.x = column, !.y = to, !.wrapnext = FALSE],
                    !.dirty = t.dirty \union {t.c.y, to}]
  BY DEF MoveTo
<1> HIDE DEF column, to, u
<1> DEFINE c == [t.c EXCEPT !.x = column, !.y = to, !.wrapnext = FALSE]
<1>4. c \in Cursors /\ c.x = column /\ c.y = to /\ (c.origin <=> t.c.origin)
  <2>1. t.c \in Cursors /\ column \in Int /\ to \in Int
    BY <1>1, <1>2
  <2>2. c \in Cursors
    BY <2>1 DEF Cursors
  <2>3. c.x = column /\ c.y = to
    BY <2>1 DEF Cursors
  <2>4. c.origin <=> t.c.origin
    BY <2>1 DEF Cursors
  <2> HIDE DEF c
  <2>5. QED
    BY <2>2, <2>3, <2>4
<1> HIDE DEF c
<1>5. /\ DOMAIN u = Fields /\ u.c = c
      /\ u.dirty = t.dirty \union {t.c.y, to} /\ u.behind = t.behind
      /\ u.col = t.col /\ u.row = t.row /\ u.top = t.top /\ u.bot = t.bot /\ u.alt = t.alt /\ u.saved = t.saved
      /\ u.shrunk = t.shrunk
  BY <1>1, <1>3 DEF Fields, c
<1>6. Fixed(u, t)
  BY <1>5 DEF Fixed
<1>7. Framed(u)
  <2>1. t.shrunk \/ t.c.y \in 0..(t.row - 1)
    BY DEF Framed, Rooted
  <2>2. t.shrunk \/ (u.c.y \in 0..(t.row - 1) /\ u.dirty \subseteq t.dirty \union (0..(t.row - 1)))
    BY <1>2, <1>4, <1>5, <2>1
  <2>3. QED
    BY <1>4, <1>5, <1>6, <2>2, FixedIsFramed
<1>8. OnScreen(u) /\ InRegion(u)
  BY <1>2, <1>4, <1>5 DEF OnScreen, InRegion
<1>9. QED
  BY <1>4, <1>5, <1>6, <1>7, <1>8 DEF u

LEMMA MoveToGood ==
  ASSUME NEW t, Framed(t), Marked(t), NEW x \in Int, NEW y \in Int
  PROVE  Good(MoveTo(t, x, y)) /\ InRegion(MoveTo(t, x, y)) /\ Fixed(MoveTo(t, x, y), t)
<1>1. LET u == MoveTo(t, x, y) IN
      /\ Framed(u) /\ OnScreen(u) /\ InRegion(u) /\ Fixed(u, t)
      /\ u.behind = t.behind /\ t.dirty \subseteq u.dirty
  BY MoveToKeeps
<1>2. QED
  BY <1>1 DEF Good, Marked

LEMMA KeepFacts ==
  ASSUME NEW t, DOMAIN t = Fields
  PROVE  Still(Keep(t), t) /\ Keep(t).behind = t.behind /\ Keep(t).dirty = t.dirty
BY DEF Keep, Still, Fixed, Fields

\* tscrollup and tscrolldown, from a row of the region: every row that moves is marked.
LEMMA ScrollUpKeeps ==
  ASSUME NEW t, Good(t), NEW orig \in Int, t.top <= orig, orig <= t.bot, NEW lines \in Int, NEW copyhist \in BOOLEAN
  PROVE  LET u == ScrollUp(t, orig, lines, copyhist) IN
         Good(u) /\ Still(u, t) /\ (InRegion(t) => InRegion(u))
<1> DEFINE n == Within(lines, 0, t.bot - orig + 1)
           k == IF copyhist THEN Keep(t) ELSE t
           c == Clear(k, orig, orig + n - 1)
           d == SetDirt(c, orig + n, c.bot)
           u == ScrollUp(t, orig, lines, copyhist)
           end == IF n > 0 THEN t.bot ELSE orig - 1
<1>1. /\ Framed(t) /\ Marked(t) /\ t.top \in Int /\ t.bot \in Int /\ t.row \in Int
      /\ 0 <= t.top /\ t.bot < t.row /\ DOMAIN t = Fields
  BY DEF Good, Framed
<1>2. n \in Int /\ 0 <= n /\ n <= t.bot - orig + 1
  BY <1>1 DEF Within
<1>3. u = Changed(d, orig, end)
  BY DEF ScrollUp, RowsBelow
<1> HIDE DEF n
<1>4. Still(k, t) /\ k.behind = t.behind /\ k.dirty = t.dirty
  BY <1>1, KeepFacts DEF Still, Fixed
<1> HIDE DEF k
<1>5. Framed(k) /\ Marked(k) /\ k.row = t.row /\ k.bot = t.bot
  BY <1>1, <1>4, StillIsFramed DEF Marked, Still, Fixed
<1>6. orig + n \in Int /\ orig + n - 1 \in Int /\ end \in Int
  BY <1>1, <1>2
<1>7. /\ Still(c, k) /\ Marked(c) /\ \A r \in 0..(k.row - 1) : (orig <= r /\ r <= orig + n - 1) => r \in c.dirty
  BY <1>5, <1>6, ClearFacts
<1> HIDE DEF c
<1>8. Framed(c) /\ c.row = t.row /\ c.bot = t.bot /\ DOMAIN c = Fields
  BY <1>5, <1>7, StillIsFramed DEF Still, Fixed
<1>9. Still(d, c) /\ d.behind = c.behind
  <2>1. PICK bot \in Int : bot = c.bot
    BY <1>1, <1>8
  <2>2. QED
    BY <1>6, <1>8, <2>1, SetDirtFacts
<1>10. \A r \in 0..(t.row - 1) : (orig + n <= r /\ r <= t.bot) => r \in d.dirty
  BY <1>1, <1>6, <1>8, SetDirtMarks
<1> HIDE DEF d
<1>11. DOMAIN d = Fields /\ d.row = t.row /\ c.dirty \subseteq d.dirty
  BY <1>8, <1>9 DEF Still, Fixed
<1>12. /\ Still(u, d) /\ u.dirty = d.dirty
       /\ u.behind \subseteq d.behind \union ((orig..end) \intersect (0..(t.row - 1)))
  BY <1>3, <1>11, ChangedFacts
<1> HIDE DEF u
<1>13. Still(u, t)
  BY <1>4, <1>7, <1>9, <1>12, StillTwice
<1>14. ASSUME NEW r \in 0..(t.row - 1), orig <= r, r <= end PROVE r \in d.dirty
  <2>1. n > 0 /\ r <= t.bot
    BY <1>2, <1>14
  <2>2. CASE r <= orig + n - 1
    BY <1>5, <1>7, <1>11, <1>14, <2>2
  <2>3. CASE orig + n <= r
    BY <1>10, <2>1, <2>3
  <2>4. QED
    BY <1>2, <2>2, <2>3
<1>15. u.behind \subseteq u.dirty
  <2>1. ASSUME NEW r \in (orig..end) \intersect (0..(t.row - 1)) PROVE r \in d.dirty
    BY <1>14
  <2>2. QED
    BY <1>7, <1>9, <1>11, <1>12, <2>1 DEF Marked
<1>16. Good(u) /\ Still(u, t) /\ (InRegion(t) => InRegion(u))
  BY <1>13, <1>15, StillIsGood
<1>17. QED
  BY <1>16 DEF u

LEMMA ScrollDownKeeps ==
  ASSUME NEW t, Good(t), NEW orig \in Int, t.top <= orig, orig <= t.bot, NEW lines \in Int, NEW copyhist \in BOOLEAN
  PROVE  LET u == ScrollDown(t, orig, lines, copyhist) IN
         Good(u) /\ Still(u, t) /\ (InRegion(t) => InRegion(u))
<1> DEFINE n == Within(lines, 0, t.bot - orig + 1)
           k == IF copyhist THEN Keep(t) ELSE t
           d == SetDirt(k, orig, t.bot - n)
           c == Clear(d, t.bot - n + 1, t.bot)
           u == ScrollDown(t, orig, lines, copyhist)
           end == IF n > 0 THEN t.bot ELSE orig - 1
<1>1. /\ Framed(t) /\ Marked(t) /\ t.top \in Int /\ t.bot \in Int /\ t.row \in Int
      /\ 0 <= t.top /\ t.bot < t.row /\ DOMAIN t = Fields
  BY DEF Good, Framed
<1>2. n \in Int /\ 0 <= n /\ n <= t.bot - orig + 1
  BY <1>1 DEF Within
<1>3. u = Changed(c, orig, end)
  BY DEF ScrollDown
<1> HIDE DEF n
<1>4. Still(k, t) /\ k.behind = t.behind /\ k.dirty = t.dirty
  BY <1>1, KeepFacts DEF Still, Fixed
<1> HIDE DEF k
<1>5. Framed(k) /\ Marked(k) /\ k.row = t.row /\ DOMAIN k = Fields
  BY <1>1, <1>4, StillIsFramed DEF Marked, Still, Fixed
<1>6. t.bot - n \in Int /\ t.bot - n + 1 \in Int /\ end \in Int
  BY <1>1, <1>2
<1>7. Still(d, k) /\ d.behind = k.behind
  BY <1>5, <1>6, SetDirtFacts
<1>8. \A r \in 0..(t.row - 1) : (orig <= r /\ r <= t.bot - n) => r \in d.dirty
  BY <1>5, <1>6, SetDirtMarks
<1> HIDE DEF d
<1>9. Framed(d) /\ Marked(d) /\ d.row = t.row
  BY <1>5, <1>7, StillIsFramed DEF Marked, Still, Fixed
<1>10. /\ Still(c, d) /\ Marked(c)
       /\ \A r \in 0..(t.row - 1) : (t.bot - n + 1 <= r /\ r <= t.bot) => r \in c.dirty
  BY <1>1, <1>6, <1>9, ClearFacts
<1> HIDE DEF c
<1>11. DOMAIN c = Fields /\ c.row = t.row /\ d.dirty \subseteq c.dirty
  BY <1>9, <1>10 DEF Still, Fixed
<1>12. /\ Still(u, c) /\ u.dirty = c.dirty
       /\ u.behind \subseteq c.behind \union ((orig..end) \intersect (0..(t.row - 1)))
  BY <1>3, <1>11, ChangedFacts
<1> HIDE DEF u
<1>13. Still(u, t)
  BY <1>4, <1>7, <1>10, <1>12, StillTwice
<1>14. ASSUME NEW r \in 0..(t.row - 1), orig <= r, r <= end PROVE r \in c.dirty
  <2>1. r <= t.bot
    BY <1>1, <1>2, <1>14
  <2>2. CASE r <= t.bot - n
    BY <1>8, <1>11, <1>14, <2>2
  <2>3. CASE t.bot - n + 1 <= r
    BY <1>10, <2>1, <2>3
  <2>4. QED
    BY <1>1, <1>2, <2>2, <2>3
<1>15. u.behind \subseteq u.dirty
  <2>1. ASSUME NEW r \in (orig..end) \intersect (0..(t.row - 1)) PROVE r \in c.dirty
    BY <1>14
  <2>2. QED
    BY <1>10, <1>12, <2>1 DEF Marked
<1>16. Good(u) /\ Still(u, t) /\ (InRegion(t) => InRegion(u))
  BY <1>13, <1>15, StillIsGood
<1>17. QED
  BY <1>16 DEF u

\* tnewline.
LEMMA NewLineKeeps ==
  ASSUME NEW t, Good(t), NEW firstcol \in BOOLEAN
  PROVE  LET u == NewLine(t, firstcol) IN Good(u) /\ InRegion(u) /\ Fixed(u, t)
<1> DEFINE s == IF t.c.y = t.bot THEN ScrollUp(t, t.top, 1, TRUE) ELSE t
           x == IF firstcol THEN 0 ELSE t.c.x
           y == IF t.c.y = t.bot THEN t.c.y ELSE t.c.y + 1
           u == NewLine(t, firstcol)
<1>1. u = MoveTo(s, x, y)
  BY DEF NewLine
<1>2. /\ t.top \in Int /\ t.bot \in Int /\ t.top <= t.bot /\ t.c \in Cursors /\ Framed(t) /\ Marked(t)
      /\ DOMAIN t = Fields
  BY DEF Good, Framed
<1>3. x \in Int /\ y \in Int
  BY <1>2 DEF Cursors
<1>4. Good(s) /\ Fixed(s, t)
  <2>1. CASE t.c.y = t.bot
    <3>1. LET v == ScrollUp(t, t.top, 1, TRUE) IN Good(v) /\ Still(v, t)
      <4>1. PICK orig \in Int : orig = t.top
        BY <1>2
      <4>2. t.top <= orig /\ orig <= t.bot /\ 1 \in Int /\ TRUE \in BOOLEAN
        BY <1>2, <4>1
      <4>3. LET v == ScrollUp(t, orig, 1, TRUE) IN Good(v) /\ Still(v, t)
        BY <4>2, ScrollUpKeeps
      <4>4. QED
        BY <4>1, <4>3
    <3>2. QED
      BY <2>1, <3>1 DEF Still
  <2>2. CASE t.c.y # t.bot
    BY <1>2, <2>2 DEF Fixed
  <2>3. QED
    BY <2>1, <2>2
<1> HIDE DEF s, x, y, u
<1>5. Framed(s) /\ Marked(s)
  BY <1>4 DEF Good
<1>6. Good(u) /\ InRegion(u) /\ Fixed(u, s)
  BY <1>1, <1>3, <1>5, MoveToGood
<1>7. Fixed(u, t)
  BY <1>4, <1>6 DEF Fixed
<1>8. QED
  BY <1>6, <1>7 DEF u

\* tputc, of what is shown: the cell's row is marked, however the line wraps.
LEMMA PutKeeps ==
  ASSUME NEW t, Good(t), NEW width \in {1, 2}
  PROVE  LET u == Put(t, width) IN Good(u) /\ Fixed(u, t) /\ (InRegion(t) => InRegion(u))
<1> DEFINE a == IF t.wrap /\ t.c.wrapnext THEN NewLine(t, TRUE) ELSE t
           b == IF a.c.x + width <= a.col THEN a
                ELSE IF a.wrap THEN NewLine(a, TRUE) ELSE MoveTo(a, a.col - width, a.c.y)
           d == SetDirt(b, b.c.y, b.c.y)
           c == Changed(d, b.c.y, b.c.y)
           u == Put(t, width)
<1>1. u = IF c.c.x + width < c.col THEN MoveTo(c, c.c.x + width, c.c.y) ELSE [c EXCEPT !.c.wrapnext = TRUE]
  BY DEF Put
<1>2. Fixed(t, t)
  BY DEF Good, Framed, Fixed
<1>3. Good(a) /\ Fixed(a, t) /\ (InRegion(t) => InRegion(a))
  <2>1. LET v == NewLine(t, TRUE) IN Good(v) /\ InRegion(v) /\ Fixed(v, t)
    BY NewLineKeeps
  <2>2. QED
    BY <1>2, <2>1
<1> HIDE DEF a
<1>4. Good(b) /\ Fixed(b, t) /\ (InRegion(t) => InRegion(b))
  <2>1. LET v == NewLine(a, TRUE) IN Good(v) /\ InRegion(v) /\ Fixed(v, a)
    BY <1>3, NewLineKeeps
  <2>2. Framed(a) /\ Marked(a) /\ a.c.y \in Int /\ a.col \in Int
    BY <1>3 DEF Good, Framed, Cursors
  <2>3. a.col - width \in Int
    BY <2>2
  <2>4. LET v == MoveTo(a, a.col - width, a.c.y) IN Good(v) /\ InRegion(v) /\ Fixed(v, a)
    BY <2>2, <2>3, MoveToGood
  <2>5. QED
    BY <1>3, <2>1, <2>4 DEF Fixed
<1> HIDE DEF b
<1>5. Framed(b) /\ Marked(b) /\ DOMAIN b = Fields /\ b.c.y \in 0..(b.row - 1) /\ b.row \in Nat
  BY <1>4 DEF Good, Framed, OnScreen
<1>6. Still(d, b) /\ d.behind = b.behind /\ b.c.y \in d.dirty
  <2>1. b.c.y \in Int /\ b.c.y <= b.c.y
    BY <1>5
  <2>2. QED
    BY <1>5, <2>1, SetDirtFacts, SetDirtMarks
<1> HIDE DEF d
<1>7. DOMAIN d = Fields
  BY <1>6 DEF Still, Fixed
<1>8. Still(c, d) /\ c.dirty = d.dirty /\ c.behind \subseteq d.behind \union (b.c.y..b.c.y)
  BY <1>7, ChangedFacts
<1> HIDE DEF c
<1>9. Still(c, b) /\ c.behind \subseteq c.dirty
  <2>1. Still(c, b)
    BY <1>6, <1>8, StillTwice
  <2>2. b.c.y..b.c.y = {b.c.y}
    BY <1>5
  <2>3. QED
    BY <1>5, <1>6, <1>8, <2>1, <2>2 DEF Marked, Still
<1>10. Good(c) /\ (InRegion(t) => InRegion(c)) /\ Fixed(c, t)
  <2>1. Good(c) /\ (InRegion(b) => InRegion(c))
    BY <1>4, <1>9, StillIsGood
  <2>2. QED
    BY <1>4, <1>9, <2>1 DEF Fixed, Still
<1>11. Framed(c) /\ Marked(c) /\ c.c \in Cursors /\ DOMAIN c = Fields
  BY <1>10 DEF Good, Framed
<1>12. Good(u) /\ (InRegion(t) => InRegion(u)) /\ Fixed(u, c)
  <2>1. CASE c.c.x + width < c.col
    <3>1. c.c.x + width \in Int /\ c.c.y \in Int
      BY <1>11 DEF Cursors
    <3>2. QED
      BY <1>1, <1>11, <2>1, <3>1, MoveToGood
  <2>2. CASE ~(c.c.x + width < c.col)
    <3> DEFINE w == [c.c EXCEPT !.wrapnext = TRUE]
    <3>1. u = [c EXCEPT !.c = w]
      BY <1>1, <2>2
    <3>2. w \in Cursors
      BY <1>11 DEF Cursors
    <3>3. w.x = c.c.x /\ w.y = c.c.y /\ (w.origin <=> c.c.origin)
      BY <1>11 DEF Cursors
    <3> HIDE DEF w
    <3>4. Fixed(u, c) /\ u.c = w /\ u.dirty = c.dirty /\ u.behind = c.behind
      BY <1>11, <3>1 DEF Fixed, Fields
    <3>5. Framed(u)
      <4>1. c.shrunk \/ (u.c.y \in 0..(c.row - 1) /\ u.dirty \subseteq c.dirty \union (0..(c.row - 1)))
        BY <1>10, <3>3, <3>4 DEF Good, OnScreen
      <4>2. QED
        BY <1>11, <3>2, <3>4, <4>1, FixedIsFramed
    <3>6. OnScreen(u) /\ Marked(u) /\ (InRegion(c) => InRegion(u))
      BY <1>10, <3>3, <3>4 DEF Good, OnScreen, Marked, InRegion, Fixed
    <3>7. QED
      BY <1>10, <3>4, <3>5, <3>6 DEF Good
  <2>3. QED
    BY <2>1, <2>2
<1>13. Fixed(u, t)
  BY <1>10, <1>12 DEF Fixed
<1>14. QED
  BY <1>12, <1>13 DEF u

\* A set that holds 0 and, with every natural, the next one, holds them all.
LEMMA NaturalsClosed ==
  ASSUME NEW T, 0 \in T, \A n \in Nat : n \in T => n + 1 \in T
  PROVE  \A n \in Nat : n \in T
<1> DEFINE less == {ss \in Nat \X Nat : ss[1] < ss[2]}
           left == Nat \ T
<1>1. SUFFICES ASSUME left # {} PROVE FALSE
  OBVIOUS
<1>2. IsWellFoundedOn(less, Nat)
  BY NatLessThanWellFounded DEF OpToRel
<1>3. PICK x \in left : \A y \in left : ~(<<y, x>> \in less)
  <2> HIDE DEF less
  <2>1. left \subseteq Nat
    OBVIOUS
  <2> HIDE DEF left
  <2>2. QED
    BY <1>1, <1>2, <2>1, WFMin
<1>4. x - 1 \in Nat /\ x - 1 < x
  BY <1>3
<1>5. x - 1 \in T
  BY <1>3, <1>4
<1>6. QED
  BY <1>3, <1>4, <1>5

\* The Term after i characters in terms of f, what it is after each of them.
ShownTo(f, t, width, i) == IF i = 0 THEN t ELSE Put(f[i - 1], width)

IsShown(f, t, width, m) == f = [i \in 0..m |-> ShownTo(f, t, width, i)]

LEMMA ShownExists ==
  ASSUME NEW t, NEW width, NEW m \in Nat
  PROVE  \E f : IsShown(f, t, width, m)
<1> DEFINE T == {n \in Nat : \E f : IsShown(f, t, width, n)}
<1>1. 0 \in T
  <2> DEFINE f == [i \in 0..0 |-> t]
  <2>1. IsShown(f, t, width, 0)
    BY DEF IsShown, ShownTo
  <2>2. QED
    BY <2>1
<1>2. ASSUME NEW n \in Nat, n \in T PROVE n + 1 \in T
  <2>1. PICK f : IsShown(f, t, width, n)
    BY <1>2
  <2>2. \A i \in 0..n : f[i] = ShownTo(f, t, width, i)
    BY <2>1, Zenon DEF IsShown
  <2> DEFINE g == [i \in 0..(n + 1) |-> IF i = n + 1 THEN Put(f[n], width) ELSE f[i]]
  <2>3. ASSUME NEW i \in 0..(n + 1) PROVE g[i] = ShownTo(g, t, width, i)
    <3>1. CASE i = 0
      BY <2>2, <3>1 DEF ShownTo
    <3>2. CASE i # 0 /\ i # n + 1
      <4>1. i \in 0..n /\ i - 1 \in 0..n /\ i - 1 # n + 1
        BY <3>2
      <4>2. g[i] = f[i] /\ g[i - 1] = f[i - 1]
        BY <3>2, <4>1
      <4>3. f[i] = Put(f[i - 1], width)
        BY <2>2, <3>2, <4>1 DEF ShownTo
      <4>4. QED
        BY <3>2, <4>2, <4>3 DEF ShownTo
    <3>3. CASE i = n + 1
      <4>1. i # 0 /\ i - 1 = n /\ n \in 0..(n + 1) /\ n # n + 1
        BY <3>3
      <4>2. g[i] = Put(f[n], width) /\ g[n] = f[n]
        BY <3>3, <4>1
      <4>3. QED
        BY <4>1, <4>2 DEF ShownTo
    <3>4. QED
      BY <3>1, <3>2, <3>3
  <2>4. IsShown(g, t, width, n + 1)
    BY <2>3, Zenon DEF IsShown
  <2> HIDE DEF g
  <2>5. QED
    BY <2>4
<1> HIDE DEF T
<1>3. m \in T
  BY <1>1, <1>2, NaturalsClosed
<1>4. QED
  BY <1>3 DEF T

\* Any number of characters.
LEMMA ShownKeeps ==
  ASSUME NEW t, Good(t), NEW width \in {1, 2}, NEW m \in Nat
  PROVE  LET u == Shown(t, width, m) IN Good(u) /\ Fixed(u, t) /\ (InRegion(t) => InRegion(u))
<1>1. \E g : IsShown(g, t, width, m)
  BY ShownExists
<1> DEFINE f == CHOOSE g : IsShown(g, t, width, m)
           T == {n \in Nat : n <= m => (Good(f[n]) /\ Fixed(f[n], t) /\ (InRegion(t) => InRegion(f[n])))}
<1>2. Shown(t, width, m) = f[m]
  BY Zenon DEF Shown, ShownTo, IsShown
<1>3. IsShown(f, t, width, m)
  BY <1>1, Zenon
<1> HIDE DEF f
<1>4. \A i \in 0..m : f[i] = ShownTo(f, t, width, i)
  BY <1>3, Zenon DEF IsShown
<1>5. 0 \in T
  <2>1. f[0] = t
    BY <1>4 DEF ShownTo
  <2>2. Fixed(t, t)
    BY DEF Good, Framed, Fixed
  <2>3. QED
    BY <2>1, <2>2
<1>6. ASSUME NEW n \in Nat, n \in T PROVE n + 1 \in T
  <2> SUFFICES ASSUME n + 1 <= m
               PROVE  Good(f[n + 1]) /\ Fixed(f[n + 1], t) /\ (InRegion(t) => InRegion(f[n + 1]))
    OBVIOUS
  <2>1. n + 1 \in 0..m /\ n + 1 # 0 /\ (n + 1) - 1 = n /\ n <= m
    OBVIOUS
  <2>2. Good(f[n]) /\ Fixed(f[n], t) /\ (InRegion(t) => InRegion(f[n]))
    BY <1>6, <2>1
  <2>3. f[n + 1] = Put(f[n], width)
    BY <1>4, <2>1 DEF ShownTo
  <2>4. LET u == Put(f[n], width) IN Good(u) /\ Fixed(u, f[n]) /\ (InRegion(f[n]) => InRegion(u))
    BY <2>2, PutKeeps
  <2>5. QED
    BY <2>2, <2>3, <2>4 DEF Fixed
<1> HIDE DEF T
<1>7. m \in T
  BY <1>5, <1>6, NaturalsClosed
<1>8. QED
  BY <1>2, <1>7 DEF T

-----------------------------------------------------------------------------
(* The functions that change the size, the region or the screen.           *)

\* tswapscreen: all of it is marked.
LEMMA SwapScreenKeeps ==
  ASSUME NEW t, Framed(t), Marked(t) \/ t.behind = 0..(t.row - 1)
  PROVE  LET u == SwapScreen(t) IN
         /\ Framed(u) /\ Marked(u) /\ u.c = t.c
         /\ u.col = t.col /\ u.row = t.row /\ u.top = t.top /\ u.bot = t.bot
<1> DEFINE v == [t EXCEPT !.alt = ~t.alt, !.behind = IF t.bar THEN t.behind ELSE 0..(t.row - 1)]
           u == SwapScreen(t)
<1>1. u = SetDirt(v, 0, v.row - 1)
  BY DEF SwapScreen, FullDirt
<1>2. DOMAIN t = Fields /\ t.alt \in BOOLEAN /\ t.row \in Nat \ {0}
  BY DEF Framed
<1>3. /\ DOMAIN v = Fields /\ v.alt \in BOOLEAN
      /\ v.col = t.col /\ v.row = t.row /\ v.c = t.c /\ v.top = t.top /\ v.bot = t.bot /\ v.saved = t.saved
      /\ v.dirty = t.dirty /\ (v.behind = t.behind \/ v.behind = 0..(t.row - 1)) /\ v.shrunk = t.shrunk
  BY <1>2 DEF Fields
<1> HIDE DEF v
<1>4. Framed(v)
  BY <1>3 DEF Framed, Rooted
<1>5. Still(u, v) /\ u.behind = v.behind
  <2>1. 0 \in Int /\ v.row - 1 \in Int
    BY <1>2, <1>3
  <2>2. QED
    BY <1>1, <1>4, <2>1, SetDirtFacts
<1>6. ASSUME NEW r \in 0..(t.row - 1) PROVE r \in u.dirty
  <2>1. 0 \in Int /\ v.row - 1 \in Int /\ r \in 0..(v.row - 1) /\ 0 <= r /\ r <= v.row - 1
    BY <1>2, <1>3
  <2>2. QED
    BY <1>1, <1>4, <2>1, SetDirtMarks
<1> HIDE DEF u
<1>7. Marked(u)
  BY <1>3, <1>5, <1>6 DEF Marked, Still
<1>8. Framed(u)
  BY <1>4, <1>5, StillIsFramed
<1>9. QED
  BY <1>3, <1>5, <1>7, <1>8 DEF u, Still, Fixed

\* tcursor.
LEMMA SaveKeeps ==
  ASSUME NEW t, Framed(t)
  PROVE  LET u == Save(t) IN
         /\ Framed(u) /\ u.c = t.c /\ u.behind = t.behind /\ u.dirty = t.dirty
         /\ u.col = t.col /\ u.row = t.row /\ u.top = t.top /\ u.bot = t.bot
<1> DEFINE w == [t.c EXCEPT !.wrapnext = FALSE]
           saved == [t.saved EXCEPT ![t.alt] = w]
           u == Save(t)
<1>1. u = [t EXCEPT !.saved = saved]
  BY DEF Save
<1>2. DOMAIN t = Fields /\ t.alt \in BOOLEAN /\ t.saved \in [BOOLEAN -> Cursors] /\ t.c \in Cursors
  BY DEF Framed
<1>3. w \in Cursors /\ w.y = t.c.y
  BY <1>2 DEF Cursors
<1> HIDE DEF w
<1>4. saved \in [BOOLEAN -> Cursors] /\ \A b \in BOOLEAN : saved[b] = w \/ saved[b] = t.saved[b]
  BY <1>2, <1>3
<1> HIDE DEF saved
<1>5. /\ DOMAIN u = Fields /\ u.saved = saved /\ u.c = t.c /\ u.behind = t.behind /\ u.dirty = t.dirty
      /\ u.alt = t.alt /\ u.col = t.col /\ u.row = t.row /\ u.top = t.top /\ u.bot = t.bot /\ u.shrunk = t.shrunk
  BY <1>1, <1>2 DEF Fields
<1> HIDE DEF u
<1>6. Framed(u)
  <2>1. t.shrunk \/ \A b \in BOOLEAN : saved[b].y \in 0..(t.row - 1)
    BY <1>3, <1>4 DEF Framed, Rooted
  <2>2. Rooted(u)
    BY <1>5, <2>1 DEF Framed, Rooted
  <2>3. QED
    BY <1>4, <1>5, <2>2 DEF Framed
<1>7. QED
  BY <1>5, <1>6 DEF u

LEMMA LoadKeeps ==
  ASSUME NEW t, Framed(t)
  PROVE  LET u == Load(t) IN
         /\ Framed(u) /\ OnScreen(u) /\ InRegion(u) /\ u.behind = t.behind /\ t.dirty \subseteq u.dirty
         /\ u.col = t.col /\ u.row = t.row /\ u.top = t.top /\ u.bot = t.bot
<1> DEFINE w == t.saved[t.alt]
           v == [t EXCEPT !.c = w]
           u == Load(t)
<1>1. u = MoveTo(v, w.x, w.y)
  BY DEF Load
<1>2. DOMAIN t = Fields /\ t.alt \in BOOLEAN /\ t.saved \in [BOOLEAN -> Cursors]
  BY DEF Framed
<1>3. w \in Cursors /\ (t.shrunk \/ w.y \in 0..(t.row - 1))
  BY <1>2 DEF Framed, Rooted
<1> HIDE DEF w
<1>4. w.x \in Int /\ w.y \in Int
  BY <1>3 DEF Cursors
<1>5. Fixed(v, t) /\ v.c = w /\ v.behind = t.behind /\ v.dirty = t.dirty
  BY <1>2 DEF Fixed, Fields
<1> HIDE DEF v
<1>6. Framed(v)
  <2>1. t.shrunk \/ (v.c.y \in 0..(t.row - 1) /\ v.dirty \subseteq t.dirty \union (0..(t.row - 1)))
    BY <1>3, <1>5
  <2>2. QED
    BY <1>3, <1>5, <2>1, FixedIsFramed
<1>7. LET o == MoveTo(v, w.x, w.y) IN
      /\ Framed(o) /\ OnScreen(o) /\ InRegion(o) /\ Fixed(o, v)
      /\ o.behind = v.behind /\ v.dirty \subseteq o.dirty
  BY <1>4, <1>6, MoveToKeeps
<1>8. QED
  BY <1>1, <1>5, <1>7 DEF u, Fixed

\* tsetscroll: the region is a part of the screen, whatever it is asked to be.
LEMMA SetScrollKeeps ==
  ASSUME NEW t, DOMAIN t = Fields, t.col \in Nat \ {0}, t.row \in Nat \ {0}, t.alt \in BOOLEAN,
         t.saved \in [BOOLEAN -> Cursors], t.c \in Cursors, t.shrunk \in BOOLEAN, Rooted(t), NEW a \in Int, NEW b \in Int
  PROVE  LET u == SetScroll(t, a, b) IN
         /\ Framed(u) /\ u.c = t.c /\ u.behind = t.behind /\ u.dirty = t.dirty /\ u.shrunk = t.shrunk
         /\ u.col = t.col /\ u.row = t.row
<1> DEFINE i == Within(a, 0, t.row - 1)
           j == Within(b, 0, t.row - 1)
           top == Lower(i, j)
           bot == i + j - Lower(i, j)
           u == SetScroll(t, a, b)
<1>1. u = [t EXCEPT !.top = top, !.bot = bot]
  BY DEF SetScroll
<1>2. i \in Int /\ j \in Int /\ 0 <= i /\ 0 <= j /\ i < t.row /\ j < t.row
  BY DEF Within
<1> HIDE DEF i, j
<1>3. top \in Int /\ bot \in Int /\ 0 <= top /\ top <= bot /\ bot < t.row
  BY <1>2 DEF Lower
<1> HIDE DEF top, bot
<1>4. /\ DOMAIN u = Fields /\ u.top = top /\ u.bot = bot /\ u.c = t.c /\ u.behind = t.behind /\ u.dirty = t.dirty
      /\ u.col = t.col /\ u.row = t.row /\ u.alt = t.alt /\ u.saved = t.saved /\ u.shrunk = t.shrunk
  BY <1>1 DEF Fields
<1> HIDE DEF u
<1>5. Framed(u)
  BY <1>3, <1>4 DEF Framed, Rooted
<1>6. QED
  BY <1>4, <1>5 DEF u

\* What every operation keeps.
Sound(t) == Good(t) /\ InRegion(t)

LEMMA StillIsSound ==
  ASSUME NEW t, Sound(t), NEW u, Still(u, t), u.behind = t.behind
  PROVE  Sound(u)
<1>1. u.behind \subseteq u.dirty
  BY DEF Sound, Good, Marked, Still
<1>2. QED
  BY <1>1, StillIsGood DEF Sound

LEMMA MoveToSound ==
  ASSUME NEW t, Framed(t), Marked(t), NEW x \in Int, NEW y \in Int
  PROVE  Sound(MoveTo(t, x, y)) /\ Sound(MoveToA(t, x, y))
<1>1. t.top \in Int
  BY DEF Framed
<1>2. PICK z \in Int : z = y + t.top
  BY <1>1
<1>3. Sound(MoveTo(t, x, y)) /\ Sound(MoveTo(t, x, z))
  BY MoveToGood DEF Sound
<1>4. QED
  BY <1>2, <1>3 DEF MoveToA

\* tclearregion, from any two rows.
LEMMA ClearSound ==
  ASSUME NEW t, Sound(t), NEW y1 \in Int, NEW y2 \in Int
  PROVE  Sound(Clear(t, y1, y2)) /\ Clear(t, y1, y2).row = t.row /\ Clear(t, y1, y2).c = t.c
BY ClearKeeps DEF Sound, Still, Fixed

LEMMA ClearAllSound ==
  ASSUME NEW t, Sound(t)
  PROVE  Sound(ClearAll(t)) /\ ClearAll(t).row = t.row /\ ClearAll(t).c = t.c
<1>1. PICK last \in Int : last = t.row - 1
  BY DEF Sound, Good, Framed
<1>2. Sound(Clear(t, 0, last)) /\ Clear(t, 0, last).row = t.row /\ Clear(t, 0, last).c = t.c
  BY ClearSound
<1>3. QED
  BY <1>1, <1>2 DEF ClearAll

LEMMA SaveSound ==
  ASSUME NEW t, Sound(t)
  PROVE  Sound(Save(t))
<1>1. LET u == Save(t) IN
      /\ Framed(u) /\ u.c = t.c /\ u.behind = t.behind /\ u.dirty = t.dirty
      /\ u.col = t.col /\ u.row = t.row /\ u.top = t.top /\ u.bot = t.bot
  BY SaveKeeps DEF Sound, Good
<1>2. QED
  BY <1>1 DEF Sound, Good, OnScreen, Marked, InRegion

LEMMA LoadSound ==
  ASSUME NEW t, Framed(t), Marked(t)
  PROVE  Sound(Load(t))
<1>1. LET u == Load(t) IN
      /\ Framed(u) /\ OnScreen(u) /\ InRegion(u) /\ u.behind = t.behind /\ t.dirty \subseteq u.dirty
  BY LoadKeeps
<1>2. QED
  BY <1>1 DEF Sound, Good, Marked

LEMMA SwapScreenSound ==
  ASSUME NEW t, Sound(t)
  PROVE  Sound(SwapScreen(t))
<1>1. LET u == SwapScreen(t) IN
      /\ Framed(u) /\ Marked(u) /\ u.c = t.c
      /\ u.col = t.col /\ u.row = t.row /\ u.top = t.top /\ u.bot = t.bot
  BY SwapScreenKeeps DEF Sound, Good
<1>2. QED
  BY <1>1 DEF Sound, Good, OnScreen, InRegion

\* tsetmode: the alternate screen, with the cursor saved or loaded on both sides of it.
LEMMA AltScreenSound ==
  ASSUME NEW t, Sound(t), NEW set \in BOOLEAN
  PROVE  Sound(AltScreen(t, set)) /\ Sound(SaveOrLoad(t, set)) /\ Sound(AltScreenAndCursor(t, set))
<1>1. ASSUME NEW s, Sound(s) PROVE Sound(AltScreen(s, set))
  <2> DEFINE c == IF s.alt THEN ClearAll(s) ELSE s
  <2>1. Sound(c)
    BY <1>1, ClearAllSound
  <2>2. AltScreen(s, set) = SwapScreen(c) \/ AltScreen(s, set) = c
    BY DEF AltScreen
  <2> HIDE DEF c
  <2>3. QED
    BY <2>1, <2>2, SwapScreenSound
<1>2. ASSUME NEW s, Sound(s) PROVE Sound(SaveOrLoad(s, set))
  BY <1>2, SaveSound, LoadSound DEF SaveOrLoad, Sound, Good
<1>3. QED
  BY <1>1, <1>2 DEF AltScreenAndCursor

\* DECSTBM.
LEMMA RegionSound ==
  ASSUME NEW t, Sound(t), NEW a \in Int, NEW b \in Int
  PROVE  Sound(Region(t, a, b))
<1>1. LET u == SetScroll(t, a, b) IN Framed(u) /\ u.behind = t.behind /\ u.dirty = t.dirty
  BY SetScrollKeeps DEF Sound, Good, Framed
<1>2. Marked(SetScroll(t, a, b))
  BY <1>1 DEF Sound, Good, Marked
<1>3. QED
  BY <1>1, <1>2, MoveToSound DEF Region

\* treset: each screen is cleared, with its cursor at home.
LEMMA ResetSound ==
  ASSUME NEW t, Sound(t)
  PROVE  Sound(ResetTerminal(t))
<1> DEFINE home(s) == SwapScreen(ClearAll(Save(MoveTo(s, 0, 0))))
           corner == [x |-> 0, y |-> 0, wrapnext |-> FALSE, origin |-> FALSE]
           start == [t EXCEPT !.c = corner, !.top = 0, !.bot = t.row - 1, !.wrap = TRUE, !.alt = FALSE]
<1>1. ResetTerminal(t) = home(home(start))
  BY DEF ResetTerminal
<1>2. /\ DOMAIN t = Fields /\ t.row \in Nat \ {0} /\ t.col \in Nat \ {0} /\ t.saved \in [BOOLEAN -> Cursors]
      /\ t.behind \subseteq t.dirty
  BY DEF Sound, Good, Framed, Marked
<1>3. corner \in Cursors /\ corner.y = 0
  BY DEF Cursors
<1> HIDE DEF corner
<1>4. /\ DOMAIN start = Fields /\ start.c = corner /\ start.top = 0 /\ start.bot = t.row - 1 /\ start.alt = FALSE
      /\ start.row = t.row /\ start.col = t.col /\ start.saved = t.saved
      /\ start.behind = t.behind /\ start.dirty = t.dirty /\ start.shrunk = t.shrunk
  BY <1>2 DEF Fields
<1> HIDE DEF start
<1>5. Framed(start) /\ Marked(start)
  <2>1. t.row - 1 \in Int /\ 0 <= t.row - 1 /\ t.row - 1 < t.row
    BY <1>2
  <2>2. start.alt \in BOOLEAN /\ start.saved \in [BOOLEAN -> Cursors] /\ start.c \in Cursors
    BY <1>2, <1>3, <1>4
  <2>3. /\ start.top \in Int /\ start.bot \in Int /\ 0 <= start.top /\ start.top <= start.bot
        /\ start.bot < start.row /\ start.row \in Nat \ {0} /\ start.col \in Nat \ {0}
    BY <1>2, <1>4, <2>1
  <2>4. start.shrunk \in BOOLEAN /\ Rooted(t) /\ 0 \in 0..(t.row - 1)
    BY <1>2, <1>4 DEF Sound, Good, Framed
  <2>5. Rooted(start)
    BY <1>3, <1>4, <2>4 DEF Rooted
  <2>6. QED
    BY <1>2, <1>4, <2>2, <2>3, <2>4, <2>5 DEF Framed, Marked
<1>6. ASSUME NEW s, Framed(s), Marked(s) PROVE Sound(home(s))
  <2>1. Sound(MoveTo(s, 0, 0))
    BY <1>6, MoveToSound
  <2>2. QED
    BY <2>1, SaveSound, ClearAllSound, SwapScreenSound
<1> HIDE DEF home
<1>7. QED
  BY <1>1, <1>5, <1>6 DEF Sound, Good

\* tputtab.
LEMMA TabSound ==
  ASSUME NEW t, Sound(t), NEW n, NEW x \in TabStops(t, n)
  PROVE  Sound(PutTab(t, x))
<1> DEFINE w == [t.c EXCEPT !.x = x]
           u == PutTab(t, x)
<1>1. u = [t EXCEPT !.c = w]
  BY DEF PutTab
<1>2. DOMAIN t = Fields /\ t.c \in Cursors /\ t.col \in Nat
  BY DEF Sound, Good, Framed
<1>3. x \in 0..(t.col - 1)
  BY DEF TabStops
<1>4. x \in Int
  BY <1>3
<1>5. w \in Cursors
  BY <1>2, <1>4 DEF Cursors
<1>6. w.x = x /\ w.y = t.c.y /\ (w.origin <=> t.c.origin)
  BY <1>2 DEF Cursors
<1> HIDE DEF w
<1>7. Fixed(u, t) /\ u.c = w /\ u.dirty = t.dirty /\ u.behind = t.behind
  BY <1>1, <1>2 DEF Fixed, Fields
<1> HIDE DEF u
<1>8. Framed(u)
  <2>1. t.shrunk \/ (u.c.y \in 0..(t.row - 1) /\ u.dirty \subseteq t.dirty \union (0..(t.row - 1)))
    BY <1>6, <1>7 DEF Sound, Good, OnScreen
  <2>2. QED
    BY <1>5, <1>7, <2>1, FixedIsFramed DEF Sound, Good
<1>9. OnScreen(u) /\ Marked(u) /\ InRegion(u)
  BY <1>3, <1>6, <1>7 DEF Sound, Good, OnScreen, Marked, InRegion, Fixed
<1>10. QED
  BY <1>8, <1>9 DEF Sound, Good, u

\* The modes that need no more than a field.
LEMMA ParserSound ==
  ASSUME NEW t, Sound(t), NEW e
  PROVE  Sound([t EXCEPT !.esc = e]) /\ Sound([t EXCEPT !.wrap = e])
<1>1. DOMAIN t = Fields
  BY DEF Sound, Good, Framed
<1>2. /\ Still([t EXCEPT !.esc = e], t) /\ [t EXCEPT !.esc = e].behind = t.behind
  BY <1>1 DEF Still, Fixed, Fields
<1>3. /\ Still([t EXCEPT !.wrap = e], t) /\ [t EXCEPT !.wrap = e].behind = t.behind
  BY <1>1 DEF Still, Fixed, Fields
<1>4. QED
  BY <1>2, <1>3, StillIsSound

\* DECOM: the cursor goes to the first row of the screen, or of the region.
LEMMA OriginSound ==
  ASSUME NEW t, Sound(t), NEW set \in BOOLEAN
  PROVE  Sound(MoveToA([t EXCEPT !.c.origin = set], 0, 0))
<1> DEFINE w == [t.c EXCEPT !.origin = set]
           u == [t EXCEPT !.c = w]
<1>1. DOMAIN t = Fields /\ t.c \in Cursors
  BY DEF Sound, Good, Framed
<1>2. w \in Cursors /\ w.y = t.c.y
  BY <1>1 DEF Cursors
<1>3. [t EXCEPT !.c.origin = set] = u
  OBVIOUS
<1> HIDE DEF w
<1>4. Fixed(u, t) /\ u.c = w /\ u.behind = t.behind /\ u.dirty = t.dirty
  BY <1>1 DEF Fixed, Fields
<1> HIDE DEF u
<1>5. Framed(u) /\ Marked(u)
  <2>1. t.shrunk \/ (u.c.y \in 0..(t.row - 1) /\ u.dirty \subseteq t.dirty \union (0..(t.row - 1)))
    BY <1>2, <1>4 DEF Sound, Good, OnScreen
  <2>2. QED
    BY <1>2, <1>4, <2>1, FixedIsFramed DEF Sound, Good, Marked
<1>6. QED
  BY <1>3, <1>5, MoveToSound

-----------------------------------------------------------------------------
(* The sequences.                                                          *)

LEMMA ParametersAreIntegers ==
  ASSUME NEW command, NEW p \in Parameters(command)
  PROVE  p[1] \in Int /\ p[2] \in Int
<1>1. \A a \in Args : a \in Int
  BY TerminalAssumption
<1>2. Parameters(command) = Args \X Args \/ Parameters(command) = {<<0, 0>>} \/ Parameters(command) = Args \X {0}
  BY Zenon DEF Parameters
<1>3. p \in Args \X Args \/ p = <<0, 0>> \/ p \in Args \X {0}
  BY <1>2
<1>4. (p[1] \in Args \/ p[1] = 0) /\ (p[2] \in Args \/ p[2] = 0)
  BY <1>3
<1>5. QED
  BY <1>1, <1>4

LEMMA CsiSound ==
  ASSUME NEW t, Sound(t), NEW command \in Commands, NEW n \in Int, NEW k \in Int, NEW u \in Csi(t, command, n, k)
  PROVE  Sound(u)
<1> DEFINE one == Default(n, 1)
           here == t.c.y \in t.top..t.bot
           column == Default(k, 1) - 1
           last == Default(k, t.row) - 1
<1>1. /\ Framed(t) /\ Marked(t) /\ Good(t) /\ t.c.x \in Int /\ t.c.y \in Int /\ t.row \in Int /\ t.top \in Int /\ t.bot \in Int
      /\ t.top <= t.bot
  BY DEF Sound, Good, Framed, Cursors
<1>2. one \in Int /\ Default(k, 1) \in Int /\ Default(k, t.row) \in Int
  BY <1>1 DEF Default
<1>3. PICK set \in BOOLEAN : set <=> n > 0
  OBVIOUS
<1>4. CASE command \in {"CUU", "CUD", "CUF", "CUB", "CNL", "CPL", "CHA", "VPA", "CUP"}
  <2>1. /\ t.c.y - one \in Int /\ t.c.y + one \in Int /\ t.c.x - one \in Int /\ t.c.x + one \in Int
        /\ column \in Int /\ one - 1 \in Int /\ 0 \in Int
    BY <1>1, <1>2
  <2>2. CASE command = "CUU"
    <3>1. u = MoveTo(t, t.c.x, t.c.y - one)
      BY <2>2 DEF Csi
    <3> HIDE DEF one
    <3>2. QED
      BY <1>1, <2>1, <3>1, MoveToSound
  <2>3. CASE command = "CUD"
    <3>1. u = MoveTo(t, t.c.x, t.c.y + one)
      BY <2>3 DEF Csi
    <3> HIDE DEF one
    <3>2. QED
      BY <1>1, <2>1, <3>1, MoveToSound
  <2>4. CASE command = "CUF"
    <3>1. u = MoveTo(t, t.c.x + one, t.c.y)
      BY <2>4 DEF Csi
    <3> HIDE DEF one
    <3>2. QED
      BY <1>1, <2>1, <3>1, MoveToSound
  <2>5. CASE command = "CUB"
    <3>1. u = MoveTo(t, t.c.x - one, t.c.y)
      BY <2>5 DEF Csi
    <3> HIDE DEF one
    <3>2. QED
      BY <1>1, <2>1, <3>1, MoveToSound
  <2>6. CASE command = "CUP"
    <3>1. u = MoveToA(t, column, one - 1)
      BY <2>6 DEF Csi
    <3> HIDE DEF one, column
    <3>2. QED
      BY <1>1, <2>1, <3>1, MoveToSound
  <2>7. CASE command = "CNL"
    <3>1. u = MoveTo(t, 0, t.c.y + one)
      BY <2>7 DEF Csi
    <3> HIDE DEF one
    <3>2. QED
      BY <1>1, <2>1, <3>1, MoveToSound
  <2>8. CASE command = "CPL"
    <3>1. u = MoveTo(t, 0, t.c.y - one)
      BY <2>8 DEF Csi
    <3> HIDE DEF one
    <3>2. QED
      BY <1>1, <2>1, <3>1, MoveToSound
  <2>9. CASE command = "CHA"
    <3>1. u = MoveTo(t, one - 1, t.c.y)
      BY <2>9 DEF Csi
    <3> HIDE DEF one
    <3>2. QED
      BY <1>1, <2>1, <3>1, MoveToSound
  <2>10. CASE command = "VPA"
    <3>1. u = MoveToA(t, t.c.x, one - 1)
      BY <2>10 DEF Csi
    <3> HIDE DEF one
    <3>2. QED
      BY <1>1, <2>1, <3>1, MoveToSound
  <2>11. QED
    BY <1>4, <2>2, <2>3, <2>4, <2>5, <2>6, <2>7, <2>8, <2>9, <2>10
<1>5. CASE command \in {"ED", "ED1", "ED2", "EL", "edit"}
  <2> DEFINE a == Clear(t, t.c.y, t.c.y)
             b == IF t.c.y > 0 THEN Clear(t, 0, t.c.y - 1) ELSE t
  <2>1. t.c.y + 1 \in Int /\ t.c.y - 1 \in Int /\ t.row - 1 \in Int
    BY <1>1
  <2>2. Sound(a) /\ Sound(b)
    BY <1>1, <2>1, ClearSound
  <2>3. CASE command = "ED"
    <3>1. u = Clear(a, t.c.y + 1, t.row - 1) \/ u = a
      BY <2>3 DEF Csi
    <3> HIDE DEF a
    <3>2. QED
      BY <2>1, <2>2, <3>1, ClearSound
  <2>4. CASE command = "ED1"
    <3>1. u = Clear(b, t.c.y, t.c.y)
      BY <2>4 DEF Csi
    <3> HIDE DEF b
    <3>2. QED
      BY <1>1, <2>2, <3>1, ClearSound
  <2>5. CASE command = "ED2"
    BY <2>5, ClearAllSound DEF Csi
  <2>6. CASE command = "EL"
    BY <2>2, <2>6 DEF Csi
  <2>7. CASE command = "edit"
    BY <2>2, <2>7 DEF Csi
  <2>8. QED
    BY <1>5, <2>3, <2>4, <2>5, <2>6, <2>7
<1>6. CASE command \in {"IL", "DL", "SU", "SD"}
  <2>1. ASSUME NEW o \in Int, t.top <= o, o <= t.bot
        PROVE  Sound(ScrollUp(t, o, one, FALSE)) /\ Sound(ScrollDown(t, o, one, FALSE))
    <3> HIDE DEF one
    <3>1. Good(ScrollUp(t, o, one, FALSE)) /\ (InRegion(t) => InRegion(ScrollUp(t, o, one, FALSE)))
      BY <1>1, <1>2, <2>1, ScrollUpKeeps
    <3>2. Good(ScrollDown(t, o, one, FALSE)) /\ (InRegion(t) => InRegion(ScrollDown(t, o, one, FALSE)))
      BY <1>1, <1>2, <2>1, ScrollDownKeeps
    <3>3. QED
      BY <3>1, <3>2 DEF Sound
  <2>2. here => (t.top <= t.c.y /\ t.c.y <= t.bot)
    BY <1>1
  <2>3. CASE command = "IL"
    <3> DEFINE v == ScrollDown(t, t.c.y, one, FALSE)
    <3>1. Csi(t, "IL", n, k) = {IF here THEN v ELSE t}
      BY DEF Csi
    <3>2. u \in {IF here THEN v ELSE t}
      BY <2>3, <3>1, Zenon
    <3> HIDE DEF v
    <3>3. u = t \/ u = v
      BY <3>2
    <3>4. ~here => u = t
      BY <3>2
    <3> HIDE DEF one, here
    <3>5. QED
      BY <1>1, <2>1, <2>2, <3>3, <3>4 DEF v
  <2>4. CASE command = "DL"
    <3> DEFINE v == ScrollUp(t, t.c.y, one, FALSE)
    <3>1. Csi(t, "DL", n, k) = {IF here THEN v ELSE t}
      BY DEF Csi
    <3>2. u \in {IF here THEN v ELSE t}
      BY <2>4, <3>1, Zenon
    <3> HIDE DEF v
    <3>3. u = t \/ u = v
      BY <3>2
    <3>4. ~here => u = t
      BY <3>2
    <3> HIDE DEF one, here
    <3>5. QED
      BY <1>1, <2>1, <2>2, <3>3, <3>4 DEF v
  <2>5. CASE command = "SU"
    <3>1. u = ScrollUp(t, t.top, one, FALSE)
      BY <2>5 DEF Csi
    <3>2. PICK o \in Int : o = t.top
      BY <1>1
    <3>3. t.top <= o /\ o <= t.bot
      BY <1>1, <3>2
    <3> HIDE DEF one
    <3>4. QED
      BY <2>1, <3>1, <3>2, <3>3
  <2>6. CASE command = "SD"
    <3>1. u = ScrollDown(t, t.top, one, FALSE)
      BY <2>6 DEF Csi
    <3>2. PICK o \in Int : o = t.top
      BY <1>1
    <3>3. t.top <= o /\ o <= t.bot
      BY <1>1, <3>2
    <3> HIDE DEF one
    <3>4. QED
      BY <2>1, <3>1, <3>2, <3>3
  <2>7. QED
    BY <1>6, <2>3, <2>4, <2>5, <2>6
<1>7. CASE command \in {"CHT", "CBT"}
  <2>1. CASE command = "CHT"
    <3>1. \E x \in TabStops(t, one) : u = PutTab(t, x)
      BY <2>1 DEF Csi
    <3>2. QED
      BY <3>1, TabSound
  <2>2. CASE command = "CBT"
    <3>1. \E x \in TabStops(t, -one) : u = PutTab(t, x)
      BY <2>2 DEF Csi
    <3>2. QED
      BY <3>1, TabSound
  <2>3. QED
    BY <1>7, <2>1, <2>2
<1>8. CASE command = "REP"
  <2>1. PICK m \in Nat : m = Within(n, 1, 65535)
    BY DEF Within
  <2>2. u = t \/ \E width \in {1, 2} : u = Shown(t, width, m)
    BY <1>8, <2>1 DEF Csi
  <2>3. QED
    BY <2>2, ShownKeeps DEF Sound
<1>9. CASE command = "STBM"
  <2>1. u = Region(t, one - 1, last) /\ one - 1 \in Int /\ last \in Int
    BY <1>2, <1>9 DEF Csi
  <2> HIDE DEF one, last
  <2>2. QED
    BY <2>1, RegionSound
<1>10. CASE command \in {"SCP", "RCP"}
  <2>1. CASE command = "SCP"
    BY <2>1, SaveSound DEF Csi
  <2>2. CASE command = "RCP"
    BY <1>1, <2>2, LoadSound DEF Csi
  <2>3. QED
    BY <1>10, <2>1, <2>2
<1>11. CASE command \in {"ORIGIN", "WRAP"}
  <2>1. CASE command = "ORIGIN"
    <3>1. u = MoveToA([t EXCEPT !.c.origin = set], 0, 0)
      BY <1>3, <2>1 DEF Csi
    <3>2. QED
      BY <3>1, OriginSound
  <2>2. CASE command = "WRAP"
    <3>1. u = [t EXCEPT !.wrap = set]
      BY <1>3, <2>2 DEF Csi
    <3>2. QED
      BY <3>1, ParserSound
  <2>3. QED
    BY <1>11, <2>1, <2>2
<1>12. CASE command \in {"1049", "47", "1048"}
  <2>1. CASE command = "1049"
    <3>1. u = AltScreenAndCursor(t, set)
      BY <1>3, <2>1 DEF Csi
    <3>2. QED
      BY <3>1, AltScreenSound
  <2>2. CASE command = "47"
    <3>1. u = AltScreen(t, set)
      BY <1>3, <2>2 DEF Csi
    <3>2. QED
      BY <3>1, AltScreenSound
  <2>3. CASE command = "1048"
    <3>1. u = SaveOrLoad(t, set)
      BY <1>3, <2>3 DEF Csi
    <3>2. QED
      BY <3>1, AltScreenSound
  <2>4. QED
    BY <1>12, <2>1, <2>2, <2>3
<1>13. CASE command = "other"
  BY <1>13 DEF Csi
<1>14. QED
  BY <1>4, <1>5, <1>6, <1>7, <1>8, <1>9, <1>10, <1>11, <1>12, <1>13 DEF Commands

\* tscrollup and tscrolldown by a line, at a margin.
LEMMA MarginSound ==
  ASSUME NEW t, Sound(t)
  PROVE  Sound(ScrollUp(t, t.top, 1, TRUE)) /\ Sound(ScrollDown(t, t.top, 1, TRUE))
<1>1. PICK o \in Int : o = t.top
  BY DEF Sound, Good, Framed
<1>2. Good(t) /\ InRegion(t) /\ t.top <= o /\ o <= t.bot /\ 1 \in Int /\ TRUE \in BOOLEAN
  BY <1>1 DEF Sound, Good, Framed
<1>3. Good(ScrollUp(t, o, 1, TRUE)) /\ (InRegion(t) => InRegion(ScrollUp(t, o, 1, TRUE)))
  BY <1>2, ScrollUpKeeps
<1>4. Good(ScrollDown(t, o, 1, TRUE)) /\ (InRegion(t) => InRegion(ScrollDown(t, o, 1, TRUE)))
  BY <1>2, ScrollDownKeeps
<1>5. QED
  BY <1>1, <1>2, <1>3, <1>4 DEF Sound

LEMMA NewLineSound ==
  ASSUME NEW t, Sound(t), NEW firstcol \in BOOLEAN
  PROVE  Sound(NewLine(t, firstcol))
BY NewLineKeeps DEF Sound

\* tsetchar on the cursor's row.
LEMMA CharacterSound ==
  ASSUME NEW t, Sound(t)
  PROVE  Sound(Changed(SetDirt(t, t.c.y, t.c.y), t.c.y, t.c.y))
<1> DEFINE d == SetDirt(t, t.c.y, t.c.y)
           u == Changed(d, t.c.y, t.c.y)
<1>1. Good(t) /\ Framed(t) /\ Marked(t) /\ DOMAIN t = Fields /\ t.c.y \in 0..(t.row - 1) /\ t.row \in Nat \ {0}
  BY DEF Sound, Good, Framed, OnScreen
<1>2. t.c.y \in Int /\ t.c.y <= t.c.y /\ t.c.y..t.c.y = {t.c.y}
  BY <1>1
<1>3. Still(d, t) /\ d.behind = t.behind /\ t.c.y \in d.dirty
  BY <1>1, <1>2, SetDirtFacts, SetDirtMarks
<1> HIDE DEF d
<1>4. DOMAIN d = Fields /\ t.dirty \subseteq d.dirty
  BY <1>3 DEF Still, Fixed
<1>5. Still(u, d) /\ u.dirty = d.dirty /\ u.behind \subseteq d.behind \union (t.c.y..t.c.y)
  BY <1>4, ChangedFacts
<1> HIDE DEF u
<1>6. Still(u, t) /\ u.behind \subseteq u.dirty
  BY <1>1, <1>2, <1>3, <1>4, <1>5, StillTwice DEF Marked
<1>7. QED
  BY <1>1, <1>6, StillIsGood DEF Sound, u, d

\* tfulldirt: there is no row it leaves out.
LEMMA FullDirtMarks ==
  ASSUME NEW t, Framed(t)
  PROVE  /\ Still(FullDirt(t), t) /\ FullDirt(t).behind = t.behind
         /\ 0..(t.row - 1) \subseteq FullDirt(t).dirty
<1> DEFINE u == FullDirt(t)
<1>1. u = SetDirt(t, 0, t.row - 1)
  BY DEF FullDirt
<1>2. DOMAIN t = Fields /\ t.row \in Nat \ {0} /\ 0 \in Int /\ t.row - 1 \in Int
  BY DEF Framed
<1>3. Still(u, t) /\ u.behind = t.behind
  BY <1>1, <1>2, SetDirtFacts
<1>4. ASSUME NEW r \in 0..(t.row - 1) PROVE r \in u.dirty
  <2>1. 0 <= r /\ r <= t.row - 1
    BY <1>2
  <2>2. QED
    BY <1>1, <1>2, <2>1, SetDirtMarks
<1>5. QED
  BY <1>3, <1>4

LEMMA WholeScreenSound ==
  ASSUME NEW t, Sound(t)
  PROVE  Sound(FullDirt(Changed(t, 0, t.row - 1)))
<1> DEFINE d == Changed(t, 0, t.row - 1)
           u == FullDirt(d)
<1>1. Good(t) /\ Framed(t) /\ Marked(t) /\ DOMAIN t = Fields
  BY DEF Sound, Good, Framed
<1>2. /\ Still(d, t) /\ d.dirty = t.dirty
      /\ d.behind \subseteq t.behind \union ((0..(t.row - 1)) \intersect (0..(t.row - 1)))
  BY <1>1, ChangedFacts
<1> HIDE DEF d
<1>3. Framed(d) /\ d.row = t.row
  BY <1>1, <1>2, StillIsFramed DEF Still, Fixed
<1>4. Still(u, d) /\ u.behind = d.behind /\ 0..(t.row - 1) \subseteq u.dirty
  BY <1>3, FullDirtMarks
<1> HIDE DEF u
<1>5. Still(u, t)
  BY <1>2, <1>4, StillTwice
<1>6. u.behind \subseteq u.dirty
  BY <1>1, <1>2, <1>4, <1>5 DEF Marked, Still
<1>7. QED
  BY <1>1, <1>5, <1>6, StillIsGood DEF Sound, u, d

\* eschandle.
LEMMA EscapeSound ==
  ASSUME NEW t, Sound(t), NEW e \in Escapes
  PROVE  Sound(Escape(t, e))
<1> DEFINE done == [t EXCEPT !.esc = {}]
<1>1. Sound(done) /\ DOMAIN t = Fields
  BY ParserSound DEF Sound, Good, Framed
<1>2. done.top = t.top /\ done.c = t.c
  BY <1>1 DEF Fields
<1>3. Framed(done) /\ Marked(done) /\ t.c.x \in Int /\ t.c.y \in Int /\ t.c.y + 1 \in Int /\ t.c.y - 1 \in Int
  BY <1>1 DEF Sound, Good, Framed, Cursors
<1>4. CASE e \in {"[", "]", "(", "%"}
  <2>1. PICK f : Escape(t, e) = [t EXCEPT !.esc = f]
    BY <1>4 DEF Escape, BeginString
  <2>2. Sound([t EXCEPT !.esc = f])
    BY ParserSound
  <2>3. QED
    BY <2>1, <2>2
<1>5. CASE e = "IND"
  <2>1. Escape(t, e) = IF t.c.y = t.bot THEN ScrollUp(done, t.top, 1, TRUE) ELSE MoveTo(done, t.c.x, t.c.y + 1)
    BY <1>5 DEF Escape
  <2> HIDE DEF done
  <2>2. Sound(ScrollUp(done, t.top, 1, TRUE)) /\ Sound(MoveTo(done, t.c.x, t.c.y + 1))
    BY <1>1, <1>2, <1>3, MarginSound, MoveToSound
  <2>3. QED
    BY <2>1, <2>2
<1>6. CASE e = "RI"
  <2>1. Escape(t, e) = IF t.c.y = t.top THEN ScrollDown(done, t.top, 1, TRUE) ELSE MoveTo(done, t.c.x, t.c.y - 1)
    BY <1>6 DEF Escape
  <2> HIDE DEF done
  <2>2. Sound(ScrollDown(done, t.top, 1, TRUE)) /\ Sound(MoveTo(done, t.c.x, t.c.y - 1))
    BY <1>1, <1>2, <1>3, MarginSound, MoveToSound
  <2>3. QED
    BY <2>1, <2>2
<1>7. CASE e = "NEL"
  <2>1. Escape(t, e) = NewLine(done, TRUE)
    BY <1>7 DEF Escape
  <2>2. QED
    BY <1>1, <2>1, NewLineSound
<1>8. CASE e = "RIS"
  <2>1. Escape(t, e) = ResetTerminal(done)
    BY <1>8 DEF Escape
  <2>2. QED
    BY <1>1, <2>1, ResetSound
<1>9. CASE e = "DECSC"
  <2>1. Escape(t, e) = Save(done)
    BY <1>9 DEF Escape
  <2>2. QED
    BY <1>1, <2>1, SaveSound
<1>10. CASE e = "DECRC"
  <2>1. Escape(t, e) = Load(done)
    BY <1>10 DEF Escape
  <2>2. QED
    BY <1>3, <2>1, LoadSound
<1>11. CASE e \in {"ST", "?"}
  <2>1. Escape(t, e) = done
    BY <1>11 DEF Escape
  <2>2. QED
    BY <1>1, <2>1
<1>12. QED
  BY <1>4, <1>5, <1>6, <1>7, <1>8, <1>9, <1>10, <1>11 DEF Escapes

LEMMA InterruptSound ==
  ASSUME NEW t, Sound(t)
  PROVE  Sound(Interrupt(t)) /\ Sound(BeginString(t))
BY ParserSound DEF Interrupt, BeginString

\* tcontrolcode.
LEMMA ControlSound ==
  ASSUME NEW t, Sound(t), NEW c \in Controls, NEW u \in Control(t, c)
  PROVE  Sound(u)
<1>1. /\ Framed(t) /\ Marked(t) /\ t.c.x \in Int /\ t.c.y \in Int /\ t.col \in Int
      /\ t.c.x - 1 \in Int /\ t.c.y - 1 \in Int /\ t.col - 1 \in Int
  BY DEF Sound, Good, Framed, Cursors
<1>2. CASE c = "HT"
  <2>1. \E x \in TabStops(t, 1) : u = PutTab(t, x)
    BY <1>2 DEF Control
  <2>2. QED
    BY <2>1, TabSound
<1>3. CASE c = "BS"
  <2>1. \/ u = Interrupt(MoveTo(t, t.c.x - 1, t.c.y)) \/ u = Interrupt(t)
        \/ u = Interrupt(MoveTo(t, t.col - 1, t.c.y - 1))
    BY <1>3 DEF Control
  <2>2. Sound(MoveTo(t, t.c.x - 1, t.c.y)) /\ Sound(MoveTo(t, t.col - 1, t.c.y - 1))
    BY <1>1, MoveToSound
  <2>3. QED
    BY <2>1, <2>2, InterruptSound
<1>4. CASE c = "CR"
  <2>1. u = MoveTo(t, 0, t.c.y)
    BY <1>4 DEF Control
  <2>2. 0 \in Int /\ t.c.y \in Int
    BY <1>1
  <2>3. QED
    BY <1>1, <2>1, <2>2, MoveToSound
<1>5. CASE c = "LF"
  BY <1>5, NewLineSound DEF Control
<1>6. CASE c = "BEL"
  BY <1>6, InterruptSound DEF Control
<1>7. CASE c = "ESC"
  <2>1. PICK e : u = [t EXCEPT !.esc = e]
    BY <1>7 DEF Control
  <2>2. Sound([t EXCEPT !.esc = e])
    BY ParserSound
  <2>3. QED
    BY <2>1, <2>2
<1>8. CASE c = "SUB"
  <2> DEFINE v == Changed(SetDirt(t, t.c.y, t.c.y), t.c.y, t.c.y)
  <2>1. u = Interrupt(v)
    BY <1>8 DEF Control
  <2>2. Sound(v)
    BY CharacterSound
  <2> HIDE DEF v
  <2>3. QED
    BY <2>1, <2>2, InterruptSound
<1>9. CASE c = "CAN"
  BY <1>9, InterruptSound DEF Control
<1>10. CASE c = "C1"
  <2>1. u = t \/ u = Interrupt(NewLine(t, TRUE)) \/ u = BeginString(t) \/ u = Interrupt(t)
    BY <1>10 DEF Control
  <2>2. QED
    BY <2>1, NewLineSound, InterruptSound
<1>11. CASE c = "SI"
  BY <1>11 DEF Control
<1>12. QED
  BY <1>2, <1>3, <1>4, <1>5, <1>6, <1>7, <1>8, <1>9, <1>10, <1>11 DEF Controls

LEMMA TakeControlSound ==
  ASSUME NEW t, Sound(t), NEW c \in Controls, NEW u \in TakeControl(t, c)
  PROVE  Sound(u)
<1>1. u = t \/ u \in Control(Interrupt(t), c)
  BY DEF TakeControl
<1>2. QED
  BY <1>1, InterruptSound, ControlSound

\* tputc: a character is a part of a string or of a sequence, or it is shown.
LEMMA TakeSound ==
  ASSUME NEW t, Sound(t), NEW u \in Take(t)
  PROVE  Sound(u)
<1> DEFINE whole == FullDirt(Changed(t, 0, t.row - 1))
<1>1. CASE "str" \in t.esc
  BY <1>1 DEF Take
<1>2. CASE "str" \notin t.esc /\ "start" \notin t.esc
  <2>1. PICK width \in {1, 2} : u = Put(t, width)
    BY <1>2 DEF Take
  <2>2. Good(Put(t, width)) /\ (InRegion(t) => InRegion(Put(t, width)))
    BY PutKeeps DEF Sound
  <2>3. QED
    BY <2>1, <2>2 DEF Sound
<1>3. CASE "str" \notin t.esc /\ "start" \in t.esc /\ ("csi" \in t.esc \/ "utf8" \in t.esc)
  <2>1. u = t \/ u = [t EXCEPT !.esc = {}]
    BY <1>3 DEF Take
  <2>2. Sound([t EXCEPT !.esc = {}])
    BY ParserSound
  <2>3. QED
    BY <2>1, <2>2
<1>4. CASE "str" \notin t.esc /\ "start" \in t.esc /\ "csi" \notin t.esc /\ "utf8" \notin t.esc /\ "one" \in t.esc
  <2>1. u = [t EXCEPT !.esc = {}] \/ u = [whole EXCEPT !.esc = {}]
    BY <1>4 DEF Take
  <2>2. Sound(whole)
    BY WholeScreenSound
  <2> HIDE DEF whole
  <2>3. Sound([t EXCEPT !.esc = {}]) /\ Sound([whole EXCEPT !.esc = {}])
    BY <2>2, ParserSound
  <2>4. QED
    BY <2>1, <2>3
<1>5. CASE "str" \notin t.esc /\ "start" \in t.esc /\ "csi" \notin t.esc /\ "utf8" \notin t.esc /\ "one" \notin t.esc
  <2>1. \E e \in Escapes : u = Escape(t, e)
    BY <1>5 DEF Take
  <2>2. QED
    BY <2>1, EscapeSound
<1>6. QED
  BY <1>1, <1>2, <1>3, <1>4, <1>5

\* csihandle, at the last character of a sequence.
LEMMA CommandSound ==
  ASSUME NEW t, Sound(t), NEW command \in Commands, NEW p \in Parameters(command),
         NEW u \in Csi([t EXCEPT !.esc = {}], command, p[1], p[2])
  PROVE  Sound(u)
<1>1. PICK n \in Int, k \in Int : n = p[1] /\ k = p[2]
  BY ParametersAreIntegers
<1>2. Sound([t EXCEPT !.esc = {}])
  BY ParserSound
<1>3. QED
  BY <1>1, <1>2, CsiSound

-----------------------------------------------------------------------------
(* The terminal.                                                           *)

\* The inductive invariant: the Term is in order, and no row waits for a mark.
ScreenInv == Sound(term) /\ term.behind = {} /\ (term.shrunk \/ term.dirty = {})

\* What an operation has marked is drawn; if its Term is in order nothing is left over.
LEMMA BecomesSound ==
  ASSUME NEW t, Sound(t), Becomes(t)
  PROVE  ScreenInv'
<1>1. DOMAIN t = Fields /\ Framed(t) /\ OnScreen(t) /\ t.behind \subseteq t.dirty /\ InRegion(t)
  BY DEF Sound, Good, Framed, Marked
<1>2. term' = [t EXCEPT !.behind = t.behind \ t.dirty, !.dirty = t.dirty \ (0..(t.row - 1))]
  BY DEF Becomes
<1>3. /\ Fixed(term', t) /\ term'.c = t.c /\ term'.behind = {} /\ term'.dirty = t.dirty \ (0..(t.row - 1))
  BY <1>1, <1>2 DEF Fixed, Fields
<1>4. Framed(term') /\ (term'.shrunk \/ term'.dirty = {})
  <2>1. t.c \in Cursors /\ (t.shrunk \/ t.dirty \subseteq 0..(t.row - 1))
    BY <1>1 DEF Framed, Rooted
  <2>2. term'.shrunk \/ term'.dirty = {}
    BY <1>3, <2>1 DEF Fixed
  <2>3. Rooted(term')
    BY <1>1, <1>3 DEF Framed, Rooted, Fixed
  <2>4. QED
    BY <1>1, <1>3, <2>1, <2>2, <2>3 DEF Framed, Fixed
<1>5. OnScreen(term') /\ Marked(term') /\ InRegion(term')
  BY <1>1, <1>3 DEF OnScreen, Marked, InRegion, Fixed
<1>6. QED
  BY <1>3, <1>4, <1>5 DEF ScreenInv, Sound, Good

LEMMA ScreenInitially == InitTerminal => ScreenInv
<1> SUFFICES ASSUME InitTerminal PROVE ScreenInv
  OBVIOUS
<1>1. PICK size \in Sizes :
        term = [col |-> size[1], row |-> size[2], c |-> Home, top |-> 0, bot |-> size[2] - 1,
                wrap |-> TRUE, alt |-> FALSE, saved |-> [b \in BOOLEAN |-> Home], esc |-> {},
                history |-> "none", back |-> FALSE, dirty |-> {}, behind |-> {}, bar |-> FALSE, shrunk |-> FALSE]
  BY DEF InitTerminal
<1>2. size[1] \in Nat \ {0} /\ size[2] \in Nat \ {0}
  BY TerminalAssumption
<1>3. Home \in Cursors
  BY DEF Home, Cursors
<1>4. Home.x = 0 /\ Home.y = 0 /\ ~Home.origin
  BY DEF Home
<1>5. [b \in BOOLEAN |-> Home] \in [BOOLEAN -> Cursors]
  BY <1>3
<1>6. /\ DOMAIN term = Fields /\ term.col = size[1] /\ term.row = size[2] /\ term.c = Home
      /\ term.top = 0 /\ term.bot = size[2] - 1 /\ term.alt = FALSE
      /\ term.saved = [b \in BOOLEAN |-> Home] /\ term.behind = {} /\ term.dirty = {} /\ term.shrunk = FALSE
  BY <1>1 DEF Fields
<1>7. Framed(term)
  <2>1. /\ size[2] - 1 \in Int /\ 0 <= size[2] - 1 /\ size[2] - 1 < size[2]
    BY <1>2
  <2>2. term.saved \in [BOOLEAN -> Cursors] /\ term.c \in Cursors /\ term.alt \in BOOLEAN
    BY <1>3, <1>5, <1>6
  <2>3. 0 \in 0..(size[2] - 1) /\ \A b \in BOOLEAN : term.saved[b].y = 0
    BY <1>2, <1>4, <1>6
  <2>4. Rooted(term)
    BY <1>4, <1>6, <2>3 DEF Rooted
  <2>5. /\ term.row \in Nat \ {0} /\ term.col \in Nat \ {0}
        /\ term.top \in Int /\ term.bot \in Int /\ 0 <= term.top /\ term.top <= term.bot /\ term.bot < term.row
    BY <1>2, <1>6, <2>1
  <2>6. term.shrunk \in BOOLEAN
    BY <1>6
  <2>7. QED
    BY <1>6, <2>2, <2>4, <2>5, <2>6 DEF Framed
<1>8. OnScreen(term) /\ Marked(term) /\ InRegion(term)
  BY <1>2, <1>6, <1>4 DEF OnScreen, Marked, InRegion
<1>9. QED
  BY <1>6, <1>7, <1>8 DEF ScreenInv, Sound, Good

LEMMA SnapSound ==
  ASSUME NEW t, Sound(t), NEW back
  PROVE  Sound(Snap(t)) /\ Sound([FullDirt(t) EXCEPT !.back = back, !.behind = 0..(t.row - 1)])
<1>1. ASSUME NEW b PROVE Sound([FullDirt(t) EXCEPT !.back = b, !.behind = 0..(t.row - 1)])
  <2> DEFINE d == FullDirt(t)
             rows == 0..(t.row - 1)
             u == [d EXCEPT !.back = b, !.behind = rows]
  <2>1. Still(d, t) /\ rows \subseteq d.dirty
    BY FullDirtMarks DEF Sound, Good
  <2> HIDE DEF d, rows
  <2>2. DOMAIN d = Fields
    BY <2>1 DEF Still, Fixed
  <2>3. Still(u, d) /\ u.dirty = d.dirty /\ u.behind = rows
    BY <2>2 DEF Still, Fixed, Fields
  <2> HIDE DEF u
  <2>4. Still(u, t) /\ u.behind \subseteq u.dirty
    BY <2>1, <2>3, StillTwice
  <2>5. QED
    BY <2>4, StillIsGood DEF Sound, u, d, rows
<1>2. QED
  BY <1>1 DEF Snap

LEMMA ResizeSound == ScreenInv /\ Resize => ScreenInv'
<1> SUFFICES ASSUME ScreenInv, Resize PROVE ScreenInv'
  OBVIOUS
<1>1. PICK size \in Sizes :
        LET t == [term EXCEPT !.col = size[1], !.row = size[2], !.behind = 0..(size[2] - 1),
                          !.shrunk = term.shrunk \/ size[2] < term.row]
            s == MoveTo(SetScroll(t, 0, size[2] - 1), term.c.x, term.c.y)
            twice == Load(SwapScreen(Load(SwapScreen(s))))
        IN Becomes([twice EXCEPT !.c = s.c])
  BY DEF Resize
<1> DEFINE t == [term EXCEPT !.col = size[1], !.row = size[2], !.behind = 0..(size[2] - 1),
                          !.shrunk = term.shrunk \/ size[2] < term.row]
           r == SetScroll(t, 0, size[2] - 1)
           s == MoveTo(r, term.c.x, term.c.y)
           once == Load(SwapScreen(s))
           twice == Load(SwapScreen(once))
           u == [twice EXCEPT !.c = s.c]
<1>2. Becomes(u)
  BY <1>1
<1>3. size[1] \in Nat \ {0} /\ size[2] \in Nat \ {0} /\ 0 \in Int /\ size[2] - 1 \in Int
  BY TerminalAssumption
<1>4. /\ DOMAIN term = Fields /\ term.alt \in BOOLEAN /\ term.saved \in [BOOLEAN -> Cursors] /\ term.c \in Cursors
      /\ term.row \in Nat \ {0} /\ term.shrunk \in BOOLEAN /\ Rooted(term)
  BY DEF ScreenInv, Sound, Good, Framed
<1>5. term.c.x \in Int /\ term.c.y \in Int
  BY <1>4 DEF Cursors
<1>6. /\ DOMAIN t = Fields /\ t.col = size[1] /\ t.row = size[2] /\ t.alt = term.alt /\ t.saved = term.saved
      /\ t.c = term.c /\ t.behind = 0..(size[2] - 1) /\ t.dirty = term.dirty
      /\ t.shrunk = (term.shrunk \/ size[2] < term.row)
  BY <1>4 DEF Fields
<1> HIDE DEF t
<1>7. /\ Framed(r) /\ r.behind = t.behind /\ r.row = t.row
  <2>1. ASSUME ~t.shrunk PROVE ~term.shrunk /\ 0..(term.row - 1) \subseteq 0..(size[2] - 1)
    <3>1. ~term.shrunk /\ ~(size[2] < term.row)
      BY <1>6, <2>1
    <3>2. QED
      BY <1>3, <1>4, <3>1
  <2>2. Rooted(t)
    BY <1>4, <1>6, <2>1 DEF Rooted
  <2>3. t.shrunk \in BOOLEAN
    BY <1>6
  <2>4. /\ DOMAIN t = Fields /\ t.col \in Nat \ {0} /\ t.row \in Nat \ {0} /\ t.alt \in BOOLEAN
        /\ t.saved \in [BOOLEAN -> Cursors] /\ t.c \in Cursors
    BY <1>3, <1>4, <1>6
  <2>5. PICK last \in Int : last = size[2] - 1
    BY <1>3
  <2>6. LET v == SetScroll(t, 0, last) IN Framed(v) /\ v.behind = t.behind /\ v.row = t.row
    BY <2>2, <2>3, <2>4, SetScrollKeeps
  <2>7. QED
    BY <2>5, <2>6
<1> HIDE DEF r
<1>8. /\ Framed(s) /\ OnScreen(s) /\ InRegion(s) /\ s.behind = 0..(s.row - 1)
  <2>1. LET v == MoveTo(r, term.c.x, term.c.y) IN
        /\ Framed(v) /\ OnScreen(v) /\ InRegion(v) /\ Fixed(v, r) /\ v.behind = r.behind
    BY <1>5, <1>7, MoveToKeeps
  <2>2. QED
    BY <1>6, <1>7, <2>1 DEF Fixed
<1> HIDE DEF s
<1>9. ASSUME NEW v, Framed(v), Marked(v) \/ v.behind = 0..(v.row - 1)
      PROVE  LET w == Load(SwapScreen(v)) IN
             /\ Framed(w) /\ Marked(w) /\ w.col = v.col /\ w.row = v.row /\ w.top = v.top /\ w.bot = v.bot
  <2> DEFINE x == SwapScreen(v)
             w == Load(x)
  <2>1. Framed(x) /\ Marked(x) /\ x.col = v.col /\ x.row = v.row /\ x.top = v.top /\ x.bot = v.bot
    BY <1>9, SwapScreenKeeps
  <2> HIDE DEF x
  <2>2. /\ Framed(w) /\ w.behind = x.behind /\ x.dirty \subseteq w.dirty
        /\ w.col = x.col /\ w.row = x.row /\ w.top = x.top /\ w.bot = x.bot
    BY <2>1, LoadKeeps
  <2>3. QED
    BY <2>1, <2>2 DEF Marked, x
<1>10. Framed(once) /\ Marked(once) /\ once.col = s.col /\ once.row = s.row /\ once.top = s.top /\ once.bot = s.bot
  BY <1>8, <1>9
<1> HIDE DEF once
<1>11. Framed(twice) /\ Marked(twice) /\ twice.col = s.col /\ twice.row = s.row /\ twice.top = s.top /\ twice.bot = s.bot
  BY <1>9, <1>10
<1> HIDE DEF twice
<1>12. DOMAIN twice = Fields /\ s.c \in Cursors
  BY <1>8, <1>11 DEF Framed
<1>13. Fixed(u, twice) /\ u.c = s.c /\ u.behind = twice.behind /\ u.dirty = twice.dirty
  BY <1>12 DEF Fixed, Fields
<1> HIDE DEF u
<1>14. Framed(u) /\ Marked(u)
  <2>1. twice.shrunk \/ (u.c.y \in 0..(twice.row - 1) /\ u.dirty \subseteq twice.dirty \union (0..(twice.row - 1)))
    BY <1>8, <1>11, <1>13 DEF OnScreen
  <2>2. QED
    BY <1>11, <1>12, <1>13, <2>1, FixedIsFramed DEF Marked
<1>15. OnScreen(u) /\ InRegion(u)
  BY <1>8, <1>11, <1>13 DEF OnScreen, InRegion, Fixed
<1>16. QED
  BY <1>2, <1>14, <1>15, BecomesSound DEF Sound, Good

\* A bar: the Term it is drawn with is in order but for the region, and the restored
\* cursor fits the Term it came from.
LEMMA BarStartGood ==
  ASSUME ScreenInv
  PROVE  LET t == BarStart(term) IN
         /\ Good(t) /\ Fixed(t, term) /\ t.c.x = 0 /\ (t.c.wrapnext <=> term.c.wrapnext) /\ t.history = term.history
<1> DEFINE corner == [term.c EXCEPT !.x = 0, !.y = 0]
           start == [term EXCEPT !.c = corner, !.esc = {}, !.bar = TRUE]
<1>1. DOMAIN term = Fields /\ term.c \in Cursors /\ Framed(term) /\ OnScreen(term) /\ Marked(term) /\ InRegion(term)
  BY DEF ScreenInv, Sound, Good, Framed
<1>2. BarStart(term) = start
  BY <1>1 DEF BarStart, Fields, Cursors
<1>3. corner \in Cursors
  <2>1. \A i, j \in Int : [term.c EXCEPT !.x = i, !.y = j] \in Cursors
    BY <1>1 DEF Cursors
  <2>2. 0 \in Int
    OBVIOUS
  <2>3. QED
    BY <2>1, <2>2, Zenon
<1>4. corner.x = 0 /\ corner.y = 0 /\ (corner.wrapnext <=> term.c.wrapnext)
  <2>1. DOMAIN term.c = {"x", "y", "wrapnext", "origin"}
    BY <1>1 DEF Cursors
  <2>2. QED
    BY <2>1
<1> HIDE DEF corner
<1>5. /\ Fixed(start, term) /\ start.c = corner /\ start.behind = term.behind /\ start.dirty = term.dirty
      /\ start.history = term.history
  BY <1>1 DEF Fixed, Fields
<1> HIDE DEF start
<1>6. term.col \in Nat \ {0} /\ term.row \in Nat \ {0}
  BY <1>1 DEF Framed
<1>7. 0 \in 0..(term.col - 1) /\ 0 \in 0..(term.row - 1)
  BY <1>6
<1>8. Framed(start)
  <2>1. term.shrunk \/ (start.c.y \in 0..(term.row - 1) /\ start.dirty \subseteq term.dirty \union (0..(term.row - 1)))
    BY <1>4, <1>5, <1>7
  <2>2. QED
    BY <1>1, <1>3, <1>5, <2>1, FixedIsFramed
<1>9. OnScreen(start) /\ Marked(start)
  BY <1>1, <1>4, <1>5, <1>7 DEF OnScreen, Marked, Fixed
<1>10. QED
  BY <1>2, <1>4, <1>5, <1>8, <1>9 DEF Good

LEMMA DrawBarSound ==
  ASSUME ScreenInv, DrawBar
  PROVE  ScreenInv'
<1>1. PICK n \in 0..BarLength, width \in {1, 2} : Bar(n, width)
  BY DEF DrawBar
<1> DEFINE start == BarStart(term)
           after == Shown(start, width, n)
           u == Restore(term, after)
<1>2. DOMAIN term = Fields /\ term.c \in Cursors /\ Framed(term) /\ OnScreen(term) /\ Marked(term) /\ InRegion(term)
  BY DEF ScreenInv, Sound, Good, Framed
<1>3. Good(start) /\ Fixed(start, term)
  BY BarStartGood
<1> HIDE DEF start
<1>4. n \in Nat
  BY TerminalAssumption
<1>5. Good(after) /\ Fixed(after, term)
  <2>1. Good(after) /\ Fixed(after, start)
    BY <1>3, <1>4, ShownKeeps
  <2>2. QED
    BY <1>3, <2>1 DEF Fixed
<1>6. Becomes(u)
  BY <1>1 DEF Bar, start
<1> HIDE DEF after
<1>7. DOMAIN after = Fields
  BY <1>5 DEF Fixed
<1>8. Fixed(u, after) /\ u.c = term.c /\ u.behind = after.behind /\ u.dirty = after.dirty
  BY <1>7 DEF Fixed, Fields, Restore
<1> HIDE DEF u
<1>9. Framed(u)
  <2>1. after.shrunk \/ (u.c.y \in 0..(after.row - 1) /\ u.dirty \subseteq after.dirty \union (0..(after.row - 1)))
    BY <1>2, <1>5, <1>8 DEF OnScreen, Fixed
  <2>2. QED
    BY <1>2, <1>5, <1>8, <2>1, FixedIsFramed DEF Good
<1>10. OnScreen(u) /\ Marked(u) /\ InRegion(u)
  BY <1>2, <1>5, <1>8 DEF Good, OnScreen, Marked, InRegion, Fixed
<1>11. Sound(u)
  BY <1>9, <1>10 DEF Sound, Good
<1>12. QED
  BY <1>6, <1>11, BecomesSound

\* Every step of the terminal keeps it.
THEOREM ScreenInvariance == SpecTerminal => []ScreenInv
<1>1. ScreenInv /\ [NextTerminal]_term => ScreenInv'
  <2> SUFFICES ASSUME ScreenInv, [NextTerminal]_term PROVE ScreenInv'
    OBVIOUS
  <2>1. Sound(term)
    BY DEF ScreenInv
  <2>8. CASE Sequence
    <3>1. PICK command \in Commands : \E p \in Parameters(command) :
            \E t \in Csi([Snap(term) EXCEPT !.esc = {}], command, p[1], p[2]) : Becomes(t)
      BY <2>8 DEF Sequence
    <3>5. PICK p \in Parameters(command) :
            \E t \in Csi([Snap(term) EXCEPT !.esc = {}], command, p[1], p[2]) : Becomes(t)
      BY <3>1
    <3>2. PICK t \in Csi([Snap(term) EXCEPT !.esc = {}], command, p[1], p[2]) : Becomes(t)
      BY <3>5
    <3>3. Sound(t)
      BY <2>1, <3>2, SnapSound, CommandSound
    <3>4. QED
      BY <3>2, <3>3, BecomesSound
  <2>2. CASE Write
    <3>1. PICK t \in Take(Snap(term)) : Becomes(t)
      BY <2>2 DEF Write
    <3>2. Sound(t)
      BY <2>1, <3>1, SnapSound, TakeSound
    <3>3. QED
      BY <3>1, <3>2, BecomesSound
  <2>3. CASE WriteControl
    <3>1. PICK c \in Controls : \E t \in TakeControl(Snap(term), c) : Becomes(t)
      BY <2>3 DEF WriteControl
    <3>2. PICK t \in TakeControl(Snap(term), c) : Becomes(t)
      BY <3>1
    <3>3. Sound(t)
      BY <2>1, <3>1, <3>2, SnapSound, TakeControlSound
    <3>4. QED
      BY <3>2, <3>3, BecomesSound
  <2>4. CASE ScrollBack
    <3>1. PICK back \in BOOLEAN : Becomes([FullDirt(term) EXCEPT !.back = back, !.behind = 0..(term.row - 1)])
      BY <2>4 DEF ScrollBack
    <3>2. QED
      BY <2>1, <3>1, SnapSound, BecomesSound
  <2>5. CASE Resize
    BY <2>5, ResizeSound
  <2>6. CASE DrawBar
    BY <2>6, DrawBarSound
  <2>7. CASE UNCHANGED term
    BY <2>7 DEF ScreenInv
  <2>9. QED
    BY <2>2, <2>3, <2>4, <2>5, <2>6, <2>7, <2>8 DEF NextTerminal
<1>2. QED
  BY <1>1, ScreenInitially, PTL DEF SpecTerminal

\* Whatever sequences arrive, with whatever parameters, and whatever the fonts, the
\* cursor is on the screen and, in origin mode, in a region that is a part of it; and
\* until a font has taken rows away, only rows of the screen are marked.
THEOREM CursorStaysInside == SpecTerminal => []CursorInside
<1>1. ScreenInv => CursorInside
  BY DEF ScreenInv, Sound, Good, Framed, OnScreen, InRegion, CursorInside
<1>2. QED
  BY <1>1, ScreenInvariance, PTL

\* No row whose cells changed is left out of the next draw().
THEOREM ChangesStayDrawn == SpecTerminal => []ChangesAreDrawn
<1>1. ScreenInv => ChangesAreDrawn
  BY DEF ScreenInv, ChangesAreDrawn
<1>2. QED
  BY <1>1, ScreenInvariance, PTL

-----------------------------------------------------------------------------
(* A bar that has room.                                                    *)

\* tputc, of what fits: there is no new line, and the cursor is past it.
LEMMA PutFits ==
  ASSUME NEW t, Good(t), NEW width \in {1, 2}, ~t.c.wrapnext, t.c.x + width <= t.col
  PROVE  LET u == Put(t, width) IN
         /\ u.history = t.history
         /\ t.c.x + width < t.col => (u.c.x = t.c.x + width /\ ~u.c.wrapnext)
<1> DEFINE d == SetDirt(t, t.c.y, t.c.y)
           c == Changed(d, t.c.y, t.c.y)
           u == Put(t, width)
<1>1. DOMAIN t = Fields /\ t.c \in Cursors /\ t.col \in Nat \ {0} /\ OnScreen(t)
  BY DEF Good, Framed
<1>2. u = IF c.c.x + width < c.col THEN MoveTo(c, c.c.x + width, c.c.y) ELSE [c EXCEPT !.c.wrapnext = TRUE]
  BY DEF Put
<1>3. DOMAIN d = Fields /\ d.c = t.c /\ d.col = t.col /\ d.history = t.history
  BY <1>1 DEF SetDirt, Fields
<1> HIDE DEF d
<1>4. DOMAIN c = Fields /\ c.c = t.c /\ c.col = t.col /\ c.history = t.history
  BY <1>3 DEF Changed, Fields
<1> HIDE DEF c
<1>5. CASE t.c.x + width < t.col
  <2> DEFINE v == MoveTo(c, t.c.x + width, t.c.y)
  <2>1. u = v
    BY <1>2, <1>4, <1>5
  <2>2. Within(t.c.x + width, 0, c.col - 1) = t.c.x + width
    BY <1>1, <1>4, <1>5 DEF Within, OnScreen
  <2>3. PICK y, marks : v = [c EXCEPT !.c = [c.c EXCEPT !.x = Within(t.c.x + width, 0, c.col - 1), !.y = y, !.wrapnext = FALSE],
                                      !.dirty = marks]
    BY DEF MoveTo
  <2> HIDE DEF v
  <2>4. v.history = c.history /\ v.c = [t.c EXCEPT !.x = t.c.x + width, !.y = y, !.wrapnext = FALSE]
    BY <1>4, <2>2, <2>3 DEF Fields
  <2>5. v.c.x = t.c.x + width /\ ~v.c.wrapnext
    BY <1>1, <2>4 DEF Cursors
  <2>6. QED
    BY <1>4, <2>1, <2>4, <2>5
<1>6. CASE ~(t.c.x + width < t.col)
  <2>1. u = [c EXCEPT !.c.wrapnext = TRUE]
    BY <1>2, <1>4, <1>6
  <2>2. QED
    BY <1>4, <1>6, <2>1 DEF Fields
<1>7. QED
  BY <1>5, <1>6

\* Columns that i characters take.
Taken(i, width) == IF width = 1 THEN i ELSE i + i

\* Any number of characters that fit between the first column and the last.
LEMMA ShownFits ==
  ASSUME NEW t, Good(t), t.c.x = 0, ~t.c.wrapnext, NEW width \in {1, 2}, NEW m \in Nat, m * width <= t.col
  PROVE  Shown(t, width, m).history = t.history
<1>1. \E g : IsShown(g, t, width, m)
  BY ShownExists
<1> DEFINE f == CHOOSE g : IsShown(g, t, width, m)
           Along(n) == /\ Good(f[n]) /\ f[n].col = t.col /\ f[n].history = t.history
                       /\ Taken(n, width) < t.col => (f[n].c.x = Taken(n, width) /\ ~f[n].c.wrapnext)
           T == {n \in Nat : n <= m => Along(n)}
<1>2. Shown(t, width, m) = f[m]
  BY Zenon DEF Shown, ShownTo, IsShown
<1>3. IsShown(f, t, width, m)
  BY <1>1, Zenon
<1> HIDE DEF f
<1>4. \A i \in 0..m : f[i] = ShownTo(f, t, width, i)
  BY <1>3, Zenon DEF IsShown
<1>5. t.col \in Nat \ {0} /\ Taken(m, width) <= t.col
  BY DEF Good, Framed, Taken
<1>6. 0 \in T
  <2>1. f[0] = t
    BY <1>4 DEF ShownTo
  <2>2. Taken(0, width) = 0
    BY DEF Taken
  <2>3. QED
    BY <2>1, <2>2
<1>7. ASSUME NEW n \in Nat, n \in T PROVE n + 1 \in T
  <2> SUFFICES ASSUME n + 1 <= m PROVE Along(n + 1)
    OBVIOUS
  <2>1. n + 1 \in 0..m /\ n + 1 # 0 /\ (n + 1) - 1 = n /\ n <= m
    OBVIOUS
  <2>2. Along(n)
    BY <1>7, <2>1
  <2>3. f[n + 1] = Put(f[n], width)
    BY <1>4, <2>1 DEF ShownTo
  <2>4. /\ Taken(n, width) \in Nat /\ Taken(n + 1, width) = Taken(n, width) + width
        /\ Taken(n, width) < t.col /\ Taken(n + 1, width) <= t.col
    BY <1>5, <2>1 DEF Taken
  <2>5. LET u == Put(f[n], width) IN Good(u) /\ Fixed(u, f[n])
    BY <2>2, PutKeeps
  <2>6. LET u == Put(f[n], width) IN
        /\ u.history = f[n].history
        /\ f[n].c.x + width < f[n].col => (u.c.x = f[n].c.x + width /\ ~u.c.wrapnext)
    BY <2>2, <2>4, PutFits
  <2>7. QED
    BY <2>2, <2>3, <2>4, <2>5, <2>6 DEF Fixed
<1> HIDE DEF T
<1>8. m \in T
  BY <1>6, <1>7, NaturalsClosed
<1>9. QED
  BY <1>2, <1>8 DEF T

\* A bar of any length that fits its row keeps out of the history, whatever the program's
\* cursor, region and modes are.
THEOREM BarsKeepOut == SpecTerminal => BarsLeaveHistory
<1>1. ASSUME ScreenInv, ~term.c.wrapnext, NEW n \in 0..BarLength, NEW width \in {1, 2},
             n * width <= term.col, Bar(n, width)
      PROVE  term'.history = term.history
  <2> DEFINE start == BarStart(term)
             after == Shown(start, width, n)
             u == Restore(term, after)
  <2>1. Good(start) /\ Fixed(start, term) /\ start.c.x = 0 /\ ~start.c.wrapnext /\ start.history = term.history
    BY <1>1, BarStartGood
  <2> HIDE DEF start
  <2>2. n \in Nat /\ n * width <= start.col
    BY <1>1, <2>1, TerminalAssumption DEF Fixed
  <2>3. after.history = start.history
    BY <2>1, <2>2, ShownFits
  <2>9. Good(after)
    BY <2>1, <2>2, ShownKeeps
  <2>4. DOMAIN after = Fields
    BY <2>9 DEF Good, Framed
  <2>5. term' = [u EXCEPT !.behind = u.behind \ u.dirty, !.dirty = u.dirty \ (0..(u.row - 1))]
    BY <1>1 DEF Bar, Becomes, start
  <2> HIDE DEF after
  <2>6. DOMAIN u = Fields /\ u.history = after.history
    BY <2>4 DEF Fields, Restore
  <2> HIDE DEF u
  <2>7. term'.history = u.history
    BY <2>5, <2>6 DEF Fields
  <2>8. QED
    BY <2>1, <2>3, <2>6, <2>7
<1>2. ScreenInv /\ [NextTerminal]_term =>
        [\/ term'.history = term.history \/ term.c.wrapnext
         \/ \A n \in 0..BarLength, width \in {1, 2} : n * width <= term.col => ~Bar(n, width)]_term
  BY <1>1
<1>3. QED
  BY <1>2, ScreenInvariance, PTL DEF SpecTerminal, BarsLeaveHistory
=============================================================================
