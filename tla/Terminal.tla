------------------------------ MODULE Terminal ------------------------------
(***************************************************************************)
(* The terminal engine, src/modules/modvt/st.c, and the status bars that   *)
(* fb.c draws through the same parser.  Output arrives a character at a    *)
(* time, in writes of any length; between two writes a timer callback may  *)
(* draw a bar, redraw the screen, scroll back, or change the font.         *)
(*                                                                         *)
(* Each function of st.c is an operator on the Term.  What the cells hold  *)
(* is left out; kept are the rows whose cells change, and the rows marked  *)
(* dirty.  A mark stays until draw() clears it, so a row is drawn after a  *)
(* change if the operation that changed it marked it: dirty is what one    *)
(* operation marks.  Modes that only say which of two things a character   *)
(* does (LNM, UTF-8) are left out with what they are set by: either        *)
(* happens.                                                                *)
(***************************************************************************)
EXTENDS Integers

CONSTANTS
  Sizes,      \* <<columns, rows>> of the fonts
  Args,       \* bound: parameters of the sequences; 0 and below included
  BarLength   \* bound: characters of a status bar

ASSUME TerminalAssumption ==
  /\ Sizes \subseteq (Nat \ {0}) \X (Nat \ {0}) /\ Sizes # {}
  /\ Args \subseteq Int /\ BarLength \in Nat

VARIABLE
  term   \* the Term, and: saved, tcursor()'s c[2], without WRAPNEXT, which a load clears;
         \* history, whose rows it has; bar, whether line is the bar's; shrunk, whether rows
         \* have been lost; behind, the rows whose cells changed without being marked

Within(i, low, high) == IF i < low THEN low ELSE IF i > high THEN high ELSE i   \* LIMIT
Lower(i, j) == IF i < j THEN i ELSE j

\* Cells of the rows from i to j change; they are marked dirty.  While a bar is drawn
\* the cells are the bar's.
Changed(t, i, j) == [t EXCEPT !.behind = IF t.bar THEN @ ELSE @ \union ((i..j) \intersect (0..(t.row - 1)))]
SetDirt(t, i, j) == [t EXCEPT !.dirty = @ \union (Within(i, 0, t.row - 1)..Within(j, 0, t.row - 1))]
FullDirt(t) == SetDirt(t, 0, t.row - 1)

\* tmoveto.  The row the cursor was on is marked before the new one is limited, whether
\* or not the screen still has it.
MoveTo(t, x, y) ==
  LET to == IF t.c.origin THEN Within(y, t.top, t.bot) ELSE Within(y, 0, t.row - 1) IN
  [t EXCEPT !.c = [@ EXCEPT !.x = Within(x, 0, t.col - 1), !.y = to, !.wrapnext = FALSE],
            !.dirty = @ \union {t.c.y, to}]

MoveToA(t, x, y) == MoveTo(t, x, IF t.c.origin THEN y + t.top ELSE y)

\* tclearregion: the corners may come in either order.
Clear(t, y1, y2) ==
  LET from == Within(Lower(y1, y2), 0, t.row - 1)
      to   == Within(y1 + y2 - Lower(y1, y2), 0, t.row - 1)
  IN Changed(SetDirt(t, from, to), from, to)

ClearAll(t) == Clear(t, 0, t.row - 1)

\* A row that leaves the screen goes to the history.
Keep(t) == [t EXCEPT !.history = IF t.bar \/ @ = "bar" THEN "bar" ELSE "own"]

\* Slip: the last row of the region is forgotten.
RowsBelowLess(t, orig, n) == SetDirt(t, orig + n, t.bot - 1)
RowsBelow(t, orig, n) == SetDirt(t, orig + n, t.bot)

ScrollUp(t, orig, lines, copyhist) ==
  LET n == Within(lines, 0, t.bot - orig + 1)
      k == IF copyhist THEN Keep(t) ELSE t
  IN Changed(RowsBelow(Clear(k, orig, orig + n - 1), orig, n), orig, IF n > 0 THEN t.bot ELSE orig - 1)

ScrollDown(t, orig, lines, copyhist) ==
  LET n == Within(lines, 0, t.bot - orig + 1)
      k == IF copyhist THEN Keep(t) ELSE t
  IN Changed(Clear(SetDirt(k, orig, t.bot - n), t.bot - n + 1, t.bot), orig, IF n > 0 THEN t.bot ELSE orig - 1)

NewLine(t, firstcol) ==
  LET s == IF t.c.y = t.bot THEN ScrollUp(t, t.top, 1, TRUE) ELSE t IN
  MoveTo(s, IF firstcol THEN 0 ELSE t.c.x, IF t.c.y = t.bot THEN t.c.y ELSE t.c.y + 1)

SwapScreen(t) == FullDirt([t EXCEPT !.alt = ~@, !.behind = IF t.bar THEN @ ELSE 0..(t.row - 1)])

\* tcursor.
Save(t) == [t EXCEPT !.saved[t.alt] = [t.c EXCEPT !.wrapnext = FALSE]]
Load(t) == MoveTo([t EXCEPT !.c = t.saved[t.alt]], t.saved[t.alt].x, t.saved[t.alt].y)

SetScroll(t, a, b) ==
  LET i == Within(a, 0, t.row - 1)
      j == Within(b, 0, t.row - 1)
  IN [t EXCEPT !.top = Lower(i, j), !.bot = i + j - Lower(i, j)]

\* tputtab: from tab stop to tab stop, which are anywhere; WRAPNEXT stays.
PutTab(t, x) == [t EXCEPT !.c.x = x]
TabStops(t, n) == {x \in 0..(t.col - 1) : IF n > 0 THEN x > t.c.x \/ x = t.col - 1
                                          ELSE IF n < 0 THEN x < t.c.x \/ x = 0 ELSE x = t.c.x}

\* tputc, of a character that is shown, one or two columns wide.
Put(t, width) ==
  LET a == IF t.wrap /\ t.c.wrapnext THEN NewLine(t, TRUE) ELSE t
      b == IF a.c.x + width <= a.col THEN a
           ELSE IF a.wrap THEN NewLine(a, TRUE) ELSE MoveTo(a, a.col - width, a.c.y)
      c == Changed(SetDirt(b, b.c.y, b.c.y), b.c.y, b.c.y)
  IN IF c.c.x + width < c.col THEN MoveTo(c, c.c.x + width, c.c.y) ELSE [c EXCEPT !.c.wrapnext = TRUE]

Shown(t, width, n) == LET after[i \in 0..n] == IF i = 0 THEN t ELSE Put(after[i - 1], width) IN after[n]

Default(n, d) == IF n = 0 THEN d ELSE n

-----------------------------------------------------------------------------
(* Sequences.                                                              *)

\* tsetmode 1049, 47 and 1047, 1048.
AltScreen(t, set) ==
  LET s == IF t.alt THEN ClearAll(t) ELSE t IN
  IF set # t.alt THEN SwapScreen(s) ELSE s
SaveOrLoad(t, set) == IF set THEN Save(t) ELSE Load(t)
AltScreenAndCursor(t, set) == SaveOrLoad(AltScreen(SaveOrLoad(t, set), set), set)

\* Slip: the cursor stays where it is.
RegionOnly(t, a, b) == SetScroll(t, a, b)
\* DECSTBM.
Region(t, a, b) == MoveToA(SetScroll(t, a, b), 0, 0)

ResetTerminal(t) ==
  LET home(s) == SwapScreen(ClearAll(Save(MoveTo(s, 0, 0)))) IN
  home(home([t EXCEPT !.c = [x |-> 0, y |-> 0, wrapnext |-> FALSE, origin |-> FALSE],
                      !.top = 0, !.bot = t.row - 1, !.wrap = TRUE, !.alt = FALSE]))

\* csihandle: what a final character does, with its first two parameters.  REP repeats
\* the last character shown, of either width, if nothing has come between.
Commands == {"CUU", "CUD", "CUF", "CUB", "CNL", "CPL", "CHA", "VPA", "CUP", "ED", "ED1", "ED2", "EL",
             "IL", "DL", "SU", "SD", "edit", "CHT", "CBT", "REP", "STBM", "SCP", "RCP", "ORIGIN", "WRAP", "1049", "47", "1048", "other"}
Parameters(command) ==
  CASE command \in {"CUP", "STBM"} -> Args \X Args
    [] command \in {"ED", "ED1", "ED2", "EL", "edit", "SCP", "RCP", "other"} -> {<<0, 0>>}
    [] OTHER -> Args \X {0}
Csi(t, command, n, k) ==
  LET one == Default(n, 1)
      set == n > 0
      here == t.c.y \in t.top..t.bot
  IN
  CASE command = "CUU"  -> {MoveTo(t, t.c.x, t.c.y - one)}
    [] command = "CUD"  -> {MoveTo(t, t.c.x, t.c.y + one)}
    [] command = "CUF"  -> {MoveTo(t, t.c.x + one, t.c.y)}
    [] command = "CUB"  -> {MoveTo(t, t.c.x - one, t.c.y)}
    [] command = "CNL"  -> {MoveTo(t, 0, t.c.y + one)}
    [] command = "CPL"  -> {MoveTo(t, 0, t.c.y - one)}
    [] command = "CHA"  -> {MoveTo(t, one - 1, t.c.y)}
    [] command = "VPA"  -> {MoveToA(t, t.c.x, one - 1)}
    [] command = "CUP"  -> {MoveToA(t, Default(k, 1) - 1, one - 1)}
    [] command = "ED"   -> {IF t.c.y < t.row - 1 THEN Clear(Clear(t, t.c.y, t.c.y), t.c.y + 1, t.row - 1)
                            ELSE Clear(t, t.c.y, t.c.y)}
    [] command = "ED1"  -> {Clear(IF t.c.y > 0 THEN Clear(t, 0, t.c.y - 1) ELSE t, t.c.y, t.c.y)}
    [] command = "ED2"  -> {ClearAll(t)}
    [] command = "EL"   -> {Clear(t, t.c.y, t.c.y)}
    [] command = "edit" -> {Clear(t, t.c.y, t.c.y)}   \* ICH, DCH, ECH
    [] command = "IL"   -> {IF here THEN ScrollDown(t, t.c.y, one, FALSE) ELSE t}
    [] command = "DL"   -> {IF here THEN ScrollUp(t, t.c.y, one, FALSE) ELSE t}
    [] command = "SU"   -> {ScrollUp(t, t.top, one, FALSE)}
    [] command = "SD"   -> {ScrollDown(t, t.top, one, FALSE)}
    [] command = "CHT"  -> {PutTab(t, x) : x \in TabStops(t, one)}
    [] command = "CBT"  -> {PutTab(t, x) : x \in TabStops(t, -one)}
    [] command = "REP"  -> {t} \union {Shown(t, width, Within(n, 1, 65535)) : width \in {1, 2}}
    [] command = "STBM" -> {Region(t, one - 1, Default(k, t.row) - 1)}
    [] command = "SCP"  -> {Save(t)}
    [] command = "RCP"  -> {Load(t)}
    [] command = "ORIGIN" -> {MoveToA([t EXCEPT !.c.origin = set], 0, 0)}
    [] command = "WRAP" -> {[t EXCEPT !.wrap = set]}
    [] command = "1049" -> {AltScreenAndCursor(t, set)}
    [] command = "47"   -> {AltScreen(t, set)}
    [] command = "1048" -> {SaveOrLoad(t, set)}
    [] command = "other" -> {t}                       \* SGR, other modes, reports, unknown ones

\* tstrsequence.  A string takes every character until it ends, START with it, and of a
\* sequence it came in the middle of only ESC % is still read then.
BeginString(t) == [t EXCEPT !.esc = (@ \intersect {"utf8"}) \union {"str"}]

\* eschandle: what follows an ESC.
Escapes == {"[", "]", "(", "%", "IND", "NEL", "RI", "RIS", "DECSC", "DECRC", "ST", "?"}
Escape(t, e) ==
  LET done == [t EXCEPT !.esc = {}] IN
  CASE e = "["  -> [t EXCEPT !.esc = @ \union {"csi"}]
    [] e = "]"  -> BeginString(t)
    [] e = "("  -> [t EXCEPT !.esc = @ \union {"one"}]     \* and ESC #
    [] e = "%"  -> [t EXCEPT !.esc = @ \union {"utf8"}]
    [] e = "IND" -> IF t.c.y = t.bot THEN ScrollUp(done, t.top, 1, TRUE) ELSE MoveTo(done, t.c.x, t.c.y + 1)
    [] e = "NEL" -> NewLine(done, TRUE)
    [] e = "RI" -> IF t.c.y = t.top THEN ScrollDown(done, t.top, 1, TRUE) ELSE MoveTo(done, t.c.x, t.c.y - 1)
    [] e = "RIS" -> ResetTerminal(done)
    [] e = "DECSC" -> Save(done)
    [] e = "DECRC" -> Load(done)
    [] e \in {"ST", "?"} -> done

\* tcontrolcode.  SUB shows a '?'; a backspace in the first column goes to the row
\* above if that row wraps; LF goes to the first column in LNM.  In UTF-8 mode a C1
\* control does nothing; in the other one NEL is a new line, DCS, OSC, PM and APC begin a
\* string, and each of the rest ends one.
Controls == {"HT", "BS", "CR", "LF", "BEL", "ESC", "SUB", "CAN", "C1", "SI"}
Interrupt(t) == [t EXCEPT !.esc = @ \ {"str"}]
Control(t, u) ==
  CASE u = "HT"  -> {PutTab(t, x) : x \in TabStops(t, 1)}
    [] u = "BS"  -> IF t.c.x > 0 THEN {Interrupt(MoveTo(t, t.c.x - 1, t.c.y))}
                    ELSE {Interrupt(t)} \union
                         (IF t.c.y > 0 THEN {Interrupt(MoveTo(t, t.col - 1, t.c.y - 1))} ELSE {})
    [] u = "CR"  -> {MoveTo(t, 0, t.c.y)}
    [] u = "LF"  -> {NewLine(t, firstcol) : firstcol \in BOOLEAN}
    [] u = "BEL" -> {Interrupt(t)}
    [] u = "ESC" -> {[t EXCEPT !.esc = (@ \ {"csi", "one"}) \union {"start"}]}
    [] u = "SUB" -> {Interrupt(Changed(SetDirt(t, t.c.y, t.c.y), t.c.y, t.c.y))}
    [] u = "CAN" -> {Interrupt(t)}
    [] u = "C1"  -> {t, Interrupt(NewLine(t, TRUE)), BeginString(t), Interrupt(t)}
    [] u = "SI"  -> {t}                                \* SO, SI and what is ignored

\* tputc, of a control character: it ends a string, or is a part of it.
TakeControl(t, u) ==
  IF "str" \in t.esc /\ u \notin {"BEL", "ESC", "SUB", "CAN", "C1"} THEN {t}
  ELSE Control(Interrupt(t), u)

\* tputc, of another one: a part of a string or a sequence, or shown.  The last character
\* of a control sequence is in Sequence.
Take(t) ==
  IF "str" \in t.esc THEN {t}
  ELSE IF "start" \notin t.esc THEN {Put(t, width) : width \in {1, 2}}
  ELSE IF "csi" \in t.esc THEN {t}
  ELSE IF "utf8" \in t.esc THEN {[t EXCEPT !.esc = {}]}
  ELSE IF "one" \in t.esc
  THEN {[t EXCEPT !.esc = {}], [FullDirt(Changed(t, 0, t.row - 1)) EXCEPT !.esc = {}]}   \* a character set, DECALN
  ELSE {Escape(t, e) : e \in Escapes}

-----------------------------------------------------------------------------
Home == [x |-> 0, y |-> 0, wrapnext |-> FALSE, origin |-> FALSE]

\* tnew.
InitTerminal ==
  \E size \in Sizes :
    term = [col |-> size[1], row |-> size[2], c |-> Home, top |-> 0, bot |-> size[2] - 1,
            wrap |-> TRUE, alt |-> FALSE, saved |-> [b \in BOOLEAN |-> Home], esc |-> {},
            history |-> "none", back |-> FALSE, dirty |-> {}, behind |-> {}, bar |-> FALSE, shrunk |-> FALSE]

\* twrite snaps the view back to the live screen first.
Snap(t) == IF t.back THEN [FullDirt(t) EXCEPT !.back = FALSE, !.behind = 0..(t.row - 1)] ELSE t

\* What stays of an operation: the changes it has not marked, and the marks draw(),
\* which goes over the rows, will not clear.
Becomes(t) == term' = [t EXCEPT !.behind = @ \ t.dirty, !.dirty = @ \ (0..(t.row - 1))]

\* A character is written: the last one of a control sequence, another one that is not
\* a control character, or a control character.
Sequence ==
  /\ {"start", "csi"} \subseteq term.esc /\ "str" \notin term.esc
  /\ \E command \in Commands : \E p \in Parameters(command) :
       \E t \in Csi([Snap(term) EXCEPT !.esc = {}], command, p[1], p[2]) : Becomes(t)
Write == \E t \in Take(Snap(term)) : Becomes(t)
WriteControl == \E u \in Controls : \E t \in TakeControl(Snap(term), u) : Becomes(t)

\* kscrollup and kscrolldown.
ScrollBack ==
  /\ term.history # "none" \/ term.back
  /\ \E back \in BOOLEAN : Becomes([FullDirt(term) EXCEPT !.back = back, !.behind = 0..(term.row - 1)])

\* tresize: the cursor is limited to the new size, both screens are cleared where they
\* are new, and each cursor is loaded on the way; the present one is put back.
Resize ==
  \E size \in Sizes :
    LET t == [term EXCEPT !.col = size[1], !.row = size[2], !.behind = 0..(size[2] - 1),
                          !.shrunk = @ \/ size[2] < term.row]
        s == MoveTo(SetScroll(t, 0, size[2] - 1), term.c.x, term.c.y)
        twice == Load(SwapScreen(Load(SwapScreen(s))))
    IN Becomes([twice EXCEPT !.c = s.c])

\* Slip: the column is the program's.
BarStartRow(t) == [t EXCEPT !.c.y = 0, !.esc = {}, !.bar = TRUE]
\* draw_bar_ansi: the cursor goes to the first column of the bar, but its state, a wrap
\* that is pending included, is the program's.
BarStart(t) == [t EXCEPT !.c.x = 0, !.c.y = 0, !.esc = {}, !.bar = TRUE]
Restore(t, after) == [after EXCEPT !.c = t.c, !.esc = t.esc, !.bar = FALSE]
Bar(n, width) == Becomes(Restore(term, Shown(BarStart(term), width, n)))
DrawBar == \E n \in 0..BarLength, width \in {1, 2} : Bar(n, width)

NextTerminal == Sequence \/ Write \/ WriteControl \/ ScrollBack \/ Resize \/ DrawBar

SpecTerminal == InitTerminal /\ [][NextTerminal]_term

-----------------------------------------------------------------------------
\* Whatever sequences arrive, the cursor is on the screen, the scroll region is a part
\* of it, and in origin mode the cursor is in the region.  And the rows marked are rows
\* of the screen, as long as no font change has taken rows away: then tmoveto() marks
\* the row of a cursor that was, or was saved, below the last one (st.c:877).
CursorInside ==
  /\ term.c.x \in 0..(term.col - 1) /\ term.c.y \in 0..(term.row - 1)
  /\ 0 <= term.top /\ term.top <= term.bot /\ term.bot < term.row
  /\ term.c.origin => term.c.y \in term.top..term.bot
  /\ term.shrunk \/ term.dirty = {}

\* Every row whose cells an operation changes is marked by it, so the next draw()
\* shows it: whatever the region, the counts and the corners.
ChangesAreDrawn == term.behind = {}

\* A status bar that has room in its row, drawn wherever the program's cursor is and in
\* whatever modes, leaves the history as it was: the bar's buffer stays the bar's.  One
\* that wraps, or that is drawn when a wrap is pending, may push the buffer into
\* term.hist, which fb.c:102-106 does not expect.
BarsLeaveHistory ==
  [][\/ term'.history = term.history \/ term.c.wrapnext
     \/ \A n \in 0..BarLength, width \in {1, 2} : n * width <= term.col => ~Bar(n, width)]_term
=============================================================================
