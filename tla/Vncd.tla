-------------------------------- MODULE Vncd --------------------------------
(***************************************************************************)
(* bin/vncd.py (RFB over TCP, an update when the client asks) and          *)
(* bin/webvncd.py (frames over a WebSocket, updates pushed): one program   *)
(* twice, of which one is started.  Everything happens in a tick that      *)
(* timer 3 schedules on the MicroPython thread; the tick is cut into its   *)
(* steps, and nothing but the network comes between them.                  *)
(*                                                                         *)
(* A unit stands for the bytes of one part of a message: its type, its     *)
(* fixed body, its length, a byte of its text.  A row is clean when its    *)
(* checksum is that of what the screen shows; a change makes it dirty,     *)
(* and what was rendered before is then not what it shows now.             *)
(***************************************************************************)
EXTENDS Integers, Sequences, FiniteSets, SequencesExt

CONSTANTS
  Rows,         \* the status bar and the rows of text
  MaxWaitTicks, \* _MAX_WAIT_TICKS
  Drains,       \* drains_left of webvncd; vncd sends one item
  MaxText,      \* bound: bytes of a cut text or a payload
  MaxWire,      \* bound: units on their way from the client
  MaxQueue      \* bound: items in outq when the screen changes

ASSUME VncdAssumption == /\ IsFiniteSet(Rows) /\ "none" \notin Rows
                         /\ {MaxWaitTicks, Drains, MaxText, MaxWire, MaxQueue} \subseteq Nat \ {0}

VARIABLES
  web,      \* which of the two was started
  on,       \* whether it is running
  at,       \* where the tick is
  asked,    \* select() was asked for it: outq was not empty when the tick began
  conn,     \* the _Conn: state and need, pending_close, what it is asked for
  rxbuf, outq, outoff,
  dirty,    \* rows whose checksum is not that of the screen
  wire,     \* units the client has sent
  client,   \* its end: "away", "here", "gone" (closed), "dead" (every send fails)
  shown,    \* rows the client shows as they are now
  owed,     \* history: keys it has sent that were not typed
  failed    \* history: memory for an update ran out

vvars == <<web, on, at, asked, conn, rxbuf, outq, outoff, dirty, wire, client, shown, owed, failed>>
input == <<rxbuf, wire, owed>>
output == <<outq, outoff, dirty, shown, failed>>
fixed == <<web, on>>

NoConn == [open |-> FALSE, state |-> "none", need |-> 0, kind |-> "none", closing |-> FALSE,
           awaiting |-> FALSE, waited |-> 0, len |-> 0]

InitVnc ==
  /\ web \in BOOLEAN /\ on = TRUE /\ at = "idle" /\ asked = FALSE
  /\ conn = NoConn
  /\ rxbuf = << >> /\ outq = << >> /\ outoff = 0 /\ dirty = {}
  /\ wire = << >> /\ client = "away" /\ shown = {} /\ owed = 0 /\ failed = FALSE

\* An item of outq: a row's pixels are the ones that may be sent in part.
Talk == [row |-> "none", now |-> TRUE]
Pixels(r) == [row |-> r, now |-> TRUE]
ItemSize(item) == IF item.row = "none" THEN 1 ELSE 2

-----------------------------------------------------------------------------
(* The client and the screen.                                              *)

Say(kind, n) == <<kind, n>>
Text(n) == [i \in 1..n |-> Say("key", 1)]   \* a text that looks like messages

\* What a client may send, by the state the server will be in.
Opening ==
  IF web THEN {<<Say("http", 1)>>, <<Say("http", 0)>>}
  ELSE {<<Say("version", 0), Say("sectype", ok), Say("init", 0)>> : ok \in {0, 1}}
Messages ==
  IF web
  THEN {<<Say(kind, n), Say("mask", 0)>> \o Text(n) : kind \in {"key", "ping"}, n \in 1..MaxText}
       \union {<<Say("close", 0), Say("mask", 0)>>, <<Say("bad", 0)>>}
  ELSE {<<Say(kind, 1), Say("body", 0)>> : kind \in {"key", "request"}}
       \union {<<Say("cut", 0), Say("len", n)>> \o Text(n) : n \in 0..MaxText}
       \union {<<Say("bad", 0)>>}

Arrive ==
  /\ at = "idle" /\ on /\ client = "away" /\ ~conn.open
  /\ client' = "here"
  /\ UNCHANGED <<fixed, at, asked, conn, input, output>>

Send ==
  /\ at = "idle" /\ client = "here" /\ conn.open
  /\ Len(wire) + Len(rxbuf) < MaxWire /\ Len(outq) < MaxQueue
  /\ \E units \in Opening \union Messages :
       /\ (units \in Opening) <=> (conn.state \in {"version", "http"} /\ wire = << >> /\ rxbuf = << >>)
       /\ wire' = wire \o units
       /\ owed' = IF units[1][1] = "key" THEN owed + 1 ELSE owed
  /\ UNCHANGED <<fixed, at, asked, conn, rxbuf, output, client>>

\* It closes its end, or resets the connection.
Hangup ==
  /\ at = "idle"
  /\ \/ client = "here" /\ client' = "gone"
     \/ client \in {"here", "gone"} /\ client' = "dead"
  /\ UNCHANGED <<fixed, at, asked, conn, input, output>>

\* The terminal or the status bar draws.
Change ==
  /\ at = "idle" /\ conn.open /\ Len(outq) < MaxQueue
  /\ \E r \in Rows :
       /\ dirty' = dirty \union {r}
       /\ shown' = shown \ {r}
       /\ outq' = [i \in DOMAIN outq |-> [outq[i] EXCEPT !.now = @ /\ outq[i].row # r]]
  /\ UNCHANGED <<fixed, at, asked, conn, input, outoff, client, failed>>

-----------------------------------------------------------------------------
(* The tick.                                                               *)

\* _Conn.close(): the socket, and what was in it, are gone.
Closed ==
  /\ conn' = NoConn
  /\ rxbuf' = << >> /\ outq' = << >> /\ outoff' = 0 /\ dirty' = {}
  /\ wire' = << >> /\ client' = "away" /\ shown' = {} /\ owed' = 0
  /\ UNCHANGED failed

\* select(), and the client that waits is taken; a second one would be turned away.
Tick ==
  /\ at = "idle" /\ on
  /\ asked' = (conn.open /\ outq # << >>)
  /\ IF ~conn.open /\ client # "away"
     THEN /\ conn' = [NoConn EXCEPT !.open = TRUE, !.state = IF web THEN "http" ELSE "version", !.need = 1]
          /\ outq' = IF web THEN << >> ELSE <<Talk>>
          /\ dirty' = Rows /\ failed' = FALSE
          /\ at' = "parse"
     ELSE /\ UNCHANGED <<conn, outq, dirty, failed>>
          /\ at' = IF conn.open THEN "recv" ELSE "idle"
  /\ UNCHANGED <<fixed, input, outoff, client, shown>>

\* recv(): some of what was sent, the end of the stream, an error, or not readable yet.
Recv ==
  /\ at = "recv"
  /\ \/ \E n \in 0..Len(wire) :
          /\ rxbuf' = rxbuf \o SubSeq(wire, 1, n) /\ wire' = SubSeq(wire, n + 1, Len(wire))
          /\ UNCHANGED conn
     \/ /\ client = "dead" \/ (client = "gone" /\ wire = << >>)
        /\ conn' = [conn EXCEPT !.closing = TRUE]
        /\ UNCHANGED <<rxbuf, wire>>
  /\ at' = IF conn'.closing THEN "send" ELSE "parse"
  /\ UNCHANGED <<fixed, asked, output, client, owed>>

To(state, need) == [conn EXCEPT !.state = state, !.need = need]
NextMessage == To("msg", 1)

\* Slip: the text is taken for messages.
AfterLengthNone(n) == NextMessage
\* RFB: a text of length 0 has no body to wait for.
AfterLength(n) == IF n > 0 THEN To("text", n) ELSE NextMessage

\* vncd's _advance(), by state: the connection and what it queues.
AdvanceRfb(unit) ==
  CASE conn.state = "version" -> <<To("sectype", 1), <<Talk>>>>
    [] conn.state = "sectype" -> IF unit[2] = 1 THEN <<To("init", 1), <<Talk>>>>
                                 ELSE <<[conn EXCEPT !.closing = TRUE], <<Talk>>>>
    [] conn.state = "init"    -> <<NextMessage, <<Talk>>>>
    [] conn.state = "msg"     ->
         <<CASE unit[1] \in {"key", "request"} -> [To("body", 1) EXCEPT !.kind = unit[1]]
             [] unit[1] = "cut"                -> To("len", 1)
             [] OTHER                          -> [conn EXCEPT !.closing = TRUE], << >>>>
    [] conn.state = "body"    ->
         <<IF conn.kind = "request" THEN [NextMessage EXCEPT !.awaiting = TRUE, !.waited = 0]
           ELSE NextMessage, << >>>>
    [] conn.state = "len"     -> <<AfterLength(unit[2]), << >>>>
    [] conn.state = "text"    -> <<NextMessage, << >>>>

\* webvncd's _handle_http_headers() and _advance().
AdvanceWeb(unit) ==
  CASE conn.state = "http" -> IF unit[2] = 1 THEN <<NextMessage, <<Talk, Talk, Talk>>>>
                              ELSE <<[conn EXCEPT !.closing = TRUE], << >>>>
    [] conn.state = "msg"  -> IF unit[1] = "bad" THEN <<[conn EXCEPT !.closing = TRUE], << >>>>
                              ELSE <<[To("mask", 1) EXCEPT !.kind = unit[1], !.len = unit[2]], << >>>>
    [] conn.state = "mask" -> <<[To("text", conn.len) EXCEPT !.len = 0], << >>>>
    [] conn.state = "text" -> CASE conn.kind = "close" -> <<[NextMessage EXCEPT !.closing = TRUE], << >>>>
                                [] conn.kind = "ping"  -> <<NextMessage, <<Talk, Talk>>>>
                                [] OTHER               -> <<NextMessage, << >>>>

\* A key reaches kvm.inject().
Types == conn.kind = "key" /\ conn.state = IF web THEN "text" ELSE "body"

\* _process_rx(): one turn of its loop.
Parse ==
  /\ at = "parse" /\ ~conn.closing /\ Len(rxbuf) >= conn.need
  /\ LET unit == IF conn.need = 0 THEN Say("empty", 0) ELSE rxbuf[1]
         next == IF web THEN AdvanceWeb(unit) ELSE AdvanceRfb(unit)
     IN conn' = next[1] /\ outq' = outq \o next[2]
  /\ rxbuf' = SubSeq(rxbuf, conn.need + 1, Len(rxbuf))
  /\ owed' = IF Types THEN owed - 1 ELSE owed
  /\ UNCHANGED <<fixed, at, asked, outoff, dirty, wire, client, shown, failed>>

\* All that can be parsed has been.
Parsed == at = "parse" /\ (conn.closing \/ Len(rxbuf) < conn.need)

\* Slip: in webvncd nobody asks.
ScansOnRequest == conn.awaiting
\* Whether this tick looks for changes.
Scans == IF web THEN conn.state \notin {"http", "none"} ELSE conn.awaiting

\* _queue_update(), _queue_row(): the rows in some order, each behind its header, or two
\* for a WebSocket; an RFB update has one of its own.
Update(rows) ==
  LET order == SetToSeq(rows)
      lead  == IF web THEN 0 ELSE 1
      each  == IF web THEN 3 ELSE 2
  IN [i \in 1..(lead + each * Len(order)) |->
        IF i > lead /\ (i - lead) % each = 0 THEN Pixels(order[(i - lead) \div each]) ELSE Talk]

\* Slip: a row that is being sent is not sent again.
FoundOnce == {r \in dirty : \A i \in DOMAIN outq : outq[i].row # r}
\* _scan_changed().
Found == dirty

\* The checksums are updated, then the update is queued; where memory runs out in
\* between, the exception ends the tick and only a part has been queued.  (Memory that
\* runs out where input is kept or parsed is left out.)
Scan ==
  /\ Parsed /\ ~conn.closing /\ Scans /\ Found # {}
  /\ dirty' = {}
  /\ \/ /\ outq' = outq \o Update(Found)
        /\ conn' = [conn EXCEPT !.awaiting = FALSE]
        /\ at' = "send" /\ UNCHANGED <<asked, failed>>
     \/ /\ \E n \in 0..(Len(Update(Found)) - 1) : outq' = outq \o SubSeq(Update(Found), 1, n)
        /\ UNCHANGED conn
        /\ at' = "idle" /\ failed' = TRUE /\ asked' = FALSE
  /\ UNCHANGED <<fixed, input, outoff, client, shown>>

\* Nothing has changed: vncd forgets the request after MaxWaitTicks of that.
NothingFound ==
  /\ Parsed /\ (conn.closing \/ (Scans => Found = {}))
  /\ conn' = IF web \/ conn.closing \/ ~conn.awaiting THEN conn
             ELSE [conn EXCEPT !.waited = @ + 1, !.awaiting = conn.waited + 1 < MaxWaitTicks]
  /\ at' = "send"
  /\ UNCHANGED <<fixed, asked, input, output, client>>

\* What the client shows as it is now once it has the items of q: of each row, the last
\* of its pixels count.
ShownAfter(q, shows) ==
  {r \in Rows : \/ r \in shows /\ \A i \in DOMAIN q : q[i].row # r
                \/ \E i \in DOMAIN q : q[i] = Pixels(r) /\ \A j \in DOMAIN q : j > i => q[j].row # r}

\* _drain_tx(): n items are sent whole, and then perhaps a part of the next.  webvncd
\* goes on until it cannot, or has tried often enough; vncd tries once, on a socket that
\* blocks: the tick, and the thread, may wait there until the client has read.
SendSome ==
  /\ at = "send" /\ asked /\ outq # << >> /\ client # "dead"
  /\ \E n \in 0..Len(outq), part \in {0, 1} :
       LET off == IF n = 0 THEN outoff ELSE 0 IN
       /\ n + part \in 1..(IF web THEN Drains ELSE 1)
       /\ part = 1 => n < Len(outq) /\ off + 1 < ItemSize(outq[n + 1])
       /\ outq' = SubSeq(outq, n + 1, Len(outq)) /\ outoff' = off + part
       /\ shown' = ShownAfter(SubSeq(outq, 1, n), shown)
  /\ at' = "end"
  /\ UNCHANGED <<fixed, asked, conn, input, dirty, client, failed>>

SendFails ==
  /\ at = "send" /\ asked /\ outq # << >> /\ client = "dead"
  /\ conn' = [conn EXCEPT !.closing = TRUE]
  /\ at' = "end"
  /\ UNCHANGED <<fixed, asked, input, output, client>>

\* Slip: only after something was sent.
MayCloseDrained == conn.closing /\ outq = << >> /\ asked
MayClose == conn.closing /\ outq = << >>

\* Nothing is sent where nothing was queued, or the socket is not writable.
EndTick ==
  /\ at \in {"send", "end"}
  /\ IF MayClose THEN Closed ELSE UNCHANGED <<conn, input, output, client>>
  /\ at' = "idle" /\ asked' = FALSE
  /\ UNCHANGED fixed

\* `vncd stop`, and a later start of either.
Stop ==
  /\ at = "idle" /\ on
  /\ on' = FALSE /\ Closed
  /\ UNCHANGED <<web, at, asked>>

Restart ==
  /\ ~on /\ on' = TRUE /\ web' \in BOOLEAN
  /\ UNCHANGED <<at, asked, conn, input, output, client>>

Steps == Recv \/ Parse \/ Scan \/ NothingFound \/ SendSome \/ SendFails \/ EndTick
NextVnc == Arrive \/ Send \/ Hangup \/ Change \/ Tick \/ Steps \/ Stop \/ Restart

SpecVnc == InitVnc /\ [][NextVnc]_vvars

\* The timer ticks, and a client that is there reads what is sent to it: the socket is
\* writable again and again, a send of vncd's returns, and so a tick runs to its end.
FairVnc == SpecVnc /\ WF_vvars(Tick \/ Steps) /\ SF_vvars(SendSome)

-----------------------------------------------------------------------------
\* A row the scan takes for unchanged is, or will be without another scan, what
\* the client shows; unless memory for an update ran out after the checksums
\* were updated (vncd.py:136,158).
RowsAreShown == conn.open /\ ~failed => Rows \ dirty \subseteq ShownAfter(outq, shown)

\* Every key the client sends is typed once and no other is, however its bytes
\* are cut into ticks and whatever texts it sends that look like keys.
KeysAreTyped ==
  /\ owed >= 0
  /\ conn.open /\ conn.state = "msg" /\ rxbuf = << >> /\ wire = << >> => owed = 0

\* A connection that is to be closed is, and its slot freed, unless what is still
\* queued cannot be sent (vncd.py:396).
ClosingEnds == conn.closing ~> ~conn.open \/ client = "dead"

\* When the screen comes to rest, a client of webvncd that reads shows all of it.
Watching == web /\ conn.open /\ ~conn.closing /\ conn.state # "http" /\ client = "here" /\ ~failed
WebCatchesUp == []<><<Change>>_vvars \/ (Watching ~> shown = Rows \/ ~Watching)
=============================================================================
