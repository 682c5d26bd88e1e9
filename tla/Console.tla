------------------------------ MODULE Console ------------------------------
(***************************************************************************)
(* The shell shared with remote clients: src/modules/modssh/modsshd.c and  *)
(* bin/sshd.py (a listener task on core 1, one session at a time),         *)
(* bin/telnetd.py (a state machine driven by timer 3), and the one mirror  *)
(* slot of tdeck_kvm.c that both servers set and clear.  What clients type *)
(* goes to the ring of InjectRing.  vncd and webvncd appear only as other  *)
(* users of timer 3.                                                       *)
(***************************************************************************)
EXTENDS Integers, Sequences, SequencesExt

CONSTANTS
  Depth,        \* MICROPY_SCHEDULER_DEPTH, what other callbacks leave of it
  AuthTicks,    \* _AUTH_TIMEOUT_TICKS
  MaxChunk      \* bound: keys in what one recv() of the telnet server returns

ASSUME ConsoleAssumption == Depth \in Nat /\ AuthTicks \in Nat \ {0} /\ MaxChunk \in Nat \ {0}

VARIABLES
  mirror,   \* kvm's mirror_instance: "none", "ssh" (the Server) or "telnet" (a socket)
  lost,     \* history: telnetd has set or cleared the mirror since sshd set it
  ssh,      \* sshd.py's _server and its task
  tx,       \* what output is in the Server's ring: from before its client came, or since
  toasts,   \* notifications in the scheduler queue
  shown,    \* what the last one shown said
  refused,  \* history: a notification found the queue full
  tel,      \* telnetd's server: whether it runs, whether timer 3 is its own
  conn      \* its connection

sshd == <<ssh, tx, toasts, shown, refused>>
cvars == <<mirror, lost, sshd, tel, conn>>

\* at is where the task is, told its notified_connect.
NoServer == [known |-> FALSE, at |-> "none", state |-> "idle", stop |-> FALSE, told |-> FALSE]
NoConn == [open |-> FALSE, authed |-> FALSE, state |-> "user", line |-> "", named |-> FALSE,
           ticks |-> 0, burst |-> FALSE]

InitConsole ==
  /\ mirror = "none" /\ lost = FALSE
  /\ ssh = NoServer /\ tx = {}
  /\ toasts = << >> /\ shown = FALSE /\ refused = FALSE
  /\ tel = [on |-> FALSE, timer |-> FALSE]
  /\ conn = NoConn

-----------------------------------------------------------------------------
(* sshd: the MicroPython thread.                                           *)

\* sshd.py main(): a new Server; start() takes the mirror and, unless there is no
\* memory for the stack or the task, starts the task.
SshStart ==
  /\ ~ssh.known \/ ssh.state = "stopped"
  /\ mirror' = "ssh" /\ lost' = FALSE /\ tx' = {}
  /\ \E at \in {"boot", "none"} :
       ssh' = [ssh EXCEPT !.known = TRUE, !.at = at, !.state = "idle", !.stop = FALSE, !.told = FALSE]
  /\ UNCHANGED <<toasts, shown, refused, tel, conn>>

SshStop ==
  /\ ssh.known
  /\ ssh' = [ssh EXCEPT !.stop = TRUE]
  /\ mirror' = "none"
  /\ UNCHANGED <<lost, tx, toasts, shown, refused, tel, conn>>

\* Where the task is with a client: in the session, and on the way into it and out.
Session == {"session", "reading", "sending"}
Serving == {"select", "handshake", "end", "shutdown", "close"} \union Session

\* kvm_write: whatever the terminal displays goes to the mirror too, whether or not
\* a client is there to see it.
Display ==
  /\ mirror = "ssh"
  /\ tx' = tx \union {IF ssh.at \in Serving THEN "since" ELSE "before"}
  /\ UNCHANGED <<mirror, lost, ssh, toasts, shown, refused, tel, conn>>

\* _on_event, run from the scheduler queue.
Toast ==
  /\ toasts # << >>
  /\ shown' = Head(toasts) /\ toasts' = Tail(toasts)
  /\ UNCHANGED <<mirror, lost, ssh, tx, refused, tel, conn>>

-----------------------------------------------------------------------------
(* sshd: the task.                                                         *)

SshTo(at) == ssh' = [ssh EXCEPT !.at = at]
OthersOfSsh == UNCHANGED <<mirror, lost, tel, conn>>
NoData == UNCHANGED tx
NoToast == UNCHANGED <<toasts, shown, refused>>

\* mp_sched_schedule, whose result is not looked at.
Notify(connected) ==
  /\ UNCHANGED shown
  /\ IF Len(toasts) < Depth
     THEN toasts' = Append(toasts, connected) /\ UNCHANGED refused
     ELSE refused' = TRUE /\ UNCHANGED toasts

\* socket, bind and listen, one of which may fail.
Listen ==
  /\ ssh.at = "boot"
  /\ \/ ssh' = [ssh EXCEPT !.at = "poll", !.state = "listening"]
     \/ SshTo("leave")
  /\ NoData /\ NoToast /\ OthersOfSsh

StopSeen == ssh.at = "poll" /\ ssh.stop /\ SshTo("leave") /\ NoData /\ NoToast /\ OthersOfSsh

Leave ==
  /\ ssh.at = "leave"
  /\ ssh' = [ssh EXCEPT !.at = "none", !.state = "stopped"]
  /\ NoData /\ NoToast /\ OthersOfSsh

\* Slip: the ring is left as it is.
AcceptAsItIs ==
  /\ ssh.at = "poll" /\ ~ssh.stop
  /\ ssh' = [ssh EXCEPT !.at = "select", !.told = FALSE]
  /\ NoData /\ NoToast /\ OthersOfSsh

\* A client is accepted; output queued while nobody was connected is discarded.
Accept ==
  /\ ssh.at = "poll" /\ ~ssh.stop
  /\ ssh' = [ssh EXCEPT !.at = "select", !.told = FALSE]
  /\ tx' = {}
  /\ NoToast /\ OthersOfSsh

\* Ten seconds for the first byte.  Where wolfSSH has no memory for a session there is
\* none to shut down.
FirstByte ==
  /\ ssh.at = "select"
  /\ \E at \in {"handshake", "end", "close"} : SshTo(at)
  /\ NoData /\ NoToast /\ OthersOfSsh

\* wolfSSH_accept fails, or succeeds and the session begins.  It has no deadline.
Handshake ==
  /\ ssh.at = "handshake"
  /\ NoData /\ OthersOfSsh
  /\ \/ SshTo("end") /\ NoToast
     \/ /\ ssh' = [ssh EXCEPT !.at = "session", !.state = "connected", !.told = TRUE]
        /\ Notify(TRUE)

\* A round of the session loop ends with output, if there is any: up to a buffer of it
\* is taken out of the ring and handed to wolfSSH_stream_send.
Output ==
  /\ IF tx = {} THEN SshTo("session") ELSE SshTo("sending")
  /\ tx' \in SUBSET tx
  /\ NoToast /\ OthersOfSsh

\* It begins with input, if there is any, for wolfSSH_stream_read.
Round ==
  /\ ssh.at = "session" /\ ~ssh.stop
  /\ \/ SshTo("reading") /\ NoData /\ NoToast /\ OthersOfSsh
     \/ Output

\* What was read goes to the injection ring.  The socket is a blocking one: the read
\* waits for the rest of a packet, and a send for a client that does not read.
Read == ssh.at = "reading" /\ Output
Sent == ssh.at = "sending" /\ SshTo("session") /\ NoData /\ NoToast /\ OthersOfSsh

\* The client ends it (Ctrl-D, a closed channel), or has been idle too long.
Finish ==
  /\ ssh.at = "reading" \/ (ssh.at = "session" /\ ~ssh.stop)
  /\ SshTo("end")
  /\ NoData /\ NoToast /\ OthersOfSsh

\* Slip: the session is not told to stop.
NotCutShort == FALSE /\ UNCHANGED cvars

\* The session loop ends for stop(), which it looks for between two rounds.
CutShort == ssh.at = "session" /\ ssh.stop /\ SshTo("end") /\ NoData /\ NoToast /\ OthersOfSsh

\* Slip: every client that leaves is announced.
NotifyAlways == Notify(FALSE)

\* "disconnected" is for those whose "connected" was sent.
NotifyEnd == IF ssh.told THEN Notify(FALSE) ELSE NoToast

EndClient == ssh.at = "end" /\ SshTo("shutdown") /\ NotifyEnd /\ NoData /\ OthersOfSsh

\* wolfSSH_shutdown, on the same socket.
Shutdown == ssh.at = "shutdown" /\ SshTo("close") /\ NoData /\ NoToast /\ OthersOfSsh

\* What the client has not been sent stays in the ring, for the next one to find.
CloseClient ==
  /\ ssh.at = "close"
  /\ ssh' = [ssh EXCEPT !.at = "poll", !.state = IF ssh.stop THEN @ ELSE "listening"]
  /\ tx' = IF tx = {} THEN {} ELSE {"before"}
  /\ NoToast /\ OthersOfSsh

\* What the task does in bounded time; what is inside wolfSSH need not return.
SshObliged ==
  Listen \/ StopSeen \/ Leave \/ FirstByte \/ CutShort \/ EndClient \/ CloseClient

SshTask ==
  SshObliged \/ Accept \/ Handshake \/ Round \/ Read \/ Sent \/ Finish \/ Shutdown

-----------------------------------------------------------------------------
(* telnetd: everything happens on the MicroPython thread, in a tick.       *)

OthersOfTel == UNCHANGED sshd
Ticks == tel.on /\ tel.timer

TelnetStart ==
  /\ ~tel.on
  /\ tel' = [on |-> TRUE, timer |-> TRUE]
  /\ conn' = NoConn
  /\ UNCHANGED <<mirror, lost>> /\ OthersOfTel

\* `vncd`, `webvncd`, or their stop: timer 3 calls somebody else, or nobody.
TimerTaken ==
  /\ tel.timer
  /\ tel' = [tel EXCEPT !.timer = FALSE]
  /\ UNCHANGED <<mirror, lost, conn>> /\ OthersOfTel

\* Slip: the mirror is detached whoever's it is.
DetachesAlways == TRUE
Detaches == conn.authed

\* _Conn.close(): once.
Close ==
  /\ conn' = NoConn
  /\ mirror' = IF Detaches THEN "none" ELSE mirror
  /\ lost' = (lost \/ conn.authed)

TelnetStop ==
  /\ tel.on
  /\ tel' = [on |-> FALSE, timer |-> FALSE]
  /\ IF conn.open THEN Close ELSE UNCHANGED <<conn, mirror, lost>>
  /\ OthersOfTel

\* A client is accepted; greeting it may raise, which loses the socket.
Greet ==
  /\ Ticks /\ ~conn.open
  /\ conn' \in {[NoConn EXCEPT !.open = TRUE, !.ticks = 1], conn}
  /\ UNCHANGED <<mirror, lost, tel>> /\ OthersOfTel

\* What may be typed; one after another on a line they are "other".
Texts == {"user", "password"}

\* Slip: a login does not change what is asked for.
SubmitStaying(c) ==
  IF c.state = "user" THEN [c EXCEPT !.named = c.line = "user", !.line = "", !.state = "pass"]
  ELSE IF c.named /\ c.line = "password"
  THEN [c EXCEPT !.line = "", !.authed = TRUE]
  ELSE [c EXCEPT !.line = "", !.named = FALSE, !.state = "user"]

\* _submit_line: in any state but the first, the line is taken for a password.
Submit(c) ==
  IF c.state = "user" THEN [c EXCEPT !.named = c.line = "user", !.line = "", !.state = "pass"]
  ELSE IF c.named /\ c.line = "password"
  THEN [c EXCEPT !.line = "", !.state = "shell", !.authed = TRUE]
  ELSE [c EXCEPT !.line = "", !.named = FALSE, !.state = "user"]

\* A key of a client that was not logged in when its chunk began.
Key(c, key) ==
  LET d == [c EXCEPT !.burst = @ \/ c.state = "shell"] IN
  CASE key = "enter"     -> Submit(d)
    [] key = "backspace" -> [d EXCEPT !.line = ""]
    [] OTHER             -> [d EXCEPT !.line = IF d.line = "" THEN key ELSE "other"]

\* The same where the answer to the key cannot be sent, which raises.
KeyRaising(c, key) ==
  CASE key = "enter" -> [c EXCEPT !.line = "", !.named = IF c.state = "user" THEN c.line = "user" ELSE @]
    [] key = "backspace" -> [c EXCEPT !.line = ""]
    [] OTHER         -> [c EXCEPT !.line = IF c.line = "" THEN key ELSE "other"]

\* The connection after each key of a chunk.
Fed(c, chunk) ==
  LET fed[i \in 0..Len(chunk)] ==
        IF i = 0 THEN [c EXCEPT !.ticks = 0] ELSE Key(fed[i - 1], chunk[i])
  IN fed

Chunks == UNION {[1..n -> Texts \union {"enter", "backspace"}] : n \in 1..MaxChunk}

\* Whether a login is completed in the chunk, which sets the mirror.
Logins(c, chunk) ==
  \E i \in DOMAIN chunk :
    chunk[i] = "enter" /\ Fed(c, chunk)[i].state = "shell" /\ Fed(c, chunk)[i - 1].state = "pass"

\* Data arrives: for the shell, or for the login, where an exception ends the tick.
Hear ==
  /\ Ticks /\ conn.open
  /\ IF conn.state = "shell" THEN UNCHANGED <<conn, mirror, lost>>
     ELSE \E chunk \in Chunks, raises \in BOOLEAN :
            LET heard == IF raises THEN Front(chunk) ELSE chunk
                c     == Fed(conn, heard)[Len(heard)]
            IN /\ conn' = IF raises THEN KeyRaising(c, Last(chunk))
                           ELSE [c EXCEPT !.ticks = IF c.authed THEN 0 ELSE 1]
               /\ mirror' = IF Logins(conn, heard) THEN "telnet" ELSE mirror
               /\ lost' = (lost \/ Logins(conn, heard))
  /\ UNCHANGED tel /\ OthersOfTel

\* Nothing arrives: who has not logged in gets no more than AuthTicks of that.
Quiet ==
  /\ Ticks /\ conn.open /\ ~conn.authed
  /\ conn.ticks + 1 < AuthTicks
  /\ conn' = [conn EXCEPT !.ticks = @ + 1]
  /\ UNCHANGED <<mirror, lost, tel>> /\ OthersOfTel

\* Slip: only who has not given a name is dropped.
GiveUpNameless ==
  /\ Ticks /\ conn.open /\ ~conn.authed /\ conn.state = "user"
  /\ conn.ticks + 1 >= AuthTicks
  /\ Close
  /\ UNCHANGED tel /\ OthersOfTel

GiveUp ==
  /\ Ticks /\ conn.open /\ ~conn.authed
  /\ conn.ticks + 1 >= AuthTicks
  /\ Close
  /\ UNCHANGED tel /\ OthersOfTel

\* The client is gone: recv() raises, or returns nothing.
Gone ==
  /\ Ticks /\ conn.open
  /\ Close
  /\ UNCHANGED tel /\ OthersOfTel

Telnet == TelnetStart \/ TimerTaken \/ TelnetStop \/ Greet \/ Hear \/ Quiet \/ GiveUp \/ Gone

NextConsole == SshStart \/ SshStop \/ Display \/ Toast \/ SshTask \/ Telnet

SpecConsole == InitConsole /\ [][NextConsole]_cvars

\* The task on core 1 runs; timer 3 ticks.  No call into wolfSSH need return, and no
\* client need come, speak or leave.
TickObliged == Quiet \/ GiveUp

FairConsole == SpecConsole /\ WF_cvars(SshObliged) /\ WF_cvars(TickObliged)

-----------------------------------------------------------------------------
ConsoleTypeOK ==
  /\ mirror \in {"none", "ssh", "telnet"} /\ lost \in BOOLEAN
  /\ ssh.at \in {"none", "boot", "poll", "leave"} \union Serving
  /\ ssh.state \in {"idle", "listening", "connected", "stopped"}
  /\ tx \subseteq {"before", "since"}
  /\ toasts \in Seq(BOOLEAN) /\ Len(toasts) <= Depth
  /\ conn.state \in {"user", "pass", "shell"} /\ conn.ticks \in 0..AuthTicks

\* An ssh client is shown only what the terminal displayed since it came, although
\* the mirror fills the ring between sessions too.
OutputIsOwn == ssh.at \in Session => "before" \notin tx

\* Until telnetd touches it, a running Server keeps the mirror it took in start(),
\* whatever telnet clients that never log in do (modsshd.c:33); and the terminal's
\* output never goes to a telnet connection that is closed or has not logged in.
MirrorIsKept ==
  /\ ssh.at # "none" /\ ~ssh.stop /\ ~lost => mirror = "ssh"
  /\ mirror = "telnet" => conn.open /\ conn.authed

\* "disconnected" is shown of a client only after "connected" (modsshd.c:176-178),
\* as long as the scheduler queue took every notification.
ToastsAlternate ==
  LET all == <<shown>> \o toasts IN
  refused \/ \A i \in 1..(Len(all) - 1) : all[i] # all[i + 1]

\* Who has logged in types into the shell, and nobody else does; unless more keys
\* came in the chunk that logged it in, such as the second half of a CR LF.
LoginIsFinal == (conn.state = "shell" => conn.authed)
                /\ (conn.authed /\ ~conn.burst => conn.state = "shell")

\* stop() ends the task, whatever it is doing, unless it stays for ever inside a call
\* into wolfSSH on its blocking socket: of a handshake that has no deadline, or of a
\* session whose client has stopped reading (modsshd.c:236, 275, 315, 325).
StopEnds ==
  \/ <>[](ssh.at \in {"handshake", "reading", "sending", "shutdown"})
  \/ ssh.stop /\ ssh.at # "none" ~> ssh.at = "none"

\* A telnet client that says nothing and does not log in is dropped, as long as
\* timer 3 is telnetd's.
SilentIsDropped ==
  \/ []<><<conn.open /\ conn'.open /\ conn' # [conn EXCEPT !.ticks = @ + 1]>>_conn
  \/ (conn.open /\ ~conn.authed) ~> (~conn.open \/ conn.authed \/ ~tel.timer)
=============================================================================
