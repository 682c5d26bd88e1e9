---------------------------- MODULE RemoteClient ----------------------------
(***************************************************************************)
(* src/modules/modssh/modssh.c and modsftp.c, with the SFTPFile of         *)
(* src/modules/scripts/bin/sftp.py: a Client, whose connection is made and *)
(* served by a task on core 1, for the MicroPython thread that calls it.   *)
(* The two modules make and end a connection with the same code.  While it *)
(* lasts the shell's task moves bytes between the socket and two rings,    *)
(* and the files' task carries out one request at a time, handed over and  *)
(* back in one record by two binary semaphores.                            *)
(*                                                                         *)
(* The rings are RingBuf's; here a ring is the set of the connections its  *)
(* bytes belong to.  The server's file is a sequence of units.  calls,     *)
(* late, ans.id and prog after it has ended are history variables.  What a *)
(* task does with a Client that was collected is outside the model, and so *)
(* is the scratch buffer's double use once a request has timed out.        *)
(***************************************************************************)
EXTENDS Integers, Sequences, FiniteSets

CONSTANTS
  Kinds,       \* "shell" (modssh), "files" (modsftp), or both
  Scratch,     \* SFTP_SCRATCH_SZ and _READ_CHUNK, in units
  Files,       \* bound: what the server may have
  Buffers,     \* bound: what write() is given
  Wants,       \* bound: how much read() is asked for; -1 for everything
  MaxSize,     \* bound: units the server's file has room for
  MaxConnects, \* bound: tasks created, of either kind
  MaxCalls,    \* bound: requests
  MaxLate      \* bound: requests that time out

ASSUME ClientAssumption ==
  /\ Kinds \subseteq {"shell", "files"}
  /\ Scratch \in Nat \ {0} /\ MaxSize \in Nat /\ MaxConnects \in [{"shell", "files"} -> Nat]
  /\ Wants \subseteq Nat \union {-1}
  /\ \A b \in Files \union Buffers : b \in Seq({b[i] : i \in 1..Len(b)})

VARIABLES
  kind,
  self,   \* its state, task (0 stands for NULL), stop_request, and whose stack it has
  life,     \* of the Client object: "used", "dropped" (unreachable) or "collected"
  run,      \* where each task is, numbered by the connection it was created for
  last,     \* the number of the last one
  thread,   \* where the MicroPython thread is
  rx, tx,   \* the rings: from the task, to the task
  requestSem, responseSem,
  req,      \* the record: the request
  ans,      \* the record: the answer, and to which request
  doing,    \* what the task has handed to wolfSSH
  prog,     \* the SFTPFile or SFTP_VFS method under way, or the last one
  file,     \* the SFTPFile: whether it is open, its mode and pos
  body,     \* the server's file
  calls, late

task == <<self, run>>
rings == <<rx, tx>>
rpc == <<requestSem, responseSem, req, ans, doing, body, calls, late>>
python == <<prog, file>>
rcvars == <<kind, task, life, last, thread, rings, rpc, python>>

Least(m, n) == IF m < n THEN m ELSE n
Most(m, n) == IF m < n THEN n ELSE m
Runs == 1..Most(MaxConnects["shell"], MaxConnects["files"])

NoRequest == [id |-> 0, op |-> "none", mode |-> "r", pos |-> 0, data |-> << >>]
NoMethod == [op |-> "none", mode |-> "r", data |-> << >>, start |-> 0, want |-> 0, left |-> 0,
             count |-> 0, end |-> "no"]

InitClient ==
  /\ kind \in Kinds
  /\ self = [state |-> "IDLE", task |-> 0, stop |-> FALSE, stack |-> 0]
  /\ life = "used"
  /\ run = [i \in Runs |-> "none"] /\ last = 0 /\ thread = "idle"
  /\ rx = {} /\ tx = {}
  /\ requestSem = FALSE /\ responseSem = FALSE
  /\ req = NoRequest
  /\ ans = [id |-> 0, ok |-> TRUE, data |-> << >>, n |-> 0]
  /\ doing = NoRequest
  /\ prog = NoMethod
  /\ file = [open |-> FALSE, mode |-> "r", pos |-> 0]
  /\ body \in Files
  /\ calls = 0 /\ late = 0

Calling == thread = "idle" /\ life = "used"

-----------------------------------------------------------------------------
(* The MicroPython thread: the Client.                                     *)

\* Slip: connect() looks at the state only.
MayConnectByState == self.state \notin {"CONNECTING", "CONNECTED"}

MayConnect == self.state \notin {"CONNECTING", "CONNECTED"} /\ self.task = 0

\* connect(): the previous task's stack is freed, and a task created on a new one.
\* No memory for either: it raises.
Connect ==
  /\ Calling /\ last < MaxConnects[kind] /\ MayConnect
  /\ rx' = {} /\ tx' = {}
  /\ \/ /\ last' = last + 1 /\ thread' = "created"
        /\ self' = [self EXCEPT !.state = "CONNECTING", !.stop = FALSE, !.stack = last']
        /\ run' = [run EXCEPT ![last'] = "start"]
     \/ /\ self' = [self EXCEPT !.state = "FAILED", !.stop = FALSE, !.stack = 0]
        /\ UNCHANGED <<last, thread, run>>
  /\ UNCHANGED <<kind, life, rpc, python>>

\* connect() goes on: self->task = task, whatever the task has done by then.
NoteTask ==
  /\ thread = "created"
  /\ self' = [self EXCEPT !.task = last]
  /\ thread' = "idle"
  /\ UNCHANGED <<kind, life, run, last, rings, rpc, python>>

Disconnect ==
  /\ Calling /\ last > 0
  /\ self' = [self EXCEPT !.stop = TRUE]
  /\ UNCHANGED <<kind, life, run, last, thread, rings, rpc, python>>

\* ssh.py and sftp.py: a Client that was told to disconnect, or has failed or
\* closed, is not referred to any more when main() has returned or the file system
\* has been unmounted; an open file refers to it.
Drop ==
  /\ Calling /\ last > 0 /\ ~file.open
  /\ self.stop \/ self.state \in {"FAILED", "CLOSED"}
  /\ life' = "dropped"
  /\ UNCHANGED <<kind, task, last, thread, rings, rpc, python>>

\* shell.py runs gc.collect() when a program's main() has returned.
Collect ==
  /\ life = "dropped"
  /\ life' = "collected"
  /\ UNCHANGED <<kind, task, last, thread, rings, rpc, python>>

\* write(): a key, into the ring, whether or not there is a connection.
Type ==
  /\ Calling /\ kind = "shell"
  /\ tx' = tx \union {last}
  /\ UNCHANGED <<kind, life, task, last, thread, rx, rpc, python>>

\* readinto().
Show ==
  /\ Calling /\ rx # {}
  /\ rx' = {}
  /\ UNCHANGED <<kind, life, task, last, thread, tx, rpc, python>>

-----------------------------------------------------------------------------
(* The task: making and ending a connection.                               *)

Goto(i, at) == run' = [run EXCEPT ![i] = at]
\* goto done: where a session of wolfSSH has been made, it is shut down first.
MadeBy == {"greeting", "handshake", "serving", "reading"}
End(i, state) ==
  /\ Goto(i, IF run[i] \in MadeBy THEN "shutdown" ELSE "closing")
  /\ self' = [self EXCEPT !.state = state]
NotTheThread == UNCHANGED <<kind, life, last, thread, python>>
NoBytes == NotTheThread /\ UNCHANGED <<rings, rpc>>

Launch(i) ==
  /\ run[i] = "start"
  /\ IF self.stop THEN End(i, "CLOSED") ELSE Goto(i, "resolve") /\ UNCHANGED self
  /\ NoBytes

\* getaddrinfo, with no time limit, then socket and connect: it fails, is under way, or
\* is done.
Resolve(i) ==
  /\ run[i] = "resolve"
  /\ \/ End(i, "FAILED")
     \/ (Goto(i, "connecting") \/ Goto(i, "greeting")) /\ UNCHANGED self
  /\ NoBytes

\* ssh_wait_fd: stop_request is seen, or the time is over or the socket ready.
Await(i, then) ==
  \/ self.stop /\ End(i, "CLOSED")
  \/ End(i, "FAILED")
  \/ Goto(i, then) /\ UNCHANGED self

\* The connection is made, or not; the context and session for wolfSSH may fail.
AwaitConnection(i) == run[i] = "connecting" /\ Await(i, "greeting") /\ NoBytes

AwaitGreeting(i) == run[i] = "greeting" /\ Await(i, "handshake") /\ NoBytes

\* wolfSSH_connect, wolfSSH_SFTP_connect: no time limit.
ShakeHands(i) ==
  /\ run[i] = "handshake"
  /\ \/ End(i, "FAILED")
     \/ Goto(i, "serving") /\ self' = [self EXCEPT !.state = "CONNECTED"]
  /\ NoBytes

\* Slip: the loop does not look at stop_request.
NeverSeen(i) == FALSE /\ UNCHANGED rcvars

NoticeStop(i) == run[i] = "serving" /\ self.stop /\ End(i, "CLOSED") /\ NoBytes

\* wolfSSH_shutdown, on a blocking socket.
EndSession(i) == run[i] = "shutdown" /\ Goto(i, "closing") /\ UNCHANGED self /\ NoBytes

\* The socket is closed.
Close(i) == run[i] = "closing" /\ Goto(i, "leaving") /\ UNCHANGED self /\ NoBytes

\* self->task = NULL.
ClearHandle(i) ==
  /\ run[i] = "leaving"
  /\ Goto(i, "deleting") /\ self' = [self EXCEPT !.task = 0]
  /\ NoBytes

\* vTaskDelete(NULL), the last code to run on the task's stack.
Delete(i) == run[i] = "deleting" /\ Goto(i, "none") /\ UNCHANGED self /\ NoBytes

-----------------------------------------------------------------------------
(* The task: serving the shell.                                            *)

\* A round of the loop begins: there are bytes of the server to read, or none.
Round(i) ==
  /\ run[i] = "serving" /\ kind = "shell" /\ ~self.stop
  /\ Goto(i, "reading") \/ Goto(i, "writing")
  /\ UNCHANGED self /\ NoBytes

\* wolfSSH_stream_read: what the server sends goes to rx, and what does not fit is lost.
\* Half a packet is no bytes yet, and the read may block for the rest of it.
Receive(i) ==
  /\ run[i] = "reading"
  /\ rx' \in {rx, rx \union {i}}
  /\ Goto(i, "writing")
  /\ UNCHANGED <<self, tx, rpc>> /\ NotTheThread

\* End of the stream, or an error.
ServerGone(i) == run[i] = "reading" /\ End(i, "CLOSED") /\ NoBytes

\* What is in tx is taken out, for wolfSSH_stream_send.
TakeKeys(i) ==
  /\ run[i] = "writing"
  /\ Goto(i, IF tx = {} THEN "serving" ELSE "sending")
  /\ tx' = {}
  /\ UNCHANGED <<self, rx, rpc>> /\ NotTheThread

\* Its result is not looked at; it blocks while the server does not read.
SendKeys(i) == run[i] = "sending" /\ Goto(i, "serving") /\ UNCHANGED self /\ NoBytes

-----------------------------------------------------------------------------
(* The task: serving the files.                                            *)

\* Slip: the semaphore for the answer is given before the work is done.
TakeAnswering(i) ==
  /\ run[i] = "serving" /\ requestSem
  /\ requestSem' = FALSE /\ responseSem' = TRUE
  /\ doing' = req
  /\ Goto(i, "working")
  /\ UNCHANGED <<self, rings, req, ans, body, calls, late>> /\ NotTheThread

\* request_sem is taken, which stop_request only delays by a poll interval.
TakeRequest(i) ==
  /\ run[i] = "serving" /\ requestSem
  /\ requestSem' = FALSE
  /\ doing' = req
  /\ Goto(i, "working")
  /\ UNCHANGED <<self, rings, responseSem, req, ans, body, calls, late>> /\ NotTheThread

\* The units of a body from pos on, at most n of them.
Slice(b, pos, n) == SubSeq(b, pos + 1, Least(pos + n, Len(b)))
Overwrite(b, pos, data) ==
  [j \in 1..Most(Len(b), pos + Len(data)) |->
     IF j \in (pos + 1)..(pos + Len(data)) THEN data[j - pos]
     ELSE IF j <= Len(b) THEN b[j] ELSE "zero"]

\* What the server may do: all or part of it, or nothing.
Served ==
  CASE doing.op = "open" -> {[ok |-> TRUE, data |-> << >>, n |-> 0,
                              body |-> IF doing.mode = "w" THEN << >> ELSE body]}
    [] doing.op = "read" ->
         {[ok |-> TRUE, data |-> Slice(body, doing.pos, k), n |-> 0, body |-> body] :
            k \in 1..Scratch}
    [] doing.op = "write" ->
         {[ok |-> TRUE, data |-> << >>, n |-> k,
           body |-> Overwrite(body, doing.pos, SubSeq(doing.data, 1, k))] :
            k \in {j \in 1..Len(doing.data) : doing.pos + j <= MaxSize}}
    [] OTHER -> {[ok |-> TRUE, data |-> << >>, n |-> 0, body |-> body]}
Refused == [ok |-> FALSE, data |-> << >>, n |-> 0, body |-> body]

\* sftp_process_op: wolfSSH carries the request out, and the answer is filled in.
Process(i) ==
  /\ run[i] = "working"
  /\ \E s \in Served \union {Refused} :
       /\ ans' = [id |-> doing.id, ok |-> s.ok, data |-> s.data, n |-> s.n]
       /\ body' = s.body
  /\ Goto(i, "answer")
  /\ UNCHANGED <<self, rings, requestSem, responseSem, req, doing, calls, late>> /\ NotTheThread

GiveAnswer(i) ==
  /\ run[i] = "answer"
  /\ responseSem' = TRUE
  /\ doing' = NoRequest
  /\ Goto(i, "serving")
  /\ UNCHANGED <<self, rings, requestSem, req, ans, body, calls, late>> /\ NotTheThread

-----------------------------------------------------------------------------
(* The MicroPython thread: files on the server.                            *)

Of(op) == [NoMethod EXCEPT !.op = op, !.start = file.pos]

\* The methods that may be called: stat, mkdir and the like are "other".
Methods ==
  {Of("other")}
  \union {[Of("open") EXCEPT !.mode = m] : m \in IF file.open THEN {} ELSE {"r", "w"}}
  \union (IF file.open THEN {Of("close")} ELSE {})
  \union {[Of("read") EXCEPT !.want = w, !.left = w] :
            w \in IF file.open /\ file.mode = "r" THEN Wants ELSE {}}
  \union {[Of("write") EXCEPT !.data = b] :
            b \in IF file.open /\ file.mode = "w" THEN Buffers ELSE {}}

\* A method is called; close() marks the file closed before it asks.
Begin ==
  /\ Calling /\ kind = "files"
  /\ prog' \in Methods
  /\ file' = [file EXCEPT !.open = @ /\ prog'.op # "close"]
  /\ thread' = "loop"
  /\ UNCHANGED <<kind, life, task, last, rings, rpc>>

Seek ==
  /\ Calling /\ file.open
  /\ \E p \in 0..Len(body) : file' = [file EXCEPT !.pos = p]
  /\ prog' = NoMethod
  /\ UNCHANGED <<kind, life, task, last, thread, rings, rpc>>

\* A read asks until it has nothing left to ask for, a write until all is written.
Satisfied ==
  \/ prog.op = "read" /\ prog.left = 0
  \/ prog.op = "write" /\ prog.count = Len(prog.data)

\* The method ends; what was read or written is remembered.
Leave(end) ==
  /\ thread' = "idle"
  /\ prog' = IF prog.op \in {"read", "write"} THEN [prog EXCEPT !.end = end] ELSE NoMethod

Return ==
  /\ thread = "loop" /\ Satisfied
  /\ Leave("returned")
  /\ UNCHANGED <<kind, life, task, last, rings, rpc, file>>

\* What to ask for next.
Piece ==
  [id |-> calls', op |-> prog.op, mode |-> prog.mode, pos |-> file.pos,
   data |-> IF prog.op = "write" THEN Slice(prog.data, prog.count, Scratch) ELSE << >>]

\* The record is filled in; sftp_do_op gives request_sem, or finds no connection.
Ask ==
  /\ thread = "loop" /\ ~Satisfied /\ calls < MaxCalls
  /\ calls' = calls + 1 /\ req' = Piece
  /\ IF self.state = "CONNECTED"
     THEN requestSem' = TRUE /\ thread' = "waiting" /\ UNCHANGED prog
     ELSE Leave("raised") /\ UNCHANGED requestSem
  /\ UNCHANGED <<kind, life, task, last, rings, responseSem, ans, doing, body, late, file>>

\* Slip: the position moves by what was asked for.
ReadOnByAsked ==
  /\ prog' = [prog EXCEPT !.data = @ \o ans.data,
                          !.left = IF @ > 0 THEN @ - Len(ans.data) ELSE @]
  /\ file' = [file EXCEPT !.pos = @ + Scratch]
  /\ thread' = "loop"

\* SFTPFile.read: what came is added, and there may be more.
ReadOn ==
  /\ prog' = [prog EXCEPT !.data = @ \o ans.data,
                          !.left = IF @ > 0 THEN @ - Len(ans.data) ELSE @]
  /\ file' = [file EXCEPT !.pos = @ + Len(ans.data)]
  /\ thread' = "loop"

WriteOn ==
  /\ prog' = [prog EXCEPT !.count = @ + ans.n]
  /\ file' = [file EXCEPT !.pos = @ + ans.n]
  /\ thread' = "loop"

TakeAnswer ==
  /\ thread = "waiting" /\ responseSem
  /\ responseSem' = FALSE
  /\ IF ~ans.ok THEN Leave("raised") /\ UNCHANGED file
     ELSE CASE prog.op = "read" /\ ans.data # << >> -> ReadOn
            [] prog.op = "write" -> WriteOn
            [] prog.op = "open" -> /\ Leave("returned")
                                   /\ file' = [open |-> TRUE, mode |-> prog.mode, pos |-> 0]
            [] OTHER -> Leave("returned") /\ UNCHANGED file
  /\ UNCHANGED <<kind, life, task, last, rings, requestSem, req, ans, doing, body, calls, late>>

\* SFTP_OP_TIMEOUT_MS are over: the call raises, and the request stays where it is.
TimeOut ==
  /\ thread = "waiting" /\ ~responseSem /\ late < MaxLate
  /\ late' = late + 1
  /\ Leave("raised")
  /\ UNCHANGED <<kind, life, task, last, rings, requestSem, responseSem, req, ans, doing, body,
                 calls, file>>

-----------------------------------------------------------------------------
\* What the task does in bounded time: neither the resolver nor wolfSSH is in it, and a
\* server need not send anything or hang up.
TaskObliged(i) ==
  \/ Launch(i) \/ AwaitConnection(i) \/ AwaitGreeting(i) \/ NoticeStop(i)
  \/ TakeKeys(i) \/ GiveAnswer(i) \/ Close(i) \/ ClearHandle(i) \/ Delete(i)

TaskStep(i) ==
  \/ TaskObliged(i) \/ Resolve(i) \/ ShakeHands(i) \/ Round(i) \/ Receive(i) \/ ServerGone(i)
  \/ SendKeys(i) \/ TakeRequest(i) \/ Process(i) \/ EndSession(i)

NextClient ==
  \/ Connect \/ NoteTask \/ Disconnect \/ Drop \/ Collect \/ Type \/ Show
  \/ Begin \/ Seek \/ Return \/ Ask \/ TakeAnswer \/ TimeOut
  \/ \E i \in Runs : TaskStep(i)

SpecClient == InitClient /\ [][NextClient]_rcvars

FairClient == SpecClient /\ \A i \in Runs : WF_rcvars(TaskObliged(i))

-----------------------------------------------------------------------------
(* Properties.                                                             *)

\* Where a task still uses the Client.
AtWork == {"start", "resolve", "connecting", "greeting", "handshake", "serving", "reading",
           "writing", "sending", "working", "answer", "shutdown", "closing", "leaving"}

\* Inside getaddrinfo or wolfSSH, neither of which can be interrupted.
Blocking == {"resolve", "handshake", "reading", "sending", "working", "shutdown"}

ClientTypeOK ==
  /\ self \in [state : {"IDLE", "CONNECTING", "CONNECTED", "FAILED", "CLOSED"},
                 task : {0} \union Runs, stop : BOOLEAN, stack : {0} \union Runs]
  /\ run \in [Runs -> AtWork \union {"deleting", "none"}]
  /\ thread \in {"idle", "created", "loop", "waiting"}
  /\ life \in {"used", "dropped", "collected"}
  /\ rx \subseteq Runs /\ tx \subseteq Runs \union {0}
  /\ Len(body) <= MaxSize /\ file.pos \in 0..(MaxSize + Scratch)

\* Connections of one Client do not meet (modssh.c:422-427, 434-437): a task is alone
\* with the Client until it has cleared self->task, its stack is there, and the rings
\* hold nothing typed for or received from an earlier server.
ConnectionsAreApart ==
  /\ \A i \in Runs : run[i] \in AtWork => i = last /\ self.stack = i
  /\ last > 0 => rx \subseteq {last} /\ tx \subseteq {last}

\* "Only one request is ever in flight ... ownership of the struct is always
\* exclusively on one side" (modsftp.c:23-25), until a request times out: what is with
\* the task is what the thread waits for, and the answer it takes is the answer to it.
RequestHasOneOwner ==
  LET working == {i \in Runs : run[i] \in {"working", "answer"}} IN
  late = 0 =>
    /\ requestSem \/ responseSem \/ working # {} => thread = "waiting"
    /\ ~(requestSem /\ responseSem) /\ (working # {} => ~requestSem /\ ~responseSem)
    /\ working # {} => doing.id = calls
    /\ responseSem => ans.id = calls

\* However the server cuts a transfer into pieces, read() returns the file's units in
\* order and stops short of what was asked only at the end, and write() has written
\* all it was given when it returns and a beginning of it when it raises; until a
\* request times out.  That read() may return more than was asked for, because the
\* task always reads a whole scratch buffer (modsftp.c:263), is not excluded.
TransferIsWhole ==
  late = 0 =>
    /\ prog.op = "read" =>
         /\ prog.data = Slice(body, prog.start, Len(prog.data))
         /\ prog.end = "returned" => \/ prog.want >= 0 /\ Len(prog.data) >= prog.want
                                     \/ prog.start + Len(prog.data) >= Len(body)
    /\ prog.op = "write" =>
         /\ Slice(body, prog.start, prog.count) = SubSeq(prog.data, 1, prog.count)
         /\ prog.end = "returned" => prog.count = Len(prog.data)

\* After disconnect() the task ends, wherever it was, unless a call into the resolver or
\* wolfSSH never returns (modssh.c:228, modsftp.c:346); or else connect() has been called
\* again.
DisconnectEnds ==
  \A i \in Runs : \/ <>[](run[i] \in Blocking)
                  \/ self.stop /\ run[i] # "none" ~> run[i] = "none" \/ ~self.stop

\* "The task never touches MicroPython's heap/GC directly" (modssh.c:16-18): the Client
\* itself is there as long as its task.
ClientIsKept == life = "collected" => \A i \in Runs : run[i] = "none"
=============================================================================
