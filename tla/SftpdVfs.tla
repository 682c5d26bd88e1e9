------------------------------ MODULE SftpdVfs ------------------------------
(***************************************************************************)
(* src/modules/modssh/modsftpd.c and src/modules/scripts/bin/sftpd.py: the *)
(* bridge by which the sftpd session tasks have their file operations done *)
(* by the MicroPython thread.  A session task that is inside a             *)
(* myFilesystem.h hook takes vfs_mutex, fills the one request record,      *)
(* schedules sftpd.py's servicer and waits on response_sem for at most     *)
(* SFTPD_VFS_OP_TIMEOUT_MS; the servicer copies the record with request(), *)
(* performs the operation and overwrites the record with respond().        *)
(*                                                                         *)
(* File bodies are sequences of units; Scratch units fit the record's      *)
(* scratch buffer.  round, service.id and answered are history variables:  *)
(* they number the requests and say which one an answer is for.            *)
(***************************************************************************)
EXTENDS Integers, Sequences, FiniteSets

CONSTANTS
  Session,      \* the session tasks
  Path,         \* the path names
  Data, Zero,   \* the values of a unit of a file's body; Zero fills gaps
  Scratch,      \* SFTPD_SCRATCH_SZ, in units
  QueueDepth,   \* slots of MicroPython's scheduler queue
  Hooks,        \* the hooks the clients make the sessions call
  Tree0,        \* the file systems the server may start on
  MaxSize,      \* bound: units the disk has room for in one file
  Buffers,      \* bound: what a client WRITEs; it READs as many units
  Flags,        \* bound: what clients open files for
  Offsets,      \* bound: where clients start a transfer
  MaxOthers,    \* bound: slots other callbacks fill at a time
  MaxCalls,     \* bound: hook calls made by all the sessions
  MaxTimeouts   \* bound: waits that end by timing out

AllFlags == {"read", "rdwr", "write", "write_trunc", "write_append"}
AllHooks == {"open", "read", "write", "close", "opendir", "readdir", "closedir",
             "mkdir", "rmdir", "remove", "rename", "getcwd", "stat", "fstat"}

ASSUME VfsAssumption ==
  /\ "none" \notin Session
  /\ Zero \in Data
  /\ Scratch \in Nat \ {0} /\ QueueDepth \in Nat \ {0}
  /\ "none" \notin Path
  /\ Tree0 \subseteq [Path -> [kind : {"absent", "dir", "file"}, body : Seq(Data)]]
  /\ Buffers \subseteq Seq(Data) \ {<< >>} /\ Offsets \subseteq Nat
  /\ MaxCalls \in Nat /\ MaxTimeouts \in Nat
  /\ Hooks \subseteq AllHooks /\ Flags \subseteq AllFlags

VARIABLES
  pc,         \* where each session task is inside a hook
  call,       \* each session's hook call: its arguments and locals
  held,       \* the file handles each client has been given, and for what path
  heldDirs,   \* the directory handles each client has been given
  mutex,      \* who holds vfs_mutex, or "none"
  rpc,        \* the shared request and response record
  sem,        \* response_sem
  queued,     \* scheduler slots holding the servicer
  others,     \* scheduler slots holding other callbacks
  service,    \* the servicer's locals: idle, or a copied request, or an answer
  files,      \* sftpd.py's _open_files
  dirs,       \* sftpd.py's _open_dirs
  nextHandle, \* sftpd.py's _next_handle
  tree,       \* the file system
  round,      \* requests made so far
  answered,   \* the request the record's response fields answer
  calls, timeouts

session == <<pc, call, held, heldDirs, mutex, round, calls, timeouts>>
python == <<files, dirs, nextHandle, tree>>
vars == <<session, rpc, sem, queued, others, service, python, answered>>

Absent == [kind |-> "absent", body |-> << >>]
Directory == [kind |-> "dir", body |-> << >>]
File(body) == [kind |-> "file", body |-> body]

Bodies(k) == UNION {[1..j -> Data] : j \in 0..k}

NoPath == "none"
NoCall == [op |-> "none", path |-> NoPath, to |-> NoPath, flags |-> "read",
           handle |-> 0, ofst |-> 0, buf |-> << >>, sz |-> 0, done |-> 0,
           res |-> "none", size |-> 0]

\* What respond() sends when the operation sets nothing else.
Reply == [ret |-> 0, handle |-> -1, data |-> << >>, size |-> 0, name |-> NoPath,
          eof |-> FALSE]
Idle == [phase |-> "idle"]

Init ==
  /\ pc = [s \in Session |-> "serving"]
  /\ call = [s \in Session |-> NoCall]
  /\ held = [s \in Session |-> << >>]
  /\ heldDirs = [s \in Session |-> {}]
  /\ mutex = "none"
  /\ rpc = [op |-> "none", path |-> NoPath, to |-> NoPath, flags |-> "read",
            ofst |-> 0, ret |-> 0, handle |-> 0, data |-> << >>, size |-> 0,
            name |-> NoPath, eof |-> FALSE]
  /\ sem = 0
  /\ queued = 0 /\ others = 0
  /\ service = Idle
  /\ files = << >> /\ dirs = << >> /\ nextHandle = 1
  /\ tree \in Tree0
  /\ round = 0 /\ answered = 0
  /\ calls = 0 /\ timeouts = 0

Goto(s, to) == pc' = [pc EXCEPT ![s] = to]

-----------------------------------------------------------------------------
(* The session tasks: the hooks.                                           *)

\* wolfSSH_SFTP_read dispatches a client's request to a hook.
Call(s, c) ==
  /\ pc[s] = "serving" /\ calls < MaxCalls
  /\ c.op \in Hooks
  /\ call' = [call EXCEPT ![s] = c]
  /\ calls' = calls + 1
  /\ Goto(s, "lock")
  /\ UNCHANGED <<held, heldDirs, mutex, round, timeouts, rpc, sem, queued, others,
                 service, python, answered>>

\* The hooks' calls: of none, of one or of two paths, of a handle, of a part of
\* a file.
For(op) == [NoCall EXCEPT !.op = op]
ForPath(op, p) == [For(op) EXCEPT !.path = p]
ForOpen(p, f) == [For("open") EXCEPT !.path = p, !.flags = f]
ForRename(p, q) == [For("rename") EXCEPT !.path = p, !.to = q]
ForHandle(op, h) == [For(op) EXCEPT !.handle = h]
ForRead(h, o, b) == [For("read") EXCEPT !.handle = h, !.ofst = o, !.sz = Len(b)]
ForWrite(h, o, b) ==
  [For("write") EXCEPT !.handle = h, !.ofst = o, !.sz = Len(b), !.buf = b]

\* What a client asks: of paths, and of the handles it was given.
Requests(s) ==
  UNION {{For("getcwd")},
         {ForPath(op, p) : op \in {"opendir", "mkdir", "rmdir", "remove", "stat"}, p \in Path},
         {ForOpen(p, f) : p \in Path, f \in Flags},
         {ForRename(p, q) : p \in Path, q \in Path},
         {ForHandle(op, h) : op \in {"close", "fstat"}, h \in DOMAIN held[s]},
         {ForHandle(op, h) : op \in {"readdir", "closedir"}, h \in heldDirs[s]},
         {ForRead(h, o, b) : h \in DOMAIN held[s], o \in Offsets, b \in Buffers},
         {ForWrite(h, o, b) : h \in DOMAIN held[s], o \in Offsets, b \in Buffers}}

\* Slip: the hook does not wait for vfs_mutex.
TakeMutexAlways(s) ==
  /\ pc[s] = "lock"
  /\ mutex' = s
  /\ Goto(s, "arguments")
  /\ UNCHANGED <<call, held, heldDirs, round, calls, timeouts, rpc, sem, queued,
                 others, service, python, answered>>

TakeMutex(s) ==
  /\ pc[s] = "lock" /\ mutex = "none"
  /\ mutex' = s
  /\ Goto(s, "arguments")
  /\ UNCHANGED <<call, held, heldDirs, round, calls, timeouts, rpc, sem, queued,
                 others, service, python, answered>>

ByPath == {"open", "opendir", "mkdir", "rmdir", "remove", "rename", "stat"}
ByHandle == {"read", "write", "close", "readdir", "closedir", "fstat"}

\* The next piece of a WRITE: what is left of it, at most a scratch buffer.
Piece(c) ==
  SubSeq(c.buf, c.done + 1, IF c.sz - c.done < Scratch THEN c.sz ELSE c.done + Scratch)

\* The hook fills the fields its operation uses; the others keep what an
\* earlier hook, or respond(), left in them.
SetArguments(s) ==
  /\ pc[s] = "arguments"
  /\ LET c == call[s] IN
     rpc' = [rpc EXCEPT
       !.path = IF c.op \in ByPath THEN c.path ELSE @,
       !.to = IF c.op = "rename" THEN c.to ELSE @,
       !.flags = IF c.op = "open" THEN c.flags ELSE @,
       !.handle = IF c.op \in ByHandle THEN c.handle ELSE @,
       !.ofst = IF c.op \in {"read", "write"} THEN c.ofst + c.done ELSE @,
       !.data = IF c.op = "write" THEN Piece(c) ELSE @]
  /\ Goto(s, "op")
  /\ UNCHANGED <<call, held, heldDirs, mutex, round, calls, timeouts, sem, queued,
                 others, service, python, answered>>

\* self->op, set last.  A request by handle for attributes is a STAT.
SetOp(s) ==
  /\ pc[s] = "op"
  /\ rpc' = [rpc EXCEPT !.op = IF call[s].op = "fstat" THEN "stat" ELSE call[s].op]
  /\ round' = round + 1
  /\ Goto(s, "schedule")
  /\ UNCHANGED <<call, held, heldDirs, mutex, calls, timeouts, sem, queued, others,
                 service, python, answered>>

\* sftpd_do_vfs_op: mp_sched_schedule, tried again while the queue is full.
Schedule(s) ==
  /\ pc[s] = "schedule" /\ queued + others < QueueDepth
  /\ queued' = queued + 1
  /\ Goto(s, "wait")
  /\ UNCHANGED <<call, held, heldDirs, mutex, round, calls, timeouts, rpc, sem,
                 others, service, python, answered>>

\* Slip: a failing hook returns without giving vfs_mutex back.
FailKeepingMutex(s) ==
  /\ call' = [call EXCEPT ![s] = NoCall]
  /\ Goto(s, "serving")

Fail(s) ==
  /\ call' = [call EXCEPT ![s].res = "failed"]
  /\ Goto(s, "unlock")

\* The deadline passes with the queue still full: nothing was scheduled.
QueueStaysFull(s) ==
  /\ pc[s] = "schedule" /\ queued + others = QueueDepth
  /\ Fail(s)
  /\ UNCHANGED <<held, heldDirs, mutex, round, calls, timeouts, rpc, sem, queued,
                 others, service, python, answered>>

\* Slip: the semaphore is looked at, not taken.
TakeAnswerPeek(s) ==
  /\ pc[s] = "wait" /\ sem = 1
  /\ Goto(s, "collect")
  /\ UNCHANGED <<call, held, heldDirs, mutex, round, calls, timeouts, rpc, sem,
                 queued, others, service, python, answered>>

TakeAnswer(s) ==
  /\ pc[s] = "wait" /\ sem = 1
  /\ sem' = 0
  /\ Goto(s, "collect")
  /\ UNCHANGED <<call, held, heldDirs, mutex, round, calls, timeouts, rpc, queued,
                 others, service, python, answered>>

\* The wait runs out.  The request stays scheduled, or with the servicer.
TimeOut(s) ==
  /\ pc[s] = "wait" /\ sem = 0 /\ timeouts < MaxTimeouts
  /\ timeouts' = timeouts + 1
  /\ Fail(s)
  /\ UNCHANGED <<held, heldDirs, mutex, round, calls, rpc, sem, queued, others,
                 service, python, answered>>

Collected(s, c) == call' = [call EXCEPT ![s] = c]

CollectFailure(s) ==
  /\ pc[s] = "collect" /\ rpc.ret # 0
  /\ Fail(s)
  /\ UNCHANGED <<held, heldDirs, mutex, round, calls, timeouts, rpc, sem, queued,
                 others, service, python, answered>>

\* One read's worth of data: the hook asks again until it has all of it or a
\* read returns nothing.
CollectRead(s) ==
  /\ pc[s] = "collect" /\ rpc.ret = 0 /\ call[s].op = "read"
  /\ LET c == call[s]
         left == c.sz - c.done
         n == IF Len(rpc.data) < left THEN Len(rpc.data) ELSE left
         last == c.done + n >= c.sz \/ rpc.data = << >>
     IN
     /\ Collected(s, [c EXCEPT !.buf = @ \o SubSeq(rpc.data, 1, n), !.done = @ + n,
                               !.res = IF last THEN "ok" ELSE @])
     /\ Goto(s, IF last THEN "unlock" ELSE "arguments")
  /\ UNCHANGED <<held, heldDirs, mutex, round, calls, timeouts, rpc, sem, queued,
                 others, service, python, answered>>

\* Slip: a piece counts as written whole however much of it was.
CollectWriteWhole(s) ==
  /\ pc[s] = "collect" /\ rpc.ret = 0 /\ call[s].op = "write"
  /\ LET c == call[s]
         done == c.done + Len(Piece(c))
     IN
     /\ Collected(s, [c EXCEPT !.done = done, !.res = IF done = c.sz THEN "ok" ELSE @])
     /\ Goto(s, IF done = c.sz THEN "unlock" ELSE "arguments")
  /\ UNCHANGED <<held, heldDirs, mutex, round, calls, timeouts, rpc, sem, queued,
                 others, service, python, answered>>

\* One piece written.  A short write ends the request in failure.
CollectWrite(s) ==
  /\ pc[s] = "collect" /\ rpc.ret = 0 /\ call[s].op = "write"
  /\ LET c == call[s]
         done == c.done + rpc.size
         short == rpc.size # Len(Piece(c))
         res == IF short THEN "failed" ELSE IF done < c.sz THEN "none"
                ELSE IF done = c.sz THEN "ok" ELSE "failed"
     IN
     /\ Collected(s, [c EXCEPT !.done = done, !.res = res])
     /\ Goto(s, IF res = "none" THEN "arguments" ELSE "unlock")
  /\ UNCHANGED <<held, heldDirs, mutex, round, calls, timeouts, rpc, sem, queued,
                 others, service, python, answered>>

\* Every other hook returns what the record says.
CollectOther(s) ==
  /\ pc[s] = "collect" /\ rpc.ret = 0 /\ call[s].op \notin {"read", "write"}
  /\ LET c == call[s]
         failed == \/ c.op = "readdir" /\ rpc.eof
                   \/ c.op = "open" /\ rpc.handle = -1
     IN Collected(s, [c EXCEPT
          !.res = IF failed THEN "failed" ELSE "ok",
          !.handle = IF c.op \in {"open", "opendir"} THEN rpc.handle ELSE @,
          !.to = IF c.op \in {"readdir", "getcwd"} THEN rpc.name ELSE @,
          !.size = IF c.op \in {"stat", "fstat"} THEN rpc.size ELSE @])
  /\ Goto(s, "unlock")
  /\ UNCHANGED <<held, heldDirs, mutex, round, calls, timeouts, rpc, sem, queued,
                 others, service, python, answered>>

Without(f, h) == [k \in DOMAIN f \ {h} |-> f[k]]
With(f, h, v) == [k \in DOMAIN f \union {h} |-> IF k = h THEN v ELSE f[k]]

\* The hook gives vfs_mutex back and returns; wolfSSH answers the client,
\* which from then on knows the handle it opened and forgets one it closed.
Return(s) ==
  /\ pc[s] = "unlock"
  /\ mutex' = "none"
  /\ LET c == call[s]
         ok == c.res = "ok"
     IN
     /\ held' = [held EXCEPT ![s] =
                   IF c.op = "open" /\ ok THEN With(@, c.handle, c.path)
                   ELSE IF c.op = "close" THEN Without(@, c.handle) ELSE @]
     /\ heldDirs' = [heldDirs EXCEPT ![s] =
                   IF c.op = "opendir" /\ ok THEN @ \union {c.handle}
                   ELSE IF c.op = "closedir" THEN @ \ {c.handle} ELSE @]
  /\ call' = [call EXCEPT ![s] = NoCall]
  /\ Goto(s, "serving")
  /\ UNCHANGED <<round, calls, timeouts, rpc, sem, queued, others, service, python,
                 answered>>

\* The client hangs up and another takes the session; sftpd.py is not told.
Disconnect(s) ==
  /\ pc[s] = "serving" /\ (held[s] # << >> \/ heldDirs[s] # {})
  /\ held' = [held EXCEPT ![s] = << >>]
  /\ heldDirs' = [heldDirs EXCEPT ![s] = {}]
  /\ UNCHANGED <<pc, call, mutex, round, calls, timeouts, rpc, sem, queued, others,
                 service, python, answered>>

-----------------------------------------------------------------------------
(* The MicroPython thread: the scheduler queue, sftpd.py's servicer.       *)

\* Timers and other servers use the same queue.
ScheduleOther ==
  /\ queued + others < QueueDepth /\ others < MaxOthers
  /\ others' = others + 1
  /\ UNCHANGED <<session, rpc, sem, queued, service, python, answered>>

RunOther ==
  /\ service.phase = "idle" /\ others > 0
  /\ others' = others - 1
  /\ UNCHANGED <<session, rpc, sem, queued, service, python, answered>>

\* The servicer starts: server.request() copies the record.
Dispatch ==
  /\ service.phase = "idle" /\ queued > 0
  /\ queued' = queued - 1
  /\ service' = [phase |-> "perform", id |-> round, op |-> rpc.op, path |-> rpc.path,
                 to |-> rpc.to, flags |-> rpc.flags, handle |-> rpc.handle,
                 ofst |-> rpc.ofst, data |-> rpc.data]
  /\ UNCHANGED <<session, rpc, sem, others, python, answered>>

Performing(op) == service.phase = "perform" /\ service.op = op

\* The operation is done; what respond() will be called with.
Answer(reply) ==
  /\ service' = [phase |-> "respond", id |-> service.id, reply |-> reply]
  /\ UNCHANGED <<session, rpc, sem, queued, others, answered>>

\* An operation may raise instead: a missing path or handle, a full disk, a
\* failing card.  opendir has taken its handle number by then.
Raise ==
  /\ service.phase = "perform" /\ service.op \notin {"close", "closedir"}
  /\ Answer([Reply EXCEPT !.ret = -1,
                          !.handle = IF service.op = "opendir" THEN nextHandle ELSE @])
  /\ nextHandle' = IF service.op = "opendir" THEN nextHandle + 1 ELSE nextHandle
  /\ UNCHANGED <<files, dirs, tree>>

Stat ==
  /\ Performing("stat") /\ tree[service.path].kind # "absent"
  /\ Answer([Reply EXCEPT !.size = Len(tree[service.path].body)])
  /\ UNCHANGED python

\* _mode_str.
Mode(flags, path) ==
  CASE flags = "rdwr" -> "r+b"
    [] flags = "write_append" -> "ab"
    [] flags = "write_trunc" -> "wb"
    [] flags = "write" -> IF tree[path] # Absent THEN "r+b" ELSE "wb"
    [] flags = "read" -> "rb"

Open ==
  /\ Performing("open")
  /\ LET mode == Mode(service.flags, service.path)
         node == tree[service.path]
     IN
     /\ node.kind # "dir"
     /\ mode \in {"rb", "r+b"} => node.kind = "file"
     /\ tree' = [tree EXCEPT ![service.path] =
                   IF mode = "wb" THEN File(<< >>) ELSE File(node.body)]
     /\ files' = With(files, nextHandle, [path |-> service.path, mode |-> mode,
                                          opened |-> service.path])
  /\ nextHandle' = nextHandle + 1
  /\ Answer([Reply EXCEPT !.handle = nextHandle])
  /\ UNCHANGED dirs

\* A file object of _open_files whose file is still there.
Usable(h, modes) ==
  /\ h \in DOMAIN files
  /\ files[h].mode \in modes
  /\ files[h].path # NoPath
  /\ tree[files[h].path].kind = "file"

Read ==
  /\ Performing("read") /\ Usable(service.handle, {"rb", "r+b"})
  /\ LET body == tree[files[service.handle].path].body
         end == IF service.ofst + Scratch < Len(body)
                THEN service.ofst + Scratch ELSE Len(body)
     IN Answer([Reply EXCEPT !.data = SubSeq(body, service.ofst + 1, end)])
  /\ UNCHANGED python

\* body with data put at offset at.
Overwrite(body, at, data) ==
  LET end == at + Len(data) IN
  [i \in 1..(IF end > Len(body) THEN end ELSE Len(body)) |->
     IF i \in (at + 1)..end THEN data[i - at]
     ELSE IF i <= Len(body) THEN body[i] ELSE Zero]

\* f.write: all of the data, or the part of it the disk had room for.  An
\* append goes to the end of the file whatever the offset.
Write ==
  /\ Performing("write") /\ Usable(service.handle, {"r+b", "wb", "ab"})
  /\ \E n \in 0..Len(service.data) :
       LET f == files[service.handle]
           body == tree[f.path].body
           at == IF f.mode = "ab" THEN Len(body) ELSE service.ofst
       IN
       /\ at + n <= MaxSize
       /\ tree' = IF n = 0 THEN tree
                  ELSE [tree EXCEPT ![f.path].body =
                          Overwrite(body, at, SubSeq(service.data, 1, n))]
       /\ Answer([Reply EXCEPT !.size = n])
  /\ UNCHANGED <<files, dirs, nextHandle>>

\* A file object leaves the table even when closing it raises.
Close ==
  /\ Performing("close")
  /\ files' = Without(files, service.handle)
  /\ \E ret \in {0, -1} : Answer([Reply EXCEPT !.ret = ret])
  /\ UNCHANGED <<dirs, nextHandle, tree>>

Present == {p \in Path : tree[p] # Absent}

\* os.ilistdir: the names it will yield are those there when it was opened.
Opendir ==
  /\ Performing("opendir") /\ tree[service.path].kind = "dir"
  /\ dirs' = With(dirs, nextHandle, Present \ {service.path})
  /\ nextHandle' = nextHandle + 1
  /\ Answer([Reply EXCEPT !.handle = nextHandle])
  /\ UNCHANGED <<files, tree>>

Readdir ==
  /\ Performing("readdir")
  /\ IF service.handle \in DOMAIN dirs /\ dirs[service.handle] # {}
     THEN \E p \in dirs[service.handle] :
            /\ dirs' = [dirs EXCEPT ![service.handle] = @ \ {p}]
            /\ Answer([Reply EXCEPT !.name = p])
     ELSE dirs' = dirs /\ Answer([Reply EXCEPT !.eof = TRUE])
  /\ UNCHANGED <<files, nextHandle, tree>>

Closedir ==
  /\ Performing("closedir")
  /\ dirs' = Without(dirs, service.handle)
  /\ Answer(Reply)
  /\ UNCHANGED <<files, nextHandle, tree>>

Mkdir ==
  /\ Performing("mkdir") /\ tree[service.path] = Absent
  /\ tree' = [tree EXCEPT ![service.path] = Directory]
  /\ Answer(Reply)
  /\ UNCHANGED <<files, dirs, nextHandle>>

Rmdir ==
  /\ Performing("rmdir") /\ tree[service.path] = Directory
  /\ tree' = [tree EXCEPT ![service.path] = Absent]
  /\ Answer(Reply)
  /\ UNCHANGED <<files, dirs, nextHandle>>

Remove ==
  /\ Performing("remove") /\ tree[service.path].kind = "file"
  /\ tree' = [tree EXCEPT ![service.path] = Absent]
  /\ files' = [h \in DOMAIN files |->
                 [files[h] EXCEPT !.path = IF @ = service.path THEN NoPath ELSE @]]
  /\ Answer(Reply)
  /\ UNCHANGED <<dirs, nextHandle>>

\* os.rename takes the place of what is already there; the file objects that
\* are open follow their file.
Rename ==
  /\ Performing("rename")
  /\ LET old == service.path
         new == service.to
     IN
     /\ tree[old] # Absent
     /\ tree[new].kind \in {"absent", tree[old].kind}
     /\ tree' = IF old = new THEN tree
                ELSE [tree EXCEPT ![new] = tree[old], ![old] = Absent]
     /\ files' = IF old = new THEN files
                 ELSE [h \in DOMAIN files |->
                         [files[h] EXCEPT !.path = IF @ = old THEN new
                                                   ELSE IF @ = new THEN NoPath ELSE @]]
  /\ Answer(Reply)
  /\ UNCHANGED <<dirs, nextHandle>>

Getcwd ==
  /\ Performing("getcwd")
  /\ \E p \in Path : Answer([Reply EXCEPT !.name = p])
  /\ UNCHANGED python

Perform ==
  \/ Raise \/ Stat \/ Open \/ Read \/ Write \/ Close \/ Opendir \/ Readdir
  \/ Closedir \/ Mkdir \/ Rmdir \/ Remove \/ Rename \/ Getcwd

\* server.respond(): overwrites the response fields, handle and scratch among
\* them, whatever request is in the record by then; gives response_sem.
Respond ==
  /\ service.phase = "respond"
  /\ LET r == service.reply IN
     rpc' = [rpc EXCEPT !.ret = r.ret, !.handle = r.handle, !.data = r.data,
                        !.size = r.size, !.name = r.name, !.eof = r.eof]
  /\ answered' = service.id
  /\ sem' = 1
  /\ service' = Idle
  /\ UNCHANGED <<session, queued, others, python>>

-----------------------------------------------------------------------------
SessionStep(s) ==
  \/ SetArguments(s) \/ SetOp(s) \/ Schedule(s) \/ QueueStaysFull(s)
  \/ TakeAnswer(s) \/ TimeOut(s)
  \/ CollectFailure(s) \/ CollectRead(s) \/ CollectWrite(s) \/ CollectOther(s)
  \/ Return(s)

Next ==
  \/ \E s \in Session : \/ \E c \in Requests(s) : Call(s, c)
                        \/ TakeMutex(s)
                        \/ SessionStep(s)
                        \/ Disconnect(s)
  \/ ScheduleOther \/ RunOther \/ Dispatch \/ Perform \/ Respond

Spec == Init /\ [][Next]_vars

\* A session task keeps running, and the kernel gives vfs_mutex to its waiters
\* in turn.  Nothing is assumed of the MicroPython thread.
FairSpec ==
  /\ Spec
  /\ \A s \in Session : WF_vars(SessionStep(s)) /\ SF_vars(TakeMutex(s))

-----------------------------------------------------------------------------
(* Properties.                                                             *)

Outside == {"serving", "lock"}
Inside == {"arguments", "op", "schedule", "wait", "collect", "unlock"}

\* Every variable has its type; the scheduler queue never holds more than it
\* has slots.
TypeOK ==
  /\ pc \in [Session -> Outside \union Inside]
  /\ DOMAIN call = Session
  /\ \A s \in Session : /\ call[s].op \in AllHooks \union {"none"}
                        /\ call[s].done \in Nat
                        /\ DOMAIN held[s] \subseteq 1..MaxCalls
                        /\ heldDirs[s] \subseteq ({-1} \union 1..MaxCalls)
  /\ mutex \in Session \union {"none"}
  /\ sem \in {0, 1}
  /\ queued \in 0..QueueDepth /\ others \in 0..QueueDepth
  /\ queued + others <= QueueDepth
  /\ service.phase \in {"idle", "perform", "respond"}
  /\ \A h \in DOMAIN files : h \in 1..(nextHandle - 1)
  /\ DOMAIN dirs \subseteq 1..(nextHandle - 1)
  /\ DOMAIN tree = Path
  /\ \A p \in Path : tree[p].body \in Bodies(MaxSize)
  /\ round \in Nat /\ answered \in 0..round
  /\ calls \in 0..MaxCalls /\ timeouts \in 0..MaxTimeouts

\* vfs_mutex: a session task is inside a hook's body exactly while it holds it.
MutexIsHeldInside == \A s \in Session : pc[s] \in Inside <=> mutex = s

Busy(x) == IF x THEN 1 ELSE 0

\* Requests scheduled, being served, or answered and not yet taken.
InFlight == queued + Busy(service.phase # "idle") + sem

\* As long as no wait has timed out there is one request in flight while a
\* session waits and none otherwise, and the servicer has copied that one.
OneInFlight ==
  timeouts = 0 =>
    /\ InFlight = Busy(\E s \in Session : pc[s] = "wait")
    /\ service.phase # "idle" => service.id = round
    /\ sem = 1 => answered = round
    /\ \A s \in Session : pc[s] = "collect" => answered = round

\* The inductive part: what makes each session's answer its own.
IInv ==
  /\ pc \in [Session -> Outside \union Inside]
  /\ queued \in Nat /\ sem \in {0, 1} /\ timeouts \in Nat
  /\ MutexIsHeldInside
  /\ OneInFlight

\* The answer a session collects is the answer to the request it made.
AnswerIsOwn == \A s \in Session : pc[s] = "collect" => answered = round

\* What makes response_sem enough: no session takes another request's answer,
\* as long as no wait has timed out.
AnswerIsOwnUntilTimeout == timeouts = 0 => AnswerIsOwn

Succeeded(s, op) == pc[s] = "unlock" /\ call[s].op = op /\ call[s].res = "ok"

\* A WRITE reported to the client as complete is in the file, all of it, piece
\* after piece: at the offset the client gave, or, of a file opened for append,
\* as the last that is in it.
WrittenIsStored ==
  timeouts = 0 =>
    \A s \in Session : Succeeded(s, "write") =>
      LET c == call[s]
          f == files[c.handle]
          body == tree[f.path].body
          from == IF f.mode = "ab" THEN Len(body) - c.sz ELSE c.ofst
      IN /\ from >= 0 /\ from + c.sz <= Len(body)
         /\ SubSeq(body, from + 1, from + c.sz) = c.buf

\* A READ returns what the file holds at that offset, short only at its end.
ReadIsStored ==
  timeouts = 0 =>
    \A s \in Session : Succeeded(s, "read") =>
      LET c == call[s]
          body == tree[files[c.handle].path].body
      IN /\ c.done > 0 => c.ofst + c.done <= Len(body)
         /\ c.buf = SubSeq(body, c.ofst + 1, c.ofst + c.done)
         /\ c.done < c.sz => c.ofst + c.done >= Len(body)

\* However a transfer is cut into pieces of the scratch size, a success means that the
\* whole of it is where the client asked for it.
TransfersAreStored == WrittenIsStored /\ ReadIsStored

\* The handle a client was given stands for the file it asked to open until it
\* asks to close it, and no other client has been given it.
HandlesStandForTheirFiles ==
  timeouts = 0 =>
    \A s \in Session :
      /\ \A h \in DOMAIN held[s] :
           \/ call[s].op = "close" /\ call[s].handle = h
           \/ h \in DOMAIN files /\ files[h].opened = held[s][h]
      /\ \A t \in Session \ {s} : DOMAIN held[s] \intersect DOMAIN held[t] = {}

\* Every hook call returns, even if the MicroPython thread never serves it:
\* SFTPD_VFS_OP_TIMEOUT_MS bounds the wait and vfs_mutex is always given back.
CallsReturn == \A s \in Session : pc[s] # "serving" ~> pc[s] = "serving"
=============================================================================
