--------------------------- MODULE SftpdVfsProofs ---------------------------
(***************************************************************************)
(* Proofs about module SftpdVfs, for any number of sessions, any file      *)
(* system and any schedule: until a wait times out, the answer a session   *)
(* collects is the answer to the request it made; the handle a client was  *)
(* given stands for its file; and a transfer that succeeds has put every   *)
(* unit where the client asked for it.                                     *)
(***************************************************************************)
EXTENDS SftpdVfs, SequenceTheorems, TLAPS

\* The variables the argument is about.
control == <<pc, mutex, round, timeouts, sem, queued, answered>>

\* Two session tasks are never inside hooks at once.
LEMMA OneInside ==
  ASSUME MutexIsHeldInside, NEW s \in Session, NEW t \in Session,
         pc[s] \in Inside, pc[t] \in Inside
  PROVE  s = t
BY DEF MutexIsHeldInside

\* While nobody waits nothing is in flight: the queue holds no servicer, the
\* servicer is idle and no answer is left behind.
LEMMA Quiet ==
  ASSUME IInv, timeouts = 0, ~ \E s \in Session : pc[s] = "wait"
  PROVE  queued = 0 /\ sem = 0 /\ service.phase = "idle"
BY DEF IInv, OneInFlight, InFlight, Busy

\* The servicer's operation, whichever it is, and however it ends, moves it
\* on to its answer for the same request and touches nothing else here.
LEMMA PerformKeeps ==
  ASSUME Perform
  PROVE  /\ UNCHANGED control
         /\ service.phase = "perform" /\ service'.phase = "respond"
         /\ service'.id = service.id
<1> DEFINE Kept == /\ UNCHANGED control
                   /\ service'.phase = "respond" /\ service'.id = service.id
<1>1. ASSUME NEW reply, Answer(reply) PROVE Kept
  BY <1>1 DEF Answer, session, control
<1> HIDE DEF Kept
<1>2. Kept /\ service.phase = "perform"
  <2>1. CASE Raise BY <2>1, <1>1 DEF Raise
  <2>2. CASE Stat BY <2>2, <1>1 DEF Stat, Performing
  <2>3. CASE Open BY <2>3, <1>1 DEF Open, Performing
  <2>4. CASE Read BY <2>4, <1>1 DEF Read, Performing
  <2>5. CASE Write BY <2>5, <1>1 DEF Write, Performing
  <2>6. CASE Close BY <2>6, <1>1 DEF Close, Performing
  <2>7. CASE Opendir BY <2>7, <1>1 DEF Opendir, Performing
  <2>8. CASE Readdir BY <2>8, <1>1 DEF Readdir, Performing
  <2>9. CASE Closedir BY <2>9, <1>1 DEF Closedir, Performing
  <2>10. CASE Mkdir BY <2>10, <1>1 DEF Mkdir, Performing
  <2>11. CASE Rmdir BY <2>11, <1>1 DEF Rmdir, Performing
  <2>12. CASE Remove BY <2>12, <1>1 DEF Remove, Performing
  <2>13. CASE Rename BY <2>13, <1>1 DEF Rename, Performing
  <2>14. CASE Getcwd BY <2>14, <1>1 DEF Getcwd, Performing
  <2>15. QED
    BY <2>1, <2>2, <2>3, <2>4, <2>5, <2>6, <2>7, <2>8, <2>9, <2>10, <2>11, <2>12,
       <2>13, <2>14 DEF Perform
<1>3. QED
  BY <1>2 DEF Kept

\* A step of a session task between two of its places inside its hook, neither
\* of them the wait nor the collection, changes nothing the invariant is about.
LEMMA MoveInside ==
  ASSUME IInv, NEW s \in Session, NEW to \in Inside \ {"wait", "collect"},
         pc[s] \in Inside \ {"wait"}, Goto(s, to),
         UNCHANGED <<mutex, round, timeouts, sem, queued, answered, service>>
  PROVE  IInv'
<1>1. pc' \in [Session -> Outside \union Inside]
  BY DEF IInv, Goto
<1>2. MutexIsHeldInside'
  BY DEF IInv, MutexIsHeldInside, Goto
<1>3. OneInFlight'
  <2>1. SUFFICES ASSUME timeouts = 0 PROVE OneInFlight'
    BY DEF OneInFlight
  <2>2. /\ ~ \E t \in Session : pc[t] = "wait"
        /\ ~ \E t \in Session : pc'[t] = "wait"
    BY OneInside DEF IInv, Inside, Goto
  <2>3. InFlight' = InFlight
    BY DEF InFlight
  <2>4. \A t \in Session : pc'[t] = "collect" => pc[t] = "collect"
    BY DEF IInv, Goto
  <2>5. QED
    BY <2>1, <2>2, <2>3, <2>4 DEF IInv, OneInFlight, Busy
<1>4. QED
  BY <1>1, <1>2, <1>3 DEF IInv

\* The server starts with no request in flight.
LEMMA InitInv == Init => IInv
<1> SUFFICES ASSUME Init PROVE IInv
  OBVIOUS
<1>1. pc \in [Session -> Outside \union Inside]
  BY DEF Init, Outside
<1>2. MutexIsHeldInside
  BY VfsAssumption DEF Init, MutexIsHeldInside, Inside
<1>3. OneInFlight
  BY DEF Init, OneInFlight, InFlight, Busy, Idle
<1>4. QED
  BY <1>1, <1>2, <1>3 DEF IInv, Init

\* A step of a session task outside a hook, its own or none at all.
LEMMA MoveOutside ==
  ASSUME IInv, NEW s \in Session, pc[s] = "serving",
         Goto(s, "lock") \/ UNCHANGED pc,
         UNCHANGED <<mutex, round, timeouts, sem, queued, answered, service>>
  PROVE  IInv'
<1>1. pc' \in [Session -> Outside \union Inside]
  BY DEF IInv, Goto, Outside
<1>2. MutexIsHeldInside'
  BY DEF IInv, MutexIsHeldInside, Goto, Inside
<1>3. OneInFlight'
  <2>1. \A t \in Session : /\ pc'[t] = "wait" <=> pc[t] = "wait"
                           /\ pc'[t] = "collect" <=> pc[t] = "collect"
    BY DEF IInv, Goto
  <2>2. InFlight' = InFlight
    BY DEF InFlight
  <2>3. QED
    BY <2>1, <2>2 DEF IInv, OneInFlight, Busy
<1>4. QED
  BY <1>1, <1>2, <1>3 DEF IInv

\* Taking and giving vfs_mutex.
LEMMA LockIInv ==
  ASSUME IInv, NEW s \in Session, TakeMutex(s) \/ Return(s)
  PROVE  IInv'
<1> USE DEF TakeMutex, Return
<1>1. pc' \in [Session -> Outside \union Inside]
  BY DEF IInv, Goto, Outside, Inside
<1>2. MutexIsHeldInside'
  BY VfsAssumption DEF IInv, MutexIsHeldInside, Goto, Inside
<1>3. OneInFlight'
  <2>1. \A t \in Session : /\ pc'[t] = "wait" <=> pc[t] = "wait"
                           /\ pc'[t] = "collect" <=> pc[t] = "collect"
    BY DEF IInv, Goto
  <2>2. InFlight' = InFlight
    BY DEF InFlight
  <2>3. QED
    BY <2>1, <2>2 DEF IInv, OneInFlight, Busy
<1>4. QED
  BY <1>1, <1>2, <1>3 DEF IInv

\* A new request: the last one's answer was taken before this hook began its
\* round, so there is nothing of it left to mistake for this one's.
LEMMA SetOpIInv ==
  ASSUME IInv, NEW s \in Session, SetOp(s)
  PROVE  IInv'
<1> USE DEF SetOp
<1>1. pc' \in [Session -> Outside \union Inside]
  BY DEF IInv, Goto, Inside
<1>2. MutexIsHeldInside'
  BY DEF IInv, MutexIsHeldInside, Goto, Inside
<1>3. OneInFlight'
  <2>1. SUFFICES ASSUME timeouts = 0 PROVE OneInFlight'
    BY DEF OneInFlight
  <2>2. ~ \E t \in Session : pc[t] \in {"wait", "collect"}
    BY OneInside DEF IInv, Inside
  <2>3. ~ \E t \in Session : pc'[t] \in {"wait", "collect"}
    BY <2>2 DEF IInv, Goto
  <2>4. queued = 0 /\ sem = 0 /\ service.phase = "idle"
    BY <2>1, <2>2, Quiet
  <2>5. QED
    BY <2>3, <2>4 DEF OneInFlight, InFlight, Busy
<1>4. QED
  BY <1>1, <1>2, <1>3 DEF IInv

\* The request goes into the scheduler queue, and its session waits.
LEMMA ScheduleIInv ==
  ASSUME IInv, NEW s \in Session, Schedule(s)
  PROVE  IInv'
<1> USE DEF Schedule
<1>1. pc' \in [Session -> Outside \union Inside] /\ queued' \in Nat
  BY DEF IInv, Goto, Inside
<1>2. MutexIsHeldInside'
  BY DEF IInv, MutexIsHeldInside, Goto, Inside
<1>3. OneInFlight'
  <2>1. SUFFICES ASSUME timeouts = 0 PROVE OneInFlight'
    BY DEF OneInFlight
  <2>2. ~ \E t \in Session : pc[t] \in {"wait", "collect"}
    BY OneInside DEF IInv, Inside
  <2>3. pc'[s] = "wait" /\ ~ \E t \in Session : pc'[t] = "collect"
    BY <2>2 DEF IInv, Goto
  <2>4. queued = 0 /\ sem = 0 /\ service.phase = "idle"
    BY <2>1, <2>2, Quiet
  <2>5. InFlight' = 1
    BY <2>4 DEF InFlight, Busy
  <2>6. QED
    BY <2>3, <2>4, <2>5 DEF OneInFlight, Busy
<1>4. QED
  BY <1>1, <1>2, <1>3 DEF IInv

\* The answer is taken: it was the only thing in flight, and this session's.
LEMMA TakeAnswerIInv ==
  ASSUME IInv, NEW s \in Session, TakeAnswer(s)
  PROVE  IInv'
<1> USE DEF TakeAnswer
<1>1. pc' \in [Session -> Outside \union Inside]
  BY DEF IInv, Goto, Inside
<1>2. MutexIsHeldInside'
  BY DEF IInv, MutexIsHeldInside, Goto, Inside
<1>3. OneInFlight'
  <2>1. SUFFICES ASSUME timeouts = 0 PROVE OneInFlight'
    BY DEF OneInFlight
  <2>2. ~ \E t \in Session \ {s} : pc[t] \in {"wait", "collect"}
    BY OneInside DEF IInv, Inside
  <2>3. ~ \E t \in Session : pc'[t] = "wait"
    BY <2>2 DEF IInv, Goto
  <2>4. InFlight = 1 /\ answered = round
    BY <2>1 DEF IInv, OneInFlight, Busy
  <2>5. queued = 0 /\ service.phase = "idle"
    BY <2>4 DEF IInv, InFlight, Busy
  <2>6. QED
    BY <2>3, <2>4, <2>5 DEF OneInFlight, InFlight, Busy
<1>4. QED
  BY <1>1, <1>2, <1>3 DEF IInv

\* A wait that times out ends the promise, not the mutual exclusion.
LEMMA TimeOutIInv ==
  ASSUME IInv, NEW s \in Session, TimeOut(s)
  PROVE  IInv'
<1> USE DEF TimeOut, Fail
<1>1. pc' \in [Session -> Outside \union Inside] /\ timeouts' \in Nat
  BY DEF IInv, Goto, Inside
<1>2. MutexIsHeldInside'
  BY DEF IInv, MutexIsHeldInside, Goto, Inside
<1>3. OneInFlight'
  BY DEF IInv, OneInFlight
<1>4. QED
  BY <1>1, <1>2, <1>3 DEF IInv

\* The servicer starts on the request that is in the record.
LEMMA DispatchIInv ==
  ASSUME IInv, Dispatch
  PROVE  IInv'
<1> USE DEF Dispatch, session
<1>1. UNCHANGED pc /\ queued' \in Nat /\ MutexIsHeldInside'
  BY DEF IInv, MutexIsHeldInside
<1>2. service'.phase = "perform" /\ service'.id = round
  OBVIOUS
<1>3. InFlight' = InFlight
  BY <1>2 DEF IInv, InFlight, Busy
<1>4. OneInFlight'
  BY <1>2, <1>3 DEF IInv, OneInFlight, Busy
<1>5. QED
  BY <1>1, <1>4 DEF IInv

\* The operation is performed: still the same request in flight.
LEMMA PerformIInv ==
  ASSUME IInv, Perform
  PROVE  IInv'
<1>1. /\ UNCHANGED control
      /\ service.phase = "perform" /\ service'.phase = "respond"
      /\ service'.id = service.id
  BY PerformKeeps
<1>2. InFlight' = InFlight
  BY <1>1 DEF InFlight, Busy, control
<1>3. OneInFlight'
  BY <1>1, <1>2 DEF IInv, OneInFlight, Busy, control
<1>4. QED
  BY <1>1, <1>3 DEF IInv, MutexIsHeldInside, control

\* The servicer answers: the answer takes the place of the request served.
LEMMA RespondIInv ==
  ASSUME IInv, Respond
  PROVE  IInv'
<1> USE DEF Respond, session, Idle
<1>1. UNCHANGED pc /\ sem' \in {0, 1} /\ MutexIsHeldInside'
  BY DEF IInv, MutexIsHeldInside
<1>2. service'.phase = "idle"
  OBVIOUS
<1>3. OneInFlight'
  <2>1. SUFFICES ASSUME timeouts = 0 PROVE OneInFlight'
    BY DEF OneInFlight
  <2>2. InFlight = 1 /\ sem = 0 /\ service.id = round
    BY <2>1 DEF IInv, OneInFlight, InFlight, Busy
  <2>3. InFlight' = 1
    BY <2>2, <1>2 DEF IInv, InFlight, Busy
  <2>4. QED
    BY <2>1, <2>2, <2>3, <1>2 DEF IInv, OneInFlight, Busy
<1>4. QED
  BY <1>1, <1>3 DEF IInv

\* A step that changes none of these variables.
LEMMA StutterIInv ==
  ASSUME IInv, UNCHANGED control, UNCHANGED service
  PROVE  IInv'
BY DEF IInv, OneInFlight, MutexIsHeldInside, InFlight, control

\* Every step preserves the invariant.
LEMMA NextIInv == IInv /\ [Next]_vars => IInv'
<1> SUFFICES ASSUME IInv, [Next]_vars PROVE IInv'
  OBVIOUS
<1>1. ASSUME NEW s \in Session, NEW c, Call(s, c) PROVE IInv'
  BY <1>1, MoveOutside DEF Call
<1>2. ASSUME NEW s \in Session, Disconnect(s) PROVE IInv'
  BY <1>2, MoveOutside DEF Disconnect
<1>3. ASSUME NEW s \in Session, SetArguments(s) PROVE IInv'
  BY <1>3, MoveInside DEF SetArguments, Inside
<1>4. ASSUME NEW s \in Session, QueueStaysFull(s) PROVE IInv'
  BY <1>4, MoveInside DEF QueueStaysFull, Fail, Inside
<1>5. ASSUME NEW s \in Session, CollectFailure(s) PROVE IInv'
  BY <1>5, MoveInside DEF CollectFailure, Fail, Inside
<1>6. ASSUME NEW s \in Session, CollectOther(s) PROVE IInv'
  BY <1>6, MoveInside DEF CollectOther, Inside
<1>7. ASSUME NEW s \in Session, CollectRead(s) \/ CollectWrite(s) PROVE IInv'
  <2>1. PICK to \in {"unlock", "arguments"} : Goto(s, to)
    BY <1>7 DEF CollectRead, CollectWrite
  <2>2. /\ pc[s] \in Inside \ {"wait"} /\ to \in Inside \ {"wait", "collect"}
        /\ UNCHANGED <<mutex, round, timeouts, sem, queued, answered, service>>
    BY <1>7 DEF CollectRead, CollectWrite, Inside
  <2>3. QED
    BY <2>1, <2>2, MoveInside
<1>8. CASE ScheduleOther \/ RunOther
  BY <1>8, StutterIInv DEF ScheduleOther, RunOther, session, control
<1>9. CASE UNCHANGED vars
  BY <1>9, StutterIInv DEF vars, session, control
<1>10. QED
  BY <1>1, <1>2, <1>3, <1>4, <1>5, <1>6, <1>7, <1>8, <1>9, LockIInv, SetOpIInv,
     ScheduleIInv, TakeAnswerIInv, TimeOutIInv, DispatchIInv, PerformIInv,
     RespondIInv DEF Next, SessionStep

\* The bridge's invariant holds throughout, for any number of sessions and any
\* schedule: one request in flight while a session waits, none otherwise.
THEOREM Invariance == Spec => []IInv
<1>1. Init => IInv
  BY InitInv
<1>2. IInv /\ [Next]_vars => IInv'
  BY NextIInv
<1>3. QED
  BY <1>1, <1>2, PTL DEF Spec

\* Until a wait times out, no session of the sftp server takes the answer to
\* another request: one semaphore is enough for all of them.
THEOREM OwnAnswers == Spec => []AnswerIsOwnUntilTimeout
<1>1. IInv => AnswerIsOwnUntilTimeout
  BY DEF IInv, OneInFlight, AnswerIsOwnUntilTimeout, AnswerIsOwn
<1>2. QED
  BY <1>1, Invariance, PTL
-----------------------------------------------------------------------------
(* The handles.  Which record asks for what, from the hook that fills it   *)
(* to the operation performed, and what becomes of a new handle before its *)
(* client knows it.                                                        *)

CallFields == {"op", "path", "to", "flags", "handle", "ofst", "buf", "sz", "done",
               "res", "size"}
RecordFields == {"op", "path", "to", "flags", "ofst", "ret", "handle", "data", "size",
                 "name", "eof"}
FileFields == {"path", "mode", "opened"}

\* The hooks that name a file by its handle.
OnFiles == {"read", "write", "close", "fstat"}

\* Each record has its fields, and every handle in the table was given out.
Shapes ==
  /\ DOMAIN call = Session /\ DOMAIN held = Session /\ DOMAIN rpc = RecordFields
  /\ \A s \in Session : DOMAIN call[s] = CallFields
  /\ nextHandle \in Nat \ {0}
  /\ \A h \in DOMAIN files : h \in Nat /\ 0 < h /\ h < nextHandle
                             /\ DOMAIN files[h] = FileFields

\* A hook works on a handle its client holds.
OwnCall(s) ==
  /\ pc[s] = "serving" => call[s].op = "none"
  /\ call[s].op \in OnFiles => call[s].handle \in DOMAIN held[s]

\* r, the record or the servicer's copy of it, asks for what c needs.
Asks(r, c) ==
  /\ c.op \in ByPath => r.path = c.path
  /\ c.op = "rename" => r.to = c.to
  /\ c.op = "open" => r.flags = c.flags
  /\ c.op \in ByHandle => r.handle = c.handle
  /\ c.op \in {"read", "write"} => r.ofst = c.ofst + c.done
  /\ c.op = "write" => r.data = Piece(c)

\* A request by handle for attributes is a STAT.
Operation(c) == IF c.op = "fstat" THEN "stat" ELSE c.op

\* From the filling of the record to the end of the operation the record, and
\* then its copy, asks for what its session needs.
Recorded(s) ==
  /\ pc[s] \in {"op", "schedule"} => Asks(rpc, call[s])
  /\ pc[s] = "schedule" => rpc.op = Operation(call[s])
  /\ (pc[s] = "wait" /\ queued > 0) => Asks(rpc, call[s]) /\ rpc.op = Operation(call[s])
  /\ (pc[s] = "wait" /\ service.phase = "perform") =>
       Asks(service, call[s]) /\ service.op = Operation(call[s])

\* A handle that is in the table and that no client holds.
Fresh(h, path) == /\ h \in DOMAIN files /\ files[h].opened = path
                  /\ \A t \in Session : h \notin DOMAIN held[t]

\* From the opening of a file to the hook's return its handle is fresh.
Opened(s) ==
  call[s].op = "open" =>
    /\ (pc[s] = "wait" /\ service.phase = "respond" /\ service.reply.ret = 0) =>
         Fresh(service.reply.handle, call[s].path)
    /\ (pc[s] = "wait" /\ sem = 1 /\ rpc.ret = 0) => Fresh(rpc.handle, call[s].path)
    /\ (pc[s] = "collect" /\ rpc.ret = 0) => Fresh(rpc.handle, call[s].path)
    /\ (pc[s] = "unlock" /\ call[s].res = "ok") => Fresh(call[s].handle, call[s].path)

Closing(s, h) == call[s].op = "close" /\ call[s].handle = h

\* What a client holds is in the table, for the file it asked for.
Stands(s) ==
  \A h \in DOMAIN held[s] :
    /\ h \in Nat /\ h < nextHandle
    /\ Closing(s, h) \/ (h \in DOMAIN files /\ files[h].opened = held[s][h])

\* No two clients hold the same handle.
Apart == \A s, t \in Session : s # t => DOMAIN held[s] \intersect DOMAIN held[t] = {}

\* The inductive form of HandlesStandForTheirFiles.
Handled ==
  /\ IInv /\ Shapes
  /\ \A s \in Session : OwnCall(s)
  /\ timeouts = 0 => Apart /\ \A s \in Session : Recorded(s) /\ Opened(s) /\ Stands(s)

\* A client asks about files by handles it holds.
LEMMA RequestIsOwn ==
  ASSUME NEW s \in Session, NEW c \in Requests(s)
  PROVE  /\ DOMAIN c = CallFields
         /\ c.op \in OnFiles => c.handle \in DOMAIN held[s]
<1>1. CASE c = For("getcwd")
  BY <1>1 DEF For, NoCall, CallFields, OnFiles
<1>2. CASE \E op \in {"opendir", "mkdir", "rmdir", "remove", "stat"}, p \in Path :
             c = ForPath(op, p)
  BY <1>2 DEF ForPath, For, NoCall, CallFields, OnFiles
<1>3. CASE \E p \in Path, f \in Flags :
             c = ForOpen(p, f)
  BY <1>3 DEF ForOpen, For, NoCall, CallFields, OnFiles
<1>4. CASE \E p \in Path, q \in Path :
             c = ForRename(p, q)
  BY <1>4 DEF ForRename, For, NoCall, CallFields, OnFiles
<1>5. CASE \E op \in {"close", "fstat"}, h \in DOMAIN held[s] :
             c = ForHandle(op, h)
  BY <1>5 DEF ForHandle, For, NoCall, CallFields, OnFiles
<1>6. CASE \E op \in {"readdir", "closedir"}, h \in heldDirs[s] :
             c = ForHandle(op, h)
  BY <1>6 DEF ForHandle, For, NoCall, CallFields, OnFiles
<1>7. CASE \E h \in DOMAIN held[s], o \in Offsets, b \in Buffers :
             c = ForRead(h, o, b)
  BY <1>7 DEF ForRead, For, NoCall, CallFields, OnFiles
<1>8. CASE \E h \in DOMAIN held[s], o \in Offsets, b \in Buffers :
             c = ForWrite(h, o, b)
  BY <1>8 DEF ForWrite, For, NoCall, CallFields, OnFiles
<1>9. QED
  BY <1>1, <1>2, <1>3, <1>4, <1>5, <1>6, <1>7, <1>8 DEF Requests

\* While the servicer is at work, or its answer waits, one session waits for it.
LEMMA Waiting ==
  ASSUME IInv, timeouts = 0, queued > 0 \/ service.phase # "idle" \/ sem = 1
  PROVE  \E s \in Session :
           /\ pc[s] = "wait"
           /\ \A t \in Session \ {s} : pc[t] \notin Inside
           /\ queued + Busy(service.phase # "idle") + sem = 1
<1>1. queued + Busy(service.phase # "idle") + sem
        = Busy(\E s \in Session : pc[s] = "wait")
  BY DEF IInv, OneInFlight, InFlight
<1>2. queued \in Nat /\ sem \in {0, 1} /\ Busy(service.phase # "idle") \in {0, 1}
  BY DEF IInv, Busy
<1>3. \E s \in Session : pc[s] = "wait"
  BY <1>1, <1>2 DEF Busy
<1>4. queued + Busy(service.phase # "idle") + sem = 1
  BY <1>1, <1>3 DEF Busy
<1>5. PICK s \in Session : pc[s] = "wait"
  BY <1>3
<1>6. \A t \in Session \ {s} : pc[t] \notin Inside
  BY <1>5, OneInside DEF IInv, Inside
<1>7. QED
  BY <1>4, <1>5, <1>6

\* A session's step inside its hook: what is left to show is of its own request.
LEMMA InnerKeeps ==
  ASSUME Handled, IInv', NEW s \in Session, pc[s] \in Inside, pc'[s] \in Inside,
         \A t \in Session \ {s} : pc'[t] = pc[t] /\ call'[t] = call[t],
         DOMAIN call' = Session, DOMAIN call'[s] = CallFields,
         call'[s].op = call[s].op,
         call[s].op \in OnFiles => call'[s].handle = call[s].handle,
         DOMAIN rpc' = RecordFields,
         UNCHANGED <<held, files, nextHandle>>,
         timeouts' = 0 => timeouts = 0 /\ Recorded(s)' /\ Opened(s)'
  PROVE  Handled'
<1>1. \A t \in Session : DOMAIN call'[t] = CallFields
  BY DEF Handled, Shapes
<1>2. Shapes'
  BY <1>1 DEF Handled, Shapes
<1>3. \A t \in Session : OwnCall(t)'
  BY DEF Handled, OwnCall, Inside
<1>4. ASSUME timeouts' = 0
      PROVE  Apart' /\ \A t \in Session : Recorded(t)' /\ Opened(t)' /\ Stands(t)'
  <2>1. Apart' /\ Recorded(s)' /\ Opened(s)'
    BY <1>4 DEF Handled, Apart
  <2>2. \A t \in Session \ {s} : pc'[t] \notin Inside
    BY OneInside DEF Handled, IInv
  <2>3. \A t \in Session \ {s} : Recorded(t)' /\ Opened(t)'
    BY <2>2 DEF Recorded, Opened, Inside
  <2>4. \A t \in Session : \A h : Closing(t, h)' <=> Closing(t, h)
    BY DEF Closing, OnFiles
  <2>5. \A t \in Session : Stands(t)'
    BY <1>4, <2>4 DEF Handled, Stands
  <2>6. QED
    BY <2>1, <2>3, <2>5
<1>5. QED
  BY <1>2, <1>3, <1>4 DEF Handled

\* Filling the record: from then on it asks for what the hook needs.
LEMMA ArgumentsHandled ==
  ASSUME Handled, NEW s \in Session, SetArguments(s)
  PROVE  Handled'
<1> USE DEF SetArguments, python
<1>1. IInv' /\ pc[s] \in Inside
  BY NextIInv DEF Handled, Next, SessionStep, Inside
<1>2. pc'[s] = "op" /\ \A t \in Session \ {s} : pc'[t] = pc[t]
  BY DEF Handled, IInv, Goto
<1>3. DOMAIN rpc' = RecordFields
  BY DEF Handled, Shapes
<1>4. Asks(rpc', call[s])
  BY DEF Handled, Shapes, Asks, RecordFields, ByPath, ByHandle
<1>5. Recorded(s)' /\ Opened(s)'
  BY <1>2, <1>4 DEF Recorded, Opened, Asks, Piece
<1>6. QED
  BY <1>1, <1>2, <1>3, <1>5, InnerKeeps DEF Inside, Handled, Shapes

\* Naming the operation completes the request.
LEMMA OpHandled ==
  ASSUME Handled, NEW s \in Session, SetOp(s)
  PROVE  Handled'
<1> USE DEF SetOp, python
<1>1. IInv' /\ pc[s] \in Inside
  BY NextIInv DEF Handled, Next, SessionStep, Inside
<1>2. pc'[s] = "schedule" /\ \A t \in Session \ {s} : pc'[t] = pc[t]
  BY DEF Handled, IInv, Goto
<1>3. DOMAIN rpc' = RecordFields /\ rpc'.op = Operation(call[s])
  BY DEF Handled, Shapes, RecordFields, Operation
<1>4. timeouts = 0 => Asks(rpc', call[s])
  BY DEF Handled, Shapes, Recorded, Asks, RecordFields
<1>5. timeouts = 0 => Recorded(s)' /\ Opened(s)'
  BY <1>2, <1>3, <1>4 DEF Recorded, Opened, Asks, Piece, Operation
<1>6. QED
  BY <1>1, <1>2, <1>3, <1>5, InnerKeeps DEF Inside, Handled, Shapes

\* The request is the only one in the queue: nothing of an older one is in flight.
LEMMA ScheduleHandled ==
  ASSUME Handled, NEW s \in Session, Schedule(s)
  PROVE  Handled'
<1> USE DEF Schedule, python
<1>1. IInv' /\ pc[s] \in Inside
  BY NextIInv DEF Handled, Next, SessionStep, Inside
<1>2. pc'[s] = "wait" /\ \A t \in Session \ {s} : pc'[t] = pc[t]
  BY DEF Handled, IInv, Goto
<1>3. timeouts = 0 => sem = 0 /\ service.phase = "idle"
  BY Quiet, OneInside DEF Handled, IInv, Inside
<1>4. timeouts = 0 => Recorded(s)' /\ Opened(s)'
  BY <1>2, <1>3 DEF Handled, Recorded, Opened, Asks, Piece, Operation
<1>5. QED
  BY <1>1, <1>2, <1>4, InnerKeeps DEF Inside, Handled, Shapes

\* A hook that fails has nothing to hand out, and a wait that ends by timing out
\* ends the promise.
LEMMA FailHandled ==
  ASSUME Handled, NEW s \in Session, QueueStaysFull(s) \/ TimeOut(s) \/ CollectFailure(s)
  PROVE  Handled'
<1> USE DEF QueueStaysFull, TimeOut, CollectFailure
<1>1. IInv' /\ pc[s] \in Inside
  BY NextIInv DEF Handled, Next, SessionStep, Inside
<1>2. pc'[s] = "unlock" /\ \A t \in Session \ {s} : pc'[t] = pc[t]
  BY DEF Handled, IInv, Goto, Fail
<1>3. call'[s] = [call[s] EXCEPT !.res = "failed"] /\ DOMAIN call' = Session
      /\ \A t \in Session \ {s} : call'[t] = call[t]
  BY DEF Handled, Shapes, Fail
<1>4. /\ DOMAIN call'[s] = CallFields /\ call'[s].op = call[s].op
      /\ call'[s].handle = call[s].handle /\ call'[s].res = "failed"
  BY <1>3 DEF Handled, Shapes, CallFields
<1>5. timeouts' = 0 => timeouts = 0
  BY DEF Handled, IInv
<1>6. Recorded(s)' /\ Opened(s)'
  BY <1>2, <1>4 DEF Recorded, Opened
<1>7. UNCHANGED <<held, files, nextHandle, rpc>>
  BY DEF python
<1>8. QED
  BY <1>1, <1>2, <1>3, <1>4, <1>5, <1>6, <1>7, InnerKeeps DEF Inside, Handled, Shapes

LEMMA TakeAnswerHandled ==
  ASSUME Handled, NEW s \in Session, TakeAnswer(s)
  PROVE  Handled'
<1> USE DEF TakeAnswer, python
<1>1. IInv' /\ pc[s] \in Inside
  BY NextIInv DEF Handled, Next, SessionStep, Inside
<1>2. pc'[s] = "collect" /\ \A t \in Session \ {s} : pc'[t] = pc[t]
  BY DEF Handled, IInv, Goto
<1>3. timeouts = 0 => Recorded(s)' /\ Opened(s)'
  BY <1>2 DEF Handled, Recorded, Opened, Fresh
<1>4. QED
  BY <1>1, <1>2, <1>3, InnerKeeps DEF Inside, Handled, Shapes

\* A piece read or written: the handle of the transfer stays what it was.
LEMMA PieceHandled ==
  ASSUME Handled, NEW s \in Session, CollectRead(s) \/ CollectWrite(s)
  PROVE  Handled'
<1> USE DEF CollectRead, CollectWrite, python
<1>1. IInv' /\ pc[s] \in Inside
  BY NextIInv DEF Handled, Next, SessionStep, Inside
<1>2. pc'[s] \in {"arguments", "unlock"} /\ \A t \in Session \ {s} : pc'[t] = pc[t]
  <2>1. PICK to \in {"arguments", "unlock"} : Goto(s, to)
    OBVIOUS
  <2>2. QED
    BY <2>1 DEF Handled, IInv, Goto
<1>3. /\ DOMAIN call' = Session /\ \A t \in Session \ {s} : call'[t] = call[t]
      /\ DOMAIN call'[s] = CallFields /\ call'[s].op = call[s].op
      /\ call'[s].handle = call[s].handle
  <2>1. DOMAIN call = Session /\ DOMAIN call[s] = CallFields
    BY DEF Handled, Shapes
  <2>2. CASE CollectRead(s)
    <3>1. PICK buf, done, res :
            call' = [call EXCEPT ![s] = [call[s] EXCEPT !.buf = buf, !.done = done,
                                                        !.res = res]]
      BY <2>2 DEF Collected
    <3>2. QED
      BY <2>1, <3>1 DEF CallFields
  <2>3. CASE CollectWrite(s)
    <3>1. PICK done, res :
            call' = [call EXCEPT ![s] = [call[s] EXCEPT !.done = done, !.res = res]]
      BY <2>3 DEF Collected
    <3>2. QED
      BY <2>1, <3>1 DEF CallFields
  <2>4. QED
    BY <2>2, <2>3
<1>4. Recorded(s)' /\ Opened(s)'
  BY <1>2, <1>3 DEF Recorded, Opened
<1>5. QED
  BY <1>1, <1>2, <1>3, <1>4, InnerKeeps DEF Inside, Handled, Shapes

\* An OPEN collects the handle the servicer has just put into the table.
LEMMA OtherHandled ==
  ASSUME Handled, NEW s \in Session, CollectOther(s)
  PROVE  Handled'
<1> USE DEF CollectOther, python
<1>1. IInv' /\ pc[s] \in Inside
  BY NextIInv DEF Handled, Next, SessionStep, Inside
<1>2. pc'[s] = "unlock" /\ \A t \in Session \ {s} : pc'[t] = pc[t]
  BY DEF Handled, IInv, Goto
<1>3. /\ DOMAIN call' = Session /\ \A t \in Session \ {s} : call'[t] = call[t]
      /\ DOMAIN call'[s] = CallFields /\ call'[s].op = call[s].op
      /\ call'[s].path = call[s].path
      /\ call'[s].handle = IF call[s].op \in {"open", "opendir"} THEN rpc.handle
                           ELSE call[s].handle
  BY DEF Handled, Shapes, Collected, CallFields
<1>4. timeouts = 0 => Recorded(s)' /\ Opened(s)'
  BY <1>2, <1>3 DEF Handled, Recorded, Opened, Fresh
<1>5. QED
  BY <1>1, <1>2, <1>3, <1>4, InnerKeeps DEF Inside, Handled, Shapes, OnFiles

\* A session's step outside its hook, which may only forget handles.
LEMMA OuterKeeps ==
  ASSUME Handled, IInv', NEW s \in Session,
         pc'[s] \in {"serving", "lock", "arguments"},
         \A t \in Session \ {s} : pc'[t] = pc[t] /\ call'[t] = call[t] /\ held'[t] = held[t],
         DOMAIN call' = Session, DOMAIN call'[s] = CallFields, DOMAIN held' = Session,
         OwnCall(s)', DOMAIN held'[s] \subseteq DOMAIN held[s],
         timeouts = 0 => Stands(s)',
         UNCHANGED <<timeouts, rpc, sem, queued, service, files, nextHandle>>
  PROVE  Handled'
<1>1. Shapes' /\ \A t \in Session : OwnCall(t)'
  BY DEF Handled, Shapes, OwnCall
<1>2. ASSUME timeouts = 0
      PROVE  Apart' /\ \A t \in Session : Recorded(t)' /\ Opened(t)' /\ Stands(t)'
  <2>1. \A t \in Session : DOMAIN held'[t] \subseteq DOMAIN held[t]
    OBVIOUS
  <2>2. Apart'
    BY <1>2, <2>1 DEF Handled, Apart
  <2>3. \A h, p : Fresh(h, p) => Fresh(h, p)'
    BY <2>1 DEF Fresh
  <2>4. Recorded(s)' /\ Opened(s)'
    BY DEF Recorded, Opened
  <2>5. ASSUME NEW t \in Session \ {s} PROVE Recorded(t)' /\ Opened(t)' /\ Stands(t)'
    <3>1. Recorded(t) /\ Opened(t) /\ Stands(t)
      BY <1>2 DEF Handled
    <3>2. Recorded(t)'
      BY <3>1 DEF Recorded, Asks, Operation, Piece
    <3>3. Opened(t)'
      BY <3>1, <2>3 DEF Opened
    <3>4. Stands(t)'
      BY <3>1 DEF Stands, Closing
    <3>5. QED
      BY <3>2, <3>3, <3>4
  <2>6. QED
    BY <1>2, <2>2, <2>4, <2>5
<1>3. QED
  BY <1>1, <1>2 DEF Handled

\* A client's request, the taking of vfs_mutex, and a client that hangs up.
LEMMA CallHandled ==
  ASSUME Handled, NEW s \in Session, NEW c \in Requests(s), Call(s, c)
  PROVE  Handled'
<1> USE DEF Call, python
<1>1. IInv'
  BY NextIInv DEF Handled, Next
<1>2. pc'[s] = "lock" /\ \A t \in Session \ {s} : pc'[t] = pc[t]
  BY DEF Handled, IInv, Goto
<1>3. /\ DOMAIN call' = Session /\ \A t \in Session \ {s} : call'[t] = call[t]
      /\ call'[s] = c /\ DOMAIN call'[s] = CallFields
  BY RequestIsOwn DEF Handled, Shapes
<1>4. OwnCall(s)'
  BY <1>2, <1>3, RequestIsOwn DEF OwnCall
<1>5. timeouts = 0 => Stands(s)'
  BY DEF Handled, Stands, Closing, OwnCall
<1>6. QED
  BY <1>1, <1>2, <1>3, <1>4, <1>5, OuterKeeps DEF Handled, Shapes

LEMMA LockHandled ==
  ASSUME Handled, NEW s \in Session, TakeMutex(s)
  PROVE  Handled'
<1> USE DEF TakeMutex, python
<1>1. IInv'
  BY NextIInv DEF Handled, Next
<1>2. pc'[s] = "arguments" /\ \A t \in Session \ {s} : pc'[t] = pc[t]
  BY DEF Handled, IInv, Goto
<1>3. OwnCall(s)'
  BY <1>2 DEF Handled, OwnCall
<1>4. timeouts = 0 => Stands(s)'
  BY DEF Handled, Stands, Closing
<1>5. QED
  BY <1>1, <1>2, <1>3, <1>4, OuterKeeps DEF Handled, Shapes

LEMMA DisconnectHandled ==
  ASSUME Handled, NEW s \in Session, Disconnect(s)
  PROVE  Handled'
<1> USE DEF Disconnect, python
<1>1. IInv'
  BY NextIInv DEF Handled, Next
<1>2. /\ DOMAIN held' = Session /\ DOMAIN held'[s] = {}
      /\ \A t \in Session \ {s} : held'[t] = held[t]
  BY DEF Handled, Shapes
<1>3. OwnCall(s)' /\ Stands(s)'
  BY <1>2 DEF Handled, OwnCall, OnFiles, Stands
<1>4. QED
  BY <1>1, <1>2, <1>3, OuterKeeps DEF Handled, Shapes

\* The hook returns: an opened handle, fresh until now, becomes its client's, and
\* a closed one is forgotten.
LEMMA ReturnHandled ==
  ASSUME Handled, NEW s \in Session, Return(s)
  PROVE  Handled'
<1> USE DEF Return, python
<1> DEFINE c == call[s]
           opened == c.op = "open" /\ c.res = "ok"
<1>1. IInv' /\ pc[s] = "unlock" /\ pc[s] \in Inside
  BY NextIInv DEF Handled, Next, SessionStep, Inside
<1>2. pc'[s] = "serving" /\ \A t \in Session \ {s} : pc'[t] = pc[t]
  BY DEF Handled, IInv, Goto
<1>3. \A t \in Session \ {s} : pc[t] \notin Inside
  BY <1>1, OneInside DEF Handled, IInv
<1>4. /\ DOMAIN call' = Session /\ call'[s] = NoCall
      /\ \A t \in Session \ {s} : call'[t] = call[t]
      /\ DOMAIN held' = Session /\ \A t \in Session \ {s} : held'[t] = held[t]
  BY DEF Handled, Shapes
<1>5. held'[s] = IF opened THEN With(held[s], c.handle, c.path)
                 ELSE IF c.op = "close" THEN Without(held[s], c.handle) ELSE held[s]
  BY DEF Handled, Shapes
<1>6. call'[s].op = "none" /\ DOMAIN call'[s] = CallFields
  BY <1>4 DEF NoCall, CallFields
<1>7. Shapes' /\ \A t \in Session : OwnCall(t)'
  BY <1>2, <1>4, <1>6 DEF Handled, Shapes, OwnCall, OnFiles
<1>8. ASSUME timeouts = 0
      PROVE  Apart' /\ \A t \in Session : Recorded(t)' /\ Opened(t)' /\ Stands(t)'
  <2>1. opened => Fresh(c.handle, c.path)
    BY <1>1, <1>8 DEF Handled, Opened
  <2>2. DOMAIN held'[s] = IF opened THEN DOMAIN held[s] \union {c.handle}
                          ELSE IF c.op = "close" THEN DOMAIN held[s] \ {c.handle}
                          ELSE DOMAIN held[s]
    BY <1>5 DEF With, Without
  <2>3. \A h \in DOMAIN held'[s] :
          held'[s][h] = IF opened /\ h = c.handle THEN c.path ELSE held[s][h]
    BY <1>5, <2>2 DEF With, Without
  <2>4. Apart'
    BY <1>4, <1>8, <2>1, <2>2 DEF Handled, Apart, Fresh
  <2>5. Stands(s)'
    <3>1. ASSUME NEW h \in DOMAIN held'[s]
          PROVE  /\ h \in Nat /\ h < nextHandle /\ h \in DOMAIN files
                 /\ files[h].opened = held'[s][h]
      <4>1. CASE opened /\ h = c.handle
        BY <2>1, <2>3, <3>1, <4>1 DEF Handled, Shapes, Fresh
      <4>2. CASE ~(opened /\ h = c.handle)
        <5>1. h \in DOMAIN held[s] /\ ~Closing(s, h)
          BY <2>2, <3>1, <4>2 DEF Closing
        <5>2. QED
          BY <1>8, <2>3, <3>1, <4>2, <5>1 DEF Handled, Stands
      <4>3. QED
        BY <4>1, <4>2
    <3>2. QED
      BY <3>1 DEF Stands
  <2>6. ASSUME NEW t \in Session \ {s} PROVE Recorded(t)' /\ Opened(t)' /\ Stands(t)'
    <3>1. Recorded(t)' /\ Opened(t)'
      BY <1>2, <1>3 DEF Recorded, Opened, Inside
    <3>2. Stands(t)'
      BY <1>4, <1>8 DEF Handled, Stands, Closing
    <3>3. QED
      BY <3>1, <3>2
  <2>7. Recorded(s)' /\ Opened(s)'
    BY <1>2 DEF Recorded, Opened
  <2>8. QED
    BY <2>4, <2>5, <2>6, <2>7
<1>9. QED
  BY <1>1, <1>7, <1>8 DEF Handled

\* The servicer copies the record while the session that filled it waits.
LEMMA DispatchHandled ==
  ASSUME Handled, Dispatch
  PROVE  Handled'
<1> USE DEF Dispatch, session, python
<1>1. IInv'
  BY NextIInv DEF Handled, Next
<1>2. Shapes' /\ \A t \in Session : OwnCall(t)'
  BY DEF Handled, Shapes, OwnCall
<1>3. ASSUME timeouts = 0, NEW t \in Session
      PROVE  Recorded(t)' /\ Opened(t)' /\ Stands(t)'
  <2>1. queued' = 0
    BY <1>3, Waiting DEF Handled, IInv, Busy
  <2>2. Recorded(t) /\ Opened(t) /\ Stands(t)
    BY <1>3 DEF Handled
  <2>3. pc[t] = "wait" => Asks(service', call[t]) /\ service'.op = Operation(call[t])
    BY <2>2 DEF Recorded, Asks
  <2>4. Recorded(t)'
    BY <2>1, <2>2, <2>3 DEF Recorded, Asks, Operation, Piece
  <2>5. Opened(t)' /\ Stands(t)'
    BY <2>2 DEF Opened, Stands, Fresh, Closing
  <2>6. QED
    BY <2>4, <2>5
<1>4. timeouts = 0 => Apart'
  BY DEF Handled, Apart
<1>5. QED
  BY <1>1, <1>2, <1>3, <1>4 DEF Handled

\* The answer goes into the record of the session that waits for it.
LEMMA RespondHandled ==
  ASSUME Handled, Respond
  PROVE  Handled'
<1> USE DEF Respond, session, python
<1>1. IInv'
  BY NextIInv DEF Handled, Next
<1>2. DOMAIN rpc' = RecordFields /\ rpc'.ret = service.reply.ret
      /\ rpc'.handle = service.reply.handle
  BY DEF Handled, Shapes, RecordFields
<1>3. Shapes' /\ \A t \in Session : OwnCall(t)'
  BY <1>2 DEF Handled, Shapes, OwnCall
<1>4. ASSUME timeouts = 0, NEW t \in Session
      PROVE  Recorded(t)' /\ Opened(t)' /\ Stands(t)'
  <2>1. PICK w \in Session : pc[w] = "wait" /\ \A u \in Session \ {w} : pc[u] \notin Inside
    BY <1>4, Waiting DEF Handled
  <2>2. queued = 0 /\ service'.phase = "idle"
    BY <1>4, Waiting DEF Handled, IInv, Busy, Idle
  <2>3. Opened(t) /\ Stands(t)
    BY <1>4 DEF Handled
  <2>4. Recorded(t)'
    BY <2>1, <2>2 DEF Recorded, Inside
  <2>5. Opened(t)'
    BY <1>2, <2>1, <2>2, <2>3 DEF Opened, Fresh, Inside
  <2>6. Stands(t)'
    BY <2>3 DEF Stands, Closing
  <2>7. QED
    BY <2>4, <2>5, <2>6
<1>5. timeouts = 0 => Apart'
  BY DEF Handled, Apart
<1>6. QED
  BY <1>1, <1>3, <1>4, <1>5 DEF Handled

\* The servicer does not touch what is the sessions'.
LEMMA PerformSession ==
  ASSUME Perform
  PROVE  UNCHANGED <<session, rpc, sem, queued>>
<1>1. ASSUME NEW reply, Answer(reply) PROVE UNCHANGED <<session, rpc, sem, queued>>
  BY <1>1 DEF Answer
<1>2. CASE Raise BY <1>2, <1>1 DEF Raise
<1>3. CASE Stat BY <1>3, <1>1 DEF Stat
<1>4. CASE Open BY <1>4, <1>1 DEF Open
<1>5. CASE Read BY <1>5, <1>1 DEF Read
<1>6. CASE Write BY <1>6, <1>1 DEF Write
<1>7. CASE Close BY <1>7, <1>1 DEF Close
<1>8. CASE Opendir BY <1>8, <1>1 DEF Opendir
<1>9. CASE Readdir BY <1>9, <1>1 DEF Readdir
<1>10. CASE Closedir BY <1>10, <1>1 DEF Closedir
<1>11. CASE Mkdir BY <1>11, <1>1 DEF Mkdir
<1>12. CASE Rmdir BY <1>12, <1>1 DEF Rmdir
<1>13. CASE Remove BY <1>13, <1>1 DEF Remove
<1>14. CASE Rename BY <1>14, <1>1 DEF Rename
<1>15. CASE Getcwd BY <1>15, <1>1 DEF Getcwd
<1>16. QED
  BY <1>2, <1>3, <1>4, <1>5, <1>6, <1>7, <1>8, <1>9, <1>10, <1>11, <1>12, <1>13,
     <1>14, <1>15 DEF Perform

\* What an operation does to the table of open files: it opens one, under the
\* next handle; or closes the one it names; or leaves all of them there, each the
\* file it was opened as, and then it is not an OPEN that succeeds.
LEMMA PerformFiles ==
  ASSUME Shapes, Perform
  PROVE  \/ /\ service.op = "open"
            /\ DOMAIN files' = DOMAIN files \union {nextHandle}
            /\ \A h \in DOMAIN files : files'[h] = files[h]
            /\ DOMAIN files'[nextHandle] = FileFields
            /\ files'[nextHandle].opened = service.path
            /\ nextHandle' = nextHandle + 1
            /\ service'.reply.handle = nextHandle
         \/ /\ service.op = "close"
            /\ files' = Without(files, service.handle)
            /\ UNCHANGED nextHandle
         \/ /\ service.op = "open" => service'.reply.ret = -1
            /\ DOMAIN files' = DOMAIN files
            /\ \A h \in DOMAIN files : DOMAIN files'[h] = FileFields
                                       /\ files'[h].opened = files[h].opened
            /\ nextHandle' \in {nextHandle, nextHandle + 1}
<1> DEFINE Left == /\ service.op = "open" => service'.reply.ret = -1
                   /\ DOMAIN files' = DOMAIN files
                   /\ \A h \in DOMAIN files : DOMAIN files'[h] = FileFields
                                              /\ files'[h].opened = files[h].opened
                   /\ nextHandle' \in {nextHandle, nextHandle + 1}
<1>1. ASSUME service.op # "open" \/ service'.reply.ret = -1, UNCHANGED files,
             nextHandle' \in {nextHandle, nextHandle + 1}
      PROVE  Left
  BY <1>1 DEF Shapes
<1>2. CASE Raise
  <2>1. service'.reply.ret = -1
    BY <1>2 DEF Raise, Answer, Reply
  <2>2. QED
    BY <1>1, <1>2, <2>1 DEF Raise
<1>3. CASE Stat \/ Read \/ Write \/ Getcwd
  BY <1>1, <1>3 DEF Stat, Read, Write, Getcwd, Performing, python
<1>4. CASE Opendir \/ Readdir \/ Closedir
  BY <1>1, <1>4 DEF Opendir, Readdir, Closedir, Performing
<1>5. CASE Mkdir \/ Rmdir
  BY <1>1, <1>5 DEF Mkdir, Rmdir, Performing
<1>6. CASE Remove
  <2>1. /\ DOMAIN files' = DOMAIN files
        /\ \A h \in DOMAIN files : DOMAIN files'[h] = FileFields
                                   /\ files'[h].opened = files[h].opened
    BY <1>6 DEF Remove, Shapes, FileFields
  <2>2. QED
    BY <1>6, <2>1 DEF Remove, Performing
<1>7. CASE Rename
  <2>1. CASE service.path = service.to
    BY <1>1, <1>7, <2>1 DEF Rename, Performing
  <2>2. CASE service.path # service.to
    <3>1. files' = [h \in DOMAIN files |->
                      [files[h] EXCEPT !.path = IF @ = service.path THEN service.to
                                                ELSE IF @ = service.to THEN NoPath ELSE @]]
      BY <1>7, <2>2 DEF Rename
    <3>2. /\ DOMAIN files' = DOMAIN files
          /\ \A h \in DOMAIN files : DOMAIN files'[h] = FileFields
                                     /\ files'[h].opened = files[h].opened
      BY <3>1 DEF Shapes, FileFields
    <3>3. QED
      BY <1>7, <3>2 DEF Rename, Performing
  <2>3. QED
    BY <2>1, <2>2
<1>8. CASE Close
  BY <1>8 DEF Close, Performing
<1>9. CASE Open
  <2>1. PICK f : /\ files' = With(files, nextHandle, f) /\ DOMAIN f = FileFields
                 /\ f.opened = service.path
    BY <1>9 DEF Open, FileFields
  <2>2. service.op = "open" /\ nextHandle' = nextHandle + 1
    BY <1>9 DEF Open, Performing
  <2>3. service'.reply.handle = nextHandle
    BY <1>9 DEF Open, Answer, Reply
  <2>4. /\ DOMAIN files' = DOMAIN files \union {nextHandle}
        /\ \A h \in DOMAIN files : files'[h] = files[h]
        /\ files'[nextHandle] = f
    BY <2>1 DEF With, Shapes
  <2>5. QED
    BY <2>1, <2>2, <2>3, <2>4
<1>10. QED
  BY <1>2, <1>3, <1>4, <1>5, <1>6, <1>7, <1>8, <1>9 DEF Perform

\* An operation: the handle it opens is nobody's yet, the one it closes is its own
\* client's, and every other handle keeps its file.
LEMMA PerformHandled ==
  ASSUME Handled, Perform
  PROVE  Handled'
<1> DEFINE Left == /\ service.op = "open" => service'.reply.ret = -1
                   /\ DOMAIN files' = DOMAIN files
                   /\ \A h \in DOMAIN files : DOMAIN files'[h] = FileFields
                                              /\ files'[h].opened = files[h].opened
                   /\ nextHandle' \in {nextHandle, nextHandle + 1}
           Added == /\ service.op = "open"
                    /\ DOMAIN files' = DOMAIN files \union {nextHandle}
                    /\ \A h \in DOMAIN files : files'[h] = files[h]
                    /\ DOMAIN files'[nextHandle] = FileFields
                    /\ files'[nextHandle].opened = service.path
                    /\ nextHandle' = nextHandle + 1
                    /\ service'.reply.handle = nextHandle
           Dropped == /\ service.op = "close"
                      /\ files' = Without(files, service.handle)
                      /\ UNCHANGED nextHandle
<1>1. IInv'
  BY NextIInv DEF Handled, Next
<1>2. /\ UNCHANGED <<pc, call, held, rpc, sem, queued, timeouts>>
      /\ service.phase = "perform" /\ service'.phase = "respond"
  BY PerformKeeps, PerformSession DEF session
<1>3. Left \/ Added \/ Dropped
  BY PerformFiles DEF Handled
<1>4. Shapes'
  BY <1>2, <1>3 DEF Handled, Shapes, Without
<1>5. \A t \in Session : OwnCall(t)'
  BY <1>2 DEF Handled, OwnCall
<1>6. ASSUME timeouts = 0, NEW t \in Session
      PROVE  Recorded(t)' /\ Opened(t)' /\ Stands(t)'
  <2>1. PICK w \in Session : pc[w] = "wait" /\ \A u \in Session \ {w} : pc[u] \notin Inside
    BY <1>2, <1>6, Waiting DEF Handled
  <2>2. queued = 0 /\ sem = 0
    BY <1>2, <1>6, Waiting DEF Handled, IInv, Busy
  <2>3. Asks(service, call[w]) /\ service.op = Operation(call[w])
    BY <1>2, <1>6, <2>1 DEF Handled, Recorded
  <2>4. Recorded(t)'
    BY <1>2, <2>1, <2>2 DEF Recorded, Inside
  <2>5. Stands(t) /\ Stands(w)
    BY <1>6 DEF Handled
  <2>6. Opened(t)'
    <3>1. SUFFICES ASSUME t = w, call[w].op = "open", service'.reply.ret = 0
                   PROVE  LET h == service'.reply.handle IN
                          /\ h \in DOMAIN files' /\ files'[h].opened = call[w].path
                          /\ \A u \in Session : h \notin DOMAIN held[u]
      BY <1>2, <2>1, <2>2 DEF Opened, Fresh, Inside
    <3>2. Added
      BY <1>3, <2>3, <3>1 DEF Operation
    <3>3. service.path = call[w].path
      BY <2>3, <3>1 DEF Asks, ByPath
    <3>4. \A u \in Session : nextHandle \notin DOMAIN held[u]
      BY <1>6 DEF Handled, Stands, Shapes
    <3>5. QED
      BY <1>2, <3>2, <3>3, <3>4
  <2>7. Stands(t)'
    <3>1. SUFFICES ASSUME NEW h \in DOMAIN held[t], ~Closing(t, h)
                   PROVE  h \in DOMAIN files' /\ files'[h].opened = files[h].opened
      BY <1>2, <1>3, <2>5 DEF Stands, Closing, Handled, Shapes
    <3>2. h \in DOMAIN files
      BY <2>5, <3>1 DEF Stands
    <3>3. CASE Left \/ Added
      BY <3>2, <3>3
    <3>4. CASE Dropped
      <4>1. call[w].op = "close" /\ service.handle = call[w].handle
        BY <2>3, <3>4 DEF Asks, Operation, ByHandle
      <4>2. service.handle \in DOMAIN held[w]
        BY <4>1 DEF Handled, OwnCall, OnFiles
      <4>3. h # service.handle
        BY <1>6, <3>1, <4>1, <4>2 DEF Handled, Apart, Closing
      <4>4. QED
        BY <3>2, <3>4, <4>3 DEF Without
    <3>5. QED
      BY <1>3, <3>3, <3>4
  <2>8. QED
    BY <2>4, <2>6, <2>7
<1>7. timeouts = 0 => Apart'
  BY <1>2 DEF Handled, Apart
<1>8. QED
  BY <1>1, <1>2, <1>4, <1>5, <1>6, <1>7 DEF Handled

\* Every step keeps the invariant.
LEMMA NextHandled == Handled /\ [Next]_vars => Handled'
<1> SUFFICES ASSUME Handled, [Next]_vars PROVE Handled'
  OBVIOUS
<1>1. CASE ScheduleOther \/ RunOther \/ UNCHANGED vars
  <2>1. UNCHANGED <<session, rpc, sem, queued, service, python>>
    BY <1>1 DEF ScheduleOther, RunOther, vars
  <2>2. IInv' /\ Shapes'
    BY <2>1, NextIInv DEF Handled, Shapes, session, python
  <2>3. \A t \in Session : OwnCall(t)'
    BY <2>1 DEF Handled, OwnCall, session
  <2>4. timeouts = 0 => Apart'
    BY <2>1 DEF Handled, Apart, session
  <2>5. ASSUME timeouts = 0, NEW t \in Session PROVE Recorded(t)' /\ Opened(t)' /\ Stands(t)'
    <3>1. Recorded(t) /\ Opened(t) /\ Stands(t)
      BY <2>5 DEF Handled
    <3>2. Recorded(t)'
      BY <2>1, <3>1 DEF Recorded, Asks, Operation, Piece, session
    <3>3. Opened(t)' /\ Stands(t)'
      BY <2>1, <3>1 DEF Opened, Stands, Fresh, Closing, session, python
    <3>4. QED
      BY <3>2, <3>3
  <2>6. timeouts' = timeouts
    BY <2>1 DEF session
  <2>7. QED
    BY <2>2, <2>3, <2>4, <2>5, <2>6 DEF Handled
<1>2. QED
  BY <1>1, CallHandled, LockHandled, DisconnectHandled, ArgumentsHandled, OpHandled,
     ScheduleHandled, FailHandled, TakeAnswerHandled, PieceHandled, OtherHandled,
     ReturnHandled, DispatchHandled, PerformHandled, RespondHandled
  DEF Next, SessionStep

\* The server starts with no file open and no handle given.
LEMMA InitHandled == Init => Handled
<1> SUFFICES ASSUME Init PROVE Handled
  OBVIOUS
<1>1. IInv
  BY InitInv
<1>2. Shapes
  BY DEF Init, Shapes, NoCall, CallFields, RecordFields
<1>3. \A s \in Session : OwnCall(s) /\ Recorded(s) /\ Opened(s) /\ Stands(s)
  BY DEF Init, OwnCall, OnFiles, NoCall, Recorded, Opened, Stands
<1>4. Apart
  BY DEF Init, Apart
<1>5. QED
  BY <1>1, <1>2, <1>3, <1>4 DEF Handled

\* What each client holds is in the table, and the record asks for what its session
\* needs, in every state the bridge reaches.
THEOREM HandledInvariance == Spec => []Handled
<1>1. QED
  BY InitHandled, NextHandled, PTL DEF Spec

\* Until a wait times out, the handle sftpd.py gave for a file keeps standing for
\* that file, and for one client only, whatever the other clients open, close,
\* rename or remove meanwhile.
THEOREM HandlesStand == Spec => []HandlesStandForTheirFiles
<1>1. Handled => HandlesStandForTheirFiles
  BY DEF Handled, Apart, Stands, Closing, HandlesStandForTheirFiles
<1>2. QED
  BY <1>1, HandledInvariance, PTL

-----------------------------------------------------------------------------
(* The transfers.  What of a READ or a WRITE is done, and what the answer  *)
(* to its next piece says, while the record goes around.                   *)

Moves == {"read", "write"}

Node == [kind : {"absent", "dir", "file"}, body : Seq(Data)]

\* What a hook's call is, and the files, in the terms of the constants.
TypedCall(c) ==
  /\ c.op \in ByPath => c.path \in Path
  /\ c.op = "rename" => c.to \in Path
  /\ c.op \in Moves => /\ c.ofst \in Nat /\ c.sz \in Nat /\ c.done \in 0..c.sz
                       /\ c.sz > 0 /\ c.buf \in Seq(Data)
                       /\ Len(c.buf) = IF c.op = "read" THEN c.done ELSE c.sz

TypedFiles ==
  /\ tree \in [Path -> Node]
  /\ \A h \in DOMAIN files : files[h].path \in Path \union {NoPath}

\* Below, f is the table of open files and d the file system.
Body(f, d, c) == d[f[c.handle].path].body

\* Where in the file the first k units of c begin: those of an append are its last.
From(f, d, c, k) ==
  IF c.op = "write" /\ f[c.handle].mode = "ab" THEN Len(Body(f, d, c)) - k ELSE c.ofst

\* The file of c is there, and its first k units are where c wants them: those
\* of a WRITE in the file, those of a READ in its buffer.
Moved(f, d, c, k) ==
  LET from == From(f, d, c, k) IN
  /\ f[c.handle].path \in Path /\ from \in Nat
  /\ \A i \in 1..k : /\ from + i <= Len(Body(f, d, c))
                    /\ Body(f, d, c)[from + i] = c.buf[i]

\* r, the servicer's answer or the record it was put into, says what became of the
\* next piece of c.
Tells(f, d, r, c) ==
  /\ (c.op = "write" /\ r.ret = 0) => /\ r.size \in 0..Len(Piece(c))
                                      /\ Moved(f, d, c, c.done + r.size)
  /\ (c.op = "read" /\ r.ret = 0) =>
       /\ f[c.handle].path \in Path /\ r.data \in Seq(Data)
       /\ \A i \in 1..Len(r.data) : /\ c.ofst + c.done + i <= Len(Body(f, d, c))
                                    /\ Body(f, d, c)[c.ofst + c.done + i] = r.data[i]
       /\ r.data = << >> => c.ofst + c.done >= Len(Body(f, d, c))

\* The next piece has not been served yet.
Unserved(s) ==
  \/ pc[s] \in {"arguments", "op", "schedule"}
  \/ pc[s] = "wait" /\ service.phase # "respond" /\ sem = 0

\* A piece of the transfer after another.
Moving(s) ==
  call[s].op \in Moves =>
    LET c == call[s] IN
    /\ pc[s] = "lock" => c.done = 0
    /\ pc[s] \in {"lock"} \union (Inside \ {"unlock"}) => c.done < c.sz
    /\ (pc[s] \in Inside \ {"unlock"} /\ (c.op = "read" \/ Unserved(s)) /\ c.done > 0) =>
         Moved(files, tree, c, c.done)
    /\ (pc[s] = "wait" /\ service.phase = "respond") => Tells(files, tree, service.reply, c)
    /\ (pc[s] = "wait" /\ sem = 1) => Tells(files, tree, rpc, c)
    /\ pc[s] = "collect" => Tells(files, tree, rpc, c)
    /\ (pc[s] = "unlock" /\ c.res = "ok") =>
         /\ Moved(files, tree, c, c.done)
         /\ \/ c.done = c.sz
            \/ c.op = "read" /\ c.ofst + c.done >= Len(Body(files, tree, c))

\* The inductive form of TransfersAreStored.
Transferred ==
  /\ Handled
  /\ timeouts = 0 => TypedFiles /\ \A s \in Session : TypedCall(call[s]) /\ Moving(s)

\* The next piece of a WRITE is not empty and is what the buffer holds there.
LEMMA PieceFacts ==
  ASSUME NEW c, TypedCall(c), c.op = "write", c.done < c.sz
  PROVE  /\ Piece(c) \in Seq(Data)
         /\ Len(Piece(c)) \in 1..(c.sz - c.done)
         /\ \A i \in 1..Len(Piece(c)) : Piece(c)[i] = c.buf[c.done + i]
<1>1. /\ c.buf \in Seq(Data) /\ c.sz \in Nat /\ c.done \in Nat /\ Len(c.buf) = c.sz
      /\ Scratch \in Nat /\ Scratch > 0
  BY VfsAssumption DEF TypedCall, Moves
<1>2. PICK sz \in Nat, done \in Nat : sz = c.sz /\ done = c.done /\ done < sz
  BY <1>1
<1>3. PICK last \in Nat : last = IF sz - done < Scratch THEN sz ELSE done + Scratch
  BY <1>1, <1>2
<1>4. last <= sz /\ last >= done + 1 /\ Piece(c) = SubSeq(c.buf, done + 1, last)
  BY <1>1, <1>2, <1>3 DEF Piece
<1>5. \A i \in (done + 1)..last : c.buf[i] \in Data
  BY <1>1, <1>2, <1>4
<1>6. /\ Piece(c) \in Seq(Data)
      /\ Len(Piece(c)) = IF done + 1 <= last THEN last - (done + 1) + 1 ELSE 0
      /\ \A i \in 1..(last - (done + 1) + 1) : Piece(c)[i] = c.buf[done + 1 + i - 1]
  BY <1>4, <1>5, SubSeqProperties
<1>7. Len(Piece(c)) = last - done /\ Len(Piece(c)) \in 1..(sz - done)
  BY <1>4, <1>6
<1>8. ASSUME NEW i \in 1..(last - done) PROVE Piece(c)[i] = c.buf[done + i]
  <2>1. done + 1 + i - 1 = done + i /\ i \in 1..(last - (done + 1) + 1)
    BY <1>4
  <2>2. QED
    BY <2>1, <1>6
<1>9. QED
  BY <1>2, <1>6, <1>7, <1>8

\* What is written replaces what was there, from the offset on; the units before
\* it keep their place, and a gap is filled.
LEMMA OverwriteFacts ==
  ASSUME NEW body \in Seq(Data), NEW at \in Nat, NEW data \in Seq(Data),
         NEW n \in 0..Len(data)
  PROVE  LET o == Overwrite(body, at, SubSeq(data, 1, n)) IN
         /\ o \in Seq(Data) /\ Len(o) = IF at + n > Len(body) THEN at + n ELSE Len(body)
         /\ \A i \in 1..n : o[at + i] = data[i]
         /\ \A i \in 1..Len(body) : i <= at => o[i] = body[i]
<1> DEFINE d == SubSeq(data, 1, n)
           end == at + n
           len == IF end > Len(body) THEN end ELSE Len(body)
           o == Overwrite(body, at, d)
           e(i) == IF i \in (at + 1)..end THEN d[i - at]
                   ELSE IF i <= Len(body) THEN body[i] ELSE Zero
<1>1. Len(data) \in Nat /\ n \in Nat /\ Len(body) \in Nat /\ \A i \in 1..n : data[i] \in Data
  OBVIOUS
<1>2. d \in Seq(Data) /\ Len(d) = n /\ \A i \in 1..n : d[i] = data[i]
  <2>1. /\ SubSeq(data, 1, n) \in Seq(Data)
        /\ Len(SubSeq(data, 1, n)) = IF 1 <= n THEN n - 1 + 1 ELSE 0
        /\ \A i \in 1..(n - 1 + 1) : SubSeq(data, 1, n)[i] = data[1 + i - 1]
    BY <1>1, SubSeqProperties
  <2>2. \A i \in 1..n : i \in 1..(n - 1 + 1) /\ 1 + i - 1 = i
    BY <1>1
  <2>3. QED
    BY <1>1, <2>1, <2>2
<1> HIDE DEF d
<1>3. o = [i \in 1..len |-> e(i)]
  BY <1>2 DEF Overwrite
<1>4. len \in Nat /\ len >= end /\ len >= Len(body)
  BY <1>1
<1>5. \A i \in 1..len : e(i) \in Data
  BY <1>1, <1>2, <1>4, VfsAssumption
<1> HIDE DEF e, len, o
<1>6. o \in [1..len -> Data]
  BY <1>3, <1>5
<1>7. o \in Seq(Data) /\ Len(o) = len /\ \A i \in 1..len : o[i] = e(i)
  BY <1>3, <1>4, <1>6
<1>8. ASSUME NEW i \in 1..n PROVE o[at + i] = data[i]
  <2>1. at + i \in 1..len /\ at + i \in (at + 1)..end /\ at + i - at = i
    BY <1>1, <1>4
  <2>2. e(at + i) = d[i]
    BY <2>1 DEF e
  <2>3. QED
    BY <1>2, <1>7, <2>1, <2>2
<1>9. ASSUME NEW i \in 1..Len(body), i <= at PROVE o[i] = body[i]
  <2>1. i \in 1..len /\ i \notin (at + 1)..end /\ i <= Len(body)
    BY <1>1, <1>4, <1>9
  <2>2. QED
    BY <1>7, <2>1 DEF e
<1>10. QED
  BY <1>7, <1>8, <1>9 DEF o, d, len, end

\* A session's step: what is left to show is of its own call.
LEMMA StepKeeps ==
  ASSUME Transferred, Handled', NEW s \in Session,
         \A t \in Session \ {s} : pc'[t] = pc[t] /\ call'[t] = call[t],
         pc[s] \in Inside \/ UNCHANGED <<rpc, sem, service>>,
         UNCHANGED <<files, tree>>,
         timeouts' = 0 => timeouts = 0 /\ TypedCall(call'[s]) /\ Moving(s)'
  PROVE  Transferred'
<1>1. SUFFICES ASSUME timeouts' = 0
               PROVE  TypedFiles' /\ \A t \in Session : TypedCall(call[t])' /\ Moving(t)'
  BY DEF Transferred
<1>2. TypedFiles'
  BY <1>1 DEF Transferred, TypedFiles
<1>3. ASSUME NEW t \in Session \ {s} PROVE TypedCall(call[t])' /\ Moving(t)'
  <2>1. TypedCall(call[t]) /\ Moving(t)
    BY <1>1 DEF Transferred
  <2>2. TypedCall(call[t])'
    BY <2>1 DEF TypedCall
  <2>3. CASE pc[s] \in Inside
    <3>1. pc[t] \notin Inside
      BY <2>3, OneInside DEF Transferred, Handled, IInv
    <3>2. QED
      BY <2>1, <2>2, <3>1 DEF Moving, Inside
  <2>4. CASE UNCHANGED <<rpc, sem, service>>
    BY <2>1, <2>2, <2>4 DEF Moving, Unserved
  <2>5. QED
    BY <2>3, <2>4
<1>4. TypedCall(call[s])' /\ Moving(s)'
  BY <1>1 DEF TypedCall
<1>5. QED
  BY <1>2, <1>3, <1>4

\* The request of a client: nothing of it is done yet.
LEMMA RequestIsTyped ==
  ASSUME NEW s \in Session, NEW c \in Requests(s)
  PROVE  TypedCall(c) /\ (c.op \in Moves => c.done = 0 /\ 0 < c.sz)
<1> USE DEF For, NoCall, TypedCall, ByPath, Moves
<1>1. CASE c = For("getcwd")
  BY <1>1
<1>2. CASE \E op \in {"opendir", "mkdir", "rmdir", "remove", "stat"}, p \in Path :
             c = ForPath(op, p)
  BY <1>2 DEF ForPath
<1>3. CASE \E p \in Path, f \in Flags : c = ForOpen(p, f)
  BY <1>3 DEF ForOpen
<1>4. CASE \E p \in Path, q \in Path : c = ForRename(p, q)
  BY <1>4 DEF ForRename
<1>5. CASE \E op \in {"close", "fstat", "readdir", "closedir"} : \E h : c = ForHandle(op, h)
  BY <1>5 DEF ForHandle
<1>6. CASE \E h : \E o \in Offsets, b \in Buffers :
             c = ForRead(h, o, b) \/ c = ForWrite(h, o, b)
  <2>1. PICK h : \E o \in Offsets, b \in Buffers :
                   c = ForRead(h, o, b) \/ c = ForWrite(h, o, b)
    BY <1>6
  <2>2. PICK o \in Offsets, b \in Buffers : c = ForRead(h, o, b) \/ c = ForWrite(h, o, b)
    BY <2>1
  <2>3. b \in Seq(Data) /\ b # << >> /\ o \in Nat
    BY VfsAssumption
  <2>4. Len(b) \in Nat /\ Len(b) > 0
    BY <2>3
  <2>5. CASE c = ForRead(h, o, b)
    BY <2>3, <2>4, <2>5 DEF ForRead
  <2>6. CASE c = ForWrite(h, o, b)
    BY <2>3, <2>4, <2>6 DEF ForWrite
  <2>7. QED
    BY <2>2, <2>5, <2>6
<1>7. QED
  BY <1>1, <1>2, <1>3, <1>4, <1>5, <1>6 DEF Requests

\* Outside a hook nothing moves.
LEMMA OuterTransferred ==
  ASSUME Transferred, NEW s \in Session,
         \/ \E c \in Requests(s) : Call(s, c)
         \/ TakeMutex(s) \/ Disconnect(s)
  PROVE  Transferred'
<1> USE DEF Call, TakeMutex, Disconnect, python
<1>1. Handled'
  BY CallHandled, LockHandled, DisconnectHandled DEF Transferred
<1>2. UNCHANGED <<rpc, sem, service, files, tree, timeouts>>
  OBVIOUS
<1>3. /\ pc[s] \in {"serving", "lock"}
      /\ \A t \in Session \ {s} : pc'[t] = pc[t] /\ call'[t] = call[t]
  BY DEF Transferred, Handled, IInv, Shapes, Goto
<1>4. ASSUME timeouts = 0 PROVE TypedCall(call'[s]) /\ Moving(s)'
  <2>1. TypedCall(call[s]) /\ Moving(s)
    BY <1>4 DEF Transferred
  <2>2. ASSUME NEW c \in Requests(s), Call(s, c) PROVE TypedCall(call'[s]) /\ Moving(s)'
    <3>1. call'[s] = c /\ pc'[s] = "lock"
      BY <2>2 DEF Transferred, Handled, IInv, Shapes, Goto
    <3>2. QED
      BY <3>1, RequestIsTyped DEF Moving, Inside
  <2>3. CASE TakeMutex(s)
    <3>1. call'[s] = call[s] /\ pc[s] = "lock" /\ pc'[s] = "arguments"
      BY <2>3 DEF Transferred, Handled, IInv, Goto
    <3>2. QED
      BY <2>1, <3>1 DEF Moving, Inside, TypedCall
  <2>4. CASE Disconnect(s)
    <3>1. call'[s] = call[s] /\ pc[s] = "serving" /\ pc'[s] = "serving"
      BY <2>4
    <3>2. QED
      BY <2>1, <3>1 DEF Moving, Inside
  <2>5. QED
    BY <2>2, <2>3, <2>4
<1>5. QED
  BY <1>1, <1>2, <1>3, <1>4, StepKeeps

\* From the filling of the record to the wait, and at the taking of the answer, no
\* file changes and the call stays as it is.
LEMMA RoundTransferred ==
  ASSUME Transferred, NEW s \in Session,
         SetArguments(s) \/ SetOp(s) \/ Schedule(s) \/ TakeAnswer(s)
  PROVE  Transferred'
<1> USE DEF SetArguments, SetOp, Schedule, TakeAnswer, python
<1>1. Handled'
  BY ArgumentsHandled, OpHandled, ScheduleHandled, TakeAnswerHandled DEF Transferred
<1>2. UNCHANGED <<call, service, files, tree, timeouts>> /\ pc[s] \in Inside \ {"unlock"}
  BY DEF Inside
<1>3. /\ \A t \in Session \ {s} : pc'[t] = pc[t]
      /\ \/ pc'[s] \in {"op", "schedule"} /\ pc[s] \in {"arguments", "op"}
         \/ pc'[s] = "wait" /\ Schedule(s)
         \/ pc'[s] = "collect" /\ pc[s] = "wait" /\ sem = 1 /\ UNCHANGED rpc
  BY DEF Transferred, Handled, IInv, Goto
<1>4. ASSUME timeouts = 0 PROVE TypedCall(call'[s]) /\ Moving(s)'
  <2>1. TypedCall(call[s]) /\ Moving(s)
    BY <1>4 DEF Transferred
  <2>2. CASE pc'[s] \in {"op", "schedule"} /\ pc[s] \in {"arguments", "op"}
    BY <1>2, <2>1, <2>2 DEF Moving, Unserved, Inside
  <2>3. CASE pc'[s] = "wait" /\ Schedule(s)
    <3>1. sem = 0 /\ service.phase = "idle"
      BY <1>4, <2>3, Quiet, OneInside DEF Transferred, Handled, IInv, Inside
    <3>2. sem' = 0
      BY <2>3, <3>1
    <3>3. QED
      BY <1>2, <2>1, <2>3, <3>1, <3>2 DEF Moving, Unserved, Inside
  <2>4. CASE pc'[s] = "collect" /\ pc[s] = "wait" /\ sem = 1 /\ UNCHANGED rpc
    BY <1>2, <2>1, <2>4 DEF Moving, Unserved, Inside
  <2>5. QED
    BY <1>3, <2>2, <2>3, <2>4
<1>5. QED
  BY <1>1, <1>2, <1>3, <1>4, StepKeeps

\* A hook that fails, one that moves no data, and the return from a hook.
LEMMA EndTransferred ==
  ASSUME Transferred, NEW s \in Session,
         \/ QueueStaysFull(s) \/ TimeOut(s) \/ CollectFailure(s) \/ CollectOther(s)
         \/ Return(s)
  PROVE  Transferred'
<1> USE DEF python
<1>1. Handled'
  BY FailHandled, OtherHandled, ReturnHandled DEF Transferred
<1>2. UNCHANGED <<service, files, tree>> /\ pc[s] \in Inside
  BY DEF QueueStaysFull, TimeOut, CollectFailure, CollectOther, Return, Inside
<1>3. timeouts' = 0 => timeouts = 0
  BY DEF QueueStaysFull, TimeOut, CollectFailure, CollectOther, Return, Transferred,
         Handled, IInv
<1>4. ASSUME QueueStaysFull(s) \/ TimeOut(s) \/ CollectFailure(s)
      PROVE  /\ \A t \in Session \ {s} : pc'[t] = pc[t] /\ call'[t] = call[t]
             /\ timeouts = 0 => TypedCall(call'[s]) /\ Moving(s)'
  <2>1. Fail(s)
    BY <1>4 DEF QueueStaysFull, TimeOut, CollectFailure
  <2>2. /\ \A t \in Session \ {s} : pc'[t] = pc[t] /\ call'[t] = call[t]
        /\ pc'[s] = "unlock" /\ call'[s] = [call[s] EXCEPT !.res = "failed"]
    BY <2>1 DEF Fail, Goto, Transferred, Handled, IInv, Shapes
  <2>3. DOMAIN call[s] = CallFields
    BY DEF Transferred, Handled, Shapes
  <2>4. call'[s].res = "failed"
    BY <2>2, <2>3 DEF CallFields
  <2>5. timeouts = 0 => TypedCall(call'[s])
    BY <2>2, <2>3 DEF CallFields, TypedCall, Transferred
  <2>6. Moving(s)'
    BY <2>2, <2>4 DEF Moving, Inside
  <2>7. QED
    BY <2>2, <2>5, <2>6
<1>5. ASSUME CollectOther(s)
      PROVE  /\ \A t \in Session \ {s} : pc'[t] = pc[t] /\ call'[t] = call[t]
             /\ timeouts = 0 => TypedCall(call'[s]) /\ Moving(s)'
  <2>1. DOMAIN call = Session /\ DOMAIN call[s] = CallFields
    BY DEF Transferred, Handled, Shapes
  <2>2. PICK to : to = IF call[s].op \in {"readdir", "getcwd"} THEN rpc.name ELSE call[s].to
    OBVIOUS
  <2>3. PICK res, handle, size :
             call' = [call EXCEPT ![s] = [call[s] EXCEPT !.res = res, !.handle = handle,
                                                         !.to = to, !.size = size]]
    BY <1>5, <2>2 DEF CollectOther, Collected
  <2>4. /\ DOMAIN call = Session /\ \A t \in Session \ {s} : call'[t] = call[t]
        /\ call'[s].op = call[s].op /\ call'[s].path = call[s].path /\ call'[s].to = to
    BY <2>1, <2>3 DEF CallFields
  <2>5. /\ \A t \in Session \ {s} : pc'[t] = pc[t] /\ call'[t] = call[t]
        /\ call'[s].op = call[s].op /\ call'[s].path = call[s].path
        /\ call[s].op = "rename" => call'[s].to = call[s].to
    BY <1>5, <2>2, <2>4 DEF CollectOther, Goto, Transferred, Handled, IInv
  <2>6. call[s].op \notin Moves
    BY <1>5 DEF CollectOther, Moves
  <2>7. timeouts = 0 => TypedCall(call'[s])
    BY <2>5, <2>6 DEF TypedCall, Transferred
  <2>8. Moving(s)'
    BY <2>5, <2>6 DEF Moving
  <2>9. QED
    BY <2>5, <2>7, <2>8
<1>6. ASSUME Return(s)
      PROVE  /\ \A t \in Session \ {s} : pc'[t] = pc[t] /\ call'[t] = call[t]
             /\ TypedCall(call'[s]) /\ Moving(s)'
  <2>1. /\ \A t \in Session \ {s} : pc'[t] = pc[t] /\ call'[t] = call[t]
        /\ call'[s] = NoCall
    BY <1>6 DEF Return, Goto, Transferred, Handled, IInv, Shapes
  <2>2. call'[s].op = "none"
    BY <2>1 DEF NoCall
  <2>3. QED
    BY <2>1, <2>2 DEF TypedCall, Moving, Moves, ByPath
<1>7. QED
  BY <1>1, <1>2, <1>3, <1>4, <1>5, <1>6, StepKeeps

\* A piece of a WRITE collected: it counts as far as it was written.
LEMMA WriteTransferred ==
  ASSUME Transferred, NEW s \in Session, CollectWrite(s)
  PROVE  Transferred'
<1> DEFINE c == call[s]
           e == call'[s]
<1>1. Handled' /\ UNCHANGED <<files, tree, timeouts, rpc, sem, service>>
  BY PieceHandled DEF Transferred, CollectWrite, python
<1>2. pc[s] = "collect" /\ pc[s] \in Inside /\ c.op = "write" /\ rpc.ret = 0
  BY DEF CollectWrite, Inside
<1>3. PICK done, res :
        /\ done = c.done + rpc.size
        /\ res = IF rpc.size # Len(Piece(c)) THEN "failed" ELSE IF done < c.sz THEN "none"
                 ELSE IF done = c.sz THEN "ok" ELSE "failed"
        /\ call' = [call EXCEPT ![s] = [c EXCEPT !.done = done, !.res = res]]
        /\ Goto(s, IF res = "none" THEN "arguments" ELSE "unlock")
  BY DEF CollectWrite, Collected
<1>4. DOMAIN c = CallFields /\ DOMAIN call = Session
  BY DEF Transferred, Handled, Shapes
<1>5. /\ \A t \in Session \ {s} : call'[t] = call[t]
      /\ e = [c EXCEPT !.done = done, !.res = res]
  BY <1>3, <1>4
<1>6. /\ e.done = done /\ e.res = res /\ e.op = "write" /\ e.handle = c.handle
      /\ e.ofst = c.ofst /\ e.sz = c.sz /\ e.buf = c.buf
  BY <1>2, <1>4, <1>5 DEF CallFields
<1>7. /\ \A t \in Session \ {s} : pc'[t] = pc[t]
      /\ pc'[s] = IF res = "none" THEN "arguments" ELSE "unlock"
  BY <1>3 DEF Goto, Transferred, Handled, IInv
<1>8. ASSUME timeouts = 0 PROVE TypedCall(e) /\ Moving(s)'
  <2>1. TypedCall(c) /\ Moving(s)
    BY <1>8 DEF Transferred
  <2>2. c.done < c.sz /\ Tells(files, tree, rpc, c)
    BY <1>2, <2>1 DEF Moving, Moves
  <2>3. Len(Piece(c)) \in 1..(c.sz - c.done)
    BY <1>2, <2>1, <2>2, PieceFacts
  <2>4. /\ c.sz \in Nat /\ c.done \in Nat /\ c.ofst \in Nat /\ c.sz > 0
        /\ c.buf \in Seq(Data) /\ Len(c.buf) = c.sz
    BY <1>2, <2>1 DEF TypedCall, Moves
  <2>5. rpc.size \in 0..Len(Piece(c)) /\ Moved(files, tree, c, done)
    BY <1>2, <1>3, <2>2 DEF Tells
  <2>6. done \in 0..c.sz
    BY <1>3, <2>3, <2>4, <2>5
  <2>7. TypedCall(e)
    BY <1>6, <2>4, <2>6 DEF TypedCall, Moves, ByPath
  <2>8. Moved(files, tree, e, done)
    BY <1>2, <1>6, <2>5 DEF Moved, From, Body
  <2>9. Moved(files', tree', e, e.done)
    BY <1>1, <1>6, <2>8
  <2>10. CASE res = "none"
    <3>1. done < c.sz
      BY <1>3, <2>10
    <3>2. QED
      BY <1>6, <1>7, <2>7, <2>9, <2>10, <3>1 DEF Moving, Inside
  <2>11. CASE res # "none"
    <3>1. res = "ok" => done = c.sz
      BY <1>3
    <3>2. QED
      BY <1>6, <1>7, <2>7, <2>9, <2>11, <3>1 DEF Moving, Inside
  <2>12. QED
    BY <2>10, <2>11
<1>9. QED
  BY <1>1, <1>2, <1>5, <1>7, <1>8, StepKeeps

\* What a piece adds to the buffer of a READ.
LEMMA Appended ==
  ASSUME NEW buf \in Seq(Data), NEW data \in Seq(Data), NEW n \in 0..Len(data)
  PROVE  LET b == buf \o SubSeq(data, 1, n) IN
         /\ b \in Seq(Data) /\ Len(b) = Len(buf) + n
         /\ \A i \in 1..Len(buf) : b[i] = buf[i]
         /\ \A i \in 1..n : b[Len(buf) + i] = data[i]
<1>1. Len(data) \in Nat /\ n \in Nat /\ Len(buf) \in Nat /\ \A i \in 1..n : data[i] \in Data
  OBVIOUS
<1>2. PICK d : d = SubSeq(data, 1, n)
  OBVIOUS
<1>3. d \in Seq(Data) /\ Len(d) = n /\ \A i \in 1..n : d[i] = data[i]
  <2>1. /\ SubSeq(data, 1, n) \in Seq(Data)
        /\ Len(SubSeq(data, 1, n)) = IF 1 <= n THEN n - 1 + 1 ELSE 0
        /\ \A i \in 1..(n - 1 + 1) : SubSeq(data, 1, n)[i] = data[1 + i - 1]
    BY <1>1, SubSeqProperties
  <2>2. \A i \in 1..n : i \in 1..(n - 1 + 1) /\ 1 + i - 1 = i
    BY <1>1
  <2>3. QED
    BY <1>1, <1>2, <2>1, <2>2
<1>4. /\ buf \o d \in Seq(Data) /\ Len(buf \o d) = Len(buf) + Len(d)
      /\ \A i \in 1..(Len(buf) + Len(d)) :
           (buf \o d)[i] = IF i <= Len(buf) THEN buf[i] ELSE d[i - Len(buf)]
  BY <1>3, ConcatProperties
<1>5. \A i \in 1..Len(buf) : (buf \o d)[i] = buf[i]
  BY <1>1, <1>3, <1>4
<1>6. ASSUME NEW i \in 1..n PROVE (buf \o d)[Len(buf) + i] = data[i]
  <2>1. Len(buf) + i \in 1..(Len(buf) + Len(d)) /\ ~(Len(buf) + i <= Len(buf))
        /\ Len(buf) + i - Len(buf) = i
    BY <1>1, <1>3
  <2>2. QED
    BY <1>3, <1>4, <2>1
<1>7. QED
  BY <1>2, <1>3, <1>4, <1>5, <1>6

\* A piece of a READ collected: it comes after the ones before it, and the READ
\* ends short of what was asked only at the end of the file.
LEMMA ReadTransferred ==
  ASSUME Transferred, NEW s \in Session, CollectRead(s)
  PROVE  Transferred'
<1> DEFINE c == call[s]
           e == call'[s]
<1>1. Handled' /\ UNCHANGED <<files, tree, timeouts, rpc, sem, service>>
  BY PieceHandled DEF Transferred, CollectRead, python
<1>2. pc[s] = "collect" /\ pc[s] \in Inside /\ c.op = "read" /\ rpc.ret = 0
  BY DEF CollectRead, Inside
<1>3. PICK n, done, buf :
        /\ n = IF Len(rpc.data) < c.sz - c.done THEN Len(rpc.data) ELSE c.sz - c.done
        /\ buf = c.buf \o SubSeq(rpc.data, 1, n) /\ done = c.done + n
  OBVIOUS
<1>4. PICK last \in BOOLEAN : last <=> (done >= c.sz \/ rpc.data = << >>)
  OBVIOUS
<1>5. PICK res :
        /\ call' = [call EXCEPT ![s] = [c EXCEPT !.buf = buf, !.done = done, !.res = res]]
        /\ Goto(s, IF last THEN "unlock" ELSE "arguments")
  BY <1>3, <1>4 DEF CollectRead, Collected
<1>6. DOMAIN c = CallFields /\ DOMAIN call = Session
  BY DEF Transferred, Handled, Shapes
<1>7. /\ \A t \in Session \ {s} : call'[t] = call[t]
      /\ e = [c EXCEPT !.buf = buf, !.done = done, !.res = res]
  BY <1>5, <1>6
<1>8. /\ e.done = done /\ e.buf = buf /\ e.op = "read" /\ e.handle = c.handle
      /\ e.ofst = c.ofst /\ e.sz = c.sz
  BY <1>2, <1>6, <1>7 DEF CallFields
<1>9. /\ \A t \in Session \ {s} : pc'[t] = pc[t]
      /\ pc'[s] = IF last THEN "unlock" ELSE "arguments"
  BY <1>5 DEF Goto, Transferred, Handled, IInv
<1>10. ASSUME timeouts = 0 PROVE TypedCall(e) /\ Moving(s)'
  <2>1. TypedCall(c) /\ Moving(s)
    BY <1>10 DEF Transferred
  <2>2. /\ c.done < c.sz /\ Tells(files, tree, rpc, c)
        /\ c.done > 0 => Moved(files, tree, c, c.done)
    BY <1>2, <2>1 DEF Moving, Moves, Inside
  <2>3. /\ c.sz \in Nat /\ c.done \in Nat /\ c.ofst \in Nat /\ c.sz > 0
        /\ c.buf \in Seq(Data) /\ Len(c.buf) = c.done
    BY <1>2, <2>1 DEF TypedCall, Moves
  <2>4. PICK body : body = Body(files, tree, c)
    OBVIOUS
  <2>5. PICK k \in Nat : k = c.done
    BY <2>3
  <2>6. PICK sz \in Nat, o \in Nat : sz = c.sz /\ o = c.ofst
    BY <2>3
  <2>7. body = Body(files, tree, c) /\ k = c.done /\ sz = c.sz /\ o = c.ofst /\ k < sz
    BY <2>2, <2>4, <2>5, <2>6
  <2>8. /\ files[c.handle].path \in Path /\ rpc.data \in Seq(Data)
        /\ \A i \in 1..Len(rpc.data) : /\ c.ofst + c.done + i <= Len(body)
                                       /\ body[c.ofst + c.done + i] = rpc.data[i]
        /\ rpc.data = << >> => c.ofst + c.done >= Len(body)
    BY <1>2, <2>2, <2>7 DEF Tells
  <2>9. /\ \A i \in 1..Len(rpc.data) : /\ o + k + i <= Len(body)
                                       /\ body[o + k + i] = rpc.data[i]
        /\ rpc.data = << >> => o + k >= Len(body)
    BY <2>7, <2>8
  <2>10. /\ Len(rpc.data) \in Nat /\ n \in 0..Len(rpc.data)
         /\ done \in 0..sz /\ done = k + n
         /\ rpc.data = << >> => n = 0
    <3>1. Len(rpc.data) \in Nat
          /\ n = IF Len(rpc.data) < sz - k THEN Len(rpc.data) ELSE sz - k
      <4>1. Len(rpc.data) \in Nat
        BY <2>8
      <4>2. QED
        BY <1>3, <2>7, <4>1
    <3>2. rpc.data = << >> => Len(rpc.data) = 0
      OBVIOUS
    <3>3. done = k + n
      BY <1>3, <2>7
    <3>4. PICK m \in Nat : m = Len(rpc.data)
      BY <3>1
    <3>5. n = IF m < sz - k THEN m ELSE sz - k
      BY <3>1, <3>4
    <3>6. n \in Nat /\ n <= m /\ k + n <= sz /\ (m = 0 => n = 0)
      <4>1. CASE m < sz - k
        BY <2>7, <3>5, <4>1
      <4>2. CASE ~(m < sz - k)
        <5>1. n = sz - k
          BY <3>5, <4>2
        <5>2. QED
          BY <2>7, <4>2, <5>1
      <4>3. QED
        BY <4>1, <4>2
    <3>7. QED
      BY <3>2, <3>3, <3>4, <3>6
  <2>11. /\ buf \in Seq(Data) /\ Len(buf) = done
         /\ \A i \in 1..k : buf[i] = c.buf[i]
         /\ \A i \in 1..n : buf[k + i] = rpc.data[i]
    <3>1. n \in 0..Len(rpc.data) /\ Len(c.buf) = k /\ buf = c.buf \o SubSeq(rpc.data, 1, n)
      BY <1>3, <2>3, <2>7, <2>10
    <3>2. /\ buf \in Seq(Data) /\ Len(buf) = Len(c.buf) + n
          /\ \A i \in 1..Len(c.buf) : buf[i] = c.buf[i]
          /\ \A i \in 1..n : buf[Len(c.buf) + i] = rpc.data[i]
      BY <2>3, <2>8, <3>1, Appended
    <3>3. QED
      BY <2>10, <3>1, <3>2
  <2>12. TypedCall(e)
    BY <1>8, <2>3, <2>7, <2>10, <2>11 DEF TypedCall, Moves, ByPath
  <2>13. ASSUME NEW i \in 1..done PROVE o + i <= Len(body) /\ body[o + i] = buf[i]
    <3>1. CASE i <= k
      <4>1. i \in 1..k /\ k > 0
        BY <2>10, <3>1
      <4>2. o + i <= Len(body) /\ body[o + i] = c.buf[i]
        BY <1>2, <2>2, <2>7, <4>1 DEF Moved, From
      <4>3. QED
        BY <2>11, <4>1, <4>2
    <3>2. CASE i > k
      <4>1. PICK j \in 1..n : i = k + j
        <5>1. i - k \in 1..n /\ i = k + (i - k)
          BY <2>10, <3>2
        <5>2. QED
          BY <5>1
      <4>2. j \in 1..Len(rpc.data) /\ o + i = o + k + j
        BY <2>10, <4>1
      <4>3. QED
        BY <2>9, <2>11, <4>1, <4>2
    <3>3. QED
      BY <2>10, <3>1, <3>2
  <2>14. Body(files', tree', e) = body /\ files'[e.handle].path \in Path
    BY <1>1, <1>8, <2>7, <2>8 DEF Body
  <2>15. Moved(files', tree', e, e.done)
    BY <1>8, <2>7, <2>13, <2>14 DEF Moved, From
  <2>16. CASE ~last
    <3>1. done < c.sz
      BY <1>4, <2>7, <2>10, <2>16
    <3>2. QED
      BY <1>8, <1>9, <2>12, <2>15, <2>16, <3>1 DEF Moving, Inside
  <2>17. CASE last
    <3>1. done = c.sz \/ c.ofst + done >= Len(body)
      BY <1>4, <2>7, <2>9, <2>10, <2>17
    <3>2. QED
      BY <1>8, <1>9, <2>12, <2>14, <2>15, <2>17, <3>1 DEF Moving, Inside
  <2>18. QED
    BY <2>16, <2>17
<1>11. QED
  BY <1>1, <1>2, <1>7, <1>9, <1>10, StepKeeps

\* The scheduler queue, the copying of the record, and an answer put into it.
LEMMA QueueTransferred ==
  ASSUME Transferred, ScheduleOther \/ RunOther \/ Dispatch \/ Respond \/ UNCHANGED vars
  PROVE  Transferred'
<1> USE DEF ScheduleOther, RunOther, Dispatch, Respond, vars, session, python
<1>1. Handled'
  BY NextHandled DEF Transferred, Next
<1>2. UNCHANGED <<pc, call, files, tree, timeouts>>
  OBVIOUS
<1>3. ASSUME timeouts = 0, NEW t \in Session PROVE TypedCall(call[t])' /\ Moving(t)'
  <2>1. TypedCall(call[t]) /\ Moving(t)
    BY <1>3 DEF Transferred
  <2>2. TypedCall(call[t])'
    BY <1>2, <2>1 DEF TypedCall
  <2>3. CASE ScheduleOther \/ RunOther \/ UNCHANGED vars
    <3>1. UNCHANGED <<rpc, sem, service>>
      BY <2>3
    <3>2. QED
      BY <1>2, <2>1, <2>2, <3>1 DEF Moving, Unserved
  <2>4. CASE Dispatch
    <3>1. UNCHANGED <<rpc, sem>> /\ service'.phase = "perform"
      BY <2>4
    <3>2. QED
      BY <1>2, <2>1, <2>2, <3>1 DEF Moving, Unserved
  <2>5. CASE Respond
    <3>1. PICK w \in Session : pc[w] = "wait" /\ \A u \in Session \ {w} : pc[u] \notin Inside
      BY <1>3, <2>5, Waiting DEF Transferred, Handled
    <3>2. /\ rpc'.ret = service.reply.ret /\ rpc'.size = service.reply.size
          /\ rpc'.data = service.reply.data /\ service'.phase = "idle"
      BY <2>5 DEF Transferred, Handled, Shapes, RecordFields, Idle
    <3>3. CASE t = w
      <4>1. call[t].op \in Moves => Tells(files, tree, service.reply, call[t])
        BY <2>1, <2>5, <3>1, <3>3 DEF Moving
      <4>2. call[t].op \in Moves => Tells(files, tree, rpc', call[t])
        BY <3>2, <4>1 DEF Tells
      <4>3. QED
        BY <1>2, <2>1, <2>2, <3>1, <3>2, <3>3, <4>2 DEF Moving, Unserved
    <3>4. CASE t # w
      BY <1>2, <2>1, <2>2, <3>1, <3>4 DEF Moving, Inside
    <3>5. QED
      BY <3>3, <3>4
  <2>6. QED
    BY <2>3, <2>4, <2>5
<1>4. timeouts = 0 => TypedFiles'
  BY <1>2 DEF Transferred, TypedFiles
<1>5. QED
  BY <1>1, <1>2, <1>3, <1>4 DEF Transferred

\* f.write puts the piece, or the first part of it, after what is there already.
LEMMA WriteStores ==
  ASSUME TypedFiles, Write, NEW c, TypedCall(c), c.op = "write", c.done < c.sz,
         Asks(service, c), c.done > 0 => Moved(files, tree, c, c.done)
  PROVE  TypedFiles' /\ Tells(files', tree', service'.reply, c)
<1>1. /\ service.handle = c.handle /\ service.ofst = c.ofst + c.done
      /\ service.data = Piece(c)
  BY DEF Asks, ByHandle
<1>2. /\ c.ofst \in Nat /\ c.done \in Nat /\ c.sz \in Nat
      /\ c.buf \in Seq(Data) /\ Len(c.buf) = c.sz
  BY DEF TypedCall, Moves
<1>3. PICK o \in Nat, k \in Nat : o = c.ofst /\ k = c.done
  BY <1>2
<1>4. PICK data : data = Piece(c)
  OBVIOUS
<1>5. data \in Seq(Data) /\ \A i \in 1..Len(data) : data[i] = c.buf[k + i]
  BY <1>3, <1>4, PieceFacts
<1>6. PICK p, body : p = files[c.handle].path /\ body = tree[p].body
  OBVIOUS
<1>7. /\ files' = files /\ c.handle \in DOMAIN files
      /\ p # NoPath /\ tree[p].kind = "file"
  BY <1>1, <1>6 DEF Write, Usable
<1>8. p \in Path /\ tree[p] \in Node /\ body \in Seq(Data)
  BY <1>6, <1>7 DEF TypedFiles, Node
<1>9. PICK at : at = IF files[c.handle].mode = "ab" THEN Len(body) ELSE o + k
  OBVIOUS
<1>10. PICK n \in 0..Len(data) :
         /\ tree' = IF n = 0 THEN tree
                    ELSE [tree EXCEPT ![p].body = Overwrite(body, at, SubSeq(data, 1, n))]
         /\ Answer([Reply EXCEPT !.size = n])
  BY <1>1, <1>3, <1>4, <1>6, <1>9 DEF Write
<1>11. n \in Nat /\ at \in Nat /\ Len(body) \in Nat
  BY <1>3, <1>5, <1>8, <1>9
<1>12. PICK new : new = Overwrite(body, at, SubSeq(data, 1, n))
  OBVIOUS
<1>13. /\ new \in Seq(Data)
       /\ Len(new) = IF at + n > Len(body) THEN at + n ELSE Len(body)
       /\ \A i \in 1..n : new[at + i] = data[i]
       /\ \A i \in 1..Len(body) : i <= at => new[i] = body[i]
  <2>1. data \in Seq(Data) /\ body \in Seq(Data) /\ at \in Nat /\ n \in 0..Len(data)
    BY <1>5, <1>8, <1>11
  <2>2. LET w == Overwrite(body, at, SubSeq(data, 1, n)) IN
        /\ w \in Seq(Data) /\ Len(w) = IF at + n > Len(body) THEN at + n ELSE Len(body)
        /\ \A i \in 1..n : w[at + i] = data[i]
        /\ \A i \in 1..Len(body) : i <= at => w[i] = body[i]
    BY <2>1, OverwriteFacts
  <2>3. QED
    BY <1>12, <2>2
<1>14. service'.reply.size = n /\ service'.reply.ret = 0
  BY <1>10 DEF Answer, Reply
<1>15. ASSUME n # 0 PROVE tree' \in [Path -> Node] /\ tree'[p].body = new
  <2>1. tree' = [tree EXCEPT ![p] = [tree[p] EXCEPT !.body = new]]
    BY <1>10, <1>12, <1>15
  <2>2. [tree[p] EXCEPT !.body = new] \in Node /\ [tree[p] EXCEPT !.body = new].body = new
    BY <1>8, <1>13 DEF Node
  <2>3. QED
    BY <1>8, <2>1, <2>2 DEF TypedFiles
<1>16. TypedFiles'
  BY <1>7, <1>10, <1>15 DEF TypedFiles
<1>17. k > 0 => Moved(files, tree, c, k)
  BY <1>3
\* Where the units of c begin, before and after; those of this piece come next.
<1>18. PICK start \in Nat :
         /\ at = start + k
         /\ files[c.handle].mode = "ab" => start = Len(body) - k
         /\ files[c.handle].mode # "ab" => start = o
         /\ k > 0 => start = From(files, tree, c, k)
  <2>1. CASE files[c.handle].mode = "ab"
    <3>1. k > 0 => From(files, tree, c, k) = Len(body) - k /\ Len(body) - k \in Nat
      BY <1>6, <1>17, <2>1 DEF Moved, From, Body
    <3>2. Len(body) - k \in Nat
      BY <1>11, <3>1
    <3>3. at = (Len(body) - k) + k
      BY <1>9, <1>11, <2>1
    <3>4. QED
      BY <2>1, <3>1, <3>2, <3>3
  <2>2. CASE files[c.handle].mode # "ab"
    <3>1. From(files, tree, c, k) = o /\ at = o + k /\ o \in Nat
      BY <1>3, <1>9, <2>2 DEF From
    <3>2. QED
      BY <2>2, <3>1
  <2>3. QED
    BY <2>1, <2>2
<1>19. ASSUME NEW i \in 1..k PROVE start + i <= Len(body) /\ body[start + i] = c.buf[i]
  <2>1. k > 0 /\ Body(files, tree, c) = body
    BY <1>6 DEF Body
  <2>2. start = From(files, tree, c, k) /\ Moved(files, tree, c, k)
    BY <1>17, <1>18, <2>1
  <2>3. QED
    BY <2>1, <2>2 DEF Moved
<1>20. Moved(files', tree', c, k + n)
  <2>1. CASE n = 0
    <3>1. UNCHANGED <<files, tree>> /\ k + n = k /\ Body(files, tree, c) = body
      BY <1>6, <1>7, <1>10, <2>1 DEF Body
    <3>2. From(files, tree, c, k) = start
      <4>1. From(files, tree, c, k) =
              IF files[c.handle].mode = "ab" THEN Len(body) - k ELSE o
        BY <1>3, <3>1 DEF From
      <4>2. QED
        BY <1>18, <4>1
    <3>3. Moved(files, tree, c, k)
      BY <1>6, <1>8, <1>19, <3>1, <3>2 DEF Moved
    <3>4. QED
      BY <3>1, <3>3
  <2>2. CASE n # 0
    <3>1. Body(files', tree', c) = new
      BY <1>6, <1>7, <1>15, <2>2 DEF Body
    <3>2. Len(new) \in Nat /\ Len(new) >= at + n /\ Len(new) >= Len(body)
          /\ (at = Len(body) => Len(new) = at + n)
      BY <1>11, <1>13
    <3>3. From(files', tree', c, k + n) = start
      <4>1. CASE files[c.handle].mode = "ab"
        <5>1. at = Len(body)
          BY <1>9, <4>1
        <5>2. Len(new) = start + k + n
          BY <1>18, <3>2, <5>1
        <5>3. Len(new) - (k + n) = start
          BY <1>11, <3>2, <5>2
        <5>4. QED
          BY <1>7, <3>1, <4>1, <5>3 DEF From
      <4>2. CASE files[c.handle].mode # "ab"
        <5>1. files'[c.handle].mode # "ab" /\ start = o
          BY <1>7, <1>18, <4>2
        <5>2. From(files', tree', c, k + n) = c.ofst
          BY <5>1 DEF From
        <5>3. QED
          BY <1>3, <5>1, <5>2
      <4>3. QED
        BY <4>1, <4>2
    <3>4. ASSUME NEW i \in 1..(k + n) PROVE start + i <= Len(new) /\ new[start + i] = c.buf[i]
      <4>1. CASE i <= k
        <5>1. i \in 1..k
          BY <1>11, <4>1
        <5>2. start + i <= Len(body) /\ body[start + i] = c.buf[i]
          BY <1>19, <5>1
        <5>3. start + i \in 1..Len(body) /\ start + i <= at
          BY <1>11, <1>18, <5>1, <5>2
        <5>4. new[start + i] = body[start + i]
          BY <1>13, <5>3
        <5>5. QED
          BY <1>11, <3>2, <5>2, <5>3, <5>4
      <4>2. CASE i > k
        <5>1. Len(data) \in Nat /\ n <= Len(data)
          BY <1>5, <1>10
        <5>2. i - k \in 1..n /\ i - k \in 1..Len(data)
              /\ at + (i - k) = start + i /\ k + (i - k) = i
          BY <1>11, <1>18, <4>2, <5>1
        <5>3. new[start + i] = data[i - k] /\ data[i - k] = c.buf[i]
          BY <1>5, <1>13, <5>2
        <5>4. start + i <= Len(new)
          BY <1>11, <1>18, <3>2, <5>2
        <5>5. QED
          BY <5>3, <5>4
      <4>3. QED
        BY <1>3, <1>11, <4>1, <4>2
    <3>5. QED
      BY <1>6, <1>7, <1>8, <1>18, <3>1, <3>3, <3>4 DEF Moved
  <2>3. QED
    BY <2>1, <2>2
<1>21. Tells(files', tree', service'.reply, c)
  BY <1>3, <1>4, <1>10, <1>14, <1>20 DEF Tells
<1>22. QED
  BY <1>16, <1>21

\* f.read returns what the file holds from there on, and nothing only at its end.
LEMMA ReadTells ==
  ASSUME TypedFiles, Read, NEW c, TypedCall(c), c.op = "read", Asks(service, c)
  PROVE  UNCHANGED <<files, tree>> /\ Tells(files, tree, service'.reply, c)
<1>1. service.handle = c.handle /\ service.ofst = c.ofst + c.done
  BY DEF Asks, ByHandle
<1>2. c.ofst \in Nat /\ c.done \in Nat
  BY DEF TypedCall, Moves
<1>3. PICK at \in Nat : at = c.ofst + c.done
  BY <1>2
<1>4. PICK p, body : p = files[c.handle].path /\ body = tree[p].body
  OBVIOUS
<1>5. c.handle \in DOMAIN files /\ p # NoPath /\ UNCHANGED <<files, tree>>
  BY <1>1, <1>4 DEF Read, Usable, python
<1>6. p \in Path /\ body \in Seq(Data)
  BY <1>4, <1>5 DEF TypedFiles, Node
<1>7. PICK end, data :
        /\ end = IF at + Scratch < Len(body) THEN at + Scratch ELSE Len(body)
        /\ data = SubSeq(body, at + 1, end)
        /\ Answer([Reply EXCEPT !.data = data])
  BY <1>1, <1>3, <1>4 DEF Read
<1>8. /\ Len(body) \in Nat /\ end \in Nat /\ end <= Len(body)
      /\ end <= at => Len(body) <= at
  <2>1. Len(body) \in Nat /\ Scratch \in Nat /\ Scratch > 0
    BY <1>6, VfsAssumption
  <2>2. end = IF at + Scratch < Len(body) THEN at + Scratch ELSE Len(body)
    BY <1>7
  <2>3. QED
    BY <2>1, <2>2
<1>9. \A i \in (at + 1)..end : body[i] \in Data
  BY <1>6, <1>8
<1>10. /\ data \in Seq(Data) /\ Len(data) = IF at + 1 <= end THEN end - (at + 1) + 1 ELSE 0
       /\ \A i \in 1..(end - (at + 1) + 1) : data[i] = body[at + 1 + i - 1]
  BY <1>7, <1>8, <1>9, SubSeqProperties
<1>11. ASSUME NEW i \in 1..Len(data) PROVE at + i <= Len(body) /\ body[at + i] = data[i]
  <2>1. i \in 1..(end - (at + 1) + 1) /\ at + 1 + i - 1 = at + i /\ at + i <= Len(body)
    BY <1>8, <1>10
  <2>2. QED
    BY <1>10, <2>1
<1>12. data = << >> => at >= Len(body)
  <2>1. SUFFICES ASSUME data = << >> PROVE at >= Len(body)
    OBVIOUS
  <2>2. Len(data) = 0
    BY <2>1
  <2>3. ~(at + 1 <= end)
    BY <1>8, <1>10, <2>2
  <2>4. QED
    BY <1>8, <2>3
<1>13. service'.reply.data = data
  BY <1>7 DEF Answer, Reply
<1>14. Body(files, tree, c) = body
  BY <1>4 DEF Body
<1>15. QED
  BY <1>3, <1>4, <1>5, <1>6, <1>10, <1>11, <1>12, <1>13, <1>14 DEF Tells

\* Every operation keeps the files what they are: paths and nodes.
LEMMA PerformTyped ==
  ASSUME Perform, ~Write, ~Read, Shapes, TypedFiles,
         service.op \in ByPath \ {"stat"} => service.path \in Path,
         service.op = "rename" => service.to \in Path
  PROVE  TypedFiles'
<1> USE DEF TypedFiles
<1>1. Absent \in Node /\ Directory \in Node /\ File(<< >>) \in Node
      /\ \A b \in Seq(Data) : File(b) \in Node
  BY DEF Absent, Directory, File, Node
<1>2. CASE Raise \/ Stat \/ Opendir \/ Readdir \/ Closedir \/ Getcwd
  BY <1>2 DEF Raise, Stat, Opendir, Readdir, Closedir, Getcwd, python
<1>3. CASE Open
  <2>1. service.path \in Path /\ tree[service.path] \in Node
    BY <1>3 DEF Open, Performing, ByPath
  <2>2. PICK node \in Node : tree' = [tree EXCEPT ![service.path] = node]
    <3>1. tree[service.path].body \in Seq(Data)
      BY <2>1 DEF Node
    <3>2. tree' = [tree EXCEPT ![service.path] = File(<< >>)]
          \/ tree' = [tree EXCEPT ![service.path] = File(tree[service.path].body)]
      BY <1>3 DEF Open
    <3>3. QED
      BY <1>1, <3>1, <3>2
  <2>3. PICK f : files' = With(files, nextHandle, f) /\ f.path = service.path
    BY <1>3 DEF Open
  <2>4. \A h \in DOMAIN files' : files'[h] = f \/ (h \in DOMAIN files /\ files'[h] = files[h])
    BY <2>3 DEF With
  <2>5. QED
    BY <2>1, <2>2, <2>3, <2>4
<1>4. CASE Close
  BY <1>4 DEF Close, Without
<1>5. CASE Mkdir \/ Rmdir
  <2>1. service.path \in Path
    BY <1>5 DEF Mkdir, Rmdir, Performing, ByPath
  <2>2. PICK node \in Node : tree' = [tree EXCEPT ![service.path] = node]
    BY <1>1, <1>5 DEF Mkdir, Rmdir
  <2>3. UNCHANGED files
    BY <1>5 DEF Mkdir, Rmdir
  <2>4. QED
    BY <2>1, <2>2, <2>3
<1>6. ASSUME Remove \/ (Rename /\ service.path # service.to)
      PROVE  \A h \in DOMAIN files' : files'[h].path \in Path \union {NoPath}
  <2>1. PICK move :
          /\ files' = [h \in DOMAIN files |-> [files[h] EXCEPT !.path = move[@]]]
          /\ \A p \in Path \union {NoPath} : move[p] \in Path \union {NoPath}
    <3>1. CASE Remove
      <4> DEFINE move == [p \in Path \union {NoPath} |->
                           IF p = service.path THEN NoPath ELSE p]
      <4>1. files' = [h \in DOMAIN files |-> [files[h] EXCEPT !.path = move[@]]]
        BY <3>1 DEF Remove
      <4>2. \A p \in Path \union {NoPath} : move[p] \in Path \union {NoPath}
        OBVIOUS
      <4> HIDE DEF move
      <4>3. QED
        BY <4>1, <4>2
    <3>2. CASE Rename /\ service.path # service.to
      <4> DEFINE move == [p \in Path \union {NoPath} |->
                           IF p = service.path THEN service.to
                           ELSE IF p = service.to THEN NoPath ELSE p]
      <4>1. files' = [h \in DOMAIN files |-> [files[h] EXCEPT !.path = move[@]]]
        BY <3>2 DEF Rename
      <4>2. service.to \in Path
        BY <3>2 DEF Rename, Performing
      <4>3. \A p \in Path \union {NoPath} : move[p] \in Path \union {NoPath}
        BY <4>2
      <4> HIDE DEF move
      <4>4. QED
        BY <4>1, <4>3
    <3>3. QED
      BY <1>6, <3>1, <3>2
  <2>2. \A h \in DOMAIN files : "path" \in DOMAIN files[h]
    BY DEF Shapes, FileFields
  <2>3. QED
    BY <2>1, <2>2
<1>7. CASE Remove
  <2>1. service.path \in Path
    BY <1>7 DEF Remove, Performing, ByPath
  <2>2. tree' = [tree EXCEPT ![service.path] = Absent]
    BY <1>7 DEF Remove
  <2>3. \A h \in DOMAIN files' : files'[h].path \in Path \union {NoPath}
    BY <1>6, <1>7
  <2>4. QED
    BY <1>1, <2>1, <2>2, <2>3
<1>8. CASE Rename
  <2>1. service.path \in Path /\ service.to \in Path
    BY <1>8 DEF Rename, Performing, ByPath
  <2>2. CASE service.path = service.to
    BY <1>8, <2>2 DEF Rename
  <2>3. CASE service.path # service.to
    <3>1. tree' = [tree EXCEPT ![service.to] = tree[service.path], ![service.path] = Absent]
      BY <1>8, <2>3 DEF Rename
    <3>2. \A h \in DOMAIN files' : files'[h].path \in Path \union {NoPath}
      BY <1>6, <1>8, <2>3
    <3>3. QED
      BY <1>1, <2>1, <3>1, <3>2
  <2>4. QED
    BY <2>2, <2>3
<1>9. QED
  BY <1>2, <1>3, <1>4, <1>5, <1>7, <1>8 DEF Perform

\* An operation, seen from the session that waits for it.
LEMMA PerformTransferred ==
  ASSUME Transferred, Perform
  PROVE  Transferred'
<1>1. Handled'
  BY PerformHandled DEF Transferred
<1>2. /\ UNCHANGED <<pc, call, held, rpc, sem, queued, timeouts>>
      /\ service.phase = "perform" /\ service'.phase = "respond"
  BY PerformKeeps, PerformSession DEF session
<1>3. ASSUME timeouts = 0
      PROVE  TypedFiles' /\ \A t \in Session : TypedCall(call[t])' /\ Moving(t)'
  <2>1. PICK w \in Session : pc[w] = "wait" /\ \A u \in Session \ {w} : pc[u] \notin Inside
    BY <1>2, <1>3, Waiting DEF Transferred, Handled
  <2>2. sem = 0
    BY <1>2, <1>3, Waiting DEF Transferred, Handled, IInv, Busy
  <2>3. Asks(service, call[w]) /\ service.op = Operation(call[w])
    BY <1>2, <1>3, <2>1 DEF Transferred, Handled, Recorded
  <2>4. TypedFiles /\ TypedCall(call[w]) /\ Moving(w)
    BY <1>3 DEF Transferred
  <2>5. ASSUME call[w].op \notin Moves PROVE TypedFiles'
    <3>1. ~Write /\ ~Read
      BY <2>3, <2>5 DEF Write, Read, Performing, Operation, Moves
    <3>2. /\ service.op \in ByPath \ {"stat"} => service.path \in Path
          /\ service.op = "rename" => service.to \in Path
      BY <2>3, <2>4 DEF Asks, TypedCall, Operation, ByPath
    <3>3. QED
      BY <2>4, <3>1, <3>2, PerformTyped DEF Transferred, Handled
  <2>6. ASSUME call[w].op \in Moves
        PROVE  /\ TypedFiles' /\ Tells(files', tree', service'.reply, call[w])
               /\ (call[w].op = "read" /\ call[w].done > 0) =>
                    Moved(files', tree', call[w], call[w].done)
    <3>1. service.op = call[w].op /\ service.op \in Moves
      BY <2>3, <2>6 DEF Operation, Moves
    <3>2. Raise \/ (Read /\ call[w].op = "read") \/ (Write /\ call[w].op = "write")
      BY <3>1 DEF Perform, Raise, Stat, Open, Read, Write, Close, Opendir, Readdir, Closedir,
                  Mkdir, Rmdir, Remove, Rename, Getcwd, Performing, Moves
    <3>3. call[w].done < call[w].sz
          /\ (call[w].done > 0 => Moved(files, tree, call[w], call[w].done))
      BY <1>2, <2>1, <2>2, <2>4, <2>6 DEF Moving, Unserved, Inside
    <3>4. CASE Raise
      <4>1. UNCHANGED <<files, tree>> /\ service'.reply.ret = -1
        BY <3>4 DEF Raise, Answer, Reply
      <4>2. TypedFiles'
        BY <2>4, <4>1 DEF TypedFiles
      <4>3. QED
        BY <3>3, <4>1, <4>2 DEF Tells
    <3>5. CASE Read /\ call[w].op = "read"
      <4>1. UNCHANGED <<files, tree>> /\ Tells(files, tree, service'.reply, call[w])
        BY <2>3, <2>4, <3>5, ReadTells
      <4>2. TypedFiles'
        BY <2>4, <4>1 DEF TypedFiles
      <4>3. QED
        BY <3>3, <4>1, <4>2
    <3>6. CASE Write /\ call[w].op = "write"
      BY <2>3, <2>4, <3>3, <3>6, WriteStores
    <3>7. QED
      BY <3>2, <3>4, <3>5, <3>6
  <2>7. ASSUME NEW t \in Session PROVE TypedCall(call[t])' /\ Moving(t)'
    <3>1. TypedCall(call[t]) /\ Moving(t)
      BY <1>3 DEF Transferred
    <3>2. TypedCall(call[t])'
      BY <1>2, <3>1 DEF TypedCall
    <3>3. CASE t = w
      BY <1>2, <2>1, <2>2, <2>6, <3>1, <3>2, <3>3 DEF Moving, Unserved, Inside
    <3>4. CASE t # w
      BY <1>2, <2>1, <3>1, <3>2, <3>4 DEF Moving, Inside
    <3>5. QED
      BY <3>3, <3>4
  <2>8. QED
    BY <2>5, <2>6, <2>7
<1>4. QED
  BY <1>1, <1>2, <1>3 DEF Transferred

\* The server starts on one of the file systems it may start on, with nothing asked.
LEMMA InitTransferred == Init => Transferred
<1> SUFFICES ASSUME Init PROVE Transferred
  OBVIOUS
<1>1. Handled
  BY InitHandled
<1>2. TypedFiles
  BY VfsAssumption DEF Init, TypedFiles, Node
<1>3. \A s \in Session : TypedCall(call[s]) /\ Moving(s)
  BY DEF Init, TypedCall, Moving, NoCall, Moves, ByPath
<1>4. QED
  BY <1>1, <1>2, <1>3 DEF Transferred

\* Every step keeps the invariant.
LEMMA NextTransferred == Transferred /\ [Next]_vars => Transferred'
BY OuterTransferred, RoundTransferred, EndTransferred, ReadTransferred, WriteTransferred,
   QueueTransferred, PerformTransferred DEF Next, SessionStep

\* What is done of each transfer is in its place, in every state the bridge reaches.
THEOREM TransferredInvariance == Spec => []Transferred
<1>1. QED
  BY InitTransferred, NextTransferred, PTL DEF Spec

\* Until a wait times out a WRITE that succeeds has put all of its data at its offset, or
\* at the end of a file opened for append, and a READ that succeeds returns what the file
\* holds at its offset, for any buffers, offsets and scratch size, and whatever the other
\* clients do.
THEOREM TransfersStored == Spec => []TransfersAreStored
<1>1. ASSUME Transferred, timeouts = 0, NEW s \in Session, Succeeded(s, call[s].op),
             call[s].op \in Moves
      PROVE  LET c == call[s]
                 body == Body(files, tree, c) IN
             /\ body \in Seq(Data) /\ c.ofst \in Nat /\ c.done \in Nat /\ c.sz \in Nat
             /\ c.sz > 0 /\ c.buf \in Seq(Data)
             /\ Len(c.buf) = IF c.op = "read" THEN c.done ELSE c.sz
             /\ c.op = "write" => c.done = c.sz
             /\ c.done < c.sz => c.ofst + c.done >= Len(body)
             /\ LET from == From(files, tree, c, c.done) IN
                /\ from \in Nat /\ (c.done > 0 => from + c.done <= Len(body))
                /\ c.buf = SubSeq(body, from + 1, from + c.done)
  <2> DEFINE c == call[s]
  <2>1. TypedCall(c) /\ Moving(s) /\ TypedFiles
    BY <1>1 DEF Transferred
  <2>2. PICK body : body = Body(files, tree, c)
    OBVIOUS
  <2>3. /\ Moved(files, tree, c, c.done)
        /\ c.done = c.sz \/ (c.op = "read" /\ c.ofst + c.done >= Len(body))
    BY <1>1, <2>1, <2>2 DEF Moving, Succeeded
  <2>4. /\ c.ofst \in Nat /\ c.sz \in Nat /\ c.done \in 0..c.sz /\ c.sz > 0
        /\ c.buf \in Seq(Data) /\ Len(c.buf) = IF c.op = "read" THEN c.done ELSE c.sz
    BY <1>1, <2>1 DEF TypedCall
  <2>5. body \in Seq(Data)
    BY <2>1, <2>2, <2>3 DEF Moved, Body, TypedFiles, Node
  <2>6. PICK o \in Nat, k \in Nat : o = From(files, tree, c, c.done) /\ k = c.done
    BY <2>3, <2>4 DEF Moved
  <2>7. Len(c.buf) = k
    BY <2>3, <2>4, <2>6
  <2>8. /\ k > 0 => o + k <= Len(body)
        /\ c.buf = SubSeq(body, o + 1, o + k)
    <3>1. \A i \in 1..k : o + i <= Len(body) /\ body[o + i] = c.buf[i]
      BY <2>2, <2>3, <2>6 DEF Moved
    <3>2. k > 0 => o + k <= Len(body)
      BY <3>1
    <3>3. \A i \in (o + 1)..(o + k) : body[i] \in Data
      BY <2>5, <3>2
    <3>4. PICK b : b = SubSeq(body, o + 1, o + k)
      OBVIOUS
    <3>5. /\ b \in Seq(Data) /\ Len(b) = IF o + 1 <= o + k THEN o + k - (o + 1) + 1 ELSE 0
          /\ \A i \in 1..(o + k - (o + 1) + 1) : b[i] = body[o + 1 + i - 1]
      BY <3>3, <3>4, SubSeqProperties
    <3>6. Len(b) = k
      BY <3>5
    <3>7. ASSUME NEW i \in 1..k PROVE b[i] = c.buf[i]
      <4>1. i \in 1..(o + k - (o + 1) + 1) /\ o + 1 + i - 1 = o + i
        OBVIOUS
      <4>2. QED
        BY <3>1, <3>5, <4>1
    <3>8. b = c.buf
      BY <2>4, <2>7, <3>5, <3>6, <3>7, SeqEqual
    <3>9. QED
      BY <3>2, <3>4, <3>8
  <2>9. QED
    BY <1>1, <2>2, <2>3, <2>4, <2>5, <2>6, <2>8 DEF Moves
<1>2. Transferred => TransfersAreStored
  <2>1. SUFFICES ASSUME Transferred, timeouts = 0, NEW s \in Session
                 PROVE  /\ Succeeded(s, "write") =>
                             LET c == call[s]
                                 f == files[c.handle]
                                 body == tree[f.path].body
                                 from == IF f.mode = "ab" THEN Len(body) - c.sz ELSE c.ofst
                             IN /\ from >= 0 /\ from + c.sz <= Len(body)
                                /\ SubSeq(body, from + 1, from + c.sz) = c.buf
                        /\ Succeeded(s, "read") =>
                             LET c == call[s]
                                 body == tree[files[c.handle].path].body
                             IN /\ c.done > 0 => c.ofst + c.done <= Len(body)
                                /\ c.buf = SubSeq(body, c.ofst + 1, c.ofst + c.done)
                                /\ c.done < c.sz => c.ofst + c.done >= Len(body)
    BY DEF TransfersAreStored, WrittenIsStored, ReadIsStored
  <2>2. ASSUME Succeeded(s, "write") \/ Succeeded(s, "read")
        PROVE  Succeeded(s, call[s].op) /\ call[s].op \in Moves
    BY <2>2 DEF Succeeded, Moves
  <2>3. CASE Succeeded(s, "write")
    <3>1. call[s].op = "write" /\ call[s].op # "read"
      BY <2>3 DEF Succeeded
    <3>2. /\ Body(files, tree, call[s]) \in Seq(Data) /\ call[s].sz \in Nat /\ call[s].sz > 0
          /\ call[s].done = call[s].sz
          /\ From(files, tree, call[s], call[s].done) \in Nat
          /\ From(files, tree, call[s], call[s].done) + call[s].done
               <= Len(Body(files, tree, call[s]))
          /\ call[s].buf = SubSeq(Body(files, tree, call[s]),
                                 From(files, tree, call[s], call[s].done) + 1,
                                 From(files, tree, call[s], call[s].done) + call[s].done)
      BY <1>1, <2>1, <2>2, <2>3, <3>1
    <3>3. From(files, tree, call[s], call[s].sz) =
            IF files[call[s].handle].mode = "ab"
            THEN Len(tree[files[call[s].handle].path].body) - call[s].sz ELSE call[s].ofst
      BY <3>1 DEF From, Body
    <3>4. PICK from, body :
            /\ from = (IF files[call[s].handle].mode = "ab"
                       THEN Len(tree[files[call[s].handle].path].body) - call[s].sz
                       ELSE call[s].ofst)
            /\ body = tree[files[call[s].handle].path].body
      OBVIOUS
    <3>5. from \in Nat /\ from + call[s].sz <= Len(body)
          /\ SubSeq(body, from + 1, from + call[s].sz) = call[s].buf
      BY <3>2, <3>3, <3>4 DEF Body
    <3>6. from >= 0
      BY <3>5
    <3>7. ~Succeeded(s, "read")
      BY <3>1 DEF Succeeded
    <3>8. QED
      BY <3>4, <3>5, <3>6, <3>7
  <2>4. CASE Succeeded(s, "read")
    <3>1. call[s].op = "read" /\ call[s].op # "write"
      BY <2>4 DEF Succeeded
    <3>2. From(files, tree, call[s], call[s].done) = call[s].ofst
      BY <3>1 DEF From
    <3>3. QED
      BY <1>1, <2>1, <2>2, <2>4, <3>1, <3>2 DEF Body, Succeeded
  <2>5. QED
    BY <2>3, <2>4
<1>3. QED
  BY <1>2, TransferredInvariance, PTL
=============================================================================
