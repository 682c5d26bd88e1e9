----------------------------- MODULE SftpdSlots -----------------------------
(***************************************************************************)
(* src/modules/modssh/modsftpd.c: the life of the sftp server's tasks.     *)
(* The MicroPython thread starts and stops one listener task; the listener *)
(* hands each connection to a session task in one of SFTPD_MAX_SESSIONS    *)
(* slots, with a stack it allocates and later reclaims, because a task     *)
(* cannot free the stack it is running on.  The state fields are volatile  *)
(* and no lock guards them: a task may be interrupted between any two of   *)
(* its stores.  A task whose last store is done and that has only          *)
(* vTaskDelete(NULL) left ("deleting") is forgotten when its slot, or the  *)
(* listener's place, is taken again; what it still does on a stack that    *)
(* was freed by then is outside the model.                                 *)
(***************************************************************************)
EXTENDS Integers, FiniteSets

CONSTANTS
  Slots,      \* number of session slots, SFTPD_MAX_SESSIONS
  Backlog,    \* connections the kernel queues before accept()
  MaxConns,   \* bound: connections clients make
  MaxStarts   \* bound: calls of start()

ASSUME SlotsAssumption ==
  /\ Slots \in Nat \ {0} /\ Backlog \in Nat
  /\ MaxConns \in Nat /\ MaxStarts \in Nat

VARIABLES
  mp,          \* the MicroPython thread: "idle", or "note" inside start()
  started,     \* self->task # NULL
  status,      \* self->state
  stopRequest, \* self->stop_request
  stack,       \* whether self->stack is allocated
  listener,    \* where the listener task is
  listenFd,    \* whether self->listen_fd is an open socket
  slot,        \* the listener's local: the slot it is filling
  conn,        \* the listener's local: the connection it accepted
  state,       \* each slot's state
  sessionStack,\* whether each slot's stack is allocated
  fd,          \* each slot's client_fd; 0 stands for -1
  session,     \* where each slot's session task is
  open,        \* the accepted connections that are open
  pending,     \* connections in the backlog
  conns, starts

server == <<mp, started, status, stopRequest, stack, starts>>
listening == <<listener, listenFd, slot, conn>>
slots == <<state, sessionStack, fd, session>>
sockets == <<open, pending, conns>>
vars == <<server, listening, slots, sockets>>

SlotIds == 1..Slots

Init ==
  /\ mp = "idle" /\ started = FALSE /\ status = "IDLE" /\ stopRequest = FALSE
  /\ stack = FALSE /\ starts = 0
  /\ listener = "none" /\ listenFd = FALSE /\ slot = 0 /\ conn = 0
  /\ state = [i \in SlotIds |-> "FREE"]
  /\ sessionStack = [i \in SlotIds |-> FALSE]
  /\ fd = [i \in SlotIds |-> 0]
  /\ session = [i \in SlotIds |-> "none"]
  /\ open = {} /\ pending = 0 /\ conns = 0

-----------------------------------------------------------------------------
(* The MicroPython thread.                                                 *)

\* Slip: start() does not look whether it is already started.
StartAgain ==
  /\ mp = "idle" /\ starts < MaxStarts
  /\ starts' = starts + 1
  /\ stopRequest' = FALSE /\ listenFd' = FALSE /\ status' = "IDLE"
  /\ \/ stack' = FALSE /\ UNCHANGED <<mp, listener>>
     \/ stack' = TRUE /\ mp' = "note" /\ listener' = "setup"
  /\ UNCHANGED <<started, slot, conn, slots, sockets>>

\* start(), unless already started: the previous run's stack is freed, a new
\* one allocated and the listener task created on it.  No memory: it raises.
Start ==
  /\ mp = "idle" /\ starts < MaxStarts /\ ~started
  /\ starts' = starts + 1
  /\ stopRequest' = FALSE /\ listenFd' = FALSE /\ status' = "IDLE"
  /\ \/ stack' = FALSE /\ UNCHANGED <<mp, listener>>
     \/ stack' = TRUE /\ mp' = "note" /\ listener' = "setup"
  /\ UNCHANGED <<started, slot, conn, slots, sockets>>

\* start() goes on: self->task = task, whatever the task has done by then.
NoteStarted ==
  /\ mp = "note"
  /\ started' = TRUE
  /\ mp' = "idle"
  /\ UNCHANGED <<status, stopRequest, stack, starts, listening, slots, sockets>>

Stop ==
  /\ mp = "idle" /\ stopRequest = FALSE
  /\ stopRequest' = TRUE
  /\ UNCHANGED <<mp, started, status, stack, starts, listening, slots, sockets>>

-----------------------------------------------------------------------------
(* The listener task.                                                      *)

\* socket, bind, listen: any of them may fail, the first with nothing open.
Setup ==
  /\ listener = "setup"
  /\ \/ listener' = "top" /\ listenFd' = TRUE /\ status' = "LISTENING"
     \/ listener' = "done" /\ listenFd' \in BOOLEAN /\ UNCHANGED status
  /\ UNCHANGED <<mp, started, stopRequest, stack, starts, slot, conn, slots, sockets>>

Finished == {i \in SlotIds : state[i] = "FINISHED"}

\* Slip: the slots whose session has gone are not reclaimed.
PollWithoutReclaim ==
  /\ listener = "top" /\ ~stopRequest
  /\ listener' \in {"top", "ready"}
  /\ listener' = "ready" => pending > 0
  /\ UNCHANGED <<server, listenFd, slot, conn, slots, sockets>>

\* The top of the loop: finished slots are reclaimed, then select() waits for
\* a connection or its poll interval.
Poll ==
  /\ listener = "top" /\ ~stopRequest
  /\ state' = [i \in SlotIds |-> IF i \in Finished THEN "FREE" ELSE state[i]]
  /\ sessionStack' = [i \in SlotIds |-> i \notin Finished /\ sessionStack[i]]
  /\ listener' \in {"top", "ready"}
  /\ listener' = "ready" => pending > 0
  /\ UNCHANGED <<server, listenFd, slot, conn, fd, session, sockets>>

LeaveLoop ==
  /\ listener = "top" /\ stopRequest
  /\ listener' = "done"
  /\ UNCHANGED <<server, listenFd, slot, conn, slots, sockets>>

Free == {i \in SlotIds : state[i] = "FREE"}

\* Every slot is in use: the connection stays in the backlog.
NoSlot ==
  /\ listener = "ready" /\ Free = {}
  /\ listener' = "top"
  /\ UNCHANGED <<server, listenFd, slot, conn, slots, sockets>>

\* accept() into the first free slot; the client may have gone by now.
Accept ==
  /\ listener = "ready" /\ Free # {}
  /\ pending' = pending - 1
  /\ \/ /\ listener' = "accepted"
        /\ slot' = CHOOSE i \in Free : \A j \in Free : i <= j
        /\ conns' = conns + 1 /\ conn' = conns'
        /\ open' = open \union {conn'}
     \/ /\ listener' = "top"
        /\ UNCHANGED <<slot, conn, conns, open>>
  /\ UNCHANGED <<server, listenFd, slots>>

\* Slip: a connection that finds no memory is left open.
RejectLeaking ==
  /\ listener = "accepted"
  /\ listener' = "top" /\ slot' = 0 /\ conn' = 0
  /\ UNCHANGED <<server, listenFd, slots, sockets>>

\* No memory for the stack, or for the task: the connection is closed and the
\* slot stays FREE.
Reject ==
  /\ listener = "accepted"
  /\ open' = open \ {conn}
  /\ listener' = "top" /\ slot' = 0 /\ conn' = 0
  /\ UNCHANGED <<server, listenFd, slots, pending, conns>>

\* The session's fields are set and its task created, ready to run.
Spawn ==
  /\ listener = "accepted"
  /\ sessionStack' = [sessionStack EXCEPT ![slot] = TRUE]
  /\ fd' = [fd EXCEPT ![slot] = conn]
  /\ session' = [session EXCEPT ![slot] = "handshake"]
  /\ listener' = "mark" /\ conn' = 0
  /\ UNCHANGED <<server, listenFd, slot, state, sockets>>

\* session->task = task; session->state = SFTPD_SLOT_ACTIVE.
Mark ==
  /\ listener = "mark"
  /\ state' = [state EXCEPT ![slot] = "ACTIVE"]
  /\ listener' = "top" /\ slot' = 0
  /\ UNCHANGED <<server, listenFd, conn, sessionStack, fd, session, sockets>>

\* done: STOPPED, then the socket is closed; the backlog goes with it.
SetStopped ==
  /\ listener = "done"
  /\ status' = "STOPPED"
  /\ listener' = "close"
  /\ UNCHANGED <<mp, started, stopRequest, stack, starts, listenFd, slot, conn, slots,
                 sockets>>

\* Slip: the listening socket is not closed.
CloseListenerLeaking ==
  /\ listener = "close"
  /\ pending' = 0
  /\ listener' = "clear"
  /\ UNCHANGED <<server, listenFd, slot, conn, slots, open, conns>>

CloseListener ==
  /\ listener = "close"
  /\ listenFd' = FALSE /\ pending' = 0
  /\ listener' = "clear"
  /\ UNCHANGED <<server, slot, conn, slots, open, conns>>

\* self->task = NULL: start() is allowed from here on.
ClearTask ==
  /\ listener = "clear"
  /\ started' = FALSE
  /\ listener' = "deleting"
  /\ UNCHANGED <<mp, status, stopRequest, stack, starts, listenFd, slot, conn, slots,
                 sockets>>

\* vTaskDelete(NULL), the last code to run on the listener's stack.
DeleteListener ==
  /\ listener = "deleting"
  /\ listener' = "none"
  /\ UNCHANGED <<server, listenFd, slot, conn, slots, sockets>>

-----------------------------------------------------------------------------
(* The session tasks.                                                      *)

GotoIn(i, to) == session' = [session EXCEPT ![i] = to]

OnlySession == UNCHANGED <<server, listening, state, sessionStack, fd, sockets>>

\* wolfSSH_SFTP_accept succeeds, or fails; before it, the context and the session for
\* wolfSSH may fail.  The deadline is looked at between two calls of it, and the socket
\* is a blocking one: a client that falls silent inside a call keeps the task there.
Handshake(i) ==
  /\ session[i] = "handshake"
  /\ \E to \in {"serving", "shutdown", "ended"} : GotoIn(i, to)
  /\ OnlySession

\* The serving loop polls stop_request, and does not look at it again while it answers
\* what the client asks: the inner loop goes on as long as requests lie ready, and
\* wolfSSH_SFTP_read may block.
SeeStop(i) ==
  /\ session[i] = "serving" /\ stopRequest
  /\ GotoIn(i, "shutdown")
  /\ OnlySession

Serve(i) ==
  /\ session[i] = "serving" /\ ~stopRequest
  /\ GotoIn(i, "request")
  /\ OnlySession

Respond(i) == session[i] = "request" /\ GotoIn(i, "serving") /\ OnlySession

\* The client hangs up, or the connection fails.
HangUp(i) == session[i] = "request" /\ GotoIn(i, "shutdown") /\ OnlySession

\* wolfSSH_shutdown, on the same socket.
Shutdown(i) == session[i] = "shutdown" /\ GotoIn(i, "ended") /\ OnlySession

\* Slip: the slot is handed back before its socket is closed.
FinishBeforeClosing(i) ==
  /\ session[i] = "ended"
  /\ state' = [state EXCEPT ![i] = "FINISHED"]
  /\ GotoIn(i, "finish")
  /\ UNCHANGED <<server, listening, sessionStack, fd, sockets>>

CloseClient(i) ==
  /\ session[i] = "ended"
  /\ open' = open \ {fd[i]}
  /\ fd' = [fd EXCEPT ![i] = 0]
  /\ GotoIn(i, "finish")
  /\ UNCHANGED <<server, listening, state, sessionStack, pending, conns>>

\* session->state = SFTPD_SLOT_FINISHED.
Finish(i) ==
  /\ session[i] = "finish"
  /\ state' = [state EXCEPT ![i] = "FINISHED"]
  /\ GotoIn(i, "deleting")
  /\ UNCHANGED <<server, listening, sessionStack, fd, sockets>>

\* vTaskDelete(NULL), the last code to run on the session's stack.
DeleteSession(i) ==
  /\ session[i] = "deleting"
  /\ GotoIn(i, "none")
  /\ UNCHANGED <<server, listening, state, sessionStack, fd, sockets>>

-----------------------------------------------------------------------------
\* A client connects; the kernel queues it while somebody listens.
Arrive ==
  /\ listenFd /\ pending < Backlog /\ conns + pending < MaxConns
  /\ pending' = pending + 1
  /\ UNCHANGED <<server, listening, slots, open, conns>>

ListenerStep ==
  \/ Setup \/ Poll \/ LeaveLoop \/ NoSlot \/ Accept \/ Reject \/ Spawn \/ Mark
  \/ SetStopped \/ CloseListener \/ ClearTask \/ DeleteListener

SessionObliged(i) == SeeStop(i) \/ CloseClient(i) \/ Finish(i) \/ DeleteSession(i)

SessionStep(i) ==
  \/ SessionObliged(i)
  \/ Handshake(i) \/ Serve(i) \/ Respond(i) \/ HangUp(i) \/ Shutdown(i)

Next ==
  \/ Start \/ NoteStarted \/ Stop
  \/ ListenerStep
  \/ \E i \in SlotIds : SessionStep(i)
  \/ Arrive

Spec == Init /\ [][Next]_vars

\* Created tasks run and so does start() once begun; a session inside wolfSSH, or whose
\* client keeps asking, need not come out of it, and nobody need ever call stop().
FairSpec ==
  /\ Spec
  /\ WF_vars(ListenerStep) /\ WF_vars(NoteStarted)
  /\ \A i \in SlotIds : WF_vars(SessionObliged(i))

-----------------------------------------------------------------------------
(* Properties.                                                             *)

\* Where a session task is at work.
Running == {"handshake", "serving", "request", "shutdown", "ended", "finish"}

\* It is in wolfSSH's hands, or in its client's.
Held(i) == session[i] \in {"handshake", "request", "shutdown"}

\* Every variable has its type; accept() is called only for a connection that
\* is in the backlog.
FlagsTypeOK ==
  /\ mp \in {"idle", "note"} /\ status \in {"IDLE", "LISTENING", "STOPPED"}
  /\ {started, stopRequest, stack, listenFd} \subseteq BOOLEAN
ListenerTypeOK ==
  /\ listener \in {"none", "setup", "top", "ready", "accepted", "mark", "done",
                   "close", "clear", "deleting"}
  /\ slot \in 0..Slots /\ conn \in 0..MaxConns
SlotsTypeOK ==
  /\ state \in [SlotIds -> {"FREE", "ACTIVE", "FINISHED"}]
  /\ sessionStack \in [SlotIds -> BOOLEAN]
  /\ fd \in [SlotIds -> 0..MaxConns]
  /\ session \in [SlotIds -> Running \union {"deleting", "none"}]
CountsTypeOK ==
  /\ open \subseteq 1..MaxConns /\ conns \in 0..MaxConns
  /\ pending \in 0..Backlog /\ starts \in 0..MaxStarts
TypeOK == FlagsTypeOK /\ ListenerTypeOK /\ SlotsTypeOK /\ CountsTypeOK

\* A session task at work has its stack and its slot: neither the listener,
\* reclaiming or accepting, nor a stop and a new start, takes them from it.
SessionKeepsItsSlot ==
  \A i \in SlotIds : session[i] \in Running =>
    /\ sessionStack[i]
    /\ state[i] = "ACTIVE" \/ (state[i] = "FREE" /\ listener = "mark" /\ slot = i)

\* Every open connection belongs to exactly one session task, or is the one
\* the listener has just accepted: none is leaked, none is shared, and none is
\* closed under the task that serves it.
ConnectionsAreOwned ==
  /\ \A c \in open : \/ conn = c
                     \/ \E i \in SlotIds : fd[i] = c /\ session[i] \in Running
  /\ \A i \in SlotIds : session[i] \in Running \ {"finish"} => fd[i] \in open
  /\ \A i, j \in SlotIds : fd[i] # 0 /\ fd[i] = fd[j] => i = j

\* A new listener never starts while another still listens, and never finds
\* the listening socket open.
OneListener ==
  [][listener' = "setup" /\ listener # "setup" =>
       listener \in {"none", "deleting"} /\ ~listenFd]_vars

\* Once stopped, the server comes to rest unless it is started again: the listener
\* ends, its socket and what it has just accepted closed, and so does every session
\* that is not kept inside wolfSSH, or busy by a client that always asks for more, for
\* ever.  That its connection is closed then is ConnectionsAreOwned.
StopEndsAll ==
  /\ stopRequest ~> ~stopRequest \/ (listener = "none" /\ ~listenFd /\ conn = 0)
  /\ \A i \in SlotIds : \/ <>[]Held(i)
                        \/ stopRequest ~> ~stopRequest \/ session[i] = "none"

\* While the server runs, the stack of a session that is gone, and whose FINISHED is
\* not about to be overwritten by the listener's ACTIVE, is given back.
FinishedIsSeen ==
  \A i \in SlotIds :
    session[i] = "none" /\ state[i] = "FINISHED" /\ ~(listener = "mark" /\ slot = i)
      ~> ~sessionStack[i] \/ listener = "none"

\* "FREE -> ACTIVE -> FINISHED -> FREE again ... each slot's state is only ever written
\* by exactly one of {listener, that slot's own session task} at a time" (modsftpd.c:99-110):
\* while the server runs, a slot whose session is gone comes back.
SlotsComeBack ==
  \A i \in SlotIds : session[i] = "none" /\ state[i] # "FREE" ~> state[i] = "FREE" \/ listener = "none"
=============================================================================
