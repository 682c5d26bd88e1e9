------------------------------ MODULE SftpProofs ------------------------------
(***************************************************************************)
(* Proofs about the two ends of SSH and SFTP that have tasks to keep apart.*)
(*                                                                         *)
(* SftpdSlots, for any number of slots, connections and starts.  The       *)
(* properties are not inductive: that a slot the listener has just chosen  *)
(* is nobody's, that a task past its socket holds none, and that without   *)
(* self->task there is no listener at work, are what makes them so.        *)
(*                                                                         *)
(* RemoteClient, for any kind of client, any number of connections and     *)
(* requests, any files and any scratch buffer: its connections stay apart, *)
(* a request has one owner until one times out, and until then transfers   *)
(* are whole.  Three invariants, each proved with the help of those before *)
(* it.                                                                     *)
(***************************************************************************)
EXTENDS SftpdSlots, RemoteClient, SequenceTheorems, WellFoundedInduction, TLAPS

-----------------------------------------------------------------------------
(* The server's slots.                                                     *)

\* Connections are numbered in the order they are accepted, and accept() is called for
\* one that waits.
Numbered ==
  /\ conns + pending <= MaxConns
  /\ listener = "ready" => pending > 0
  /\ open \subseteq 1..conns /\ conn <= conns
  /\ \A i \in SlotIds : fd[i] <= conns

\* self->task stands for a listener that is at work; only such a one has a socket.
Listening ==
  /\ mp = "idle" /\ ~started => listener \in {"none", "deleting"}
  /\ listenFd => listener \in {"top", "ready", "accepted", "mark", "done", "close"}

\* The connection the listener has accepted is open and nobody else's; so is the slot it
\* has chosen for it.
Chosen ==
  /\ conn # 0 => listener = "accepted"
  /\ listener \in {"accepted", "mark"} => slot \in SlotIds
  /\ listener = "accepted" =>
       /\ state[slot] = "FREE" /\ session[slot] \notin Running
       /\ conn \in open /\ \A i \in SlotIds : fd[i] # conn

\* A session has closed its socket before it finishes, and not before.
Sockets ==
  \A i \in SlotIds :
    /\ session[i] \in {"finish", "deleting", "none"} => fd[i] = 0
    /\ session[i] \in Running \ {"finish"} => fd[i] \in open

IInv ==
  /\ TypeOK /\ Numbered /\ Listening /\ Chosen /\ Sockets
  /\ SessionKeepsItsSlot /\ ConnectionsAreOwned

USE SlotsAssumption DEF SlotIds

\* The listener finds a slot when there is one.
LEMMA FirstFree == Free # {} => (CHOOSE i \in Free : \A j \in Free : i <= j) \in Free
<1> SUFFICES ASSUME Free # {} PROVE \E i \in Free : \A j \in Free : i <= j
  OBVIOUS
<1> DEFINE less == OpToRel(<, Nat)
<1>1. Free \subseteq Nat
  BY DEF Free
<1>2. PICK i \in Free : \A j \in Free : ~(<<j, i>> \in less)
  <2> HIDE DEF less
  <2>. QED
    BY <1>1, WFMin, NatLessThanWellFounded DEF less
<1>3. ASSUME NEW j \in Free PROVE i <= j
  <2>1. <<j, i>> \in Nat \X Nat
    BY <1>1
  <2>2. ~(<<j, i>>[1] < <<j, i>>[2])
    BY <1>2, <2>1 DEF OpToRel
  <2>. QED
    BY <1>1, <2>2
<1>. QED
  BY <1>3

\* The server as it is made satisfies the invariant.
LEMMA Initially == Init => IInv
<1> SUFFICES ASSUME Init PROVE IInv
  OBVIOUS
<1>1. FlagsTypeOK
  BY DEF Init, FlagsTypeOK, Running
<1>2. ListenerTypeOK
  BY DEF Init, ListenerTypeOK, Running
<1>3. SlotsTypeOK
  BY DEF Init, SlotsTypeOK, Running
<1>4. CountsTypeOK
  BY DEF Init, CountsTypeOK, Running
<1>5. Numbered
  BY DEF Init, Numbered, Running
<1>6. Listening
  BY DEF Init, Listening, Running
<1>7. Chosen
  BY DEF Init, Chosen, Running
<1>8. Sockets
  BY DEF Init, Sockets, Running
<1>9. SessionKeepsItsSlot
  BY DEF Init, SessionKeepsItsSlot, Running
<1>10. ConnectionsAreOwned
  BY DEF Init, ConnectionsAreOwned, Running
<1>. QED
  BY <1>1, <1>2, <1>3, <1>4, <1>5, <1>6, <1>7, <1>8, <1>9, <1>10 DEF IInv, TypeOK

\* A session that has its connection still moves on in its loop, or towards its end.
LEMMA TalkKeeps ==
  ASSUME IInv, NEW i \in SlotIds, NEW to \in Running \ {"finish"},
         session[i] \in Running \ {"finish"}, GotoIn(i, to), OnlySession
  PROVE  IInv'
<1> USE DEF IInv, TypeOK, GotoIn, OnlySession, server, listening, sockets
<1>1. /\ UNCHANGED <<server, listening, state, sessionStack, fd, sockets>>
      /\ session' = [session EXCEPT ![i] = to] /\ to \in Running
  OBVIOUS
<1>2. \A j \in SlotIds : session'[j] = IF j = i THEN to ELSE session[j]
  BY DEF SlotsTypeOK
<1>3. \A j \in SlotIds : /\ (session'[j] \in Running) <=> (session[j] \in Running)
                        /\ (session'[j] = "finish") <=> (session[j] = "finish")
  BY <1>2
<1>4. \A j \in SlotIds : (session'[j] \in {"finish", "deleting", "none"}) => session'[j] = session[j]
  BY <1>2 DEF Running
<1>5. FlagsTypeOK' /\ ListenerTypeOK' /\ CountsTypeOK'
  BY DEF FlagsTypeOK, ListenerTypeOK, CountsTypeOK
<1>6. SlotsTypeOK'
  BY <1>1 DEF SlotsTypeOK
<1>7. Numbered' /\ Listening'
  BY DEF Numbered, Listening
<1>8. Chosen'
  BY <1>1, <1>3 DEF Chosen
<1>9. Sockets'
  BY <1>1, <1>3, <1>4 DEF Sockets
<1>10. SessionKeepsItsSlot'
  BY <1>1, <1>3 DEF SessionKeepsItsSlot
<1>11. ConnectionsAreOwned'
  BY <1>1, <1>3 DEF ConnectionsAreOwned
<1>. QED
  BY <1>5, <1>6, <1>7, <1>8, <1>9, <1>10, <1>11

\* The invariant is kept by every action.
LEMMA Inductive == IInv /\ [Next]_vars => IInv'
<1> SUFFICES ASSUME IInv, [Next]_vars PROVE IInv'
  OBVIOUS
<1> USE DEF IInv, TypeOK
<1>1. CASE Start
  <2>1. FlagsTypeOK'
    BY <1>1, FlagsTypeOK
    DEF Start, server, listening, slots, sockets, FlagsTypeOK, Running
  <2>2. ListenerTypeOK'
    BY <1>1, ListenerTypeOK, CountsTypeOK, Numbered
    DEF Start, server, listening, slots, sockets, ListenerTypeOK, CountsTypeOK, Numbered, Running
  <2>3. SlotsTypeOK'
    BY <1>1, ListenerTypeOK, SlotsTypeOK, Chosen
    DEF Start, server, listening, slots, sockets, SlotsTypeOK, ListenerTypeOK, Chosen, Running
  <2>4. CountsTypeOK'
    BY <1>1, CountsTypeOK, Numbered
    DEF Start, server, listening, slots, sockets, CountsTypeOK, Numbered, Running
  <2>5. Numbered'
    BY <1>1, ListenerTypeOK, SlotsTypeOK, CountsTypeOK, Numbered
    DEF Start, server, listening, slots, sockets, Numbered, ListenerTypeOK, SlotsTypeOK, CountsTypeOK, Running
  <2>6. Listening'
    BY <1>1, FlagsTypeOK, ListenerTypeOK, Listening
    DEF Start, server, listening, slots, sockets, Listening, FlagsTypeOK, ListenerTypeOK, Running
  <2>7. Chosen'
    BY <1>1, FlagsTypeOK, Listening, ListenerTypeOK, SlotsTypeOK, CountsTypeOK, Numbered, Chosen, Sockets, SessionKeepsItsSlot, ConnectionsAreOwned
    DEF Start, server, listening, slots, sockets, Chosen, FlagsTypeOK, Listening, ListenerTypeOK, SlotsTypeOK, CountsTypeOK, Numbered, Sockets, SessionKeepsItsSlot, ConnectionsAreOwned, Running
  <2>8. Sockets'
    BY <1>1, ListenerTypeOK, SlotsTypeOK, CountsTypeOK, Numbered, Chosen, Sockets, ConnectionsAreOwned
    DEF Start, server, listening, slots, sockets, Sockets, ListenerTypeOK, SlotsTypeOK, CountsTypeOK, Numbered, Chosen, ConnectionsAreOwned, Running
  <2>9. SessionKeepsItsSlot'
    BY <1>1, FlagsTypeOK, Listening, ListenerTypeOK, SlotsTypeOK, Chosen, SessionKeepsItsSlot
    DEF Start, server, listening, slots, sockets, SessionKeepsItsSlot, FlagsTypeOK, Listening, ListenerTypeOK, SlotsTypeOK, Chosen, Running
  <2>10. ConnectionsAreOwned'
    BY <1>1, ListenerTypeOK, SlotsTypeOK, CountsTypeOK, Numbered, Chosen, Sockets, ConnectionsAreOwned
    DEF Start, server, listening, slots, sockets, ConnectionsAreOwned, ListenerTypeOK, SlotsTypeOK, CountsTypeOK, Numbered, Chosen, Sockets, Running
  <2>. QED
    BY <2>1, <2>2, <2>3, <2>4, <2>5, <2>6, <2>7, <2>8, <2>9, <2>10 DEF IInv, TypeOK
<1>2. CASE NoteStarted
  BY <1>2 DEF NoteStarted,
     FlagsTypeOK, ListenerTypeOK, SlotsTypeOK, CountsTypeOK, Numbered, Listening, Chosen, Sockets, SessionKeepsItsSlot, ConnectionsAreOwned, Running, server, listening, slots, sockets
<1>3. CASE Stop
  BY <1>3 DEF Stop,
     FlagsTypeOK, ListenerTypeOK, SlotsTypeOK, CountsTypeOK, Numbered, Listening, Chosen, Sockets, SessionKeepsItsSlot, ConnectionsAreOwned, Running, server, listening, slots, sockets
<1>4. CASE Setup
  <2>1. FlagsTypeOK'
    BY <1>4, FlagsTypeOK
    DEF Setup, server, listening, slots, sockets, FlagsTypeOK, Running
  <2>2. ListenerTypeOK'
    BY <1>4, ListenerTypeOK, CountsTypeOK, Numbered
    DEF Setup, server, listening, slots, sockets, ListenerTypeOK, CountsTypeOK, Numbered, Running
  <2>3. SlotsTypeOK'
    BY <1>4, ListenerTypeOK, SlotsTypeOK, Chosen
    DEF Setup, server, listening, slots, sockets, SlotsTypeOK, ListenerTypeOK, Chosen, Running
  <2>4. CountsTypeOK'
    BY <1>4, CountsTypeOK, Numbered
    DEF Setup, server, listening, slots, sockets, CountsTypeOK, Numbered, Running
  <2>5. Numbered'
    BY <1>4, ListenerTypeOK, SlotsTypeOK, CountsTypeOK, Numbered
    DEF Setup, server, listening, slots, sockets, Numbered, ListenerTypeOK, SlotsTypeOK, CountsTypeOK, Running
  <2>6. Listening'
    BY <1>4, FlagsTypeOK, ListenerTypeOK, Listening
    DEF Setup, server, listening, slots, sockets, Listening, FlagsTypeOK, ListenerTypeOK, Running
  <2>7. Chosen'
    BY <1>4, FlagsTypeOK, Listening, ListenerTypeOK, SlotsTypeOK, CountsTypeOK, Numbered, Chosen, Sockets, SessionKeepsItsSlot, ConnectionsAreOwned
    DEF Setup, server, listening, slots, sockets, Chosen, FlagsTypeOK, Listening, ListenerTypeOK, SlotsTypeOK, CountsTypeOK, Numbered, Sockets, SessionKeepsItsSlot, ConnectionsAreOwned, Running
  <2>8. Sockets'
    BY <1>4, ListenerTypeOK, SlotsTypeOK, CountsTypeOK, Numbered, Chosen, Sockets, ConnectionsAreOwned
    DEF Setup, server, listening, slots, sockets, Sockets, ListenerTypeOK, SlotsTypeOK, CountsTypeOK, Numbered, Chosen, ConnectionsAreOwned, Running
  <2>9. SessionKeepsItsSlot'
    BY <1>4, FlagsTypeOK, Listening, ListenerTypeOK, SlotsTypeOK, Chosen, SessionKeepsItsSlot
    DEF Setup, server, listening, slots, sockets, SessionKeepsItsSlot, FlagsTypeOK, Listening, ListenerTypeOK, SlotsTypeOK, Chosen, Running
  <2>10. ConnectionsAreOwned'
    BY <1>4, ListenerTypeOK, SlotsTypeOK, CountsTypeOK, Numbered, Chosen, Sockets, ConnectionsAreOwned
    DEF Setup, server, listening, slots, sockets, ConnectionsAreOwned, ListenerTypeOK, SlotsTypeOK, CountsTypeOK, Numbered, Chosen, Sockets, Running
  <2>. QED
    BY <2>1, <2>2, <2>3, <2>4, <2>5, <2>6, <2>7, <2>8, <2>9, <2>10 DEF IInv, TypeOK
<1>5. CASE Poll
  BY <1>5 DEF Poll, Finished, FlagsTypeOK, ListenerTypeOK, SlotsTypeOK, CountsTypeOK, Numbered, Listening, Chosen, Sockets, SessionKeepsItsSlot, ConnectionsAreOwned, Running, server, listening, slots, sockets
<1>6. CASE LeaveLoop
  BY <1>6 DEF LeaveLoop,
     FlagsTypeOK, ListenerTypeOK, SlotsTypeOK, CountsTypeOK, Numbered, Listening, Chosen, Sockets, SessionKeepsItsSlot, ConnectionsAreOwned, Running, server, listening, slots, sockets
<1>7. CASE NoSlot
  BY <1>7 DEF NoSlot,
     FlagsTypeOK, ListenerTypeOK, SlotsTypeOK, CountsTypeOK, Numbered, Listening, Chosen, Sockets, SessionKeepsItsSlot, ConnectionsAreOwned, Running, server, listening, slots, sockets
<1>8. CASE Accept
  <2>1. /\ listener = "ready" /\ Free # {} /\ pending' = pending - 1
        /\ UNCHANGED <<server, listenFd, slots>>
    BY <1>8 DEF Accept
  <2>2. CASE /\ listener' = "accepted"
             /\ slot' = CHOOSE i \in Free : \A j \in Free : i <= j
             /\ conns' = conns + 1 /\ conn' = conns'
             /\ open' = open \union {conn'}
    <3>1. slot' \in SlotIds /\ state[slot'] = "FREE"
      BY <2>1, <2>2, FirstFree DEF Free
    <3>2. conns \in Nat /\ pending \in Nat \ {0} /\ conns + pending <= MaxConns /\ conns' = conns + 1
      BY <2>1, <2>2 DEF Numbered, CountsTypeOK
    <3>3. FlagsTypeOK' /\ ListenerTypeOK' /\ SlotsTypeOK' /\ Listening'
      BY <2>1, <2>2, <3>1, <3>2
      DEF FlagsTypeOK, ListenerTypeOK, SlotsTypeOK, Listening, server, slots, Running
    <3>4. open' \subseteq 1..conns'
      BY <2>2, <3>2 DEF Numbered
    <3>5. CountsTypeOK'
      BY <2>1, <3>2, <3>4 DEF CountsTypeOK, server
    <3>6. \A i \in SlotIds : fd'[i] = fd[i] /\ fd[i] \in 0..conns
      BY <2>1 DEF Numbered, SlotsTypeOK, slots
    <3>7. Numbered'
      BY <2>1, <2>2, <3>2, <3>4, <3>6 DEF Numbered
    <3>8. Chosen'
      BY <2>1, <2>2, <3>1, <3>2, <3>6 DEF Chosen, SessionKeepsItsSlot, slots
    <3>9. Sockets' /\ SessionKeepsItsSlot'
      BY <2>1, <2>2 DEF Sockets, SessionKeepsItsSlot, Running, slots
    <3>10. 0 \notin open /\ conn = 0
      BY <2>1 DEF Numbered, Chosen
    <3>11. ConnectionsAreOwned'
      BY <2>1, <2>2, <3>10 DEF ConnectionsAreOwned, slots
    <3>. QED
      BY <3>3, <3>5, <3>7, <3>8, <3>9, <3>11
  <2>3. CASE listener' = "top" /\ UNCHANGED <<slot, conn, conns, open>>
    <3>1. FlagsTypeOK' /\ ListenerTypeOK' /\ SlotsTypeOK' /\ Listening'
      BY <2>1, <2>3 DEF FlagsTypeOK, ListenerTypeOK, SlotsTypeOK, Listening, server, slots, Running
    <3>2. CountsTypeOK' /\ Numbered'
      BY <2>1, <2>3 DEF CountsTypeOK, Numbered, server, slots
    <3>3. Chosen' /\ Sockets' /\ SessionKeepsItsSlot' /\ ConnectionsAreOwned'
      BY <2>1, <2>3 DEF Chosen, Sockets, SessionKeepsItsSlot, ConnectionsAreOwned, Running, slots
    <3>. QED
      BY <3>1, <3>2, <3>3
  <2>. QED
    BY <1>8, <2>2, <2>3 DEF Accept
<1>9. CASE Reject
  BY <1>9 DEF Reject,
     FlagsTypeOK, ListenerTypeOK, SlotsTypeOK, CountsTypeOK, Numbered, Listening, Chosen, Sockets, SessionKeepsItsSlot, ConnectionsAreOwned, Running, server, listening, slots, sockets
<1>10. CASE Spawn
  BY <1>10 DEF Spawn,
     FlagsTypeOK, ListenerTypeOK, SlotsTypeOK, CountsTypeOK, Numbered, Listening, Chosen, Sockets, SessionKeepsItsSlot, ConnectionsAreOwned, Running, server, listening, slots, sockets
<1>11. CASE Mark
  BY <1>11 DEF Mark,
     FlagsTypeOK, ListenerTypeOK, SlotsTypeOK, CountsTypeOK, Numbered, Listening, Chosen, Sockets, SessionKeepsItsSlot, ConnectionsAreOwned, Running, server, listening, slots, sockets
<1>12. CASE SetStopped
  BY <1>12 DEF SetStopped,
     FlagsTypeOK, ListenerTypeOK, SlotsTypeOK, CountsTypeOK, Numbered, Listening, Chosen, Sockets, SessionKeepsItsSlot, ConnectionsAreOwned, Running, server, listening, slots, sockets
<1>13. CASE CloseListener
  <2>1. FlagsTypeOK'
    BY <1>13, FlagsTypeOK
    DEF CloseListener, server, listening, slots, sockets, FlagsTypeOK, Running
  <2>2. ListenerTypeOK'
    BY <1>13, ListenerTypeOK, CountsTypeOK, Numbered
    DEF CloseListener, server, listening, slots, sockets, ListenerTypeOK, CountsTypeOK, Numbered, Running
  <2>3. SlotsTypeOK'
    BY <1>13, ListenerTypeOK, SlotsTypeOK, Chosen
    DEF CloseListener, server, listening, slots, sockets, SlotsTypeOK, ListenerTypeOK, Chosen, Running
  <2>4. CountsTypeOK'
    BY <1>13, CountsTypeOK, Numbered
    DEF CloseListener, server, listening, slots, sockets, CountsTypeOK, Numbered, Running
  <2>5. Numbered'
    BY <1>13, ListenerTypeOK, SlotsTypeOK, CountsTypeOK, Numbered
    DEF CloseListener, server, listening, slots, sockets, Numbered, ListenerTypeOK, SlotsTypeOK, CountsTypeOK, Running
  <2>6. Listening'
    BY <1>13, FlagsTypeOK, ListenerTypeOK, Listening
    DEF CloseListener, server, listening, slots, sockets, Listening, FlagsTypeOK, ListenerTypeOK, Running
  <2>7. Chosen'
    BY <1>13, FlagsTypeOK, Listening, ListenerTypeOK, SlotsTypeOK, CountsTypeOK, Numbered, Chosen, Sockets, SessionKeepsItsSlot, ConnectionsAreOwned
    DEF CloseListener, server, listening, slots, sockets, Chosen, FlagsTypeOK, Listening, ListenerTypeOK, SlotsTypeOK, CountsTypeOK, Numbered, Sockets, SessionKeepsItsSlot, ConnectionsAreOwned, Running
  <2>8. Sockets'
    BY <1>13, ListenerTypeOK, SlotsTypeOK, CountsTypeOK, Numbered, Chosen, Sockets, ConnectionsAreOwned
    DEF CloseListener, server, listening, slots, sockets, Sockets, ListenerTypeOK, SlotsTypeOK, CountsTypeOK, Numbered, Chosen, ConnectionsAreOwned, Running
  <2>9. SessionKeepsItsSlot'
    BY <1>13, FlagsTypeOK, Listening, ListenerTypeOK, SlotsTypeOK, Chosen, SessionKeepsItsSlot
    DEF CloseListener, server, listening, slots, sockets, SessionKeepsItsSlot, FlagsTypeOK, Listening, ListenerTypeOK, SlotsTypeOK, Chosen, Running
  <2>10. ConnectionsAreOwned'
    BY <1>13, ListenerTypeOK, SlotsTypeOK, CountsTypeOK, Numbered, Chosen, Sockets, ConnectionsAreOwned
    DEF CloseListener, server, listening, slots, sockets, ConnectionsAreOwned, ListenerTypeOK, SlotsTypeOK, CountsTypeOK, Numbered, Chosen, Sockets, Running
  <2>. QED
    BY <2>1, <2>2, <2>3, <2>4, <2>5, <2>6, <2>7, <2>8, <2>9, <2>10 DEF IInv, TypeOK
<1>14. CASE ClearTask
  <2>1. FlagsTypeOK'
    BY <1>14, FlagsTypeOK
    DEF ClearTask, server, listening, slots, sockets, FlagsTypeOK, Running
  <2>2. ListenerTypeOK'
    BY <1>14, ListenerTypeOK, CountsTypeOK, Numbered
    DEF ClearTask, server, listening, slots, sockets, ListenerTypeOK, CountsTypeOK, Numbered, Running
  <2>3. SlotsTypeOK'
    BY <1>14, ListenerTypeOK, SlotsTypeOK, Chosen
    DEF ClearTask, server, listening, slots, sockets, SlotsTypeOK, ListenerTypeOK, Chosen, Running
  <2>4. CountsTypeOK'
    BY <1>14, CountsTypeOK, Numbered
    DEF ClearTask, server, listening, slots, sockets, CountsTypeOK, Numbered, Running
  <2>5. Numbered'
    BY <1>14, ListenerTypeOK, SlotsTypeOK, CountsTypeOK, Numbered
    DEF ClearTask, server, listening, slots, sockets, Numbered, ListenerTypeOK, SlotsTypeOK, CountsTypeOK, Running
  <2>6. Listening'
    BY <1>14, FlagsTypeOK, ListenerTypeOK, Listening
    DEF ClearTask, server, listening, slots, sockets, Listening, FlagsTypeOK, ListenerTypeOK, Running
  <2>7. Chosen'
    BY <1>14, FlagsTypeOK, Listening, ListenerTypeOK, SlotsTypeOK, CountsTypeOK, Numbered, Chosen, Sockets, SessionKeepsItsSlot, ConnectionsAreOwned
    DEF ClearTask, server, listening, slots, sockets, Chosen, FlagsTypeOK, Listening, ListenerTypeOK, SlotsTypeOK, CountsTypeOK, Numbered, Sockets, SessionKeepsItsSlot, ConnectionsAreOwned, Running
  <2>8. Sockets'
    BY <1>14, ListenerTypeOK, SlotsTypeOK, CountsTypeOK, Numbered, Chosen, Sockets, ConnectionsAreOwned
    DEF ClearTask, server, listening, slots, sockets, Sockets, ListenerTypeOK, SlotsTypeOK, CountsTypeOK, Numbered, Chosen, ConnectionsAreOwned, Running
  <2>9. SessionKeepsItsSlot'
    BY <1>14, FlagsTypeOK, Listening, ListenerTypeOK, SlotsTypeOK, Chosen, SessionKeepsItsSlot
    DEF ClearTask, server, listening, slots, sockets, SessionKeepsItsSlot, FlagsTypeOK, Listening, ListenerTypeOK, SlotsTypeOK, Chosen, Running
  <2>10. ConnectionsAreOwned'
    BY <1>14, ListenerTypeOK, SlotsTypeOK, CountsTypeOK, Numbered, Chosen, Sockets, ConnectionsAreOwned
    DEF ClearTask, server, listening, slots, sockets, ConnectionsAreOwned, ListenerTypeOK, SlotsTypeOK, CountsTypeOK, Numbered, Chosen, Sockets, Running
  <2>. QED
    BY <2>1, <2>2, <2>3, <2>4, <2>5, <2>6, <2>7, <2>8, <2>9, <2>10 DEF IInv, TypeOK
<1>15. CASE DeleteListener
  BY <1>15 DEF DeleteListener,
     FlagsTypeOK, ListenerTypeOK, SlotsTypeOK, CountsTypeOK, Numbered, Listening, Chosen, Sockets, SessionKeepsItsSlot, ConnectionsAreOwned, Running, server, listening, slots, sockets
<1>16. CASE Arrive
  BY <1>16 DEF Arrive,
     FlagsTypeOK, ListenerTypeOK, SlotsTypeOK, CountsTypeOK, Numbered, Listening, Chosen, Sockets, SessionKeepsItsSlot, ConnectionsAreOwned, Running, server, listening, slots, sockets
<1>17. ASSUME NEW i \in SlotIds,
              Handshake(i) \/ SeeStop(i) \/ Serve(i) \/ Respond(i) \/ HangUp(i) \/ Shutdown(i)
       PROVE  IInv'
  <2>1. \E to \in Running \ {"finish"} :
          session[i] \in Running \ {"finish"} /\ GotoIn(i, to) /\ OnlySession
    BY <1>17 DEF Handshake, SeeStop, Serve, Respond, HangUp, Shutdown, Running
  <2>. QED
    BY <2>1, TalkKeeps
<1>18. ASSUME NEW i \in SlotIds, CloseClient(i) PROVE IInv'
  <2>1. FlagsTypeOK'
    BY <1>18, FlagsTypeOK
    DEF CloseClient, GotoIn, server, listening, slots, sockets, FlagsTypeOK, Running
  <2>2. ListenerTypeOK'
    BY <1>18, ListenerTypeOK, CountsTypeOK, Numbered
    DEF CloseClient, GotoIn, server, listening, slots, sockets, ListenerTypeOK, CountsTypeOK, Numbered, Running
  <2>3. SlotsTypeOK'
    BY <1>18, ListenerTypeOK, SlotsTypeOK, Chosen
    DEF CloseClient, GotoIn, server, listening, slots, sockets, SlotsTypeOK, ListenerTypeOK, Chosen, Running
  <2>4. CountsTypeOK'
    BY <1>18, CountsTypeOK, Numbered
    DEF CloseClient, GotoIn, server, listening, slots, sockets, CountsTypeOK, Numbered, Running
  <2>5. Numbered'
    <3>1. open' \subseteq 1..conns /\ conns' = conns /\ conn' = conn /\ pending' = pending /\ listener' = listener
      BY <1>18 DEF CloseClient, listening, Numbered
    <3>2. \A j \in SlotIds : fd'[j] <= conns
      BY <1>18, SlotsTypeOK, CountsTypeOK, Numbered DEF CloseClient, SlotsTypeOK, CountsTypeOK, Numbered
    <3>. QED
      BY <3>1, <3>2 DEF Numbered
  <2>6. Listening'
    BY <1>18, FlagsTypeOK, ListenerTypeOK, Listening
    DEF CloseClient, GotoIn, server, listening, slots, sockets, Listening, FlagsTypeOK, ListenerTypeOK, Running
  <2>7. Chosen'
    BY <1>18, FlagsTypeOK, Listening, ListenerTypeOK, SlotsTypeOK, CountsTypeOK, Numbered, Chosen, Sockets, SessionKeepsItsSlot, ConnectionsAreOwned
    DEF CloseClient, GotoIn, server, listening, slots, sockets, Chosen, FlagsTypeOK, Listening, ListenerTypeOK, SlotsTypeOK, CountsTypeOK, Numbered, Sockets, SessionKeepsItsSlot, ConnectionsAreOwned, Running
  <2>8. Sockets'
    BY <1>18, ListenerTypeOK, SlotsTypeOK, CountsTypeOK, Numbered, Chosen, Sockets, ConnectionsAreOwned
    DEF CloseClient, GotoIn, server, listening, slots, sockets, Sockets, ListenerTypeOK, SlotsTypeOK, CountsTypeOK, Numbered, Chosen, ConnectionsAreOwned, Running
  <2>9. SessionKeepsItsSlot'
    BY <1>18, FlagsTypeOK, Listening, ListenerTypeOK, SlotsTypeOK, Chosen, SessionKeepsItsSlot
    DEF CloseClient, GotoIn, server, listening, slots, sockets, SessionKeepsItsSlot, FlagsTypeOK, Listening, ListenerTypeOK, SlotsTypeOK, Chosen, Running
  <2>10. ConnectionsAreOwned'
    BY <1>18, ListenerTypeOK, SlotsTypeOK, CountsTypeOK, Numbered, Chosen, Sockets, ConnectionsAreOwned
    DEF CloseClient, GotoIn, server, listening, slots, sockets, ConnectionsAreOwned, ListenerTypeOK, SlotsTypeOK, CountsTypeOK, Numbered, Chosen, Sockets, Running
  <2>. QED
    BY <2>1, <2>2, <2>3, <2>4, <2>5, <2>6, <2>7, <2>8, <2>9, <2>10 DEF IInv, TypeOK
<1>19. ASSUME NEW i \in SlotIds, Finish(i) PROVE IInv'
  BY <1>19 DEF Finish, GotoIn,
     FlagsTypeOK, ListenerTypeOK, SlotsTypeOK, CountsTypeOK, Numbered, Listening, Chosen, Sockets, SessionKeepsItsSlot, ConnectionsAreOwned, Running, server, listening, slots, sockets
<1>20. ASSUME NEW i \in SlotIds, DeleteSession(i) PROVE IInv'
  BY <1>20 DEF DeleteSession, GotoIn,
     FlagsTypeOK, ListenerTypeOK, SlotsTypeOK, CountsTypeOK, Numbered, Listening, Chosen, Sockets, SessionKeepsItsSlot, ConnectionsAreOwned, Running, server, listening, slots, sockets
<1>21. CASE UNCHANGED vars
  BY <1>21 DEF vars,
     FlagsTypeOK, ListenerTypeOK, SlotsTypeOK, CountsTypeOK, Numbered, Listening, Chosen, Sockets, SessionKeepsItsSlot, ConnectionsAreOwned, Running, server, listening, slots, sockets
<1>. QED
  BY <1>1, <1>2, <1>3, <1>4, <1>5, <1>6, <1>7, <1>8, <1>9, <1>10, <1>11, <1>12, <1>13, <1>14, <1>15, <1>16, <1>17, <1>18, <1>19, <1>20, <1>21
  DEF Next, ListenerStep, SessionStep, SessionObliged

\* In every reachable state the slots, stacks and sockets are where IInv says.
THEOREM Invariance == Spec => []IInv
BY Initially, Inductive, PTL DEF Spec

\* A session at work keeps its slot and its stack (modsftpd.c:891-903, 955-981).
THEOREM SlotsAreKept == Spec => []SessionKeepsItsSlot
<1>1. IInv => SessionKeepsItsSlot
  BY DEF IInv
<1>. QED
  BY <1>1, Invariance, PTL

\* No connection is leaked, shared, or closed under its session.
THEOREM ConnectionsHaveOwners == Spec => []ConnectionsAreOwned
<1>1. IInv => ConnectionsAreOwned
  BY DEF IInv
<1>. QED
  BY <1>1, Invariance, PTL

\* A second listener never starts beside one at work, nor finds its socket open
\* (modsftpd.c:1049-1097, 983-990).
THEOREM ListenersAreAlone == Spec => OneListener
<1>1. IInv /\ [Next]_vars => [listener' = "setup" /\ listener # "setup" =>
                                listener \in {"none", "deleting"} /\ ~listenFd]_vars
  <2> SUFFICES ASSUME IInv, Next, listener' = "setup", listener # "setup"
               PROVE listener \in {"none", "deleting"} /\ ~listenFd
    OBVIOUS
  <2>1. mp = "idle" /\ ~started
    BY DEF Next, ListenerStep, SessionStep, Start, NoteStarted, Stop, Setup, Poll, LeaveLoop, NoSlot, Accept, Reject,
           Spawn, Mark, SetStopped, CloseListener, ClearTask, DeleteListener, SessionObliged, Handshake, SeeStop,
           Serve, Respond, HangUp, Shutdown, OnlySession, CloseClient, Finish, DeleteSession, Arrive, listening
  <2>. QED
    BY <2>1 DEF IInv, Listening
<1>. QED
  BY <1>1, Invariance, PTL DEF Spec, OneListener

-----------------------------------------------------------------------------
(* The client: the states of self->state.                                  *)

States == {"IDLE", "CONNECTING", "CONNECTED", "FAILED", "CLOSED"}

-----------------------------------------------------------------------------
(* Connections.                                                            *)

ConnectionTypes ==
  /\ kind \in {"shell", "files"}
  /\ last \in Nat
  /\ self \in [state : States, task : Nat, stop : BOOLEAN, stack : Nat]
  /\ run \in [Runs -> AtWork \union {"deleting", "none"}]
  /\ thread \in {"idle", "created", "loop", "waiting"}

\* A task at work is the last one created, on the stack the Client keeps, and the
\* Client has its handle as soon as connect() has returned: connect() would not
\* create another.
TasksAreKnown ==
  \A i \in Runs : run[i] \in AtWork =>
    i = last /\ self.stack = i /\ (thread = "created" \/ self.task = i)

RingsAreOfLast == last > 0 => rx \subseteq {last} /\ tx \subseteq {last}

Connected == ConnectionTypes /\ TasksAreKnown /\ RingsAreOfLast

\* A connection that may still be made has a number in Runs.
LEMMA RunsHoldNext ==
  ASSUME kind \in {"shell", "files"}, last \in Nat, last < MaxConnects[kind]
  PROVE  last + 1 \in Runs
<1>1. MaxConnects["shell"] \in Nat /\ MaxConnects["files"] \in Nat
  BY ClientAssumption
<1>2. QED
  BY <1>1 DEF Runs, Most

LEMMA RunsArePositive == \A i \in Runs : i \in Nat /\ i > 0
<1>1. MaxConnects["shell"] \in Nat /\ MaxConnects["files"] \in Nat
  BY ClientAssumption
<1>2. QED
  BY <1>1 DEF Runs, Most

\* The steps of the task that keep its place in the Client: only its own place, the
\* Client's state and, at the end, its handle change.
TaskMoves(i) ==
  /\ \E at \in AtWork \union {"deleting", "none"} :
       /\ run' = [run EXCEPT ![i] = at]
       /\ run[i] \in AtWork \/ at \notin AtWork
       /\ \/ \E s \in States : self' = [self EXCEPT !.state = s]
          \/ self' = self
          \/ self' = [self EXCEPT !.task = 0] /\ at \notin AtWork /\ run[i] \in AtWork
  /\ UNCHANGED <<kind, last, thread>>

\* Every step of a task is of this form, and puts bytes of its own connection
\* into the ring, or takes some.
LEMMA TaskStepMoves ==
  ASSUME NEW i \in Runs, Connected, TaskStep(i)
  PROVE  /\ TaskMoves(i)
         /\ rx' \subseteq rx \union {last} /\ tx' \subseteq tx
<1> USE DEF Goto, End, MadeBy, NoBytes, NotTheThread, python, rings, rpc, TaskMoves, States, AtWork
<1>1. run[i] \in AtWork \/ run[i] \in {"deleting", "none"}
  BY DEF Connected, ConnectionTypes
<1>2. self = [self EXCEPT !.state = self.state] /\ self.state \in States
  BY DEF Connected, ConnectionTypes
<1>3. CASE Launch(i)
  BY <1>3 DEF Launch
<1>4. CASE Resolve(i)
  BY <1>4 DEF Resolve
<1>5. CASE AwaitConnection(i)
  BY <1>5 DEF AwaitConnection, Await
<1>6. CASE AwaitGreeting(i)
  BY <1>6 DEF AwaitGreeting, Await
<1>7. CASE NoticeStop(i)
  BY <1>7 DEF NoticeStop
<1>8. CASE GiveAnswer(i)
  BY <1>8 DEF GiveAnswer
<1>9. CASE Close(i)
  BY <1>9 DEF Close
<1>10. CASE ClearHandle(i)
  BY <1>10 DEF ClearHandle
<1>11. CASE Delete(i)
  BY <1>11 DEF Delete
<1>12. CASE ShakeHands(i)
  BY <1>12 DEF ShakeHands
<1>13. CASE Receive(i)
  <2>1. run[i] = "reading" /\ i = last
    BY <1>13 DEF Receive, Connected, TasksAreKnown
  <2>2. QED
    BY <1>13, <2>1 DEF Receive
<1>14. CASE Round(i) \/ TakeKeys(i) \/ SendKeys(i)
  BY <1>14 DEF Round, TakeKeys, SendKeys
<1>15. CASE ServerGone(i) \/ EndSession(i)
  BY <1>15 DEF ServerGone, EndSession
<1>16. CASE TakeRequest(i)
  BY <1>16 DEF TakeRequest
<1>17. CASE Process(i)
  BY <1>17 DEF Process
<1>18. QED
  BY <1>3, <1>4, <1>5, <1>6, <1>7, <1>8, <1>9, <1>10, <1>11, <1>12, <1>13, <1>14, <1>15,
     <1>16, <1>17 DEF TaskStep, TaskObliged

\* A step of that form keeps the tasks known.
LEMMA TaskKeepsConnected ==
  ASSUME NEW i \in Runs, Connected, TaskStep(i)
  PROVE  Connected'
<1>1. TaskMoves(i) /\ rx' \subseteq rx \union {last} /\ tx' \subseteq tx
  BY TaskStepMoves
<1>2. ConnectionTypes'
  BY <1>1 DEF TaskMoves, Connected, ConnectionTypes, States
<1>3. TasksAreKnown'
  BY <1>1 DEF TaskMoves, Connected, ConnectionTypes, TasksAreKnown
<1>4. RingsAreOfLast'
  BY <1>1 DEF TaskMoves, Connected, RingsAreOfLast
<1>5. QED
  BY <1>2, <1>3, <1>4 DEF Connected

\* connect() creates a task only when the one before it has cleared the handle.
LEMMA ConnectKeepsConnected ==
  ASSUME Connected, Connect
  PROVE  Connected'
<1>1. \A i \in Runs : run[i] \notin AtWork
  BY RunsArePositive DEF Connect, Calling, MayConnect, Connected, TasksAreKnown
<1>2. CASE last' = last + 1
  <2>1. last + 1 \in Runs /\ last + 1 \in Nat /\ last + 1 > 0
    BY RunsHoldNext DEF Connect, Connected, ConnectionTypes
  <2>2. /\ run' = [run EXCEPT ![last'] = "start"] /\ thread' = "created"
        /\ self' = [self EXCEPT !.state = "CONNECTING", !.stop = FALSE, !.stack = last']
        /\ rx' = {} /\ tx' = {} /\ kind' = kind
    BY <1>2, <2>1 DEF Connect, Connected, ConnectionTypes
  <2>3. ConnectionTypes'
    BY <1>2, <2>1, <2>2 DEF Connected, ConnectionTypes, States, AtWork
  <2>4. TasksAreKnown'
    BY <1>1, <1>2, <2>1, <2>2 DEF Connected, ConnectionTypes, TasksAreKnown
  <2>5. QED
    BY <2>2, <2>3, <2>4 DEF Connected, RingsAreOfLast
<1>3. CASE UNCHANGED <<last, thread, run>>
  <2>1. /\ rx' = {} /\ tx' = {} /\ kind' = kind
        /\ self' = [self EXCEPT !.state = "FAILED", !.stop = FALSE, !.stack = 0]
    BY <1>3 DEF Connect, Connected, ConnectionTypes
  <2>2. QED
    BY <1>1, <1>3, <2>1 DEF Connected, ConnectionTypes, States, TasksAreKnown, RingsAreOfLast
<1>4. QED
  BY <1>2, <1>3 DEF Connect

\* The other steps of the MicroPython thread do not touch the tasks.
LEMMA ThreadKeepsConnected ==
  ASSUME Connected,
         NoteTask \/ Disconnect \/ Drop \/ Collect \/ Type \/ Show
           \/ Begin \/ Seek \/ Return \/ Ask \/ TakeAnswer \/ TimeOut
  PROVE  Connected'
<1> USE DEF task, rings, rpc, python, Connected, ConnectionTypes, TasksAreKnown, RingsAreOfLast
<1>1. CASE NoteTask
  BY <1>1 DEF NoteTask
<1>2. CASE Disconnect
  BY <1>2 DEF Disconnect
<1>3. CASE Drop \/ Collect
  BY <1>3 DEF Drop, Collect
<1>4. CASE Type \/ Show
  BY <1>4 DEF Type, Show
<1>5. CASE Begin \/ Seek
  BY <1>5 DEF Begin, Seek, Calling
<1>6. CASE Return
  BY <1>6 DEF Return, Leave
<1>7. CASE Ask
  BY <1>7 DEF Ask, Leave
<1>8. CASE TakeAnswer
  BY <1>8 DEF TakeAnswer, Leave, ReadOn, WriteOn
<1>9. CASE TimeOut
  BY <1>9 DEF TimeOut, Leave
<1>10. QED
  BY <1>1, <1>2, <1>3, <1>4, <1>5, <1>6, <1>7, <1>8, <1>9

\* Connections stay apart, whatever the server, the program and the network do: the
\* inductive form of ConnectionsAreApart.
THEOREM ConnectedInvariance == SpecClient => []Connected
<1>1. InitClient => Connected
  BY ClientAssumption DEF InitClient, Connected, ConnectionTypes, TasksAreKnown, RingsAreOfLast, States, AtWork
<1>2. Connected /\ [NextClient]_rcvars => Connected'
  <2> SUFFICES ASSUME Connected, [NextClient]_rcvars PROVE Connected'
    OBVIOUS
  <2>1. CASE Connect
    BY <2>1, ConnectKeepsConnected
  <2>2. CASE NoteTask \/ Disconnect \/ Drop \/ Collect \/ Type \/ Show
               \/ Begin \/ Seek \/ Return \/ Ask \/ TakeAnswer \/ TimeOut
    BY <2>2, ThreadKeepsConnected
  <2>3. ASSUME NEW i \in Runs, TaskStep(i) PROVE Connected'
    BY <2>3, TaskKeepsConnected
  <2>4. CASE UNCHANGED rcvars
    BY <2>4 DEF rcvars, task, rings, Connected, ConnectionTypes, TasksAreKnown, RingsAreOfLast
  <2>5. QED
    BY <2>1, <2>2, <2>3, <2>4 DEF NextClient
<1>3. QED
  BY <1>1, <1>2, PTL DEF SpecClient

\* Connections of one Client do not meet (modssh.c:422-437): a task is alone with the
\* Client until it has cleared its handle, and the rings hold nothing of an earlier one.
THEOREM ConnectionsStayApart == SpecClient => []ConnectionsAreApart
<1>1. Connected => ConnectionsAreApart
  BY DEF Connected, TasksAreKnown, RingsAreOfLast, ConnectionsAreApart
<1>2. QED
  BY <1>1, ConnectedInvariance, PTL

-----------------------------------------------------------------------------
(* Requests.                                                               *)

HasRequest(i) == run[i] \in {"working", "answer"}

\* Until a request times out, it is in one place: behind request_sem, with the task,
\* or behind response_sem; the MicroPython thread waits for it meanwhile, and it is
\* the newest in whichever place it is.
OneOwner ==
  /\ requestSem \/ responseSem => thread = "waiting"
  /\ ~(requestSem /\ responseSem)
  /\ \A i \in Runs : HasRequest(i) =>
       thread = "waiting" /\ ~requestSem /\ ~responseSem /\ doing.id = calls
  /\ requestSem => req.id = calls
  /\ \A i \in Runs : run[i] = "answer" => ans.id = calls
  /\ responseSem => ans.id = calls

Owned ==
  /\ calls \in Nat /\ late \in Nat
  /\ requestSem \in BOOLEAN /\ responseSem \in BOOLEAN
  /\ late = 0 => OneOwner

\* What leaves the requests alone: the tasks that have one keep it, the others get none.
Quiet ==
  /\ UNCHANGED rpc
  /\ \A i \in Runs : {run[i], run'[i]} \intersect {"working", "answer"} # {} => run'[i] = run[i]

LEMMA QuietTask ==
  ASSUME NEW i \in Runs, Connected, TaskStep(i),
         ~TakeRequest(i), ~Process(i), ~GiveAnswer(i)
  PROVE  Quiet /\ UNCHANGED <<thread, python>>
<1> USE DEF Goto, End, MadeBy, NoBytes, NotTheThread, python, rings, rpc, Quiet, HasRequest, AtWork
<1>1. run \in [Runs -> AtWork \union {"deleting", "none"}]
  BY DEF Connected, ConnectionTypes
<1>2. CASE Launch(i) \/ Resolve(i)
  BY <1>2, <1>1 DEF Launch, Resolve
<1>3. CASE AwaitConnection(i) \/ AwaitGreeting(i) \/ NoticeStop(i)
  BY <1>3, <1>1 DEF AwaitConnection, AwaitGreeting, Await, NoticeStop
<1>4. CASE Close(i) \/ ClearHandle(i) \/ Delete(i)
  BY <1>4, <1>1 DEF Close, ClearHandle, Delete
<1>5. CASE ShakeHands(i) \/ ServerGone(i) \/ EndSession(i)
  BY <1>5, <1>1 DEF ShakeHands, ServerGone, EndSession
<1>6. CASE Round(i) \/ Receive(i) \/ TakeKeys(i) \/ SendKeys(i)
  BY <1>6, <1>1 DEF Round, Receive, TakeKeys, SendKeys
<1>7. QED
  BY <1>2, <1>3, <1>4, <1>5, <1>6 DEF TaskStep, TaskObliged

\* Making a connection, and what the program does with the rings.
LEMMA QuietThread ==
  ASSUME Connected,
         Connect \/ NoteTask \/ Disconnect \/ Drop \/ Collect \/ Type \/ Show
  PROVE  /\ Quiet /\ UNCHANGED python
         /\ thread' = thread \/ {thread, thread'} \subseteq {"idle", "created"}
<1> USE DEF task, rings, rpc, python, Quiet, HasRequest
<1>1. CASE Connect
  <2>1. \A i \in Runs : run[i] \notin AtWork
    BY <1>1, RunsArePositive DEF Connect, Calling, MayConnect, Connected, TasksAreKnown
  <2>2. UNCHANGED <<rpc, python>> /\ thread = "idle" /\ thread' \in {"idle", "created"}
    BY <1>1 DEF Connect, Calling
  <2>3. \A i \in Runs : run'[i] = run[i] \/ run'[i] = "start"
    BY <1>1 DEF Connect, Connected, ConnectionTypes
  <2>4. QED
    BY <2>1, <2>2, <2>3 DEF AtWork
<1>2. CASE NoteTask
  BY <1>2 DEF NoteTask
<1>3. CASE Disconnect \/ Drop \/ Collect
  BY <1>3 DEF Disconnect, Drop, Collect
<1>4. CASE Type \/ Show
  BY <1>4 DEF Type, Show
<1>5. QED
  BY <1>1, <1>2, <1>3, <1>4

LEMMA QuietKeepsOwned ==
  ASSUME Owned, Quiet,
         thread' = thread \/ {thread, thread'} \subseteq {"idle", "created"}
  PROVE  Owned'
<1>1. late = 0 => OneOwner'
  BY DEF Owned, OneOwner, HasRequest, Quiet, rpc
<1>2. QED
  BY <1>1 DEF Owned, Quiet, rpc

\* A task that has a request, or may take one, is alone.
LEMMA AloneWithRequest ==
  ASSUME Connected, NEW i \in Runs, run[i] \in AtWork, NEW j \in Runs, HasRequest(j)
  PROVE  j = i
BY DEF Connected, TasksAreKnown, HasRequest, AtWork

LEMMA TakeRequestKeepsOwned ==
  ASSUME Connected, Owned, NEW i \in Runs, TakeRequest(i)
  PROVE  Owned'
<1>1. run[i] = "serving" /\ requestSem /\ requestSem' = FALSE /\ doing' = req
  BY DEF TakeRequest
<1>2. run' = [run EXCEPT ![i] = "working"] /\ UNCHANGED <<responseSem, ans, calls, late, thread>>
  BY DEF TakeRequest, Goto, NotTheThread
<1>3. \A j \in Runs : ~HasRequest(j)
  BY <1>1, AloneWithRequest DEF HasRequest, AtWork
<1>4. \A j \in Runs : run'[j] # "answer"
  BY <1>2, <1>3 DEF HasRequest, Connected, ConnectionTypes
<1>5. ASSUME late = 0 PROVE thread = "waiting" /\ ~responseSem /\ req.id = calls
  BY <1>1, <1>5 DEF Owned, OneOwner
<1>6. late = 0 => OneOwner'
  BY <1>1, <1>2, <1>4, <1>5 DEF OneOwner, HasRequest
<1>7. QED
  BY <1>1, <1>2, <1>6 DEF Owned

LEMMA ProcessKeepsOwned ==
  ASSUME Connected, Owned, NEW i \in Runs, Process(i)
  PROVE  Owned'
<1>1. run[i] = "working" /\ ans'.id = doing.id
  BY DEF Process
<1>2. /\ run' = [run EXCEPT ![i] = "answer"]
      /\ UNCHANGED <<requestSem, responseSem, req, doing, calls, late, thread>>
  BY DEF Process, Goto, NotTheThread
<1>3. QED
  BY <1>1, <1>2 DEF Owned, OneOwner, HasRequest, Connected, ConnectionTypes

LEMMA GiveAnswerKeepsOwned ==
  ASSUME Connected, Owned, NEW i \in Runs, GiveAnswer(i)
  PROVE  Owned'
<1>1. run[i] = "answer" /\ responseSem'
  BY DEF GiveAnswer
<1>2. run' = [run EXCEPT ![i] = "serving"] /\ UNCHANGED <<requestSem, req, ans, calls, late, thread>>
  BY DEF GiveAnswer, Goto, NotTheThread
<1>3. \A j \in Runs : run'[j] \in {"working", "answer"} => FALSE
  BY <1>1, <1>2, AloneWithRequest DEF HasRequest, AtWork, Connected, ConnectionTypes
<1>4. QED
  BY <1>1, <1>2, <1>3 DEF Owned, OneOwner, HasRequest, Connected, ConnectionTypes

\* The methods, on the MicroPython thread.
LEMMA MethodKeepsOwned ==
  ASSUME Owned, Begin \/ Seek \/ Return \/ Ask \/ TakeAnswer \/ TimeOut
  PROVE  Owned'
<1> USE DEF Owned, OneOwner, HasRequest, rpc, task, rings, python
<1>1. CASE Begin \/ Seek
  BY <1>1 DEF Begin, Seek, Calling
<1>2. CASE Return
  BY <1>2 DEF Return, Leave
<1>3. CASE Ask
  <2>1. /\ calls' = calls + 1 /\ req'.id = calls' /\ thread = "loop"
        /\ UNCHANGED <<run, responseSem, ans, doing, late>>
    BY <1>3 DEF Ask, Piece
  <2>2. requestSem' = requestSem \/ (requestSem' = TRUE /\ thread' = "waiting")
    BY <1>3 DEF Ask
  <2>3. ASSUME late = 0
        PROVE  ~requestSem /\ ~responseSem /\ \A i \in Runs : run[i] \notin {"working", "answer"}
    BY <2>1, <2>3
  <2>4. ASSUME late = 0 PROVE OneOwner'
    BY <2>1, <2>2, <2>3, <2>4
  <2>5. requestSem' \in BOOLEAN /\ responseSem' \in BOOLEAN
    BY <2>1, <2>2
  <2>6. calls' \in Nat /\ late' \in Nat
    BY <2>1
  <2> QED
    BY <2>1, <2>4, <2>5, <2>6
<1>4. CASE TakeAnswer
  <2>1. /\ responseSem /\ responseSem' = FALSE
        /\ UNCHANGED <<run, requestSem, req, ans, doing, calls, late>>
    BY <1>4 DEF TakeAnswer
  <2>2. QED
    BY <2>1
<1>5. CASE TimeOut
  <2>1. late' = late + 1 /\ UNCHANGED <<requestSem, responseSem, calls>>
    BY <1>5 DEF TimeOut
  <2>2. QED
    BY <2>1
<1>6. QED
  BY <1>1, <1>2, <1>3, <1>4, <1>5

\* The inductive form of RequestHasOneOwner.
THEOREM OwnedInvariance == SpecClient => []Owned
<1>1. InitClient => Owned
  <2> SUFFICES ASSUME InitClient PROVE Owned
    OBVIOUS
  <2> QED BY DEF InitClient, Owned, OneOwner, HasRequest
<1>2. Connected /\ Owned /\ [NextClient]_rcvars => Owned'
  <2> SUFFICES ASSUME Connected, Owned, [NextClient]_rcvars PROVE Owned'
    OBVIOUS
  <2>1. CASE Connect \/ NoteTask \/ Disconnect \/ Drop \/ Collect \/ Type \/ Show
    BY <2>1, QuietThread, QuietKeepsOwned
  <2>2. CASE Begin \/ Seek \/ Return \/ Ask \/ TakeAnswer \/ TimeOut
    BY <2>2, MethodKeepsOwned
  <2>3. ASSUME NEW i \in Runs, TaskStep(i) PROVE Owned'
    <3>1. CASE TakeRequest(i) \/ Process(i) \/ GiveAnswer(i)
      BY <3>1, TakeRequestKeepsOwned, ProcessKeepsOwned, GiveAnswerKeepsOwned
    <3>2. CASE ~(TakeRequest(i) \/ Process(i) \/ GiveAnswer(i))
      BY <2>3, <3>2, QuietTask, QuietKeepsOwned
    <3>3. QED
      BY <3>1, <3>2
  <2>4. CASE UNCHANGED rcvars
    BY <2>4 DEF rcvars, task, rpc, Owned, OneOwner, HasRequest
  <2>5. QED
    BY <2>1, <2>2, <2>3, <2>4 DEF NextClient
<1>3. QED
  BY <1>1, <1>2, ConnectedInvariance, PTL DEF SpecClient

\* "Ownership of the struct is always exclusively on one side" (modsftp.c:23-25), until
\* a request times out.
THEOREM RequestsHaveOneOwner == SpecClient => []RequestHasOneOwner
<1>1. Owned => RequestHasOneOwner
  BY DEF Owned, OneOwner, HasRequest, RequestHasOneOwner
<1>2. QED
  BY <1>1, OwnedInvariance, PTL

-----------------------------------------------------------------------------
(* Transfers.                                                              *)

\* What files and buffers are made of, and what fills the gap a write may leave.
Units == {"zero"} \union UNION {{b[i] : i \in 1..Len(b)} : b \in Files \union Buffers}
Ops == {"none", "other", "open", "close", "read", "write"}

Progs == [op : Ops, mode : {"r", "w"}, data : Seq(Units), start : Nat, want : Int, left : Int,
          count : Nat, end : {"no", "returned", "raised"}]

TransferTypes ==
  /\ file \in [open : BOOLEAN, mode : {"r", "w"}, pos : Nat]
  /\ prog \in Progs
  /\ req \in [id : Nat, op : Ops, mode : {"r", "w"}, pos : Nat, data : Seq(Units)]
  /\ doing \in [id : Nat, op : Ops, mode : {"r", "w"}, pos : Nat, data : Seq(Units)]
  /\ ans \in [id : Nat, ok : BOOLEAN, data : Seq(Units), n : Nat]
  /\ body \in Seq(Units)

\* From pos on, b has what data has from from on.
Stored(b, pos, data, from, n) ==
  /\ pos + n <= Len(b)
  /\ \A j \in 1..n : b[pos + j] = data[from + j]

\* The method under way, or the last one, has got this far, and the file is at the end of it.
SoFar ==
  /\ file.open => file.pos <= Len(body)
  /\ prog.op = "open" => ~file.open
  /\ prog.op = "read" =>
       /\ file.open /\ file.pos = prog.start + Len(prog.data)
       /\ Stored(body, prog.start, prog.data, 0, Len(prog.data))
       /\ prog.left < 0 \/ prog.left = prog.want - Len(prog.data)
  /\ prog.op = "write" =>
       /\ file.open /\ file.pos = prog.start + prog.count
       /\ prog.count <= Len(prog.data)
       /\ Stored(body, prog.start, prog.data, 0, prog.count)

Ended ==
  /\ thread \in {"loop", "waiting"} => prog.end = "no"
  /\ thread = "waiting" /\ prog.op = "read" => prog.left # 0
  /\ prog.end = "returned" /\ prog.op = "read" => prog.left = 0 \/ file.pos = Len(body)
  /\ prog.end = "returned" /\ prog.op = "write" => prog.count = Len(prog.data)

\* A request is for the piece that comes next.
IsNext(r) ==
  /\ r.op = prog.op /\ r.pos = file.pos
  /\ prog.op = "write" => r.data = Slice(prog.data, prog.count, Scratch)

Requested ==
  /\ requestSem => IsNext(req)
  /\ \A i \in Runs : run[i] = "working" => IsNext(doing)

\* An answer tells what was done of that piece.
Told ==
  /\ prog.op = "read" =>
       /\ Stored(body, file.pos, ans.data, 0, Len(ans.data))
       /\ ans.data = << >> => file.pos = Len(body)
  /\ prog.op = "write" =>
       /\ prog.count + ans.n <= Len(prog.data)
       /\ Stored(body, file.pos, prog.data, prog.count, ans.n)
Answered == responseSem \/ (\E i \in Runs : run[i] = "answer") => (ans.ok => Told)

Whole == late = 0 => TransferTypes /\ SoFar /\ Ended /\ Requested /\ Answered

LEMMA UnitSequences == \A b \in Files \union Buffers : b \in Seq(Units)
<1> SUFFICES ASSUME NEW b \in Files \union Buffers PROVE b \in Seq(Units)
  OBVIOUS
<1>1. b \in Seq({b[i] : i \in 1..Len(b)})
  BY ClientAssumption
<1>2. Len(b) \in Nat /\ b = [i \in 1..Len(b) |-> b[i]]
  BY <1>1
<1>3. \A i \in 1..Len(b) : b[i] \in Units
  BY DEF Units
<1>4. QED
  BY <1>2, <1>3

\* What d is when it is up to n units of b from pos on.
IsSlice(d, b, pos, n) ==
  /\ d \in Seq(Units)
  /\ pos + Len(d) <= Most(pos, Len(b)) /\ Len(d) <= n
  /\ \A j \in 1..Len(d) : d[j] = b[pos + j]
  /\ n > 0 /\ d = << >> => pos >= Len(b)
  /\ pos + n <= Len(b) => Len(d) = n

\* A slice holds what is there from pos on, n units at most.
LEMMA SliceFacts ==
  ASSUME NEW b \in Seq(Units), NEW pos \in Nat, NEW n \in Nat
  PROVE  IsSlice(Slice(b, pos, n), b, pos, n)
<1> SUFFICES /\ Slice(b, pos, n) \in Seq(Units)
             /\ pos + Len(Slice(b, pos, n)) <= Most(pos, Len(b)) /\ Len(Slice(b, pos, n)) <= n
             /\ \A j \in 1..Len(Slice(b, pos, n)) : Slice(b, pos, n)[j] = b[pos + j]
             /\ n > 0 /\ Slice(b, pos, n) = << >> => pos >= Len(b)
             /\ pos + n <= Len(b) => Len(Slice(b, pos, n)) = n
  BY Zenon DEF IsSlice
<1> DEFINE high == Least(pos + n, Len(b))
<1>1. Len(b) \in Nat /\ high \in Nat /\ high <= Len(b) /\ high <= pos + n
  BY DEF Least
<1>2. high = pos + n \/ high = Len(b)
  BY DEF Least
<1>3. CASE pos >= Len(b)
  <2>1. Slice(b, pos, n) = << >>
    BY <1>1, <1>3 DEF Slice
  <2>2. QED
    BY <1>1, <1>3, <2>1 DEF Most
<1>4. CASE pos < Len(b)
  <2>1. /\ Slice(b, pos, n) \in Seq(Units)
        /\ Len(Slice(b, pos, n)) = IF pos + 1 <= high THEN high - pos ELSE 0
        /\ \A j \in 1..Len(Slice(b, pos, n)) : Slice(b, pos, n)[j] = b[pos + j]
    <3> HIDE DEF high
    <3> DEFINE part == SubSeq(b, pos + 1, high)
    <3>1. pos + 1 \in Int /\ high \in Int /\ \A i \in (pos + 1)..high : b[i] \in Units
      BY <1>1
    <3>2. part \in Seq(Units) /\ Len(part) = IF pos + 1 <= high THEN high - pos ELSE 0
      BY <1>1, <3>1, SubSeqProperties
    <3>3. \A j \in 1..(high - (pos + 1) + 1) : part[j] = b[(pos + 1) + j - 1]
      BY <3>1, SubSeqProperties
    <3>4. \A j \in 1..Len(part) : j \in 1..(high - (pos + 1) + 1) /\ (pos + 1) + j - 1 = pos + j
      BY <1>1, <3>2
    <3>5. \A j \in 1..Len(part) : part[j] = b[pos + j]
      BY <3>3, <3>4
    <3>6. QED
      BY <3>2, <3>5 DEF Slice, high
  <2> HIDE DEF high
  <2>2. QED
    BY <1>1, <1>2, <1>4, <2>1 DEF Most
<1>5. QED
  BY <1>1, <1>3, <1>4

\* So a slice is what is stored.
LEMMA SliceIsStored ==
  ASSUME NEW b \in Seq(Units), NEW d \in Seq(Units), NEW pos \in Nat, NEW n \in 0..Len(d),
         Stored(b, pos, d, 0, n)
  PROVE  Slice(b, pos, n) = SubSeq(d, 1, n)
<1> DEFINE s == Slice(b, pos, n)
           t == SubSeq(d, 1, n)
<1>1. n \in Nat /\ pos + n <= Len(b)
  BY DEF Stored
<1>2. \A j \in 1..n : b[pos + j] = d[j]
  BY DEF Stored
<1>3. s \in Seq(Units) /\ Len(s) = n /\ \A j \in 1..n : s[j] = b[pos + j]
  <2>1. IsSlice(s, b, pos, n)
    BY <1>1, SliceFacts
  <2> HIDE DEF s
  <2>2. QED
    BY <1>1, <2>1 DEF IsSlice
<1>4. t \in Seq(Units) /\ Len(t) = n /\ \A j \in 1..n : t[j] = d[j]
  BY SubSeqProperties
<1> HIDE DEF s, t
<1>5. s = t
  BY <1>2, <1>3, <1>4, SeqEqual
<1>6. QED
  BY <1>5 DEF s, t

\* What new is when d has been written into b at pos.
IsWritten(new, b, pos, d) ==
  /\ new \in Seq(Units) /\ Len(new) = Most(Len(b), pos + Len(d))
  /\ \A j \in 1..Len(d) : new[pos + j] = d[j]
  /\ \A j \in 1..pos : j <= Len(b) => new[j] = b[j]

\* Overwriting changes nothing before pos.
LEMMA OverwriteFacts ==
  ASSUME NEW b \in Seq(Units), NEW d \in Seq(Units), NEW pos \in Nat
  PROVE  IsWritten(Overwrite(b, pos, d), b, pos, d)
<1> SUFFICES /\ Overwrite(b, pos, d) \in Seq(Units)
             /\ Len(Overwrite(b, pos, d)) = Most(Len(b), pos + Len(d))
             /\ \A j \in 1..Len(d) : Overwrite(b, pos, d)[pos + j] = d[j]
             /\ \A j \in 1..pos : j <= Len(b) => Overwrite(b, pos, d)[j] = b[j]
  BY Zenon DEF IsWritten
<1> DEFINE top == Most(Len(b), pos + Len(d))
           at(j) == IF j \in (pos + 1)..(pos + Len(d)) THEN d[j - pos] ELSE IF j <= Len(b) THEN b[j] ELSE "zero"
<1>1. Len(b) \in Nat /\ Len(d) \in Nat /\ top \in Nat /\ top >= Len(b) /\ top >= pos + Len(d)
  BY DEF Most
<1>2. \A j \in 1..top : at(j) \in Units
  <2>1. "zero" \in Units
    BY DEF Units
  <2>2. QED
    BY <1>1, <2>1
<1>3. Overwrite(b, pos, d) = [j \in 1..top |-> at(j)]
  BY DEF Overwrite
<1>4. \A j \in 1..Len(d) : pos + j \in 1..top /\ at(pos + j) = d[j]
  BY <1>1
<1>5. \A j \in 1..pos : j <= Len(b) => j \in 1..top /\ at(j) = b[j]
  BY <1>1
<1> HIDE DEF at
<1>6. Overwrite(b, pos, d) \in Seq(Units) /\ Len(Overwrite(b, pos, d)) = top
  <2> HIDE DEF top
  <2>1. QED
    BY <1>1, <1>2, <1>3
<1>7. \A j \in 1..top : Overwrite(b, pos, d)[j] = at(j)
  BY <1>3
<1> HIDE DEF top
<1>8. QED
  BY <1>4, <1>5, <1>6, <1>7 DEF top

\* Nobody has the request.
NoneAsked ==
  /\ ~requestSem /\ ~responseSem
  /\ \A i \in Runs : run[i] \notin {"working", "answer"}

LEMMA IdleAsksNothing ==
  ASSUME Owned, late = 0, thread # "waiting"
  PROVE  NoneAsked
BY DEF Owned, OneOwner, HasRequest, NoneAsked

LEMMA AnsweredAsksNothing ==
  ASSUME Owned, late = 0, responseSem
  PROVE  ~requestSem /\ \A i \in Runs : run[i] \notin {"working", "answer"}
BY DEF Owned, OneOwner, HasRequest

\* Then nothing need be known of a request or an answer.
LEMMA NoneAskedIsEnough ==
  ASSUME NoneAsked', TransferTypes', SoFar', Ended'
  PROVE  Whole'
<1>1. Requested'
  BY DEF NoneAsked, Requested
<1>2. Answered'
  BY DEF NoneAsked, Answered
<1>3. QED
  BY <1>1, <1>2 DEF Whole

LEMMA QuietKeepsWhole ==
  ASSUME Whole, Quiet, UNCHANGED python,
         thread' = thread \/ {thread, thread'} \subseteq {"idle", "created"}
  PROVE  Whole'
<1> USE DEF rpc, python, Quiet
<1>1. TransferTypes => TransferTypes'
  BY DEF TransferTypes
<1>2. SoFar = SoFar'
  BY DEF SoFar, Stored
<1>3. Ended => Ended'
  BY DEF Ended
<1>4. Requested => Requested'
  BY DEF Requested, IsNext
<1>5. Answered => Answered'
  BY DEF Answered, Told, Stored
<1>6. QED
  BY <1>1, <1>2, <1>3, <1>4, <1>5 DEF Whole

\* A piece of what is to be written is a sequence of units.
LEMMA PieceType ==
  ASSUME TransferTypes
  PROVE  Slice(prog.data, prog.count, Scratch) \in Seq(Units)
<1>1. prog.data \in Seq(Units) /\ prog.count \in Nat /\ Scratch \in Nat
  BY ClientAssumption DEF TransferTypes, Progs
<1>2. QED
  BY <1>1, SliceFacts DEF IsSlice

LEMMA TakeRequestKeepsWhole ==
  ASSUME Connected, Owned, Whole, NEW i \in Runs, TakeRequest(i)
  PROVE  Whole'
<1>1. run[i] = "serving" /\ requestSem /\ requestSem' = FALSE /\ doing' = req
  BY DEF TakeRequest
<1>2. /\ run' = [run EXCEPT ![i] = "working"]
      /\ UNCHANGED <<responseSem, req, ans, body, late, thread, prog, file>>
  BY DEF TakeRequest, Goto, NotTheThread, python
<1>3. TransferTypes => TransferTypes'
  BY <1>1, <1>2 DEF TransferTypes
<1>4. \A j \in Runs : run'[j] = "answer" => run[j] = "answer"
  BY <1>2 DEF Connected, ConnectionTypes
<1>5. SoFar = SoFar' /\ Ended = Ended'
  BY <1>2 DEF SoFar, Ended, Stored
<1>6. Answered => Answered'
  BY <1>2, <1>4 DEF Answered, Told, Stored
<1>7. Requested => Requested'
  BY <1>1, <1>2 DEF Requested, IsNext
<1>8. QED
  BY <1>2, <1>3, <1>5, <1>6, <1>7 DEF Whole

LEMMA GiveAnswerKeepsWhole ==
  ASSUME Connected, Owned, Whole, NEW i \in Runs, GiveAnswer(i)
  PROVE  Whole'
<1>1. run[i] = "answer" /\ responseSem' = TRUE /\ doing' = NoRequest
  BY DEF GiveAnswer
<1>2. /\ run' = [run EXCEPT ![i] = "serving"]
      /\ UNCHANGED <<requestSem, req, ans, body, late, thread, prog, file>>
  BY DEF GiveAnswer, Goto, NotTheThread, python
<1>3. TransferTypes => TransferTypes'
  BY <1>1, <1>2 DEF TransferTypes, NoRequest, Ops
<1>4. \A j \in Runs : run'[j] # "working"
  BY <1>1, <1>2, AloneWithRequest DEF HasRequest, AtWork, Connected, ConnectionTypes
<1>5. SoFar = SoFar' /\ Ended = Ended'
  BY <1>2 DEF SoFar, Ended, Stored
<1>6. Answered => Answered'
  BY <1>1, <1>2 DEF Answered, Told, Stored
<1>7. Requested => Requested'
  BY <1>2, <1>4 DEF Requested, IsNext
<1>8. QED
  BY <1>2, <1>3, <1>5, <1>6, <1>7 DEF Whole

\* A slice of the file from a place in it on is stored there, and is empty only at the end.
LEMMA ReadPiece ==
  ASSUME NEW b \in Seq(Units), NEW pos \in Nat, NEW n \in Nat, pos <= Len(b), n > 0,
         NEW d, d = Slice(b, pos, n)
  PROVE  /\ d \in Seq(Units) /\ Stored(b, pos, d, 0, Len(d))
         /\ d = << >> => pos = Len(b)
<1>0. IsSlice(d, b, pos, n)
  BY SliceFacts
<1>1. d \in Seq(Units)
  BY <1>0 DEF IsSlice
<1>2. pos + Len(d) <= Most(pos, Len(b))
  BY <1>0 DEF IsSlice
<1>3. \A j \in 1..Len(d) : d[j] = b[pos + j]
  BY <1>0 DEF IsSlice
<1>4. d = << >> => pos >= Len(b)
  BY <1>0 DEF IsSlice
<1>5. Len(b) \in Nat /\ Len(d) \in Nat
  BY <1>1
<1>6. \A j \in 1..Len(d) : 0 + j = j
  BY <1>5
<1>7. Stored(b, pos, d, 0, Len(d))
  BY <1>2, <1>3, <1>5, <1>6 DEF Most, Stored
<1>8. QED
  BY <1>1, <1>4, <1>5, <1>7

\* The beginning of a piece of what is given is stored where it is written.
LEMMA WrittenIsStored ==
  ASSUME NEW b \in Seq(Units), NEW given \in Seq(Units), NEW pos \in Nat, NEW count \in Nat,
         NEW n \in Nat, count <= Len(given), NEW k \in 1..Len(Slice(given, count, n))
  PROVE  /\ SubSeq(Slice(given, count, n), 1, k) \in Seq(Units) /\ count + k <= Len(given)
         /\ Stored(Overwrite(b, pos, SubSeq(Slice(given, count, n), 1, k)), pos, given, count, k)
<1> DEFINE piece == Slice(given, count, n)
           d == SubSeq(piece, 1, k)
           new == Overwrite(b, pos, d)
<1>0. IsSlice(piece, given, count, n)
  BY SliceFacts
<1> HIDE DEF piece
<1>1. piece \in Seq(Units)
  BY <1>0 DEF IsSlice
<1>2. count + Len(piece) <= Most(count, Len(given))
  BY <1>0 DEF IsSlice
<1>3. \A j \in 1..Len(piece) : piece[j] = given[count + j]
  BY <1>0 DEF IsSlice
<1>4. /\ Len(b) \in Nat /\ Len(given) \in Nat /\ Len(piece) \in Nat
      /\ k \in Nat /\ k <= Len(piece) /\ k \in 1..Len(piece)
  <2>1. k \in 1..Len(piece)
    BY DEF piece
  <2>2. QED
    BY <1>1, <2>1
<1>5. d \in Seq(Units) /\ Len(d) = k /\ \A j \in 1..k : d[j] = piece[j]
  BY <1>1, <1>4, SubSeqProperties
<1> HIDE DEF d
<1>6. d \in Seq(Units)
  BY <1>5
<1>7. IsWritten(new, b, pos, d)
  BY <1>6, OverwriteFacts
<1> HIDE DEF new
<1>8. Len(new) = Most(Len(b), pos + Len(d)) /\ new \in Seq(Units)
  BY <1>7 DEF IsWritten
<1>9. \A j \in 1..Len(d) : new[pos + j] = d[j]
  BY <1>7 DEF IsWritten
<1>10. ASSUME NEW j \in 1..k PROVE new[pos + j] = given[count + j]
  <2>1. j \in 1..Len(d) /\ j \in 1..Len(piece)
    BY <1>4, <1>5
  <2>2. new[pos + j] = d[j] /\ d[j] = piece[j] /\ piece[j] = given[count + j]
    BY <1>3, <1>5, <1>9, <2>1
  <2>3. QED
    BY <2>2
<1>11. pos + k <= Len(new) /\ count + k <= Len(given)
  BY <1>2, <1>4, <1>5, <1>8 DEF Most
<1>12. Stored(new, pos, given, count, k)
  BY <1>10, <1>11 DEF Stored
<1>13. QED
  BY <1>6, <1>11, <1>12 DEF new, d, piece

\* What was stored before it stays.
LEMMA WritingKeepsStored ==
  ASSUME NEW b \in Seq(Units), NEW d \in Seq(Units), NEW pos \in Nat, pos <= Len(b),
         NEW start \in Nat, NEW count \in Nat, start + count <= pos,
         NEW given, Stored(b, start, given, 0, count)
  PROVE  /\ Overwrite(b, pos, d) \in Seq(Units) /\ pos <= Len(Overwrite(b, pos, d))
         /\ Stored(Overwrite(b, pos, d), start, given, 0, count)
<1> DEFINE new == Overwrite(b, pos, d)
<1>0. IsWritten(new, b, pos, d)
  BY OverwriteFacts
<1> HIDE DEF new
<1>1. new \in Seq(Units)
  BY <1>0 DEF IsWritten
<1>2. Len(new) = Most(Len(b), pos + Len(d))
  BY <1>0 DEF IsWritten
<1>3. \A j \in 1..pos : j <= Len(b) => new[j] = b[j]
  BY <1>0 DEF IsWritten
<1>4. Len(b) \in Nat /\ Len(d) \in Nat
  OBVIOUS
<1>5. ASSUME NEW j \in 1..count PROVE new[start + j] = given[0 + j]
  <2>1. start + j \in 1..pos /\ start + j <= Len(b)
    BY <1>4
  <2>2. new[start + j] = b[start + j]
    BY <1>3, <2>1
  <2>3. b[start + j] = given[0 + j]
    BY DEF Stored
  <2>4. QED
    BY <2>2, <2>3
<1>6. pos <= Len(new) /\ start + count <= Len(new)
  BY <1>1, <1>2, <1>4 DEF Most
<1>7. Stored(new, start, given, 0, count)
  BY <1>5, <1>6 DEF Stored
<1>8. QED
  BY <1>1, <1>6, <1>7 DEF new

\* What the server has read is stored where it was asked for.
LEMMA ReadTells ==
  ASSUME TransferTypes, SoFar, NEW k \in 1..Scratch, prog.op = "read", body' = body,
         UNCHANGED <<prog, file>>, ans'.data = Slice(body, file.pos, k)
  PROVE  Told' /\ ans'.data \in Seq(Units)
<1>1. body \in Seq(Units) /\ file.pos \in Nat /\ k \in Nat /\ k > 0
  BY ClientAssumption DEF TransferTypes
<1>2. file.pos <= Len(body)
  BY DEF SoFar
<1>3. /\ ans'.data \in Seq(Units) /\ Stored(body, file.pos, ans'.data, 0, Len(ans'.data))
      /\ ans'.data = << >> => file.pos = Len(body)
  BY <1>1, <1>2, ReadPiece
<1>4. QED
  BY <1>3 DEF Told

\* What the server has written is stored behind what was written before, which stays.
LEMMA WriteTells ==
  ASSUME TransferTypes, SoFar, prog.op = "write",
         NEW k \in 1..Len(Slice(prog.data, prog.count, Scratch)),
         body' = Overwrite(body, file.pos, SubSeq(Slice(prog.data, prog.count, Scratch), 1, k)),
         UNCHANGED <<prog, file>>, ans'.n = k
  PROVE  Told' /\ SoFar' /\ body' \in Seq(Units)
<1>1. body \in Seq(Units) /\ prog.data \in Seq(Units) /\ Scratch \in Nat
  BY ClientAssumption DEF TransferTypes, Progs
<1>2. file.pos \in Nat /\ prog.count \in Nat /\ prog.start \in Nat
  BY DEF TransferTypes, Progs
<1>3. /\ file.open /\ file.pos = prog.start + prog.count /\ file.pos <= Len(body)
      /\ prog.count <= Len(prog.data) /\ Stored(body, prog.start, prog.data, 0, prog.count)
  BY DEF SoFar
<1> DEFINE d == SubSeq(Slice(prog.data, prog.count, Scratch), 1, k)
<1>4. body' = Overwrite(body, file.pos, d)
  OBVIOUS
<1>5. /\ d \in Seq(Units) /\ prog.count + k <= Len(prog.data)
      /\ Stored(Overwrite(body, file.pos, d), file.pos, prog.data, prog.count, k)
  BY <1>1, <1>2, <1>3, WrittenIsStored
<1> HIDE DEF d
<1>6. /\ body' \in Seq(Units) /\ file.pos <= Len(body')
      /\ Stored(body', prog.start, prog.data, 0, prog.count)
  <2>1. prog.start + prog.count <= file.pos
    BY <1>2, <1>3
  <2>2. QED
    BY <1>1, <1>2, <1>3, <1>4, <1>5, <2>1, WritingKeepsStored
<1>7. Told'
  BY <1>4, <1>5 DEF Told
<1>8. SoFar'
  BY <1>3, <1>6 DEF SoFar
<1>9. QED
  BY <1>6, <1>7, <1>8

\* Whatever the server has done with the request, the answer tells.
LEMMA ProcessTells ==
  ASSUME TransferTypes, SoFar, IsNext(doing), NEW i \in Runs, Process(i)
  PROVE  /\ SoFar' /\ body' \in Seq(Units) /\ ans'.n \in Nat /\ ans'.data \in Seq(Units)
         /\ ans'.ok \in BOOLEAN /\ (ans'.ok => Told')
<1>1. PICK s \in Served \union {Refused} :
        /\ ans' = [id |-> doing.id, ok |-> s.ok, data |-> s.data, n |-> s.n]
        /\ body' = s.body
  BY DEF Process
<1>2. UNCHANGED <<prog, file, doing>>
  BY DEF Process, NotTheThread, python
<1>3. << >> \in Seq(Units)
  OBVIOUS
<1>4. doing.op = prog.op /\ doing.pos = file.pos /\ body \in Seq(Units)
  BY DEF IsNext, TransferTypes
<1>5. CASE s = Refused
  <2>1. body' = body /\ ans'.ok = FALSE /\ ans'.data = << >> /\ ans'.n = 0
    BY <1>1, <1>5 DEF Refused
  <2>2. SoFar'
    BY <1>2, <2>1 DEF SoFar, Stored
  <2>3. body' \in Seq(Units) /\ ans'.n \in Nat /\ ans'.data \in Seq(Units)
    BY <1>3, <1>4, <2>1
  <2>4. QED
    BY <2>1, <2>2, <2>3
<1>6. CASE s \in Served /\ doing.op = "read"
  <2>1. PICK k \in 1..Scratch :
          s = [ok |-> TRUE, data |-> Slice(body, file.pos, k), n |-> 0, body |-> body]
    BY <1>4, <1>6 DEF Served
  <2>2. /\ ans' = [id |-> doing.id, ok |-> TRUE, data |-> Slice(body, file.pos, k), n |-> 0]
        /\ body' = body
    BY <1>1, <2>1
  <2>3. Told' /\ ans'.data \in Seq(Units)
    <3>1. ans'.data = Slice(body, file.pos, k) /\ prog.op = "read"
      BY <1>4, <1>6, <2>2
    <3>2. QED
      BY <1>2, <2>2, <3>1, ReadTells
  <2>4. SoFar'
    BY <1>2, <2>2 DEF SoFar, Stored
  <2>5. QED
    BY <1>4, <2>2, <2>3, <2>4
<1>7. CASE s \in Served /\ doing.op = "write"
  <2>1. doing.data = Slice(prog.data, prog.count, Scratch)
    BY <1>4, <1>7 DEF IsNext
  <2>2. PICK k \in 1..Len(Slice(prog.data, prog.count, Scratch)) :
          s = [ok |-> TRUE, data |-> << >>, n |-> k,
               body |-> Overwrite(body, file.pos, SubSeq(Slice(prog.data, prog.count, Scratch), 1, k))]
    BY <1>4, <1>7, <2>1 DEF Served
  <2>3. /\ ans' = [id |-> doing.id, ok |-> TRUE, data |-> << >>, n |-> k]
        /\ body' = Overwrite(body, file.pos, SubSeq(Slice(prog.data, prog.count, Scratch), 1, k))
    BY <1>1, <2>2
  <2>4. Told' /\ SoFar' /\ body' \in Seq(Units)
    <3>1. ans'.n = k /\ prog.op = "write"
      BY <1>4, <1>7, <2>3
    <3>2. QED
      BY <1>2, <2>3, <3>1, WriteTells
  <2>5. QED
    BY <1>3, <2>3, <2>4
<1>8. CASE s \in Served /\ doing.op \notin {"read", "write"}
  <2>1. ans'.ok = TRUE /\ ans'.data = << >> /\ ans'.n = 0
    BY <1>1, <1>8 DEF Served
  <2>2. body' = body \/ (doing.op = "open" /\ body' = << >>)
    BY <1>1, <1>8 DEF Served
  <2>3. Told'
    BY <1>2, <1>4, <1>8 DEF Told
  <2>4. SoFar'
    BY <1>2, <1>4, <1>8, <2>2 DEF SoFar, Stored
  <2>5. QED
    <3>1. body' \in Seq(Units)
      BY <1>3, <1>4, <2>2
    <3>2. ans'.n \in Nat
      BY <2>1
    <3>3. ans'.data \in Seq(Units)
      BY <1>3, <2>1
    <3>4. ans'.ok \in BOOLEAN
      BY <2>1
    <3>5. QED
      BY <2>3, <2>4, <3>1, <3>2, <3>3, <3>4
<1>9. QED
  BY <1>5, <1>6, <1>7, <1>8

LEMMA ProcessKeepsWhole ==
  ASSUME Connected, Owned, Whole, NEW i \in Runs, Process(i)
  PROVE  Whole'
<1>1. run[i] = "working" /\ ans'.id = doing.id /\ ans' = [id |-> ans'.id, ok |-> ans'.ok, data |-> ans'.data, n |-> ans'.n]
  BY DEF Process
<1>2. /\ run' = [run EXCEPT ![i] = "answer"]
      /\ UNCHANGED <<requestSem, responseSem, req, doing, late, thread, prog, file>>
  BY DEF Process, Goto, NotTheThread, python
<1>3. \A j \in Runs : run'[j] # "working"
  BY <1>1, <1>2, AloneWithRequest DEF HasRequest, AtWork, Connected, ConnectionTypes
<1> SUFFICES ASSUME late = 0 PROVE TransferTypes' /\ SoFar' /\ Ended' /\ Requested' /\ Answered'
  BY <1>2 DEF Whole
<1>4. TransferTypes /\ SoFar /\ Ended /\ IsNext(doing)
  BY <1>1 DEF Whole, Requested
<1>5. /\ SoFar' /\ body' \in Seq(Units) /\ ans'.n \in Nat /\ ans'.data \in Seq(Units)
      /\ ans'.ok \in BOOLEAN /\ (ans'.ok => Told')
  BY <1>4, ProcessTells
<1>6. TransferTypes'
  <2>1. ans' \in [id : Nat, ok : BOOLEAN, data : Seq(Units), n : Nat]
    BY <1>1, <1>4, <1>5 DEF TransferTypes
  <2>2. QED
    BY <1>2, <1>4, <1>5, <2>1 DEF TransferTypes
<1>7. Ended'
  <2>1. prog.end = "no"
    BY <1>1, <1>4 DEF Owned, OneOwner, HasRequest, Ended
  <2>2. QED
    BY <1>2, <1>4, <2>1 DEF Ended
<1>8. Requested'
  <2>1. ~requestSem
    BY <1>1 DEF Owned, OneOwner, HasRequest
  <2>2. QED
    BY <1>2, <1>3, <2>1 DEF Requested
<1>9. Answered'
  BY <1>5 DEF Answered
<1>10. QED
  BY <1>5, <1>6, <1>7, <1>8, <1>9

-----------------------------------------------------------------------------
(* The methods, step by step.                                              *)

\* What a method starts with.
LEMMA StartTypes ==
  ASSUME TransferTypes
  PROVE  /\ NoMethod \in Progs
         /\ \A op \in Ops :
              /\ Of(op) \in Progs
              /\ Of(op).op = op /\ Of(op).start = file.pos /\ Of(op).count = 0 /\ Of(op).end = "no"
              /\ Of(op).data = << >>
<1>1. << >> \in Seq(Units) /\ file.pos \in Nat
  BY DEF TransferTypes
<1>2. NoMethod \in Progs
  BY <1>1 DEF NoMethod, Progs, Ops
<1>3. ASSUME NEW op \in Ops
      PROVE  /\ Of(op) \in Progs
             /\ Of(op).op = op /\ Of(op).start = file.pos /\ Of(op).count = 0 /\ Of(op).end = "no"
             /\ Of(op).data = << >>
  <2>1. Of(op) \in Progs
    BY <1>1, <1>2 DEF Of, Progs
  <2>2. Of(op).op = op /\ Of(op).start = file.pos
    BY DEF Of, NoMethod
  <2>3. Of(op).count = 0 /\ Of(op).end = "no" /\ Of(op).data = << >>
    BY DEF Of, NoMethod
  <2>4. QED
    BY <2>1, <2>2, <2>3
<1>4. QED
  BY <1>2, <1>3

LEMMA BeginKeepsWhole ==
  ASSUME Owned, Whole, Begin
  PROVE  Whole'
<1>1. /\ thread = "idle" /\ thread' = "loop" /\ prog' \in Methods
      /\ file' = [file EXCEPT !.open = @ /\ prog'.op # "close"]
      /\ UNCHANGED <<run, requestSem, responseSem, req, ans, doing, body, calls, late>>
  BY DEF Begin, Calling, task, rpc
<1> SUFFICES ASSUME late = 0 PROVE Whole'
  BY <1>1 DEF Whole
<1>2. TransferTypes /\ SoFar
  BY DEF Whole
<1>3. /\ prog' \in Progs
      /\ prog'.start = file.pos /\ prog'.count = 0 /\ prog'.end = "no"
      /\ prog'.op = "open" => ~file.open
      /\ prog'.op \in {"read", "write"} => file.open
      /\ prog'.op = "read" => prog'.data = << >> /\ prog'.left = prog'.want
  <2>1. \A b \in Buffers : b \in Seq(Units)
    BY UnitSequences
  <2>2. \A w \in Wants : w \in Int
    BY ClientAssumption
  <2>3. \A op \in Ops : /\ Of(op) \in Progs
                        /\ Of(op).op = op /\ Of(op).start = file.pos /\ Of(op).count = 0
                        /\ Of(op).end = "no" /\ Of(op).data = << >>
    BY <1>2, StartTypes
  <2>4. CASE prog' = Of("other")
    BY <2>3, <2>4 DEF Ops
  <2>5. CASE ~file.open /\ \E m \in {"r", "w"} : prog' = [Of("open") EXCEPT !.mode = m]
    <3>1. PICK m \in {"r", "w"} : prog' = [Of("open") EXCEPT !.mode = m]
      BY <2>5
    <3>2. Of("open") \in Progs /\ "open" \in Ops
      BY <2>3 DEF Ops
    <3>3. prog' \in Progs
      BY <3>1, <3>2 DEF Progs
    <3>4. /\ prog'.op = Of("open").op /\ prog'.start = Of("open").start
          /\ prog'.count = Of("open").count /\ prog'.end = Of("open").end
      BY <3>1, <3>2 DEF Progs
    <3>5. QED
      BY <2>3, <2>5, <3>2, <3>3, <3>4
  <2>6. CASE file.open /\ prog' = Of("close")
    BY <2>3, <2>6 DEF Ops
  <2>7. CASE file.open /\ \E w \in Wants : prog' = [Of("read") EXCEPT !.want = w, !.left = w]
    <3>1. PICK w \in Wants : prog' = [Of("read") EXCEPT !.want = w, !.left = w]
      BY <2>7
    <3>2. w \in Int /\ "read" \in Ops
      BY <2>2 DEF Ops
    <3>3. Of("read") \in Progs
      BY <2>3, <3>2
    <3>4. prog' \in Progs
      BY <3>1, <3>2, <3>3 DEF Progs
    <3>5. prog'.want = w /\ prog'.left = w
      BY <3>1, <3>3 DEF Progs
    <3>6. /\ prog'.op = Of("read").op /\ prog'.start = Of("read").start /\ prog'.data = Of("read").data
          /\ prog'.count = Of("read").count /\ prog'.end = Of("read").end
      BY <3>1, <3>3 DEF Progs
    <3>7. QED
      BY <2>3, <2>7, <3>2, <3>4, <3>5, <3>6
  <2>8. CASE file.open /\ \E b \in Buffers : prog' = [Of("write") EXCEPT !.data = b]
    <3>1. PICK b \in Buffers : prog' = [Of("write") EXCEPT !.data = b]
      BY <2>8
    <3>2. Of("write") \in Progs /\ "write" \in Ops /\ b \in Seq(Units)
      BY <2>3, <2>1 DEF Ops
    <3>3. prog' \in Progs
      BY <3>1, <3>2 DEF Progs
    <3>4. /\ prog'.op = Of("write").op /\ prog'.start = Of("write").start
          /\ prog'.count = Of("write").count /\ prog'.end = Of("write").end
      BY <3>1, <3>2 DEF Progs
    <3>5. QED
      BY <2>3, <2>8, <3>2, <3>3, <3>4
  <2>9. QED
    BY <1>1, <2>4, <2>5, <2>6, <2>7, <2>8 DEF Methods
<1>4. NoneAsked'
  BY <1>1, IdleAsksNothing DEF NoneAsked
<1>5. /\ file' \in [open : BOOLEAN, mode : {"r", "w"}, pos : Nat]
      /\ file'.pos = file.pos /\ file'.mode = file.mode
      /\ file'.open <=> (file.open /\ prog'.op # "close")
  BY <1>1, <1>2 DEF TransferTypes
<1>6. TransferTypes'
  BY <1>1, <1>2, <1>3, <1>5 DEF TransferTypes, Progs
<1>7. SoFar'
  <2>1. body \in Seq(Units) /\ Len(body) \in Nat /\ file.pos \in Nat /\ (file.open => file.pos <= Len(body))
    BY <1>2 DEF TransferTypes, SoFar
  <2>2. file.open => Stored(body, file.pos, prog'.data, 0, 0)
    BY <2>1 DEF Stored
  <2>3. prog'.want \in Int /\ prog'.data \in Seq(Units) /\ Len(prog'.data) \in Nat
    BY <1>3 DEF Progs
  <2>4. prog'.op = "read" => Len(prog'.data) = 0
    BY <1>3
  <2>5. QED
    BY <1>1, <1>3, <1>5, <2>1, <2>2, <2>3, <2>4 DEF SoFar
<1>8. Ended'
  BY <1>1, <1>3 DEF Ended
<1>9. QED
  BY <1>4, <1>6, <1>7, <1>8, NoneAskedIsEnough

LEMMA SeekKeepsWhole ==
  ASSUME Owned, Whole, Seek
  PROVE  Whole'
<1>1. /\ thread = "idle" /\ thread' = "idle" /\ prog' = NoMethod /\ file.open
      /\ \E p \in 0..Len(body) : file' = [file EXCEPT !.pos = p]
      /\ UNCHANGED <<run, requestSem, responseSem, req, ans, doing, body, calls, late>>
  BY DEF Seek, Calling, task, rpc
<1> SUFFICES ASSUME late = 0 PROVE Whole'
  BY <1>1 DEF Whole
<1>2. TransferTypes /\ SoFar
  BY DEF Whole
<1>3. NoneAsked'
  BY <1>1, IdleAsksNothing DEF NoneAsked
<1>4. TransferTypes'
  <2>1. Len(body) \in Nat
    BY <1>2 DEF TransferTypes
  <2>2. file' \in [open : BOOLEAN, mode : {"r", "w"}, pos : Nat]
    <3>1. PICK p \in 0..Len(body) : file' = [file EXCEPT !.pos = p]
      BY <1>1
    <3>2. p \in Nat
      BY <2>1
    <3>3. QED
      BY <1>2, <3>1, <3>2 DEF TransferTypes
  <2>3. prog' \in Progs
    BY <1>1, <1>2, StartTypes
  <2>4. QED
    BY <1>1, <1>2, <2>2, <2>3 DEF TransferTypes, Progs
<1>5. SoFar' /\ Ended'
  BY <1>1, <1>2 DEF TransferTypes, SoFar, Ended, NoMethod
<1>6. QED
  BY <1>3, <1>4, <1>5, NoneAskedIsEnough

\* A method that ends leaves its count where it is.
LEMMA LeaveKeeps ==
  ASSUME TransferTypes, SoFar, NEW end \in {"returned", "raised"}, Leave(end),
         UNCHANGED <<body, file>>
  PROVE  /\ SoFar' /\ thread' = "idle"
         /\ prog' \in Progs
         /\ prog'.op \in {"read", "write"} =>
              prog'.end = end /\ prog'.op = prog.op /\ prog'.left = prog.left
              /\ prog'.count = prog.count /\ prog'.data = prog.data
<1>1. CASE prog.op \in {"read", "write"}
  <2>1. prog' = [prog EXCEPT !.end = end] /\ thread' = "idle"
    BY <1>1 DEF Leave
  <2>2. QED
    BY <1>1, <2>1 DEF TransferTypes, SoFar, Progs
<1>2. CASE prog.op \notin {"read", "write"}
  <2>1. prog' = NoMethod /\ thread' = "idle"
    BY <1>2 DEF Leave
  <2>2. QED
    BY <1>2, <2>1, StartTypes DEF SoFar, NoMethod
<1>3. QED
  BY <1>1, <1>2

LEMMA ReturnKeepsWhole ==
  ASSUME Owned, Whole, Return
  PROVE  Whole'
<1>1. /\ thread = "loop" /\ Satisfied /\ Leave("returned")
      /\ UNCHANGED <<run, requestSem, responseSem, req, ans, doing, body, calls, late, file>>
  BY DEF Return, task, rpc
<1> SUFFICES ASSUME late = 0 PROVE Whole'
  BY <1>1 DEF Whole
<1>2. TransferTypes /\ SoFar
  BY DEF Whole
<1>3. /\ SoFar' /\ thread' = "idle" /\ prog' \in Progs
      /\ prog'.op \in {"read", "write"} =>
           prog'.end = "returned" /\ prog'.op = prog.op /\ prog'.left = prog.left
           /\ prog'.count = prog.count /\ prog'.data = prog.data
  BY <1>1, <1>2, LeaveKeeps
<1>4. NoneAsked'
  BY <1>1, IdleAsksNothing DEF NoneAsked
<1>5. TransferTypes'
  BY <1>1, <1>2, <1>3 DEF TransferTypes, Progs
<1>6. Ended'
  BY <1>1, <1>3 DEF Ended, Satisfied
<1>7. QED
  BY <1>3, <1>4, <1>5, <1>6, NoneAskedIsEnough

LEMMA AskKeepsWhole ==
  ASSUME Owned, Whole, Ask
  PROVE  Whole'
<1>1. /\ thread = "loop" /\ ~Satisfied /\ calls' = calls + 1 /\ req' = Piece
      /\ UNCHANGED <<run, responseSem, ans, doing, body, late, file>>
  BY DEF Ask, task
<1> SUFFICES ASSUME late = 0 PROVE Whole'
  BY <1>1 DEF Whole
<1>2. TransferTypes /\ SoFar /\ Ended
  BY DEF Whole
<1>3. NoneAsked
  BY <1>1, IdleAsksNothing
<1>4. req' \in [id : Nat, op : Ops, mode : {"r", "w"}, pos : Nat, data : Seq(Units)]
  <2>1. calls' \in Nat
    BY <1>1 DEF Owned
  <2>2. Slice(prog.data, prog.count, Scratch) \in Seq(Units) /\ << >> \in Seq(Units)
    BY <1>2, PieceType
  <2>3. prog.op \in Ops /\ prog.mode \in {"r", "w"} /\ file.pos \in Nat
    BY <1>2 DEF TransferTypes, Progs
  <2>4. QED
    BY <1>1, <2>1, <2>2, <2>3 DEF Piece
<1>5. CASE self.state = "CONNECTED"
  <2>1. requestSem' = TRUE /\ thread' = "waiting" /\ UNCHANGED prog
    BY <1>5 DEF Ask
  <2>2. TransferTypes'
    BY <1>1, <1>2, <1>4, <2>1 DEF TransferTypes
  <2>3. SoFar'
    BY <1>1, <1>2, <2>1 DEF SoFar
  <2>4. Ended'
    BY <1>1, <1>2, <2>1 DEF Ended, Satisfied
  <2>5. IsNext(req)'
    BY <1>1, <2>1 DEF IsNext, Piece
  <2>6. Requested' /\ Answered'
    BY <1>1, <1>3, <2>5 DEF NoneAsked, Requested, Answered
  <2>7. QED
    BY <2>2, <2>3, <2>4, <2>6 DEF Whole
<1>6. CASE self.state # "CONNECTED"
  <2>1. Leave("raised") /\ UNCHANGED requestSem
    BY <1>6 DEF Ask
  <2>2. /\ SoFar' /\ thread' = "idle" /\ prog' \in Progs
        /\ prog'.op \in {"read", "write"} => prog'.end = "raised"
    BY <1>1, <1>2, <2>1, LeaveKeeps
  <2>3. NoneAsked'
    BY <1>1, <1>3, <2>1 DEF NoneAsked
  <2>4. TransferTypes'
    BY <1>1, <1>2, <1>4, <2>2 DEF TransferTypes, Progs
  <2>5. Ended'
    BY <2>2 DEF Ended
  <2>6. QED
    BY <2>2, <2>3, <2>4, <2>5, NoneAskedIsEnough
<1>7. QED
  BY <1>5, <1>6

\* Two pieces that follow each other are stored as one.
LEMMA StoredTogether ==
  ASSUME NEW b \in Seq(Units), NEW s \in Seq(Units), NEW t \in Seq(Units), NEW start \in Nat,
         Stored(b, start, s, 0, Len(s)), Stored(b, start + Len(s), t, 0, Len(t))
  PROVE  Stored(b, start, s \o t, 0, Len(s \o t))
<1>1. s \o t \in Seq(Units) /\ Len(s \o t) = Len(s) + Len(t) /\ Len(s) \in Nat /\ Len(t) \in Nat
  BY ConcatProperties
<1>2. \A i \in 1..(Len(s) + Len(t)) : (s \o t)[i] = IF i <= Len(s) THEN s[i] ELSE t[i - Len(s)]
  BY ConcatProperties
<1>3. ASSUME NEW j \in 1..Len(s \o t) PROVE b[start + j] = (s \o t)[0 + j]
  <2>1. CASE j <= Len(s)
    <3>1. b[start + j] = s[0 + j] /\ 0 + j = j
      BY <1>1, <2>1 DEF Stored
    <3>2. QED
      BY <1>1, <1>2, <2>1, <3>1
  <2>2. CASE j > Len(s)
    <3> DEFINE i == j - Len(s)
    <3>1. i \in 1..Len(t) /\ start + Len(s) + i = start + j /\ 0 + i = i /\ 0 + j = j
      BY <1>1, <2>2
    <3>2. b[start + Len(s) + i] = t[0 + i]
      BY <3>1 DEF Stored
    <3>3. (s \o t)[j] = t[i]
      BY <1>1, <1>2, <2>2
    <3> HIDE DEF i
    <3>4. QED
      BY <3>1, <3>2, <3>3
  <2>3. QED
    BY <1>1, <2>1, <2>2
<1>4. start + Len(s \o t) <= Len(b)
  BY <1>1 DEF Stored
<1>5. QED
  BY <1>1, <1>3, <1>4 DEF Stored

LEMMA WrittenTogether ==
  ASSUME NEW b \in Seq(Units), NEW s \in Seq(Units), NEW start \in Nat, NEW m \in Nat, NEW n \in Nat,
         Stored(b, start, s, 0, m), Stored(b, start + m, s, m, n)
  PROVE  Stored(b, start, s, 0, m + n)
<1>1. ASSUME NEW j \in 1..(m + n) PROVE b[start + j] = s[0 + j]
  <2>1. CASE j <= m
    BY <2>1 DEF Stored
  <2>2. CASE j > m
    <3> DEFINE i == j - m
    <3>1. i \in 1..n /\ start + m + i = start + j /\ m + i = 0 + j
      BY <2>2
    <3>2. b[start + m + i] = s[m + i]
      BY <3>1 DEF Stored
    <3> HIDE DEF i
    <3>3. QED
      BY <3>1, <3>2
  <2>3. QED
    BY <2>1, <2>2
<1>2. start + (m + n) <= Len(b)
  BY DEF Stored
<1>3. QED
  BY <1>1, <1>2 DEF Stored

LEMMA ReadOnKeeps ==
  ASSUME TransferTypes, SoFar, Ended, Told, thread = "waiting", prog.op = "read",
         ReadOn, UNCHANGED <<body, ans, req, doing>>
  PROVE  TransferTypes' /\ SoFar' /\ Ended'
<1> DEFINE got == prog.data \o ans.data
           left == IF prog.left > 0 THEN prog.left - Len(ans.data) ELSE prog.left
<1>1. /\ prog' = [prog EXCEPT !.data = got, !.left = left]
      /\ file' = [file EXCEPT !.pos = file.pos + Len(ans.data)] /\ thread' = "loop"
  BY DEF ReadOn
<1>2. /\ prog \in Progs /\ file \in [open : BOOLEAN, mode : {"r", "w"}, pos : Nat]
      /\ prog.data \in Seq(Units) /\ ans.data \in Seq(Units) /\ body \in Seq(Units)
      /\ file.pos \in Nat /\ prog.start \in Nat /\ prog.left \in Int /\ prog.want \in Int
  BY DEF TransferTypes, Progs
<1>3. /\ got \in Seq(Units) /\ Len(got) = Len(prog.data) + Len(ans.data)
      /\ Len(prog.data) \in Nat /\ Len(ans.data) \in Nat
  BY <1>2, ConcatProperties
<1>4. left \in Int /\ (left < 0 \/ left = prog.want - Len(got))
  <2>1. prog.left < 0 \/ prog.left = prog.want - Len(prog.data)
    BY DEF SoFar
  <2>2. prog.left # 0
    BY DEF Ended
  <2>3. prog.left \in Int /\ prog.want \in Int
    BY <1>2
  <2> HIDE DEF got
  <2>4. CASE prog.left > 0
    <3>1. PICK m \in Nat, n \in Nat, want \in Int :
            m = Len(prog.data) /\ n = Len(ans.data) /\ want = prog.want
      BY <1>3, <2>3
    <3>2. prog.left = want - m /\ left = prog.left - n
      BY <2>1, <2>3, <2>4, <3>1
    <3> HIDE DEF left
    <3>3. left = (want - m) - n /\ Len(got) = m + n
      BY <1>3, <3>1, <3>2
    <3>4. (want - m) - n = want - (m + n) /\ (want - m) - n \in Int
      OBVIOUS
    <3>5. QED
      BY <3>1, <3>3, <3>4
  <2>5. CASE prog.left < 0
    BY <2>3, <2>5
  <2>6. QED
    BY <2>2, <2>3, <2>4, <2>5
<1>5. /\ file.open /\ file.pos = prog.start + Len(prog.data)
      /\ Stored(body, prog.start, prog.data, 0, Len(prog.data))
      /\ Stored(body, file.pos, ans.data, 0, Len(ans.data))
  BY DEF SoFar, Told
<1>6. Stored(body, prog.start, got, 0, Len(got))
  BY <1>2, <1>5, StoredTogether
<1>7. prog.start + Len(got) <= Len(body)
  BY <1>6 DEF Stored
<1> HIDE DEF got, left
<1>8. /\ prog' \in Progs /\ prog'.data = got /\ prog'.left = left
      /\ prog'.op = "read" /\ prog'.start = prog.start /\ prog'.want = prog.want /\ prog'.end = prog.end
  <2>1. prog' \in Progs
    BY <1>1, <1>2, <1>3, <1>4 DEF Progs
  <2>2. prog'.data = got /\ prog'.left = left
    BY <1>1, <1>2 DEF Progs
  <2>3. prog'.op = "read" /\ prog'.start = prog.start /\ prog'.want = prog.want /\ prog'.end = prog.end
    BY <1>1, <1>2 DEF Progs
  <2>4. QED
    BY <2>1, <2>2, <2>3
<1>9. /\ file' \in [open : BOOLEAN, mode : {"r", "w"}, pos : Nat]
      /\ file'.open <=> file.open
      /\ file'.pos = prog.start + Len(got)
  <2>1. file.pos + Len(ans.data) \in Nat
    BY <1>2, <1>3
  <2>2. file' \in [open : BOOLEAN, mode : {"r", "w"}, pos : Nat]
    BY <1>1, <1>2, <2>1
  <2>3. file'.open <=> file.open
    BY <1>1, <1>2
  <2>4. file'.pos = file.pos + Len(ans.data)
    BY <1>1, <1>2
  <2>5. file.pos + Len(ans.data) = prog.start + Len(got)
    <3>1. Len(got) = Len(prog.data) + Len(ans.data) /\ Len(prog.data) \in Nat /\ Len(ans.data) \in Nat
      BY <1>3
    <3>2. PICK m \in Nat, n \in Nat, at \in Nat :
            m = Len(prog.data) /\ n = Len(ans.data) /\ at = prog.start
      BY <1>2, <3>1
    <3>3. file.pos = at + m /\ Len(got) = m + n
      BY <1>5, <3>1, <3>2
    <3>4. (at + m) + n = at + (m + n)
      OBVIOUS
    <3>5. QED
      BY <3>2, <3>3, <3>4
  <2>6. QED
    BY <2>2, <2>3, <2>4, <2>5
<1>10. TransferTypes'
  BY <1>8, <1>9 DEF TransferTypes, Progs
<1>11. SoFar'
  BY <1>4, <1>5, <1>6, <1>7, <1>8, <1>9 DEF SoFar
<1>12. Ended'
  BY <1>1, <1>8 DEF Ended
<1>13. QED
  BY <1>10, <1>11, <1>12

LEMMA WriteOnKeeps ==
  ASSUME TransferTypes, SoFar, Ended, Told, thread = "waiting", prog.op = "write",
         WriteOn, UNCHANGED <<body, ans, req, doing>>
  PROVE  TransferTypes' /\ SoFar' /\ Ended'
<1>1. /\ prog' = [prog EXCEPT !.count = prog.count + ans.n]
      /\ file' = [file EXCEPT !.pos = file.pos + ans.n] /\ thread' = "loop"
  BY DEF WriteOn
<1>2. /\ prog \in Progs /\ file \in [open : BOOLEAN, mode : {"r", "w"}, pos : Nat]
      /\ prog.data \in Seq(Units) /\ body \in Seq(Units)
      /\ file.pos \in Nat /\ prog.start \in Nat /\ prog.count \in Nat /\ ans.n \in Nat
  BY DEF TransferTypes, Progs
<1>3. /\ file.open /\ file.pos = prog.start + prog.count
      /\ Stored(body, prog.start, prog.data, 0, prog.count)
      /\ Stored(body, file.pos, prog.data, prog.count, ans.n)
      /\ prog.count + ans.n <= Len(prog.data)
  BY DEF SoFar, Told
<1>4. Stored(body, prog.start, prog.data, 0, prog.count + ans.n)
  BY <1>2, <1>3, WrittenTogether
<1>5. file.pos + ans.n <= Len(body)
  BY <1>3 DEF Stored
<1>6. /\ prog' \in Progs /\ prog'.data = prog.data /\ prog'.count = prog.count + ans.n
      /\ prog'.op = "write" /\ prog'.start = prog.start /\ prog'.end = prog.end
  <2>1. prog.count + ans.n \in Nat
    BY <1>2
  <2>2. prog' \in Progs
    BY <1>1, <1>2, <2>1 DEF Progs
  <2>3. prog'.data = prog.data /\ prog'.count = prog.count + ans.n
    BY <1>1, <1>2 DEF Progs
  <2>4. prog'.op = "write" /\ prog'.start = prog.start /\ prog'.end = prog.end
    BY <1>1, <1>2 DEF Progs
  <2>5. QED
    BY <2>2, <2>3, <2>4
<1>7. /\ file' \in [open : BOOLEAN, mode : {"r", "w"}, pos : Nat]
      /\ file'.open <=> file.open
      /\ file'.pos = file.pos + ans.n
  <2>1. file.pos + ans.n \in Nat
    BY <1>2
  <2>2. file' \in [open : BOOLEAN, mode : {"r", "w"}, pos : Nat]
    BY <1>1, <1>2, <2>1
  <2>3. file'.open <=> file.open
    BY <1>1, <1>2
  <2>4. file'.pos = file.pos + ans.n
    BY <1>1, <1>2
  <2>5. QED
    BY <2>2, <2>3, <2>4
<1>8. TransferTypes'
  BY <1>6, <1>7 DEF TransferTypes, Progs
<1>9. SoFar'
  <2>1. file'.pos = prog'.start + prog'.count
    BY <1>2, <1>3, <1>6, <1>7
  <2>2. QED
    BY <1>3, <1>4, <1>5, <1>6, <1>7, <2>1 DEF SoFar
<1>10. Ended'
  BY <1>1, <1>6 DEF Ended
<1>11. QED
  BY <1>8, <1>9, <1>10

LEMMA TakeAnswerKeepsWhole ==
  ASSUME Owned, Whole, TakeAnswer
  PROVE  Whole'
<1>1. /\ thread = "waiting" /\ responseSem /\ responseSem' = FALSE
      /\ UNCHANGED <<run, requestSem, req, ans, doing, body, calls, late>>
  BY DEF TakeAnswer, task
<1> SUFFICES ASSUME late = 0 PROVE Whole'
  BY <1>1 DEF Whole
<1>2. TransferTypes /\ SoFar /\ Ended /\ (ans.ok => Told)
  BY <1>1 DEF Whole, Answered
<1>3. NoneAsked'
  BY <1>1, AnsweredAsksNothing DEF NoneAsked
<1>4. ASSUME NEW end \in {"returned", "raised"}, Leave(end), UNCHANGED file,
             end = "returned" => prog.op # "write" /\ (prog.op = "read" => file.pos = Len(body))
      PROVE  TransferTypes' /\ SoFar' /\ Ended'
  <2>1. /\ SoFar' /\ thread' = "idle" /\ prog' \in Progs
        /\ prog'.op \in {"read", "write"} => prog'.end = end /\ prog'.op = prog.op
    BY <1>1, <1>2, <1>4, LeaveKeeps
  <2>2. TransferTypes'
    BY <1>1, <1>2, <1>4, <2>1 DEF TransferTypes, Progs
  <2>3. Ended'
    BY <1>1, <1>4, <2>1 DEF Ended
  <2>4. QED
    BY <2>1, <2>2, <2>3
<1>5. CASE ~ans.ok
  <2>1. Leave("raised") /\ UNCHANGED file
    BY <1>5 DEF TakeAnswer
  <2>2. QED
    BY <1>3, <1>4, <2>1, NoneAskedIsEnough
<1>6. CASE ans.ok /\ prog.op = "read" /\ ans.data # << >>
  <2>1. ReadOn
    BY <1>6 DEF TakeAnswer
  <2>2. QED
    BY <1>1, <1>2, <1>3, <1>6, <2>1, ReadOnKeeps, NoneAskedIsEnough
<1>7. CASE ans.ok /\ prog.op = "write"
  <2>1. WriteOn
    BY <1>7 DEF TakeAnswer
  <2>2. QED
    BY <1>1, <1>2, <1>3, <1>7, <2>1, WriteOnKeeps, NoneAskedIsEnough
<1>8. CASE ans.ok /\ prog.op = "open"
  <2>1. Leave("returned") /\ file' = [open |-> TRUE, mode |-> prog.mode, pos |-> 0]
    BY <1>8 DEF TakeAnswer
  <2>2. prog' = NoMethod /\ thread' = "idle"
    BY <1>8, <2>1 DEF Leave
  <2>3. prog' \in Progs /\ file' \in [open : BOOLEAN, mode : {"r", "w"}, pos : Nat]
    BY <1>2, <2>1, <2>2, StartTypes DEF TransferTypes, Progs
  <2>4. TransferTypes'
    BY <1>1, <1>2, <2>3 DEF TransferTypes, Progs
  <2>5. SoFar' /\ Ended'
    BY <1>1, <1>2, <2>1, <2>2 DEF SoFar, Ended, NoMethod, TransferTypes
  <2>6. QED
    BY <1>3, <2>4, <2>5, NoneAskedIsEnough
<1>9. CASE ans.ok /\ prog.op \notin {"open", "write"} /\ (prog.op = "read" => ans.data = << >>)
  <2>1. Leave("returned") /\ UNCHANGED file
    BY <1>9 DEF TakeAnswer
  <2>2. prog.op = "read" => file.pos = Len(body)
    BY <1>2, <1>9 DEF Told
  <2>3. QED
    BY <1>3, <1>4, <1>9, <2>1, <2>2, NoneAskedIsEnough
<1>10. QED
  BY <1>5, <1>6, <1>7, <1>8, <1>9

\* The inductive form of TransferIsWhole.
THEOREM WholeInvariance == SpecClient => []Whole
<1>1. InitClient => Whole
  <2> SUFFICES ASSUME InitClient PROVE Whole
    OBVIOUS
  <2>1. body \in Seq(Units) /\ << >> \in Seq(Units)
    BY UnitSequences DEF InitClient
  <2>2. Len(body) \in Nat
    BY <2>1
  <2>3. TransferTypes
    BY <2>1 DEF InitClient, TransferTypes, Progs, NoMethod, NoRequest, Ops
  <2>4. SoFar /\ Ended
    BY <2>2 DEF InitClient, SoFar, Ended, NoMethod
  <2>5. Requested /\ Answered
    BY DEF InitClient, Requested, Answered
  <2>6. QED
    BY <2>3, <2>4, <2>5 DEF Whole
<1>2. Connected /\ Owned /\ Whole /\ [NextClient]_rcvars => Whole'
  <2> SUFFICES ASSUME Connected, Owned, Whole, [NextClient]_rcvars PROVE Whole'
    OBVIOUS
  <2>1. CASE Connect \/ NoteTask \/ Disconnect \/ Drop \/ Collect \/ Type \/ Show
    BY <2>1, QuietThread, QuietKeepsWhole
  <2>2. CASE Begin \/ Seek \/ Return \/ Ask \/ TakeAnswer
    BY <2>2, BeginKeepsWhole, SeekKeepsWhole, ReturnKeepsWhole, AskKeepsWhole, TakeAnswerKeepsWhole
  <2>3. CASE TimeOut
    <3>1. late' = late + 1 /\ late \in Nat
      BY <2>3 DEF TimeOut, Owned
    <3>2. QED
      BY <3>1 DEF Whole
  <2>4. ASSUME NEW i \in Runs, TaskStep(i) PROVE Whole'
    <3>1. CASE TakeRequest(i) \/ Process(i) \/ GiveAnswer(i)
      BY <3>1, TakeRequestKeepsWhole, ProcessKeepsWhole, GiveAnswerKeepsWhole
    <3>2. CASE ~(TakeRequest(i) \/ Process(i) \/ GiveAnswer(i))
      BY <2>4, <3>2, QuietTask, QuietKeepsWhole
    <3>3. QED
      BY <3>1, <3>2
  <2>5. CASE UNCHANGED rcvars
    <3>1. Quiet /\ UNCHANGED python /\ thread' = thread
      BY <2>5 DEF rcvars, rpc, task, python, Quiet
    <3>2. QED
      BY <3>1, QuietKeepsWhole
  <2>6. QED
    BY <2>1, <2>2, <2>3, <2>4, <2>5 DEF NextClient
<1>3. QED
  BY <1>1, <1>2, ConnectedInvariance, OwnedInvariance, PTL DEF SpecClient

\* However the server cuts a transfer into pieces, what read() returns are the file's
\* units in order and what write() has counted is in the file, until a request times
\* out (sftp.py's SFTPFile over sftp_do_op).
THEOREM TransfersAreWhole == SpecClient => []TransferIsWhole
<1>1. Whole => TransferIsWhole
  <2> SUFFICES ASSUME Whole, late = 0 PROVE TransferIsWhole
    BY DEF TransferIsWhole
  <2>1. TransferTypes /\ SoFar /\ Ended
    BY DEF Whole
  <2>2. /\ body \in Seq(Units) /\ prog.data \in Seq(Units) /\ prog.start \in Nat
        /\ prog.count \in Nat /\ prog.want \in Int /\ Len(prog.data) \in Nat /\ Len(body) \in Nat
    <3>1. prog \in Progs /\ body \in Seq(Units)
      BY <2>1 DEF TransferTypes, Progs
    <3>2. QED
      BY <3>1 DEF Progs
  <2>3. ASSUME prog.op = "read"
        PROVE  /\ prog.data = Slice(body, prog.start, Len(prog.data))
               /\ prog.end = "returned" => \/ prog.want >= 0 /\ Len(prog.data) >= prog.want
                                           \/ prog.start + Len(prog.data) >= Len(body)
    <3>1. /\ file.pos = prog.start + Len(prog.data)
          /\ Stored(body, prog.start, prog.data, 0, Len(prog.data))
          /\ prog.left < 0 \/ prog.left = prog.want - Len(prog.data)
      BY <2>1, <2>3 DEF SoFar
    <3>2. Len(prog.data) \in 0..Len(prog.data)
      BY <2>2
    <3>3. Slice(body, prog.start, Len(prog.data)) = SubSeq(prog.data, 1, Len(prog.data))
      BY <2>2, <3>1, <3>2, SliceIsStored
    <3>4. SubSeq(prog.data, 1, Len(prog.data)) = prog.data
      BY <2>2
    <3>5. prog.end = "returned" => prog.left = 0 \/ file.pos = Len(body)
      BY <2>1, <2>3 DEF Ended
    <3>6. QED
      BY <2>2, <3>1, <3>3, <3>4, <3>5
  <2>4. ASSUME prog.op = "write"
        PROVE  /\ Slice(body, prog.start, prog.count) = SubSeq(prog.data, 1, prog.count)
               /\ prog.end = "returned" => prog.count = Len(prog.data)
    <3>1. prog.count <= Len(prog.data) /\ Stored(body, prog.start, prog.data, 0, prog.count)
      BY <2>1, <2>4 DEF SoFar
    <3>2. prog.count \in 0..Len(prog.data)
      BY <2>2, <3>1
    <3>3. Slice(body, prog.start, prog.count) = SubSeq(prog.data, 1, prog.count)
      BY <2>2, <3>1, <3>2, SliceIsStored
    <3>4. QED
      BY <2>1, <2>4, <3>3 DEF Ended
  <2>5. QED
    BY <2>3, <2>4 DEF TransferIsWhole
<1>2. QED
  BY <1>1, WholeInvariance, PTL
=============================================================================
