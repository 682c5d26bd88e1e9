------------------------------- MODULE MCSftp -------------------------------
(* The SFTP server, or an SSH or SFTP client.  No value passes from one to  *)
(* the other on one device, so they are explored one at a time.  The server *)
(* has two slots and three connections, so that a slot is used again and a  *)
(* connection finds none, and two starts.  A shell client connects twice, a *)
(* files client once, with requests enough to read a file of two units to   *)
(* its end, or to write three, in pieces of two.                            *)
EXTENDS SftpdSlots, RemoteClient

CONSTANTS x, z

\* Which side the device is on.
VARIABLE side

TwoUnits == {<<z, x>>}
ThreeUnits == {<<z, x, z>>}
OneOrAll == {-1, 1}
Reconnects == [shell |-> 2, files |-> 1]

svars == <<vars, rcvars, side>>

\* The side that takes no steps is in one state.
InitSftp ==
  /\ Init /\ InitClient
  /\ side \in {"server", "client"}
  /\ side = "server" => kind = "files"

Serving(A) == side = "server" /\ A /\ UNCHANGED <<side, rcvars>>
Connecting(A) == side = "client" /\ A /\ UNCHANGED <<side, vars>>

NextSftp ==
  \/ side = "server" /\ Next /\ UNCHANGED <<side, rcvars>>
  \/ side = "client" /\ NextClient /\ UNCHANGED <<side, vars>>

SpecSftp == InitSftp /\ [][NextSftp]_svars

FairSftp ==
  /\ SpecSftp
  /\ WF_svars(Serving(ListenerStep)) /\ WF_svars(Serving(NoteStarted))
  /\ \A i \in SlotIds : WF_svars(Serving(SessionObliged(i)))
  /\ \A i \in Runs : WF_svars(Connecting(TaskObliged(i)))

SftpTypes == TypeOK /\ ClientTypeOK
=============================================================================
