------------------------------- MODULE MCVnc -------------------------------
(* The screen elsewhere: the VNC servers, the ring the keys of their clients *)
(* go into, and the ring buffer.  They are explored side by side, one of     *)
(* them at a time: a key the servers type is a byte of any producer to the   *)
(* first ring, and they share nothing else.  The ring buffer has three bytes *)
(* of storage: every wrap position, full, empty, and arguments longer than   *)
(* the space.                                                                *)
EXTENDS Vncd, InjectRing, RingBuf

\* Which of them takes steps.
VARIABLE side

\* While the others do, each is in one state.
InitOfOne ==
  /\ InitVnc /\ InitInject /\ Init
  /\ side \in {"vnc", "keys", "ring"}
  /\ side # "vnc" => ~web
  /\ side # "ring" => data = [i \in DOMAIN data |-> CHOOSE b \in Byte : TRUE]

NextOfOne ==
  \/ side = "vnc" /\ NextVnc /\ UNCHANGED <<side, ivars, vars>>
  \/ side = "keys" /\ NextInject /\ UNCHANGED <<side, vvars, vars>>
  \/ side = "ring" /\ Next /\ UNCHANGED <<side, vvars, ivars>>

sides == <<vvars, ivars, vars, side>>

SpecOfOne == InitOfOne /\ [][NextOfOne]_sides
             /\ WF_sides(side = "vnc" /\ (Tick \/ Steps) /\ UNCHANGED <<side, ivars, vars>>)
             /\ SF_sides(side = "vnc" /\ SendSome /\ UNCHANGED <<side, ivars, vars>>)
=============================================================================
