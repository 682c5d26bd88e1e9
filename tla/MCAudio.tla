------------------------------ MODULE MCAudio ------------------------------
(* The player and the recorder.  They share the thread and the scheduler    *)
(* queue but no memory, so they are explored one at a time.  The player has *)
(* a ring of three units, a read buffer of two, files of up to four and two *)
(* tracks; the recorder a ring smaller than its chunk and two recordings:   *)
(* both rings fill, run dry and are used again.                             *)
EXTENDS AudioPlayer, AudioRecorder

\* Which of the two is used.
VARIABLE device

InitAudio == Init /\ InitRecorder /\ device \in {"player", "recorder"}

NextAudio ==
  \/ device = "player" /\ Next /\ UNCHANGED <<device, rvars>>
  \/ device = "recorder" /\ NextRecorder /\ UNCHANGED <<device, vars>>

avars == <<vars, rvars, device>>

Playing(A) == device = "player" /\ A /\ UNCHANGED <<device, rvars>>
Recording(A) == device = "recorder" /\ A /\ UNCHANGED <<device, vars>>

SpecAudio ==
  /\ InitAudio /\ [][NextAudio]_avars
  /\ WF_avars(Playing(TaskStep)) /\ WF_avars(Playing(MethodStep)) /\ SF_avars(Playing(FeedScheduled))
  /\ SF_avars(Playing(FeedData \/ FeedEof)) /\ SF_avars(Playing(TaskStep /\ queued' > queued))
  /\ WF_avars(Recording(RecorderTask)) /\ WF_avars(Recording(RecorderMethod))

AudioTypes == TypeOK /\ RecorderTypeOK

\* stop() of either device returns, and deinit(): the thread that waits for the task is
\* the one that would bring the player's data and take the recorder's.
StopsReturn == StopReturns /\ RecorderStops
============================================================================
