--------------------------- MODULE AudioRecorder ---------------------------
(***************************************************************************)
(* src/modules/tdeck_i2s/audiorecorder.c: the player turned round.  A task *)
(* on core 1 captures into the ring buffer and asks for drains; drains, on *)
(* the MicroPython thread, write the ring into a WAV file; stop() waits    *)
(* for the task, drains the rest and writes the header, which says how     *)
(* many bytes follow.  The ring is the queue of RingBuf, so counters stand *)
(* for the sound: put into the ring, taken out of it, stored in the file.  *)
(***************************************************************************)
EXTENDS Integers

CONSTANTS
  RecRing,     \* RECORD_RING_BUF_SIZE
  RecChunk,    \* RECORD_CHUNK_SIZE
  DrainChunk,  \* RECORD_DRAIN_CHUNK_SIZE
  DrainRounds, \* RECORD_DRAIN_ROUNDS
  MaxPut,      \* bound: units captured in a recording
  MaxRecords,  \* bound: calls of record()
  MaxLate      \* bound: waits for the task that time out

ASSUME RecorderAssumption ==
  /\ {RecRing, RecChunk, DrainChunk, DrainRounds} \subseteq Nat \ {0}
  /\ {MaxPut, MaxRecords, MaxLate} \subseteq Nat

VARIABLES
  recorder, \* the object: file open, stack, task handle, ring exists, recording,
            \* stop_request, done_sem, drain_pending, max_bytes, total_bytes, failed
  rmp,      \* the MicroPython thread: where it is, drain rounds left, deinit wanted
  rtask,    \* the task: where it is, units of its chunk not yet put, units put
  sound,    \* put, taken, stored; and what the last header says (0: placeholder)
  drains,   \* drain callbacks in the scheduler queue
  calls     \* calls of record(), waits that timed out

rvars == <<recorder, rmp, rtask, sound, drains, calls>>

Smaller(a, b) == IF a < b THEN a ELSE b
InRing == sound.put - sound.taken
Silence == [put |-> 0, taken |-> 0, stored |-> 0, header |-> 0]
NoTask == [at |-> "none", hold |-> 0, written |-> 0]
Resting == [at |-> "idle", rounds |-> 0, deinit |-> FALSE]

InitRecorder ==
  /\ recorder = [file |-> FALSE, stack |-> FALSE, task |-> FALSE, alive |-> TRUE,
                 recording |-> FALSE, stop |-> FALSE, done |-> 0, pending |-> FALSE,
                 max |-> 0, total |-> 0, failed |-> FALSE]
  /\ rmp = Resting /\ rtask = NoTask /\ sound = Silence /\ drains = 0
  /\ calls = [records |-> 0, late |-> 0]

-----------------------------------------------------------------------------
(* record()                                                                *)

\* Slip: the stack of a recording that ended by itself is freed at once.
ReclaimsUnasked == TRUE

\* record() may free an old stack once its task has given done_sem: its wait of two
\* seconds, whose result it does not look at, is for a task that is about to give it.
MayReclaim == recorder.stack => recorder.done = 1

\* record(): refused while recording.  The old stack is reclaimed, the file opened,
\* which may raise, the ring reset, the task created, which may fail.
Record ==
  /\ rmp.at = "idle" /\ recorder.alive /\ ~recorder.recording /\ calls.records < MaxRecords
  /\ MayReclaim
  /\ calls' = [calls EXCEPT !.records = @ + 1]
  /\ LET reclaimed == IF recorder.stack
                      THEN [recorder EXCEPT !.stack = FALSE, !.task = FALSE, !.done = 0]
                      ELSE recorder
     IN \/ recorder' = reclaimed /\ UNCHANGED <<rtask, sound>>
        \/ \E max \in {0, RecRing}, made \in BOOLEAN :
             /\ recorder' = [reclaimed EXCEPT !.file = TRUE, !.max = max, !.total = 0, !.stop = FALSE,
                               !.failed = FALSE, !.stack = made, !.recording = made,
                               !.task = IF made THEN TRUE ELSE @]
             /\ rtask' = IF made THEN [NoTask EXCEPT !.at = "alloc"] ELSE rtask
             /\ sound' = Silence
  /\ UNCHANGED <<rmp, drains>>

-----------------------------------------------------------------------------
(* The capture task.                                                       *)

TaskGoto(at) == rtask' = [rtask EXCEPT !.at = at]
OnlyTask == UNCHANGED <<recorder, rmp, sound, drains, calls>>

\* Its buffer is allocated, or there is no memory for it.
TaskBegins == rtask.at = "alloc" /\ (TaskGoto("loop") \/ TaskGoto("clear")) /\ OnlyTask

Capture ==
  /\ rtask.at = "loop" /\ ~recorder.stop
  /\ \E k \in 1..Smaller(RecChunk, MaxPut - sound.put) :
       rtask' = [at |-> "put", hold |-> k, written |-> 0]
  /\ OnlyTask

SeesStop == rtask.at = "loop" /\ recorder.stop /\ TaskGoto("clear") /\ OnlyTask

\* rb_write: as much as fits; a full ring is tried again.
PutSome ==
  /\ rtask.at = "put" /\ rtask.hold > 0 /\ ~recorder.stop /\ InRing < RecRing
  /\ LET n == Smaller(rtask.hold, RecRing - InRing) IN
     /\ rtask' = [rtask EXCEPT !.hold = @ - n, !.written = @ + n]
     /\ sound' = [sound EXCEPT !.put = @ + n]
  /\ UNCHANGED <<recorder, rmp, drains, calls>>

PutIsOver == rtask.hold = 0 \/ recorder.stop

\* Slip: all that was captured is counted.
CountedAll == rtask.written + rtask.hold
Counted == rtask.written

\* The chunk is counted and a drain asked for, once; a full scheduler queue drops
\* the request.  The limit of record(seconds=) ends the loop.
CountPut ==
  /\ rtask.at = "put" /\ PutIsOver
  /\ LET total == recorder.total + Counted IN
     /\ \/ /\ recorder' = [recorder EXCEPT !.total = total, !.pending = TRUE]
           /\ drains' = IF recorder.pending THEN drains ELSE drains + 1
        \/ ~recorder.pending /\ recorder' = [recorder EXCEPT !.total = total] /\ UNCHANGED drains
     /\ TaskGoto(IF recorder.max > 0 /\ total >= recorder.max THEN "clear" ELSE "loop")
  /\ UNCHANGED <<rmp, sound, calls>>

ClearRecording ==
  /\ rtask.at = "clear"
  /\ recorder' = [recorder EXCEPT !.recording = FALSE]
  /\ TaskGoto("give")
  /\ UNCHANGED <<rmp, sound, drains, calls>>

GiveRecorded ==
  /\ rtask.at = "give"
  /\ recorder' = [recorder EXCEPT !.done = 1]
  /\ rtask' = NoTask
  /\ UNCHANGED <<rmp, sound, drains, calls>>

-----------------------------------------------------------------------------
(* Draining, on the MicroPython thread.                                    *)

OnlyMp == UNCHANGED <<recorder, rtask, sound, drains, calls>>
Draining == rmp.at \in {"drain", "final"}

\* audiorecorder_drain_scheduled begins.
DrainScheduled ==
  /\ rmp.at = "idle" /\ drains > 0
  /\ drains' = drains - 1
  /\ recorder' = [recorder EXCEPT !.pending = FALSE]
  /\ rmp' = [rmp EXCEPT !.at = "drain", !.rounds = DrainRounds]
  /\ UNCHANGED <<rtask, sound, calls>>

\* How a loop of drains goes on: a callback has DrainRounds, finalize no limit.
AfterDrain == IF rmp.at = "final" THEN rmp
              ELSE IF rmp.rounds = 1 THEN Resting ELSE [rmp EXCEPT !.rounds = @ - 1]
EndOfDrains == IF rmp.at = "final" THEN [rmp EXCEPT !.at = "header"] ELSE Resting

\* drain_internal: out of the ring, then into the file in as many writes as it takes.
DrainWrites ==
  /\ Draining /\ recorder.file /\ InRing > 0
  /\ LET n == Smaller(InRing, DrainChunk) IN
     sound' = [sound EXCEPT !.taken = @ + n, !.stored = @ + n]
  /\ rmp' = AfterDrain
  /\ UNCHANGED <<recorder, rtask, drains, calls>>

\* A write fails: what was taken and not written is gone.
DrainFails ==
  /\ Draining /\ recorder.file /\ InRing > 0
  /\ LET n == Smaller(InRing, DrainChunk) IN
     \E k \in 0..(n - 1) : sound' = [sound EXCEPT !.taken = @ + n, !.stored = @ + k]
  /\ recorder' = [recorder EXCEPT !.failed = TRUE]
  /\ rmp' = EndOfDrains
  /\ UNCHANGED <<rtask, drains, calls>>

NothingToDrain ==
  /\ Draining /\ (~recorder.file \/ InRing = 0)
  /\ rmp' = EndOfDrains
  /\ OnlyMp

-----------------------------------------------------------------------------
(* stop() and deinit()                                                     *)

\* With no handle there is no task to wait for.
Stop(deinit) ==
  /\ rmp.at = "idle" /\ recorder.alive
  /\ recorder' = IF recorder.task THEN [recorder EXCEPT !.stop = TRUE] ELSE recorder
  /\ rmp' = [Resting EXCEPT !.at = IF recorder.task THEN "wait" ELSE "final", !.deinit = deinit]
  /\ UNCHANGED <<rtask, sound, drains, calls>>

StopConfirmed ==
  /\ rmp.at = "wait" /\ recorder.done = 1
  /\ recorder' = [recorder EXCEPT !.done = 0, !.stack = FALSE, !.task = FALSE]
  /\ rmp' = [rmp EXCEPT !.at = "final"]
  /\ UNCHANGED <<rtask, sound, drains, calls>>

\* Slip: the stack is freed after a time-out too.
WaitTimesOutFreeing ==
  /\ rmp.at = "wait" /\ recorder.done = 0 /\ calls.late < MaxLate
  /\ calls' = [calls EXCEPT !.late = @ + 1]
  /\ recorder' = [recorder EXCEPT !.task = FALSE, !.stack = FALSE]
  /\ rmp' = [rmp EXCEPT !.at = "final"]
  /\ UNCHANGED <<rtask, sound, drains>>

\* The task has not answered in two seconds: it is forgotten, its stack kept.
WaitTimesOut ==
  /\ rmp.at = "wait" /\ recorder.done = 0 /\ calls.late < MaxLate
  /\ calls' = [calls EXCEPT !.late = @ + 1]
  /\ recorder' = [recorder EXCEPT !.task = FALSE]
  /\ rmp' = [rmp EXCEPT !.at = "final"]
  /\ UNCHANGED <<rtask, sound, drains>>

\* audiorecorder_finalize writes the header and closes the file; deinit() goes on to
\* free the ring and the channel.
Finalize ==
  /\ rmp.at = "header"
  /\ sound' = IF recorder.file THEN [sound EXCEPT !.header = recorder.total] ELSE sound
  /\ recorder' = [recorder EXCEPT !.file = FALSE, !.alive = ~rmp.deinit]
  /\ rmp' = Resting
  /\ UNCHANGED <<rtask, drains, calls>>

-----------------------------------------------------------------------------
RecorderTask == TaskBegins \/ Capture \/ SeesStop \/ PutSome \/ CountPut \/ ClearRecording \/ GiveRecorded
RecorderMethod == DrainWrites \/ DrainFails \/ NothingToDrain \/ StopConfirmed \/ Finalize

NextRecorder ==
  \/ Record \/ DrainScheduled \/ WaitTimesOut
  \/ \E deinit \in BOOLEAN : Stop(deinit)
  \/ RecorderTask \/ RecorderMethod

SpecRecorder == InitRecorder /\ [][NextRecorder]_rvars

\* The task runs, and the thread finishes what it is in.
FairRecorder == SpecRecorder /\ WF_rvars(RecorderTask) /\ WF_rvars(RecorderMethod)

-----------------------------------------------------------------------------
RecorderTypeOK ==
  /\ InRing \in 0..RecRing /\ sound.stored \in 0..sound.taken /\ sound.put \in 0..MaxPut
  /\ rtask.at \in {"none", "alloc", "loop", "put", "clear", "give"} /\ rtask.hold \in 0..RecChunk
  /\ rmp.at \in {"idle", "drain", "final", "header", "wait"}
  /\ recorder.done \in {0, 1} /\ drains \in 0..1

\* A finished recording is whole and its header says so: every unit the task has put into
\* the ring is counted, drained and stored, unless a write failed or the task did not stop
\* in time (audiorecorder.c:214-221 means to leave no "silent gap").  What the task still
\* holds when it sees stop_request is dropped (audiorecorder.c:368), and is not counted.
RecordedWhole ==
  rmp.at = "idle" /\ ~recorder.file /\ ~recorder.recording /\ ~recorder.failed /\ calls.late = 0 =>
    sound.header = sound.put /\ sound.stored = sound.put

\* The task runs on its own stack and, unless a wait for it timed out, on a ring that
\* exists; a done_sem left over is never taken for the task that runs now.
RecorderMemory ==
  rtask.at # "none" => /\ recorder.stack /\ recorder.done = 0
                       /\ recorder.recording \/ rtask.at = "give"
                       /\ recorder.alive \/ calls.late > 0

\* stop() gets its answer: the task never waits for room that only the thread waiting
\* for it could make.
RecorderStops == rmp.at = "wait" ~> rmp.at # "wait"
============================================================================
