----------------------------- MODULE AudioProofs -----------------------------
(***************************************************************************)
(* Proofs about AudioPlayer and AudioRecorder for any sizes of rings,      *)
(* buffers, chunks and files.                                              *)
(* The player: that no memory is freed under the task, and that a track is *)
(* played whole, both rest on playing: it is set exactly while the task is *)
(* at work, and while it is set no method opens a file or frees a stack.   *)
(* The recorder: what the task still holds is what stands between the      *)
(* bytes captured and those counted; while no wait has timed out a handle  *)
(* stands for every task, so that nothing is finalized before the task is  *)
(* over.                                                                   *)
(***************************************************************************)
EXTENDS AudioPlayer, AudioRecorder, TLAPS

-----------------------------------------------------------------------------
(* The player.                                                             *)

Working == Decoding \union {"exit"}

\* playing is the task's own; a play() between its check and the start of the task finds
\* neither task nor stack, and the ring it resets exists.
OneTrack ==
  /\ done \in {0, 1}
  /\ playing <=> task \in Working
  /\ mp \in {"reclaim", "open", "prime", "launch"} => alive /\ ~playing
  /\ mp \in {"open", "prime", "launch"} => ~stack /\ done = 0 /\ task # "give"

Counters ==
  /\ fetched \in Int /\ taken \in Int /\ spent \in Int /\ left \in Int
  /\ rounds \in Int /\ timeouts \in Nat
  /\ taken <= fetched

\* What eof tells: nothing more is to be fetched; and the task looks for an empty ring
\* only after it has seen eof.
EofIsEnd ==
  /\ eof /\ ~error => left = 0
  /\ task \in {"gather_empty", "wav_empty"} => eof
  /\ task \in {"mp3", "mp3_low", "mp3_decode"} => format = "mp3"

Memory == StackOutlivesTask /\ RingOutlivesTask /\ DoneIsCurrent /\ OneTrack

IInv == Memory /\ Counters /\ EofIsEnd /\ PlayedWhole

USE PlayerAssumption

\* The player as it is made satisfies the invariant.
LEMMA Initially == Init => IInv
<1> SUFFICES ASSUME Init PROVE IInv
  OBVIOUS
<1>1. Memory
  BY DEF Init, Memory, StackOutlivesTask, RingOutlivesTask, DoneIsCurrent, OneTrack, Working, Decoding
<1>2. Counters
  BY DEF Init, Counters
<1>3. EofIsEnd /\ PlayedWhole
  BY DEF Init, EofIsEnd, PlayedWhole
<1>. QED
  BY <1>1, <1>2, <1>3 DEF IInv

\* No step frees memory under the task, lets two tracks run, or leaves a done_sem.
LEMMA MemoryKept == Memory /\ timeouts \in Nat /\ [Next]_vars => Memory'
<1> SUFFICES ASSUME Memory, timeouts \in Nat, [Next]_vars PROVE Memory'
  OBVIOUS
<1> USE DEF Memory, StackOutlivesTask, RingOutlivesTask, DoneIsCurrent, OneTrack, Working, Decoding
<1>1. CASE Play
  <2>1. CASE stack
    BY <1>1, <2>1 DEF Play, feeds, ring
  <2>2. CASE ~stack
    BY <1>1, <2>2 DEF Play, feeds, ring
  <2>. QED
    BY <2>1, <2>2
<1>2. CASE Feed \/ FeedScheduled \/ Pause
  BY <1>2 DEF Feed, FeedScheduled, Pause, feeds, ring
<1>3. ASSUME NEW why \in {"stop", "deinit"}, AskToStop(why) PROVE Memory'
  BY <1>3 DEF AskToStop, feeds, ring
<1>4. ASSUME NEW why \in {"stop", "deinit"}, TimedOut(why) PROVE Memory'
  <2>1. timeouts' # 0
    BY <1>4 DEF TimedOut
  <2>. QED
    BY <1>4, <2>1 DEF TimedOut, Close, feeds, ring
<1>5. ASSUME NEW why \in {"stop", "deinit"}, CloseIdle(why) PROVE Memory'
  BY <1>5 DEF CloseIdle, Close, feeds, ring
<1>6. CASE Reclaim
  BY <1>6 DEF Reclaim, feeds, ring
<1>7. CASE Open
  BY <1>7 DEF Open, feeds, ring
<1>8. CASE FeedStep
  BY <1>8 DEF FeedStep, FeedData, FeedFull, FeedEof, FeedEnds, EndFeed, AfterFeed, Feeding, feeds, ring
<1>9. CASE Launch
  BY <1>9 DEF Launch, feeds, ring
<1>10. ASSUME NEW why \in {"stop", "deinit"}, Confirmed(why) PROVE Memory'
  BY <1>10 DEF Confirmed, Close, feeds, ring
<1>11. CASE TaskStep
  <2>1. CASE Gather \/ GatherEmpty \/ GatherRead \/ Gathered \/ Begin \/ ObeyStop \/ Flush
    BY <1>11, <2>1 DEF Gather, GatherEmpty, GatherRead, Gathered, Begin, ObeyStop, Flush, Goto, Quietly, python
  <2>2. CASE WavWrite \/ WavEof \/ WavEmpty \/ WavRead
    BY <1>11, <2>2 DEF WavWrite, WavEof, WavEmpty, WavRead, Goto, Quietly, python
  <2>3. CASE Mp3Read \/ Mp3Low \/ Mp3Decode \/ GiveUp
    BY <1>11, <2>3 DEF Mp3Read, Mp3Low, Mp3Decode, GiveUp, Goto, Quietly, python
  <2>4. CASE ClearPlaying \/ GiveDone \/ Delete
    BY <1>11, <2>4 DEF ClearPlaying, GiveDone, Delete, Goto, Quietly, python
  <2>. QED
    BY <1>11, <2>1, <2>2, <2>3, <2>4 DEF TaskStep
<1>12. CASE UNCHANGED vars
  BY <1>12 DEF vars, python, feeds, ring
<1>. QED
  BY <1>1, <1>2, <1>3, <1>4, <1>5, <1>6, <1>7, <1>8, <1>9, <1>10, <1>11, <1>12 DEF Next, MethodStep

\* What is fetched, taken and spent stays a number.
LEMMA CountersKept == Counters /\ [Next]_vars => Counters'
<1> SUFFICES ASSUME Counters, [Next]_vars PROVE Counters'
  OBVIOUS
<1> USE DEF Counters, Available, BytesLeft, Lesser
<1>1. CASE Play \/ Feed \/ FeedScheduled \/ Pause
  BY <1>1 DEF Play, Feed, FeedScheduled, Pause, feeds, ring
<1>2. ASSUME NEW why \in {"stop", "deinit"}, AskToStop(why) \/ TimedOut(why) \/ CloseIdle(why) \/ Confirmed(why)
      PROVE Counters'
  BY <1>2 DEF AskToStop, TimedOut, CloseIdle, Confirmed, Close, feeds, ring
<1>3. CASE Reclaim \/ Open \/ Launch
  BY <1>3 DEF Reclaim, Open, Launch, feeds, ring
<1>4. CASE FeedStep
  <2>1. CASE FeedData
    BY <2>1 DEF FeedData
  <2>2. CASE FeedFull \/ FeedEof \/ FeedEnds
    BY <2>2 DEF FeedFull, FeedEof, FeedEnds, EndFeed, feeds, ring
  <2>. QED
    BY <1>4, <2>1, <2>2 DEF FeedStep
<1>5. CASE TaskStep
  <2>1. rounds' = rounds /\ timeouts' = timeouts /\ left' = left /\ fetched' = fetched
    BY <1>5 DEF TaskStep, Gather, GatherEmpty, GatherRead, Gathered, Begin, ObeyStop, Flush, WavWrite, WavEof, WavEmpty,
       WavRead, Mp3Read, Mp3Low, Mp3Decode, GiveUp, ClearPlaying, GiveDone, Delete, Quietly, python, ring
  <2>2. CASE GatherRead
    BY <2>1, <2>2 DEF GatherRead
  <2>3. CASE Begin \/ WavWrite \/ Mp3Decode
    BY <2>1, <2>3 DEF Begin, WavWrite, Mp3Decode
  <2>4. CASE WavRead \/ Mp3Read
    BY <2>1, <2>4 DEF WavRead, Mp3Read
  <2>5. CASE UNCHANGED <<taken, spent>>
    BY <2>1, <2>5
  <2>. QED
    BY <1>5, <2>2, <2>3, <2>4, <2>5 DEF TaskStep, Gather, GatherEmpty, Gathered, ObeyStop, Flush, WavEof, WavEmpty,
       Mp3Low, GiveUp, ClearPlaying, GiveDone, Delete, Quietly, ring
<1>6. CASE UNCHANGED vars
  BY <1>6 DEF vars, python, ring
<1>. QED
  BY <1>1, <1>2, <1>3, <1>4, <1>5, <1>6 DEF Next, MethodStep

\* A step of the thread: it opens a file only when no task is at work, and fetches nothing
\* after eof.
LEMMA ThreadKeeps ==
  ASSUME IInv, EofIsEnd, PlayedWhole,
         \/ Play \/ Feed \/ FeedScheduled \/ Pause \/ MethodStep
         \/ \E why \in {"stop", "deinit"} : AskToStop(why) \/ TimedOut(why) \/ CloseIdle(why)
  PROVE  EofIsEnd' /\ PlayedWhole'
<1> USE DEF EofIsEnd, PlayedWhole
<1>1. CASE Play \/ Feed \/ FeedScheduled \/ Pause \/ Reclaim
  BY <1>1 DEF Play, Feed, FeedScheduled, Pause, Reclaim, feeds, ring
<1>2. ASSUME NEW why \in {"stop", "deinit"}, AskToStop(why) \/ TimedOut(why) \/ CloseIdle(why) \/ Confirmed(why)
      PROVE EofIsEnd' /\ PlayedWhole'
  BY <1>2 DEF AskToStop, TimedOut, CloseIdle, Confirmed, Close, feeds, ring
<1>3. CASE Open \/ Launch
  <2>1. task \notin Working
    BY <1>3 DEF IInv, Memory, OneTrack, Open, Launch
  <2>. QED
    BY <1>3, <2>1 DEF Open, Launch, feeds, ring, Working, Decoding
<1>4. CASE FeedStep
  BY <1>4 DEF FeedStep, FeedData, FeedFull, FeedEof, FeedEnds, EndFeed, feeds, ring
<1>. QED
  BY <1>1, <1>2, <1>3, <1>4 DEF MethodStep

\* A step of the task: it comes to its end with bytes left only when asked to stop, on an
\* error, or for want of a sync word.
LEMMA TaskKeeps == ASSUME Counters, EofIsEnd, PlayedWhole, TaskStep PROVE EofIsEnd' /\ PlayedWhole'
<1> USE DEF EofIsEnd, PlayedWhole
<1>1. CASE Gather \/ Gathered \/ Begin \/ ObeyStop \/ Flush \/ GiveUp
  BY <1>1 DEF Gather, Gathered, Begin, ObeyStop, Flush, GiveUp, Goto, Quietly, python, ring
<1>2. CASE GatherEmpty \/ WavEmpty
  BY <1>2 DEF Counters, GatherEmpty, WavEmpty, Available, BytesLeft, Goto, Quietly, python, ring
<1>3. CASE GatherRead \/ WavRead \/ WavWrite \/ WavEof
  BY <1>3 DEF GatherRead, WavRead, WavWrite, WavEof, Goto, Quietly, python, ring
<1>4. CASE Mp3Read \/ Mp3Low \/ Mp3Decode
  BY <1>4 DEF Mp3Read, Mp3Low, Mp3Decode, Goto, Quietly, python, ring
<1>5. CASE ClearPlaying \/ GiveDone \/ Delete
  BY <1>5 DEF ClearPlaying, GiveDone, Delete, Goto, Quietly, python, ring
<1>. QED
  BY <1>1, <1>2, <1>3, <1>4, <1>5 DEF TaskStep

\* Every step keeps the invariant.
LEMMA Inductive == IInv /\ [Next]_vars => IInv'
<1> SUFFICES ASSUME IInv, [Next]_vars PROVE IInv'
  OBVIOUS
<1>1. Memory'
  BY MemoryKept DEF IInv, Counters
<1>2. Counters'
  BY CountersKept DEF IInv
<1>3. EofIsEnd' /\ PlayedWhole'
  <2>1. CASE TaskStep
    BY <2>1, TaskKeeps DEF IInv
  <2>2. CASE UNCHANGED vars
    BY <2>2 DEF IInv, EofIsEnd, PlayedWhole, vars, python, ring
  <2>. QED
    BY <2>1, <2>2, ThreadKeeps DEF IInv, Next
<1>. QED
  BY <1>1, <1>2, <1>3 DEF IInv

\* The invariant holds in every reachable state.
THEOREM Invariance == Spec => []IInv
BY Initially, Inductive, PTL DEF Spec

\* The stack is there as long as the task uses it, and so are ring and channel until a wait
\* for the task has timed out, after which deinit() frees them all the same
\* (audioplayer.c:872-874, 981-985, 1223-1228, 1266-1286).
THEOREM MemoryIsKept == Spec => []MemoryOutlivesTask
<1>1. IInv => MemoryOutlivesTask
  BY DEF IInv, Memory, MemoryOutlivesTask
<1>. QED
  BY <1>1, Invariance, PTL

\* A done_sem is never left over for the next track (audioplayer.c:873, 981-985).
THEOREM DoneTellsOfNow == Spec => []DoneIsCurrent
<1>1. IInv => DoneIsCurrent
  BY DEF IInv, Memory
<1>. QED
  BY <1>1, Invariance, PTL

\* A WAV track that ends by itself has been played to its last byte, whatever the sizes of
\* ring and buffers and however feeds and task interleave (audioplayer.c:609-625).
THEOREM TracksAreWhole == Spec => []PlayedWhole
<1>1. IInv => PlayedWhole
  BY DEF IInv
<1>. QED
  BY <1>1, Invariance, PTL

-----------------------------------------------------------------------------
(* The recorder.                                                           *)

Objects == [file : BOOLEAN, stack : BOOLEAN, task : BOOLEAN, alive : BOOLEAN, recording : BOOLEAN,
            stop : BOOLEAN, done : {0, 1}, pending : BOOLEAN, max : Int, total : Int, failed : BOOLEAN]
Threads == [at : {"idle", "drain", "final", "header", "wait"}, rounds : Int, deinit : BOOLEAN]
Tasks == [at : {"none", "alloc", "loop", "put", "clear", "give"}, hold : Int, written : Int]
Sounds == [put : Int, taken : Int, stored : Int, header : Int]
Calls == [records : Int, late : Nat]

Kinds == recorder \in Objects /\ rmp \in Threads /\ rtask \in Tasks /\ sound \in Sounds /\ calls \in Calls

\* done_sem and a missing handle speak of a task that is over, the latter unless a wait
\* has timed out.
Handles ==
  /\ recorder.done = 1 => recorder.stack
  /\ rtask.at # "none" /\ calls.late = 0 => recorder.task /\ rmp.at \notin {"final", "header"}

InHand == IF rtask.at = "put" THEN rtask.written ELSE 0

\* What is in the ring is never negative; what was put is counted or in hand.
Accounts ==
  /\ sound.taken <= sound.put
  /\ sound.put = recorder.total + InHand
  /\ ~recorder.failed => sound.stored = sound.taken

\* A file is closed when its task is over and the ring drained, the header written.
Closed ==
  /\ ~recorder.file /\ calls.late = 0 => rtask.at = "none" /\ sound.header = recorder.total
  /\ (~recorder.file \/ rmp.at = "header") /\ ~recorder.failed /\ calls.late = 0 => sound.taken = sound.put

RecorderIInv == Kinds /\ RecorderMemory /\ Handles /\ Accounts /\ Closed

USE RecorderAssumption

\* The sizes are numbers.
LEMMA Sizes == RecRing \in Nat /\ DrainRounds \in Nat /\ DrainChunk \in Nat /\ RecChunk \in Nat
BY DEF RecorderAssumption

\* The recorder as it is made satisfies the invariant.
LEMMA RecorderInitially == InitRecorder => RecorderIInv
<1> SUFFICES ASSUME InitRecorder PROVE RecorderIInv
  OBVIOUS
<1>1. Kinds
  BY DEF InitRecorder, Kinds, Objects, Threads, Tasks, Sounds, Calls, Resting, NoTask, Silence
<1>2. RecorderMemory /\ Handles /\ Accounts /\ Closed
  BY DEF InitRecorder, RecorderMemory, Handles, Accounts, Closed, InHand, Resting, NoTask, Silence
<1>. QED
  BY <1>1, <1>2 DEF RecorderIInv

\* A new recording begins when the task of the last one is over, with everything at zero.
LEMMA RecordKeeps == ASSUME RecorderIInv, Record PROVE RecorderIInv'
<1> DEFINE reclaimed == IF recorder.stack
                        THEN [recorder EXCEPT !.stack = FALSE, !.task = FALSE, !.done = 0]
                        ELSE recorder
<1>1. Kinds /\ RecorderMemory /\ Handles /\ Accounts /\ Closed
  BY DEF RecorderIInv
<1>2. rmp' = rmp /\ rmp.at = "idle" /\ recorder.alive /\ ~recorder.recording /\ (recorder.stack => recorder.done = 1)
  BY DEF Record, MayReclaim
<1>3. rtask.at = "none"
  BY <1>1, <1>2 DEF RecorderMemory
<1>4. calls' \in Calls /\ calls'.late = calls.late
  <2>1. calls' = [calls EXCEPT !.records = @ + 1]
    BY DEF Record
  <2>. QED
    BY <1>1, <2>1 DEF Kinds, Calls
<1>5. /\ reclaimed \in Objects /\ reclaimed.done = 0 /\ ~reclaimed.stack
      /\ reclaimed.file = recorder.file /\ reclaimed.total = recorder.total
      /\ reclaimed.failed = recorder.failed /\ reclaimed.alive
  <2>1. CASE recorder.stack
    BY <1>1, <1>2, <2>1 DEF Kinds, Objects
  <2>2. CASE ~recorder.stack
    BY <1>1, <1>2, <2>2 DEF Kinds, Objects, Handles
  <2>. QED
    BY <2>1, <2>2
<1>6. \/ recorder' = reclaimed /\ UNCHANGED <<rtask, sound>>
      \/ \E max \in {0, RecRing}, made \in BOOLEAN :
           /\ recorder' = [reclaimed EXCEPT !.file = TRUE, !.max = max, !.total = 0, !.stop = FALSE,
                             !.failed = FALSE, !.stack = made, !.recording = made,
                             !.task = IF made THEN TRUE ELSE @]
           /\ rtask' = IF made THEN [NoTask EXCEPT !.at = "alloc"] ELSE rtask
           /\ sound' = Silence
  BY DEF Record
<1> HIDE DEF reclaimed
<1>7. CASE recorder' = reclaimed /\ UNCHANGED <<rtask, sound>>
  <2>1. recorder'.file = recorder.file /\ recorder'.total = recorder.total
        /\ recorder'.failed = recorder.failed /\ recorder'.done = 0 /\ recorder' \in Objects
    BY <1>5, <1>7
  <2>2. Kinds'
    BY <1>1, <1>2, <1>4, <1>7, <2>1 DEF Kinds
  <2>. QED
    BY <1>1, <1>2, <1>3, <1>4, <1>7, <2>1, <2>2 DEF RecorderIInv, RecorderMemory, Handles, Accounts, Closed, InHand
<1>8. ASSUME NEW max \in {0, RecRing}, NEW made \in BOOLEAN,
             recorder' = [reclaimed EXCEPT !.file = TRUE, !.max = max, !.total = 0, !.stop = FALSE,
                            !.failed = FALSE, !.stack = made, !.recording = made,
                            !.task = IF made THEN TRUE ELSE @],
             rtask' = IF made THEN [NoTask EXCEPT !.at = "alloc"] ELSE rtask,
             sound' = Silence
      PROVE  RecorderIInv'
  <2>1. /\ recorder' \in Objects /\ recorder'.file /\ recorder'.total = 0 /\ ~recorder'.failed
        /\ recorder'.done = 0 /\ recorder'.alive
        /\ made => recorder'.stack /\ recorder'.recording /\ recorder'.task
    <3>1. max \in Int
      BY Sizes
    <3>2. PICK handle \in BOOLEAN :
            /\ recorder' = [reclaimed EXCEPT !.file = TRUE, !.max = max, !.total = 0, !.stop = FALSE,
                              !.failed = FALSE, !.stack = made, !.recording = made, !.task = handle]
            /\ made => handle
      <4>1. reclaimed.task \in BOOLEAN
        BY <1>5 DEF Objects
      <4>2. CASE made
        BY <1>8, <4>1, <4>2
      <4>3. CASE ~made
        BY <1>8, <4>1, <4>3
      <4>. QED
        BY <4>2, <4>3
    <3>3. /\ recorder' \in Objects /\ recorder'.file /\ recorder'.total = 0 /\ ~recorder'.failed
          /\ recorder'.done = reclaimed.done /\ recorder'.alive = reclaimed.alive
          /\ recorder'.stack = made /\ recorder'.recording = made /\ recorder'.task = handle
      <4> DEFINE u == [reclaimed EXCEPT !.file = TRUE, !.max = max, !.total = 0, !.stop = FALSE,
                         !.failed = FALSE, !.stack = made, !.recording = made, !.task = handle]
      <4>1. /\ u \in Objects /\ u.file /\ u.total = 0 /\ ~u.failed /\ u.done = reclaimed.done
            /\ u.alive = reclaimed.alive /\ u.stack = made /\ u.recording = made /\ u.task = handle
        <5>0. reclaimed \in Objects /\ made \in BOOLEAN /\ handle \in BOOLEAN /\ max \in Int
          BY <1>5, <3>1, <3>2
        <5>1. u \in Objects
          <6> DEFINE limited == [reclaimed EXCEPT !.max = max]
                     counted == [limited EXCEPT !.total = 0]
                     opened == [counted EXCEPT !.file = TRUE, !.stop = FALSE]
          <6>1. limited \in Objects
            BY <5>0 DEF Objects
          <6>2. counted \in Objects
            <7> HIDE DEF limited
            <7>. QED
              BY <6>1 DEF Objects
          <6>3. opened \in Objects
            <7> HIDE DEF counted
            <7>. QED
              BY <6>2 DEF Objects
          <6>4. u = [opened EXCEPT !.failed = FALSE, !.stack = made, !.recording = made, !.task = handle]
            BY <5>0 DEF Objects
          <6> HIDE DEF opened
          <6> DEFINE stacked == [opened EXCEPT !.failed = FALSE, !.stack = made]
          <6>5. stacked \in Objects
            BY <5>0, <6>3 DEF Objects
          <6>6. u = [stacked EXCEPT !.recording = made, !.task = handle]
            BY <6>3, <6>4 DEF Objects
          <6> HIDE DEF stacked, u
          <6>. QED
            BY <5>0, <6>5, <6>6 DEF Objects
        <5>2. u.file = TRUE /\ u.total = 0 /\ u.failed = FALSE
          BY <5>0 DEF Objects
        <5>3. u.done = reclaimed.done /\ u.alive = reclaimed.alive
          BY <5>0 DEF Objects
        <5>4. u.stack = made /\ u.recording = made /\ u.task = handle
          BY <5>0 DEF Objects
        <5>. QED
          BY <5>1, <5>2, <5>3, <5>4
      <4>2. recorder' = u
        BY <3>2
      <4> HIDE DEF u
      <4>. QED
        BY <4>1, <4>2
    <3>. QED
      BY <1>5, <3>2, <3>3
  <2>2. sound' \in Sounds /\ sound'.put = 0 /\ sound'.taken = 0 /\ sound'.stored = 0
    BY <1>8 DEF Silence, Sounds
  <2>3. rtask' \in Tasks /\ rtask'.at \in {"none", "alloc"} /\ (rtask'.at = "alloc" => made)
    BY <1>1, <1>3, <1>8 DEF NoTask, Tasks, Kinds
  <2>4. Kinds'
    BY <1>1, <1>2, <1>4, <2>1, <2>2, <2>3 DEF Kinds
  <2>. QED
    BY <1>2, <1>4, <2>1, <2>2, <2>3, <2>4 DEF RecorderIInv, RecorderMemory, Handles, Accounts, Closed, InHand
<1>. QED
  BY <1>6, <1>7, <1>8

\* Every step of the task.
LEMMA RecorderTaskKeeps == ASSUME RecorderIInv, RecorderTask PROVE RecorderIInv'
<1>1. Kinds /\ RecorderMemory /\ Handles /\ Accounts /\ Closed
  BY DEF RecorderIInv
<1> USE DEF Kinds
<1>2. CASE TaskBegins \/ SeesStop
  <2>1. OnlyTask /\ rtask' \in Tasks /\ rtask.at \in {"alloc", "loop"} /\ rtask'.at \in {"loop", "clear"}
    BY <1>1, <1>2 DEF TaskBegins, SeesStop, TaskGoto, Tasks
  <2>. QED
    BY <1>1, <2>1 DEF OnlyTask, RecorderIInv, RecorderMemory, Handles, Accounts, Closed, InHand
<1>3. CASE Capture
  <2>1. OnlyTask /\ rtask' \in Tasks /\ rtask.at = "loop" /\ rtask'.at = "put" /\ rtask'.written = 0
    BY <1>1, <1>3 DEF Capture, Tasks, Sounds, Smaller
  <2>. QED
    BY <1>1, <2>1 DEF OnlyTask, RecorderIInv, RecorderMemory, Handles, Accounts, Closed, InHand
<1>4. CASE PutSome
  <2>1. PICK n \in Nat : /\ rtask' = [rtask EXCEPT !.hold = @ - n, !.written = @ + n]
                         /\ sound' = [sound EXCEPT !.put = @ + n]
    <3>1. Smaller(rtask.hold, RecRing - InRing) \in Nat
      BY <1>1, <1>4, Sizes DEF PutSome, InRing, Smaller, Tasks, Sounds
    <3>. QED
      BY <1>4, <3>1 DEF PutSome
  <2>2. rtask' \in Tasks /\ rtask'.at = rtask.at /\ rtask'.written = rtask.written + n
    <3> DEFINE h == rtask.hold - n
               w == rtask.written + n
    <3>1. h \in Int /\ w \in Int /\ rtask \in Tasks
      BY <1>1 DEF Tasks
    <3>2. rtask' = [rtask EXCEPT !.hold = h, !.written = w]
      BY <2>1
    <3> HIDE DEF h, w
    <3>3. rtask' \in Tasks /\ rtask'.at = rtask.at /\ rtask'.written = w
      BY <3>1, <3>2 DEF Tasks
    <3>. QED
      BY <3>3 DEF w
  <2>3. sound' \in Sounds /\ sound'.put = sound.put + n /\ sound'.taken = sound.taken
        /\ sound'.stored = sound.stored /\ sound'.header = sound.header
    BY <1>1, <2>1 DEF Sounds
  <2>4. rtask.at = "put" /\ UNCHANGED <<recorder, rmp, calls>>
    BY <1>4 DEF PutSome
  <2>5. /\ recorder.total \in Int /\ sound.put \in Int /\ sound.taken \in Int /\ sound.stored \in Int
        /\ sound.header \in Int /\ rtask.written \in Int /\ calls.late \in Nat
    BY <1>1 DEF Objects, Sounds, Tasks, Calls
  <2>. QED
    BY <1>1, <2>2, <2>3, <2>4, <2>5 DEF RecorderIInv, RecorderMemory, Handles, Accounts, Closed, InHand
<1>5. CASE CountPut
  <2>1. PICK total : total = recorder.total + rtask.written
                     /\ recorder' \in {[recorder EXCEPT !.total = total, !.pending = TRUE],
                                       [recorder EXCEPT !.total = total]}
    BY <1>5 DEF CountPut, Counted
  <2>2. total \in Int
    BY <1>1, <2>1 DEF Objects, Tasks
  <2>3. /\ recorder' \in Objects /\ recorder'.total = total /\ recorder'.file = recorder.file
        /\ recorder'.stack = recorder.stack /\ recorder'.task = recorder.task
        /\ recorder'.alive = recorder.alive /\ recorder'.recording = recorder.recording
        /\ recorder'.done = recorder.done /\ recorder'.failed = recorder.failed
    <3>1. CASE recorder' = [recorder EXCEPT !.total = total, !.pending = TRUE]
      <4>1. recorder' \in Objects
        BY <1>1, <2>2, <3>1 DEF Objects
      <4>2. QED
        BY <1>1, <3>1, <4>1 DEF Objects
    <3>2. CASE recorder' = [recorder EXCEPT !.total = total]
      <4>1. recorder' \in Objects
        BY <1>1, <2>2, <3>2 DEF Objects
      <4>2. QED
        BY <1>1, <3>2, <4>1 DEF Objects
    <3>3. QED
      BY <2>1, <3>1, <3>2
  <2>4. rtask' \in Tasks /\ rtask.at = "put" /\ rtask'.at \in {"clear", "loop"} /\ UNCHANGED <<rmp, sound, calls>>
    BY <1>1, <1>5 DEF CountPut, TaskGoto, Tasks
  <2>5. /\ recorder.total \in Int /\ sound.put \in Int /\ rtask.written \in Int
    BY <1>1 DEF Objects, Sounds, Tasks
  <2>6. Accounts'
    BY <1>1, <2>1, <2>3, <2>4, <2>5 DEF Accounts, InHand
  <2>7. RecorderMemory' /\ Handles' /\ Closed'
    BY <1>1, <2>3, <2>4 DEF RecorderMemory, Handles, Closed
  <2>. QED
    BY <1>1, <2>3, <2>4, <2>6, <2>7 DEF RecorderIInv
<1>6. CASE ClearRecording
  <2>1. /\ recorder' \in Objects /\ recorder'.total = recorder.total /\ recorder'.file = recorder.file
        /\ recorder'.stack = recorder.stack /\ recorder'.task = recorder.task
        /\ recorder'.alive = recorder.alive
        /\ recorder'.done = recorder.done /\ recorder'.failed = recorder.failed
    BY <1>1, <1>6 DEF ClearRecording, Objects
  <2>2. rtask' \in Tasks /\ rtask.at = "clear" /\ rtask'.at = "give" /\ UNCHANGED <<rmp, sound, calls>>
    BY <1>1, <1>6 DEF ClearRecording, TaskGoto, Tasks
  <2>. QED
    BY <1>1, <2>1, <2>2 DEF RecorderIInv, RecorderMemory, Handles, Accounts, Closed, InHand
<1>7. CASE GiveRecorded
  <2>1. /\ recorder' \in Objects /\ recorder'.total = recorder.total /\ recorder'.file = recorder.file
        /\ recorder'.stack = recorder.stack /\ recorder'.failed = recorder.failed
    BY <1>1, <1>7 DEF GiveRecorded, Objects
  <2>2. rtask' \in Tasks /\ rtask.at = "give" /\ rtask'.at = "none" /\ UNCHANGED <<rmp, sound, calls>>
    BY <1>7 DEF GiveRecorded, NoTask, Tasks
  <2>. QED
    BY <1>1, <2>1, <2>2 DEF RecorderIInv, RecorderMemory, Handles, Accounts, Closed, InHand
<1>. QED
  BY <1>2, <1>3, <1>4, <1>5, <1>6, <1>7 DEF RecorderTask

\* Every step of a drain, stop() or deinit().
LEMMA RecorderThreadKeeps ==
  ASSUME RecorderIInv, DrainScheduled \/ WaitTimesOut \/ RecorderMethod \/ \E deinit \in BOOLEAN : Stop(deinit)
  PROVE  RecorderIInv'
<1>1. Kinds /\ RecorderMemory /\ Handles /\ Accounts /\ Closed
  BY DEF RecorderIInv
<1> USE DEF Kinds
<1>2. CASE DrainScheduled
  <2>1. /\ recorder' \in Objects /\ recorder'.total = recorder.total /\ recorder'.file = recorder.file
        /\ recorder'.stack = recorder.stack /\ recorder'.task = recorder.task
        /\ recorder'.alive = recorder.alive /\ recorder'.recording = recorder.recording
        /\ recorder'.done = recorder.done /\ recorder'.failed = recorder.failed
    BY <1>1, <1>2 DEF DrainScheduled, Objects
  <2>2. rmp' \in Threads /\ rmp'.at = "drain" /\ UNCHANGED <<rtask, sound, calls>>
    <3>1. rmp' = [rmp EXCEPT !.at = "drain", !.rounds = DrainRounds] /\ UNCHANGED <<rtask, sound, calls>>
      BY <1>2 DEF DrainScheduled
    <3>2. rmp \in Threads /\ DrainRounds \in Int
      BY <1>1, Sizes
    <3>3. rmp' \in Threads /\ rmp'.at = "drain"
      BY <3>1, <3>2 DEF Threads
    <3>. QED
      BY <3>1, <3>3
  <2>. QED
    BY <1>1, <2>1, <2>2 DEF RecorderIInv, RecorderMemory, Handles, Accounts, Closed, InHand
<1>3. CASE WaitTimesOut
  <2>1. /\ recorder' \in Objects /\ recorder'.total = recorder.total /\ recorder'.file = recorder.file
        /\ recorder'.stack = recorder.stack
        /\ recorder'.alive = recorder.alive /\ recorder'.recording = recorder.recording
        /\ recorder'.done = recorder.done /\ recorder'.failed = recorder.failed
    BY <1>1, <1>3 DEF WaitTimesOut, Objects
  <2>2. rmp' \in Threads /\ rmp'.at = "final" /\ UNCHANGED <<rtask, sound>>
    BY <1>1, <1>3 DEF WaitTimesOut, Threads
  <2>3. calls' \in Calls /\ calls'.late # 0 /\ calls'.late > 0
    BY <1>1, <1>3 DEF WaitTimesOut, Calls
  <2>. QED
    BY <1>1, <2>1, <2>2, <2>3 DEF RecorderIInv, RecorderMemory, Handles, Accounts, Closed, InHand
<1>4. CASE DrainWrites \/ DrainFails
  <2>1. PICK n \in Nat, k \in Int :
          /\ n <= sound.put - sound.taken
          /\ sound' = [sound EXCEPT !.taken = @ + n, !.stored = @ + k]
          /\ \/ k = n /\ recorder' = recorder
             \/ recorder' = [recorder EXCEPT !.failed = TRUE]
    <3>1. InRing \in Int /\ (InRing > 0 => Smaller(InRing, DrainChunk) \in Nat /\ Smaller(InRing, DrainChunk) <= InRing)
      BY <1>1, Sizes DEF InRing, Smaller, Sounds
    <3> DEFINE n == Smaller(InRing, DrainChunk)
    <3>2. CASE DrainWrites
      <4>1. InRing > 0 /\ sound' = [sound EXCEPT !.taken = @ + n, !.stored = @ + n] /\ recorder' = recorder
        BY <3>2 DEF DrainWrites
      <4>2. n \in Nat /\ n \in Int /\ n <= sound.put - sound.taken
        BY <3>1, <4>1 DEF InRing
      <4>. QED
        BY <4>1, <4>2
    <3>3. CASE DrainFails
      <4>1. InRing > 0 /\ recorder' = [recorder EXCEPT !.failed = TRUE]
        BY <3>3 DEF DrainFails
      <4>2. n \in Nat /\ n <= sound.put - sound.taken
        BY <3>1, <4>1 DEF InRing
      <4>3. PICK k \in 0..(n - 1) : sound' = [sound EXCEPT !.taken = @ + n, !.stored = @ + k]
        BY <3>3 DEF DrainFails
      <4>4. k \in Int
        BY <4>2
      <4>. QED
        BY <4>1, <4>2, <4>3, <4>4
    <3>. QED
      BY <1>4, <3>2, <3>3
  <2>3. sound' \in Sounds /\ sound'.put = sound.put /\ sound'.taken = sound.taken + n
        /\ sound'.stored = sound.stored + k /\ sound'.header = sound.header
    <3> DEFINE t == sound.taken + n
               f == sound.stored + k
    <3>1. t \in Int /\ f \in Int /\ sound \in Sounds
      BY <1>1, <2>1 DEF Sounds
    <3>2. sound' = [sound EXCEPT !.taken = t, !.stored = f]
      BY <2>1
    <3> HIDE DEF t, f
    <3>3. sound' \in Sounds /\ sound'.put = sound.put /\ sound'.taken = t /\ sound'.stored = f
          /\ sound'.header = sound.header
      BY <3>1, <3>2 DEF Sounds
    <3>. QED
      BY <3>3 DEF t, f
  <2>4. /\ recorder' \in Objects /\ recorder'.total = recorder.total /\ recorder'.file = recorder.file
        /\ recorder'.stack = recorder.stack /\ recorder'.task = recorder.task
        /\ recorder'.alive = recorder.alive /\ recorder'.recording = recorder.recording
        /\ recorder'.done = recorder.done
        /\ (k = n /\ recorder'.failed = recorder.failed) \/ recorder'.failed
    <3>1. CASE k = n /\ recorder' = recorder
      BY <1>1, <3>1
    <3>2. CASE recorder' = [recorder EXCEPT !.failed = TRUE]
      BY <1>1, <3>2 DEF Objects
    <3>. QED
      BY <2>1, <3>1, <3>2
  <2>5. /\ rmp' \in Threads /\ recorder.file /\ UNCHANGED <<rtask, calls>>
        /\ rmp'.at = "header" => rmp.at = "final" /\ recorder'.failed
        /\ rmp'.at = "final" => rmp.at = "final"
    <3>1. Resting \in Threads /\ Resting.at = "idle"
      BY DEF Resting, Threads
    <3>2. CASE DrainWrites
      BY <1>1, <3>1, <3>2 DEF DrainWrites, Draining, AfterDrain, Threads
    <3>3. CASE DrainFails
      <4>1. recorder'.failed
        BY <1>1, <3>3 DEF DrainFails, Objects
      <4>2. rmp' = EndOfDrains /\ rmp.at \in {"drain", "final"} /\ recorder.file /\ UNCHANGED <<rtask, calls>>
        BY <3>3 DEF DrainFails, Draining
      <4>. QED
        BY <1>1, <3>1, <4>1, <4>2 DEF EndOfDrains, Threads
    <3>. QED
      BY <1>4, <3>2, <3>3
  <2>6. /\ recorder.total \in Int /\ sound.put \in Int /\ sound.taken \in Int /\ sound.stored \in Int
    BY <1>1 DEF Objects, Sounds
  <2>. QED
    BY <1>1, <2>1, <2>3, <2>4, <2>5, <2>6 DEF RecorderIInv, RecorderMemory, Handles, Accounts, Closed, InHand
<1>5. CASE NothingToDrain
  <2>1. /\ rmp' \in Threads /\ OnlyMp /\ rmp'.at \in {"idle", "header"}
        /\ rmp'.at = "header" => rmp.at = "final"
        /\ recorder.file => sound.put = sound.taken
    BY <1>1, <1>5 DEF NothingToDrain, Draining, InRing, EndOfDrains, Resting, Threads, Sounds
  <2>. QED
    BY <1>1, <2>1 DEF OnlyMp, RecorderIInv, RecorderMemory, Handles, Accounts, Closed, InHand
<1>6. CASE StopConfirmed
  <2>1. /\ recorder' \in Objects /\ recorder'.total = recorder.total /\ recorder'.file = recorder.file
        /\ recorder'.done = 0 /\ recorder'.failed = recorder.failed
    BY <1>1, <1>6 DEF StopConfirmed, Objects
  <2>2. rmp' \in Threads /\ rmp'.at = "final" /\ UNCHANGED <<rtask, sound, calls>>
    BY <1>1, <1>6 DEF StopConfirmed, Threads
  <2>3. rtask.at = "none"
    BY <1>1, <1>6 DEF StopConfirmed, RecorderMemory
  <2>. QED
    BY <1>1, <2>1, <2>2, <2>3 DEF RecorderIInv, RecorderMemory, Handles, Accounts, Closed, InHand
<1>7. CASE Finalize
  <2>1. /\ recorder' \in Objects /\ recorder'.total = recorder.total /\ ~recorder'.file
        /\ recorder'.stack = recorder.stack /\ recorder'.task = recorder.task
        /\ recorder'.recording = recorder.recording
        /\ recorder'.done = recorder.done /\ recorder'.failed = recorder.failed
    BY <1>1, <1>7 DEF Finalize, Objects, Threads
  <2>2. /\ sound' \in Sounds /\ sound'.put = sound.put /\ sound'.taken = sound.taken
        /\ sound'.stored = sound.stored
        /\ sound'.header = IF recorder.file THEN recorder.total ELSE sound.header
    BY <1>1, <1>7 DEF Finalize, Sounds, Objects
  <2>3. rmp' \in Threads /\ rmp.at = "header" /\ rmp'.at = "idle" /\ UNCHANGED <<rtask, calls>>
    BY <1>7, RecorderAssumption DEF Finalize, Resting, Threads
  <2>4. rtask.at # "none" => calls.late > 0 /\ calls.late # 0
    BY <1>1, <2>3 DEF Handles, Calls
  <2>. QED
    BY <1>1, <2>1, <2>2, <2>3, <2>4 DEF RecorderIInv, RecorderMemory, Handles, Accounts, Closed, InHand
<1>8. ASSUME NEW deinit \in BOOLEAN, Stop(deinit) PROVE RecorderIInv'
  <2>1. /\ recorder' \in Objects /\ recorder'.total = recorder.total /\ recorder'.file = recorder.file
        /\ recorder'.stack = recorder.stack /\ recorder'.task = recorder.task
        /\ recorder'.alive = recorder.alive /\ recorder'.recording = recorder.recording
        /\ recorder'.done = recorder.done /\ recorder'.failed = recorder.failed
    BY <1>1, <1>8 DEF Stop, Objects
  <2>2. rmp' \in Threads /\ rmp'.at = (IF recorder.task THEN "wait" ELSE "final") /\ UNCHANGED <<rtask, sound, calls>>
    <3>1. rmp' = [Resting EXCEPT !.at = IF recorder.task THEN "wait" ELSE "final", !.deinit = deinit]
          /\ UNCHANGED <<rtask, sound, calls>>
      BY <1>8 DEF Stop
    <3>2. Resting \in Threads
      BY DEF Resting, Threads
    <3>3. CASE recorder.task
      BY <3>1, <3>2, <3>3 DEF Threads
    <3>4. CASE ~recorder.task
      BY <3>1, <3>2, <3>4 DEF Threads
    <3>. QED
      BY <3>3, <3>4
  <2>. QED
    BY <1>1, <2>1, <2>2 DEF RecorderIInv, RecorderMemory, Handles, Accounts, Closed, InHand
<1>. QED
  BY <1>2, <1>3, <1>4, <1>5, <1>6, <1>7, <1>8 DEF RecorderMethod

\* Every step keeps the invariant.
LEMMA RecorderInductive == RecorderIInv /\ [NextRecorder]_rvars => RecorderIInv'
<1>1. RecorderIInv /\ UNCHANGED rvars => RecorderIInv'
  BY DEF rvars, RecorderIInv, Kinds, RecorderMemory, Handles, Accounts, Closed, InHand
<1>. QED
  BY <1>1, RecordKeeps, RecorderTaskKeeps, RecorderThreadKeeps DEF NextRecorder

\* The invariant holds in every reachable state.
THEOREM RecorderInvariance == SpecRecorder => []RecorderIInv
BY RecorderInitially, RecorderInductive, PTL DEF SpecRecorder

\* The task has its stack and done_sem waits for it; it has its ring until a wait has
\* timed out (audiorecorder.c:712-730, 838-843).
THEOREM RecorderMemoryIsKept == SpecRecorder => []RecorderMemory
<1>1. RecorderIInv => RecorderMemory
  BY DEF RecorderIInv
<1>. QED
  BY <1>1, RecorderInvariance, PTL

\* A finished recording holds every unit put into the ring and its header says how many,
\* for any sizes of ring and chunks (audiorecorder.c:197-242, 367-408, 804-811).
THEOREM RecordingsAreWhole == SpecRecorder => []RecordedWhole
<1>1. RecorderIInv => RecordedWhole
  BY DEF RecorderIInv, Kinds, Calls, Sounds, Accounts, Closed, InHand, RecordedWhole
<1>. QED
  BY <1>1, RecorderInvariance, PTL
=============================================================================
