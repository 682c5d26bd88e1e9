---------------------------- MODULE AudioPlayer ----------------------------
(***************************************************************************)
(* src/modules/tdeck_i2s/audioplayer.c: playback.  The MicroPython thread  *)
(* opens the file and pushes its bytes into the ring buffer, in play(), in *)
(* feed() and in callbacks the decode task schedules; the decode task      *)
(* pulls them out, decodes them and writes to I2S.  stop() and deinit()    *)
(* wait for the task on done_sem and then free what it used.               *)
(*                                                                         *)
(* The ring buffer is the FIFO queue module RingBuf shows it to be, so     *)
(* three counters stand for all the bytes of a track: fetched from the     *)
(* file into the ring, taken from the ring into the task's read_buf, and   *)
(* spent by the decoder.  A unit is the least the decoder consumes.        *)
(***************************************************************************)
EXTENDS Integers

CONSTANTS
  RingSize,    \* RING_BUF_SIZE, in units
  BufSize,     \* AUDIO_READ_BUF_SIZE
  Header,      \* what the task gathers before it looks at the format
  Refill,      \* AUDIO_REFILL_THRESHOLD
  Chunk,       \* FEED_CHUNK_SIZE
  Rounds,      \* FEED_PRIME_ROUNDS
  MaxFile,     \* bound: units in a file
  MaxPlays,    \* bound: calls of play()
  MaxTimeouts  \* bound: waits for the task that end by timing out

ASSUME PlayerAssumption ==
  /\ RingSize \in Nat \ {0} /\ BufSize \in Nat \ {0} /\ Chunk \in Nat \ {0}
  /\ Header \in 1..BufSize /\ Refill \in 1..BufSize
  /\ Rounds \in Nat \ {0}
  /\ MaxFile \in Nat /\ MaxPlays \in Nat /\ MaxTimeouts \in Nat

VARIABLES
  mp,       \* where the MicroPython thread is inside a method or a callback
  rounds,   \* feed rounds its loop has left
  file,     \* self->file_obj: "none" or "open"
  left,     \* units of the file not read yet
  stack,    \* whether self->stack is allocated
  alive,    \* whether the ring buffer and the I2S channel exist
  playing, stopRequest, paused,
  done,     \* done_sem
  pending,  \* feed_pending
  queued,   \* feed callbacks in the scheduler queue
  eof,      \* rb->eof
  error,    \* whether last_error is set
  format,   \* what the track has been found to be: "none" yet, "wav" or "mp3"
  fetched, taken, spent,
  task,     \* where the decode task is
  plays, timeouts

python == <<mp, rounds, file, left, stack, alive, stopRequest, paused, plays, timeouts>>
ring == <<eof, error, format, fetched, taken, spent>>
feeds == <<pending, queued>>
vars == <<python, playing, done, feeds, ring, task>>

Available == fetched - taken
BytesLeft == taken - spent
Lesser(a, b) == IF a < b THEN a ELSE b

Init ==
  /\ mp = "idle" /\ rounds = 0 /\ file = "none" /\ left = 0
  /\ stack = FALSE /\ alive = TRUE
  /\ playing = FALSE /\ stopRequest = FALSE /\ paused = FALSE
  /\ done = 0 /\ pending = FALSE /\ queued = 0
  /\ eof = FALSE /\ error = FALSE /\ format = "none" /\ fetched = 0 /\ taken = 0 /\ spent = 0
  /\ task = "none" /\ plays = 0 /\ timeouts = 0

-----------------------------------------------------------------------------
(* The MicroPython thread.                                                 *)

\* play(): refused while playing; a stack left by a track that ended by itself
\* is reclaimed first.
Play ==
  /\ mp = "idle" /\ alive /\ ~playing /\ plays < MaxPlays
  /\ plays' = plays + 1
  /\ mp' = IF stack THEN "reclaim" ELSE "open"
  /\ UNCHANGED <<rounds, file, left, stack, alive, stopRequest, paused, timeouts,
                 playing, done, feeds, ring, task>>

\* Slip: the stack is freed without waiting for the task.
ReclaimAtOnce ==
  /\ mp = "reclaim"
  /\ stack' = FALSE
  /\ mp' = "open"
  /\ UNCHANGED <<rounds, file, left, alive, stopRequest, paused, plays, timeouts,
                 playing, done, feeds, ring, task>>

\* done_sem taken: the task has reached its exit.  The code goes on without it after two
\* seconds; a task that is not playing any more is one call from giving it.
Reclaim ==
  /\ mp = "reclaim" /\ done = 1
  /\ done' = 0
  /\ stack' = FALSE
  /\ mp' = "open"
  /\ UNCHANGED <<rounds, file, left, alive, stopRequest, paused, plays, timeouts,
                 playing, feeds, ring, task>>

\* The file is opened (or that raises), the ring buffer reset.
Open ==
  /\ mp = "open"
  /\ \/ mp' = "idle" /\ UNCHANGED <<rounds, file, left, paused, ring>>
     \/ /\ mp' = "prime" /\ rounds' = Rounds
        /\ file' = "open" /\ left' \in 0..MaxFile
        /\ paused' = FALSE
        /\ eof' = FALSE /\ error' = FALSE /\ format' = "none"
        /\ fetched' = 0 /\ taken' = 0 /\ spent' = 0
  /\ UNCHANGED <<stack, alive, stopRequest, plays, timeouts, playing, done, feeds, task>>

Feeding == mp \in {"prime", "feeding", "feed"}

\* Where the thread goes when its feed loop is over.
AfterFeed == IF mp = "prime" THEN "launch" ELSE "idle"

\* feed_internal with data to read: at most a chunk, and what there is room for.
FeedData ==
  /\ Feeding /\ rounds > 0
  /\ file = "open" /\ ~eof /\ left > 0 /\ Available < RingSize
  /\ \E k \in 1..Lesser(left, Lesser(Chunk, RingSize - Available)) :
       fetched' = fetched + k /\ left' = left - k
  /\ rounds' = rounds - 1
  /\ UNCHANGED <<mp, file, stack, alive, stopRequest, paused, plays, timeouts, playing,
                 done, feeds, eof, error, format, taken, spent, task>>

\* The ring is full: this round does nothing.
FeedFull ==
  /\ Feeding /\ rounds > 0
  /\ file = "open" /\ ~eof /\ Available = RingSize
  /\ rounds' = rounds - 1
  /\ UNCHANGED <<mp, file, left, stack, alive, stopRequest, paused, plays, timeouts,
                 playing, done, feeds, ring, task>>

EndFeed == mp' = AfterFeed /\ rounds' = 0

\* The file is at its end, or a read fails: eof, and the file is closed.
FeedEof ==
  /\ Feeding /\ rounds > 0
  /\ file = "open" /\ ~eof /\ Available < RingSize
  /\ \/ left = 0 /\ UNCHANGED error
     \/ error' = TRUE
  /\ eof' = TRUE /\ file' = "none"
  /\ EndFeed
  /\ UNCHANGED <<left, stack, alive, stopRequest, paused, plays, timeouts, playing,
                 done, feeds, format, fetched, taken, spent, task>>

\* The loop is over: its rounds are used up, there is nothing to feed from, or
\* a stream has no data for now.
FeedEnds ==
  /\ Feeding
  /\ rounds = 0 \/ file = "none" \/ eof \/ Available < RingSize
  /\ EndFeed
  /\ UNCHANGED <<file, left, stack, alive, stopRequest, paused, plays, timeouts,
                 playing, done, feeds, ring, task>>

\* play() goes on: the flags, the stack and the task; either may not be had.
Launch ==
  /\ mp = "launch"
  /\ mp' = "idle"
  /\ stopRequest' = FALSE
  /\ \/ playing' = TRUE /\ stack' = TRUE /\ task' = "gather"
     \/ playing' = FALSE /\ stack' = FALSE /\ UNCHANGED task
  /\ UNCHANGED <<rounds, file, left, alive, paused, plays, timeouts, done, feeds, ring>>

\* feed(), called by the program: one round.
Feed ==
  /\ mp = "idle" /\ alive
  /\ mp' = "feed" /\ rounds' = 1
  /\ UNCHANGED <<file, left, stack, alive, stopRequest, paused, plays, timeouts,
                 playing, done, feeds, ring, task>>

\* Slip: feed_pending is never cleared.
FeedScheduledDeaf ==
  /\ mp = "idle" /\ queued > 0
  /\ queued' = queued - 1
  /\ mp' = "feeding" /\ rounds' = Rounds
  /\ UNCHANGED <<pending, file, left, stack, alive, stopRequest, paused, plays,
                 timeouts, playing, done, ring, task>>

\* The scheduled callback: up to FEED_PRIME_ROUNDS rounds.
FeedScheduled ==
  /\ mp = "idle" /\ queued > 0
  /\ queued' = queued - 1 /\ pending' = FALSE
  /\ mp' = "feeding" /\ rounds' = Rounds
  /\ UNCHANGED <<file, left, stack, alive, stopRequest, paused, plays, timeouts,
                 playing, done, ring, task>>

Pause ==
  /\ mp = "idle" /\ playing /\ paused' = ~paused
  /\ UNCHANGED <<mp, rounds, file, left, stack, alive, stopRequest, plays, timeouts,
                 playing, done, feeds, ring, task>>

\* stop() or deinit() of a player that plays: ask, then wait for done_sem.
AskToStop(why) ==
  /\ mp = "idle" /\ alive /\ playing
  /\ stopRequest' = TRUE
  /\ mp' = why
  /\ UNCHANGED <<rounds, file, left, stack, alive, paused, plays, timeouts, playing,
                 done, feeds, ring, task>>

\* What is left to do when the wait is over, or there was nothing to wait for.
Close(why) ==
  /\ file' = "none"
  /\ alive' = (alive /\ why # "deinit")
  /\ mp' = "idle"

\* The task has confirmed its exit: its stack is freed.
Confirmed(why) ==
  /\ mp = why /\ done = 1
  /\ done' = 0 /\ stack' = FALSE
  /\ Close(why)
  /\ UNCHANGED <<rounds, left, stopRequest, paused, plays, timeouts, playing, feeds,
                 ring, task>>

\* Slip: a wait that timed out frees the stack too.
TimedOutFreeing(why) ==
  /\ mp = why /\ done = 0 /\ timeouts < MaxTimeouts
  /\ timeouts' = timeouts + 1
  /\ stack' = FALSE
  /\ Close(why)
  /\ UNCHANGED <<rounds, left, stopRequest, paused, plays, playing, done, feeds,
                 ring, task>>

\* The task has not exited in time: the stack is kept.
TimedOut(why) ==
  /\ mp = why /\ done = 0 /\ timeouts < MaxTimeouts
  /\ timeouts' = timeouts + 1
  /\ Close(why)
  /\ UNCHANGED <<rounds, left, stack, stopRequest, paused, plays, playing, done, feeds,
                 ring, task>>

\* stop() or deinit() of a player that does not play.
CloseIdle(why) ==
  /\ mp = "idle" /\ alive /\ ~playing
  /\ why = "stop" => file = "open"
  /\ Close(why)
  /\ UNCHANGED <<rounds, left, stack, stopRequest, paused, plays, timeouts, playing,
                 done, feeds, ring, task>>

-----------------------------------------------------------------------------
(* The decode task.                                                        *)

Goto(to) == task' = to

\* request_feed: one callback at a time; a full scheduler queue drops it.
RequestFeed ==
  \/ pending /\ UNCHANGED feeds
  \/ ~pending /\ pending' = TRUE /\ queued' = queued + 1
  \/ ~pending /\ UNCHANGED feeds

\* A task step that asks for nothing and moves no data.
Quietly == UNCHANGED <<python, playing, done, feeds, ring>>

\* The first bytes, to see what the file is: eof is read first, and only when
\* it is set is the ring looked at.
Gather ==
  /\ task = "gather" /\ ~stopRequest /\ BytesLeft < Header
  /\ Goto(IF eof THEN "gather_empty" ELSE "gather_read")
  /\ Quietly

GatherEmpty ==
  /\ task = "gather_empty"
  /\ Goto(IF Available > 0 THEN "gather_read"
          ELSE IF BytesLeft = 0 THEN "flush" ELSE "format")
  /\ Quietly

GatherRead ==
  /\ task = "gather_read"
  /\ taken' = taken + Lesser(Header - BytesLeft, Available)
  /\ IF taken' = taken THEN RequestFeed ELSE UNCHANGED feeds
  /\ Goto("gather")
  /\ UNCHANGED <<python, playing, done, eof, error, format, fetched, spent>>

Gathered ==
  /\ task = "gather" /\ ~stopRequest /\ BytesLeft >= Header
  /\ Goto("format")
  /\ Quietly

\* Slip: a paused player does not look at stop_request.
ObeyStopUnlessPaused ==
  /\ task \in {"gather", "wav", "mp3"} /\ stopRequest /\ ~paused
  /\ Goto("flush")
  /\ Quietly

\* Every loop of the task ends when stop_request is set.
ObeyStop ==
  /\ task \in {"gather", "wav", "mp3"} /\ stopRequest
  /\ Goto("flush")
  /\ Quietly

\* WAV: ask for more ahead of need, write everything in read_buf to I2S.
WavWrite ==
  /\ task = "wav" /\ ~stopRequest /\ ~paused
  /\ IF 2 * Available < RingSize /\ ~eof THEN RequestFeed ELSE UNCHANGED feeds
  /\ spent' = taken
  /\ Goto("wav_eof")
  /\ UNCHANGED <<python, playing, done, eof, error, format, fetched, taken>>

\* Slip: an empty ring ends the track, eof or not.
WavEofSkipped ==
  /\ task = "wav_eof"
  /\ Goto("wav_empty")
  /\ Quietly

\* The end of a WAV file: eof is read first, the ring only when eof is set.
WavEof ==
  /\ task = "wav_eof"
  /\ Goto(IF eof THEN "wav_empty" ELSE "wav_read")
  /\ Quietly

WavEmpty ==
  /\ task = "wav_empty"
  /\ Goto(IF Available = 0 /\ BytesLeft = 0 THEN "flush" ELSE "wav_read")
  /\ Quietly

WavRead ==
  /\ task = "wav_read"
  /\ taken' = taken + Lesser(BufSize - BytesLeft, Available)
  /\ Goto("wav")
  /\ UNCHANGED <<python, playing, done, feeds, eof, error, format, fetched, spent>>

\* MP3: refill read_buf from the ring when it runs low ...
Mp3Read ==
  /\ task = "mp3" /\ ~stopRequest /\ ~paused
  /\ taken' = IF BytesLeft < Refill
              THEN taken + Lesser(BufSize - BytesLeft, Available) ELSE taken
  /\ Goto("mp3_low")
  /\ UNCHANGED <<python, playing, done, feeds, eof, error, format, fetched, spent>>

\* ... and if that was not enough ask for more, unless eof is set by now.
Mp3Low ==
  /\ task = "mp3_low"
  /\ IF BytesLeft < Refill /\ ~eof THEN RequestFeed /\ Goto("mp3")
                                   ELSE UNCHANGED feeds /\ Goto("mp3_decode")
  /\ UNCHANGED <<python, playing, done, ring>>

\* Nothing to decode; or no sync word in all of read_buf, which ends the track
\* if eof is set; or a frame, or a bad one, is spent.
Mp3Decode ==
  /\ task = "mp3_decode"
  /\ \/ BytesLeft = 0 /\ Goto("flush") /\ UNCHANGED spent
     \/ BytesLeft > 0 /\ spent' = taken /\ Goto(IF eof THEN "flush" ELSE "mp3")
     \/ spent' \in (spent + 1)..taken /\ Goto("mp3")
  /\ UNCHANGED <<python, playing, done, feeds, eof, error, format, fetched, taken>>

\* The format is known and the track starts ...  The two loops that read more of it on
\* the way, past an ID3 tag and up to a WAV header's data chunk, are one step: they wait
\* for data and look at stop_request like the one above.
Begin ==
  /\ task = "format"
  /\ spent' \in spent..taken
  /\ format' \in {"wav", "mp3"}
  /\ Goto(format')
  /\ UNCHANGED <<python, playing, done, feeds, eof, error, fetched, taken>>

\* ... or the task cannot play it, or cannot have the memory to.
GiveUp ==
  /\ task = "format"
  /\ error' = TRUE
  /\ Goto("flush")
  /\ UNCHANGED <<python, playing, done, feeds, eof, format, fetched, taken, spent>>

\* The I2S driver is given silence, the buffers are freed.
Flush ==
  /\ task = "flush"
  /\ Goto("exit")
  /\ Quietly

\* Slip: playing is not cleared.
StayPlaying ==
  /\ task = "exit"
  /\ Goto("give")
  /\ Quietly

\* The task's last two stores, in this order: playing, then done_sem.
ClearPlaying ==
  /\ task = "exit"
  /\ playing' = FALSE
  /\ Goto("give")
  /\ UNCHANGED <<python, done, feeds, ring>>

GiveDone ==
  /\ task = "give"
  /\ done' = 1
  /\ Goto("delete")
  /\ UNCHANGED <<python, playing, feeds, ring>>

\* vTaskDelete(NULL), the last code to run on the stack.
Delete ==
  /\ task = "delete"
  /\ Goto("none")
  /\ Quietly

-----------------------------------------------------------------------------
FeedStep == FeedData \/ FeedFull \/ FeedEof \/ FeedEnds

\* What the thread does by itself once it is inside a method.
MethodStep ==
  \/ Reclaim \/ Open \/ FeedStep \/ Launch
  \/ \E why \in {"stop", "deinit"} : Confirmed(why)

TaskStep ==
  \/ Gather \/ GatherEmpty \/ GatherRead \/ Gathered \/ Begin \/ ObeyStop
  \/ WavWrite \/ WavEof \/ WavEmpty \/ WavRead
  \/ Mp3Read \/ Mp3Low \/ Mp3Decode
  \/ GiveUp \/ Flush \/ ClearPlaying \/ GiveDone \/ Delete

Next ==
  \/ Play \/ Feed \/ FeedScheduled \/ Pause
  \/ \E why \in {"stop", "deinit"} : AskToStop(why) \/ TimedOut(why) \/ CloseIdle(why)
  \/ MethodStep
  \/ TaskStep

Spec == Init /\ [][Next]_vars

\* The task runs; the thread finishes what it began and serves its scheduler
\* queue; a request for a feed is not dropped for ever, and no stream stalls
\* for ever.
FairSpec ==
  /\ Spec
  /\ WF_vars(TaskStep) /\ WF_vars(MethodStep) /\ SF_vars(FeedScheduled)
  /\ SF_vars(FeedData \/ FeedEof)
  /\ SF_vars(TaskStep /\ queued' > queued)

-----------------------------------------------------------------------------
(* Properties.                                                             *)

Decoding == {"gather", "gather_empty", "gather_read", "format", "wav", "wav_eof", "wav_empty",
             "wav_read", "mp3", "mp3_low", "mp3_decode", "flush"}

\* Every variable has its type; the ring and read_buf never overflow, and feed
\* requests never pile up in the scheduler queue.
TypeOK ==
  /\ mp \in {"idle", "reclaim", "open", "prime", "feeding", "feed", "launch", "stop",
             "deinit"}
  /\ rounds \in 0..Rounds
  /\ file \in {"none", "open"} /\ left \in 0..MaxFile
  /\ \A flag \in {stack, alive, playing, stopRequest, paused, pending, eof, error} :
       flag \in BOOLEAN
  /\ format \in {"none", "wav", "mp3"}
  /\ done \in {0, 1} /\ queued \in 0..1
  /\ Available \in 0..RingSize /\ BytesLeft \in 0..BufSize
  /\ fetched \in 0..MaxFile
  /\ task \in Decoding \union {"exit", "give", "delete", "none"}
  /\ plays \in 0..MaxPlays /\ timeouts \in 0..MaxTimeouts

\* The stack is not freed out from under the task before it has given
\* done_sem.
StackOutlivesTask == task \in Decoding \union {"exit", "give"} => stack

\* done_sem always tells of the track being stopped: a signal left over from
\* an earlier one never lets stop() free the stack of the task that plays now.
DoneIsCurrent ==
  /\ task \in Decoding \union {"exit", "give"} => done = 0
  /\ done = 1 => ~playing /\ stack

\* The ring buffer and the I2S channel exist as long as the task uses them,
\* unless deinit() has given up waiting for it.
RingOutlivesTask == timeouts = 0 /\ task \in Decoding => alive

MemoryOutlivesTask == StackOutlivesTask /\ RingOutlivesTask

\* A track that ends by itself and without an error has been played whole: the
\* whole file was fetched, and all of it taken and spent.  An MP3 track may end
\* at bytes without a sync word.
PlayedWhole ==
  format # "mp3" /\ task \in {"flush", "exit"} /\ ~stopRequest /\ ~error =>
    spent = taken /\ taken = fetched /\ eof /\ left = 0

\* stop() and deinit() return without their timeout, paused or not, and
\* whatever the task is waiting for: they hold up the thread that feeds it.
StopReturns == mp \in {"stop", "deinit"} ~> mp = "idle"

\* A track ends unless it is paused: the task never waits for data that nobody
\* will fetch.
TrackEnds == task = "gather" ~> task = "none" \/ paused
=============================================================================
