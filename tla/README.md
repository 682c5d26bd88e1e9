# A verification development for vtOS

vtOS is the MicroPython firmware of the LilyGO T-Deck (ESP32-S3): a terminal,
a shell, programs in Python, and servers, audio and radio drivers written in C.
This directory holds TLA+ modules of its concurrent parts, TLC configurations
that check them on small instances, and TLAPS proofs of what matters most.
Paths below are relative to `src/modules/`.

## The system

Who runs:

| actor | where | what |
|---|---|---|
| MicroPython thread (`mp_task`) | core 0 | the shell, the foreground program, every Python function |
| scheduled callbacks | on `mp_task` | `micropython.schedule` / `mp_sched_schedule`: a queue of fixed depth, run between bytecodes, never inside one another; when it is full the request is refused |
| timers | interrupts on core 0 | 30 ms redraw and trackball, 1 s status bar, audio off, telnetd/vncd ticks; they schedule callbacks |
| GPIO, NimBLE | interrupt, host task | trackball pulses, advertisements heard |
| FreeRTOS tasks | core 1, priority 5, time-sliced | audio decode, audio capture, sshd, the sftpd listener and up to four sftpd sessions, ssh client, sftp client |

Inventory. *M* is modelled, *P* partly, *N* not yet.

| component | source | state | operations | works with | hard because | correct when |
|---|---|---|---|---|---|---|
| audio ring buffer *M* | `tdeck_i2s/ring_buf.h` | bytes, head, tail, count, eof, lock | write, read, free space, reset, eof | player, recorder | two cores, wrapped copies, eof outside the lock | it is a FIFO queue; room that was measured stays |
| SFTP file operations *M* | `modssh/modsftpd.c` 152-553, 1172-1226; `scripts/bin/sftpd.py` | one request record, `vfs_mutex`, `response_sem`, `_open_files`, `_open_dirs`, file system | fourteen hooks; the servicer's branches | wolfSSH, scheduler queue, file system | four sessions, two cores, time-outs, full queue, pieces | every hook gets its own answer, data arrive whole, hooks return |
| SFTP server tasks *M* | `modssh/modsftpd.c` 99-150, 580-1106 | slots, stacks, sockets, task handles, flags | start, stop, accept, reject, session life | lwIP, FreeRTOS | tasks that free each other's stacks | no slot, socket or stack shared, leaked or freed early; stop ends all |
| audio player *P* | `tdeck_i2s/audioplayer.c` | file, stack, ring, flags, `done_sem`, `feed_pending` | play, feed, pause, resume, stop, deinit; scheduled feed; decode task | ring, scheduler, stream, I2S | the task asks for its own food; waits time out; memory freed at exit | played whole; nothing freed in use; stop returns |
| BLE mesh *P* | `scripts/lib/blemesh.py` | seen cache, reassembler, inbox, relay queue | broadcast, receive, `_irq`, deinit | NimBLE, other nodes, blechat | lossy flood, bounded caches, restarts, radio exceptions | delivered once, in range, flood dies out |
| audio recorder *M* | `tdeck_i2s/audiorecorder.c` | as the player, and the header's total | record, drain, stop, deinit; capture task | ring, scheduler, file | late drains, failed writes, a wait that times out | the file holds what was put into the ring, the header counts it |
| SSH server *M* | `modssh/modsshd.c`, `scripts/bin/sshd.py` | listener task, its one session, output ring, notifications | start, stop, accept, serve, notify | kvm, scheduler, telnetd | one task, stalls, a mirror that is shared | output goes to the client it is for, stop ends it |
| keyboard, video, mirror *M* | `tdeck_kvm/tdeck_kvm.c` | injection ring, mirror slot | inject, read, write, set_mirror | sshd, telnetd, vncd, shell | two producers on two cores without a lock | keys arrive once and in order |
| telnet server *M* | `scripts/bin/telnetd.py` | connection, line buffer, timer | tick, feed, close, stop | kvm, timer 3 | everything in timer callbacks that may raise | the mirror is a live connection's; silence ends it |
| VNC servers *M* | `scripts/bin/vncd.py`, `webvncd.py` | protocol state, row checksums, output queue | tick, advance, scan, drain | display, timer 3 | partial reads and sends, a screen that changes | every change is shown, every key typed once |
| SSH, SFTP clients *M* | `modssh/modssh.c`, `modsftp.c`; `scripts/bin/ssh.py`, `sftp.py` | state, task, stack, two rings; one request | connect, disconnect, read, write, open, close; the task | programs, shell, collector | cancel, time-outs, memory of a task that still runs | connections apart, requests answered, transfers whole |
| terminal *P* | `modvt/st.c`, `fb.c` | cursor, region, screens, parser, dirty rows, bars | output, resize, scroll back, bars | display, VNC | any input, interrupted in the middle | the cursor inside, every change drawn |
| SD card and display bus *N* | `scripts/sys/hardware.py`, `scripts/lib/sdcard.py` | baud rate, `sd_busy` | block transfers, redraws | everything that draws or reads | callbacks inside transfers | nobody draws at card speed |
| shell, status bar *N* | `scripts/sys/shell.py`, `scripts/boot.py` | environment, history | run, parse, notify | all programs | sequential | tested by use |
| programs *N* | `scripts/bin/*` | their own | user interface | drivers above | polling loops | tested by use |
| text toolkit *N* | `modtui` | widgets | draw, key loop | terminal | data, not control | rendering is right |
| drivers *N* | `tdeck_lora`, `tdeck_kbd`, `tdeck_trk`, `scripts/usb`, `st7789` | registers | transfers | hardware | register access | out of the reach of a model |
| vendored *N* | `modc2`, `modzm`, `modvi`, `modxml`, `st7789/png` | - | - | - | third-party code with thin glue | not ours |

`PROJECT.json` lists the hazards, each at its line with the properties that
would catch it, or the reason none does yet.

## The modules

| module | models | checked by | proved in |
|---|---|---|---|
| `ByteQueue` | what a ring buffer promises: a bounded FIFO queue of bytes | | |
| `RingBuf` | `ring_buf.h`, step by step | `MCVnc` | `RingBufProofs` |
| `Terminal` | the functions of `st.c` on cursor, region and dirty rows; bars | `MCConsole` | `ScreenProofs` |
| `SftpdVfs` | the request bridge between session tasks and `sftpd.py` | `MCSftpdVfs` | `SftpdVfsProofs` |
| `SftpdSlots` | listener, session tasks, slots, start and stop | `MCSftp` | `SftpProofs` |
| `RemoteClient` | the ssh and sftp clients: task, rings, requests, file transfers | `MCSftp` | `SftpProofs` |
| `AudioPlayer` | the player's methods, its scheduled feed, its decode task | `MCAudio` | `AudioProofs` |
| `AudioRecorder` | the recorder's methods, its scheduled drain, its capture task | `MCAudio` | `AudioProofs` |
| `BleMesh` | nodes of the flood mesh and the air between them | `MCBleMesh` | `BleMeshProofs` |
| `Console` | sshd, telnetd and the one mirror slot | `MCConsole` | `ConsoleProofs` |
| `InjectRing` | the ring of injected keys, load by load and store by store | `MCVnc` | `ConsoleProofs` |
| `Vncd` | vncd and webvncd, tick by tick | `MCVnc` | `VncdProofs` |

An `MC` module that extends several components explores one at a time: a variable
(`used`, `side`, `device`) says which, and the others stay in one state. They
share no memory; what couples them, such as the scheduler queue, is in each of
them as an environment.

Operators whose comment begins with *Slip* are deliberate mistakes: a plausible
bug put in the place of the definition that follows. `Next` uses none of them;
`PROJECT.json` says which property each one breaks.

### RingBuf and ByteQueue

One producer, on core 0, one consumer, on core 1. `lock` is the ring's mutex
and each operation is cut into taking it, the copy up to the end of the array,
the copy from its beginning, and the publication of index and count. `eof` and
the measuring of room are outside the lock, as in the code. `RingBuf`
implements `ByteQueue` under the mapping that reads the queue off `tail`,
`count` and the array: property `ImplementsByteQueue`, and theorem `Implements`.

### SftpdVfs

`pc[s]` says where session task `s` is in a hook: serving (in wolfSSH), lock,
arguments, op, schedule, wait, collect, unlock. `rpc` is the one request and
response record; `SetArguments` writes only the fields that the hook writes, so
what an earlier hook or `respond()` left there stays. `service` holds the
servicer's locals: `Dispatch` is `request()`, which copies the record, then one
action per branch of `_on_vfs_request`, then `Respond`. The file system is
external and small: paths, bodies of a few units, directories.
`set_vfs_service()` comes before `start()` in `sftpd.py`, so the early return
for a missing servicer is left out.

### SftpdSlots

One listener task, `Slots` session slots, the backlog of the listening socket.
`mp` is the MicroPython thread in `start()`, which creates the task and stores
its handle in two steps. Tasks of one priority share a core and the MicroPython
thread runs on the other, so a task may be interrupted between any two of its
stores. A task that has made its last one and has only `vTaskDelete(NULL)` left
(`deleting`) is forgotten when its place is taken again. That is where the model
ends, and not where the code is safe: the listener frees a session's stack once
it reads FINISHED, and `start()` frees the listener's once `task` is NULL, while
either may still be on its way into `vTaskDelete`. The properties speak of tasks
up to that last store; the windows behind it are listed as hazards.

A session is in the hands of wolfSSH, on a blocking socket, in three places:
the handshake, whose deadline is looked at only between two calls of
`wolfSSH_SFTP_accept`; the answering of requests (`request`), an inner loop that
goes on while requests lie ready and does not look at `stop_request`; and
`wolfSSH_shutdown`. It leaves each of them by an action that need never happen.

### AudioPlayer

The ring is the queue that `RingBuf` implements, so a track is three counters:
`fetched`, `taken`, `spent`. `mp` is the MicroPython thread inside a method or a
callback; `task` walks through the decode task's loops; `Begin` finds out what
`format` the track has. As above, what the task does between giving `done_sem`
and `vTaskDelete` is a hazard and not in the properties.

### AudioRecorder

The player turned round, over the same ring. `rmp` is the MicroPython thread in
a drain, in the wait of `stop()`, or in `finalize`; `rtask` the capture task with
what it still `hold`s of its chunk. `sound` counts what was put into the ring,
taken out, stored, and what the header says, so that a gap or a false header is a
difference of two counters.

### BleMesh

A message is a number, standing for its (sender, msg_id). `air[n]` is the
advertisement a radio repeats until the next; `Hear` may happen any number of
times, or never, which is loss, duplication and reordering at once. `Hops` is a
distance of the topology; the code knows none, it is there to say how far a
message may go. `got` and `heard` are history variables.

### Console and InjectRing

`ssh` is sshd.py's `Server` with the place its task is at, `tel` and `conn` are
telnetd's server and its connection, `mirror` the one variable of `tdeck_kvm.c`
that both set and clear. The output ring is the set of times its bytes are from:
`"since"` the present client came, or `"before"`. `vncd` and `webvncd` appear
only as users of timer 3, which whoever starts last takes. A round of sshd's
session is cut at its two calls into wolfSSH (`reading`, `sending`), which may
block; `stop_request` is looked at between two rounds. A tick of telnetd is
one action per way through it, because nothing runs inside a callback.
`InjectRing` cuts a push into the load of `inject_head`, the test of
`inject_tail`, the store of the byte and the store of the head; the two producers
are the sshd task and the MicroPython thread, which also pops. Every byte is a
number of its own. `KeysInOrder` says the ring is a queue as long as two pushes
have not overlapped; that they may, and what happens then, is below under
*Known divergences*.

### Vncd

One module for both programs, which share their structure line by line; `web`
says which. A unit stands for the bytes of one part of a message, a row's pixels
in `outq` carry whether they are still what the screen shows. A tick is cut into
its steps, because network and screen act between ticks only but properties are
about every step. webvncd's socket does not block; vncd's does, and a send of it
is modelled like webvncd's, by how much goes out. Memory runs out where an update
is queued; a tick that raises while input is put together is not modelled.

### Terminal

The state is the `Term` record of `st.c` without its cells: cursor, region,
modes, parser state, the rows changed and the rows marked. Each function is an
operator from `Term` to `Term` with the source's calls, and `Csi` has a case for
every final byte of `csihandle` that moves the cursor, the region or cells.
`MoveTo` marks the row the cursor was on before it limits the new one, as
`tmoveto` does, also when that row is past the screen; `shrunk` tells that a font
change has taken rows away, without which it is not. `behind` collects rows that
change without a mark; it must be empty after each write, because `draw()` may
come next. Bars are drawn through the same functions with the cursor, the parser
and the sequence saved and restored as `draw_bar_ansi` does; what they are not
saved around, `history` (whose rows `term.hist` has: none, the program's, or a
bar's too), is kept.

Of two things a mode decides between, either may happen: whether LF goes to the
first column (LNM, set by CSI 20 h), and whether a C1 control does nothing (UTF-8)
or begins or ends a string, or a line (after ESC % @). REP repeats any character
it may have, of either width, or none. Left out are what cells hold, MODE_INSERT,
printing, selection and the answers to reports.

### RemoteClient

`self` is the `Client` object, `run[i]` the place of the task created for the
i-th connection, `thread` the MicroPython thread inside a call. `modssh.c` and
`modsftp.c` connect and disconnect with the same code, so the phases up to the
handshake are one set of actions; `kind` says whether the loop behind them moves
bytes (shell) or carries out requests (files). A ring is the set of the
connections its bytes are from. `req`, `ans` and the two semaphores are the
request record; `prog` is the method of `SFTPFile` under way and `body` the
server's file. `life` is the object's: `Drop` is a program that lets go of it,
`Collect` the `gc.collect()` of the shell. The resolver, wolfSSH's handshake, the
reads, sends and requests of a connection and its shutdown (`Blocking`) each end
by an action that need never happen. As in the servers, the way from
`task = NULL` to the end of `vTaskDelete` is named but not in the properties.

## The runs

| run | question | bounds |
|---|---|---|
| `sftpd_transfer` | do data survive being cut into pieces by two clients, and handles being given out? | scratch of 2, files of up to 3: transfers of two pieces, short writes, full disk; 4 calls of open, read, write, close |
| `sftpd_answers` | does each hook get its own answer, and does every hook return? | 2 clients, 2 calls of every name operation, 2 time-outs, a queue of 1 shared with one other callback |
| `sftpd_stale` (violation) | ... its own answer after a time-out, too? | one time-out |
| `sftp` | server: are slots, stacks and sockets owned, does stop end all that wolfSSH lets go of, are finished sessions noticed? Client: are connections apart, requests owned, transfers whole, and does disconnect end the task? | 2 slots, 3 connections, 2 starts; 2 shell connections, one files connection with 3 requests, one time-out, a file of 2 read, or 3 written, in pieces of 2 |
| `slot_lost` (violation) | does the slot of a session that is gone come back? | one start, 2 connections |
| `client_memory` (violation) | is a Client there as long as its task? | the same |
| `audio` | is memory alive in use, is the track whole, is `done_sem` current, is the recording whole, do stop and track end? | ring of 3, buffer of 2, files of up to 4, two tracks; ring of 2 smaller than its chunk of 3, 5 units, two recordings; one time-out each |
| `mesh` | is a message delivered once, does the flood end? | 3 nodes in a line, both ends talk, 2 messages, ttl 1 |
| `mesh_range` | how far can a message go when memory fails? | a cache of one, a restart, an exception, ttl 0 and 1 |
| `mesh_fragments` (violation) | are fragments put together? | one message |
| `console` | servers: whose is the mirror and the output, are the silent dropped, does stop end? Terminal: does any output leave the cursor outside or a changed row unmarked, or a bar that fits in the history? | room for one notification, a log-in of 2 quiet ticks, chunks of 2 keys; screens of 1x2 and 2x1, from either to the other until rows have been lost, parameters -1, 0 and 2, bars of one character |
| `vnc` | VNC: is every change shown, every key typed, does a closing connection close, does the web client catch up? Keys: are they in order? Ring buffer: is it a queue at every interleaving, and does measured room stay? | 2 rows, texts of 1 unit, one message ahead, a queue of 2 when the screen changes; a ring of 3 and 4 bytes; 3 bytes, 2 values, transfers of up to 2 |

The bounds are the least at which the interesting case happens: a transfer that
wraps at every index, a write of one and a half scratch buffers, a third connection
for two slots, a second track over the first one's `done_sem`, a node two hops away
that hears only a relay, a second message that pushes the first out of the cache, a
second connection after a first that failed, a chunk that does not fit its ring, a
screen that changes behind a half-sent row. Counters that the code does not bound
(calls, starts, tracks, messages, time-outs, packets a node has queued) are bounded
by a `Max` constant in the guard of the action that counts, so those systems stop:
their configurations turn the deadlock check off. In `sftpd_answers`, where clients
can always do something, it is on. Symmetry of the two clients is used where no
liveness is checked.

Some properties have a condition, which is part of what is known:
`TransfersAreStored`, `HandlesStandForTheirFiles`, `AnswerIsOwnUntilTimeout`,
`RequestHasOneOwner` and `TransferIsWhole` hold until a request times out
(`sftpd_stale` shows what happens then); the ring in `MemoryOutlivesTask` and
`RecorderMemory` is there until a wait for the task times out, because `deinit()`
then deletes it anyway; `PlayedWhole` is about WAV, since an MP3 track ends where
no sync word is found at its end; `ShortHeardIsDelivered` is about messages of
one fragment, as are the bounds of `mesh` and `mesh_range`: those of several are
never put together, which `mesh_fragments` shows without any of them being swept
out (`Slow = FALSE`). `RowsAreShown` and `WebCatchesUp` hold until memory for an
update runs out, `ClosingEnds` while sending to the client does not fail,
`MirrorIsKept` until telnetd takes the mirror. `StopEnds`, `StopEndsAll` and
`DisconnectEnds` hold unless a call never returns: a call into wolfSSH on a blocking
socket whose peer has stopped reading or writing in the middle of a packet, for the
sftp server also the answering of a client that always asks for more, and for the
clients the resolver, which cannot be bounded (`modssh.c:228`, `modsftp.c:346`).
Each says so with `<>[]`: for ever in such a place, or the task ends.
`CursorInside` speaks of the marks until a font change has taken rows away;
`BarsLeaveHistory` speaks of bars that have room in their row and are not drawn
when a wrap is pending. `FinishedIsSeen` leaves out the slot whose FINISHED the
listener is about to overwrite, which is what `slot_lost` shows; `RecordedWhole`
speaks of the units put into the ring, not of those the task holds when it is
stopped.

What the violations show is in `PROJECT.json` under `findings`, with the line each
contradicts: a message of the mesh longer than one packet is never delivered; after
one SFTP request has timed out, every later one, of any client, is told the answer
of the one before it; a session of the SFTP server that ends before the listener has
marked its slot ACTIVE loses the slot, and its stack, for good; and an `ssh` that
has just ended may have its `Client`, and with it the control block of a task that
still runs, collected.

## Fairness

- `SftpdVfs`: a session task takes the steps it can take (FreeRTOS time-slices
  tasks of one priority), and one that waits for `vfs_mutex` gets it in the end
  (strong fairness of `TakeMutex`; FreeRTOS mutexes serve the waiters in order of
  priority, then of arrival). Nothing is assumed of the MicroPython thread, which
  may be stuck in a program for ever: hooks return because their waits time out.
  Clients are under no obligation.
- `SftpdSlots`: the listener runs, `start()` finishes, and a session takes the
  steps that are its own: it looks at `stop_request` when it is back at the top of
  its loop, closes its socket, hands its slot back. No call into wolfSSH need return,
  no client need hang up or pause, and nobody need call `stop()`.
- `AudioPlayer`: the task runs, `mp_task` finishes the method it is in, a queued
  callback is run in the end, a request to schedule one is not refused for ever
  (the queue is drained between bytecodes), and a stream does not stall for ever.
  Nobody has to pause or stop.
- `AudioRecorder`: the capture task runs and `mp_task` finishes the method or
  callback it is in. Writes may fail at any time.
- `RemoteClient`: the task takes the steps that are bounded: the waits up to their
  deadlines, the look at `stop_request`, the way out. The resolver, wolfSSH (the
  handshake, reads, sends, requests, the shutdown), the server and the program are
  under no obligation.
- `Console`: the sshd task takes the steps between its calls into wolfSSH, of which
  none need return, and timer 3 ticks while it is telnetd's. Clients need do
  nothing.
- `Vncd`: timer 3 ticks, a tick runs to its end, and a client that is there and
  reads makes its socket writable again and again (strong fairness of
  `SendSome`).
- `BleMesh`: the application polls, holds and jitters pass, an advertisement that
  can be sent again and again is sent. Nothing need be heard.

## The proofs

`RingBufProofs`, for every size and every set of bytes:

- `Invariance`: `Spec => []IInv`. `IInv` adds to the types that `head` is `tail`
  plus `count` modulo the size between publications, who holds the lock at which
  step, and which part of a transfer has been copied. Without the last two the
  publication of a half-copied transfer could not be excluded.
- `TypeCorrect`, `RoomCorrect` follow from it.
- `Implements`: `Spec => ByteQueue!Spec` under the refinement mapping. One lemma
  per action: the copies and the lock stutter, a publication is a push or a pop.

`SftpdVfsProofs`, for any sessions, files, queue depth and bounds:

- `Invariance`: `Spec => []IInv`, where `IInv` is: a session is inside a hook
  exactly when it holds `vfs_mutex`; and while nothing has timed out, there is
  exactly one request between queue, servicer and semaphore when its session
  waits, and none otherwise, and it carries the number of the newest request.
- `OwnAnswers`: `Spec => []AnswerIsOwnUntilTimeout`. At collection the request
  that was answered is the newest, hence the session's own. `AnswerIsOwn`
  without the condition is what `sftpd_stale` refutes.
- `HandledInvariance` adds, up to the first time-out: the record, and then the
  servicer's copy, asks for what the session inside the hook needs (`Recorded`); the
  handle of a file just opened is in the table and nobody's until the hook returns
  it (`Opened`); what a client holds is in the table for the path it asked for
  (`Stands`), and no two hold the same (`Apart`). `HandlesStand` follows. Without
  `Recorded` a close could drop somebody else's file.
- `TransferredInvariance` adds what of a READ or WRITE is done: the units up to
  `done` are where they belong, and an answer, from the branch of `_on_vfs_request`
  that made it to its collection, tells the truth about the next piece (`Tells`).
  For a file opened for append the place is its end, which moves with each piece and
  with nothing else until the hook returns. `TransfersStored` (`TransfersAreStored`)
  follows for any size of scratch buffer and any way short writes cut a transfer. The
  induction over pieces is the
  induction over steps: no recursion is needed.

`BleMeshProofs`, for any nodes, any links and any distance that a link covers
one of:

- `Invariance`: `Spec => []IInv`. `IInv` adds to the two properties below that
  every packet and message about stems from one that was broadcast, and that
  messages waiting for the application are in range too. It is proved node by
  node: `Apart` and `Together` cut it into what each queue, radio, inbox and
  application may hold, and each action disturbs the possessions of one node.
- `PacketsInRange` (`TtlBoundsDistance`): a relay lowers the ttl by one and a link
  covers one of the distance, so their sum never grows; the caches, the losses
  and the restarts play no part in it.
- `MessagesInRange` (`DeliveredInRange`) follows.
- `FragmentsFit`: every packet about is one of the fragments its message was cut
  into, and what a node has put together are such fragments (`Fitting`).
- `ShortInvariance` adds that until a node restarts, a message of one fragment that
  has been taken out of an inbox waits for the application or was handed to it.
  `ShortMessagesArrive` (`ShortHeardIsDelivered`) follows, for caches of any size:
  a message a cache has forgotten is delivered again, never dropped.
- `OnceInvariance`: while the cache has room for every message and no node restarts,
  a node knows all it has sent or handed on, so that a copy finds it known. The room
  is a counting argument: different numbers, and one of them missing, are fewer
  than all of them. `MessagesComeOnce` (`DeliveredOnce`) follows.

`SftpProofs`, on `SftpdSlots`, for any slots, connections and starts:

- `Invariance`: `Spec => []IInv`. The properties are not inductive: that the slot
  the listener has chosen stays free until it is filled (`Chosen`), that a task
  past its `close()` holds no socket and every socket has one holder (`Sockets`),
  and that no listener is at work when `self->task` is NULL (`Listening`) make
  them so. The step is proved action by action, and each action disturbs one slot
  or the listener.
- `SlotsAreKept`, `ConnectionsHaveOwners`, `ListenersAreAlone`: the run's
  `SessionKeepsItsSlot`, `ConnectionsAreOwned`, `OneListener`.

`AudioProofs`, for any ring, buffers, chunks and files:

- `Invariance` (player): `playing` is set exactly while the task is at work,
  and no method frees or opens anything then (`Memory`); what was fetched, taken
  and spent are ordered and differ by what ring and buffer hold (`Counters`); `eof`
  means that nothing is left to fetch (`EofIsEnd`). `MemoryIsKept`,
  `DoneTellsOfNow` and `TracksAreWhole` follow.
- `RecorderInvariance`: what the task holds is what stands between captured and
  counted (`Accounts`), and while no wait has timed out a handle stands for every
  task (`Handles`), so that `finalize` finds it over (`Closed`).
  `RecorderMemoryIsKept` and `RecordingsAreWhole` follow.

`ConsoleProofs`, for any scheduler queue, log-in limit, length of chunk and size
of ring:

- `HostedInvariance`: the output ring has only bytes from since the present client
  came, wherever the server's task is, and the notifications shown and still queued,
  taken together, alternate and end with what the task last announced. From it
  `OutputStaysOwn` and `ToastsStayAlternate` (`OutputIsOwn`, `ToastsAlternate`, the
  latter until the queue has refused one).
- `LinkedInvariance`: the mirror is telnetd's only while a connection that has
  logged in is open, and sshd's from `start` on unless telnetd has taken it; every
  connection is `Sound`. From it `MirrorStaysKept` and `LoginsAreFinal`
  (`MirrorIsKept`, `LoginIsFinal`).
- `PushedInvariance`: until two pushes have overlapped, at most one producer is
  inside a push and the head it works with is the ring's (`Alone`), and what was
  taken is what was read followed by what lies between tail and head modulo the
  size (`InOrder`). From it `KeysStayInOrder` (`KeysInOrder`).

`SftpProofs`, on `RemoteClient`, for any number of connections, requests and buffers:

- `ConnectedInvariance`: a task at work is the last one created, on the stack that
  the Client keeps, and the Client has its handle once `connect()` has returned.
  From it `ConnectionsStayApart` (`ConnectionsAreApart`).
- `OwnedInvariance`: until a request times out it is in one of three places, and the
  MicroPython thread waits for it (`OneOwner`). From it `RequestsHaveOneOwner`
  (`RequestHasOneOwner`).
- `WholeInvariance`: what a method has transferred is in place and the position is
  at its end (`SoFar`), a request is for the piece that comes next (`Requested`),
  an answer tells what was done of it (`Told`). From it `TransfersAreWhole`
  (`TransferIsWhole`).

`VncdProofs`, for any rows, any limits and texts of any length:

- `ShowsInvariance`: the types of a connection and of what is queued for it, that a
  tick under way has a connection (`Talking`), and `RowsAreShown`. The lemma that
  carries it is `ShownInTurn`: what a client shows after two queues is what it shows
  after the second, having shown the first. Sending a part of the queue therefore
  changes nothing, an update (`UpdateShows`) adds just its rows, and what is no
  pixels adds none. `RowsStayShown` follows.
- `TypingInvariance`: there are a text `T` that the client has written, the places `C`
  where its messages begin, and a number `b` of units the server has taken, such
  that buffer and wire are the rest of `T` (`OnTheWay`), the units that the state of
  the connection still waits for end where a message begins (`Ahead`, `Clear`), and
  the keys owed are those that begin further on and the one being read. Only sending
  changes `T` and `C` and only parsing changes `b`, so a cut by `recv()` is invisible;
  a refused handshake leaves the frame, and such a connection parses no more
  (`Refused`). `KeysStayTyped` (`KeysAreTyped`) follows.

`ScreenProofs`, for any fonts, parameters and bars:

- `ScreenInvariance`: the record is in shape, the region is on the screen, the
  cursor is on the screen, and in origin mode in the region when the user's output
  may go on; every row that has changed is marked; and until a font change takes
  rows away, every saved cursor and every mark is on the screen (`Rooted`). There is
  one lemma per function of `st.c`, in the order in which they call each other, and
  `CsiSound` has one step per final byte. The region matters because the cursor is
  clamped to it: without `top <= bot < row` neither property is inductive.
- `CursorStaysInside`, `ChangesStayDrawn`: `CursorInside`, `ChangesAreDrawn`.
- `BarsKeepOut`: the action property `BarsLeaveHistory`, for bars of any length. While
  what has been written fits in the row there is no new line (`PutFits`), by induction
  over the characters (`ShownFits`).

All assume only the named `ASSUME` of their module. That of `SftpdVfs` says that
buffers and files are sequences of data, that no transfer is empty, and that no
path is called `"none"`, which the model writes where no path has been set; wolfSSH
never calls a hook for no bytes. TLC checks each inductive invariant as an invariant
before it is proved; those on the way to a theorem about data, on files and buffers
of up to three units.

Two functions are recursive over the length of their input: what a chunk of keys
does to a telnet connection, and what a bar writes. The library's induction
theorem takes a predicate, which no prover here can instantiate; `NaturalsClosed`
is the same induction for a *set* of naturals, from the minimum that
well-foundedness gives. With it the function is shown to exist (`FedExists`,
`ShownExists`), to satisfy its recursion, and to stay in the set of values in order.

Model-checked only: the liveness properties, because no temporal prover here handles
fairness (`CallsReturn`, `StopsReturn`, `TrackEnds`, `FloodEnds`, `StopEnds`,
`SilentIsDropped`, `ClosingEnds`, `WebCatchesUp`, `StopEndsAll`, `FinishedIsSeen`,
`DisconnectEnds`). Every safety invariant and action property that a passing run
checks is a theorem. The induction over the order in which messages are sent, cut and
parsed is in every case the induction over steps.

## What is abstracted

Time is order only: a time-out may happen whenever its wait is not over.
FreeRTOS and lwIP are their contracts. A store or load of a word is atomic, and
sequentially consistent across the two cores. Allocation may fail where the code
looks at it. `play()` on a deinitialised player, the nested callback that a
Python block device may run inside a file read, what a task does with a `Client`
or `Server` that was collected under it, and the way of a task from its last
store into `vTaskDelete` are outside the models; the first is named below, the
others are hazards.

## Not modelled

- The shared SPI bus (`hardware.py`, `sdcard.py`): the hazard is a callback that
  runs between two bytecodes of a block transfer, and which of them draw or read
  is decided by drivers and programs, so a model would state its own answer.
- The foreground programs, the shell and the status bar are sequential on one
  thread; what they share with the rest is in the models of what they use.
- `modtui`, the drawing half of `st.c` and the display drivers turn data into
  pixels; `tdeck_lora`, `tdeck_kbd`, `tdeck_trk` and the USB classes are register
  transfers.
- Frotz, neatvi, mxml, codec2, the image decoders and the fonts are other
  people's programs with thin glue. With the toolkit and the drivers they are
  most of the lines of the repository, so that the share of its lines the modules
  stand for stays small whatever is modelled of vtOS's own.

## Known divergences without a run

Met while reading, true of the models too, and not worth a run each. In the SFTP
server: fstat answers for the path an earlier hook left in the slot
(`modsftpd.c:543`); files of a client that disconnects stay in `_open_files`
(`sftpd.py:17`); a stopped `Server` is forgotten while its sessions run (162).

In the clients: `SFTPFile.read(size)` may return more than `size`, and then reads
to the end of the file, because `modsftp.c:263` reads a whole scratch buffer
whatever was asked (731 limits a `size` nobody uses) and `remaining` becomes
negative (`sftp.py:81,89`); a task that ends before `connect()` has stored its
handle leaves the handle of a dead task, and the `Client` can never connect again
(`modssh.c:494`); the semaphores of `modsftp.c` are not reset by `connect()`, so
that a request left over is carried out for the next server; output that finds
the receive ring full is lost.

In the audio drivers: after a wait that timed out `deinit()` frees ring and
channel under the task; the last bytes of an MP3 may be dropped
(`audioplayer.c:774`); a `record()` after a recording that its limit ended leaves
the header of that one at 0; what the capture task holds when it sees
`stop_request` is dropped (`audiorecorder.c:368`); `play()` and `record()` do not
look at the result of the take that reclaims the old stack.

In the mesh: an exception in `gap_advertise` leaves the radio not listening
(`blemesh.py:390`); a fragment with an index past its total raises `KeyError`
(187).

In the console: two overlapping pushes into the injection ring may bring old keys
back, where `modsshd.c:40-47` expects one to be dropped; telnetd can take the
mirror that `modsshd.c:33` says stays attached; after a failed `start()` of sshd
a second one is refused because the state stays IDLE; a telnet client that sends
CR LF types an empty password; timer 3 is taken by whichever of telnetd, vncd and
webvncd starts last. In `vncd.py` a send that fails leaves the queue, and with it
the only slot, as it is until `stop` (396); an update request is forgotten after
ten quiet ticks; memory that runs out between checksum and queue loses a row.

In the terminal: after a font with fewer rows the cursor, or one that was saved, may
be below the last row, and `tmoveto()` marks `term.dirty` there, past its end
(`st.c:877`), before it limits the position, although `tresize()` relies on that
limit (2336); text of a bar that wraps, or that is drawn when a wrap is pending,
pushes the bar's buffer into the history, which `fb.c:102-106` calls harmless, and
moves the bar's first character; the last character for REP is not saved around a
bar; negative counts of SU and DL clear two rows through swapped corners.

## Plan

1. Done: the core (`RingBuf`, `SftpdVfs`, `SftpdSlots`, `AudioPlayer`, `BleMesh`),
   the console (`Console`, `InjectRing`, `Vncd`, `Terminal`), `AudioRecorder`, and
   the clients (`RemoteClient`); proofs of the safety of all of them.
2. Theorems still worth proving: none of those the runs check is left but liveness.
   What could be added are refinements: the SFTP bridge as one atomic file
   operation per hook, the mesh as a set of messages that grows.
