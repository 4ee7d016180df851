# Edge AI runtime: TLA+ models, checks and proofs

This directory specifies the running system of the repository: the frame
pipelines of the C++ device agent (`device/src`, levels 0 to 4), what they compute
from a frame, the life of their process, the Python agent, and the path of a
detection through the Python server to the viewers and the dashboard
(`server/app`). TLC checks the models on small instances; TLAPS proves, for every
value of the constants, every invariant the runs check and all their properties that
are not about liveness, except those the code violates (section 5). Paths below are
relative to the repository.

    tlc -config Pipeline.cfg MCPipeline.tla      # one run; PROJECT.json lists them all
    tlapm RingBufferProofs.tla                   # and the other *Proofs

`PROJECT.json` holds the map from definitions to source lines, the runs, a mutated
definition for every checked property, the findings and the hazards.

## 1. Inventory

| Component | State | Operations | Interacts by |
|---|---|---|---|
| `RingBuffer<T,N>` (`ring_buffer.h`) | slots, two semaphores, two indices, `shutdown_` | init, acquire/commit write, acquire/commit read, shutdown, destroy | shared by two threads and the signal handler |
| Pipeline L4 (`pipeline.cpp`), L3 | rings A and B, three threads | recv, infer, upload loops, `request_shutdown` | recv -A-> infer -B-> upload |
| Pipeline L2 (`pipeline_l2.cpp`) | two bounded `PosixQueue`s | the same loops | the same, items moved by value |
| Pipeline L1 (`pipeline_l1.cpp`) | two unbounded `ThreadSafeQueue`s (mutex, condition variable) | the same loops | the same; the handler locks the mutexes |
| Pipeline L0 (`pipeline_l0.cpp`) | a flag | one sequential loop inside `start()` | handler sets the flag |
| Process (`main.cpp`, `start`, `stop`) | `g_pipeline`, `impl_`, ring and thread life | main, start with its error paths, stop, `sig_handler` | creates and joins the threads |
| gRPC client (`grpc_client.cpp`) | channel | `send_detection`, 5 s deadline | blocking call to the server |
| gRPC server (`grpc_server.py`) | pool of 4 workers | `ReportDetection`, `ReportStats` | calls the store |
| `Store` (`state.py`) | latest result and an `Event` per device, frame count | `update_detection`, `get_latest`, `get_frame_count`, `wait_new_frame` | shared by workers, viewers, dashboard |
| MJPEG stream (`main.py`) | `last_frame` per viewer | the generator | waits on the store |
| Dashboard (`main.py`) | cards and chart data shared by all pages, globals of the newest page | `dashboard()` per page, `_tick` every 0.5 s per open page | polls the store |
| Inference (`inference.cpp`) | kind of model | `run`, two parsers | called by infer |
| NMS (`postprocess.cpp`) | none | `nms_filter`, `compute_iou` | called by infer |
| Frame sources (`device/hal`) | file list and index, camera | `open`, `next_frame` | called by recv |
| Python device (`python_device/main.py`) | none kept | one sequential loop | calls the server |

Preprocessing, drawing and the interpreter are calls of OpenCV and TensorFlow Lite on
private data. Benchmark scripts, containers, models and data are not part of the
running system.

### What is hard

* **Concurrency.** Semaphore tokens are also used as wake-ups by `shutdown()`:
  afterwards they no longer count slots, and only the order "flag, then posts" and
  the flag test after each wait keep the slots apart. infer holds a slot of ring A
  while it blocks on ring B.
* **Shutdown.** The end of the source, one or two signals and the error paths of
  `start()` all call `shutdown()`, at any moment and on top of each other; all
  threads must still return.
* **Failure.** Each initialisation of `start()` can fail with some threads running.
  `send_detection` can fail or outlive its deadline while the server is handling it.
* **Restart.** A device that starts again numbers its frames from 1; viewers and charts
  only see numbers.
* **Ordering.** Several gRPC workers write one entry of the store; viewers share an
  `Event` that each of them clears. A dashboard tick reads the store twice, and all
  pages tick on the same chart data.

### What makes each component correct

* Ring: a slot has one user, items come out once and in order, a shutdown wakes both sides.
* Pipeline: an upload carries one frame's data, in order; bounded in-flight frames; joins end.
* L2, L1: the queue delivers everything once the source has ended by itself (they drain, the ring does not).
* Process: rings and `impl_` outlive the threads, every exit path releases everything once, a signal ends it.
* Detections: what is sent is a non-maximum suppression of what the model put out.
* L0: one thread, but a shutdown must get through its blocking calls.
* Dashboard: labels of one page agree, the card follows the store, no frame is counted twice as long as the store keeps the order.
* Store and stream: a viewer never goes back in time and ends up with the newest frame.

## 2. Modules

| Module | Models | Remarks |
|---|---|---|
| `RingBuffer` | one atomic step per operator of `ring_buffer.h` | no threads; used by the next two |
| `FrameChannel` | abstract: a closable bounded FIFO with a long-lasting put and get | what a ring promises |
| `RingBufferSPSC` | producer, consumer and other closers around one ring | core; refines `FrameChannel` |
| `Pipeline` | `pipeline.cpp`: three loops, two rings, handlers | INSTANCEs `RingBuffer` twice; each ring is proved to be used as `RingBufferSPSC` has it |
| `PipelineL3` | `pipeline_l3.cpp`, EXTENDS `Pipeline` | proved to implement it (`PipelineProofs`); no run of its own |
| `PosixQueue`, `PipelineL2` | `pipeline_l2.cpp` | INSTANCEs the queue twice |
| `CondQueue`, `PipelineL1` | `pipeline_l1.cpp` | mutex owner and waiter are explicit |
| `FrameLine` | abstract: frames captured, inferred and sent in order, one at a time, until the line is closed | what every level with threads promises; levels 4, 2 and 1 implement it |
| `Lifecycle` | `main.cpp`, `start()`, `stop()`, `sig_handler` | threads reduced to when they return |
| `Store`, `LiveView` | `state.py`, `ReportDetection`, `_mjpeg_generate`, `send_detection` | one device, its viewers |
| `Detections` | `inference.cpp`'s parsers, `postprocess.cpp` | functions, and `IsSuppressionOf`, the definition they are checked against |
| `SingleThread` | `pipeline_l0.cpp` in `main()`, `device/hal`, `python_device/main.py` | uses `Detections` |
| `Dashboard` | pages, ticks, cards and charts of `main.py` | one device, its own copy of the store's two values |
| `RingBufferProofs`, `PipelineProofs`, `PipelineL2Proofs`, `PipelineL1Proofs`, `LifecycleProofs`, `LiveViewProofs`, `SingleThreadProofs`, `DashboardProofs` | the theorems about the module each is named after | section 5 |
| `MC*` | model values and symmetry sets for TLC | |

### State and actions against the code

**Ring.** `ring` is the record of the private members. A method is cut at the
semaphore wait, at the flag test and at each post. The flag test and the index
update that follows are one step: each index has one caller (ring_buffer.h:7), the
step where the test is made decides whether the call is granted, and nothing else
reads the index. `write_mtx_` and `read_mtx_` are uncontended for the same reason
and do not appear. `shutdown_` is a `volatile bool`; the model reads it
sequentially consistently, which every real reading through a semaphore call is.
A wait that fails with EINTR returns `nullptr` when the flag is set
(`InterruptWrite`, `InterruptRead`); with the flag clear it is retried, a stutter.
`RingBufferSPSC` has the threads as they use both rings of level 4: recv calls
`shutdown()` twice when its source has ended (`eof`, `eofFlagged`, `eofWoke`, then
`leaving`), infer may leave as a consumer with a slot in its hand, which it gives back
(`ConsLeave`, pipeline.cpp:110).

**Level 3.** `PipelineL3` has recv_loop's vector (`resized`) and the two steps that use
it; every other step is level 4's, read off pipeline_l3.cpp.

**Pipeline.** A frame is the number of the `next_frame()` call that returned it.
A slot has the three parts the properties tell apart: its number, its model input
or detections, its image; recv writes them in three steps, infer reads the input at
`InferRun` and the other two at `InferCopy`, after it has waited for ring B. Time
stamps, the CSV and log lines are left out. `captured` counts `next_frame()`
calls, `frameNum` is the loop's own `frame_num`, which grows only once a slot has
been granted. recv calls `shutdown()` twice when the source ends (line 50 and
line 82), once otherwise. The handler's six steps may run between any two steps of
a thread; two handlers may overlap.

**L2.** `pop()` in shutdown mode drains without taking fill tokens or posting empty
ones; front() in normal mode relies on the token alone (`FrontExists`).

**L1.** Every lock is a step (`Lock`, `...Unlock`), because the handler takes the same
mutexes on top of a thread that may own them; the host thread is suspended
meanwhile. `pop()` sleeps, is notified or wakes spuriously, and tests its predicate
again. Frames beyond `MaxFrames` still make recv run, but are not followed
(`Untracked`), so that "recv runs for ever" is a real infinite behaviour.

**Lifecycle.** `main` is the program counter through `main()`, `start()` and `stop()`;
each `init()` and `pthread_create` succeeds or fails. A thread may return when the
ring it uses is shut down (`RecvReturns`, `InferReturns`, `UploadReturns`), which is
what module `Pipeline` establishes. `Destroy` may be called at any time, as in the code:
on a ring that is not initialised, or has been destroyed, it leaves "broken", for good,
where POSIX leaves the effect open. `InitA`, `InitB` reset `shutdown_`
(ring_buffer.h:38).

**LiveView.** The device makes one blocking call at a time; the call ends with the
reply, with its deadline, or because the request is lost. `late` records that some
call has outlived its deadline. `wait_new_frame()` is cut where the code is: Event
looked up under the lock, `clear()`, test, wait. A frame with an empty thumbnail
(`Blank`) is skipped as in `_mjpeg_generate`. A browser's departure is noticed only
at a `yield`. A frame is a run of the device and a number; the code knows the number
only (`Look` compares nothing else). A restart may abandon a call the server is
still handling, which is `late` as well.

**Detections.** Coordinates are doubled integers, scores per cent; a detection carries
the anchor it was made from, which the code does not keep. `std::sort` is not
stable: `SortedOrders` has every order it may produce, Python's stable sort is one of
them. Suppression ignores classes, as the code does. The loops that `push_back` what
they keep are `Where`, the two loops over suppression marks are `Suppressed`: the mark
of a box, from the marks of those before it.

**SingleThread.** `agent` is level 0 or Python. An unreadable file ends the source at
level 0 (`FileEnds`) and is passed over in Python (`PySkips`, for ever if no file can
be read). Nothing is bounded: the folder is read in a circle.

**Dashboard.** `_tick` is cut between its two reads of the store, the only place where
another thread can change what it sees; the event loop runs one tick at a time. The
globals belong to the page opened last (`newest`), the card to the page that was
newest when the device first reported. `SetPrev` runs at every tick; a point needs a
higher number and a clock that has moved on. `stored` is a ghost: how many reports
had been stored when the frame on the card was the latest. The reports are those of
`LiveView` with the server reduced to the set `requests`: `DeviceSends` adds one or
loses it, `UpdateDetection` takes any of them (up to four workers hold one each), and
one that gRPC drops is one never taken. `late` is set when the device goes on, to its
next frame or through a restart, while a request is still with the server.

## 3. Runs

| Run | Bounds | Shows |
|---|---|---|
| `Ring` | N=3, 7 items, 2 closers; 33k states | type, `SlotExclusive`, `InOrder`, `ImplementsChannel`, `ShutdownEndsThreads`, `Delivered` |
| `Pipeline` | 2 slots, 6 frames, 1 signal; 418k states | `SlotsExclusive`, `CoherentUpload`, `ImplementsLine`, `ShutdownJoins`, `Uploaded`, no deadlock |
| `PipelineL2` | capacity 2, 8 frames, 1 signal; 1.3M states | `FrontExists`, `QueuesBounded`, `ImplementsLine`, `EndDrains`, `ShutdownJoins`, no deadlock |
| `PipelineL1` | 2 frames, a signal on any thread; 142k states | `ImplementsLine`, `EndDrains`, `OnlySignalBlocks`, `EverythingSent`, `EndJoins` |
| `Lifecycle` | 2 signals; 1.6k states | `RingsOutliveThreads`, `NothingLeaks`, `DestroyedOnce`, `ShutdownExits`, `FailedStartExits` |
| `LiveView` | 2 viewers, 2 runs of 2 frames, 2 workers, 1 blank; 490k states | `YieldsNewer`, `NewestShown` |
| `SingleThread` | all outputs of 3 anchors (3 boxes, 4 score pairs), 4 folders and a camera; 101k states | `SentIsSuppression`, `FlagExits` |
| `Dashboard` | 2 pages, 4 reports in 2 runs, 2 points; 878k states | `TotalCoversCards`, `FramesCountedOnce`, `CardFresh` |
| `PipelineL1Interrupt`, `LifecycleStartup`, `LiveViewWait`, `LiveViewDeadline` | smallest that show it | violations, section 4 |

Why the bounds are enough. Every bound is a constant: `N`/`Slots`/`Capacity` (the
program's 4, 4 and 8), `MaxItems`/`MaxFrames`, the number of signals, viewers and
workers. With N = 3 and 7 items each index wraps twice and the ring is full and
empty in every position; with 2 slots and 6 frames both rings of `Pipeline` can be
full with frames to spare, which is what the bound of the line needs to be able to fail
(2 * 2 + 1 in flight); `PipelineL2` with 8 frames reaches its bound of 2 * 2 + 3 too. Two
closers beside the producer's own make three tokens too many; a thread takes at
most one before it leaves. Two workers suffice for a reordering, two viewers for
one to clear the other's event. `MaxFrames` is a guard on capture only: at the bound
the source is silent, as a camera may be. Three anchors are the shortest chain in
which the second box is suppressed and the third must not be; the scores lie below,
at and above the threshold, with ties. Two runs of a device make numbers repeat and
fall; two chart points make the deque drop one. Four reports are what it takes to count
a frame twice after a late store, and in this run TLC finds `FramesCountedOnce` violated
if its premise `~late` is left out.

`PipelineL1` does not check deadlock: the handler may block for ever on a mutex its
own thread owns (pipeline_l1.cpp:280-284), and the real process stops there.
`OnlySignalBlocks` says that this is the only way for it to stop with a thread that has
not returned. In all
other runs a state without successor is an error, and the only stuttering end is
"everything has returned". In `LiveView` `Quiet` is the case of all viewers gone and
nothing left to send.

### Fairness

* Each thread is weakly fair: it is scheduled, and the calls it makes return
  (inference is computation; `send_detection` has a 5 s deadline).
* A signal handler that has begun goes on. No signal has to come.
* The source answers while it has frames. At the bound it may stay silent, and must
  answer only once the pipeline is shut down: recv blocked in `next_frame()` for
  ever is outside what `shutdown()` can end.
* EINTR is never assumed (with `signal()` on Linux the wait is restarted): a blocked
  thread has to be woken by a post.
* L1 threads are strongly fair: a mutex does not starve a waiting thread for ever.
  Spurious wake-ups are possible and not relied on.
* In `Lifecycle` a thread whose ring is shut down returns; that is `ShutdownJoins`
  of `Pipeline`.
* In `LiveView` workers and viewers are fair and a wait times out; the device may
  stop, a deadline need not pass, a browser need not leave, nothing has to restart.
* In `SingleThread` the thread runs and OpenCV's and TensorFlow Lite's calls return
  (the file source and the V4L2 camera answer or fail). The call to the server returns
  at level 0, which has a deadline; Python's has none and need not.
* In `Dashboard` the timer of an open page fires again and again; nothing has to be
  sent or handled.

## 4. Findings

1. `PipelineL1Interrupt`: level 1 does not stop on Ctrl+C while its source has
   frames; `recv_loop` is `while (true)` and `push()` ignores `shutdown_`
   (pipeline_l1.cpp:105), though benchmark_results/pipeline_levels_analysis.md:9
   reports stopping every level that way.
2. `LifecycleStartup`: a Ctrl-C between the installation of the handler and the
   initialisation of the rings is swallowed (main.cpp:24); RUNBOOK.md:157 gives
   Ctrl-C as the way to stop. Once ring A is initialised, `ShutdownExits` holds.
3. `LiveViewWait`: `wait_new_frame()` can time out although a frame arrived during
   the call, because `clear()` follows the lookup (state.py:48 against its docstring).
   `NewestShown` says the stream recovers at the next timeout.
4. `LiveViewDeadline`: after a call has outlived its deadline, the "latest result"
   (state.py:21) can be replaced by an older one (state.py:28). Before that,
   `YieldsNewer` holds. The chart suffers as well: prev_frame goes back with the frame
   (main.py:250), so ticks that read 1, 3, 2, 4 draw the points 1 to 3 and 2 to 4,
   and count frame 3 twice. `FramesCountedOnce` therefore holds up to such a store
   only, and says so.

## 5. Proofs

TLAPS checks every proof to its last leaf. The assumptions are those the modules
state on their constants, and no others:

| Module | Assumed |
|---|---|
| `RingBuffer`, `Pipeline`, `PipelineL2` | a ring or queue has at least one place (the code's constants are 4, 4 and 8) |
| `RingBufferSPSC`, `Pipeline`, `PipelineL2`, `PipelineL1` | the bound on items or frames is a natural number |
| `PipelineL1` | a signal is delivered to a thread of the process |
| `LiveView` | bounds are natural numbers, a device starts at least once, blank frames are frames |
| `Detections` | `ConfThreshold` is an integer (per cent) |
| `SingleThread` | a folder is a sequence of files; an output is one of YOLOv8 with scores from 0 up ("already in [0,1]", inference.cpp:120) and at least one class, or one of an SSD whose count does not exceed its rows |
| `Dashboard` | bounds are natural numbers, a device starts at least once, and "no page" is not a page |

Sets of signals, closers, viewers, workers and pages are arbitrary.

| Property of a run | Proved by |
|---|---|
| `Ring`: `TypeOK`, `SlotExclusive`, `InOrder`, `ImplementsChannel` | `RingBufferProofs`: `TypeCorrect`, `Exclusion`, `FirstInFirstOut`, `Refinement` |
| `Pipeline`: `TypeOK`, `SlotsExclusive`, `CoherentUpload`, `ImplementsLine` | `PipelineProofs`: `TypeCorrect`, `SlotsApart`, `UploadsCoherent`, `LineImplemented` |
| the same, of level 3 | `PipelineProofs`: `Level3ImplementsLevel4`, `Level3Correct` |
| `PipelineL2`: `TypeOK`, `FrontExists`, `QueuesBounded`, `ImplementsLine`, `EndDrains` | `PipelineL2Proofs`: `TypeCorrect`, `FrontSafe`, `Bounded`, `LineImplemented`, `Drained` |
| `PipelineL1`: `TypeOK`, `ImplementsLine`, `EndDrains`, `OnlySignalBlocks` | `PipelineL1Proofs`: `TypeCorrect`, `LineImplemented`, `Drained`, `BlockedBySignalOnly` |
| `Lifecycle`: `TypeOK`, `RingsOutliveThreads`, `NothingLeaks`, `DestroyedOnce` | `LifecycleProofs`: `TypeCorrect`, `ThreadsSafe`, `NoLeak`, `NoDoubleDestroy` |
| `LiveView`: `TypeOK`, `YieldsNewer` | `LiveViewProofs`: `TypeCorrect`, `ShownInOrder` |
| `SingleThread`: `TypeOK`, `SentIsSuppression` | `SingleThreadProofs`: `TypeCorrect`, `SentCorrect` |
| `Dashboard`: `TypeOK`, `TotalCoversCards`, `FramesCountedOnce` | `DashboardProofs`: `TypeCorrect`, `TotalCovers`, `CountedOnce` |

Theorems that no run states as a property of its own:

| Theorem | Says |
|---|---|
| `PipelineProofs!RingsCompose`, `RingsAreChannels` | level 4 is two rings as `RingBufferSPSC` has them, hence two channels composed by infer |
| `PipelineProofs!BackPressure` (`InFlightBounded`), `PipelineL2Proofs!InOrderSent`, `PipelineL1Proofs!InOrderSent` (`SentInOrder`) | what the line says of frames on the way and of order, as invariants of the variables |
| `RingBufferProofs!NobodyStuck` | who is blocked on a ring has somebody who can go on and wake him |
| `PipelineProofs!NoDeadlock`, `PipelineL2Proofs!NoDeadlock` | levels 4 and 2 never stop with a thread in them |
| `PipelineProofs!Level3ImplementsLevel4`, `Level3Correct` | level 3 implements level 4 and inherits its safety |
| `PipelineL1Proofs!MainHandlesSafely` | if only the main thread takes signals, no handler waits for its own mutex |
| `SingleThreadProofs!NmsSuppresses`, `RunFindsCandidates` | what `nms_filter()` and the parsers compute, for every input |
| `LiveViewProofs!LatestUntilLate` | the limit of finding 4 |

Each proof module defines the inductive invariant of its specification, `IInv`, as a
conjunction of named parts, and proves `Invariance`: `Spec => []IInv` (in
`RingBufferProofs` and all others alike). TLC was run on each `IInv`, with the bounds
of section 3, before it was proved. What follows says why the parts are needed.

**The ring** (`RingBufferProofs`). Neither `SlotExclusive` nor `InOrder` is inductive.
`IInv` adds what they depend on:

* `TokensExact`: as long as the flag is clear, tokens count the free and the filled
  slots exactly, counting the token a woken thread holds. After `shutdown()` nothing
  can be said of the tokens, and nothing has to be: the flag test refuses.
* `FlagFirst`: no post of `shutdown()` precedes its flag. This is why the posts
  cannot disturb `TokensExact`, and where the order of lines 93-95 matters.
* `InUse <= N`: slots written, filled or read never exceed N. It survives the
  shutdown, because then slots are only given back or completed.
* `Cursors`: both indices are the item counts modulo N.
* `Contents`: item k, until it is given back, lies in slot (k - 1) % N.

`NextCounts`, `NextCursors` and `NextContents` prove the three groups, one step per
action. `WriterApart` is the heart of the last one: since at most N items are in
use, the number being written and those still in use differ by less than N, so
their slots differ (`ModApart`). `Exclusion` is the same argument for the slot being
read. The first section of the module has the facts on remainders and says, operator by
operator, what happens to each member of the ring.

**The ring as a channel** (`Refinement`). Under the mapping, the queue of `FrameChannel`
is read off the slots between the indices. By `IInv` these are consecutive numbers
(`QueuedIsRun`), so a commit is an append and a take is a tail of such a run
(`RunAppend`, `RunTail`). One more invariant is needed, `HasItem`: a producer that asks
for a slot has an item of the source to put into it. Everything else the ring does
(waits, refusals, posts) is a stutter, a repeated shutdown too.

**Nobody waits for nothing** (`NobodyStuck`). After `shutdown()` the tokens are no longer
exact, but they can still be counted from below (`Wakes`): a thread in its loop finds as
many tokens as there are slots for it, and one more once the handler has posted, because
the flag test sends away whoever takes that one. `FlagHasSetter`: a flag that is set was
set by a `shutdown()` whose posts are made or under way. ENABLED is out of the prover's
reach, so "can go on" is written out: not in `sem_wait`, or there with a token.

**Level 4** (`PipelineProofs`). The two rings share infer, which holds a slot of A
while it waits for B, so they are not two independent rings, and `IInv` speaks of both:

* `Numbers`, `Captures`: how many frames have passed each place (`frameNum`, `Got`,
  `Put`, `Fetched`); each stage is behind the one before by at most the slots between
  them. infer keeps no counter: `Put` is read off the slot it filled last.
* `TokensA`, `TokensB`, `CursorsA`, `CursorsB`: as for one ring.
* `FlagFirst`, with one conjunct no single ring has: ring B is never shut down before
  ring A. So infer, when ring B refuses it, gives up a frame, and its place in the
  counts, only when ring A grants nothing any more either.
* `ContentsA`, `ContentsB`: a filled slot holds the three parts of one frame; a slot
  being filled, those written so far; `dets` are those of the frame in hand.

The lemmas of `RingBufferProofs` are used twice, through the instances `RA` and `RB`.
`SlotsApart` and `UploadsCoherent` follow as in the ring; `BackPressure` is the sum of
the two `Numbers` bounds and of `Captures`.

**Level 4 as two rings** (`RingsCompose`). `RA` and `RB` instantiate `RingBufferSPSC`
under two mappings: of each thread only what it does to that ring is kept, of a slot only
its number, and a handler closes ring A with its first three steps and ring B with the
others. Every step of `Pipeline` is a step of one ring, of both (infer that is refused a slot
of A stops consuming and starts to shut B down), or of none. The counts of a ring are read off the state: `Taken` counts what
infer has taken by the detections it computed last, which still holds after it has left;
`TakenIsGot` ties it to `Got`. That infer leaves ring A only with its flag set
(`ConsLeave`) is `FlagFirst` again: B is never shut down before A. So all theorems of
`RingBufferProofs` hold of both rings (`RingsAreChannels`).

**No deadlock** at levels 4 and 3. The three threads form a chain, and both rings could
block at once: recv on a full A, infer on a full B, or infer on an empty A, upload on an
empty B. `NobodyStuck` of both rings excludes each cycle (`ChainEnds`): what is blocked
has a neighbour that can go on, or that is blocked on its other ring. Waiting for
`next_frame()` or `send_detection()` is not being blocked: both are calls out of the
pipeline.

**Level 3** (`PipelineProofs`). `Level3ImplementsLevel4`: `SpecL3 => Spec`.
`ResizedInHand` says that the vector is empty or holds the frame recv has captured
last; it is invariant (`ResizedStep`) because recv captures nothing between the resize
and the commit. With it every step of level 3 is a step of `Pipeline` or leaves its
variables alone (`StepMaps`). `Level3Correct` lists what therefore holds of level 3;
liveness does not carry over by this theorem.

**One line of frames** (`LineImplemented`, at levels 4, 2 and 1; at level 3 by
`Level3Correct`). `FrameLine` is what every level with threads promises. The mapping reads
what inference and upload work on where the code reads it: at level 4 the input in the
slot of ring A, and the number, the detections and the image in the slot of ring B, each
a set that has one member only if nothing is mixed. `InTurn` (at level 4 `Finished` and
`InTurn`) gathers what `IInv` says of it: what is taken is the next frame, and who has
returned has found the line closed. Each step is then a step of the line or none; that the
last thread to return is the return of the line is `LastReturns`. The levels differ in two
constants. `InFlight` is `2 * Slots + 1` at level 4 (two rings and recv's hand) and
`2 * Capacity + 3` at level 2 (each thread has a frame in hand outside the queues); level 1
has no bound, and `MaxFrames` there only says how far frames are followed. `Drains` is
false at level 4, where inference begins nothing once ring A is shut down, and true at
levels 2 and 1, which go on until their queues are empty and, without a signal, return
only when all is sent.

**Level 2** (`PipelineL2Proofs`). Each queue holds consecutive frames (`InOrder`); a
frame captured is sent, queued, or in one thread's hand, or was dropped by a thread
that has left (`Chain`). Tokens are exact until the flag is set; afterwards `Granted`
is what is left, and enough: who has passed the flag test has a place, or an item, of
his own. That is `FrontExists` when a shutdown falls between the wait and `front()`.
`Granted` alone is not inductive: without `FlagFirst` (who posts or drains has set the
flag or seen it set) the posts could come before the flag. `Unsignalled` is for
`EndDrains`: without a signal only the producer shuts its queue down, after its last frame.

`NoDeadlock` needs the tokens of a queue from below, as for the ring, but `pop()` drains
without taking any: `EnoughA` and `EnoughB` count a token for every item as long as the
consumer pops, and `Spare` one for the producer after the handler's post. `Closed` says
who can have set a flag. The part that surprises is that a consumer that drains leaves its
tokens behind, which can only be too many.

**Level 1** (`PipelineL1Proofs`). The same chain without tokens: `push()` never fails,
`pop()` tests its predicate under the lock after any wake-up, so nothing is dropped at
all. The proof does not need the mutexes to exclude each other, only that appending
and removing are single steps, which is what the lock is there for.

`BlockedBySignalOnly` does need them: `Owned` says that a mutex that is taken belongs to
a thread between its lock and its unlock, which can go on, unless a handler runs on top of
it. `AwakeSoon`: a consumer asleep next to an item, or after `shutdown()`, is about to be
notified; this is where a lost wake-up would show, because the code notifies after it has
unlocked. No two mutexes are ever held together by the loops. `MainHandlesSafely` adds the
remedy: with the signal blocked in the threads, the exception (`OwnMutex`) cannot occur,
main owning no mutex.

**Lifecycle** (`LifecycleProofs`). Three parts tie what exists to where main is:
`RunsUnjoined` (a thread runs only between creation and join), `ImplFollows`,
`RingsFollow`. The theorems then read off the error paths, each at its own place:
wherever main is about to destroy a ring, `RingsFollow` says that it is ready, so none
is ever "broken" (`NoDoubleDestroy`).

**Stream** (`LiveViewProofs`). As long as `late` is false there is at most one request,
the device's current call (`OneRequest`), newer than what the store has (`StoreBehind`),
and no viewer is ahead of the store (`ViewersBehind`). `LatestUntilLate` marks the
limit of finding 4: the deadline is the only way to replace a frame by an older one.

**Dashboard** (`DashboardProofs`). Frames are ordered by run and number (`NotAfter`),
which the code cannot see. `Order`, as long as `late` is false: the only request under
way is the frame sent last, so the store never goes back (module `LiveView` has the same
with its deadline as a step of its own); prev_frame is not after what the tick has read,
which is not after the store's. A new point therefore counts frames after prev_frame,
and all earlier points (`Lines`) frames up to it. `Counters` and `PagesOpened` give
`TotalCoversCards`: the second read counts at least the reports of the first, and a
page that was never opened has no total.

**Detections** (`SingleThreadProofs`). What a loop computes for every input needs an
induction over its rounds. The induction theorems of the library take a formula as
parameter; `Induction` here takes the set of the round numbers for which the claim holds,
and rests on the least element of a set of natural numbers. `RoundsExist` shows that the
loop of `Where` can be carried out, `WhereFacts` what it keeps, in which order; `MarksExist`
and `SuppressedFacts` give the equation of the suppression marks. `NmsSuppresses` follows:
a box that is missing was suppressed by an earlier one that was kept, and earlier means at
least as confident, because the list is sorted first. Neither the box type nor `Overlap` is
looked into, so it holds for any boxes and any IoU threshold. `RunFindsCandidates`: the
strict comparison in the loop over classes finds the first of the best (`BestClassWins`),
starting from 0, which is why scores must not be negative.

**Level 0 and Python** (`SingleThreadProofs`). `FromOutput` and `Suppression` keep what the
thread has in hand tied to the output it came from; `HasFiles` makes the circular index an
index of the folder.

**Only model-checked.** All liveness properties: the prover does not handle fairness.
`NoDeadlock` is the part of them that is safety.

## 6. Not modelled

* Frame contents, time stamps, CSV and log lines; the interpreter, the choice of the
  parser by tensor shapes, quantisation, preprocessing and drawing: calls of libraries
  on private data.
* The cut at `kMaxDetections` (pipeline.cpp:116): `SentIsSuppression` has the order it
  relies on.
* `ReportStats`, the latency line, the online icon and the texts of the dashboard, more
  than one device (entries, events, cards and charts are per device).
* Clocks, hence the values of FPS and latency: prev_ts is only "set or not".
* Use of the rings by a handler that runs while `stop()` destroys them (undefined
  behaviour, listed as a hazard); the web server's thread pool.
* `RingBuffer::init()` inside: it is one step that succeeds or fails. What NiceGUI does
  to the elements of a page that has closed: `Dashboard` goes on writing to them.
* `start()` and `stop()` of level 1: exceptions of `std::thread` are not handled there.

## 7. Plan

Done: all models; theorems for the ring, all levels, lifecycle, stream and dashboard;
the ring implements the channel, level 4 is two such rings, level 3 implements level 4,
levels 4, 2 and 1 implement one line of frames; no deadlock at levels 1 (but for finding
its own mutex) to 4. Liveness stays with TLC.
