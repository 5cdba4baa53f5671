# Models and proofs of the Gaussian streaming player

The repository streams the layers of a Gaussian-splat scene from a publisher to
a browser over MoQ, through an L4S bottleneck that runs in a QEMU guest, and
decides from what it measures whether the run was a good one. What has to be
right in it is not the rendering but the plumbing and the verdicts: an output
queue between threads, a protocol that changes the priority of a running FETCH,
a bridge that must keep an audit trail complete, launchers that start a dozen
processes on three levels and may only say PASS when all of them did their
part, and the tools that turn scenes into objects and evidence into numbers.
This directory holds TLA+ models of those parts, the TLC runs that check them
on small instances, and TLAPS proofs of the central results for instances of
every size.

Paths below are relative to the repository's `tools/l4s/`, unless they start
with another directory of it.

## 1. Inventory

The media path of one run:

    browser --WebSocket--> tcp_forward.py --TCP--> priority_ws_bridge.mjs
        --stdin/stdout--> priority_moq_sidecar.c --QUIC--> relay
        <--QUIC-- priority_moq_publisher.c  (kept alive by its supervisor)

and the processes around it:

    run_camera_trace_player.py            the host: browser, verdict, recording
      -> run_qemu_player.py               a machine on an image of qemu_setup_cache.py
           -> run_camera_player_guest.py  Mininet, background flows, services
    run_sustained_profile.py -> launch.py the measurement without a browser
      -> monitors, qemu_priority.py -> sustained_probe.py in the machine

| Component | State | Operations | Interacts through |
|---|---|---|---|
| **Output queue** of the sidecar (`priority_moq_sidecar.c` 43-128, 213-259) | queue of frames, byte count, closing and failed flags, the writer's frame and offset | `write_frame`, `output_worker`, `output_write_all`, `output_stop` | mutex, two condition variables, `write(2)` on the pipe to the bridge |
| **Fetches and priorities** of the sidecar (261-644) | tables of fetches and of updates in flight; applied, desired and pending priority with their epochs; objects seen | `open`, `priorities`, `close` commands; the callbacks `ready`, `gone`, `update_accepted`, `update_error`, `incoming_object` | `state_mutex`, stdin lines, imquic calls and callbacks, frames to the queue |
| **WebSocket bridge** (`priority_ws_bridge.mjs`) | the client, the child process, buffered frames and commands, outstanding objects, closing, audit and exit flags | events of the child, its pipes, the HTTP server, the socket, a timer and signals | child's stdin/stdout, socket, exit status |
| **Publisher** (`priority_moq_publisher.c`) | catalog, per-track progress, stopping / failed / written flags, the readiness file | main loop, `publish_ready`, `publish_accepted`, `publish_error`, `publisher_failed`, `publisher_gone` | atomics and a mutex, the readiness file, imquic |
| **Supervisor** (`priority_publisher_supervisor.py`) | stop event, the child, whether it has been ready | `supervise`, signal handler | the readiness file, signals to the child |
| **Setup cache** (`qemu_setup_cache.py`, parts of `run_qemu_player.py`) | entry directories, lock files, staging directories | `locked`, `valid`, `obtain`, `prepare`, `stop_qemu` | the file system: flock, rename |
| **TCP forwarder** (`tcp_forward.py`) | two sockets and two copy loops per connection | `copy`, `handle` | sockets, threads |
| **Guest run** (`run_camera_player_guest.py`, `thesis_player_topology.py`) | the list of processes, the network, the sampler thread, evidence files | network, background flows, start of the services, watch loop, verdict, cleanup | processes, files, `/proc` and `tc` through commands in network nodes |
| **QEMU run** (`run_qemu_player.py`) | the machine, the make target in it, the retrieved results | checks, archives, image, boot, ssh, copy, `stop_qemu` | ssh, processes |
| **Host run** (`run_camera_trace_player.py`, `run_priority_audit_loopback.py`, the browser runner and web server) | processes, failure, telemetry, recording | start in three modes, wait, reference rendering, cleanup, conversion, verdict | processes, files, HTTP, signals |
| **Sustained profile** (`sustained_profile/`, `run_sustained_profile.py`) | unit, monitors, pins and stop files; network, flows, endpoints and window of a case | launcher, monitors, runner, both cases, analysis and validation | systemd, files, signals |
| **Stall analysis** (`analyze_player_stalls.py`) | none: telemetry and metrics in, verdict out | intervals, clock alignment, streaks, coverage | files |
| **Scene preparation** (`prepare_player_sh3.py`, `convert_3dgs_ply_to_splat.py`) | none | cells, tiles, layers, objects, parts | files |
| **Traces, gates, comparison and plots** (`generate_camera_priority_trace.py`, `run_priority_audit_loopback.py`, `compare_player_sequence.py`, `plot_scene_experiments.py`) | none | camera trace, coverage gate, pairing of frames, bins and rates | files |
| **Rest** (`player_quality.mjs`, `experiment_metadata.py`, the other topologies, `check_cpu_prerequisites.mjs`) | page state, or none | capture, version report, configuration | see section 7 |

What is hard, and what makes each part correct:

* *Output queue.* Several threads block on one bounded buffer while a writer
  makes partial writes, fails, or is told to stop. Correct: the buffer never
  exceeds its limit, the stream never misses or repeats a byte (the framing is
  length-prefixed, so one lost byte ruins the rest), no wake-up is lost, and a
  clean stop has written everything.
* *Fetches and priorities.* Commands keep arriving while an update is in
  flight and objects are delivered by another thread. Correct: at most one
  update per fetch on the wire, the applied priority is the relay's, every
  update sent is resolved exactly once in the audit, the audit is final, and
  the browser's last wish wins.
* *Bridge.* A window of unacknowledged objects pauses the sidecar's output,
  which fills the sidecar's queue, which blocks its threads, which stops it
  reading commands; a close must cut through all of that. Correct: the window
  holds, objects and commands keep their order, a close is answered by the
  audit, close code 1000 implies an audit, sessions do not leak.
* *Publisher and supervisor.* A file is written by one process and removed by
  another, and by callbacks of the first. Correct: whoever sees the file may
  rely on a complete publication by the child that is running now.
* *Setup cache.* Runs are killed at any point, a guest may outlive its run, and
  a cached image is the backing file of running overlays. Correct: only a
  completely prepared, cleanly powered-off image is ever published, and what is
  published never changes.
* *Forwarder.* Half-closes cross in both directions. Correct: the last
  acknowledgement and the final audit get through, and the thread ends.
* *Guest run.* Any of up to eight processes, a thread or a command in a node
  may fail in any phase, and the checks of them lie in different passes of a
  loop. Correct: a summary means that the whole run was as it should be, every
  way out stops what was started, and the exit status tells of any failure.
* *Host run and QEMU run.* Exit code 0 of the launcher depends on a browser, a
  runner, a make target behind ssh, results behind another ssh, a comparison
  and a conversion. Correct: 0 only when each of those that were asked for
  succeeded, no process survives, and a recording is never lost.
* *Sustained profile.* Two monitors, a unit and a machine are started by one
  script, in which the verdict rests on files the monitors leave. Correct: PASS
  means that both windows were measured undisturbed, and nothing stays behind.
* *Analyses.* The verdict of the stall analysis is built from clipped intervals
  of three clocks; scenes are cut at rounded boundaries; bins and rates are
  half-open. Correct: PASS leaves no room for a stall, no Gaussian is lost or
  repeated, sums agree with what they are sums of.

The full list of hazards, with the line where each one bites and the property
that would catch it, is the `hazards` list of `PROJECT.json`.

## 2. Modules

| Module | Models | Role |
|---|---|---|
| `BytePipe` | what the output queue promises | abstract specification: a bounded byte pipe that accepts whole frames, emits bytes in order, and drains or breaks |
| `SidecarOutput` | the output queue | one action per lock section and per `write(2)` |
| `SidecarFetches` | fetches and priorities | one action per command item and per callback, with the relay's side |
| `Bridge` | the bridge between a browser and a sidecar | one action per Node event handler |
| `Publisher` | publisher, supervisor and the readiness file | three threads of control |
| `SetupCache` | cache entries, locks, preparation and use | one action per step a crash can separate |
| `TcpForward` | one forwarded connection | two copy loops, `handle`, and the kernel's buffers |
| `GuestRun` | the run in the machine | main, its processes, the sampler thread, an interrupt |
| `QemuRun` | one run of the QEMU runner | steps only, no specification of its own; composed by `HostRun` |
| `HostRun` | the launcher on the host | extends `QemuRun`: launcher, runner, machine and job side by side |
| `SustainedCase` | the guest's side of the sustained profile | steps only; composed by `SustainedRun` |
| `SustainedRun` | the host's side | extends `SustainedCase`: launcher, unit, monitors and the cases side by side |
| `Lists` | loops over lists: filtering, adding up | recursive functions, which the proof system can reason about (it can about neither `SelectSeq` nor folds) |
| `StallAnalysis` | `analyze()` | operators, from a run's inputs to the exit status |
| `ScenePreparation` | export and conversion of scenes | operators |
| `RetainedEvidence` | what is plotted of a retained run | operators |
| `PlaybackInputs` | camera traces, captures, the loopback gate | operators |
| `Analyses` | the four modules above | feeds one tool one more input per step and states what its result must mean |
| `...Proofs` | | theorems about the module they are named after; `SidecarProofs` those about both halves of the sidecar, `ConnectionProofs` those about `Bridge` and `TcpForward`, through which the browser is connected |
| `MC...` | | instances for TLC |

Correspondence with the code; the `map` of `PROJECT.json` gives the lines of
every definition.

**`SidecarOutput`.** Variables carry the names of `output_*`; those that the
other half of the sidecar has as well are named apart here (`stopFlag` is
`stopping`, `mainStage` where main is, `QueueInit` and so on). `mainStage` has
main in `getline` ("reading"), at work on a line ("handling"), past its loop
("leaving"), in `output_stop` ("joining") or past it ("stopped"). A line or the
end of the input (`LineArrives`, `InputEnds`) is what takes it out of `getline`;
`stopFlag` is looked at after a line only (`AfterLine`), and a signal lets the
read restart. The thread that is main calls `write_frame` only while it handles
a line (`MayCall`). `caller[p]` is
where thread p is inside `write_frame` (entering, or waiting for
`output_space`); `writer` is where `output_worker` is. A byte is its position
in the stream of accepted bytes, so `stdout` is the list of positions the
reader took. `Call` covers the size test of lines 230-234, `Enqueue`, `Block`
and `Discard` are the three ways through lines 241-259, and `Write` takes any
non-empty part of what is left (EINTR is a stutter). `SpuriousWake` models what
`g_cond_wait` allows.

**`SidecarFetches`.** `state_mutex` is held across a whole command, so `main =
"items"` keeps every callback out while the items are handled one at a time;
`incoming_object` writes its frame after unlocking, so that write is an action
of its own (`WriteObject`, `WriteComplete`) and anything may come between.
`send_next_update` is an operator used by every action that calls it. Frames
are appended to the log `out`, which the browser later audits. Only
`fetch_accepted` and `fetch_error` are left out: they emit a status and change
nothing.

**`Bridge`.** A Node program runs one event at a time, so an action is an event
handler with all it calls: `StdoutData` runs `processNativeBytes` to its end,
`OpenOrPriorities`, `CloseCommand` and `ObjectAck` are the messages of the
browser, `ChildClose`, `SpawnFails`, `AuditExit`, `SocketClose`, `Exit` and
`Shutdown` the rest. The sidecar is reduced to what the bridge can notice: a
main thread that obeys commands, callbacks that write frames, and a bounded
pipe that blocks both. State is grouped by where it lives: the variables of the
module, the exit, the socket, the sidecar, its input and output, the browser.
`Process` is `processNativeBytes` with all it calls, and `Pump` the writes to the
sidecar; an exception that Node would die of is `Crash`. WebSocket parsing is
abstracted to whole messages; a message that fails its checks is the message
`bad`.

**`Publisher`.** `file` holds the number of the child that wrote the readiness
file, so a stale file can be told from a fresh one. The callbacks run one at a
time on the library's event loop (`loop`) next to the main thread; the mutex of
`publisher_gone` and of the write is `MutexFree`. A track is its position in the
manifest, and `Tracks` are the positions `load_manifest` keeps: an entry without
objects or of another scene is dropped.

**`SetupCache`.** An image carries four facts: who prepared it, over which base,
whether provisioning finished, and whether it was powered off cleanly. The key
is the part of the configuration that can change under a runner: the version of
the base image. `Killed` is SIGKILL: the lock goes with the process, the
staging directory and the guest stay.

**`TcpForward`.** Chunks are counted, not named. `Close` follows the kernel's
rule that closing a socket with unread data, or sending to one that is closed,
resets the connection and discards what the other side has not read. This rule
and the two peers are external.

**`GuestRun`.** `pc` follows `main` from its `try` to the end of its outer
`finally`; the boolean `thesis` says which of the two kinds of topology was
loaded. A process is `running`, `ended` (status 0) or `failed`, and only the
bridge's status is ever looked at. `processes` is the list that the cleanup
works through, `flows` the list `start_background` builds, with its own
rollback. `Command` is any command in a node: it returns or raises. The sampler
is a thread that may die at any sample; `SamplerStop` is used by both of its
callers. `Interrupt` may strike everywhere in the `try` but in the few bytecodes
between the return of `start_background` and the registration of what it
returned. `atClose` is a history variable: the flows that ran when the bridge
ended.

**`QemuRun` and `HostRun`.** `QemuRun` holds the runner's variables and steps;
`HostRun` extends it and adds the launcher, so that a behaviour interleaves
launcher, runner, machine, job, components and an interrupt. `mode` is what the
arguments select (path, interactive, quality, record, fixed horizon, format;
`Modes` is what `parse_args` lets through). A wait is an action with all its
outcomes; a component is only looked at where the code polls it. The cleanup
has the grace of an interactive runner, SIGTERM to all that runs and SIGKILL
after five seconds as steps of their own, because the runner reacts to SIGTERM
and not to SIGKILL. Telemetry is reduced to the two counts that
`delivery_is_valid` compares and one flag for the rest.

**`SustainedCase` and `SustainedRun`.** The same composition on the other path:
`SustainedCase` is `run_case` with its window of checks, `SustainedRun` the
script around it. The launcher sees the unit only through its status; `pins` is
the machine of the newest `host-affinity-*.json`, `sampled` the machine the
affinity monitor chose; `passLine` says that the runner has written its line
with PASS to `qemu.log`, which `ReadLog` asks for after the launcher. A unit
that was stopped may end with either status (`StoppedEnds`, `UnitFails`): the
runner turns SIGTERM into a `KeyboardInterrupt` and so ends of SIGINT, and
systemd counts an end by SIGTERM or SIGINT as a success. `broken` records that a flow was down within the
window; the code has no such variable, it is what a PASS must exclude.
`cutShort` is the history of an error or interrupt outside the launcher's
`try`, or of one that struck `run_sustained_profile.py`, which then kills the
launcher wherever it is.

**`StallAnalysis`, `ScenePreparation`, `RetainedEvidence`, `PlaybackInputs`.**
Each function of the code is an operator over small records, with integer times
and positions. `Analyses` gives every tool its inputs one at a time, so every
sequence of inputs within the bounds is a path, and a property about two
successive inputs (`LateObjectsChangeNothing`) is an action property. The
properties do not repeat the computation: they say what the result means (every
interval of the threshold's length has an object in it, the concatenation of
all objects is a permutation of the scene, the rates of a connection add up to
the difference of its counters).

Operators named `M_...` are their namesake with a plausible mistake in it. No
specification uses them; they document for every property a change of the code
that the property would notice (the `mutants` of `PROJECT.json`).

## 3. Runs

| Run | Instance | Shows |
|---|---|---|
| `sidecar_output` | 3 threads, limit 4, frames of 1, 3 and 5 bytes, 4 frames (99,905 states) | the queue refines `BytePipe`, limit included; the stream has no gap; neither a producer nor a main that has left `getline` waits for ever |
| `fetches` | 1 fetch, 2 objects, 3 commands, 2 failures (149,496) | table and fetches agree; applied priority = relay's; one update in flight; the frames are in an order the browser can audit (each update resolved once, the audit final, objects with announced priorities, complete last); the last wish converges |
| `bridge_persistent` | 2 sessions, window 2, buffer 3 frames, pipe 2, all faults (654,377) | window; objects and commands in order and of their own session; audit before code 1000 |
| `bridge_one_shot` | 1 session, window 1, pipe 1, no fault (98,007) | a close is answered by the audit and the sidecar's end; objects flow |
| `bridge_exit` | 1 session, a spawn failure | *violation*, see section 6 |
| `publisher` | 2 published tracks of 2 and 1 objects next to two skipped entries, 2 starts (27,370) | readiness is fresh, complete and withdrawn; a child that lost its connection or never got ready is replaced; a stop ends both |
| `setup_cache` | 2 runners, 3 runs, 2 versions of the base, entries that get corrupted (50,170) | published means prepared; entries are never replaced; waiters are served (that overlays sit on their entry is proved, section 5) |
| `forward` | 3 chunks per direction, buffers of 2, peers that half-close or vanish (43,646) | nothing lost; ends forwarded; connection and thread end |
| `guest` | both kinds of topology, 2 flows, every exit, failure, timeout and one interrupt (446,750) | a summary is earned by bridge, flows and sampler together; every way out stops all processes and the network; the exit status tells; the run ends |
| `player` | 3 paths, interactive or not, comparison, recording, horizon, formats `webm` and `all`, one interrupt (524,692) | exit code 0 is backed by job, results, comparison and recording; nothing survives; no recording is lost; the launcher ends |
| `sustained` | with and without a cached image, 2 cases, one interrupt (163,619) | PASS means two undisturbed windows whose results were retrieved, a unit with status 0 and monitors that ended well, although a stopped unit may have status 0 too; nothing is left behind; the launcher ends |
| `analyses` | every sequence of up to 2 objects and 3 rows, 5 Gaussians, 3 envelopes, rates or cases, 2 frames per capture, 2 deliveries and updates (1,521,403) | PASS leaves no room for a stall; late objects change nothing; no Gaussian is lost; bins, rates and tables add up; traces turn without a jump, comparisons and gates accept what belongs together |

Every specification also has a type invariant, `TypeOK` (`QueueTypeOK` in
`SidecarOutput`, `ForwardTypeOK` in `TcpForward`, `LogOK` in `AnalysesProofs`).
It is proved for all ten in section 5; the runs leave it out, because it says
nothing a reader would not expect.

The inductive invariants of section 5 were checked by TLC on instances of these
sizes before they were proved, those of the launchers on exactly these. Two were
checked on more: `StoryInv` of the fetches also with two fetches (2,150,810
states), and the invariant of the publisher also with three starts (41,864).

Why the bounds are enough:

* Frame lengths 1, 3 and 5 against a limit of 4: two short frames fit, a short
  and a long one fill the queue exactly, two long ones do not fit, and one
  cannot ever fit. Three producers leave two blocked while one runs, which is
  where a `signal` in place of a `broadcast` would show.
* An update protocol with one update in flight has its interesting orders with
  two priorities and three commands: sent, superseded, superseded back. Fetches
  share nothing but the table of updates, whose separation by id the proofs
  cover for any number of fetches, so the run follows one fetch with two
  objects through three commands and two failures.
* A window of 1 or 2, a buffer of 3 frames and a pipe of 1 or 2 are all smaller
  than a session of 3 objects, so every limit is reached. Two sessions are the
  least that lets a session see another's remains.
* Two starts of the publisher let one child leave something for the next. At
  the bound the supervisor waits for a request to stop; the liveness properties
  speak of children before the last.
* Two runners and three runs allow a kill inside a preparation, a second
  runner that finds its remains, and a third run that hits or refuses.
* Three chunks over buffers of two make a sender block in each direction.
* Two background flows with a server and a client each are what the thesis
  topology starts. `GuestRun` has no other bound: every process may exit at
  every moment.
* `HostRun` takes every mode with the formats `webm` and `all`, which between
  them ask for each conversion and for none. A scene of one Gaussian has the
  three relations of received, applied and expected that the verdict tells
  apart. One interrupt is the most that keeps apart which part it struck; a
  second one in the cleanup behaves like a first one there.
* `SustainedRun` runs both cases, with and without a cached image.
* `Analyses`: a duration of 4 and a threshold of 3 leave room for gaps below,
  at and above it at either end; two objects and three rows of two connections
  give a streak over several rows and rows that alternate; a length of 5 with
  bins of 2 ends in a short bin.
* The scenes of `Analyses` have up to five Gaussians of seven kinds in two cells,
  tiles of at most four, layers of weights 1, 1, 1 and 9, and objects of two. So
  there are empty layers and rounded boundaries, a tile that is halved, and a
  last layer of three Gaussians, which is cut into a full object and a short one
  with rising priorities. No layer has more than two objects, with the
  priorities 0 and 255: how they rise in between is not in the bounds.

`setup_cache`, `guest`, `player`, `sustained` and `analyses` do not check for
deadlock, because there the program ends or the number of runs or inputs is
bounded; all others do.

## 4. Fairness

Safety needs none. For liveness:

* *Output queue.* Every thread of the process is scheduled. The writer's
  fairness includes the reader: the bridge reads its end of the pipe or closes
  it. New calls and `RequestStop` are never assumed, and neither is a line on
  standard input or its end: main may stay in `getline` for ever. `StopCompletes`
  therefore speaks of a main that is out of `getline` when the flag is set, or
  gets out of it later.
* *Fetches.* A command that has been read is finished, a delivery that has been
  taken is written, and the relay answers an update it has received and
  the answer is delivered, because QUIC retransmits while the connection lives.
  The browser's commands and objects are not fair.
* *Bridge.* Node delivers an event that is ready. The sidecar's threads are
  scheduled; `ReadCommand` is strongly fair because main competes with
  callbacks for `state_mutex`, and a GLib mutex lets a waiter through now and
  then. The browser reads its socket and acknowledges objects. It is not
  assumed to send a command or to close. A browser that stops reading, and one
  that leaves without a close command, are outside these assumptions.
* *Publisher.* Main thread, callbacks and supervisor run, and timers expire. The
  relay may stay silent for ever. One assumption is worth knowing:
  `imquic_shutdown_endpoint` returns. A child that hangs there after having been
  ready is not terminated by the supervisor, which only watches for readiness.
* *Setup cache.* The steps of a run have timeouts. `Acquire` is strongly fair:
  flock wakes waiters in turn. Kills and interrupts are never assumed.
* *Forwarder.* Both threads run, the join times out at last, and a connected
  peer reads. No peer has to end its side.
* *Guest run.* Main runs on while it can, because every wait in it has a
  timeout, and the deadline of the watch loop passes. Nothing is assumed of the
  processes, and the sampler's thread may hang.
* *Host run.* Only the launcher: each of its waits has a timeout, but for the
  loop that serves a person. Nothing is assumed of the runner, the machine or
  any component, so `LauncherEnds` holds whatever hangs.
* *Sustained profile.* The launcher, and the runner in the unit, each of whose
  commands has a timeout. The launcher waits for its unit without one, so the
  second is needed. Nothing is assumed of the monitors.

## 5. Proofs

`SidecarProofs` on `SidecarOutput`, for any set of threads, any set of lengths
and any limit:

* `QueueTypes`, `Bounded` (`WithinLimit`, and the count `output_bytes` is
  exact), `Ordered` (`StreamInOrder`) and `CleanEnd` (a writer that ends without
  an error has written everything).
* `Implements`: `QueueSpec => PipeSpec`, so every behaviour of the queue is one of
  `BytePipe`.

`WithinLimit` is not inductive: `Account` gives back the length of the writer's
frame, and nothing in the property says that this frame is still counted. The
invariant `QueueInv` adds where the bytes are: queued frames are adjacent in the
stream (`Contiguous`), the writer's frame is the one just before them
(`HeldFrame`), `output_bytes` is what was produced less what the writer gave
back (`BytesExact`), and standard output ends at the writer's offset
(`StreamEnd`) as long as no write has failed. The order of the stream and the
refinement follow from these positions.

`SidecarProofs` on `SidecarFetches`, for any fetches, priorities and objects:

* `TypeCorrect`, `TablesAgree` (`TableMatches`), `OneInFlight`
  (`OneUpdateInFlight`) and `RelayAgreement` (`AgreesWithRelay`).

The three safety properties lean on each other. A new update may be sent
because `update_pending` is clear; that the wire is then empty needs the match
between wire and table; that an answer finds its entry needs the ids on the
wire to be older than `next_id` (`FreshIds`). `IInv` relates every
request to the pending fields of its fetch (`Matched`) until the connection is
gone or the command loop has closed (`Closed`), where the code stops caring.
The proof has one lemma per action; `SendCoherent` and `ResolveCoherent` carry
the two halves of the protocol and are cited by the five actions that send or
resolve.

* `FramesInOrder` (`FrameOrder`): whatever was written to the bridge is a story
  the browser can audit. An update that was sent is resolved exactly once, unless
  it is still in the table; an object carries a priority that its fetch was
  announced with before; after the completion of a fetch nothing of it is
  delivered or sent; and after the audit only the delivery that was under way
  may still be written.

`FrameOrder` is about the history `out` alone, so it says nothing of the frame
that comes next. `StoryInv`, which is inductive next to `IInv`, ties the log to
the state: the table holds exactly the updates that were sent and not resolved,
and every id in the log is older than `next_id` (`Story`, `UniqueIds`); the
delivery that has left the mutex and not yet been written carries a priority the
log has announced, for a fetch whose end it has not (`DeliveryTold`); every
priority that is applied has been announced (`AppliedTold`); a fetch whose end
was written is complete (`EndedComplete`); and what may follow the audit is bounded by where main and
the delivery are (`AuditStage`). `StoryGrows` says what one frame more needs, and
each action that writes gives it that.

`SetupCacheProofs`, for any runners, runs and versions of the base:

* `TypeCorrect`, `OnlyPrepared` (`PublishedIsPrepared`), `OverlaysBacked`
  (`BackedByEntry`) and `NeverReplaced` (the action property
  `EntryIsNeverReplaced`).

`PublishedIsPrepared` also says that no guest has a published image open. A guest
outlives a runner that is killed, so the lock cannot give this. What does is
`OpenIsUnclean`: an image that a guest has open was never powered off cleanly,
and only an image that was is published. `Staged` adds what a runner that
prepares knows at each stage, `Backed` what its overlay rests on, and
`Prepared` is the property of one key without the guests. The proof has one
lemma per action.

`ConnectionProofs`, for a forwarded connection with any number of chunks and any
size of the buffers, and for a bridge of any mode, with any window, limits, bounds
and faults:

* of `TcpForward`: `ForwardTypes` and `KeepsEverything` (`NothingLost`);
* of `Bridge`: `BridgeTypes`, `WindowHolds` (`AckWindow`), `StreamsHold`
  (`StreamsKept`) and `CleanCodeHolds` (`CleanCodeAudited`).

`NothingLost` is about connections in which the peers only half-close and the
join does not time out (`Calm`). The proof keeps two invariants apart. Always, a
loop holds a chunk exactly between `recv` and `sendall`, and no chunk is counted
twice (`NoneRepeated`). While `Calm`, every chunk is somewhere between sender and
reader (`Accounted`), a loop that is past its last read has drained its side
(`Loop`), `handle` closes only after both loops (`Stage`), and so nothing is
reset or cut (`Sound`).

The three properties of the bridge hold together or not at all, because one
handler touches them all: a call of `processNativeBytes` takes frames from the
parser, counts them, sends them, may overflow the socket, may learn that the
sidecar is ready and then writes commands. `ProcessEnds` says once what a call
does, and the handlers cite it. `BridgeInv` has a part for each property and
some that carry them:

* `WindowAt`: every object that was not acknowledged is counted in
  `outstandingObjects` until a close command resets the count; what then keeps
  the window is that nothing is added to it.
* `ObjectsAt`: the objects are numbered without a gap all the way from the
  browser back to the callback that writes the next, until a close discards
  some; what has reached the socket stays numbered after that.
* `CommandsAt`: what the sidecar obeyed, its input, the bridge's queue and the
  messages still to be read are, in this order, what the browser asked; after a
  close, up to priorities that `queueNativeCommand` dropped.
* `CodeAt`: the audit is before code 1000 wherever the two are, because a
  persistent bridge has sent the audit to an open browser by the time
  `auditComplete` is set. A one-shot bridge never sends the code; a code 1000 of
  the browser's own is answered only after its "bye".
* `SessionAt` and `FirstAt`: a lazy bridge that admits a browser has nothing left
  of the session before, and one that is not lazy has not used its sidecar yet.
  `SidecarAt` is why: a sidecar that was not connected has written nothing, and
  one that is gone leaves neither callbacks nor a full pipe.

The lists are filtered (`Only`) and joined, of any length, so lemmas about `Only`
need induction over lists. `ListsBySteps` gives it: a set of lists that holds the
empty one and is closed under `Append` holds all of them; it follows from
`NaturalsBySteps`, and that one from the well-foundedness of the naturals. The
induction is over members of a set, which the provers can instantiate.

`PublisherProofs`, for any manifest and any number of starts:

* `TypeCorrect`, `NeverStale` (`NoStaleReadiness`), `ReadyMeansPublished`
  (`ReadyIsPublished`) and `WithdrawnAtExit` (`ExitWithdraws`).

The program knows that everything is published from two numbers, `tracks_queued`
and the objects not yet sent, and asks for them at different times from the
write of the file. `QueueStage` says what the first number counts: there is a set
of tracks of that size, none of which is being sent, and each of which is
completely sent unless the publisher is stopping. A counter that equals the
number of tracks then means all tracks (`QueuedIsSent`). `ReadyStage` carries what
was found before the write to the write and past it; `SupervisorStage` and
`ChildStage` say at which positions of the two programs a file can be there at
all, which is what makes it fresh.

`GuestRunProofs`, for any number of background flows on any distinct ports:

* `TypeCorrect`, `NothingIsLeft` (`NothingLeft`), `EarnedPass` (`PassIsEarned`)
  and `HonestExit` (`ExitIsHonest`).

`NothingLeft` speaks of the end, and the way there is the cleanup, which only
stops what is in `processes`. `Owned` is the reason it suffices: at all times a
process that runs is in that list or, between its start and its registration, in
the list of `start_background`, whose rollback stops it. The other parts follow
`main`: `BridgeStage` and `SamplerStage` hold what the checks between the end of
the bridge and the summary have established until the summary is written,
`FilesStage` which of the evidence files there is, and `RaisedStage` that main
cannot leave its `finally` with nothing raised and no summary.

`HostRunProofs`, for every mode, any scene, any choice of formats and any number
of interrupts:

* `TypeCorrect`, `NothingIsLeft` (`NothingLeft`), `BackedPass` (`PassIsBacked`)
  and `RecordingIsKept` (the action property `RecordingKept`).

Exit code 0 is decided from `failure` long after the steps it is about.
`GoodStage` says what the absence of a failure still means at each later stage:
the runner returned 0, the renderings were compared, the recording was
converted. `RunnerStage` gives status 0 of the runner its meaning: the target
passed and its results were fetched. A machine without a runner that is still
there to end it was set up by one that was killed, which is the exception
`NothingLeft` names. `VideoStage` is what keeps the recording: it is written
once, after the browser, and the conversion adds to it.

`SustainedRunProofs`, with and without a cached image, for any number of
interrupts:

* `TypeCorrect`, `NothingIsLeft` (`NothingLeft`) and `MeasuredPass`
  (`PassIsMeasured`).

A PASS reads the results of the cases, the statuses of the unit and of the
monitors and the file of samples, each left by another program. `CaseStage`
carries the last look at the flows to the entry in the results: a flow that ended
does not come back, so if all are up at that look none was down in the window.
`UnitStage` says that the unit is called once and when it has ended,
`MonitorStage` which of the monitors have been waited for, and `VerdictStage`
what the launcher and its caller have read by then, the line in `qemu.log`
included. The status of the unit alone would not do: a stopped unit may have
status 0 before its results were retrieved, and what rejects it then is the
missing line.

These three proofs have one lemma per action and, under it, one step per part of
the invariant the action can disturb.

`AnalysesProofs` on `Analyses`, for any number of inputs, any duration,
threshold, length of a trace and width of a bin:

* `LogTypes`, `PassMeansNoStall` (`GateIsSound`), `LateObjectsAreIgnored` (the
  action property `LateObjectsChangeNothing`), `EvidenceAddsUp`
  (`EvidenceReconciles`) and `SoundInputs` (`InputsAreSound`).
* `PartsKeepTheOrder`: the loop of the conversion writes any list of names in its
  order, and fills every part but the last.

The state is no more than the input of a tool, so the inductive invariant
(`LogOK`) is the type and the order of that input: rows at increasing times, all
objects between the start and the first moment after the horizon. The work is in
the loops of the tools, which are recursive functions. For each one there are
three lemmas: the table it fills exists, the operator returns its last entry, and
what one step does to an entry. An induction over the entries then uses an
invariant of the loop:

* `StreakCovers`, for the pass over the rows of a connection: whenever the
  connection is stuck from row i to row j, the part of the window between the two
  lies in one streak, which is the open one if j is the row just looked at.
  Together with `NoLongGap` (a set of points with no long distance between
  neighbours leaves no long interval free, whatever the interval's ends) this is
  `PassMeansNoStall`.
* `ZeroOK`, for the pass over the bins: the intervals found so far lie apart and
  in order, and cover the empty bins before this one and nothing else.
  `BinsCut` and `BinsMeet` say that the bins cut the trace, a shorter last one
  included, and `BinsHoldAll` adds them up along the quotients by the width.
* `RatesTelescope`: after row i the sum is the counter of the last row of the
  connection up to i less that of its first.
* `WrittenOK`, for the parts: what is written is the beginning of the names, and
  each pass comes further (`TakeFits`), so that there are enough passes.

The counts of a gate and of a table of cases are cardinalities, compared through
the bijections that the uniqueness of keys and identifiers gives. The generated
trace is one list, and its proof a case for each of the three turns of the camera
and each of the two moments between them.

The assumptions are the ASSUMEs of the modules: `Limit` is a natural number and
the lengths are positive ones, objects are numbered, bounds are
natural numbers, buffers hold a chunk, no runner is the value that marks a free
lock, the ports of the flows are a sequence of distinct numbers, the manifest is
any sequence of entries, there is at least one start, a scene has at least one
Gaussian, the formats are among the four of `--format`, and the values that stand
for a missing time and an empty counter are negative, as no time and no counter is.

Only model-checked:

* all liveness (fairness and ENABLED are outside the prover's reach);
* `ScenesAreKept`, but for the loop that writes the parts (`PartsKeepTheOrder`).
  It is not true of every value of the constants, as the program does not claim
  it to be: the player wants four layers, and the priorities of a layer can only
  increase strictly as long as it has at most 256 objects. And it rests on sorts
  (`SortSeq`, for the `argsort` of the code), which the library defines by a choice
  among permutations that the provers cannot expand.

## 6. Where code and text disagree

One run ends in a counterexample to something the repository says of itself:

* `StatusRejectsMissingAudit` (`priority_ws_bridge.mjs:178`). The test at
  `tests/test_priority_ws_bridge.mjs:140` says "guest process status must also
  reject a missing audit". When the sidecar cannot be started, the `error`
  handler clears `native`, the `close` handler returns early, and the one-shot
  bridge exits with status 0 once its client has gone.

Four more disagreements are in the models, which do what the code does; the
properties are stated so that they say what remains true:

* `priority_moq_sidecar.c:498`. The comment at line 381 says of a rejected
  update: "A later browser epoch may retry; the FETCH and its cursor survive."
  `update_error` leaves `desired_priority` at the rejected value, so a later
  command that asks for the same priority takes the early exit of lines 498-499
  and nothing is sent. `Converges` speaks of fetches without failures.
* `run_qemu_player.py:388`. The repository's `README.md:116` says that
  base-image identities select the cache entry. The identity is sampled before
  the lock is waited for; a base replaced before `create_overlay` is published
  under the old key. `PublishedIsPrepared` does not mention the base.
* `tcp_forward.py:66`. The comment at lines 62-64 says that the join keeps a
  close with unread input from discarding the final audit. The join ends early
  when the inbound loop fails to send to an upstream that has closed; the
  browser's remaining bytes are then unread, and the close resets the
  connection. `NothingLost` speaks of peers that are still there.
* `sustained_profile/affinity_monitor.py:12`. `l4s/current-experiment.md:18-20`
  says that the command monitors host affinity and that no manual companion
  monitor is needed. Without a cached image the monitor finds the affinity file
  of the machine that prepares the image, samples that one until it is gone, and
  ends with status 0 before the measured machine boots; the validation only
  asks that there are samples. `PassIsMeasured` claims the sampled machine to be
  the measured one only for a cached image.

Three more are about properties that hold, and say less than a reader might
expect:

* `sustained_profile/monitor_memory.py:17`. The script's first line says that it
  watches the recording units to "abort them if host reserve is low". A unit that
  it stops after the line with PASS, while the machine is powered off, may end
  with status 0; the note `stopped` in `memory-samples.jsonl` is looked at by
  nobody, and `complete.json` says PASS. `PassIsMeasured` claims no more than
  that such a run had its results.
* `priority_moq_sidecar.c:627`. A frame that is too long (line 233), a writer
  that failed (line 100) and a signal set the flag and do not wake main from
  `getline`: the sidecar ends with the next line or the end of its input.
  `StopCompletes` starts from there.
* `run_priority_audit_loopback.py:164-170`. The object with several accepted
  updates that the gate asks for may be any in the history: it is not looked up
  in the manifest. `GateAddsUp` says that there is such an object, and speaks of
  the manifest only for the deliveries.

Some hazards are in the models and have no property, because the source promises
nothing about them:

* A browser that leaves without a close command while the window is full leaves
  the sidecar paused for good (`Stranded` in `Bridge`). A persistent bridge then
  refuses every later browser.
* When the sidecar of a persistent bridge dies with the window full and a frame
  left in the parser, the next acknowledgement pauses the output of a `native`
  that is null (line 137). The TypeError ends the bridge (`Crash` in `Process`).
* A command written to a stdin that was ended, or whose reader has died, raises
  an `error` event without a listener and ends the bridge (`Crash` in `Pump`).
* A runner without a person at it has five seconds between SIGTERM and SIGKILL,
  and may need more than a minute to power its machine off: the machine is
  orphaned. `HostRun.NothingLeft` names this as the only way.
* A cleanup that raises leaves `guest-summary.json` with PASS next to an exit
  status that is not 0. `ExitIsHonest` says that the status tells.

## 7. Not modelled

`PROJECT.json` lists every part with its status.

* Left out of modelled components: the text of messages, JSON and argument
  parsing, transport metrics, `GET /buffers`, `fetch_accepted` and
  `fetch_error` (they only emit a status), the network-namespace switch and the
  accept loop of the forwarder (connections are independent), the contents of a
  sample, of a certificate and of an experiment record.
* `camera_trace_browser_runner.mjs` and `camera_trace_player_server.py` are
  processes that end well or not; what the browser does is decided by the
  player, which is not in this repository. For the same reason
  `player_quality.mjs` is not modelled: what it captures is checked where it is
  used (`LoadFrames`, `SameCamera`).
* Of `run_priority_audit_loopback.py` the gate and the trace are modelled, the
  start and the stop of its three processes are not: they are those of the
  launcher's loopback mode, in `HostRun`.
* `sustained_profile/sustained-moq-options.c` is a process that ends well or
  not. Its sending loop and callbacks repeat those of the publisher without
  readiness, refinements or restarts.
* Nodes, links and `tc` commands of the topologies, `probe.mk`,
  `experiment_metadata.py`, `check_cpu_prerequisites.mjs` and the drawing of
  plots are configuration, or read files and write reports: they have no
  behaviour over time and no result another part decides on.
* The encoding of Gaussians (`exp`, quantisation, spherical harmonics) is
  floating-point arithmetic over large arrays, outside of TLC's integers.
* An interrupt in `run_camera_player_guest.py` between the return of
  `start_background` and the registration of its processes, and a supervisor
  killed by the five seconds of `stop()`, are excluded: with them processes do
  outlive the run. So is, in `run_camera_trace_player.py`, one between the start
  of a process and its entry in the list (257-258), and a SIGTERM to a launcher
  that nobody sits at, for which it has no handler.
* `PowerOff` of `SetupCache` is one step, where `stop_qemu` looks whether the
  machine runs and then waits for it (`run_qemu_player.py:252-255`): a machine
  that another program ends in between is left out.
* Some commands have no timeout, and the liveness properties take them to return:
  `ffmpeg` and `ffprobe` (`run_camera_trace_player.py:141`, 412-415), the
  `communicate` at `player_topology.py:61` and the `systemctl` of `launch.py:28`.
  The latter may also fail unnoticed, which is not modelled.
* A browser that stays connected and never reads holds the outbound loop in
  `sendall`; no property speaks of it, because `ThreadEnds` assumes that a
  connected peer reads.

## 8. Plan

Done: the media path (`SidecarOutput` first, because every byte of media and of
the audit passes through it), the parts around it, the three launchers with
what they launch, and the computations before and after a run.

Proved: every safety property the runs check but `ScenesAreKept`, of which one
loop is (section 5).

Next: a session as the browser sees it (opened fetches, objects in order, the
audit, code 1000) as an abstract specification, with `Bridge` shown to implement
it.
