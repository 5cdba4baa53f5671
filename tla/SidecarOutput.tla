--------------------------- MODULE SidecarOutput ---------------------------
(***************************************************************************)
(* The bounded output queue of priority_moq_sidecar.c.  Any thread of the  *)
(* sidecar calls write_frame; one writer thread, output_worker, moves the  *)
(* frames to standard output, the pipe the bridge reads.                   *)
(*                                                                         *)
(* Everything shared is guarded by output_mutex, so one action stands for  *)
(* one critical section: from the lock to the unlock, or to the            *)
(* g_cond_wait that releases it.  The write(2) calls happen outside the    *)
(* lock and are steps of their own, one per accepted piece of a frame.     *)
(*                                                                         *)
(* Names that SidecarFetches has too are told apart here (Queue..., and    *)
(* stopFlag and mainStage for stopping and the place of main), so that one *)
(* module can extend both.                                                 *)
(*                                                                         *)
(* An operator named M_X is X with a plausible mistake in it, for mutation *)
(* runs; no specification uses it.                                         *)
(***************************************************************************)
EXTENDS Integers, Sequences

CONSTANTS
    Producers,      \* the threads that call write_frame
    MainThread,     \* the one of them that runs main
    Limit,          \* output_limit_bytes
    Lengths,        \* the lengths a frame may have
    MaxFrames       \* bound on the calls of write_frame

ASSUME MainAssumption == MainThread \in Producers
ASSUME LimitAssumption == Limit \in Nat
ASSUME LengthsAssumption == Lengths \subseteq Nat \ {0}
ASSUME MaxFramesAssumption == MaxFrames \in Nat

VARIABLES
    output_frames,  \* the queue of frames that wait for the writer
    output_bytes,   \* the bytes in the queue and in the writer's hands
    output_closing,
    output_failed,
    stopFlag,       \* stopping, the process-wide flag the main loop obeys
    writer,         \* where output_worker is
    frame,          \* the frame output_worker popped last
    offset,         \* how much of it the kernel has accepted
    caller,         \* where each thread is in write_frame
    length,         \* the length of the frame it brings
    mainStage,      \* main: "reading" in getline, "handling" a line, "leaving"
                    \* its loop, "joining" the writer, or "stopped"
    calls,          \* write_frame calls so far (bounded by MaxFrames)
    produced,       \* history: bytes of all frames ever queued
    stdout          \* history: the bytes the kernel accepted, in order

queueVars == <<output_frames, output_bytes, output_closing, output_failed>>
writerVars == <<writer, frame, offset, stdout>>
callerVars == <<caller, length, calls>>
allVars == <<queueVars, stopFlag, writerVars, callerVars, mainStage, produced>>

\* A queued frame remembers the stream position before its first byte.
QueuedFrames == [at : Nat, length : Lengths]

QueueInit ==
    /\ output_frames = <<>>
    /\ output_bytes = 0
    /\ output_closing = FALSE
    /\ output_failed = FALSE
    /\ stopFlag = FALSE
    /\ writer = "lock"
    /\ frame = [at |-> 0, length |-> 0]
    /\ offset = 0
    /\ caller = [p \in Producers |-> "idle"]
    /\ length = [p \in Producers |-> 0]
    /\ mainStage = "reading"
    /\ calls = 0
    /\ produced = 0
    /\ stdout = <<>>

-----------------------------------------------------------------------------
(* The condition variables.                                                *)

\* g_cond_broadcast(&output_space)
M_BroadcastSpace == caller
BroadcastSpace ==
    [p \in Producers |-> IF caller[p] = "waiting" THEN "entering" ELSE caller[p]]

\* g_cond_signal(&output_ready): output_worker is its only waiter.
SignalReady == IF writer = "waiting" THEN "lock" ELSE writer

-----------------------------------------------------------------------------
(* write_frame.                                                            *)

\* write_frame has a frame of n bytes: longer than the limit, it stops the
\* sidecar and drops the frame; otherwise it goes for the lock.  main calls it
\* while it handles a line, the metrics thread and the callbacks may until main
\* has joined the one and shut the endpoint of the others down.
Oversized(n) == n > Limit

MayCall(p) ==
    \/ mainStage = "handling"
    \/ mainStage \in {"reading", "leaving"} /\ p # MainThread

Call(p, n) ==
    /\ MayCall(p)
    /\ caller[p] = "idle"
    /\ calls < MaxFrames
    /\ calls' = calls + 1
    /\ \/ /\ Oversized(n)
          /\ stopFlag' = TRUE
          /\ UNCHANGED <<caller, length>>
       \/ /\ ~Oversized(n)
          /\ caller' = [caller EXCEPT ![p] = "entering"]
          /\ length' = [length EXCEPT ![p] = n]
          /\ UNCHANGED stopFlag
    /\ UNCHANGED <<queueVars, writerVars, mainStage, produced>>

HasRoom(n) == output_bytes + n <= Limit

M_Refused == FALSE
Refused == output_closing \/ output_failed

Enqueue(p) ==
    /\ caller[p] = "entering"
    /\ ~Refused
    /\ HasRoom(length[p])
    /\ output_frames' = Append(output_frames, [at |-> produced, length |-> length[p]])
    /\ output_bytes' = output_bytes + length[p]
    /\ produced' = produced + length[p]
    /\ writer' = SignalReady
    /\ caller' = [caller EXCEPT ![p] = "idle"]
    /\ UNCHANGED <<output_closing, output_failed, stopFlag, frame, offset,
                   stdout, length, mainStage, calls>>

Block(p) ==
    /\ caller[p] = "entering"
    /\ ~Refused
    /\ ~HasRoom(length[p])
    /\ caller' = [caller EXCEPT ![p] = "waiting"]
    /\ UNCHANGED <<queueVars, stopFlag, writerVars, length, mainStage, calls, produced>>

\* g_cond_wait may return with nobody having signalled; the loop tests again.
SpuriousWake(p) ==
    /\ caller[p] = "waiting"
    /\ caller' = [caller EXCEPT ![p] = "entering"]
    /\ UNCHANGED <<queueVars, stopFlag, writerVars, length, mainStage, calls, produced>>

\* The queue closed or failed while the frame was on its way: it is freed.
Discard(p) ==
    /\ caller[p] = "entering"
    /\ Refused
    /\ caller' = [caller EXCEPT ![p] = "idle"]
    /\ UNCHANGED <<queueVars, stopFlag, writerVars, length, mainStage, calls, produced>>

-----------------------------------------------------------------------------
(* output_worker and output_write_all.                                     *)

FrameReady == output_frames # <<>>

AwaitFrame ==
    /\ writer = "lock"
    /\ ~FrameReady
    /\ ~output_closing
    /\ writer' = "waiting"
    /\ UNCHANGED <<queueVars, stopFlag, frame, offset, stdout, callerVars, mainStage, produced>>

\* The wait loop ends with a frame, even when the queue is closing.
Pop ==
    /\ writer = "lock"
    /\ FrameReady
    /\ frame' = Head(output_frames)
    /\ output_frames' = Tail(output_frames)
    /\ offset' = 0
    /\ writer' = "writing"
    /\ UNCHANGED <<output_bytes, output_closing, output_failed, stopFlag,
                   stdout, callerVars, mainStage, produced>>

\* ... or with none, which ends the thread.
Finish ==
    /\ writer = "lock"
    /\ ~FrameReady
    /\ output_closing
    /\ writer' = "done"
    /\ UNCHANGED <<queueVars, stopFlag, frame, offset, stdout, callerVars, mainStage, produced>>

\* write(2) accepts k of the remaining bytes.  EINTR and EAGAIN accept none
\* and loop.
M_Advance(k) == IF offset + k = frame.length THEN frame.length ELSE 0
Advance(k) == offset + k

Write ==
    /\ writer = "writing"
    /\ \E k \in 1..(frame.length - offset) :
          /\ stdout' = stdout \o [i \in 1..k |-> frame.at + offset + i]
          /\ offset' = Advance(k)
          /\ writer' = IF offset' < frame.length THEN "writing" ELSE "written"
    /\ UNCHANGED <<queueVars, stopFlag, frame, callerVars, mainStage, produced>>

\* EPIPE or another error: output_write_all gives up inside the frame.
WriteFails ==
    /\ writer = "writing"
    /\ writer' = "failing"
    /\ UNCHANGED <<queueVars, stopFlag, frame, offset, stdout, callerVars, mainStage, produced>>

\* The lock is taken again to account for the frame, written or not.
Release == output_bytes - frame.length

Account ==
    /\ writer \in {"written", "failing"}
    /\ output_bytes' = Release
    /\ caller' = BroadcastSpace
    /\ \/ /\ writer = "written"
          /\ writer' = "lock"
          /\ UNCHANGED <<output_closing, output_failed, stopFlag>>
       \/ /\ writer = "failing"
          /\ output_failed' = TRUE
          /\ output_closing' = TRUE
          /\ stopFlag' = TRUE
          /\ writer' = "done"
    /\ UNCHANGED <<output_frames, frame, offset, stdout, length, calls, mainStage, produced>>

-----------------------------------------------------------------------------
(* main and output_stop.                                                   *)

\* A signal, at any moment, or the close command main has just read.  Neither
\* ends a getline: signal() lets the system restart the read.
RequestStop ==
    /\ ~stopFlag
    /\ stopFlag' = TRUE
    /\ UNCHANGED <<queueVars, writerVars, callerVars, mainStage, produced>>

\* getline returns a line ...
LineArrives ==
    /\ mainStage = "reading"
    /\ mainStage' = "handling"
    /\ UNCHANGED <<queueVars, stopFlag, writerVars, callerVars, produced>>

\* ... or the end of standard input, which ends the loop.
InputEnds ==
    /\ mainStage = "reading"
    /\ mainStage' = "leaving"
    /\ stopFlag' = TRUE
    /\ UNCHANGED <<queueVars, writerVars, callerVars, produced>>

\* The test of the loop, the only place where main looks at the flag.
M_AfterLine == "reading"
AfterLine == IF stopFlag THEN "leaving" ELSE "reading"

LineHandled ==
    /\ mainStage = "handling"
    /\ caller[MainThread] = "idle"
    /\ mainStage' = AfterLine
    /\ UNCHANGED <<queueVars, stopFlag, writerVars, callerVars, produced>>

\* main joins the metrics thread and shuts the endpoint down before it calls
\* output_stop, so every write_frame has returned.
CloseQueue ==
    /\ mainStage = "leaving"
    /\ \A p \in Producers : caller[p] = "idle"
    /\ output_closing' = TRUE
    /\ caller' = BroadcastSpace
    /\ writer' = SignalReady
    /\ mainStage' = "joining"
    /\ UNCHANGED <<output_frames, output_bytes, output_failed, stopFlag,
                   frame, offset, stdout, length, calls, produced>>

\* g_thread_join; then what a failed writer left behind is freed.
JoinWriter ==
    /\ mainStage = "joining"
    /\ writer = "done"
    /\ output_frames' = <<>>
    /\ output_bytes' = 0
    /\ mainStage' = "stopped"
    /\ UNCHANGED <<output_closing, output_failed, stopFlag, writerVars,
                   callerVars, produced>>

\* The process has ended.
QueueEnded == mainStage = "stopped" /\ UNCHANGED allVars

WriterStep == AwaitFrame \/ Pop \/ Finish \/ Write \/ WriteFails \/ Account
CallerStep(p) == Enqueue(p) \/ Block(p) \/ Discard(p)
MainStep == LineHandled \/ CloseQueue \/ JoinWriter

QueueNext ==
    \/ \E p \in Producers :
          \/ \E n \in Lengths : Call(p, n)
          \/ CallerStep(p)
          \/ SpuriousWake(p)
    \/ WriterStep
    \/ RequestStop \/ LineArrives \/ InputEnds
    \/ MainStep
    \/ QueueEnded

QueueSpec == QueueInit /\ [][QueueNext]_allVars

\* Threads are scheduled.  For the writer this includes the reader's part:
\* the bridge keeps reading the pipe or closes it.  No line and no end of the
\* input has to arrive, so a main in getline may stay there for ever.
QueueFairness ==
    /\ \A p \in Producers : WF_allVars(CallerStep(p))
    /\ WF_allVars(WriterStep)
    /\ WF_allVars(MainStep)

QueueFairSpec == QueueSpec /\ QueueFairness

-----------------------------------------------------------------------------
(* Properties.                                                             *)

QueueTypeOK ==
    /\ output_frames \in Seq(QueuedFrames)
    /\ output_bytes \in Nat
    /\ output_closing \in BOOLEAN
    /\ output_failed \in BOOLEAN
    /\ stopFlag \in BOOLEAN
    /\ writer \in {"lock", "waiting", "writing", "written", "failing", "done"}
    /\ frame \in [at : Nat, length : Lengths \union {0}]
    /\ offset \in Nat
    /\ caller \in [Producers -> {"idle", "entering", "waiting"}]
    /\ length \in [Producers -> Lengths \union {0}]
    /\ \A p \in Producers : caller[p] # "idle" => length[p] \in Lengths
    /\ mainStage \in {"reading", "handling", "leaving", "joining", "stopped"}
    /\ calls \in 0..MaxFrames
    /\ produced \in Nat
    /\ stdout \in Seq(Nat)

\* The writer holds a frame whose bytes still count against the limit.
Holding == writer \in {"writing", "written", "failing"}

\* The queue never takes more memory than output_limit_bytes, the frame the
\* writer has already popped included (write_frame, output_worker).
WithinLimit == output_bytes <= Limit

\* output_bytes is exact, whatever writes were split or failed: nothing the
\* writer returned is missing and nothing is returned twice.
NextAt == IF output_frames = <<>> THEN produced ELSE Head(output_frames).at
BytesExact ==
    mainStage # "stopped" => output_bytes = produced - (IF Holding THEN frame.at ELSE NextAt)

\* The bridge reads every byte once and in order, across partial writes
\* ("Never duplicate a frame prefix", priority_moq_sidecar.c:63).
StreamInOrder == \A i \in 1..Len(stdout) : stdout[i] = i

\* A writer that ended without an error has written all that was queued.
CleanEndIsComplete == writer = "done" /\ ~output_failed => Len(stdout) = produced

\* The queue implements the byte pipe the rest of the system relies on.
PipeMode ==
    CASE writer = "done" /\ output_failed -> "broken"
      [] writer = "done" /\ ~output_failed -> "drained"
      [] writer # "done" /\ output_closing -> "closing"
      [] OTHER -> "open"

Pipe == INSTANCE BytePipe WITH mode <- PipeMode
PipeSpec == Pipe!PipeSpec

\* No wake-up is lost: a thread inside write_frame returns from it.
CallersReturn == \A p \in Producers : caller[p] # "idle" ~> caller[p] = "idle"

\* A sidecar that is told to stop ends, unless main is in getline: the flag of
\* a signal, an oversized frame or a failed writer waits for the next line or
\* for the end of the input, and from there on nothing else can hold main.
StopCompletes == stopFlag /\ mainStage # "reading" ~> mainStage = "stopped"

\* Nobody is stranded: neither a producer that waits for room (line 245) nor
\* main that waits for the writer (line 122), whoever gives up or closes first;
\* and a main that has a line in its hands sees the flag (line 627).
NobodyStranded == CallersReturn /\ StopCompletes
=============================================================================
