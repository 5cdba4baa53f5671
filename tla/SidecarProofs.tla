---------------------------- MODULE SidecarProofs ----------------------------
(***************************************************************************)
(* Proofs about the two halves of the sidecar.                             *)
(*                                                                         *)
(* SidecarOutput, for any threads, any limit and any frame lengths: the    *)
(* inductive invariant behind the properties that TLC checks, and the step *)
(* simulation that makes the queue an implementation of BytePipe.          *)
(*                                                                         *)
(* SidecarFetches, for any fetches, priorities, objects and bounds: the    *)
(* tables agree with the fetches, at most one update of a fetch is on the  *)
(* wire, the applied priority is the relay's, and the frames the browser   *)
(* reads come in order.                                                    *)
(***************************************************************************)
EXTENDS SidecarOutput, SidecarFetches, SequenceTheorems, FiniteSetTheorems, TLAPS

-----------------------------------------------------------------------------
(* The output queue                                                        *)

\* Queued frames are adjacent in the stream and end where production stands.
Contiguous ==
    \A i \in 1..Len(output_frames) :
        /\ output_frames[i].at + output_frames[i].length <= produced
        /\ output_frames[i].at + output_frames[i].length =
              IF i < Len(output_frames) THEN output_frames[i + 1].at ELSE produced

\* The frame in the writer's hands is the one just before the queue.
HeldFrame ==
    Holding => /\ frame \in QueuedFrames
               /\ frame.at + frame.length = NextAt
               /\ offset <= frame.length
               /\ writer = "written" => offset = frame.length

\* Until a write fails, the stream ends where the writer stands.
StreamEnd ==
    writer # "done" => Len(stdout) = IF Holding THEN frame.at + offset ELSE NextAt

\* What the flags say about the writer and about main.
Phases ==
    /\ output_failed => writer = "done"
    /\ writer = "done" => output_closing
    /\ mainStage = "joining" => output_closing
    /\ mainStage = "stopped" => writer = "done"
    /\ writer = "done" /\ ~output_failed => output_frames = <<>>

QueueInv ==
    /\ QueueTypeOK
    /\ Contiguous
    /\ HeldFrame
    /\ BytesExact
    /\ WithinLimit
    /\ StreamEnd
    /\ StreamInOrder
    /\ Phases
    /\ CleanEndIsComplete

-----------------------------------------------------------------------------

\* A frame taken from the queue is a frame, and its length is one of Lengths.
LEMMA QueuedFrame ==
    ASSUME NEW q \in Seq(QueuedFrames)
    PROVE  \A i \in 1..Len(q) : /\ q[i] \in QueuedFrames
                                /\ q[i].at \in Nat
                                /\ q[i].length \in Nat
<1>1. SUFFICES ASSUME NEW i \in 1..Len(q)
               PROVE  q[i] \in QueuedFrames /\ q[i].at \in Nat /\ q[i].length \in Nat
  OBVIOUS
<1>2. q[i] \in QueuedFrames
  BY ElementOfSeq
<1>3. QED
  BY <1>2, LengthsAssumption DEF QueuedFrames

\* The types of what the writer holds and has written.
LEMMA WriterTyped ==
    ASSUME QueueTypeOK
    PROVE  /\ frame.at \in Nat /\ frame.length \in Nat /\ offset \in Nat
           /\ stdout \in Seq(Nat) /\ Len(stdout) \in Nat
<1>1. /\ frame \in [at : Nat, length : Lengths \union {0}]
      /\ offset \in Nat /\ stdout \in Seq(Nat)
  BY DEF QueueTypeOK
<1>2. Lengths \union {0} \subseteq Nat
  BY LengthsAssumption
<1>3. Len(stdout) \in Nat
  BY <1>1, LenProperties
<1>4. frame.at \in Nat /\ frame.length \in Nat
  BY <1>1, <1>2
<1>5. QED
  BY <1>1, <1>3, <1>4

\* The stream position of the next unqueued byte lies between what was written
\* and what was produced.
LEMMA NextAtBounds ==
    ASSUME QueueTypeOK, Contiguous
    PROVE  NextAt \in Nat /\ NextAt <= produced
<1>1. CASE output_frames = <<>>
  BY <1>1 DEF NextAt, QueueTypeOK
<1>2. CASE output_frames # <<>>
  <2>1. /\ output_frames \in Seq(QueuedFrames)
        /\ Len(output_frames) \in Nat \ {0}
        /\ Head(output_frames) = output_frames[1]
        /\ output_frames[1] \in QueuedFrames
    BY <1>2, EmptySeq DEF QueueTypeOK
  <2>2. /\ output_frames[1].at \in Nat
        /\ output_frames[1].length \in Nat
    BY <2>1, LengthsAssumption DEF QueuedFrames
  <2>3. output_frames[1].at + output_frames[1].length <= produced
    BY <2>1 DEF Contiguous
  <2>4. QED
    BY <1>2, <2>1, <2>2, <2>3 DEF NextAt, QueueTypeOK
<1>3. QED
  BY <1>1, <1>2

\* The initial state satisfies the invariant.
LEMMA QueueInitInv == QueueInit => QueueInv
<1>1. SUFFICES ASSUME QueueInit PROVE QueueInv
  OBVIOUS
<1>2. <<>> \in Seq(QueuedFrames) /\ <<>> \in Seq(Nat) /\ Len(<<>>) = 0
  BY EmptySeq
<1>3. QueueTypeOK
  <2>1. frame \in [at : Nat, length : Lengths \union {0}]
    BY <1>1 DEF QueueInit
  <2>2. calls \in 0..MaxFrames
    BY <1>1, MaxFramesAssumption DEF QueueInit
  <2>3. /\ caller \in [Producers -> {"idle", "entering", "waiting"}]
        /\ length \in [Producers -> Lengths \union {0}]
        /\ \A p \in Producers : caller[p] # "idle" => length[p] \in Lengths
    BY <1>1 DEF QueueInit
  <2>4. output_frames \in Seq(QueuedFrames) /\ stdout \in Seq(Nat)
    BY <1>1, <1>2 DEF QueueInit
  <2>5. QED
    BY <1>1, <2>1, <2>2, <2>3, <2>4 DEF QueueInit, QueueTypeOK
<1>4. QED
  BY <1>1, <1>2, <1>3, LimitAssumption
  DEF QueueInit, QueueInv, Contiguous, HeldFrame, BytesExact, WithinLimit, StreamEnd,
      StreamInOrder, Phases, CleanEndIsComplete, Holding, NextAt
-----------------------------------------------------------------------------
(* Steps that leave the queue, the writer's frame and the stream alone.    *)

StreamVars == <<output_frames, output_bytes, output_closing, output_failed,
                frame, offset, stdout, produced>>

\* The stages of main before it closes the queue.
BeforeClosing == {"reading", "handling", "leaving"}

\* A step that leaves the queue and the stream alone, and at most has the writer
\* wait and main move before it closes the queue, preserves the invariant as soon
\* as it keeps the variables typed.
LEMMA QueueQuietStep ==
    ASSUME QueueInv, QueueTypeOK', UNCHANGED StreamVars,
           \/ UNCHANGED writer
           \/ writer = "lock" /\ writer' = "waiting",
           \/ UNCHANGED mainStage
           \/ mainStage \in BeforeClosing /\ mainStage' \in BeforeClosing
    PROVE  QueueInv'
<1>1. (Holding <=> Holding') /\ NextAt' = NextAt
  BY DEF StreamVars, Holding, NextAt
<1>2. Contiguous' /\ WithinLimit' /\ StreamInOrder'
  BY DEF QueueInv, StreamVars, Contiguous, WithinLimit, StreamInOrder
<1>3. HeldFrame'
  BY <1>1 DEF QueueInv, StreamVars, HeldFrame, Holding
<1>4. BytesExact' /\ StreamEnd'
  BY <1>1 DEF QueueInv, StreamVars, BytesExact, StreamEnd, Holding, BeforeClosing
<1>5. Phases' /\ CleanEndIsComplete'
  BY DEF QueueInv, StreamVars, Phases, CleanEndIsComplete, BeforeClosing
<1>6. QED
  BY <1>2, <1>3, <1>4, <1>5 DEF QueueInv

\* write_frame, before the lock, preserves the invariant.
LEMMA CallPreserves ==
    ASSUME QueueInv, NEW p \in Producers, NEW n \in Lengths, Call(p, n)
    PROVE  QueueInv'
<1>1. calls' \in 0..MaxFrames
  BY MaxFramesAssumption DEF QueueInv, QueueTypeOK, Call
<1>2. stopFlag' \in BOOLEAN
  BY DEF QueueInv, QueueTypeOK, Call
<1>3. /\ caller' \in [Producers -> {"idle", "entering", "waiting"}]
      /\ length' \in [Producers -> Lengths \union {0}]
      /\ \A r \in Producers : caller'[r] # "idle" => length'[r] \in Lengths
  <2>1. CASE UNCHANGED <<caller, length>>
    BY <2>1 DEF QueueInv, QueueTypeOK
  <2>2. CASE /\ caller' = [caller EXCEPT ![p] = "entering"]
             /\ length' = [length EXCEPT ![p] = n]
    BY <2>2 DEF QueueInv, QueueTypeOK
  <2>3. QED
    BY <2>1, <2>2 DEF Call
<1>4. QueueTypeOK'
  BY <1>1, <1>2, <1>3 DEF QueueInv, QueueTypeOK, Call, queueVars, writerVars
<1>5. QED
  BY <1>4, QueueQuietStep DEF Call, StreamVars, queueVars, writerVars

\* So do a caller that blocks, wakes up spuriously or gives its frame up.
LEMMA CallerWaitPreserves ==
    ASSUME QueueInv, NEW p \in Producers,
           Block(p) \/ SpuriousWake(p) \/ Discard(p)
    PROVE  QueueInv'
<1>1. QueueTypeOK'
  <2>1. \E c \in {"idle", "entering", "waiting"} :
            /\ caller' = [caller EXCEPT ![p] = c]
            /\ caller[p] # "idle"
    BY DEF Block, SpuriousWake, Discard
  <2>2. UNCHANGED <<queueVars, stopFlag, writerVars, length, mainStage, calls, produced>>
    BY DEF Block, SpuriousWake, Discard
  <2>3. QED
    BY <2>1, <2>2 DEF QueueInv, QueueTypeOK, queueVars, writerVars
<1>2. QED
  BY <1>1, QueueQuietStep
  DEF Block, SpuriousWake, Discard, StreamVars, queueVars, writerVars

\* So does a writer that waits for a frame.
LEMMA AwaitPreserves ==
    ASSUME QueueInv, AwaitFrame
    PROVE  QueueInv'
<1>1. QueueTypeOK'
  BY DEF QueueInv, QueueTypeOK, AwaitFrame, queueVars, callerVars
<1>2. QED
  BY <1>1, QueueQuietStep DEF AwaitFrame, StreamVars, queueVars

\* So does a request to stop.
LEMMA RequestStopPreserves ==
    ASSUME QueueInv, RequestStop
    PROVE  QueueInv'
<1>1. QueueTypeOK'
  BY DEF QueueInv, QueueTypeOK, RequestStop, queueVars, writerVars, callerVars
<1>2. QED
  BY <1>1, QueueQuietStep DEF RequestStop, StreamVars, queueVars, writerVars

\* So does main while it reads and handles lines, and when the input ends.
LEMMA CommandLoopPreserves ==
    ASSUME QueueInv, LineArrives \/ InputEnds \/ LineHandled
    PROVE  QueueInv'
<1>1. /\ UNCHANGED <<queueVars, writerVars, callerVars, produced>>
      /\ stopFlag' \in BOOLEAN
      /\ mainStage \in BeforeClosing /\ mainStage' \in BeforeClosing
  BY DEF QueueInv, QueueTypeOK, LineArrives, InputEnds, LineHandled, AfterLine,
         BeforeClosing
<1>2. QueueTypeOK'
  BY <1>1 DEF QueueInv, QueueTypeOK, BeforeClosing, queueVars, writerVars, callerVars
<1>3. QED
  BY <1>1, <1>2, QueueQuietStep DEF StreamVars, queueVars, writerVars

-----------------------------------------------------------------------------
(* Steps that move frames.                                                 *)

\* Queueing a frame: the room test keeps the bytes within the limit, and the
\* frame starts where the last one ended.
LEMMA EnqueuePreserves ==
    ASSUME QueueInv, NEW p \in Producers, Enqueue(p)
    PROVE  QueueInv'
<1> DEFINE new == [at |-> produced, length |-> length[p]]
           q == output_frames
<1>1. /\ length[p] \in Lengths
      /\ length[p] \in Nat \ {0}
      /\ produced \in Nat
      /\ q \in Seq(QueuedFrames)
      /\ new \in QueuedFrames
      /\ q' = Append(q, new)
      /\ produced' = produced + length[p]
      /\ output_bytes' = output_bytes + length[p]
  BY LengthsAssumption DEF QueueInv, QueueTypeOK, Enqueue, QueuedFrames
<1>2. /\ q' \in Seq(QueuedFrames)
      /\ q' # <<>>
      /\ Len(q) \in Nat
      /\ Len(q') = Len(q) + 1
      /\ \A i \in 1..Len(q) : q'[i] = q[i]
      /\ q'[Len(q) + 1] = new
  BY <1>1, AppendProperties, EmptySeq
<1>3. \A i \in 1..Len(q) : q[i].at \in Nat /\ q[i].length \in Nat
  BY <1>1, QueuedFrame
<1>4. QueueTypeOK'
  <2>1. /\ caller' \in [Producers -> {"idle", "entering", "waiting"}]
        /\ length' \in [Producers -> Lengths \union {0}]
        /\ \A r \in Producers : caller'[r] # "idle" => length'[r] \in Lengths
    BY DEF QueueInv, QueueTypeOK, Enqueue
  <2>2. writer' \in {"lock", "waiting", "writing", "written", "failing", "done"}
    BY DEF QueueInv, QueueTypeOK, Enqueue, SignalReady
  <2>3. output_bytes' \in Nat /\ produced' \in Nat
    BY <1>1 DEF QueueInv, QueueTypeOK
  <2>4. QED
    BY <1>2, <2>1, <2>2, <2>3 DEF QueueInv, QueueTypeOK, Enqueue
<1>5. Holding' <=> Holding
  BY DEF Enqueue, SignalReady, Holding
<1>6. NextAt' = NextAt
  <2>1. CASE q = <<>>
    <3>1. Len(q) = 0
      BY <2>1, EmptySeq
    <3>2. Head(q') = new
      BY <1>1, HeadTailAppend, <2>1
    <3>3. QED
      BY <1>2, <2>1, <3>2 DEF NextAt
  <2>2. CASE q # <<>>
    <3>1. Head(q') = Head(q)
      BY <1>1, HeadTailAppend, <2>2
    <3>2. QED
      BY <1>2, <2>2, <3>1 DEF NextAt
  <2>3. QED
    BY <2>1, <2>2
<1>7. Contiguous'
  <2>1. SUFFICES ASSUME NEW i \in 1..Len(q')
                 PROVE  /\ q'[i].at + q'[i].length <= produced'
                        /\ q'[i].at + q'[i].length =
                              IF i < Len(q') THEN q'[i + 1].at ELSE produced'
    BY DEF Contiguous
  <2>2. CASE i = Len(q) + 1
    BY <1>1, <1>2, <2>2
  <2>3. CASE i \in 1..Len(q)
    <3>1. /\ q[i].at + q[i].length <= produced
          /\ q[i].at + q[i].length =
                IF i < Len(q) THEN q[i + 1].at ELSE produced
      BY <2>3 DEF QueueInv, Contiguous
    <3>2. CASE i < Len(q)
      <4>1. i + 1 \in 1..Len(q)
        BY <1>2, <2>3, <3>2
      <4>2. q'[i + 1] = q[i + 1] /\ q'[i] = q[i] /\ i < Len(q')
        BY <1>2, <2>3, <4>1
      <4>3. QED
        BY <1>1, <1>3, <2>3, <3>1, <3>2, <4>2
    <3>3. CASE i = Len(q)
      <4>1. q'[i + 1] = new /\ q'[i] = q[i] /\ i < Len(q')
        BY <1>2, <2>3, <3>3
      <4>2. QED
        BY <1>1, <1>3, <2>3, <3>1, <3>3, <4>1
    <3>4. QED
      BY <1>2, <2>3, <3>2, <3>3
  <2>4. QED
    BY <1>2, <2>2, <2>3
<1>8. HeldFrame'
  BY <1>5, <1>6 DEF QueueInv, HeldFrame, Enqueue, SignalReady, Holding
<1>9. writer # "done" /\ writer' # "done" /\ mainStage # "stopped"
  BY DEF QueueInv, Phases, Enqueue, Refused, SignalReady
<1>10. BytesExact'
  <2> DEFINE base == IF Holding THEN frame.at ELSE NextAt
  <2>1. output_bytes = produced - base
    BY <1>9 DEF QueueInv, BytesExact
  <2>2. base \in Int
    BY NextAtBounds DEF QueueInv, HeldFrame, QueuedFrames
  <2>3. base' = base
    BY <1>5, <1>6 DEF Enqueue
  <2>4. BytesExact' <=> (mainStage' # "stopped" => output_bytes' = produced' - base')
    BY DEF BytesExact
  <2> HIDE DEF base
  <2>5. QED
    BY <1>1, <2>1, <2>2, <2>3, <2>4
<1>11. WithinLimit'
  BY <1>1 DEF WithinLimit, Enqueue, HasRoom
<1>12. StreamEnd' /\ StreamInOrder'
  BY <1>5, <1>6, <1>9 DEF QueueInv, StreamEnd, StreamInOrder, Enqueue
<1>13. Phases' /\ CleanEndIsComplete'
  BY <1>9 DEF QueueInv, Phases, CleanEndIsComplete, Enqueue
<1>14. QED
  BY <1>4, <1>7, <1>8, <1>10, <1>11, <1>12, <1>13 DEF QueueInv

\* Taking the first frame: its bytes stay accounted until it is written.
LEMMA PopPreserves ==
    ASSUME QueueInv, Pop
    PROVE  QueueInv'
<1> DEFINE q == output_frames
<1>1. /\ q \in Seq(QueuedFrames) /\ q # <<>>
      /\ q' = Tail(q) /\ frame' = Head(q)
      /\ produced' = produced /\ produced \in Nat
      /\ ~Holding /\ Holding' /\ writer # "done"
  BY DEF QueueInv, QueueTypeOK, Pop, FrameReady, Holding
<1>2. /\ q' \in Seq(QueuedFrames)
      /\ Len(q) \in Nat \ {0}
      /\ Len(q') = Len(q) - 1
      /\ \A i \in 1..Len(q') : q'[i] = q[i + 1]
      /\ frame' = q[1] /\ frame' \in QueuedFrames
  BY <1>1, HeadTailProperties, EmptySeq, QueuedFrame
<1>3. \A i \in 1..Len(q) : /\ q[i].at \in Nat /\ q[i].length \in Nat
                           /\ q[i].at + q[i].length <= produced
                           /\ q[i].at + q[i].length =
                                 IF i < Len(q) THEN q[i + 1].at ELSE produced
  BY <1>1, QueuedFrame DEF QueueInv, Contiguous
<1>4. QueueTypeOK'
  <2>1. frame' \in [at : Nat, length : Lengths \union {0}]
    BY <1>2 DEF QueuedFrames
  <2>2. QED
    BY <1>2, <2>1 DEF QueueInv, QueueTypeOK, Pop, callerVars
<1>5. NextAt' = frame'.at + frame'.length
  <2>1. CASE Len(q) = 1
    <3>1. q' = <<>>
      BY <1>2, <2>1, EmptySeq
    <3>2. QED
      BY <1>1, <1>2, <1>3, <2>1, <3>1 DEF NextAt
  <2>2. CASE Len(q) > 1
    <3>1. q' # <<>> /\ Head(q') = q'[1] /\ q'[1] = q[2]
      BY <1>2, <2>2, EmptySeq
    <3>2. QED
      BY <1>2, <1>3, <2>2, <3>1 DEF NextAt
  <2>3. QED
    BY <1>2, <2>1, <2>2
<1>6. Contiguous'
  <2>1. SUFFICES ASSUME NEW i \in 1..Len(q')
                 PROVE  /\ q'[i].at + q'[i].length <= produced'
                        /\ q'[i].at + q'[i].length =
                              IF i < Len(q') THEN q'[i + 1].at ELSE produced'
    BY DEF Contiguous
  <2>2. i + 1 \in 1..Len(q) /\ q'[i] = q[i + 1]
    BY <1>2
  <2>3. i < Len(q') => i + 1 < Len(q) /\ q'[i + 1] = q[i + 2]
    BY <1>2
  <2>4. i < Len(q') <=> i + 1 < Len(q)
    BY <1>2
  <2>5. QED
    BY <1>1, <1>3, <2>2, <2>3, <2>4
<1>7. NextAt = frame'.at
  BY <1>1, <1>2 DEF NextAt
<1>8. HeldFrame'
  <2>1. writer' = "writing" /\ offset' = 0
    BY DEF Pop
  <2>2. frame'.length \in Nat
    BY <1>2, LengthsAssumption DEF QueuedFrames
  <2>3. offset' <= frame'.length
    BY <2>1, <2>2
  <2>4. QED
    BY <1>2, <1>5, <2>1, <2>3 DEF HeldFrame
<1>9. BytesExact' /\ WithinLimit'
  BY <1>1, <1>7 DEF QueueInv, BytesExact, WithinLimit, Pop
<1>10. StreamEnd' /\ StreamInOrder'
  <2>1. Len(stdout) = frame'.at /\ offset' = 0 /\ stdout' = stdout
    BY <1>1, <1>7 DEF QueueInv, StreamEnd, Pop
  <2>2. frame'.at \in Nat
    BY <1>2 DEF QueuedFrames
  <2>3. QED
    BY <1>1, <2>1, <2>2 DEF QueueInv, StreamEnd, StreamInOrder
<1>11. Phases' /\ CleanEndIsComplete'
  BY <1>1 DEF QueueInv, Phases, CleanEndIsComplete, Pop
<1>12. QED
  BY <1>4, <1>6, <1>8, <1>9, <1>10, <1>11 DEF QueueInv

-----------------------------------------------------------------------------
(* The writer's other steps.                                               *)

\* The writer ends only with an empty queue.
LEMMA FinishPreserves ==
    ASSUME QueueInv, Finish
    PROVE  QueueInv'
<1>1. QueueTypeOK'
  BY DEF QueueInv, QueueTypeOK, Finish, queueVars, callerVars
<1>2. ~Holding /\ ~Holding' /\ NextAt' = NextAt /\ output_frames = <<>>
  BY DEF Finish, Holding, NextAt, FrameReady, queueVars
<1>3. Contiguous' /\ WithinLimit' /\ StreamInOrder' /\ HeldFrame'
  BY <1>2 DEF QueueInv, Contiguous, WithinLimit, StreamInOrder, HeldFrame, Finish,
              queueVars
<1>4. BytesExact' /\ StreamEnd'
  BY <1>2 DEF QueueInv, BytesExact, StreamEnd, Finish, queueVars
<1>5. Phases' /\ CleanEndIsComplete'
  BY <1>2 DEF QueueInv, Phases, CleanEndIsComplete, StreamEnd, NextAt, Finish,
              queueVars
<1>6. QED
  BY <1>1, <1>3, <1>4, <1>5 DEF QueueInv

\* What one write adds to the stream.
LEMMA WriteExtends ==
    ASSUME QueueInv, Write
    PROVE  \E k \in 1..(frame.length - offset) :
              /\ k \in Nat
              /\ stdout' = stdout \o [i \in 1..k |-> Len(stdout) + i]
              /\ offset' = offset + k
              /\ stdout' \in Seq(Nat)
              /\ Len(stdout') = Len(stdout) + k
              /\ StreamInOrder'
<1>1. PICK k \in 1..(frame.length - offset) :
          /\ stdout' = stdout \o [i \in 1..k |-> frame.at + offset + i]
          /\ offset' = offset + k
  BY DEF Write, Advance
<1>2. frame.at \in Nat /\ frame.length \in Nat /\ offset \in Nat /\ stdout \in Seq(Nat)
  BY WriterTyped DEF QueueInv
<1>3. Len(stdout) = frame.at + offset
  BY DEF QueueInv, StreamEnd, Write, Holding
<1> DEFINE piece == [i \in 1..k |-> Len(stdout) + i]
<1>4. k \in Nat /\ Len(stdout) \in Nat
  BY <1>2, LenProperties
<1>5. stdout' = stdout \o piece
  BY <1>1, <1>3
<1>6. piece \in Seq(Nat) /\ Len(piece) = k /\ \A i \in 1..k : piece[i] = Len(stdout) + i
  <2>1. \A i \in 1..k : Len(stdout) + i \in Nat
    BY <1>4
  <2>2. piece \in [1..k -> Nat]
    BY <2>1
  <2>3. piece \in Seq(Nat)
    BY <2>2, <1>4, SeqDef
  <2>4. QED
    BY <1>4, <2>2, <2>3, LenProperties
<1>7. /\ stdout' \in Seq(Nat)
      /\ Len(stdout') = Len(stdout) + k
      /\ \A i \in 1..Len(stdout) + k : stdout'[i] =
            IF i <= Len(stdout) THEN stdout[i] ELSE piece[i - Len(stdout)]
  BY <1>2, <1>5, <1>6, ConcatProperties
<1>8. StreamInOrder'
  <2>1. SUFFICES ASSUME NEW i \in 1..Len(stdout') PROVE stdout'[i] = i
    BY DEF StreamInOrder
  <2>2. CASE i <= Len(stdout)
    <3>1. stdout[i] = i
      BY <1>4, <1>7, <2>2 DEF QueueInv, StreamInOrder
    <3>2. i \in 1..Len(stdout) + k
      BY <1>7
    <3>3. QED
      BY <1>7, <2>2, <3>1, <3>2
  <2>3. CASE i > Len(stdout)
    <3>1. i - Len(stdout) \in 1..k
      BY <1>4, <1>7, <2>3
    <3>2. piece[i - Len(stdout)] = i
      BY <1>4, <1>6, <3>1
    <3>3. QED
      BY <1>4, <1>7, <2>3, <3>2
  <2>4. QED
    BY <1>4, <1>7, <2>2, <2>3
<1>9. QED
  BY <1>1, <1>4, <1>5, <1>7, <1>8

\* write(2) extends the stream by the next bytes of the frame.
LEMMA WritePreserves ==
    ASSUME QueueInv, Write
    PROVE  QueueInv'
<1>1. PICK k \in 1..(frame.length - offset) :
              /\ k \in Nat
              /\ stdout' = stdout \o [i \in 1..k |-> Len(stdout) + i]
              /\ offset' = offset + k
              /\ stdout' \in Seq(Nat)
              /\ Len(stdout') = Len(stdout) + k
              /\ StreamInOrder'
  BY WriteExtends
<1>2. frame.at \in Nat /\ frame.length \in Nat /\ offset \in Nat /\ Len(stdout) \in Nat
  BY WriterTyped DEF QueueInv
<1>3. offset' \in Nat /\ offset' <= frame.length
  BY <1>1, <1>2
<1>4. /\ writer = "writing" /\ Holding /\ Holding'
      /\ writer' = IF offset' < frame.length THEN "writing" ELSE "written"
      /\ NextAt' = NextAt
      /\ UNCHANGED <<queueVars, stopFlag, frame, callerVars, mainStage, produced>>
  BY DEF Write, Holding, NextAt, queueVars
<1>5. QueueTypeOK'
  BY <1>1, <1>3, <1>4 DEF QueueInv, QueueTypeOK, queueVars, callerVars
<1>6. Contiguous' /\ WithinLimit' /\ BytesExact'
  BY <1>4 DEF QueueInv, Contiguous, WithinLimit, BytesExact, queueVars
<1>7. HeldFrame'
  BY <1>2, <1>3, <1>4 DEF QueueInv, HeldFrame
<1>8. StreamEnd'
  <2>1. Len(stdout) = frame.at + offset
    BY <1>4 DEF QueueInv, StreamEnd
  <2>2. Len(stdout') = frame.at + offset'
    BY <1>1, <1>2, <2>1
  <2>3. QED
    BY <1>4, <2>2 DEF StreamEnd
<1>9. Phases' /\ CleanEndIsComplete'
  BY <1>4 DEF QueueInv, Phases, CleanEndIsComplete, queueVars
<1>10. QED
  BY <1>1, <1>5, <1>6, <1>7, <1>8, <1>9 DEF QueueInv

\* An error leaves the stream where it is.
LEMMA WriteFailsPreserves ==
    ASSUME QueueInv, WriteFails
    PROVE  QueueInv'
<1>1. QueueTypeOK'
  BY DEF QueueInv, QueueTypeOK, WriteFails, queueVars, callerVars
<1>2. Holding /\ Holding' /\ NextAt' = NextAt /\ writer # "done" /\ writer' # "done"
  BY DEF WriteFails, Holding, NextAt, queueVars
<1>3. Contiguous' /\ WithinLimit' /\ StreamInOrder' /\ BytesExact' /\ StreamEnd'
  BY <1>2 DEF QueueInv, Contiguous, WithinLimit, StreamInOrder, BytesExact,
              StreamEnd, WriteFails, queueVars
<1>4. HeldFrame'
  BY <1>2 DEF QueueInv, HeldFrame, WriteFails
<1>5. Phases' /\ CleanEndIsComplete'
  BY <1>2 DEF QueueInv, Phases, CleanEndIsComplete, WriteFails, queueVars
<1>6. QED
  BY <1>1, <1>3, <1>4, <1>5 DEF QueueInv

\* Waking the callers keeps them typed.
LEMMA BroadcastTyped ==
    ASSUME QueueTypeOK, caller' = BroadcastSpace, length' = length
    PROVE  /\ caller' \in [Producers -> {"idle", "entering", "waiting"}]
           /\ \A p \in Producers : caller'[p] # "idle" => length'[p] \in Lengths
  BY DEF QueueTypeOK, BroadcastSpace

\* Releasing the bytes of a frame, written or not.
LEMMA AccountPreserves ==
    ASSUME QueueInv, Account
    PROVE  QueueInv'
<1>1. /\ Holding /\ ~Holding' /\ NextAt' = NextAt
      /\ writer # "done" /\ mainStage # "stopped"
      /\ frame \in QueuedFrames /\ frame.at + frame.length = NextAt
  BY DEF QueueInv, Phases, HeldFrame, Account, Holding, NextAt
<1>2. /\ frame.at \in Nat /\ frame.length \in Nat /\ produced \in Nat
      /\ NextAt \in Nat /\ NextAt <= produced
  BY <1>1, LengthsAssumption, NextAtBounds DEF QueueInv, QueueTypeOK, QueuedFrames
<1>3. output_bytes' = produced - NextAt /\ output_bytes' <= output_bytes
  BY <1>1, <1>2 DEF QueueInv, BytesExact, Account, Release
<1>4. QueueTypeOK'
  <2>1. output_bytes' \in Nat
    BY <1>2, <1>3
  <2>2. /\ caller' \in [Producers -> {"idle", "entering", "waiting"}]
        /\ \A p \in Producers : caller'[p] # "idle" => length'[p] \in Lengths
    BY BroadcastTyped DEF QueueInv, Account
  <2>3. QED
    BY <2>1, <2>2 DEF QueueInv, QueueTypeOK, Account
<1>5. Contiguous' /\ HeldFrame' /\ StreamInOrder'
  BY <1>1 DEF QueueInv, Contiguous, HeldFrame, StreamInOrder, Account
<1>6. BytesExact' /\ WithinLimit'
  <2>1. output_bytes \in Nat /\ output_bytes <= Limit
    BY DEF QueueInv, QueueTypeOK, WithinLimit
  <2>2. produced' = produced
    BY DEF Account
  <2>3. QED
    BY <1>1, <1>2, <1>3, <2>1, <2>2, LimitAssumption DEF BytesExact, WithinLimit
<1>7. CASE writer = "written"
  <2>1. Len(stdout) = NextAt
    BY <1>1, <1>7 DEF QueueInv, StreamEnd, HeldFrame
  <2>2. writer' = "lock" /\ UNCHANGED <<output_closing, output_failed, output_frames, stdout, mainStage, produced>>
    BY <1>7 DEF Account
  <2>3. StreamEnd' /\ Phases' /\ CleanEndIsComplete'
    BY <1>1, <1>7, <2>1, <2>2 DEF QueueInv, StreamEnd, Phases, CleanEndIsComplete
  <2>4. QED
    BY <1>4, <1>5, <1>6, <2>3 DEF QueueInv
<1>8. CASE writer = "failing"
  <2>1. writer' = "done" /\ output_closing' /\ output_failed' /\ mainStage' = mainStage
    BY <1>8 DEF Account
  <2>2. StreamEnd' /\ Phases' /\ CleanEndIsComplete'
    BY <1>1, <2>1 DEF QueueInv, StreamEnd, Phases, CleanEndIsComplete
  <2>3. QED
    BY <1>4, <1>5, <1>6, <2>2 DEF QueueInv
<1>9. QED
  BY <1>7, <1>8 DEF Account

-----------------------------------------------------------------------------
(* main.                                                                   *)

\* output_stop closes the queue, and a failed writer has emptied it.
LEMMA CloseQueuePreserves ==
    ASSUME QueueInv, CloseQueue
    PROVE  QueueInv'
<1>1. QueueTypeOK'
  <2>1. /\ caller' \in [Producers -> {"idle", "entering", "waiting"}]
        /\ \A p \in Producers : caller'[p] # "idle" => length'[p] \in Lengths
    BY BroadcastTyped DEF QueueInv, CloseQueue
  <2>2. writer' \in {"lock", "waiting", "writing", "written", "failing", "done"}
    BY DEF QueueInv, QueueTypeOK, CloseQueue, SignalReady
  <2>3. QED
    BY <2>1, <2>2 DEF QueueInv, QueueTypeOK, CloseQueue
<1>2. /\ Holding' <=> Holding
      /\ writer' = "done" <=> writer = "done"
      /\ writer' = "written" <=> writer = "written"
      /\ NextAt' = NextAt
  BY DEF CloseQueue, SignalReady, Holding, NextAt
<1>3. Contiguous' /\ HeldFrame' /\ WithinLimit' /\ StreamEnd' /\ StreamInOrder'
  BY <1>2 DEF QueueInv, Contiguous, HeldFrame, WithinLimit, StreamEnd,
              StreamInOrder, CloseQueue
<1>4. BytesExact'
  BY <1>2 DEF QueueInv, BytesExact, CloseQueue
<1>5. Phases' /\ CleanEndIsComplete'
  BY <1>2 DEF QueueInv, Phases, CleanEndIsComplete, CloseQueue
<1>6. QED
  BY <1>1, <1>3, <1>4, <1>5 DEF QueueInv

\* Joining the writer changes nothing the invariant speaks of.
LEMMA JoinPreserves ==
    ASSUME QueueInv, JoinWriter
    PROVE  QueueInv'
<1>1. <<>> \in Seq(QueuedFrames) /\ Len(<<>>) = 0
  BY EmptySeq
<1>2. QueueTypeOK'
  BY <1>1 DEF QueueInv, QueueTypeOK, JoinWriter, writerVars, callerVars
<1>3. ~Holding /\ ~Holding' /\ writer = "done" /\ writer' = "done"
  BY DEF JoinWriter, Holding, writerVars
<1>4. Contiguous' /\ BytesExact'
  BY <1>1 DEF JoinWriter, Contiguous, BytesExact
<1>5. HeldFrame' /\ StreamEnd' /\ StreamInOrder'
  BY <1>3 DEF QueueInv, HeldFrame, StreamEnd, StreamInOrder, JoinWriter, writerVars
<1>6. WithinLimit'
  BY LimitAssumption DEF WithinLimit, JoinWriter
<1>7. Phases' /\ CleanEndIsComplete'
  BY <1>3 DEF QueueInv, Phases, CleanEndIsComplete, JoinWriter, writerVars
<1>8. QED
  BY <1>2, <1>4, <1>5, <1>6, <1>7 DEF QueueInv

\* Nor does a step that changes nothing.
LEMMA QueueStutterPreserves ==
    ASSUME QueueInv, UNCHANGED allVars
    PROVE  QueueInv'
<1>1. QueueTypeOK'
  BY DEF QueueInv, QueueTypeOK, allVars, queueVars, writerVars, callerVars
<1>2. QED
  BY <1>1, QueueQuietStep DEF allVars, StreamVars, queueVars, writerVars

-----------------------------------------------------------------------------

\* Every step preserves the invariant, one case per action.
LEMMA QueueNextPreserves == QueueInv /\ [QueueNext]_allVars => QueueInv'
<1>1. SUFFICES ASSUME QueueInv, [QueueNext]_allVars PROVE QueueInv'
  OBVIOUS
<1>2. CASE \E p \in Producers : \E n \in Lengths : Call(p, n)
  BY <1>1, <1>2, CallPreserves
<1>3. CASE \E p \in Producers : CallerStep(p) \/ SpuriousWake(p)
  BY <1>1, <1>3, EnqueuePreserves, CallerWaitPreserves DEF CallerStep
<1>4. CASE WriterStep
  BY <1>1, <1>4, AwaitPreserves, PopPreserves, FinishPreserves, WritePreserves,
     WriteFailsPreserves, AccountPreserves DEF WriterStep
<1>5. CASE RequestStop \/ LineArrives \/ InputEnds
  BY <1>1, <1>5, RequestStopPreserves, CommandLoopPreserves
<1>6. CASE MainStep
  BY <1>1, <1>6, CommandLoopPreserves, CloseQueuePreserves, JoinPreserves DEF MainStep
<1>7. CASE QueueEnded \/ UNCHANGED allVars
  BY <1>1, <1>7, QueueStutterPreserves DEF QueueEnded
<1>8. QED
  BY <1>1, <1>2, <1>3, <1>4, <1>5, <1>6, <1>7 DEF QueueNext

\* The inductive invariant holds in every state: write_frame, output_worker and
\* output_stop keep the queue, its byte count and the stream consistent.
THEOREM QueueInvariance == QueueSpec => []QueueInv
<1>1. QueueInit => QueueInv
  BY QueueInitInv
<1>2. QueueInv /\ [QueueNext]_allVars => QueueInv'
  BY QueueNextPreserves
<1>3. QED
  BY <1>1, <1>2, PTL DEF QueueSpec

(* Every state of every run is well typed. *)
THEOREM QueueTypes == QueueSpec => []QueueTypeOK
<1>1. QueueInv => QueueTypeOK
  BY DEF QueueInv
<1>2. QED
  BY <1>1, QueueInvariance, PTL

(* write_frame and output_worker together never hold more than              *)
(* output_limit_bytes, and output_bytes is exact at every step.             *)
THEOREM Bounded == QueueSpec => [](WithinLimit /\ BytesExact)
<1>1. QueueInv => WithinLimit /\ BytesExact
  BY DEF QueueInv
<1>2. QED
  BY <1>1, QueueInvariance, PTL

(* The bridge reads the accepted bytes in order, none twice and none left   *)
(* out, however output_write_all is interrupted.                            *)
THEOREM Ordered == QueueSpec => []StreamInOrder
<1>1. QueueInv => StreamInOrder
  BY DEF QueueInv
<1>2. QED
  BY <1>1, QueueInvariance, PTL

(* A writer that ended without an error delivered everything queued.        *)
THEOREM CleanEnd == QueueSpec => []CleanEndIsComplete
<1>1. QueueInv => CleanEndIsComplete
  BY DEF QueueInv
<1>2. QED
  BY <1>1, QueueInvariance, PTL

-----------------------------------------------------------------------------
(* The queue implements the byte pipe.                                     *)

\* The initial state is an initial state of the pipe.
LEMMA ModeInit == QueueInit => Pipe!PipeInit
  BY DEF QueueInit, Pipe!PipeInit, PipeMode

\* What the stream owes never exceeds the limit: it is within output_bytes.
LEMMA OwedBounded ==
    ASSUME QueueInv, writer # "done"
    PROVE  produced - Len(stdout) <= output_bytes
<1>1. mainStage # "stopped"
  BY DEF QueueInv, Phases
<1>2. /\ NextAt \in Nat /\ frame.at \in Nat /\ offset \in Nat
      /\ Len(stdout) \in Nat /\ produced \in Nat
  BY NextAtBounds, WriterTyped DEF QueueInv, QueueTypeOK
<1>3. CASE Holding
  BY <1>1, <1>2, <1>3 DEF QueueInv, BytesExact, StreamEnd
<1>4. CASE ~Holding
  BY <1>1, <1>2, <1>4 DEF QueueInv, BytesExact, StreamEnd
<1>5. QED
  BY <1>3, <1>4

\* Queueing a frame is Accept of the pipe.
LEMMA EnqueueAccepts ==
    ASSUME QueueInv, QueueInv', NEW p \in Producers, Enqueue(p)
    PROVE  Pipe!Accept
<1>1. writer # "done" /\ writer' # "done" /\ ~output_closing /\ ~output_closing'
  BY DEF QueueInv, Phases, Enqueue, Refused, SignalReady
<1>2. PipeMode = "open" /\ PipeMode' = "open"
  BY <1>1 DEF PipeMode
<1>3. /\ produced \in Nat /\ length[p] \in Nat \ {0}
      /\ produced' = produced + length[p]
      /\ stdout' = stdout
  BY LengthsAssumption DEF QueueInv, QueueTypeOK, Enqueue
<1>4. Len(stdout) \in Nat /\ output_bytes \in Nat
  BY WriterTyped DEF QueueInv, QueueTypeOK
<1>5. produced' - Len(stdout) <= Limit
  <2>1. produced - Len(stdout) <= output_bytes
    BY <1>1, OwedBounded
  <2>2. output_bytes + length[p] <= Limit
    BY DEF Enqueue, HasRoom
  <2>3. QED
    BY <1>3, <1>4, <2>1, <2>2, LimitAssumption
<1>6. QED
  BY <1>2, <1>3, <1>4, <1>5 DEF Pipe!Accept

\* A write is Emit of the pipe.
LEMMA WriteEmits ==
    ASSUME QueueInv, Write
    PROVE  Pipe!Emit
<1>1. PICK k \in 1..(frame.length - offset) :
              /\ k \in Nat
              /\ stdout' = stdout \o [i \in 1..k |-> Len(stdout) + i]
  BY WriteExtends
<1>2. /\ frame.at \in Nat /\ frame.length \in Nat /\ offset \in Nat
      /\ Len(stdout) \in Nat /\ produced \in Nat
  BY WriterTyped DEF QueueInv, QueueTypeOK
<1>3. /\ Len(stdout) = frame.at + offset
      /\ frame.at + frame.length <= produced
  <2>1. writer = "writing" /\ Holding
    BY DEF Write, Holding
  <2>2. NextAt <= produced
    BY NextAtBounds DEF QueueInv
  <2>3. QED
    BY <1>2, <2>1, <2>2 DEF QueueInv, StreamEnd, HeldFrame
<1>4. k \in 1..(produced - Len(stdout))
  <2>1. k \in Nat /\ 1 <= k /\ k <= frame.length - offset
    BY <1>2
  <2>2. frame.length - offset <= produced - Len(stdout)
    BY <1>2, <1>3
  <2>3. QED
    BY <1>2, <2>1, <2>2
<1>5. /\ PipeMode' = PipeMode /\ produced' = produced
      /\ PipeMode \in {"open", "closing"}
  <2>1. /\ writer = "writing" /\ writer' \in {"writing", "written"}
        /\ UNCHANGED <<output_closing, output_failed, produced>>
    BY DEF Write, queueVars
  <2>2. QED
    BY <2>1 DEF PipeMode
<1>6. QED
  BY <1>1, <1>4, <1>5 DEF Pipe!Emit

\* The writer's clean end is Drain of the pipe.
LEMMA FinishDrains ==
    ASSUME QueueInv, Finish
    PROVE  Pipe!Drain
<1>1. /\ writer = "lock" /\ writer' = "done" /\ output_closing
      /\ UNCHANGED <<produced, stdout>>
      /\ ~output_failed /\ ~output_failed'
  BY DEF QueueInv, Phases, Finish, queueVars
<1>2. PipeMode = "closing" /\ PipeMode' = "drained"
  BY <1>1 DEF PipeMode
<1>3. Len(stdout) = produced
  BY DEF QueueInv, StreamEnd, Finish, Holding, NextAt, FrameReady
<1>4. QED
  BY <1>1, <1>2, <1>3 DEF Pipe!Drain

\* Accounting for a written frame shows nothing; for a failed one it breaks
\* the pipe.
LEMMA AccountBreaks ==
    ASSUME QueueInv, Account
    PROVE  Pipe!Break \/ UNCHANGED Pipe!pipeVars
<1>1. UNCHANGED <<produced, stdout>>
  BY DEF Account
<1>2. CASE writer = "written"
  <2>1. PipeMode' = PipeMode
    BY <1>2 DEF Account, PipeMode
  <2>2. QED
    BY <1>1, <2>1 DEF Pipe!pipeVars
<1>3. CASE writer = "failing"
  <2>1. PipeMode' = "broken" /\ PipeMode \in {"open", "closing"}
    BY <1>3 DEF Account, PipeMode
  <2>2. QED
    BY <1>1, <2>1 DEF Pipe!Break
<1>4. QED
  BY <1>2, <1>3 DEF Account

\* output_stop closes the pipe, unless a failed writer already did.
LEMMA CloseQueueCloses ==
    ASSUME QueueInv, CloseQueue
    PROVE  Pipe!Close \/ UNCHANGED Pipe!pipeVars
<1>1. /\ UNCHANGED <<produced, stdout, output_failed>> /\ output_closing'
      /\ writer' = "done" <=> writer = "done"
  BY DEF CloseQueue, SignalReady
<1>2. CASE writer = "done" \/ output_closing
  <2>1. PipeMode' = PipeMode
    BY <1>1, <1>2 DEF PipeMode
  <2>2. QED
    BY <1>1, <2>1 DEF Pipe!pipeVars
<1>3. CASE writer # "done" /\ ~output_closing
  <2>1. PipeMode = "open" /\ PipeMode' = "closing"
    BY <1>1, <1>3 DEF PipeMode
  <2>2. QED
    BY <1>1, <2>1 DEF Pipe!Close
<1>4. QED
  BY <1>2, <1>3

\* Every step is a step of the pipe or leaves the pipe as it is.
LEMMA StepSimulation == QueueInv /\ QueueInv' /\ [QueueNext]_allVars => [Pipe!PipeNext]_(Pipe!pipeVars)
<1>1. SUFFICES ASSUME QueueInv, QueueInv', [QueueNext]_allVars
               PROVE  [Pipe!PipeNext]_(Pipe!pipeVars)
  OBVIOUS
<1>2. CASE \E p \in Producers : Enqueue(p)
  BY <1>1, <1>2, EnqueueAccepts DEF Pipe!PipeNext
<1>3. CASE Write
  BY <1>1, <1>3, WriteEmits DEF Pipe!PipeNext
<1>4. CASE Finish
  BY <1>1, <1>4, FinishDrains DEF Pipe!PipeNext
<1>5. CASE Account
  BY <1>1, <1>5, AccountBreaks DEF Pipe!PipeNext
<1>6. CASE CloseQueue
  BY <1>1, <1>6, CloseQueueCloses DEF Pipe!PipeNext
<1>7. CASE \/ \E p \in Producers : \/ \E n \in Lengths : Call(p, n)
                                   \/ Block(p) \/ Discard(p) \/ SpuriousWake(p)
           \/ AwaitFrame \/ Pop \/ WriteFails \/ RequestStop
           \/ LineArrives \/ InputEnds \/ LineHandled \/ JoinWriter \/ QueueEnded
           \/ UNCHANGED allVars
  <2>1. /\ UNCHANGED <<produced, stdout, output_closing, output_failed>>
        /\ writer' = "done" <=> writer = "done"
    BY <1>7 DEF Call, Block, Discard, SpuriousWake, AwaitFrame, Pop, WriteFails,
                RequestStop, LineArrives, InputEnds, LineHandled, JoinWriter,
                QueueEnded, allVars, queueVars, writerVars
  <2>2. PipeMode' = PipeMode
    BY <2>1 DEF PipeMode
  <2>3. QED
    BY <2>1, <2>2 DEF Pipe!pipeVars
<1>8. QED
  BY <1>1, <1>2, <1>3, <1>4, <1>5, <1>6, <1>7
  DEF QueueNext, CallerStep, WriterStep, MainStep

(* Seen from outside, the queue, its writer and its callers are a byte pipe *)
(* of at most output_limit_bytes that delivers everything, in order, until  *)
(* it breaks.                                                               *)
THEOREM Implements == QueueSpec => PipeSpec
<1>1. QueueInit => Pipe!PipeInit
  BY ModeInit
<1>2. QueueInv /\ QueueInv' /\ [QueueNext]_allVars => [Pipe!PipeNext]_(Pipe!pipeVars)
  BY StepSimulation
<1>3. QED
  BY <1>1, <1>2, QueueInvariance, PTL DEF QueueSpec, PipeSpec, Pipe!PipeSpec

-----------------------------------------------------------------------------
(* Fetches and priorities                                                  *)

Entry(r) == [id |-> r.id, fetch |-> r.fetch]

\* Ids in use are below the next one.
FreshIds ==
    /\ \A u \in updates : u.id < next_id
    /\ \A r \in requests : r.id < next_id

\* Without a connection nothing is on the wire, and nothing ever was before
\* the first one.
WireNeedsConnection == connection # "up" => requests = {}

\* The wire carries exactly the updates of the table, each with the pending
\* target of its fetch, and the relay's priority tells how far each one is.
Matched ==
    /\ updates = {Entry(r) : r \in requests}
    /\ \A r \in requests :
          /\ r.target = pending[r.fetch]
          /\ r.fetch \in served /\ r.answer = "accepted" =>
                relay_priority[r.fetch] = pending[r.fetch].priority
          /\ r.fetch \in served /\ r.answer # "accepted" =>
                relay_priority[r.fetch] = applied[r.fetch].priority
          /\ r.answer = "accepted" => r.fetch \in served
    /\ \A f \in served \ update_pending : relay_priority[f] = applied[f].priority

\* handle_open runs with a connection, so before the first one the relay
\* serves nothing and no update was ever sent.
OpenNeedsConnection ==
    /\ \A i \in 1..Len(items) : items[i].type = "open" => connection = "up"
    /\ connection = "none" => served = {} /\ updates = {}

\* The fetches a command still has to open are distinct and new.
OpenItemsFresh ==
    \A i \in 1..Len(items) : items[i].type = "open" =>
        /\ items[i].fetch \notin opened
        /\ \A j \in 1..Len(items) : items[j].fetch = items[i].fetch => j = i

\* handle_close has emptied the table; late answers find nothing in it.
Closed ==
    /\ updates = {} /\ update_pending = {}
    /\ main \in {"draining", "ended"}

IInv ==
    /\ TypeOK
    /\ TableMatches
    /\ OneUpdateInFlight
    /\ FreshIds
    /\ WireNeedsConnection
    /\ OpenNeedsConnection
    /\ OpenItemsFresh
    /\ connection = "up" => Matched \/ Closed

-----------------------------------------------------------------------------

\* The initial state satisfies the invariant.
LEMMA InitIInv == Init => IInv
<1>1. SUFFICES ASSUME Init PROVE IInv
  OBVIOUS
<1>2. TypeOK
  <2>1. items = <<>> /\ items \in Seq([type : {"open", "priorities"}, fetch : Fetches, priority : Priorities])
    BY <1>1, EmptySeq DEF Init
  <2>2. Unset \in AnyTarget
    BY DEF AnyTarget
  <2>3. epoch \in 0..MaxEpochs /\ failures \in 0..MaxFailures
    BY <1>1, BoundsAssumption DEF Init
  <2>4. QED
    BY <1>1, <2>1, <2>2, <2>3 DEF Init, TypeOK
<1>3. QED
  BY <1>1, <1>2 DEF Init, IInv, TableMatches, OneUpdateInFlight, FreshIds,
                    WireNeedsConnection, OpenNeedsConnection, OpenItemsFresh

-----------------------------------------------------------------------------
(* Steps that touch neither the tables nor the wire nor the priorities.    *)

WireVars == <<update_pending, update_id, updates, pending, requests,
              applied, served, relay_priority>>

\* A step that leaves the fetches, the updates and the relay alone preserves
\* the invariant as soon as it keeps the other variables typed.
LEMMA QuietStep ==
    ASSUME IInv, TypeOK', OpenNeedsConnection', OpenItemsFresh', UNCHANGED WireVars,
           next_id' >= next_id, connection' = connection,
           main \in {"draining", "ended"} => main' \in {"draining", "ended"}
    PROVE  IInv'
<1>1. TableMatches' /\ OneUpdateInFlight'
  BY DEF IInv, WireVars, TableMatches, OneUpdateInFlight
<1>6. FreshIds'
  <2>1. /\ next_id \in Nat /\ next_id' \in Nat /\ next_id' >= next_id
        /\ \A u \in updates : u.id \in Nat /\ u.id < next_id
        /\ \A r \in requests : r.id \in Nat /\ r.id < next_id
    BY DEF IInv, TypeOK, FreshIds
  <2>2. QED
    BY <2>1 DEF WireVars, FreshIds
<1>2. WireNeedsConnection'
  BY DEF IInv, WireVars, WireNeedsConnection
<1>3. Matched => Matched'
  BY DEF WireVars, Matched, Entry
<1>4. Closed => Closed'
  BY DEF WireVars, Closed
<1>5. QED
  BY <1>1, <1>2, <1>3, <1>4, <1>6 DEF IInv

Item == [type : {"open", "priorities"}, fetch : Fetches, priority : Priorities]

\* A command that starts brings well-formed items.
LEMMA BeginTyped ==
    ASSUME IInv, NEW S \in SUBSET Fetches, NEW list \in ItemLists(S),
           NEW type \in {"open", "priorities"}, Begin(type, list)
    PROVE  /\ items' \in Seq(Item) /\ items' # <<>>
           /\ \A i \in 1..Len(items') :
                 /\ items'[i].type = type
                 /\ items'[i].fetch \in S
                 /\ \A j \in 1..Len(items') : items'[j].fetch = items'[i].fetch => j = i
<1>1. PICK n \in 1..MaxItems : list \in [1..n -> [fetch : S, priority : Priorities]]
  BY DEF ItemLists
<1>10. \A i, j \in DOMAIN list : list[i].fetch = list[j].fetch => i = j
  BY DEF ItemLists
<1>2. n \in Nat /\ n > 0 /\ DOMAIN list = 1..n
  BY <1>1, BoundsAssumption
<1>3. items' = [i \in 1..n |-> [type |-> type, fetch |-> list[i].fetch,
                                priority |-> list[i].priority]]
  BY <1>2 DEF Begin
<1>4. \A i \in 1..n : /\ list[i] \in [fetch : S, priority : Priorities]
                      /\ list[i].fetch \in Fetches
                      /\ list[i].priority \in Priorities
  BY <1>1
<1>5. items' \in [1..n -> Item]
  BY <1>3, <1>4 DEF Item
<1>6. items' \in Seq(Item)
  BY <1>2, <1>5, SeqDef
<1>7. DOMAIN items' = 1..n /\ Len(items') = n
  BY <1>2, <1>5, <1>6, LenProperties
<1>8. items' # <<>>
  BY <1>2, <1>6, <1>7, EmptySeq
<1>9. QED
  BY <1>1, <1>2, <1>3, <1>6, <1>7, <1>8, <1>10

\* Reading a command line starts a list of items and touches no fetch.
LEMMA ReadCommandPreserves ==
    ASSUME IInv, ReadOpen \/ ReadPriorities
    PROVE  IInv'
<1>1. /\ items' \in Seq(Item) /\ items' # <<>>
      /\ \A i \in 1..Len(items') : items'[i].type = "open" =>
            /\ connection' = "up" /\ items'[i].fetch \notin opened'
            /\ \A j \in 1..Len(items') : items'[j].fetch = items'[i].fetch => j = i
  <2>1. CASE ReadOpen
    <3>1. PICK list \in ItemLists(Fetches \ opened) : Begin("open", list)
      BY <2>1 DEF ReadOpen
    <3>2. connection' = "up" /\ opened' = opened /\ opened \subseteq Fetches
      BY <2>1, <3>1 DEF ReadOpen, Begin, fetchVars, IInv, TypeOK
    <3>3. QED
      BY <3>1, <3>2, BeginTyped
  <2>2. CASE ReadPriorities
    <3>1. PICK list \in ItemLists(Fetches) : Begin("priorities", list)
      BY <2>2 DEF ReadPriorities
    <3>2. QED
      BY <3>1, BeginTyped
  <2>3. QED
    BY <2>1, <2>2
<1>2. /\ main = "loop" /\ main' = "items"
      /\ UNCHANGED <<connection, stopping, fetchVars, updateVars, relayVars, failures>>
      /\ epoch' \in 0..MaxEpochs
  BY BoundsAssumption DEF IInv, TypeOK, ReadOpen, ReadPriorities, Begin
<1>3. TypeOK'
  BY <1>1, <1>2 DEF IInv, TypeOK, Item, fetchVars, updateVars, relayVars
<1>4. OpenNeedsConnection'
  BY <1>1, <1>2 DEF IInv, OpenNeedsConnection, updateVars, relayVars
<1>5. OpenItemsFresh'
  BY <1>1 DEF OpenItemsFresh
<1>6. next_id' >= next_id
  BY <1>2 DEF IInv, TypeOK, updateVars
<1>7. QED
  BY <1>2, <1>3, <1>4, <1>5, <1>6, QuietStep DEF WireVars, fetchVars, updateVars, relayVars

\* One item less, and the lock released after the last one.
LEMMA NextItemTyped ==
    ASSUME IInv, NextItem
    PROVE  /\ Head(items) \in Item /\ Head(items) = items[1] /\ Len(items) \in Nat \ {0}
           /\ items' \in Seq(Item)
           /\ main' \in {"loop", "items", "draining"}
           /\ main' = "items" <=> items' # <<>>
           /\ \A i \in 1..Len(items') : i + 1 \in 1..Len(items) /\ items'[i] = items[i + 1]
<1>1. items \in Seq(Item) /\ items # <<>>
  BY DEF IInv, TypeOK, Item, NextItem
<1>2. /\ Head(items) \in Item /\ Tail(items) \in Seq(Item)
      /\ Len(items) \in Nat \ {0}
      /\ Len(Tail(items)) = Len(items) - 1
      /\ \A i \in 1..Len(Tail(items)) : Tail(items)[i] = items[i + 1]
  BY <1>1, HeadTailProperties, EmptySeq
<1>3. Head(items) = items[1]
  BY <1>1
<1>4. Tail(items) = <<>> <=> Len(items) = 1
  BY <1>2, EmptySeq
<1>5. items' = Tail(items) /\ main' = IF Len(items) = 1 THEN AfterCommand ELSE "items"
  BY DEF NextItem
<1>6. AfterCommand \in {"draining", "loop"}
  BY DEF AfterCommand
<1>7. main' \in {"loop", "items", "draining"} /\ (main' = "items" <=> items' # <<>>)
  BY <1>4, <1>5, <1>6
<1>8. \A i \in 1..Len(items') : i + 1 \in 1..Len(items) /\ items'[i] = items[i + 1]
  BY <1>2, <1>5
<1>9. QED
  BY <1>2, <1>3, <1>5, <1>7, <1>8

\* While a command is handled, the connection is as it was at its start, and
\* what is left of the command is still fresh if only its first fetch opened.
LEMMA ItemsKept ==
    ASSUME IInv, NextItem, connection' = connection,
           \/ opened' = opened
           \/ Head(items).type = "open" /\ opened' = opened \union {Head(items).fetch}
    PROVE  /\ \A i \in 1..Len(items') : items'[i].type = "open" => connection' = "up"
           /\ OpenItemsFresh'
<1>1. ASSUME NEW i \in 1..Len(items'), items'[i].type = "open"
      PROVE  /\ connection' = "up"
             /\ items'[i].fetch \notin opened /\ items'[i].fetch # items[1].fetch
             /\ \A j \in 1..Len(items') : items'[j].fetch = items'[i].fetch => j = i
  <2>1. Len(items') \in Nat /\ Len(items) \in Nat \ {0} /\ 1 \in 1..Len(items)
    BY NextItemTyped, LenProperties
  <2>2. \A j \in 1..Len(items') : j + 1 \in 1..Len(items) /\ items'[j] = items[j + 1]
    BY NextItemTyped
  <2>3. /\ connection = "up" /\ items[i + 1].fetch \notin opened
        /\ \A j \in 1..Len(items) : items[j].fetch = items[i + 1].fetch => j = i + 1
    BY <1>1, <2>2 DEF IInv, OpenNeedsConnection, OpenItemsFresh
  <2>4. i \in Nat /\ i + 1 # 1 /\ i >= 1
    BY <2>1
  <2>5. items[1].fetch # items[i + 1].fetch
    BY <2>1, <2>3, <2>4
  <2>6. ASSUME NEW j \in 1..Len(items'), items'[j].fetch = items'[i].fetch PROVE j = i
    <3>1. j + 1 = i + 1
      BY <2>2, <2>3, <2>6
    <3>2. QED
      BY <2>1, <3>1
  <2>7. QED
    BY <2>2, <2>3, <2>5, <2>6
<1>2. Head(items) = items[1]
  BY NextItemTyped
<1>3. QED
  BY <1>1, <1>2 DEF OpenItemsFresh

-----------------------------------------------------------------------------
(* What the wire says of the table.                                        *)

\* A request on the wire belongs to a busy fetch, with the id of its update.
LEMMA OnTheWire ==
    ASSUME IInv, connection = "up", Matched, NEW r \in requests
    PROVE  /\ r.fetch \in update_pending /\ r.id = update_id[r.fetch]
           /\ Entry(r) \in updates
           /\ r.fetch \in Fetches /\ r.fetch \in opened
<1>1. Entry(r) \in updates
  BY DEF Matched
<1>2. PICK g \in update_pending : Entry(r) = [id |-> update_id[g], fetch |-> g]
  BY <1>1 DEF IInv, TableMatches
<1>3. r.fetch = g /\ r.id = update_id[g]
  BY <1>2 DEF Entry
<1>4. QED
  BY <1>1, <1>3 DEF IInv, TypeOK

\* handle_open: a fresh fetch starts with no update in flight.
LEMMA OpenPreserves ==
    ASSUME IInv, Open
    PROVE  IInv'
<1> DEFINE f == Head(items).fetch
           target == [priority |-> Head(items).priority, epoch |-> epoch]
<1>1. /\ NextItem /\ Head(items).type = "open" /\ main = "items"
      /\ opened' = opened \union {f}
      /\ applied' = [applied EXCEPT ![f] = target]
      /\ desired' = [desired EXCEPT ![f] = target]
      /\ UNCHANGED <<connection, stopping, epoch, complete, objects, updateVars>>
  BY DEF Open, NextItem
<1>2. f \in Fetches /\ target \in AnyTarget /\ target.priority \in Priorities
  BY <1>1, NextItemTyped DEF IInv, TypeOK, Item, AnyTarget, Targets
<1>3. connection = "up" /\ f \notin opened
  BY <1>1, NextItemTyped DEF IInv, OpenNeedsConnection, OpenItemsFresh
<1>4. failures' \in 0..MaxFailures
  BY BoundsAssumption DEF IInv, TypeOK, Open
<1>5. \/ /\ served' = served \union {f}
         /\ relay_priority' = [relay_priority EXCEPT ![f] = target.priority]
      \/ UNCHANGED <<served, relay_priority>>
  BY DEF Open, relayVars
<1>6. TypeOK'
  <2>1. /\ items' \in Seq(Item) /\ main' \in {"loop", "items", "draining"}
        /\ main' = "items" <=> items' # <<>>
    BY <1>1, NextItemTyped
  <2>2. applied' \in [Fetches -> AnyTarget] /\ desired' \in [Fetches -> AnyTarget]
    BY <1>1, <1>2 DEF IInv, TypeOK
  <2>3. relay_priority' \in [Fetches -> Priorities \union {0}]
    BY <1>2, <1>5 DEF IInv, TypeOK
  <2>4. opened' \subseteq Fetches /\ served' \subseteq opened' /\ complete' \subseteq served'
        /\ update_pending' \subseteq opened'
    BY <1>1, <1>2, <1>5 DEF IInv, TypeOK, updateVars
  <2>5. QED
    BY <1>1, <1>4, <2>1, <2>2, <2>3, <2>4 DEF IInv, TypeOK, Item, updateVars
<1>7. Matched
  BY <1>1, <1>3 DEF IInv, Closed
<1>8. Matched'
  <2>1. updates' = {Entry(r) : r \in requests'}
    BY <1>1, <1>7 DEF Matched, updateVars
  <2>2. ASSUME NEW r \in requests'
        PROVE  /\ r.target = pending'[r.fetch]
               /\ r.fetch \in served' /\ r.answer = "accepted" =>
                     relay_priority'[r.fetch] = pending'[r.fetch].priority
               /\ r.fetch \in served' /\ r.answer # "accepted" =>
                     relay_priority'[r.fetch] = applied'[r.fetch].priority
               /\ r.answer = "accepted" => r.fetch \in served'
    <3>1. r \in requests /\ pending' = pending
      BY <1>1 DEF updateVars
    <3>2. r.fetch \in Fetches /\ r.fetch # f
      BY <1>3, <1>7, <3>1, OnTheWire
    <3>3. /\ applied'[r.fetch] = applied[r.fetch]
          /\ relay_priority'[r.fetch] = relay_priority[r.fetch]
          /\ r.fetch \in served' <=> r.fetch \in served
      BY <1>1, <1>5, <3>2 DEF IInv, TypeOK
    <3>4. QED
      BY <1>7, <3>1, <3>3 DEF Matched
  <2>3. ASSUME NEW g \in served' \ update_pending'
        PROVE  relay_priority'[g] = applied'[g].priority
    <3>1. CASE g = f
      <4>1. relay_priority' = [relay_priority EXCEPT ![f] = target.priority]
        BY <1>3, <1>5, <3>1 DEF IInv, TypeOK
      <4>2. QED
        BY <1>1, <1>2, <3>1, <4>1 DEF IInv, TypeOK
    <3>2. CASE g # f
      <4>1. g \in served \ update_pending /\ g \in Fetches
        BY <1>1, <1>5, <3>2 DEF IInv, TypeOK, updateVars
      <4>2. applied'[g] = applied[g] /\ relay_priority'[g] = relay_priority[g]
        BY <1>1, <1>5, <3>2, <4>1 DEF IInv, TypeOK
      <4>3. QED
        BY <1>7, <4>1, <4>2 DEF Matched
    <3>3. QED
      BY <3>1, <3>2
  <2>4. QED
    BY <2>1, <2>2, <2>3 DEF Matched
<1>9. TableMatches' /\ OneUpdateInFlight' /\ FreshIds' /\ WireNeedsConnection'
  BY <1>1 DEF IInv, TableMatches, OneUpdateInFlight, FreshIds, WireNeedsConnection, updateVars
<1>10. OpenNeedsConnection' /\ OpenItemsFresh'
  BY <1>1, <1>3, ItemsKept DEF OpenNeedsConnection
<1>11. QED
  BY <1>6, <1>8, <1>9, <1>10 DEF IInv

-----------------------------------------------------------------------------
(* The tables, the wire and the priorities as values: callbacks resolve one *)
(* update and then perhaps send another, and both halves keep them coherent. *)

Coherent(busy, ids, table, pend, wire, app) ==
    /\ table = {[id |-> ids[f], fetch |-> f] : f \in busy}
    /\ \A r, s \in wire : r.fetch = s.fetch => r = s
    /\ table = {Entry(r) : r \in wire}
    /\ \A r \in wire :
          /\ r.target = pend[r.fetch]
          /\ r.fetch \in served /\ r.answer = "accepted" =>
                relay_priority[r.fetch] = pend[r.fetch].priority
          /\ r.fetch \in served /\ r.answer # "accepted" =>
                relay_priority[r.fetch] = app[r.fetch].priority
          /\ r.answer = "accepted" => r.fetch \in served
    /\ \A f \in served \ busy : relay_priority[f] = app[f].priority

\* With a connection and without a close, the invariant gives coherence.
LEMMA CoherentNow ==
    ASSUME IInv, connection = "up", Matched
    PROVE  Coherent(update_pending, update_id, updates, pending, requests, applied)
  BY DEF IInv, TableMatches, OneUpdateInFlight, Matched, Coherent

\* A coherent wire only speaks of busy fetches.
LEMMA CoherentWire ==
    ASSUME NEW busy, NEW ids, NEW table, NEW pend, NEW wire, NEW app,
           Coherent(busy, ids, table, pend, wire, app), NEW r \in wire
    PROVE  r.fetch \in busy /\ r.id = ids[r.fetch] /\ Entry(r) \in table
<1>1. Entry(r) \in table
  BY DEF Coherent
<1>2. PICK g \in busy : Entry(r) = [id |-> ids[g], fetch |-> g]
  BY <1>1 DEF Coherent
<1>3. QED
  BY <1>1, <1>2 DEF Entry

\* Resolving the update of one request: it leaves the wire and the table, its
\* fetch is no longer busy, and its applied target agrees with the relay.
LEMMA ResolveCoherent ==
    ASSUME NEW busy, NEW ids, NEW table, NEW pend, NEW wire, NEW app, NEW app2,
           Coherent(busy, ids, table, pend, wire, app), NEW r \in wire,
           r.fetch \in served => relay_priority[r.fetch] = app2[r.fetch].priority,
           \A f \in served : f # r.fetch => app2[f] = app[f]
    PROVE  Coherent(busy \ {r.fetch}, ids, table \ {Entry(r)}, pend, wire \ {r}, app2)
<1>1. /\ r.fetch \in busy /\ r.id = ids[r.fetch] /\ Entry(r) \in table
      /\ Entry(r) = [id |-> ids[r.fetch], fetch |-> r.fetch]
  BY CoherentWire DEF Entry
<1>2. table \ {Entry(r)} = {[id |-> ids[f], fetch |-> f] : f \in busy \ {r.fetch}}
  BY <1>1 DEF Coherent
<1>3. \A s \in wire \ {r} : s.fetch # r.fetch /\ Entry(s) # Entry(r)
  BY DEF Coherent, Entry
<1>4. table \ {Entry(r)} = {Entry(s) : s \in wire \ {r}}
  BY <1>3 DEF Coherent
<1>5. \A s \in wire \ {r} :
          /\ s.target = pend[s.fetch]
          /\ s.fetch \in served /\ s.answer = "accepted" =>
                relay_priority[s.fetch] = pend[s.fetch].priority
          /\ s.fetch \in served /\ s.answer # "accepted" =>
                relay_priority[s.fetch] = app2[s.fetch].priority
          /\ s.answer = "accepted" => s.fetch \in served
  BY <1>3 DEF Coherent
<1>6. \A f \in served \ (busy \ {r.fetch}) : relay_priority[f] = app2[f].priority
  BY DEF Coherent
<1>7. \A s, t \in wire \ {r} : s.fetch = t.fetch => s = t
  BY DEF Coherent
<1>8. QED
  BY <1>2, <1>4, <1>5, <1>6, <1>7 DEF Coherent

SameOn(S, old, new) == \A g \in S : new[g] = old[g]

\* Sending an update of a fetch that is not busy.
LEMMA SendCoherent ==
    ASSUME NEW busy, NEW ids, NEW table, NEW pend, NEW wire, NEW app,
           NEW f, NEW ids2, NEW pend2,
           Coherent(busy, ids, table, pend, wire, app), f \notin busy,
           SameOn(busy, ids, ids2), SameOn(busy, pend, pend2)
    PROVE  Coherent(busy \union {f}, ids2, table \union {[id |-> ids2[f], fetch |-> f]}, pend2,
               wire \union {[id |-> ids2[f], fetch |-> f, target |-> pend2[f],
                             answer |-> "none"]}, app)
<1> DEFINE new == [id |-> ids2[f], fetch |-> f, target |-> pend2[f], answer |-> "none"]
<1>1. \A r \in wire : r.fetch \in busy /\ r.fetch # f
  BY CoherentWire
<1>2. Entry(new) = [id |-> ids2[f], fetch |-> f] /\ new.fetch = f /\ new.target = pend2[f]
      /\ new.answer = "none"
  BY DEF Entry
<1>3. table \union {[id |-> ids2[f], fetch |-> f]} =
          {[id |-> ids2[g], fetch |-> g] : g \in busy \union {f}}
  BY DEF Coherent, SameOn
<1>4. table \union {[id |-> ids2[f], fetch |-> f]} = {Entry(r) : r \in wire \union {new}}
  BY <1>2 DEF Coherent
<1>5. \A r, s \in wire \union {new} : r.fetch = s.fetch => r = s
  BY <1>1, <1>2 DEF Coherent
<1>6. \A r \in wire : 
          /\ r.target = pend2[r.fetch]
          /\ r.fetch \in served /\ r.answer = "accepted" =>
                relay_priority[r.fetch] = pend2[r.fetch].priority
          /\ r.fetch \in served /\ r.answer # "accepted" =>
                relay_priority[r.fetch] = app[r.fetch].priority
          /\ r.answer = "accepted" => r.fetch \in served
  BY <1>1 DEF Coherent, SameOn
<1>7. /\ new.target = pend2[new.fetch]
      /\ new.fetch \in served => relay_priority[new.fetch] = app[new.fetch].priority
  BY <1>2 DEF Coherent
<1>8. \A g \in served \ (busy \union {f}) : relay_priority[g] = app[g].priority
  BY DEF Coherent
<1>9. QED
  BY <1>2, <1>3, <1>4, <1>5, <1>6, <1>7, <1>8 DEF Coherent

\* The two outcomes of send_next_update for the tables: nothing, or one update
\* sent.
Skips(busy, table) ==
    /\ update_pending' = busy /\ updates' = table
    /\ UNCHANGED <<pending, update_id>>
    /\ next_id' \in Nat /\ next_id' >= next_id
    /\ Sent = {}

Sends(f, d, busy, table) ==
    /\ connection = "up" /\ f \notin busy
    /\ update_pending' = busy \union {f}
    /\ update_id' = [update_id EXCEPT ![f] = next_id]
    /\ pending' = [pending EXCEPT ![f] = d]
    /\ updates' = table \union {[id |-> next_id, fetch |-> f]}
    /\ next_id' = next_id + 1
    /\ Sent = {[id |-> next_id, fetch |-> f, target |-> d, answer |-> "none"]}

\* What send_next_update does to one fetch, whether the request could be sent
\* or not: at most one more request, by a fetch that was not busy.
LEMMA SendEffect ==
    ASSUME IInv, NEW f \in Fetches, NEW d \in AnyTarget, NEW a \in AnyTarget,
           NEW busy, NEW table \in SUBSET updates, NEW log,
           SendNextUpdate(f, d, a, busy, table, log)
    PROVE  /\ failures' \in 0..MaxFailures
           /\ Skips(busy, table) \/ Sends(f, d, busy, table)
<1>1. next_id \in Nat /\ failures \in 0..MaxFailures /\ pending \in [Fetches -> AnyTarget]
  BY DEF IInv, TypeOK
<1>2. CASE ~NeedsUpdate(f, d, a, busy)
  <2>1. update_pending' = busy /\ updates' = table
        /\ UNCHANGED <<pending, update_id, next_id, failures>>
    BY <1>2 DEF SendNextUpdate
  <2>2. Sent = {}
    BY <2>1 DEF Sent
  <2>3. QED
    BY <1>1, <2>1, <2>2 DEF Skips
<1>3. CASE /\ NeedsUpdate(f, d, a, busy)
           /\ update_id' = [update_id EXCEPT ![f] = next_id]
           /\ pending' = [pending EXCEPT ![f] = d]
           /\ update_pending' = busy \union {f}
           /\ updates' = Table(next_id, f, table)
           /\ next_id' = next_id + 1
           /\ UNCHANGED failures
  <2>1. updates' = table \union {[id |-> next_id, fetch |-> f]}
    BY <1>3 DEF Table
  <2>2. [id |-> next_id, fetch |-> f] \notin updates
    <3>1. \A u \in updates : u.id < next_id
      BY DEF IInv, FreshIds
    <3>2. [id |-> next_id, fetch |-> f].id = next_id /\ ~(next_id < next_id)
      BY <1>1
    <3>3. QED
      BY <3>1, <3>2
  <2>3. updates' \ updates = {[id |-> next_id, fetch |-> f]}
    BY <2>1, <2>2
  <2>4. pending'[f] = d
    BY <1>1, <1>3
  <2>5. Sent = {[id |-> next_id, fetch |-> f, target |-> d, answer |-> "none"]}
    <3> DEFINE u == [id |-> next_id, fetch |-> f]
    <3>1. u.id = next_id /\ u.fetch = f
      OBVIOUS
    <3>2. Sent = {[id |-> v.id, fetch |-> v.fetch, target |-> pending'[v.fetch],
                   answer |-> "none"] : v \in {u}}
      BY <2>3 DEF Sent
    <3>3. Sent = {[id |-> u.id, fetch |-> u.fetch, target |-> pending'[u.fetch],
                   answer |-> "none"]}
      <4> HIDE DEF u
      <4>1. QED
        BY <3>2
    <3>4. QED
      BY <2>4, <3>1, <3>3
  <2>6. QED
    BY <1>1, <1>3, <2>1, <2>5 DEF NeedsUpdate, Sends
<1>4. CASE /\ NeedsUpdate(f, d, a, busy)
           /\ failures < MaxFailures
           /\ failures' = failures + 1
           /\ update_pending' = busy
           /\ updates' = table
           /\ next_id' = next_id + 1
           /\ UNCHANGED <<pending, update_id>>
  <2>1. failures' \in 0..MaxFailures
    BY <1>1, <1>4, BoundsAssumption
  <2>2. Sent = {}
    BY <1>4 DEF Sent
  <2>3. next_id' \in Nat /\ next_id' >= next_id
    BY <1>1, <1>4
  <2>4. QED
    BY <1>4, <2>1, <2>2, <2>3 DEF Skips
<1>5. QED
  BY <1>2, <1>3, <1>4 DEF SendNextUpdate

\* A step of main or of a callback that ends in a coherent state.
LEMMA CoherentStep ==
    ASSUME IInv, TypeOK', OpenNeedsConnection', OpenItemsFresh',
           connection = "up", UNCHANGED <<connection, relayVars>>,
           next_id' >= next_id,
           \A u \in updates' : u \in updates \/ (u.id = next_id /\ next_id' = next_id + 1),
           \A r \in requests' : r \in requests \/ (r.id = next_id /\ next_id' = next_id + 1),
           Coherent(update_pending', update_id', updates', pending', requests', applied')
    PROVE  IInv'
<1>1. next_id \in Nat /\ next_id' \in Nat
  BY DEF IInv, TypeOK
<1>2. \A u \in updates : u.id \in Nat /\ u.id < next_id
  BY DEF IInv, TypeOK, FreshIds
<1>3. \A r \in requests : r.id \in Nat /\ r.id < next_id
  BY DEF IInv, TypeOK, FreshIds
<1>4. FreshIds'
  BY <1>1, <1>2, <1>3 DEF FreshIds
<1>5. TableMatches' /\ OneUpdateInFlight' /\ Matched'
  BY DEF Coherent, TableMatches, OneUpdateInFlight, Matched, relayVars, Entry
<1>6. WireNeedsConnection'
  BY DEF WireNeedsConnection
<1>7. QED
  BY <1>4, <1>5, <1>6 DEF IInv

Request == [id : Nat, fetch : Fetches, target : AnyTarget,
            answer : {"none", "accepted", "rejected"}]

\* What send_next_update writes is well typed.
LEMMA SendTyped ==
    ASSUME IInv, NEW f \in opened, NEW d \in AnyTarget, NEW a \in AnyTarget,
           NEW busy \in SUBSET update_pending, NEW table \in SUBSET updates, NEW log,
           SendNextUpdate(f, d, a, busy, table, log)
    PROVE  /\ pending' \in [Fetches -> AnyTarget]
           /\ update_id' \in [Fetches -> Nat]
           /\ update_pending' \subseteq opened
           /\ updates' \subseteq [id : Nat, fetch : Fetches]
           /\ next_id' \in Nat /\ next_id' >= next_id
           /\ failures' \in 0..MaxFailures
           /\ Sent \subseteq Request
           /\ \A u \in updates' : u \in updates \/ (u.id = next_id /\ next_id' = next_id + 1)
           /\ \A r \in Sent : r.id = next_id /\ next_id' = next_id + 1
<1>1. /\ f \in Fetches /\ next_id \in Nat /\ update_pending \subseteq opened
      /\ updates \subseteq [id : Nat, fetch : Fetches]
      /\ pending \in [Fetches -> AnyTarget] /\ update_id \in [Fetches -> Nat]
  BY DEF IInv, TypeOK
<1>2. failures' \in 0..MaxFailures
  BY <1>1, SendEffect
<1>3. CASE Skips(busy, table)
  BY <1>1, <1>2, <1>3 DEF Skips
<1>4. CASE Sends(f, d, busy, table)
  <2>1. next_id' \in Nat /\ next_id' >= next_id /\ next_id' = next_id + 1
    BY <1>1, <1>4 DEF Sends
  <2>2. pending' \in [Fetches -> AnyTarget] /\ update_id' \in [Fetches -> Nat]
    BY <1>1, <1>4 DEF Sends
  <2>3. Sent \subseteq Request /\ \A r \in Sent : r.id = next_id
    BY <1>1, <1>4 DEF Request, Sends
  <2>4. update_pending' \subseteq opened
    BY <1>1, <1>4 DEF Sends
  <2>5. /\ updates' \subseteq [id : Nat, fetch : Fetches]
        /\ \A u \in updates' : u \in updates \/ u.id = next_id
    BY <1>1, <1>4 DEF Sends
  <2>6. QED
    BY <1>2, <2>1, <2>2, <2>3, <2>4, <2>5
<1>5. QED
  BY <1>1, <1>3, <1>4, SendEffect

\* handle_priorities: a new target goes out at once only for an idle fetch.
LEMMA SetPriorityPreserves ==
    ASSUME IInv, SetPriority
    PROVE  IInv'
<1> DEFINE f == Head(items).fetch
           target == [priority |-> Head(items).priority, epoch |-> epoch]
           log == IF f \in update_pending
                  THEN Append(out, Event("priority-superseded", f, update_id[f], target))
                  ELSE out
<1>1. /\ NextItem /\ main = "items"
      /\ UNCHANGED <<connection, stopping, epoch, opened, applied, complete, objects,
                     relayVars>>
  BY DEF SetPriority, NextItem
<1>2. f \in Fetches /\ target \in AnyTarget /\ applied[f] \in AnyTarget
  BY <1>1, NextItemTyped DEF IInv, TypeOK, Item, AnyTarget, Targets
<1>3. OpenNeedsConnection' /\ OpenItemsFresh'
  <2>1. connection = "none" => updates' = {}
    <3>1. CASE UNCHANGED updateVars
      BY <3>1 DEF IInv, OpenNeedsConnection, updateVars
    <3>2. CASE SendNextUpdate(f, target, applied[f], update_pending, updates, log)
      <4>1. Skips(update_pending, updates) \/ Sends(f, target, update_pending, updates)
        <5> HIDE DEF f, target, log
        <5>1. QED
          BY <1>2, <3>2, SendEffect
      <4>2. QED
        BY <4>1 DEF IInv, OpenNeedsConnection, Skips, Sends
    <3>3. QED
      BY <3>1, <3>2 DEF SetPriority
  <2>2. QED
    BY <1>1, <2>1, ItemsKept DEF IInv, OpenNeedsConnection, relayVars
<1>4. /\ items' \in Seq(Item) /\ main' \in {"loop", "items", "draining"}
      /\ main' = "items" <=> items' # <<>>
  BY <1>1, NextItemTyped
<1>5. CASE UNCHANGED <<desired, updateVars, failures>>
  <2>1. TypeOK'
    BY <1>1, <1>4, <1>5 DEF IInv, TypeOK, Item, updateVars, relayVars
  <2>2. next_id' >= next_id
    BY <1>5 DEF IInv, TypeOK, updateVars
  <2>3. QED
    BY <1>1, <1>3, <1>5, <2>1, <2>2, QuietStep DEF WireVars, updateVars, relayVars
<1>6. CASE /\ Known(f)
           /\ desired' = [desired EXCEPT ![f] = target]
           /\ SendNextUpdate(f, target, applied[f], update_pending, updates, log)
           /\ requests' = requests \union Sent
  <2>1. f \in opened
    BY <1>6 DEF Known
  <2>2. /\ pending' \in [Fetches -> AnyTarget]
        /\ update_id' \in [Fetches -> Nat]
        /\ update_pending' \subseteq opened
        /\ updates' \subseteq [id : Nat, fetch : Fetches]
        /\ next_id' \in Nat /\ next_id' >= next_id
        /\ failures' \in 0..MaxFailures
        /\ Sent \subseteq Request
        /\ \A u \in updates' : u \in updates \/ (u.id = next_id /\ next_id' = next_id + 1)
        /\ \A r \in Sent : r.id = next_id /\ next_id' = next_id + 1
    BY <1>2, <1>6, <2>1, SendTyped
  <2>3. desired' \in [Fetches -> AnyTarget]
    BY <1>2, <1>6 DEF IInv, TypeOK
  <2>4. TypeOK'
    <3>1. requests' \subseteq Request
      BY <1>6, <2>2 DEF IInv, TypeOK, Request
    <3>2. QED
      BY <1>1, <1>4, <2>2, <2>3, <3>1 DEF IInv, TypeOK, Item, Request, relayVars
  <2>5. CASE Skips(update_pending, updates)
    BY <1>1, <1>3, <1>6, <2>2, <2>4, <2>5, QuietStep DEF WireVars, relayVars, Skips
  <2>6. CASE Sends(f, target, update_pending, updates)
    <3>1. Coherent(update_pending, update_id, updates, pending, requests, applied)
      BY <1>1, <2>6, CoherentNow DEF IInv, Closed, Sends
    <3>2. /\ update_id'[f] = next_id /\ pending'[f] = target /\ f \notin update_pending
          /\ SameOn(update_pending, update_id, update_id')
          /\ SameOn(update_pending, pending, pending')
      BY <1>2, <2>6 DEF IInv, TypeOK, Sends, SameOn
    <3> HIDE DEF f, target, log
    <3>3. Coherent(update_pending \union {f}, update_id',
                   updates \union {[id |-> update_id'[f], fetch |-> f]}, pending',
                   requests \union {[id |-> update_id'[f], fetch |-> f, target |-> pending'[f],
                                     answer |-> "none"]}, applied)
      BY <3>1, <3>2, SendCoherent
    <3>4. Coherent(update_pending', update_id', updates', pending', requests', applied')
      BY <1>1, <1>6, <2>6, <3>2, <3>3 DEF Sends
    <3>5. \A r \in requests' : r \in requests \/ (r.id = next_id /\ next_id' = next_id + 1)
      BY <1>6, <2>2
    <3>6. connection = "up"
      BY <2>6 DEF Sends
    <3>7. QED
      BY <1>1, <1>3, <2>2, <2>4, <3>4, <3>5, <3>6, CoherentStep
  <2>7. Skips(update_pending, updates) \/ Sends(f, target, update_pending, updates)
    <3>1. SendNextUpdate(f, target, applied[f], update_pending, updates, log)
      BY <1>6
    <3> HIDE DEF f, target, log
    <3>2. QED
      BY <1>2, <3>1, SendEffect
  <2>8. QED
    BY <2>5, <2>6, <2>7
<1>7. QED
  BY <1>5, <1>6 DEF SetPriority

\* update_accepted: the answered fetch is idle, agrees with the relay, and may
\* send its next target.
LEMMA UpdateAcceptedPreserves ==
    ASSUME IInv, NEW r \in requests, UpdateAccepted(r)
    PROVE  IInv'
<1> DEFINE f == r.fetch
           log == Append(out, Event("priority-accepted", f, r.id, AppliedBy(f)))
<1>1. /\ r.answer = "accepted" /\ main # "items"
      /\ UNCHANGED <<connection, stopping, main, items, epoch, opened, desired, complete,
                     objects, relayVars>>
  BY DEF UpdateAccepted, CallbackMayRun
<1>2. r \in Request /\ f \in Fetches /\ connection = "up"
  BY DEF IInv, TypeOK, Request, WireNeedsConnection
<1>3. Entry(r) = [id |-> r.id, fetch |-> f]
  BY DEF Entry
<1>4. OpenNeedsConnection' /\ OpenItemsFresh'
  BY <1>1, <1>2 DEF IInv, OpenNeedsConnection, OpenItemsFresh
<1>5. CASE /\ Entry(r) \in updates
           /\ applied' = [applied EXCEPT ![f] = AppliedBy(f)]
           /\ SendNextUpdate(f, Wanted(f), AppliedBy(f), update_pending \ {f},
                             updates \ {Entry(r)}, log)
           /\ requests' = (requests \ {r}) \union Sent
  <2>1. Matched
    BY <1>2, <1>5 DEF IInv, Closed
  <2>2. Coherent(update_pending, update_id, updates, pending, requests, applied)
    BY <1>2, <2>1, CoherentNow
  <2>3. AppliedBy(f) = pending[f] /\ pending[f] \in AnyTarget
        /\ Wanted(f) = desired[f] /\ desired[f] \in AnyTarget
    BY <1>2 DEF IInv, TypeOK, AppliedBy, Wanted
  <2>4. applied' \in [Fetches -> AnyTarget] /\ applied'[f] = pending[f]
        /\ \A g \in served : g # f => applied'[g] = applied[g]
    BY <1>2, <1>5, <2>3 DEF IInv, TypeOK
  <2>5. f \in served /\ relay_priority[f] = pending[f].priority
    BY <1>1, <2>1 DEF Matched
  <2>6. Coherent(update_pending \ {f}, update_id, updates \ {Entry(r)}, pending,
                 requests \ {r}, applied')
    BY <2>2, <2>4, <2>5, ResolveCoherent
  <2>7. f \in opened
    BY <1>2, <2>1, OnTheWire
  <2>8. /\ pending' \in [Fetches -> AnyTarget]
        /\ update_id' \in [Fetches -> Nat]
        /\ update_pending' \subseteq opened
        /\ updates' \subseteq [id : Nat, fetch : Fetches]
        /\ next_id' \in Nat /\ next_id' >= next_id
        /\ failures' \in 0..MaxFailures
        /\ Sent \subseteq Request
        /\ \A u \in updates' : u \in updates \/ (u.id = next_id /\ next_id' = next_id + 1)
        /\ \A s \in Sent : s.id = next_id /\ next_id' = next_id + 1
    BY <1>5, <2>3, <2>7, SendTyped
  <2>9. TypeOK'
    <3>1. requests' \subseteq Request
      BY <1>5, <2>8 DEF IInv, TypeOK, Request
    <3>2. QED
      BY <1>1, <2>4, <2>8, <3>1 DEF IInv, TypeOK, Request, relayVars
  <2>10. \A s \in requests' : s \in requests \/ (s.id = next_id /\ next_id' = next_id + 1)
    BY <1>5, <2>8
  <2>11. Coherent(update_pending', update_id', updates', pending', requests', applied')
    <3>1. CASE Skips(update_pending \ {f}, updates \ {Entry(r)})
      <4>1. requests' = requests \ {r}
        BY <1>5, <3>1 DEF Skips
      <4>2. QED
        BY <2>6, <3>1, <4>1 DEF Skips
    <3>2. CASE Sends(f, Wanted(f), update_pending \ {f}, updates \ {Entry(r)})
      <4>1. /\ update_id'[f] = next_id /\ pending'[f] = Wanted(f)
            /\ SameOn(update_pending \ {f}, update_id, update_id')
            /\ SameOn(update_pending \ {f}, pending, pending')
        BY <1>2, <3>2 DEF IInv, TypeOK, Sends, SameOn
      <4> HIDE DEF f, log
      <4>2. f \notin update_pending \ {f}
        OBVIOUS
      <4>3. Coherent((update_pending \ {f}) \union {f}, update_id',
                (updates \ {Entry(r)}) \union {[id |-> update_id'[f], fetch |-> f]}, pending',
                (requests \ {r}) \union {[id |-> update_id'[f], fetch |-> f,
                    target |-> pending'[f], answer |-> "none"]}, applied')
        BY <2>6, <4>1, <4>2, SendCoherent
      <4>4. QED
        BY <1>5, <3>2, <4>1, <4>3 DEF Sends
    <3>3. \/ Skips(update_pending \ {f}, updates \ {Entry(r)})
          \/ Sends(f, Wanted(f), update_pending \ {f}, updates \ {Entry(r)})
      <4>1. SendNextUpdate(f, Wanted(f), AppliedBy(f), update_pending \ {f},
                           updates \ {Entry(r)}, log)
        BY <1>5
      <4>2. Wanted(f) \in AnyTarget /\ AppliedBy(f) \in AnyTarget /\ f \in Fetches
            /\ updates \ {Entry(r)} \in SUBSET updates
        BY <1>2, <2>3
      <4> HIDE DEF f, log
      <4>3. QED
        BY <4>1, <4>2, SendEffect
    <3>4. QED
      BY <3>1, <3>2, <3>3
  <2>12. QED
    BY <1>1, <1>2, <1>4, <2>8, <2>9, <2>10, <2>11, CoherentStep
<1>6. CASE /\ Entry(r) \notin updates
           /\ requests' = requests \ {r}
           /\ UNCHANGED <<applied, pending, update_id, update_pending, updates, next_id,
                          failures>>
  <2>1. Closed
    BY <1>2, <1>6 DEF IInv, Matched
  <2>2. TypeOK'
    BY <1>1, <1>6 DEF IInv, TypeOK, relayVars
  <2>3. TableMatches' /\ OneUpdateInFlight' /\ FreshIds' /\ WireNeedsConnection'
    BY <1>1, <1>6 DEF IInv, TableMatches, OneUpdateInFlight, FreshIds, WireNeedsConnection
  <2>4. Closed'
    BY <1>1, <1>6, <2>1 DEF Closed
  <2>5. QED
    BY <1>4, <2>2, <2>3, <2>4 DEF IInv
<1>7. QED
  BY <1>3, <1>5, <1>6 DEF UpdateAccepted

\* update_error: the answered fetch is idle and keeps its applied target.
LEMMA UpdateErrorPreserves ==
    ASSUME IInv, NEW r \in requests, UpdateError(r)
    PROVE  IInv'
<1> DEFINE f == r.fetch
<1>1. /\ r.answer = "rejected" /\ main # "items"
      /\ requests' = requests \ {r}
      /\ UNCHANGED <<connection, stopping, main, items, epoch, fetchVars, pending,
                     update_id, next_id, relayVars, failures>>
  BY DEF UpdateError, CallbackMayRun
<1>2. f \in Fetches /\ connection = "up"
  BY DEF IInv, TypeOK, WireNeedsConnection
<1>3. Entry(r) = [id |-> r.id, fetch |-> f]
  BY DEF Entry
<1>4. OpenNeedsConnection' /\ OpenItemsFresh'
  BY <1>1, <1>2 DEF IInv, OpenNeedsConnection, OpenItemsFresh, fetchVars
<1>5. CASE /\ Entry(r) \in updates
           /\ updates' = updates \ {Entry(r)}
           /\ update_pending' = update_pending \ {f}
  <2>1. Matched
    BY <1>2, <1>5 DEF IInv, Closed
  <2>2. Coherent(update_pending, update_id, updates, pending, requests, applied)
    BY <1>2, <2>1, CoherentNow
  <2>3. f \in served => relay_priority[f] = applied[f].priority
    BY <1>1, <2>1 DEF Matched
  <2>4. Coherent(update_pending', update_id', updates', pending', requests', applied')
    BY <1>1, <1>5, <2>2, <2>3, ResolveCoherent DEF fetchVars
  <2>5. TypeOK'
    BY <1>1, <1>5 DEF IInv, TypeOK, fetchVars, relayVars
  <2>6. next_id' >= next_id
    BY <1>1 DEF IInv, TypeOK
  <2>7. QED
    BY <1>1, <1>2, <1>4, <1>5, <2>4, <2>5, <2>6, CoherentStep
<1>6. CASE /\ Entry(r) \notin updates
           /\ UNCHANGED <<updates, update_pending>>
  <2>1. Closed
    BY <1>2, <1>6 DEF IInv, Matched
  <2>2. TypeOK'
    BY <1>1, <1>6 DEF IInv, TypeOK, fetchVars, relayVars
  <2>3. TableMatches' /\ OneUpdateInFlight' /\ FreshIds' /\ WireNeedsConnection'
    BY <1>1, <1>6 DEF IInv, TableMatches, OneUpdateInFlight, FreshIds, WireNeedsConnection
  <2>4. Closed'
    BY <1>1, <1>6, <2>1 DEF Closed
  <2>5. QED
    BY <1>4, <2>2, <2>3, <2>4 DEF IInv
<1>7. QED
  BY <1>3, <1>5, <1>6 DEF UpdateError

-----------------------------------------------------------------------------
(* Closing and losing the connection.                                      *)

\* handle_close forgets the updates in flight.
LEMMA HandleClosePreserves ==
    ASSUME IInv, HandleClose
    PROVE  IInv'
<1>1. /\ main = "closing" /\ main' = "draining"
      /\ update_pending' = {} /\ updates' = {}
      /\ UNCHANGED <<connection, stopping, items, epoch, fetchVars, pending, update_id,
                     next_id, requests, relayVars, failures>>
  BY DEF HandleClose, Forgotten
<1>2. TypeOK'
  BY <1>1 DEF IInv, TypeOK, fetchVars, relayVars
<1>3. TableMatches' /\ OneUpdateInFlight' /\ FreshIds' /\ WireNeedsConnection' /\ Closed'
  BY <1>1 DEF IInv, TableMatches, OneUpdateInFlight, FreshIds, WireNeedsConnection, Closed
<1>4. OpenNeedsConnection' /\ OpenItemsFresh'
  BY <1>1 DEF IInv, OpenNeedsConnection, OpenItemsFresh, fetchVars, relayVars
<1>5. QED
  BY <1>2, <1>3, <1>4 DEF IInv

\* ready only records the connection.
LEMMA ReadyPreserves ==
    ASSUME IInv, Ready
    PROVE  IInv'
<1>1. /\ connection = "none" /\ connection' = "up"
      /\ UNCHANGED <<stopping, main, items, epoch, fetchVars, updateVars, relayVars, failures>>
  BY DEF Ready
<1>2. served = {} /\ updates = {} /\ requests = {}
  BY <1>1 DEF IInv, OpenNeedsConnection, WireNeedsConnection
<1>3. TypeOK'
  BY <1>1 DEF IInv, TypeOK, fetchVars, updateVars, relayVars
<1>4. TableMatches' /\ OneUpdateInFlight' /\ FreshIds' /\ WireNeedsConnection'
  BY <1>1 DEF IInv, TableMatches, OneUpdateInFlight, FreshIds, WireNeedsConnection, updateVars
<1>5. OpenNeedsConnection' /\ OpenItemsFresh'
  BY <1>1 DEF IInv, OpenNeedsConnection, OpenItemsFresh, fetchVars
<1>6. Matched'
  BY <1>1, <1>2 DEF Matched, updateVars, relayVars
<1>7. QED
  BY <1>3, <1>4, <1>5, <1>6 DEF IInv

\* gone ends every claim the invariant makes of the relay.
LEMMA GonePreserves ==
    ASSUME IInv, Gone
    PROVE  IInv'
<1>1. /\ connection = "up" /\ connection' = "gone" /\ main # "items" /\ requests' = {}
      /\ UNCHANGED <<stopping, main, items, epoch, fetchVars, pending, update_id,
                     update_pending, updates, next_id, relayVars, failures>>
  BY DEF Gone, CallbackMayRun
<1>2. TypeOK'
  BY <1>1 DEF IInv, TypeOK, fetchVars, relayVars
<1>3. TableMatches' /\ OneUpdateInFlight' /\ FreshIds' /\ WireNeedsConnection'
  BY <1>1 DEF IInv, TableMatches, OneUpdateInFlight, FreshIds, WireNeedsConnection
<1>4. items = <<>>
  BY <1>1 DEF IInv, TypeOK
<1>5. OpenNeedsConnection' /\ OpenItemsFresh'
  BY <1>1, <1>4 DEF OpenNeedsConnection, OpenItemsFresh
<1>6. QED
  BY <1>1, <1>2, <1>3, <1>5 DEF IInv

-----------------------------------------------------------------------------
(* The relay's answers.                                                    *)

\* The relay's acceptance moves a request to an answer with the same id.
LEMMA RelayAcceptsPreserves ==
    ASSUME IInv, NEW r \in requests, RelayAccepts(r)
    PROVE  IInv'
<1> DEFINE new == [r EXCEPT !.answer = "accepted"]
<1>1. /\ r.answer = "none" /\ r.fetch \in served
      /\ requests' = (requests \ {r}) \union {new}
      /\ relay_priority' = [relay_priority EXCEPT ![r.fetch] = r.target.priority]
      /\ UNCHANGED <<connection, stopping, main, items, epoch, fetchVars, pending, update_id,
                     update_pending, updates, next_id, served, failures>>
  BY DEF RelayAccepts
<1>2. r \in Request /\ connection = "up"
  BY DEF IInv, TypeOK, Request, WireNeedsConnection
<1>3. /\ new \in Request /\ new.id = r.id /\ new.fetch = r.fetch /\ new.target = r.target
      /\ new.answer = "accepted" /\ Entry(new) = Entry(r)
  BY <1>2 DEF Request, Entry
<1>4. r.target.priority \in Priorities \union {0} /\ r.fetch \in Fetches
  BY <1>2 DEF Request, AnyTarget, Targets, Unset
<1> HIDE DEF new
<1>5. TypeOK'
  <2>1. requests' \subseteq Request
    BY <1>1, <1>3 DEF IInv, TypeOK, Request
  <2>2. relay_priority' \in [Fetches -> Priorities \union {0}]
    BY <1>1, <1>4 DEF IInv, TypeOK
  <2>3. QED
    BY <1>1, <2>1, <2>2 DEF IInv, TypeOK, Request, fetchVars
<1>6. OneUpdateInFlight' /\ TableMatches' /\ FreshIds' /\ WireNeedsConnection'
  BY <1>1, <1>2, <1>3 DEF IInv, OneUpdateInFlight, TableMatches, FreshIds, WireNeedsConnection
<1>7. OpenNeedsConnection' /\ OpenItemsFresh'
  BY <1>1, <1>2 DEF IInv, OpenNeedsConnection, OpenItemsFresh, fetchVars
<1>8. ASSUME Matched PROVE Matched'
  <2>1. /\ r.fetch \in update_pending /\ r.target = pending[r.fetch]
        /\ \A s \in requests \ {r} : s.fetch # r.fetch /\ s.fetch \in Fetches
    BY <1>2, <1>8, OnTheWire DEF IInv, OneUpdateInFlight, Matched
  <2>2. relay_priority'[r.fetch] = pending[r.fetch].priority
        /\ \A g \in Fetches \ {r.fetch} : relay_priority'[g] = relay_priority[g]
    BY <1>1, <1>4, <2>1 DEF IInv, TypeOK
  <2>3. updates' = {Entry(s) : s \in requests'}
    BY <1>1, <1>3, <1>8 DEF Matched
  <2>4. ASSUME NEW s \in requests'
        PROVE  /\ s.target = pending'[s.fetch]
               /\ s.fetch \in served' /\ s.answer = "accepted" =>
                     relay_priority'[s.fetch] = pending'[s.fetch].priority
               /\ s.fetch \in served' /\ s.answer # "accepted" =>
                     relay_priority'[s.fetch] = applied'[s.fetch].priority
               /\ s.answer = "accepted" => s.fetch \in served'
    <3>1. CASE s = new
      BY <1>1, <1>3, <2>1, <2>2, <3>1
    <3>2. CASE s \in requests \ {r}
      BY <1>1, <1>8, <2>1, <2>2, <3>2 DEF Matched, fetchVars
    <3>3. QED
      BY <1>1, <3>1, <3>2
  <2>5. \A g \in served' \ update_pending' : relay_priority'[g] = applied'[g].priority
    BY <1>1, <1>8, <2>1, <2>2 DEF Matched, IInv, TypeOK, fetchVars
  <2>6. QED
    BY <2>3, <2>4, <2>5 DEF Matched
<1>9. Closed => Closed'
  BY <1>1 DEF Closed
<1>10. QED
  BY <1>2, <1>5, <1>6, <1>7, <1>8, <1>9 DEF IInv

\* So does its rejection, which leaves its own target alone.
LEMMA RelayRejectsPreserves ==
    ASSUME IInv, NEW r \in requests, RelayRejects(r)
    PROVE  IInv'
<1> DEFINE new == [r EXCEPT !.answer = "rejected"]
<1>1. /\ r.answer = "none"
      /\ requests' = (requests \ {r}) \union {new}
      /\ UNCHANGED <<connection, stopping, main, items, epoch, fetchVars, pending, update_id,
                     update_pending, updates, next_id, relayVars>>
      /\ failures' \in 0..MaxFailures
  BY BoundsAssumption DEF RelayRejects, IInv, TypeOK
<1>2. r \in Request /\ connection = "up"
  BY DEF IInv, TypeOK, Request, WireNeedsConnection
<1>3. /\ new \in Request /\ new.id = r.id /\ new.fetch = r.fetch /\ new.target = r.target
      /\ new.answer = "rejected" /\ Entry(new) = Entry(r)
  BY <1>2 DEF Request, Entry
<1> HIDE DEF new
<1>4. TypeOK'
  <2>1. requests' \subseteq Request
    BY <1>1, <1>3 DEF IInv, TypeOK, Request
  <2>2. QED
    BY <1>1, <2>1 DEF IInv, TypeOK, Request, fetchVars, relayVars
<1>5. OneUpdateInFlight' /\ TableMatches' /\ FreshIds' /\ WireNeedsConnection'
  BY <1>1, <1>2, <1>3 DEF IInv, OneUpdateInFlight, TableMatches, FreshIds, WireNeedsConnection
<1>6. OpenNeedsConnection' /\ OpenItemsFresh'
  BY <1>1, <1>2 DEF IInv, OpenNeedsConnection, OpenItemsFresh, fetchVars
<1>7. ASSUME Matched PROVE Matched'
  <2>1. updates' = {Entry(s) : s \in requests'}
    BY <1>1, <1>3, <1>7 DEF Matched
  <2>2. ASSUME NEW s \in requests'
        PROVE  /\ s.target = pending'[s.fetch]
               /\ s.fetch \in served' /\ s.answer = "accepted" =>
                     relay_priority'[s.fetch] = pending'[s.fetch].priority
               /\ s.fetch \in served' /\ s.answer # "accepted" =>
                     relay_priority'[s.fetch] = applied'[s.fetch].priority
               /\ s.answer = "accepted" => s.fetch \in served'
    <3>1. CASE s = new
      BY <1>1, <1>3, <1>7, <3>1 DEF Matched, fetchVars, relayVars
    <3>2. CASE s \in requests \ {r}
      BY <1>1, <1>7, <3>2 DEF Matched, fetchVars, relayVars
    <3>3. QED
      BY <1>1, <3>1, <3>2
  <2>3. \A g \in served' \ update_pending' : relay_priority'[g] = applied'[g].priority
    BY <1>1, <1>7 DEF Matched, fetchVars, relayVars
  <2>4. QED
    BY <2>1, <2>2, <2>3 DEF Matched
<1>8. Closed => Closed'
  BY <1>1 DEF Closed
<1>9. QED
  BY <1>2, <1>4, <1>5, <1>6, <1>7, <1>8 DEF IInv

-----------------------------------------------------------------------------
(* The other steps leave the tables, the wire and the priorities alone.    *)

\* The steps of the objects, of the end of input and of the shutdown.
LEMMA OtherStepsPreserve ==
    ASSUME IInv,
           \/ ReadClose \/ EndOfInput \/ Stop \/ Deinit \/ WriteObject \/ WriteComplete
           \/ \E f \in Fetches, o \in Objects : IncomingObject(f, o)
    PROVE  IInv'
<1>1. /\ UNCHANGED <<connection, items, epoch, opened, applied, desired, updateVars,
                     relayVars, failures>>
      /\ stopping' \in BOOLEAN
      /\ main' = main \/ (main = "loop" /\ main' \in {"closing", "draining"})
                      \/ (main = "draining" /\ main' = "ended")
  BY DEF ReadClose, EndOfInput, Stop, Deinit, WriteObject, WriteComplete, IncomingObject,
         IInv, TypeOK, fetchVars
<1>2. objects' \in [Fetches -> SUBSET Objects] /\ complete' \subseteq served
  <2>1. CASE UNCHANGED <<objects, complete>>
    BY <2>1 DEF IInv, TypeOK
  <2>2. ASSUME NEW f \in Fetches, NEW o \in Objects, IncomingObject(f, o)
        PROVE  objects' \in [Fetches -> SUBSET Objects] /\ complete' \subseteq served
    <3>1. /\ objects' = [objects EXCEPT ![f] = @ \union {o}] /\ f \in served
          /\ complete' \subseteq complete \union {f}
      BY <2>2 DEF IncomingObject, Recorded
    <3>2. objects[f] \union {o} \in SUBSET Objects
      BY DEF IInv, TypeOK
    <3>3. QED
      BY <3>1, <3>2 DEF IInv, TypeOK
  <2>3. QED
    BY <2>1, <2>2 DEF ReadClose, EndOfInput, Stop, Deinit, WriteObject, WriteComplete, fetchVars
<1>3. main' \in {"loop", "items", "closing", "draining", "ended"} /\ (main' = "items" <=> main = "items")
  BY <1>1 DEF IInv, TypeOK
<1>4. TypeOK'
  BY <1>1, <1>2, <1>3 DEF IInv, TypeOK, updateVars, relayVars
<1>5. OpenNeedsConnection' /\ OpenItemsFresh'
  BY <1>1 DEF IInv, OpenNeedsConnection, OpenItemsFresh, updateVars, relayVars
<1>6. next_id' >= next_id
  BY <1>1 DEF IInv, TypeOK, updateVars
<1>7. QED
  BY <1>1, <1>4, <1>5, <1>6, QuietStep DEF WireVars, updateVars, relayVars

\* A step that changes nothing preserves the invariant.
LEMMA StutterPreserves ==
    ASSUME IInv, UNCHANGED vars
    PROVE  IInv'
  BY DEF IInv, vars, fetchVars, updateVars, relayVars, TypeOK, TableMatches, OneUpdateInFlight,
         FreshIds, WireNeedsConnection, OpenNeedsConnection, OpenItemsFresh, Matched, Closed

\* Every step preserves the invariant, one case per action.
LEMMA NextPreserves ==
    ASSUME IInv, [Next]_vars
    PROVE  IInv'
<1>1. CASE Commands
  BY <1>1, ReadCommandPreserves, OpenPreserves, SetPriorityPreserves DEF Commands
<1>2. CASE Leaving
  BY <1>2, HandleClosePreserves, OtherStepsPreserve DEF Leaving
<1>3. CASE Ready \/ Gone
  BY <1>3, ReadyPreserves, GonePreserves
<1>4. CASE Answers
  BY <1>4, UpdateAcceptedPreserves, UpdateErrorPreserves DEF Answers
<1>5. CASE Deliveries
  BY <1>5, OtherStepsPreserve DEF Deliveries
<1>6. CASE Relay
  BY <1>6, RelayAcceptsPreserves, RelayRejectsPreserves DEF Relay
<1>7. CASE Ended \/ UNCHANGED vars
  BY <1>7, StutterPreserves DEF Ended
<1>8. QED
  BY <1>1, <1>2, <1>3, <1>4, <1>5, <1>6, <1>7 DEF Next

-----------------------------------------------------------------------------

\* The inductive invariant holds of every behaviour, whatever the fetches,
\* priorities, objects and bounds of send_next_update's environment.
THEOREM Invariance == Spec => []IInv
<1>1. Init => IInv
  BY InitIInv
<1>2. IInv /\ [Next]_vars => IInv'
  BY NextPreserves
<1>3. QED
  BY <1>1, <1>2, PTL DEF Spec

\* Type correctness of the FETCH and priority protocol.
THEOREM TypeCorrect == Spec => []TypeOK
<1>1. IInv => TypeOK
  BY DEF IInv
<1>2. QED
  BY <1>1, Invariance, PTL

\* The table `updates` and the update fields of the fetches always agree, so
\* update_accepted and update_error find the fetch that an id belongs to.
THEOREM TablesAgree == Spec => []TableMatches
<1>1. IInv => TableMatches
  BY DEF IInv
<1>2. QED
  BY <1>1, Invariance, PTL

\* send_next_update never puts a second update of a fetch on the wire.
THEOREM OneInFlight == Spec => []OneUpdateInFlight
<1>1. IInv => OneUpdateInFlight
  BY DEF IInv
<1>2. QED
  BY <1>1, Invariance, PTL

\* The applied priority of a served fetch is the relay's, or the relay already
\* has the pending one, while the connection and the command loop live.
THEOREM RelayAgreement == Spec => []AgreesWithRelay
<1>1. IInv => AgreesWithRelay
  <2>1. SUFFICES ASSUME IInv, connection = "up", main \notin {"draining", "ended"},
                        NEW f \in served
                 PROVE  \/ relay_priority[f] = applied[f].priority
                        \/ /\ f \in update_pending
                           /\ relay_priority[f] = pending[f].priority
    BY DEF AgreesWithRelay
  <2>2. Matched
    BY <2>1 DEF IInv, Closed
  <2>3. CASE f \notin update_pending
    BY <2>2, <2>3 DEF Matched
  <2>4. CASE f \in update_pending
    <3>1. [id |-> update_id[f], fetch |-> f] \in updates
      BY <2>1, <2>4 DEF IInv, TableMatches
    <3>2. PICK r \in requests : Entry(r) = [id |-> update_id[f], fetch |-> f]
      BY <2>2, <3>1 DEF Matched
    <3>3. r.fetch = f
      BY <3>2 DEF Entry
    <3>4. QED
      BY <2>2, <2>4, <3>3 DEF Matched
  <2>5. QED
    BY <2>3, <2>4
<1>2. QED
  BY <1>1, Invariance, PTL
-----------------------------------------------------------------------------
(* The frames: what the browser reads is a story told in order.             *)

EventTypes == {"fetch-opened", "fetch-failed", "priority-superseded", "priority-sent",
               "priority-unsent", "priority-accepted", "priority-failed", "object", "complete"}

Events == [type : EventTypes, fetch : Fetches, id : Nat, target : AnyTarget]
Audits == [type : {"audit-complete"}, unresolved : SUBSET Nat]
Frames == Events \union Audits

\* The parts of FrameOrder, of any log and any table of updates.
Resolves(e, id) ==
    \/ e.type \in {"priority-accepted", "priority-failed"} /\ e.id = id
    \/ e.type = "audit-complete" /\ id \in e.unresolved

Resolving(log, id) == {i \in DOMAIN log : Resolves(log[i], id)}
InTable(table, id) == \E u \in table : u.id = id

Resolved(log, table) ==
    \A i \in DOMAIN log : log[i].type = "priority-sent" =>
        Cardinality(Resolving(log, log[i].id)) = (IF InTable(table, log[i].id) THEN 0 ELSE 1)

Audited(log) ==
    \A i, j \in DOMAIN log : i < j /\ log[i].type = "audit-complete" =>
        log[j].type \in {"object", "complete"} /\ j <= i + 2

Announces(e, f, target) ==
    e.type \in {"fetch-opened", "priority-accepted"} /\ e.fetch = f /\ e.target = target

Announced(log) ==
    \A j \in DOMAIN log : log[j].type = "object" =>
        \E i \in 1..(j - 1) : Announces(log[i], log[j].fetch, log[j].target)

OfFetch == {"object", "priority-sent", "complete"}
Completed(log) ==
    \A i, j \in DOMAIN log : i < j /\ log[i].type = "complete" =>
        (log[j].type \in OfFetch => log[j].fetch # log[i].fetch)

\* The ids a log speaks of were given out.
Given(e, n) ==
    /\ e.type \in {"priority-sent", "priority-accepted", "priority-failed"} => e.id < n
    /\ e.type = "audit-complete" => \A id \in e.unresolved : id < n

GivenOut(log, n) == \A i \in DOMAIN log : Given(log[i], n)

Story(log, table, n) ==
    /\ log \in Seq(Frames)
    /\ Resolved(log, table) /\ GivenOut(log, n)
    /\ Audited(log) /\ Announced(log) /\ Completed(log)

\* The fetches whose end was told, and the targets that were announced.
HasEnded(log, f) == \E i \in DOMAIN log : log[i].type = "complete" /\ log[i].fetch = f
Told(log, f, target) == \E i \in DOMAIN log : Announces(log[i], f, target)

\* What incoming_object has still to write.
DeliveryTyped ==
    delivery \in {NoDelivery} \union
        [stage : {"frame", "status"}, fetch : Fetches, object : Objects, target : AnyTarget]

Left ==
    IF delivery.stage = "none" THEN 0
    ELSE IF delivery.stage = "status" THEN 1
    ELSE IF delivery.object = LastObject THEN 2 ELSE 1

DeliveryTold ==
    delivery.stage # "none" =>
        /\ Told(out, delivery.fetch, delivery.target)
        /\ ~HasEnded(out, delivery.fetch)
        /\ delivery.object = LastObject => delivery.fetch \in complete
        /\ delivery.stage = "status" => delivery.object = LastObject

AppliedTold == \A f \in served : Told(out, f, applied[f])

EndedComplete == \A f \in Fetches : HasEnded(out, f) => f \in complete

\* After the audit event main is past its commands, the table is empty, and
\* only what incoming_object had begun may follow.
AuditStage ==
    /\ main = "closing" => stopping
    /\ \A i \in DOMAIN out : out[i].type = "audit-complete" =>
          /\ stopping /\ main \in {"draining", "ended"} /\ updates = {}
          /\ Len(out) + Left <= i + 2

UniqueIds == \A u, v \in updates : u.id = v.id => u = v

StoryInv ==
    /\ Story(out, updates, next_id)
    /\ UniqueIds /\ DeliveryTyped /\ DeliveryTold /\ AppliedTold /\ EndedComplete /\ AuditStage

-----------------------------------------------------------------------------
(* A log grows by one frame.                                                *)

\* The frames of a log that got one more.
LEMMA Appended ==
    ASSUME NEW log \in Seq(Frames), NEW e \in Frames
    PROVE  /\ Append(log, e) \in Seq(Frames)
           /\ Len(log) \in Nat /\ DOMAIN log = 1..Len(log)
           /\ DOMAIN Append(log, e) = 1..(Len(log) + 1)
           /\ Len(Append(log, e)) = Len(log) + 1
           /\ \A i \in DOMAIN log : Append(log, e)[i] = log[i]
           /\ Append(log, e)[Len(log) + 1] = e
BY AppendProperties, LenProperties

\* Only an audit event is not an event of a fetch.
LEMMA FrameKinds ==
    ASSUME NEW e \in Frames
    PROVE  /\ e.type # "audit-complete" => e \in Events /\ e.id \in Nat /\ e.fetch \in Fetches
           /\ e.type = "audit-complete" => e.unresolved \subseteq Nat
BY DEF Frames, Events, Audits, EventTypes

\* One more frame resolves an id once more, or not.
LEMMA ResolvingGrows ==
    ASSUME NEW log \in Seq(Frames), NEW e \in Frames, NEW id
    PROVE  /\ Cardinality(Resolving(log, id)) \in Nat
           /\ Cardinality(Resolving(Append(log, e), id)) =
                  Cardinality(Resolving(log, id)) + (IF Resolves(e, id) THEN 1 ELSE 0)
<1>1. /\ Len(log) \in Nat /\ DOMAIN log = 1..Len(log)
      /\ DOMAIN Append(log, e) = 1..(Len(log) + 1)
      /\ \A i \in DOMAIN log : Append(log, e)[i] = log[i]
      /\ Append(log, e)[Len(log) + 1] = e
  BY Appended
<1>2. IsFiniteSet(1..Len(log))
  <2>1. Len(log) \in Int /\ 1 \in Int
    BY <1>1
  <2>2. QED
    BY <2>1, FS_Interval
<1>3. Resolving(log, id) \in SUBSET (1..Len(log))
  BY <1>1 DEF Resolving
<1>4. IsFiniteSet(Resolving(log, id)) /\ Cardinality(Resolving(log, id)) \in Nat
  BY <1>2, <1>3, FS_Subset, FS_CardinalityType
<1>5. Len(log) + 1 \notin Resolving(log, id)
  BY <1>1, <1>3
<1>6. CASE Resolves(e, id)
  <2>1. Resolving(Append(log, e), id) = Resolving(log, id) \union {Len(log) + 1}
    BY <1>1, <1>6 DEF Resolving
  <2>2. QED
    BY <1>4, <1>5, <1>6, <2>1, FS_AddElement
<1>7. CASE ~Resolves(e, id)
  <2>1. Resolving(Append(log, e), id) = Resolving(log, id)
    BY <1>1, <1>7 DEF Resolving
  <2>2. QED
    BY <1>4, <1>7, <2>1
<1>8. QED
  BY <1>4, <1>6, <1>7

\* No frame resolves an id that was not given out.
LEMMA NotYetResolved ==
    ASSUME NEW log \in Seq(Frames), NEW n \in Nat, GivenOut(log, n), NEW id \in Nat, id >= n
    PROVE  Cardinality(Resolving(log, id)) = 0
<1>1. ASSUME NEW i \in DOMAIN log PROVE ~Resolves(log[i], id)
  <2>1. log[i] \in Frames
    BY LenProperties
  <2>2. QED
    BY <2>1, FrameKinds DEF GivenOut, Given, Resolves
<1>2. Resolving(log, id) = {}
  BY <1>1 DEF Resolving
<1>3. QED
  BY <1>2, FS_EmptySet

\* What a frame must be for the story to go on: it resolves what leaves the
\* table, it gives out new ids only, and it comes after what announces it.
Settles(e, table, table2, n) ==
    \A id \in Nat : id < n =>
        /\ InTable(table2, id) <=> InTable(table, id) /\ ~Resolves(e, id)
        /\ Resolves(e, id) => InTable(table, id)

Tells(log, e, table, table2, n, n2) ==
    /\ n <= n2 /\ Given(e, n2)
    /\ Settles(e, table, table2, n)
    /\ e.type = "priority-sent" => n <= e.id /\ InTable(table2, e.id)
    /\ e.type = "object" => Told(log, e.fetch, e.target)
    /\ e.type \in OfFetch => ~HasEnded(log, e.fetch)
    /\ \A i \in DOMAIN log : log[i].type = "audit-complete" =>
           e.type \in {"object", "complete"} /\ Len(log) + 1 <= i + 2

\* Then the log with this frame is a story too.
LEMMA StoryGrows ==
    ASSUME NEW log, NEW table, NEW n \in Nat, Story(log, table, n),
           NEW e \in Frames, NEW table2, NEW n2 \in Nat, Tells(log, e, table, table2, n, n2)
    PROVE  Story(Append(log, e), table2, n2)
<1> DEFINE more == Append(log, e)
<1>1. log \in Seq(Frames)
  BY DEF Story
<1>2. /\ more \in Seq(Frames)
      /\ Len(log) \in Nat /\ DOMAIN log = 1..Len(log)
      /\ DOMAIN more = 1..(Len(log) + 1)
      /\ \A i \in DOMAIN log : more[i] = log[i] /\ log[i] \in Frames
      /\ more[Len(log) + 1] = e
  BY <1>1, Appended, LenProperties
<1>3. GivenOut(more, n2)
  <2>1. ASSUME NEW i \in DOMAIN log PROVE Given(log[i], n2)
    <3>1. Given(log[i], n) /\ log[i] \in Frames /\ n <= n2
      BY <1>2 DEF Story, GivenOut, Tells
    <3>2. QED
      BY <3>1, FrameKinds DEF Given
  <2>2. QED
    BY <1>2, <2>1 DEF GivenOut, Tells
<1>4. Resolved(more, table2)
  <2>1. \A id : Cardinality(Resolving(more, id)) =
                    Cardinality(Resolving(log, id)) + (IF Resolves(e, id) THEN 1 ELSE 0)
    BY <1>1, ResolvingGrows
  <2>2. ASSUME NEW i \in DOMAIN log, log[i].type = "priority-sent"
        PROVE  Cardinality(Resolving(more, log[i].id)) =
                   (IF InTable(table2, log[i].id) THEN 0 ELSE 1)
    <3>1. log[i].id \in Nat /\ log[i].id < n
      BY <1>2, <2>2, FrameKinds DEF Story, GivenOut, Given
    <3>2. Cardinality(Resolving(log, log[i].id)) = (IF InTable(table, log[i].id) THEN 0 ELSE 1)
      BY <2>2 DEF Story, Resolved
    <3>3. /\ InTable(table2, log[i].id) <=> InTable(table, log[i].id) /\ ~Resolves(e, log[i].id)
          /\ Resolves(e, log[i].id) => InTable(table, log[i].id)
      BY <3>1 DEF Tells, Settles
    <3>4. QED
      BY <2>1, <3>2, <3>3
  <2>3. ASSUME e.type = "priority-sent"
        PROVE  Cardinality(Resolving(more, e.id)) = (IF InTable(table2, e.id) THEN 0 ELSE 1)
    <3>1. e.id \in Nat /\ e.id >= n /\ InTable(table2, e.id) /\ ~Resolves(e, e.id)
      BY <2>3, FrameKinds DEF Tells, Resolves
    <3>2. Cardinality(Resolving(log, e.id)) = 0
      BY <1>1, <3>1, NotYetResolved DEF Story
    <3>3. QED
      BY <2>1, <3>1, <3>2
  <2>4. QED
    BY <1>2, <2>2, <2>3 DEF Resolved
<1>5. Audited(more)
  BY <1>2 DEF Story, Audited, Tells
<1>6. Announced(more)
  <2>1. ASSUME NEW j \in DOMAIN log, log[j].type = "object"
        PROVE  \E i \in 1..(j - 1) : Announces(more[i], log[j].fetch, log[j].target)
    <3>1. PICK i \in 1..(j - 1) : Announces(log[i], log[j].fetch, log[j].target)
      BY <2>1 DEF Story, Announced
    <3>2. i \in DOMAIN log
      BY <1>2
    <3>3. QED
      BY <1>2, <3>1, <3>2
  <2>2. ASSUME e.type = "object"
        PROVE  \E i \in 1..Len(log) : Announces(more[i], e.fetch, e.target)
    BY <1>2, <2>2 DEF Tells, Told
  <2>3. ASSUME NEW j \in DOMAIN more, more[j].type = "object"
        PROVE  \E i \in 1..(j - 1) : Announces(more[i], more[j].fetch, more[j].target)
    <3>1. CASE j \in DOMAIN log
      BY <1>2, <2>1, <2>3, <3>1
    <3>2. CASE j = Len(log) + 1
      BY <1>2, <2>2, <2>3, <3>2
    <3>3. QED
      BY <1>2, <3>1, <3>2
  <2>4. QED
    BY <2>3 DEF Announced
<1>7. Completed(more)
  <2>1. \A i \in DOMAIN log : log[i].type = "complete" /\ e.type \in OfFetch =>
            e.fetch # log[i].fetch
    BY DEF Tells, HasEnded
  <2>2. QED
    BY <1>2, <2>1 DEF Story, Completed
<1>8. QED
  BY <1>2, <1>3, <1>4, <1>5, <1>6, <1>7 DEF Story

\* What was told stays told; a frame tells of one announcement or one end.
LEMMA ToldGrows ==
    ASSUME NEW log \in Seq(Frames), NEW e \in Frames, NEW f
    PROVE  /\ \A target : Told(log, f, target) => Told(Append(log, e), f, target)
           /\ \A target : Announces(e, f, target) => Told(Append(log, e), f, target)
           /\ HasEnded(Append(log, e), f) <=>
                  HasEnded(log, f) \/ (e.type = "complete" /\ e.fetch = f)
<1>1. /\ Len(log) \in Nat /\ DOMAIN log = 1..Len(log)
      /\ DOMAIN Append(log, e) = 1..(Len(log) + 1)
      /\ \A i \in DOMAIN log : Append(log, e)[i] = log[i]
      /\ Append(log, e)[Len(log) + 1] = e
  BY Appended
<1>2. QED
  BY <1>1 DEF Told, HasEnded

NoAudit(log) == \A i \in DOMAIN log : log[i].type # "audit-complete"

\* Only an audit event brings an audit event into a log.
LEMMA NoAuditGrows ==
    ASSUME NEW log \in Seq(Frames), NEW e \in Frames, NoAudit(log), e.type # "audit-complete"
    PROVE  NoAudit(Append(log, e))
BY Appended DEF NoAudit

-----------------------------------------------------------------------------
(* The frames of main's commands and of the relay's answers.                *)

EventTyped(type, f, id, target) ==
    type \in EventTypes /\ f \in Fetches /\ id \in Nat /\ target \in AnyTarget

\* An event with an id and a target of its kind is a frame.
LEMMA EventIsFrame ==
    ASSUME NEW type, NEW f, NEW id, NEW target, EventTyped(type, f, id, target)
    PROVE  /\ Event(type, f, id, target) \in Frames
           /\ Event(type, f, id, target).type = type /\ Event(type, f, id, target).fetch = f
           /\ Event(type, f, id, target).id = id /\ Event(type, f, id, target).target = target
           /\ type # "audit-complete"
BY DEF Event, EventTyped, Frames, Events, EventTypes

\* What a log must keep for the rest of a command or an answer.
Extends(log2, log) ==
    /\ NoAudit(log2)
    /\ \A f, target : Told(log, f, target) => Told(log2, f, target)
    /\ \A f : HasEnded(log2, f) <=> HasEnded(log, f)

\* An event that resolves nothing and is neither an object nor an end, while
\* the table and the ids stay as they are.
LEMMA QuietEvent ==
    ASSUME NEW log, NEW table, NEW n \in Nat, Story(log, table, n), NoAudit(log),
           NEW n2 \in Nat, n <= n2,
           NEW type \in {"fetch-opened", "fetch-failed", "priority-superseded", "priority-unsent"},
           NEW f \in Fetches, NEW id \in Nat, NEW target \in AnyTarget
    PROVE  /\ Story(Append(log, Event(type, f, id, target)), table, n2)
           /\ Extends(Append(log, Event(type, f, id, target)), log)
<1> DEFINE e == Event(type, f, id, target)
<1>1. /\ e \in Frames /\ e.type = type /\ type \in EventTypes
      /\ type \notin OfFetch /\ type # "audit-complete"
  BY EventIsFrame DEF EventTyped, EventTypes, OfFetch
<1>2. Tells(log, e, table, table, n, n2)
  BY <1>1 DEF Tells, Settles, Resolves, Given, NoAudit, OfFetch
<1>3. log \in Seq(Frames)
  BY DEF Story
<1> HIDE DEF e
<1>4. Story(Append(log, e), table, n2)
  BY <1>1, <1>2, StoryGrows
<1>5. Extends(Append(log, e), log)
  BY <1>1, <1>3, ToldGrows, NoAuditGrows DEF Extends, OfFetch
<1>6. QED
  BY <1>4, <1>5 DEF e

Unique(table) == \A u, v \in table : u.id = v.id => u = v
Below(table, n) == \A u \in table : u.id \in Nat /\ u.id < n

\* send_next_update goes on with any story, as long as the end of the fetch
\* was not told.
LEMMA SendStory ==
    ASSUME IInv, NEW f \in Fetches, NEW d \in AnyTarget, NEW a, NEW busy,
           NEW table, NEW log, Story(log, table, next_id), NoAudit(log),
           Unique(table), Below(table, next_id),
           HasEnded(log, f) => f \in complete,
           SendNextUpdate(f, d, a, busy, table, log)
    PROVE  /\ Story(out', updates', next_id') /\ Extends(out', log)
           /\ Unique(updates') /\ next_id' \in Nat
<1>1. next_id \in Nat /\ log \in Seq(Frames)
  BY DEF IInv, TypeOK, Story
<1>2. Extends(log, log)
  BY DEF Extends
<1>3. CASE updates' = table /\ out' = log /\ next_id' = next_id
  BY <1>1, <1>2, <1>3
<1>4. CASE /\ NeedsUpdate(f, d, a, busy)
           /\ updates' = Table(next_id, f, table) /\ next_id' = next_id + 1
           /\ out' = Append(log, Event("priority-sent", f, next_id, d))
  <2> DEFINE e == Event("priority-sent", f, next_id, d)
             new == [id |-> next_id, fetch |-> f]
  <2>1. e \in Frames /\ e.type = "priority-sent" /\ e.id = next_id /\ e.fetch = f
    BY <1>1, EventIsFrame DEF EventTyped, EventTypes
  <2>2. updates' = table \union {new} /\ new.id = next_id
    BY <1>4 DEF Table
  <2> HIDE DEF e, new
  <2>3. \A id \in Nat : id < next_id => (InTable(updates', id) <=> InTable(table, id))
    BY <1>1, <2>2 DEF InTable
  <2>4. InTable(updates', next_id)
    BY <2>2 DEF InTable
  <2>5. ~HasEnded(log, f)
    BY <1>4 DEF NeedsUpdate
  <2>6. Tells(log, e, table, updates', next_id, next_id + 1)
    <3>1. next_id <= next_id + 1 /\ Given(e, next_id + 1)
      BY <1>1, <2>1 DEF Given
    <3>2. Settles(e, table, updates', next_id)
      BY <2>1, <2>3 DEF Settles, Resolves
    <3>3. QED
      BY <1>1, <2>1, <2>4, <2>5, <3>1, <3>2 DEF Tells, NoAudit
  <2>7. Story(out', updates', next_id')
    BY <1>1, <1>4, <2>1, <2>6, StoryGrows DEF e
  <2>8. Extends(out', log)
    BY <1>1, <1>4, <2>1, ToldGrows, NoAuditGrows DEF Extends, e
  <2>9. Unique(updates')
    BY <1>1, <2>2 DEF Unique, Below
  <2>10. QED
    BY <1>1, <1>4, <2>7, <2>8, <2>9
<1>5. CASE /\ updates' = table /\ next_id' = next_id + 1
           /\ out' = Append(log, Event("priority-unsent", f, next_id, d))
  <2>1. next_id + 1 \in Nat /\ next_id <= next_id + 1
    BY <1>1
  <2>2. QED
    BY <1>1, <1>5, <2>1, QuietEvent
<1>6. QED
  BY <1>3, <1>4, <1>5 DEF SendNextUpdate

\* What a step that is not past the commands needs to show.
LEMMA StoryStep ==
    ASSUME StoryInv, Story(out', updates', next_id'), Unique(updates'), Extends(out', out),
           UNCHANGED <<delivery, complete>>,
           \A f \in served' : Told(out', f, applied'[f]),
           main' = "closing" => stopping'
    PROVE  StoryInv'
<1>1. UniqueIds' /\ DeliveryTyped' /\ AppliedTold'
  BY DEF StoryInv, Unique, UniqueIds, DeliveryTyped, AppliedTold
<1>2. DeliveryTold'
  BY DEF StoryInv, DeliveryTold, Extends
<1>3. EndedComplete'
  BY DEF StoryInv, EndedComplete, Extends
<1>4. AuditStage'
  BY DEF AuditStage, Extends, NoAudit
<1>5. QED
  BY <1>1, <1>2, <1>3, <1>4 DEF StoryInv

\* handle_open: a fetch that the relay serves was announced first.
LEMMA OpenTells ==
    ASSUME IInv, StoryInv, Open
    PROVE  StoryInv'
<1> DEFINE f == Head(items).fetch
           target == [priority |-> Head(items).priority, epoch |-> epoch]
<1>1. /\ main = "items" /\ NextItem
      /\ UNCHANGED <<stopping, complete, updates, next_id, delivery>>
  BY DEF Open, NextItem, updateVars
<1>2. f \in Fetches /\ target \in AnyTarget
  BY <1>1, NextItemTyped DEF IInv, TypeOK, Item, AnyTarget, Targets
<1>3. NoAudit(out) /\ next_id \in Nat
  BY <1>1 DEF IInv, TypeOK, StoryInv, AuditStage, NoAudit
<1>4. Story(out, updates, next_id) /\ Unique(updates) /\ out \in Seq(Frames)
  BY DEF StoryInv, UniqueIds, Unique, Story
<1>5. applied' = [applied EXCEPT ![f] = target] /\ applied \in [Fetches -> AnyTarget]
      /\ served \subseteq Fetches
  BY DEF Open, IInv, TypeOK
<1>6. f \notin opened /\ f \notin served
  <2>1. Head(items) = items[1] /\ Len(items) \in Nat \ {0}
    BY <1>1, NextItemTyped
  <2>2. items[1].type = "open" /\ 1 \in 1..Len(items)
    BY <2>1 DEF Open
  <2>3. QED
    BY <2>1, <2>2 DEF IInv, OpenItemsFresh, TypeOK
<1>7. PICK type \in {"fetch-opened", "fetch-failed"} :
          /\ out' = Append(out, Event(type, f, 0, target))
          /\ (served' = served \union {f} /\ type = "fetch-opened") \/ served' = served
  BY DEF Open, relayVars
<1> HIDE DEF f, target
<1>8. Story(out', updates', next_id') /\ Extends(out', out)
  BY <1>1, <1>2, <1>3, <1>4, <1>7, QuietEvent
<1>9. \A g \in served : Told(out', g, applied'[g])
  <2>1. \A g \in served : applied'[g] = applied[g]
    BY <1>5, <1>6
  <2>2. QED
    BY <1>8, <2>1 DEF StoryInv, AppliedTold, Extends
<1>10. type = "fetch-opened" => Told(out', f, applied'[f])
  <2>1. applied'[f] = target
    BY <1>2, <1>5
  <2>2. ASSUME type = "fetch-opened" PROVE Announces(Event(type, f, 0, target), f, target)
    BY <1>2, <2>2, EventIsFrame DEF EventTyped, EventTypes, Announces
  <2>3. Event(type, f, 0, target) \in Frames
    BY <1>2, EventIsFrame DEF EventTyped, EventTypes
  <2>4. QED
    BY <1>4, <1>7, <2>1, <2>2, <2>3, ToldGrows
<1>11. main' # "closing"
  BY <1>1 DEF NextItem, AfterCommand
<1>12. QED
  BY <1>1, <1>4, <1>7, <1>8, <1>9, <1>10, <1>11, StoryStep

\* handle_priorities: the end of a fetch that gets an update was not told.
LEMMA SetPriorityTells ==
    ASSUME IInv, StoryInv, SetPriority
    PROVE  StoryInv'
<1> DEFINE f == Head(items).fetch
           target == [priority |-> Head(items).priority, epoch |-> epoch]
           log == IF f \in update_pending
                  THEN Append(out, Event("priority-superseded", f, update_id[f], target))
                  ELSE out
<1>1. /\ main = "items" /\ NextItem
      /\ UNCHANGED <<stopping, complete, applied, delivery, relayVars>>
  BY DEF SetPriority, NextItem
<1>2. f \in Fetches /\ target \in AnyTarget
  BY <1>1, NextItemTyped DEF IInv, TypeOK, Item, AnyTarget, Targets
<1>3. NoAudit(out) /\ next_id \in Nat /\ update_id \in [Fetches -> Nat]
  BY <1>1 DEF IInv, TypeOK, StoryInv, AuditStage, NoAudit
<1>4. Story(out, updates, next_id) /\ Unique(updates) /\ Below(updates, next_id)
  BY DEF IInv, TypeOK, FreshIds, StoryInv, UniqueIds, Unique, Below
<1>5. Story(log, updates, next_id) /\ Extends(log, out)
  <2>1. CASE f \in update_pending
    <3> HIDE DEF f, target
    <3>1. update_id[f] \in Nat
      BY <1>2, <1>3
    <3>2. QED
      BY <1>2, <1>3, <1>4, <2>1, <3>1, QuietEvent
  <2>2. CASE f \notin update_pending
    BY <1>3, <1>4, <2>2 DEF Extends
  <2>3. QED
    BY <2>1, <2>2
<1>6. \/ UNCHANGED <<updateVars, out>>
      \/ SendNextUpdate(f, target, applied[f], update_pending, updates, log)
  BY DEF SetPriority
<1>7. HasEnded(log, f) => f \in complete
  BY <1>2, <1>5 DEF StoryInv, EndedComplete, Extends
<1>8. main' # "closing"
  BY <1>1 DEF NextItem, AfterCommand
<1> HIDE DEF f, target, log
<1>9. Story(out', updates', next_id') /\ Extends(out', out) /\ Unique(updates')
  <2>1. CASE UNCHANGED <<updateVars, out>>
    BY <1>3, <1>4, <2>1 DEF updateVars, Extends
  <2>2. CASE SendNextUpdate(f, target, applied[f], update_pending, updates, log)
    <3>1. Story(out', updates', next_id') /\ Extends(out', log) /\ Unique(updates')
      BY <1>2, <1>4, <1>5, <1>7, <2>2, SendStory DEF Extends
    <3>2. QED
      BY <1>5, <3>1 DEF Extends
  <2>3. QED
    BY <1>6, <2>1, <2>2
<1>10. \A g \in served' : Told(out', g, applied'[g])
  BY <1>1, <1>9 DEF StoryInv, AppliedTold, Extends, relayVars
<1>11. QED
  BY <1>1, <1>8, <1>9, <1>10, StoryStep

\* The frame of an answer takes its id from the table, exactly once.
LEMMA AnswerStory ==
    ASSUME IInv, StoryInv, NEW r \in requests, Entry(r) \in updates,
           NEW type \in {"priority-accepted", "priority-failed"}, NEW target \in AnyTarget
    PROVE  /\ Story(Append(out, Event(type, r.fetch, r.id, target)), updates \ {Entry(r)}, next_id)
           /\ Extends(Append(out, Event(type, r.fetch, r.id, target)), out)
           /\ Unique(updates \ {Entry(r)}) /\ Below(updates \ {Entry(r)}, next_id)
           /\ Event(type, r.fetch, r.id, target) \in Frames
           /\ NoAudit(out)
           /\ type = "priority-accepted" =>
                  Announces(Event(type, r.fetch, r.id, target), r.fetch, target)
<1> DEFINE e == Event(type, r.fetch, r.id, target)
<1>1. r.id \in Nat /\ r.fetch \in Fetches /\ next_id \in Nat
  BY DEF IInv, TypeOK
<1>2. NoAudit(out) /\ out \in Seq(Frames) /\ Story(out, updates, next_id)
  BY DEF StoryInv, AuditStage, NoAudit, Story
<1>3. /\ e \in Frames /\ e.type = type /\ e.id = r.id /\ e.fetch = r.fetch
      /\ e.target = target /\ type # "audit-complete"
  BY <1>1, EventIsFrame DEF EventTyped, EventTypes
<1>4. Unique(updates) /\ Below(updates, next_id) /\ Entry(r).id = r.id
  BY DEF IInv, TypeOK, FreshIds, StoryInv, UniqueIds, Unique, Below, Entry
<1>5. r.id < next_id
  BY <1>4 DEF Below
<1>6. \A id \in Nat : InTable(updates \ {Entry(r)}, id) <=> InTable(updates, id) /\ id # r.id
  BY <1>4 DEF InTable, Unique
<1>7. InTable(updates, r.id)
  BY <1>4 DEF InTable
<1> HIDE DEF e
<1>8. Tells(out, e, updates, updates \ {Entry(r)}, next_id, next_id)
  <2>1. Given(e, next_id)
    BY <1>3, <1>5 DEF Given
  <2>2. Settles(e, updates, updates \ {Entry(r)}, next_id)
    BY <1>3, <1>6, <1>7 DEF Settles, Resolves
  <2>3. QED
    BY <1>1, <1>2, <1>3, <2>1, <2>2 DEF Tells, NoAudit, OfFetch
<1>9. Story(Append(out, e), updates \ {Entry(r)}, next_id)
  BY <1>1, <1>2, <1>3, <1>8, StoryGrows
<1>10. Extends(Append(out, e), out)
  BY <1>2, <1>3, ToldGrows, NoAuditGrows DEF Extends
<1>11. Unique(updates \ {Entry(r)}) /\ Below(updates \ {Entry(r)}, next_id)
  BY <1>4 DEF Unique, Below
<1>12. type = "priority-accepted" => Announces(e, r.fetch, target)
  BY <1>3 DEF Announces
<1>13. QED
  BY <1>2, <1>3, <1>9, <1>10, <1>11, <1>12 DEF e

\* update_accepted: the new applied target is announced by this very answer.
LEMMA UpdateAcceptedTells ==
    ASSUME IInv, StoryInv, NEW r \in requests, UpdateAccepted(r)
    PROVE  StoryInv'
<1> DEFINE f == r.fetch
           log == Append(out, Event("priority-accepted", f, r.id, pending[f]))
           table == updates \ {Entry(r)}
<1>1. UNCHANGED <<stopping, main, desired, complete, delivery, served>>
  BY DEF UpdateAccepted, relayVars
<1>2. /\ f \in Fetches /\ pending[f] \in AnyTarget /\ desired[f] \in AnyTarget
      /\ applied \in [Fetches -> AnyTarget] /\ served \subseteq Fetches /\ next_id \in Nat
  BY DEF IInv, TypeOK
<1>3. Story(out, updates, next_id) /\ Unique(updates) /\ (main = "closing" => stopping)
  BY DEF StoryInv, UniqueIds, Unique, AuditStage
<1>4. CASE UNCHANGED <<applied, updates, next_id, out>>
  BY <1>1, <1>4 DEF StoryInv, Story, UniqueIds, DeliveryTyped, DeliveryTold, AppliedTold,
     EndedComplete, AuditStage, Left
<1>5. CASE /\ Entry(r) \in updates
           /\ applied' = [applied EXCEPT ![f] = pending[f]]
           /\ SendNextUpdate(f, desired[f], pending[f], update_pending \ {f}, table, log)
  <2>1. /\ Story(log, table, next_id) /\ Extends(log, out) /\ Unique(table)
        /\ Below(table, next_id) /\ NoAudit(log)
    BY <1>2, <1>5, AnswerStory DEF Extends
  <2>2. Told(log, f, pending[f])
    <3>1. /\ Event("priority-accepted", f, r.id, pending[f]) \in Frames
          /\ Announces(Event("priority-accepted", f, r.id, pending[f]), f, pending[f])
      BY <1>2, <1>5, AnswerStory
    <3>2. out \in Seq(Frames)
      BY <1>3 DEF Story
    <3>3. QED
      BY <3>1, <3>2, ToldGrows
  <2>3. HasEnded(log, f) => f \in complete
    BY <1>2, <2>1 DEF StoryInv, EndedComplete, Extends
  <2> HIDE DEF log, table, f
  <2>4. Story(out', updates', next_id') /\ Extends(out', log) /\ Unique(updates')
    BY <1>2, <1>5, <2>1, <2>3, SendStory
  <2>5. Extends(out', out)
    BY <2>1, <2>4 DEF Extends
  <2>6. ASSUME NEW g \in served PROVE Told(out', g, applied'[g])
    <3>1. CASE g = f
      BY <1>2, <1>5, <2>2, <2>4, <3>1 DEF Extends
    <3>2. CASE g # f
      <4>1. applied'[g] = applied[g]
        BY <1>2, <1>5, <3>2
      <4>2. QED
        BY <2>5, <4>1 DEF StoryInv, AppliedTold, Extends
    <3>3. QED
      BY <3>1, <3>2
  <2>7. QED
    BY <1>1, <1>3, <2>4, <2>5, <2>6, StoryStep
<1>6. QED
  BY <1>4, <1>5 DEF UpdateAccepted, AppliedBy, Wanted, Entry

\* update_error: the failed update is resolved, nothing else is told.
LEMMA UpdateErrorTells ==
    ASSUME IInv, StoryInv, NEW r \in requests, UpdateError(r)
    PROVE  StoryInv'
<1>1. UNCHANGED <<stopping, main, applied, complete, delivery, next_id, served>>
  BY DEF UpdateError, fetchVars, relayVars
<1>2. pending[r.fetch] \in AnyTarget /\ (main = "closing" => stopping)
  BY DEF IInv, TypeOK, StoryInv, AuditStage
<1>3. CASE UNCHANGED <<updates, out>>
  BY <1>1, <1>3 DEF StoryInv, Story, UniqueIds, DeliveryTyped, DeliveryTold, AppliedTold,
     EndedComplete, AuditStage, Left
<1>4. CASE /\ Entry(r) \in updates
           /\ updates' = updates \ {Entry(r)}
           /\ out' = Append(out, Event("priority-failed", r.fetch, r.id, pending[r.fetch]))
  <2>1. Story(out', updates', next_id') /\ Extends(out', out) /\ Unique(updates')
    BY <1>1, <1>2, <1>4, AnswerStory
  <2>2. \A g \in served' : Told(out', g, applied'[g])
    BY <1>1, <2>1 DEF StoryInv, AppliedTold, Extends
  <2>3. QED
    BY <1>1, <1>2, <2>1, <2>2, StoryStep
<1>5. QED
  BY <1>3, <1>4 DEF UpdateError, Entry

\* handle_close: one frame resolves the whole table, and no command follows.
LEMMA HandleCloseTells ==
    ASSUME IInv, StoryInv, HandleClose
    PROVE  StoryInv'
<1> DEFINE e == [type |-> "audit-complete", unresolved |-> Unresolved]
<1>1. /\ main = "closing" /\ main' = "draining" /\ updates' = {} /\ out' = Append(out, e)
      /\ UNCHANGED <<stopping, delivery, complete, applied, served, next_id>>
  BY DEF HandleClose, Forgotten, fetchVars, relayVars
<1>2. /\ stopping /\ NoAudit(out) /\ Story(out, updates, next_id) /\ out \in Seq(Frames)
      /\ next_id \in Nat
  BY <1>1 DEF StoryInv, AuditStage, NoAudit, Story, IInv, TypeOK
<1>3. \A id : id \in Unresolved <=> InTable(updates, id)
  <2>1. updates = {[id |-> update_id[f], fetch |-> f] : f \in update_pending}
    BY DEF IInv, TableMatches
  <2>2. \A u \in updates : \E f \in update_pending : u.id = update_id[f]
    BY <2>1
  <2>3. \A f \in update_pending : [id |-> update_id[f], fetch |-> f] \in updates
    BY <2>1
  <2>4. QED
    BY <2>2, <2>3 DEF Unresolved, InTable
<1>4. \A id \in Unresolved : id \in Nat /\ id < next_id
  BY <1>3 DEF IInv, TypeOK, FreshIds, InTable
<1>5. e \in Frames /\ e.type = "audit-complete" /\ e.unresolved = Unresolved
  BY <1>4 DEF Frames, Audits
<1> HIDE DEF e
<1>6. Tells(out, e, updates, updates', next_id, next_id)
  <2>1. Given(e, next_id)
    BY <1>4, <1>5 DEF Given
  <2>2. Settles(e, updates, updates', next_id)
    BY <1>1, <1>3, <1>5 DEF Settles, Resolves, InTable
  <2>3. QED
    BY <1>2, <1>5, <2>1, <2>2 DEF Tells, NoAudit, OfFetch
<1>7. Story(out', updates', next_id')
  BY <1>1, <1>2, <1>5, <1>6, StoryGrows
<1>8. /\ \A f, target : Told(out, f, target) => Told(out', f, target)
      /\ \A f : HasEnded(out', f) <=> HasEnded(out, f)
  BY <1>1, <1>2, <1>5, ToldGrows
<1>9. AuditStage'
  <2>1. /\ Len(out) \in Nat /\ Len(out') = Len(out) + 1 /\ DOMAIN out = 1..Len(out)
        /\ DOMAIN out' = 1..(Len(out) + 1)
        /\ \A i \in DOMAIN out : out'[i] = out[i]
    BY <1>1, <1>2, <1>5, Appended
  <2>2. Left' \in 0..2
    BY DEF Left
  <2>3. \A i \in DOMAIN out' : out'[i].type = "audit-complete" => i = Len(out')
    BY <1>2, <2>1 DEF NoAudit
  <2>4. QED
    BY <1>1, <1>2, <2>1, <2>2, <2>3 DEF AuditStage
<1>10. UniqueIds' /\ DeliveryTyped' /\ AppliedTold' /\ EndedComplete'
  BY <1>1, <1>8 DEF StoryInv, UniqueIds, DeliveryTyped, AppliedTold, EndedComplete
<1>11. DeliveryTold'
  BY <1>1, <1>8 DEF StoryInv, DeliveryTold
<1>12. QED
  BY <1>7, <1>9, <1>10, <1>11 DEF StoryInv

-----------------------------------------------------------------------------
(* The frames of incoming_object.                                           *)

\* The header is stamped with a target that was announced, for a fetch whose
\* end is not recorded yet; after the audit event nothing begins.
LEMMA IncomingObjectTells ==
    ASSUME IInv, StoryInv, NEW f \in Fetches, NEW o \in Objects, IncomingObject(f, o)
    PROVE  StoryInv'
<1>1. /\ f \in served /\ f \notin complete /\ ~stopping
      /\ complete' = IF o = LastObject THEN complete \union {f} ELSE complete
      /\ delivery' = [stage |-> "frame", fetch |-> f, object |-> o, target |-> applied[f]]
      /\ UNCHANGED <<stopping, main, applied, updates, next_id, out, served>>
  BY DEF IncomingObject, Finished, Stamp, updateVars, relayVars
<1>2. /\ delivery'.stage = "frame" /\ delivery'.fetch = f /\ delivery'.object = o
      /\ delivery'.target = applied[f] /\ applied[f] \in AnyTarget
  BY <1>1 DEF IInv, TypeOK
<1>3. DeliveryTyped'
  BY <1>1, <1>2 DEF DeliveryTyped
<1>4. Told(out, f, applied[f]) /\ ~HasEnded(out, f)
  BY <1>1 DEF StoryInv, AppliedTold, EndedComplete
<1>5. DeliveryTold'
  BY <1>1, <1>2, <1>4 DEF DeliveryTold
<1>6. AppliedTold' /\ EndedComplete' /\ UniqueIds'
  BY <1>1 DEF StoryInv, AppliedTold, EndedComplete, UniqueIds
<1>7. AuditStage'
  BY <1>1 DEF StoryInv, AuditStage
<1>8. QED
  BY <1>1, <1>3, <1>5, <1>6, <1>7 DEF StoryInv

\* What incoming_object writes after the unlock goes on with the story: its
\* target was announced, the end of its fetch was not told, and at most its
\* own two frames follow the audit event.
LEMMA DeliveryStory ==
    ASSUME IInv, StoryInv, delivery.stage # "none",
           NEW type \in {"object", "complete"}, NEW id \in Nat
    PROVE  /\ Event(type, delivery.fetch, id, delivery.target) \in Frames
           /\ Event(type, delivery.fetch, id, delivery.target).type = type
           /\ Event(type, delivery.fetch, id, delivery.target).fetch = delivery.fetch
           /\ Story(Append(out, Event(type, delivery.fetch, id, delivery.target)),
                    updates, next_id)
<1> DEFINE e == Event(type, delivery.fetch, id, delivery.target)
<1>1. delivery.fetch \in Fetches /\ delivery.target \in AnyTarget /\ Left \in {1, 2}
  BY DEF StoryInv, DeliveryTyped, NoDelivery, Left
<1>2. /\ e \in Frames /\ e.type = type /\ e.fetch = delivery.fetch
      /\ e.target = delivery.target /\ type # "audit-complete"
  BY <1>1, EventIsFrame DEF EventTyped, EventTypes
<1>3. /\ next_id \in Nat /\ out \in Seq(Frames) /\ Story(out, updates, next_id)
  BY DEF IInv, TypeOK, StoryInv, Story
<1>4. Told(out, e.fetch, e.target) /\ ~HasEnded(out, e.fetch)
  BY <1>2 DEF StoryInv, DeliveryTold
<1>5. \A i \in DOMAIN out : out[i].type = "audit-complete" => Len(out) + 1 <= i + 2
  <2>1. Len(out) \in Nat /\ DOMAIN out = 1..Len(out)
    BY <1>3, LenProperties
  <2>2. QED
    BY <1>1, <2>1 DEF StoryInv, AuditStage
<1> HIDE DEF e
<1>6. Tells(out, e, updates, updates, next_id, next_id)
  BY <1>2, <1>3, <1>4, <1>5 DEF Tells, Settles, Resolves, Given
<1>7. Story(Append(out, e), updates, next_id)
  BY <1>2, <1>3, <1>6, StoryGrows
<1>8. QED
  BY <1>2, <1>7 DEF e

\* The two writes: an object's frame, and the status of a finished fetch.
LEMMA WriteTells ==
    ASSUME IInv, StoryInv, WriteObject \/ WriteComplete
    PROVE  StoryInv'
<1> DEFINE type == IF delivery.stage = "frame" THEN "object" ELSE "complete"
           id == IF delivery.stage = "frame" THEN delivery.object ELSE 0
           e == Event(type, delivery.fetch, id, delivery.target)
<1>1. /\ delivery.stage \in {"frame", "status"}
      /\ out' = Append(out, e)
      /\ delivery' = IF delivery.stage = "frame" /\ delivery.object = LastObject
                     THEN [delivery EXCEPT !.stage = "status"] ELSE NoDelivery
      /\ UNCHANGED <<stopping, main, applied, complete, updates, next_id, served>>
  BY DEF WriteObject, WriteComplete, fetchVars, updateVars, relayVars
<1>2. delivery \in [stage : {"frame", "status"}, fetch : Fetches, object : Objects,
                    target : AnyTarget]
  BY <1>1 DEF StoryInv, DeliveryTyped, NoDelivery
<1>3. type \in {"object", "complete"} /\ id \in Nat
  BY <1>2, ObjectsAssumption
<1>4. /\ e \in Frames /\ e.type = type /\ e.fetch = delivery.fetch
      /\ Story(out', updates', next_id') /\ out \in Seq(Frames)
  BY <1>1, <1>3, DeliveryStory DEF StoryInv, Story
<1>5. \/ /\ delivery' = NoDelivery /\ NoDelivery.stage = "none"
         /\ type = "object" \/ (type = "complete" /\ delivery.stage = "status")
      \/ /\ delivery.stage = "frame" /\ type = "object" /\ delivery.object = LastObject
         /\ delivery' \in [stage : {"status"}, fetch : Fetches, object : Objects,
                           target : AnyTarget]
         /\ delivery'.fetch = delivery.fetch /\ delivery'.object = delivery.object
         /\ delivery'.target = delivery.target /\ delivery'.stage = "status"
  BY <1>1, <1>2 DEF NoDelivery
<1> HIDE DEF type, id, e
<1>6. /\ \A f, target : Told(out, f, target) => Told(out', f, target)
      /\ \A f : HasEnded(out', f) <=>
                    HasEnded(out, f) \/ (type = "complete" /\ f = delivery.fetch)
  BY <1>1, <1>4, ToldGrows
<1>7. DeliveryTyped'
  BY <1>5 DEF DeliveryTyped
<1>8. DeliveryTold'
  BY <1>1, <1>5, <1>6 DEF StoryInv, DeliveryTold
<1>9. EndedComplete'
  BY <1>1, <1>5, <1>6 DEF StoryInv, EndedComplete, DeliveryTold
<1>10. AppliedTold' /\ UniqueIds'
  BY <1>1, <1>6 DEF StoryInv, AppliedTold, UniqueIds
<1>11. AuditStage'
  <2>1. /\ Len(out) \in Nat /\ Len(out') = Len(out) + 1 /\ DOMAIN out = 1..Len(out)
        /\ DOMAIN out' = 1..(Len(out) + 1)
        /\ \A i \in DOMAIN out : out'[i] = out[i]
        /\ out'[Len(out) + 1] = e
    BY <1>1, <1>4, Appended
  <2>2. Left \in Nat /\ Left' \in Nat /\ Left' + 1 <= Left
    BY <1>1, <1>5 DEF Left
  <2>3. e.type # "audit-complete"
    BY <1>3, <1>4
  <2>4. QED
    BY <1>1, <2>1, <2>2, <2>3 DEF StoryInv, AuditStage
<1>12. QED
  BY <1>4, <1>7, <1>8, <1>9, <1>10, <1>11 DEF StoryInv

-----------------------------------------------------------------------------

\* Every other step writes nothing.
LEMMA SilentStep ==
    ASSUME StoryInv, UNCHANGED <<out, updates, next_id, delivery, complete, applied, served>>,
           stopping => stopping',
           main' = "closing" => stopping',
           main \in {"draining", "ended"} => main' \in {"draining", "ended"}
    PROVE  StoryInv'
<1>1. Story(out', updates', next_id') /\ UniqueIds' /\ DeliveryTyped' /\ DeliveryTold'
  BY DEF StoryInv, UniqueIds, DeliveryTyped, DeliveryTold
<1>2. AppliedTold' /\ EndedComplete' /\ AuditStage'
  BY DEF StoryInv, AppliedTold, EndedComplete, AuditStage, Left
<1>3. QED
  BY <1>1, <1>2 DEF StoryInv

\* Before anything is written there is nothing to tell.
LEMMA InitTells == Init => StoryInv
<1> SUFFICES ASSUME Init PROVE StoryInv
  OBVIOUS
<1>1. out = <<>> /\ out \in Seq(Frames) /\ DOMAIN out = {}
  BY EmptySeq DEF Init
<1>2. Story(out, updates, next_id)
  BY <1>1 DEF Story, Resolved, GivenOut, Audited, Announced, Completed
<1>3. UniqueIds /\ DeliveryTyped /\ DeliveryTold /\ AppliedTold
  BY DEF Init, UniqueIds, DeliveryTyped, DeliveryTold, AppliedTold, NoDelivery
<1>4. EndedComplete /\ AuditStage
  BY <1>1 DEF Init, EndedComplete, HasEnded, AuditStage
<1>5. QED
  BY <1>2, <1>3, <1>4 DEF StoryInv

\* Every step goes on with the story, one case per group of actions.
LEMMA NextTells ==
    ASSUME IInv, StoryInv, [Next]_vars
    PROVE  StoryInv'
<1>0. main = "closing" => stopping
  BY DEF StoryInv, AuditStage
<1>1. CASE Commands
  <2>1. CASE ReadOpen \/ ReadPriorities
    BY <2>1, SilentStep DEF ReadOpen, ReadPriorities, Begin, fetchVars, updateVars, relayVars
  <2>2. QED
    BY <1>1, <2>1, OpenTells, SetPriorityTells DEF Commands
<1>2. CASE Leaving
  <2>1. CASE ReadClose \/ EndOfInput \/ Stop \/ Deinit
    BY <1>0, <2>1, SilentStep
    DEF ReadClose, EndOfInput, Stop, Deinit, fetchVars, updateVars, relayVars
  <2>2. QED
    BY <1>2, <2>1, HandleCloseTells DEF Leaving
<1>3. CASE Ready \/ Gone
  BY <1>0, <1>3, SilentStep DEF Ready, Gone, fetchVars, updateVars, relayVars
<1>4. CASE Answers
  BY <1>4, UpdateAcceptedTells, UpdateErrorTells DEF Answers
<1>5. CASE Deliveries
  BY <1>5, IncomingObjectTells, WriteTells DEF Deliveries
<1>6. CASE Relay
  BY <1>0, <1>6, SilentStep DEF Relay, RelayAccepts, RelayRejects, fetchVars, relayVars
<1>7. CASE Ended \/ UNCHANGED vars
  BY <1>0, <1>7, SilentStep DEF Ended, vars, fetchVars, updateVars, relayVars
<1>8. QED
  BY <1>1, <1>2, <1>3, <1>4, <1>5, <1>6, <1>7 DEF Next

\* Whatever the interleaving of commands, answers and objects, and although
\* the frames of an object are written without the lock: the browser reads
\* every sent update resolved exactly once, nothing but a begun object after
\* the audit event, no object before its priority was announced, and nothing
\* of a fetch after its end.
THEOREM FramesInOrder == Spec => []FrameOrder
<1>1. Init => StoryInv
  BY InitTells
<1>2. IInv /\ StoryInv /\ [Next]_vars => StoryInv'
  BY NextTells
<1>3. StoryInv => FrameOrder
  <2>1. StoryInv => ResolvedOnce
    BY DEF StoryInv, Story, Resolved, Resolving, Resolves, InTable, ResolvedOnce, Resolutions
  <2>2. StoryInv => AuditIsFinal /\ CompleteIsLast
    BY DEF StoryInv, Story, Audited, AuditIsFinal, Completed, CompleteIsLast, OfFetch
  <2>3. StoryInv => AnnouncedBeforeUse
    BY DEF StoryInv, Story, Announced, Announces, AnnouncedBeforeUse
  <2>4. QED
    BY <2>1, <2>2, <2>3 DEF FrameOrder
<1>4. QED
  BY <1>1, <1>2, <1>3, Invariance, PTL DEF Spec
=============================================================================
