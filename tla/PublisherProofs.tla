--------------------------- MODULE PublisherProofs ---------------------------
(***************************************************************************)
(* Readiness of the publisher and the supervisor's restarts, for every     *)
(* manifest and every number of starts.                                    *)
(***************************************************************************)
EXTENDS Publisher, FiniteSetTheorems, TLAPS

(* What the supervisor's position says of the child and of the file.       *)
SupervisorStage ==
    /\ sup \in {"clear", "spawn", "clean", "delay", "done"} => ~Alive
    /\ sup \in {"spawn", "delay", "done"} => file = 0
    /\ sup \in {"clear", "spawn"} => gen < MaxStarts

(* What the child's position says of its connection and of the file.       *)
ChildStage ==
    /\ main # "none" => gen >= 1
    /\ ~Alive => loop = "idle"
    /\ main = "load" => link = "none"
    /\ (Alive /\ link \in {"none", "connecting"}) => (loop = "idle" /\ queued = 0)
    /\ main \in {"load", "shutdown"} => file = 0
    /\ (main = "exited" /\ code # -1) => file = 0

(* tracks_queued counts a set of tracks that were answered and are not     *)
(* being sent, each completely sent unless the publisher is stopping.      *)
Sending == loop \in {"send", "sent"}

Counted(Q) ==
    /\ Q \subseteq Tracks /\ queued = Cardinality(Q)
    /\ \A t \in Q : /\ t \notin announced
                    /\ Sending => t # cur
                    /\ stopping \/ sent[t] = Objects(t)

QueueStage ==
    /\ \E Q \in SUBSET Tracks : Counted(Q)
    /\ Sending => (cur \in Tracks /\ cur \notin announced)
    /\ loop = "sent" => (stopping \/ sent[cur] = Objects(cur))

(* What was found before the write still holds at the write and after it.  *)
ReadyStage ==
    /\ main \in {"metrics", "write"} => AllQueued
    /\ main = "write" => unsent = 0
    /\ (Alive /\ file = gen) => (AllQueued /\ unsent = 0)

IInv ==
    /\ TypeOK /\ SupervisorStage /\ ChildStage /\ QueueStage /\ ReadyStage
    /\ NoStaleReadiness

----------------------------------------------------------------------------
(* What membership in Seq(S) says of the elements.                         *)
LEMMA ElementsOf ==
    ASSUME NEW S, NEW s \in Seq(S)
    PROVE  /\ Len(s) \in Nat /\ DOMAIN s = 1..Len(s)
           /\ \A i \in DOMAIN s : s[i] \in S
OBVIOUS

(* The tracks of a manifest are finitely many positive numbers.            *)
LEMMA TracksAreFinite ==
    /\ IsFiniteSet(Tracks) /\ Cardinality(Tracks) \in Nat
    /\ \A t \in Tracks : t \in Nat /\ Objects(t) \in Nat
<1>1. Len(Refinements) \in Nat /\ DOMAIN Refinements = 1..Len(Refinements)
      /\ \A i \in DOMAIN Refinements : Refinements[i] \in [named : BOOLEAN, objects : Nat]
  BY RefinementsAssumption, ElementsOf, Zenon
<1>2. IsFiniteSet(1..Len(Refinements))
  BY <1>1, FS_Interval
<1>3. Tracks \in SUBSET (1..Len(Refinements))
  BY <1>1 DEF Tracks
<1>4. IsFiniteSet(Tracks)
  BY <1>2, <1>3, FS_Subset
<1>5. Cardinality(Tracks) \in Nat
  BY <1>4, FS_CardinalityType
<1>6. \A t \in Tracks : t \in Nat /\ Objects(t) \in Nat
  BY <1>1, <1>3 DEF Objects
<1> QED
  BY <1>4, <1>5, <1>6

(* A counted set is as large as the catalog only if it is the catalog.     *)
LEMMA CountedAll ==
    ASSUME NEW Q \in SUBSET Tracks, Cardinality(Q) = Cardinality(Tracks)
    PROVE  Q = Tracks
BY TracksAreFinite, FS_Subset

(* Without a track, nothing is counted: the state of a fresh child, and of *)
(* one whose PUBLISH requests have just been sent.                         *)
LEMMA NothingCounted ==
    {} \in SUBSET Tracks /\ Cardinality({}) = 0
BY FS_EmptySet

(* Once every track is counted, nothing is announced or being sent any     *)
(* more, and a publisher that is not stopping has sent every object.       *)
LEMMA QueuedIsSent ==
    ASSUME IInv, AllQueued
    PROVE  /\ ~Sending
           /\ \A t \in Tracks : stopping \/ sent[t] = Objects(t)
<1>1. PICK Q \in SUBSET Tracks : Counted(Q)
  BY DEF IInv, QueueStage
<1>2. Q = Tracks
  BY <1>1, CountedAll DEF Counted, AllQueued
<1> QED
  BY <1>1, <1>2 DEF IInv, QueueStage, Counted

(* What is counted stays counted in a step that neither announces, sends   *)
(* nor counts.                                                             *)
LEMMA QueueKept ==
    ASSUME QueueStage, UNCHANGED <<queued, sent, cur>>,
           announced' \subseteq announced,
           loop' # loop => loop' \in {"idle", "gone", "stop"},
           stopping => stopping'
    PROVE  QueueStage'
<1>1. PICK Q \in SUBSET Tracks : Counted(Q)
  BY DEF QueueStage
<1>2. Counted(Q)'
  BY <1>1 DEF Counted, Sending
<1> QED
  BY <1>2 DEF QueueStage, Sending

(* Whatever a step leaves in place of the file is the name of a child.     *)
LEMMA FileTyped ==
    ASSUME TypeOK, NEW f \in {0, gen, file}
    PROVE  f \in -1..MaxStarts
BY MaxStartsAssumption DEF TypeOK

LEMMA InitIInv == Init => IInv
<1> SUFFICES ASSUME Init PROVE IInv
  OBVIOUS
<1>0. /\ gen \in 0..MaxStarts /\ file \in -1..MaxStarts /\ queued \in 0..Cardinality(Tracks)
      /\ sent \in [Tracks -> Nat] /\ \A t \in Tracks : sent[t] <= Objects(t)
  BY TracksAreFinite, MaxStartsAssumption DEF Init
<1>1. TypeOK
  BY <1>0 DEF Init, TypeOK
<1>2. SupervisorStage /\ ChildStage /\ ReadyStage /\ NoStaleReadiness
  BY MaxStartsAssumption
  DEF Init, SupervisorStage, ChildStage, ReadyStage, NoStaleReadiness, Alive
<1>3. Counted({})
  BY NothingCounted DEF Init, Counted
<1>4. QueueStage
  BY <1>3 DEF Init, QueueStage, Sending
<1> QED
  BY <1>1, <1>2, <1>4 DEF IInv

----------------------------------------------------------------------------
(* The supervisor between two children.                                    *)
LEMMA SupervisorPreserves ==
    ASSUME IInv,
           Clear \/ SeeReady \/ ReadinessTimesOut \/ WatchEnds \/ CleanUp \/ Restart
           \/ RequestStop \/ (Reap /\ ~Alive)
    PROVE  IInv'
<1>1. UNCHANGED <<gen, childVars>>
  BY DEF Clear, SeeReady, ReadinessTimesOut, WatchEnds, CleanUp, Restart, RequestStop, Reap
<1>2. file' \in {0, file}
  BY DEF Clear, SeeReady, ReadinessTimesOut, WatchEnds, CleanUp, Restart, RequestStop, Reap
<1>9. TypeOK'
  <2>1. file' \in -1..MaxStarts
    BY <1>2, FileTyped DEF IInv
  <2>2. stop' \in BOOLEAN /\ ready' \in BOOLEAN
    BY Zenon
    DEF IInv, TypeOK, Clear, SeeReady, ReadinessTimesOut, WatchEnds, CleanUp, Restart,
        RequestStop, Reap
  <2>3. sup' \in {"clear", "spawn", "watch", "end", "reap", "clean", "delay", "done"}
    BY DEF IInv, TypeOK, Clear, SeeReady, ReadinessTimesOut, WatchEnds, CleanUp, Restart,
           RequestStop, Reap
  <2> QED
    BY <1>1, <2>1, <2>2, <2>3 DEF IInv, TypeOK, childVars
<1>3. QueueStage'
  BY <1>1, QueueKept DEF IInv, childVars
<1>4. SupervisorStage'
  BY <1>1
  DEF IInv, TypeOK, SupervisorStage, Alive, childVars, Clear, SeeReady, ReadinessTimesOut,
      WatchEnds, WatchOver, CleanUp, Restart, RequestStop, Reap
<1>5. file' = file \/ (file' = 0 /\ ~Alive)
  BY DEF IInv, SupervisorStage, Clear, SeeReady, ReadinessTimesOut, WatchEnds, CleanUp,
         Restart, RequestStop, Reap
<1>6. ChildStage' /\ ReadyStage' /\ NoStaleReadiness'
  BY <1>1, <1>5
  DEF IInv, ChildStage, ReadyStage, NoStaleReadiness, Alive, AllQueued, childVars
<1> QED
  BY <1>9, <1>3, <1>4, <1>6 DEF IInv

(* A child starts next to no file, with a gen that no file can carry.      *)
LEMMA SpawnPreserves ==
    ASSUME IInv, Spawn
    PROVE  IInv'
<1>1. TypeOK'
  <2>1. gen' \in 0..MaxStarts
    BY MaxStartsAssumption DEF IInv, TypeOK, SupervisorStage, Spawn
  <2>2. queued' \in 0..Cardinality(Tracks) /\ announced' \subseteq Tracks
        /\ sent' \in [Tracks -> Nat] /\ \A t \in Tracks : sent'[t] <= Objects(t)
    BY TracksAreFinite DEF Spawn, FreshChild
  <2> QED
    BY <2>1, <2>2 DEF IInv, TypeOK, Spawn, FreshChild
<1>2. SupervisorStage' /\ ChildStage' /\ ReadyStage' /\ NoStaleReadiness'
  BY DEF IInv, TypeOK, SupervisorStage, ChildStage, ReadyStage, NoStaleReadiness, Alive,
         Spawn, FreshChild
<1>3. Counted({})'
  BY NothingCounted DEF Spawn, FreshChild, Counted
<1>4. QueueStage'
  BY <1>3 DEF Spawn, FreshChild, QueueStage, Sending
<1> QED
  BY <1>1, <1>2, <1>4 DEF IInv

(* The signals of the supervisor: stopping is set, or the child is gone    *)
(* with its file in place.                                                 *)
LEMMA SignalPreserves ==
    ASSUME IInv, Terminate \/ (Reap /\ Alive)
    PROVE  IInv'
<1>1. TypeOK'
  <2>1. stopping' \in BOOLEAN
    BY Zenon DEF IInv, TypeOK, Terminate, Reap
  <2> QED
    BY <2>1 DEF IInv, TypeOK, Terminate, Reap
<1>2. QueueStage'
  BY QueueKept DEF IInv, Terminate, Reap
<1>3. SupervisorStage' /\ ChildStage' /\ ReadyStage' /\ NoStaleReadiness'
  BY DEF IInv, TypeOK, SupervisorStage, ChildStage, ReadyStage, NoStaleReadiness, Alive,
         AllQueued, Terminate, Reap
<1> QED
  BY <1>1, <1>2, <1>3 DEF IInv

----------------------------------------------------------------------------
(* The main thread.  At the write the count it read is still complete and  *)
(* the queue it read is still empty, because nobody is sending any more.   *)
LEMMA MainThreadPreserves ==
    ASSUME IInv, MainThread
    PROVE  IInv'
<1>1. TypeOK'
  <2>1. file' \in -1..MaxStarts
    BY FileTyped
    DEF IInv, MainThread, Load, Poll, Count, Metrics, WriteReady, Withdraw, Exit
  <2>2. UNCHANGED <<supVars, loop, cur, conn, failed, announced, sent, queued, unsent>>
    BY DEF MainThread, Load, Poll, Count, Metrics, WriteReady, Withdraw, Exit
  <2>3. /\ main' \in {"load", "poll", "count", "metrics", "write", "unlink", "shutdown", "exited"}
        /\ link' \in {link, "none", "connecting"} /\ code' \in {code, 0, 1}
    BY DEF MainThread, Load, Poll, Count, Metrics, WriteReady, Withdraw, Exit, ExitCode
  <2>4. stopping' \in BOOLEAN /\ written' \in BOOLEAN
    BY Zenon
    DEF IInv, TypeOK, MainThread, Load, Poll, Count, Metrics, WriteReady, Withdraw, Exit
  <2> QED
    BY <2>1, <2>2, <2>3, <2>4 DEF IInv, TypeOK, supVars
<1>2. QueueStage'
  BY QueueKept
  DEF IInv, MainThread, Load, Poll, Count, Metrics, WriteReady, Withdraw, Exit, supVars
<1>3. UNCHANGED supVars /\ Alive
  BY DEF MainThread, Load, Poll, Count, Metrics, WriteReady, Withdraw, Exit, Alive
<1>4. SupervisorStage'
  BY <1>3 DEF IInv, SupervisorStage, supVars, Alive, MainThread
<1>5. ChildStage'
  BY <1>3
  DEF IInv, TypeOK, ChildStage, Alive, supVars, MainThread, Load, Poll, Count, Metrics,
      WriteReady, Withdraw, Exit, ExitCode, ReadyStage
<1>6. ReadyStage' /\ NoStaleReadiness'
  BY <1>3
  DEF IInv, TypeOK, ReadyStage, ChildStage, NoStaleReadiness, Alive, AllQueued, Drained,
      supVars, MainThread, Load, Poll, Count, Metrics, WriteReady, Withdraw, Exit
<1> QED
  BY <1>1, <1>2, <1>4, <1>5, <1>6 DEF IInv

----------------------------------------------------------------------------
(* What every callback that leaves the main thread where it is shares.     *)
LEMMA CallbackKeeps ==
    ASSUME IInv, UNCHANGED <<supVars, main, code>>, Alive, file' \in {0, file}
    PROVE  SupervisorStage' /\ NoStaleReadiness'
BY DEF IInv, SupervisorStage, NoStaleReadiness, Alive, supVars

(* The callbacks that change no count: the connection and its loss, a      *)
(* rejected track, and the stop they end with.                             *)
LEMMA ConnectionPreserves ==
    ASSUME IInv,
           ConnectFails \/ Gone \/ GoneChecked \/ CallbackStops
           \/ \E t \in Tracks : Rejected(t)
    PROVE  IInv'
<1>1. TypeOK'
  <2>1. file' \in -1..MaxStarts
    BY FileTyped
    DEF IInv, ConnectFails, Gone, GoneChecked, CallbackStops, Rejected
  <2>2. UNCHANGED <<supVars, main, cur, written, sent, queued, unsent, code>>
    BY DEF ConnectFails, Gone, GoneChecked, CallbackStops, Rejected
  <2>3. /\ loop' \in {loop, "idle", "gone", "stop"} /\ link' \in {link, "lost"}
        /\ announced' \subseteq announced
    BY DEF ConnectFails, Gone, GoneChecked, CallbackStops, Rejected, Answered
  <2>4. conn' \in BOOLEAN /\ failed' \in BOOLEAN /\ stopping' \in BOOLEAN
    BY Zenon
    DEF IInv, TypeOK, ConnectFails, Gone, GoneChecked, CallbackStops, Rejected
  <2> QED
    BY <2>1, <2>2, <2>3, <2>4 DEF IInv, TypeOK, supVars
<1>2. QueueStage'
  BY QueueKept
  DEF IInv, ConnectFails, Gone, GoneChecked, CallbackStops, Rejected, Answered
<1>3. /\ UNCHANGED <<supVars, main, code, queued, unsent>> /\ Alive /\ file' \in {0, file}
      /\ link' = link \/ link' = "lost"
      /\ loop' # loop => link' \notin {"none", "connecting"}
  BY DEF IInv, ChildStage, ConnectFails, Gone, GoneChecked, CallbackStops, Rejected,
         EventLoopFree
<1>4. ChildStage'
  BY <1>3 DEF IInv, TypeOK, ChildStage, Alive, supVars, ConnectFails, Gone, GoneChecked,
              CallbackStops, Rejected, EventLoopFree
<1>5. ReadyStage'
  BY <1>3 DEF IInv, ChildStage, ReadyStage, Alive, AllQueued, supVars
<1> QED
  BY <1>1, <1>2, <1>3, <1>4, <1>5, CallbackKeeps DEF IInv

(* The connection comes up: every track is announced, none is counted.     *)
LEMMA ConnectedPreserves ==
    ASSUME IInv, Connected
    PROVE  IInv'
<1>1. TypeOK'
  BY DEF IInv, TypeOK, Connected, supVars
<1>2. Counted({})'
  BY NothingCounted DEF IInv, ChildStage, Connected, EventLoopFree, Counted
<1>3. QueueStage'
  BY <1>2 DEF Connected, EventLoopFree, QueueStage, Sending
<1>4. ChildStage' /\ ReadyStage'
  BY DEF IInv, ChildStage, ReadyStage, Connected, EventLoopFree, Alive, AllQueued, supVars
<1> QED
  BY <1>1, <1>3, <1>4, CallbackKeeps DEF IInv, Connected, EventLoopFree

(* An answered track is not counted before it was sent.                    *)
LEMMA AcceptedPreserves ==
    ASSUME IInv, NEW t \in Tracks, Accepted(t)
    PROVE  IInv'
<1>1. TypeOK'
  <2>1. stopping' \in BOOLEAN
    BY Zenon DEF IInv, TypeOK, Accepted
  <2> QED
    BY <2>1 DEF IInv, TypeOK, Accepted, Answered, supVars
<1>2. PICK Q \in SUBSET Tracks : Counted(Q)
  BY DEF IInv, QueueStage
<1>3. Counted(Q)'
  BY <1>2 DEF Accepted, Answered, Counted, Sending, EventLoopFree
<1>4. QueueStage'
  BY <1>3 DEF Accepted, Answered, QueueStage, Sending, EventLoopFree
<1>5. ChildStage' /\ ReadyStage'
  BY DEF IInv, ChildStage, ReadyStage, Accepted, EventLoopFree, Alive, AllQueued, supVars
<1> QED
  BY <1>1, <1>4, <1>5, CallbackKeeps DEF IInv, Accepted, EventLoopFree

(* An object is sent of a track that is not counted, or the sending breaks *)
(* off with stopping set.                                                  *)
LEMMA SendObjectPreserves ==
    ASSUME IInv, SendObject
    PROVE  IInv'
<1>1. Sending /\ cur \in Tracks /\ cur \notin announced /\ Alive /\ ~AllQueued
  BY QueuedIsSent DEF IInv, QueueStage, ChildStage, SendObject, Sending
<1>2. sent' \in [Tracks -> Nat] /\ \A t \in Tracks : sent'[t] <= Objects(t)
  BY <1>1, TracksAreFinite DEF IInv, TypeOK, SendObject
<1>3. TypeOK'
  <2>1. stopping' \in BOOLEAN
    BY Zenon DEF IInv, TypeOK, SendObject
  <2> QED
    BY <1>2, <2>1 DEF IInv, TypeOK, SendObject, supVars
<1>4. PICK Q \in SUBSET Tracks : Counted(Q)
  BY DEF IInv, QueueStage
<1>5. Counted(Q)'
  BY <1>1, <1>4 DEF IInv, TypeOK, SendObject, Counted, Sending
<1>6. QueueStage'
  BY <1>1, <1>5 DEF SendObject, QueueStage, Sending
<1>7. ChildStage' /\ ReadyStage'
  BY <1>1 DEF IInv, ChildStage, ReadyStage, SendObject, Alive, AllQueued, supVars
<1> QED
  BY <1>1, <1>3, <1>6, <1>7, CallbackKeeps DEF IInv, SendObject

LEMMA AllSentPreserves ==
    ASSUME IInv, AllSent
    PROVE  IInv'
<1>1. TypeOK'
  BY DEF IInv, TypeOK, AllSent, supVars
<1>2. PICK Q \in SUBSET Tracks : Counted(Q)
  BY DEF IInv, QueueStage
<1>3. Counted(Q)'
  BY <1>2 DEF AllSent, Counted, Sending
<1>4. QueueStage'
  BY <1>3 DEF IInv, AllSent, QueueStage, Sending
<1>5. Alive /\ ChildStage' /\ ReadyStage'
  BY DEF IInv, ChildStage, ReadyStage, AllSent, Alive, AllQueued, supVars
<1> QED
  BY <1>1, <1>4, <1>5, CallbackKeeps DEF IInv, AllSent

(* The counted set grows by the track whose sending ended.                 *)
LEMMA CountTrackPreserves ==
    ASSUME IInv, CountTrack
    PROVE  IInv'
<1>1. Sending /\ cur \in Tracks /\ cur \notin announced /\ Alive /\ ~AllQueued
      /\ (stopping \/ sent[cur] = Objects(cur))
  BY QueuedIsSent DEF IInv, QueueStage, ChildStage, CountTrack, Sending
<1>2. PICK Q \in SUBSET Tracks : Counted(Q)
  BY DEF IInv, QueueStage
<1>3. IsFiniteSet(Q)
  BY TracksAreFinite, FS_Subset
<1>4. cur \notin Q
  BY <1>1, <1>2 DEF Counted
<1>5. Cardinality(Q \cup {cur}) = queued + 1
  BY <1>2, <1>3, <1>4, FS_AddElement DEF Counted
<1>6. Q \cup {cur} \in SUBSET Tracks
  BY <1>1
<1>7. Counted(Q \cup {cur})'
  BY <1>1, <1>2, <1>5, <1>6 DEF Counted, CountTrack, Sending
<1>8. QueueStage'
  BY <1>6, <1>7 DEF CountTrack, QueueStage, Sending
<1>9. queued + 1 <= Cardinality(Tracks)
  BY <1>5, <1>6, TracksAreFinite, FS_Subset
<1>10. TypeOK'
  BY <1>9, TracksAreFinite DEF IInv, TypeOK, CountTrack, supVars
<1>11. ChildStage' /\ ReadyStage'
  BY <1>1 DEF IInv, ChildStage, ReadyStage, CountTrack, Alive, AllQueued, supVars
<1> QED
  BY <1>1, <1>8, <1>10, <1>11, CallbackKeeps DEF IInv, CountTrack

LEMMA DrainPreserves ==
    ASSUME IInv, Drain
    PROVE  IInv'
<1>1. TypeOK'
  BY DEF IInv, TypeOK, Drain, supVars
<1>2. QueueStage'
  BY QueueKept DEF IInv, Drain
<1>3. ChildStage' /\ ReadyStage'
  BY DEF IInv, TypeOK, ChildStage, ReadyStage, Drain, Alive, AllQueued, supVars
<1> QED
  BY <1>1, <1>2, <1>3, CallbackKeeps DEF IInv, Drain

LEMMA UnchangedPreserves ==
    ASSUME IInv, UNCHANGED vars
    PROVE  IInv'
<1>1. QueueStage'
  BY QueueKept DEF IInv, vars, childVars
<1> QED
  BY <1>1
  DEF IInv, TypeOK, SupervisorStage, ChildStage, ReadyStage, NoStaleReadiness, Alive,
      AllQueued, vars, supVars, childVars

LEMMA NextIInv == IInv /\ [Next]_vars => IInv'
<1> SUFFICES ASSUME IInv, [Next]_vars PROVE IInv'
  OBVIOUS
<1>1. CASE Supervisor
  BY <1>1, SupervisorPreserves, SpawnPreserves, SignalPreserves DEF Supervisor
<1>2. CASE MainThread
  BY <1>2, MainThreadPreserves
<1>3. CASE Callback
  BY <1>3, SendObjectPreserves, AllSentPreserves, CountTrackPreserves, ConnectionPreserves
  DEF Callback
<1>4. CASE Environment
  BY <1>4, SupervisorPreserves, ConnectedPreserves, ConnectionPreserves, AcceptedPreserves,
     DrainPreserves
  DEF Environment
<1>5. CASE UNCHANGED vars
  BY <1>5, UnchangedPreserves
<1> QED
  BY <1>1, <1>2, <1>3, <1>4, <1>5 DEF Next, Done

LEMMA InductiveInvariant == Spec => []IInv
BY InitIInv, NextIInv, PTL DEF Spec

----------------------------------------------------------------------------
(* Every variable keeps its type; tracks_queued never exceeds the catalog. *)
THEOREM TypeCorrect == Spec => []TypeOK
<1>1. IInv => TypeOK
  BY DEF IInv
<1> QED
  BY <1>1, InductiveInvariant, PTL

(* A child never runs next to a readiness file of another one, however     *)
(* often the supervisor restarts it and whatever was on disk before.       *)
THEOREM NeverStale == Spec => []NoStaleReadiness
<1>1. IInv => NoStaleReadiness
  BY DEF IInv
<1> QED
  BY <1>1, InductiveInvariant, PTL

(* While the running child's file exists and it is not stopping, every     *)
(* object of every track of the manifest has left the transport's queue.   *)
THEOREM ReadyMeansPublished == Spec => []ReadyIsPublished
<1>1. IInv => ReadyIsPublished
  BY QueuedIsSent DEF IInv, ReadyStage, ReadyIsPublished
<1> QED
  BY <1>1, InductiveInvariant, PTL

(* A publisher that returned left no file, and a supervisor that returned  *)
(* left neither a file nor a child.                                        *)
THEOREM WithdrawnAtExit == Spec => []ExitWithdraws
<1>1. IInv => ExitWithdraws
  BY DEF IInv, ChildStage, SupervisorStage, ExitWithdraws
<1> QED
  BY <1>1, InductiveInvariant, PTL
=============================================================================
