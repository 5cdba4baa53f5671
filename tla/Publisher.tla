------------------------------ MODULE Publisher ------------------------------
(***************************************************************************)
(* The manifest publisher (priority_moq_publisher.c) under its supervisor  *)
(* (priority_publisher_supervisor.py).  Three threads of control share one *)
(* readiness file: the supervisor's loop, the publisher's main loop, and   *)
(* the event loop of the MoQ library that runs the publisher's callbacks.  *)
(* The relay, the link and the files of the manifest are the environment.  *)
(*                                                                         *)
(* Times are abstracted: ready_timeout and the five seconds of the         *)
(* supervisor's wait may elapse at any moment.                             *)
(***************************************************************************)
EXTENDS Integers, Sequences, FiniteSets

CONSTANTS
    Refinements,    \* the manifest: a sequence of [named, objects] records,
                    \* named: the track has a file and the scene's prefix
    MaxStarts       \* bound: how often the supervisor starts a publisher

ASSUME RefinementsAssumption ==
    Refinements \in Seq([named : BOOLEAN, objects : Nat])
ASSUME MaxStartsAssumption == MaxStarts \in Nat \ {0}

(***************************************************************************)
(* load_manifest: the catalog holds the refinements that name a track of   *)
(* the scene and have objects.  A track is its position in the manifest.   *)
(***************************************************************************)
Tracks == {i \in DOMAIN Refinements : Refinements[i].named /\ Refinements[i].objects > 0}
Objects(t) == Refinements[t].objects

VARIABLES
    sup,        \* where supervise() is
    stop,       \* the supervisor's stop event
    ready,      \* supervise(): this child has been seen ready
    gen,        \* how many children were started; the current child's name
    file,       \* the readiness file: 0 absent, g written by child g, -1 stale
    main,       \* where the publisher's main thread is, "none" without a child
    loop,       \* where the event loop's current callback is
    cur,        \* the track publish_accepted is sending
    link,       \* the QUIC connection
    conn,       \* publisher_connection is set
    stopping, failed, written,    \* stopping, publication_failed, readiness_written
    announced,  \* tracks whose PUBLISH is not answered yet
    sent,       \* sent[t]: objects of t handed to the transport
    queued,     \* tracks_queued
    unsent,     \* objects the transport has not put on the wire
    code        \* exit code of the last child, -1 when killed by a signal

supVars == <<sup, stop, ready, gen>>
childVars == <<main, loop, cur, link, conn, stopping, failed, written,
               announced, sent, queued, unsent, code>>
vars == <<supVars, file, childVars>>

Alive == main \notin {"none", "exited"}

FreshChild ==
    /\ main' = "load" /\ loop' = "idle" /\ cur' = 0 /\ link' = "none"
    /\ conn' = FALSE /\ stopping' = FALSE /\ failed' = FALSE /\ written' = FALSE
    /\ announced' = {} /\ sent' = [t \in Tracks |-> 0] /\ queued' = 0 /\ unsent' = 0
    /\ code' = 0

(* A readiness file may be left from an earlier supervisor.                *)
Init ==
    /\ sup = "clear" /\ stop = FALSE /\ ready = FALSE /\ gen = 0
    /\ file \in {0, -1}
    /\ main = "none" /\ loop = "idle" /\ cur = 0 /\ link = "none"
    /\ conn = FALSE /\ stopping = FALSE /\ failed = FALSE /\ written = FALSE
    /\ announced = {} /\ sent = [t \in Tracks |-> 0] /\ queued = 0 /\ unsent = 0
    /\ code = 0

----------------------------------------------------------------------------
(* The supervisor                                                          *)

(* ready_file.unlink(missing_ok=True), before a child starts.              *)
M_Clear == sup = "clear" /\ sup' = "spawn" /\ UNCHANGED <<stop, ready, gen, file, childVars>>
Clear ==
    /\ sup = "clear"
    /\ file' = 0
    /\ sup' = "spawn"
    /\ UNCHANGED <<stop, ready, gen, childVars>>

Spawn ==
    /\ sup = "spawn"
    /\ gen' = gen + 1
    /\ ready' = FALSE
    /\ sup' = "watch"
    /\ FreshChild
    /\ UNCHANGED <<stop, file>>

(* One turn of the watch loop that sees the file.                          *)
SeeReady ==
    /\ sup = "watch" /\ Alive /\ ~stop
    /\ ~ready /\ file # 0
    /\ ready' = TRUE
    /\ UNCHANGED <<sup, stop, gen, file, childVars>>

(* ready_timeout only counts against a child never seen ready.             *)
M_TimedOut == ~ready /\ file = 0 /\ link = "lost"
TimedOut == ~ready /\ file = 0

ReadinessTimesOut ==
    /\ sup = "watch" /\ Alive /\ ~stop
    /\ TimedOut
    /\ sup' = "end"
    /\ UNCHANGED <<stop, ready, gen, file, childVars>>

M_WatchOver == ~Alive
WatchOver == ~Alive \/ stop

WatchEnds ==
    /\ sup = "watch"
    /\ WatchOver
    /\ sup' = "end"
    /\ UNCHANGED <<stop, ready, gen, file, childVars>>

(* child.terminate(): SIGTERM, whose handler sets stopping.                *)
Terminate ==
    /\ sup = "end"
    /\ IF Alive THEN /\ stopping' = TRUE
                     /\ sup' = "reap"
                ELSE /\ sup' = "clean"
                     /\ UNCHANGED stopping
    /\ UNCHANGED <<stop, ready, gen, file, main, loop, cur, link, conn, failed,
                   written, announced, sent, queued, unsent, code>>

(* child.wait(timeout=5), then child.kill() and child.wait().              *)
Reap ==
    /\ sup = "reap"
    /\ \/ /\ ~Alive
          /\ UNCHANGED childVars
       \/ /\ Alive
          /\ main' = "exited" /\ loop' = "idle" /\ link' = "none" /\ code' = -1
          /\ UNCHANGED <<cur, conn, stopping, failed, written, announced, sent,
                         queued, unsent>>
    /\ sup' = "clean"
    /\ UNCHANGED <<stop, ready, gen, file>>

(* ready_file.unlink(missing_ok=True), after the child has ended.          *)
CleanUp ==
    /\ sup = "clean"
    /\ file' = 0
    /\ sup' = IF stop THEN "done" ELSE "delay"
    /\ UNCHANGED <<stop, ready, gen, childVars>>

(* stop.wait(restart_delay) and the while condition.                       *)
Restart ==
    /\ sup = "delay"
    /\ IF stop THEN sup' = "done"
               ELSE gen < MaxStarts /\ sup' = "clear"
    /\ UNCHANGED <<stop, ready, gen, file, childVars>>

RequestStop ==
    /\ ~stop
    /\ stop' = TRUE
    /\ UNCHANGED <<sup, ready, gen, file, childVars>>

----------------------------------------------------------------------------
(* The publisher's main thread                                             *)

(* load_manifest fails on an empty catalog; otherwise the endpoint starts. *)
Load ==
    /\ main = "load"
    /\ IF Tracks = {}
         THEN main' = "exited" /\ code' = 1 /\ UNCHANGED link
         ELSE main' = "poll" /\ link' = "connecting" /\ UNCHANGED code
    /\ UNCHANGED <<supVars, file, loop, cur, conn, stopping, failed, written,
                   announced, sent, queued, unsent>>

(* while(!stopping): the flag is read here ...                             *)
Poll ==
    /\ main = "poll"
    /\ main' = IF stopping THEN "unlink" ELSE "count"
    /\ UNCHANGED <<supVars, file, loop, cur, link, conn, stopping, failed, written,
                   announced, sent, queued, unsent, code>>

(* ... and the number of queued tracks after it.                           *)
AllQueued == queued = Cardinality(Tracks)

Count ==
    /\ main = "count"
    /\ main' = IF ~written /\ AllQueued THEN "metrics" ELSE "poll"
    /\ UNCHANGED <<supVars, file, loop, cur, link, conn, stopping, failed, written,
                   announced, sent, queued, unsent, code>>

(* Takes publisher_mutex, which it keeps in "write".                       *)
M_Drained == conn
Drained == conn /\ unsent = 0

Metrics ==
    /\ main = "metrics"
    /\ main' = IF Drained THEN "write" ELSE "poll"
    /\ UNCHANGED <<supVars, file, loop, cur, link, conn, stopping, failed, written,
                   announced, sent, queued, unsent, code>>

MutexFree == main # "write"

(* g_file_set_contents replaces the file atomically, or fails.             *)
WriteReady ==
    /\ main = "write"
    /\ \/ file' = gen /\ UNCHANGED stopping
       \/ stopping' = TRUE /\ UNCHANGED file
    /\ written' = TRUE
    /\ main' = "poll"
    /\ UNCHANGED <<supVars, loop, cur, link, conn, failed, announced, sent, queued,
                   unsent, code>>

(* The last g_unlink(ready_path) of main.                                  *)
M_Withdraw ==
    /\ main = "unlink" /\ main' = "shutdown"
    /\ UNCHANGED <<supVars, file, loop, cur, link, conn, stopping, failed, written,
                   announced, sent, queued, unsent, code>>

Withdraw ==
    /\ main = "unlink"
    /\ file' = 0
    /\ main' = "shutdown"
    /\ UNCHANGED <<supVars, loop, cur, link, conn, stopping, failed, written,
                   announced, sent, queued, unsent, code>>

(* imquic_shutdown_endpoint joins the event loop.                          *)
ExitCode == IF failed THEN 1 ELSE 0

Exit ==
    /\ main = "shutdown"
    /\ loop = "idle"
    /\ main' = "exited" /\ link' = "none" /\ code' = ExitCode
    /\ UNCHANGED <<supVars, file, loop, cur, conn, stopping, failed, written,
                   announced, sent, queued, unsent>>

----------------------------------------------------------------------------
(* The event loop's callbacks, one at a time                               *)

EventLoopFree == Alive /\ loop = "idle"

(* publish_ready                                                           *)
Connected ==
    /\ EventLoopFree /\ link = "connecting" /\ MutexFree
    /\ link' = "up" /\ conn' = TRUE
    /\ announced' = Tracks
    /\ UNCHANGED <<supVars, file, main, loop, cur, stopping, failed, written, sent,
                   queued, unsent, code>>

(* publisher_failed                                                        *)
ConnectFails ==
    /\ EventLoopFree /\ link = "connecting"
    /\ link' = "lost" /\ failed' = TRUE /\ file' = 0 /\ stopping' = TRUE
    /\ UNCHANGED <<supVars, main, loop, cur, conn, written, announced, sent, queued,
                   unsent, code>>

(* A PUBLISH is answered once.                                             *)
Answered(t) == announced \ {t}

(* publish_accepted: the track's file is read, or the publisher stops.     *)
Accepted(t) ==
    /\ EventLoopFree /\ link = "up" /\ t \in announced
    /\ announced' = Answered(t)
    /\ \/ loop' = "send" /\ cur' = t /\ UNCHANGED stopping
       \/ stopping' = TRUE /\ UNCHANGED <<loop, cur>>
    /\ UNCHANGED <<supVars, file, main, link, conn, failed, written, sent, queued,
                   unsent, code>>

(* One object: a range outside the file, or a failed send, breaks off.     *)
SendObject ==
    /\ loop = "send" /\ sent[cur] < Objects(cur)
    /\ \/ /\ link = "up"
          /\ sent' = [sent EXCEPT ![cur] = @ + 1]
          /\ unsent' = unsent + 1
          /\ UNCHANGED <<loop, stopping>>
       \/ /\ stopping' = TRUE
          /\ loop' = "sent"
          /\ UNCHANGED <<sent, unsent>>
    /\ UNCHANGED <<supVars, file, main, cur, link, conn, failed, written, announced,
                   queued, code>>

AllSent ==
    /\ loop = "send" /\ sent[cur] = Objects(cur)
    /\ loop' = "sent"
    /\ UNCHANGED <<supVars, file, main, cur, link, conn, stopping, failed, written,
                   announced, sent, queued, unsent, code>>

(* g_atomic_int_inc(&tracks_queued), after the break too.                  *)
CountTrack ==
    /\ loop = "sent"
    /\ queued' = queued + 1
    /\ loop' = "idle"
    /\ UNCHANGED <<supVars, file, main, cur, link, conn, stopping, failed, written,
                   announced, sent, unsent, code>>

(* publish_error: the file is removed, then the main loop is told.         *)
Rejected(t) ==
    /\ EventLoopFree /\ link = "up" /\ t \in announced
    /\ announced' = Answered(t)
    /\ failed' = TRUE /\ file' = 0
    /\ loop' = "stop"
    /\ UNCHANGED <<supVars, main, cur, link, conn, stopping, written, sent, queued,
                   unsent, code>>

(* publisher_gone: the connection is dropped under the mutex, then the     *)
(* flag is looked at.                                                      *)
Gone ==
    /\ EventLoopFree /\ link = "up" /\ MutexFree
    /\ link' = "lost" /\ conn' = FALSE
    /\ loop' = "gone"
    /\ UNCHANGED <<supVars, file, main, cur, stopping, failed, written, announced,
                   sent, queued, unsent, code>>

GoneChecked ==
    /\ loop = "gone"
    /\ IF stopping THEN loop' = "idle" /\ UNCHANGED <<failed, file>>
                   ELSE loop' = "stop" /\ failed' = TRUE /\ file' = 0
    /\ UNCHANGED <<supVars, main, cur, link, conn, stopping, written, announced,
                   sent, queued, unsent, code>>

(* stopping = 1, the last statement of both.                               *)
M_CallbackStops ==
    /\ loop = "stop" /\ loop' = "idle"
    /\ UNCHANGED <<supVars, file, main, cur, link, conn, stopping, failed, written,
                   announced, sent, queued, unsent, code>>

CallbackStops ==
    /\ loop = "stop"
    /\ stopping' = TRUE
    /\ loop' = "idle"
    /\ UNCHANGED <<supVars, file, main, cur, link, conn, failed, written, announced,
                   sent, queued, unsent, code>>

(* The transport puts a queued object on the wire.                         *)
Drain ==
    /\ Alive /\ link = "up" /\ unsent > 0
    /\ unsent' = unsent - 1
    /\ UNCHANGED <<supVars, file, main, loop, cur, link, conn, stopping, failed,
                   written, announced, sent, queued, code>>

----------------------------------------------------------------------------
Supervisor ==
    \/ Clear \/ Spawn \/ SeeReady \/ ReadinessTimesOut \/ WatchEnds \/ Terminate
    \/ Reap \/ CleanUp \/ Restart

MainThread ==
    \/ Load \/ Poll \/ Count \/ Metrics \/ WriteReady \/ Withdraw \/ Exit

Callback == SendObject \/ AllSent \/ CountTrack \/ GoneChecked \/ CallbackStops

Environment ==
    \/ RequestStop \/ Connected \/ ConnectFails \/ Gone \/ Drain
    \/ \E t \in Tracks : Accepted(t) \/ Rejected(t)

Done == sup = "done" /\ UNCHANGED vars

Next == Supervisor \/ MainThread \/ Callback \/ Environment \/ Done

Spec == Init /\ [][Next]_vars

(***************************************************************************)
(* Every thread that can run does run; the supervisor's timers expire.     *)
(* Nothing is assumed of the relay, of the link or of who asks to stop.    *)
(***************************************************************************)
FairSpec ==
    /\ Spec
    /\ WF_vars(MainThread) /\ WF_vars(Callback) /\ WF_vars(Supervisor)

----------------------------------------------------------------------------
TypeOK ==
    /\ sup \in {"clear", "spawn", "watch", "end", "reap", "clean", "delay", "done"}
    /\ stop \in BOOLEAN /\ ready \in BOOLEAN
    /\ gen \in 0..MaxStarts /\ file \in -1..MaxStarts
    /\ main \in {"none", "load", "poll", "count", "metrics", "write", "unlink",
                 "shutdown", "exited"}
    /\ loop \in {"idle", "send", "sent", "gone", "stop"}
    /\ link \in {"none", "connecting", "up", "lost"}
    /\ cur \in Tracks \cup {0}
    /\ conn \in BOOLEAN /\ stopping \in BOOLEAN
    /\ failed \in BOOLEAN /\ written \in BOOLEAN
    /\ announced \subseteq Tracks
    /\ sent \in [Tracks -> Nat] /\ \A t \in Tracks : sent[t] <= Objects(t)
    /\ queued \in 0..Cardinality(Tracks)
    /\ unsent \in Nat
    /\ code \in {-1, 0, 1}

(***************************************************************************)
(* A child never runs next to a readiness file it did not write itself:    *)
(* whatever an earlier child or an earlier supervisor left behind is gone  *)
(* before the process starts (supervise, lines 16 and 34).                 *)
(***************************************************************************)
NoStaleReadiness == Alive => file \in {0, gen}

(***************************************************************************)
(* Readiness means published: while the file of the running child exists,  *)
(* every object of every track of the catalog was handed to the transport  *)
(* and left its queue, unless the child is already on its way out.  The    *)
(* count of queued tracks alone would not say so: publish_accepted counts  *)
(* a track whose sending broke off (lines 121, 129 and 132).               *)
(***************************************************************************)
ReadyIsPublished ==
    (Alive /\ file = gen /\ ~stopping) =>
        /\ \A t \in Tracks : sent[t] = Objects(t)
        /\ unsent = 0

(***************************************************************************)
(* A publisher that returns from main leaves no readiness file, although a *)
(* callback's unlink may come before the main loop's write (lines 62, 76,  *)
(* 140, 212 and 220); and when supervise() returns there is neither a      *)
(* child nor a file, even when the child was killed with its file in place.*)
(***************************************************************************)
ExitWithdraws ==
    /\ (main = "exited" /\ code # -1) => file # gen
    /\ sup = "done" => (file = 0 /\ ~Alive)

(***************************************************************************)
(* "Keep a persistent player's publisher available across connection       *)
(* loss": a lost connection is followed by another child, unless the       *)
(* supervisor is asked to stop or the bound on starts is reached.          *)
(***************************************************************************)
LossRestarts ==
    \A g \in 1..(MaxStarts - 1) :
        (gen = g /\ link = "lost") ~> (gen > g \/ stop)

(***************************************************************************)
(* A child that never becomes ready is replaced (ready_timeout).           *)
(***************************************************************************)
NeverReadyRestarts ==
    \A g \in 1..(MaxStarts - 1) :
        (gen = g /\ sup = "watch") ~> (ready \/ gen > g \/ stop)

(***************************************************************************)
(* Both ways in which a child is of no use any more lead to another one,   *)
(* also when the child does not end by itself.                             *)
(***************************************************************************)
UselessChildIsReplaced == LossRestarts /\ NeverReadyRestarts

(***************************************************************************)
(* A request to stop ends the supervisor, wherever it and its child are.   *)
(***************************************************************************)
StopEnds == stop ~> (sup = "done")
=============================================================================
