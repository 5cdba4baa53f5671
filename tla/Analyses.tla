------------------------------ MODULE Analyses ------------------------------
(***************************************************************************)
(* The computations around a run, driven one input at a time: in each      *)
(* behaviour one tool is given one more object, row, frame, Gaussian or    *)
(* case after the other, and what it computes of the inputs so far must    *)
(* be right after each of them.  `log` is the input of the tool:           *)
(*   "stalls"   a run of StallAnalysis;                                    *)
(*   "scene"    the Gaussians of ScenePreparation;                         *)
(*   "payload"  envelopes, "rates" rows, and "cases" cases of              *)
(*              RetainedEvidence;                                          *)
(*   "trace"    how many frames of the generated trace are looked at,      *)
(*   "compare"  two captures and the logs of FFmpeg, and                   *)
(*   "gate"     the manifest, rows and history of the loopback audit,      *)
(*              of PlaybackInputs.                                         *)
(***************************************************************************)
EXTENDS StallAnalysis, ScenePreparation, RetainedEvidence, PlaybackInputs

CONSTANTS
    MaxObjects, MaxRows,    \* bounds on a run of the stall analysis
    MaxGaussians,           \* bound on a scene
    MaxEntries,             \* bound on envelopes, rates and cases
    MaxFrames, MaxLines     \* bounds on captures and on their logs

ASSUME AnalysesAssumption ==
    {MaxObjects, MaxRows, MaxGaussians, MaxEntries, MaxFrames, MaxLines} \subseteq Nat

VARIABLES tool, log

vars == <<tool, log>>

Captures == [complete : BOOLEAN, frames : {<<>>}]

(* What each tool starts from.                                             *)
Fresh(t) ==
    CASE t = "stalls" ->
            [objects : {{}}, rows : {<<>>}, origins : {<<>>, <<0>>}, wall : {1},
             horizon : BOOLEAN, counters : BOOLEAN]
      [] t \in {"scene", "payload", "rates", "cases"} -> {<<>>}
      [] t = "trace" -> {0}
      [] t = "compare" -> [candidate : Captures, reference : Captures, ssim : {<<>>}, psnr : {<<>>}]
      [] t = "gate" -> [expected : {{1}, {1, 2}}, rows : {<<>>}, history : {<<>>}]

Tools == {"stalls", "scene", "payload", "rates", "cases", "trace", "compare", "gate"}

Init == tool \in Tools /\ log \in Fresh(tool)

Uses(t) == tool = t /\ UNCHANGED tool

----------------------------------------------------------------------------
(* Inputs                                                                  *)

(* An object event; the native time lies before it by a delay of 0 or 1.   *)
ObjectEvent ==
    /\ Uses("stalls") /\ Cardinality(log.objects) < MaxObjects
    /\ \E at \in (Started + 1)..(Horizon + 1) : \E native \in {NoTime, at, at + 1} :
          /\ \A e \in log.objects : e.at < at
          /\ log' = [log EXCEPT !.objects = @ \cup {[at |-> at, native |-> native]}]

(* A row of the relay's metrics, later than the ones before it.            *)
MetricsRow ==
    /\ Uses("stalls") /\ log.objects = {} /\ Len(log.rows) < MaxRows
    /\ \E row \in [connection : {1, 2}, at : (Started + 1)..(Horizon + 1), sent : {0, 1},
                   pending : BOOLEAN] :
          /\ IF log.rows = <<>> THEN row.connection = 1 /\ row.sent = 0
                                ELSE row.at > Last(log.rows).at
          /\ log' = [log EXCEPT !.rows = Append(@, row)]

Gaussian ==
    /\ Uses("scene") /\ Len(log) < MaxGaussians
    /\ \E gaussian \in [at : {<<0, 0, 0>>, <<2, 0, 0>>}, opacity : 1..2]
                          \cup [at : {<<0, 1, 0>>, <<0, 0, 1>>, <<0, 0, 2>>}, opacity : {1}] :
          log' = Append(log, gaussian)

Envelope ==
    /\ Uses("payload") /\ Len(log) < MaxEntries
    /\ \E envelope \in [time : -1..Length, bytes : 1..2, fine : BOOLEAN] :
          log' = Append(log, envelope)

Counter ==
    /\ Uses("rates") /\ Len(log) < MaxEntries
    /\ \E row \in [connection : {1, 2}, time : 0..3, counter : {Missing} \cup 0..2] :
          /\ log # <<>> => Last(log).time <= row.time
          /\ log' = Append(log, row)

(* Runs of two controllers at two rates, with one guest or with two.       *)
Case ==
    /\ Uses("cases") /\ Len(log) < MaxEntries
    /\ \E controller \in {"reno", "prague"}, rate \in {"20mbit", "100mbit"},
          sampled \in {{}, {"h"}, {"g", "h"}}, named \in {"none", "g"}, other \in {"none", "20mbit"} :
          log' = Append(log,
                    [controller |-> controller, recordedController |-> controller,
                     rate |-> rate, recordedRate |-> [g |-> rate, h |-> other],
                     listed |-> {"g", "h"}, sampled |-> sampled, named |-> named,
                     status |-> "PASS"])

Frame == Uses("trace") /\ log < Len(GenerateTrace) /\ log' = log + 1

(* A frame of a capture; one without its image is not looked at further.   *)
Capture ==
    /\ Uses("compare") /\ log.ssim = <<>> /\ log.psnr = <<>>
    /\ \E side \in {"candidate", "reference"}, index \in 0..1, timestamp \in 0..1,
          pose \in {"a", "b"}, image \in BOOLEAN :
          /\ Len(log[side].frames) < MaxFrames
          /\ ~image => pose = "a"
          /\ log' = [log EXCEPT ![side].frames =
                        Append(@, [index |-> index, timestamp |-> timestamp,
                                   pose |-> pose, image |-> image])]

(* FFmpeg runs on captures that belong together.                           *)
MetricLine ==
    /\ Uses("compare")
    /\ LoadFrames(log.candidate) /\ LoadFrames(log.reference)
    /\ SameCamera(log.candidate.frames, log.reference.frames)
    /\ \E stats \in {"ssim", "psnr"}, n \in 1..MaxFrames :
          /\ Len(log[stats]) < MaxLines
          /\ log' = [log EXCEPT ![stats] = Append(@, n)]

(* A row of the deliveries, with at most one thing wrong.                  *)
Delivery ==
    /\ Uses("gate") /\ Len(log.rows) < 2
    /\ \E key \in 1..2, status \in {"delivered", "undelivered", "pending"},
          wrong \in {"nothing", "agrees", "intact", "mapped"} :
          log' = [log EXCEPT !.rows =
                     Append(@, [key |-> key, status |-> status, agrees |-> wrong # "agrees",
                                intact |-> wrong # "intact", mapped |-> wrong # "mapped"])]

Update ==
    /\ Uses("gate") /\ Len(log.history) < 2
    /\ \E key \in 1..2, kind \in {"accepted", "rejected"} :
          log' = [log EXCEPT !.history = Append(@, <<key, kind>>)]

Next ==
    \/ ObjectEvent \/ MetricsRow \/ Gaussian \/ Envelope \/ Counter \/ Case
    \/ Frame \/ Capture \/ MetricLine \/ Delivery \/ Update

Spec == Init /\ [][Next]_vars

----------------------------------------------------------------------------
(* The stall analysis                                                      *)

(* The relay had data for connection c and sent none from row i to row j.  *)
Stuck(rows, i, j) ==
    \A k \in i..(j - 1) : rows[k].pending /\ rows[k].sent = rows[k + 1].sent

(* PASS leaves no room for a stall: while the transfer was pending no time *)
(* of the threshold's length passed without an object in it, and no        *)
(* connection was stuck for that long, whatever the boundaries of the      *)
(* intervals and the pairs of rows it was computed from.                   *)
GateIsSound ==
    tool = "stalls" /\ ExitStatus(log) = 0 =>
        /\ \A from \in Started..(PendingEnd(log) - Threshold) :
              \E e \in log.objects : from < e.at /\ e.at < from + Threshold
        /\ \A c \in Connections(log) :
              LET rows == RowsOf(log, c)
              IN \A i, j \in DOMAIN rows :
                    i < j /\ Stuck(rows, i, j) =>
                        Earlier(NativeEnd(log), rows[j].at)
                            - Later(NativeStart(log), rows[i].at) < Threshold

(* Where the counters are those of the horizon and the clocks those of the *)
(* samples, an object after the horizon changes no verdict ("Post-horizon  *)
(* events never extend progress.", tools/l4s/analyze_player_stalls.py:107).*)
LateObjectsChangeNothing ==
    [][ /\ tool = "stalls" /\ log.horizon /\ log.origins # <<>>
        /\ \E e \in log'.objects \ log.objects : e.at > Horizon
        => ExitStatus(log') = ExitStatus(log) ]_vars

----------------------------------------------------------------------------
(* Scenes                                                                  *)

Permutes(names, source) ==
    IsInjective(names) /\ ToSet(names) = DOMAIN source

(* Every Gaussian of the source is in one object; tiles and objects keep   *)
(* their limits, a tile lies in one cell, its layers are in descending     *)
(* opacity, the player accepts the manifest, and the publisher's           *)
(* priorities rise from 0 along the objects of a layer to 255 at most.     *)
ExportKeepsEverything(source) ==
    LET export == Export(source)
        manifest == Manifest(source)
        inTile(t) == FlattenSeq([k \in DOMAIN Fractions |-> FlattenSeq(export[t][k])])
        tiles == [t \in DOMAIN export |-> inTile(t)]
    IN /\ Permutes(FlattenSeq(tiles), source)
       /\ \A t \in DOMAIN tiles :
             /\ TileLimit > 0 => Len(tiles[t]) <= TileLimit
             /\ Cardinality({Cell(source, i) : i \in ToSet(tiles[t])}) = 1
             /\ \A i, j \in DOMAIN tiles[t] :
                   i < j => source[tiles[t][i]].opacity >= source[tiles[t][j]].opacity
             /\ \A k \in DOMAIN Fractions : \A o \in DOMAIN export[t][k] :
                   Len(export[t][k][o]) \in 1..Chunk
       /\ ValidManifest(manifest)
       /\ \A t \in DOMAIN manifest.tiles : \A k \in DOMAIN Fractions :
             LET p == manifest.tiles[t].refinements[k].priorities
             IN \A j \in DOMAIN p : p[j] \in 0..255 /\ (IF j = 1 THEN p[j] = 0 ELSE p[j - 1] < p[j])

(* The parts in order are the Gaussians by descending opacity, and only    *)
(* the last part may hold fewer than the limit.                            *)
ConversionKeepsEverything(source) ==
    LET parts == Parts(source)
    IN /\ FlattenSeq(parts) = Ordered(source)
       /\ PartLimit > 0 =>
             \A p \in DOMAIN parts :
                 /\ Len(parts[p]) \in 1..PartLimit
                 /\ p < Len(parts) => Len(parts[p]) = PartLimit

(* Neither the export nor the conversion of a scene loses, repeats or      *)
(* misplaces a Gaussian, wherever the Gaussians lie and however opaque     *)
(* they are: not in the cut into cells, halves, layers, objects or parts.  *)
(* (Line 102 rounds, so the priorities of a layer rise up to its 256th     *)
(* object; more than two objects of a layer are beyond the bounds here.)   *)
ScenesAreKept ==
    tool = "scene" /\ log # <<>> => ExportKeepsEverything(log) /\ ConversionKeepsEverything(log)

----------------------------------------------------------------------------
(* Retained evidence                                                       *)

(* The bins hold what counted within the trace, the zero intervals are the *)
(* longest runs of empty bins, and the sum that the player accepted up to  *)
(* the horizon agrees with the envelopes unless one that does not count    *)
(* arrived before the trace.                                               *)
BinsReconcile(envelopes) ==
    LET bins == PayloadBins(envelopes)
        zero == ZeroIntervals(bins)
    IN /\ Envelopes(envelopes) =
              BytesOf(envelopes,
                  {i \in DOMAIN envelopes : envelopes[i].fine /\ envelopes[i].time \in 0..(Length - 1)})
       /\ \A b \in Bins :
             bins[b] = 0 <=> \E z \in zero : z[1] <= BinStart(b) /\ BinEnd(b) <= z[2]
       /\ \A y, z \in zero : y[2] # z[1]
       /\ Reconciled(envelopes, BytesOf(envelopes,
              {i \in DOMAIN envelopes : envelopes[i].fine /\ envelopes[i].time < Length}))
          <=> \A i \in DOMAIN envelopes : envelopes[i].time < 0 => envelopes[i].fine

(* The rates of a connection whose counter is there and never decreases,   *)
(* at times that differ, add up to what it counted within the trace.       *)
RatesReconcile(rows) ==
    \A c \in {rows[i].connection : i \in DOMAIN rows} :
        LET own == {i \in DOMAIN rows : rows[i].connection = c}
            clean == \A i, j \in own : i < j =>
                        /\ rows[i].time < rows[j].time
                        /\ 0 <= rows[i].counter /\ rows[i].counter <= rows[j].counter
        IN clean =>
              Total([i \in DOMAIN rows |->
                        IF i \in own /\ HasRate(rows, i) THEN RateBytes(rows, i) ELSE 0])
                  = rows[Max(own)].counter - rows[Min(own)].counter

(* Accepted cases and missing ones make up the table of both controllers   *)
(* at each rate; and a case without a gap has the rate its samples had.    *)
CasesReconcile(cases) ==
    Loaded(cases) =>
        /\ Len(cases) + Cardinality(MissingComparisons(cases))
               = 2 * Cardinality({cases[i].rate : i \in DOMAIN cases})
        /\ \A i \in DOMAIN cases :
              DataGaps(cases[i]) = {} =>
                  \E d \in cases[i].sampled : cases[i].recordedRate[d] \in {"none", cases[i].rate}
        /\ \A controller \in RateComparisons(cases) :
              \A missing \in MissingComparisons(cases) : missing[2] # controller

(* What is plotted adds up to what was retained.                           *)
EvidenceReconciles ==
    /\ tool = "payload" => BinsReconcile(log)
    /\ tool = "rates" => RatesReconcile(Aligned(log, 0, 1))
    /\ tool = "cases" => CasesReconcile(log)

----------------------------------------------------------------------------
(* Playback inputs and gates                                               *)

Distance(a, b) == IF a >= b THEN a - b ELSE b - a

(* The camera of the generated trace turns without a jump, ends where it   *)
(* began, and the player accepts the trace, as it does the synthetic one.  *)
TraceTurns(n) ==
    LET yaw(i) == GenerateTrace[i].yaw
    IN /\ n > 1 => Distance(yaw(n), yaw(n - 1)) <= 12000
       /\ n = Len(GenerateTrace) =>
             /\ yaw(1) = 0 /\ yaw(n) = -3600000
             /\ ValidTrace(GenerateTrace) /\ ValidTrace(PreflightTrace(31))

(* A comparison that passes has compared each frame with the only one of   *)
(* its time, under the same camera, and has both metrics of it.            *)
ComparisonPairs(c) ==
    CompareSequence(c.candidate, c.reference, c.ssim, c.psnr) =>
        /\ \A i \in DOMAIN c.candidate.frames, j \in DOMAIN c.reference.frames :
              c.candidate.frames[i].timestamp = c.reference.frames[j].timestamp =>
                  i = j /\ c.candidate.frames[i].pose = c.reference.frames[j].pose
        /\ \A i \in DOMAIN c.candidate.frames :
              i \in ToSet(c.ssim) /\ i \in ToSet(c.psnr)

(* The counts of a gate that passes add up to the manifest, and the        *)
(* history has the two accepted updates that the gate asks for.  Whether   *)
(* they are of an object of the manifest is not looked at.                 *)
GateAddsUp(g) ==
    GatePasses(g.expected, g.rows, g.history) =>
        /\ WithStatus(g.rows, "delivered") + WithStatus(g.rows, "undelivered") = Cardinality(g.expected)
        /\ Len(g.history) >= 2

(* What a playback is fed with, and what is accepted of it.                *)
InputsAreSound ==
    /\ tool = "trace" => TraceTurns(log)
    /\ tool = "compare" => ComparisonPairs(log)
    /\ tool = "gate" => GateAddsUp(log)

=============================================================================
