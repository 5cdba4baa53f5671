--------------------------- MODULE PlaybackInputs ---------------------------
(***************************************************************************)
(* What a playback is fed with and what is accepted of it afterwards: the  *)
(* camera traces (generate_camera_priority_trace.py, and the synthetic one *)
(* of run_priority_audit_loopback.py) and what the player accepts of them  *)
(* (run_camera_trace_player.py), the comparison of two captured sequences  *)
(* (compare_player_sequence.py), and the gate of the loopback audit.       *)
(*                                                                         *)
(* Operators only.  Angles are in units of 1/10000 degree, which makes the *)
(* generated ones integers; a camera pose is one value.                    *)
(***************************************************************************)
EXTENDS Integers, Sequences, FiniteSets

----------------------------------------------------------------------------
(* Traces                                                                  *)

M_YawAt(t) ==
    IF t <= 15000 THEN -120 * t
    ELSE IF t <= 25000 THEN -1800000 + 90 * (t - 15000)
    ELSE -108 * (t - 25000)
YawAt(t) ==
    IF t <= 15000 THEN -120 * t
    ELSE IF t <= 25000 THEN -1800000 + 90 * (t - 15000)
    ELSE -900000 - 108 * (t - 25000)

(* One frame each 100 ms, up to and including 50 seconds.                  *)
GenerateTrace ==
    [i \in 1..501 |-> [timestamp |-> (i - 1) * 100, yaw |-> YawAt((i - 1) * 100), complete |-> TRUE]]

(* The synthetic trace turns once in as many epochs as it is asked for.    *)
PreflightTrace(epochs) ==
    [i \in 1..epochs |-> [timestamp |-> (i - 1) * 100,
                          yaw |-> -((3600000 * (i - 1)) \div (epochs - 1)), complete |-> TRUE]]

ValidTrace(frames) ==
    /\ frames # <<>>
    /\ frames[1].timestamp = 0
    /\ \A i \in 2..Len(frames) : frames[i].timestamp > frames[i - 1].timestamp
    /\ \A i \in DOMAIN frames : frames[i].complete

----------------------------------------------------------------------------
(* The comparison of a candidate with its reference                        *)

(* load_frames: complete, numbered from 0, strictly ordered, with images.  *)
M_LoadFrames(capture) ==
    /\ capture.complete /\ capture.frames # <<>>
    /\ \A i \in DOMAIN capture.frames :
          capture.frames[i].index = i - 1 /\ capture.frames[i].image
LoadFrames(capture) ==
    /\ capture.complete /\ capture.frames # <<>>
    /\ \A i \in DOMAIN capture.frames :
          /\ capture.frames[i].index = i - 1 /\ capture.frames[i].image
          /\ i > 1 => capture.frames[i].timestamp > capture.frames[i - 1].timestamp

SameCamera(candidates, references) ==
    /\ Len(candidates) = Len(references)
    /\ \A i \in DOMAIN candidates :
          /\ candidates[i].timestamp = references[i].timestamp
          /\ candidates[i].pose = references[i].pose

(* The frames, numbered from 0, of which a log of FFmpeg has a metric.     *)
MetricValues(log) == {log[i] - 1 : i \in DOMAIN log}

(* PASS or FAIL, as comparison.json says and the exit status repeats.      *)
CompareSequence(candidate, reference, ssim, psnr) ==
    /\ LoadFrames(candidate) /\ LoadFrames(reference)
    /\ SameCamera(candidate.frames, reference.frames)
    /\ MetricValues(ssim) = 0..(Len(candidate.frames) - 1)
    /\ MetricValues(psnr) = MetricValues(ssim)

----------------------------------------------------------------------------
(* The gate of the loopback audit                                          *)

(* A row agrees with the manifest where its bytes and its hash are those   *)
(* of the manifest, is intact where the delivered bytes have that hash,    *)
(* and is mapped where it has a request and a time.                        *)
M_ObjectCoverage(expected, rows) ==
    /\ {rows[i].key : i \in DOMAIN rows} = expected
    /\ \A i \in DOMAIN rows :
          /\ rows[i].agrees
          /\ rows[i].status \in {"delivered", "undelivered"}
          /\ rows[i].status = "delivered" => rows[i].intact /\ rows[i].mapped
ObjectCoverage(expected, rows) ==
    /\ \A i, j \in DOMAIN rows : rows[i].key = rows[j].key => i = j
    /\ {rows[i].key : i \in DOMAIN rows} = expected
    /\ \A i \in DOMAIN rows :
          /\ rows[i].agrees
          /\ rows[i].status \in {"delivered", "undelivered"}
          /\ rows[i].status = "delivered" => rows[i].intact /\ rows[i].mapped

(* Objects with more than one accepted update.                             *)
Accepts(history, key) == {i \in DOMAIN history : history[i] = <<key, "accepted">>}
QualifyingObjects(history) ==
    {k \in {history[i][1] : i \in DOMAIN history} : Cardinality(Accepts(history, k)) >= 2}

WithStatus(rows, status) == Cardinality({i \in DOMAIN rows : rows[i].status = status})

GatePasses(expected, rows, history) ==
    ObjectCoverage(expected, rows) /\ QualifyingObjects(history) # {}

=============================================================================
