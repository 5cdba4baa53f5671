------------------------------ MODULE HostRun ------------------------------
(***************************************************************************)
(* The launcher of the player (run_camera_trace_player.py): it starts a    *)
(* web server, the transport (none, relay, publisher and bridge on the     *)
(* loopback, or a virtual machine through QemuRun) and a browser, compares *)
(* with a reference rendering where asked to, stops everything, converts   *)
(* the recording and gives its verdict.                                    *)
(*                                                                         *)
(* Components may exit at any moment with any status, waits may time out,  *)
(* commands may fail, and up to MaxSignals interrupts hit the launcher.    *)
(* What the browser reports is abstracted to how many of Scene Gaussians   *)
(* it received and applied, and whether everything else in it is in order. *)
(***************************************************************************)
EXTENDS Integers, QemuRun

CONSTANTS
    Scene,          \* number of Gaussians of the scene
    Formats,        \* the values of --format that are looked at
    MaxSignals      \* bound: interrupts of the launcher

ASSUME SceneAssumption == Scene \in Nat \ {0}
ASSUME FormatsAssumption == Formats \subseteq {"webm", "mp4", "gif", "all"}
ASSUME MaxSignalsAssumption == MaxSignals \in Nat

Components == {"web", "relay", "publisher", "bridge", "browser", "refweb", "refbrowser"}

(* What parse_args lets through.                                           *)
Modes ==
    {m \in [path : {"http", "loopback", "qemu"}, interactive : BOOLEAN, quality : BOOLEAN,
            record : BOOLEAN, horizon : BOOLEAN, format : Formats] :
        /\ m.interactive => ~m.record /\ ~m.quality
        /\ ~m.record => m.format = "webm"}

Reports == [received : 0..Scene, applied : 0..Scene, fine : BOOLEAN]
NoReport == [received |-> -1, applied |-> -1, fine |-> FALSE]

VARIABLES
    mode,
    hpc,        \* where run() is
    proc,       \* proc[c]: "none", "running", "ok" or "failed"
    ready,      \* publisher-ready.json is there
    failure,    \* `failure` is not None
    compared,   \* the comparison with the reference is done
    telemetry,  \* player-telemetry.json
    videos,     \* recordings in the output directory
    exit,       \* exit code of the launcher, -1 before it ends
    signals,    \* interrupts so far
    cutShort    \* history: an interrupt struck the cleanup

host == <<mode, hpc, proc, ready, failure, compared, telemetry, videos, exit, signals, cutShort>>
vars == <<host, runner>>
files == <<mode, compared, telemetry, videos, exit, signals, cutShort>>

Init ==
    /\ mode \in Modes
    /\ hpc = "checks"
    /\ proc = [c \in Components |-> "none"]
    /\ ready = FALSE /\ failure = FALSE /\ compared = FALSE
    /\ telemetry = NoReport
    /\ videos = {}
    /\ exit = -1 /\ signals = 0 /\ cutShort = FALSE
    /\ RunnerInit

Running(c) == proc[c] = "running"
Failed(c) == proc[c] = "failed"         \* poll() not in (None, 0)

Go(from, to) == hpc = from /\ hpc' = to
Returns(from, to) == Go(from, to) /\ UNCHANGED failure
Raise(from) == Go(from, "cleanup") /\ failure' = TRUE

----------------------------------------------------------------------------
(* Starting the transport                                                  *)

(* A ValueError before the output directory exists: exit code 1.           *)
Checks ==
    /\ \/ Go("checks", "web") /\ UNCHANGED exit
       \/ Go("checks", "ended") /\ exit' = 1
    /\ UNCHANGED <<mode, proc, ready, failure, compared, telemetry, videos, signals, cutShort, runner>>

Start(c, from, to) ==
    /\ \/ Returns(from, to) /\ proc' = [proc EXCEPT ![c] = "running"]
       \/ Raise(from) /\ UNCHANGED proc
    /\ UNCHANGED <<ready, files, runner>>

(* wait_port: a component that failed, the port, or the time.              *)
WaitPort(c, watched, from, to) ==
    /\ \/ ~ (\E w \in watched : Failed(w)) /\ Running(c) /\ Returns(from, to)
       \/ Raise(from)
    /\ UNCHANGED <<proc, ready, files, runner>>

StartWeb == Start("web", "web", "webport")

AwaitWeb == WaitPort("web", {"web"}, "webport",
                     CASE mode.path = "http" -> "record"
                       [] mode.path = "loopback" -> "relay"
                       [] mode.path = "qemu" -> "archive")

StartRelay == Start("relay", "relay", "publisher")
StartPublisher == Start("publisher", "publisher", "ready")

(* wait_file: the file counts whatever has become of its writer.           *)
AwaitPublisher ==
    /\ \/ ready /\ Returns("ready", "bridge")
       \/ Raise("ready")
    /\ UNCHANGED <<proc, ready, files, runner>>

StartBridge == Start("bridge", "bridge", "bridgeport")
AwaitBridge == WaitPort("bridge", {"relay", "publisher", "bridge"}, "bridgeport", "record")

ArchiveScene ==
    /\ Returns("archive", "qemu") \/ Raise("archive")
    /\ UNCHANGED <<proc, ready, files, runner>>

StartQemu ==
    /\ \/ Returns("qemu", "audit") /\ RunnerStarted
       \/ Raise("qemu") /\ UNCHANGED runner
    /\ UNCHANGED <<proc, ready, files>>

(* An answer to GET /audit through the forwarded port, not an open port.   *)
AwaitAudit ==
    /\ \/ status = "running" /\ vm = "run" /\ job = "serving" /\ Returns("audit", "record")
       \/ Raise("audit")
    /\ UNCHANGED <<proc, ready, files, runner>>

RecordExperiment ==
    /\ Returns("record", IF mode.interactive THEN "serve" ELSE "browser") \/ Raise("record")
    /\ UNCHANGED <<proc, ready, files, runner>>

----------------------------------------------------------------------------
(* Serving a person, or running the browser                                *)

(* The loop ends when any process, the runner included, has exited.        *)
Serve ==
    /\ (\E c \in Components : proc[c] \in {"ok", "failed"}) \/ status \notin {"none", "running"}
    /\ Raise("serve")
    /\ UNCHANGED <<proc, ready, files, runner>>

StartBrowser == Start("browser", "browser", "playing")

(* A browser that fails is no exception; one that does not end is.         *)
M_AwaitBrowser ==
    /\ ~Running("browser")
    /\ Returns("playing", IF mode.path = "qemu" THEN "drain" ELSE "quality")
    /\ UNCHANGED <<proc, ready, files, runner>>
AwaitBrowser ==
    /\ \/ /\ ~Running("browser")
          /\ Returns("playing", IF mode.path = "qemu" THEN "drain" ELSE "quality")
       \/ Running("browser") /\ Raise("playing")
    /\ UNCHANGED <<proc, ready, files, runner>>

(* The runner must end within 90 seconds, with status 0.                   *)
M_Drain ==
    /\ \/ status # "running" /\ Returns("drain", "quality")
       \/ status = "running" /\ Raise("drain")
    /\ UNCHANGED <<proc, ready, files, runner>>
Drain ==
    /\ \/ status = "ok" /\ Returns("drain", "quality")
       \/ status # "ok" /\ Raise("drain")
    /\ UNCHANGED <<proc, ready, files, runner>>

BrowserOk == proc["browser"] = "ok"

SkipQuality ==
    /\ ~(mode.quality /\ BrowserOk)
    /\ Returns("quality", "cleanup")
    /\ UNCHANGED <<proc, ready, files, runner>>

StartReference == mode.quality /\ BrowserOk /\ Start("refweb", "quality", "refport")
AwaitReference == WaitPort("refweb", {"refweb"}, "refport", "refbrowser")
StartReferenceBrowser == Start("refbrowser", "refbrowser", "rendering")

AwaitReferenceBrowser ==
    /\ \/ proc["refbrowser"] = "ok" /\ Returns("rendering", "compare")
       \/ proc["refbrowser"] # "ok" /\ Raise("rendering")
    /\ UNCHANGED <<proc, ready, files, runner>>

Compare ==
    /\ \/ Returns("compare", "cleanup") /\ compared' = TRUE
       \/ Raise("compare") /\ UNCHANGED compared
    /\ UNCHANGED <<mode, proc, ready, telemetry, videos, exit, signals, cutShort, runner>>

----------------------------------------------------------------------------
(* The finally                                                             *)

(* Only an interactive runner is given the time to power its machine off.  *)
StopRunner ==
    /\ IF mode.interactive /\ status = "running"
       THEN Returns("cleanup", "grace") /\ Terminated
       ELSE Returns("cleanup", "terminate") /\ UNCHANGED runner
    /\ UNCHANGED <<proc, ready, files>>

Grace ==
    /\ Returns("grace", "terminate")
    /\ UNCHANGED <<proc, ready, files, runner>>

(* terminate(): SIGTERM to whatever still runs ...                         *)
Terminate ==
    /\ Returns("terminate", "reap")
    /\ IF status = "running" THEN Terminated ELSE UNCHANGED runner
    /\ UNCHANGED <<proc, ready, files>>

(* ... and SIGKILL to what is left of it after five seconds.               *)
Reap ==
    /\ \/ /\ \E c \in Components : Running(c)
          /\ proc' = [c \in Components |-> IF Running(c) THEN "failed" ELSE proc[c]]
          /\ UNCHANGED runner
       \/ RunnerKilled /\ UNCHANGED proc
    /\ Returns("reap", "reap")
    /\ UNCHANGED <<ready, files>>

M_Reaped ==
    /\ ~ \E c \in Components : Running(c)
    /\ Returns("reap", IF BrowserOk /\ ~failure /\ mode.record THEN "convert" ELSE "verdict")
    /\ UNCHANGED <<proc, ready, files, runner>>
Reaped ==
    /\ status # "running"
    /\ ~ \E c \in Components : Running(c)
    /\ Returns("reap", IF BrowserOk /\ ~failure /\ mode.record THEN "convert" ELSE "verdict")
    /\ UNCHANGED <<proc, ready, files, runner>>

----------------------------------------------------------------------------
(* The recording and the verdict                                           *)

(* conversion_commands: what is made of the normalized recording.          *)
Conversions(format) ==
    (IF format \in {"mp4", "all"} THEN {"mp4"} ELSE {}) \cup
    (IF format \in {"gif", "all"} THEN {"gif"} ELSE {})

Wanted == {"webm"} \cup Conversions(mode.format)

(* A recording without usable time stamps is not normalized.               *)
Normalize ==
    /\ \/ /\ "raw" \in videos
          /\ Returns("convert", "converting") /\ videos' = videos \cup {"webm"}
       \/ Go("convert", "verdict") /\ failure' = TRUE /\ UNCHANGED videos
    /\ UNCHANGED <<mode, proc, ready, compared, telemetry, exit, signals, cutShort, runner>>

(* The raw recording is removed when every conversion has succeeded.       *)
M_Convert ==
    /\ \/ \E v \in Wanted \ videos :
              Returns("converting", "converting") /\ videos' = (videos \ {"raw"}) \cup {v}
       \/ Wanted \subseteq videos /\ Returns("converting", "verdict") /\ videos' = videos \ {"raw"}
       \/ Go("converting", "verdict") /\ failure' = TRUE /\ UNCHANGED videos
    /\ UNCHANGED <<mode, proc, ready, compared, telemetry, exit, signals, cutShort, runner>>
Convert ==
    /\ \/ \E v \in Wanted \ videos :
              Returns("converting", "converting") /\ videos' = videos \cup {v}
       \/ Wanted \subseteq videos /\ Returns("converting", "verdict") /\ videos' = videos \ {"raw"}
       \/ Go("converting", "verdict") /\ failure' = TRUE /\ UNCHANGED videos
    /\ UNCHANGED <<mode, proc, ready, compared, telemetry, exit, signals, cutShort, runner>>

(* delivery_is_valid                                                       *)
DeliveryIsValid(t, horizon) ==
    IF horizon THEN 0 <= t.applied /\ t.applied <= t.received /\ t.received <= Scene
               ELSE t.applied = Scene /\ t.received = Scene

(* player-telemetry.json, where a browser ran and left it.                 *)
ReadTelemetry ==
    /\ Returns("verdict", "judge")
    /\ telemetry' \in {NoReport} \cup (IF proc["browser"] = "none" THEN {} ELSE Reports)
    /\ UNCHANGED <<mode, proc, ready, compared, videos, exit, signals, cutShort, runner>>

Verdict ==
    /\ LET success == /\ BrowserOk /\ ~failure
                      /\ DeliveryIsValid(telemetry, mode.horizon) /\ telemetry.fine
                      /\ mode.record => "webm" \in videos
       IN exit' = IF success THEN 0 ELSE 1
    /\ Returns("judge", "ended")
    /\ UNCHANGED <<mode, proc, ready, compared, telemetry, videos, signals, cutShort, runner>>

----------------------------------------------------------------------------
(* What happens around the launcher                                        *)

(* An exit by itself; a browser may leave a recording.                     *)
Exit(c) ==
    /\ Running(c)
    /\ \E code \in {"ok", "failed"} : proc' = [proc EXCEPT ![c] = code]
    /\ IF c = "browser"
       THEN videos' \in IF mode.record THEN {{}, {"raw"}} ELSE {{}}
       ELSE UNCHANGED videos
    /\ UNCHANGED <<mode, hpc, ready, failure, compared, telemetry, exit, signals, cutShort, runner>>

PublisherReady ==
    /\ Running("publisher") /\ ~ready
    /\ ready' = TRUE
    /\ UNCHANGED <<proc, hpc, failure, files, runner>>

(* KeyboardInterrupt: the except clause in the try, no clause anywhere     *)
(* else.                                                                   *)
Cleaning == hpc \in {"cleanup", "grace", "terminate", "reap"}
After == hpc \in {"checks", "convert", "converting", "verdict", "judge"}

Interrupt ==
    /\ hpc # "ended" /\ signals < MaxSignals
    /\ signals' = signals + 1
    /\ failure' = TRUE
    /\ IF Cleaning \/ After
       THEN hpc' = "ended" /\ exit' = 130
       ELSE hpc' = "cleanup" /\ UNCHANGED exit
    /\ cutShort' = (cutShort \/ Cleaning)
    /\ UNCHANGED <<mode, proc, ready, compared, telemetry, videos, runner>>

Launcher ==
    \/ Checks \/ StartWeb \/ AwaitWeb \/ StartRelay \/ StartPublisher \/ AwaitPublisher
    \/ StartBridge \/ AwaitBridge \/ ArchiveScene \/ StartQemu \/ AwaitAudit
    \/ RecordExperiment \/ Serve \/ StartBrowser \/ AwaitBrowser \/ Drain
    \/ SkipQuality \/ StartReference \/ AwaitReference \/ StartReferenceBrowser
    \/ AwaitReferenceBrowser \/ Compare
    \/ StopRunner \/ Grace \/ Terminate \/ Reap \/ Reaped \/ Normalize \/ Convert
    \/ ReadTelemetry \/ Verdict

Next ==
    \/ Launcher
    \/ RunnerMain /\ UNCHANGED host
    \/ (VmEnds \/ JobProceeds) /\ UNCHANGED host
    \/ \E c \in Components : Exit(c)
    \/ PublisherReady
    \/ Interrupt

Spec == Init /\ [][Next]_vars

(* The launcher runs on while it can; every wait of it has a timeout, but  *)
(* for the loop that serves a person.                                      *)
FairSpec == Spec /\ WF_vars(Launcher)

----------------------------------------------------------------------------
(* Properties                                                              *)

TypeOK ==
    /\ RunnerType
    /\ mode \in Modes
    /\ proc \in [Components -> {"none", "running", "ok", "failed"}]
    /\ ready \in BOOLEAN /\ failure \in BOOLEAN /\ compared \in BOOLEAN /\ cutShort \in BOOLEAN
    /\ telemetry \in Reports \cup {NoReport}
    /\ videos \subseteq {"raw", "webm", "mp4", "gif"}
    /\ exit \in {-1, 0, 1, 130} /\ signals \in 0..MaxSignals

(* Exit code 0 is more than a browser that was content: a machine's run    *)
(* had to end by itself with status 0, so that its make target had passed  *)
(* and its results had been fetched before the machine was stopped, a      *)
(* requested comparison had to be made, and every requested format of the  *)
(* recording had to be there.                                              *)
PassIsBacked ==
    exit = 0 =>
        /\ mode.path = "qemu" => status = "ok" /\ job = "passed" /\ results = "passed"
        /\ mode.quality => compared
        /\ mode.record => Wanted \subseteq videos
        /\ ~mode.interactive

(* Unless an interrupt cuts the cleanup short, no component outlives the   *)
(* launcher; a machine that nobody told to end does only where the         *)
(* launcher had to kill its runner.                                        *)
NothingLeft ==
    hpc = "ended" /\ ~cutShort =>
        /\ status # "running"
        /\ ~ \E c \in Components : Running(c)
        /\ vm \in {"setup", "run"} => status = "killed"

(* No failure of a conversion loses a recording: the browser's own file    *)
(* is there until everything wanted has been made of it.                   *)
RecordingKept ==
    [][ "raw" \in videos => "raw" \in videos' \/ Wanted \subseteq videos' ]_vars

(* The launcher ends, or serves a person for ever.                         *)
LauncherEnds == <>(hpc = "ended") \/ <>[](hpc = "serve")

=============================================================================
