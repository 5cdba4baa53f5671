---------------------------- MODULE HostRunProofs ----------------------------
(***************************************************************************)
(* What exit code 0 of the player's launcher stands for, what the launcher *)
(* leaves running, and that it keeps the recording, for any scene, any     *)
(* choice of formats and any number of interrupts.                         *)
(***************************************************************************)
EXTENDS HostRun, TLAPS

(* The runner: a status that is final is read at its exit, a machine is    *)
(* there only in the steps that use it, and a runner without an exception  *)
(* on its way has fetched the results of a target that passed.             *)
Active == {"check", "archive", "cache", "preparing", "boot", "ssh", "auth", "inputs", "job",
           "salvage", "copy", "poweroff", "kill"}
Machineless == {"none", "check", "archive", "cache", "boot"}

RunnerStage ==
    /\ status = "none" => rpc = "none"
    /\ rpc \in Active => status = "running"
    /\ rpc \in Machineless => vm = "off"
    /\ vm \in {"setup", "run"} => status \in {"running", "killed"}
    /\ rpc = "salvage" => failing
    /\ rpc = "copy" => job = "passed"
    /\ (rpc \in {"poweroff", "kill"} /\ ~failing) \/ status = "ok" =>
           job = "passed" /\ results = "passed"

(* The stages of the launcher.                                             *)
BeforeRunner == {"checks", "web", "webport", "relay", "publisher", "ready", "bridge", "bridgeport",
                 "archive", "qemu"}
BeforeBrowser == BeforeRunner \cup {"audit", "record", "serve", "browser"}
Drained == {"quality", "refport", "refbrowser", "rendering", "compare"}
Browsed == {"drain"} \cup Drained
Cleanup == {"cleanup", "grace", "terminate", "reap"}
Judging == {"convert", "converting", "verdict", "judge"}
Closed == hpc = "ended" /\ ~cutShort

(* The runner is started once, and it and every component have ended when  *)
(* the cleanup has run to its end.                                         *)
ProcessStage ==
    /\ hpc \in BeforeRunner => status = "none"
    /\ hpc = "checks" => \A c \in Components : proc[c] = "none"
    /\ hpc \in Judging \/ Closed => status # "running" /\ \A c \in Components : ~Running(c)
    /\ hpc \in BeforeBrowser => proc["browser"] = "none"
    /\ hpc = "playing" => proc["browser"] # "none"
    /\ hpc \in Browsed => proc["browser"] \in {"ok", "failed"}
    /\ hpc \in {"convert", "converting"} => proc["browser"] = "ok"

(* What is known as long as nothing has failed.                            *)
Backed ==
    /\ mode.path = "qemu" => status = "ok"
    /\ mode.quality /\ proc["browser"] = "ok" => compared
    /\ proc["browser"] \in {"ok", "failed"}

GoodStage ==
    /\ hpc \in {"browser", "playing"} \cup Browsed => ~mode.interactive
    /\ hpc \in Drained /\ mode.path = "qemu" => status = "ok"
    /\ hpc \in Cleanup \cup Judging /\ ~failure => Backed /\ ~mode.interactive
    /\ hpc \in {"verdict", "judge"} /\ ~failure /\ proc["browser"] = "ok" /\ mode.record =>
           Wanted \subseteq videos

(* The browser's recording is there only after the browser.                *)
VideoStage == proc["browser"] \in {"none", "running"} => videos = {}

ExitStage ==
    /\ exit = 0 => hpc = "ended"
    /\ cutShort => hpc = "ended" /\ exit = 130

IInv ==
    /\ TypeOK
    /\ RunnerStage
    /\ ProcessStage
    /\ GoodStage
    /\ VideoStage
    /\ ExitStage
    /\ PassIsBacked

-----------------------------------------------------------------------------
(* The runner                                                              *)

(* A step of the runner, a signal or a kill needs a runner that runs.      *)
LEMMA RunnerSteps ==
    ASSUME RunnerType, RunnerStage, RunnerMain \/ Terminated \/ RunnerKilled
    PROVE  RunnerType' /\ RunnerStage' /\ status = "running" /\ status' # "none"
<1> USE DEF RunnerType, RunnerStage, Active, Machineless, Works, Ends, Breaks, Moves, Remote, Leave
<1>1. CASE Arguments
  BY <1>1 DEF Arguments
<1>2. CASE Archive
  BY <1>2 DEF Archive
<1>3. CASE Obtain
  BY <1>3 DEF Obtain
<1>4. CASE Prepared
  BY <1>4 DEF Prepared
<1>5. CASE Boot
  BY <1>5 DEF Boot
<1>6. CASE WaitSsh
  BY <1>6 DEF WaitSsh
<1>7. CASE WaitAuth
  BY <1>7 DEF WaitAuth
<1>8. CASE Inputs
  BY <1>8 DEF Inputs
<1>9. CASE JobReturns
  BY <1>9 DEF JobReturns
<1>10. CASE Salvage
  BY <1>10 DEF Salvage
<1>11. CASE CopyResults
  BY <1>11 DEF CopyResults
<1>12. CASE PowerOff
  BY <1>12 DEF PowerOff
<1>13. CASE KillVm
  BY <1>13 DEF KillVm
<1>14. CASE Terminated
  BY <1>14 DEF Terminated
<1>15. CASE RunnerKilled
  BY <1>15 DEF RunnerKilled
<1>16. QED
  BY <1>1, <1>2, <1>3, <1>4, <1>5, <1>6, <1>7, <1>8, <1>9, <1>10, <1>11, <1>12, <1>13, <1>14,
     <1>15 DEF RunnerMain

(* The machine and the target change nothing that has been concluded.      *)
LEMMA MachineSteps ==
    ASSUME RunnerType, RunnerStage, VmEnds \/ JobProceeds
    PROVE  /\ RunnerType' /\ RunnerStage' /\ UNCHANGED <<status, results>>
           /\ job = "passed" => job' = "passed"
<1>1. CASE VmEnds
  BY <1>1 DEF VmEnds, RunnerType, RunnerStage, Machineless
<1>2. CASE JobProceeds
  BY <1>2 DEF JobProceeds, RunnerType, RunnerStage, Machineless, Active
<1>3. QED
  BY <1>1, <1>2

(* Neither does what leaves the runner alone.                              *)
LEMMA RunnerUntouched ==
    ASSUME IInv, UNCHANGED runner
    PROVE  RunnerType' /\ RunnerStage' /\ UNCHANGED <<status, vm, job, results>>
BY DEF IInv, TypeOK, RunnerType, RunnerStage, runner

(* A step that only moves main and notes a failure keeps the types.        *)
LEMMA TypeKept ==
    ASSUME TypeOK, RunnerType', UNCHANGED <<proc, ready, files>>, failure' \in BOOLEAN
    PROVE  TypeOK'
BY DEF TypeOK, files

(* The paths that a mode may name, and the recordings that it may want.    *)
LEMMA ModeTyped ==
    ASSUME mode \in Modes
    PROVE  /\ mode.path \in {"http", "loopback", "qemu"}
           /\ Wanted \subseteq {"webm", "mp4", "gif"}
BY DEF Modes, Wanted, Conversions

(* The process that starts is one of the components.                       *)
LEMMA StartTyped ==
    ASSUME IInv, NEW c \in Components, NEW from, NEW to, Start(c, from, to)
    PROVE  TypeOK'
<1>1. UNCHANGED <<mode, ready, compared, telemetry, videos, exit, signals, cutShort>>
  BY DEF Start, files
<1>2. RunnerType'
  BY RunnerUntouched DEF Start
<1>3. proc' \in [Components -> {"none", "running", "ok", "failed"}]
  <2>1. proc \in [Components -> {"none", "running", "ok", "failed"}]
    BY DEF IInv, TypeOK
  <2>2. proc' = [proc EXCEPT ![c] = "running"] \/ proc' = proc
    BY DEF Start
  <2>3. QED
    BY <2>1, <2>2
<1>4. failure' \in BOOLEAN
  BY DEF IInv, TypeOK, Start, Returns, Raise
<1>5. QED
  BY <1>1, <1>2, <1>3, <1>4 DEF IInv, TypeOK

-----------------------------------------------------------------------------
(* The invariant is inductive                                              *)

(* Nothing runs at the start.                                              *)
LEMMA InitIInv == Init => IInv
<1>1. SUFFICES ASSUME Init PROVE IInv
  OBVIOUS
<1>2. RunnerType /\ RunnerStage
  BY <1>1 DEF Init, RunnerInit, RunnerType, RunnerStage, Active, Machineless
<1>3. TypeOK
  <2>1. signals \in 0..MaxSignals
    BY <1>1, MaxSignalsAssumption DEF Init
  <2>2. QED
    BY <1>1, <1>2, <2>1 DEF Init, TypeOK
<1>4. ProcessStage /\ GoodStage /\ VideoStage
  BY <1>1 DEF Init, RunnerInit, ProcessStage, GoodStage, VideoStage, BeforeRunner, BeforeBrowser,
     Drained, Browsed, Cleanup, Judging, Closed, Running, Components
<1>5. ExitStage /\ PassIsBacked
  BY <1>1 DEF Init, ExitStage, PassIsBacked
<1>6. QED
  BY <1>2, <1>3, <1>4, <1>5 DEF IInv

(* Bad arguments end the launcher before anything runs.                    *)
LEMMA ChecksPreserves ==
    ASSUME IInv, Checks
    PROVE  IInv'
<1>1. RunnerType' /\ RunnerStage' /\ UNCHANGED <<status, vm, job, results>>
  BY RunnerUntouched DEF Checks, Go, Components
<1>2. TypeOK'
  BY <1>1, ModeTyped DEF IInv, TypeOK, Checks, Go, Components
<1>3. ProcessStage'
  BY <1>1, ModeTyped DEF IInv, TypeOK, ProcessStage, GoodStage, BeforeRunner, BeforeBrowser,
     Drained, Browsed, Cleanup, Judging, Closed, Backed, Checks, Go, Running, Components
<1>4. GoodStage'
  BY <1>1, ModeTyped DEF IInv, TypeOK, ProcessStage, GoodStage, VideoStage, Wanted, BeforeRunner,
     BeforeBrowser, Drained, Browsed, Cleanup, Judging, Closed, Backed, Checks, Go, Running,
     Components
<1>5. VideoStage'
  BY <1>1 DEF IInv, TypeOK, ProcessStage, VideoStage, BeforeRunner, BeforeBrowser, Drained,
     Browsed, Judging, Closed, Checks, Go, Running, Components
<1>6. ExitStage'
  BY DEF IInv, ExitStage, Checks, Go, Components
<1>7. PassIsBacked'
  BY <1>1, ModeTyped DEF IInv, TypeOK, RunnerStage, ProcessStage, GoodStage, VideoStage,
     ExitStage, PassIsBacked, Wanted, Active, BeforeRunner, BeforeBrowser, Drained, Browsed,
     Cleanup, Judging, Closed, Backed, Checks, Go, Running, Components
<1>8. QED
  BY <1>1, <1>2, <1>3, <1>4, <1>5, <1>6, <1>7 DEF IInv

(* A component starts, or its popen raises.                                *)
LEMMA StartWebPreserves ==
    ASSUME IInv, StartWeb
    PROVE  IInv'
<1>1. RunnerType' /\ RunnerStage' /\ UNCHANGED <<status, vm, job, results>>
  BY RunnerUntouched DEF StartWeb, Go, Returns, Raise, Start, files, Components
<1>2. TypeOK'
  BY StartTyped DEF StartWeb, Components
<1>3. ProcessStage'
  BY <1>1, ModeTyped DEF IInv, TypeOK, ProcessStage, GoodStage, BeforeRunner, BeforeBrowser,
     Drained, Browsed, Cleanup, Judging, Closed, Backed, StartWeb, Go, Returns, Raise, Start,
     files, Running, Components
<1>4. GoodStage'
  BY <1>1, ModeTyped DEF IInv, TypeOK, ProcessStage, GoodStage, VideoStage, Wanted, BeforeRunner,
     BeforeBrowser, Drained, Browsed, Cleanup, Judging, Closed, Backed, StartWeb, Go, Returns,
     Raise, Start, files, Running, Components
<1>5. VideoStage'
  BY <1>1 DEF IInv, TypeOK, ProcessStage, VideoStage, BeforeRunner, BeforeBrowser, Drained,
     Browsed, Judging, Closed, StartWeb, Go, Returns, Raise, Start, files, Running, Components
<1>6. ExitStage'
  BY DEF IInv, ExitStage, StartWeb, Go, Returns, Raise, Start, files, Components
<1>7. PassIsBacked'
  BY <1>1, ModeTyped DEF IInv, TypeOK, RunnerStage, ProcessStage, GoodStage, VideoStage,
     ExitStage, PassIsBacked, Wanted, Active, BeforeRunner, BeforeBrowser, Drained, Browsed,
     Cleanup, Judging, Closed, Backed, StartWeb, Go, Returns, Raise, Start, files, Running,
     Components
<1>8. QED
  BY <1>1, <1>2, <1>3, <1>4, <1>5, <1>6, <1>7 DEF IInv

(* With the web server up the transport is chosen.                         *)
LEMMA AwaitWebPreserves ==
    ASSUME IInv, AwaitWeb
    PROVE  IInv'
<1>1. RunnerType' /\ RunnerStage' /\ UNCHANGED <<status, vm, job, results>>
  BY RunnerUntouched DEF AwaitWeb, Go, Returns, Raise, WaitPort, files, Running, Failed,
     Components
<1>2. TypeOK'
  <2>1. failure' \in BOOLEAN /\ UNCHANGED <<proc, ready, files>>
    BY DEF IInv, TypeOK, AwaitWeb, WaitPort, Returns, Raise
  <2>2. QED
    BY <1>1, <2>1, TypeKept DEF IInv
<1>3. ProcessStage'
  BY <1>1, ModeTyped DEF IInv, TypeOK, ProcessStage, GoodStage, BeforeRunner, BeforeBrowser,
     Drained, Browsed, Cleanup, Judging, Closed, Backed, AwaitWeb, Go, Returns, Raise, WaitPort,
     files, Running, Failed, Components
<1>4. GoodStage'
  BY <1>1, ModeTyped DEF IInv, TypeOK, ProcessStage, GoodStage, VideoStage, Wanted, BeforeRunner,
     BeforeBrowser, Drained, Browsed, Cleanup, Judging, Closed, Backed, AwaitWeb, Go, Returns,
     Raise, WaitPort, files, Running, Failed, Components
<1>5. VideoStage'
  BY <1>1 DEF IInv, TypeOK, ProcessStage, VideoStage, BeforeRunner, BeforeBrowser, Drained,
     Browsed, Judging, Closed, AwaitWeb, Go, Returns, Raise, WaitPort, files, Running, Failed,
     Components
<1>6. ExitStage'
  BY DEF IInv, ExitStage, AwaitWeb, Go, Returns, Raise, WaitPort, files, Running, Failed,
     Components
<1>7. PassIsBacked'
  BY <1>1, ModeTyped DEF IInv, TypeOK, RunnerStage, ProcessStage, GoodStage, VideoStage,
     ExitStage, PassIsBacked, Wanted, Active, BeforeRunner, BeforeBrowser, Drained, Browsed,
     Cleanup, Judging, Closed, Backed, AwaitWeb, Go, Returns, Raise, WaitPort, files, Running,
     Failed, Components
<1>8. QED
  BY <1>1, <1>2, <1>3, <1>4, <1>5, <1>6, <1>7 DEF IInv

(* The same for the relay ...                                              *)
LEMMA StartRelayPreserves ==
    ASSUME IInv, StartRelay
    PROVE  IInv'
<1>1. RunnerType' /\ RunnerStage' /\ UNCHANGED <<status, vm, job, results>>
  BY RunnerUntouched DEF StartRelay, Go, Returns, Raise, Start, files, Components
<1>2. TypeOK'
  BY StartTyped DEF StartRelay, Components
<1>3. ProcessStage'
  BY <1>1, ModeTyped DEF IInv, TypeOK, ProcessStage, GoodStage, BeforeRunner, BeforeBrowser,
     Drained, Browsed, Cleanup, Judging, Closed, Backed, StartRelay, Go, Returns, Raise, Start,
     files, Running, Components
<1>4. GoodStage'
  BY <1>1, ModeTyped DEF IInv, TypeOK, ProcessStage, GoodStage, VideoStage, Wanted, BeforeRunner,
     BeforeBrowser, Drained, Browsed, Cleanup, Judging, Closed, Backed, StartRelay, Go, Returns,
     Raise, Start, files, Running, Components
<1>5. VideoStage'
  BY <1>1 DEF IInv, TypeOK, ProcessStage, VideoStage, BeforeRunner, BeforeBrowser, Drained,
     Browsed, Judging, Closed, StartRelay, Go, Returns, Raise, Start, files, Running, Components
<1>6. ExitStage'
  BY DEF IInv, ExitStage, StartRelay, Go, Returns, Raise, Start, files, Components
<1>7. PassIsBacked'
  BY <1>1, ModeTyped DEF IInv, TypeOK, RunnerStage, ProcessStage, GoodStage, VideoStage,
     ExitStage, PassIsBacked, Wanted, Active, BeforeRunner, BeforeBrowser, Drained, Browsed,
     Cleanup, Judging, Closed, Backed, StartRelay, Go, Returns, Raise, Start, files, Running,
     Components
<1>8. QED
  BY <1>1, <1>2, <1>3, <1>4, <1>5, <1>6, <1>7 DEF IInv

(* ... and for the publisher.                                              *)
LEMMA StartPublisherPreserves ==
    ASSUME IInv, StartPublisher
    PROVE  IInv'
<1>1. RunnerType' /\ RunnerStage' /\ UNCHANGED <<status, vm, job, results>>
  BY RunnerUntouched DEF StartPublisher, Go, Returns, Raise, Start, files, Components
<1>2. TypeOK'
  BY StartTyped DEF StartPublisher, Components
<1>3. ProcessStage'
  BY <1>1, ModeTyped DEF IInv, TypeOK, ProcessStage, GoodStage, BeforeRunner, BeforeBrowser,
     Drained, Browsed, Cleanup, Judging, Closed, Backed, StartPublisher, Go, Returns, Raise,
     Start, files, Running, Components
<1>4. GoodStage'
  BY <1>1, ModeTyped DEF IInv, TypeOK, ProcessStage, GoodStage, VideoStage, Wanted, BeforeRunner,
     BeforeBrowser, Drained, Browsed, Cleanup, Judging, Closed, Backed, StartPublisher, Go,
     Returns, Raise, Start, files, Running, Components
<1>5. VideoStage'
  BY <1>1 DEF IInv, TypeOK, ProcessStage, VideoStage, BeforeRunner, BeforeBrowser, Drained,
     Browsed, Judging, Closed, StartPublisher, Go, Returns, Raise, Start, files, Running,
     Components
<1>6. ExitStage'
  BY DEF IInv, ExitStage, StartPublisher, Go, Returns, Raise, Start, files, Components
<1>7. PassIsBacked'
  BY <1>1, ModeTyped DEF IInv, TypeOK, RunnerStage, ProcessStage, GoodStage, VideoStage,
     ExitStage, PassIsBacked, Wanted, Active, BeforeRunner, BeforeBrowser, Drained, Browsed,
     Cleanup, Judging, Closed, Backed, StartPublisher, Go, Returns, Raise, Start, files, Running,
     Components
<1>8. QED
  BY <1>1, <1>2, <1>3, <1>4, <1>5, <1>6, <1>7 DEF IInv

(* The file of the publisher is there, or the wait raises.                 *)
LEMMA AwaitPublisherPreserves ==
    ASSUME IInv, AwaitPublisher
    PROVE  IInv'
<1>1. RunnerType' /\ RunnerStage' /\ UNCHANGED <<status, vm, job, results>>
  BY RunnerUntouched DEF AwaitPublisher, Go, Returns, Raise, files, Components
<1>2. TypeOK'
  <2>1. failure' \in BOOLEAN /\ UNCHANGED <<proc, ready, files>>
    BY DEF IInv, TypeOK, AwaitPublisher, Returns, Raise
  <2>2. QED
    BY <1>1, <2>1, TypeKept DEF IInv
<1>3. ProcessStage'
  BY <1>1, ModeTyped DEF IInv, TypeOK, ProcessStage, GoodStage, BeforeRunner, BeforeBrowser,
     Drained, Browsed, Cleanup, Judging, Closed, Backed, AwaitPublisher, Go, Returns, Raise,
     files, Running, Components
<1>4. GoodStage'
  BY <1>1, ModeTyped DEF IInv, TypeOK, ProcessStage, GoodStage, VideoStage, Wanted, BeforeRunner,
     BeforeBrowser, Drained, Browsed, Cleanup, Judging, Closed, Backed, AwaitPublisher, Go,
     Returns, Raise, files, Running, Components
<1>5. VideoStage'
  BY <1>1 DEF IInv, TypeOK, ProcessStage, VideoStage, BeforeRunner, BeforeBrowser, Drained,
     Browsed, Judging, Closed, AwaitPublisher, Go, Returns, Raise, files, Running, Components
<1>6. ExitStage'
  BY DEF IInv, ExitStage, AwaitPublisher, Go, Returns, Raise, files, Components
<1>7. PassIsBacked'
  BY <1>1, ModeTyped DEF IInv, TypeOK, RunnerStage, ProcessStage, GoodStage, VideoStage,
     ExitStage, PassIsBacked, Wanted, Active, BeforeRunner, BeforeBrowser, Drained, Browsed,
     Cleanup, Judging, Closed, Backed, AwaitPublisher, Go, Returns, Raise, files, Running,
     Components
<1>8. QED
  BY <1>1, <1>2, <1>3, <1>4, <1>5, <1>6, <1>7 DEF IInv

(* The same for the bridge.                                                *)
LEMMA StartBridgePreserves ==
    ASSUME IInv, StartBridge
    PROVE  IInv'
<1>1. RunnerType' /\ RunnerStage' /\ UNCHANGED <<status, vm, job, results>>
  BY RunnerUntouched DEF StartBridge, Go, Returns, Raise, Start, files, Components
<1>2. TypeOK'
  BY StartTyped DEF StartBridge, Components
<1>3. ProcessStage'
  BY <1>1, ModeTyped DEF IInv, TypeOK, ProcessStage, GoodStage, BeforeRunner, BeforeBrowser,
     Drained, Browsed, Cleanup, Judging, Closed, Backed, StartBridge, Go, Returns, Raise, Start,
     files, Running, Components
<1>4. GoodStage'
  BY <1>1, ModeTyped DEF IInv, TypeOK, ProcessStage, GoodStage, VideoStage, Wanted, BeforeRunner,
     BeforeBrowser, Drained, Browsed, Cleanup, Judging, Closed, Backed, StartBridge, Go, Returns,
     Raise, Start, files, Running, Components
<1>5. VideoStage'
  BY <1>1 DEF IInv, TypeOK, ProcessStage, VideoStage, BeforeRunner, BeforeBrowser, Drained,
     Browsed, Judging, Closed, StartBridge, Go, Returns, Raise, Start, files, Running, Components
<1>6. ExitStage'
  BY DEF IInv, ExitStage, StartBridge, Go, Returns, Raise, Start, files, Components
<1>7. PassIsBacked'
  BY <1>1, ModeTyped DEF IInv, TypeOK, RunnerStage, ProcessStage, GoodStage, VideoStage,
     ExitStage, PassIsBacked, Wanted, Active, BeforeRunner, BeforeBrowser, Drained, Browsed,
     Cleanup, Judging, Closed, Backed, StartBridge, Go, Returns, Raise, Start, files, Running,
     Components
<1>8. QED
  BY <1>1, <1>2, <1>3, <1>4, <1>5, <1>6, <1>7 DEF IInv

(* The port of the bridge is open, or the wait raises.                     *)
LEMMA AwaitBridgePreserves ==
    ASSUME IInv, AwaitBridge
    PROVE  IInv'
<1>1. RunnerType' /\ RunnerStage' /\ UNCHANGED <<status, vm, job, results>>
  BY RunnerUntouched DEF AwaitBridge, Go, Returns, Raise, WaitPort, files, Running, Failed,
     Components
<1>2. TypeOK'
  <2>1. failure' \in BOOLEAN /\ UNCHANGED <<proc, ready, files>>
    BY DEF IInv, TypeOK, AwaitBridge, WaitPort, Returns, Raise
  <2>2. QED
    BY <1>1, <2>1, TypeKept DEF IInv
<1>3. ProcessStage'
  BY <1>1, ModeTyped DEF IInv, TypeOK, ProcessStage, GoodStage, BeforeRunner, BeforeBrowser,
     Drained, Browsed, Cleanup, Judging, Closed, Backed, AwaitBridge, Go, Returns, Raise,
     WaitPort, files, Running, Failed, Components
<1>4. GoodStage'
  BY <1>1, ModeTyped DEF IInv, TypeOK, ProcessStage, GoodStage, VideoStage, Wanted, BeforeRunner,
     BeforeBrowser, Drained, Browsed, Cleanup, Judging, Closed, Backed, AwaitBridge, Go, Returns,
     Raise, WaitPort, files, Running, Failed, Components
<1>5. VideoStage'
  BY <1>1 DEF IInv, TypeOK, ProcessStage, VideoStage, BeforeRunner, BeforeBrowser, Drained,
     Browsed, Judging, Closed, AwaitBridge, Go, Returns, Raise, WaitPort, files, Running, Failed,
     Components
<1>6. ExitStage'
  BY DEF IInv, ExitStage, AwaitBridge, Go, Returns, Raise, WaitPort, files, Running, Failed,
     Components
<1>7. PassIsBacked'
  BY <1>1, ModeTyped DEF IInv, TypeOK, RunnerStage, ProcessStage, GoodStage, VideoStage,
     ExitStage, PassIsBacked, Wanted, Active, BeforeRunner, BeforeBrowser, Drained, Browsed,
     Cleanup, Judging, Closed, Backed, AwaitBridge, Go, Returns, Raise, WaitPort, files, Running,
     Failed, Components
<1>8. QED
  BY <1>1, <1>2, <1>3, <1>4, <1>5, <1>6, <1>7 DEF IInv

(* The scene is archived for the machine.                                  *)
LEMMA ArchiveScenePreserves ==
    ASSUME IInv, ArchiveScene
    PROVE  IInv'
<1>1. RunnerType' /\ RunnerStage' /\ UNCHANGED <<status, vm, job, results>>
  BY RunnerUntouched DEF ArchiveScene, Go, Returns, Raise, files, Components
<1>2. TypeOK'
  <2>1. failure' \in BOOLEAN /\ UNCHANGED <<proc, ready, files>>
    BY DEF IInv, TypeOK, ArchiveScene, Returns, Raise
  <2>2. QED
    BY <1>1, <2>1, TypeKept DEF IInv
<1>3. ProcessStage'
  BY <1>1, ModeTyped DEF IInv, TypeOK, ProcessStage, GoodStage, BeforeRunner, BeforeBrowser,
     Drained, Browsed, Cleanup, Judging, Closed, Backed, ArchiveScene, Go, Returns, Raise, files,
     Running, Components
<1>4. GoodStage'
  BY <1>1, ModeTyped DEF IInv, TypeOK, ProcessStage, GoodStage, VideoStage, Wanted, BeforeRunner,
     BeforeBrowser, Drained, Browsed, Cleanup, Judging, Closed, Backed, ArchiveScene, Go,
     Returns, Raise, files, Running, Components
<1>5. VideoStage'
  BY <1>1 DEF IInv, TypeOK, ProcessStage, VideoStage, BeforeRunner, BeforeBrowser, Drained,
     Browsed, Judging, Closed, ArchiveScene, Go, Returns, Raise, files, Running, Components
<1>6. ExitStage'
  BY DEF IInv, ExitStage, ArchiveScene, Go, Returns, Raise, files, Components
<1>7. PassIsBacked'
  BY <1>1, ModeTyped DEF IInv, TypeOK, RunnerStage, ProcessStage, GoodStage, VideoStage,
     ExitStage, PassIsBacked, Wanted, Active, BeforeRunner, BeforeBrowser, Drained, Browsed,
     Cleanup, Judging, Closed, Backed, ArchiveScene, Go, Returns, Raise, files, Running,
     Components
<1>8. QED
  BY <1>1, <1>2, <1>3, <1>4, <1>5, <1>6, <1>7 DEF IInv

(* The only start of the runner.                                           *)
LEMMA StartQemuPreserves ==
    ASSUME IInv, StartQemu
    PROVE  IInv'
<1>1. /\ RunnerType' /\ RunnerStage'
      /\ status' # status => hpc = "qemu" /\ hpc' = "audit" /\ status = "none"
  <2>1. CASE Returns("qemu", "audit") /\ RunnerStarted
    BY <2>1 DEF IInv, TypeOK, ProcessStage, BeforeRunner, Returns, Go, RunnerStarted, RunnerType,
       RunnerStage, Active, Machineless
  <2>2. CASE Raise("qemu") /\ UNCHANGED runner
    BY <2>2, RunnerUntouched
  <2>3. QED
    BY <2>1, <2>2 DEF StartQemu
<1>2. TypeOK'
  <2>1. failure' \in BOOLEAN /\ UNCHANGED <<proc, ready, files>>
    BY DEF IInv, TypeOK, StartQemu, Returns, Raise
  <2>2. QED
    BY <1>1, <2>1, TypeKept DEF IInv
<1>3. ProcessStage'
  BY <1>1, ModeTyped DEF IInv, TypeOK, ProcessStage, GoodStage, BeforeRunner, BeforeBrowser,
     Drained, Browsed, Cleanup, Judging, Closed, Backed, StartQemu, Go, Returns, Raise, files,
     Running, Components
<1>4. GoodStage'
  BY <1>1, ModeTyped DEF IInv, TypeOK, ProcessStage, GoodStage, VideoStage, Wanted, BeforeRunner,
     BeforeBrowser, Drained, Browsed, Cleanup, Judging, Closed, Backed, StartQemu, Go, Returns,
     Raise, files, Running, Components
<1>5. VideoStage'
  BY <1>1 DEF IInv, TypeOK, ProcessStage, VideoStage, BeforeRunner, BeforeBrowser, Drained,
     Browsed, Judging, Closed, StartQemu, Go, Returns, Raise, files, Running, Components
<1>6. ExitStage'
  BY DEF IInv, ExitStage, StartQemu, Go, Returns, Raise, files, Components
<1>7. PassIsBacked'
  BY <1>1, ModeTyped DEF IInv, TypeOK, RunnerStage, ProcessStage, GoodStage, VideoStage,
     ExitStage, PassIsBacked, Wanted, Active, BeforeRunner, BeforeBrowser, Drained, Browsed,
     Cleanup, Judging, Closed, Backed, StartQemu, Go, Returns, Raise, files, Running, Components
<1>8. QED
  BY <1>1, <1>2, <1>3, <1>4, <1>5, <1>6, <1>7 DEF IInv

(* The target serves, or the wait raises.                                  *)
LEMMA AwaitAuditPreserves ==
    ASSUME IInv, AwaitAudit
    PROVE  IInv'
<1>1. RunnerType' /\ RunnerStage' /\ UNCHANGED <<status, vm, job, results>>
  BY RunnerUntouched DEF AwaitAudit, Go, Returns, Raise, files, Components
<1>2. TypeOK'
  <2>1. failure' \in BOOLEAN /\ UNCHANGED <<proc, ready, files>>
    BY DEF IInv, TypeOK, AwaitAudit, Returns, Raise
  <2>2. QED
    BY <1>1, <2>1, TypeKept DEF IInv
<1>3. ProcessStage'
  BY <1>1, ModeTyped DEF IInv, TypeOK, ProcessStage, GoodStage, BeforeRunner, BeforeBrowser,
     Drained, Browsed, Cleanup, Judging, Closed, Backed, AwaitAudit, Go, Returns, Raise, files,
     Running, Components
<1>4. GoodStage'
  BY <1>1, ModeTyped DEF IInv, TypeOK, ProcessStage, GoodStage, VideoStage, Wanted, BeforeRunner,
     BeforeBrowser, Drained, Browsed, Cleanup, Judging, Closed, Backed, AwaitAudit, Go, Returns,
     Raise, files, Running, Components
<1>5. VideoStage'
  BY <1>1 DEF IInv, TypeOK, ProcessStage, VideoStage, BeforeRunner, BeforeBrowser, Drained,
     Browsed, Judging, Closed, AwaitAudit, Go, Returns, Raise, files, Running, Components
<1>6. ExitStage'
  BY DEF IInv, ExitStage, AwaitAudit, Go, Returns, Raise, files, Components
<1>7. PassIsBacked'
  BY <1>1, ModeTyped DEF IInv, TypeOK, RunnerStage, ProcessStage, GoodStage, VideoStage,
     ExitStage, PassIsBacked, Wanted, Active, BeforeRunner, BeforeBrowser, Drained, Browsed,
     Cleanup, Judging, Closed, Backed, AwaitAudit, Go, Returns, Raise, files, Running, Components
<1>8. QED
  BY <1>1, <1>2, <1>3, <1>4, <1>5, <1>6, <1>7 DEF IInv

(* The browser is for runs that serve no person.                           *)
LEMMA RecordExperimentPreserves ==
    ASSUME IInv, RecordExperiment
    PROVE  IInv'
<1>1. RunnerType' /\ RunnerStage' /\ UNCHANGED <<status, vm, job, results>>
  BY RunnerUntouched DEF RecordExperiment, Go, Returns, Raise, files, Components
<1>2. TypeOK'
  <2>1. failure' \in BOOLEAN /\ UNCHANGED <<proc, ready, files>>
    BY DEF IInv, TypeOK, RecordExperiment, Returns, Raise
  <2>2. QED
    BY <1>1, <2>1, TypeKept DEF IInv
<1>3. ProcessStage'
  BY <1>1, ModeTyped DEF IInv, TypeOK, ProcessStage, GoodStage, BeforeRunner, BeforeBrowser,
     Drained, Browsed, Cleanup, Judging, Closed, Backed, RecordExperiment, Go, Returns, Raise,
     files, Running, Components
<1>4. GoodStage'
  BY <1>1, ModeTyped DEF IInv, TypeOK, ProcessStage, GoodStage, VideoStage, Wanted, BeforeRunner,
     BeforeBrowser, Drained, Browsed, Cleanup, Judging, Closed, Backed, RecordExperiment, Go,
     Returns, Raise, files, Running, Components
<1>5. VideoStage'
  BY <1>1 DEF IInv, TypeOK, ProcessStage, VideoStage, BeforeRunner, BeforeBrowser, Drained,
     Browsed, Judging, Closed, RecordExperiment, Go, Returns, Raise, files, Running, Components
<1>6. ExitStage'
  BY DEF IInv, ExitStage, RecordExperiment, Go, Returns, Raise, files, Components
<1>7. PassIsBacked'
  BY <1>1, ModeTyped DEF IInv, TypeOK, RunnerStage, ProcessStage, GoodStage, VideoStage,
     ExitStage, PassIsBacked, Wanted, Active, BeforeRunner, BeforeBrowser, Drained, Browsed,
     Cleanup, Judging, Closed, Backed, RecordExperiment, Go, Returns, Raise, files, Running,
     Components
<1>8. QED
  BY <1>1, <1>2, <1>3, <1>4, <1>5, <1>6, <1>7 DEF IInv

(* Serving ends with an exception only.                                    *)
LEMMA ServePreserves ==
    ASSUME IInv, Serve
    PROVE  IInv'
<1>1. RunnerType' /\ RunnerStage' /\ UNCHANGED <<status, vm, job, results>>
  BY RunnerUntouched DEF Serve, Go, Raise, files, Components
<1>2. TypeOK'
  <2>1. failure' \in BOOLEAN /\ UNCHANGED <<proc, ready, files>>
    BY DEF IInv, TypeOK, Serve, Raise
  <2>2. QED
    BY <1>1, <2>1, TypeKept DEF IInv
<1>3. ProcessStage'
  BY <1>1, ModeTyped DEF IInv, TypeOK, ProcessStage, GoodStage, BeforeRunner, BeforeBrowser,
     Drained, Browsed, Cleanup, Judging, Closed, Backed, Serve, Go, Raise, files, Running,
     Components
<1>4. GoodStage'
  BY <1>1, ModeTyped DEF IInv, TypeOK, ProcessStage, GoodStage, VideoStage, Wanted, BeforeRunner,
     BeforeBrowser, Drained, Browsed, Cleanup, Judging, Closed, Backed, Serve, Go, Raise, files,
     Running, Components
<1>5. VideoStage'
  BY <1>1 DEF IInv, TypeOK, ProcessStage, VideoStage, BeforeRunner, BeforeBrowser, Drained,
     Browsed, Judging, Closed, Serve, Go, Raise, files, Running, Components
<1>6. ExitStage'
  BY DEF IInv, ExitStage, Serve, Go, Raise, files, Components
<1>7. PassIsBacked'
  BY <1>1, ModeTyped DEF IInv, TypeOK, RunnerStage, ProcessStage, GoodStage, VideoStage,
     ExitStage, PassIsBacked, Wanted, Active, BeforeRunner, BeforeBrowser, Drained, Browsed,
     Cleanup, Judging, Closed, Backed, Serve, Go, Raise, files, Running, Components
<1>8. QED
  BY <1>1, <1>2, <1>3, <1>4, <1>5, <1>6, <1>7 DEF IInv

(* The only start of the browser.                                          *)
LEMMA StartBrowserPreserves ==
    ASSUME IInv, StartBrowser
    PROVE  IInv'
<1>1. RunnerType' /\ RunnerStage' /\ UNCHANGED <<status, vm, job, results>>
  BY RunnerUntouched DEF StartBrowser, Go, Returns, Raise, Start, files, Components
<1>2. TypeOK'
  BY StartTyped DEF StartBrowser, Components
<1>3. ProcessStage'
  BY <1>1, ModeTyped DEF IInv, TypeOK, ProcessStage, GoodStage, BeforeRunner, BeforeBrowser,
     Drained, Browsed, Cleanup, Judging, Closed, Backed, StartBrowser, Go, Returns, Raise, Start,
     files, Running, Components
<1>4. GoodStage'
  BY <1>1, ModeTyped DEF IInv, TypeOK, ProcessStage, GoodStage, VideoStage, Wanted, BeforeRunner,
     BeforeBrowser, Drained, Browsed, Cleanup, Judging, Closed, Backed, StartBrowser, Go,
     Returns, Raise, Start, files, Running, Components
<1>5. VideoStage'
  BY <1>1 DEF IInv, TypeOK, ProcessStage, VideoStage, BeforeRunner, BeforeBrowser, Drained,
     Browsed, Judging, Closed, StartBrowser, Go, Returns, Raise, Start, files, Running,
     Components
<1>6. ExitStage'
  BY DEF IInv, ExitStage, StartBrowser, Go, Returns, Raise, Start, files, Components
<1>7. PassIsBacked'
  BY <1>1, ModeTyped DEF IInv, TypeOK, RunnerStage, ProcessStage, GoodStage, VideoStage,
     ExitStage, PassIsBacked, Wanted, Active, BeforeRunner, BeforeBrowser, Drained, Browsed,
     Cleanup, Judging, Closed, Backed, StartBrowser, Go, Returns, Raise, Start, files, Running,
     Components
<1>8. QED
  BY <1>1, <1>2, <1>3, <1>4, <1>5, <1>6, <1>7 DEF IInv

(* From here on the browser has exited.                                    *)
LEMMA AwaitBrowserPreserves ==
    ASSUME IInv, AwaitBrowser
    PROVE  IInv'
<1>1. RunnerType' /\ RunnerStage' /\ UNCHANGED <<status, vm, job, results>>
  BY RunnerUntouched DEF AwaitBrowser, Go, Returns, Raise, files, Running, Components
<1>2. TypeOK'
  <2>1. failure' \in BOOLEAN /\ UNCHANGED <<proc, ready, files>>
    BY DEF IInv, TypeOK, AwaitBrowser, Returns, Raise
  <2>2. QED
    BY <1>1, <2>1, TypeKept DEF IInv
<1>3. ProcessStage'
  BY <1>1, ModeTyped DEF IInv, TypeOK, ProcessStage, GoodStage, BeforeRunner, BeforeBrowser,
     Drained, Browsed, Cleanup, Judging, Closed, Backed, AwaitBrowser, Go, Returns, Raise, files,
     Running, Components
<1>4. GoodStage'
  BY <1>1, ModeTyped DEF IInv, TypeOK, ProcessStage, GoodStage, VideoStage, Wanted, BeforeRunner,
     BeforeBrowser, Drained, Browsed, Cleanup, Judging, Closed, Backed, AwaitBrowser, Go,
     Returns, Raise, files, Running, Components
<1>5. VideoStage'
  BY <1>1 DEF IInv, TypeOK, ProcessStage, VideoStage, BeforeRunner, BeforeBrowser, Drained,
     Browsed, Judging, Closed, AwaitBrowser, Go, Returns, Raise, files, Running, Components
<1>6. ExitStage'
  BY DEF IInv, ExitStage, AwaitBrowser, Go, Returns, Raise, files, Running, Components
<1>7. PassIsBacked'
  BY <1>1, ModeTyped DEF IInv, TypeOK, RunnerStage, ProcessStage, GoodStage, VideoStage,
     ExitStage, PassIsBacked, Wanted, Active, BeforeRunner, BeforeBrowser, Drained, Browsed,
     Cleanup, Judging, Closed, Backed, AwaitBrowser, Go, Returns, Raise, files, Running,
     Components
<1>8. QED
  BY <1>1, <1>2, <1>3, <1>4, <1>5, <1>6, <1>7 DEF IInv

(* From here on a runner has ended with status 0.                          *)
LEMMA DrainPreserves ==
    ASSUME IInv, Drain
    PROVE  IInv'
<1>1. RunnerType' /\ RunnerStage' /\ UNCHANGED <<status, vm, job, results>>
  BY RunnerUntouched DEF Drain, Go, Returns, Raise, files, Components
<1>2. TypeOK'
  <2>1. failure' \in BOOLEAN /\ UNCHANGED <<proc, ready, files>>
    BY DEF IInv, TypeOK, Drain, Returns, Raise
  <2>2. QED
    BY <1>1, <2>1, TypeKept DEF IInv
<1>3. ProcessStage'
  BY <1>1, ModeTyped DEF IInv, TypeOK, ProcessStage, GoodStage, BeforeRunner, BeforeBrowser,
     Drained, Browsed, Cleanup, Judging, Closed, Backed, Drain, Go, Returns, Raise, files,
     Running, Components
<1>4. GoodStage'
  BY <1>1, ModeTyped DEF IInv, TypeOK, ProcessStage, GoodStage, VideoStage, Wanted, BeforeRunner,
     BeforeBrowser, Drained, Browsed, Cleanup, Judging, Closed, Backed, Drain, Go, Returns,
     Raise, files, Running, Components
<1>5. VideoStage'
  BY <1>1 DEF IInv, TypeOK, ProcessStage, VideoStage, BeforeRunner, BeforeBrowser, Drained,
     Browsed, Judging, Closed, Drain, Go, Returns, Raise, files, Running, Components
<1>6. ExitStage'
  BY DEF IInv, ExitStage, Drain, Go, Returns, Raise, files, Components
<1>7. PassIsBacked'
  BY <1>1, ModeTyped DEF IInv, TypeOK, RunnerStage, ProcessStage, GoodStage, VideoStage,
     ExitStage, PassIsBacked, Wanted, Active, BeforeRunner, BeforeBrowser, Drained, Browsed,
     Cleanup, Judging, Closed, Backed, Drain, Go, Returns, Raise, files, Running, Components
<1>8. QED
  BY <1>1, <1>2, <1>3, <1>4, <1>5, <1>6, <1>7 DEF IInv

(* Nothing is compared, because nobody asked or the browser failed.        *)
LEMMA SkipQualityPreserves ==
    ASSUME IInv, SkipQuality
    PROVE  IInv'
<1>1. RunnerType' /\ RunnerStage' /\ UNCHANGED <<status, vm, job, results>>
  BY RunnerUntouched DEF SkipQuality, Go, Returns, files, BrowserOk, Components
<1>2. TypeOK'
  <2>1. failure' \in BOOLEAN /\ UNCHANGED <<proc, ready, files>>
    BY DEF IInv, TypeOK, SkipQuality, Returns
  <2>2. QED
    BY <1>1, <2>1, TypeKept DEF IInv
<1>3. ProcessStage'
  BY <1>1, ModeTyped DEF IInv, TypeOK, ProcessStage, GoodStage, BeforeRunner, BeforeBrowser,
     Drained, Browsed, Cleanup, Judging, Closed, Backed, SkipQuality, Go, Returns, files,
     Running, BrowserOk, Components
<1>4. GoodStage'
  BY <1>1, ModeTyped DEF IInv, TypeOK, ProcessStage, GoodStage, VideoStage, Wanted, BeforeRunner,
     BeforeBrowser, Drained, Browsed, Cleanup, Judging, Closed, Backed, SkipQuality, Go, Returns,
     files, Running, BrowserOk, Components
<1>5. VideoStage'
  BY <1>1 DEF IInv, TypeOK, ProcessStage, VideoStage, BeforeRunner, BeforeBrowser, Drained,
     Browsed, Judging, Closed, SkipQuality, Go, Returns, files, Running, BrowserOk, Components
<1>6. ExitStage'
  BY DEF IInv, ExitStage, SkipQuality, Go, Returns, files, BrowserOk, Components
<1>7. PassIsBacked'
  BY <1>1, ModeTyped DEF IInv, TypeOK, RunnerStage, ProcessStage, GoodStage, VideoStage,
     ExitStage, PassIsBacked, Wanted, Active, BeforeRunner, BeforeBrowser, Drained, Browsed,
     Cleanup, Judging, Closed, Backed, SkipQuality, Go, Returns, files, Running, BrowserOk,
     Components
<1>8. QED
  BY <1>1, <1>2, <1>3, <1>4, <1>5, <1>6, <1>7 DEF IInv

(* The reference is rendered by components of their own:                   *)
LEMMA StartReferencePreserves ==
    ASSUME IInv, StartReference
    PROVE  IInv'
<1>1. RunnerType' /\ RunnerStage' /\ UNCHANGED <<status, vm, job, results>>
  BY RunnerUntouched DEF StartReference, Go, Returns, Raise, Start, files, BrowserOk, Components
<1>2. TypeOK'
  BY StartTyped DEF StartReference, Components
<1>3. ProcessStage'
  BY <1>1, ModeTyped DEF IInv, TypeOK, ProcessStage, GoodStage, BeforeRunner, BeforeBrowser,
     Drained, Browsed, Cleanup, Judging, Closed, Backed, StartReference, Go, Returns, Raise,
     Start, files, Running, BrowserOk, Components
<1>4. GoodStage'
  BY <1>1, ModeTyped DEF IInv, TypeOK, ProcessStage, GoodStage, VideoStage, Wanted, BeforeRunner,
     BeforeBrowser, Drained, Browsed, Cleanup, Judging, Closed, Backed, StartReference, Go,
     Returns, Raise, Start, files, Running, BrowserOk, Components
<1>5. VideoStage'
  BY <1>1 DEF IInv, TypeOK, ProcessStage, VideoStage, BeforeRunner, BeforeBrowser, Drained,
     Browsed, Judging, Closed, StartReference, Go, Returns, Raise, Start, files, Running,
     BrowserOk, Components
<1>6. ExitStage'
  BY DEF IInv, ExitStage, StartReference, Go, Returns, Raise, Start, files, BrowserOk, Components
<1>7. PassIsBacked'
  BY <1>1, ModeTyped DEF IInv, TypeOK, RunnerStage, ProcessStage, GoodStage, VideoStage,
     ExitStage, PassIsBacked, Wanted, Active, BeforeRunner, BeforeBrowser, Drained, Browsed,
     Cleanup, Judging, Closed, Backed, StartReference, Go, Returns, Raise, Start, files, Running,
     BrowserOk, Components
<1>8. QED
  BY <1>1, <1>2, <1>3, <1>4, <1>5, <1>6, <1>7 DEF IInv

(* their port is waited for,                                               *)
LEMMA AwaitReferencePreserves ==
    ASSUME IInv, AwaitReference
    PROVE  IInv'
<1>1. RunnerType' /\ RunnerStage' /\ UNCHANGED <<status, vm, job, results>>
  BY RunnerUntouched DEF AwaitReference, Go, Returns, Raise, WaitPort, files, Running, Failed,
     Components
<1>2. TypeOK'
  <2>1. failure' \in BOOLEAN /\ UNCHANGED <<proc, ready, files>>
    BY DEF IInv, TypeOK, AwaitReference, WaitPort, Returns, Raise
  <2>2. QED
    BY <1>1, <2>1, TypeKept DEF IInv
<1>3. ProcessStage'
  BY <1>1, ModeTyped DEF IInv, TypeOK, ProcessStage, GoodStage, BeforeRunner, BeforeBrowser,
     Drained, Browsed, Cleanup, Judging, Closed, Backed, AwaitReference, Go, Returns, Raise,
     WaitPort, files, Running, Failed, Components
<1>4. GoodStage'
  BY <1>1, ModeTyped DEF IInv, TypeOK, ProcessStage, GoodStage, VideoStage, Wanted, BeforeRunner,
     BeforeBrowser, Drained, Browsed, Cleanup, Judging, Closed, Backed, AwaitReference, Go,
     Returns, Raise, WaitPort, files, Running, Failed, Components
<1>5. VideoStage'
  BY <1>1 DEF IInv, TypeOK, ProcessStage, VideoStage, BeforeRunner, BeforeBrowser, Drained,
     Browsed, Judging, Closed, AwaitReference, Go, Returns, Raise, WaitPort, files, Running,
     Failed, Components
<1>6. ExitStage'
  BY DEF IInv, ExitStage, AwaitReference, Go, Returns, Raise, WaitPort, files, Running, Failed,
     Components
<1>7. PassIsBacked'
  BY <1>1, ModeTyped DEF IInv, TypeOK, RunnerStage, ProcessStage, GoodStage, VideoStage,
     ExitStage, PassIsBacked, Wanted, Active, BeforeRunner, BeforeBrowser, Drained, Browsed,
     Cleanup, Judging, Closed, Backed, AwaitReference, Go, Returns, Raise, WaitPort, files,
     Running, Failed, Components
<1>8. QED
  BY <1>1, <1>2, <1>3, <1>4, <1>5, <1>6, <1>7 DEF IInv

(* their browser is started,                                               *)
LEMMA StartReferenceBrowserPreserves ==
    ASSUME IInv, StartReferenceBrowser
    PROVE  IInv'
<1>1. RunnerType' /\ RunnerStage' /\ UNCHANGED <<status, vm, job, results>>
  BY RunnerUntouched DEF StartReferenceBrowser, Go, Returns, Raise, Start, files, Components
<1>2. TypeOK'
  BY StartTyped DEF StartReferenceBrowser, Components
<1>3. ProcessStage'
  BY <1>1, ModeTyped DEF IInv, TypeOK, ProcessStage, GoodStage, BeforeRunner, BeforeBrowser,
     Drained, Browsed, Cleanup, Judging, Closed, Backed, StartReferenceBrowser, Go, Returns,
     Raise, Start, files, Running, Components
<1>4. GoodStage'
  BY <1>1, ModeTyped DEF IInv, TypeOK, ProcessStage, GoodStage, VideoStage, Wanted, BeforeRunner,
     BeforeBrowser, Drained, Browsed, Cleanup, Judging, Closed, Backed, StartReferenceBrowser,
     Go, Returns, Raise, Start, files, Running, Components
<1>5. VideoStage'
  BY <1>1 DEF IInv, TypeOK, ProcessStage, VideoStage, BeforeRunner, BeforeBrowser, Drained,
     Browsed, Judging, Closed, StartReferenceBrowser, Go, Returns, Raise, Start, files, Running,
     Components
<1>6. ExitStage'
  BY DEF IInv, ExitStage, StartReferenceBrowser, Go, Returns, Raise, Start, files, Components
<1>7. PassIsBacked'
  BY <1>1, ModeTyped DEF IInv, TypeOK, RunnerStage, ProcessStage, GoodStage, VideoStage,
     ExitStage, PassIsBacked, Wanted, Active, BeforeRunner, BeforeBrowser, Drained, Browsed,
     Cleanup, Judging, Closed, Backed, StartReferenceBrowser, Go, Returns, Raise, Start, files,
     Running, Components
<1>8. QED
  BY <1>1, <1>2, <1>3, <1>4, <1>5, <1>6, <1>7 DEF IInv

(* and it must be content.                                                 *)
LEMMA AwaitReferenceBrowserPreserves ==
    ASSUME IInv, AwaitReferenceBrowser
    PROVE  IInv'
<1>1. RunnerType' /\ RunnerStage' /\ UNCHANGED <<status, vm, job, results>>
  BY RunnerUntouched DEF AwaitReferenceBrowser, Go, Returns, Raise, files, Components
<1>2. TypeOK'
  <2>1. failure' \in BOOLEAN /\ UNCHANGED <<proc, ready, files>>
    BY DEF IInv, TypeOK, AwaitReferenceBrowser, Returns, Raise
  <2>2. QED
    BY <1>1, <2>1, TypeKept DEF IInv
<1>3. ProcessStage'
  BY <1>1, ModeTyped DEF IInv, TypeOK, ProcessStage, GoodStage, BeforeRunner, BeforeBrowser,
     Drained, Browsed, Cleanup, Judging, Closed, Backed, AwaitReferenceBrowser, Go, Returns,
     Raise, files, Running, Components
<1>4. GoodStage'
  BY <1>1, ModeTyped DEF IInv, TypeOK, ProcessStage, GoodStage, VideoStage, Wanted, BeforeRunner,
     BeforeBrowser, Drained, Browsed, Cleanup, Judging, Closed, Backed, AwaitReferenceBrowser,
     Go, Returns, Raise, files, Running, Components
<1>5. VideoStage'
  BY <1>1 DEF IInv, TypeOK, ProcessStage, VideoStage, BeforeRunner, BeforeBrowser, Drained,
     Browsed, Judging, Closed, AwaitReferenceBrowser, Go, Returns, Raise, files, Running,
     Components
<1>6. ExitStage'
  BY DEF IInv, ExitStage, AwaitReferenceBrowser, Go, Returns, Raise, files, Components
<1>7. PassIsBacked'
  BY <1>1, ModeTyped DEF IInv, TypeOK, RunnerStage, ProcessStage, GoodStage, VideoStage,
     ExitStage, PassIsBacked, Wanted, Active, BeforeRunner, BeforeBrowser, Drained, Browsed,
     Cleanup, Judging, Closed, Backed, AwaitReferenceBrowser, Go, Returns, Raise, files, Running,
     Components
<1>8. QED
  BY <1>1, <1>2, <1>3, <1>4, <1>5, <1>6, <1>7 DEF IInv

(* The comparison is made, or raises.                                      *)
LEMMA ComparePreserves ==
    ASSUME IInv, Compare
    PROVE  IInv'
<1>1. RunnerType' /\ RunnerStage' /\ UNCHANGED <<status, vm, job, results>>
  BY RunnerUntouched DEF Compare, Go, Returns, Raise, Components
<1>2. TypeOK'
  <2>1. failure' \in BOOLEAN /\ compared' \in BOOLEAN
    BY DEF IInv, TypeOK, Compare, Returns, Raise
  <2>2. UNCHANGED <<mode, proc, ready, telemetry, videos, exit, signals, cutShort>>
    BY DEF Compare
  <2>3. QED
    BY <1>1, <2>1, <2>2 DEF IInv, TypeOK
<1>3. ProcessStage'
  BY <1>1, ModeTyped DEF IInv, TypeOK, ProcessStage, GoodStage, BeforeRunner, BeforeBrowser,
     Drained, Browsed, Cleanup, Judging, Closed, Backed, Compare, Go, Returns, Raise, Running,
     Components
<1>4. GoodStage'
  BY <1>1, ModeTyped DEF IInv, TypeOK, ProcessStage, GoodStage, VideoStage, Wanted, BeforeRunner,
     BeforeBrowser, Drained, Browsed, Cleanup, Judging, Closed, Backed, Compare, Go, Returns,
     Raise, Running, Components
<1>5. VideoStage'
  BY <1>1 DEF IInv, TypeOK, ProcessStage, VideoStage, BeforeRunner, BeforeBrowser, Drained,
     Browsed, Judging, Closed, Compare, Go, Returns, Raise, Running, Components
<1>6. ExitStage'
  BY DEF IInv, ExitStage, Compare, Go, Returns, Raise, Components
<1>7. PassIsBacked'
  BY <1>1, ModeTyped DEF IInv, TypeOK, RunnerStage, ProcessStage, GoodStage, VideoStage,
     ExitStage, PassIsBacked, Wanted, Active, BeforeRunner, BeforeBrowser, Drained, Browsed,
     Cleanup, Judging, Closed, Backed, Compare, Go, Returns, Raise, Running, Components
<1>8. QED
  BY <1>1, <1>2, <1>3, <1>4, <1>5, <1>6, <1>7 DEF IInv

(* A runner that is signalled still runs, so nothing depends on its status. *)
LEMMA StopRunnerPreserves ==
    ASSUME IInv, StopRunner
    PROVE  IInv'
<1>1. RunnerType' /\ RunnerStage' /\ (status' # status => status = "running")
  BY RunnerUntouched, RunnerSteps DEF IInv, TypeOK, StopRunner
<1>2. TypeOK'
  <2>1. failure' \in BOOLEAN /\ UNCHANGED <<proc, ready, files>>
    BY DEF IInv, TypeOK, StopRunner, Returns
  <2>2. QED
    BY <1>1, <2>1, TypeKept DEF IInv
<1>3. ProcessStage'
  BY <1>1, ModeTyped DEF IInv, TypeOK, ProcessStage, GoodStage, BeforeRunner, BeforeBrowser,
     Drained, Browsed, Cleanup, Judging, Closed, Backed, StopRunner, Go, Returns, files, Running,
     Components
<1>4. GoodStage'
  BY <1>1, ModeTyped DEF IInv, TypeOK, ProcessStage, GoodStage, VideoStage, Wanted, BeforeRunner,
     BeforeBrowser, Drained, Browsed, Cleanup, Judging, Closed, Backed, StopRunner, Go, Returns,
     files, Running, Components
<1>5. VideoStage'
  BY <1>1 DEF IInv, TypeOK, ProcessStage, VideoStage, BeforeRunner, BeforeBrowser, Drained,
     Browsed, Judging, Closed, StopRunner, Go, Returns, files, Running, Components
<1>6. ExitStage'
  BY DEF IInv, ExitStage, StopRunner, Go, Returns, files, Components
<1>7. PassIsBacked'
  BY <1>1, ModeTyped DEF IInv, TypeOK, RunnerStage, ProcessStage, GoodStage, VideoStage,
     ExitStage, PassIsBacked, Wanted, Active, BeforeRunner, BeforeBrowser, Drained, Browsed,
     Cleanup, Judging, Closed, Backed, StopRunner, Go, Returns, files, Running, Components
<1>8. QED
  BY <1>1, <1>2, <1>3, <1>4, <1>5, <1>6, <1>7 DEF IInv

(* Time passes.                                                            *)
LEMMA GracePreserves ==
    ASSUME IInv, Grace
    PROVE  IInv'
<1>1. RunnerType' /\ RunnerStage' /\ UNCHANGED <<status, vm, job, results>>
  BY RunnerUntouched DEF Grace, Go, Returns, files, Components
<1>2. TypeOK'
  <2>1. failure' \in BOOLEAN /\ UNCHANGED <<proc, ready, files>>
    BY DEF IInv, TypeOK, Grace, Returns
  <2>2. QED
    BY <1>1, <2>1, TypeKept DEF IInv
<1>3. ProcessStage'
  BY <1>1, ModeTyped DEF IInv, TypeOK, ProcessStage, GoodStage, BeforeRunner, BeforeBrowser,
     Drained, Browsed, Cleanup, Judging, Closed, Backed, Grace, Go, Returns, files, Running,
     Components
<1>4. GoodStage'
  BY <1>1, ModeTyped DEF IInv, TypeOK, ProcessStage, GoodStage, VideoStage, Wanted, BeforeRunner,
     BeforeBrowser, Drained, Browsed, Cleanup, Judging, Closed, Backed, Grace, Go, Returns,
     files, Running, Components
<1>5. VideoStage'
  BY <1>1 DEF IInv, TypeOK, ProcessStage, VideoStage, BeforeRunner, BeforeBrowser, Drained,
     Browsed, Judging, Closed, Grace, Go, Returns, files, Running, Components
<1>6. ExitStage'
  BY DEF IInv, ExitStage, Grace, Go, Returns, files, Components
<1>7. PassIsBacked'
  BY <1>1, ModeTyped DEF IInv, TypeOK, RunnerStage, ProcessStage, GoodStage, VideoStage,
     ExitStage, PassIsBacked, Wanted, Active, BeforeRunner, BeforeBrowser, Drained, Browsed,
     Cleanup, Judging, Closed, Backed, Grace, Go, Returns, files, Running, Components
<1>8. QED
  BY <1>1, <1>2, <1>3, <1>4, <1>5, <1>6, <1>7 DEF IInv

(* The same for the runner that is terminated ...                          *)
LEMMA TerminatePreserves ==
    ASSUME IInv, Terminate
    PROVE  IInv'
<1>1. RunnerType' /\ RunnerStage' /\ (status' # status => status = "running")
  BY RunnerUntouched, RunnerSteps DEF IInv, TypeOK, Terminate
<1>2. TypeOK'
  <2>1. failure' \in BOOLEAN /\ UNCHANGED <<proc, ready, files>>
    BY DEF IInv, TypeOK, Terminate, Returns
  <2>2. QED
    BY <1>1, <2>1, TypeKept DEF IInv
<1>3. ProcessStage'
  BY <1>1, ModeTyped DEF IInv, TypeOK, ProcessStage, GoodStage, BeforeRunner, BeforeBrowser,
     Drained, Browsed, Cleanup, Judging, Closed, Backed, Terminate, Go, Returns, files, Running,
     Components
<1>4. GoodStage'
  BY <1>1, ModeTyped DEF IInv, TypeOK, ProcessStage, GoodStage, VideoStage, Wanted, BeforeRunner,
     BeforeBrowser, Drained, Browsed, Cleanup, Judging, Closed, Backed, Terminate, Go, Returns,
     files, Running, Components
<1>5. VideoStage'
  BY <1>1 DEF IInv, TypeOK, ProcessStage, VideoStage, BeforeRunner, BeforeBrowser, Drained,
     Browsed, Judging, Closed, Terminate, Go, Returns, files, Running, Components
<1>6. ExitStage'
  BY DEF IInv, ExitStage, Terminate, Go, Returns, files, Components
<1>7. PassIsBacked'
  BY <1>1, ModeTyped DEF IInv, TypeOK, RunnerStage, ProcessStage, GoodStage, VideoStage,
     ExitStage, PassIsBacked, Wanted, Active, BeforeRunner, BeforeBrowser, Drained, Browsed,
     Cleanup, Judging, Closed, Backed, Terminate, Go, Returns, files, Running, Components
<1>8. QED
  BY <1>1, <1>2, <1>3, <1>4, <1>5, <1>6, <1>7 DEF IInv

(* ... and for the one that is killed.                                     *)
LEMMA ReapPreserves ==
    ASSUME IInv, Reap
    PROVE  IInv'
<1>1. RunnerType' /\ RunnerStage' /\ (status' # status => status = "running")
  BY RunnerUntouched, RunnerSteps DEF IInv, TypeOK, Reap
<1>2. TypeOK'
  BY <1>1, ModeTyped DEF IInv, TypeOK, Reap, Go, Returns, files, Running, Components
<1>3. ProcessStage'
  BY <1>1, ModeTyped DEF IInv, TypeOK, ProcessStage, GoodStage, BeforeRunner, BeforeBrowser,
     Drained, Browsed, Cleanup, Judging, Closed, Backed, Reap, Go, Returns, files, Running,
     Components
<1>4. GoodStage'
  BY <1>1, ModeTyped DEF IInv, TypeOK, ProcessStage, GoodStage, VideoStage, Wanted, BeforeRunner,
     BeforeBrowser, Drained, Browsed, Cleanup, Judging, Closed, Backed, Reap, Go, Returns, files,
     Running, Components
<1>5. VideoStage'
  BY <1>1 DEF IInv, TypeOK, ProcessStage, VideoStage, BeforeRunner, BeforeBrowser, Drained,
     Browsed, Judging, Closed, Reap, Go, Returns, files, Running, Components
<1>6. ExitStage'
  BY DEF IInv, ExitStage, Reap, Go, Returns, files, Running, Components
<1>7. PassIsBacked'
  BY <1>1, ModeTyped DEF IInv, TypeOK, RunnerStage, ProcessStage, GoodStage, VideoStage,
     ExitStage, PassIsBacked, Wanted, Active, BeforeRunner, BeforeBrowser, Drained, Browsed,
     Cleanup, Judging, Closed, Backed, Reap, Go, Returns, files, Running, Components
<1>8. QED
  BY <1>1, <1>2, <1>3, <1>4, <1>5, <1>6, <1>7 DEF IInv

(* Nothing runs any more; a good recording is converted.                   *)
LEMMA ReapedPreserves ==
    ASSUME IInv, Reaped
    PROVE  IInv'
<1>1. RunnerType' /\ RunnerStage' /\ UNCHANGED <<status, vm, job, results>>
  BY RunnerUntouched DEF Reaped, Go, Returns, files, Running, BrowserOk, Components
<1>2. TypeOK'
  <2>1. failure' \in BOOLEAN /\ UNCHANGED <<proc, ready, files>>
    BY DEF IInv, TypeOK, Reaped, Returns
  <2>2. QED
    BY <1>1, <2>1, TypeKept DEF IInv
<1>3. ProcessStage'
  BY <1>1, ModeTyped DEF IInv, TypeOK, ProcessStage, GoodStage, BeforeRunner, BeforeBrowser,
     Drained, Browsed, Cleanup, Judging, Closed, Backed, Reaped, Go, Returns, files, Running,
     BrowserOk, Components
<1>4. GoodStage'
  BY <1>1, ModeTyped DEF IInv, TypeOK, ProcessStage, GoodStage, VideoStage, Wanted, BeforeRunner,
     BeforeBrowser, Drained, Browsed, Cleanup, Judging, Closed, Backed, Reaped, Go, Returns,
     files, Running, BrowserOk, Components
<1>5. VideoStage'
  BY <1>1 DEF IInv, TypeOK, ProcessStage, VideoStage, BeforeRunner, BeforeBrowser, Drained,
     Browsed, Judging, Closed, Reaped, Go, Returns, files, Running, BrowserOk, Components
<1>6. ExitStage'
  BY DEF IInv, ExitStage, Reaped, Go, Returns, files, Running, BrowserOk, Components
<1>7. PassIsBacked'
  BY <1>1, ModeTyped DEF IInv, TypeOK, RunnerStage, ProcessStage, GoodStage, VideoStage,
     ExitStage, PassIsBacked, Wanted, Active, BeforeRunner, BeforeBrowser, Drained, Browsed,
     Cleanup, Judging, Closed, Backed, Reaped, Go, Returns, files, Running, BrowserOk, Components
<1>8. QED
  BY <1>1, <1>2, <1>3, <1>4, <1>5, <1>6, <1>7 DEF IInv

(* A recording that cannot be normalized is a failure.                     *)
LEMMA NormalizePreserves ==
    ASSUME IInv, Normalize
    PROVE  IInv'
<1>1. RunnerType' /\ RunnerStage' /\ UNCHANGED <<status, vm, job, results>>
  BY RunnerUntouched DEF Normalize, Go, Returns, Components
<1>2. TypeOK'
  <2>1. failure' \in BOOLEAN /\ videos' \subseteq {"raw", "webm", "mp4", "gif"}
    BY DEF IInv, TypeOK, Normalize, Returns
  <2>2. UNCHANGED <<mode, proc, ready, compared, telemetry, exit, signals, cutShort>>
    BY DEF Normalize
  <2>3. QED
    BY <1>1, <2>1, <2>2 DEF IInv, TypeOK
<1>3. ProcessStage'
  BY <1>1, ModeTyped DEF IInv, TypeOK, ProcessStage, GoodStage, BeforeRunner, BeforeBrowser,
     Drained, Browsed, Cleanup, Judging, Closed, Backed, Normalize, Go, Returns, Running,
     Components
<1>4. GoodStage'
  BY <1>1, ModeTyped DEF IInv, TypeOK, ProcessStage, GoodStage, VideoStage, Wanted, BeforeRunner,
     BeforeBrowser, Drained, Browsed, Cleanup, Judging, Closed, Backed, Normalize, Go, Returns,
     Running, Components
<1>5. VideoStage'
  BY <1>1 DEF IInv, TypeOK, ProcessStage, VideoStage, BeforeRunner, BeforeBrowser, Drained,
     Browsed, Judging, Closed, Normalize, Go, Returns, Running, Components
<1>6. ExitStage'
  BY DEF IInv, ExitStage, Normalize, Go, Returns, Components
<1>7. PassIsBacked'
  BY <1>1, ModeTyped DEF IInv, TypeOK, RunnerStage, ProcessStage, GoodStage, VideoStage,
     ExitStage, PassIsBacked, Wanted, Active, BeforeRunner, BeforeBrowser, Drained, Browsed,
     Cleanup, Judging, Closed, Backed, Normalize, Go, Returns, Running, Components
<1>8. QED
  BY <1>1, <1>2, <1>3, <1>4, <1>5, <1>6, <1>7 DEF IInv

(* Everything wanted has been made, or there is a failure.                 *)
LEMMA ConvertPreserves ==
    ASSUME IInv, Convert
    PROVE  IInv'
<1>1. RunnerType' /\ RunnerStage' /\ UNCHANGED <<status, vm, job, results>>
  BY RunnerUntouched DEF Convert, Go, Returns, Components
<1>2. TypeOK'
  <2>1. failure' \in BOOLEAN /\ videos' \subseteq {"raw", "webm", "mp4", "gif"}
    BY ModeTyped DEF IInv, TypeOK, Convert, Returns
  <2>2. UNCHANGED <<mode, proc, ready, compared, telemetry, exit, signals, cutShort>>
    BY DEF Convert
  <2>3. QED
    BY <1>1, <2>1, <2>2 DEF IInv, TypeOK
<1>3. ProcessStage'
  BY <1>1, ModeTyped DEF IInv, TypeOK, ProcessStage, GoodStage, BeforeRunner, BeforeBrowser,
     Drained, Browsed, Cleanup, Judging, Closed, Backed, Convert, Go, Returns, Running,
     Components
<1>4. GoodStage'
  BY <1>1, ModeTyped DEF IInv, TypeOK, ProcessStage, GoodStage, VideoStage, Wanted, BeforeRunner,
     BeforeBrowser, Drained, Browsed, Cleanup, Judging, Closed, Backed, Convert, Go, Returns,
     Running, Components
<1>5. VideoStage'
  BY <1>1 DEF IInv, TypeOK, ProcessStage, VideoStage, BeforeRunner, BeforeBrowser, Drained,
     Browsed, Judging, Closed, Convert, Go, Returns, Running, Components
<1>6. ExitStage'
  BY DEF IInv, ExitStage, Convert, Go, Returns, Components
<1>7. PassIsBacked'
  BY <1>1, ModeTyped DEF IInv, TypeOK, RunnerStage, ProcessStage, GoodStage, VideoStage,
     ExitStage, PassIsBacked, Wanted, Active, BeforeRunner, BeforeBrowser, Drained, Browsed,
     Cleanup, Judging, Closed, Backed, Convert, Go, Returns, Running, Components
<1>8. QED
  BY <1>1, <1>2, <1>3, <1>4, <1>5, <1>6, <1>7 DEF IInv

(* Reading decides nothing.                                                *)
LEMMA ReadTelemetryPreserves ==
    ASSUME IInv, ReadTelemetry
    PROVE  IInv'
<1>1. RunnerType' /\ RunnerStage' /\ UNCHANGED <<status, vm, job, results>>
  BY RunnerUntouched DEF ReadTelemetry, Go, Returns, Components
<1>2. TypeOK'
  BY <1>1, ModeTyped DEF IInv, TypeOK, ReadTelemetry, Go, Returns, Components
<1>3. ProcessStage'
  BY <1>1, ModeTyped DEF IInv, TypeOK, ProcessStage, GoodStage, BeforeRunner, BeforeBrowser,
     Drained, Browsed, Cleanup, Judging, Closed, Backed, ReadTelemetry, Go, Returns, Running,
     Components
<1>4. GoodStage'
  BY <1>1, ModeTyped DEF IInv, TypeOK, ProcessStage, GoodStage, VideoStage, Wanted, BeforeRunner,
     BeforeBrowser, Drained, Browsed, Cleanup, Judging, Closed, Backed, ReadTelemetry, Go,
     Returns, Running, Components
<1>5. VideoStage'
  BY <1>1 DEF IInv, TypeOK, ProcessStage, VideoStage, BeforeRunner, BeforeBrowser, Drained,
     Browsed, Judging, Closed, ReadTelemetry, Go, Returns, Running, Components
<1>6. ExitStage'
  BY DEF IInv, ExitStage, ReadTelemetry, Go, Returns, Components
<1>7. PassIsBacked'
  BY <1>1, ModeTyped DEF IInv, TypeOK, RunnerStage, ProcessStage, GoodStage, VideoStage,
     ExitStage, PassIsBacked, Wanted, Active, BeforeRunner, BeforeBrowser, Drained, Browsed,
     Cleanup, Judging, Closed, Backed, ReadTelemetry, Go, Returns, Running, Components
<1>8. QED
  BY <1>1, <1>2, <1>3, <1>4, <1>5, <1>6, <1>7 DEF IInv

(* Exit code 0 is for a run without a failure.                             *)
LEMMA VerdictPreserves ==
    ASSUME IInv, Verdict
    PROVE  IInv'
<1>1. RunnerType' /\ RunnerStage' /\ UNCHANGED <<status, vm, job, results>>
  BY RunnerUntouched DEF Verdict, Go, Returns, BrowserOk, Components
<1>2. TypeOK'
  BY <1>1, ModeTyped DEF IInv, TypeOK, Verdict, Go, Returns, BrowserOk, Components
<1>3. ProcessStage'
  BY <1>1, ModeTyped DEF IInv, TypeOK, ProcessStage, GoodStage, BeforeRunner, BeforeBrowser,
     Drained, Browsed, Cleanup, Judging, Closed, Backed, Verdict, Go, Returns, Running,
     BrowserOk, Components
<1>4. GoodStage'
  BY <1>1, ModeTyped DEF IInv, TypeOK, ProcessStage, GoodStage, VideoStage, Wanted, BeforeRunner,
     BeforeBrowser, Drained, Browsed, Cleanup, Judging, Closed, Backed, Verdict, Go, Returns,
     Running, BrowserOk, Components
<1>5. VideoStage'
  BY <1>1 DEF IInv, TypeOK, ProcessStage, VideoStage, BeforeRunner, BeforeBrowser, Drained,
     Browsed, Judging, Closed, Verdict, Go, Returns, Running, BrowserOk, Components
<1>6. ExitStage'
  BY DEF IInv, ExitStage, Verdict, Go, Returns, BrowserOk, Components
<1>7. PassIsBacked'
  BY <1>1, ModeTyped DEF IInv, TypeOK, RunnerStage, ProcessStage, GoodStage, VideoStage,
     ExitStage, PassIsBacked, Wanted, Active, BeforeRunner, BeforeBrowser, Drained, Browsed,
     Cleanup, Judging, Closed, Backed, Verdict, Go, Returns, Running, BrowserOk, Components
<1>8. QED
  BY <1>1, <1>2, <1>3, <1>4, <1>5, <1>6, <1>7 DEF IInv

(* The file of the publisher changes nothing else.                         *)
LEMMA PublisherReadyPreserves ==
    ASSUME IInv, PublisherReady
    PROVE  IInv'
<1>1. RunnerType' /\ RunnerStage' /\ UNCHANGED <<status, vm, job, results>>
  BY RunnerUntouched DEF PublisherReady, files, Running, Components
<1>2. TypeOK'
  BY <1>1, ModeTyped DEF IInv, TypeOK, PublisherReady, files, Running, Components
<1>3. ProcessStage'
  BY <1>1, ModeTyped DEF IInv, TypeOK, ProcessStage, GoodStage, BeforeRunner, BeforeBrowser,
     Drained, Browsed, Cleanup, Judging, Closed, Backed, PublisherReady, files, Running,
     Components
<1>4. GoodStage'
  BY <1>1, ModeTyped DEF IInv, TypeOK, ProcessStage, GoodStage, VideoStage, Wanted, BeforeRunner,
     BeforeBrowser, Drained, Browsed, Cleanup, Judging, Closed, Backed, PublisherReady, files,
     Running, Components
<1>5. VideoStage'
  BY <1>1 DEF IInv, TypeOK, ProcessStage, VideoStage, BeforeRunner, BeforeBrowser, Drained,
     Browsed, Judging, Closed, PublisherReady, files, Running, Components
<1>6. ExitStage'
  BY DEF IInv, ExitStage, PublisherReady, files, Running, Components
<1>7. PassIsBacked'
  BY <1>1, ModeTyped DEF IInv, TypeOK, RunnerStage, ProcessStage, GoodStage, VideoStage,
     ExitStage, PassIsBacked, Wanted, Active, BeforeRunner, BeforeBrowser, Drained, Browsed,
     Cleanup, Judging, Closed, Backed, PublisherReady, files, Running, Components
<1>8. QED
  BY <1>1, <1>2, <1>3, <1>4, <1>5, <1>6, <1>7 DEF IInv

(* An interrupt is a failure, and one in the cleanup is remembered.        *)
LEMMA InterruptPreserves ==
    ASSUME IInv, Interrupt
    PROVE  IInv'
<1>1. RunnerType' /\ RunnerStage' /\ UNCHANGED <<status, vm, job, results>>
  BY RunnerUntouched DEF Interrupt, Components, Cleaning, After
<1>2. TypeOK'
  <2>1. signals' \in 0..MaxSignals
    BY MaxSignalsAssumption DEF IInv, TypeOK, Interrupt
  <2>2. failure' \in BOOLEAN /\ cutShort' \in BOOLEAN /\ exit' \in {-1, 0, 1, 130}
    BY DEF IInv, TypeOK, Interrupt, Cleaning
  <2>3. QED
    BY <1>1, <2>1, <2>2 DEF IInv, TypeOK, Interrupt
<1>3. ProcessStage'
  <2>1. UNCHANGED <<proc, status>>
    BY <1>1 DEF Interrupt
  <2>2. hpc' \in {"cleanup", "ended"} /\ (Closed' => After)
    BY DEF Interrupt, Closed, Cleaning
  <2>3. After => status # "running" /\ \A c \in Components : ~Running(c)
    BY DEF IInv, ProcessStage, After, BeforeRunner, Judging, Running
  <2>4. Closed' => status' # "running" /\ \A c \in Components : ~Running(c)'
    BY <2>1, <2>2, <2>3 DEF Running
  <2>5. QED
    BY <2>1, <2>2, <2>4 DEF IInv, ProcessStage, BeforeRunner, BeforeBrowser, Drained, Browsed,
       Judging, Closed, Running
<1>4. GoodStage'
  BY <1>1, ModeTyped DEF IInv, TypeOK, ProcessStage, GoodStage, VideoStage, Wanted, BeforeRunner,
     BeforeBrowser, Drained, Browsed, Cleanup, Judging, Closed, Backed, Interrupt, Running,
     Components, Cleaning, After
<1>5. VideoStage'
  BY <1>1 DEF IInv, TypeOK, ProcessStage, VideoStage, BeforeRunner, BeforeBrowser, Drained,
     Browsed, Judging, Closed, Interrupt, Running, Components, Cleaning, After
<1>6. ExitStage'
  BY DEF IInv, ExitStage, Interrupt, Components, Cleaning, After
<1>7. PassIsBacked'
  BY <1>1, ModeTyped DEF IInv, TypeOK, RunnerStage, ProcessStage, GoodStage, VideoStage,
     ExitStage, PassIsBacked, Wanted, Active, BeforeRunner, BeforeBrowser, Drained, Browsed,
     Cleanup, Judging, Closed, Backed, Interrupt, Running, Components, Cleaning, After
<1>8. QED
  BY <1>1, <1>2, <1>3, <1>4, <1>5, <1>6, <1>7 DEF IInv

(* A component exits; the recording is the browser's.                      *)
LEMMA ExitPreserves ==
    ASSUME IInv, NEW c \in Components, Exit(c)
    PROVE  IInv'
<1>1. RunnerType' /\ RunnerStage' /\ UNCHANGED <<status, vm, job, results>>
  BY RunnerUntouched DEF Exit, Running, Components
<1>2. c # "browser" => proc'["browser"] = proc["browser"] /\ UNCHANGED videos
  BY DEF IInv, TypeOK, Exit, Components
<1>3. TypeOK'
  <2>1. proc' \in [Components -> {"none", "running", "ok", "failed"}]
    BY DEF IInv, TypeOK, Exit
  <2>2. videos' \subseteq {"raw", "webm", "mp4", "gif"}
    <3>1. videos' = videos \/ videos' \in {{}, {"raw"}}
      BY DEF Exit
    <3>2. videos \subseteq {"raw", "webm", "mp4", "gif"}
      BY DEF IInv, TypeOK
    <3>3. QED
      BY <3>1, <3>2
  <2>3. QED
    BY <1>1, <2>1, <2>2 DEF IInv, TypeOK, Exit
<1>4. ProcessStage'
  <2>1. UNCHANGED <<hpc, status, cutShort>>
    BY <1>1 DEF Exit
  <2>2. /\ proc[c] = "running" /\ proc'[c] \in {"ok", "failed"}
        /\ \A d \in Components \ {c} : proc'[d] = proc[d]
    BY DEF IInv, TypeOK, Exit, Running
  <2>3. "browser" \in Components
    BY DEF Components
  <2>4. QED
    BY <2>1, <2>2, <2>3 DEF IInv, ProcessStage, BeforeRunner, BeforeBrowser, Drained, Browsed,
       Judging, Closed, Running
<1>5. GoodStage'
  <2>1. UNCHANGED <<hpc, mode, failure, compared, status>>
    BY <1>1 DEF Exit
  <2>2. hpc \in Cleanup \cup Judging /\ ~failure => c # "browser"
    BY DEF IInv, GoodStage, Backed, Exit, Running
  <2>3. hpc \in {"verdict", "judge"} => hpc \in Judging
    BY DEF Judging
  <2>4. Wanted' = Wanted
    BY <2>1 DEF Wanted
  <2>5. QED
    BY <1>2, <2>1, <2>2, <2>3, <2>4 DEF IInv, GoodStage, Backed
<1>6. VideoStage'
  <2>1. CASE c = "browser"
    BY <2>1 DEF IInv, TypeOK, Exit, VideoStage
  <2>2. CASE c # "browser"
    BY <1>2, <2>2 DEF IInv, VideoStage
  <2>3. QED
    BY <2>1, <2>2
<1>7. ExitStage'
  BY DEF IInv, ExitStage, Exit, Running, Components
<1>8. PassIsBacked'
  BY <1>1, ModeTyped DEF IInv, TypeOK, RunnerStage, ProcessStage, GoodStage, VideoStage,
     ExitStage, PassIsBacked, Wanted, Active, BeforeRunner, BeforeBrowser, Drained, Browsed,
     Cleanup, Judging, Closed, Backed, Exit, Running, Components
<1>9. QED
  BY <1>1, <1>3, <1>4, <1>5, <1>6, <1>7, <1>8 DEF IInv

(* A runner that runs is none whose status the launcher has relied on.     *)
LEMMA RunnerMainPreserves ==
    ASSUME IInv, RunnerMain, UNCHANGED host
    PROVE  IInv'
<1>1. RunnerType' /\ RunnerStage' /\ status = "running" /\ status' # "none"
  BY RunnerSteps DEF IInv, TypeOK
<1>2. hpc \notin Judging /\ ~Closed /\ hpc \notin BeforeRunner /\ exit # 0
  BY <1>1 DEF IInv, ProcessStage, ExitStage, Closed
<1>3. TypeOK'
  BY <1>1 DEF IInv, TypeOK, host
<1>4. ProcessStage'
  BY <1>2 DEF IInv, ProcessStage, Closed, Running, host
<1>5. GoodStage'
  BY <1>1, <1>2 DEF IInv, GoodStage, Backed, Wanted, host
<1>6. VideoStage' /\ ExitStage' /\ PassIsBacked'
  BY <1>2 DEF IInv, VideoStage, ExitStage, PassIsBacked, host
<1>7. QED
  BY <1>1, <1>3, <1>4, <1>5, <1>6 DEF IInv

(* The machine changes no status.                                          *)
LEMMA MachinePreserves ==
    ASSUME IInv, VmEnds \/ JobProceeds, UNCHANGED host
    PROVE  IInv'
<1>1. /\ RunnerType' /\ RunnerStage' /\ UNCHANGED <<status, results>>
      /\ job = "passed" => job' = "passed"
  BY MachineSteps DEF IInv, TypeOK
<1>2. TypeOK'
  BY <1>1 DEF IInv, TypeOK, host
<1>3. ProcessStage' /\ GoodStage' /\ VideoStage' /\ ExitStage'
  BY <1>1 DEF IInv, ProcessStage, GoodStage, VideoStage, ExitStage, Closed, Backed, Running,
     Wanted, host
<1>4. PassIsBacked'
  BY <1>1 DEF IInv, PassIsBacked, Wanted, host
<1>5. QED
  BY <1>1, <1>2, <1>3, <1>4 DEF IInv

(* So every step keeps the invariant.                                      *)
LEMMA NextPreserves == IInv /\ [Next]_vars => IInv'
<1>1. SUFFICES ASSUME IInv, [Next]_vars PROVE IInv'
  OBVIOUS
<1>2. CASE Launcher
  BY <1>1, <1>2, ChecksPreserves, StartWebPreserves, AwaitWebPreserves, StartRelayPreserves,
     StartPublisherPreserves, AwaitPublisherPreserves, StartBridgePreserves,
     AwaitBridgePreserves, ArchiveScenePreserves, StartQemuPreserves, AwaitAuditPreserves,
     RecordExperimentPreserves, ServePreserves, StartBrowserPreserves, AwaitBrowserPreserves,
     DrainPreserves, SkipQualityPreserves, StartReferencePreserves, AwaitReferencePreserves,
     StartReferenceBrowserPreserves, AwaitReferenceBrowserPreserves, ComparePreserves,
     StopRunnerPreserves, GracePreserves, TerminatePreserves, ReapPreserves, ReapedPreserves,
     NormalizePreserves, ConvertPreserves, ReadTelemetryPreserves, VerdictPreserves DEF Launcher
<1>3. CASE RunnerMain /\ UNCHANGED host
  BY <1>1, <1>3, RunnerMainPreserves
<1>4. CASE (VmEnds \/ JobProceeds) /\ UNCHANGED host
  BY <1>1, <1>4, MachinePreserves
<1>5. CASE (\E c \in Components : Exit(c)) \/ PublisherReady \/ Interrupt
  BY <1>1, <1>5, ExitPreserves, PublisherReadyPreserves, InterruptPreserves
<1>6. CASE UNCHANGED vars
  <2>1. UNCHANGED host /\ UNCHANGED runner
    BY <1>6 DEF vars
  <2>2. RunnerType' /\ RunnerStage' /\ UNCHANGED <<status, vm, job, results>>
    BY <1>1, <2>1, RunnerUntouched
  <2>3. TypeOK'
    BY <1>1, <2>1, <2>2 DEF IInv, TypeOK, host
  <2>4. ProcessStage' /\ GoodStage' /\ VideoStage' /\ ExitStage' /\ PassIsBacked'
    BY <1>1, <2>1, <2>2 DEF IInv, ProcessStage, GoodStage, VideoStage, ExitStage, PassIsBacked,
       Closed, Backed, Running, Wanted, host
  <2>5. QED
    BY <2>2, <2>3, <2>4 DEF IInv
<1>7. QED
  BY <1>1, <1>2, <1>3, <1>4, <1>5, <1>6 DEF Next

(* The strengthened invariant holds in every reachable state.              *)
LEMMA Invariance == Spec => []IInv
BY InitIInv, NextPreserves, PTL DEF Spec

-----------------------------------------------------------------------------
(* What the launcher promises                                              *)

(* Every variable of the launcher and of its runner keeps its type.        *)
THEOREM TypeCorrect == Spec => []TypeOK
<1>1. IInv => TypeOK
  BY DEF IInv
<1>2. QED
  BY <1>1, Invariance, PTL

(* Exit code 0 of run_camera_trace_player.py: the machine's run ended by   *)
(* itself with status 0, its target passed and its results were fetched; a *)
(* requested comparison was made, and every requested format is there.     *)
THEOREM BackedPass == Spec => []PassIsBacked
<1>1. IInv => PassIsBacked
  BY DEF IInv
<1>2. QED
  BY <1>1, Invariance, PTL

(* The finally of run(): unless an interrupt cuts it short, no component   *)
(* outlives the launcher, and no machine that nobody told to end does,     *)
(* except where its runner had to be killed.                               *)
THEOREM NothingIsLeft == Spec => []NothingLeft
<1>1. IInv => NothingLeft
  BY DEF IInv, RunnerStage, ProcessStage, NothingLeft, Closed
<1>2. QED
  BY <1>1, Invariance, PTL

(* The steps that touch the recordings keep the browser's own file until   *)
(* everything wanted has been made of it (convert_recording).              *)
LEMMA RecordingStep ==
    ASSUME IInv, [Next]_vars, "raw" \in videos
    PROVE  "raw" \in videos' \/ Wanted \subseteq videos'
<1>1. CASE \E c \in Components : Exit(c)
  <2>1. PICK c \in Components : Exit(c)
    BY <1>1
  <2>2. proc["browser"] \notin {"none", "running"}
    BY DEF IInv, VideoStage
  <2>3. c # "browser"
    BY <2>1, <2>2 DEF Exit, Running
  <2>4. QED
    BY <2>1, <2>3 DEF Exit
<1>2. CASE Normalize
  BY <1>2 DEF Normalize
<1>3. CASE Convert
  <2>1. Wanted \subseteq {"webm", "mp4", "gif"}
    BY ModeTyped DEF IInv, TypeOK
  <2>2. QED
    BY <1>3, <2>1 DEF Convert
<1>4. CASE UNCHANGED videos
  BY <1>4
<1>5. ~(\E c \in Components : Exit(c)) /\ ~Normalize /\ ~Convert => UNCHANGED videos
  BY DEF Next, Launcher, RunnerMain, vars, host, files, Checks, StartWeb, AwaitWeb, StartRelay,
     StartPublisher, AwaitPublisher, StartBridge, AwaitBridge, ArchiveScene, StartQemu,
     AwaitAudit, RecordExperiment, Serve, StartBrowser, AwaitBrowser, Drain, SkipQuality,
     StartReference, AwaitReference, StartReferenceBrowser, AwaitReferenceBrowser, Compare,
     StopRunner, Grace, Terminate, Reap, Reaped, ReadTelemetry, Verdict, PublisherReady,
     Interrupt, Start, WaitPort
<1>6. QED
  BY <1>1, <1>2, <1>3, <1>4, <1>5

(* No failure of a conversion, and no interrupt, loses a recording.        *)
THEOREM RecordingIsKept == Spec => RecordingKept
<1>1. IInv /\ [Next]_vars => ["raw" \in videos => "raw" \in videos' \/ Wanted \subseteq videos']_vars
  BY RecordingStep
<1>2. QED
  BY <1>1, Invariance, PTL DEF Spec, RecordingKept

==============================================================================
