---------------------------- MODULE SustainedRun ----------------------------
(***************************************************************************)
(* The sustained profile on the host: run_sustained_profile.py and the     *)
(* launcher it starts (launch.py), which starts two monitors               *)
(* (monitor_memory.py, affinity_monitor.py) and, in a unit of systemd, the *)
(* runner with pinned processors (qemu_priority.py); SustainedCase is what *)
(* runs in the machine.                                                    *)
(*                                                                         *)
(* The runner is reduced to the machines it boots: one that prepares an    *)
(* image where none is cached, and one that runs the target.  Memory may   *)
(* run low and every check of a monitor may fail at any moment, and up to  *)
(* MaxSignals interrupts hit the launcher.                                 *)
(***************************************************************************)
EXTENDS SustainedCase

CONSTANT MaxSignals     \* bound: interrupts of the launcher

ASSUME MaxSignalsAssumption == MaxSignals \in Nat

VARIABLES
    lpc,        \* where the launcher, and then the caller, is
    status,     \* of the unit, as the launcher saw it: "none", "ok" or "failed"
    exit,       \* exit code of run_sustained_profile.py, -1 before it ends
    passed,     \* complete.json of the host
    upc,        \* the runner in the unit: "none", "start", "preparing", "boot",
                \* "job", "fetch", "poweroff", "ok", "stopping" or "failed"
    vm,         \* "off", "setup" or "run"
    hit,        \* the image was cached
    pins,       \* the machine of the latest host-affinity file, "none" before
    passLine,   \* the runner has written its line with PASS and the place of the
                \* results it has retrieved
    stopFile,   \* stop-monitor is there
    monitor,    \* monitor[m]: "none", "watching", "ok", "failed" or "terminated"
    sampled,    \* the machine whose threads the affinity monitor samples
    signals,    \* interrupts so far
    cutShort    \* history: an interrupt or an error outside of the try

host == <<lpc, status, exit, passed, upc, vm, hit, pins, passLine, stopFile,
          monitor, sampled, signals, cutShort>>
vars == <<guest, host>>

Monitors == {"memory", "affinity"}

Init ==
    /\ GuestInit
    /\ lpc = "prepare" /\ status = "none" /\ exit = -1 /\ passed = FALSE
    /\ upc = "none" /\ vm = "off" /\ hit \in BOOLEAN /\ pins = "none"
    /\ passLine = FALSE
    /\ stopFile = FALSE
    /\ monitor = [m \in Monitors |-> "none"] /\ sampled = "none"
    /\ signals = 0 /\ cutShort = FALSE

machine == <<vm, hit, pins, passLine>>
unit == <<upc, machine>>
watch == <<monitor, sampled>>
UnitEnded == upc \in {"ok", "failed"}

Moves(from, to) == lpc = from /\ lpc' = to
Raises(from) == Moves(from, "ended") /\ exit' = 1
Passes(from, to) == (Moves(from, to) /\ UNCHANGED exit) \/ Raises(from)

----------------------------------------------------------------------------
(* Before the unit                                                         *)

(* A fresh directory with the inputs, and 3.5 GiB of memory; the option    *)
(* --prepare-only ends here.                                               *)
Prepare ==
    /\ \/ Passes("prepare", "memory")
       \/ Moves("prepare", "ended") /\ exit' = 0
    /\ UNCHANGED <<guest, status, passed, unit, stopFile, watch, signals, cutShort>>

StartMemory ==
    /\ \/ Moves("memory", "affinity") /\ UNCHANGED exit
          /\ monitor' = [monitor EXCEPT !["memory"] = "watching"]
       \/ Raises("memory") /\ UNCHANGED monitor
    /\ UNCHANGED <<guest, status, passed, unit, stopFile, sampled, signals, cutShort>>

(* What fails from here to the try leaves a monitor behind.                *)
StartAffinity ==
    /\ \/ Moves("affinity", "call") /\ UNCHANGED <<exit, cutShort>>
          /\ monitor' = [monitor EXCEPT !["affinity"] = "watching"]
       \/ Raises("affinity") /\ cutShort' = TRUE /\ UNCHANGED monitor
    /\ UNCHANGED <<guest, status, passed, unit, stopFile, sampled, signals>>

CallUnit ==
    /\ Moves("call", "wait") /\ upc' = "start"
    /\ UNCHANGED <<guest, status, exit, passed, machine, stopFile, watch, signals, cutShort>>

UnitReturns ==
    /\ Moves("wait", "stopunit") /\ UnitEnded
    /\ status' = upc
    /\ UNCHANGED <<guest, exit, passed, unit, stopFile, watch, signals, cutShort>>

----------------------------------------------------------------------------
(* The finally                                                             *)

(* SIGTERM to every process of the unit: what it does from there on is to  *)
(* end, with either status.                                                *)
Stopped == upc' = IF upc = "none" \/ UnitEnded THEN upc ELSE "stopping"

M_StopUnit ==
    /\ Moves("stopunit", "touch") /\ UNCHANGED upc
    /\ UNCHANGED <<guest, status, exit, passed, machine, stopFile, watch, signals, cutShort>>
StopUnit ==
    /\ Moves("stopunit", "touch") /\ Stopped
    /\ UNCHANGED <<guest, status, exit, passed, machine, stopFile, watch, signals, cutShort>>

TouchStop ==
    /\ Moves("touch", "awaitmemory") /\ stopFile' = TRUE
    /\ UNCHANGED <<guest, status, exit, passed, unit, watch, signals, cutShort>>

(* Eight seconds for each, and then SIGTERM.                               *)
M_Await(m, from, to) ==
    /\ Moves(from, to) /\ monitor[m] # "watching"
    /\ UNCHANGED <<guest, status, exit, passed, unit, stopFile, watch, signals, cutShort>>
Await(m, from, to) ==
    /\ Moves(from, to)
    /\ monitor' = [monitor EXCEPT ![m] = IF @ = "watching" THEN "terminated" ELSE @]
    /\ UNCHANGED <<guest, status, exit, passed, unit, stopFile, sampled, signals, cutShort>>
AwaitMemory == Await("memory", "awaitmemory", "awaitaffinity")
AwaitAffinity == Await("affinity", "awaitaffinity", "returncodes")

(* The status of the unit is the launcher's own; a monitor that failed is  *)
(* only looked at where the unit did not.                                  *)
ReturnCodes ==
    /\ LET good == status = "ok" /\ \A m \in Monitors : monitor[m] = "ok"
       IN \/ good /\ Moves("returncodes", "log") /\ UNCHANGED exit
          \/ ~good /\ Raises("returncodes")
    /\ UNCHANGED <<guest, status, passed, unit, stopFile, watch, signals, cutShort>>

----------------------------------------------------------------------------
(* After the launcher                                                      *)

(* The status of the unit says nothing of a stop; the line in qemu.log,    *)
(* which the runner writes when it has the results, does.                  *)
M_ReadLog ==
    /\ Passes("log", "analyze")
    /\ UNCHANGED <<guest, status, passed, unit, stopFile, watch, signals, cutShort>>
ReadLog ==
    /\ \/ passLine /\ Moves("log", "analyze") /\ UNCHANGED exit
       \/ ~passLine /\ Raises("log")
    /\ UNCHANGED <<guest, status, passed, unit, stopFile, watch, signals, cutShort>>

(* The retrieved results must be those of two completed cases, of the      *)
(* sources that were prepared; of the figures in them any may be wrong.    *)
Analyze ==
    /\ \/ /\ gpc = "complete" /\ Len(cases) = Cases
          /\ Moves("analyze", "validate") /\ UNCHANGED exit
       \/ Raises("analyze")
    /\ UNCHANGED <<guest, status, passed, unit, stopFile, watch, signals, cutShort>>

(* The unit had status 0, the latest pins and the samples of the host are  *)
(* there and as intended, and so is every task of both cases.              *)
Validate ==
    /\ \/ /\ status = "ok" /\ pins # "none" /\ sampled # "none" /\ Len(cases) = Cases
          /\ Moves("validate", "complete") /\ UNCHANGED exit
       \/ Raises("validate")
    /\ UNCHANGED <<guest, status, passed, unit, stopFile, watch, signals, cutShort>>

Complete ==
    /\ Moves("complete", "ended") /\ passed' = TRUE /\ exit' = 0
    /\ UNCHANGED <<guest, status, unit, stopFile, watch, signals, cutShort>>

(* KeyboardInterrupt, by SIGINT or SIGTERM.  In the try it leads to the    *)
(* finally, anywhere else nothing holds it; what its caller does then is   *)
(* to end.  A caller that is interrupted itself kills the launcher, a      *)
(* quarter of a second later, wherever it is.                              *)
InTry == lpc = "wait"
Unguarded == lpc \in {"affinity", "call", "stopunit", "touch", "awaitmemory", "awaitaffinity", "returncodes"}

Interrupt ==
    /\ InTry \/ Unguarded
    /\ signals < MaxSignals /\ signals' = signals + 1
    /\ \/ InTry /\ lpc' = "stopunit" /\ UNCHANGED <<exit, cutShort>>
       \/ lpc' = "ended" /\ exit' = 1 /\ cutShort' = TRUE
    /\ UNCHANGED <<guest, status, passed, unit, stopFile, watch>>

----------------------------------------------------------------------------
(* The unit                                                                *)

Unit(from, to) == upc = from /\ upc' = to
outside == <<lpc, status, exit, passed, stopFile, watch, signals, cutShort>>

(* What the end of a machine leaves of the guest.                          *)
GuestLost ==
    /\ gpc' = IF gpc \in {"none", "complete"} THEN gpc ELSE "failed"
    /\ net' = FALSE /\ flows' = "none" /\ publisher' = "none" /\ subscriber' = "none"
    /\ UNCHANGED <<broken, raised, cases>>

(* A machine counts as booted when its processors are pinned and the       *)
(* file that says so is there.                                             *)
BootPreparation ==
    /\ ~hit /\ Unit("start", "preparing") /\ vm' = "setup" /\ pins' = "setup"
    /\ UNCHANGED <<guest, hit, passLine, outside>>

Prepared ==
    /\ \/ hit /\ Unit("start", "boot")
       \/ Unit("preparing", "boot")
    /\ vm' = "off"
    /\ UNCHANGED <<guest, hit, pins, passLine, outside>>

BootRun ==
    /\ Unit("boot", "job") /\ vm' = "run" /\ pins' = "run"
    /\ gpc' = "reserve"
    /\ UNCHANGED <<net, processes, broken, raised, cases, hit, passLine, outside>>

(* The make target passes when the probe has ended well.                   *)
JobPasses ==
    /\ gpc = "complete" /\ Unit("job", "fetch")
    /\ UNCHANGED <<guest, machine, outside>>

(* The results are copied, and then the line is written.                   *)
Fetch ==
    /\ Unit("fetch", "poweroff") /\ passLine' = TRUE
    /\ UNCHANGED <<guest, vm, hit, pins, outside>>

PowerOff ==
    /\ Unit("poweroff", "ok") /\ vm' = "off"
    /\ GuestLost
    /\ UNCHANGED <<hit, pins, passLine, outside>>

(* Any step may fail, and systemd leaves no process of an ended unit.      *)
UnitFails ==
    /\ upc \in {"start", "preparing", "boot", "job", "fetch", "poweroff", "stopping"}
    /\ upc' = "failed" /\ vm' = "off"
    /\ GuestLost
    /\ UNCHANGED <<hit, pins, passLine, outside>>

(* The runner turns SIGTERM into KeyboardInterrupt and ends of SIGINT,     *)
(* which systemd counts as success.                                        *)
StoppedEnds ==
    /\ Unit("stopping", "ok") /\ vm' = "off"
    /\ GuestLost
    /\ UNCHANGED <<hit, pins, passLine, outside>>

Runner ==
    BootPreparation \/ Prepared \/ BootRun \/ JobPasses \/ Fetch \/ PowerOff
    \/ UnitFails \/ StoppedEnds

----------------------------------------------------------------------------
(* The monitors                                                            *)

Watching(m) == monitor[m] = "watching"
Ends(m, how) == monitor' = [monitor EXCEPT ![m] = how]
inside == <<guest, lpc, status, exit, passed, machine, stopFile, signals, cutShort>>

(* A pass: with less than 2 GiB left the running unit is stopped; the      *)
(* monitor ends after a pass that finds the file.                          *)
MemoryPass ==
    /\ Watching("memory")
    /\ UNCHANGED upc \/ Stopped
    /\ \/ stopFile /\ Ends("memory", "ok")
       \/ ~stopFile /\ UNCHANGED monitor
       \/ Ends("memory", "failed")
    /\ UNCHANGED <<inside, sampled>>

(* Until a machine has been pinned: the file or 300 seconds are a failure. *)
AwaitMachine ==
    /\ Watching("affinity") /\ sampled = "none"
    /\ \/ pins # "none" /\ sampled' = pins /\ UNCHANGED monitor
       \/ pins = "none" /\ UNCHANGED sampled /\ Ends("affinity", "failed")
    /\ UNCHANGED <<inside, upc>>

(* The machine found then is sampled until it has no thread left or 600    *)
(* seconds are over; the stop file is not looked at any more.              *)
Sample ==
    /\ Watching("affinity") /\ sampled # "none"
    /\ Ends("affinity", "ok") \/ Ends("affinity", "failed")
    /\ UNCHANGED <<inside, upc, sampled>>

Launcher ==
    \/ Prepare \/ StartMemory \/ StartAffinity \/ CallUnit \/ UnitReturns
    \/ StopUnit \/ TouchStop \/ AwaitMemory \/ AwaitAffinity \/ ReturnCodes
    \/ ReadLog \/ Analyze \/ Validate \/ Complete

Next ==
    \/ Launcher \/ Interrupt
    \/ Runner \/ MemoryPass \/ AwaitMachine \/ Sample
    \/ (Probe \/ FlowEnds \/ EndpointEnds) /\ vm = "run" /\ UNCHANGED host

Spec == Init /\ [][Next]_vars

(* The launcher goes on while it can, and the runner has a timeout for     *)
(* each of its commands; nothing is assumed of the monitors.               *)
FairSpec == Spec /\ WF_vars(Launcher) /\ WF_vars(Runner)

----------------------------------------------------------------------------
(* Properties                                                              *)

TypeOK ==
    /\ GuestType
    /\ status \in {"none", "ok", "failed"} /\ exit \in {-1, 0, 1}
    /\ {passed, hit, passLine, stopFile, cutShort} \subseteq BOOLEAN
    /\ upc \in {"none", "start", "preparing", "boot", "job", "fetch", "poweroff", "ok", "stopping", "failed"}
    /\ {vm, pins, sampled} \subseteq {"off", "none", "setup", "run"}
    /\ monitor \in [Monitors -> {"none", "watching", "ok", "failed", "terminated"}]
    /\ signals \in 0..MaxSignals

(* complete.json says PASS only of two cases whose background flows were   *)
(* connected from the first to the last measurement of the window, of      *)
(* results that were retrieved while the machine still ran, of a unit that *)
(* ended with status 0, and of monitors that ended as they should; with a  *)
(* cached image the affinities sampled are those of the measured machine.  *)
(* (Without one they are those of the machine that prepared it.)  Status 0 *)
(* is not enough for any of it: a unit that was stopped has it too.  Of    *)
(* those only one that had its results, and was powering off, may pass.    *)
PassIsMeasured ==
    passed =>
        /\ cases = <<FALSE, FALSE>>
        /\ passLine /\ upc = "ok" /\ vm = "off"
        /\ \A m \in Monitors : monitor[m] = "ok"
        /\ hit => sampled = "run"

(* Whatever fails inside the try, neither a monitor nor a unit that nobody *)
(* told to stop outlives the launcher.                                     *)
NothingLeft ==
    lpc = "ended" /\ ~cutShort =>
        /\ \A m \in Monitors : monitor[m] # "watching"
        /\ upc \in {"none", "stopping", "ok", "failed"}

(* The launcher ends, with monitors that never do included.                *)
RunEnds == <>(lpc = "ended")
=============================================================================
