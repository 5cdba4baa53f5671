------------------------------ MODULE QemuRun ------------------------------
(***************************************************************************)
(* One run of run_qemu_player.py: archives of the repository, a prepared   *)
(* image (the cache itself is in module SetupCache), a virtual machine on  *)
(* an overlay of it, the make target that runs in the guest, the retrieval *)
(* of its results, and the poweroff.                                       *)
(*                                                                         *)
(* Steps and signals only: the module has no specification of its own,     *)
(* HostRun starts, signals and kills the runner.  Every command and every  *)
(* wait may fail or time out, the machine may end by itself at any moment, *)
(* and the job in the guest serves, passes or fails as it likes.           *)
(***************************************************************************)

VARIABLES
    rpc,        \* where the runner's main is
    failing,    \* an exception is on its way out of main
    status,     \* "none", "running", "ok", "error", or "killed"
    vm,         \* "off", "setup" (preparing an image), "run", or "signalled"
    job,        \* the make target: "none", "running", "serving", "passed", "failed"
    results     \* what was copied to the destination: "none", "failed" or "passed"

runner == <<rpc, failing, status, vm, job, results>>

RunnerInit ==
    /\ rpc = "none" /\ failing = FALSE /\ status = "none"
    /\ vm = "off" /\ job = "none" /\ results = "none"

RunnerType ==
    /\ rpc \in {"none", "check", "archive", "cache", "preparing", "boot", "ssh", "auth",
                "inputs", "job", "salvage", "copy", "poweroff", "kill", "exit"}
    /\ failing \in BOOLEAN
    /\ status \in {"none", "running", "ok", "error", "killed"}
    /\ vm \in {"off", "setup", "run", "signalled"}
    /\ job \in {"none", "running", "serving", "passed", "failed"}
    /\ results \in {"none", "failed", "passed"}

RunnerStarted == rpc' = "check" /\ status' = "running" /\ UNCHANGED <<failing, vm, job, results>>

Moves(from, to) == rpc = from /\ rpc' = to
Works(from, to) == Moves(from, to) /\ UNCHANGED <<failing, status>>

(* An exception before there is a machine ends the runner ...              *)
Ends(from) == Moves(from, "exit") /\ failing' = TRUE /\ status' = "error"

(* ... and one after goes through the finally that stops the machine.      *)
Breaks(from, to) == Moves(from, to) /\ failing' = TRUE /\ UNCHANGED status

----------------------------------------------------------------------------
(* Before the machine of the run                                           *)

(* A missing image or command, a dirty worktree, an unsafe argument.       *)
Arguments ==
    /\ Works("check", "archive") \/ Ends("check")
    /\ UNCHANGED <<vm, job, results>>

(* Archives of the worktree and of the dependencies, and the provenance.   *)
Archive ==
    /\ Works("archive", "cache") \/ Ends("archive")
    /\ UNCHANGED <<vm, job, results>>

(* With or without a cached image; without one a machine prepares it.      *)
Obtain ==
    /\ \/ Works("cache", "boot") /\ UNCHANGED vm
       \/ Works("cache", "preparing") /\ vm' = "setup"
       \/ Ends("cache") /\ UNCHANGED vm
    /\ UNCHANGED <<job, results>>

Prepared ==
    /\ \/ vm = "setup" /\ Works("preparing", "boot") /\ vm' = "off"
       \/ Breaks("preparing", "poweroff") /\ UNCHANGED vm
    /\ UNCHANGED <<job, results>>

Boot ==
    /\ \/ Works("boot", "ssh") /\ vm' = "run"
       \/ Ends("boot") /\ UNCHANGED vm
    /\ UNCHANGED <<job, results>>

----------------------------------------------------------------------------
(* With the machine                                                        *)

(* password_command: a command over ssh or scp succeeds in a live machine  *)
(* only, and may fail or time out in any.                                  *)
Remote(from, to) == (vm = "run" /\ Works(from, to)) \/ Breaks(from, "poweroff")

WaitSsh ==
    /\ Remote("ssh", "auth")
    /\ UNCHANGED <<vm, job, results>>

(* Logs in again and again while the machine lives and the time lasts.     *)
WaitAuth ==
    /\ Remote("auth", "inputs")
    /\ UNCHANGED <<vm, job, results>>

(* Archives, provenance and guest files are copied; then the target runs.  *)
Inputs ==
    /\ Remote("inputs", "job")
    /\ job' = IF failing' THEN job ELSE "running"
    /\ UNCHANGED <<vm, results>>

(* ssh returns make's own status; a lost machine or the timeout is an      *)
(* error as well, whatever the job does meanwhile.                         *)
JobReturns ==
    /\ \/ vm = "run" /\ job = "passed" /\ Works("job", "copy")
       \/ Breaks("job", "salvage")
    /\ UNCHANGED <<vm, job, results>>

(* The results of a failed target are fetched where possible; the          *)
(* exception that led here goes on in any case.                            *)
Salvage ==
    /\ Works("salvage", "poweroff")
    /\ results' \in IF vm = "run" THEN {"none", "failed"} ELSE {"none"}
    /\ UNCHANGED <<vm, job>>

CopyResults ==
    /\ Remote("copy", "poweroff")
    /\ results' = IF failing' THEN "none" ELSE "passed"
    /\ UNCHANGED <<vm, job>>

----------------------------------------------------------------------------
(* stop_qemu                                                               *)

Leave(from) ==
    /\ Moves(from, "exit")
    /\ status' = IF failing THEN "error" ELSE "ok"
    /\ UNCHANGED failing

(* A machine still there is asked to power off; an error is only printed   *)
(* here, and what is left is terminated or killed.                         *)
PowerOff ==
    /\ \/ vm = "off" /\ Leave("poweroff") /\ UNCHANGED vm
       \/ vm # "off" /\ vm' = "off" /\ Leave("poweroff")
       \/ vm # "off" /\ Works("poweroff", "kill") /\ UNCHANGED vm
    /\ UNCHANGED <<job, results>>

KillVm ==
    /\ vm' = "off" /\ Leave("kill")
    /\ UNCHANGED <<job, results>>

----------------------------------------------------------------------------
(* Signals, and what happens in the machine                                *)

(* SIGTERM is a KeyboardInterrupt, which no `except Exception` stops.  In  *)
(* the poweroff it leads to the finally that terminates the machine, and   *)
(* there it leaves a machine that has been told to end but not awaited.    *)
Terminated ==
    /\ status = "running"
    /\ failing' = TRUE
    /\ \/ /\ rpc \in {"check", "archive", "cache", "boot"}
          /\ rpc' = "exit" /\ status' = "error" /\ UNCHANGED vm
       \/ /\ rpc \in {"preparing", "ssh", "auth", "inputs", "job", "salvage", "copy"}
          /\ rpc' = "poweroff" /\ UNCHANGED <<status, vm>>
       \/ rpc = "poweroff" /\ rpc' = "kill" /\ UNCHANGED <<status, vm>>
       \/ /\ rpc = "kill"
          /\ rpc' = "exit" /\ status' = "error"
          /\ vm' = IF vm = "off" THEN "off" ELSE "signalled"
    /\ UNCHANGED <<job, results>>

(* SIGKILL leaves the machine as it is.                                    *)
RunnerKilled ==
    /\ status = "running"
    /\ status' = "killed" /\ rpc' = "exit"
    /\ UNCHANGED <<failing, vm, job, results>>

RunnerMain ==
    \/ Arguments \/ Archive \/ Obtain \/ Prepared \/ Boot \/ WaitSsh \/ WaitAuth
    \/ Inputs \/ JobReturns \/ Salvage \/ CopyResults \/ PowerOff \/ KillVm

VmEnds ==
    /\ vm # "off" /\ vm' = "off"
    /\ UNCHANGED <<rpc, failing, status, job, results>>

JobProceeds ==
    /\ vm = "run"
    /\ \/ job = "running" /\ job' \in {"serving", "failed"}
       \/ job = "serving" /\ job' \in {"passed", "failed"}
    /\ UNCHANGED <<rpc, failing, status, vm, results>>

=============================================================================
