------------------------------ MODULE GuestRun ------------------------------
(***************************************************************************)
(* The run inside the virtual machine (run_camera_player_guest.py): it     *)
(* builds a Mininet topology, starts background flows where the topology   *)
(* has them (thesis_player_topology.py), samples the network in a thread   *)
(* of its own, starts relay, publisher, bridge and proxy, watches them     *)
(* until the bridge ends, and leaves either a summary or a failure.        *)
(*                                                                         *)
(* Every process may exit at any moment, every command in a node of the    *)
(* network may fail, every wait with a timeout may time out, and one       *)
(* KeyboardInterrupt may arrive before the cleanup.  Files are abstracted  *)
(* to their names.                                                         *)
(***************************************************************************)
EXTENDS Integers, Sequences, SequencesExt

CONSTANT Ports      \* sequence: the ports of the background flows
ASSUME PortsAssumption == Ports \in Seq(Nat) /\ IsInjective(Ports)

Flow(port, side) == <<"background", port, side>>
Relay == <<"relay">>
Publisher == <<"publisher">>
Bridge == <<"bridge">>
Proxy == <<"proxy">>
Background == {Flow(port, side) : port \in Range(Ports), side \in {"server", "client"}}
Processes == Background \cup {Relay, Publisher, Bridge, Proxy}

VARIABLES
    thesis,     \* whether the topology has background flows and metric roles
    pc,         \* where main is
    proc,       \* proc[p]: "none", "running", "ended" (status 0) or "failed"
    processes,  \* the list `processes`: what the cleanup stops
    flows,      \* the list that start_background builds and returns
    net,        \* the Mininet network: "built", "up" or "stopped"
    sampler,    \* the sampling thread
    files,      \* the files of the output directory that are complete
    raised,     \* what main raised, of "error", "interrupt" and "cleanup"
    expired,    \* the deadline of the watch loop has passed
    atClose     \* history: the background flows running when the bridge ended

vars == <<thesis, pc, proc, processes, flows, net, sampler, files, raised,
          expired, atClose>>
rest == <<thesis, proc, processes, flows, net, sampler, expired, atClose>>

(* After build_topology, as main enters its try.                           *)
Init ==
    /\ thesis \in BOOLEAN
    /\ pc = "network"
    /\ proc = [p \in Processes |-> "none"]
    /\ processes = <<>> /\ flows = <<>>
    /\ net = "built"
    /\ sampler = "none"
    /\ files = {} /\ raised = {}
    /\ expired = FALSE /\ atClose = {}

Running(p) == proc[p] = "running"
Exited(p) == proc[p] \in {"ended", "failed"}        \* poll() is not None

Go(from, to) == pc = from /\ pc' = to
Raises(from, to, what) == Go(from, to) /\ raised' = raised \cup {what}
Raise(from) == Raises(from, "except", "error")
Returns(from, to) == Go(from, to) /\ UNCHANGED raised

(* A command in a node returns, fails or takes too long.                   *)
Command(from, to) == Returns(from, to) \/ Raise(from)

----------------------------------------------------------------------------
(* Network and background flows                                            *)

NetStart ==
    /\ net' \in {"built", "up"}
    /\ IF net' = "up" THEN Returns("network", "configure") ELSE Raise("network")
    /\ UNCHANGED <<thesis, proc, processes, flows, sampler, files, expired, atClose>>

Configure ==
    /\ Command("configure", IF thesis THEN "flows" ELSE "before")
    /\ UNCHANGED <<files, rest>>

(* The server and then the client of each port.                            *)
NextFlow == Flow(Ports[(Len(flows) \div 2) + 1], IF Len(flows) % 2 = 0 THEN "server" ELSE "client")

(* A popen that fails leaves the flows before it to the rollback.          *)
StartFlow ==
    /\ Len(flows) < 2 * Len(Ports)
    /\ \/ /\ Returns("flows", "flows")
          /\ proc' = [proc EXCEPT ![NextFlow] = "running"]
          /\ flows' = Append(flows, NextFlow)
       \/ /\ Raises("flows", "rollback", "error")
          /\ UNCHANGED <<proc, flows>>
    /\ UNCHANGED <<thesis, processes, net, sampler, files, expired, atClose>>

(* assert_background: a connection is established while both its ends run. *)
Connected == \A p \in Background : Running(p)

(* After two seconds every flow must be connected, and none have exited.   *)
Warm ==
    /\ Len(flows) = 2 * Len(Ports)
    /\ \/ /\ Connected
          /\ ~ \E i \in DOMAIN flows : Exited(flows[i])
          /\ Returns("flows", "register")
       \/ Raises("flows", "rollback", "error")
    /\ UNCHANGED <<files, rest>>

(* Terminates and, after three seconds, kills; the exception goes on.      *)
Rollback ==
    /\ \/ /\ flows # <<>>
          /\ proc' = [proc EXCEPT ![Last(flows)] = IF @ = "running" THEN "failed" ELSE @]
          /\ flows' = Front(flows)
          /\ Go("rollback", "rollback")
       \/ /\ flows = <<>>
          /\ Go("rollback", IF "error" \in raised THEN "except" ELSE "finally")
          /\ UNCHANGED <<proc, flows>>
    /\ UNCHANGED <<thesis, processes, net, sampler, files, raised, expired, atClose>>

Register ==
    /\ Returns("register", "sampler")
    /\ processes' = processes \o flows
    /\ UNCHANGED <<thesis, proc, flows, net, sampler, files, expired, atClose>>

----------------------------------------------------------------------------
(* The sampler: its constructor, start, stop and check, and its thread     *)

(* A thread that cannot be started leaves the object behind.               *)
StartSampler ==
    /\ \/ sampler' = "running" /\ Returns("sampler", "before")
       \/ sampler' = "created" /\ Raise("sampler")
    /\ UNCHANGED <<thesis, proc, processes, flows, net, files, expired, atClose>>

(* done is set and the thread joined: a thread that was never started      *)
(* cannot be, and one that is slow is given up after 30 seconds.           *)
SamplerStop(from, to) ==
    \/ /\ sampler = "running" /\ sampler' = "stopping"
       /\ Returns(from, from)
    \/ /\ sampler \in {"none", "ended", "failed"}
       /\ Returns(from, to)
       /\ UNCHANGED sampler
    \/ /\ sampler \in {"created", "stopping"}
       /\ IF from = "join" THEN Raise(from) ELSE Raises(from, "stop", "cleanup")
       /\ UNCHANGED sampler

SamplerOk == sampler # "failed"

(* A sample runs commands in the nodes; any exception ends the thread.     *)
Sample ==
    /\ \/ sampler = "stopping" /\ sampler' = "ended"
       \/ sampler \in {"running", "stopping"} /\ sampler' = "failed"
    /\ UNCHANGED <<thesis, pc, proc, processes, flows, net, files, raised, expired, atClose>>

----------------------------------------------------------------------------
(* Evidence, and the start of the services                                 *)

(* Queues and counters of every device are complete or an exception.       *)
Evidence(phase, from, to) == Returns(from, to) /\ files' = files \cup {phase}

Before ==
    /\ Evidence("before", "before", "record") \/ (Raise("before") /\ UNCHANGED files)
    /\ UNCHANGED rest

(* The record of the experiment and the certificate.                       *)
Record ==
    /\ Command("record", "relay")
    /\ UNCHANGED <<files, rest>>

(* A process is in `processes` from the moment it runs.                    *)
M_Launch(p, from, to) ==
    /\ Returns(from, to)
    /\ proc' = [proc EXCEPT ![p] = "running"]
    /\ UNCHANGED <<thesis, processes, flows, net, sampler, files, expired, atClose>>
Launch(p, from, to) ==
    /\ \/ /\ Returns(from, to)
          /\ proc' = [proc EXCEPT ![p] = "running"]
          /\ processes' = Append(processes, p)
       \/ Raise(from) /\ UNCHANGED <<proc, processes>>
    /\ UNCHANGED <<thesis, flows, net, sampler, files, expired, atClose>>

LaunchRelay == Launch(Relay, "relay", "publisher")
LaunchPublisher == Launch(Publisher, "publisher", "ready")
LaunchBridge == Launch(Bridge, "bridge", "proxy")
LaunchProxy == Launch(Proxy, "proxy", "watch")

(* wait_path: the file first, then the processes, at last the time.        *)
WaitPublisher ==
    /\ \/ "ready" \in files /\ Returns("ready", "bridge")
       \/ "ready" \notin files /\ (Exited(Relay) \/ Exited(Publisher)) /\ Raise("ready")
       \/ Raise("ready")
    /\ UNCHANGED <<files, rest>>

----------------------------------------------------------------------------
(* The watch loop and the verdict                                          *)

M_Watch ==
    /\ Returns("watch", IF Running(Bridge) THEN "check" ELSE "closed")
    /\ UNCHANGED <<files, rest>>
Watch ==
    /\ Returns("watch", IF ~expired /\ Running(Bridge) THEN "check" ELSE "closed")
    /\ UNCHANGED <<files, rest>>

(* One pass: sampler, background flows and services must be alive.         *)
Check ==
    /\ LET alive == /\ SamplerOk
                    /\ \A i \in DOMAIN flows : ~Exited(flows[i])
                    /\ ~Exited(Relay) /\ ~Exited(Publisher) /\ ~Exited(Proxy)
       IN IF alive THEN Returns("check", "watch") ELSE Raise("check")
    /\ UNCHANGED <<files, rest>>

(* The bridge must have ended by itself, with status 0.                    *)
Closed ==
    /\ IF proc[Bridge] = "ended" THEN Returns("closed", "assert") ELSE Raise("closed")
    /\ UNCHANGED <<files, rest>>

AssertConnected ==
    /\ \/ (thesis => Connected) /\ Returns("assert", "alive")
       \/ thesis /\ Raise("assert")
    /\ UNCHANGED <<files, rest>>

FlowsAlive ==
    /\ IF \E i \in DOMAIN flows : Exited(flows[i]) THEN Raise("alive") ELSE Returns("alive", "join")
    /\ UNCHANGED <<files, rest>>

JoinSampler ==
    /\ SamplerStop("join", "verdict")
    /\ UNCHANGED <<thesis, proc, processes, flows, net, files, expired, atClose>>

M_Summary ==
    /\ Returns("verdict", "finally") /\ files' = files \cup {"summary"}
    /\ UNCHANGED rest
Summary ==
    /\ IF SamplerOk
       THEN Returns("verdict", "finally") /\ files' = files \cup {"summary"}
       ELSE Raise("verdict") /\ UNCHANGED files
    /\ UNCHANGED rest

----------------------------------------------------------------------------
(* except and finally                                                      *)

M_Except ==
    /\ Returns("except", "finally")
    /\ UNCHANGED <<files, rest>>
Except ==
    /\ Returns("except", "finally")
    /\ files' = files \cup {"failure"}
    /\ UNCHANGED rest

FinallySampler ==
    /\ SamplerStop("finally", "after")
    /\ UNCHANGED <<thesis, proc, processes, flows, net, files, expired, atClose>>

(* Evidence only where there is something it is about.                     *)
After ==
    /\ \/ processes # <<>> /\ Evidence("after", "after", "stop")
       \/ processes # <<>> /\ Raises("after", "stop", "cleanup") /\ UNCHANGED files
       \/ processes = <<>> /\ Returns("after", "stop") /\ UNCHANGED files
    /\ UNCHANGED rest

(* stop(): SIGTERM, five seconds, SIGKILL.                                 *)
Stopped(p) == IF proc[p] = "running" THEN "failed" ELSE proc[p]

Stop ==
    /\ processes # <<>>
    /\ Returns("stop", "stop")
    /\ proc' = [proc EXCEPT ![Last(processes)] = Stopped(Last(processes))]
    /\ processes' = Front(processes)
    /\ UNCHANGED <<thesis, flows, net, sampler, files, expired, atClose>>

NetStop ==
    /\ processes = <<>>
    /\ Returns("stop", "done")
    /\ net' = "stopped"
    /\ UNCHANGED <<thesis, proc, processes, flows, sampler, files, expired, atClose>>

Main ==
    \/ NetStart \/ Configure \/ StartFlow \/ Warm \/ Rollback \/ Register
    \/ StartSampler \/ Before \/ Record
    \/ LaunchRelay \/ LaunchPublisher \/ WaitPublisher \/ LaunchBridge \/ LaunchProxy
    \/ Watch \/ Check \/ Closed \/ AssertConnected \/ FlowsAlive \/ JoinSampler
    \/ Summary \/ Except \/ FinallySampler \/ After \/ Stop \/ NetStop

----------------------------------------------------------------------------
(* What happens around main                                                *)

(* An interrupt falls on a command, a wait or a popen of the try, not       *)
(* between the return of start_background and the registration of what it  *)
(* returns.                                                                *)
Trying == pc \notin {"rollback", "register", "except", "finally", "after", "stop", "done"}

Interrupt ==
    /\ Trying
    /\ raised' = raised \cup {"interrupt"}
    /\ pc' = IF pc = "flows" THEN "rollback" ELSE "finally"
    /\ UNCHANGED <<files, rest>>

(* Only the bridge's status is told apart.                                 *)
Exit(p) ==
    /\ Running(p)
    /\ \E status \in IF p = Bridge THEN {"ended", "failed"} ELSE {"ended"} :
          proc' = [proc EXCEPT ![p] = status]
    /\ atClose' = IF p = Bridge THEN {q \in Background : Running(q)} ELSE atClose
    /\ UNCHANGED <<thesis, pc, processes, flows, net, sampler, files, raised, expired>>

PublisherReady ==
    /\ Running(Publisher)
    /\ "ready" \notin files
    /\ files' = files \cup {"ready"}
    /\ UNCHANGED <<thesis, pc, proc, processes, flows, net, sampler, raised, expired, atClose>>

Expire ==
    /\ pc \in {"watch", "check"} /\ ~expired
    /\ expired' = TRUE
    /\ UNCHANGED <<thesis, pc, proc, processes, flows, net, sampler, files, raised, atClose>>

Next ==
    \/ Main
    \/ Sample
    \/ Interrupt
    \/ \E p \in Processes : Exit(p)
    \/ PublisherReady
    \/ Expire

Spec == Init /\ [][Next]_vars

(* main runs on while it can, and time passes; the thread may be slow.     *)
FairSpec == Spec /\ WF_vars(Main) /\ WF_vars(Expire)

----------------------------------------------------------------------------
(* Properties                                                              *)

TypeOK ==
    /\ thesis \in BOOLEAN /\ expired \in BOOLEAN
    /\ proc \in [Processes -> {"none", "running", "ended", "failed"}]
    /\ processes \in Seq(Processes) /\ flows \in Seq(Background)
    /\ net \in {"built", "up", "stopped"}
    /\ sampler \in {"none", "created", "running", "stopping", "ended", "failed"}
    /\ files \subseteq {"before", "ready", "summary", "failure", "after"}
    /\ raised \subseteq {"error", "interrupt", "cleanup"}
    /\ atClose \subseteq Background

(* guest-summary.json says PASS only for a run whose evidence from before  *)
(* is complete, whose bridge ended by itself with status 0, and in which,  *)
(* where the topology has them, every background flow still ran when the   *)
(* bridge ended and the sampler sampled to its end without an error.  The  *)
(* three are looked at in different passes, while all of them may exit.    *)
PassIsEarned ==
    "summary" \in files =>
        /\ "before" \in files
        /\ proc[Bridge] = "ended"
        /\ thesis => atClose = Background /\ sampler = "ended"

(* However it ends, and wherever an exception or an interrupt struck, main *)
(* leaves no process and no network behind, and the daemon thread of the   *)
(* sampler survives it only if main says that something went wrong.        *)
NothingLeft ==
    pc = "done" =>
        /\ \A p \in Processes : ~Running(p)
        /\ net = "stopped"
        /\ sampler \in {"running", "stopping"} => raised # {}

(* A run that is not interrupted leaves a summary or a failure, never both *)
(* and never neither; one that returns normally has its summary and its    *)
(* evidence from before and after.                                         *)
ExitIsHonest ==
    pc = "done" =>
        /\ ~({"summary", "failure"} \subseteq files)
        /\ "interrupt" \notin raised => {"summary", "failure"} \cap files # {}
        /\ raised = {} => {"before", "summary", "after"} \subseteq files

(* main ends, whatever process hangs or whichever never gets ready: each   *)
(* of its waits has a deadline.                                            *)
RunEnds == <>(pc = "done")

=============================================================================
