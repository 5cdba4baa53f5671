---------------------------- MODULE SustainedCase ----------------------------
(***************************************************************************)
(* The guest's side of the sustained profile (sustained_probe.py with      *)
(* probe_topology.py and guest_priority.py): two cases one after another,  *)
(* each with a network, two background flows, a publisher and a subscriber *)
(* and a window in which bytes are counted.                                *)
(*                                                                         *)
(* Steps only: SustainedRun starts them as the make target of the machine. *)
(* Flows and endpoints may end at any moment; every check of an affinity   *)
(* or a priority, and every command, may fail.                             *)
(***************************************************************************)
EXTENDS Integers, Sequences

VARIABLES
    gpc,        \* where main or run_case is
    net,        \* the network of the case is up
    flows,      \* the background flows: "none", "up", or "gone"
    publisher,  \* "none", "running", "ok" or "failed"
    subscriber, \* the same
    broken,     \* history: the flows were not up somewhere inside the window
    raised,     \* an exception is on its way out of run_case
    cases       \* results.json: one entry for each case, its history `broken`

guest == <<gpc, net, flows, publisher, subscriber, broken, raised, cases>>

Cases == 2               \* the congestion options, one case each

GuestInit ==
    /\ gpc = "none" /\ net = FALSE
    /\ flows = "none" /\ publisher = "none" /\ subscriber = "none"
    /\ broken = FALSE /\ raised = FALSE /\ cases = <<>>

GuestType ==
    /\ gpc \in {"none", "reserve", "build", "net", "configure", "switch", "paths", "background",
                "samplers", "publisher", "subscriber", "endpoints", "before", "window", "pass", "after",
                "active", "priorities", "drain", "received", "summary", "stop", "next",
                "failed", "complete"}
    /\ flows \in {"none", "up", "gone"}
    /\ {publisher, subscriber} \subseteq {"none", "running", "ok", "failed"}
    /\ {net, broken, raised} \subseteq BOOLEAN
    /\ cases \in UNION {[1..n -> BOOLEAN] : n \in 0..2}

At(from, to) == gpc = from /\ gpc' = to
Does(from, to) == At(from, to) /\ UNCHANGED raised
Fails(from) == At(from, "stop") /\ raised' = TRUE
processes == <<flows, publisher, subscriber>>

----------------------------------------------------------------------------

(* Seven processors, and every user process moved to one of them.          *)
Reserve ==
    /\ At("reserve", "build") \/ At("reserve", "failed")
    /\ UNCHANGED <<net, processes, broken, raised, cases>>

(* The network is built outside of the try ...                             *)
Build ==
    /\ Does("build", "net") \/ Does("build", "failed")
    /\ UNCHANGED <<net, processes, broken, cases>>

(* ... and started inside.                                                 *)
Network ==
    /\ Does("net", "configure") \/ Fails("net")
    /\ net' = TRUE
    /\ UNCHANGED <<processes, broken, cases>>

(* Queues of every link, and the delay of every endpoint.                  *)
Configure ==
    /\ Does("configure", "switch") \/ Fails("configure")
    /\ UNCHANGED <<net, processes, broken, cases>>

(* The switch, its kernel workers and the receive queues get processors    *)
(* and priorities, which are read back.                                    *)
ConfigureSwitch ==
    /\ Does("switch", "paths") \/ Fails("switch")
    /\ UNCHANGED <<net, processes, broken, cases>>

(* Pings over the idle paths, and the filters of the delay.                *)
IdlePaths ==
    /\ Does("paths", "background") \/ Fails("paths")
    /\ UNCHANGED <<net, processes, broken, cases>>

(* start_background gives two connected flows, or leaves none.             *)
Background ==
    /\ \/ Does("background", "samplers") /\ flows' = "up"
       \/ Fails("background") /\ flows' \in {"none", "up"}
    /\ UNCHANGED <<net, publisher, subscriber, broken, cases>>

Samplers ==
    /\ Does("samplers", "publisher") \/ Fails("samplers")
    /\ UNCHANGED <<net, processes, broken, cases>>

Publisher ==
    /\ \/ Does("publisher", "subscriber") /\ publisher' = "running"
       \/ Fails("publisher") /\ UNCHANGED publisher
    /\ UNCHANGED <<net, flows, subscriber, broken, cases>>

Subscriber ==
    /\ \/ Does("subscriber", "endpoints") /\ subscriber' = "running"
       \/ Fails("subscriber") /\ UNCHANGED subscriber
    /\ UNCHANGED <<net, flows, publisher, broken, cases>>

(* verify_endpoints: within two seconds; the task of an endpoint that has  *)
(* ended but was not waited for is still there to look at.                 *)
VerifyEndpoints ==
    /\ Does("endpoints", "before") \/ Fails("endpoints")
    /\ UNCHANGED <<net, processes, broken, cases>>

Before ==
    /\ \/ Does("before", "window") /\ broken' = (flows # "up")
       \/ Fails("before") /\ UNCHANGED broken
    /\ UNCHANGED <<net, processes, cases>>

(* A pass of the loop begins with the check of what runs, once a second: a *)
(* task that has ended fails it or, of the switch, is passed over ...      *)
VerifyRuntime ==
    /\ Does("window", "pass") \/ Fails("window")
    /\ UNCHANGED <<net, processes, broken, cases>>

(* ... and looks at the endpoints and then at the flows.  The pass after   *)
(* which the time is up is the last one, and what ends after its checks is *)
(* not seen.                                                               *)
Window ==
    /\ \/ /\ publisher = "running" /\ subscriber = "running" /\ flows = "up"
          /\ Does("pass", "window") \/ Does("pass", "after")
       \/ Fails("pass")
    /\ UNCHANGED <<net, processes, broken, cases>>

AfterWindow ==
    /\ Does("after", "active") \/ Fails("after")
    /\ UNCHANGED <<net, processes, broken, cases>>

(* assert_background looks for the established connections.                *)
M_AssertBackground ==
    /\ Does("active", "priorities") \/ Fails("active")
    /\ UNCHANGED <<net, processes, broken, cases>>
AssertBackground ==
    /\ \/ flows = "up" /\ Does("active", "priorities")
       \/ Fails("active")
    /\ UNCHANGED <<net, processes, broken, cases>>

(* verify_background: the tasks of flows that are still there.             *)
VerifyBackground ==
    /\ Does("priorities", "drain") \/ Fails("priorities")
    /\ UNCHANGED <<net, processes, broken, cases>>

(* Both endpoints end by themselves with status 0 within ten seconds ...   *)
Drain ==
    /\ \/ publisher = "ok" /\ Does("drain", "received")
       \/ publisher # "ok" /\ Fails("drain")
    /\ UNCHANGED <<net, processes, broken, cases>>

(* ... and the subscriber has validated what it received.                  *)
Received ==
    /\ \/ subscriber = "ok" /\ Does("received", "summary")
       \/ Fails("received")
    /\ UNCHANGED <<net, processes, broken, cases>>

(* summary.json; results.json gets the entry when run_case has returned.   *)
Summary ==
    /\ Does("summary", "stop") \/ Fails("summary")
    /\ UNCHANGED <<net, processes, broken, cases>>

(* The finally; net.stop() itself may raise.                               *)
Finally ==
    /\ gpc = "stop"
    /\ flows' = "none" /\ publisher' = "none" /\ subscriber' = "none"
    /\ \/ gpc' = (IF raised THEN "failed" ELSE "next") /\ net' = FALSE
       \/ gpc' = "failed" /\ UNCHANGED net
    /\ UNCHANGED <<broken, raised, cases>>

NextCase ==
    /\ At("next", IF Len(cases) + 1 = Cases THEN "complete" ELSE "build")
    /\ cases' = Append(cases, broken)
    /\ UNCHANGED <<net, processes, broken, raised>>

Probe ==
    \/ Reserve \/ Build \/ Network \/ Configure \/ ConfigureSwitch \/ IdlePaths \/ Background
    \/ Samplers \/ Publisher \/ Subscriber \/ VerifyEndpoints \/ Before
    \/ VerifyRuntime \/ Window \/ AfterWindow \/ AssertBackground \/ VerifyBackground \/ Drain
    \/ Received \/ Summary \/ Finally \/ NextCase

----------------------------------------------------------------------------
(* What ends by itself                                                     *)

FlowEnds ==
    /\ flows = "up" /\ flows' = "gone"
    /\ broken' = (broken \/ gpc \in {"window", "pass", "after"})
    /\ UNCHANGED <<gpc, net, publisher, subscriber, raised, cases>>

EndpointEnds ==
    /\ \/ publisher = "running" /\ publisher' \in {"ok", "failed"} /\ UNCHANGED subscriber
       \/ subscriber = "running" /\ subscriber' \in {"ok", "failed"} /\ UNCHANGED publisher
    /\ UNCHANGED <<gpc, net, flows, broken, raised, cases>>

=============================================================================
