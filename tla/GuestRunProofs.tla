--------------------------- MODULE GuestRunProofs ---------------------------
(***************************************************************************)
(* What the run inside the virtual machine leaves behind and what its      *)
(* verdict is worth, for any number of background flows.                   *)
(***************************************************************************)
EXTENDS GuestRun, SequenceTheorems, TLAPS

(* The stages of main.                                                     *)
Starting == {"flows", "rollback", "register"}
Unlaunched ==
    {"network", "configure", "sampler", "before", "record", "relay", "publisher",
     "ready", "bridge"} \cup Starting
Judged == {"assert", "alive", "join", "verdict"}
Launched == {"proxy", "watch", "check", "closed"} \cup Judged
Leaving == {"finally", "after", "stop", "done"}

(* The stages in which the evidence from before has been collected, and    *)
(* those in which the sampler, where there is one, has been started.       *)
Documented == {"record", "relay", "publisher", "ready", "bridge"} \cup Launched
Sampled == {"before"} \cup Documented

(* A process runs only while one of the two lists holds it: the list of    *)
(* the cleanup or, until it is registered, that of start_background.       *)
Held(p) == p \in Range(processes) \/ (pc \in Starting /\ p \in Range(flows))
Owned == \A p \in Processes : Running(p) => Held(p)

(* The bridge ended once; no flow that runs now was not running then.      *)
BridgeStage ==
    /\ pc \in Unlaunched => proc[Bridge] = "none"
    /\ pc \in Judged => proc[Bridge] = "ended"
    /\ proc[Bridge] = "ended" => {p \in Background : Running(p)} \subseteq atClose
    /\ thesis /\ pc \in {"alive", "join", "verdict"} => atClose = Background

SamplerStage ==
    /\ thesis /\ pc \in Sampled => sampler # "none"
    /\ thesis /\ pc = "verdict" => sampler \in {"ended", "failed"}
    /\ pc \in {"after", "stop", "done"} /\ sampler \in {"running", "stopping"} => raised # {}

(* Neither verdict is written before the try is left, and never both.      *)
FilesStage ==
    /\ pc \in Documented => "before" \in files
    /\ pc \notin Leaving => "summary" \notin files /\ "failure" \notin files
    /\ ~("summary" \in files /\ "failure" \in files)

(* What was raised, and so what main has still to write on its way out.    *)
RaisedStage ==
    /\ pc = "rollback" => "error" \in raised \/ "interrupt" \in raised
    /\ pc = "except" => "error" \in raised
    /\ pc \in Leaving /\ "interrupt" \notin raised => "summary" \in files \/ "failure" \in files
    /\ pc \in Leaving /\ raised = {} => "summary" \in files
    /\ pc \in {"finally", "after"} /\ raised = {} => processes # <<>>
    /\ pc \in {"stop", "done"} /\ raised = {} => "after" \in files

MainStage ==
    /\ pc \in Unlaunched \cup Launched \cup {"except"} \cup Leaving
    /\ pc \in Launched => processes # <<>>
    /\ pc = "done" => processes = <<>> /\ net = "stopped"

IInv ==
    /\ TypeOK
    /\ MainStage
    /\ Owned
    /\ BridgeStage
    /\ SamplerStage
    /\ FilesStage
    /\ RaisedStage
    /\ PassIsEarned

-----------------------------------------------------------------------------
(* The lists                                                               *)

(* Appending adds one element to what a list holds.                        *)
LEMMA AppendRange ==
    ASSUME NEW S, NEW s \in Seq(S), NEW e \in S
    PROVE  /\ Append(s, e) \in Seq(S)
           /\ Append(s, e) # <<>>
           /\ Range(Append(s, e)) = Range(s) \cup {e}
<1>1. Append(s, e) \in Seq(S) /\ Len(Append(s, e)) = Len(s) + 1
  OBVIOUS
<1>2. \A i \in 1..Len(s) : Append(s, e)[i] = s[i]
  OBVIOUS
<1>3. Append(s, e)[Len(s) + 1] = e
  OBVIOUS
<1>4. DOMAIN Append(s, e) = DOMAIN s \cup {Len(s) + 1} /\ DOMAIN s = 1..Len(s)
  BY <1>1
<1>5. QED
  BY <1>1, <1>2, <1>3, <1>4 DEF Range

(* Taking the last element off leaves the others.                          *)
LEMMA FrontRange ==
    ASSUME NEW S, NEW s \in Seq(S), s # <<>>
    PROVE  /\ Front(s) \in Seq(S)
           /\ Last(s) \in S
           /\ Range(s) = Range(Front(s)) \cup {Last(s)}
<1>1. Len(s) \in Nat \ {0} /\ DOMAIN s = 1..Len(s)
  BY EmptySeq
<1>2. Last(s) \in S
  BY <1>1 DEF Last
<1>3. /\ Front(s) \in Seq(S) /\ Len(Front(s)) = Len(s) - 1
      /\ \A i \in 1..(Len(s) - 1) : Front(s)[i] = s[i]
  BY <1>1 DEF Front
<1>4. DOMAIN Front(s) = 1..(Len(s) - 1) /\ DOMAIN s = DOMAIN Front(s) \cup {Len(s)}
  BY <1>1, <1>3
<1>5. QED
  BY <1>1, <1>2, <1>3, <1>4 DEF Range, Last

(* A concatenation holds what its parts hold.                              *)
LEMMA ConcatRange ==
    ASSUME NEW S, NEW s \in Seq(S), NEW t \in Seq(S)
    PROVE  /\ s \o t \in Seq(S)
           /\ Range(s \o t) = Range(s) \cup Range(t)
<1>1. /\ s \o t \in Seq(S) /\ Len(s \o t) = Len(s) + Len(t)
      /\ DOMAIN (s \o t) = 1..(Len(s) + Len(t))
      /\ DOMAIN s = 1..Len(s) /\ DOMAIN t = 1..Len(t)
  OBVIOUS
<1>2. \A i \in 1..Len(s) : (s \o t)[i] = s[i]
  OBVIOUS
<1>3. \A i \in 1..Len(t) : (s \o t)[Len(s) + i] = t[i]
  OBVIOUS
<1>4. \A i \in (Len(s) + 1)..(Len(s) + Len(t)) : i - Len(s) \in 1..Len(t) /\ (s \o t)[i] = t[i - Len(s)]
  OBVIOUS
<1>5. Range(s \o t) \subseteq Range(s) \cup Range(t)
  BY <1>1, <1>2, <1>4 DEF Range
<1>6. Range(s) \subseteq Range(s \o t)
  BY <1>1, <1>2 DEF Range
<1>7. Range(t) \subseteq Range(s \o t)
  <2>1. ASSUME NEW i \in 1..Len(t) PROVE t[i] \in Range(s \o t)
    BY <1>1, <1>3 DEF Range
  <2>2. QED
    BY <1>1, <2>1 DEF Range
<1>8. QED
  BY <1>1, <1>5, <1>6, <1>7

(* The services are not flows, and they are different.                     *)
LEMMA Services ==
    /\ Background \subseteq Processes
    /\ {Relay, Publisher, Bridge, Proxy} \subseteq Processes
    /\ \A p \in {Relay, Publisher, Bridge, Proxy} : p \notin Background
    /\ Bridge # Relay /\ Bridge # Publisher /\ Bridge # Proxy
<1>1. \A p \in {Relay, Publisher, Bridge, Proxy} : p \notin Background
  BY DEF Relay, Publisher, Bridge, Proxy, Background, Flow
<1>2. QED
  BY <1>1 DEF Processes, Bridge, Relay, Publisher, Proxy

(* While flows are missing, the next one is a flow of this topology.       *)
LEMMA NextFlowIsOne ==
    ASSUME TypeOK, Len(flows) < 2 * Len(Ports)
    PROVE  NextFlow \in Background
<1>1. Len(flows) \in Nat /\ Len(Ports) \in Nat
  BY PortsAssumption DEF TypeOK
<1>2. (Len(flows) \div 2) + 1 \in 1..Len(Ports)
  BY <1>1
<1>3. Ports[(Len(flows) \div 2) + 1] \in Range(Ports)
  BY <1>2, PortsAssumption DEF Range
<1>4. QED
  BY <1>3 DEF NextFlow, Background


-----------------------------------------------------------------------------
(* The invariant is inductive                                              *)

(* Nothing runs at the start, and nothing is written.                      *)
LEMMA InitIInv == Init => IInv
BY Services, EmptySeq DEF Init, IInv, TypeOK, MainStage, Owned, BridgeStage, SamplerStage, FilesStage,
   RaisedStage, PassIsEarned, Held, Running, Starting, Unlaunched, Judged, Launched, Leaving,
   Documented, Sampled

(* The steps of main that only decide where it goes on.                    *)

(* An exception takes main to its handler, and changes nothing else.       *)
LEMMA RaisePreserves ==
    ASSUME IInv, pc \notin Starting \cup Leaving, pc' = "except",
           raised' = raised \cup {"error"}, UNCHANGED <<files, rest>>
    PROVE  IInv'
<1>1. TypeOK' /\ MainStage' /\ BridgeStage' /\ SamplerStage' /\ FilesStage' /\ PassIsEarned'
  BY Services DEF IInv, TypeOK, MainStage, Owned, BridgeStage, SamplerStage,
     FilesStage, RaisedStage, PassIsEarned, Held, Running, Starting, Unlaunched, Judged,
     Launched, Leaving, Documented, Sampled, rest
<1>2. Owned'
  BY DEF IInv, Owned, Held, Running, Starting, rest
<1>3. RaisedStage'
  BY DEF RaisedStage, Leaving
<1>4. QED
  BY <1>1, <1>2, <1>3 DEF IInv

(* The network is up or its start raises.                                  *)
LEMMA NetStartPreserves ==
    ASSUME IInv, NetStart
    PROVE  IInv'
<1>1. /\ UNCHANGED <<thesis, proc, processes, flows, sampler, files, expired, atClose>>
      /\ pc = "network" /\ net' \in {"built", "up"}
  BY DEF NetStart, Returns, Raise, Raises, Go
<1>2. CASE pc' = "configure" /\ UNCHANGED raised
  BY <1>1, <1>2, Services DEF IInv, TypeOK, MainStage, Owned, BridgeStage, SamplerStage,
     FilesStage, RaisedStage, PassIsEarned, Held, Running, Starting, Unlaunched, Judged,
     Launched, Leaving, Documented, Sampled, rest
<1>3. CASE pc' = "except" /\ raised' = raised \cup {"error"}
  BY <1>1, <1>3, Services DEF IInv, TypeOK, MainStage, Owned, BridgeStage, SamplerStage,
     FilesStage, RaisedStage, PassIsEarned, Held, Running, Starting, Unlaunched, Judged,
     Launched, Leaving, Documented, Sampled, rest
<1>4. QED
  BY <1>2, <1>3 DEF NetStart, Returns, Raise, Raises, Go

(* A topology without flows has nothing to start.                          *)
LEMMA ConfigurePreserves ==
    ASSUME IInv, Configure
    PROVE  IInv'
<1>1. UNCHANGED <<files, rest>> /\ pc = "configure"
  BY DEF Configure, Command, Returns, Raise, Raises, Go
<1>2. CASE pc' = "flows" /\ UNCHANGED raised
  BY <1>1, <1>2, Services DEF IInv, TypeOK, MainStage, Owned, BridgeStage, SamplerStage,
     FilesStage, RaisedStage, PassIsEarned, Held, Running, Starting, Unlaunched, Judged,
     Launched, Leaving, Documented, Sampled, rest
<1>3. CASE ~thesis /\ pc' = "before" /\ UNCHANGED raised
  <2>1. Owned' /\ MainStage' /\ BridgeStage' /\ SamplerStage' /\ FilesStage' /\ RaisedStage'
    BY <1>1, <1>3 DEF IInv, Owned, Held, Running, MainStage, BridgeStage, SamplerStage,
       FilesStage, RaisedStage, Starting, Unlaunched, Judged, Launched, Leaving, Documented,
       Sampled, rest
  <2>2. TypeOK' /\ PassIsEarned'
    BY <1>1, <1>3 DEF IInv, TypeOK, PassIsEarned, rest
  <2>3. QED
    BY <2>1, <2>2 DEF IInv
<1>4. CASE Raise("configure")
  BY <1>1, <1>4, RaisePreserves DEF Raise, Raises, Go, Starting, Leaving
<1>5. Returns("configure", IF thesis THEN "flows" ELSE "before") \/ Raise("configure")
  BY DEF Configure, Command
<1>6. QED
  BY <1>2, <1>3, <1>4, <1>5 DEF Returns, Go

(* A flow that cannot start or connect takes main to the rollback.         *)
LEMMA RollbackEntered ==
    ASSUME IInv, pc = "flows", pc' = "rollback", raised' = raised \cup {"error"},
           UNCHANGED <<files, rest>>
    PROVE  IInv'
<1>1. TypeOK' /\ MainStage' /\ BridgeStage' /\ SamplerStage' /\ FilesStage' /\ PassIsEarned'
  BY Services DEF IInv, TypeOK, MainStage, Owned, BridgeStage, SamplerStage,
     FilesStage, RaisedStage, PassIsEarned, Held, Running, Starting, Unlaunched, Judged,
     Launched, Leaving, Documented, Sampled, rest
<1>2. Owned'
  BY DEF IInv, Owned, Held, Running, Starting, rest
<1>3. RaisedStage'
  BY DEF RaisedStage, Leaving
<1>4. QED
  BY <1>1, <1>2, <1>3 DEF IInv

(* The flows are connected, or are rolled back.                            *)
LEMMA WarmPreserves ==
    ASSUME IInv, Warm
    PROVE  IInv'
<1>1. UNCHANGED <<files, rest>> /\ pc = "flows"
  BY DEF Warm, Returns, Raises, Go
<1>2. CASE Returns("flows", "register")
  BY <1>1, <1>2, Services DEF IInv, TypeOK, MainStage, Owned, BridgeStage, SamplerStage,
     FilesStage, RaisedStage, PassIsEarned, Held, Running, Starting, Unlaunched, Judged,
     Launched, Leaving, Documented, Sampled, Returns, Go, rest
<1>3. CASE Raises("flows", "rollback", "error")
  BY <1>1, <1>3, RollbackEntered DEF Raises, Go
<1>4. QED
  BY <1>2, <1>3 DEF Warm

(* As the record is written, the evidence from before is there.            *)
LEMMA RecordPreserves ==
    ASSUME IInv, Record
    PROVE  IInv'
<1>1. \/ Returns("record", "relay") /\ UNCHANGED <<files, rest>>
      \/ Raise("record") /\ UNCHANGED <<files, rest>>
  BY DEF Record, Command
<1>2. CASE Returns("record", "relay") /\ UNCHANGED <<files, rest>>
  BY <1>2, Services DEF IInv, TypeOK, MainStage, Owned, BridgeStage, SamplerStage,
     FilesStage, RaisedStage, PassIsEarned, Held, Running, Starting, Unlaunched, Judged,
     Launched, Leaving, Documented, Sampled, Returns, Go, rest
<1>3. CASE Raise("record") /\ UNCHANGED <<files, rest>>
  BY <1>3, RaisePreserves DEF Raise, Raises, Go, Starting, Leaving
<1>4. QED
  BY <1>1, <1>2, <1>3

(* The publisher is ready, or the wait raises.                             *)
LEMMA WaitPublisherPreserves ==
    ASSUME IInv, WaitPublisher
    PROVE  IInv'
<1>1. UNCHANGED <<files, rest>> /\ (Returns("ready", "bridge") \/ Raise("ready"))
  BY DEF WaitPublisher
<1>2. CASE Returns("ready", "bridge")
  BY <1>1, <1>2, Services DEF IInv, TypeOK, MainStage, Owned, BridgeStage, SamplerStage,
     FilesStage, RaisedStage, PassIsEarned, Held, Running, Starting, Unlaunched, Judged,
     Launched, Leaving, Documented, Sampled, Returns, Go, rest
<1>3. CASE Raise("ready")
  BY <1>1, <1>3, RaisePreserves DEF Raise, Raises, Go, Starting, Leaving
<1>4. QED
  BY <1>1, <1>2, <1>3

(* The watch loop goes on, or ends.                                        *)
LEMMA WatchPreserves ==
    ASSUME IInv, Watch
    PROVE  IInv'
BY Services DEF IInv, TypeOK, MainStage, Owned, BridgeStage, SamplerStage, FilesStage,
   RaisedStage, PassIsEarned, Held, Running, Starting, Unlaunched, Judged, Launched, Leaving,
   Documented, Sampled,
   Watch, Go, Raises, Raise, Returns, Command, rest

(* A pass of the watch loop.                                               *)
LEMMA CheckPreserves ==
    ASSUME IInv, Check
    PROVE  IInv'
<1>1. UNCHANGED <<files, rest>> /\ (Returns("check", "watch") \/ Raise("check"))
  BY DEF Check
<1>2. CASE Returns("check", "watch")
  BY <1>1, <1>2, Services DEF IInv, TypeOK, MainStage, Owned, BridgeStage, SamplerStage,
     FilesStage, RaisedStage, PassIsEarned, Held, Running, Starting, Unlaunched, Judged,
     Launched, Leaving, Documented, Sampled, Returns, Go, rest
<1>3. CASE Raise("check")
  BY <1>1, <1>3, RaisePreserves DEF Raise, Raises, Go, Starting, Leaving
<1>4. QED
  BY <1>1, <1>2, <1>3

(* Only a bridge that has ended with status 0 is judged.                   *)
LEMMA ClosedPreserves ==
    ASSUME IInv, Closed
    PROVE  IInv'
<1>1. /\ UNCHANGED <<files, rest>>
      /\ (proc[Bridge] = "ended" /\ Returns("closed", "assert")) \/ Raise("closed")
  BY DEF Closed
<1>2. CASE proc[Bridge] = "ended" /\ Returns("closed", "assert")
  BY <1>1, <1>2, Services DEF IInv, TypeOK, MainStage, Owned, BridgeStage, SamplerStage,
     FilesStage, RaisedStage, PassIsEarned, Held, Running, Starting, Unlaunched, Judged,
     Launched, Leaving, Documented, Sampled, Returns, Go, rest
<1>3. CASE Raise("closed")
  BY <1>1, <1>3, RaisePreserves DEF Raise, Raises, Go, Starting, Leaving
<1>4. QED
  BY <1>1, <1>2, <1>3

(* All flows still run, so all of them ran when the bridge ended.          *)
LEMMA AssertConnectedPreserves ==
    ASSUME IInv, AssertConnected
    PROVE  IInv'
<1>1. \/ (thesis => Connected) /\ Returns("assert", "alive") /\ UNCHANGED <<files, rest>>
      \/ Raise("assert") /\ UNCHANGED <<files, rest>>
  BY DEF AssertConnected
<1>2. CASE (thesis => Connected) /\ Returns("assert", "alive") /\ UNCHANGED <<files, rest>>
  BY <1>2, Services DEF IInv, TypeOK, MainStage, Owned, BridgeStage, SamplerStage,
     FilesStage, RaisedStage, PassIsEarned, Held, Running, Starting, Unlaunched, Judged,
     Launched, Leaving, Documented, Sampled, Returns, Go, rest, Connected
<1>3. CASE Raise("assert") /\ UNCHANGED <<files, rest>>
  BY <1>3, RaisePreserves DEF Raise, Raises, Go, Starting, Leaving
<1>4. QED
  BY <1>1, <1>2, <1>3

(* No flow has exited.                                                     *)
LEMMA FlowsAlivePreserves ==
    ASSUME IInv, FlowsAlive
    PROVE  IInv'
<1>1. UNCHANGED <<files, rest>> /\ (Returns("alive", "join") \/ Raise("alive"))
  BY DEF FlowsAlive
<1>2. CASE Returns("alive", "join")
  BY <1>1, <1>2, Services DEF IInv, TypeOK, MainStage, Owned, BridgeStage, SamplerStage,
     FilesStage, RaisedStage, PassIsEarned, Held, Running, Starting, Unlaunched, Judged,
     Launched, Leaving, Documented, Sampled, Returns, Go, rest
<1>3. CASE Raise("alive")
  BY <1>1, <1>3, RaisePreserves DEF Raise, Raises, Go, Starting, Leaving
<1>4. QED
  BY <1>1, <1>2, <1>3

(* The steps that change a list, a process, a file or the sampler.         *)

(* The flow that starts is a flow, and the list holds it.                  *)
LEMMA StartFlowPreserves ==
    ASSUME IInv, StartFlow
    PROVE  IInv'
<1>1. pc = "flows" /\ pc' \in {"flows", "rollback"} /\ proc[Bridge] = "none"
  BY DEF StartFlow, Returns, Raises, Go, IInv, BridgeStage, Unlaunched, Starting
<1>2. CASE Raises("flows", "rollback", "error") /\ UNCHANGED <<proc, flows>>
  BY <1>2, RollbackEntered DEF StartFlow, Raises, Go, rest
<1>3. CASE /\ Returns("flows", "flows")
           /\ proc' = [proc EXCEPT ![NextFlow] = "running"]
           /\ flows' = Append(flows, NextFlow)
  <2>1. NextFlow \in Background /\ NextFlow \in Processes /\ NextFlow # Bridge
    BY NextFlowIsOne, Services DEF IInv, StartFlow
  <2>2. flows' \in Seq(Background) /\ Range(flows') = Range(flows) \cup {NextFlow}
    BY <1>3, <2>1, AppendRange DEF IInv, TypeOK
  <2>3. proc' \in [Processes -> {"none", "running", "ended", "failed"}]
    BY <1>3, <2>1 DEF IInv, TypeOK
  <2>4. proc'[Bridge] = "none"
    BY <1>1, <1>3, <2>1, Services DEF IInv, TypeOK
  <2>5. UNCHANGED <<thesis, pc, processes, net, sampler, files, raised, expired, atClose>>
    BY <1>3 DEF StartFlow, Returns, Go
  <2>6. TypeOK'
    BY <2>2, <2>3, <2>5 DEF IInv, TypeOK
  <2>7. Owned'
    <3>1. ASSUME NEW p \in Processes, Running(p)' PROVE Held(p)'
      <4>1. CASE p = NextFlow
        BY <1>1, <2>2, <2>5, <4>1 DEF Held, Starting
      <4>2. CASE p # NextFlow
        <5>1. Running(p)
          BY <1>3, <2>1, <3>1, <4>2 DEF IInv, TypeOK, Running
        <5>2. QED
          BY <2>2, <2>5, <5>1 DEF IInv, Owned, Held
      <4>3. QED
        BY <4>1, <4>2
    <3>2. QED
      BY <3>1 DEF Owned
  <2>8. BridgeStage' /\ PassIsEarned'
    BY <1>1, <2>4, <2>5 DEF IInv, BridgeStage, FilesStage, PassIsEarned, Judged, Leaving
  <2>9. MainStage' /\ SamplerStage' /\ FilesStage' /\ RaisedStage'
    BY <2>5 DEF IInv, MainStage, SamplerStage, FilesStage, RaisedStage
  <2>10. QED
    BY <2>6, <2>7, <2>8, <2>9 DEF IInv
<1>4. QED
  BY <1>2, <1>3 DEF StartFlow

(* A flow that is terminated leaves the list of start_background.          *)
LEMMA RollbackPreserves ==
    ASSUME IInv, Rollback
    PROVE  IInv'
<1>1. pc = "rollback" /\ pc' \in {"rollback", "except", "finally"} /\ proc[Bridge] = "none"
  BY DEF Rollback, Go, IInv, BridgeStage, Unlaunched, Starting
<1>2. CASE flows = <<>> /\ UNCHANGED <<proc, flows>>
  <2>1. Range(flows) = {}
    BY <1>2 DEF Range
  <2>2. Owned'
    BY <1>1, <1>2, <2>1 DEF Rollback, IInv, Owned, Held, Running
  <2>3. pc' = IF pc' = "rollback" THEN pc ELSE IF "error" \in raised THEN "except" ELSE "finally"
    BY <1>1 DEF Rollback, Go
  <2>4. QED
    BY <1>1, <1>2, <2>2, <2>3 DEF Rollback, IInv, TypeOK, MainStage, BridgeStage, SamplerStage,
       FilesStage, RaisedStage, PassIsEarned, Running, Unlaunched, Starting, Judged, Launched, Leaving,
       Documented, Sampled
<1>3. CASE /\ flows # <<>>
           /\ proc' = [proc EXCEPT ![Last(flows)] = IF @ = "running" THEN "failed" ELSE @]
           /\ flows' = Front(flows)
           /\ Go("rollback", "rollback")
  <2>1. /\ Last(flows) \in Background /\ Last(flows) \in Processes /\ Last(flows) # Bridge
        /\ flows' \in Seq(Background) /\ Range(flows) = Range(flows') \cup {Last(flows)}
    BY <1>3, FrontRange, Services DEF IInv, TypeOK
  <2>2. proc' \in [Processes -> {"none", "running", "ended", "failed"}]
    BY <1>3, <2>1 DEF IInv, TypeOK
  <2>3. proc'[Bridge] = "none"
    BY <1>1, <1>3, <2>1, Services DEF IInv, TypeOK
  <2>4. UNCHANGED <<thesis, pc, processes, net, sampler, files, raised, expired, atClose>>
    BY <1>3 DEF Rollback, Go
  <2>5. TypeOK'
    BY <2>1, <2>2, <2>4 DEF IInv, TypeOK
  <2>6. Owned'
    <3>1. ASSUME NEW p \in Processes, Running(p)' PROVE Held(p)'
      <4>1. p # Last(flows) /\ Running(p)
        BY <1>3, <2>1, <3>1 DEF IInv, TypeOK, Running
      <4>2. QED
        BY <2>1, <2>4, <4>1 DEF IInv, Owned, Held
    <3>2. QED
      BY <3>1 DEF Owned
  <2>7. BridgeStage' /\ PassIsEarned'
    BY <1>1, <2>3, <2>4 DEF IInv, BridgeStage, FilesStage, PassIsEarned, Judged, Leaving
  <2>8. MainStage' /\ SamplerStage' /\ FilesStage' /\ RaisedStage'
    BY <2>4 DEF IInv, MainStage, SamplerStage, FilesStage, RaisedStage
  <2>9. QED
    BY <2>5, <2>6, <2>7, <2>8 DEF IInv
<1>4. QED
  BY <1>2, <1>3 DEF Rollback

(* The flows are the cleanup's from here on.                               *)
LEMMA RegisterPreserves ==
    ASSUME IInv, Register
    PROVE  IInv'
<1>1. flows \in Seq(Processes)
  BY Services, SeqMonotonic DEF IInv, TypeOK
<1>2. processes' \in Seq(Processes) /\ Range(processes') = Range(processes) \cup Range(flows)
  BY <1>1, ConcatRange DEF Register, IInv, TypeOK
<1>3. pc = "register" /\ pc' = "sampler"
  BY DEF Register, Returns, Go
<1>4. UNCHANGED <<thesis, proc, flows, net, sampler, files, raised, expired, atClose>>
  BY DEF Register, Returns
<1>5. TypeOK'
  BY <1>2, <1>4 DEF IInv, TypeOK
<1>6. Owned'
  BY <1>2, <1>3, <1>4 DEF IInv, Owned, Held, Running
<1>7. MainStage' /\ BridgeStage' /\ SamplerStage' /\ FilesStage' /\ RaisedStage' /\ PassIsEarned'
  BY <1>3, <1>4 DEF IInv, MainStage, BridgeStage, SamplerStage, FilesStage, RaisedStage, PassIsEarned,
     Running, Starting, Unlaunched, Judged, Launched, Leaving, Documented, Sampled
<1>8. QED
  BY <1>5, <1>6, <1>7 DEF IInv

(* The sampler runs before the evidence is collected.                      *)
LEMMA StartSamplerPreserves ==
    ASSUME IInv, StartSampler
    PROVE  IInv'
BY Services DEF IInv, TypeOK, MainStage, Owned, BridgeStage, SamplerStage, FilesStage,
   RaisedStage, PassIsEarned, Held, Running, Starting, Unlaunched, Judged, Launched, Leaving,
   Documented, Sampled,
   StartSampler, Go, Raises, Raise, Returns, Command, rest

(* The evidence from before is complete, or main raises.                   *)
LEMMA BeforePreserves ==
    ASSUME IInv, Before
    PROVE  IInv'
<1>1. \/ Evidence("before", "before", "record") /\ UNCHANGED rest
      \/ Raise("before") /\ UNCHANGED <<files, rest>>
  BY DEF Before
<1>2. CASE Evidence("before", "before", "record") /\ UNCHANGED rest
  BY <1>2, Services DEF IInv, TypeOK, MainStage, Owned, BridgeStage, SamplerStage,
     FilesStage, RaisedStage, PassIsEarned, Held, Running, Starting, Unlaunched, Judged,
     Launched, Leaving, Documented, Sampled, Evidence, Returns, Go, rest
<1>3. CASE Raise("before") /\ UNCHANGED <<files, rest>>
  BY <1>3, RaisePreserves DEF Raise, Raises, Go, Starting, Leaving
<1>4. QED
  BY <1>1, <1>2, <1>3

(* A service that starts is on the list of the cleanup, and the bridge     *)
(* starts only once.                                                       *)
LEMMA LaunchPreserves ==
    ASSUME IInv, NEW p \in {Relay, Publisher, Bridge, Proxy}, NEW from, NEW to,
           Launch(p, from, to), from \in Unlaunched \cup Launched, from \notin Starting,
           to \in Unlaunched \cup Launched, to \notin Starting \cup Judged,
           p = Bridge => to \in Launched,
           p # Bridge /\ to \in Unlaunched => from \in Unlaunched,
           from \in Documented, from \notin Judged
    PROVE  IInv'
<1>1. pc = from /\ p \in Processes
  BY Services DEF Launch, Returns, Raise, Raises, Go
<1>2. UNCHANGED <<thesis, flows, net, sampler, files, expired, atClose>>
  BY DEF Launch
<1>3. CASE Raise(from) /\ UNCHANGED <<proc, processes>>
  BY <1>1, <1>2, <1>3, Services DEF IInv, TypeOK, MainStage, Owned, BridgeStage, SamplerStage,
     FilesStage, RaisedStage, PassIsEarned, Held, Running, Raise, Raises, Go,
     Starting, Unlaunched, Judged, Launched, Leaving, Documented, Sampled
<1>4. CASE /\ Returns(from, to)
           /\ proc' = [proc EXCEPT ![p] = "running"]
           /\ processes' = Append(processes, p)
  <2>1. pc' = to /\ UNCHANGED raised
    BY <1>4 DEF Returns, Go
  <2>2. /\ processes' \in Seq(Processes) /\ processes' # <<>>
        /\ Range(processes') = Range(processes) \cup {p}
    BY <1>1, <1>4, AppendRange DEF IInv, TypeOK
  <2>3. TypeOK'
    BY <1>1, <1>2, <1>4, <2>1, <2>2 DEF IInv, TypeOK
  <2>4. MainStage'
    BY <1>2, <2>1, <2>2 DEF MainStage, Starting, Unlaunched, Judged, Launched
  <2>5. Owned'
    BY <1>1, <1>2, <1>4, <2>1, <2>2 DEF IInv, TypeOK, Owned, Held, Running
  <2>6. BridgeStage'
    <3>1. to \in Unlaunched => proc'[Bridge] = "none"
      BY <1>1, <1>4, Services DEF IInv, TypeOK, BridgeStage, Unlaunched, Judged, Launched, Starting
    <3>2. proc'[Bridge] = "ended" => {q \in Background : Running(q)'} \subseteq atClose'
      BY <1>1, <1>2, <1>4, Services DEF IInv, TypeOK, BridgeStage, Running
    <3>3. QED
      BY <2>1, <3>1, <3>2 DEF BridgeStage, Judged
  <2>7. SamplerStage' /\ FilesStage' /\ RaisedStage' /\ PassIsEarned'
    <3>1. "summary" \notin files /\ to \notin Leaving
      BY <1>1 DEF IInv, FilesStage, Starting, Unlaunched, Judged, Launched, Leaving
    <3>2. SamplerStage'
      BY <1>1, <1>2, <2>1, <3>1 DEF IInv, SamplerStage, Sampled, Judged, Leaving
    <3>3. FilesStage'
      BY <1>1, <1>2, <2>1, <3>1 DEF IInv, FilesStage, Documented, Unlaunched, Launched, Leaving
    <3>4. RaisedStage'
      BY <1>1, <1>2, <2>1, <3>1 DEF IInv, RaisedStage, Unlaunched, Launched, Starting, Leaving
    <3>5. QED
      BY <1>2, <3>1, <3>2, <3>3, <3>4 DEF PassIsEarned
  <2>8. QED
    BY <2>3, <2>4, <2>5, <2>6, <2>7 DEF IInv
<1>5. QED
  BY <1>3, <1>4 DEF Launch

(* The relay starts, or its popen raises.                                  *)
LEMMA LaunchRelayPreserves ==
    ASSUME IInv, LaunchRelay
    PROVE  IInv'
BY LaunchPreserves, Services DEF LaunchRelay, Unlaunched, Launched, Starting, Judged, Documented

(* The same for the publisher ...                                          *)
LEMMA LaunchPublisherPreserves ==
    ASSUME IInv, LaunchPublisher
    PROVE  IInv'
BY LaunchPreserves, Services DEF LaunchPublisher, Unlaunched, Launched, Starting, Judged, Documented

(* ... for the bridge ...                                                  *)
LEMMA LaunchBridgePreserves ==
    ASSUME IInv, LaunchBridge
    PROVE  IInv'
BY LaunchPreserves, Services DEF LaunchBridge, Unlaunched, Launched, Starting, Judged, Documented

(* ... and for the proxy.                                                  *)
LEMMA LaunchProxyPreserves ==
    ASSUME IInv, LaunchProxy
    PROVE  IInv'
BY LaunchPreserves, Services DEF LaunchProxy, Unlaunched, Launched, Starting, Judged, Documented

(* The sampler has ended, or the join raises.                              *)
LEMMA JoinSamplerPreserves ==
    ASSUME IInv, JoinSampler
    PROVE  IInv'
<1>1. UNCHANGED <<thesis, proc, processes, flows, net, files, expired, atClose>> /\ pc = "join"
  BY DEF JoinSampler, SamplerStop, Returns, Raise, Raises, Go
<1>2. CASE sampler = "running" /\ sampler' = "stopping" /\ pc' = "join" /\ UNCHANGED raised
  BY <1>1, <1>2, Services DEF IInv, TypeOK, MainStage, Owned, BridgeStage, SamplerStage,
     FilesStage, RaisedStage, PassIsEarned, Held, Running, Starting, Unlaunched, Judged,
     Launched, Leaving, Documented, Sampled, rest
<1>3. CASE sampler \in {"none", "ended", "failed"} /\ pc' = "verdict" /\ UNCHANGED <<sampler, raised>>
  BY <1>1, <1>3, Services DEF IInv, TypeOK, MainStage, Owned, BridgeStage, SamplerStage,
     FilesStage, RaisedStage, PassIsEarned, Held, Running, Starting, Unlaunched, Judged,
     Launched, Leaving, Documented, Sampled, rest
<1>4. CASE Raise("join") /\ UNCHANGED sampler
  BY <1>1, <1>4, RaisePreserves DEF Raise, Raises, Go, Starting, Leaving, rest
<1>5. QED
  BY <1>2, <1>3, <1>4 DEF JoinSampler, SamplerStop, Returns, Go

(* The summary is written where the bridge, the flows and the sampler are  *)
(* known to have ended as they should.                                     *)
LEMMA SummaryPreserves ==
    ASSUME IInv, Summary
    PROVE  IInv'
<1>1. UNCHANGED <<thesis, proc, processes, flows, net, sampler, expired, atClose>>
  BY DEF Summary, rest
<1>2. CASE SamplerOk /\ Returns("verdict", "finally") /\ files' = files \cup {"summary"}
  <2>1. pc = "verdict" /\ pc' = "finally" /\ UNCHANGED raised
    BY <1>2 DEF Returns, Go
  <2>2. "before" \in files /\ "failure" \notin files /\ processes # <<>>
    BY <2>1 DEF IInv, MainStage, FilesStage, Documented, Launched, Judged, Leaving
  <2>3. PassIsEarned'
    BY <1>1, <1>2, <2>1, <2>2 DEF IInv, BridgeStage, SamplerStage, PassIsEarned, SamplerOk, Judged
  <2>4. TypeOK' /\ MainStage' /\ Owned'
    BY <1>1, <1>2, <2>1 DEF IInv, TypeOK, MainStage, Owned, Held, Running, Unlaunched, Starting,
       Launched, Judged, Leaving
  <2>5. BridgeStage' /\ SamplerStage'
    BY <1>1, <2>1 DEF IInv, BridgeStage, SamplerStage, Running, Unlaunched, Starting, Launched,
       Judged, Documented, Sampled
  <2>6. FilesStage' /\ RaisedStage'
    BY <1>1, <1>2, <2>1, <2>2 DEF IInv, FilesStage, RaisedStage, Launched, Judged, Documented, Leaving
  <2>7. QED
    BY <2>3, <2>4, <2>5, <2>6 DEF IInv
<1>3. CASE ~SamplerOk /\ Raise("verdict") /\ UNCHANGED files
  BY <1>1, <1>3 DEF Raise, Raises, Go, IInv, TypeOK, MainStage, Owned, BridgeStage, SamplerStage,
     FilesStage, RaisedStage, PassIsEarned, Held, Running,
     Starting, Unlaunched, Judged, Launched, Leaving, Documented, Sampled
<1>4. QED
  BY <1>2, <1>3 DEF Summary

(* A failure is written where no summary was.                              *)
LEMMA ExceptPreserves ==
    ASSUME IInv, Except
    PROVE  IInv'
BY Services DEF IInv, TypeOK, MainStage, Owned, BridgeStage, SamplerStage, FilesStage,
   RaisedStage, PassIsEarned, Held, Running, Starting, Unlaunched, Judged, Launched, Leaving,
   Documented, Sampled,
   Except, Go, Returns, rest

(* The sampler has ended, or main says that it could not be stopped.       *)
LEMMA FinallySamplerPreserves ==
    ASSUME IInv, FinallySampler
    PROVE  IInv'
<1>1. /\ UNCHANGED <<thesis, proc, processes, flows, net, files, expired, atClose>>
      /\ pc = "finally" /\ pc' \in {"finally", "after", "stop"}
  BY DEF FinallySampler, SamplerStop, Returns, Raises, Go
<1>2. /\ raised' \in {raised, raised \cup {"cleanup"}}
      /\ raised' = {} => raised = {} /\ pc' # "stop"
      /\ "interrupt" \in raised' <=> "interrupt" \in raised
  BY DEF FinallySampler, SamplerStop, Returns, Raises, Go
<1>3. TypeOK'
  BY <1>1, <1>2 DEF IInv, TypeOK, FinallySampler, SamplerStop
<1>4. MainStage' /\ Owned' /\ BridgeStage' /\ FilesStage'
  BY <1>1 DEF IInv, MainStage, Owned, Held, Running, BridgeStage, FilesStage,
     Starting, Unlaunched, Judged, Launched, Leaving, Documented
<1>5. SamplerStage'
  BY <1>1 DEF FinallySampler, SamplerStop, Returns, Raises, Go, SamplerStage, Launched, Judged,
     Documented, Sampled
<1>6. RaisedStage'
  BY <1>1, <1>2 DEF IInv, RaisedStage, Leaving
<1>7. PassIsEarned'
  BY <1>1 DEF IInv, PassIsEarned, FinallySampler, SamplerStop
<1>8. QED
  BY <1>3, <1>4, <1>5, <1>6, <1>7 DEF IInv

(* The evidence from after is written, or main says that it is not.        *)
LEMMA AfterPreserves ==
    ASSUME IInv, After
    PROVE  IInv'
<1>1. /\ UNCHANGED <<thesis, proc, processes, flows, net, sampler, expired, atClose>>
      /\ pc = "after" /\ pc' = "stop"
      /\ files' \in {files, files \cup {"after"}} /\ raised' \in {raised, raised \cup {"cleanup"}}
  BY DEF After, Evidence, Returns, Raises, Go, rest
<1>2. /\ raised' = {} => raised = {}
      /\ "interrupt" \in raised' <=> "interrupt" \in raised
      /\ "summary" \in files' <=> "summary" \in files
      /\ "failure" \in files' <=> "failure" \in files
      /\ "before" \in files' <=> "before" \in files
  BY <1>1
<1>3. raised' = {} => "after" \in files'
  <2>1. raised = {} => processes # <<>>
    BY <1>1 DEF IInv, RaisedStage
  <2>2. QED
    BY <2>1, <1>2 DEF After, Evidence, Raises
<1>4. TypeOK' /\ MainStage' /\ Owned' /\ BridgeStage' /\ SamplerStage'
  BY <1>1, <1>2 DEF IInv, TypeOK, MainStage, Owned, Held, Running, BridgeStage, SamplerStage,
     Starting, Unlaunched, Judged, Launched, Leaving, Documented, Sampled
<1>5. FilesStage' /\ RaisedStage' /\ PassIsEarned'
  BY <1>1, <1>2, <1>3 DEF IInv, FilesStage, RaisedStage, PassIsEarned, Launched, Judged, Leaving,
     Documented
<1>6. QED
  BY <1>4, <1>5 DEF IInv

(* A process that is stopped leaves the list of the cleanup.               *)
LEMMA StopPreserves ==
    ASSUME IInv, Stop
    PROVE  IInv'
<1>1. /\ pc = "stop" /\ pc' = "stop"
      /\ UNCHANGED <<thesis, flows, net, sampler, files, raised, expired, atClose>>
  BY DEF Stop, Returns, Go
<1>2. /\ Last(processes) \in Processes /\ processes' \in Seq(Processes)
      /\ Range(processes) = Range(processes') \cup {Last(processes)}
  BY FrontRange DEF Stop, IInv, TypeOK
<1>3. \A p \in Processes : proc'[p] = IF p = Last(processes) THEN Stopped(p) ELSE proc[p]
  BY <1>2 DEF Stop, IInv, TypeOK
<1>4. TypeOK'
  BY <1>1, <1>2 DEF IInv, TypeOK, Stop, Stopped
<1>5. \A p \in Processes : Running(p)' => Running(p) /\ p # Last(processes)
  BY <1>3 DEF Running, Stopped
<1>6. Owned'
  BY <1>1, <1>2, <1>5 DEF IInv, Owned, Held, Starting
<1>7. BridgeStage'
  BY <1>1, <1>3, <1>5, Services DEF IInv, BridgeStage, Unlaunched, Starting, Judged, Stopped
<1>8. PassIsEarned'
  BY <1>1, <1>3, Services DEF IInv, PassIsEarned, Stopped
<1>9. MainStage' /\ SamplerStage' /\ FilesStage' /\ RaisedStage'
  BY <1>1 DEF IInv, MainStage, SamplerStage, FilesStage, RaisedStage, Launched, Judged
<1>10. QED
  BY <1>4, <1>6, <1>7, <1>8, <1>9 DEF IInv

(* The network is stopped after the last process.                          *)
LEMMA NetStopPreserves ==
    ASSUME IInv, NetStop
    PROVE  IInv'
BY Services DEF IInv, TypeOK, MainStage, Owned, BridgeStage, SamplerStage, FilesStage,
   RaisedStage, PassIsEarned, Held, Running, Starting, Unlaunched, Judged, Launched, Leaving,
   Documented, Sampled,
   NetStop, Go, Returns

(* An interrupt skips the verdict.                                         *)
LEMMA InterruptPreserves ==
    ASSUME IInv, Interrupt
    PROVE  IInv'
BY Services DEF IInv, TypeOK, MainStage, Owned, BridgeStage, SamplerStage, FilesStage,
   RaisedStage, PassIsEarned, Held, Running, Starting, Unlaunched, Judged, Launched, Leaving,
   Documented, Sampled,
   Interrupt, Trying, rest

(* The thread of the sampler ends.                                         *)
LEMMA SamplePreserves ==
    ASSUME IInv, Sample
    PROVE  IInv'
BY Services DEF IInv, TypeOK, MainStage, Owned, BridgeStage, SamplerStage, FilesStage,
   RaisedStage, PassIsEarned, Held, Running, Starting, Unlaunched, Judged, Launched, Leaving,
   Documented, Sampled,
   Sample

(* The flows that run when the bridge ends are remembered.                 *)
LEMMA ExitPreserves ==
    ASSUME IInv, NEW p \in Processes, Exit(p)
    PROVE  IInv'
<1>1. /\ proc[p] = "running" /\ proc'[p] \in {"ended", "failed"}
      /\ UNCHANGED <<thesis, pc, processes, flows, net, sampler, files, raised, expired>>
      /\ \A q \in Processes : q # p => proc'[q] = proc[q]
      /\ proc' \in [Processes -> {"none", "running", "ended", "failed"}]
  BY DEF Exit, Running, IInv, TypeOK
<1>2. \A q \in Processes : Running(q)' => Running(q)
  BY <1>1 DEF Running
<1>3. CASE p = Bridge
  <2>1. atClose' = {q \in Background : Running(q)}
    BY <1>3 DEF Exit
  <2>2. TypeOK'
    BY <1>1, <2>1 DEF IInv, TypeOK
  <2>3. pc \notin Unlaunched \cup Judged /\ "summary" \notin files
    BY <1>1, <1>3 DEF IInv, BridgeStage, PassIsEarned
  <2>4. {q \in Background : Running(q)'} \subseteq atClose'
    BY <1>2, <2>1, Services
  <2>5. BridgeStage' /\ PassIsEarned'
    BY <1>1, <2>3, <2>4 DEF BridgeStage, PassIsEarned, Judged
  <2>6. QED
    BY <1>1, <1>2, <2>2, <2>5 DEF IInv, MainStage, Owned, Held, SamplerStage, FilesStage, RaisedStage
<1>4. CASE p # Bridge
  <2>1. UNCHANGED atClose /\ proc'[Bridge] = proc[Bridge]
    BY <1>1, <1>4, Services DEF Exit
  <2>2. TypeOK'
    BY <1>1, <2>1 DEF IInv, TypeOK
  <2>3. BridgeStage' /\ PassIsEarned'
    BY <1>1, <1>2, <2>1, Services DEF IInv, BridgeStage, PassIsEarned
  <2>4. QED
    BY <1>1, <1>2, <2>2, <2>3 DEF IInv, MainStage, Owned, Held, SamplerStage, FilesStage, RaisedStage
<1>5. QED
  BY <1>3, <1>4

(* The publisher's file is no verdict.                                     *)
LEMMA PublisherReadyPreserves ==
    ASSUME IInv, PublisherReady
    PROVE  IInv'
BY Services DEF IInv, TypeOK, MainStage, Owned, BridgeStage, SamplerStage, FilesStage,
   RaisedStage, PassIsEarned, Held, Running, Starting, Unlaunched, Judged, Launched, Leaving,
   Documented, Sampled,
   PublisherReady

(* The deadline changes nothing but the watch loop.                        *)
LEMMA ExpirePreserves ==
    ASSUME IInv, Expire
    PROVE  IInv'
BY Services DEF IInv, TypeOK, MainStage, Owned, BridgeStage, SamplerStage, FilesStage,
   RaisedStage, PassIsEarned, Held, Running, Starting, Unlaunched, Judged, Launched, Leaving,
   Documented, Sampled,
   Expire

(* So every step keeps the invariant.                                      *)
LEMMA NextPreserves == IInv /\ [Next]_vars => IInv'
<1>1. SUFFICES ASSUME IInv, [Next]_vars PROVE IInv'
  OBVIOUS
<1>2. CASE Main
  BY <1>1, <1>2, NetStartPreserves, ConfigurePreserves, StartFlowPreserves, WarmPreserves,
     RollbackPreserves, RegisterPreserves, StartSamplerPreserves, BeforePreserves, RecordPreserves,
     LaunchRelayPreserves, LaunchPublisherPreserves, WaitPublisherPreserves, LaunchBridgePreserves,
     LaunchProxyPreserves, WatchPreserves, CheckPreserves, ClosedPreserves, AssertConnectedPreserves,
     FlowsAlivePreserves, JoinSamplerPreserves, SummaryPreserves, ExceptPreserves,
     FinallySamplerPreserves, AfterPreserves, StopPreserves, NetStopPreserves
     DEF Main
<1>3. CASE Sample \/ Interrupt \/ (\E p \in Processes : Exit(p)) \/ PublisherReady \/ Expire
  BY <1>1, <1>3, SamplePreserves, InterruptPreserves, ExitPreserves, PublisherReadyPreserves,
     ExpirePreserves
<1>4. CASE UNCHANGED vars
  BY <1>1, <1>4 DEF vars, IInv, TypeOK, MainStage, Owned, BridgeStage, SamplerStage, FilesStage,
     RaisedStage, PassIsEarned, Held, Running
<1>5. QED
  BY <1>1, <1>2, <1>3, <1>4 DEF Next

(* The strengthened invariant holds in every reachable state.              *)
LEMMA Invariance == Spec => []IInv
BY InitIInv, NextPreserves, PTL DEF Spec

-----------------------------------------------------------------------------
(* What the guest run promises                                             *)

(* Every variable keeps its type, and the lists hold processes only        *)
(* (run_camera_player_guest.py, `processes`; start_background's list).     *)
THEOREM TypeCorrect == Spec => []TypeOK
<1>1. IInv => TypeOK
  BY DEF IInv
<1>2. QED
  BY <1>1, Invariance, PTL

(* guest-summary.json is written only for a run with complete evidence     *)
(* from before, a bridge that ended by itself with status 0 and, with the  *)
(* topology of the thesis, every background flow running at that moment    *)
(* and a sampler without an error: the checks after the watch loop.        *)
THEOREM EarnedPass == Spec => []PassIsEarned
<1>1. IInv => PassIsEarned
  BY DEF IInv
<1>2. QED
  BY <1>1, Invariance, PTL

(* Wherever an exception or an interrupt struck, the finally of main       *)
(* leaves no process and no network behind, and a sampling thread only if  *)
(* main says that something went wrong.                                    *)
THEOREM NothingIsLeft == Spec => []NothingLeft
<1>1. ASSUME IInv, pc = "done" PROVE \A p \in Processes : ~Running(p)
  <2>1. Range(processes) = {}
    BY <1>1 DEF IInv, MainStage, Range
  <2>2. QED
    BY <1>1, <2>1 DEF IInv, Owned, Held, Starting
<1>2. IInv => NothingLeft
  BY <1>1 DEF IInv, MainStage, SamplerStage, NothingLeft
<1>3. QED
  BY <1>2, Invariance, PTL

(* A run that is not interrupted leaves either guest-summary.json or       *)
(* guest-failure.json, and one that returns normally has its summary and   *)
(* the evidence from before and after.                                     *)
THEOREM HonestExit == Spec => []ExitIsHonest
<1>1. IInv => ExitIsHonest
  BY DEF IInv, FilesStage, RaisedStage, PassIsEarned, ExitIsHonest, Leaving
<1>2. QED
  BY <1>1, Invariance, PTL

=============================================================================
