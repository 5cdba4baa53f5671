------------------------- MODULE SustainedRunProofs -------------------------
(***************************************************************************)
(* What a passed sustained profile has measured, and what its launcher     *)
(* leaves running, for any number of interrupts.                           *)
(***************************************************************************)
EXTENDS SustainedRun, TLAPS

(* The window of a case and the steps up to the last look at its flows,    *)
(* and the steps between that look and the entry in results.json.          *)
Measuring == {"window", "pass", "after", "active"}
Measured == {"priorities", "drain", "received", "summary", "next"}

(* Flows that end do not come back, so those that are up at the last look  *)
(* were up in the window; only such cases return without an exception.     *)
CaseStage ==
    /\ gpc \in Measuring /\ flows = "up" => ~broken
    /\ gpc \in Measured => ~broken
    /\ gpc = "stop" /\ ~raised => ~broken
    /\ cases \in {<<>>, <<FALSE>>} \/ (gpc = "complete" /\ cases = <<FALSE, FALSE>>)

(* The stages of the launcher: before the unit, from the signal to the     *)
(* unit on, after each of the monitors, and with good return codes.        *)
Opening == {"prepare", "memory", "affinity", "call"}
Signalled == {"touch", "awaitmemory", "awaitaffinity", "returncodes", "log", "analyze",
              "validate", "complete"}
MemoryDone == Signalled \ {"touch", "awaitmemory"}
BothDone == MemoryDone \ {"awaitaffinity"}
Good == {"log", "analyze", "validate", "complete"}
Closed == lpc = "ended" /\ ~cutShort

(* The unit is called once, and a unit that was told to stop does nothing  *)
(* any more but end.                                                       *)
UnitStage ==
    /\ lpc \in Opening => upc = "none" /\ status = "none"
    /\ lpc \in Signalled \/ Closed => upc \in {"none", "stopping", "ok", "failed"}
    /\ upc = "ok" => vm = "off"
    /\ upc \in {"none", "start", "preparing", "boot"} => gpc = "none"
    /\ hit => pins \in {"none", "run"} /\ sampled \in {"none", "run"}

(* The launcher has waited for each of the monitors, or ended it.          *)
MonitorStage ==
    /\ lpc \in {"prepare", "memory"} => \A m \in Monitors : monitor[m] = "none"
    /\ lpc \in MemoryDone \/ Closed => monitor["memory"] # "watching"
    /\ lpc \in BothDone \/ Closed => monitor["affinity"] # "watching"

(* What the launcher has read of the unit, the monitors and the results.   *)
VerdictStage ==
    /\ lpc \in Opening \cup Signalled \cup {"wait", "stopunit", "ended"}
    /\ passed => lpc = "ended"
    /\ status = "ok" => upc = "ok"
    /\ lpc \in Good \/ passed => status = "ok" /\ \A m \in Monitors : monitor[m] = "ok"
    /\ lpc \in {"analyze", "validate", "complete"} \/ passed => passLine
    /\ lpc \in {"validate", "complete"} \/ passed => cases = <<FALSE, FALSE>>
    /\ lpc = "complete" \/ passed => sampled # "none"

IInv == TypeOK /\ CaseStage /\ UnitStage /\ MonitorStage /\ VerdictStage

-----------------------------------------------------------------------------
(* The guest                                                               *)

(* A sequence of two equal entries.                                        *)
LEMMA Pair ==
    ASSUME NEW S, NEW e \in S, NEW s \in Seq(S), Len(s) = 2, s[1] = e, s[2] = e
    PROVE  s = <<e, e>>
OBVIOUS

(* Sequences of up to two equal entries.                                   *)
LEMMA Entries ==
    ASSUME NEW S, NEW e \in S
    PROVE  /\ {<<>>, <<e>>, <<e, e>>} \subseteq UNION {[1..n -> S] : n \in 0..2}
           /\ Append(<<>>, e) = <<e>> /\ Append(<<e>>, e) = <<e, e>>
           /\ Len(<<>>) = 0 /\ Len(<<e>>) = 1
<1>1. <<>> \in [1..0 -> S] /\ <<e>> \in [1..1 -> S] /\ <<e, e>> \in [1..2 -> S]
  OBVIOUS
<1>2. {<<>>, <<e>>, <<e, e>>} \subseteq UNION {[1..n -> S] : n \in 0..2}
  BY <1>1
<1>3. Append(<<>>, e) = <<e>> /\ Append(<<e>>, e) = <<e, e>>
  <2>1. Append(<<>>, e) = <<e>>
    OBVIOUS
  <2>2. <<e>> \in Seq(S) /\ Len(<<e>>) = 1 /\ <<e>>[1] = e
    OBVIOUS
  <2>3. /\ Append(<<e>>, e) \in Seq(S) /\ Len(Append(<<e>>, e)) = 2
        /\ Append(<<e>>, e)[1] = e /\ Append(<<e>>, e)[2] = e
    BY <2>2
  <2>4. QED
    BY <2>1, <2>3, Pair
<1>4. Len(<<>>) = 0 /\ Len(<<e>>) = 1
  OBVIOUS
<1>5. QED
  BY <1>2, <1>3, <1>4

(* The same for the entries of results.json.                               *)
LEMMA CaseEntries ==
    /\ {<<>>, <<FALSE>>, <<FALSE, FALSE>>} \subseteq UNION {[1..n -> BOOLEAN] : n \in 0..2}
    /\ Append(<<>>, FALSE) = <<FALSE>> /\ Append(<<FALSE>>, FALSE) = <<FALSE, FALSE>>
    /\ Len(<<>>) = 0 /\ Len(<<FALSE>>) = 1
<1>1. FALSE \in BOOLEAN
  OBVIOUS
<1>2. QED
  BY <1>1, Entries, Zenon

(* One case does not make two.                                             *)
LEMMA TooFewEntries ==
    ASSUME NEW c \in {<<>>, <<FALSE>>}
    PROVE  Len(c) # Cases
<1>1. Len(c) = 0 \/ Len(c) = 1
  BY CaseEntries, Zenon
<1>2. QED
  BY <1>1 DEF Cases

(* A case that returns adds an entry without a break.                      *)
LEMMA NextCaseStep ==
    ASSUME GuestType, CaseStage, NextCase
    PROVE  GuestType' /\ CaseStage'
<1>1. gpc = "next" /\ broken = FALSE
  BY DEF NextCase, At, GuestType, CaseStage, Measured
<1>2. cases' = Append(cases, FALSE)
  BY <1>1 DEF NextCase
<1>3. cases \in {<<>>, <<FALSE>>}
  BY <1>1 DEF CaseStage
<1>4. CASE cases = <<>>
  <2>1. cases' = <<FALSE>> /\ Len(cases) = 0
    BY <1>2, <1>4, CaseEntries, Zenon
  <2>2. gpc' = "build"
    BY <2>1 DEF NextCase, At, Cases
  <2>3. GuestType'
    BY <2>1, <2>2, CaseEntries DEF GuestType, NextCase, processes
  <2>4. CaseStage'
    BY <2>1, <2>2 DEF CaseStage, Measuring, Measured
  <2>5. QED
    BY <2>3, <2>4
<1>5. CASE cases = <<FALSE>>
  <2>1. cases' = <<FALSE, FALSE>> /\ Len(cases) = 1
    BY <1>2, <1>5, CaseEntries, Zenon
  <2>2. gpc' = "complete"
    BY <2>1 DEF NextCase, At, Cases
  <2>3. GuestType'
    BY <2>1, <2>2, CaseEntries DEF GuestType, NextCase, processes
  <2>4. CaseStage'
    BY <2>1, <2>2 DEF CaseStage, Measuring, Measured
  <2>5. QED
    BY <2>3, <2>4
<1>6. QED
  BY <1>3, <1>4, <1>5

(* What the guest does by itself keeps its part of the invariant.          *)
LEMMA GuestSteps ==
    ASSUME GuestType, CaseStage, Probe \/ FlowEnds \/ EndpointEnds
    PROVE  GuestType' /\ CaseStage' /\ (gpc = "none" => gpc' = "none")
<1> USE DEF GuestType, CaseStage, Measuring, Measured, Does, Fails, At, processes
<1>1. CASE Reserve
  BY <1>1 DEF Reserve
<1>2. CASE Build
  BY <1>2 DEF Build
<1>3. CASE Network
  BY <1>3 DEF Network
<1>4. CASE Configure
  BY <1>4 DEF Configure
<1>5. CASE ConfigureSwitch
  BY <1>5 DEF ConfigureSwitch
<1>6. CASE IdlePaths
  BY <1>6 DEF IdlePaths
<1>7. CASE Background
  BY <1>7 DEF Background
<1>8. CASE Samplers
  BY <1>8 DEF Samplers
<1>9. CASE Publisher
  BY <1>9 DEF Publisher
<1>10. CASE Subscriber
  BY <1>10 DEF Subscriber
<1>11. CASE VerifyEndpoints
  BY <1>11 DEF VerifyEndpoints
<1>12. CASE Before
  BY <1>12 DEF Before
<1>13. CASE VerifyRuntime
  BY <1>13 DEF VerifyRuntime
<1>14. CASE Window
  BY <1>14 DEF Window
<1>15. CASE AfterWindow
  BY <1>15 DEF AfterWindow
<1>16. CASE AssertBackground
  BY <1>16 DEF AssertBackground
<1>17. CASE VerifyBackground
  BY <1>17 DEF VerifyBackground
<1>18. CASE Drain
  BY <1>18 DEF Drain
<1>19. CASE Received
  BY <1>19 DEF Received
<1>20. CASE Summary
  BY <1>20 DEF Summary
<1>21. CASE Finally
  BY <1>21 DEF Finally
<1>22. CASE NextCase
  BY <1>22, NextCaseStep DEF NextCase
<1>23. CASE FlowEnds
  BY <1>23 DEF FlowEnds
<1>24. CASE EndpointEnds
  <2>1. UNCHANGED <<gpc, net, flows, broken, raised, cases>>
    BY <1>24 DEF EndpointEnds
  <2>2. {publisher', subscriber'} \subseteq {"none", "running", "ok", "failed"}
    BY <1>24 DEF EndpointEnds
  <2>3. QED
    BY <2>1, <2>2
<1>25. QED
  BY <1>1, <1>2, <1>3, <1>4, <1>5, <1>6, <1>7, <1>8, <1>9, <1>10, <1>11, <1>12, <1>13, <1>14,
     <1>15, <1>16, <1>17, <1>18, <1>19, <1>20, <1>21, <1>22, <1>23, <1>24 DEF Probe

(* The machine runs, so the unit has not ended and nothing was passed.     *)
LEMMA GuestPreserves ==
    ASSUME IInv, Probe \/ FlowEnds \/ EndpointEnds, vm = "run", UNCHANGED host
    PROVE  IInv'
<1>1. GuestType' /\ CaseStage' /\ (gpc = "none" => gpc' = "none")
  BY GuestSteps DEF IInv, TypeOK
<1>2. upc # "ok" /\ ~passed /\ lpc \notin {"validate", "complete"}
  BY DEF IInv, UnitStage, VerdictStage, Good
<1>3. TypeOK'
  BY <1>1 DEF IInv, TypeOK, host
<1>4. UnitStage'
  BY <1>1 DEF IInv, UnitStage, Closed, host
<1>5. MonitorStage'
  BY DEF IInv, MonitorStage, Closed, host
<1>6. VerdictStage'
  BY <1>2 DEF IInv, VerdictStage, host
<1>7. QED
  BY <1>1, <1>3, <1>4, <1>5, <1>6 DEF IInv

-----------------------------------------------------------------------------
(* The host                                                                *)

(* Nothing is started, and nothing is written.                             *)
LEMMA InitIInv == Init => IInv
<1>1. SUFFICES ASSUME Init PROVE IInv
  OBVIOUS
<1>2. cases = <<>> /\ gpc = "none" /\ broken = FALSE
  BY <1>1 DEF Init, GuestInit
<1>3. GuestType
  BY <1>1, <1>2, CaseEntries DEF Init, GuestInit, GuestType
<1>4. TypeOK
  <2>1. signals \in 0..MaxSignals
    BY <1>1, MaxSignalsAssumption DEF Init
  <2>2. {passed, hit, stopFile, cutShort} \subseteq BOOLEAN
    BY <1>1 DEF Init
  <2>3. monitor \in [Monitors -> {"none", "watching", "ok", "failed", "terminated"}]
    BY <1>1 DEF Init
  <2>4. QED
    BY <1>1, <1>3, <2>1, <2>2, <2>3 DEF Init, TypeOK
<1>5. CaseStage
  BY <1>2 DEF CaseStage, Measuring, Measured
<1>6. UnitStage /\ MonitorStage /\ VerdictStage
  <2>1. /\ lpc = "prepare" /\ upc = "none" /\ status = "none"
        /\ ~passed /\ pins = "none" /\ sampled = "none"
    BY <1>1 DEF Init
  <2>2. UnitStage
    BY <1>2, <2>1 DEF UnitStage, Opening, Signalled, Closed
  <2>3. MonitorStage
    BY <1>1, <2>1 DEF Init, MonitorStage, MemoryDone, BothDone, Signalled, Closed
  <2>4. VerdictStage
    BY <2>1 DEF VerdictStage, Opening, Signalled, Good
  <2>5. QED
    BY <2>2, <2>3, <2>4
<1>7. QED
  BY <1>4, <1>5, <1>6 DEF IInv

(* What leaves the guest alone keeps its part of the invariant.            *)
LEMMA GuestUntouched ==
    ASSUME IInv, UNCHANGED guest
    PROVE  GuestType' /\ CaseStage' /\ UNCHANGED <<gpc, cases>>
BY DEF IInv, TypeOK, GuestType, CaseStage, guest

(* What the end of a machine leaves of it, too.                            *)
LEMMA GuestLostKeeps ==
    ASSUME IInv, GuestLost
    PROVE  /\ GuestType' /\ CaseStage' /\ UNCHANGED cases
           /\ gpc = "none" => gpc' = "none"
<1>1. GuestType'
  BY DEF IInv, TypeOK, GuestType, GuestLost
<1>2. CaseStage'
  BY DEF IInv, CaseStage, GuestLost, Measuring, Measured
<1>3. QED
  BY <1>1, <1>2 DEF GuestLost

(* A launcher that gives up here has started nothing.                      *)
LEMMA PreparePreserves ==
    ASSUME IInv, Prepare
    PROVE  IInv'
<1>1. GuestType' /\ CaseStage' /\ UNCHANGED <<gpc, cases>>
  BY GuestUntouched DEF Prepare
<1>2. TypeOK'
  BY <1>1 DEF IInv, TypeOK, Monitors, Prepare, Moves, Raises, Passes, unit, machine,
     watch
<1>3. UnitStage'
  BY <1>1 DEF IInv, TypeOK, UnitStage, Opening, Signalled, Closed, Prepare, Moves, Raises,
     Passes, unit, machine, watch
<1>4. MonitorStage'
  BY DEF IInv, TypeOK, MonitorStage, Signalled, MemoryDone, BothDone, Closed, Monitors, Prepare,
     Moves, Raises, Passes, unit, machine, watch
<1>5. VerdictStage'
  BY <1>1 DEF IInv, TypeOK, CaseStage, UnitStage, MonitorStage, VerdictStage, Opening, Signalled,
     MemoryDone, BothDone, Good, Closed, Monitors, Prepare, Moves, Raises, Passes, unit, machine, watch
<1>6. QED
  BY <1>1, <1>2, <1>3, <1>4, <1>5 DEF IInv

(* The monitor of the memory is started, or nothing is.                    *)
LEMMA StartMemoryPreserves ==
    ASSUME IInv, StartMemory
    PROVE  IInv'
<1>1. GuestType' /\ CaseStage' /\ UNCHANGED <<gpc, cases>>
  BY GuestUntouched DEF StartMemory
<1>2. TypeOK'
  BY <1>1 DEF IInv, TypeOK, Monitors, StartMemory, Moves, Raises, unit, machine
<1>3. UnitStage'
  BY <1>1 DEF IInv, TypeOK, UnitStage, Opening, Signalled, Closed, StartMemory, Moves, Raises,
     unit, machine
<1>4. MonitorStage'
  BY DEF IInv, TypeOK, MonitorStage, Signalled, MemoryDone, BothDone, Closed, Monitors,
     StartMemory, Moves, Raises, unit, machine
<1>5. VerdictStage'
  BY <1>1 DEF IInv, TypeOK, CaseStage, UnitStage, MonitorStage, VerdictStage, Opening, Signalled,
     MemoryDone, BothDone, Good, Closed, Monitors, StartMemory, Moves, Raises, unit, machine
<1>6. QED
  BY <1>1, <1>2, <1>3, <1>4, <1>5 DEF IInv

(* What fails between the monitors and the try is remembered as cutShort.  *)
LEMMA StartAffinityPreserves ==
    ASSUME IInv, StartAffinity
    PROVE  IInv'
<1>1. GuestType' /\ CaseStage' /\ UNCHANGED <<gpc, cases>>
  BY GuestUntouched DEF StartAffinity
<1>2. TypeOK'
  BY <1>1 DEF IInv, TypeOK, Monitors, StartAffinity, Moves, Raises, unit, machine
<1>3. UnitStage'
  BY <1>1 DEF IInv, TypeOK, UnitStage, Opening, Signalled, Closed, StartAffinity, Moves, Raises,
     unit, machine
<1>4. MonitorStage'
  BY DEF IInv, TypeOK, MonitorStage, Signalled, MemoryDone, BothDone, Closed, Monitors,
     StartAffinity, Moves, Raises, unit, machine
<1>5. VerdictStage'
  BY <1>1 DEF IInv, TypeOK, CaseStage, UnitStage, MonitorStage, VerdictStage, Opening, Signalled,
     MemoryDone, BothDone, Good, Closed, Monitors, StartAffinity, Moves, Raises, unit, machine
<1>6. QED
  BY <1>1, <1>2, <1>3, <1>4, <1>5 DEF IInv

(* The only call of the unit.                                              *)
LEMMA CallUnitPreserves ==
    ASSUME IInv, CallUnit
    PROVE  IInv'
<1>1. GuestType' /\ CaseStage' /\ UNCHANGED <<gpc, cases>>
  BY GuestUntouched DEF CallUnit
<1>2. TypeOK'
  BY <1>1 DEF IInv, TypeOK, Monitors, CallUnit, machine, Moves, watch
<1>3. UnitStage'
  BY <1>1 DEF IInv, TypeOK, UnitStage, Opening, Signalled, Closed, CallUnit, machine, Moves, watch
<1>4. MonitorStage'
  BY DEF IInv, TypeOK, MonitorStage, Signalled, MemoryDone, BothDone, Closed, Monitors, CallUnit, machine,
     Moves, watch
<1>5. VerdictStage'
  BY <1>1 DEF IInv, TypeOK, CaseStage, UnitStage, MonitorStage, VerdictStage, Opening, Signalled,
     MemoryDone, BothDone, Good, Closed, Monitors, CallUnit, machine, Moves, watch
<1>6. QED
  BY <1>1, <1>2, <1>3, <1>4, <1>5 DEF IInv

(* Its status is that of a unit that has ended.                            *)
LEMMA UnitReturnsPreserves ==
    ASSUME IInv, UnitReturns
    PROVE  IInv'
<1>1. GuestType' /\ CaseStage' /\ UNCHANGED <<gpc, cases>>
  BY GuestUntouched DEF UnitReturns
<1>2. TypeOK'
  BY <1>1 DEF IInv, TypeOK, Monitors, UnitReturns, Moves, unit, machine, watch,
     UnitEnded
<1>3. UnitStage'
  BY <1>1 DEF IInv, TypeOK, UnitStage, Opening, Signalled, Closed, UnitReturns, Moves, unit, machine,
     watch, UnitEnded
<1>4. MonitorStage'
  BY DEF IInv, TypeOK, MonitorStage, Signalled, MemoryDone, BothDone, Closed, Monitors,
     UnitReturns, Moves, unit, machine, watch, UnitEnded
<1>5. VerdictStage'
  BY <1>1 DEF IInv, TypeOK, CaseStage, UnitStage, MonitorStage, VerdictStage, Opening, Signalled,
     MemoryDone, BothDone, Good, Closed, Monitors, UnitReturns, Moves, unit, machine, watch, UnitEnded
<1>6. QED
  BY <1>1, <1>2, <1>3, <1>4, <1>5 DEF IInv

(* From here on the unit does nothing but end.                             *)
LEMMA StopUnitPreserves ==
    ASSUME IInv, StopUnit
    PROVE  IInv'
<1>1. GuestType' /\ CaseStage' /\ UNCHANGED <<gpc, cases>>
  BY GuestUntouched DEF StopUnit
<1>2. TypeOK'
  BY <1>1 DEF IInv, TypeOK, Monitors, StopUnit, machine, Moves, watch, UnitEnded,
     Stopped
<1>3. UnitStage'
  BY <1>1 DEF IInv, TypeOK, UnitStage, Opening, Signalled, Closed, StopUnit, machine, Moves, watch,
     UnitEnded, Stopped
<1>4. MonitorStage'
  BY DEF IInv, TypeOK, MonitorStage, Signalled, MemoryDone, BothDone, Closed, Monitors, StopUnit, machine,
     Moves, watch, UnitEnded, Stopped
<1>5. VerdictStage'
  BY <1>1 DEF IInv, TypeOK, CaseStage, UnitStage, MonitorStage, VerdictStage, Opening, Signalled,
     MemoryDone, BothDone, Good, Closed, Monitors, StopUnit, machine, Moves, watch, UnitEnded, Stopped
<1>6. QED
  BY <1>1, <1>2, <1>3, <1>4, <1>5 DEF IInv

(* The file only asks the monitors to end.                                 *)
LEMMA TouchStopPreserves ==
    ASSUME IInv, TouchStop
    PROVE  IInv'
<1>1. GuestType' /\ CaseStage' /\ UNCHANGED <<gpc, cases>>
  BY GuestUntouched DEF TouchStop
<1>2. TypeOK'
  BY <1>1 DEF IInv, TypeOK, Monitors, TouchStop, Moves, unit, machine, watch
<1>3. UnitStage'
  BY <1>1 DEF IInv, TypeOK, UnitStage, Opening, Signalled, Closed, TouchStop, Moves, unit, machine, watch
<1>4. MonitorStage'
  BY DEF IInv, TypeOK, MonitorStage, Signalled, MemoryDone, BothDone, Closed, Monitors,
     TouchStop, Moves, unit, machine, watch
<1>5. VerdictStage'
  BY <1>1 DEF IInv, TypeOK, CaseStage, UnitStage, MonitorStage, VerdictStage, Opening, Signalled,
     MemoryDone, BothDone, Good, Closed, Monitors, TouchStop, Moves, unit, machine, watch
<1>6. QED
  BY <1>1, <1>2, <1>3, <1>4, <1>5 DEF IInv

(* The monitor of the memory has ended, or is terminated ...               *)
LEMMA AwaitMemoryPreserves ==
    ASSUME IInv, AwaitMemory
    PROVE  IInv'
<1>1. GuestType' /\ CaseStage' /\ UNCHANGED <<gpc, cases>>
  BY GuestUntouched DEF AwaitMemory, Await
<1>2. TypeOK'
  BY <1>1 DEF IInv, TypeOK, Monitors, AwaitMemory, Moves, unit, machine, Await
<1>3. UnitStage'
  BY <1>1 DEF IInv, TypeOK, UnitStage, Opening, Signalled, Closed, AwaitMemory, Moves, unit, machine,
     Await
<1>4. MonitorStage'
  BY DEF IInv, TypeOK, MonitorStage, Signalled, MemoryDone, BothDone, Closed, Monitors,
     AwaitMemory, Moves, unit, machine, Await
<1>5. VerdictStage'
  BY <1>1 DEF IInv, TypeOK, CaseStage, UnitStage, MonitorStage, VerdictStage, Opening, Signalled,
     MemoryDone, BothDone, Good, Closed, Monitors, AwaitMemory, Moves, unit, machine, Await
<1>6. QED
  BY <1>1, <1>2, <1>3, <1>4, <1>5 DEF IInv

(* ... and so is that of the affinities.                                   *)
LEMMA AwaitAffinityPreserves ==
    ASSUME IInv, AwaitAffinity
    PROVE  IInv'
<1>1. GuestType' /\ CaseStage' /\ UNCHANGED <<gpc, cases>>
  BY GuestUntouched DEF AwaitAffinity, Await
<1>2. TypeOK'
  BY <1>1 DEF IInv, TypeOK, Monitors, AwaitAffinity, Moves, unit, machine, Await
<1>3. UnitStage'
  BY <1>1 DEF IInv, TypeOK, UnitStage, Opening, Signalled, Closed, AwaitAffinity, Moves, unit, machine,
     Await
<1>4. MonitorStage'
  BY DEF IInv, TypeOK, MonitorStage, Signalled, MemoryDone, BothDone, Closed, Monitors,
     AwaitAffinity, Moves, unit, machine, Await
<1>5. VerdictStage'
  BY <1>1 DEF IInv, TypeOK, CaseStage, UnitStage, MonitorStage, VerdictStage, Opening, Signalled,
     MemoryDone, BothDone, Good, Closed, Monitors, AwaitAffinity, Moves, unit, machine, Await
<1>6. QED
  BY <1>1, <1>2, <1>3, <1>4, <1>5 DEF IInv

(* Only a good unit and good monitors are analysed.                        *)
LEMMA ReturnCodesPreserves ==
    ASSUME IInv, ReturnCodes
    PROVE  IInv'
<1>1. GuestType' /\ CaseStage' /\ UNCHANGED <<gpc, cases>>
  BY GuestUntouched DEF ReturnCodes
<1>2. TypeOK'
  BY <1>1 DEF IInv, TypeOK, Monitors, ReturnCodes, Moves, Raises, unit, machine,
     watch
<1>3. UnitStage'
  BY <1>1 DEF IInv, TypeOK, UnitStage, Opening, Signalled, Closed, ReturnCodes, Moves, Raises,
     unit, machine, watch
<1>4. MonitorStage'
  BY DEF IInv, TypeOK, MonitorStage, Signalled, MemoryDone, BothDone, Closed, Monitors,
     ReturnCodes, Moves, Raises, unit, machine, watch
<1>5. VerdictStage'
  BY <1>1 DEF IInv, TypeOK, CaseStage, UnitStage, MonitorStage, VerdictStage, Opening, Signalled,
     MemoryDone, BothDone, Good, Closed, Monitors, ReturnCodes, Moves, Raises, unit, machine, watch
<1>6. QED
  BY <1>1, <1>2, <1>3, <1>4, <1>5 DEF IInv

(* The line with PASS is there.                                            *)
LEMMA ReadLogPreserves ==
    ASSUME IInv, ReadLog
    PROVE  IInv'
<1>1. GuestType' /\ CaseStage' /\ UNCHANGED <<gpc, cases>>
  BY GuestUntouched DEF ReadLog
<1>2. TypeOK'
  BY <1>1 DEF IInv, TypeOK, Monitors, ReadLog, Moves, Raises, unit, machine, watch
<1>3. UnitStage'
  BY <1>1 DEF IInv, TypeOK, UnitStage, Opening, Signalled, Closed, ReadLog, Moves, Raises,
     unit, machine, watch
<1>4. MonitorStage'
  BY DEF IInv, TypeOK, MonitorStage, Signalled, MemoryDone, BothDone, Closed, Monitors,
     ReadLog, Moves, Raises, unit, machine, watch
<1>5. VerdictStage'
  BY <1>1 DEF IInv, TypeOK, CaseStage, UnitStage, MonitorStage, VerdictStage, Opening, Signalled,
     MemoryDone, BothDone, Good, Closed, Monitors, ReadLog, Moves, Raises, unit, machine, watch
<1>6. QED
  BY <1>1, <1>2, <1>3, <1>4, <1>5 DEF IInv

(* Two entries in results.json are two cases that returned.                *)
LEMMA AnalyzePreserves ==
    ASSUME IInv, Analyze
    PROVE  IInv'
<1>1. GuestType' /\ CaseStage' /\ UNCHANGED <<gpc, cases>>
  BY GuestUntouched DEF Analyze
<1>2. TypeOK'
  BY <1>1 DEF IInv, TypeOK, Monitors, Analyze, Moves, Raises, unit, machine, watch
<1>3. UnitStage'
  BY <1>1 DEF IInv, TypeOK, UnitStage, Opening, Signalled, Closed, Analyze, Moves, Raises, unit, machine,
     watch
<1>4. MonitorStage'
  BY DEF IInv, TypeOK, MonitorStage, Signalled, MemoryDone, BothDone, Closed, Monitors, Analyze,
     Moves, Raises, unit, machine, watch
<1>5. VerdictStage'
  <2>1. CASE Moves("analyze", "validate") /\ Len(cases) = Cases
    <3>1. cases \notin {<<>>, <<FALSE>>}
      BY <2>1, TooFewEntries
    <3>2. cases' = <<FALSE, FALSE>>
      BY <1>1, <3>1 DEF IInv, CaseStage
    <3>3. QED
      BY <2>1, <3>2 DEF IInv, VerdictStage, Analyze, Moves, unit, machine, watch, Opening, Signalled, Good
  <2>2. CASE Raises("analyze")
    BY <1>1, <2>2 DEF IInv, VerdictStage, Analyze, Raises, Moves, unit, machine, watch, Opening,
       Signalled, Good
  <2>3. QED
    BY <2>1, <2>2 DEF Analyze
<1>6. QED
  BY <1>1, <1>2, <1>3, <1>4, <1>5 DEF IInv

(* Something was sampled.                                                  *)
LEMMA ValidatePreserves ==
    ASSUME IInv, Validate
    PROVE  IInv'
<1>1. GuestType' /\ CaseStage' /\ UNCHANGED <<gpc, cases>>
  BY GuestUntouched DEF Validate
<1>2. TypeOK'
  BY <1>1 DEF IInv, TypeOK, Monitors, Validate, Moves, Raises, unit, machine, watch
<1>3. UnitStage'
  BY <1>1 DEF IInv, TypeOK, UnitStage, Opening, Signalled, Closed, Validate, Moves, Raises, unit, machine,
     watch
<1>4. MonitorStage'
  BY DEF IInv, TypeOK, MonitorStage, Signalled, MemoryDone, BothDone, Closed, Monitors, Validate,
     Moves, Raises, unit, machine, watch
<1>5. VerdictStage'
  BY <1>1 DEF IInv, TypeOK, CaseStage, UnitStage, MonitorStage, VerdictStage, Opening, Signalled,
     MemoryDone, BothDone, Good, Closed, Monitors, Validate, Moves, Raises, unit, machine, watch
<1>6. QED
  BY <1>1, <1>2, <1>3, <1>4, <1>5 DEF IInv

(* complete.json is the last thing.                                        *)
LEMMA CompletePreserves ==
    ASSUME IInv, Complete
    PROVE  IInv'
<1>1. GuestType' /\ CaseStage' /\ UNCHANGED <<gpc, cases>>
  BY GuestUntouched DEF Complete
<1>2. TypeOK'
  BY <1>1 DEF IInv, TypeOK, Monitors, Complete, Moves, unit, machine, watch
<1>3. UnitStage'
  BY <1>1 DEF IInv, TypeOK, UnitStage, Opening, Signalled, Closed, Complete, Moves, unit, machine, watch
<1>4. MonitorStage'
  BY DEF IInv, TypeOK, MonitorStage, Signalled, MemoryDone, BothDone, Closed, Monitors, Complete,
     Moves, unit, machine, watch
<1>5. VerdictStage'
  BY <1>1 DEF IInv, TypeOK, CaseStage, UnitStage, MonitorStage, VerdictStage, Opening, Signalled,
     MemoryDone, BothDone, Good, Closed, Monitors, Complete, Moves, unit, machine, watch
<1>6. QED
  BY <1>1, <1>2, <1>3, <1>4, <1>5 DEF IInv

(* An interrupt leads to the finally, or is remembered as cutShort.        *)
LEMMA InterruptPreserves ==
    ASSUME IInv, Interrupt
    PROVE  IInv'
<1>1. GuestType' /\ CaseStage' /\ UNCHANGED <<gpc, cases>>
  BY GuestUntouched DEF Interrupt
<1>2. TypeOK'
  <2>1. signals' \in 0..MaxSignals
    BY MaxSignalsAssumption DEF IInv, TypeOK, Interrupt
  <2>2. exit' \in {-1, 0, 1} /\ cutShort' \in BOOLEAN
    BY DEF IInv, TypeOK, Interrupt
  <2>3. QED
    BY <1>1, <2>1, <2>2 DEF IInv, TypeOK, Interrupt, unit, machine, watch
<1>3. UnitStage'
  BY <1>1 DEF IInv, TypeOK, UnitStage, Opening, Signalled, Closed, Interrupt, unit, machine, watch, InTry,
     Unguarded
<1>4. MonitorStage'
  BY DEF IInv, TypeOK, MonitorStage, Signalled, MemoryDone, BothDone, Closed, Monitors,
     Interrupt, unit, machine, watch, InTry, Unguarded
<1>5. VerdictStage'
  BY <1>1 DEF IInv, TypeOK, CaseStage, UnitStage, MonitorStage, VerdictStage, Opening, Signalled,
     MemoryDone, BothDone, Good, Closed, Monitors, Interrupt, unit, machine, watch, InTry, Unguarded
<1>6. QED
  BY <1>1, <1>2, <1>3, <1>4, <1>5 DEF IInv

(* The machine that prepares is pinned where no image is cached.           *)
LEMMA BootPreparationPreserves ==
    ASSUME IInv, BootPreparation
    PROVE  IInv'
<1>1. GuestType' /\ CaseStage' /\ UNCHANGED <<gpc, cases>>
  BY GuestUntouched DEF BootPreparation
<1>2. TypeOK'
  BY <1>1 DEF IInv, TypeOK, Monitors, BootPreparation, watch, outside, Unit
<1>3. UnitStage'
  BY <1>1 DEF IInv, TypeOK, UnitStage, Opening, Signalled, Closed, BootPreparation, watch,
     outside, Unit
<1>4. MonitorStage'
  BY DEF IInv, TypeOK, MonitorStage, Signalled, MemoryDone, BothDone, Closed, Monitors,
     BootPreparation, watch, outside, Unit
<1>5. VerdictStage'
  BY <1>1 DEF IInv, TypeOK, CaseStage, UnitStage, MonitorStage, VerdictStage, Opening, Signalled,
     MemoryDone, BothDone, Good, Closed, Monitors, BootPreparation, watch, outside, Unit
<1>6. QED
  BY <1>1, <1>2, <1>3, <1>4, <1>5 DEF IInv

(* The machine that prepares is gone.                                      *)
LEMMA PreparedPreserves ==
    ASSUME IInv, Prepared
    PROVE  IInv'
<1>1. GuestType' /\ CaseStage' /\ UNCHANGED <<gpc, cases>>
  BY GuestUntouched DEF Prepared
<1>2. TypeOK'
  BY <1>1 DEF IInv, TypeOK, Monitors, Prepared, watch, outside, Unit
<1>3. UnitStage'
  BY <1>1 DEF IInv, TypeOK, UnitStage, Opening, Signalled, Closed, Prepared, watch, outside, Unit
<1>4. MonitorStage'
  BY DEF IInv, TypeOK, MonitorStage, Signalled, MemoryDone, BothDone, Closed, Monitors, Prepared,
     watch, outside, Unit
<1>5. VerdictStage'
  BY <1>1 DEF IInv, TypeOK, CaseStage, UnitStage, MonitorStage, VerdictStage, Opening, Signalled,
     MemoryDone, BothDone, Good, Closed, Monitors, Prepared, watch, outside, Unit
<1>6. QED
  BY <1>1, <1>2, <1>3, <1>4, <1>5 DEF IInv

(* The guest begins once.                                                  *)
LEMMA BootRunPreserves ==
    ASSUME IInv, BootRun
    PROVE  IInv'
<1>1. GuestType' /\ CaseStage' /\ UNCHANGED cases
  BY DEF IInv, TypeOK, GuestType, UnitStage, CaseStage, Measuring, Measured, BootRun, Unit,
     processes
<1>2. TypeOK'
  BY <1>1 DEF IInv, TypeOK, Monitors, BootRun, watch, outside, Unit,
     processes
<1>3. UnitStage'
  BY <1>1 DEF IInv, TypeOK, UnitStage, Opening, Signalled, Closed, BootRun, watch, outside, Unit,
     processes
<1>4. MonitorStage'
  BY DEF IInv, TypeOK, MonitorStage, Signalled, MemoryDone, BothDone, Closed, Monitors, BootRun,
     watch, outside, Unit, processes
<1>5. VerdictStage'
  BY <1>1 DEF IInv, TypeOK, CaseStage, UnitStage, MonitorStage, VerdictStage, Opening, Signalled,
     MemoryDone, BothDone, Good, Closed, Monitors, BootRun, watch, outside, Unit, processes
<1>6. QED
  BY <1>1, <1>2, <1>3, <1>4, <1>5 DEF IInv

(* The target passes with a complete guest.                                *)
LEMMA JobPassesPreserves ==
    ASSUME IInv, JobPasses
    PROVE  IInv'
<1>1. GuestType' /\ CaseStage' /\ UNCHANGED <<gpc, cases>>
  BY GuestUntouched DEF JobPasses
<1>2. TypeOK'
  BY <1>1 DEF IInv, TypeOK, Monitors, JobPasses, machine, watch, outside, Unit
<1>3. UnitStage'
  BY <1>1 DEF IInv, TypeOK, UnitStage, Opening, Signalled, Closed, JobPasses, machine, watch, outside,
     Unit
<1>4. MonitorStage'
  BY DEF IInv, TypeOK, MonitorStage, Signalled, MemoryDone, BothDone, Closed, Monitors,
     JobPasses, machine, watch, outside, Unit
<1>5. VerdictStage'
  BY <1>1 DEF IInv, TypeOK, CaseStage, UnitStage, MonitorStage, VerdictStage, Opening, Signalled,
     MemoryDone, BothDone, Good, Closed, Monitors, JobPasses, machine, watch, outside, Unit
<1>6. QED
  BY <1>1, <1>2, <1>3, <1>4, <1>5 DEF IInv

(* The results are retrieved.                                              *)
LEMMA FetchPreserves ==
    ASSUME IInv, Fetch
    PROVE  IInv'
<1>1. GuestType' /\ CaseStage' /\ UNCHANGED <<gpc, cases>>
  BY GuestUntouched DEF Fetch
<1>2. TypeOK'
  BY <1>1 DEF IInv, TypeOK, Monitors, Fetch, watch, outside, Unit
<1>3. UnitStage'
  BY <1>1 DEF IInv, TypeOK, UnitStage, Opening, Signalled, Closed, Fetch, watch, outside, Unit
<1>4. MonitorStage'
  BY DEF IInv, TypeOK, MonitorStage, Signalled, MemoryDone, BothDone, Closed, Monitors, Fetch,
     watch, outside, Unit
<1>5. VerdictStage'
  BY <1>1 DEF IInv, TypeOK, CaseStage, UnitStage, MonitorStage, VerdictStage, Opening, Signalled,
     MemoryDone, BothDone, Good, Closed, Monitors, Fetch, watch, outside, Unit
<1>6. QED
  BY <1>1, <1>2, <1>3, <1>4, <1>5 DEF IInv

(* The unit is ok only when its machine is off.                            *)
LEMMA PowerOffPreserves ==
    ASSUME IInv, PowerOff
    PROVE  IInv'
<1>1. GuestType' /\ CaseStage' /\ UNCHANGED cases /\ (gpc = "none" => gpc' = "none")
  BY GuestLostKeeps DEF PowerOff
<1>2. TypeOK'
  BY <1>1 DEF IInv, TypeOK, Monitors, PowerOff, watch, outside, Unit
<1>3. UnitStage'
  BY <1>1 DEF IInv, TypeOK, UnitStage, Opening, Signalled, Closed, PowerOff, watch, outside, Unit
<1>4. MonitorStage'
  BY DEF IInv, TypeOK, MonitorStage, Signalled, MemoryDone, BothDone, Closed, Monitors, PowerOff,
     watch, outside, Unit
<1>5. VerdictStage'
  BY <1>1 DEF IInv, TypeOK, CaseStage, UnitStage, MonitorStage, VerdictStage, Opening, Signalled,
     MemoryDone, BothDone, Good, Closed, Monitors, PowerOff, watch, outside, Unit
<1>6. QED
  BY <1>1, <1>2, <1>3, <1>4, <1>5 DEF IInv

(* A unit that fails is over.                                              *)
LEMMA UnitFailsPreserves ==
    ASSUME IInv, UnitFails
    PROVE  IInv'
<1>1. GuestType' /\ CaseStage' /\ UNCHANGED cases /\ (gpc = "none" => gpc' = "none")
  BY GuestLostKeeps DEF UnitFails
<1>2. TypeOK'
  BY <1>1 DEF IInv, TypeOK, Monitors, UnitFails, watch, outside
<1>3. UnitStage'
  BY <1>1 DEF IInv, TypeOK, UnitStage, Opening, Signalled, Closed, UnitFails, watch, outside
<1>4. MonitorStage'
  BY DEF IInv, TypeOK, MonitorStage, Signalled, MemoryDone, BothDone, Closed, Monitors,
     UnitFails, watch, outside
<1>5. VerdictStage'
  BY <1>1 DEF IInv, TypeOK, CaseStage, UnitStage, MonitorStage, VerdictStage, Opening, Signalled,
     MemoryDone, BothDone, Good, Closed, Monitors, UnitFails, watch, outside
<1>6. QED
  BY <1>1, <1>2, <1>3, <1>4, <1>5 DEF IInv

(* So is one that was stopped, and its status is good.                     *)
LEMMA StoppedEndsPreserves ==
    ASSUME IInv, StoppedEnds
    PROVE  IInv'
<1>1. GuestType' /\ CaseStage' /\ UNCHANGED cases /\ (gpc = "none" => gpc' = "none")
  BY GuestLostKeeps DEF StoppedEnds
<1>2. TypeOK'
  BY <1>1 DEF IInv, TypeOK, Monitors, StoppedEnds, watch, outside, Unit
<1>3. UnitStage'
  BY <1>1 DEF IInv, TypeOK, UnitStage, Opening, Signalled, Closed, StoppedEnds, watch, outside, Unit
<1>4. MonitorStage'
  BY DEF IInv, TypeOK, MonitorStage, Signalled, MemoryDone, BothDone, Closed, Monitors,
     StoppedEnds, watch, outside, Unit
<1>5. VerdictStage'
  BY <1>1 DEF IInv, TypeOK, CaseStage, UnitStage, MonitorStage, VerdictStage, Opening, Signalled,
     MemoryDone, BothDone, Good, Closed, Monitors, StoppedEnds, watch, outside, Unit
<1>6. QED
  BY <1>1, <1>2, <1>3, <1>4, <1>5 DEF IInv

(* The monitor of the memory may stop a running unit only.                 *)
LEMMA MemoryPassPreserves ==
    ASSUME IInv, MemoryPass
    PROVE  IInv'
<1>1. GuestType' /\ CaseStage' /\ UNCHANGED <<gpc, cases>>
  BY GuestUntouched DEF MemoryPass, inside, machine
<1>2. TypeOK'
  BY <1>1 DEF IInv, TypeOK, Monitors, MemoryPass, UnitEnded, Stopped,
     Watching, Ends, inside, machine
<1>3. UnitStage'
  BY <1>1 DEF IInv, TypeOK, UnitStage, Opening, Signalled, Closed, MemoryPass, UnitEnded,
     Stopped, Watching, Ends, inside, machine
<1>4. MonitorStage'
  BY DEF IInv, TypeOK, MonitorStage, Signalled, MemoryDone, BothDone, Closed, Monitors,
     MemoryPass, UnitEnded, Stopped, Watching, Ends, inside, machine
<1>5. VerdictStage'
  BY <1>1 DEF IInv, TypeOK, CaseStage, UnitStage, MonitorStage, VerdictStage, Opening, Signalled,
     MemoryDone, BothDone, Good, Closed, Monitors, MemoryPass, UnitEnded, Stopped, Watching,
     Ends, inside, machine
<1>6. QED
  BY <1>1, <1>2, <1>3, <1>4, <1>5 DEF IInv

(* The sampled machine is the pinned one.                                  *)
LEMMA AwaitMachinePreserves ==
    ASSUME IInv, AwaitMachine
    PROVE  IInv'
<1>1. GuestType' /\ CaseStage' /\ UNCHANGED <<gpc, cases>>
  BY GuestUntouched DEF AwaitMachine, inside, machine
<1>2. TypeOK'
  BY <1>1 DEF IInv, TypeOK, Monitors, AwaitMachine, Watching, Ends, inside, machine
<1>3. UnitStage'
  BY <1>1 DEF IInv, TypeOK, UnitStage, Opening, Signalled, Closed, AwaitMachine, Watching, Ends,
     inside, machine
<1>4. MonitorStage'
  BY DEF IInv, TypeOK, MonitorStage, Signalled, MemoryDone, BothDone, Closed, Monitors,
     AwaitMachine, Watching, Ends, inside, machine
<1>5. VerdictStage'
  BY <1>1 DEF IInv, TypeOK, CaseStage, UnitStage, MonitorStage, VerdictStage, Opening, Signalled,
     MemoryDone, BothDone, Good, Closed, Monitors, AwaitMachine, Watching, Ends, inside, machine
<1>6. QED
  BY <1>1, <1>2, <1>3, <1>4, <1>5 DEF IInv

(* The monitor of the affinities ends.                                     *)
LEMMA SamplePreserves ==
    ASSUME IInv, Sample
    PROVE  IInv'
<1>1. GuestType' /\ CaseStage' /\ UNCHANGED <<gpc, cases>>
  BY GuestUntouched DEF Sample, inside, machine
<1>2. TypeOK'
  BY <1>1 DEF IInv, TypeOK, Monitors, Sample, Watching, Ends, inside, machine
<1>3. UnitStage'
  BY <1>1 DEF IInv, TypeOK, UnitStage, Opening, Signalled, Closed, Sample, Watching, Ends, inside, machine
<1>4. MonitorStage'
  BY DEF IInv, TypeOK, MonitorStage, Signalled, MemoryDone, BothDone, Closed, Monitors, Sample,
     Watching, Ends, inside, machine
<1>5. VerdictStage'
  BY <1>1 DEF IInv, TypeOK, CaseStage, UnitStage, MonitorStage, VerdictStage, Opening, Signalled,
     MemoryDone, BothDone, Good, Closed, Monitors, Sample, Watching, Ends, inside, machine
<1>6. QED
  BY <1>1, <1>2, <1>3, <1>4, <1>5 DEF IInv

(* So every step keeps the invariant.                                      *)
LEMMA NextPreserves == IInv /\ [Next]_vars => IInv'
<1>1. SUFFICES ASSUME IInv, [Next]_vars PROVE IInv'
  OBVIOUS
<1>2. CASE Launcher
  BY <1>1, <1>2, PreparePreserves, StartMemoryPreserves, StartAffinityPreserves,
     CallUnitPreserves, UnitReturnsPreserves, StopUnitPreserves, TouchStopPreserves,
     AwaitMemoryPreserves, AwaitAffinityPreserves, ReturnCodesPreserves, ReadLogPreserves,
     AnalyzePreserves,
     ValidatePreserves, CompletePreserves DEF Launcher
<1>3. CASE Runner
  BY <1>1, <1>3, BootPreparationPreserves, PreparedPreserves, BootRunPreserves,
     JobPassesPreserves, FetchPreserves, PowerOffPreserves, UnitFailsPreserves,
     StoppedEndsPreserves DEF Runner
<1>4. CASE Interrupt \/ MemoryPass \/ AwaitMachine \/ Sample
  BY <1>1, <1>4, InterruptPreserves, MemoryPassPreserves, AwaitMachinePreserves, SamplePreserves
<1>5. CASE (Probe \/ FlowEnds \/ EndpointEnds) /\ vm = "run" /\ UNCHANGED host
  BY <1>1, <1>5, GuestPreserves
<1>6. CASE UNCHANGED vars
  <2>1. UNCHANGED guest /\ UNCHANGED host
    BY <1>6 DEF vars
  <2>2. GuestType' /\ CaseStage'
    BY <1>1, <2>1, GuestUntouched
  <2>3. TypeOK' /\ MonitorStage'
    BY <1>1, <2>1, <2>2 DEF IInv, TypeOK, MonitorStage, Closed, host
  <2>4. UnitStage' /\ VerdictStage'
    BY <1>1, <2>1 DEF IInv, UnitStage, VerdictStage, Closed, guest, host
  <2>5. QED
    BY <2>2, <2>3, <2>4 DEF IInv
<1>7. QED
  BY <1>1, <1>2, <1>3, <1>4, <1>5, <1>6 DEF Next

(* The strengthened invariant holds in every reachable state.              *)
LEMMA Invariance == Spec => []IInv
BY InitIInv, NextPreserves, PTL DEF Spec

-----------------------------------------------------------------------------
(* What the sustained profile promises                                     *)

(* Every variable keeps its type, for any number of interrupts.            *)
THEOREM TypeCorrect == Spec => []TypeOK
<1>1. IInv => TypeOK
  BY DEF IInv
<1>2. QED
  BY <1>1, Invariance, PTL

(* complete.json of the host is written only for two cases whose           *)
(* background flows were up through the whole window, for results that the *)
(* runner had retrieved and said so in its log, a unit that ended with     *)
(* status 0, which a stopped one may too, and monitors that ended as they  *)
(* should; with a cached image the sampled machine is the measured one     *)
(* (run_sustained_profile.py, launch.py, sustained_probe.py).              *)
THEOREM MeasuredPass == Spec => []PassIsMeasured
<1>1. IInv => PassIsMeasured
  <2>1. SUFFICES ASSUME IInv, passed PROVE PassIsMeasured
    BY DEF PassIsMeasured
  <2>2. status = "ok" /\ upc = "ok" /\ vm = "off"
    BY <2>1 DEF IInv, VerdictStage, UnitStage
  <2>3. cases = <<FALSE, FALSE>> /\ passLine /\ \A m \in Monitors : monitor[m] = "ok"
    BY <2>1 DEF IInv, VerdictStage
  <2>4. hit => sampled = "run"
    BY <2>1 DEF IInv, VerdictStage, UnitStage
  <2>5. QED
    BY <2>2, <2>3, <2>4 DEF PassIsMeasured
<1>2. QED
  BY <1>1, Invariance, PTL

(* The finally of launch.py: whatever failed inside the try, neither a     *)
(* watching monitor nor a unit that nobody told to stop is left.           *)
THEOREM NothingIsLeft == Spec => []NothingLeft
<1>1. IInv => NothingLeft
  BY DEF IInv, UnitStage, MonitorStage, NothingLeft, Closed, Monitors
<1>2. QED
  BY <1>1, Invariance, PTL

=============================================================================
