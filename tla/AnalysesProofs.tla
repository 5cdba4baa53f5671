--------------------------- MODULE AnalysesProofs ---------------------------
(***************************************************************************)
(* Proofs about Analyses: what the tools that read a retained run say of   *)
(* it, for every input they may be given and every value of the constants. *)
(*                                                                         *)
(* The state only holds the input of a tool, so that the inductive         *)
(* invariant (LogOK) is its type and its order; what the tools compute is  *)
(* in operators.  Each loop of theirs is a recursive function, of which    *)
(* this module says three things: the table it fills (Kept, Passed, Added, *)
(* Zeroed, Joined, Wrote) exists, the operator returns its last entry, and *)
(* an invariant of one step holds of every entry.                          *)
(***************************************************************************)
EXTENDS Analyses, SequenceTheorems, FiniteSetTheorems, WellFoundedInduction, TLAPS

-----------------------------------------------------------------------------
(* What the tools are given                                                *)

RowType == [connection : {1, 2}, at : Int, sent : Int, pending : BOOLEAN]
StallRun == [objects : SUBSET [at : Int, native : Int], rows : Seq(RowType),
             origins : {<<>>, <<0>>}, wall : {1}, horizon : BOOLEAN, counters : BOOLEAN]

(* Objects and rows come within the run, and the rows in their order.      *)
StallLog(r) ==
    /\ r \in StallRun
    /\ \A e \in r.objects :
          Started < e.at /\ e.at <= Horizon + 1 /\ e.native \in {NoTime, e.at, e.at + 1}
    /\ \A i \in DOMAIN r.rows :
          /\ Started < r.rows[i].at
          /\ \A j \in DOMAIN r.rows : i < j => r.rows[i].at < r.rows[j].at

EnvelopeType == [time : Int, bytes : 1..2, fine : BOOLEAN]
RateRow == [connection : {1, 2}, time : Int, counter : Int]
CaseType ==
    [controller : {"reno", "prague"}, recordedController : {"reno", "prague"},
     rate : {"20mbit", "100mbit"},
     recordedRate : [g : {"20mbit", "100mbit"}, h : {"none", "20mbit"}],
     listed : {{"g", "h"}}, sampled : {{}, {"h"}, {"g", "h"}}, named : {"none", "g"},
     status : {"PASS"}]

FrameType == [index : 0..1, timestamp : 0..1, pose : {"a", "b"}, image : BOOLEAN]
CaptureType == [complete : BOOLEAN, frames : Seq(FrameType)]
CompareLog == [candidate : CaptureType, reference : CaptureType, ssim : Seq(Nat), psnr : Seq(Nat)]

DeliveryType ==
    [key : 1..2, status : {"delivered", "undelivered", "pending"}, agrees : BOOLEAN,
     intact : BOOLEAN, mapped : BOOLEAN]
GateLog == [expected : {{1}, {1, 2}}, rows : Seq(DeliveryType),
            history : Seq((1..2) \X {"accepted", "rejected"})]

(* What the log holds, by the tool it is for.                              *)
LogOK ==
    /\ tool \in Tools
    /\ tool = "stalls" => StallLog(log)
    /\ tool = "payload" => log \in Seq(EnvelopeType)
    /\ tool = "rates" => log \in Seq(RateRow)
    /\ tool = "cases" => log \in Seq(CaseType)
    /\ tool = "trace" => log \in 0..501
    /\ tool = "compare" => log \in CompareLog
    /\ tool = "gate" => log \in GateLog

(* The generated trace has 501 frames.                                     *)
LEMMA TraceLength == Len(GenerateTrace) = 501 /\ DOMAIN GenerateTrace = 1..501
BY DEF GenerateTrace

(* Nothing is given yet.                                                   *)
LEMMA InitLog == Init => LogOK
<1>1. SUFFICES ASSUME tool \in Tools, log \in Fresh(tool) PROVE LogOK
  BY DEF Init
<1>2. \A S : <<>> \in Seq(S)
  BY EmptySeq
<1>3. ASSUME tool = "stalls" PROVE StallLog(log)
  <2>1. log \in [objects : {{}}, rows : {<<>>}, origins : {<<>>, <<0>>}, wall : {1},
                 horizon : BOOLEAN, counters : BOOLEAN]
    BY <1>1, <1>3 DEF Fresh
  <2>2. <<>> \in Seq(RowType)
    BY <1>2
  <2>3. log \in StallRun
    BY <2>1, <2>2 DEF StallRun
  <2>4. log.objects = {} /\ log.rows = <<>> /\ DOMAIN log.rows = {}
    BY <2>1
  <2>5. QED
    BY <2>3, <2>4 DEF StallLog
<1>4. tool \in {"payload", "rates", "cases"} => log = <<>>
  BY <1>1 DEF Fresh
<1>5. tool = "trace" => log = 0
  BY <1>1 DEF Fresh
<1>6. ASSUME tool = "compare" PROVE log \in CompareLog
  <2>1. log \in [candidate : Captures, reference : Captures, ssim : {<<>>}, psnr : {<<>>}]
    BY <1>1, <1>6 DEF Fresh
  <2>2. Captures \subseteq CaptureType
    BY <1>2 DEF Captures, CaptureType
  <2>3. QED
    BY <1>2, <2>1, <2>2 DEF CompareLog
<1>7. ASSUME tool = "gate" PROVE log \in GateLog
  <2>1. log \in [expected : {{1}, {1, 2}}, rows : {<<>>}, history : {<<>>}]
    BY <1>1, <1>7 DEF Fresh
  <2>2. QED
    BY <1>2, <2>1 DEF GateLog
<1>8. <<>> \in Seq(EnvelopeType) /\ <<>> \in Seq(RateRow) /\ <<>> \in Seq(CaseType)
  BY <1>2
<1>9. 0 \in 0..501
  OBVIOUS
<1>10. QED
  BY <1>1, <1>3, <1>4, <1>5, <1>6, <1>7, <1>8, <1>9, Zenon DEF LogOK

(* One object more.                                                        *)
LEMMA ObjectLog ==
    ASSUME StallLog(log), tool = "stalls", ObjectEvent PROVE StallLog(log')
<1>1. PICK at \in (Started + 1)..(Horizon + 1) : \E native \in {NoTime, at, at + 1} :
          log' = [log EXCEPT !.objects = @ \cup {[at |-> at, native |-> native]}]
  BY DEF ObjectEvent
<1>2. PICK native \in {NoTime, at, at + 1} :
          log' = [log EXCEPT !.objects = @ \cup {[at |-> at, native |-> native]}]
  BY <1>1
<1> DEFINE new == [at |-> at, native |-> native]
<1>3. at \in Int /\ Started < at /\ at <= Horizon + 1 /\ new \in [at : Int, native : Int]
  BY StallAssumption DEF Horizon
<1>4. log \in StallRun
  BY DEF StallLog
<1>5. /\ log'.objects = log.objects \cup {new} /\ log'.rows = log.rows
      /\ log' \in StallRun
  BY <1>2, <1>3, <1>4 DEF StallRun
<1>6. new.at = at /\ new.native = native
  OBVIOUS
<1> HIDE DEF new
<1>7. QED
  BY <1>2, <1>3, <1>5, <1>6 DEF StallLog

(* One row more.                                                           *)
LEMMA RowLog ==
    ASSUME StallLog(log), tool = "stalls", MetricsRow PROVE StallLog(log')
<1> DEFINE Given == [connection : {1, 2}, at : (Started + 1)..(Horizon + 1), sent : {0, 1},
                     pending : BOOLEAN]
<1>1. PICK row \in Given :
          /\ log.rows # <<>> => row.at > Last(log.rows).at
          /\ log' = [log EXCEPT !.rows = Append(@, row)]
  BY DEF MetricsRow
<1>2. row \in RowType /\ Started < row.at
  BY StallAssumption DEF RowType, Horizon
<1>3. log \in StallRun /\ log.rows \in Seq(RowType)
  BY DEF StallLog, StallRun
<1> DEFINE rows == log.rows
           n == Len(rows)
<1>4. n \in Nat /\ DOMAIN rows = 1..n
  BY <1>3, LenProperties
<1>5. /\ Append(rows, row) \in Seq(RowType) /\ Len(Append(rows, row)) = n + 1
      /\ Append(rows, row)[n + 1] = row /\ \A i \in 1..n : Append(rows, row)[i] = rows[i]
  BY <1>2, <1>3, AppendProperties
<1>6. log'.rows = Append(rows, row) /\ log'.objects = log.objects /\ log' \in StallRun
  BY <1>1, <1>3, <1>5 DEF StallRun
<1>7. DOMAIN log'.rows = 1..(n + 1)
  BY <1>5, <1>6, LenProperties
<1>8. \A i \in 1..n : rows[i].at \in Int /\ Started < rows[i].at /\ rows[i].at < row.at
  <2>1. SUFFICES ASSUME NEW i \in 1..n
                 PROVE  rows[i].at \in Int /\ Started < rows[i].at /\ rows[i].at < row.at
    OBVIOUS
  <2>2. rows # <<>> /\ n \in 1..n
    BY <1>4
  <2>3. Last(rows) = rows[n]
    BY DEF Last
  <2>4. rows[i] \in RowType /\ rows[n] \in RowType
    BY <1>3, <1>4, <2>2, ElementOfSeq
  <2>5. rows[i].at <= rows[n].at
    <3>1. CASE i = n
      BY <2>4, <3>1 DEF RowType
    <3>2. CASE i < n
      BY <1>4, <2>2, <2>4, <3>2 DEF StallLog, RowType
    <3>3. QED
      BY <3>1, <3>2, <1>4
  <2>6. QED
    BY <1>1, <1>2, <1>4, <2>2, <2>3, <2>4, <2>5 DEF StallLog, RowType
<1>9. \A i, j \in 1..n : i < j => rows[i].at < rows[j].at
  BY <1>4 DEF StallLog
<1> DEFINE new == log'.rows
<1>10. \A i \in 1..n : new[i] = rows[i]
  BY <1>5, <1>6
<1>11. new[n + 1] = row
  BY <1>5, <1>6
<1> HIDE DEF rows, n, new
<1>12. ASSUME NEW i \in 1..(n + 1)
       PROVE  Started < new[i].at /\ \A j \in 1..(n + 1) : i < j => new[i].at < new[j].at
  <2>1. CASE i = n + 1
    BY <1>2, <1>4, <1>11, <2>1
  <2>2. CASE i \in 1..n
    <3>1. \A j \in 1..(n + 1) : j = n + 1 \/ j \in 1..n
      BY <1>4
    <3>2. QED
      BY <1>8, <1>9, <1>10, <1>11, <2>2, <3>1
  <2>3. QED
    BY <1>4, <2>1, <2>2
<1>13. \A e \in log'.objects :
          Started < e.at /\ e.at <= Horizon + 1 /\ e.native \in {NoTime, e.at, e.at + 1}
  BY <1>6 DEF StallLog
<1>14. QED
  BY <1>6, <1>7, <1>12, <1>13 DEF StallLog, new

(* The tools are given what they read.                                     *)
LEMMA NextLog == LogOK /\ [Next]_vars => LogOK'
<1>1. SUFFICES ASSUME LogOK, [Next]_vars PROVE LogOK'
  OBVIOUS
<1> USE <1>1
<1>2. CASE UNCHANGED vars
  BY <1>2 DEF vars, LogOK, StallLog, StallRun
<1>3. CASE ObjectEvent
  <2>1. tool = "stalls" /\ tool' = tool
    BY <1>3 DEF ObjectEvent, Uses
  <2>2. StallLog(log')
    BY <1>3, <2>1, ObjectLog DEF LogOK
  <2>3. QED
    BY <2>1, <2>2 DEF LogOK
<1>4. CASE MetricsRow
  <2>1. tool = "stalls" /\ tool' = tool
    BY <1>4 DEF MetricsRow, Uses
  <2>2. StallLog(log')
    BY <1>4, <2>1, RowLog DEF LogOK
  <2>3. QED
    BY <2>1, <2>2 DEF LogOK
<1>5. CASE Gaussian
  BY <1>5 DEF Gaussian, Uses, LogOK
<1>6. CASE Envelope
  <2>1. tool = "payload" /\ tool' = tool /\ log \in Seq(EnvelopeType)
    BY <1>6 DEF Envelope, Uses, LogOK
  <2>2. PICK envelope \in [time : -1..Length, bytes : 1..2, fine : BOOLEAN] :
            log' = Append(log, envelope)
    BY <1>6 DEF Envelope
  <2>3. envelope \in EnvelopeType
    BY EvidenceAssumption DEF EnvelopeType
  <2>4. log' \in Seq(EnvelopeType)
    BY <2>1, <2>2, <2>3, AppendProperties
  <2>5. QED
    BY <2>1, <2>4 DEF LogOK
<1>7. CASE Counter
  <2>1. tool = "rates" /\ tool' = tool /\ log \in Seq(RateRow)
    BY <1>7 DEF Counter, Uses, LogOK
  <2>2. PICK row \in [connection : {1, 2}, time : 0..3, counter : {Missing} \cup 0..2] :
            log' = Append(log, row)
    BY <1>7 DEF Counter
  <2>3. row \in RateRow
    BY EvidenceAssumption DEF RateRow
  <2>4. log' \in Seq(RateRow)
    BY <2>1, <2>2, <2>3, AppendProperties
  <2>5. QED
    BY <2>1, <2>4 DEF LogOK
<1>8. CASE Case
  <2>1. tool = "cases" /\ tool' = tool /\ log \in Seq(CaseType)
    BY <1>8 DEF Case, Uses, LogOK
  <2>2. \E c \in CaseType : log' = Append(log, c)
    BY <1>8 DEF Case, CaseType
  <2>3. log' \in Seq(CaseType)
    BY <2>1, <2>2, AppendProperties
  <2>4. QED
    BY <2>1, <2>3 DEF LogOK
<1>9. CASE Frame
  <2>1. tool = "trace" /\ tool' = tool /\ log \in 0..501 /\ log < 501 /\ log' = log + 1
    BY <1>9, TraceLength DEF Frame, Uses, LogOK
  <2>2. log' \in 0..501
    BY <2>1
  <2>3. QED
    BY <2>1, <2>2 DEF LogOK
<1>10. CASE Capture
  <2>1. tool = "compare" /\ tool' = tool /\ log \in CompareLog
    BY <1>10 DEF Capture, Uses, LogOK
  <2>2. PICK side \in {"candidate", "reference"}, frame \in FrameType :
            log' = [log EXCEPT ![side].frames = Append(@, frame)]
    BY <1>10 DEF Capture, FrameType
  <2>3. log[side] \in CaptureType /\ log[side].frames \in Seq(FrameType)
    BY <2>1 DEF CompareLog, CaptureType
  <2>4. Append(log[side].frames, frame) \in Seq(FrameType)
    BY <2>3, AppendProperties
  <2>5. [log[side] EXCEPT !.frames = Append(@, frame)] \in CaptureType
    BY <2>3, <2>4 DEF CaptureType
  <2>6. log' \in CompareLog
    <3>1. log' = [log EXCEPT ![side] = [log[side] EXCEPT !.frames = Append(@, frame)]]
      BY <2>2
    <3>2. QED
      BY <2>1, <2>5, <3>1 DEF CompareLog
  <2>7. QED
    BY <2>1, <2>6 DEF LogOK
<1>11. CASE MetricLine
  <2>1. tool = "compare" /\ tool' = tool /\ log \in CompareLog
    BY <1>11 DEF MetricLine, Uses, LogOK
  <2>2. PICK stats \in {"ssim", "psnr"}, n \in 1..MaxFrames :
            log' = [log EXCEPT ![stats] = Append(@, n)]
    BY <1>11 DEF MetricLine
  <2>3. log[stats] \in Seq(Nat) /\ n \in Nat
    BY <2>1, AnalysesAssumption DEF CompareLog
  <2>4. Append(log[stats], n) \in Seq(Nat)
    BY <2>3, AppendProperties
  <2>5. log' \in CompareLog
    BY <2>1, <2>2, <2>4 DEF CompareLog
  <2>6. QED
    BY <2>1, <2>5 DEF LogOK
<1>12. CASE Delivery
  <2>1. tool = "gate" /\ tool' = tool /\ log \in GateLog
    BY <1>12 DEF Delivery, Uses, LogOK
  <2>2. PICK row \in DeliveryType : log' = [log EXCEPT !.rows = Append(@, row)]
    BY <1>12 DEF Delivery, DeliveryType
  <2>3. Append(log.rows, row) \in Seq(DeliveryType)
    BY <2>1, AppendProperties DEF GateLog
  <2>4. log' \in GateLog
    BY <2>1, <2>2, <2>3 DEF GateLog
  <2>5. QED
    BY <2>1, <2>4 DEF LogOK
<1>13. CASE Update
  <2>1. tool = "gate" /\ tool' = tool /\ log \in GateLog
    BY <1>13 DEF Update, Uses, LogOK
  <2>2. PICK update \in (1..2) \X {"accepted", "rejected"} :
            log' = [log EXCEPT !.history = Append(@, update)]
    BY <1>13 DEF Update
  <2>3. Append(log.history, update) \in Seq((1..2) \X {"accepted", "rejected"})
    BY <2>1, AppendProperties DEF GateLog
  <2>4. log' \in GateLog
    BY <2>1, <2>2, <2>3 DEF GateLog
  <2>5. QED
    BY <2>1, <2>4 DEF LogOK
<1>14. QED
  BY <1>2, <1>3, <1>4, <1>5, <1>6, <1>7, <1>8, <1>9, <1>10, <1>11, <1>12, <1>13 DEF Next

(* The log of every tool holds what that tool reads.                       *)
THEOREM LogTypes == Spec => []LogOK
BY InitLog, NextLog, PTL DEF Spec

(* Induction over the naturals for the members of a set.                   *)
LEMMA NaturalsBySteps ==
    ASSUME NEW I, 0 \in I, \A n \in Nat : n \in I => n + 1 \in I
    PROVE  \A n \in Nat : n \in I
<1> DEFINE T == Nat \ I
<1>1. SUFFICES ASSUME T # {} PROVE FALSE
  OBVIOUS
<1>2. PICK x \in T : \A y \in T : ~(<<y, x>> \in OpToRel(<, Nat))
  <2>1. T \subseteq Nat
    OBVIOUS
  <2>2. QED
    BY <1>1, <2>1, WFMin, NatLessThanWellFounded
<1>3. x # 0 /\ x - 1 \in Nat /\ x - 1 < x
  OBVIOUS
<1>4. <<x - 1, x>> \in OpToRel(<, Nat)
  BY <1>3, Zenon DEF OpToRel
<1>5. x - 1 \in I
  BY <1>2, <1>3, <1>4
<1>6. (x - 1) + 1 = x
  OBVIOUS
<1>7. x \in I
  BY <1>3, <1>5, <1>6
<1>8. QED
  BY <1>7

-----------------------------------------------------------------------------
(* Playback inputs and gates                                               *)

(* The generated trace turns by at most 1.2 degrees from frame to frame,   *)
(* and ends where it began.                                                *)
LEMMA TraceIsSmooth == ASSUME NEW n \in 0..501 PROVE TraceTurns(n)
<1>1. \A i \in 1..501 : GenerateTrace[i] =
          [timestamp |-> (i - 1) * 100, yaw |-> YawAt((i - 1) * 100), complete |-> TRUE]
  BY DEF GenerateTrace
<1>2. ASSUME NEW i \in 1..501
      PROVE  /\ GenerateTrace[i].yaw = YawAt((i - 1) * 100)
             /\ GenerateTrace[i].timestamp = (i - 1) * 100 /\ GenerateTrace[i].complete
  <2> DEFINE t == (i - 1) * 100
             y == YawAt(t)
  <2>1. GenerateTrace[i] = [timestamp |-> t, yaw |-> y, complete |-> TRUE]
    BY <1>1
  <2> HIDE DEF t, y
  <2>2. GenerateTrace[i].yaw = y /\ GenerateTrace[i].timestamp = t /\ GenerateTrace[i].complete
    BY <2>1
  <2>3. QED
    BY <2>2 DEF t, y
<1>3. ASSUME n > 1
      PROVE  Distance(GenerateTrace[n].yaw, GenerateTrace[n - 1].yaw) <= 12000
  <2>1. n \in 1..501 /\ n - 1 \in 1..501
    BY <1>3
  <2> DEFINE t == ((n - 1) - 1) * 100
  <2>2. t \in Nat /\ (n - 1) * 100 = t + 100 /\ \E k \in Nat : t = 100 * k
    BY <1>3
  <2>3. GenerateTrace[n].yaw = YawAt(t + 100) /\ GenerateTrace[n - 1].yaw = YawAt(t)
    BY <1>2, <2>1, <2>2
  <2>4. Distance(YawAt(t + 100), YawAt(t)) <= 12000
    <3> HIDE DEF t
    <3>1. t <= 14900 \/ t = 15000 \/ (15000 < t /\ t <= 24900) \/ t = 25000 \/ 25000 < t
      BY <2>2
    <3>2. QED
      BY <2>2, <3>1 DEF Distance, YawAt
  <2>5. QED
    BY <2>3, <2>4
<1>4. GenerateTrace[1].yaw = 0 /\ GenerateTrace[501].yaw = -3600000
  BY <1>2 DEF YawAt
<1>5. ValidTrace(GenerateTrace)
  <2>1. GenerateTrace # <<>> /\ Len(GenerateTrace) = 501
    BY TraceLength
  <2> DEFINE p == GenerateTrace
  <2>2. \A i \in 1..501 : p[i].timestamp = (i - 1) * 100 /\ p[i].complete
    BY <1>2
  <2>3. DOMAIN p = 1..501
    BY TraceLength
  <2> HIDE DEF p
  <2>4. p[1].timestamp = 0
    BY <2>2
  <2>5. \A i \in 2..501 : p[i].timestamp > p[i - 1].timestamp
    <3>1. SUFFICES ASSUME NEW i \in 2..501 PROVE p[i].timestamp > p[i - 1].timestamp
      OBVIOUS
    <3>2. i \in 1..501 /\ i - 1 \in 1..501 /\ (i - 1) * 100 > ((i - 1) - 1) * 100
      OBVIOUS
    <3>3. p[i].timestamp = (i - 1) * 100 /\ p[i - 1].timestamp = ((i - 1) - 1) * 100
      BY <2>2, <3>2
    <3>4. QED
      BY <3>2, <3>3
  <2>6. \A i \in DOMAIN p : p[i].complete
    BY <2>2, <2>3
  <2>7. p # <<>> /\ Len(p) = 501
    BY <2>1 DEF p
  <2>8. \A i \in 2..Len(p) : p[i].timestamp > p[i - 1].timestamp
    <3>1. 2..Len(p) = 2..501
      BY <2>7, Zenon
    <3>2. QED
      BY <2>5, <3>1, Zenon
  <2>9. ValidTrace(p)
    BY <2>4, <2>6, <2>7, <2>8, Zenon DEF ValidTrace
  <2>10. QED
    BY <2>9 DEF p
<1>6. ValidTrace(PreflightTrace(31))
  <2> DEFINE p == PreflightTrace(31)
  <2>1. DOMAIN p = 1..31 /\ Len(p) = 31
    BY DEF PreflightTrace
  <2>2. \A i \in 1..31 : p[i].timestamp = (i - 1) * 100 /\ p[i].complete
    BY DEF PreflightTrace
  <2> HIDE DEF p
  <2>3. p[1].timestamp = 0
    BY <2>2
  <2>4. \A i \in 2..31 : p[i].timestamp > p[i - 1].timestamp
    <3>1. SUFFICES ASSUME NEW i \in 2..31 PROVE p[i].timestamp > p[i - 1].timestamp
      OBVIOUS
    <3>2. i \in 1..31 /\ i - 1 \in 1..31 /\ (i - 1) * 100 > ((i - 1) - 1) * 100
      OBVIOUS
    <3>3. p[i].timestamp = (i - 1) * 100 /\ p[i - 1].timestamp = ((i - 1) - 1) * 100
      BY <2>2, <3>2
    <3>4. QED
      BY <3>2, <3>3
  <2>5. \A i \in DOMAIN p : p[i].complete
    BY <2>1, <2>2
  <2>6. p # <<>>
    <3>1. 1 \in DOMAIN p /\ DOMAIN <<>> = {}
      BY <2>1
    <3>2. QED
      BY <3>1, Zenon
  <2>7. ValidTrace(p)
    BY <2>1, <2>3, <2>4, <2>5, <2>6 DEF ValidTrace
  <2>8. QED
    BY <2>7 DEF p
<1>7. QED
  BY <1>3, <1>4, <1>5, <1>6, TraceLength DEF TraceTurns

(* The times of the frames that load_frames accepts increase.              *)
LEMMA FramesInOrder ==
    ASSUME NEW c \in CaptureType, LoadFrames(c),
           NEW i \in DOMAIN c.frames, NEW j \in DOMAIN c.frames, i < j
    PROVE  c.frames[i].timestamp < c.frames[j].timestamp
<1> DEFINE f == c.frames
           n == Len(f)
<1>1. n \in Nat /\ DOMAIN f = 1..n /\ \A k \in 1..n : f[k] \in FrameType
  <2>1. f \in Seq(FrameType)
    BY DEF CaptureType
  <2>2. QED
    BY <2>1, LenProperties, ElementOfSeq
<1>2. \A k \in 1..n : f[k].timestamp \in Int
  BY <1>1 DEF FrameType
<1>3. \A k \in 1..n : k > 1 => f[k].timestamp > f[k - 1].timestamp
  BY <1>1 DEF LoadFrames
<1> DEFINE I == {d \in Nat : i + d + 1 <= n => f[i].timestamp < f[i + d + 1].timestamp}
<1> HIDE DEF f, n
<1>4. i \in 1..n /\ j \in 1..n
  BY <1>1 DEF f
<1>5. 0 \in I
  BY <1>2, <1>3, <1>4, <1>1
<1>6. ASSUME NEW d \in Nat, d \in I PROVE d + 1 \in I
  <2>1. SUFFICES ASSUME i + (d + 1) + 1 <= n
                 PROVE  f[i].timestamp < f[i + (d + 1) + 1].timestamp
    OBVIOUS
  <2> DEFINE k == i + (d + 1) + 1
  <2>2. k \in 1..n /\ k - 1 \in 1..n /\ k - 1 = i + d + 1 /\ k > 1
    BY <1>1, <1>4, <2>1
  <2>3. f[i].timestamp < f[k - 1].timestamp
    BY <1>6, <2>1, <2>2
  <2>4. f[k].timestamp > f[k - 1].timestamp
    BY <1>3, <2>2
  <2>5. QED
    BY <1>2, <1>4, <2>2, <2>3, <2>4
<1> HIDE DEF I
<1>7. \A d \in Nat : d \in I
  BY <1>5, <1>6, NaturalsBySteps, Zenon
<1>8. (j - i) - 1 \in Nat /\ i + ((j - i) - 1) + 1 = j /\ j <= n
  BY <1>1, <1>4
<1>9. f[i].timestamp < f[j].timestamp
  BY <1>7, <1>8 DEF I
<1>10. QED
  BY <1>9 DEF f

(* A comparison pairs the frames of one time.                              *)
LEMMA PairsAreRight == ASSUME NEW c \in CompareLog PROVE ComparisonPairs(c)
<1>1. SUFFICES ASSUME CompareSequence(c.candidate, c.reference, c.ssim, c.psnr)
               PROVE  /\ \A i \in DOMAIN c.candidate.frames, j \in DOMAIN c.reference.frames :
                            c.candidate.frames[i].timestamp = c.reference.frames[j].timestamp =>
                                i = j /\ c.candidate.frames[i].pose = c.reference.frames[j].pose
                      /\ \A i \in DOMAIN c.candidate.frames :
                            i \in ToSet(c.ssim) /\ i \in ToSet(c.psnr)
  BY DEF ComparisonPairs
<1> DEFINE f == c.candidate.frames
           g == c.reference.frames
           n == Len(f)
<1>2. c.candidate \in CaptureType /\ c.reference \in CaptureType
      /\ c.ssim \in Seq(Nat) /\ c.psnr \in Seq(Nat)
  BY DEF CompareLog
<1>3. LoadFrames(c.candidate) /\ LoadFrames(c.reference) /\ SameCamera(f, g)
      /\ MetricValues(c.ssim) = 0..(n - 1) /\ MetricValues(c.psnr) = 0..(n - 1)
  BY <1>1 DEF CompareSequence
<1>4. n \in Nat /\ DOMAIN f = 1..n /\ DOMAIN g = 1..n
      /\ \A i \in 1..n : f[i] \in FrameType /\ g[i] \in FrameType
  <2>1. f \in Seq(FrameType) /\ g \in Seq(FrameType)
    BY <1>2 DEF CaptureType
  <2>2. Len(g) = n
    BY <1>3 DEF SameCamera
  <2>3. QED
    BY <2>1, <2>2, LenProperties, ElementOfSeq
<1>5. \A i \in 1..n : f[i].timestamp = g[i].timestamp /\ f[i].pose = g[i].pose
  BY <1>3, <1>4 DEF SameCamera
<1>6. ASSUME NEW i \in 1..n, NEW j \in 1..n, f[i].timestamp = g[j].timestamp PROVE i = j
  <2>1. f[i].timestamp \in Int /\ f[j].timestamp \in Int /\ f[i].timestamp = f[j].timestamp
    BY <1>4, <1>5, <1>6 DEF FrameType
  <2>2. ASSUME NEW k \in 1..n, NEW l \in 1..n, k < l PROVE f[k].timestamp < f[l].timestamp
    <3>1. LoadFrames(c.candidate) /\ c.candidate \in CaptureType /\ k \in DOMAIN f /\ l \in DOMAIN f
      BY <1>2, <1>3, <1>4
    <3>2. QED
      BY <2>2, <3>1, FramesInOrder
  <2>3. ~(i < j) /\ ~(j < i)
    BY <2>1, <2>2
  <2>4. QED
    BY <1>4, <2>3
<1>7. ASSUME NEW log_ \in {c.ssim, c.psnr}, NEW i \in 1..n PROVE i \in ToSet(log_)
  <2>1. i - 1 \in MetricValues(log_)
    BY <1>3, <1>4
  <2>2. PICK k \in DOMAIN log_ : i - 1 = log_[k] - 1
    BY <2>1 DEF MetricValues
  <2>3. log_[k] \in Nat
    BY <1>2, ElementOfSeq, LenProperties
  <2>4. log_[k] = i
    BY <1>4, <2>2, <2>3
  <2>5. QED
    BY <2>4 DEF ToSet
<1>8. QED
  BY <1>4, <1>5, <1>6, <1>7

(* The rows of a gate that passes are the objects of the manifest, once.   *)
LEMMA GateCounts == ASSUME NEW g \in GateLog PROVE GateAddsUp(g)
<1>1. SUFFICES ASSUME GatePasses(g.expected, g.rows, g.history)
               PROVE  /\ WithStatus(g.rows, "delivered") + WithStatus(g.rows, "undelivered")
                             = Cardinality(g.expected)
                      /\ Len(g.history) >= 2
  BY DEF GateAddsUp
<1> DEFINE rows == g.rows
           history == g.history
           D == DOMAIN rows
<1>2. rows \in Seq(DeliveryType) /\ history \in Seq((1..2) \X {"accepted", "rejected"})
  BY DEF GateLog
<1>3. IsFiniteSet(D)
  <2>1. Len(rows) \in Nat /\ D = 1..Len(rows)
    BY <1>2, LenProperties
  <2>2. QED
    BY <2>1, FS_Interval
<1>4. /\ \A i, j \in D : rows[i].key = rows[j].key => i = j
      /\ {rows[i].key : i \in D} = g.expected
      /\ \A i \in D : rows[i].status \in {"delivered", "undelivered"}
  BY <1>1 DEF GatePasses, ObjectCoverage
<1>5. Cardinality(g.expected) = Cardinality(D)
  <2> DEFINE F == [i \in D |-> rows[i].key]
  <2>1. F \in Bijection(D, g.expected)
    <3>1. F \in [D -> g.expected]
      BY <1>4
    <3>2. \A i, j \in D : F[i] = F[j] => i = j
      BY <1>4
    <3>3. \A k \in g.expected : \E i \in D : F[i] = k
      BY <1>4
    <3>4. QED
      BY <3>1, <3>2, <3>3 DEF Bijection, Injection, IsInjective, Surjection
  <2>2. ExistsBijection(D, g.expected)
    BY <2>1 DEF ExistsBijection
  <2>3. QED
    BY <1>3, <2>2, FS_Bijection
<1> DEFINE A == {i \in D : rows[i].status = "delivered"}
           B == {i \in D : rows[i].status = "undelivered"}
<1>6. WithStatus(rows, "delivered") = Cardinality(A)
      /\ WithStatus(rows, "undelivered") = Cardinality(B)
  BY DEF WithStatus
<1>7. A \cup B = D /\ A \cap B = {}
  BY <1>4
<1>8. IsFiniteSet(A) /\ IsFiniteSet(B)
  BY <1>3, FS_Subset
<1> HIDE DEF A, B
<1>9. Cardinality(A) + Cardinality(B) = Cardinality(D)
  <2>1. Cardinality(A \cup B) = Cardinality(A) + Cardinality(B) - Cardinality(A \cap B)
    BY <1>8, FS_Union
  <2>2. Cardinality(A) \in Nat /\ Cardinality(B) \in Nat /\ Cardinality(A \cap B) = 0
    BY <1>7, <1>8, FS_CardinalityType, FS_EmptySet
  <2> DEFINE a == Cardinality(A)
             b == Cardinality(B)
             z == Cardinality(A \cap B)
             d == Cardinality(D)
  <2>3. d = a + b - z
    BY <1>7, <2>1
  <2> HIDE DEF a, b, z, d
  <2>4. a \in Nat /\ b \in Nat /\ z = 0
    BY <2>2 DEF a, b, z
  <2>5. a + b = d
    BY <2>3, <2>4
  <2>6. QED
    BY <2>5 DEF a, b, d
<1>10. Len(history) >= 2
  <2>1. PICK k : Cardinality(Accepts(history, k)) >= 2
    BY <1>1 DEF GatePasses, QualifyingObjects
  <2>2. Len(history) \in Nat /\ DOMAIN history = 1..Len(history)
    BY <1>2, LenProperties
  <2>3. IsFiniteSet(1..Len(history)) /\ Cardinality(1..Len(history)) = Len(history)
    BY <2>2, FS_Interval
  <2>4. Accepts(history, k) \subseteq 1..Len(history)
    BY <2>2 DEF Accepts
  <2>5. /\ Cardinality(Accepts(history, k)) <= Len(history)
        /\ Cardinality(Accepts(history, k)) \in Nat
    BY <2>3, <2>4, FS_Subset, FS_CardinalityType
  <2>6. QED
    BY <2>1, <2>2, <2>5
<1>11. QED
  BY <1>5, <1>6, <1>9, <1>10

(* A trace is smooth, a comparison compares what belongs together, and a   *)
(* gate counts every object once.                                          *)
THEOREM SoundInputs == Spec => []InputsAreSound
<1>1. LogOK => InputsAreSound
  BY TraceIsSmooth, PairsAreRight, GateCounts DEF LogOK, InputsAreSound
<1>2. QED
  BY <1>1, LogTypes, PTL

-----------------------------------------------------------------------------
(* Only keeps the order of a list                                          *)

(* f is the table that the definition of Only computes, up to n.           *)
KeepStep(s, S, i, acc) == IF s[i] \in S THEN Append(acc, s[i]) ELSE acc
Kept(f, n, s, S) == f = [i \in 0..n |-> IF i = 0 THEN <<>> ELSE KeepStep(s, S, i, f[i - 1])]

(* The table exists.                                                       *)
LEMMA KeptExists == ASSUME NEW s, NEW S PROVE \A n \in Nat : \E f : Kept(f, n, s, S)
<1> DEFINE I == {n \in Nat : \E f : Kept(f, n, s, S)}
<1>1. 0 \in I
  <2>1. Kept([i \in 0..0 |-> <<>>], 0, s, S)
    BY DEF Kept
  <2>2. QED
    BY <2>1
<1>2. ASSUME NEW n \in Nat, n \in I PROVE n + 1 \in I
  <2>1. PICK f : Kept(f, n, s, S)
    BY <1>2
  <2> DEFINE last == KeepStep(s, S, n + 1, f[n])
             g == [i \in 0..(n + 1) |-> IF i = n + 1 THEN last ELSE f[i]]
  <2>2. (\A i \in 0..n : g[i] = f[i]) /\ g[n + 1] = last
    OBVIOUS
  <2>3. \A i \in 0..n : f[i] = IF i = 0 THEN <<>> ELSE KeepStep(s, S, i, f[i - 1])
    BY <2>1 DEF Kept
  <2>4. ASSUME NEW i \in 0..(n + 1)
        PROVE  g[i] = IF i = 0 THEN <<>> ELSE KeepStep(s, S, i, g[i - 1])
    <3>1. CASE i = n + 1
      <4>1. i # 0 /\ i - 1 = n /\ n \in 0..n
        BY <3>1
      <4>2. g[n] = f[n]
        BY <2>2, <4>1
      <4>3. QED
        BY <2>2, <3>1, <4>1, <4>2, Zenon
    <3>2. CASE i \in 1..n
      <4>1. i # 0 /\ i \in 0..n /\ i - 1 \in 0..n
        BY <3>2
      <4>2. g[i] = f[i] /\ g[i - 1] = f[i - 1]
        BY <2>2, <4>1
      <4>3. QED
        BY <2>3, <4>1, <4>2, Zenon
    <3>3. CASE i = 0
      BY <2>2, <2>3, <3>3
    <3>4. QED
      BY <3>1, <3>2, <3>3
  <2>5. g = [i \in 0..(n + 1) |-> g[i]]
    OBVIOUS
  <2> HIDE DEF g
  <2>6. Kept(g, n + 1, s, S)
    BY <2>4, <2>5 DEF Kept
  <2>7. QED
    BY <2>6
<1> HIDE DEF I
<1>3. \A n \in Nat : n \in I
  BY <1>1, <1>2, NaturalsBySteps, Zenon
<1>4. QED
  BY <1>3 DEF I

(* Only is the last entry of its table.                                    *)
LEMMA OnlyIsLast ==
    ASSUME NEW s, NEW S, Len(s) \in Nat
    PROVE  \E f : Kept(f, Len(s), s, S) /\ Only(s, S) = f[Len(s)]
<1> DEFINE f == CHOOSE f : Kept(f, Len(s), s, S)
<1>1. Kept(f, Len(s), s, S)
  BY KeptExists, Zenon
<1>2. Only(s, S) = f[Len(s)]
  BY DEF Only, Kept, KeepStep
<1>3. QED
  BY <1>1, <1>2

(* The members of t are those of s at the indices of some, in their order. *)
Thinned(t, s, i) ==
    /\ \A k \in DOMAIN t : \E m \in 1..i : t[k] = s[m]
    /\ \A k, l \in DOMAIN t : k < l => \E m, p \in 1..i : m < p /\ t[k] = s[m] /\ t[l] = s[p]

(* Only keeps members of the list, in their order.                         *)
LEMMA OnlyThins ==
    ASSUME NEW U, NEW s \in Seq(U), NEW S
    PROVE  Only(s, S) \in Seq(U) /\ Thinned(Only(s, S), s, Len(s))
<1> DEFINE n == Len(s)
<1>1. n \in Nat /\ \A i \in 1..n : s[i] \in U
  BY LenProperties, ElementOfSeq
<1>2. PICK f : Kept(f, n, s, S) /\ Only(s, S) = f[n]
  BY <1>1, OnlyIsLast
<1>3. \A i \in 0..n : f[i] = IF i = 0 THEN <<>> ELSE KeepStep(s, S, i, f[i - 1])
  BY <1>2 DEF Kept
<1> DEFINE I == {i \in Nat : i <= n => f[i] \in Seq(U) /\ Thinned(f[i], s, i)}
<1> HIDE DEF n
<1>4. 0 \in I
  <2>1. f[0] = <<>>
    BY <1>1, <1>3
  <2>2. <<>> \in Seq(U) /\ DOMAIN <<>> = {}
    BY EmptySeq
  <2>3. QED
    BY <2>1, <2>2 DEF Thinned
<1>5. ASSUME NEW i \in Nat, i \in I PROVE i + 1 \in I
  <2>1. SUFFICES ASSUME i + 1 <= n PROVE f[i + 1] \in Seq(U) /\ Thinned(f[i + 1], s, i + 1)
    OBVIOUS
  <2>2. f[i] \in Seq(U) /\ Thinned(f[i], s, i)
    BY <1>1, <1>5, <2>1
  <2>3. f[i + 1] = KeepStep(s, S, i + 1, f[i])
    <3>1. i + 1 \in 0..n /\ i + 1 # 0 /\ (i + 1) - 1 = i
      BY <1>1, <2>1
    <3>2. QED
      BY <1>3, <3>1
  <2>4. CASE s[i + 1] \notin S
    <3>1. f[i + 1] = f[i]
      BY <2>3, <2>4 DEF KeepStep
    <3>2. \A m \in 1..i : m \in 1..(i + 1)
      OBVIOUS
    <3>3. QED
      BY <2>2, <3>1, <3>2 DEF Thinned
  <2>5. CASE s[i + 1] \in S
    <3> DEFINE t == f[i]
               k0 == Len(t) + 1
    <3>1. f[i + 1] = Append(t, s[i + 1])
      BY <2>3, <2>5 DEF KeepStep
    <3>2. s[i + 1] \in U
      BY <1>1, <2>1
    <3>3. /\ f[i + 1] \in Seq(U) /\ k0 \in Nat /\ DOMAIN t = 1..Len(t) /\ Len(t) \in Nat
          /\ DOMAIN f[i + 1] = 1..k0 /\ f[i + 1][k0] = s[i + 1]
          /\ \A k \in DOMAIN t : f[i + 1][k] = t[k]
      BY <2>2, <3>1, <3>2, AppendProperties, LenProperties
    <3> HIDE DEF t, k0
    <3>4. \A k \in DOMAIN f[i + 1] : k = k0 \/ k \in DOMAIN t
      BY <3>3 DEF k0
    <3>5. \A m \in 1..i : m \in 1..(i + 1) /\ m < i + 1
      OBVIOUS
    <3>6. i + 1 \in 1..(i + 1)
      OBVIOUS
    <3>7. Thinned(t, s, i)
      BY <2>2 DEF t
    <3>8. \A k \in DOMAIN f[i + 1] : \E m \in 1..(i + 1) : f[i + 1][k] = s[m]
      <4>1. SUFFICES ASSUME NEW k \in DOMAIN f[i + 1]
                     PROVE  \E m \in 1..(i + 1) : f[i + 1][k] = s[m]
        OBVIOUS
      <4>2. CASE k = k0
        BY <3>3, <3>6, <4>2
      <4>3. CASE k \in DOMAIN t
        BY <3>3, <3>5, <3>7, <4>3 DEF Thinned
      <4>4. QED
        BY <3>4, <4>2, <4>3
    <3>9. ASSUME NEW k \in DOMAIN f[i + 1], NEW l \in DOMAIN f[i + 1], k < l
          PROVE  \E m, p \in 1..(i + 1) : m < p /\ f[i + 1][k] = s[m] /\ f[i + 1][l] = s[p]
      <4>1. k \in DOMAIN t
        <5>1. k # k0
          BY <3>3, <3>9
        <5>2. QED
          BY <3>4, <5>1
      <4>2. CASE l = k0
        <5>1. PICK m \in 1..i : t[k] = s[m]
          BY <3>7, <4>1 DEF Thinned
        <5>2. f[i + 1][k] = s[m] /\ f[i + 1][l] = s[i + 1]
          BY <3>3, <4>1, <4>2, <5>1
        <5>3. QED
          BY <3>5, <3>6, <5>1, <5>2
      <4>3. CASE l \in DOMAIN t
        <5>1. PICK m \in 1..i, p \in 1..i : m < p /\ t[k] = s[m] /\ t[l] = s[p]
          BY <3>7, <3>9, <4>1, <4>3 DEF Thinned
        <5>2. QED
          BY <3>3, <3>5, <4>1, <4>3, <5>1
      <4>4. QED
        BY <3>4, <4>2, <4>3
    <3>10. QED
      BY <3>3, <3>8, <3>9 DEF Thinned
  <2>6. QED
    BY <2>4, <2>5
<1> HIDE DEF I
<1>6. \A i \in Nat : i \in I
  BY <1>4, <1>5, NaturalsBySteps, Zenon
<1>7. QED
  BY <1>1, <1>2, <1>6 DEF I, n

-----------------------------------------------------------------------------
(* The pass over the rows of a connection                                  *)

StreakStep(r, rows, i, acc) ==
    IF i < Len(rows) /\ StuckPair(r, rows, i)
    THEN [acc EXCEPT !.from = IF @ = NoTime THEN PairStart(r, rows, i) ELSE @]
    ELSE [from |-> NoTime,
          found |-> IF acc.from = NoTime THEN acc.found
                    ELSE acc.found \cup {<<acc.from, Earlier(NativeEnd(r), rows[i].at)>>}]

(* f is the table that the definition of Streaks computes, up to n.        *)
Passed(f, n, r, rows) ==
    f = [i \in 0..n |-> IF i = 0 THEN [from |-> NoTime, found |-> {}]
                        ELSE StreakStep(r, rows, i, f[i - 1])]

(* The table exists.                                                       *)
LEMMA PassedExists == ASSUME NEW r, NEW rows PROVE \A n \in Nat : \E f : Passed(f, n, r, rows)
<1> DEFINE I == {n \in Nat : \E f : Passed(f, n, r, rows)}
           b == [from |-> NoTime, found |-> {}]
<1>1. 0 \in I
  <2>1. Passed([i \in 0..0 |-> b], 0, r, rows)
    BY DEF Passed
  <2>2. QED
    BY <2>1
<1>2. ASSUME NEW n \in Nat, n \in I PROVE n + 1 \in I
  <2>1. PICK f : Passed(f, n, r, rows)
    BY <1>2
  <2> DEFINE last == StreakStep(r, rows, n + 1, f[n])
             g == [i \in 0..(n + 1) |-> IF i = n + 1 THEN last ELSE f[i]]
  <2>2. (\A i \in 0..n : g[i] = f[i]) /\ g[n + 1] = last
    OBVIOUS
  <2> HIDE DEF b
  <2>3. \A i \in 0..n : f[i] = IF i = 0 THEN b ELSE StreakStep(r, rows, i, f[i - 1])
    BY <2>1 DEF Passed, b
  <2>4. ASSUME NEW i \in 0..(n + 1)
        PROVE  g[i] = IF i = 0 THEN b ELSE StreakStep(r, rows, i, g[i - 1])
    <3>1. CASE i = n + 1
      <4>1. i # 0 /\ i - 1 = n /\ n \in 0..n
        BY <3>1
      <4>2. g[n] = f[n]
        BY <2>2, <4>1
      <4>3. QED
        BY <2>2, <3>1, <4>1, <4>2, Zenon
    <3>2. CASE i \in 1..n
      <4>1. i # 0 /\ i \in 0..n /\ i - 1 \in 0..n
        BY <3>2
      <4>2. g[i] = f[i] /\ g[i - 1] = f[i - 1]
        BY <2>2, <4>1
      <4>3. QED
        BY <2>3, <4>1, <4>2, Zenon
    <3>3. CASE i = 0
      BY <2>2, <2>3, <3>3
    <3>4. QED
      BY <3>1, <3>2, <3>3
  <2>5. g = [i \in 0..(n + 1) |-> g[i]]
    OBVIOUS
  <2> HIDE DEF g
  <2>6. Passed(g, n + 1, r, rows)
    BY <2>4, <2>5 DEF Passed, b
  <2>7. QED
    BY <2>6
<1> HIDE DEF I
<1>3. \A n \in Nat : n \in I
  BY <1>1, <1>2, NaturalsBySteps, Zenon
<1>4. QED
  BY <1>3 DEF I

(* Streaks is what the last entry of its table has found.                  *)
LEMMA StreaksIsLast ==
    ASSUME NEW r, NEW rows, Len(rows) \in Nat
    PROVE  \E f : Passed(f, Len(rows), r, rows) /\ Streaks(r, rows) = f[Len(rows)].found
<1> DEFINE f == CHOOSE f : Passed(f, Len(rows), r, rows)
<1>1. Passed(f, Len(rows), r, rows)
  BY PassedExists, Zenon
<1>2. Streaks(r, rows) = f[Len(rows)].found
  BY DEF Streaks, Passed, StreakStep
<1>3. QED
  BY <1>1, <1>2

(* Streaks depends on a run through its window only.                       *)
LEMMA StreaksOfWindow ==
    ASSUME NEW r, NEW q, NEW rows, Len(rows) \in Nat,
           NativeStart(r) = NativeStart(q), NativeEnd(r) = NativeEnd(q)
    PROVE  Streaks(r, rows) = Streaks(q, rows)
<1> DEFINE n == Len(rows)
<1>1. PICK f : Passed(f, n, r, rows) /\ Streaks(r, rows) = f[n].found
  BY StreaksIsLast
<1>2. PICK g : Passed(g, n, q, rows) /\ Streaks(q, rows) = g[n].found
  BY StreaksIsLast
<1>3. \A i, acc : StreakStep(r, rows, i, acc) = StreakStep(q, rows, i, acc)
  BY DEF StreakStep, StuckPair, PairStart, PairEnd
<1> DEFINE I == {i \in Nat : i <= n => f[i] = g[i]}
<1>4. 0 \in I
  BY <1>1, <1>2 DEF Passed
<1>5. ASSUME NEW i \in Nat, i \in I PROVE i + 1 \in I
  <2>1. SUFFICES ASSUME i + 1 <= n PROVE f[i + 1] = g[i + 1]
    OBVIOUS
  <2>2. i + 1 \in 0..n /\ i + 1 # 0 /\ (i + 1) - 1 = i /\ f[i] = g[i]
    BY <1>5, <2>1
  <2>3. f[i + 1] = StreakStep(r, rows, i + 1, f[i]) /\ g[i + 1] = StreakStep(q, rows, i + 1, g[i])
    BY <1>1, <1>2, <2>2 DEF Passed
  <2>4. QED
    BY <1>3, <2>2, <2>3
<1> HIDE DEF I
<1>6. \A i \in Nat : i \in I
  BY <1>4, <1>5, NaturalsBySteps, Zenon
<1>7. QED
  BY <1>1, <1>2, <1>6 DEF I

-----------------------------------------------------------------------------
(* Late objects                                                            *)

(* With the counters of the horizon and the clocks of the samples, an      *)
(* object after the horizon leaves the verdict as it was.                  *)
LEMMA LateObject ==
    ASSUME NEW r, NEW q, NEW new,
           Len(r.rows) \in Nat, r.rows \in Seq(RowType),
           q.rows = r.rows, q.origins = r.origins, q.wall = r.wall,
           q.horizon = r.horizon, q.counters = r.counters, q.objects = r.objects \cup {new},
           new.at \in Int, new.at > Horizon, r.horizon = TRUE, r.origins # <<>>
    PROVE  ExitStatus(q) = ExitStatus(r)
<1>0. Horizon \in Int
  BY StallAssumption DEF Horizon
<1>1. Complete(q) = Complete(r)
  BY DEF Complete
<1>2. InTime(q) = InTime(r)
  BY <1>0 DEF InTime
<1>3. Eligible(q) = Eligible(r)
  BY <1>0 DEF Eligible
<1>4. PendingEnd(q) = PendingEnd(r)
  BY <1>1, <1>2 DEF PendingEnd
<1>5. Offset(q) = Offset(r)
  BY DEF Offset
<1>6. NativeStart(q) = NativeStart(r) /\ NativeEnd(q) = NativeEnd(r)
  BY <1>4, <1>5 DEF NativeStart, NativeEnd
<1>7. Analyzable(q) = Analyzable(r)
  BY <1>1, <1>2 DEF Analyzable, HasClock
<1>8. ApplicationGaps(q) = ApplicationGaps(r)
  BY <1>3, <1>4 DEF ApplicationGaps
<1>9. NativeGaps(q) = NativeGaps(r)
  BY <1>3, <1>4, <1>5 DEF NativeGaps
<1>10. Connections(q) = Connections(r) /\ \A c : RowsOf(q, c) = RowsOf(r, c)
  BY DEF Connections, RowsOf
<1>11. SenderGaps(q) = SenderGaps(r)
  <2>1. ASSUME NEW c PROVE Streaks(q, RowsOf(q, c)) = Streaks(r, RowsOf(r, c))
    <3>1. Len(RowsOf(r, c)) \in Nat
      <4>1. RowsOf(r, c) \in Seq(RowType)
        BY OnlyThins DEF RowsOf
      <4>2. QED
        BY <4>1, LenProperties
    <3>2. QED
      BY <1>6, <1>10, <3>1, StreaksOfWindow
  <2>2. {Streaks(q, RowsOf(q, c)) : c \in Connections(q)}
            = {Streaks(r, RowsOf(r, c)) : c \in Connections(r)}
    BY <1>10, <2>1
  <2>3. QED
    BY <2>2 DEF SenderGaps
<1>12. \A row : InWindow(q, row) <=> InWindow(r, row)
  BY <1>6 DEF InWindow
<1>13. Decreased(q) <=> Decreased(r)
  BY <1>10, <1>12 DEF Decreased
<1>14. Sparse(q) <=> Sparse(r)
  <2>1. {row \in ToSet(q.rows) : InWindow(q, row)} = {row \in ToSet(r.rows) : InWindow(r, row)}
    BY <1>12
  <2>2. QED
    BY <1>4, <1>6, <2>1 DEF Sparse
<1>15. Candidates(q) = Candidates(r)
  BY <1>8, <1>9, <1>11 DEF Candidates
<1>16. QED
  BY <1>7, <1>13, <1>14, <1>15 DEF ExitStatus

(* "Post-horizon events never extend progress."                            *)
THEOREM LateObjectsAreIgnored == Spec => LateObjectsChangeNothing
<1> DEFINE Step ==
        tool = "stalls" /\ log.horizon /\ log.origins # <<>>
        /\ (\E e \in log'.objects \ log.objects : e.at > Horizon)
        => ExitStatus(log') = ExitStatus(log)
<1>1. LogOK /\ [Next]_vars => [Step]_vars
  <2>1. SUFFICES ASSUME LogOK, Next, tool = "stalls", log.horizon, log.origins # <<>>,
                        NEW e \in log'.objects \ log.objects, e.at > Horizon
                 PROVE  ExitStatus(log') = ExitStatus(log)
    OBVIOUS
  <2>2. StallLog(log) /\ log \in StallRun
    BY <2>1 DEF LogOK, StallLog
  <2>3. ~MetricsRow
    <3>1. MetricsRow => log'.objects = log.objects
      BY <2>2 DEF MetricsRow, StallRun
    <3>2. QED
      BY <2>1, <3>1
  <2>4. ObjectEvent
    BY <2>1, <2>3 DEF Next, Uses, Gaussian, Envelope, Counter, Case, Frame, Capture, MetricLine,
                      Delivery, Update
  <2>5. \E at \in (Started + 1)..(Horizon + 1) : \E native :
            log' = [log EXCEPT !.objects = @ \cup {[at |-> at, native |-> native]}]
    BY <2>4 DEF ObjectEvent
  <2>6. PICK at \in (Started + 1)..(Horizon + 1) : \E native :
            log' = [log EXCEPT !.objects = @ \cup {[at |-> at, native |-> native]}]
    BY <2>5
  <2>7. PICK native : log' = [log EXCEPT !.objects = @ \cup {[at |-> at, native |-> native]}]
    BY <2>6
  <2> DEFINE new == [at |-> at, native |-> native]
  <2>8. /\ log'.objects = log.objects \cup {new} /\ log'.rows = log.rows
        /\ log'.origins = log.origins /\ log'.wall = log.wall
        /\ log'.horizon = log.horizon /\ log'.counters = log.counters
    BY <2>2, <2>7 DEF StallRun
  <2>9. e = new /\ new.at = at /\ at \in Int
    BY <2>1, <2>8, StallAssumption DEF Horizon
  <2>10. log.horizon = TRUE /\ log.rows \in Seq(RowType) /\ Len(log.rows) \in Nat
    BY <2>1, <2>2, LenProperties DEF StallRun
  <2> HIDE DEF new
  <2>11. QED
    BY <2>1, <2>8, <2>9, <2>10, LateObject
<1>2. QED
  BY <1>1, LogTypes, PTL DEF Spec, LateObjectsChangeNothing

-----------------------------------------------------------------------------
(* The largest of some integers, and the smallest                          *)

(* A set of integers with a bound has a largest member.                    *)
LEMMA HasLargest ==
    ASSUME NEW S \in SUBSET Int, S # {}, NEW b \in Int, \A x \in S : x <= b
    PROVE  \E m \in S : \A x \in S : x <= m
<1> DEFINE Goal == \E m \in S : \A x \in S : x <= m
           I == {n \in Nat : (\E x \in S : x >= b - n) => Goal}
<1>1. 0 \in I
  OBVIOUS
<1>2. ASSUME NEW n \in Nat, n \in I PROVE n + 1 \in I
  <2>1. SUFFICES ASSUME NEW y \in S, y >= b - (n + 1) PROVE Goal
    OBVIOUS
  <2>2. CASE \E x \in S : x >= b - n
    BY <1>2, <2>2
  <2>3. CASE ~ \E x \in S : x >= b - n
    <3>1. \A x \in S : x <= y
      BY <2>1, <2>3
    <3>2. QED
      BY <3>1
  <2>4. QED
    BY <2>2, <2>3
<1> HIDE DEF I
<1>3. \A n \in Nat : n \in I
  BY <1>1, <1>2, NaturalsBySteps, Zenon
<1>4. PICK x \in S : TRUE
  OBVIOUS
<1>5. b - x \in Nat /\ x >= b - (b - x)
  BY <1>4
<1>6. QED
  BY <1>3, <1>4, <1>5 DEF I

(* One bounded from below has a smallest.                                  *)
LEMMA HasSmallest ==
    ASSUME NEW S \in SUBSET Int, S # {}, NEW b \in Int, \A x \in S : b <= x
    PROVE  \E m \in S : \A x \in S : m <= x
<1> DEFINE T == {-x : x \in S}
<1>1. T \in SUBSET Int /\ T # {} /\ \A y \in T : y <= -b
  <2>1. \A x \in S : -x \in Int /\ -x <= -b
    OBVIOUS
  <2>2. T # {}
    OBVIOUS
  <2>3. QED
    BY <2>1, <2>2
<1>2. PICK m \in T : \A y \in T : y <= m
  <2> HIDE DEF T
  <2>1. -b \in Int
    OBVIOUS
  <2>2. QED
    BY <1>1, <2>1, HasLargest
<1>3. -m \in S /\ \A x \in S : -x \in T
  BY <1>2
<1> HIDE DEF T
<1>4. QED
  BY <1>1, <1>2, <1>3

(* Latest is the largest.                                                  *)
LEMMA LatestIsLargest ==
    ASSUME NEW S \in SUBSET Int, S # {}, NEW b \in Int, \A x \in S : x <= b
    PROVE  Latest(S) \in S /\ \A x \in S : x <= Latest(S)
BY HasLargest DEF Latest

-----------------------------------------------------------------------------
(* The window of a run                                                     *)

(* The only sample is the median.                                          *)
LEMMA MedianOfOne == Median(<<0>>) = 0
<1>1. Len(<<0>>) = 1 /\ DOMAIN <<0>> = {1} /\ <<0>>[1] = 0 /\ 1 % 2 = 1 /\ (1 + 1) \div 2 = 1
  OBVIOUS
<1>2. ToSet(<<0>>) = {0}
  BY <1>1 DEF ToSet
<1>3. {i \in DOMAIN <<0>> : <<0>>[i] < 0} = {} /\ {i \in DOMAIN <<0>> : <<0>>[i] <= 0} = {1}
  BY <1>1
<1>4. Cardinality({}) = 0 /\ Cardinality({1}) = 1
  BY FS_EmptySet, FS_Singleton
<1>5. Ranked(<<0>>, 1) \in {0}
  <2>1. \E v \in {0} : /\ Cardinality({i \in DOMAIN <<0>> : <<0>>[i] < v}) < 1
                       /\ 1 <= Cardinality({i \in DOMAIN <<0>> : <<0>>[i] <= v})
    BY <1>3, <1>4
  <2>2. QED
    BY <1>2, <2>1 DEF Ranked
<1>6. QED
  BY <1>1, <1>5 DEF Median

(* The guest's clock is known wherever there is one.                       *)
LEMMA OffsetIsKnown ==
    ASSUME NEW r, StallLog(r), HasClock(r) PROVE Offset(r) \in Int
<1>1. r \in StallRun
  BY DEF StallLog
<1>2. CASE r.origins # <<>>
  <2>1. r.origins = <<0>> /\ r.wall = 1
    BY <1>1, <1>2 DEF StallRun
  <2>2. QED
    BY <1>2, <2>1, MedianOfOne DEF Offset
<1>3. CASE r.origins = <<>>
  <2>1. Anchors(r) # {} /\ Offset(r) = Latest(Anchors(r))
    BY <1>3 DEF HasClock, Offset
  <2>2. \A e \in r.objects : e.at \in Int /\ e.native \in Int
    BY <1>1 DEF StallRun
  <2>3. Anchors(r) \subseteq Int /\ \A x \in Anchors(r) : x <= 1
    BY <2>2 DEF Anchors, StallLog
  <2>4. Latest(Anchors(r)) \in Anchors(r)
    <3>1. 1 \in Int
      OBVIOUS
    <3>2. QED
      BY <2>1, <2>3, <3>1, LatestIsLargest
  <2>5. QED
    BY <2>1, <2>3, <2>4
<1>4. QED
  BY <1>2, <1>3

(* So is the end of the transfer.                                          *)
LEMMA PendingEndIsKnown ==
    ASSUME NEW r, StallLog(r), Analyzable(r) PROVE PendingEnd(r) \in Int
<1>1. r \in StallRun
  BY DEF StallLog
<1>2. Horizon \in Int /\ Started \in Int
  BY StallAssumption DEF Horizon
<1>3. CASE Complete(r)
  <2>1. InTime(r) # {} /\ InTime(r) \subseteq Int /\ \A x \in InTime(r) : x <= Horizon
    BY <1>1, <1>3 DEF Analyzable, InTime, StallRun
  <2>2. Latest(InTime(r)) \in Int
    BY <1>2, <2>1, LatestIsLargest
  <2>3. QED
    BY <1>2, <1>3, <2>2 DEF PendingEnd, Later
<1>4. CASE ~Complete(r)
  BY <1>2, <1>4 DEF PendingEnd
<1>5. QED
  BY <1>3, <1>4

-----------------------------------------------------------------------------
(* No gap, no stall                                                        *)

(* Where no gap between the points of a window is long, no part of it as   *)
(* long as the threshold is without one.                                   *)
LEMMA NoLongGap ==
    ASSUME NEW P \in SUBSET Int, NEW from \in Int, NEW to \in Int,
           NEW t \in from..(to - Threshold),
           \A g \in Gaps(P, from, to) : ~Long(g)
    PROVE  \E p \in P : t < p /\ p < t + Threshold
<1>0. /\ Threshold \in Nat /\ Threshold > 0 /\ t \in Int /\ from <= t
      /\ t <= to - Threshold /\ t < to
  BY StallAssumption
<1> DEFINE sel == {from, to} \cup {p \in P : from <= p /\ p <= to}
           low == {p \in sel : p <= t}
           high == {p \in sel : t < p}
<1>1. sel \subseteq Int /\ from \in low /\ to \in high
  <2>1. sel \subseteq Int /\ from \in sel /\ to \in sel
    OBVIOUS
  <2> HIDE DEF sel
  <2>2. QED
    BY <1>0, <2>1
<1>2. PICK a \in low : \A x \in low : x <= a
  <2>1. low \in SUBSET Int /\ low # {} /\ \A x \in low : x <= t
    BY <1>1
  <2> HIDE DEF low
  <2>2. QED
    BY <1>0, <2>1, HasLargest
<1>3. PICK b \in high : \A x \in high : b <= x
  <2>1. high \in SUBSET Int /\ high # {} /\ \A x \in high : t <= x
    <3>1. \A x \in high : x \in Int /\ t < x
      BY <1>1
    <3> HIDE DEF high
    <3>2. QED
      BY <1>0, <1>1, <3>1
  <2> HIDE DEF high
  <2>2. QED
    BY <1>0, <2>1, HasSmallest
<1>4. a \in sel /\ b \in sel /\ a \in Int /\ b \in Int /\ a <= t /\ t < b
  BY <1>1, <1>2, <1>3
<1>5. ~ \E p \in sel : a < p /\ p < b
  <2>1. SUFFICES ASSUME NEW p \in sel, a < p, p < b PROVE FALSE
    OBVIOUS
  <2>2. p \in Int /\ (p \in low \/ p \in high)
    BY <1>1
  <2> HIDE DEF sel, low, high
  <2>3. QED
    BY <1>2, <1>3, <1>4, <2>1, <2>2
<1>6. <<a, b>> \in Gaps(P, from, to)
  <2>1. <<a, b>> \in sel \X sel /\ <<a, b>>[1] = a /\ <<a, b>>[2] = b
    BY <1>4
  <2>2. a < b
    BY <1>4
  <2>3. Gaps(P, from, to) =
            {g \in sel \X sel : g[1] < g[2] /\ ~ \E p \in sel : g[1] < p /\ p < g[2]}
    BY DEF Gaps
  <2> HIDE DEF sel
  <2>4. QED
    BY <1>5, <2>1, <2>2, <2>3
<1>7. b - a < Threshold
  BY <1>0, <1>4, <1>6 DEF Long
<1>8. b # to
  BY <1>0, <1>4, <1>7
<1>9. b # from
  BY <1>4
<1>10. b \in P
  BY <1>4, <1>8, <1>9
<1>11. QED
  BY <1>0, <1>4, <1>7, <1>10

(* What a pass makes of a row.                                             *)
AccType == [from : Int, found : SUBSET (Int \X Int)]
RowsInOrder(rows) ==
    /\ rows \in Seq(RowType)
    /\ \A i \in 1..Len(rows) :
          /\ rows[i].at > NoTime
          /\ \A j \in 1..Len(rows) : i < j => rows[i].at < rows[j].at

(* A pass keeps the type of what it accumulates, and the beginning of a    *)
(* streak lies before the row that is looked at.                           *)
LEMMA StreakStepType ==
    ASSUME NEW r, NEW rows, RowsInOrder(rows), NativeStart(r) \in Int, NativeEnd(r) \in Int,
           NEW i \in 1..Len(rows), NEW acc \in AccType,
           NEW new, new = StreakStep(r, rows, i, acc)
    PROVE  /\ new \in AccType
           /\ i < Len(rows) /\ StuckPair(r, rows, i) =>
                 /\ new.found = acc.found
                 /\ new.from = IF acc.from = NoTime THEN PairStart(r, rows, i) ELSE acc.from
                 /\ new.from # NoTime
           /\ ~(i < Len(rows) /\ StuckPair(r, rows, i)) =>
                 /\ new.from = NoTime
                 /\ acc.found \subseteq new.found
                 /\ acc.from # NoTime => <<acc.from, Earlier(NativeEnd(r), rows[i].at)>> \in new.found
<1>1. Len(rows) \in Nat /\ rows[i] \in RowType
  BY LenProperties, ElementOfSeq DEF RowsInOrder
<1>2. rows[i].at \in Int /\ rows[i].at > NoTime /\ NoTime \in Int
  BY <1>1, StallAssumption DEF RowType, RowsInOrder
<1>3. CASE i < Len(rows) /\ StuckPair(r, rows, i)
  <2>1. new = [acc EXCEPT !.from = IF @ = NoTime THEN PairStart(r, rows, i) ELSE @]
    BY <1>3 DEF StreakStep
  <2>2. PairStart(r, rows, i) \in Int /\ PairStart(r, rows, i) # NoTime
    BY <1>2 DEF PairStart, Later
  <2>3. new.from = IF acc.from = NoTime THEN PairStart(r, rows, i) ELSE acc.from
    BY <2>1 DEF AccType
  <2>4. new.found = acc.found /\ new \in AccType
    BY <2>1, <2>2 DEF AccType
  <2>5. QED
    BY <1>3, <2>2, <2>3, <2>4
<1>4. CASE ~(i < Len(rows) /\ StuckPair(r, rows, i))
  <2> DEFINE e == Earlier(NativeEnd(r), rows[i].at)
  <2>1. new = [from |-> NoTime,
               found |-> IF acc.from = NoTime THEN acc.found ELSE acc.found \cup {<<acc.from, e>>}]
    BY <1>4 DEF StreakStep
  <2>2. e \in Int
    BY <1>2 DEF Earlier
  <2> HIDE DEF e
  <2>3. acc.found \in SUBSET (Int \X Int) /\ acc.from \in Int
    BY DEF AccType
  <2>4. new \in AccType
    BY <1>2, <2>1, <2>2, <2>3 DEF AccType
  <2>5. QED
    BY <1>4, <2>1, <2>4 DEF e
<1>5. QED
  BY <1>3, <1>4

(* Wherever a connection was stuck from row i to row j, a streak covers    *)
(* the part of the window between the two.                                 *)
LEMMA StreakCovers ==
    ASSUME NEW r, NEW rows, RowsInOrder(rows), NativeStart(r) \in Int, NativeEnd(r) \in Int,
           NEW i \in 1..Len(rows), NEW j \in 1..Len(rows), i < j, Stuck(rows, i, j),
           Later(NativeStart(r), rows[i].at) < Earlier(NativeEnd(r), rows[j].at)
    PROVE  \E g \in Streaks(r, rows) :
              /\ g[1] \in Int /\ g[2] \in Int
              /\ g[1] <= Later(NativeStart(r), rows[i].at)
              /\ Earlier(NativeEnd(r), rows[j].at) <= g[2]
<1> DEFINE n == Len(rows)
           a(k) == rows[k].at
           NS == NativeStart(r)
           NE == NativeEnd(r)
           L == Later(NS, a(i))
           R == Earlier(NE, a(j))
<1>1. n \in Nat /\ \A k \in 1..n : rows[k] \in RowType
  BY LenProperties, ElementOfSeq DEF RowsInOrder
<1>2. /\ NoTime \in Int /\ NS \in Int /\ NE \in Int
      /\ \A k \in 1..n : a(k) \in Int /\ a(k) > NoTime
      /\ \A k, l \in 1..n : k < l => a(k) < a(l)
  BY <1>1, StallAssumption DEF RowsInOrder, RowType
<1>3. PICK f : Passed(f, n, r, rows) /\ Streaks(r, rows) = f[n].found
  BY <1>1, StreaksIsLast
<1>4. f[0] = [from |-> NoTime, found |-> {}]
      /\ \A k \in 1..n : f[k] = StreakStep(r, rows, k, f[k - 1])
  <2>1. \A k \in 0..n : f[k] = IF k = 0 THEN [from |-> NoTime, found |-> {}]
                               ELSE StreakStep(r, rows, k, f[k - 1])
    BY <1>3 DEF Passed
  <2>2. 0 \in 0..n /\ \A k \in 1..n : k \in 0..n /\ k # 0
    BY <1>1
  <2>3. QED
    BY <2>1, <2>2
<1> DEFINE Covered(acc, k) ==
        \/ acc.from # NoTime /\ acc.from <= L
        \/ \E g \in acc.found : g[1] <= L /\ R <= g[2] /\ (k >= j \/ a(k) >= NE)
           next(k) == IF k + 1 <= j THEN k + 1 ELSE j
           Good(acc, k) ==
        /\ acc \in AccType
        /\ acc.from # NoTime => k >= 1 /\ acc.from <= Later(NS, a(k))
        /\ k >= i /\ Earlier(NE, a(next(k))) > L => Covered(acc, k)
           pairOf(k) == k < n /\ StuckPair(r, rows, k)
<1>5. \A k \in 1..n, acc \in AccType : \A new : new = StreakStep(r, rows, k, acc) =>
          /\ new \in AccType
          /\ pairOf(k) =>
                /\ new.found = acc.found
                /\ new.from = IF acc.from = NoTime THEN Later(NS, a(k)) ELSE acc.from
                /\ new.from # NoTime
          /\ ~pairOf(k) =>
                /\ new.from = NoTime
                /\ acc.found \subseteq new.found
                /\ acc.from # NoTime => <<acc.from, Earlier(NE, a(k))>> \in new.found
  BY StreakStepType DEF PairStart
<1>6. \A k \in i..(j - 1) : pairOf(k) <=> Earlier(NE, a(k + 1)) > Later(NS, a(k))
  <2>1. \A k \in i..(j - 1) : k < n /\ rows[k].pending /\ rows[k].sent = rows[k + 1].sent
    BY <1>1 DEF Stuck
  <2>2. QED
    BY <2>1 DEF StuckPair, PairStart, PairEnd
<1>7. i \in 1..n /\ j \in 1..n /\ i < j /\ L < R
  OBVIOUS
<1> HIDE DEF n, a, NS, NE, pairOf
<1>8. L \in Int /\ R \in Int /\ NS <= L /\ a(i) <= L /\ R <= NE /\ R <= a(j)
      /\ (L = NS \/ L = a(i)) /\ (R = NE \/ R = a(j))
  BY <1>2, <1>7 DEF Later, Earlier
<1> HIDE DEF L, R
<1> DEFINE I == {k \in Nat : k <= n => Good(f[k], k)}
<1>9. 0 \in I
  <2>1. f[0] \in AccType /\ f[0].from = NoTime
    BY <1>2, <1>4 DEF AccType
  <2>2. QED
    BY <1>1, <1>7, <2>1
<1>10. ASSUME NEW p \in Nat, p \in I PROVE p + 1 \in I
  <2> DEFINE q == p + 1
             acc == f[p]
             new == f[q]
  <2>1. SUFFICES ASSUME q <= n PROVE Good(new, q)
    OBVIOUS
  <2>2. Good(acc, p) /\ q \in 1..n /\ q \in Int /\ q - 1 = p /\ q >= 1
    BY <1>1, <1>10, <2>1
  <2>3. acc \in AccType /\ new = StreakStep(r, rows, q, acc)
    BY <1>4, <2>2
  <2>8. acc.from # NoTime => p \in 1..n /\ p < q /\ acc.from <= Later(NS, a(p))
    <3>1. acc.from # NoTime => p >= 1 /\ acc.from <= Later(NS, a(p))
      BY <2>2
    <3>2. p >= 1 => p \in 1..n /\ p < q
      BY <1>1, <2>2
    <3>3. QED
      BY <3>1, <3>2
  <2>9. p >= i /\ Earlier(NE, a(next(p))) > L => Covered(acc, p)
    BY <2>2
  <2> HIDE DEF acc, new, q, Good, Covered
  <2>4. new \in AccType
    BY <1>5, <2>2, <2>3
  <2>5. pairOf(q) => /\ new.found = acc.found
                     /\ new.from = IF acc.from = NoTime THEN Later(NS, a(q)) ELSE acc.from
                     /\ new.from # NoTime
    BY <1>5, <2>2, <2>3
  <2>6. ~pairOf(q) => /\ new.from = NoTime
                      /\ acc.found \subseteq new.found
                      /\ acc.from # NoTime => <<acc.from, Earlier(NE, a(q))>> \in new.found
    BY <1>5, <2>2, <2>3
  <2>7. acc.from \in Int /\ new.from \in Int /\ acc.found \subseteq Int \X Int
        /\ new.found \subseteq Int \X Int
    BY <2>3, <2>4 DEF AccType
  <2>10. acc.from # NoTime => acc.from <= Later(NS, a(q))
    BY <1>2, <2>2, <2>7, <2>8 DEF Later
  <2>11. new.from # NoTime => new.from <= Later(NS, a(q))
    BY <1>2, <2>2, <2>5, <2>6, <2>7, <2>10 DEF Later
  <2>12. ASSUME q >= i, Earlier(NE, a(next(q))) > L PROVE Covered(new, q)
    <3>1. CASE q < j
      <4>1. q \in i..(j - 1) /\ q + 1 \in 1..n /\ next(q) = q + 1
        BY <1>1, <1>7, <2>2, <2>12, <3>1
      <4>2. a(q) < a(q + 1) /\ a(q) \in Int /\ a(q + 1) \in Int
        BY <1>2, <2>2, <4>1
      <4>3. NE > L /\ a(q + 1) > L
        BY <1>2, <1>8, <2>12, <4>1, <4>2 DEF Earlier
      <4>4. q > i => p >= i /\ next(p) = q
        BY <1>7, <2>2, <3>1
      <4>5. CASE pairOf(q)
        <5>1. a(q) < NE
          BY <1>2, <1>6, <4>1, <4>2, <4>5 DEF Earlier, Later
        <5>2. CASE q > i /\ Earlier(NE, a(q)) > L
          <6>1. Covered(acc, p)
            BY <2>9, <4>4, <5>2
          <6>2. ~(p >= j) /\ ~(a(p) >= NE)
            <7>1. p \in 1..n /\ p < q
              BY <1>1, <1>7, <2>2, <4>4, <5>2
            <7>2. a(p) < a(q) /\ a(p) \in Int
              BY <1>2, <2>2, <7>1
            <7>3. QED
              BY <1>2, <1>7, <2>2, <3>1, <4>2, <5>1, <7>2
          <6>3. acc.from # NoTime /\ acc.from <= L
            BY <6>1, <6>2 DEF Covered
          <6>4. QED
            BY <2>5, <4>5, <6>3 DEF Covered
        <5>3. CASE ~(q > i /\ Earlier(NE, a(q)) > L)
          <6>1. a(q) <= L
            <7>1. CASE q = i
              BY <1>8, <7>1
            <7>2. CASE q > i
              BY <1>2, <1>8, <4>2, <4>3, <5>3, <7>2 DEF Earlier
            <7>3. QED
              BY <1>7, <2>2, <2>12, <7>1, <7>2
          <6>2. Later(NS, a(q)) <= L
            BY <1>2, <1>8, <4>2, <6>1 DEF Later
          <6>3. new.from <= L
            BY <1>2, <1>8, <2>7, <2>11, <2>5, <4>2, <4>5, <6>2 DEF Later
          <6>4. QED
            BY <2>5, <4>5, <6>3 DEF Covered
        <5>4. QED
          BY <5>2, <5>3
      <4>6. CASE ~pairOf(q)
        <5>1. a(q) >= NE
          <6>1. ~(Earlier(NE, a(q + 1)) > Later(NS, a(q)))
            BY <1>6, <4>1, <4>6
          <6>2. Earlier(NE, a(q + 1)) > L /\ Earlier(NE, a(q + 1)) \in Int
            BY <1>2, <2>12, <4>1, <4>2 DEF Earlier
          <6>3. Earlier(NE, a(q + 1)) <= a(q)
            BY <1>2, <1>8, <4>2, <6>1, <6>2 DEF Later
          <6>4. QED
            BY <1>2, <4>2, <6>3 DEF Earlier
        <5>2. q > i
          BY <1>2, <1>7, <1>8, <2>2, <2>12, <4>2, <4>3, <5>1
        <5>3. Covered(acc, p)
          BY <1>2, <2>9, <4>2, <4>3, <4>4, <5>1, <5>2 DEF Earlier
        <5>4. CASE acc.from # NoTime /\ acc.from <= L
          <6>1. Earlier(NE, a(q)) = NE
            BY <1>2, <4>2, <5>1 DEF Earlier
          <6>2. <<acc.from, NE>> \in new.found /\ R <= NE
            BY <1>8, <2>6, <4>6, <5>4, <6>1
          <6>3. <<acc.from, NE>>[1] = acc.from /\ <<acc.from, NE>>[2] = NE
            OBVIOUS
          <6>4. QED
            BY <5>1, <5>4, <6>2, <6>3 DEF Covered
        <5>5. CASE ~(acc.from # NoTime /\ acc.from <= L)
          <6>1. \E g \in acc.found : g[1] <= L /\ R <= g[2]
            BY <5>3, <5>5 DEF Covered
          <6>2. QED
            BY <2>6, <4>6, <5>1, <6>1 DEF Covered
        <5>6. QED
          BY <5>4, <5>5
      <4>7. QED
        BY <4>5, <4>6
    <3>2. CASE q >= j
      <4>1. p >= i /\ next(p) = j
        BY <1>1, <1>7, <2>2, <3>2
      <4>2. Earlier(NE, a(j)) > L
        BY <1>7 DEF R
      <4>3. Covered(acc, p)
        BY <2>9, <4>1, <4>2
      <4>4. a(j) <= a(q) /\ a(q) \in Int
        BY <1>2, <1>7, <2>2, <3>2
      <4>5. CASE acc.from # NoTime /\ acc.from <= L
        <5>1. CASE pairOf(q)
          BY <2>5, <4>5, <5>1 DEF Covered
        <5>2. CASE ~pairOf(q)
          <6> DEFINE e == Earlier(NE, a(q))
          <6>1. R <= e
            BY <1>2, <1>7, <1>8, <4>4 DEF Earlier
          <6>2. <<acc.from, e>> \in new.found
            BY <2>6, <4>5, <5>2
          <6> HIDE DEF e
          <6>3. <<acc.from, e>>[1] = acc.from /\ <<acc.from, e>>[2] = e
            OBVIOUS
          <6>4. QED
            BY <3>2, <4>5, <6>1, <6>2, <6>3 DEF Covered
        <5>3. QED
          BY <5>1, <5>2
      <4>6. CASE ~(acc.from # NoTime /\ acc.from <= L)
        <5>1. \E g \in acc.found : g[1] <= L /\ R <= g[2]
          BY <4>3, <4>6 DEF Covered
        <5>2. acc.found \subseteq new.found
          BY <2>5, <2>6
        <5>3. QED
          BY <3>2, <5>1, <5>2 DEF Covered
      <4>7. QED
        BY <4>5, <4>6
    <3>3. QED
      BY <1>7, <2>2, <3>1, <3>2
  <2>13. QED
    BY <2>2, <2>4, <2>11, <2>12 DEF Good
<1> HIDE DEF I
<1>11. \A k \in Nat : k \in I
  BY <1>9, <1>10, NaturalsBySteps, Zenon
<1>12. Good(f[n], n)
  BY <1>1, <1>11 DEF I
<1>13. f[n].from = NoTime
  <2>1. n \in 1..n /\ n - 1 \in Nat /\ ~pairOf(n)
    BY <1>1, <1>7 DEF pairOf
  <2>2. f[n - 1] \in AccType
    BY <1>1, <1>11, <2>1 DEF I
  <2>3. f[n] = StreakStep(r, rows, n, f[n - 1])
    BY <1>4, <2>1
  <2>4. QED
    BY <1>5, <2>1, <2>2, <2>3, Zenon
<1>14. Covered(f[n], n)
  <2>1. n >= i /\ next(n) = j
    BY <1>1, <1>7
  <2>2. Earlier(NE, a(j)) > L
    BY <1>7 DEF R
  <2>3. QED
    BY <1>12, <2>1, <2>2
<1>15. PICK g \in f[n].found : g[1] <= L /\ R <= g[2]
  BY <1>13, <1>14
<1>16. g[1] \in Int /\ g[2] \in Int
  BY <1>12, <1>15 DEF AccType
<1>17. QED
  BY <1>3, <1>15, <1>16 DEF L, R, n, NS, NE, a

(* The rows of a connection are in their order.                            *)
LEMMA RowsOfInOrder ==
    ASSUME NEW r, StallLog(r), NEW c PROVE RowsInOrder(RowsOf(r, c))
<1> DEFINE rows == RowsOf(r, c)
           all == r.rows
<1>1. all \in Seq(RowType) /\ Len(all) \in Nat /\ DOMAIN all = 1..Len(all)
      /\ \A i \in 1..Len(all) : all[i] \in RowType
  <2>1. all \in Seq(RowType)
    BY DEF StallLog, StallRun
  <2>2. QED
    BY <2>1, LenProperties, ElementOfSeq
<1>2. \A i \in 1..Len(all) : all[i].at > NoTime
  <2>1. SUFFICES ASSUME NEW i \in 1..Len(all) PROVE all[i].at > NoTime
    OBVIOUS
  <2>2. Started < all[i].at /\ all[i].at \in Int
    BY <1>1 DEF StallLog, RowType
  <2>3. QED
    BY <2>2, StallAssumption
<1>3. \A i, j \in 1..Len(all) : i < j => all[i].at < all[j].at
  BY <1>1 DEF StallLog
<1>4. rows \in Seq(RowType) /\ Thinned(rows, all, Len(all))
  BY <1>1, OnlyThins DEF RowsOf
<1>5. DOMAIN rows = 1..Len(rows)
  BY <1>4, LenProperties
<1> HIDE DEF rows, all
<1>6. \A i \in 1..Len(rows) : rows[i].at > NoTime
  BY <1>2, <1>4, <1>5 DEF Thinned
<1>7. ASSUME NEW i \in 1..Len(rows), NEW j \in 1..Len(rows), i < j PROVE rows[i].at < rows[j].at
  <2>1. PICK m \in 1..Len(all), p \in 1..Len(all) : m < p /\ rows[i] = all[m] /\ rows[j] = all[p]
    <3>1. i \in DOMAIN rows /\ j \in DOMAIN rows
      BY <1>5
    <3>2. \E m, p \in 1..Len(all) : m < p /\ rows[i] = all[m] /\ rows[j] = all[p]
      BY <1>4, <1>7, <3>1, Zenon DEF Thinned
    <3>3. QED
      BY <3>2
  <2>2. QED
    BY <1>3, <2>1
<1>8. QED
  BY <1>4, <1>6, <1>7 DEF RowsInOrder, rows

(* A run that passes has no stall.                                         *)
LEMMA PassIsStallFree ==
    ASSUME NEW r, StallLog(r), ExitStatus(r) = 0
    PROVE  /\ \A from \in Started..(PendingEnd(r) - Threshold) :
                 \E e \in r.objects : from < e.at /\ e.at < from + Threshold
           /\ \A c \in Connections(r) : \A i, j \in DOMAIN RowsOf(r, c) :
                 i < j /\ Stuck(RowsOf(r, c), i, j) =>
                     Earlier(NativeEnd(r), RowsOf(r, c)[j].at)
                         - Later(NativeStart(r), RowsOf(r, c)[i].at) < Threshold
<1>1. Analyzable(r) /\ Candidates(r) = {}
  BY DEF ExitStatus
<1>2. /\ PendingEnd(r) \in Int /\ Offset(r) \in Int /\ Started \in Int /\ Threshold \in Nat
      /\ Threshold > 0
  BY <1>1, PendingEndIsKnown, OffsetIsKnown, StallAssumption DEF Analyzable
<1>3. NativeStart(r) \in Int /\ NativeEnd(r) \in Int
  BY <1>2 DEF NativeStart, NativeEnd
<1>4. ASSUME NEW from \in Started..(PendingEnd(r) - Threshold)
      PROVE  \E e \in r.objects : from < e.at /\ e.at < from + Threshold
  <2> DEFINE P == {e.at : e \in Eligible(r)}
  <2>1. P \subseteq Int /\ Eligible(r) \subseteq r.objects
    BY DEF Eligible, StallLog, StallRun
  <2>2. \A g \in Gaps(P, Started, PendingEnd(r)) : ~Long(g)
    BY <1>1 DEF Candidates, ApplicationGaps
  <2>3. \E p \in P : from < p /\ p < from + Threshold
    <3> HIDE DEF P
    <3>1. QED
      BY <1>2, <2>1, <2>2, NoLongGap
  <2>4. QED
    BY <2>1, <2>3
<1>5. ASSUME NEW c \in Connections(r), NEW i \in DOMAIN RowsOf(r, c), NEW j \in DOMAIN RowsOf(r, c),
             i < j, Stuck(RowsOf(r, c), i, j)
      PROVE  Earlier(NativeEnd(r), RowsOf(r, c)[j].at)
                 - Later(NativeStart(r), RowsOf(r, c)[i].at) < Threshold
  <2> DEFINE rows == RowsOf(r, c)
             lo == Later(NativeStart(r), rows[i].at)
             hi == Earlier(NativeEnd(r), rows[j].at)
  <2>1. RowsInOrder(rows)
    BY RowsOfInOrder
  <2>2. rows \in Seq(RowType) /\ DOMAIN rows = 1..Len(rows)
    BY <2>1, LenProperties DEF RowsInOrder
  <2> HIDE DEF rows
  <2>3. rows[i].at \in Int /\ rows[j].at \in Int
    <3>1. i \in 1..Len(rows) /\ j \in 1..Len(rows)
      BY <2>2 DEF rows
    <3>2. rows[i] \in RowType /\ rows[j] \in RowType
      BY <2>2, <3>1, ElementOfSeq
    <3>3. QED
      BY <3>2 DEF RowType
  <2>4. lo \in Int /\ hi \in Int
    BY <1>3, <2>3 DEF Later, Earlier
  <2>5. CASE lo < hi
    <3>1. PICK g \in Streaks(r, rows) : g[1] \in Int /\ g[2] \in Int /\ g[1] <= lo /\ hi <= g[2]
      BY <1>3, <1>5, <2>1, <2>2, <2>5, StreakCovers DEF rows
    <3>2. ~Long(g)
      <4>1. g \in UNION {Streaks(r, RowsOf(r, d)) : d \in Connections(r)}
        BY <3>1 DEF rows
      <4>2. QED
        BY <1>1, <4>1 DEF Candidates, SenderGaps
    <3>3. QED
      BY <1>2, <2>4, <3>1, <3>2 DEF Long, rows
  <2>6. CASE ~(lo < hi)
    <3>1. hi - lo < Threshold
      BY <1>2, <2>4, <2>6
    <3>2. QED
      BY <3>1 DEF rows
  <2>7. QED
    BY <2>5, <2>6
<1>6. QED
  BY <1>4, <1>5

(* PASS leaves no room for a stall.                                        *)
THEOREM PassMeansNoStall == Spec => []GateIsSound
<1>1. LogOK => GateIsSound
  BY PassIsStallFree DEF LogOK, GateIsSound
<1>2. QED
  BY <1>1, LogTypes, PTL

-----------------------------------------------------------------------------
(* Sums                                                                    *)

(* f is the table that the definition of Total computes, up to n.          *)
Added(f, n, s) == f = [i \in 0..n |-> IF i = 0 THEN 0 ELSE f[i - 1] + s[i]]

(* The table exists.                                                       *)
LEMMA AddedExists == ASSUME NEW s PROVE \A n \in Nat : \E f : Added(f, n, s)
<1> DEFINE I == {n \in Nat : \E f : Added(f, n, s)}
<1>1. 0 \in I
  <2>1. Added([i \in 0..0 |-> 0], 0, s)
    BY DEF Added
  <2>2. QED
    BY <2>1
<1>2. ASSUME NEW n \in Nat, n \in I PROVE n + 1 \in I
  <2>1. PICK f : Added(f, n, s)
    BY <1>2
  <2> DEFINE last == f[n] + s[n + 1]
             g == [i \in 0..(n + 1) |-> IF i = n + 1 THEN last ELSE f[i]]
  <2>2. (\A i \in 0..n : g[i] = f[i]) /\ g[n + 1] = last
    OBVIOUS
  <2>3. \A i \in 0..n : f[i] = IF i = 0 THEN 0 ELSE f[i - 1] + s[i]
    BY <2>1 DEF Added
  <2>4. ASSUME NEW i \in 0..(n + 1) PROVE g[i] = IF i = 0 THEN 0 ELSE g[i - 1] + s[i]
    <3>1. CASE i = n + 1
      <4>1. i # 0 /\ i - 1 = n /\ n \in 0..n
        BY <3>1
      <4>2. g[n] = f[n]
        BY <2>2, <4>1
      <4>3. QED
        BY <2>2, <3>1, <4>1, <4>2, Zenon
    <3>2. CASE i \in 1..n
      <4>1. i # 0 /\ i \in 0..n /\ i - 1 \in 0..n
        BY <3>2
      <4>2. g[i] = f[i] /\ g[i - 1] = f[i - 1]
        BY <2>2, <4>1
      <4>3. QED
        BY <2>3, <4>1, <4>2, Zenon
    <3>3. CASE i = 0
      BY <2>2, <2>3, <3>3
    <3>4. QED
      BY <3>1, <3>2, <3>3
  <2>5. g = [i \in 0..(n + 1) |-> g[i]]
    OBVIOUS
  <2> HIDE DEF g
  <2>6. Added(g, n + 1, s)
    BY <2>4, <2>5 DEF Added
  <2>7. QED
    BY <2>6
<1> HIDE DEF I
<1>3. \A n \in Nat : n \in I
  BY <1>1, <1>2, NaturalsBySteps, Zenon
<1>4. QED
  BY <1>3 DEF I

(* Partial sums of s.                                                      *)
Sums(f, n, s) ==
    /\ f[0] = 0
    /\ \A i \in 0..n : f[i] \in Int
    /\ \A i \in 1..n : f[i] = f[i - 1] + s[i]

(* Total is the last of the partial sums.                                  *)
LEMMA TotalIsLast ==
    ASSUME NEW s, NEW n \in Nat, Len(s) = n, \A i \in 1..n : s[i] \in Int
    PROVE  \E f : Sums(f, n, s) /\ Total(s) = f[n]
<1> DEFINE f == CHOOSE f : Added(f, Len(s), s)
<1>1. Added(f, Len(s), s)
  BY AddedExists, Zenon
<1>2. Total(s) = f[n]
  BY DEF Total, Added
<1> HIDE DEF f
<1>3. \A i \in 0..n : f[i] = IF i = 0 THEN 0 ELSE f[i - 1] + s[i]
  BY <1>1 DEF Added
<1>4. 0 \in 0..n /\ \A i \in 1..n : i \in 0..n /\ i # 0
  OBVIOUS
<1>5. f[0] = 0 /\ \A i \in 1..n : f[i] = f[i - 1] + s[i]
  BY <1>3, <1>4
<1> DEFINE I == {i \in Nat : i <= n => f[i] \in Int}
<1>6. 0 \in I
  BY <1>5
<1>7. ASSUME NEW i \in Nat, i \in I PROVE i + 1 \in I
  <2>1. SUFFICES ASSUME i + 1 <= n PROVE f[i + 1] \in Int
    OBVIOUS
  <2>2. i + 1 \in 1..n /\ (i + 1) - 1 = i /\ f[i] \in Int
    BY <1>7, <2>1
  <2>3. f[i + 1] = f[i] + s[i + 1]
    BY <1>5, <2>2
  <2>4. QED
    BY <2>2, <2>3
<1> HIDE DEF I
<1>8. \A i \in Nat : i \in I
  BY <1>6, <1>7, NaturalsBySteps, Zenon
<1>9. \A i \in 0..n : f[i] \in Int
  BY <1>8 DEF I
<1>10. QED
  BY <1>2, <1>5, <1>9 DEF Sums

(* Sums are added term by term.                                            *)
LEMMA TotalOfSum ==
    ASSUME NEW s, NEW t, NEW u, NEW n \in Nat, Len(s) = n, Len(t) = n, Len(u) = n,
           \A i \in 1..n : t[i] \in Int /\ u[i] \in Int /\ s[i] = t[i] + u[i]
    PROVE  Total(s) = Total(t) + Total(u) /\ Total(t) \in Int /\ Total(u) \in Int
<1>1. \A i \in 1..n : s[i] \in Int
  OBVIOUS
<1>2. PICK f : Sums(f, n, s) /\ Total(s) = f[n]
  BY <1>1, TotalIsLast
<1>3. PICK g : Sums(g, n, t) /\ Total(t) = g[n]
  BY TotalIsLast
<1>4. PICK h : Sums(h, n, u) /\ Total(u) = h[n]
  BY TotalIsLast
<1> DEFINE I == {i \in Nat : i <= n => f[i] = g[i] + h[i]}
<1>5. 0 \in I
  BY <1>2, <1>3, <1>4 DEF Sums
<1>6. ASSUME NEW i \in Nat, i \in I PROVE i + 1 \in I
  <2>1. SUFFICES ASSUME i + 1 <= n PROVE f[i + 1] = g[i + 1] + h[i + 1]
    OBVIOUS
  <2>2. i \in 0..n /\ i + 1 \in 1..n /\ (i + 1) - 1 = i /\ f[i] = g[i] + h[i]
    BY <1>6, <2>1
  <2>3. f[i + 1] = f[i] + s[i + 1] /\ g[i + 1] = g[i] + t[i + 1] /\ h[i + 1] = h[i] + u[i + 1]
        /\ g[i] \in Int /\ h[i] \in Int
    BY <1>2, <1>3, <1>4, <2>2 DEF Sums
  <2>4. s[i + 1] = t[i + 1] + u[i + 1] /\ t[i + 1] \in Int /\ u[i + 1] \in Int
    BY <2>2
  <2>5. QED
    BY <2>2, <2>3, <2>4
<1> HIDE DEF I
<1>7. \A i \in Nat : i \in I
  BY <1>5, <1>6, NaturalsBySteps, Zenon
<1>8. f[n] = g[n] + h[n] /\ n \in 0..n
  BY <1>7 DEF I
<1>9. QED
  BY <1>2, <1>3, <1>4, <1>8 DEF Sums

(* Where nothing is negative, the sum is at least each of its terms, and   *)
(* it is 0 where there is nothing.                                         *)
LEMMA TotalOfNaturals ==
    ASSUME NEW s, NEW n \in Nat, Len(s) = n, \A i \in 1..n : s[i] \in Nat
    PROVE  /\ Total(s) \in Nat
           /\ \A i \in 1..n : s[i] <= Total(s)
           /\ (\A i \in 1..n : s[i] = 0) => Total(s) = 0
<1>1. \A i \in 1..n : s[i] \in Int
  OBVIOUS
<1>2. PICK f : Sums(f, n, s) /\ Total(s) = f[n]
  BY <1>1, TotalIsLast
<1> DEFINE Fine(i) == /\ f[i] \in Nat
                      /\ \A j \in 1..i : s[j] <= f[i]
                      /\ (\A j \in 1..i : s[j] = 0) => f[i] = 0
           I == {i \in Nat : i <= n => Fine(i)}
<1>3. 0 \in I
  BY <1>2 DEF Sums
<1>4. ASSUME NEW i \in Nat, i \in I PROVE i + 1 \in I
  <2>1. SUFFICES ASSUME i + 1 <= n PROVE Fine(i + 1)
    OBVIOUS
  <2>2. i + 1 \in 1..n /\ (i + 1) - 1 = i /\ Fine(i)
    BY <1>4, <2>1
  <2>3. f[i + 1] = f[i] + s[i + 1] /\ s[i + 1] \in Nat
    BY <1>2, <2>2 DEF Sums
  <2>4. \A j \in 1..(i + 1) : (j = i + 1 \/ j \in 1..i) /\ s[j] \in Nat
    BY <2>1
  <2>5. \A j \in 1..i : j \in 1..(i + 1)
    OBVIOUS
  <2>6. i + 1 \in 1..(i + 1)
    OBVIOUS
  <2>7. QED
    BY <2>2, <2>3, <2>4, <2>5, <2>6
<1> HIDE DEF I
<1>5. \A i \in Nat : i \in I
  BY <1>3, <1>4, NaturalsBySteps, Zenon
<1>6. Fine(n)
  BY <1>5 DEF I
<1>7. QED
  BY <1>2, <1>6

(* The sum of one term more.                                               *)
LEMMA TotalOfOneMore ==
    ASSUME NEW s, NEW t, NEW n \in Nat, Len(s) = n + 1, Len(t) = n,
           \A i \in 1..(n + 1) : s[i] \in Int, \A i \in 1..n : s[i] = t[i]
    PROVE  Total(s) = Total(t) + s[n + 1]
<1>1. n + 1 \in Nat /\ \A i \in 1..n : t[i] \in Int
  <2>1. \A i \in 1..n : i \in 1..(n + 1)
    OBVIOUS
  <2>2. QED
    BY <2>1
<1>2. PICK f : Sums(f, n + 1, s) /\ Total(s) = f[n + 1]
  BY <1>1, TotalIsLast
<1>3. PICK g : Sums(g, n, t) /\ Total(t) = g[n]
  BY <1>1, TotalIsLast
<1> DEFINE I == {i \in Nat : i <= n => f[i] = g[i]}
<1>4. 0 \in I
  BY <1>2, <1>3 DEF Sums
<1>5. ASSUME NEW i \in Nat, i \in I PROVE i + 1 \in I
  <2>1. SUFFICES ASSUME i + 1 <= n PROVE f[i + 1] = g[i + 1]
    OBVIOUS
  <2>2. i + 1 \in 1..n /\ i + 1 \in 1..(n + 1) /\ (i + 1) - 1 = i /\ f[i] = g[i]
    BY <1>5, <2>1
  <2>3. f[i + 1] = f[i] + s[i + 1] /\ g[i + 1] = g[i] + t[i + 1]
    BY <1>2, <1>3, <2>2 DEF Sums
  <2>4. QED
    BY <2>2, <2>3
<1> HIDE DEF I
<1>6. \A i \in Nat : i \in I
  BY <1>4, <1>5, NaturalsBySteps, Zenon
<1>7. f[n] = g[n]
  BY <1>6 DEF I
<1>8. n + 1 \in 1..(n + 1) /\ (n + 1) - 1 = n
  OBVIOUS
<1>9. f[n + 1] = f[n] + s[n + 1]
  BY <1>2, <1>8 DEF Sums
<1>10. QED
  BY <1>2, <1>3, <1>7, <1>9

-----------------------------------------------------------------------------
(* The table of cases                                                      *)

(* Accepted cases and missing ones make up the table.                      *)
LEMMA TableIsComplete ==
    ASSUME NEW cases \in Seq(CaseType), Loaded(cases)
    PROVE  Len(cases) + Cardinality(MissingComparisons(cases))
               = 2 * Cardinality({cases[i].rate : i \in DOMAIN cases})
<1> DEFINE D == DOMAIN cases
           R == {cases[i].rate : i \in D}
           P == R \X {"reno", "prague"}
           key(i) == <<cases[i].rate, cases[i].controller>>
           Present == {key(i) : i \in D}
<1>1. D = 1..Len(cases) /\ Len(cases) \in Nat /\ \A i \in D : cases[i] \in CaseType
  BY LenProperties, ElementOfSeq
<1>2. IsFiniteSet(D) /\ Cardinality(D) = Len(cases)
  BY <1>1, FS_Interval
<1>3. /\ IsFiniteSet(Present) /\ Cardinality(Present) = Len(cases)
  <2> DEFINE F == [i \in D |-> key(i)]
  <2>1. \A i, j \in D : key(i) = key(j) => i = j
    <3>1. \A i, j \in D : Identifier(cases[i]) = Identifier(cases[j]) => i = j
      BY DEF Loaded
    <3>2. QED
      BY <3>1 DEF Identifier
  <2>2. F \in Bijection(D, Present)
    <3>1. F \in [D -> Present]
      OBVIOUS
    <3>2. \A i, j \in D : F[i] = F[j] => i = j
      BY <2>1
    <3>3. \A k \in Present : \E i \in D : F[i] = k
      OBVIOUS
    <3>4. QED
      BY <3>1, <3>2, <3>3 DEF Bijection, Injection, IsInjective, Surjection
  <2>3. ExistsBijection(D, Present)
    BY <2>2 DEF ExistsBijection
  <2>4. QED
    BY <1>2, <2>3, FS_Bijection
<1>4. IsFiniteSet(R)
  <2>1. R \subseteq {"20mbit", "100mbit"}
    BY <1>1 DEF CaseType
  <2>2. IsFiniteSet({"20mbit"} \cup {"100mbit"})
    BY FS_Singleton, FS_AddElement
  <2>3. {"20mbit"} \cup {"100mbit"} = {"20mbit", "100mbit"}
    OBVIOUS
  <2>4. QED
    BY <2>1, <2>2, <2>3, FS_Subset
<1>5. IsFiniteSet({"reno", "prague"}) /\ Cardinality({"reno", "prague"}) = 2
  <2>1. IsFiniteSet({"reno"}) /\ Cardinality({"reno"}) = 1 /\ "prague" \notin {"reno"}
    BY FS_Singleton
  <2>2. /\ IsFiniteSet({"reno"} \cup {"prague"})
        /\ Cardinality({"reno"} \cup {"prague"}) = Cardinality({"reno"}) + 1
    BY <2>1, FS_AddElement
  <2>3. {"reno"} \cup {"prague"} = {"reno", "prague"}
    OBVIOUS
  <2>4. QED
    BY <2>1, <2>2, <2>3
<1>6. IsFiniteSet(P) /\ Cardinality(P) = Cardinality(R) * 2
  BY <1>4, <1>5, FS_Product
<1>7. MissingComparisons(cases) = P \ Present
  <2>1. ASSUME NEW x \in P
        PROVE  x \in Present <=> \E i \in D : cases[i].rate = x[1] /\ cases[i].controller = x[2]
    <3>1. x = <<x[1], x[2]>>
      OBVIOUS
    <3>2. QED
      BY <3>1
  <2>2. MissingComparisons(cases)
            = {x \in P : ~ \E i \in D : cases[i].rate = x[1] /\ cases[i].controller = x[2]}
    BY DEF MissingComparisons
  <2> HIDE DEF P, Present
  <2>3. QED
    BY <2>1, <2>2
<1>8. P \cap Present = Present
  BY <1>1 DEF CaseType
<1> HIDE DEF P, Present, R
<1>9. Cardinality(P \ Present) = Cardinality(P) - Len(cases)
  <2>1. Cardinality(P \ Present) = Cardinality(P) - Cardinality(P \cap Present)
    BY <1>6, FS_Difference
  <2>2. QED
    BY <1>3, <1>8, <2>1
<1>10. Cardinality(P) \in Nat /\ Cardinality(R) \in Nat
  BY <1>4, <1>6, FS_CardinalityType
<1>11. QED
  BY <1>1, <1>6, <1>7, <1>9, <1>10 DEF R

(* A table of cases says what the cases say.                               *)
LEMMA CasesAgree == ASSUME NEW cases \in Seq(CaseType) PROVE CasesReconcile(cases)
<1>1. SUFFICES ASSUME Loaded(cases) PROVE CasesReconcile(cases)
  BY DEF CasesReconcile
<1>2. \A i \in DOMAIN cases : cases[i] \in CaseType
  BY LenProperties, ElementOfSeq
<1>3. ASSUME NEW i \in DOMAIN cases, DataGaps(cases[i]) = {}
      PROVE  \E d \in cases[i].sampled : cases[i].recordedRate[d] \in {"none", cases[i].rate}
  <2>1. Accepted(cases[i])
    BY <1>1 DEF Loaded
  <2>2. Guest(cases[i]) # "none" /\ Guest(cases[i]) \in cases[i].sampled
    BY <1>3 DEF DataGaps
  <2>3. QED
    BY <2>1, <2>2 DEF Accepted
<1>4. ASSUME NEW controller \in RateComparisons(cases), NEW missing \in MissingComparisons(cases)
      PROVE  missing[2] # controller
  <2>1. SUFFICES ASSUME missing[2] = controller PROVE FALSE
    OBVIOUS
  <2>2. {cases[i].rate : i \in {j \in DOMAIN cases : cases[j].controller = controller}}
            = {"20mbit", "100mbit"}
    BY DEF RateComparisons
  <2>3. /\ missing[1] \in {cases[i].rate : i \in DOMAIN cases}
        /\ ~ \E i \in DOMAIN cases : cases[i].rate = missing[1] /\ cases[i].controller = missing[2]
    BY DEF MissingComparisons
  <2>4. missing[1] \in {"20mbit", "100mbit"}
    BY <1>2, <2>3 DEF CaseType
  <2>5. QED
    BY <2>1, <2>2, <2>3, <2>4
<1>5. QED
  BY <1>1, <1>3, <1>4, TableIsComplete DEF CasesReconcile

-----------------------------------------------------------------------------
(* Rates                                                                   *)

(* Max is the largest member of a set, ...                                 *)
LEMMA MaxIs == ASSUME NEW S \in SUBSET Int, NEW m \in S, \A x \in S : x <= m PROVE Max(S) = m
<1>1. \E x \in S : \A y \in S : x >= y
  OBVIOUS
<1>2. Max(S) \in S /\ \A y \in S : Max(S) >= y
  BY <1>1 DEF Max
<1>3. Max(S) \in Int /\ m \in Int /\ Max(S) >= m /\ Max(S) <= m
  BY <1>2
<1>4. QED
  BY <1>3

(* ... and Min the smallest.                                               *)
LEMMA MinIs == ASSUME NEW S \in SUBSET Int, NEW m \in S, \A x \in S : m <= x PROVE Min(S) = m
<1>1. \E x \in S : \A y \in S : x =< y
  OBVIOUS
<1>2. Min(S) \in S /\ \A y \in S : Min(S) =< y
  BY <1>1 DEF Min
<1>3. Min(S) \in Int /\ m \in Int /\ Min(S) <= m /\ Min(S) >= m
  BY <1>2
<1>4. QED
  BY <1>3

(* The rates of a connection add up to what its counter has counted.       *)
LEMMA RatesTelescope == ASSUME NEW rows \in Seq(RateRow) PROVE RatesReconcile(rows)
<1> DEFINE n == Len(rows)
           conn(i) == rows[i].connection
           count(i) == rows[i].counter
<1>1. n \in Nat /\ DOMAIN rows = 1..n /\ \A i \in 1..n : rows[i] \in RateRow
  BY LenProperties, ElementOfSeq
<1>2. SUFFICES ASSUME NEW c \in {rows[i].connection : i \in DOMAIN rows},
                      NEW own, own = {i \in DOMAIN rows : rows[i].connection = c},
                      \A i, j \in own : i < j =>
                          /\ rows[i].time < rows[j].time
                          /\ 0 <= rows[i].counter /\ rows[i].counter <= rows[j].counter
               PROVE  Total([i \in DOMAIN rows |->
                                IF i \in own /\ HasRate(rows, i) THEN RateBytes(rows, i) ELSE 0])
                          = rows[Max(own)].counter - rows[Min(own)].counter
  BY DEF RatesReconcile
<1>3. own \subseteq 1..n /\ own # {} /\ own \subseteq Int
  BY <1>1, <1>2
<1>4. PICK last \in own : \A x \in own : x <= last
  <2>1. n \in Int /\ \A x \in own : x <= n
    BY <1>1, <1>3
  <2>2. QED
    BY <1>3, <2>1, HasLargest
<1>5. PICK first \in own : \A x \in own : first <= x
  <2>1. 1 \in Int /\ \A x \in own : 1 <= x
    BY <1>3
  <2>2. QED
    BY <1>3, <2>1, HasSmallest
<1>6. Max(own) = last /\ Min(own) = first
  BY <1>3, <1>4, <1>5, MaxIs, MinIs
<1>7. \A i \in own : count(i) \in Int
  BY <1>1, <1>3 DEF RateRow
<1> DEFINE term(i) == IF i \in own /\ HasRate(rows, i) THEN RateBytes(rows, i) ELSE 0
           s == [i \in DOMAIN rows |-> term(i)]
(* The first row has no rate, each later one the rate since the one before. *)
<1>8. term(first) = 0
  <2>1. {j \in 1..(first - 1) : conn(j) = conn(first)} = {}
    <3>1. SUFFICES ASSUME NEW j \in 1..(first - 1), conn(j) = conn(first) PROVE FALSE
      OBVIOUS
    <3>2. j \in 1..n /\ j < first
      BY <1>1, <1>3
    <3>3. j \in own
      BY <1>1, <1>2, <3>1, <3>2
    <3>4. QED
      BY <1>3, <1>5, <3>2, <3>3
  <2>2. Prior(rows, first) = 0
    BY <2>1 DEF Prior
  <2>3. ~HasRate(rows, first)
    BY <2>2 DEF HasRate
  <2>4. QED
    BY <2>3
<1>9. ASSUME NEW i \in own, NEW l \in own, l < i, \A x \in own : x < i => x <= l
      PROVE  term(i) = count(i) - count(l)
  <2>1. l \in {j \in 1..(i - 1) : conn(j) = conn(i)}
    BY <1>2, <1>3, <1>9
  <2>2. \A x \in {j \in 1..(i - 1) : conn(j) = conn(i)} : x <= l
    <3>1. SUFFICES ASSUME NEW x \in 1..(i - 1), conn(x) = conn(i) PROVE x <= l
      OBVIOUS
    <3>2. x \in 1..n /\ x < i
      BY <1>1, <1>3
    <3>3. x \in own
      BY <1>1, <1>2, <3>1, <3>2
    <3>4. QED
      BY <1>9, <3>2, <3>3
  <2>3. Prior(rows, i) = l
    <3> DEFINE before == {j \in 1..(i - 1) : rows[j].connection = rows[i].connection}
    <3>1. l \in before /\ before \subseteq Int /\ \A x \in before : x <= l
      BY <2>1, <2>2
    <3>2. Prior(rows, i) = IF before = {} THEN 0 ELSE Max(before)
      BY DEF Prior
    <3> HIDE DEF before
    <3>3. QED
      BY <3>1, <3>2, MaxIs
  <2>4. rows[l].time < rows[i].time /\ 0 <= count(l) /\ count(l) <= count(i)
    BY <1>2, <1>9
  <2>5. count(l) # Missing /\ count(i) # Missing
    BY <1>7, <2>4, EvidenceAssumption
  <2>6. rows[l].time \in Int /\ rows[i].time \in Int /\ l > 0
    <3>1. l \in 1..n /\ i \in 1..n
      BY <1>3
    <3>2. rows[l] \in RateRow /\ rows[i] \in RateRow
      BY <1>1, <3>1
    <3> HIDE DEF n
    <3>3. QED
      BY <3>1, <3>2 DEF RateRow
  <2>7. HasRate(rows, i)
    BY <1>7, <2>3, <2>4, <2>5, <2>6 DEF HasRate
  <2>8. QED
    BY <2>3, <2>7 DEF RateBytes
<1>10. ASSUME NEW i \in 1..n PROVE term(i) \in Int
  <2>1. CASE i \in own
    <3>1. CASE i = first
      BY <1>8, <3>1
    <3>2. CASE i # first
      <4> DEFINE B == {x \in own : x < i}
      <4>1. first \in B /\ B \subseteq Int /\ \A x \in B : x <= i
        <5>1. \A x \in own : x \in Int
          BY <1>3
        <5>2. first <= i
          BY <1>5, <2>1
        <5>3. first \in B
          BY <2>1, <3>2, <5>1, <5>2
        <5>4. QED
          BY <5>1, <5>3
      <4>2. PICK l \in B : \A x \in B : x <= l
        <5> HIDE DEF B
        <5>1. i \in Int
          OBVIOUS
        <5>2. QED
          BY <4>1, <5>1, HasLargest
      <4>3. term(i) = count(i) - count(l)
        BY <1>9, <2>1, <4>2
      <4>4. QED
        BY <1>7, <2>1, <4>2, <4>3
    <3>3. QED
      BY <3>1, <3>2
  <2>2. CASE i \notin own
    BY <2>2
  <2>3. QED
    BY <2>1, <2>2
<1>11. Len(s) = n /\ \A i \in 1..n : s[i] = term(i)
  BY <1>1
<1> HIDE DEF n, s, term, conn, count
<1>12. PICK f : Sums(f, n, s) /\ Total(s) = f[n]
  <2>1. \A i \in 1..n : s[i] \in Int
    BY <1>10, <1>11
  <2>2. QED
    BY <1>1, <1>11, <2>1, TotalIsLast
<1> DEFINE Upto(i) ==
        \/ i < first /\ f[i] = 0
        \/ \E l \in own : l <= i /\ (\A x \in own : x <= i => x <= l)
                          /\ f[i] = count(l) - count(first)
           I == {i \in Nat : i <= n => Upto(i)}
<1>13. 0 \in I
  <2>1. f[0] = 0 /\ 0 < first
    BY <1>3, <1>12 DEF Sums
  <2>2. QED
    BY <2>1
<1>14. ASSUME NEW i \in Nat, i \in I PROVE i + 1 \in I
  <2> DEFINE q == i + 1
  <2>1. SUFFICES ASSUME q <= n PROVE Upto(q)
    OBVIOUS
  <2>2. q \in 1..n /\ q - 1 = i /\ i \in 0..n
    BY <1>1, <2>1
  <2>3. Upto(i)
    BY <1>1, <1>14, <2>1
  <2>4. f[q] = f[i] + term(q) /\ f[i] \in Int /\ term(q) \in Int
    BY <1>10, <1>11, <1>12, <2>2 DEF Sums
  <2>5. \A x \in own : x \in Int /\ (x <= q <=> x <= i \/ x = q) /\ (x < q <=> x <= i)
    BY <1>3
  <2>6. q = i + 1 /\ q \in Int
    OBVIOUS
  <2>7. first \in Int /\ count(first) \in Int
    BY <1>3, <1>7
  <2> HIDE DEF q
  <2>8. CASE i < first /\ f[i] = 0
    <3>1. CASE q = first
      <4>1. f[q] = count(first) - count(first)
        BY <1>8, <2>4, <2>7, <2>8, <3>1
      <4>2. first <= q /\ \A x \in own : x <= q => x <= first
        BY <1>3, <2>7, <3>1
      <4>3. QED
        BY <4>1, <4>2
    <3>2. CASE q # first
      <4>1. q < first
        BY <2>6, <2>7, <2>8, <3>2
      <4>2. q \notin own
        BY <1>5, <2>6, <2>7, <4>1
      <4>3. term(q) = 0
        BY <4>2 DEF term
      <4>4. QED
        BY <2>4, <2>8, <4>1, <4>3
    <3>3. QED
      BY <3>1, <3>2
  <2>9. ASSUME NEW l \in own, l <= i, \A x \in own : x <= i => x <= l,
               f[i] = count(l) - count(first)
        PROVE  Upto(q)
    <3>1. count(l) \in Int
      BY <1>7
    <3>2. CASE q \in own
      <4>1. term(q) = count(q) - count(l)
        BY <1>9, <2>5, <2>9, <3>2
      <4>2. count(q) \in Int
        BY <1>7, <3>2
      <4>3. f[q] = count(q) - count(first)
        BY <2>4, <2>7, <2>9, <3>1, <4>1, <4>2
      <4>4. q <= q /\ \A x \in own : x <= q => x <= q
        BY <2>6
      <4>5. QED
        BY <3>2, <4>3, <4>4
    <3>3. CASE q \notin own
      <4>1. term(q) = 0
        BY <3>3 DEF term
      <4>2. f[q] = count(l) - count(first)
        BY <2>4, <2>9, <4>1
      <4>3. l <= q /\ \A x \in own : x <= q => x <= l
        BY <2>5, <2>9, <3>3
      <4>4. QED
        BY <4>2, <4>3
    <3>4. QED
      BY <3>2, <3>3
  <2>10. QED
    BY <2>3, <2>8, <2>9
<1> HIDE DEF I
<1>15. \A i \in Nat : i \in I
  BY <1>13, <1>14, NaturalsBySteps, Zenon
<1>16. Upto(n)
  BY <1>1, <1>15 DEF I
<1>17. PICK l \in own : (\A x \in own : x <= n => x <= l) /\ f[n] = count(l) - count(first)
  <2>1. ~(n < first)
    BY <1>1, <1>3
  <2>2. QED
    BY <1>16, <2>1
<1>18. l = last
  BY <1>1, <1>3, <1>4, <1>17
<1>19. QED
  BY <1>6, <1>12, <1>17, <1>18 DEF s, term, count

-----------------------------------------------------------------------------
(* Bins                                                                    *)

(* What the division leaves.                                               *)
LEMMA Quotient ==
    ASSUME NEW x \in Int, NEW b \in Nat, b > 0
    PROVE  x \div b \in Int /\ (x \div b) * b <= x /\ x < (x \div b + 1) * b
OBVIOUS

(* One bin ends before a later one starts.                                 *)
LEMMA BinsApart ==
    ASSUME NEW c \in Int, NEW d \in Int, c < d
    PROVE  (c + 1) * Bin <= d * Bin /\ c * Bin < d * Bin
<1>1. Bin \in Nat /\ Bin > 0
  BY EvidenceAssumption
<1>2. d * Bin = (c + 1) * Bin + (d - c - 1) * Bin
  BY <1>1
<1>3. (d - c - 1) * Bin \in Nat
  <2> DEFINE k == d - c - 1
  <2>1. k \in Nat
    OBVIOUS
  <2> HIDE DEF k
  <2>2. k * Bin \in Nat
    BY <1>1, <2>1
  <2>3. QED
    BY <2>2 DEF k
<1>4. (c + 1) * Bin = c * Bin + Bin /\ c * Bin \in Int
  BY <1>1
<1> DEFINE x == c * Bin
           y == (c + 1) * Bin
           z == d * Bin
           w == (d - c - 1) * Bin
<1>5. z = y + w /\ w \in Nat /\ y = x + Bin /\ x \in Int
  BY <1>2, <1>3, <1>4
<1> HIDE DEF x, y, z, w
<1>6. y <= z /\ x < z
  BY <1>1, <1>5
<1>7. QED
  BY <1>6 DEF x, y, z

(* The bins cut the trace, and each of its times is in one.                *)
LEMMA BinsCut ==
    /\ BinCount \in Nat /\ BinCount > 0
    /\ (BinCount - 1) * Bin < Length /\ Length <= BinCount * Bin
    /\ \A t \in 0..(Length - 1) : t \div Bin \in 0..(BinCount - 1)
<1>1. Bin \in Nat /\ Bin > 0 /\ Length \in Nat /\ Length > 0 /\ Bin \in Int
  BY EvidenceAssumption
<1> DEFINE x == Length + Bin - 1
           N == x \div Bin
<1>2. N = BinCount
  BY DEF BinCount
<1>3. x \in Int
  BY <1>1
<1>4. N \in Int /\ N * Bin <= x /\ x < (N + 1) * Bin
  <2> HIDE DEF x
  <2>1. QED
    BY <1>1, <1>3, Quotient
<1> HIDE DEF N
<1>5. (N + 1) * Bin = N * Bin + Bin /\ (N - 1) * Bin = N * Bin - Bin /\ N * Bin \in Int
  BY <1>1, <1>4
<1>6. (N - 1) * Bin < Length /\ Length <= N * Bin
  <2> DEFINE p == N * Bin
             u == (N + 1) * Bin
             v == (N - 1) * Bin
  <2>1. p \in Int /\ u = p + Bin /\ v = p - Bin /\ p <= x /\ x < u
    BY <1>4, <1>5
  <2> HIDE DEF p, u, v
  <2>2. v < Length /\ Length <= p
    BY <1>1, <2>1
  <2>3. QED
    BY <2>2 DEF p, v
<1>7. N > 0
  <2>1. SUFFICES ASSUME N <= 0 PROVE FALSE
    BY <1>4
  <2>2. CASE N = 0
    BY <1>1, <1>6, <2>2
  <2>3. CASE N < 0
    <3>1. N * Bin < 0 * Bin
      BY <1>4, <2>3, BinsApart
    <3>2. QED
      BY <1>1, <1>5, <1>6, <3>1
  <2>4. QED
    BY <1>4, <2>1, <2>2, <2>3
<1>8. ASSUME NEW t \in 0..(Length - 1) PROVE t \div Bin \in 0..(N - 1)
  <2> DEFINE q == t \div Bin
  <2>1. q \in Int /\ q * Bin <= t /\ t < (q + 1) * Bin
    BY <1>1, Quotient
  <2> HIDE DEF q
  <2>2. ~(q >= N)
    <3>1. SUFFICES ASSUME q >= N PROVE FALSE
      OBVIOUS
    <3>2. N * Bin <= q * Bin
      <4>1. CASE q = N
        BY <1>5, <4>1
      <4>2. CASE N < q
        <5>1. N * Bin < q * Bin
          BY <1>4, <2>1, <4>2, BinsApart
        <5>2. q * Bin \in Int
          BY <1>1, <2>1
        <5>3. QED
          BY <1>5, <5>1, <5>2
      <4>3. QED
        BY <1>4, <2>1, <3>1, <4>1, <4>2
    <3>3. q * Bin \in Int
      BY <1>1, <2>1
    <3>4. QED
      BY <1>1, <1>5, <1>6, <2>1, <3>2, <3>3
  <2>3. ~(q < 0)
    <3>1. SUFFICES ASSUME q < 0 PROVE FALSE
      OBVIOUS
    <3>2. (q + 1) * Bin <= 0 * Bin
      BY <2>1, <3>1, BinsApart
    <3>3. (q + 1) * Bin \in Int
      BY <1>1, <2>1
    <3>4. QED
      BY <1>1, <2>1, <3>2, <3>3
  <2>4. q \in 0..(N - 1)
    BY <1>4, <2>1, <2>2, <2>3
  <2>5. QED
    BY <2>4 DEF q
<1>9. N \in Nat
  BY <1>4, <1>7
<1>10. QED
  BY <1>2, <1>6, <1>7, <1>8, <1>9

(* Each bin starts where the one before it ends.                           *)
LEMMA BinsMeet ==
    ASSUME NEW b \in Bins
    PROVE  /\ BinStart(b) \in Int /\ BinEnd(b) \in Int
           /\ BinStart(b) >= 0 /\ BinStart(b) < BinEnd(b)
           /\ b + 1 \in Bins => BinStart(b + 1) = BinEnd(b)
           /\ \A c \in Bins : b < c => BinStart(b) < BinStart(c) /\ BinEnd(b) <= BinStart(c)
                                       /\ BinEnd(b) < BinEnd(c)
<1>1. Bin \in Nat /\ Bin > 0 /\ Length \in Nat
  BY EvidenceAssumption
<1>2. BinCount \in Nat /\ b \in Int /\ b >= 0 /\ Bins \subseteq Int
  BY BinsCut DEF Bins
<1>3. ASSUME NEW c \in Bins
      PROVE  c * Bin \in Int /\ (c + 1) * Bin = c * Bin + Bin /\ c * Bin < Length
  <2>1. c \in Int /\ c <= BinCount - 1
    BY <1>2 DEF Bins
  <2>2. c * Bin \in Int /\ (c + 1) * Bin = c * Bin + Bin /\ (BinCount - 1) * Bin \in Int
    BY <1>1, <1>2, <2>1
  <2>3. c * Bin <= (BinCount - 1) * Bin
    <3>1. CASE c = BinCount - 1
      BY <2>2, <3>1
    <3>2. CASE c < BinCount - 1
      BY <1>2, <2>1, <2>2, <3>2, BinsApart
    <3>3. QED
      BY <1>2, <2>1, <3>1, <3>2
  <2>4. QED
    BY <1>1, <2>2, <2>3, BinsCut
<1>4. ASSUME NEW c \in Bins
      PROVE  /\ BinStart(c) = c * Bin /\ BinStart(c) \in Int /\ BinEnd(c) \in Int
             /\ BinStart(c) < BinEnd(c) /\ BinEnd(c) <= (c + 1) * Bin
             /\ (c + 1) * Bin <= Length => BinEnd(c) = (c + 1) * Bin
  BY <1>1, <1>3 DEF BinStart, BinEnd
<1>5. BinStart(b) >= 0
  <2>1. b * Bin \in Nat
    BY <1>1, <1>2
  <2>2. QED
    BY <1>4, <2>1
<1>6. ASSUME b + 1 \in Bins PROVE BinStart(b + 1) = BinEnd(b)
  <2>1. (b + 1) * Bin < Length /\ BinStart(b + 1) = (b + 1) * Bin /\ (b + 1) * Bin \in Int
    BY <1>3, <1>4, <1>6
  <2>2. QED
    BY <1>1, <1>4, <2>1
<1>7. ASSUME NEW c \in Bins, b < c
      PROVE  BinStart(b) < BinStart(c) /\ BinEnd(b) <= BinStart(c) /\ BinEnd(b) < BinEnd(c)
  <2>1. (b + 1) * Bin <= c * Bin /\ b * Bin < c * Bin
    BY <1>2, <1>7, BinsApart
  <2>2. (b + 1) * Bin \in Int /\ c * Bin \in Int
    BY <1>1, <1>3
  <2>3. BinEnd(b) <= BinStart(c) /\ BinStart(c) < BinEnd(c)
    BY <1>4, <2>1, <2>2
  <2>4. QED
    BY <1>4, <2>1, <2>3
<1>8. QED
  BY <1>4, <1>5, <1>6, <1>7

(* The bytes of some envelopes are natural numbers, none where there are   *)
(* none, some where there is one, and add up.                              *)
LEMMA BytesAddUp ==
    ASSUME NEW es \in Seq(EnvelopeType)
    PROVE  /\ \A S : BytesOf(es, S) \in Nat
           /\ \A S : BytesOf(es, S) = 0 <=> S \cap DOMAIN es = {}
           /\ \A S, T : S \cap T = {} => BytesOf(es, S \cup T) = BytesOf(es, S) + BytesOf(es, T)
<1> DEFINE n == Len(es)
           term(S, i) == IF i \in S THEN es[i].bytes ELSE 0
           s(S) == [i \in DOMAIN es |-> term(S, i)]
<1>1. n \in Nat /\ DOMAIN es = 1..n /\ \A i \in 1..n : es[i] \in EnvelopeType
  BY LenProperties, ElementOfSeq
<1>2. \A i \in 1..n : es[i].bytes \in Nat /\ es[i].bytes > 0
  BY <1>1 DEF EnvelopeType
<1>3. \A S : Len(s(S)) = n /\ \A i \in 1..n : s(S)[i] = term(S, i)
  BY <1>1
<1>4. \A S : BytesOf(es, S) = Total(s(S))
  BY DEF BytesOf
<1> HIDE DEF n, s
<1>5. ASSUME NEW S
      PROVE  /\ Total(s(S)) \in Nat
             /\ \A i \in 1..n : s(S)[i] <= Total(s(S))
             /\ (\A i \in 1..n : s(S)[i] = 0) => Total(s(S)) = 0
  <2>1. \A i \in 1..n : s(S)[i] \in Nat
    BY <1>2, <1>3
  <2>2. QED
    BY <1>1, <1>3, <2>1, TotalOfNaturals
<1>6. ASSUME NEW S PROVE BytesOf(es, S) = 0 <=> S \cap DOMAIN es = {}
  <2>1. CASE S \cap DOMAIN es = {}
    <3>1. \A i \in 1..n : s(S)[i] = 0
      BY <1>1, <1>3, <2>1
    <3>2. QED
      BY <1>4, <1>5, <2>1, <3>1
  <2>2. CASE S \cap DOMAIN es # {}
    <3>1. PICK i \in 1..n : i \in S
      BY <1>1, <2>2
    <3>2. s(S)[i] = es[i].bytes
      BY <1>3, <3>1
    <3>3. Total(s(S)) \in Nat /\ es[i].bytes <= Total(s(S))
      BY <1>5, <3>2
    <3>4. QED
      BY <1>2, <1>4, <2>2, <3>3
  <2>3. QED
    BY <2>1, <2>2
<1>7. ASSUME NEW S, NEW T, S \cap T = {}
      PROVE  BytesOf(es, S \cup T) = BytesOf(es, S) + BytesOf(es, T)
  <2>1. \A i \in 1..n : s(S)[i] \in Int /\ s(T)[i] \in Int /\ s(S \cup T)[i] = s(S)[i] + s(T)[i]
    BY <1>2, <1>3, <1>7
  <2>2. Total(s(S \cup T)) = Total(s(S)) + Total(s(T))
    <3> DEFINE c == s(S \cup T)
               a == s(S)
               b == s(T)
    <3>1. Len(c) = n /\ Len(a) = n /\ Len(b) = n
      BY <1>3
    <3>2. \A i \in 1..n : a[i] \in Int /\ b[i] \in Int /\ c[i] = a[i] + b[i]
      BY <2>1
    <3> HIDE DEF a, b, c
    <3>3. Total(c) = Total(a) + Total(b)
      BY <1>1, <3>1, <3>2, TotalOfSum
    <3>4. QED
      BY <3>3 DEF a, b, c
  <2>3. QED
    BY <1>4, <2>2
<1>8. QED
  BY <1>4, <1>5, <1>6, <1>7

(* The bins hold what counted within the trace.                            *)
LEMMA BinsHoldAll ==
    ASSUME NEW es \in Seq(EnvelopeType)
    PROVE  /\ Envelopes(es) = BytesOf(es,
                 {i \in DOMAIN es : es[i].fine /\ es[i].time \in 0..(Length - 1)})
           /\ \A b \in Bins : PayloadBins(es)[b] \in Nat
<1> DEFINE Q(i) == es[i].time \div Bin
           Counted(i) == Counts(es[i]) /\ InHorizon(es[i].time)
           In(b) == {i \in DOMAIN es : Counts(es[i]) /\ InHorizon(es[i].time) /\ es[i].time \div Bin = b}
           Upto(m) == {i \in DOMAIN es : Counted(i) /\ Q(i) < m}
           bins == PayloadBins(es)
           s(m) == [k \in 1..m |-> bins[k - 1]]
           N == BinCount
<1>1. N \in Nat /\ Bins = 0..(N - 1)
  BY BinsCut DEF Bins
<1>2. \A b \in Bins : bins[b] = BytesOf(es, In(b)) /\ bins[b] \in Nat
  BY BytesAddUp DEF PayloadBins
<1>3. \A i \in DOMAIN es : es[i] \in EnvelopeType
  BY LenProperties, ElementOfSeq
<1>4. \A i \in DOMAIN es : es[i].time \in Int /\ es[i].fine \in BOOLEAN
  BY <1>3 DEF EnvelopeType
<1>5. Length \in Nat
  BY EvidenceAssumption
<1>6. \A i \in DOMAIN es : Counted(i) <=> es[i].fine /\ es[i].time \in 0..(Length - 1)
  BY <1>4, <1>5 DEF Counts, InHorizon
<1>7. \A i \in DOMAIN es : Counted(i) => Q(i) \in 0..(N - 1)
  BY <1>6, BinsCut
<1>8. \A b : In(b) = {i \in DOMAIN es : Counted(i) /\ Q(i) = b}
  OBVIOUS
<1> HIDE DEF N, In, Q, Counted, bins
<1> DEFINE I == {m \in Nat : m <= N => Total(s(m)) = BytesOf(es, Upto(m))}
<1>9. 0 \in I
  <2>1. Len(s(0)) = 0 /\ \A i \in 1..0 : s(0)[i] \in Nat /\ s(0)[i] = 0
    OBVIOUS
  <2>2. Total(s(0)) = 0
    BY <2>1, TotalOfNaturals
  <2>3. Upto(0) = {}
    BY <1>1, <1>7
  <2>4. BytesOf(es, {}) = 0
    BY BytesAddUp
  <2>5. QED
    BY <2>2, <2>3, <2>4
<1>10. ASSUME NEW m \in Nat, m \in I PROVE m + 1 \in I
  <2>1. SUFFICES ASSUME m + 1 <= N PROVE Total(s(m + 1)) = BytesOf(es, Upto(m + 1))
    OBVIOUS
  <2>2. Total(s(m)) = BytesOf(es, Upto(m)) /\ m \in Bins
    BY <1>1, <1>10, <2>1
  <2>3. Total(s(m + 1)) = Total(s(m)) + bins[m]
    <3>1. Len(s(m + 1)) = m + 1 /\ Len(s(m)) = m
      OBVIOUS
    <3>2. \A k \in 1..(m + 1) : s(m + 1)[k] = bins[k - 1] /\ k - 1 \in Bins
      BY <1>1, <2>1
    <3>3. \A k \in 1..m : s(m)[k] = bins[k - 1] /\ k \in 1..(m + 1)
      OBVIOUS
    <3>4. m + 1 \in 1..(m + 1) /\ (m + 1) - 1 = m
      OBVIOUS
    <3> HIDE DEF s
    <3>5. \A k \in 1..(m + 1) : s(m + 1)[k] \in Int
      BY <1>2, <3>2
    <3>6. \A k \in 1..m : s(m + 1)[k] = s(m)[k]
      BY <3>2, <3>3
    <3>7. Total(s(m + 1)) = Total(s(m)) + s(m + 1)[m + 1]
      BY <3>1, <3>5, <3>6, TotalOfOneMore
    <3>8. QED
      BY <3>2, <3>4, <3>7
  <2>4. Upto(m + 1) = Upto(m) \cup In(m) /\ Upto(m) \cap In(m) = {}
    <3>1. \A i \in DOMAIN es : Counted(i) => Q(i) \in Int
      BY <1>7
    <3>2. \A i \in DOMAIN es : Counted(i) => (Q(i) < m + 1 <=> Q(i) < m \/ Q(i) = m)
                                              /\ ~(Q(i) < m /\ Q(i) = m)
      BY <3>1
    <3>3. QED
      BY <1>8, <3>2
  <2> HIDE DEF s, Upto
  <2>5. BytesOf(es, Upto(m + 1)) = BytesOf(es, Upto(m)) + BytesOf(es, In(m))
    BY <2>4, BytesAddUp
  <2>6. QED
    BY <1>2, <2>2, <2>3, <2>5
<1> HIDE DEF I
<1>11. \A m \in Nat : m \in I
  BY <1>9, <1>10, NaturalsBySteps, Zenon
<1>12. Total(s(N)) = BytesOf(es, Upto(N))
  <2>1. N \in I /\ N <= N
    BY <1>1, <1>11
  <2>2. QED
    BY <2>1 DEF I
<1>13. Envelopes(es) = Total(s(N))
  BY DEF Envelopes, N, bins
<1>14. Upto(N) = {i \in DOMAIN es : es[i].fine /\ es[i].time \in 0..(Length - 1)}
  <2>1. \A i \in DOMAIN es : Counted(i) => Q(i) < N
    BY <1>1, <1>7
  <2>2. QED
    BY <1>6, <2>1
<1>15. QED
  BY <1>2, <1>12, <1>13, <1>14 DEF bins

(* What the player accepted agrees unless something was refused or ignored *)
(* before the trace.                                                       *)
LEMMA AcceptedAgrees ==
    ASSUME NEW es \in Seq(EnvelopeType)
    PROVE  Reconciled(es, BytesOf(es, {i \in DOMAIN es : es[i].fine /\ es[i].time < Length}))
              <=> \A i \in DOMAIN es : es[i].time < 0 => es[i].fine
<1> DEFINE In == {i \in DOMAIN es : es[i].fine /\ es[i].time \in 0..(Length - 1)}
           Fine == {i \in DOMAIN es : es[i].fine /\ es[i].time < 0}
           Bad == {i \in DOMAIN es : ~es[i].fine /\ es[i].time < 0}
           Before == {i \in DOMAIN es : es[i].time < 0}
           All == {i \in DOMAIN es : es[i].fine /\ es[i].time < Length}
<1>1. \A i \in DOMAIN es : es[i] \in EnvelopeType
  BY LenProperties, ElementOfSeq
<1>2. \A i \in DOMAIN es : es[i].time \in Int /\ es[i].fine \in BOOLEAN
  BY <1>1 DEF EnvelopeType
<1>3. Length \in Nat
  BY EvidenceAssumption
<1>4. \A i \in DOMAIN es : /\ es[i].time < Length <=> es[i].time \in 0..(Length - 1) \/ es[i].time < 0
                           /\ ~(es[i].time \in 0..(Length - 1) /\ es[i].time < 0)
  BY <1>2, <1>3
<1>5. All = In \cup Fine /\ In \cap Fine = {}
  BY <1>4
<1>6. Before = Fine \cup Bad /\ Fine \cap Bad = {} /\ Bad \cap DOMAIN es = Bad
  BY <1>2
<1>7. Envelopes(es) = BytesOf(es, In)
  BY BinsHoldAll
<1>8. Pretrace(es) = BytesOf(es, Before)
  BY DEF Pretrace
<1>9. Bad = {} <=> \A i \in DOMAIN es : es[i].time < 0 => es[i].fine
  BY <1>2
<1> HIDE DEF In, Fine, Bad, Before, All
<1>10. /\ BytesOf(es, All) = BytesOf(es, In) + BytesOf(es, Fine)
       /\ BytesOf(es, Before) = BytesOf(es, Fine) + BytesOf(es, Bad)
       /\ BytesOf(es, Bad) = 0 <=> Bad = {}
       /\ BytesOf(es, In) \in Nat /\ BytesOf(es, Fine) \in Nat /\ BytesOf(es, Bad) \in Nat
  BY <1>5, <1>6, BytesAddUp
<1>11. Reconciled(es, BytesOf(es, All)) <=> Bad = {}
  BY <1>7, <1>8, <1>10 DEF Reconciled
<1>12. QED
  BY <1>9, <1>11 DEF All

-----------------------------------------------------------------------------
(* The pass over the bins                                                  *)

ZeroStep(bins, b, found) ==
    IF bins[b] > 0 THEN found
    ELSE IF found # <<>> /\ found[Len(found)][2] = BinStart(b)
         THEN [found EXCEPT ![Len(found)][2] = BinEnd(b)]
         ELSE Append(found, <<BinStart(b), BinEnd(b)>>)

(* f is the table that the definition of ZeroIntervals computes, up to n.  *)
Zeroed(f, n, bins) ==
    f = [i \in 0..n |-> IF i = 0 THEN <<>> ELSE ZeroStep(bins, i - 1, f[i - 1])]

(* The table exists.                                                       *)
LEMMA ZeroedExists == ASSUME NEW bins PROVE \A n \in Nat : \E f : Zeroed(f, n, bins)
<1> DEFINE I == {n \in Nat : \E f : Zeroed(f, n, bins)}
           b == <<>>
<1>1. 0 \in I
  <2>1. Zeroed([i \in 0..0 |-> b], 0, bins)
    BY DEF Zeroed
  <2>2. QED
    BY <2>1
<1>2. ASSUME NEW n \in Nat, n \in I PROVE n + 1 \in I
  <2>1. PICK f : Zeroed(f, n, bins)
    BY <1>2
  <2> DEFINE last == ZeroStep(bins, n, f[n])
             g == [i \in 0..(n + 1) |-> IF i = n + 1 THEN last ELSE f[i]]
  <2>2. (\A i \in 0..n : g[i] = f[i]) /\ g[n + 1] = last
    OBVIOUS
  <2> HIDE DEF b
  <2>3. \A i \in 0..n : f[i] = IF i = 0 THEN b ELSE ZeroStep(bins, i - 1, f[i - 1])
    BY <2>1 DEF Zeroed, b
  <2>4. ASSUME NEW i \in 0..(n + 1)
        PROVE  g[i] = IF i = 0 THEN b ELSE ZeroStep(bins, i - 1, g[i - 1])
    <3>1. CASE i = n + 1
      <4>1. i # 0 /\ i - 1 = n /\ n \in 0..n
        BY <3>1
      <4>2. g[n] = f[n]
        BY <2>2, <4>1
      <4>3. QED
        BY <2>2, <3>1, <4>1, <4>2, Zenon
    <3>2. CASE i \in 1..n
      <4>1. i # 0 /\ i \in 0..n /\ i - 1 \in 0..n
        BY <3>2
      <4>2. g[i] = f[i] /\ g[i - 1] = f[i - 1]
        BY <2>2, <4>1
      <4>3. QED
        BY <2>3, <4>1, <4>2, Zenon
    <3>3. CASE i = 0
      BY <2>2, <2>3, <3>3
    <3>4. QED
      BY <3>1, <3>2, <3>3
  <2>5. g = [i \in 0..(n + 1) |-> g[i]]
    OBVIOUS
  <2> HIDE DEF g
  <2>6. Zeroed(g, n + 1, bins)
    BY <2>4, <2>5 DEF Zeroed, b
  <2>7. QED
    BY <2>6
<1> HIDE DEF I
<1>3. \A n \in Nat : n \in I
  BY <1>1, <1>2, NaturalsBySteps, Zenon
<1>4. QED
  BY <1>3 DEF I

(* ZeroIntervals is what the last entry of its table has found.            *)
LEMMA ZeroIntervalsIsLast ==
    ASSUME NEW bins
    PROVE  \E f : Zeroed(f, BinCount, bins) /\ ZeroIntervals(bins) = ToSet(f[BinCount])
<1> DEFINE f == CHOOSE f : Zeroed(f, BinCount, bins)
<1>1. Zeroed(f, BinCount, bins)
  BY ZeroedExists, BinsCut, Zenon
<1>2. ZeroIntervals(bins) = ToSet(f[BinCount])
  BY DEF ZeroIntervals, Zeroed, ZeroStep
<1>3. QED
  BY <1>1, <1>2

Covered(z, b) == z[1] <= BinStart(b) /\ BinEnd(b) <= z[2]

(* The intervals found in the bins before bin n lie apart and in order,    *)
(* and cover these bins where they are empty, and nothing else.            *)
ZeroOK(found, n, bins) ==
    /\ found \in Seq(Int \X Int)
    /\ \A k \in 1..Len(found) :
          /\ found[k][1] < found[k][2]
          /\ n > 0 /\ found[k][2] <= BinEnd(n - 1)
    /\ \A k, l \in 1..Len(found) : k < l => found[k][2] < found[l][1]
    /\ \A b \in Bins : b < n /\ bins[b] = 0 => \E k \in 1..Len(found) : Covered(found[k], b)
    /\ \A k \in 1..Len(found) : \A b \in Bins : Covered(found[k], b) => bins[b] = 0

(* One more bin keeps that.                                                *)
LEMMA ZeroStepKeeps ==
    ASSUME NEW bins, \A b \in Bins : bins[b] \in Nat,
           NEW n \in Bins, NEW found, ZeroOK(found, n, bins)
    PROVE  ZeroOK(ZeroStep(bins, n, found), n + 1, bins)
<1> DEFINE m == Len(found)
           x == BinStart(n)
           y == BinEnd(n)
           t == ZeroStep(bins, n, found)
<1>1. found \in Seq(Int \X Int) /\ m \in Nat /\ (\A k \in 1..m : found[k] \in Int \X Int)
  BY LenProperties, ElementOfSeq DEF ZeroOK
<1>2. \A k \in 1..m : found[k][1] \in Int /\ found[k][2] \in Int /\ found[k][1] < found[k][2]
  BY <1>1 DEF ZeroOK
<1>3. \A k, l \in 1..m : k < l => found[k][2] < found[l][1]
  BY DEF ZeroOK
<1>4. n \in Nat /\ Bins \subseteq Nat /\ n < n + 1 /\ (n + 1) - 1 = n
  BY BinsCut DEF Bins
<1>5. x \in Int /\ y \in Int /\ x < y
  BY BinsMeet
<1>6. \A k \in 1..m : found[k][2] <= x
  <2>1. SUFFICES ASSUME NEW k \in 1..m PROVE found[k][2] <= x
    OBVIOUS
  <2>2. n > 0 /\ found[k][2] <= BinEnd(n - 1)
    BY <2>1 DEF ZeroOK
  <2>3. n - 1 \in Bins /\ (n - 1) + 1 = n
    BY <1>4, <2>2, BinsCut DEF Bins
  <2>4. BinStart(n) = BinEnd(n - 1)
    BY <2>3, BinsMeet
  <2>5. QED
    BY <2>2, <2>4
<1>7. \A b \in Bins : b < n /\ bins[b] = 0 => \E k \in 1..m : Covered(found[k], b)
  BY DEF ZeroOK
<1>8. \A k \in 1..m : \A b \in Bins : Covered(found[k], b) => bins[b] = 0
  BY DEF ZeroOK
<1>9. \A b \in Bins : /\ BinStart(b) \in Int /\ BinEnd(b) \in Int /\ BinStart(b) < BinEnd(b)
                      /\ b < n => BinStart(b) < x /\ BinEnd(b) <= x
                      /\ n < b => y < BinEnd(b)
  BY BinsMeet
<1>10. \A b \in Bins : b < n + 1 <=> b < n \/ b = n
  BY <1>4
<1>11. \A b \in Bins : b < n \/ b = n \/ n < b
  BY <1>4
<1>12. SUFFICES
         /\ t \in Seq(Int \X Int)
         /\ \A k \in 1..Len(t) : t[k][1] < t[k][2] /\ t[k][2] <= y
         /\ \A k, l \in 1..Len(t) : k < l => t[k][2] < t[l][1]
         /\ \A b \in Bins : b < n + 1 /\ bins[b] = 0 => \E k \in 1..Len(t) : Covered(t[k], b)
         /\ \A k \in 1..Len(t) : \A b \in Bins : Covered(t[k], b) => bins[b] = 0
  <2> HIDE DEF t
  <2>1. n + 1 > 0
    BY <1>4
  <2>2. QED
    BY <1>4, <2>1 DEF ZeroOK, t
<1> HIDE DEF m, x, y
<1>13. CASE bins[n] > 0
  <2>1. t = found
    BY <1>13 DEF ZeroStep
  <2>2. \A k \in 1..m : found[k][2] <= y
    BY <1>2, <1>5, <1>6
  <2>3. \A b \in Bins : b < n + 1 /\ bins[b] = 0 => b < n
    BY <1>10, <1>13
  <2> HIDE DEF t
  <2>4. Len(t) = m
    BY <2>1 DEF m
  <2>5. QED
    BY <1>1, <1>2, <1>3, <1>7, <1>8, <2>1, <2>2, <2>3, <2>4
<1>14. CASE bins[n] = 0 /\ found # <<>> /\ found[m][2] = x
  <2> DEFINE e == [found[m] EXCEPT ![2] = y]
  <2>1. m \in 1..m
    <3>1. m # 0
      BY <1>1, <1>14, EmptySeq DEF m
    <3>2. QED
      BY <1>1, <3>1
  <2>2. t = [found EXCEPT ![m] = e]
    BY <1>14 DEF ZeroStep, m, x, y
  <2>3. e \in Int \X Int /\ e[1] = found[m][1] /\ e[2] = y
    <3> DEFINE z == found[m]
    <3>1. z \in Int \X Int /\ y \in Int
      BY <1>1, <1>5, <2>1
    <3> HIDE DEF z
    <3>2. /\ [z EXCEPT ![2] = y] \in Int \X Int
          /\ [z EXCEPT ![2] = y][1] = z[1] /\ [z EXCEPT ![2] = y][2] = y
      BY <3>1
    <3>3. QED
      BY <3>2 DEF z
  <2> HIDE DEF t, e
  <2>4. t \in Seq(Int \X Int) /\ Len(t) = m
        /\ \A k \in 1..m : t[k] = IF k = m THEN e ELSE found[k]
    BY <1>1, <2>1, <2>2, <2>3, ExceptSeq DEF m
  <2>5. \A k \in 1..m : t[k][1] = found[k][1] /\ (k # m => t[k] = found[k])
    BY <2>3, <2>4
  <2>6. t[m][1] = found[m][1] /\ t[m][2] = y
    BY <2>1, <2>3, <2>4
  <2>7. \A k \in 1..m : t[k][1] < t[k][2] /\ t[k][2] <= y
    <3>1. SUFFICES ASSUME NEW k \in 1..m PROVE t[k][1] < t[k][2] /\ t[k][2] <= y
      OBVIOUS
    <3>2. CASE k = m
      BY <1>2, <1>5, <1>14, <2>1, <2>6, <3>2
    <3>3. CASE k # m
      <4>1. t[k] = found[k] /\ found[k][2] <= x
        BY <1>6, <2>5, <3>3
      <4>2. QED
        BY <1>2, <1>5, <4>1
    <3>4. QED
      BY <3>2, <3>3
  <2>8. \A k, l \in 1..m : k < l => t[k][2] < t[l][1]
    <3>1. SUFFICES ASSUME NEW k \in 1..m, NEW l \in 1..m, k < l PROVE t[k][2] < t[l][1]
      OBVIOUS
    <3>2. k # m
      BY <1>1, <3>1
    <3>3. t[k] = found[k] /\ t[l][1] = found[l][1]
      BY <2>5, <3>2
    <3>4. QED
      BY <1>3, <3>1, <3>3
  <2>9. ASSUME NEW b \in Bins, b < n + 1, bins[b] = 0 PROVE \E k \in 1..m : Covered(t[k], b)
    <3>1. CASE b = n
      <4>1. t[m][1] < x /\ t[m][2] = y
        BY <1>2, <1>14, <2>1, <2>6
      <4>2. t[m][1] <= x
        BY <1>2, <1>5, <1>14, <2>1, <2>6
      <4>3. y <= y
        BY <1>5
      <4>4. Covered(t[m], b)
        BY <3>1, <4>1, <4>2, <4>3 DEF Covered, x, y
      <4>5. QED
        BY <2>1, <4>4
    <3>2. CASE b < n
      <4>1. PICK k \in 1..m : Covered(found[k], b)
        BY <1>7, <2>9, <3>2
      <4>2. CASE k = m
        <5>1. found[m][1] <= BinStart(b) /\ BinEnd(b) <= x
          BY <1>9, <3>2, <4>1, <4>2 DEF Covered
        <5>2. BinEnd(b) <= y /\ t[m][1] <= BinStart(b)
          BY <1>5, <1>9, <2>6, <5>1
        <5>3. Covered(t[m], b)
          BY <2>6, <5>2 DEF Covered
        <5>4. QED
          BY <2>1, <5>3
      <4>3. CASE k # m
        BY <2>5, <4>1, <4>3
      <4>4. QED
        BY <4>2, <4>3
    <3>3. QED
      BY <1>10, <2>9, <3>1, <3>2
  <2>10. ASSUME NEW k \in 1..m, NEW b \in Bins, Covered(t[k], b) PROVE bins[b] = 0
    <3>1. CASE k # m
      BY <1>8, <2>5, <2>10, <3>1
    <3>2. CASE k = m
      <4>1. found[m][1] <= BinStart(b) /\ BinEnd(b) <= y
        BY <2>6, <2>10, <3>2 DEF Covered
      <4>2. ~(n < b)
        BY <1>5, <1>9, <4>1
      <4>3. CASE b = n
        BY <1>14, <4>3
      <4>4. CASE b < n
        <5>1. BinEnd(b) <= found[m][2]
          BY <1>9, <1>14, <4>4
        <5>2. Covered(found[m], b)
          BY <4>1, <5>1 DEF Covered
        <5>3. QED
          BY <1>8, <2>1, <5>2
      <4>5. QED
        BY <1>11, <4>2, <4>3, <4>4
    <3>3. QED
      BY <3>1, <3>2
  <2>11. QED
    BY <2>4, <2>7, <2>8, <2>9, <2>10
<1>15. CASE bins[n] = 0 /\ ~(found # <<>> /\ found[m][2] = x)
  <2> DEFINE e == <<x, y>>
  <2>1. t = Append(found, e)
    BY <1>15 DEF ZeroStep, m, x, y
  <2>2. e \in Int \X Int /\ e[1] = x /\ e[2] = y
    BY <1>5
  <2> HIDE DEF t, e
  <2>3. t \in Seq(Int \X Int) /\ Len(t) = m + 1
        /\ (\A k \in 1..m : t[k] = found[k]) /\ t[m + 1] = e
    BY <1>1, <2>1, <2>2, AppendProperties DEF m
  <2>4. \A k \in 1..(m + 1) : k \in 1..m \/ k = m + 1
    BY <1>1
  <2>5. m + 1 \in 1..(m + 1) /\ \A k \in 1..m : k \in 1..(m + 1)
    BY <1>1
  <2>6. \A k \in 1..m : found[k][2] < x
    <3>1. SUFFICES ASSUME NEW k \in 1..m PROVE found[k][2] < x
      OBVIOUS
    <3>2. m \in 1..m /\ found # <<>>
      BY <1>1, EmptySeq DEF m
    <3>3. found[m][2] # x /\ found[m][2] <= x
      BY <1>6, <1>15, <3>2
    <3>4. CASE k = m
      BY <1>2, <1>5, <3>3, <3>4
    <3>5. CASE k # m
      <4>1. k < m
        BY <1>1, <3>5
      <4>2. found[k][2] < found[m][1] /\ found[m][1] < found[m][2]
        BY <1>2, <1>3, <3>2, <4>1
      <4>3. QED
        BY <1>2, <1>5, <3>2, <3>3, <4>2
    <3>6. QED
      BY <3>4, <3>5
  <2>7. \A k \in 1..(m + 1) : t[k][1] < t[k][2] /\ t[k][2] <= y
    <3>1. SUFFICES ASSUME NEW k \in 1..(m + 1) PROVE t[k][1] < t[k][2] /\ t[k][2] <= y
      OBVIOUS
    <3>2. CASE k = m + 1
      BY <1>5, <2>2, <2>3, <3>2
    <3>3. CASE k \in 1..m
      BY <1>2, <1>5, <2>3, <2>6, <3>3
    <3>4. QED
      BY <2>4, <3>2, <3>3
  <2>8. \A k, l \in 1..(m + 1) : k < l => t[k][2] < t[l][1]
    <3>1. SUFFICES ASSUME NEW k \in 1..(m + 1), NEW l \in 1..(m + 1), k < l
                   PROVE  t[k][2] < t[l][1]
      OBVIOUS
    <3>2. k \in 1..m
      BY <1>1, <3>1
    <3>3. CASE l = m + 1
      BY <2>2, <2>3, <2>6, <3>2, <3>3
    <3>4. CASE l \in 1..m
      BY <1>3, <2>3, <3>1, <3>2, <3>4
    <3>5. QED
      BY <2>4, <3>3, <3>4
  <2>9. ASSUME NEW b \in Bins, b < n + 1, bins[b] = 0 PROVE \E k \in 1..(m + 1) : Covered(t[k], b)
    <3>1. CASE b = n
      <4>1. x <= x /\ y <= y
        BY <1>5
      <4>2. Covered(t[m + 1], b)
        BY <2>2, <2>3, <3>1, <4>1 DEF Covered, x, y
      <4>3. QED
        BY <2>5, <4>2
    <3>2. CASE b < n
      BY <1>7, <2>3, <2>5, <2>9, <3>2
    <3>3. QED
      BY <1>10, <2>9, <3>1, <3>2
  <2>10. ASSUME NEW k \in 1..(m + 1), NEW b \in Bins, Covered(t[k], b) PROVE bins[b] = 0
    <3>1. CASE k \in 1..m
      BY <1>8, <2>3, <2>10, <3>1
    <3>2. CASE k = m + 1
      <4>1. x <= BinStart(b) /\ BinEnd(b) <= y
        BY <2>2, <2>3, <2>10, <3>2 DEF Covered
      <4>2. ~(n < b) /\ ~(b < n)
        BY <1>5, <1>9, <4>1
      <4>3. QED
        BY <1>11, <1>15, <4>2
    <3>3. QED
      BY <2>4, <3>1, <3>2
  <2>11. QED
    BY <2>3, <2>7, <2>8, <2>9, <2>10
<1>16. QED
  <2>1. bins[n] \in Nat
    OBVIOUS
  <2>2. bins[n] > 0 \/ bins[n] = 0
    BY <2>1
  <2>3. QED
    BY <1>13, <1>14, <1>15, <2>2

(* The zero intervals cover the empty bins only, and do not touch.         *)
LEMMA ZeroIntervalsAreRuns ==
    ASSUME NEW bins, \A b \in Bins : bins[b] \in Nat
    PROVE  /\ \A b \in Bins : bins[b] = 0 <=> \E z \in ZeroIntervals(bins) : Covered(z, b)
           /\ \A y, z \in ZeroIntervals(bins) : y[2] # z[1]
<1>1. PICK f : Zeroed(f, BinCount, bins) /\ ZeroIntervals(bins) = ToSet(f[BinCount])
  BY ZeroIntervalsIsLast
<1>2. BinCount \in Nat /\ BinCount > 0 /\ Bins = 0..(BinCount - 1)
  BY BinsCut DEF Bins
<1> DEFINE N == BinCount
           I == {i \in Nat : i <= N => ZeroOK(f[i], i, bins)}
<1>3. 0 \in I
  <2>1. f[0] = <<>>
    BY <1>1, <1>2 DEF Zeroed
  <2>2. <<>> \in Seq(Int \X Int) /\ Len(<<>>) = 0
    BY EmptySeq
  <2>3. 1..0 = {} /\ \A b \in Bins : ~(b < 0)
    BY <1>2
  <2>4. ZeroOK(f[0], 0, bins)
    BY <2>1, <2>2, <2>3 DEF ZeroOK
  <2>5. QED
    BY <2>4
<1>4. ASSUME NEW i \in Nat, i \in I PROVE i + 1 \in I
  <2>1. SUFFICES ASSUME i + 1 <= N PROVE ZeroOK(f[i + 1], i + 1, bins)
    OBVIOUS
  <2>2. i \in Bins /\ i <= N /\ i + 1 \in 0..N /\ i + 1 # 0 /\ (i + 1) - 1 = i
    BY <1>2, <2>1
  <2>3. ZeroOK(f[i], i, bins)
    BY <1>4, <2>2
  <2>4. f[i + 1] = ZeroStep(bins, i, f[i])
    BY <1>1, <2>2 DEF Zeroed
  <2>5. QED
    BY <2>2, <2>3, <2>4, ZeroStepKeeps
<1> HIDE DEF I
<1>5. \A i \in Nat : i \in I
  BY <1>3, <1>4, NaturalsBySteps, Zenon
<1> DEFINE found == f[N]
           m == Len(found)
<1>6. ZeroOK(found, N, bins)
  <2>1. N \in I /\ N <= N
    BY <1>2, <1>5
  <2>2. QED
    BY <2>1 DEF I
<1>7. m \in Nat /\ DOMAIN found = 1..m /\ \A k \in 1..m : found[k] \in Int \X Int
  BY <1>6, LenProperties, ElementOfSeq DEF ZeroOK
<1>8. \A k \in 1..m : found[k][1] \in Int /\ found[k][2] \in Int /\ found[k][1] < found[k][2]
  BY <1>6, <1>7 DEF ZeroOK
<1>9. \A k, l \in 1..m : k < l => found[k][2] < found[l][1]
  BY <1>6 DEF ZeroOK
<1>10. \A b \in Bins : b < N
  BY <1>2
<1>11. \A b \in Bins : bins[b] = 0 <=> \E k \in 1..m : Covered(found[k], b)
  BY <1>6, <1>10 DEF ZeroOK
<1>12. ZeroIntervals(bins) = {found[k] : k \in 1..m}
  BY <1>1, <1>7 DEF ToSet
<1> HIDE DEF found, m, N
<1>13. ASSUME NEW k \in 1..m, NEW l \in 1..m PROVE found[k][2] # found[l][1]
  <2>1. /\ found[k][1] \in Int /\ found[k][2] \in Int /\ found[k][1] < found[k][2]
        /\ found[l][1] \in Int /\ found[l][2] \in Int /\ found[l][1] < found[l][2]
    BY <1>8
  <2>2. k < l \/ k = l \/ l < k
    BY <1>7
  <2>3. CASE k < l
    BY <1>9, <2>1, <2>3
  <2>4. CASE k = l
    BY <2>1, <2>4
  <2>5. CASE l < k
    <3>1. found[l][2] < found[k][1]
      BY <1>9, <2>5
    <3>2. QED
      BY <2>1, <3>1
  <2>6. QED
    BY <2>2, <2>3, <2>4, <2>5
<1>14. QED
  BY <1>11, <1>12, <1>13

(* What is plotted of the payload adds up to what was retained.            *)
LEMMA BinsAgree == ASSUME NEW es \in Seq(EnvelopeType) PROVE BinsReconcile(es)
<1> DEFINE bins == PayloadBins(es)
           zero == ZeroIntervals(bins)
<1>1. \A b \in Bins : bins[b] \in Nat
  BY BinsHoldAll
<1>2. /\ \A b \in Bins : bins[b] = 0 <=> \E z \in zero : Covered(z, b)
      /\ \A y, z \in zero : y[2] # z[1]
  <2> HIDE DEF bins
  <2>1. QED
    BY <1>1, ZeroIntervalsAreRuns
<1>3. \A b \in Bins :
         bins[b] = 0 <=> \E z \in zero : z[1] <= BinStart(b) /\ BinEnd(b) <= z[2]
  <2> HIDE DEF bins, zero
  <2>1. QED
    BY <1>2 DEF Covered
<1>4. QED
  BY <1>2, <1>3, BinsHoldAll, AcceptedAgrees DEF BinsReconcile

(* What is plotted adds up to what was retained.                           *)
THEOREM EvidenceAddsUp == Spec => []EvidenceReconciles
<1>1. LogOK => EvidenceReconciles
  <2>1. SUFFICES ASSUME LogOK PROVE EvidenceReconciles
    OBVIOUS
  <2>2. tool = "payload" => BinsReconcile(log)
    BY <2>1, BinsAgree DEF LogOK
  <2>3. tool = "cases" => CasesReconcile(log)
    BY <2>1, CasesAgree DEF LogOK
  <2>4. ASSUME tool = "rates" PROVE RatesReconcile(Aligned(log, 0, 1))
    <3>1. log \in Seq(RateRow)
      BY <2>1, <2>4 DEF LogOK
    <3>2. Aligned(log, 0, 1) \in Seq(RateRow)
      BY <3>1, OnlyThins DEF Aligned
    <3>3. QED
      BY <3>2, RatesTelescope
  <2>5. QED
    BY <2>2, <2>3, <2>4 DEF EvidenceReconciles
<1>2. QED
  BY <1>1, LogTypes, PTL

-----------------------------------------------------------------------------
(* The parts of a conversion                                               *)

(* f is the table that the definition of FlattenSeq computes, up to n.     *)
Joined(f, n, s) == f = [i \in 1..n |-> IF i = 1 THEN s[i] ELSE f[i - 1] \o s[i]]

(* The table exists.                                                       *)
LEMMA JoinedExists == ASSUME NEW s PROVE \A n \in Nat : \E f : Joined(f, n, s)
<1> DEFINE I == {n \in Nat : \E f : Joined(f, n, s)}
<1>1. 0 \in I
  <2>1. Joined([i \in 1..0 |-> 0], 0, s)
    BY DEF Joined
  <2>2. QED
    BY <2>1
<1>2. ASSUME NEW n \in Nat, n \in I PROVE n + 1 \in I
  <2>1. PICK f : Joined(f, n, s)
    BY <1>2
  <2> DEFINE last == IF n = 0 THEN s[n + 1] ELSE f[n] \o s[n + 1]
             g == [i \in 1..(n + 1) |-> IF i = n + 1 THEN last ELSE f[i]]
  <2>2. (\A i \in 1..n : g[i] = f[i]) /\ g[n + 1] = last
    <3> HIDE DEF last
    <3>1. \A i \in 1..n : i \in 1..(n + 1) /\ i # n + 1
      OBVIOUS
    <3>2. n + 1 \in 1..(n + 1)
      OBVIOUS
    <3>3. QED
      BY <3>1, <3>2
  <2>3. \A i \in 1..n : f[i] = IF i = 1 THEN s[i] ELSE f[i - 1] \o s[i]
    BY <2>1 DEF Joined
  <2>4. g = [i \in 1..(n + 1) |-> g[i]]
    OBVIOUS
  <2> HIDE DEF g
  <2>5. ASSUME NEW i \in 1..(n + 1)
        PROVE  g[i] = IF i = 1 THEN s[i] ELSE g[i - 1] \o s[i]
    <3>1. CASE i = n + 1
      <4>1. CASE n = 0
        BY <2>2, <3>1, <4>1
      <4>2. CASE n # 0
        <5>1. n \in 1..n /\ i # 1 /\ i - 1 = n
          BY <3>1, <4>2
        <5>2. g[n] = f[n]
          BY <2>2, <5>1
        <5>3. QED
          BY <2>2, <3>1, <4>2, <5>1, <5>2, Zenon
      <4>3. QED
        BY <4>1, <4>2
    <3>2. CASE i = 1 /\ i # n + 1
      <4>1. i \in 1..n
        BY <3>2
      <4>2. QED
        BY <2>2, <2>3, <3>2, <4>1
    <3>3. CASE i # 1 /\ i # n + 1
      <4>1. i \in 1..n /\ i - 1 \in 1..n
        BY <3>3
      <4>2. g[i] = f[i] /\ g[i - 1] = f[i - 1]
        BY <2>2, <4>1
      <4>3. QED
        BY <2>3, <3>3, <4>1, <4>2, Zenon
    <3>4. QED
      BY <3>1, <3>2, <3>3
  <2>6. Joined(g, n + 1, s)
    BY <2>4, <2>5 DEF Joined
  <2>7. QED
    BY <2>6
<1> HIDE DEF I
<1>3. \A n \in Nat : n \in I
  BY <1>1, <1>2, NaturalsBySteps, Zenon
<1>4. QED
  BY <1>3 DEF I

(* A list of lists is joined from its first on.                            *)
LEMMA FlattenIsLast ==
    ASSUME NEW s, NEW n \in Nat, n > 0, Len(s) = n
    PROVE  \E f : /\ FlattenSeq(s) = f[n] /\ f[1] = s[1]
                  /\ \A i \in 2..n : f[i] = f[i - 1] \o s[i]
<1> DEFINE f == CHOOSE f : Joined(f, Len(s), s)
<1>1. Joined(f, Len(s), s)
  BY JoinedExists, Zenon
<1>2. FlattenSeq(s) = f[n]
  BY DEF FlattenSeq, Joined
<1> HIDE DEF f
<1>3. \A i \in 1..n : f[i] = IF i = 1 THEN s[i] ELSE f[i - 1] \o s[i]
  BY <1>1 DEF Joined
<1>4. 1 \in 1..n /\ \A i \in 2..n : i \in 1..n /\ i # 1
  OBVIOUS
<1>5. f[1] = s[1] /\ \A i \in 2..n : f[i] = f[i - 1] \o s[i]
  BY <1>3, <1>4
<1>6. QED
  BY <1>2, <1>5

(* One list more comes last.                                               *)
LEMMA FlattenOfOneMore ==
    ASSUME NEW S, NEW s, NEW t \in Seq(Seq(S)), NEW n \in Nat, Len(s) = n + 1, Len(t) = n,
           s[n + 1] \in Seq(S), \A i \in 1..n : s[i] = t[i]
    PROVE  FlattenSeq(s) = FlattenSeq(t) \o s[n + 1]
<1>1. n + 1 \in Nat /\ n + 1 > 0
  OBVIOUS
<1>2. PICK f : /\ FlattenSeq(s) = f[n + 1] /\ f[1] = s[1]
               /\ \A i \in 2..(n + 1) : f[i] = f[i - 1] \o s[i]
  BY <1>1, FlattenIsLast
<1>3. CASE n = 0
  <2>1. t = <<>>
    BY <1>3, EmptySeq
  <2>2. FlattenSeq(t) = t
    BY <1>3 DEF FlattenSeq
  <2>3. <<>> \o s[n + 1] = s[n + 1]
    BY ConcatEmptySeq
  <2>4. n + 1 = 1
    BY <1>3
  <2>5. QED
    BY <1>2, <2>1, <2>2, <2>3, <2>4
<1>4. CASE n > 0
  <2>1. PICK g : /\ FlattenSeq(t) = g[n] /\ g[1] = t[1]
                 /\ \A i \in 2..n : g[i] = g[i - 1] \o t[i]
    BY <1>4, FlattenIsLast
  <2> DEFINE I == {i \in Nat : i + 1 <= n => f[i + 1] = g[i + 1]}
  <2>2. 0 \in I
    <3>1. 1 \in 1..n /\ 0 + 1 = 1
      BY <1>4
    <3>2. QED
      BY <1>2, <2>1, <3>1
  <2>3. ASSUME NEW i \in Nat, i \in I PROVE i + 1 \in I
    <3> DEFINE k == (i + 1) + 1
    <3>1. SUFFICES ASSUME k <= n PROVE f[k] = g[k]
      OBVIOUS
    <3>2. k \in 2..n /\ k \in 2..(n + 1) /\ k \in 1..n /\ k - 1 = i + 1 /\ f[i + 1] = g[i + 1]
      BY <2>3, <3>1
    <3>3. f[k] = f[k - 1] \o s[k] /\ g[k] = g[k - 1] \o t[k] /\ s[k] = t[k]
      BY <1>2, <2>1, <3>2
    <3>4. QED
      BY <3>2, <3>3
  <2> HIDE DEF I
  <2>4. \A i \in Nat : i \in I
    BY <2>2, <2>3, NaturalsBySteps, Zenon
  <2>5. f[n] = g[n]
    <3>1. n - 1 \in Nat /\ (n - 1) + 1 = n /\ n <= n
      BY <1>4
    <3>2. n - 1 \in I
      BY <2>4, <3>1
    <3>3. QED
      BY <3>1, <3>2 DEF I
  <2>6. n + 1 \in 2..(n + 1) /\ (n + 1) - 1 = n
    BY <1>4
  <2>7. f[n + 1] = f[n] \o s[n + 1]
    BY <1>2, <2>6
  <2>8. QED
    BY <1>2, <2>1, <2>5, <2>7
<1>5. QED
  BY <1>3, <1>4

(* What is joined is a list of the members.                                *)
LEMMA FlattenType == ASSUME NEW S, NEW t \in Seq(Seq(S)) PROVE FlattenSeq(t) \in Seq(S)
<1> DEFINE n == Len(t)
<1>1. n \in Nat /\ \A i \in 1..n : t[i] \in Seq(S)
  BY LenProperties, ElementOfSeq
<1>2. CASE n = 0
  <2>1. t = <<>> /\ FlattenSeq(t) = t
    BY <1>2, EmptySeq DEF FlattenSeq
  <2>2. QED
    BY <2>1, EmptySeq
<1>3. CASE n > 0
  <2> HIDE DEF n
  <2>1. PICK g : /\ FlattenSeq(t) = g[n] /\ g[1] = t[1]
                 /\ \A i \in 2..n : g[i] = g[i - 1] \o t[i]
    BY <1>1, <1>3, FlattenIsLast DEF n
  <2> DEFINE I == {i \in Nat : i + 1 <= n => g[i + 1] \in Seq(S)}
  <2>2. 0 \in I
    <3>1. 1 \in 1..n /\ 0 + 1 = 1
      BY <1>1, <1>3
    <3>2. QED
      BY <1>1, <2>1, <3>1
  <2>3. ASSUME NEW i \in Nat, i \in I PROVE i + 1 \in I
    <3> DEFINE k == (i + 1) + 1
    <3>1. SUFFICES ASSUME k <= n PROVE g[k] \in Seq(S)
      OBVIOUS
    <3>2. k \in 2..n /\ k \in 1..n /\ k - 1 = i + 1 /\ g[i + 1] \in Seq(S)
      BY <1>1, <2>3, <3>1
    <3>3. g[k] = g[k - 1] \o t[k] /\ t[k] \in Seq(S)
      BY <1>1, <2>1, <3>2
    <3>4. QED
      BY <3>2, <3>3, ConcatProperties
  <2> HIDE DEF I
  <2>4. \A i \in Nat : i \in I
    BY <2>2, <2>3, NaturalsBySteps, Zenon
  <2>5. n - 1 \in Nat /\ (n - 1) + 1 = n /\ n <= n
    BY <1>1, <1>3
  <2>6. n - 1 \in I
    BY <2>4, <2>5
  <2>7. g[n] \in Seq(S)
    BY <2>5, <2>6 DEF I
  <2>8. QED
    BY <2>1, <2>7
<1>4. QED
  BY <1>1, <1>2, <1>3

JoinAlike(p, q, r) == (p \o q) \o r = p \o (q \o r)

(* Joining is associative.                                                 *)
LEMMA JoiningIsAssociative ==
    ASSUME NEW S, NEW p \in Seq(S), NEW q \in Seq(S), NEW r \in Seq(S)
    PROVE  JoinAlike(p, q, r)
BY ConcatAssociative DEF JoinAlike

(* A list that grows at the end of its last member does at its end.        *)
LEMMA FlattenOfLonger ==
    ASSUME NEW S, NEW s \in Seq(Seq(S)), s # <<>>, NEW x \in Seq(S), NEW m, m = Len(s),
           NEW t, Len(t) = m, t[m] = s[m] \o x, \A i \in 1..m : i # m => t[i] = s[i]
    PROVE  FlattenSeq(t) = FlattenSeq(s) \o x
<1>1. m \in Nat /\ m > 0 /\ \A i \in 1..m : s[i] \in Seq(S)
  BY LenProperties, ElementOfSeq, EmptySeq
<1> DEFINE k == m - 1
           u == SubSeq(s, 1, k)
<1>2. k \in Nat /\ k + 1 = m /\ m \in 1..m /\ \A i \in 1..k : i \in 1..m /\ i # m
  BY <1>1
<1>3. u \in Seq(Seq(S)) /\ Len(u) = k /\ \A i \in 1..k : u[i] = s[i]
  <2>1. \A i \in 1..k : s[i] \in Seq(S)
    BY <1>1, <1>2
  <2>2. 1 \in Int /\ k \in Int /\ k - 1 + 1 = k /\ (IF 1 <= k THEN k - 1 + 1 ELSE 0) = k
        /\ \A i \in 1..k : 1 + i - 1 = i
    BY <1>2
  <2> HIDE DEF k
  <2>3. /\ u \in Seq(Seq(S)) /\ Len(u) = IF 1 <= k THEN k - 1 + 1 ELSE 0
        /\ \A i \in 1..(k - 1 + 1) : u[i] = s[1 + i - 1]
    BY <2>1, <2>2, SubSeqProperties
  <2> HIDE DEF u
  <2>4. QED
    BY <2>2, <2>3
<1> HIDE DEF k, u
<1>4. s[m] \in Seq(S) /\ t[m] \in Seq(S)
  BY <1>1, <1>2, ConcatProperties
<1>5. FlattenSeq(s) = FlattenSeq(u) \o s[m]
  <2>1. Len(s) = k + 1 /\ s[k + 1] \in Seq(S) /\ \A i \in 1..k : s[i] = u[i]
    BY <1>2, <1>3, <1>4
  <2>2. FlattenSeq(s) = FlattenSeq(u) \o s[k + 1]
    BY <1>2, <1>3, <2>1, FlattenOfOneMore
  <2>3. QED
    BY <1>2, <2>2
<1>6. FlattenSeq(t) = FlattenSeq(u) \o t[m]
  <2>1. Len(t) = k + 1 /\ t[k + 1] \in Seq(S) /\ \A i \in 1..k : t[i] = u[i]
    BY <1>2, <1>3, <1>4
  <2>2. FlattenSeq(t) = FlattenSeq(u) \o t[k + 1]
    BY <1>2, <1>3, <2>1, FlattenOfOneMore
  <2>3. QED
    BY <1>2, <2>2
<1>7. FlattenSeq(u) \in Seq(S)
  BY <1>3, FlattenType
<1>8. (FlattenSeq(u) \o s[m]) \o x = FlattenSeq(u) \o (s[m] \o x)
  <2> DEFINE a == FlattenSeq(u)
             b == s[m]
  <2>1. a \in Seq(S) /\ b \in Seq(S) /\ x \in Seq(S)
    BY <1>4, <1>7
  <2> HIDE DEF a, b
  <2>2. JoinAlike(a, b, x)
    BY <2>1, JoiningIsAssociative
  <2>3. QED
    BY <2>2 DEF JoinAlike, a, b
<1>9. QED
  BY <1>5, <1>6, <1>8

(* Something is written, and it fits.                                      *)
LEMMA TakeFits ==
    ASSUME NEW left \in Nat, left > 0, NEW used \in Nat, PartLimit > 0 => used < PartLimit
    PROVE  /\ Take(left, used) \in 1..left
           /\ PartLimit > 0 => used + Take(left, used) <= PartLimit
BY PreparationAssumption DEF Take, Smaller

(* What has been written is the beginning of the names, and every part but *)
(* the last is full.                                                       *)
WrittenOK(names, S, acc) ==
    /\ acc.start \in 0..Len(names) /\ acc.parts \in Seq(Seq(S))
    /\ FlattenSeq(acc.parts) = SubSeq(names, 1, acc.start)
    /\ PartLimit > 0 =>
          \A p \in 1..Len(acc.parts) :
              /\ Len(acc.parts[p]) \in 1..PartLimit
              /\ p < Len(acc.parts) => Len(acc.parts[p]) = PartLimit

(* One pass keeps that, and comes further.                                 *)
LEMMA PassWrites ==
    ASSUME NEW S, NEW names \in Seq(S), NEW acc, WrittenOK(names, S, acc)
    PROVE  /\ WrittenOK(names, S, Pass(names, acc))
           /\ acc.start < Len(names) => Pass(names, acc).start > acc.start
<1> DEFINE n == Len(names)
           start == acc.start
           parts == acc.parts
           m == Len(parts)
<1>1. /\ n \in Nat /\ start \in 0..n /\ parts \in Seq(Seq(S)) /\ m \in Nat
      /\ \A p \in 1..m : parts[p] \in Seq(S)
  BY LenProperties, ElementOfSeq DEF WrittenOK
<1>2. FlattenSeq(parts) = SubSeq(names, 1, start)
  BY DEF WrittenOK
<1>3. PartLimit > 0 =>
         \A p \in 1..m :
            /\ Len(parts[p]) \in 1..PartLimit
            /\ p < m => Len(parts[p]) = PartLimit
  BY DEF WrittenOK
<1>4. PartLimit \in Nat
  BY PreparationAssumption
<1>5. CASE start = n
  <2>1. Pass(names, acc) = acc
    BY <1>5 DEF Pass
  <2>2. QED
    BY <1>1, <1>5, <2>1
<1>6. SUFFICES ASSUME start # n
               PROVE  WrittenOK(names, S, Pass(names, acc)) /\ Pass(names, acc).start > start
  BY <1>5
<1> DEFINE open == IF NeedsPart(parts) THEN Append(parts, <<>>) ELSE parts
           last == Len(open)
           used == Len(open[last])
           k == Take(n - start, used)
           x == SubSeq(names, start + 1, start + k)
           t == [open EXCEPT ![last] = @ \o x]
<1>7. Pass(names, acc) = [start |-> start + k, parts |-> t]
  BY <1>6 DEF Pass
<1> HIDE DEF start, parts, m, n
(* Where the names go.                                                     *)
<1>8. /\ open \in Seq(Seq(S)) /\ last \in Nat /\ last > 0 /\ open[last] \in Seq(S)
      /\ used \in Nat /\ (PartLimit > 0 => used < PartLimit)
      /\ FlattenSeq(open) = SubSeq(names, 1, start)
      /\ PartLimit > 0 => \A p \in 1..last : p < last => Len(open[p]) = PartLimit
  <2>1. CASE NeedsPart(parts)
    <3>1. <<>> \in Seq(S) /\ Len(<<>>) = 0
      BY EmptySeq
    <3>2. open = Append(parts, <<>>)
      BY <2>1
    <3> HIDE DEF open
    <3>3. /\ open \in Seq(Seq(S)) /\ Len(open) = m + 1
          /\ (\A p \in 1..m : open[p] = parts[p]) /\ open[m + 1] = <<>>
      BY <1>1, <3>1, <3>2, AppendProperties DEF m
    <3>4. last = m + 1 /\ used = 0 /\ open[last] = <<>>
      BY <3>1, <3>3
    <3>5. FlattenSeq(open) = SubSeq(names, 1, start)
      <4>1. Len(parts) = m
        BY DEF m
      <4>2. FlattenSeq(open) = FlattenSeq(parts) \o open[m + 1]
        BY <1>1, <3>1, <3>3, <4>1, FlattenOfOneMore
      <4>3. FlattenSeq(parts) \in Seq(S)
        BY <1>1, FlattenType
      <4>4. FlattenSeq(parts) \o <<>> = FlattenSeq(parts)
        BY <4>3, ConcatEmptySeq
      <4>5. QED
        BY <1>2, <3>3, <4>2, <4>4
    <3>6. ASSUME PartLimit > 0, NEW p \in 1..last, p < last PROVE Len(open[p]) = PartLimit
      <4>1. p \in 1..m
        BY <1>1, <3>4, <3>6
      <4>2. open[p] = parts[p] /\ Len(parts[p]) \in 1..PartLimit
        <5>1. open[p] = parts[p]
          BY <3>3, <4>1
        <5>2. Len(parts[p]) \in 1..PartLimit
          BY <1>3, <3>6, <4>1
        <5>3. QED
          BY <5>1, <5>2
      <4>3. CASE p < m
        BY <1>3, <3>6, <4>1, <4>2, <4>3
      <4>4. CASE p = m
        <5>1. parts # <<>>
          <6>1. m # 0
            BY <1>1, <4>1
          <6>2. QED
            BY <3>1, <6>1 DEF m
        <5>2. Len(Last(parts)) >= PartLimit
          BY <2>1, <5>1 DEF NeedsPart
        <5>3. Last(parts) = parts[p]
          BY <4>4 DEF Last, m
        <5>4. QED
          BY <1>4, <4>2, <5>2, <5>3
      <4>5. QED
        BY <1>1, <4>1, <4>3, <4>4
    <3>7. QED
      BY <1>1, <3>1, <3>3, <3>4, <3>5, <3>6
  <2>2. CASE ~NeedsPart(parts)
    <3>1. open = parts /\ parts # <<>>
      BY <2>2 DEF NeedsPart
    <3> HIDE DEF open
    <3>2. last = m /\ m \in 1..m /\ m > 0
      BY <1>1, <3>1, EmptySeq DEF m
    <3>3. open[last] = parts[m] /\ parts[m] \in Seq(S)
      BY <1>1, <3>1, <3>2
    <3>4. used \in Nat
      BY <3>3, LenProperties
    <3>5. PartLimit > 0 => used < PartLimit
      <4>1. Last(parts) = parts[m]
        BY DEF Last, m
      <4>2. PartLimit > 0 => ~(Len(parts[m]) >= PartLimit)
        BY <2>2, <4>1 DEF NeedsPart
      <4>3. used = Len(parts[m])
        BY <3>3
      <4> HIDE DEF used
      <4>4. QED
        BY <1>4, <3>4, <4>2, <4>3
    <3>6. FlattenSeq(open) = SubSeq(names, 1, start)
      BY <1>2, <3>1
    <3>7. ASSUME PartLimit > 0, NEW p \in 1..last, p < last PROVE Len(open[p]) = PartLimit
      <4>1. p \in 1..m /\ p < m
        BY <3>2, <3>7
      <4>2. Len(parts[p]) = PartLimit
        BY <1>3, <3>7, <4>1
      <4>3. QED
        BY <3>1, <4>2
    <3>8. open \in Seq(Seq(S)) /\ last \in Nat /\ last > 0 /\ open[last] \in Seq(S)
      BY <1>1, <3>1, <3>2, <3>3
    <3> HIDE DEF last, used
    <3>9. QED
      BY <3>4, <3>5, <3>6, <3>7, <3>8
  <2>3. QED
    BY <2>1, <2>2
<1> HIDE DEF open, last, used
<1>9. /\ k \in 1..(n - start) /\ (PartLimit > 0 => used + k <= PartLimit)
      /\ start + k \in 0..n /\ start + k > start
  <2>1. n - start \in Nat /\ n - start > 0
    BY <1>1, <1>6
  <2>2. k \in 1..(n - start) /\ (PartLimit > 0 => used + k <= PartLimit)
    BY <1>8, <2>1, TakeFits
  <2> HIDE DEF k
  <2>3. QED
    BY <1>1, <2>2
<1> HIDE DEF k
<1>10. x \in Seq(S) /\ Len(x) = k
  <2>1. \A i \in (start + 1)..(start + k) : names[i] \in S
    <3>1. \A i \in (start + 1)..(start + k) : i \in 1..n
      BY <1>1, <1>9
    <3>2. QED
      BY <3>1, ElementOfSeq DEF n
  <2>2. start + 1 \in Int /\ start + k \in Int /\ start + 1 <= start + k
        /\ (start + k) - (start + 1) + 1 = k
    BY <1>1, <1>9
  <2>3. /\ x \in Seq(S)
        /\ Len(x) = IF start + 1 <= start + k THEN (start + k) - (start + 1) + 1 ELSE 0
    BY <2>1, <2>2, SubSeqProperties
  <2>4. QED
    BY <2>2, <2>3
<1>11. SubSeq(names, 1, start) \o x = SubSeq(names, 1, start + k)
  <2>1. 1 \in 1..(Len(names) + 1) /\ start \in (1 - 1)..Len(names) /\ start + k \in start..Len(names)
    BY <1>1, <1>9 DEF n
  <2>2. QED
    BY <2>1, ConcatAdjacentSubSeq
<1> HIDE DEF x
<1> DEFINE y == open[last] \o x
<1>12. y \in Seq(S) /\ Len(y) = used + k
  BY <1>8, <1>10, ConcatProperties DEF used
<1>13. last \in 1..last /\ Len(open) = last
  BY <1>8 DEF last
<1>14. t = [open EXCEPT ![last] = y]
  OBVIOUS
<1> HIDE DEF t, y
<1>15. /\ t \in Seq(Seq(S)) /\ Len(t) = last
       /\ \A p \in 1..last : t[p] = IF p = last THEN y ELSE open[p]
  BY <1>8, <1>12, <1>13, <1>14, ExceptSeq
<1>16. t[last] = y /\ \A p \in 1..last : p # last => t[p] = open[p]
  BY <1>13, <1>15
<1>17. FlattenSeq(t) = SubSeq(names, 1, start + k)
  <2>1. open # <<>>
    BY <1>8, <1>13, EmptySeq
  <2>2. t[last] = open[last] \o x
    BY <1>16 DEF y
  <2>3. open \in Seq(Seq(S)) /\ x \in Seq(S) /\ last = Len(open) /\ Len(t) = last
    BY <1>8, <1>10, <1>13, <1>15
  <2>4. \A p \in 1..last : p # last => t[p] = open[p]
    BY <1>16
  <2>5. FlattenSeq(t) = FlattenSeq(open) \o x
    BY <2>1, <2>2, <2>3, <2>4, FlattenOfLonger
  <2>6. QED
    BY <1>8, <1>11, <2>5
<1>18. ASSUME PartLimit > 0, NEW p \in 1..last
       PROVE  Len(t[p]) \in 1..PartLimit /\ (p < last => Len(t[p]) = PartLimit)
  <2>1. CASE p = last
    <3>1. Len(t[p]) = used + k /\ ~(p < last)
      BY <1>8, <1>12, <1>16, <2>1
    <3>2. used + k \in 1..PartLimit
      <4>1. k \in Nat /\ k >= 1
        BY <1>1, <1>9
      <4>2. QED
        BY <1>4, <1>8, <1>9, <1>18, <4>1
    <3>3. QED
      BY <3>1, <3>2
  <2>2. CASE p # last
    <3>1. p < last
      BY <1>8, <2>2
    <3>2. Len(t[p]) = PartLimit
      BY <1>8, <1>16, <1>18, <2>2, <3>1
    <3>3. QED
      BY <1>4, <1>18, <3>2
  <2>3. QED
    BY <2>1, <2>2
<1>19. QED
  <2> DEFINE q == Pass(names, acc)
  <2>1. q.start = start + k /\ q.parts = t
    BY <1>7
  <2> HIDE DEF q
  <2>2. WrittenOK(names, S, q)
    BY <1>9, <1>15, <1>17, <1>18, <2>1 DEF WrittenOK, n
  <2>3. QED
    BY <1>9, <2>1, <2>2 DEF q

(* f is the table that the definition of Written computes, up to n.        *)
Wrote(f, n, names) ==
    f = [i \in 0..n |-> IF i = 0 THEN [start |-> 0, parts |-> <<>>] ELSE Pass(names, f[i - 1])]

(* The table exists.                                                       *)
LEMMA WroteExists == ASSUME NEW names PROVE \A n \in Nat : \E f : Wrote(f, n, names)
<1> DEFINE I == {n \in Nat : \E f : Wrote(f, n, names)}
           b == [start |-> 0, parts |-> <<>>]
<1>1. 0 \in I
  <2>1. Wrote([i \in 0..0 |-> b], 0, names)
    BY DEF Wrote
  <2>2. QED
    BY <2>1
<1>2. ASSUME NEW n \in Nat, n \in I PROVE n + 1 \in I
  <2>1. PICK f : Wrote(f, n, names)
    BY <1>2
  <2> DEFINE last == Pass(names, f[n])
             g == [i \in 0..(n + 1) |-> IF i = n + 1 THEN last ELSE f[i]]
  <2>2. (\A i \in 0..n : g[i] = f[i]) /\ g[n + 1] = last
    OBVIOUS
  <2> HIDE DEF b
  <2>3. \A i \in 0..n : f[i] = IF i = 0 THEN b ELSE Pass(names, f[i - 1])
    BY <2>1 DEF Wrote, b
  <2>4. ASSUME NEW i \in 0..(n + 1)
        PROVE  g[i] = IF i = 0 THEN b ELSE Pass(names, g[i - 1])
    <3>1. CASE i = n + 1
      <4>1. i # 0 /\ i - 1 = n /\ n \in 0..n
        BY <3>1
      <4>2. g[n] = f[n]
        BY <2>2, <4>1
      <4>3. QED
        BY <2>2, <3>1, <4>1, <4>2, Zenon
    <3>2. CASE i \in 1..n
      <4>1. i # 0 /\ i \in 0..n /\ i - 1 \in 0..n
        BY <3>2
      <4>2. g[i] = f[i] /\ g[i - 1] = f[i - 1]
        BY <2>2, <4>1
      <4>3. QED
        BY <2>3, <4>1, <4>2, Zenon
    <3>3. CASE i = 0
      BY <2>2, <2>3, <3>3
    <3>4. QED
      BY <3>1, <3>2, <3>3
  <2>5. g = [i \in 0..(n + 1) |-> g[i]]
    OBVIOUS
  <2> HIDE DEF g
  <2>6. Wrote(g, n + 1, names)
    BY <2>4, <2>5 DEF Wrote, b
  <2>7. QED
    BY <2>6
<1> HIDE DEF I
<1>3. \A n \in Nat : n \in I
  BY <1>1, <1>2, NaturalsBySteps, Zenon
<1>4. QED
  BY <1>3 DEF I

(* The conversion writes the names in their order, and every part but the  *)
(* last is full, whatever is read at a time and fits into a part: the loop *)
(* of convert_3dgs_ply_to_splat.py.                                        *)
THEOREM PartsKeepTheOrder ==
    ASSUME NEW S, NEW names \in Seq(S)
    PROVE  /\ FlattenSeq(Written(names)) = names
           /\ PartLimit > 0 =>
                 \A p \in DOMAIN Written(names) :
                     /\ Len(Written(names)[p]) \in 1..PartLimit
                     /\ p < Len(Written(names)) => Len(Written(names)[p]) = PartLimit
<1> DEFINE n == Len(names)
           f == CHOOSE f : Wrote(f, Len(names), names)
<1>1. n \in Nat
  BY LenProperties
<1>2. Wrote(f, n, names)
  BY <1>1, WroteExists, Zenon
<1>3. Written(names) = f[n].parts
  BY DEF Written, Wrote
<1> HIDE DEF f, n
<1> DEFINE I == {i \in Nat : i <= n => WrittenOK(names, S, f[i]) /\ f[i].start >= i}
<1>4. 0 \in I
  <2>1. f[0] = [start |-> 0, parts |-> <<>>]
    BY <1>1, <1>2 DEF Wrote
  <2>2. f[0].start = 0 /\ f[0].parts = <<>>
    BY <2>1
  <2>3. <<>> \in Seq(Seq(S)) /\ Len(<<>>) = 0 /\ 1..0 = {}
    BY EmptySeq
  <2>4. FlattenSeq(<<>>) = <<>>
    BY <2>3 DEF FlattenSeq
  <2>5. SubSeq(names, 1, 0) = <<>>
    BY SubSeqEmpty
  <2>6. 0 \in 0..Len(names)
    BY <1>1 DEF n
  <2>7. WrittenOK(names, S, f[0])
    BY <2>2, <2>3, <2>4, <2>5, <2>6 DEF WrittenOK
  <2>8. QED
    BY <2>2, <2>7
<1>5. ASSUME NEW i \in Nat, i \in I PROVE i + 1 \in I
  <2>1. SUFFICES ASSUME i + 1 <= n
                 PROVE  WrittenOK(names, S, f[i + 1]) /\ f[i + 1].start >= i + 1
    OBVIOUS
  <2>2. i + 1 \in 0..n /\ i + 1 # 0 /\ (i + 1) - 1 = i /\ i <= n
    BY <1>1, <2>1
  <2>3. WrittenOK(names, S, f[i]) /\ f[i].start >= i
    BY <1>5, <2>2
  <2>4. f[i + 1] = Pass(names, f[i])
    BY <1>2, <2>2 DEF Wrote
  <2>5. WrittenOK(names, S, f[i + 1]) /\ (f[i].start < n => f[i + 1].start > f[i].start)
    BY <2>3, <2>4, PassWrites DEF n
  <2>6. f[i].start \in 0..n /\ f[i + 1].start \in 0..n
    BY <2>3, <2>5 DEF WrittenOK, n
  <2>7. f[i].start = n => f[i + 1] = f[i]
    BY <2>4 DEF Pass, n
  <2>8. QED
    BY <1>1, <2>1, <2>3, <2>5, <2>6, <2>7
<1> HIDE DEF I
<1>6. \A i \in Nat : i \in I
  BY <1>4, <1>5, NaturalsBySteps, Zenon
<1>7. WrittenOK(names, S, f[n]) /\ f[n].start >= n
  <2>1. n \in I /\ n <= n
    BY <1>1, <1>6
  <2>2. QED
    BY <2>1 DEF I
<1>8. f[n].start = n /\ f[n].parts \in Seq(Seq(S))
  BY <1>1, <1>7 DEF WrittenOK, n
<1>9. FlattenSeq(f[n].parts) = names
  <2>1. FlattenSeq(f[n].parts) = SubSeq(names, 1, n)
    BY <1>7, <1>8 DEF WrittenOK
  <2>2. QED
    BY <2>1, SubSeqFull DEF n
<1>10. DOMAIN f[n].parts = 1..Len(f[n].parts)
  BY <1>8, LenProperties
<1>11. QED
  BY <1>3, <1>7, <1>9, <1>10 DEF WrittenOK
=============================================================================
