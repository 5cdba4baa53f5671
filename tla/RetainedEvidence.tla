-------------------------- MODULE RetainedEvidence --------------------------
(***************************************************************************)
(* plot_scene_experiments.py: what is read out of a retained run before    *)
(* anything is drawn.  Operators only.                                     *)
(*                                                                         *)
(* An envelope is an object event, with its time relative to the start of  *)
(* the trace, its bytes, and whether the player ignored it or refused it;  *)
(* a row of metrics has a connection, a time and a counter of bytes        *)
(* (Missing where the column is empty).  A case is what load_case reads    *)
(* of one run, reduced to what its decisions depend on.                    *)
(***************************************************************************)
EXTENDS Integers, Sequences, SequencesExt, FiniteSetsExt, Lists

CONSTANTS
    Length,         \* trace.nominalDurationMs
    Bin,            \* width of a bin, 100 ms in the code
    Missing         \* an empty counter

ASSUME EvidenceAssumption ==
    Length \in Nat \ {0} /\ Bin \in Nat \ {0} /\ Missing \in Int /\ Missing < 0

----------------------------------------------------------------------------
(* Payload bins                                                            *)

BinCount == (Length + Bin - 1) \div Bin
Bins == 0..(BinCount - 1)
BinStart(b) == b * Bin
BinEnd(b) == IF (b + 1) * Bin <= Length THEN (b + 1) * Bin ELSE Length

Counts(envelope) == envelope.fine
InHorizon(time) == 0 <= time /\ time < Length

(* The bytes of the envelopes numbered in S.                               *)
BytesOf(envelopes, S) ==
    Total([i \in DOMAIN envelopes |-> IF i \in S THEN envelopes[i].bytes ELSE 0])

M_PayloadBins(envelopes) ==
    [b \in Bins |-> BytesOf(envelopes,
        {i \in DOMAIN envelopes : Counts(envelopes[i]) /\ envelopes[i].time \div Bin = b})]
PayloadBins(envelopes) ==
    [b \in Bins |-> BytesOf(envelopes,
        {i \in DOMAIN envelopes :
            /\ Counts(envelopes[i]) /\ InHorizon(envelopes[i].time)
            /\ envelopes[i].time \div Bin = b})]

(* One pass: an empty bin extends the last interval if that ends where the *)
(* bin starts.                                                             *)
ZeroIntervals(bins) ==
    LET Extended(found, b) ==
            IF found # <<>> /\ found[Len(found)][2] = BinStart(b)
            THEN [found EXCEPT ![Len(found)][2] = BinEnd(b)]
            ELSE Append(found, <<BinStart(b), BinEnd(b)>>)
        pass[n \in 0..BinCount] ==
            IF n = 0 THEN <<>>
            ELSE IF bins[n - 1] > 0 THEN pass[n - 1] ELSE Extended(pass[n - 1], n - 1)
    IN ToSet(pass[BinCount])

(* What arrived before the trace, whether it counted or not; what the      *)
(* player accepted up to the horizon must be the sum.                      *)
Pretrace(envelopes) == BytesOf(envelopes, {i \in DOMAIN envelopes : envelopes[i].time < 0})
Envelopes(envelopes) ==
    LET bins == PayloadBins(envelopes) IN Total([n \in 1..BinCount |-> bins[n - 1]])
Reconciled(envelopes, accepted) == accepted = Envelopes(envelopes) + Pretrace(envelopes)

----------------------------------------------------------------------------
(* Rates of the native counters                                            *)

(* The row before it of the same connection, 0 where there is none.        *)
M_Prior(rows, i) == i - 1
Prior(rows, i) ==
    LET before == {j \in 1..(i - 1) : rows[j].connection = rows[i].connection}
    IN IF before = {} THEN 0 ELSE Max(before)

(* Bytes and time of the interval that ends with row i; no rate without a  *)
(* row before it, time between them, both counters, and a counter that     *)
(* has not decreased.                                                      *)
HasRate(rows, i) ==
    LET p == Prior(rows, i)
    IN /\ p > 0
       /\ rows[i].time > rows[p].time
       /\ rows[i].counter # Missing /\ rows[p].counter # Missing
       /\ rows[i].counter >= rows[p].counter

RateBytes(rows, i) == rows[i].counter - rows[Prior(rows, i)].counter

----------------------------------------------------------------------------
(* The case of a run                                                       *)

(* Rows are placed in the trace by the guest's wall clock.                 *)
RelaySeconds(time, offset, started) == time + offset - started
Aligned(rows, offset, started) ==
    Only(rows, {row \in ToSet(rows) : InHorizon(RelaySeconds(row.time, offset, started))})

(* The guest's directory is the one named, or the only one with samples;   *)
(* among several, none is chosen.                                          *)
Guest(c) ==
    IF c.named # "none" THEN c.named
    ELSE IF Cardinality(c.listed \cap c.sampled) = 1
         THEN CHOOSE d \in c.listed \cap c.sampled : TRUE
         ELSE "none"

(* The manifest must agree with what the run and its guest recorded.       *)
Accepted(c) ==
    /\ c.recordedController \in {"none", c.controller}
    /\ Guest(c) # "none" => c.recordedRate[Guest(c)] \in {"none", c.rate}

(* What the gap report says of the case.                                   *)
DataGaps(c) ==
    (IF Guest(c) = "none" THEN {"guest"} ELSE {}) \cup
    (IF Guest(c) \in c.sampled THEN {} ELSE {"samples"}) \cup
    (IF c.status = "PASS" THEN {} ELSE {"validation"})

(* Accepted cases, each identifier once.                                   *)
Identifier(c) == <<c.controller, c.rate>>
Loaded(cases) ==
    /\ \A i \in DOMAIN cases : Accepted(cases[i])
    /\ \A i, j \in DOMAIN cases : Identifier(cases[i]) = Identifier(cases[j]) => i = j

MissingComparisons(cases) ==
    {missing \in {cases[i].rate : i \in DOMAIN cases} \X {"reno", "prague"} :
        ~ \E i \in DOMAIN cases : cases[i].rate = missing[1] /\ cases[i].controller = missing[2]}

RateComparisons(cases) ==
    {controller \in {cases[i].controller : i \in DOMAIN cases} :
        {cases[i].rate : i \in {j \in DOMAIN cases : cases[j].controller = controller}} = {"20mbit", "100mbit"}}

=============================================================================
