---------------------------- MODULE StallAnalysis ----------------------------
(***************************************************************************)
(* analyze_player_stalls.py: from the telemetry of a run and the metrics   *)
(* of its relay to a verdict, PASS or REVIEW.  Operators only; a run r is  *)
(* a record of what analyze() reads:                                       *)
(*   objects   the object events: browser time `at`, native time `native`  *)
(*             (NoTime where it is not recorded);                          *)
(*   rows      the relay's metrics in the order of their times;            *)
(*   origins   unix minus monotonic time of each network sample;           *)
(*   wall      unix minus browser time at the start of the trace;          *)
(*   horizon   whether the counters were taken at the horizon;             *)
(*   counters  whether they say that the whole scene was applied.          *)
(* Times are integers, and the units of the three clocks are the same.     *)
(* Metrics of the subscriber and the reports of subthreshold gaps change   *)
(* no verdict and are left out.                                            *)
(***************************************************************************)
EXTENDS Integers, Sequences, SequencesExt, Lists

CONSTANTS
    Started,        \* trace.startedAtMs
    Duration,       \* trace.nominalDurationMs
    Threshold,      \* --gap-seconds
    NoTime          \* stands for a time that is not recorded

ASSUME StallAssumption ==
    /\ Started \in Nat /\ Duration \in Nat \ {0} /\ Threshold \in Nat \ {0}
    /\ NoTime \in Int /\ NoTime < 0

Horizon == Started + Duration

Later(a, b) == IF a >= b THEN a ELSE b
Earlier(a, b) == IF a <= b THEN a ELSE b
Latest(times) == CHOOSE t \in times : \A u \in times : u <= t

----------------------------------------------------------------------------
(* How long the transfer was pending                                       *)

(* Objects after the horizon make the time of completion ambiguous where   *)
(* the counters are the final ones.                                        *)
Complete(r) ==
    IF r.horizon THEN r.counters
    ELSE r.counters /\ \A e \in r.objects : e.at <= Horizon

InTime(r) == {e.at : e \in {e \in r.objects : e.at <= Horizon}}
Eligible(r) == {e \in r.objects : Started <= e.at /\ e.at <= Horizon}

M_PendingEnd(r) == IF Complete(r) THEN Latest({e.at : e \in r.objects}) ELSE Horizon
PendingEnd(r) == IF Complete(r) THEN Later(Started, Latest(InTime(r))) ELSE Horizon

----------------------------------------------------------------------------
(* The guest's clock                                                       *)

(* The k-th of s in ascending order.                                       *)
Ranked(s, k) ==
    CHOOSE v \in ToSet(s) :
        /\ Cardinality({i \in DOMAIN s : s[i] < v}) < k
        /\ k <= Cardinality({i \in DOMAIN s : s[i] <= v})
Median(s) ==
    LET n == Len(s)
    IN IF n % 2 = 1 THEN Ranked(s, (n + 1) \div 2)
                    ELSE (Ranked(s, n \div 2) + Ranked(s, n \div 2 + 1)) \div 2

Anchors(r) == {e.native - e.at : e \in {e \in r.objects : e.native # NoTime}}

HasClock(r) == r.origins # <<>> \/ Anchors(r) # {}

(* Guest minus browser time: by the wall clocks, or by the fastest object. *)
Offset(r) == IF r.origins # <<>> THEN r.wall - Median(r.origins) ELSE Latest(Anchors(r))

NativeStart(r) == Started + Offset(r)
NativeEnd(r) == PendingEnd(r) + Offset(r)

----------------------------------------------------------------------------
(* Gaps between objects, and between samples                               *)

(* Neighbours among the points of a window and its two ends.               *)
Gaps(points, from, to) ==
    LET selected == {from, to} \cup {p \in points : from <= p /\ p <= to}
    IN {g \in selected \X selected :
           g[1] < g[2] /\ ~ \E p \in selected : g[1] < p /\ p < g[2]}

Long(gap) == gap[2] - gap[1] >= Threshold

ApplicationGaps(r) ==
    {g \in Gaps({e.at : e \in Eligible(r)}, Started, PendingEnd(r)) : Long(g)}

NativeGaps(r) ==
    {g \in Gaps({e.native - Offset(r) : e \in {e \in Eligible(r) : e.native # NoTime}},
                Started, PendingEnd(r)) : Long(g)}

----------------------------------------------------------------------------
(* The sender's own time line                                              *)

Connections(r) == {r.rows[i].connection : i \in DOMAIN r.rows}
RowsOf(r, c) == Only(r.rows, {row \in ToSet(r.rows) : row.connection = c})

(* Row i and the one after it: the part of the window between them, and    *)
(* whether there was data to send in it and none was sent.                 *)
PairStart(r, rows, i) == Later(NativeStart(r), rows[i].at)
PairEnd(r, rows, i) == Earlier(NativeEnd(r), rows[i + 1].at)
StuckPair(r, rows, i) ==
    /\ PairEnd(r, rows, i) > PairStart(r, rows, i)
    /\ rows[i].pending /\ rows[i].sent = rows[i + 1].sent

(* One pass over the neighbouring rows of a connection: a streak begins    *)
(* with a stuck pair and ends with the first pair that is not, or with the *)
(* last row.                                                               *)
M_Streaks(r, rows) ==
    {<<PairStart(r, rows, i), PairEnd(r, rows, i)>> :
        i \in {i \in 1..(Len(rows) - 1) : StuckPair(r, rows, i)}}
Streaks(r, rows) ==
    LET Closed(acc, at) ==
            [from |-> NoTime,
             found |-> IF acc.from = NoTime THEN acc.found
                       ELSE acc.found \cup {<<acc.from, Earlier(NativeEnd(r), at)>>}]
        pass[i \in 0..Len(rows)] ==
            IF i = 0 THEN [from |-> NoTime, found |-> {}]
            ELSE IF i < Len(rows) /\ StuckPair(r, rows, i)
                 THEN [pass[i - 1] EXCEPT !.from = IF @ = NoTime THEN PairStart(r, rows, i) ELSE @]
                 ELSE Closed(pass[i - 1], rows[i].at)
    IN pass[Len(rows)].found

(* add_sender_gap: only streaks of at least the threshold count.           *)
SenderGaps(r) == {g \in UNION {Streaks(r, RowsOf(r, c)) : c \in Connections(r)} : Long(g)}

----------------------------------------------------------------------------
(* What limits the evidence, and the verdict                               *)

InWindow(r, row) == NativeStart(r) <= row.at /\ row.at <= NativeEnd(r)

Decreased(r) ==
    \E c \in Connections(r) :
        LET rows == RowsOf(r, c)
        IN \E i \in 1..(Len(rows) - 1) :
               rows[i + 1].sent < rows[i].sent /\ InWindow(r, rows[i + 1])

(* Too few rows while the transfer was pending, or too far from one        *)
(* another; the rows of all connections count as one coverage.             *)
Sparse(r) ==
    LET window == Only(r.rows, {row \in ToSet(r.rows) : InWindow(r, row)})
    IN /\ PendingEnd(r) > Started
       /\ \/ Len(window) < 2
          \/ \E g \in Gaps({window[i].at : i \in DOMAIN window}, NativeStart(r), NativeEnd(r)) : Long(g)

(* analyze raises without a clock, and for a complete transfer without an  *)
(* object to tell when.                                                    *)
Analyzable(r) == HasClock(r) /\ (Complete(r) => InTime(r) # {})

Candidates(r) == ApplicationGaps(r) \cup NativeGaps(r) \cup SenderGaps(r)

(* The exit status of main: input error, PASS, or REVIEW.                  *)
ExitStatus(r) ==
    IF ~Analyzable(r) THEN 1
    ELSE IF Candidates(r) = {} /\ ~Decreased(r) /\ ~Sparse(r) THEN 0 ELSE 2

=============================================================================
