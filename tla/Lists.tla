-------------------------------- MODULE Lists --------------------------------
(***************************************************************************)
(* Loops over a list, as recursive functions: the proof system can reason  *)
(* about these, but neither about SelectSeq nor about folds.               *)
(***************************************************************************)
EXTENDS Integers, Sequences

(* The members of s that are in S, in their order.                         *)
Only(s, S) ==
    LET kept[i \in 0..Len(s)] ==
            IF i = 0 THEN <<>>
            ELSE IF s[i] \in S THEN Append(kept[i - 1], s[i]) ELSE kept[i - 1]
    IN  kept[Len(s)]

(* The sum of the numbers in s.                                            *)
Total(s) ==
    LET sum[i \in 0..Len(s)] == IF i = 0 THEN 0 ELSE sum[i - 1] + s[i]
    IN  sum[Len(s)]
=============================================================================
