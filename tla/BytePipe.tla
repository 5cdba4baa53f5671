----------------------------- MODULE BytePipe -----------------------------
(***************************************************************************)
(* What the sidecar's output queue promises to the threads that write      *)
(* frames and to the bridge that reads standard output: a byte pipe that   *)
(* holds at most Limit bytes.  A byte is named by its position in the      *)
(* stream of accepted bytes, so an in-order, gap-free and duplicate-free   *)
(* stream is 1, 2, 3, ...                                                  *)
(***************************************************************************)
EXTENDS Integers, Sequences

CONSTANT Limit      \* the most bytes accepted and not yet emitted

VARIABLES
    produced,       \* number of bytes accepted from writers
    stdout,         \* the bytes the reader's end has taken, in order
    mode            \* "open", "closing", "drained" or "broken"

pipeVars == <<produced, stdout, mode>>

PipeInit ==
    /\ produced = 0
    /\ stdout = <<>>
    /\ mode = "open"

\* A whole frame of n bytes is accepted, never a part of one.
Accept ==
    /\ mode = "open"
    /\ produced' \in Nat
    /\ produced < produced'
    /\ produced' - Len(stdout) <= Limit
    /\ UNCHANGED <<stdout, mode>>

\* The next k accepted bytes leave, in the order in which they came.
Emit ==
    /\ mode \in {"open", "closing"}
    /\ \E k \in 1..(produced - Len(stdout)) :
          stdout' = stdout \o [i \in 1..k |-> Len(stdout) + i]
    /\ UNCHANGED <<produced, mode>>

Close == mode = "open" /\ mode' = "closing" /\ UNCHANGED <<produced, stdout>>

\* A pipe that closes without an error has delivered every accepted byte.
Drain ==
    /\ mode = "closing"
    /\ Len(stdout) = produced
    /\ mode' = "drained"
    /\ UNCHANGED <<produced, stdout>>

Break ==
    /\ mode \in {"open", "closing"}
    /\ mode' = "broken"
    /\ UNCHANGED <<produced, stdout>>

PipeNext == Accept \/ Emit \/ Close \/ Drain \/ Break

PipeSpec == PipeInit /\ [][PipeNext]_pipeVars
=============================================================================
