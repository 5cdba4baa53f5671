---------------------------- MODULE MCTcpForward ----------------------------
EXTENDS TcpForward

(* Either peer may close its socket at once.                               *)
BothClose == Sides
=============================================================================
