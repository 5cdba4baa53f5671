-------------------------- MODULE ConnectionProofs --------------------------
(***************************************************************************)
(* The way of a browser to the sidecar: a forwarded connection and the     *)
(* bridge behind it, for any number of chunks, objects and commands and    *)
(* any size of the buffers, of the window and of the pipe.                 *)
(*                                                                         *)
(* The forwarder comes first, then what the bridge's proofs need of lists, *)
(* then the parts of its invariant and every handler, then the results.    *)
(***************************************************************************)
EXTENDS TcpForward, Bridge, SequenceTheorems, WellFoundedInduction, TLAPS

-----------------------------------------------------------------------------
(* The forwarder                                                           *)

(* The connections in which the forwarder is to blame for every loss: both *)
(* were made, the join has not timed out, and no peer has vanished.        *)
Calm == main # "refused" /\ ~timedOut /\ \A s \in Sides : there[s]

(* Every chunk of side s is somewhere between its sender and its reader.   *)
Accounted(s) ==
    sent[s] = inbox[s] + (IF held[s] THEN 1 ELSE 0) + outbox[Peer(s)] + got[Peer(s)]

(* A loop holds a chunk only between recv and sendall, and no chunk of     *)
(* side s is repeated, whatever the peers do.                              *)
InFlight(s) == inbox[s] + (IF held[s] THEN 1 ELSE 0) + outbox[Peer(s)] + got[Peer(s)]
NoneRepeated(s) ==
    /\ held[s] <=> copy[s] = "send"
    /\ main = "connect" => copy[s] = "none"
    /\ InFlight(s) <= sent[s]

(* A copy loop ends only after the last chunk of its side, and only its    *)
(* end shuts the other side.                                               *)
Loop(s) ==
    /\ copy[s] \in {"shut", "done"} => eof[s] /\ inbox[s] = 0
    /\ shut[Peer(s)] => copy[s] = "done"

(* Nothing is reset or cut.                                                *)
Sound(s) == ~reset[s] /\ ~cut[s]

(* handle() closes the sockets when both loops have ended, not before.     *)
Stage ==
    /\ main = "connect" => /\ \A s \in Sides : copy[s] = "none"
                           /\ open["client"]
    /\ main \in {"copying", "join"} => \A s \in Sides : open[s]
    /\ main # "connect" => \A s \in Sides : copy[s] # "none"
    /\ main \in {"join", "close", "returned"} => copy["upstream"] = "done"
    /\ main \in {"close", "returned"} => copy["client"] = "done"
    /\ main # "rejoin"

CalmInv == Stage /\ \A s \in Sides : Accounted(s) /\ Loop(s) /\ Sound(s)

ForwardInv == ForwardTypeOK /\ (\A s \in Sides : NoneRepeated(s)) /\ (Calm => CalmInv)

-----------------------------------------------------------------------------

(* There are two sides, and each is the other's peer.                      *)
LEMMA TwoSides ==
    /\ \A s \in Sides : Peer(s) \in Sides /\ Peer(s) # s /\ Peer(Peer(s)) = s
    /\ \A s, t \in Sides : t = s \/ t = Peer(s)
    /\ "client" \in Sides /\ "upstream" \in Sides
    /\ Peer("client") = "upstream" /\ Peer("upstream") = "client"
BY DEF Sides, Peer

(* At the start nothing has been sent and only the client is connected.    *)
LEMMA ForwardInitInv == ForwardInit => ForwardInv
<1>1. SUFFICES ASSUME ForwardInit PROVE ForwardInv
  OBVIOUS
<1>2. ForwardTypeOK
  <2>1. inbox \in [Sides -> 0..Buffer] /\ outbox \in [Sides -> 0..Buffer]
    BY <1>1, BoundsAssumption DEF ForwardInit
  <2>2. sent \in [Sides -> 0..MaxChunks] /\ got \in [Sides -> 0..MaxChunks]
    BY <1>1, BoundsAssumption DEF ForwardInit
  <2>3. {held, eof, shut, cut, open, reset, there} \subseteq [Sides -> BOOLEAN]
    BY <1>1 DEF ForwardInit
  <2>4. QED
    BY <1>1, <2>1, <2>2, <2>3 DEF ForwardInit, ForwardTypeOK
<1>3. ASSUME NEW s \in Sides PROVE Accounted(s) /\ NoneRepeated(s)
  <2>1. sent[s] = 0 /\ inbox[s] = 0 /\ held[s] = FALSE /\ copy[s] = "none"
    BY <1>1 DEF ForwardInit
  <2>2. outbox[Peer(s)] = 0 /\ got[Peer(s)] = 0
    BY <1>1, TwoSides DEF ForwardInit
  <2>3. QED
    BY <2>1, <2>2 DEF Accounted, NoneRepeated, InFlight
<1>4. ASSUME NEW s \in Sides PROVE Loop(s) /\ Sound(s)
  BY <1>1, TwoSides DEF ForwardInit, Loop, NoneRepeated, Sound
<1>5. Stage
  BY <1>1 DEF ForwardInit, Stage, Sides
<1>6. QED
  BY <1>2, <1>3, <1>4, <1>5 DEF ForwardInv, CalmInv

(* A connection starts with its loops at recv, or is refused.              *)
LEMMA ConnectPreserves ==
    ASSUME ForwardInv, Connect
    PROVE  ForwardInv'
<1>1. ForwardTypeOK'
  <2>1. CASE Close({"client"}) /\ main' = "refused" /\ UNCHANGED copy
    BY <2>1, BoundsAssumption DEF ForwardInv, ForwardTypeOK, Connect, peerVars, Close, Reset
  <2>2. CASE ~(Close({"client"}) /\ main' = "refused" /\ UNCHANGED copy)
    <3>1. open' \in [Sides -> BOOLEAN] /\ copy' = [s \in Sides |-> "recv"] /\ main' = "copying"
      BY <2>2 DEF ForwardInv, ForwardTypeOK, Connect
    <3>2. UNCHANGED <<inbox, outbox, shut, reset>>
      BY <2>2 DEF Connect
    <3>3. QED
      BY <3>1, <3>2 DEF ForwardInv, ForwardTypeOK, Connect, peerVars
  <2>3. QED
    BY <2>1, <2>2
<1>2. ASSUME Calm' PROVE CalmInv'
  <2>1. Calm /\ CalmInv
    BY <1>2 DEF ForwardInv, ForwardTypeOK, Calm, Connect, peerVars, Close, Reset
  <2>2. ASSUME NEW t \in Sides PROVE Accounted(t)'
    BY <1>2, <2>1, TwoSides DEF ForwardInv, ForwardTypeOK, Calm, CalmInv, Stage, Accounted, Loop,
       NoneRepeated, Sound, Connect, peerVars, Close, Reset
  <2>3. ASSUME NEW t \in Sides PROVE Loop(t)' /\ Sound(t)'
    BY <1>2, <2>1, TwoSides DEF ForwardInv, ForwardTypeOK, Calm, CalmInv, Stage, Loop, NoneRepeated,
       Sound, Connect, peerVars, Close, Reset
  <2>4. Stage'
    BY <1>2, <2>1, TwoSides DEF ForwardInv, ForwardTypeOK, Calm, CalmInv, Stage, Loop, NoneRepeated,
       Sound, Connect, peerVars, Close, Reset
  <2>5. QED
    BY <2>2, <2>3, <2>4 DEF CalmInv
<1>3. ASSUME NEW t \in Sides PROVE NoneRepeated(t)'
  BY TwoSides, BoundsAssumption DEF ForwardInv, ForwardTypeOK, NoneRepeated, InFlight, Connect,
     peerVars, Close, Reset
<1>4. QED
  BY <1>1, <1>2, <1>3 DEF ForwardInv

(* The upstream loop has ended.                                            *)
LEMMA CopyReturnsPreserves ==
    ASSUME ForwardInv, CopyReturns
    PROVE  ForwardInv'
<1>1. ForwardTypeOK'
  BY TwoSides, BoundsAssumption DEF ForwardInv, ForwardTypeOK, CopyReturns, peerVars
<1>2. ASSUME Calm' PROVE CalmInv'
  <2>1. Calm /\ CalmInv
    BY <1>2 DEF ForwardInv, ForwardTypeOK, Calm, CopyReturns, peerVars
  <2>2. ASSUME NEW t \in Sides PROVE Accounted(t)'
    BY <1>2, <2>1, TwoSides DEF ForwardInv, ForwardTypeOK, Calm, CalmInv, Stage, Accounted, Loop,
       NoneRepeated, Sound, CopyReturns, peerVars
  <2>3. ASSUME NEW t \in Sides PROVE Loop(t)' /\ Sound(t)'
    BY <1>2, <2>1, TwoSides DEF ForwardInv, ForwardTypeOK, Calm, CalmInv, Stage, Loop, NoneRepeated,
       Sound, CopyReturns, peerVars
  <2>4. Stage'
    BY <1>2, <2>1, TwoSides DEF ForwardInv, ForwardTypeOK, Calm, CalmInv, Stage, Loop, NoneRepeated,
       Sound, CopyReturns, peerVars
  <2>5. QED
    BY <2>2, <2>3, <2>4 DEF CalmInv
<1>3. ASSUME NEW t \in Sides PROVE NoneRepeated(t)'
  BY TwoSides, BoundsAssumption DEF ForwardInv, ForwardTypeOK, NoneRepeated, InFlight, CopyReturns,
     peerVars
<1>4. QED
  BY <1>1, <1>2, <1>3 DEF ForwardInv

(* Both loops have ended, so both sides have ended and were read.          *)
LEMMA JoinedPreserves ==
    ASSUME ForwardInv, Joined
    PROVE  ForwardInv'
<1>1. ForwardTypeOK'
  BY TwoSides, BoundsAssumption DEF ForwardInv, ForwardTypeOK, Joined, peerVars, InboundEnded
<1>2. ASSUME Calm' PROVE CalmInv'
  <2>1. Calm /\ CalmInv
    BY <1>2 DEF ForwardInv, ForwardTypeOK, Calm, Joined, peerVars, InboundEnded
  <2>2. ASSUME NEW t \in Sides PROVE Accounted(t)'
    BY <1>2, <2>1, TwoSides DEF ForwardInv, ForwardTypeOK, Calm, CalmInv, Stage, Accounted, Loop,
       NoneRepeated, Sound, Joined, peerVars, InboundEnded
  <2>3. ASSUME NEW t \in Sides PROVE Loop(t)' /\ Sound(t)'
    BY <1>2, <2>1, TwoSides DEF ForwardInv, ForwardTypeOK, Calm, CalmInv, Stage, Loop, NoneRepeated,
       Sound, Joined, peerVars, InboundEnded
  <2>4. Stage'
    BY <1>2, <2>1, TwoSides DEF ForwardInv, ForwardTypeOK, Calm, CalmInv, Stage, Loop, NoneRepeated,
       Sound, Joined, peerVars, InboundEnded
  <2>5. QED
    BY <2>2, <2>3, <2>4 DEF CalmInv
<1>3. ASSUME NEW t \in Sides PROVE NoneRepeated(t)'
  BY TwoSides, BoundsAssumption DEF ForwardInv, ForwardTypeOK, NoneRepeated, InFlight, Joined,
     peerVars, InboundEnded
<1>4. QED
  BY <1>1, <1>2, <1>3 DEF ForwardInv

(* After the timeout the forwarder promises nothing.                       *)
LEMMA JoinTimesOutPreserves ==
    ASSUME ForwardInv, JoinTimesOut
    PROVE  ForwardInv'
<1>1. ForwardTypeOK'
  BY TwoSides, BoundsAssumption DEF ForwardInv, ForwardTypeOK, JoinTimesOut, peerVars, TimesOut, Cut
<1>2. ASSUME Calm' PROVE CalmInv'
  <2>1. Calm /\ CalmInv
    BY <1>2 DEF ForwardInv, ForwardTypeOK, Calm, JoinTimesOut, peerVars, TimesOut, Cut
  <2>2. ASSUME NEW t \in Sides PROVE Accounted(t)'
    BY <1>2, <2>1, TwoSides DEF ForwardInv, ForwardTypeOK, Calm, CalmInv, Stage, Accounted, Loop,
       NoneRepeated, Sound, JoinTimesOut, peerVars, TimesOut, Cut
  <2>3. ASSUME NEW t \in Sides PROVE Loop(t)' /\ Sound(t)'
    BY <1>2, <2>1, TwoSides DEF ForwardInv, ForwardTypeOK, Calm, CalmInv, Stage, Loop, NoneRepeated,
       Sound, JoinTimesOut, peerVars, TimesOut, Cut
  <2>4. Stage'
    BY <1>2, <2>1, TwoSides DEF ForwardInv, ForwardTypeOK, Calm, CalmInv, Stage, Loop, NoneRepeated,
       Sound, JoinTimesOut, peerVars, TimesOut, Cut
  <2>5. QED
    BY <2>2, <2>3, <2>4 DEF CalmInv
<1>3. ASSUME NEW t \in Sides PROVE NoneRepeated(t)'
  BY TwoSides, BoundsAssumption DEF ForwardInv, ForwardTypeOK, NoneRepeated, InFlight, JoinTimesOut,
     peerVars, TimesOut, Cut
<1>4. QED
  BY <1>1, <1>2, <1>3 DEF ForwardInv

(* As before: the join has timed out.                                      *)
LEMMA RejoinedPreserves ==
    ASSUME ForwardInv, Rejoined
    PROVE  ForwardInv'
<1>1. ForwardTypeOK'
  BY TwoSides, BoundsAssumption DEF ForwardInv, ForwardTypeOK, Rejoined, peerVars
<1>2. ASSUME Calm' PROVE CalmInv'
  <2>1. Calm /\ CalmInv
    BY <1>2 DEF ForwardInv, ForwardTypeOK, Calm, Rejoined, peerVars
  <2>2. ASSUME NEW t \in Sides PROVE Accounted(t)'
    BY <1>2, <2>1, TwoSides DEF ForwardInv, ForwardTypeOK, Calm, CalmInv, Stage, Accounted, Loop,
       NoneRepeated, Sound, Rejoined, peerVars
  <2>3. ASSUME NEW t \in Sides PROVE Loop(t)' /\ Sound(t)'
    BY <1>2, <2>1, TwoSides DEF ForwardInv, ForwardTypeOK, Calm, CalmInv, Stage, Loop, NoneRepeated,
       Sound, Rejoined, peerVars
  <2>4. Stage'
    BY <1>2, <2>1, TwoSides DEF ForwardInv, ForwardTypeOK, Calm, CalmInv, Stage, Loop, NoneRepeated,
       Sound, Rejoined, peerVars
  <2>5. QED
    BY <2>2, <2>3, <2>4 DEF CalmInv
<1>3. ASSUME NEW t \in Sides PROVE NoneRepeated(t)'
  BY TwoSides, BoundsAssumption DEF ForwardInv, ForwardTypeOK, NoneRepeated, InFlight, Rejoined,
     peerVars
<1>4. QED
  BY <1>1, <1>2, <1>3 DEF ForwardInv

(* Nothing is unread when the sockets are closed, so nothing is reset.     *)
LEMMA CloseUpstreamPreserves ==
    ASSUME ForwardInv, CloseUpstream
    PROVE  ForwardInv'
<1>1. ForwardTypeOK'
  BY TwoSides, BoundsAssumption DEF ForwardInv, ForwardTypeOK, CloseUpstream, peerVars, Close, Reset
<1>2. ASSUME Calm' PROVE CalmInv'
  <2>1. Calm /\ CalmInv
    BY <1>2 DEF ForwardInv, ForwardTypeOK, Calm, CloseUpstream, peerVars, Close, Reset
  <2>2. ASSUME NEW t \in Sides PROVE Accounted(t)'
    BY <1>2, <2>1, TwoSides DEF ForwardInv, ForwardTypeOK, Calm, CalmInv, Stage, Accounted, Loop,
       NoneRepeated, Sound, CloseUpstream, peerVars, Close, Reset
  <2>3. ASSUME NEW t \in Sides PROVE Loop(t)' /\ Sound(t)'
    BY <1>2, <2>1, TwoSides DEF ForwardInv, ForwardTypeOK, Calm, CalmInv, Stage, Loop, NoneRepeated,
       Sound, CloseUpstream, peerVars, Close, Reset
  <2>4. Stage'
    BY <1>2, <2>1, TwoSides DEF ForwardInv, ForwardTypeOK, Calm, CalmInv, Stage, Loop, NoneRepeated,
       Sound, CloseUpstream, peerVars, Close, Reset
  <2>5. QED
    BY <2>2, <2>3, <2>4 DEF CalmInv
<1>3. ASSUME NEW t \in Sides PROVE NoneRepeated(t)'
  BY TwoSides, BoundsAssumption DEF ForwardInv, ForwardTypeOK, NoneRepeated, InFlight, CloseUpstream,
     peerVars, Close, Reset
<1>4. QED
  BY <1>1, <1>2, <1>3 DEF ForwardInv

(* Nothing is unread when the sockets are closed, so nothing is reset.     *)
LEMMA CloseClientPreserves ==
    ASSUME ForwardInv, CloseClient
    PROVE  ForwardInv'
<1>1. ForwardTypeOK'
  BY TwoSides, BoundsAssumption DEF ForwardInv, ForwardTypeOK, CloseClient, peerVars, Close, Reset
<1>2. ASSUME Calm' PROVE CalmInv'
  <2>1. Calm /\ CalmInv
    BY <1>2 DEF ForwardInv, ForwardTypeOK, Calm, CloseClient, peerVars, Close, Reset
  <2>2. ASSUME NEW t \in Sides PROVE Accounted(t)'
    BY <1>2, <2>1, TwoSides DEF ForwardInv, ForwardTypeOK, Calm, CalmInv, Stage, Accounted, Loop,
       NoneRepeated, Sound, CloseClient, peerVars, Close, Reset
  <2>3. ASSUME NEW t \in Sides PROVE Loop(t)' /\ Sound(t)'
    BY <1>2, <2>1, TwoSides DEF ForwardInv, ForwardTypeOK, Calm, CalmInv, Stage, Loop, NoneRepeated,
       Sound, CloseClient, peerVars, Close, Reset
  <2>4. Stage'
    BY <1>2, <2>1, TwoSides DEF ForwardInv, ForwardTypeOK, Calm, CalmInv, Stage, Loop, NoneRepeated,
       Sound, CloseClient, peerVars, Close, Reset
  <2>5. QED
    BY <2>2, <2>3, <2>4 DEF CalmInv
<1>3. ASSUME NEW t \in Sides PROVE NoneRepeated(t)'
  BY TwoSides, BoundsAssumption DEF ForwardInv, ForwardTypeOK, NoneRepeated, InFlight, CloseClient,
     peerVars, Close, Reset
<1>4. QED
  BY <1>1, <1>2, <1>3 DEF ForwardInv

(* recv moves a chunk from the socket into the loop.                       *)
LEMMA RecvPreserves ==
    ASSUME ForwardInv, NEW s \in Sides, Recv(s)
    PROVE  ForwardInv'
<1>1. ForwardTypeOK'
  BY TwoSides, BoundsAssumption DEF ForwardInv, ForwardTypeOK, Recv, peerVars, Broken
<1>2. ASSUME Calm' PROVE CalmInv'
  <2>1. Calm /\ CalmInv
    BY <1>2 DEF ForwardInv, ForwardTypeOK, Calm, Recv, peerVars, Broken
  <2>2. ASSUME NEW t \in Sides PROVE Accounted(t)'
    BY <1>2, <2>1, TwoSides DEF ForwardInv, ForwardTypeOK, Calm, CalmInv, Stage, Accounted, Loop,
       NoneRepeated, Sound, Recv, peerVars, Broken
  <2>3. ASSUME NEW t \in Sides PROVE Loop(t)' /\ Sound(t)'
    BY <1>2, <2>1, TwoSides DEF ForwardInv, ForwardTypeOK, Calm, CalmInv, Stage, Loop, NoneRepeated,
       Sound, Recv, peerVars, Broken
  <2>4. Stage'
    BY <1>2, <2>1, TwoSides DEF ForwardInv, ForwardTypeOK, Calm, CalmInv, Stage, Loop, NoneRepeated,
       Sound, Recv, peerVars, Broken
  <2>5. QED
    BY <2>2, <2>3, <2>4 DEF CalmInv
<1>3. ASSUME NEW t \in Sides PROVE NoneRepeated(t)'
  BY TwoSides, BoundsAssumption DEF ForwardInv, ForwardTypeOK, NoneRepeated, InFlight, Recv,
     peerVars, Broken
<1>4. QED
  BY <1>1, <1>2, <1>3 DEF ForwardInv

(* Without a reset, recv ends only when its side has ended and is read.    *)
LEMMA RecvEndsPreserves ==
    ASSUME ForwardInv, NEW s \in Sides, RecvEnds(s)
    PROVE  ForwardInv'
<1>1. ForwardTypeOK'
  BY TwoSides, BoundsAssumption DEF ForwardInv, ForwardTypeOK, RecvEnds, peerVars
<1>2. ASSUME Calm' PROVE CalmInv'
  <2>1. Calm /\ CalmInv
    BY <1>2 DEF ForwardInv, ForwardTypeOK, Calm, RecvEnds, peerVars
  <2>2. ASSUME NEW t \in Sides PROVE Accounted(t)'
    BY <1>2, <2>1, TwoSides DEF ForwardInv, ForwardTypeOK, Calm, CalmInv, Stage, Accounted, Loop,
       NoneRepeated, Sound, RecvEnds, peerVars
  <2>3. ASSUME NEW t \in Sides PROVE Loop(t)' /\ Sound(t)'
    BY <1>2, <2>1, TwoSides DEF ForwardInv, ForwardTypeOK, Calm, CalmInv, Stage, Loop, NoneRepeated,
       Sound, RecvEnds, peerVars
  <2>4. Stage'
    BY <1>2, <2>1, TwoSides DEF ForwardInv, ForwardTypeOK, Calm, CalmInv, Stage, Loop, NoneRepeated,
       Sound, RecvEnds, peerVars
  <2>5. QED
    BY <2>2, <2>3, <2>4 DEF CalmInv
<1>3. ASSUME NEW t \in Sides PROVE NoneRepeated(t)'
  BY TwoSides, BoundsAssumption DEF ForwardInv, ForwardTypeOK, NoneRepeated, InFlight, RecvEnds,
     peerVars
<1>4. QED
  BY <1>1, <1>2, <1>3 DEF ForwardInv

(* sendall moves the chunk on.                                             *)
LEMMA SendAllPreserves ==
    ASSUME ForwardInv, NEW s \in Sides, SendAll(s)
    PROVE  ForwardInv'
<1>1. ForwardTypeOK'
  <2>1. /\ copy' \in [Sides -> {"none", "recv", "send", "shut", "done"}]
        /\ held' \in [Sides -> BOOLEAN]
    BY DEF ForwardInv, ForwardTypeOK, SendAll
  <2>2. CASE there[Peer(s)]
    <3>1. outbox' \in [Sides -> 0..Buffer] /\ UNCHANGED <<inbox, reset>>
      BY <2>2, TwoSides, BoundsAssumption DEF ForwardInv, ForwardTypeOK, SendAll, HasSpace
    <3>2. QED
      BY <2>1, <3>1 DEF ForwardInv, ForwardTypeOK, SendAll, peerVars
  <2>3. CASE ~there[Peer(s)]
    <3>1. Reset({Peer(s)})
      BY <2>3 DEF SendAll
    <3>2. inbox' \in [Sides -> 0..Buffer] /\ outbox' \in [Sides -> 0..Buffer]
      BY <3>1, BoundsAssumption DEF ForwardInv, ForwardTypeOK, Reset
    <3>3. reset' \in [Sides -> BOOLEAN]
      BY <3>1 DEF Reset
    <3>4. QED
      BY <2>1, <3>2, <3>3 DEF ForwardInv, ForwardTypeOK, SendAll, peerVars
  <2>4. QED
    BY <2>2, <2>3
<1>2. ASSUME Calm' PROVE CalmInv'
  <2>1. Calm /\ CalmInv
    BY <1>2 DEF ForwardInv, ForwardTypeOK, Calm, SendAll, peerVars, Refused, Broken, HasSpace, Reset
  <2>2. ASSUME NEW t \in Sides PROVE Accounted(t)'
    BY <1>2, <2>1, TwoSides DEF ForwardInv, ForwardTypeOK, Calm, CalmInv, Stage, Accounted, Loop,
       NoneRepeated, Sound, SendAll, peerVars, Refused, Broken, HasSpace, Reset
  <2>3. ASSUME NEW t \in Sides PROVE Loop(t)' /\ Sound(t)'
    BY <1>2, <2>1, TwoSides DEF ForwardInv, ForwardTypeOK, Calm, CalmInv, Stage, Loop, NoneRepeated,
       Sound, SendAll, peerVars, Refused, Broken, HasSpace, Reset
  <2>4. Stage'
    BY <1>2, <2>1, TwoSides DEF ForwardInv, ForwardTypeOK, Calm, CalmInv, Stage, Loop, NoneRepeated,
       Sound, SendAll, peerVars, Refused, Broken, HasSpace, Reset
  <2>5. QED
    BY <2>2, <2>3, <2>4 DEF CalmInv
<1>3. ASSUME NEW t \in Sides PROVE NoneRepeated(t)'
  <2>1. (held'[t] <=> copy'[t] = "send") /\ (main' = "connect" => copy'[t] = "none")
    BY DEF ForwardInv, ForwardTypeOK, NoneRepeated, SendAll
  <2>2. CASE there[Peer(s)]
    <3>1. outbox'[Peer(t)] = IF t = s THEN outbox[Peer(t)] + 1 ELSE outbox[Peer(t)]
      BY <2>2, TwoSides DEF ForwardInv, ForwardTypeOK, SendAll
    <3>2. /\ inbox'[t] = inbox[t] /\ got'[Peer(t)] = got[Peer(t)] /\ sent'[t] = sent[t]
          /\ held'[t] = IF t = s THEN FALSE ELSE held[t]
      BY <2>2 DEF ForwardInv, ForwardTypeOK, SendAll, peerVars
    <3>3. t = s => held[t]
      BY DEF ForwardInv, NoneRepeated, SendAll
    <3>4. QED
      BY <2>1, <3>1, <3>2, <3>3, TwoSides DEF ForwardInv, ForwardTypeOK, NoneRepeated, InFlight
  <2>3. CASE ~there[Peer(s)]
    <3>1. inbox'[t] <= inbox[t] /\ outbox'[Peer(t)] <= outbox[Peer(t)]
      BY <2>3, TwoSides DEF ForwardInv, ForwardTypeOK, SendAll, Reset
    <3>2. inbox'[t] \in Nat /\ outbox'[Peer(t)] \in Nat
      BY <1>1, TwoSides DEF ForwardTypeOK
    <3>3. held'[t] => held[t]
      BY DEF ForwardInv, ForwardTypeOK, SendAll
    <3>4. QED
      BY <2>1, <3>1, <3>2, <3>3, TwoSides
         DEF ForwardInv, ForwardTypeOK, NoneRepeated, InFlight, SendAll, peerVars
  <2>4. QED
    BY <2>2, <2>3
<1>4. QED
  BY <1>1, <1>2, <1>3 DEF ForwardInv

(* Without a reset, a socket refuses only after its own loop has ended.    *)
LEMMA SendFailsPreserves ==
    ASSUME ForwardInv, NEW s \in Sides, SendFails(s)
    PROVE  ForwardInv'
<1>1. ForwardTypeOK'
  BY TwoSides, BoundsAssumption DEF ForwardInv, ForwardTypeOK, SendFails, peerVars, Refused, Broken
<1>2. ASSUME Calm' PROVE CalmInv'
  <2>1. Calm /\ CalmInv
    BY <1>2 DEF ForwardInv, ForwardTypeOK, Calm, SendFails, peerVars, Refused, Broken
  <2>2. ASSUME NEW t \in Sides PROVE Accounted(t)'
    BY <1>2, <2>1, TwoSides DEF ForwardInv, ForwardTypeOK, Calm, CalmInv, Stage, Accounted, Loop,
       NoneRepeated, Sound, SendFails, peerVars, Refused, Broken
  <2>3. ASSUME NEW t \in Sides PROVE Loop(t)' /\ Sound(t)'
    BY <1>2, <2>1, TwoSides DEF ForwardInv, ForwardTypeOK, Calm, CalmInv, Stage, Loop, NoneRepeated,
       Sound, SendFails, peerVars, Refused, Broken
  <2>4. Stage'
    BY <1>2, <2>1, TwoSides DEF ForwardInv, ForwardTypeOK, Calm, CalmInv, Stage, Loop, NoneRepeated,
       Sound, SendFails, peerVars, Refused, Broken
  <2>5. QED
    BY <2>2, <2>3, <2>4 DEF CalmInv
<1>3. ASSUME NEW t \in Sides PROVE NoneRepeated(t)'
  BY TwoSides, BoundsAssumption DEF ForwardInv, ForwardTypeOK, NoneRepeated, InFlight, SendFails,
     peerVars, Refused, Broken
<1>4. QED
  BY <1>1, <1>2, <1>3 DEF ForwardInv

(* The half-close comes after the last chunk.                              *)
LEMMA HalfClosePreserves ==
    ASSUME ForwardInv, NEW s \in Sides, HalfClose(s)
    PROVE  ForwardInv'
<1>1. ForwardTypeOK'
  BY TwoSides, BoundsAssumption DEF ForwardInv, ForwardTypeOK, HalfClose, peerVars, HalfClosed
<1>2. ASSUME Calm' PROVE CalmInv'
  <2>1. Calm /\ CalmInv
    BY <1>2 DEF ForwardInv, ForwardTypeOK, Calm, HalfClose, peerVars, HalfClosed
  <2>2. ASSUME NEW t \in Sides PROVE Accounted(t)'
    BY <1>2, <2>1, TwoSides DEF ForwardInv, ForwardTypeOK, Calm, CalmInv, Stage, Accounted, Loop,
       NoneRepeated, Sound, HalfClose, peerVars, HalfClosed
  <2>3. ASSUME NEW t \in Sides PROVE Loop(t)' /\ Sound(t)'
    BY <1>2, <2>1, TwoSides DEF ForwardInv, ForwardTypeOK, Calm, CalmInv, Stage, Loop, NoneRepeated,
       Sound, HalfClose, peerVars, HalfClosed
  <2>4. Stage'
    BY <1>2, <2>1, TwoSides DEF ForwardInv, ForwardTypeOK, Calm, CalmInv, Stage, Loop, NoneRepeated,
       Sound, HalfClose, peerVars, HalfClosed
  <2>5. QED
    BY <2>2, <2>3, <2>4 DEF CalmInv
<1>3. ASSUME NEW t \in Sides PROVE NoneRepeated(t)'
  BY TwoSides, BoundsAssumption DEF ForwardInv, ForwardTypeOK, NoneRepeated, InFlight, HalfClose,
     peerVars, HalfClosed
<1>4. QED
  BY <1>1, <1>2, <1>3 DEF ForwardInv

(* A peer sends only before its end, to a socket that is still open.       *)
LEMMA PeerSendsPreserves ==
    ASSUME ForwardInv, NEW s \in Sides, PeerSends(s)
    PROVE  ForwardInv'
<1>1. ForwardTypeOK'
  BY TwoSides, BoundsAssumption DEF ForwardInv, ForwardTypeOK, PeerSends, peerVars, Connected, Reset
<1>2. ASSUME Calm' PROVE CalmInv'
  <2>1. Calm /\ CalmInv
    BY <1>2 DEF ForwardInv, ForwardTypeOK, Calm, PeerSends, peerVars, Connected, Reset
  <2>2. ASSUME NEW t \in Sides PROVE Accounted(t)'
    BY <1>2, <2>1, TwoSides DEF ForwardInv, ForwardTypeOK, Calm, CalmInv, Stage, Accounted, Loop,
       NoneRepeated, Sound, PeerSends, peerVars, Connected, Reset
  <2>3. ASSUME NEW t \in Sides PROVE Loop(t)' /\ Sound(t)'
    BY <1>2, <2>1, TwoSides DEF ForwardInv, ForwardTypeOK, Calm, CalmInv, Stage, Loop, NoneRepeated,
       Sound, PeerSends, peerVars, Connected, Reset
  <2>4. Stage'
    BY <1>2, <2>1, TwoSides DEF ForwardInv, ForwardTypeOK, Calm, CalmInv, Stage, Loop, NoneRepeated,
       Sound, PeerSends, peerVars, Connected, Reset
  <2>5. QED
    BY <2>2, <2>3, <2>4 DEF CalmInv
<1>3. ASSUME NEW t \in Sides PROVE NoneRepeated(t)'
  BY TwoSides, BoundsAssumption DEF ForwardInv, ForwardTypeOK, NoneRepeated, InFlight, PeerSends,
     peerVars, Connected, Reset
<1>4. QED
  BY <1>1, <1>2, <1>3 DEF ForwardInv

(* A chunk that was in flight is read.                                     *)
LEMMA PeerReadsPreserves ==
    ASSUME ForwardInv, NEW s \in Sides, PeerReads(s)
    PROVE  ForwardInv'
<1>1. ForwardTypeOK'
  BY TwoSides, BoundsAssumption DEF ForwardInv, ForwardTypeOK, PeerReads, peerVars, Connected,
     NoneRepeated, InFlight
<1>2. ASSUME Calm' PROVE CalmInv'
  <2>1. Calm /\ CalmInv
    BY <1>2 DEF ForwardInv, ForwardTypeOK, Calm, PeerReads, peerVars, Connected
  <2>2. ASSUME NEW t \in Sides PROVE Accounted(t)'
    BY <2>1, TwoSides DEF ForwardInv, ForwardTypeOK, CalmInv, Accounted, PeerReads, peerVars
  <2>3. ASSUME NEW t \in Sides PROVE Loop(t)' /\ Sound(t)'
    BY <1>2, <2>1, TwoSides DEF ForwardInv, ForwardTypeOK, Calm, CalmInv, Stage, Loop, NoneRepeated,
       Sound, PeerReads, peerVars, Connected
  <2>4. Stage'
    BY <1>2, <2>1, TwoSides DEF ForwardInv, ForwardTypeOK, Calm, CalmInv, Stage, Loop, NoneRepeated,
       Sound, PeerReads, peerVars, Connected
  <2>5. QED
    BY <2>2, <2>3, <2>4 DEF CalmInv
<1>3. ASSUME NEW t \in Sides PROVE NoneRepeated(t)'
  BY TwoSides, BoundsAssumption DEF ForwardInv, ForwardTypeOK, NoneRepeated, InFlight, PeerReads,
     peerVars, Connected
<1>4. QED
  BY <1>1, <1>2, <1>3 DEF ForwardInv

(* A peer ends its side.                                                   *)
LEMMA PeerHalfClosesPreserves ==
    ASSUME ForwardInv, NEW s \in Sides, PeerHalfCloses(s)
    PROVE  ForwardInv'
<1>1. ForwardTypeOK'
  BY TwoSides, BoundsAssumption DEF ForwardInv, ForwardTypeOK, PeerHalfCloses, peerVars, Connected
<1>2. ASSUME Calm' PROVE CalmInv'
  <2>1. Calm /\ CalmInv
    BY <1>2 DEF ForwardInv, ForwardTypeOK, Calm, PeerHalfCloses, peerVars, Connected
  <2>2. ASSUME NEW t \in Sides PROVE Accounted(t)'
    BY <1>2, <2>1, TwoSides DEF ForwardInv, ForwardTypeOK, Calm, CalmInv, Stage, Accounted, Loop,
       NoneRepeated, Sound, PeerHalfCloses, peerVars, Connected
  <2>3. ASSUME NEW t \in Sides PROVE Loop(t)' /\ Sound(t)'
    BY <1>2, <2>1, TwoSides DEF ForwardInv, ForwardTypeOK, Calm, CalmInv, Stage, Loop, NoneRepeated,
       Sound, PeerHalfCloses, peerVars, Connected
  <2>4. Stage'
    BY <1>2, <2>1, TwoSides DEF ForwardInv, ForwardTypeOK, Calm, CalmInv, Stage, Loop, NoneRepeated,
       Sound, PeerHalfCloses, peerVars, Connected
  <2>5. QED
    BY <2>2, <2>3, <2>4 DEF CalmInv
<1>3. ASSUME NEW t \in Sides PROVE NoneRepeated(t)'
  BY TwoSides, BoundsAssumption DEF ForwardInv, ForwardTypeOK, NoneRepeated, InFlight,
     PeerHalfCloses, peerVars, Connected
<1>4. QED
  BY <1>1, <1>2, <1>3 DEF ForwardInv

(* A peer that vanishes ends the calm.                                     *)
LEMMA PeerClosesPreserves ==
    ASSUME ForwardInv, NEW s \in Sides, PeerCloses(s)
    PROVE  ForwardInv'
<1>1. ForwardTypeOK'
  BY TwoSides, BoundsAssumption DEF ForwardInv, ForwardTypeOK, PeerCloses, peerVars, Connected, Reset
<1>2. ASSUME Calm' PROVE CalmInv'
  <2>1. Calm /\ CalmInv
    BY <1>2 DEF ForwardInv, ForwardTypeOK, Calm, PeerCloses, peerVars, Connected, Reset
  <2>2. ASSUME NEW t \in Sides PROVE Accounted(t)'
    BY <1>2, <2>1, TwoSides DEF ForwardInv, ForwardTypeOK, Calm, CalmInv, Stage, Accounted, Loop,
       NoneRepeated, Sound, PeerCloses, peerVars, Connected, Reset
  <2>3. ASSUME NEW t \in Sides PROVE Loop(t)' /\ Sound(t)'
    BY <1>2, <2>1, TwoSides DEF ForwardInv, ForwardTypeOK, Calm, CalmInv, Stage, Loop, NoneRepeated,
       Sound, PeerCloses, peerVars, Connected, Reset
  <2>4. Stage'
    BY <1>2, <2>1, TwoSides DEF ForwardInv, ForwardTypeOK, Calm, CalmInv, Stage, Loop, NoneRepeated,
       Sound, PeerCloses, peerVars, Connected, Reset
  <2>5. QED
    BY <2>2, <2>3, <2>4 DEF CalmInv
<1>3. ASSUME NEW t \in Sides PROVE NoneRepeated(t)'
  BY TwoSides, BoundsAssumption DEF ForwardInv, ForwardTypeOK, NoneRepeated, InFlight, PeerCloses,
     peerVars, Connected, Reset
<1>4. QED
  BY <1>1, <1>2, <1>3 DEF ForwardInv

(* A stutter changes nothing.                                              *)
LEMMA StutterPreserves ==
    ASSUME ForwardInv, UNCHANGED forwardVars
    PROVE  ForwardInv'
<1>1. ForwardTypeOK'
  BY DEF ForwardInv, ForwardTypeOK, forwardVars
<1>2. Calm' => CalmInv'
  BY DEF ForwardInv, Calm, CalmInv, Stage, Accounted, Loop, NoneRepeated, Sound, forwardVars
<1>3. \A s \in Sides : NoneRepeated(s)'
  BY DEF ForwardInv, NoneRepeated, InFlight, forwardVars
<1>4. QED
  BY <1>1, <1>2, <1>3 DEF ForwardInv

(* Every step preserves the invariant.                                     *)
LEMMA ForwardNextPreserves == ForwardInv /\ [ForwardNext]_forwardVars => ForwardInv'
<1>1. SUFFICES ASSUME ForwardInv, [ForwardNext]_forwardVars PROVE ForwardInv'
  OBVIOUS
<1>2. CASE UNCHANGED forwardVars
  BY <1>1, <1>2, StutterPreserves
<1>3. CASE Handle
  BY <1>1, <1>3, ConnectPreserves, CopyReturnsPreserves, JoinedPreserves,
     JoinTimesOutPreserves, RejoinedPreserves, CloseUpstreamPreserves,
     CloseClientPreserves DEF Handle
<1>4. ASSUME NEW s \in Sides, Copy(s)
      PROVE  ForwardInv'
  BY <1>1, <1>4, RecvPreserves, RecvEndsPreserves, SendAllPreserves, SendFailsPreserves,
     HalfClosePreserves DEF Copy
<1>5. ASSUME NEW s \in Sides, PeerStep(s)
      PROVE  ForwardInv'
  BY <1>1, <1>5, PeerSendsPreserves, PeerReadsPreserves, PeerHalfClosesPreserves,
     PeerClosesPreserves DEF PeerStep
<1>6. QED
  BY <1>1, <1>2, <1>3, <1>4, <1>5 DEF ForwardNext, Ended

(* The invariant behind the results below.                                 *)
LEMMA ForwardInvariance == ForwardSpec => []ForwardInv
BY ForwardInitInv, ForwardNextPreserves, PTL DEF ForwardSpec

-----------------------------------------------------------------------------
(* Results                                                                 *)

(* Every variable keeps its type, and no socket holds more than its buffer *)
(* (copy, tcp_forward.py:28-38).                                           *)
THEOREM ForwardTypes == ForwardSpec => []ForwardTypeOK
<1>1. ForwardInv => ForwardTypeOK
  BY DEF ForwardInv
<1>2. QED
  BY <1>1, ForwardInvariance, PTL

(* While the peers only half-close and the join does not time out, no      *)
(* chunk of either direction is lost and no half-close overtakes one,      *)
(* whatever the order of the half-closes, of the join and of the two       *)
(* closes (copy and handle, tcp_forward.py:28-74).                         *)
THEOREM KeepsEverything == ForwardSpec => []NothingLost
<1>1. ASSUME ForwardInv PROVE NothingLost
  <2>1. SUFFICES ASSUME Calm
                 PROVE  \A s \in Sides :
                           /\ Lost(s) = 0
                           /\ shut[Peer(s)] => (eof[s] /\ inbox[s] = 0 /\ ~held[s])
    BY DEF NothingLost, Calm
  <2>2. ASSUME NEW s \in Sides PROVE Lost(s) = 0
    BY <1>1, <2>1, TwoSides DEF ForwardInv, ForwardTypeOK, CalmInv, Accounted, Lost
  <2>3. ASSUME NEW s \in Sides, shut[Peer(s)] PROVE eof[s] /\ inbox[s] = 0 /\ ~held[s]
    BY <1>1, <2>1, <2>3 DEF ForwardInv, CalmInv, Loop, NoneRepeated
  <2>4. QED
    BY <2>2, <2>3
<1>2. QED
  BY <1>1, ForwardInvariance, PTL

-----------------------------------------------------------------------------
(* Induction                                                               *)

(* Induction over the naturals for the members of a set.                   *)
LEMMA NaturalsBySteps ==
    ASSUME NEW I, 0 \in I, \A n \in Nat : n \in I => n + 1 \in I
    PROVE  \A n \in Nat : n \in I
<1> DEFINE T == Nat \ I
<1>1. SUFFICES ASSUME T # {} PROVE FALSE
  OBVIOUS
<1>2. PICK x \in T : \A y \in T : ~(<<y, x>> \in OpToRel(<, Nat))
  <2>1. T \subseteq Nat
    OBVIOUS
  <2>2. QED
    BY <1>1, <2>1, WFMin, NatLessThanWellFounded
<1>3. x # 0 /\ x - 1 \in Nat /\ x - 1 < x
  OBVIOUS
<1>4. <<x - 1, x>> \in OpToRel(<, Nat)
  BY <1>3, Zenon DEF OpToRel
<1>5. x - 1 \in I
  BY <1>2, <1>3, <1>4
<1>6. (x - 1) + 1 = x
  OBVIOUS
<1>7. x \in I
  BY <1>3, <1>5, <1>6
<1>8. QED
  BY <1>7

(* Induction over the lists of a set, from the empty one by Append.        *)
LEMMA ListsBySteps ==
    ASSUME NEW S, NEW I, <<>> \in I,
           \A s \in Seq(S), x \in S : s \in I => Append(s, x) \in I
    PROVE  \A s \in Seq(S) : s \in I
<1> DEFINE Lengths == {n \in Nat : \A s \in Seq(S) : Len(s) = n => s \in I}
<1>1. 0 \in Lengths
  BY EmptySeq
<1>2. ASSUME NEW n \in Nat, n \in Lengths PROVE n + 1 \in Lengths
  <2>1. SUFFICES ASSUME NEW s \in Seq(S), Len(s) = n + 1 PROVE s \in I
    OBVIOUS
  <2>2. PICK t \in Seq(S), x \in S : s = Append(t, x)
    BY <2>1, SequenceEmptyOrAppend
  <2>3. Len(t) = n
    BY <2>1, <2>2, AppendProperties, LenProperties
  <2>4. QED
    BY <1>2, <2>2, <2>3
<1> HIDE DEF Lengths
<1>3. \A n \in Nat : n \in Lengths
  BY <1>1, <1>2, NaturalsBySteps, Zenon
<1>4. QED
  BY <1>3, LenProperties DEF Lengths

-----------------------------------------------------------------------------
(* What Only keeps of a list.                                              *)

(* f is the table that the definition of Only computes, up to n.           *)
Kept(f, n, s, S) ==
    f = [i \in 0..n |-> IF i = 0 THEN <<>>
                        ELSE IF s[i] \in S THEN Append(f[i - 1], s[i]) ELSE f[i - 1]]

(* The table exists, ...                                                   *)
LEMMA KeptExists ==
    ASSUME NEW s, NEW S
    PROVE  \A n \in Nat : \E f : Kept(f, n, s, S)
<1> DEFINE I == {n \in Nat : \E f : Kept(f, n, s, S)}
<1>1. 0 \in I
  <2>1. Kept([i \in 0..0 |-> <<>>], 0, s, S)
    BY DEF Kept
  <2>2. QED
    BY <2>1
<1>2. ASSUME NEW n \in Nat, n \in I PROVE n + 1 \in I
  <2>1. PICK f : Kept(f, n, s, S)
    BY <1>2
  <2> DEFINE Last == IF s[n + 1] \in S THEN Append(f[n], s[n + 1]) ELSE f[n]
             g == [i \in 0..(n + 1) |-> IF i = n + 1 THEN Last ELSE f[i]]
  <2>2. /\ \A i \in 0..n : g[i] = f[i]
        /\ g[n + 1] = Last
    OBVIOUS
  <2>3. ASSUME NEW i \in 0..(n + 1)
        PROVE  g[i] = IF i = 0 THEN <<>>
                      ELSE IF s[i] \in S THEN Append(g[i - 1], s[i]) ELSE g[i - 1]
    <3>1. CASE i = 0
      BY <2>1, <2>2, <3>1 DEF Kept
    <3>2. CASE i \in 1..n
      <4>1. i # 0 /\ i \in 0..n /\ i - 1 \in 0..n
        BY <3>2
      <4>2. f[i] = IF s[i] \in S THEN Append(f[i - 1], s[i]) ELSE f[i - 1]
        BY <2>1, <4>1 DEF Kept
      <4>3. g[i] = f[i] /\ g[i - 1] = f[i - 1]
        BY <2>2, <4>1
      <4>4. QED
        BY <4>1, <4>2, <4>3, Zenon
    <3>3. CASE i = n + 1
      <4>1. i # 0 /\ i - 1 = n /\ n \in 0..n
        BY <3>3
      <4>2. g[n] = f[n]
        BY <2>2, <4>1
      <4>3. QED
        BY <2>2, <3>3, <4>1, <4>2, Zenon
    <3>4. QED
      BY <3>1, <3>2, <3>3
  <2>4. g = [i \in 0..(n + 1) |-> g[i]]
    OBVIOUS
  <2> HIDE DEF g
  <2>5. Kept(g, n + 1, s, S)
    BY <2>3, <2>4 DEF Kept
  <2>6. QED
    BY <2>5
<1> HIDE DEF I
<1>3. \A n \in Nat : n \in I
  BY <1>1, <1>2, NaturalsBySteps, Zenon
<1>4. QED
  BY <1>3 DEF I

(* ... and two lists that begin alike have tables that begin alike.        *)
LEMMA KeptAgree ==
    ASSUME NEW s, NEW t, NEW S, NEW m \in Nat, NEW n \in Nat, n <= m,
           NEW f, NEW g, Kept(f, n, s, S), Kept(g, m, t, S),
           \A i \in 1..n : s[i] = t[i]
    PROVE  \A i \in 0..n : f[i] = g[i]
<1> DEFINE I == {i \in Nat : i <= n => f[i] = g[i]}
<1>1. 0 \in I
  BY DEF Kept
<1>2. ASSUME NEW i \in Nat, i \in I PROVE i + 1 \in I
  <2>1. SUFFICES ASSUME i + 1 <= n PROVE f[i + 1] = g[i + 1]
    OBVIOUS
  <2>2. f[i] = g[i] /\ s[i + 1] = t[i + 1]
    BY <1>2, <2>1
  <2>3. i + 1 \in 0..n /\ i + 1 \in 0..m /\ i + 1 # 0 /\ (i + 1) - 1 = i
    BY <2>1
  <2>4. f[i + 1] = IF s[i + 1] \in S THEN Append(f[i], s[i + 1]) ELSE f[i]
    BY <2>3 DEF Kept
  <2>5. g[i + 1] = IF t[i + 1] \in S THEN Append(g[i], t[i + 1]) ELSE g[i]
    BY <2>3 DEF Kept
  <2>6. QED
    BY <2>2, <2>4, <2>5
<1> HIDE DEF I
<1>3. \A i \in Nat : i \in I
  BY <1>1, <1>2, NaturalsBySteps, Zenon
<1>4. QED
  BY <1>3 DEF I

(* Only is the last entry of its table.                                    *)
LEMMA OnlyIsLast ==
    ASSUME NEW s, NEW S, Len(s) \in Nat
    PROVE  \E f : Kept(f, Len(s), s, S) /\ Only(s, S) = f[Len(s)]
<1> DEFINE f == CHOOSE f : Kept(f, Len(s), s, S)
<1>1. Kept(f, Len(s), s, S)
  BY KeptExists, Zenon
<1>2. Only(s, S) = f[Len(s)]
  BY DEF Only, Kept
<1>3. QED
  BY <1>1, <1>2

(* Nothing is kept of the empty list.                                      *)
LEMMA OnlyEmpty == ASSUME NEW S PROVE Only(<<>>, S) = <<>>
<1>1. Len(<<>>) = 0
  OBVIOUS
<1>2. PICK f : Kept(f, 0, <<>>, S) /\ Only(<<>>, S) = f[0]
  BY <1>1, OnlyIsLast
<1>3. QED
  BY <1>2 DEF Kept

(* A member is kept or dropped for itself.                                 *)
LEMMA OnlyAppend ==
    ASSUME NEW U, NEW s \in Seq(U), NEW x \in U, NEW S
    PROVE  /\ x \in S => Only(Append(s, x), S) = Append(Only(s, S), x)
           /\ x \notin S => Only(Append(s, x), S) = Only(s, S)
<1> DEFINE t == Append(s, x)
           n == Len(s)
<1>1. n \in Nat /\ Len(t) = n + 1 /\ t[n + 1] = x /\ \A i \in 1..n : s[i] = t[i]
  BY AppendProperties, LenProperties
<1>2. PICK f : Kept(f, n, s, S) /\ Only(s, S) = f[n]
  BY <1>1, OnlyIsLast
<1> HIDE DEF t, n
<1>3. PICK g : Kept(g, n + 1, t, S) /\ Only(t, S) = g[n + 1]
  <2>1. Len(t) \in Nat
    BY <1>1
  <2>2. \E g : Kept(g, Len(t), t, S) /\ Only(t, S) = g[Len(t)]
    BY <2>1, OnlyIsLast, Zenon
  <2>3. QED
    BY <1>1, <2>2
<1>4. f[n] = g[n]
  <2>1. n \in Nat /\ n + 1 \in Nat /\ n <= n + 1 /\ n \in 0..n
    BY <1>1
  <2> DEFINE m == n + 1
  <2>2. m \in Nat /\ n <= m /\ Kept(g, m, t, S)
    BY <1>3, <2>1
  <2> HIDE DEF m
  <2>3. \A i \in 0..n : f[i] = g[i]
    BY <1>1, <1>2, <2>1, <2>2, KeptAgree
  <2>4. QED
    BY <2>1, <2>3
<1>5. g[n + 1] = IF x \in S THEN Append(g[n], x) ELSE g[n]
  <2>1. n + 1 # 0 /\ n + 1 \in 0..(n + 1) /\ (n + 1) - 1 = n
    BY <1>1
  <2>2. g[n + 1] = IF t[n + 1] \in S THEN Append(g[n], t[n + 1]) ELSE g[n]
    BY <1>3, <2>1 DEF Kept
  <2>3. QED
    BY <1>1, <2>2
<1>6. QED
  BY <1>2, <1>3, <1>4, <1>5 DEF t

(* What is kept are members that are looked for.                           *)
LEMMA OnlyType ==
    ASSUME NEW U, NEW S
    PROVE  \A s \in Seq(U) : Only(s, S) \in Seq(U \cap S)
<1> DEFINE I == {s \in Seq(U) : Only(s, S) \in Seq(U \cap S)}
<1>1. <<>> \in I
  BY OnlyEmpty, EmptySeq
<1>2. ASSUME NEW s \in Seq(U), NEW x \in U, s \in I PROVE Append(s, x) \in I
  <2>1. Append(s, x) \in Seq(U) /\ Only(s, S) \in Seq(U \cap S)
    BY <1>2, AppendProperties
  <2>2. CASE x \in S
    <3>1. x \in U \cap S
      BY <2>2
    <3>2. Append(Only(s, S), x) \in Seq(U \cap S)
      BY <2>1, <3>1, AppendProperties
    <3>3. QED
      BY <2>1, <2>2, <3>2, OnlyAppend
  <2>3. CASE x \notin S
    BY <2>1, <2>3, OnlyAppend
  <2>4. QED
    BY <2>2, <2>3
<1> HIDE DEF I
<1>3. \A s \in Seq(U) : s \in I
  BY <1>1, <1>2, ListsBySteps, Zenon
<1>4. QED
  BY <1>3 DEF I

(* Two lists are looked through one after the other.                       *)
LEMMA OnlyConcat ==
    ASSUME NEW U, NEW S, NEW s \in Seq(U), NEW t \in Seq(U)
    PROVE  Only(s \o t, S) = Only(s, S) \o Only(t, S)
<1> DEFINE I == {r \in Seq(U) : Only(s \o r, S) = Only(s, S) \o Only(r, S)}
<1>1. <<>> \in I
  <2>1. Only(s, S) \in Seq(U \cap S)
    BY OnlyType
  <2>2. QED
    BY <2>1, OnlyEmpty, ConcatEmptySeq, EmptySeq
<1>2. ASSUME NEW r \in Seq(U), NEW x \in U, r \in I PROVE Append(r, x) \in I
  <2>1. s \o Append(r, x) = Append(s \o r, x)
    OBVIOUS
  <2>2. s \o r \in Seq(U) /\ Append(r, x) \in Seq(U)
    BY ConcatProperties, AppendProperties
  <2>3. Only(s, S) \in Seq(U \cap S) /\ Only(r, S) \in Seq(U \cap S)
    BY OnlyType
  <2>4. Only(s \o r, S) = Only(s, S) \o Only(r, S)
    BY <1>2
  <2>5. CASE x \in S
    <3>1. Only(Append(s \o r, x), S) = Append(Only(s, S) \o Only(r, S), x)
      <4>1. Only(Append(s \o r, x), S) = Append(Only(s \o r, S), x)
        BY <2>2, <2>5, OnlyAppend, Zenon
      <4>2. QED
        BY <2>4, <4>1
    <3>2. Only(Append(r, x), S) = Append(Only(r, S), x)
      BY <2>5, OnlyAppend
    <3>3. Only(s, S) \o Append(Only(r, S), x) = Append(Only(s, S) \o Only(r, S), x)
      BY <2>3, <2>5
    <3>4. QED
      BY <2>1, <2>2, <3>1, <3>2, <3>3
  <2>6. CASE x \notin S
    <3>1. Only(Append(s \o r, x), S) = Only(s, S) \o Only(r, S)
      BY <2>2, <2>4, <2>6, OnlyAppend
    <3>2. Only(Append(r, x), S) = Only(r, S)
      BY <2>6, OnlyAppend
    <3>3. QED
      BY <2>1, <2>2, <3>1, <3>2
  <2>7. QED
    BY <2>5, <2>6
<1> HIDE DEF I
<1>3. \A r \in Seq(U) : r \in I
  BY <1>1, <1>2, ListsBySteps, Zenon
<1>4. QED
  BY <1>3 DEF I

(* Looking twice is looking for both.                                      *)
LEMMA OnlyOnly ==
    ASSUME NEW U, NEW S, NEW T
    PROVE  \A s \in Seq(U) : Only(Only(s, S), T) = Only(s, S \cap T)
<1> DEFINE I == {s \in Seq(U) : Only(Only(s, S), T) = Only(s, S \cap T)}
<1>1. <<>> \in I
  BY OnlyEmpty, EmptySeq
<1>2. ASSUME NEW s \in Seq(U), NEW x \in U, s \in I PROVE Append(s, x) \in I
  <2>1. Only(s, S) \in Seq(U \cap S) /\ Append(s, x) \in Seq(U)
    BY OnlyType, AppendProperties
  <2>2. Only(Append(s, x), S \cap T) = IF x \in S \cap T THEN Append(Only(s, S \cap T), x)
                                       ELSE Only(s, S \cap T)
    BY <1>2, OnlyAppend
  <2>3. CASE x \in S
    <3>1. Only(Append(s, x), S) = Append(Only(s, S), x)
      BY <2>3, OnlyAppend
    <3>2. x \in U \cap S
      BY <2>3
    <3>3. CASE x \in T
      <4> DEFINE r == Only(s, S)
                 V == U \cap S
      <4>4. r \in Seq(V) /\ x \in V
        BY <2>1, <3>2
      <4> HIDE DEF r, V
      <4>1. Only(Append(r, x), T) = Append(Only(r, T), x)
        BY <3>3, <4>4, OnlyAppend
      <4>2. Only(Append(s, x), S \cap T) = Append(Only(s, S \cap T), x)
        BY <2>2, <2>3, <3>3
      <4>3. QED
        BY <1>2, <2>1, <3>1, <4>1, <4>2 DEF r
    <3>4. CASE x \notin T
      <4> DEFINE r == Only(s, S)
                 V == U \cap S
      <4>4. r \in Seq(V) /\ x \in V
        BY <2>1, <3>2
      <4> HIDE DEF r, V
      <4>1. Only(Append(r, x), T) = Only(r, T)
        BY <3>4, <4>4, OnlyAppend
      <4>2. Only(Append(s, x), S \cap T) = Only(s, S \cap T)
        BY <2>2, <3>4
      <4>3. QED
        BY <1>2, <2>1, <3>1, <4>1, <4>2 DEF r
    <3>5. QED
      BY <3>3, <3>4
  <2>4. CASE x \notin S
    <3>1. Only(Append(s, x), S) = Only(s, S)
      BY <2>4, OnlyAppend
    <3>2. QED
      BY <1>2, <2>1, <2>2, <2>4, <3>1
  <2>5. QED
    BY <2>3, <2>4
<1> HIDE DEF I
<1>3. \A s \in Seq(U) : s \in I
  BY <1>1, <1>2, ListsBySteps, Zenon
<1>4. QED
  BY <1>3 DEF I

(* Nothing is left of a list exactly when no member of it is looked for.   *)
LEMMA OnlyNone ==
    ASSUME NEW U, NEW S
    PROVE  \A s \in Seq(U) : Only(s, S) = <<>> <=> \A i \in 1..Len(s) : s[i] \notin S
<1> DEFINE I == {s \in Seq(U) : Only(s, S) = <<>> <=> \A i \in 1..Len(s) : s[i] \notin S}
<1>1. <<>> \in I
  BY OnlyEmpty, EmptySeq
<1>2. ASSUME NEW s \in Seq(U), NEW x \in U, s \in I PROVE Append(s, x) \in I
  <2>1. Only(s, S) \in Seq(U \cap S) /\ Append(s, x) \in Seq(U)
    BY OnlyType, AppendProperties
  <2>2. /\ Len(s) \in Nat /\ Len(Append(s, x)) = Len(s) + 1
        /\ Append(s, x)[Len(s) + 1] = x /\ \A i \in 1..Len(s) : Append(s, x)[i] = s[i]
    BY AppendProperties, LenProperties
  <2>3. (\A i \in 1..Len(Append(s, x)) : Append(s, x)[i] \notin S)
        <=> x \notin S /\ \A i \in 1..Len(s) : s[i] \notin S
    <3>1. 1..(Len(s) + 1) = 1..Len(s) \union {Len(s) + 1}
      BY <2>2
    <3>2. QED
      BY <2>2, <3>1
  <2>4. CASE x \in S
    <3>1. x \in U \cap S
      BY <2>4
    <3>2. Append(Only(s, S), x) # <<>>
      BY <2>1, <3>1, AppendProperties
    <3>3. Only(Append(s, x), S) # <<>>
      BY <2>4, <3>2, OnlyAppend
    <3>4. QED
      BY <2>1, <2>3, <2>4, <3>3
  <2>5. CASE x \notin S
    <3>1. Only(Append(s, x), S) = Only(s, S)
      BY <2>5, OnlyAppend
    <3>2. QED
      BY <1>2, <2>1, <2>3, <2>5, <3>1
  <2>6. QED
    BY <2>4, <2>5
<1> HIDE DEF I
<1>3. \A s \in Seq(U) : s \in I
  BY <1>1, <1>2, ListsBySteps, Zenon
<1>4. QED
  BY <1>3 DEF I

(* All of a list is left when every member is looked for.                  *)
LEMMA OnlyAll ==
    ASSUME NEW S
    PROVE  \A s \in Seq(S) : Only(s, S) = s
<1> DEFINE I == {s \in Seq(S) : Only(s, S) = s}
<1>1. <<>> \in I
  BY OnlyEmpty, EmptySeq
<1>2. ASSUME NEW s \in Seq(S), NEW x \in S, s \in I PROVE Append(s, x) \in I
  BY <1>2, OnlyAppend, AppendProperties
<1> HIDE DEF I
<1>3. \A s \in Seq(S) : s \in I
  BY <1>1, <1>2, ListsBySteps, Zenon
<1>4. QED
  BY <1>3 DEF I

-----------------------------------------------------------------------------
(* Lists cut in two.                                                       *)

(* A list is its first n members and the rest.                             *)
LEMMA CutInTwo ==
    ASSUME NEW U, NEW s \in Seq(U), NEW n \in 0..Len(s)
    PROVE  /\ SubSeq(s, 1, n) \in Seq(U) /\ SubSeq(s, n + 1, Len(s)) \in Seq(U)
           /\ Len(SubSeq(s, 1, n)) = n
           /\ s = SubSeq(s, 1, n) \o SubSeq(s, n + 1, Len(s))
<1>1. Len(s) \in Nat /\ \A i \in 1..Len(s) : s[i] \in U
  BY LenProperties, ElementOfSeq
<1>2. SubSeq(s, 1, n) \in Seq(U) /\ Len(SubSeq(s, 1, n)) = n
  BY <1>1, SubSeqProperties
<1>3. SubSeq(s, n + 1, Len(s)) \in Seq(U)
  BY <1>1, SubSeqProperties
<1>4. SubSeq(s, 1, n) \o SubSeq(s, n + 1, Len(s)) = SubSeq(s, 1, Len(s))
  <2>1. 1 \in 1..(Len(s) + 1) /\ n \in (1 - 1)..Len(s) /\ Len(s) \in n..Len(s)
    BY <1>1
  <2>2. QED
    BY <2>1, ConcatAdjacentSubSeq, Zenon
<1>5. SubSeq(s, 1, Len(s)) = s
  BY SubSeqFull
<1>6. QED
  BY <1>2, <1>3, <1>4, <1>5

(* A list is its head and its tail.                                        *)
LEMMA HeadFirst ==
    ASSUME NEW U, NEW s \in Seq(U), s # <<>>
    PROVE  /\ Head(s) \in U /\ Tail(s) \in Seq(U)
           /\ s = <<Head(s)>> \o Tail(s)
           /\ Len(Tail(s)) = Len(s) - 1
<1>1. Len(s) \in Nat \ {0} /\ Head(s) \in U /\ Tail(s) \in Seq(U) /\ Len(Tail(s)) = Len(s) - 1
  BY EmptySeq, HeadTailProperties
<1>2. <<Head(s)>> \o Tail(s) = s
  <2>1. SubSeq(s, 1, Len(s)) = <<s[1]>> \o SubSeq(s, 1 + 1, Len(s))
    BY <1>1, SubSeqRecursiveFirst
  <2>2. Tail(s) = SubSeq(s, 2, Len(s)) /\ s[1] = Head(s)
    BY TailIsSubSeq, HeadTailOfSubSeq, SubSeqFull, <1>1
  <2>3. QED
    BY <2>1, <2>2, SubSeqFull
<1>3. QED
  BY <1>1, <1>2

(* Concatenation of frames and of commands.                                *)
LEMMA FramesConcat ==
    /\ \A f, g \in Seq(Frames) : f \o g \in Seq(Frames) /\ Len(f \o g) = Len(f) + Len(g)
    /\ \A f \in Seq(Frames) : f \o <<>> = f /\ <<>> \o f = f /\ Len(f) \in Nat
    /\ <<>> \in Seq(Frames)
<1>1. \A f, g \in Seq(Frames) : f \o g \in Seq(Frames) /\ Len(f \o g) = Len(f) + Len(g)
  BY ConcatProperties
<1>2. \A f \in Seq(Frames) : f \o <<>> = f /\ <<>> \o f = f /\ Len(f) \in Nat
  BY ConcatEmptySeq, LenProperties
<1>3. <<>> \in Seq(Frames)
  BY EmptySeq
<1>4. QED
  BY <1>1, <1>2, <1>3

(* Concatenation of commands.                                              *)
LEMMA CommandsConcat ==
    /\ \A f, g \in Seq(CommandTypes) : f \o g \in Seq(CommandTypes)
    /\ \A f \in Seq(CommandTypes) : f \o <<>> = f /\ <<>> \o f = f
    /\ <<>> \in Seq(CommandTypes)
<1>1. \A f, g \in Seq(CommandTypes) : f \o g \in Seq(CommandTypes)
  BY ConcatProperties
<1>2. \A f \in Seq(CommandTypes) : f \o <<>> = f /\ <<>> \o f = f
  BY ConcatEmptySeq
<1>3. QED
  BY <1>1, <1>2, EmptySeq

(* Concatenation under a name of its own: the provers regroup lists as     *)
(* they stand, instead of comparing them element by element.               *)
Cat(f, g) == f \o g
(* Frames regroup.                                                         *)
LEMMA CatFrames == \A f, g, h \in Seq(Frames) : Cat(Cat(f, g), h) = Cat(f, Cat(g, h))
BY ConcatAssociative DEF Cat

(* Commands regroup.                                                       *)
LEMMA CatCommands ==
    \A f, g, h \in Seq(CommandTypes) : Cat(Cat(f, g), h) = Cat(f, Cat(g, h))
BY ConcatAssociative DEF Cat

(* The list of one member.                                                 *)
LEMMA ListOfOne ==
    ASSUME NEW U, NEW x \in U
    PROVE  <<x>> \in Seq(U) /\ Len(<<x>>) = 1 /\ Append(<<>>, x) = <<x>>
OBVIOUS

(* Looking through one member.                                             *)
LEMMA OnlyOne ==
    ASSUME NEW x, NEW S
    PROVE  /\ x \in S => Only(<<x>>, S) = <<x>>
           /\ x \notin S => Only(<<x>>, S) = <<>>
<1>1. <<>> \in Seq({x}) /\ x \in {x} /\ Append(<<>>, x) = <<x>>
  OBVIOUS
<1>2. Only(<<>>, S) = <<>>
  BY OnlyEmpty
<1>3. /\ x \in S => Only(Append(<<>>, x), S) = Append(Only(<<>>, S), x)
      /\ x \notin S => Only(Append(<<>>, x), S) = Only(<<>>, S)
  BY <1>1, OnlyAppend
<1>4. QED
  BY <1>1, <1>2, <1>3

-----------------------------------------------------------------------------
(* The objects of a list of frames.                                        *)

ControlFrames == FramesOf(NativeTypes \ {"object"})

(* The kinds of frames exclude each other.                                 *)
LEMMA KindsOfFrames ==
    /\ NativeFrames \subseteq Frames /\ ControlFrames \subseteq NativeFrames
    /\ FramesOf({"object"}) \subseteq NativeFrames
    /\ ControlFrames \cap FramesOf({"object"}) = {}
    /\ \A f \in Frames : f \in FramesOf({"object"}) <=> f.type = "object"
    /\ \A f \in NativeFrames : f.type = "object" \/ f \in ControlFrames
BY DEF NativeFrames, Frames, ControlFrames, FramesOf, NativeTypes

(* The sidecar's frames are frames.                                        *)
LEMMA NativeListsAreLists ==
    /\ \A s \in Seq(NativeFrames) : s \in Seq(Frames)
    /\ \A s \in Seq(ControlFrames) : s \in Seq(NativeFrames)
BY KindsOfFrames, SeqMonotonic

(* Objects are frames.                                                     *)
LEMMA ObjectsType ==
    ASSUME NEW s \in Seq(Frames)
    PROVE  ObjectsOf(s) \in Seq(Frames) /\ Len(ObjectsOf(s)) \in Nat
<1>1. ObjectsOf(s) \in Seq(Frames \cap FramesOf({"object"}))
  BY OnlyType DEF ObjectsOf
<1>2. QED
  BY <1>1, SeqMonotonic, LenProperties

(* The objects of two lists.                                               *)
LEMMA ObjectsConcat ==
    ASSUME NEW s \in Seq(Frames), NEW t \in Seq(Frames)
    PROVE  /\ ObjectsOf(s \o t) = ObjectsOf(s) \o ObjectsOf(t)
           /\ Len(ObjectsOf(s \o t)) = Len(ObjectsOf(s)) + Len(ObjectsOf(t))
           /\ s \o t \in Seq(Frames)
<1>1. ObjectsOf(s \o t) = ObjectsOf(s) \o ObjectsOf(t)
  BY OnlyConcat DEF ObjectsOf
<1>2. Len(ObjectsOf(s) \o ObjectsOf(t)) = Len(ObjectsOf(s)) + Len(ObjectsOf(t))
  BY ObjectsType, ConcatProperties
<1>3. QED
  BY <1>1, <1>2, ConcatProperties

(* The objects of one frame.                                               *)
LEMMA ObjectsOfOne ==
    ASSUME NEW f \in Frames
    PROVE  /\ <<f>> \in Seq(Frames)
           /\ f.type = "object" => ObjectsOf(<<f>>) = <<f>> /\ Len(ObjectsOf(<<f>>)) = 1
           /\ f.type # "object" => ObjectsOf(<<f>>) = <<>> /\ Len(ObjectsOf(<<f>>)) = 0
<1>1. f \in FramesOf({"object"}) <=> f.type = "object"
  BY KindsOfFrames
<1>2. QED
  BY <1>1, OnlyOne DEF ObjectsOf

(* No frame, no object.                                                    *)
LEMMA ObjectsOfNone == ObjectsOf(<<>>) = <<>> /\ Len(ObjectsOf(<<>>)) = 0
BY OnlyEmpty DEF ObjectsOf

(* Control frames are no objects.                                          *)
LEMMA ControlsHaveNoObjects ==
    ASSUME NEW s \in Seq(ControlFrames)
    PROVE  ObjectsOf(s) = <<>>
<1>1. \A i \in 1..Len(s) : s[i] \notin FramesOf({"object"})
  BY KindsOfFrames, ElementOfSeq
<1>2. QED
  BY <1>1, OnlyNone DEF ObjectsOf

(* What is left without the objects are control frames.                    *)
LEMMA OnlyControls ==
    ASSUME NEW s \in Seq(NativeFrames)
    PROVE  Only(s, ControlFrames) \in Seq(ControlFrames)
<1>1. NativeFrames \cap ControlFrames = ControlFrames
  BY KindsOfFrames
<1>2. QED
  BY <1>1, OnlyType

(* One more frame is at most one more object.                              *)
LEMMA ObjectsOfNext ==
    ASSUME NEW s \in Seq(Frames), NEW n \in 1..Len(s)
    PROVE  Len(ObjectsOf(SubSeq(s, 1, n))) <= Len(ObjectsOf(SubSeq(s, 1, n - 1))) + 1
<1>1. Len(s) \in Nat /\ s[n] \in Frames /\ 1 \in 1..Len(s) /\ n \in 1..Len(s)
  BY LenProperties, ElementOfSeq
<1>2. SubSeq(s, 1, n) = SubSeq(s, 1, n - 1) \o <<s[n]>>
  BY <1>1, SubSeqRecursiveSecond
<1>3. SubSeq(s, 1, n - 1) \in Seq(Frames)
  BY <1>1, CutInTwo
<1>4. Len(ObjectsOf(<<s[n]>>)) \in 0..1 /\ <<s[n]>> \in Seq(Frames)
  BY <1>1, ObjectsOfOne
<1>5. Len(ObjectsOf(SubSeq(s, 1, n - 1))) \in Nat
  BY <1>3, ObjectsType
<1>6. Len(ObjectsOf(SubSeq(s, 1, n)))
        = Len(ObjectsOf(SubSeq(s, 1, n - 1))) + Len(ObjectsOf(<<s[n]>>))
  BY <1>2, <1>3, <1>4, ObjectsConcat
<1>7. \A a \in Nat, b \in 0..1 : a + b <= a + 1
  OBVIOUS
<1>8. QED
  BY <1>4, <1>5, <1>6, <1>7, Zenon

(* What precedes numbered objects is numbered, ...                         *)
LEMMA NumberedPrefix ==
    ASSUME NEW s \in Seq(Frames), NEW t \in Seq(Frames), Numbered(s \o t)
    PROVE  Numbered(s)
<1>1. ObjectsOf(s) \in Seq(Frames) /\ ObjectsOf(t) \in Seq(Frames)
      /\ ObjectsOf(s \o t) = ObjectsOf(s) \o ObjectsOf(t)
  BY ObjectsType, ObjectsConcat
<1>2. ASSUME NEW i \in DOMAIN ObjectsOf(s) PROVE ObjectsOf(s)[i].n = i
  <2>1. i \in 1..Len(ObjectsOf(s)) /\ Len(ObjectsOf(s)) \in Nat /\ Len(ObjectsOf(t)) \in Nat
    BY <1>1, LenProperties
  <2>2. /\ i \in 1..(Len(ObjectsOf(s)) + Len(ObjectsOf(t))) /\ i <= Len(ObjectsOf(s))
        /\ DOMAIN ObjectsOf(s \o t) = 1..(Len(ObjectsOf(s)) + Len(ObjectsOf(t)))
    BY <1>1, <2>1, ConcatProperties, LenProperties
  <2>3. ObjectsOf(s \o t)[i] = ObjectsOf(s)[i]
    BY <1>1, <2>2, ConcatProperties
  <2>4. QED
    BY <2>2, <2>3 DEF Numbered
<1>3. QED
  BY <1>2 DEF Numbered

(* ... and so is what the next object follows.                             *)
LEMMA NumberedNext ==
    ASSUME NEW s \in Seq(Frames), NEW f \in Frames, Numbered(s), f.type = "object",
           f.n = Len(ObjectsOf(s)) + 1
    PROVE  Numbered(s \o <<f>>)
<1>1. ObjectsOf(s) \in Seq(Frames) /\ ObjectsOf(s \o <<f>>) = ObjectsOf(s) \o <<f>>
  BY ObjectsType, ObjectsConcat, ObjectsOfOne
<1>2. ASSUME NEW i \in DOMAIN ObjectsOf(s \o <<f>>) PROVE ObjectsOf(s \o <<f>>)[i].n = i
  <2>1. /\ Len(ObjectsOf(s)) \in Nat /\ DOMAIN ObjectsOf(s) = 1..Len(ObjectsOf(s))
        /\ ObjectsOf(s) \o <<f>> \in Seq(Frames)
        /\ Len(ObjectsOf(s) \o <<f>>) = Len(ObjectsOf(s)) + 1
    BY <1>1, LenProperties, ConcatProperties, ListOfOne
  <2>2. i \in 1..(Len(ObjectsOf(s)) + 1)
    BY <1>1, <2>1, LenProperties
  <2>3. CASE i = Len(ObjectsOf(s)) + 1
    BY <1>1, <2>1, <2>3
  <2>4. CASE i # Len(ObjectsOf(s)) + 1
    <3>1. i \in DOMAIN ObjectsOf(s) /\ ObjectsOf(s \o <<f>>)[i] = ObjectsOf(s)[i]
      BY <1>1, <2>1, <2>2, <2>4
    <3>2. QED
      BY <3>1 DEF Numbered
  <2>5. QED
    BY <2>3, <2>4
<1>3. QED
  BY <1>2 DEF Numbered

(* Only the objects have to be numbered.                                   *)
LEMMA NumberedSame ==
    ASSUME NEW s, NEW t, ObjectsOf(s) = ObjectsOf(t), Numbered(s)
    PROVE  Numbered(t)
BY DEF Numbered

-----------------------------------------------------------------------------
(* The types of the frames of a list.                                      *)

(* A type of frame in two lists.                                           *)
LEMMA HasConcat ==
    ASSUME NEW s \in Seq(Frames), NEW t \in Seq(Frames), NEW type
    PROVE  Has(s \o t, type) <=> Has(s, type) \/ Has(t, type)
<1>1. /\ Len(s) \in Nat /\ Len(t) \in Nat /\ DOMAIN s = 1..Len(s) /\ DOMAIN t = 1..Len(t)
      /\ s \o t \in Seq(Frames) /\ DOMAIN (s \o t) = 1..(Len(s) + Len(t))
      /\ \A i \in 1..(Len(s) + Len(t)) : (s \o t)[i] = IF i <= Len(s) THEN s[i] ELSE t[i - Len(s)]
  BY LenProperties, ConcatProperties
<1>2. ASSUME Has(s, type) PROVE Has(s \o t, type)
  BY <1>1, <1>2 DEF Has
<1>3. ASSUME Has(t, type) PROVE Has(s \o t, type)
  <2>1. PICK i \in 1..Len(t) : t[i].type = type
    BY <1>1, <1>3 DEF Has
  <2>2. i + Len(s) \in 1..(Len(s) + Len(t)) /\ (s \o t)[i + Len(s)] = t[i]
    BY <1>1
  <2>3. QED
    BY <1>1, <2>1, <2>2 DEF Has
<1>4. ASSUME Has(s \o t, type) PROVE Has(s, type) \/ Has(t, type)
  <2>1. PICK i \in 1..(Len(s) + Len(t)) : (s \o t)[i].type = type
    BY <1>1, <1>4 DEF Has
  <2>2. CASE i <= Len(s)
    BY <1>1, <2>1, <2>2 DEF Has
  <2>3. CASE ~(i <= Len(s))
    <3>1. i - Len(s) \in 1..Len(t) /\ (s \o t)[i] = t[i - Len(s)]
      BY <1>1, <2>3
    <3>2. QED
      BY <1>1, <2>1, <3>1 DEF Has
  <2>4. QED
    BY <2>2, <2>3
<1>5. QED
  BY <1>2, <1>3, <1>4

(* A list has a type of frame when looking for it leaves something.        *)
LEMMA HasOnly ==
    ASSUME NEW s \in Seq(NativeFrames), NEW type \in NativeTypes
    PROVE  Has(s, type) <=> Only(s, FramesOf({type})) # <<>>
<1>1. DOMAIN s = 1..Len(s) /\ \A i \in 1..Len(s) : s[i] \in NativeFrames
  BY LenProperties, ElementOfSeq
<1>2. \A f \in NativeFrames : f \in FramesOf({type}) <=> f.type = type
  BY DEF NativeFrames, FramesOf
<1>3. QED
  BY <1>1, <1>2, OnlyNone DEF Has

(* Dropping the objects keeps the other types.                             *)
LEMMA ControlsKept ==
    ASSUME NEW s \in Seq(NativeFrames), NEW type \in NativeTypes \ {"object"}, Has(s, type)
    PROVE  Has(Only(s, ControlFrames), type)
<1>1. Only(Only(s, ControlFrames), FramesOf({type})) = Only(s, ControlFrames \cap FramesOf({type}))
  <2> DEFINE C == ControlFrames
             T == FramesOf({type})
  <2> HIDE DEF C, T
  <2>1. Only(Only(s, C), T) = Only(s, C \cap T)
    BY OnlyOnly
  <2>2. QED
    BY <2>1 DEF C, T
<1>2. ControlFrames \cap FramesOf({type}) = FramesOf({type})
  BY DEF ControlFrames, FramesOf
<1>3. Only(s, ControlFrames) \in Seq(NativeFrames)
  BY OnlyControls, NativeListsAreLists
<1>4. QED
  BY <1>1, <1>2, <1>3, HasOnly

-----------------------------------------------------------------------------
(* What the bridge's two loops do: pumpNativeCommands and                  *)
(* processNativeBytes.                                                     *)

Bridges ==
    [native : BOOLEAN, nativeReady : BOOLEAN, nativeBytes : Seq(NativeFrames),
     gracefulClosing : BOOLEAN, auditComplete : BOOLEAN, nativeInputBlocked : BOOLEAN,
     nativeCommands : Seq(CommandTypes), outstandingObjects : 0..Window, paused : BOOLEAN]
Sockets ==
    [client : {"none", "open", "ended"}, session : 0..MaxSessions, toBrowser : Seq(Frames),
     fromBrowser : Seq(MessageTypes \union {"object-ack"})]
Stdins == [lines : Seq(CommandTypes), ended : BOOLEAN]

NumObjects(frames) == Len(ObjectsOf(frames))

(* Objects are counted in naturals, ...                                    *)
LEMMA NumObjectsType == \A s \in Seq(Frames) : NumObjects(s) \in Nat
BY ObjectsType DEF NumObjects

(* ... and their counts add up.                                            *)
LEMMA NumObjectsConcat ==
    \A s, t \in Seq(Frames) : NumObjects(s \o t) = NumObjects(s) + NumObjects(t)
BY ObjectsConcat DEF NumObjects

(* A set of numbers with a bound has a last one.                           *)
LEMMA LastOfIn ==
    ASSUME NEW L \in Nat, NEW S \in SUBSET (0..L), S # {}
    PROVE  LastOf(S) \in S
<1> DEFINE I == {l \in Nat : \A T \in SUBSET (0..l) :
                                T # {} => \E n \in T : \A m \in T : m <= n}
<1>1. 0 \in I
  <2>1. SUFFICES ASSUME NEW T \in SUBSET (0..0), T # {}
                 PROVE  \E n \in T : \A m \in T : m <= n
    OBVIOUS
  <2>2. PICK n \in T : n \in 0..0
    BY <2>1
  <2>3. \A m \in T : m \in 0..0 /\ m <= n
    BY <2>2
  <2>4. QED
    BY <2>2, <2>3
<1>2. ASSUME NEW l \in Nat, l \in I PROVE l + 1 \in I
  <2>1. SUFFICES ASSUME NEW T \in SUBSET (0..(l + 1)), T # {}
                 PROVE  \E n \in T : \A m \in T : m <= n
    OBVIOUS
  <2>2. CASE l + 1 \in T
    BY <2>2
  <2>3. CASE l + 1 \notin T
    <3>1. T \in SUBSET (0..l)
      BY <2>3
    <3>2. QED
      BY <1>2, <2>1, <3>1
  <2>4. QED
    BY <2>2, <2>3
<1> HIDE DEF I
<1>3. L \in I
  BY <1>1, <1>2, NaturalsBySteps
<1>4. \E n \in S : \A m \in S : m <= n
  BY <1>3 DEF I
<1>5. QED
  BY <1>4 DEF LastOf

(* The pump writes no more commands than are queued.                       *)
LEMMA WritesType ==
    ASSUME NEW b \in Bridges
    PROVE  Writes(b) \in 0..Len(b.nativeCommands)
<1>1. b.nativeCommands \in Seq(CommandTypes) /\ Len(b.nativeCommands) \in Nat
  BY LenProperties DEF Bridges
<1>2. CASE b.nativeCommands = <<>> \/ ~b.nativeReady \/ b.nativeInputBlocked
  BY <1>1, <1>2 DEF Writes
<1>3. CASE ~(b.nativeCommands = <<>> \/ ~b.nativeReady \/ b.nativeInputBlocked)
  <2> DEFINE S == {n \in 1..Len(b.nativeCommands) : Len(stdin.lines) + n <= StdinLimit} \union {1}
  <2>1. Len(b.nativeCommands) # 0
    BY <1>1, <1>3, EmptySeq
  <2>2. S \in SUBSET (0..Len(b.nativeCommands)) /\ S # {}
    BY <1>1, <2>1
  <2>3. LastOf(S) \in S
    BY <1>1, <2>2, LastOfIn
  <2>4. LastOf(S) \in 0..Len(b.nativeCommands)
    BY <2>2, <2>3
  <2>5. 1 \in 0..Len(b.nativeCommands)
    BY <1>1, <2>1
  <2>6. QED
    BY <1>3, <2>4, <2>5 DEF Writes
<1>4. QED
  BY <1>2, <1>3

(* As many commands are written as the stream takes, or one.               *)
LEMMA WritesFit ==
    ASSUME NEW b \in Bridges, stdin \in Stdins, ~stdin.ended, Writes(b) # 0,
           Len(stdin.lines) <= StdinLimit,
           Len(stdin.lines) = StdinLimit => b.nativeInputBlocked
    PROVE  Len(stdin.lines) + Writes(b) <= StdinLimit
<1>1. /\ ~b.nativeInputBlocked /\ b.nativeCommands # <<>> /\ b.nativeReady
      /\ Writes(b) = LastOf({n \in 1..Len(b.nativeCommands) :
                                Len(stdin.lines) + n <= StdinLimit} \union {1})
  BY DEF Writes
<1>2. Len(stdin.lines) \in Nat /\ StdinLimit \in Nat /\ Len(stdin.lines) + 1 <= StdinLimit
  BY <1>1, LimitsAssumption, LenProperties DEF Stdins
<1>3. b.nativeCommands \in Seq(CommandTypes) /\ Len(b.nativeCommands) \in Nat \ {0}
  BY <1>1, EmptySeq DEF Bridges
<1> DEFINE S == {n \in 1..Len(b.nativeCommands) : Len(stdin.lines) + n <= StdinLimit} \union {1}
<1>4. S \in SUBSET (0..Len(b.nativeCommands)) /\ S # {}
  BY <1>3
<1>5. LastOf(S) \in S
  BY <1>3, <1>4, LastOfIn
<1>6. \A n \in S : Len(stdin.lines) + n <= StdinLimit
  BY <1>2
<1>7. QED
  BY <1>1, <1>5, <1>6

(* The fields that pumpNativeCommands leaves alone.                        *)
SameButCommands(b, c) ==
    /\ c.native = b.native /\ c.nativeReady = b.nativeReady /\ c.nativeBytes = b.nativeBytes
    /\ c.gracefulClosing = b.gracefulClosing /\ c.auditComplete = b.auditComplete
    /\ c.outstandingObjects = b.outstandingObjects /\ c.paused = b.paused

(* The pump (priority_ws_bridge.mjs, pumpNativeCommands) moves commands    *)
(* from the queue to the sidecar's input: none is lost, repeated or        *)
(* overtaken, and a full input is marked as blocked.                       *)
LEMMA PumpMoves ==
    ASSUME NEW b \in Bridges, stdin \in Stdins, Pump(b), Len(stdin.lines) <= StdinLimit,
           Len(stdin.lines) = StdinLimit => b.nativeInputBlocked
    PROVE  /\ bridge' \in Bridges /\ stdin' \in Stdins
           /\ SameButCommands(b, bridge')
           /\ stdin'.ended = stdin.ended
           /\ Len(stdin'.lines) <= StdinLimit
           /\ Len(stdin'.lines) = StdinLimit => bridge'.nativeInputBlocked
           /\ ~stdin.ended =>
                 stdin'.lines \o bridge'.nativeCommands = stdin.lines \o b.nativeCommands
           /\ b.nativeCommands = <<>> => bridge'.nativeCommands = <<>> /\ stdin'.lines = stdin.lines
           /\ UNCHANGED exit \/ Crash
<1> DEFINE n == Writes(b)
           full == stdin.ended \/ Len(stdin.lines) + n >= StdinLimit
           first == SubSeq(b.nativeCommands, 1, n)
           rest == SubSeq(b.nativeCommands, n + 1, Len(b.nativeCommands))
<1>1. /\ bridge' = [b EXCEPT !.nativeCommands = rest, !.nativeInputBlocked = @ \/ (n > 0 /\ full)]
      /\ stdin' = IF stdin.ended THEN stdin ELSE [stdin EXCEPT !.lines = @ \o first]
      /\ UNCHANGED exit \/ Crash
  BY DEF Pump
<1>2. b.nativeCommands \in Seq(CommandTypes) /\ n \in 0..Len(b.nativeCommands)
  BY WritesType DEF Bridges
<1>3. /\ first \in Seq(CommandTypes) /\ rest \in Seq(CommandTypes) /\ Len(first) = n
      /\ b.nativeCommands = first \o rest
  BY <1>2, CutInTwo
<1>4. stdin.lines \in Seq(CommandTypes) /\ Len(stdin.lines) \in Nat /\ stdin.ended \in BOOLEAN
  BY LenProperties DEF Stdins
<1>5. n \in Nat /\ StdinLimit \in Nat
  BY <1>2, <1>3, LenProperties, LimitsAssumption
<1>6. stdin.lines \o first \in Seq(CommandTypes) /\ Len(stdin.lines \o first) = Len(stdin.lines) + n
  BY <1>3, <1>4, ConcatProperties
<1>7. b.nativeCommands = <<>> => n = 0 /\ first = <<>> /\ rest = <<>>
  <2>1. SUFFICES ASSUME b.nativeCommands = <<>> PROVE n = 0 /\ first = <<>> /\ rest = <<>>
    OBVIOUS
  <2>2. n = 0
    BY <2>1 DEF Writes
  <2>3. first \o rest = <<>>
    BY <1>3, <2>1
  <2>4. QED
    BY <1>3, <2>2, <2>3, ConcatEqualIffEmpty
<1>8. n # 0 /\ ~stdin.ended => Len(stdin.lines) + n <= StdinLimit
  BY WritesFit
<1>10. stdin.lines \o <<>> = stdin.lines
  BY <1>4, ConcatEmptySeq
<1> HIDE DEF n, first, rest
<1>9. (stdin.lines \o first) \o rest = stdin.lines \o b.nativeCommands
  <2>1. (stdin.lines \o first) \o rest = stdin.lines \o (first \o rest)
    <3>1. Cat(Cat(stdin.lines, first), rest) = Cat(stdin.lines, Cat(first, rest))
      BY <1>3, <1>4, CatCommands
    <3>2. QED
      BY <3>1 DEF Cat
  <2>2. QED
    BY <1>3, <2>1
<1>11. bridge' \in Bridges /\ SameButCommands(b, bridge')
  BY <1>1, <1>3 DEF Bridges, SameButCommands
<1>12. /\ bridge'.nativeCommands = rest
       /\ bridge'.nativeInputBlocked = (b.nativeInputBlocked \/ (n > 0 /\ full))
  BY <1>1 DEF Bridges
<1>13. CASE stdin.ended
  BY <1>1, <1>4, <1>7, <1>11, <1>12, <1>13
<1>14. CASE ~stdin.ended
  <2>1. stdin'.lines = stdin.lines \o first /\ stdin'.ended = stdin.ended /\ stdin' \in Stdins
    BY <1>1, <1>6, <1>14 DEF Stdins
  <2>2. Len(stdin'.lines) <= StdinLimit
    BY <1>4, <1>5, <1>6, <1>8, <1>14, <2>1
  <2>3. Len(stdin'.lines) = StdinLimit => bridge'.nativeInputBlocked
    <3> DEFINE k == Len(stdin.lines)
    <3>1. /\ k \in Nat /\ Len(stdin'.lines) = k + n /\ (k = StdinLimit => b.nativeInputBlocked)
          /\ k + n >= StdinLimit => full
      BY <1>4, <1>6, <2>1
    <3> HIDE DEF k, full
    <3>2. k + n = StdinLimit => k = StdinLimit \/ (n > 0 /\ full)
      BY <1>5, <3>1
    <3>3. QED
      BY <1>12, <3>1, <3>2, Zenon
  <2>4. QED
    BY <1>1, <1>7, <1>9, <1>10, <1>11, <1>12, <2>1, <2>2, <2>3
<1>15. QED
  BY <1>13, <1>14

(* The window admits every frame that is handled.                          *)
LEMMA HandledFits ==
    ASSUME NEW b \in Bridges
    PROVE  /\ Handled(b) \in 0..Len(b.nativeBytes)
           /\ ~b.gracefulClosing =>
                 b.outstandingObjects + NumObjects(SubSeq(b.nativeBytes, 1, Handled(b))) <= Window
<1> DEFINE bytes == b.nativeBytes
           S == {n \in 0..Len(bytes) : \A i \in 0..(n - 1) : MayHandle(b, i)}
           last == Handled(b)
<1>1. bytes \in Seq(NativeFrames) /\ Len(bytes) \in Nat /\ bytes \in Seq(Frames)
  BY LenProperties, NativeListsAreLists DEF Bridges
<1>2. 0 \in S
  BY <1>1
<1>3. last \in S
  <2>1. S \in SUBSET (0..Len(bytes)) /\ S # {}
    BY <1>2
  <2>2. LastOf(S) \in S
    BY <1>1, <2>1, LastOfIn
  <2>3. QED
    BY <2>2 DEF Handled
<1>4. b.outstandingObjects \in Nat /\ b.outstandingObjects <= Window /\ Window \in Nat
  BY LimitsAssumption DEF Bridges
<1> HIDE DEF last
<1>5. ASSUME ~b.gracefulClosing
      PROVE  b.outstandingObjects + NumObjects(SubSeq(bytes, 1, last)) <= Window
  <2>1. CASE last = 0
    <3>1. SubSeq(bytes, 1, last) = <<>>
      BY <2>1, SubSeqEmpty
    <3>2. NumObjects(<<>>) = 0
      BY ObjectsOfNone DEF NumObjects
    <3>3. NumObjects(SubSeq(bytes, 1, last)) = 0
      BY <3>1, <3>2
    <3>4. QED
      BY <1>4, <3>3
  <2>2. CASE last # 0
    <3>1. last \in 1..Len(bytes) /\ last - 1 \in 0..(last - 1) /\ last - 1 \in 0..Len(bytes)
      BY <1>1, <1>3, <2>2
    <3>2. MayHandle(b, last - 1)
      BY <1>3, <3>1
    <3>3. b.outstandingObjects + NumObjects(SubSeq(bytes, 1, last - 1)) < Window
      BY <1>5, <3>2 DEF MayHandle, NumObjects
    <3>4. NumObjects(SubSeq(bytes, 1, last)) <= NumObjects(SubSeq(bytes, 1, last - 1)) + 1
      BY <1>1, <3>1, ObjectsOfNext DEF NumObjects
    <3>5. /\ NumObjects(SubSeq(bytes, 1, last)) \in Nat
          /\ NumObjects(SubSeq(bytes, 1, last - 1)) \in Nat
      <4>1. SubSeq(bytes, 1, last) \in Seq(Frames) /\ SubSeq(bytes, 1, last - 1) \in Seq(Frames)
        BY <1>1, <3>1, CutInTwo
      <4>2. QED
        BY <4>1, NumObjectsType
    <3>6. QED
      BY <1>4, <3>3, <3>4, <3>5
  <2>3. QED
    BY <2>1, <2>2
<1>6. QED
  BY <1>3, <1>5 DEF last

(* What reaches the browser of the frames that are sent to it.             *)
Reaches(suffix, frames) ==
    \/ suffix = <<>>
    \/ suffix = frames
    \/ \E n \in 0..Len(frames) : suffix = SubSeq(frames, 1, n) \o <<CloseFrame(1011)>>

(* A close frame is a frame.                                               *)
LEMMA CloseFrameType ==
    ASSUME socket \in Sockets, NEW code \in Nat
    PROVE  /\ CloseFrame(code) \in Frames /\ <<CloseFrame(code)>> \in Seq(Frames)
           /\ CloseFrame(code).type = "close" /\ CloseFrame(code).n = code
           /\ CloseFrame(code).session = socket.session
BY DEF CloseFrame, Frames, FramesOf, Sockets

(* sendBrowser appends what reaches the socket and keeps to its limit.     *)
LEMMA SentReaches ==
    ASSUME NEW s \in Sockets, NEW frames \in Seq(Frames), socket \in Sockets,
           Len(s.toBrowser) <= BufferLimit + (IF s.client = "open" THEN 0 ELSE 1)
    PROVE  LET t == Sent(s, frames) IN
           /\ t \in Sockets /\ t.session = s.session /\ t.fromBrowser = s.fromBrowser
           /\ t.client = "none" <=> s.client = "none"
           /\ t.client = "open" => s.client = "open"
           /\ Len(t.toBrowser) <= BufferLimit + (IF t.client = "open" THEN 0 ELSE 1)
           /\ \E suffix \in Seq(Frames) :
                 /\ t.toBrowser = s.toBrowser \o suffix
                 /\ Reaches(suffix, frames)
                 /\ t.client = "open" => suffix = frames
                 /\ s.client # "open" => suffix = <<>>
<1> DEFINE t == Sent(s, frames)
<1>1. s.toBrowser \in Seq(Frames) /\ Len(s.toBrowser) \in Nat /\ Len(frames) \in Nat
      /\ BufferLimit \in Nat
  BY LenProperties, LimitsAssumption DEF Sockets
<1>2. CASE s.client # "open"
  <2>1. t = s
    BY <1>2 DEF Sent
  <2>2. s.toBrowser = s.toBrowser \o <<>> /\ <<>> \in Seq(Frames) /\ Reaches(<<>>, frames)
    BY <1>1, FramesConcat DEF Reaches
  <2>3. QED
    BY <1>2, <2>1, <2>2
<1>3. CASE s.client = "open" /\ ~Overflows(s, frames)
  <2>1. t = [s EXCEPT !.toBrowser = @ \o frames]
    BY <1>3 DEF Sent
  <2>2. /\ s.toBrowser \o frames \in Seq(Frames)
        /\ Len(s.toBrowser \o frames) = Len(s.toBrowser) + Len(frames)
    BY <1>1, FramesConcat
  <2>3. t.toBrowser = s.toBrowser \o frames /\ t.client = s.client /\ t \in Sockets
        /\ t.session = s.session /\ t.fromBrowser = s.fromBrowser
    BY <2>1, <2>2 DEF Sockets
  <2>4. Len(s.toBrowser) + Len(frames) <= BufferLimit
    BY <1>1, <1>3 DEF Overflows, Room
  <2>5. Len(t.toBrowser) <= BufferLimit + (IF t.client = "open" THEN 0 ELSE 1)
    BY <1>1, <1>3, <2>2, <2>3, <2>4
  <2>6. Reaches(frames, frames)
    BY DEF Reaches
  <2> HIDE DEF t
  <2>7. QED
    BY <1>3, <2>3, <2>5, <2>6 DEF t
<1>4. CASE s.client = "open" /\ Overflows(s, frames)
  <2> DEFINE n == Room(s)
             first == SubSeq(frames, 1, n)
             last == <<CloseFrame(1011)>>
             suffix == first \o last
  <2>1. n \in 0..Len(frames) /\ Len(s.toBrowser) + n = BufferLimit
    BY <1>1, <1>4 DEF Overflows, Room
  <2>2. first \in Seq(Frames) /\ Len(first) = n
    BY <2>1, CutInTwo
  <2>3. last \in Seq(Frames) /\ Len(last) = 1
    BY CloseFrameType
  <2>4. t = [s EXCEPT !.client = "ended", !.toBrowser = (s.toBrowser \o first) \o last]
    BY <1>4 DEF Sent
  <2> HIDE DEF n
  <2>5. Reaches(suffix, frames)
    BY <2>1 DEF Reaches
  <2> HIDE DEF t, first, last
  <2>6. suffix \in Seq(Frames) /\ Len(suffix) = n + 1
    <3>1. first \o last \in Seq(Frames) /\ Len(first \o last) = Len(first) + Len(last)
      BY <2>2, <2>3, FramesConcat
    <3>2. QED
      BY <2>2, <2>3, <3>1
  <2>7. (s.toBrowser \o first) \o last = s.toBrowser \o (first \o last)
    <3>1. Cat(Cat(s.toBrowser, first), last) = Cat(s.toBrowser, Cat(first, last))
      BY <1>1, <2>2, <2>3, CatFrames
    <3>2. QED
      BY <3>1 DEF Cat
  <2> HIDE DEF suffix
  <2>8. s.toBrowser \o suffix \in Seq(Frames) /\ Len(s.toBrowser \o suffix) = Len(s.toBrowser) + (n + 1)
    <3>1. /\ s.toBrowser \o suffix \in Seq(Frames)
          /\ Len(s.toBrowser \o suffix) = Len(s.toBrowser) + Len(suffix)
      BY <1>1, <2>6, FramesConcat
    <3>2. QED
      BY <2>6, <3>1
  <2>9. t = [s EXCEPT !.client = "ended", !.toBrowser = s.toBrowser \o suffix]
    BY <2>4, <2>7 DEF suffix
  <2>10. t.toBrowser = s.toBrowser \o suffix /\ t.client = "ended" /\ t \in Sockets
         /\ t.session = s.session /\ t.fromBrowser = s.fromBrowser
    BY <2>8, <2>9 DEF Sockets
  <2>11. Len(t.toBrowser) <= BufferLimit + (IF t.client = "open" THEN 0 ELSE 1)
    <3>1. \A a, b, c \in Nat : a + b = c => a + (b + 1) <= c + 1
      OBVIOUS
    <3>2. n \in Nat
      BY <1>1, <2>1
    <3>3. Len(t.toBrowser) = Len(s.toBrowser) + (n + 1)
      BY <2>8, <2>10
    <3>4. Len(s.toBrowser) + (n + 1) <= BufferLimit + 1
      BY <1>1, <2>1, <3>1, <3>2
    <3>5. Len(t.toBrowser) <= BufferLimit + 1
      BY <3>3, <3>4
    <3>6. QED
      BY <2>10, <3>5
  <2>12. QED
    BY <1>4, <2>5, <2>6, <2>10, <2>11 DEF t
<1>5. QED
  BY <1>2, <1>3, <1>4

Sidecars ==
    [process : {"none", "running", "exited", "closed"}, connected : BOOLEAN,
     fetching : BOOLEAN, stopping : BOOLEAN, main : {"loop", "draining"},
     replies : Seq(NativeFrames), callback : Seq(NativeFrames),
     produced : 0..MaxObjects, obeyed : Seq(CommandTypes)]

(* The fields of the sidecar that the bridge leaves alone, but for stopping. *)
SameButStopping(c, d) ==
    /\ d.process = c.process /\ d.connected = c.connected /\ d.fetching = c.fetching
    /\ d.main = c.main /\ d.replies = c.replies /\ d.callback = c.callback
    /\ d.produced = c.produced /\ d.obeyed = c.obeyed
    /\ c.stopping => d.stopping

(* The bridge's fields after the frames of b have been handled and rest    *)
(* remains, before the commands are pumped.                                *)
After(b, frames, rest, c) ==
    /\ c.native = b.native /\ c.nativeBytes = rest
    /\ c.gracefulClosing = b.gracefulClosing
    /\ c.auditComplete = (b.auditComplete \/ Has(frames, "audit-complete"))
    /\ c.outstandingObjects = b.outstandingObjects
                              + (IF b.gracefulClosing THEN 0 ELSE NumObjects(frames))

(* What the pump does to the commands of b.                                *)
Pumped(b, c) ==
    /\ stdin'.ended = stdin.ended
    /\ Len(stdin'.lines) <= StdinLimit
    /\ Len(stdin'.lines) = StdinLimit => c.nativeInputBlocked
    /\ ~stdin.ended =>
          stdin'.lines \o c.nativeCommands = stdin.lines \o b.nativeCommands
    /\ b.nativeCommands = <<>> => c.nativeCommands = <<>> /\ stdin'.lines = stdin.lines

(* What is forwarded are frames of the sidecar, after the close command    *)
(* only control frames.                                                    *)
LEMMA ForwardedType ==
    ASSUME NEW b, NEW frames \in Seq(NativeFrames)
    PROVE  /\ Forwarded(b, frames) \in Seq(NativeFrames)
           /\ b.gracefulClosing => Forwarded(b, frames) \in Seq(ControlFrames)
           /\ ~b.gracefulClosing => Forwarded(b, frames) = frames
<1>1. Only(frames, ControlFrames) \in Seq(ControlFrames)
  BY OnlyControls
<1>2. b.gracefulClosing => Forwarded(b, frames) = Only(frames, ControlFrames)
  BY DEF Forwarded, ControlFrames
<1>3. ~b.gracefulClosing => Forwarded(b, frames) = frames
  BY DEF Forwarded
<1>4. QED
  BY <1>1, <1>2, <1>3, NativeListsAreLists

(* The fields of the bridge once frames were handled.                      *)
LEMMA ProcessedFields ==
    ASSUME NEW b \in Bridges, NEW frames \in Seq(NativeFrames), NEW rest \in Seq(NativeFrames),
           rest = Remaining(b.nativeBytes, Len(frames)),
           ~b.gracefulClosing => b.outstandingObjects + NumObjects(frames) <= Window
    PROVE  /\ Processed(b, frames) \in Bridges
           /\ After(b, frames, rest, Processed(b, frames))
           /\ Processed(b, frames).nativeCommands = b.nativeCommands
           /\ Processed(b, frames).nativeInputBlocked = b.nativeInputBlocked
<1> DEFINE outstanding == b.outstandingObjects
                          + IF b.gracefulClosing THEN 0 ELSE NumObjects(frames)
           paused == b.paused \/ (b.nativeBytes # <<>> /\ ~b.gracefulClosing /\ outstanding >= Window)
           ready == b.nativeReady \/ Has(frames, "ready")
           audit == b.auditComplete \/ Has(frames, "audit-complete")
<1>1. Processed(b, frames) = [b EXCEPT !.nativeBytes = rest, !.outstandingObjects = outstanding,
                                       !.nativeReady = ready, !.auditComplete = audit,
                                       !.paused = paused]
  BY DEF Processed, NumObjects
<1>2. NumObjects(frames) \in Nat
  BY NumObjectsType, NativeListsAreLists
<1>3. outstanding \in 0..Window
  <2>1. b.outstandingObjects \in 0..Window /\ b.gracefulClosing \in BOOLEAN /\ Window \in Nat
    BY LimitsAssumption DEF Bridges
  <2>2. QED
    BY <1>2, <2>1
<1>4. paused \in BOOLEAN /\ ready \in BOOLEAN /\ audit \in BOOLEAN
  BY DEF Bridges, Has
<1> HIDE DEF paused, ready
<1>5. Processed(b, frames) \in Bridges
  BY <1>1, <1>3, <1>4 DEF Bridges
<1>6. QED
  BY <1>1, <1>5 DEF Bridges, After

(* Resuming the output changes nothing else.                               *)
LEMMA ResumedFields ==
    ASSUME NEW b \in Bridges
    PROVE  /\ Resumed(b) \in Bridges
           /\ \A c : c = Resumed(b) =>
                 /\ c.native = b.native /\ c.nativeReady = b.nativeReady
                 /\ c.nativeBytes = b.nativeBytes /\ c.gracefulClosing = b.gracefulClosing
                 /\ c.auditComplete = b.auditComplete
                 /\ c.outstandingObjects = b.outstandingObjects
                 /\ c.nativeCommands = b.nativeCommands
                 /\ c.nativeInputBlocked = b.nativeInputBlocked
BY DEF Resumed, Bridges

(* processNativeBytes, the pump and the resume at once.                    *)
LEMMA ProcessDoes ==
    ASSUME NEW b \in Bridges, NEW s \in Sockets, NEW resumes \in BOOLEAN,
           bridge \in Bridges, socket \in Sockets, sidecar \in Sidecars, stdin \in Stdins,
           Len(stdin.lines) <= StdinLimit,
           Len(stdin.lines) = StdinLimit => b.nativeInputBlocked,
           Process(b, s, resumes)
    PROVE  \E frames, rest \in Seq(NativeFrames) :
              /\ b.nativeBytes = frames \o rest
              /\ ~b.gracefulClosing => b.outstandingObjects + NumObjects(frames) <= Window
              /\ socket' = Sent(s, Forwarded(b, frames))
              /\ sidecar' \in Sidecars /\ SameButStopping(sidecar, sidecar')
              /\ sidecar'.stopping = (sidecar.stopping \/ Overflows(s, Forwarded(b, frames)))
              /\ \/ ~b.native /\ Crash /\ UNCHANGED <<bridge, stdin>>
                 \/ /\ bridge' \in Bridges /\ stdin' \in Stdins
                    /\ After(b, frames, rest, bridge') /\ Pumped(b, bridge')
                    /\ UNCHANGED exit \/ Crash
<1> DEFINE n == Handled(b)
           frames == SubSeq(b.nativeBytes, 1, n)
           rest == SubSeq(b.nativeBytes, n + 1, Len(b.nativeBytes))
           after == Processed(b, frames)
           before == IF resumes THEN Resumed(after) ELSE after
<1>1. b.nativeBytes \in Seq(NativeFrames) /\ n \in 0..Len(b.nativeBytes)
  BY HandledFits DEF Bridges
<1>2. /\ frames \in Seq(NativeFrames) /\ rest \in Seq(NativeFrames) /\ Len(frames) = n
      /\ b.nativeBytes = frames \o rest
  BY <1>1, CutInTwo
<1>3. ~b.gracefulClosing => b.outstandingObjects + NumObjects(frames) <= Window
  BY HandledFits
<1>4. rest = Remaining(b.nativeBytes, Len(frames))
  BY <1>2 DEF Remaining
<1>5. /\ socket' = Sent(s, Forwarded(b, frames))
      /\ sidecar' = [sidecar EXCEPT !.stopping = @ \/ Overflows(s, Forwarded(b, frames))]
      /\ \/ after.paused /\ ~b.native /\ Crash /\ UNCHANGED <<bridge, stdin>>
         \/ Pump(before)
  BY DEF Process
<1> HIDE DEF n, frames, rest
<1>6. /\ after \in Bridges /\ After(b, frames, rest, after)
      /\ after.nativeCommands = b.nativeCommands
      /\ after.nativeInputBlocked = b.nativeInputBlocked
  BY <1>2, <1>3, <1>4, ProcessedFields
<1> HIDE DEF after
<1>7. /\ before \in Bridges /\ After(b, frames, rest, before)
      /\ before.nativeCommands = b.nativeCommands
      /\ before.nativeInputBlocked = b.nativeInputBlocked
  BY <1>6, ResumedFields DEF After
<1>8. /\ sidecar' \in Sidecars /\ SameButStopping(sidecar, sidecar')
      /\ sidecar'.stopping = (sidecar.stopping \/ Overflows(s, Forwarded(b, frames)))
  <2>1. Overflows(s, Forwarded(b, frames)) \in BOOLEAN
    BY DEF Overflows
  <2>2. QED
    BY <1>5, <2>1 DEF Sidecars, SameButStopping
<1> HIDE DEF before
<1>9. ASSUME Pump(before)
      PROVE  /\ bridge' \in Bridges /\ stdin' \in Stdins
             /\ After(b, frames, rest, bridge') /\ Pumped(b, bridge')
             /\ UNCHANGED exit \/ Crash
  <2>1. /\ bridge' \in Bridges /\ stdin' \in Stdins
        /\ SameButCommands(before, bridge') /\ Pumped(before, bridge')
        /\ UNCHANGED exit \/ Crash
    BY <1>7, <1>9, PumpMoves DEF Pumped
  <2>2. After(b, frames, rest, bridge')
    BY <1>7, <2>1 DEF After, SameButCommands
  <2>3. Pumped(b, bridge')
    BY <1>7, <2>1 DEF Pumped
  <2>4. QED
    BY <2>1, <2>2, <2>3
<1>10. QED
  BY <1>2, <1>3, <1>5, <1>8, <1>9

-----------------------------------------------------------------------------
(* The messages of the browser.                                            *)

RangeOf(s) == {s[i] : i \in DOMAIN s}
Messages == MessageTypes \union {"object-ack"}

(* Acknowledgements are counted in naturals.                               *)
LEMMA AcksType == \A s \in Seq(Messages) : AcksIn(s) \in Nat
<1>1. ASSUME NEW s \in Seq(Messages) PROVE AcksIn(s) \in Nat
  <2>1. Only(s, {"object-ack"}) \in Seq(Messages \cap {"object-ack"})
    BY OnlyType
  <2>2. QED
    BY <2>1, LenProperties DEF AcksIn
<1>2. QED
  BY <1>1

(* The commands among messages.                                            *)
LEMMA CommandsType ==
    ASSUME NEW U, NEW s \in Seq(U)
    PROVE  Commands(s) \in Seq(CommandTypes)
<1>1. Commands(s) \in Seq(U \cap CommandTypes)
  BY OnlyType DEF Commands
<1>2. QED
  BY <1>1, SeqMonotonic

(* What one message more or less makes of the acknowledgements and the     *)
(* commands.                                                               *)
LEMMA MessageSent ==
    ASSUME NEW s \in Seq(Messages), NEW m \in Messages
    PROVE  /\ Append(s, m) \in Seq(Messages)
           /\ m = "object-ack" => AcksIn(Append(s, m)) = AcksIn(s) + 1
           /\ m # "object-ack" => AcksIn(Append(s, m)) = AcksIn(s)
           /\ m \in CommandTypes => Commands(Append(s, m)) = Append(Commands(s), m)
           /\ m \notin CommandTypes => Commands(Append(s, m)) = Commands(s)
           /\ "bye" \in RangeOf(Append(s, m)) => m = "bye" \/ "bye" \in RangeOf(s)
<1>1. Append(s, m) \in Seq(Messages)
  BY AppendProperties
<1>2. m = "object-ack" => AcksIn(Append(s, m)) = AcksIn(s) + 1
  <2>1. Only(s, {"object-ack"}) \in Seq(Messages \cap {"object-ack"})
    BY OnlyType
  <2>2. SUFFICES ASSUME m = "object-ack" PROVE AcksIn(Append(s, m)) = AcksIn(s) + 1
    OBVIOUS
  <2>3. Only(Append(s, m), {"object-ack"}) = Append(Only(s, {"object-ack"}), m)
    BY <2>2, OnlyAppend
  <2>4. m \in Messages \cap {"object-ack"}
    BY <2>2
  <2>5. Len(Append(Only(s, {"object-ack"}), m)) = Len(Only(s, {"object-ack"})) + 1
    BY <2>1, <2>4, AppendProperties
  <2>6. QED
    BY <2>3, <2>5 DEF AcksIn
<1>3. m # "object-ack" => AcksIn(Append(s, m)) = AcksIn(s)
  <2>1. m # "object-ack" => Only(Append(s, m), {"object-ack"}) = Only(s, {"object-ack"})
    BY OnlyAppend
  <2>2. QED
    BY <2>1 DEF AcksIn
<1>4. /\ m \in CommandTypes => Commands(Append(s, m)) = Append(Commands(s), m)
      /\ m \notin CommandTypes => Commands(Append(s, m)) = Commands(s)
  BY OnlyAppend DEF Commands
<1>5. ASSUME "bye" \in RangeOf(Append(s, m)) PROVE m = "bye" \/ "bye" \in RangeOf(s)
  <2>1. PICK i \in DOMAIN Append(s, m) : Append(s, m)[i] = "bye"
    BY <1>5 DEF RangeOf
  <2>2. Len(s) \in Nat /\ DOMAIN Append(s, m) = 1..(Len(s) + 1) /\ DOMAIN s = 1..Len(s)
        /\ Append(s, m)[Len(s) + 1] = m /\ \A j \in 1..Len(s) : Append(s, m)[j] = s[j]
    BY AppendProperties, LenProperties
  <2>3. i \in 1..Len(s) \/ i = Len(s) + 1
    BY <2>1, <2>2
  <2>4. QED
    BY <2>1, <2>2, <2>3 DEF RangeOf
<1>6. QED
  BY <1>1, <1>2, <1>3, <1>4, <1>5

(* Taking the first message of the browser.                                *)
LEMMA MessageRead ==
    ASSUME NEW s \in Seq(Messages), s # <<>>
    PROVE  /\ Head(s) \in Messages /\ Tail(s) \in Seq(Messages)
           /\ Head(s) = "object-ack" => AcksIn(s) = AcksIn(Tail(s)) + 1
           /\ AcksIn(Tail(s)) <= AcksIn(s)
           /\ Head(s) \in CommandTypes => Commands(s) = <<Head(s)>> \o Commands(Tail(s))
           /\ Head(s) \notin CommandTypes => Commands(s) = Commands(Tail(s))
           /\ "bye" \in RangeOf(Tail(s)) \/ Head(s) = "bye" => "bye" \in RangeOf(s)
<1>1. Head(s) \in Messages /\ Tail(s) \in Seq(Messages) /\ <<Head(s)>> \in Seq(Messages)
      /\ s = <<Head(s)>> \o Tail(s) /\ Len(Tail(s)) = Len(s) - 1
  BY HeadFirst, ListOfOne
<1> DEFINE h == Head(s)
           t == Tail(s)
<1>2. Only(s, {"object-ack"}) = Only(<<h>>, {"object-ack"}) \o Only(t, {"object-ack"})
  BY <1>1, OnlyConcat
<1>3. Commands(s) = Only(<<h>>, CommandTypes) \o Commands(t)
  BY <1>1, OnlyConcat DEF Commands
<1>4. Only(t, {"object-ack"}) \in Seq(Messages) /\ Commands(t) \in Seq(CommandTypes)
  <2>1. Only(t, {"object-ack"}) \in Seq(Messages \cap {"object-ack"})
    BY <1>1, OnlyType
  <2>2. QED
    BY <1>1, <2>1, SeqMonotonic, CommandsType
<1>5. h = "object-ack" => AcksIn(s) = AcksIn(t) + 1
  <2>1. SUFFICES ASSUME h = "object-ack" PROVE AcksIn(s) = AcksIn(t) + 1
    OBVIOUS
  <2>2. Only(<<h>>, {"object-ack"}) = <<h>>
    BY <2>1, OnlyOne
  <2>3. Len(<<h>> \o Only(t, {"object-ack"})) = 1 + Len(Only(t, {"object-ack"}))
    BY <1>1, <1>4, ConcatProperties, ListOfOne
  <2>4. AcksIn(s) = 1 + AcksIn(t)
    BY <1>2, <2>2, <2>3, Zenon DEF AcksIn
  <2>5. AcksIn(t) \in Nat
    BY <1>1, AcksType
  <2>6. QED
    BY <2>4, <2>5
<1>6. h # "object-ack" => AcksIn(s) = AcksIn(t)
  <2>1. h # "object-ack" => Only(<<h>>, {"object-ack"}) = <<>>
    BY OnlyOne
  <2>2. <<>> \o Only(t, {"object-ack"}) = Only(t, {"object-ack"})
    BY <1>4, ConcatEmptySeq
  <2>3. QED
    BY <1>2, <2>1, <2>2 DEF AcksIn
<1>7. AcksIn(t) <= AcksIn(s)
  <2>1. AcksIn(t) \in Nat /\ AcksIn(s) \in Nat
    BY <1>1, AcksType
  <2>2. QED
    BY <1>5, <1>6, <2>1
<1>8. /\ h \in CommandTypes => Commands(s) = <<h>> \o Commands(t)
      /\ h \notin CommandTypes => Commands(s) = Commands(t)
  <2>1. <<>> \o Commands(t) = Commands(t)
    BY <1>4, ConcatEmptySeq
  <2>2. QED
    BY <1>3, <2>1, OnlyOne
<1>9. "bye" \in RangeOf(t) \/ h = "bye" => "bye" \in RangeOf(s)
  <2>1. Len(s) \in Nat \ {0} /\ DOMAIN s = 1..Len(s) /\ DOMAIN t = 1..(Len(s) - 1)
        /\ h = s[1] /\ \A i \in 1..(Len(s) - 1) : t[i] = s[i + 1]
    BY <1>1, LenProperties, EmptySeq, HeadTailProperties
  <2>2. ASSUME "bye" \in RangeOf(t) PROVE "bye" \in RangeOf(s)
    <3>1. PICK i \in 1..(Len(s) - 1) : t[i] = "bye"
      BY <2>1, <2>2 DEF RangeOf
    <3>2. i + 1 \in DOMAIN s /\ s[i + 1] = "bye"
      BY <2>1, <3>1
    <3>3. QED
      BY <3>2 DEF RangeOf
  <2>3. QED
    BY <2>1, <2>2 DEF RangeOf
<1>10. QED
  BY <1>1, <1>5, <1>7, <1>8, <1>9

-----------------------------------------------------------------------------
(* The close code 1000 and the audit.                                      *)

IsCleanClose(frame) == frame.type = "close" /\ frame.n = 1000

(* A clean close of a browser that did not end the session itself follows  *)
(* the audit.                                                              *)
AuditPrecedes(frames, asked) ==
    \A i \in DOMAIN frames :
        IsCleanClose(frames[i]) =>
            \/ "bye" \in RangeOf(asked)
            \/ \E j \in 1..(i - 1) : frames[j].type = "audit-complete"

(* Frames that are no clean close may follow.                              *)
LEMMA AuditPrecedesNext ==
    ASSUME NEW s \in Seq(Frames), NEW t \in Seq(Frames), NEW asked, AuditPrecedes(s, asked),
           \/ \A i \in DOMAIN t : ~IsCleanClose(t[i])
           \/ Has(s, "audit-complete")
           \/ "bye" \in RangeOf(asked)
    PROVE  AuditPrecedes(s \o t, asked)
<1>1. /\ Len(s) \in Nat /\ Len(t) \in Nat /\ DOMAIN s = 1..Len(s) /\ DOMAIN t = 1..Len(t)
      /\ s \o t \in Seq(Frames) /\ DOMAIN (s \o t) = 1..(Len(s) + Len(t))
      /\ \A i \in 1..(Len(s) + Len(t)) : (s \o t)[i] = IF i <= Len(s) THEN s[i] ELSE t[i - Len(s)]
  BY LenProperties, ConcatProperties
<1>2. SUFFICES ASSUME NEW i \in 1..(Len(s) + Len(t)), IsCleanClose((s \o t)[i]),
                      "bye" \notin RangeOf(asked)
               PROVE  \E j \in 1..(i - 1) : (s \o t)[j].type = "audit-complete"
  BY <1>1 DEF AuditPrecedes
<1>3. CASE i <= Len(s)
  <2>1. i \in DOMAIN s /\ IsCleanClose(s[i])
    BY <1>1, <1>2, <1>3
  <2>2. PICK j \in 1..(i - 1) : s[j].type = "audit-complete"
    BY <1>2, <2>1 DEF AuditPrecedes
  <2>3. (s \o t)[j] = s[j]
    BY <1>1, <1>3, <2>2
  <2>4. QED
    BY <2>2, <2>3
<1>4. CASE ~(i <= Len(s))
  <2>1. i - Len(s) \in DOMAIN t /\ IsCleanClose(t[i - Len(s)])
    BY <1>1, <1>2, <1>4
  <2>2. Has(s, "audit-complete")
    BY <1>2, <2>1
  <2>3. PICK j \in 1..Len(s) : s[j].type = "audit-complete"
    BY <1>1, <2>2 DEF Has
  <2>4. j \in 1..(i - 1) /\ (s \o t)[j] = s[j]
    BY <1>1, <1>4, <2>3
  <2>5. QED
    BY <2>3, <2>4
<1>5. QED
  BY <1>3, <1>4

(* A browser that has asked more is owed no more.                          *)
LEMMA AuditPrecedesMore ==
    ASSUME NEW s, NEW asked, NEW more, AuditPrecedes(s, asked),
           "bye" \in RangeOf(asked) => "bye" \in RangeOf(more)
    PROVE  AuditPrecedes(s, more)
BY DEF AuditPrecedes

(* Frames of the sidecar, and a close with another code, are no clean close. *)
LEMMA NotClean ==
    /\ \A f \in NativeFrames : ~IsCleanClose(f)
    /\ \A f : f.n # 1000 => ~IsCleanClose(f)
BY DEF IsCleanClose, NativeFrames, FramesOf, NativeTypes

-----------------------------------------------------------------------------
(* The frames of one session.                                              *)

Own(session) == {f \in Frames : f.session = session}

(* A list is of one session when its two parts are.                        *)
LEMMA OwnConcat ==
    ASSUME NEW session, NEW s \in Seq(Frames), NEW t \in Seq(Frames)
    PROVE  s \o t \in Seq(Own(session)) <=> s \in Seq(Own(session)) /\ t \in Seq(Own(session))
<1>1. /\ Len(s) \in Nat /\ Len(t) \in Nat /\ DOMAIN s = 1..Len(s) /\ DOMAIN t = 1..Len(t)
      /\ s \o t \in Seq(Frames) /\ DOMAIN (s \o t) = 1..(Len(s) + Len(t))
      /\ \A i \in 1..(Len(s) + Len(t)) : (s \o t)[i] = IF i <= Len(s) THEN s[i] ELSE t[i - Len(s)]
  BY LenProperties, ConcatProperties
<1>2. ASSUME s \in Seq(Own(session)), t \in Seq(Own(session)) PROVE s \o t \in Seq(Own(session))
  BY <1>2, ConcatProperties
<1>3. ASSUME s \o t \in Seq(Own(session)) PROVE s \in Seq(Own(session)) /\ t \in Seq(Own(session))
  <2> DEFINE u == s \o t
  <2>1. \A i \in 1..(Len(s) + Len(t)) : u[i] \in Own(session)
    BY <1>1, <1>3, ElementOfSeq, LenProperties
  <2>2. \A i \in 1..Len(s) : s[i] \in Own(session)
    <3>1. ASSUME NEW i \in 1..Len(s) PROVE s[i] \in Own(session)
      <4>1. i \in 1..(Len(s) + Len(t)) /\ u[i] = s[i]
        BY <1>1
      <4>2. QED
        BY <2>1, <4>1
    <3>2. QED
      BY <3>1
  <2>3. \A i \in 1..Len(t) : t[i] \in Own(session)
    <3>1. ASSUME NEW i \in 1..Len(t) PROVE t[i] \in Own(session)
      <4>1. i + Len(s) \in 1..(Len(s) + Len(t)) /\ u[i + Len(s)] = t[i]
        BY <1>1
      <4>2. QED
        BY <2>1, <4>1
    <3>2. QED
      BY <3>1
  <2>4. QED
    BY <1>1, <2>2, <2>3, IsASeq
<1>4. QED
  BY <1>2, <1>3

(* The shortest lists of one session.                                      *)
LEMMA OwnBasics ==
    ASSUME NEW session
    PROVE  /\ <<>> \in Seq(Own(session))
           /\ \A f \in Own(session) : f \in Frames /\ <<f>> \in Seq(Own(session))
           /\ \A s \in Seq(Own(session)) : s \in Seq(Frames)
BY EmptySeq, SeqMonotonic, ListOfOne DEF Own

(* Forwarding stays within the session.                                    *)
LEMMA OwnForwarded ==
    ASSUME NEW session, NEW b, NEW frames \in Seq(NativeFrames), frames \in Seq(Own(session))
    PROVE  Forwarded(b, frames) \in Seq(Own(session))
<1>1. Only(frames, ControlFrames) \in Seq(Own(session) \cap ControlFrames)
  BY OnlyType
<1>2. Only(frames, ControlFrames) \in Seq(Own(session))
  BY <1>1, SeqMonotonic
<1>3. QED
  BY <1>2 DEF Forwarded, ControlFrames

(* A beginning of the frames reaches the browser, and perhaps a close frame. *)
CutBy(frames, suffix, first, rest, end) ==
    /\ first \in Seq(NativeFrames) /\ rest \in Seq(NativeFrames) /\ end \in Seq(Frames)
    /\ frames = first \o rest /\ suffix = first \o end
    /\ end = <<>> \/ end = <<CloseFrame(1011)>>

(* What reaches the socket is a first part of what was sent, and maybe the *)
(* close frame of an overflow.                                             *)
LEMMA ReachesCut ==
    ASSUME socket \in Sockets, NEW frames \in Seq(NativeFrames), NEW suffix,
           Reaches(suffix, frames)
    PROVE  \E first, rest, end : CutBy(frames, suffix, first, rest, end)
<1> DEFINE close == <<CloseFrame(1011)>>
<1>6. close \in Seq(Frames) /\ <<>> \in Seq(Frames)
  BY CloseFrameType, EmptySeq
<1>1. /\ \A s \in Seq(NativeFrames) : s \o <<>> = s /\ <<>> \o s = s
      /\ <<>> \in Seq(NativeFrames)
  BY ConcatEmptySeq, EmptySeq
<1>2. CASE suffix = <<>>
  <2>1. frames = <<>> \o frames /\ suffix = <<>> \o <<>>
    BY <1>1, <1>2
  <2>2. CutBy(frames, suffix, <<>>, frames, <<>>)
    BY <1>1, <1>6, <2>1 DEF CutBy
  <2>3. QED
    BY <2>2
<1>3. CASE suffix = frames
  <2>1. frames = frames \o <<>> /\ suffix = frames \o <<>>
    BY <1>1, <1>3
  <2>2. CutBy(frames, suffix, frames, <<>>, <<>>)
    BY <1>1, <1>6, <2>1 DEF CutBy
  <2>3. QED
    BY <2>2
<1>4. CASE \E n \in 0..Len(frames) : suffix = SubSeq(frames, 1, n) \o <<CloseFrame(1011)>>
  <2>1. PICK n \in 0..Len(frames) : suffix = SubSeq(frames, 1, n) \o <<CloseFrame(1011)>>
    BY <1>4
  <2> DEFINE first == SubSeq(frames, 1, n)
             rest == SubSeq(frames, n + 1, Len(frames))
  <2>2. /\ first \in Seq(NativeFrames) /\ rest \in Seq(NativeFrames)
        /\ frames = first \o rest
    BY CutInTwo
  <2>5. suffix = first \o <<CloseFrame(1011)>>
    BY <2>1
  <2> HIDE DEF first, rest
  <2>3. CutBy(frames, suffix, first, rest, close)
    BY <1>6, <2>2, <2>5 DEF CutBy
  <2>4. QED
    BY <2>3
<1>5. QED
  BY <1>2, <1>3, <1>4 DEF Reaches

(* So nothing is added that the invariant counts.                          *)
LEMMA WhatReaches ==
    ASSUME socket \in Sockets, NEW frames \in Seq(NativeFrames), NEW suffix \in Seq(Frames),
           Reaches(suffix, frames)
    PROVE  /\ NumObjects(suffix) <= NumObjects(frames)
           /\ \A i \in DOMAIN suffix : ~IsCleanClose(suffix[i])
           /\ frames \in Seq(Own(socket.session)) => suffix \in Seq(Own(socket.session))
           /\ \A r \in Seq(Frames) : Numbered(r \o frames) => Numbered(r \o suffix)
<1>0. PICK first, rest, end : CutBy(frames, suffix, first, rest, end)
  BY ReachesCut
<1>1. /\ first \in Seq(NativeFrames) /\ rest \in Seq(NativeFrames) /\ end \in Seq(Frames)
      /\ frames = first \o rest /\ suffix = first \o end
      /\ end = <<>> \/ end = <<CloseFrame(1011)>>
  BY <1>0 DEF CutBy
<1>2. /\ CloseFrame(1011) \in Frames /\ <<CloseFrame(1011)>> \in Seq(Frames)
      /\ CloseFrame(1011).type = "close" /\ CloseFrame(1011).n = 1011
      /\ CloseFrame(1011).session = socket.session
  BY CloseFrameType
<1>3. end \in Seq(Frames) /\ first \in Seq(Frames) /\ rest \in Seq(Frames) /\ frames \in Seq(Frames)
  BY <1>1, NativeListsAreLists
<1>4. ObjectsOf(end) = <<>> /\ NumObjects(end) = 0
  BY <1>1, <1>2, ObjectsOfNone, ObjectsOfOne DEF NumObjects
<1>5. NumObjects(suffix) <= NumObjects(frames)
  <2>1. /\ NumObjects(suffix) = NumObjects(first) + NumObjects(end)
        /\ NumObjects(frames) = NumObjects(first) + NumObjects(rest)
    BY <1>1, <1>3, NumObjectsConcat
  <2>2. NumObjects(first) \in Nat /\ NumObjects(rest) \in Nat
    BY <1>3, NumObjectsType
  <2>3. QED
    BY <1>4, <2>1, <2>2
<1>6. ASSUME NEW i \in DOMAIN suffix PROVE ~IsCleanClose(suffix[i])
  <2>1. /\ Len(first) \in Nat /\ Len(end) \in Nat
        /\ DOMAIN suffix = 1..(Len(first) + Len(end))
        /\ suffix[i] = IF i <= Len(first) THEN first[i] ELSE end[i - Len(first)]
    BY <1>1, <1>3, <1>6, LenProperties, ConcatProperties
  <2>2. CASE i <= Len(first)
    <3>1. suffix[i] = first[i] /\ i \in 1..Len(first)
      BY <2>1, <2>2
    <3>2. first[i] \in NativeFrames
      BY <1>1, <3>1, ElementOfSeq
    <3>3. QED
      BY <3>1, <3>2, NotClean
  <2>3. CASE ~(i <= Len(first))
    <3>1. suffix[i] = end[i - Len(first)] /\ i - Len(first) \in 1..Len(end)
      BY <2>1, <2>3
    <3>2. Len(<<>>) = 0 /\ Len(<<CloseFrame(1011)>>) = 1
      OBVIOUS
    <3>3. Len(end) = 1 /\ end = <<CloseFrame(1011)>>
      <4>1. CASE end = <<>>
        BY <3>1, <3>2, <4>1
      <4>2. CASE end = <<CloseFrame(1011)>>
        BY <3>2, <4>2
      <4>3. QED
        BY <1>1, <4>1, <4>2
    <3>4. i - Len(first) = 1
      BY <2>1, <3>1, <3>3
    <3>5. suffix[i] = CloseFrame(1011)
      BY <3>1, <3>3, <3>4
    <3>6. QED
      BY <1>2, <3>5, NotClean
  <2>4. QED
    BY <2>2, <2>3
<1>7. frames \in Seq(Own(socket.session)) => suffix \in Seq(Own(socket.session))
  <2>1. end \in Seq(Own(socket.session))
    <3>1. CloseFrame(1011) \in Own(socket.session)
      BY <1>2 DEF Own
    <3>2. QED
      <4>1. <<>> \in Seq(Own(socket.session)) /\ <<CloseFrame(1011)>> \in Seq(Own(socket.session))
        BY <3>1, OwnBasics
      <4>2. QED
        <5>1. CASE end = <<>>
          BY <4>1, <5>1
        <5>2. CASE end = <<CloseFrame(1011)>>
          BY <4>1, <5>2
        <5>3. QED
          BY <1>1, <5>1, <5>2
  <2>2. QED
    BY <1>1, <1>3, <2>1, OwnConcat
<1>8. ASSUME NEW r \in Seq(Frames), Numbered(r \o frames) PROVE Numbered(r \o suffix)
  <2>1. (r \o first) \o rest = r \o frames /\ r \o first \in Seq(Frames)
    <3>1. (r \o first) \o rest = r \o (first \o rest)
      <4>1. Cat(Cat(r, first), rest) = Cat(r, Cat(first, rest))
        BY <1>3, <1>8, CatFrames
      <4>2. QED
        BY <4>1 DEF Cat
    <3>2. r \o first \in Seq(Frames)
      BY <1>3, <1>8, FramesConcat
    <3>3. QED
      BY <1>1, <3>1, <3>2
  <2>2. Numbered(r \o first)
    BY <1>3, <1>8, <2>1, NumberedPrefix
  <2>3. r \o suffix = (r \o first) \o end
    <3>1. (r \o first) \o end = r \o (first \o end)
      <4>1. Cat(Cat(r, first), end) = Cat(r, Cat(first, end))
        BY <1>3, <1>8, CatFrames
      <4>2. QED
        BY <4>1 DEF Cat
    <3>2. QED
      BY <1>1, <3>1
  <2>4. ObjectsOf((r \o first) \o end) = ObjectsOf(r \o first) \o <<>>
    <3>1. ObjectsOf((r \o first) \o end) = ObjectsOf(r \o first) \o ObjectsOf(end)
      BY <1>3, <2>1, ObjectsConcat
    <3>2. QED
      BY <1>4, <3>1
  <2>5. ObjectsOf(r \o first) \o <<>> = ObjectsOf(r \o first)
    BY <2>1, ObjectsType, FramesConcat
  <2>6. ObjectsOf(r \o first) = ObjectsOf(r \o suffix)
    BY <2>3, <2>4, <2>5
  <2>7. QED
    BY <2>2, <2>6, NumberedSame
<1>9. QED
  BY <1>5, <1>6, <1>7, <1>8

-----------------------------------------------------------------------------
(* The inductive invariant.  Its parts speak of the bridge's variables, of *)
(* the socket and of the output of the sidecar as a handler may have left  *)
(* them when it calls processNativeBytes.                                  *)

Exits == [timer : BOOLEAN, server : BOOLEAN, state : {"no", "pending", "done"}, code : {0, 1}]
Browsers ==
    [state : {"none", "open", "left"}, asked : Seq(MessageTypes), held : 0..Window,
     received : Seq(Frames)]

TypesAt(b, s, p) ==
    /\ b \in Bridges
    /\ s \in Sockets
    /\ Len(s.toBrowser) <= BufferLimit + (IF s.client = "open" THEN 0 ELSE 1)
    /\ p \in Seq(NativeFrames) /\ Len(p) <= PipeLimit
OtherTypes ==
    /\ exit \in Exits /\ sidecar \in Sidecars /\ stdin \in Stdins /\ browser \in Browsers
    /\ Len(stdin.lines) <= StdinLimit

(* While the bridge runs and no close command was read, it counts every    *)
(* object that the browser has not acknowledged.                           *)
Load(s) == (NumObjects(s.toBrowser) + browser.held) + AcksIn(s.fromBrowser)
WindowAt(b, s) ==
    /\ s.client = "none" => s.toBrowser = <<>>
    /\ s.client # "none" => Load(s) <= Window
    /\ s.client # "none" /\ Alive /\ ~b.gracefulClosing => Load(s) <= b.outstandingObjects

(* The audit is on its way to an open browser as soon as it is complete.   *)
CodeAt(b, s) ==
    /\ AuditPrecedes(browser.received \o s.toBrowser, browser.asked)
    /\ Persistent /\ s.client = "open" /\ b.auditComplete =>
          Has(browser.received \o s.toBrowser, "audit-complete")
    /\ "bye" \in RangeOf(s.fromBrowser) => "bye" \in RangeOf(browser.asked)

(* What is between the pipe and the browser is numbered even after the     *)
(* sidecar has gone.                                                       *)
Along(b, s, p) == (browser.received \o s.toBrowser) \o (b.nativeBytes \o p)
ObjectsAt(b, s, p) ==
    /\ s.client # "none" => Numbered(browser.received \o s.toBrowser)
    /\ s.client = "open" /\ ~b.gracefulClosing /\ Alive => Numbered(Along(b, s, p))
    /\ s.client = "open" /\ ~b.gracefulClosing /\ sidecar.process \notin {"exited", "closed"} =>
          /\ Numbered(Along(b, s, p) \o sidecar.callback)
          /\ NumObjects(Along(b, s, p) \o sidecar.callback) = sidecar.produced

Reaching(b, s) ==
    ((sidecar.obeyed \o stdin.lines) \o b.nativeCommands) \o Commands(s.fromBrowser)
CommandsAt(b, s) ==
    s.client # "none" /\ ~stdin.ended /\ Alive =>
        IF b.gracefulClosing THEN Essential(Reaching(b, s)) = Essential(browser.asked)
                             ELSE Reaching(b, s) = Commands(browser.asked)

(* A lazy bridge starts a session with nothing left of the one before.     *)
SessionAt(b, s, p) ==
    LazyNative =>
        /\ browser.received \in Seq(Own(s.session)) /\ s.toBrowser \in Seq(Own(s.session))
        /\ b.nativeBytes \in Seq(Own(s.session)) /\ p \in Seq(Own(s.session))
        /\ sidecar.callback \in Seq(Own(s.session)) /\ sidecar.replies \in Seq(Own(s.session))

SidecarAt(b, s, p) ==
    /\ ObjectsOf(sidecar.replies) = <<>> /\ Len(sidecar.callback) <= 1
    /\ sidecar.fetching => sidecar.connected
    /\ sidecar.process = "none" => LazyNative /\ s.client = "none"
    /\ ~b.native => sidecar.process \in {"none", "closed"}
    /\ sidecar.process \in {"none", "closed"} => p = <<>>
    /\ ~sidecar.connected /\ ~sidecar.stopping =>
          p = <<>> /\ sidecar.callback = <<>> /\ sidecar.replies = <<>>
    /\ sidecar.process # "running" => sidecar.callback = <<>> /\ sidecar.replies = <<>>
    /\ Len(stdin.lines) = StdinLimit => b.nativeInputBlocked

(* The sidecar of a bridge that is not lazy serves one session, and before *)
(* it nothing was asked of the sidecar.                                    *)
FirstAt(b, s, p) ==
    /\ ~LazyNative /\ s.session = 0 =>
          /\ s.client = "none" /\ browser.state = "none"
          /\ b.nativeCommands = <<>> /\ stdin.lines = <<>> /\ sidecar.obeyed = <<>>
          /\ ~sidecar.fetching /\ sidecar.produced = 0
          /\ ObjectsOf(b.nativeBytes \o p) = <<>> /\ ObjectsOf(sidecar.callback) = <<>>
    /\ ~LazyNative /\ s.session # 0 /\ s.client = "none" => ~exit.server

InvAt(b, s, p) ==
    /\ TypesAt(b, s, p) /\ OtherTypes
    /\ WindowAt(b, s) /\ CodeAt(b, s) /\ ObjectsAt(b, s, p) /\ CommandsAt(b, s)
    /\ SessionAt(b, s, p) /\ SidecarAt(b, s, p) /\ FirstAt(b, s, p)
BridgeInv == InvAt(bridge, socket, pipe)

-----------------------------------------------------------------------------
(* What processNativeBytes makes of the parts.                             *)

(* Its outcome: the frames it handles and those it leaves, and what is     *)
(* added to the browser's stream.                                          *)
Ends(b, s, frames, rest, suffix) ==
    /\ frames \in Seq(NativeFrames) /\ rest \in Seq(NativeFrames)
    /\ b.nativeBytes = frames \o rest
    /\ ~b.gracefulClosing => b.outstandingObjects + NumObjects(frames) <= Window
    /\ suffix \in Seq(Frames) /\ Reaches(suffix, Forwarded(b, frames))
    /\ socket'.toBrowser = s.toBrowser \o suffix
    /\ socket'.client = "open" => s.client = "open" /\ suffix = Forwarded(b, frames)
    /\ s.client # "open" => suffix = <<>>
    /\ socket'.client = "none" <=> s.client = "none"
    /\ socket'.session = s.session /\ socket'.fromBrowser = s.fromBrowser
    /\ socket' \in Sockets
    /\ Len(socket'.toBrowser) <= BufferLimit + (IF socket'.client = "open" THEN 0 ELSE 1)
    /\ sidecar' \in Sidecars /\ SameButStopping(sidecar, sidecar')
    /\ \/ ~b.native /\ Crash /\ UNCHANGED <<bridge, stdin>>
       \/ /\ bridge' \in Bridges /\ stdin' \in Stdins
          /\ After(b, frames, rest, bridge') /\ Pumped(b, bridge')
          /\ UNCHANGED exit \/ Crash

(* processNativeBytes does what Ends says.                                 *)
LEMMA ProcessEnds ==
    ASSUME NEW b, NEW s, NEW p, NEW resumes \in BOOLEAN, TypesAt(b, s, p), BridgeInv,
           Len(stdin.lines) = StdinLimit => b.nativeInputBlocked,
           Process(b, s, resumes)
    PROVE  \E frames, rest, suffix : Ends(b, s, frames, rest, suffix)
<1>1. b \in Bridges /\ s \in Sockets /\ bridge \in Bridges /\ socket \in Sockets
      /\ sidecar \in Sidecars /\ stdin \in Stdins /\ Len(stdin.lines) <= StdinLimit
      /\ Len(s.toBrowser) <= BufferLimit + (IF s.client = "open" THEN 0 ELSE 1)
  BY DEF TypesAt, BridgeInv, InvAt, OtherTypes
<1>2. PICK frames, rest \in Seq(NativeFrames) :
              /\ b.nativeBytes = frames \o rest
              /\ ~b.gracefulClosing => b.outstandingObjects + NumObjects(frames) <= Window
              /\ socket' = Sent(s, Forwarded(b, frames))
              /\ sidecar' \in Sidecars /\ SameButStopping(sidecar, sidecar')
              /\ sidecar'.stopping = (sidecar.stopping \/ Overflows(s, Forwarded(b, frames)))
              /\ \/ ~b.native /\ Crash /\ UNCHANGED <<bridge, stdin>>
                 \/ /\ bridge' \in Bridges /\ stdin' \in Stdins
                    /\ After(b, frames, rest, bridge') /\ Pumped(b, bridge')
                    /\ UNCHANGED exit \/ Crash
  BY <1>1, ProcessDoes
<1> DEFINE passed == Forwarded(b, frames)
<1>3. passed \in Seq(Frames)
  BY ForwardedType, NativeListsAreLists
<1> HIDE DEF passed
<1>4. LET t == Sent(s, passed) IN
           /\ t \in Sockets /\ t.session = s.session /\ t.fromBrowser = s.fromBrowser
           /\ t.client = "none" <=> s.client = "none"
           /\ t.client = "open" => s.client = "open"
           /\ Len(t.toBrowser) <= BufferLimit + (IF t.client = "open" THEN 0 ELSE 1)
           /\ \E suffix \in Seq(Frames) :
                 /\ t.toBrowser = s.toBrowser \o suffix
                 /\ Reaches(suffix, passed)
                 /\ t.client = "open" => suffix = passed
                 /\ s.client # "open" => suffix = <<>>
  BY <1>1, <1>3, SentReaches
<1>5. socket' = Sent(s, passed)
  BY <1>2 DEF passed
<1>6. /\ socket' \in Sockets /\ socket'.session = s.session /\ socket'.fromBrowser = s.fromBrowser
      /\ socket'.client = "none" <=> s.client = "none"
      /\ socket'.client = "open" => s.client = "open"
      /\ Len(socket'.toBrowser) <= BufferLimit + (IF socket'.client = "open" THEN 0 ELSE 1)
      /\ \E suffix \in Seq(Frames) :
                 /\ socket'.toBrowser = s.toBrowser \o suffix
                 /\ Reaches(suffix, passed)
                 /\ socket'.client = "open" => suffix = passed
                 /\ s.client # "open" => suffix = <<>>
  BY <1>4, <1>5
<1>7. PICK suffix \in Seq(Frames) :
                 /\ socket'.toBrowser = s.toBrowser \o suffix
                 /\ Reaches(suffix, passed)
                 /\ socket'.client = "open" => suffix = passed
                 /\ s.client # "open" => suffix = <<>>
  BY <1>6
<1>8. Ends(b, s, frames, rest, suffix)
  BY <1>2, <1>6, <1>7 DEF Ends, passed
<1>9. QED
  BY <1>8

Handles(b, s, p, frames, rest, suffix) ==
    /\ BridgeInv /\ InvAt(b, s, p) /\ Ends(b, s, frames, rest, suffix)
    /\ s.session = socket.session /\ b.auditComplete = bridge.auditComplete /\ Alive
    /\ pipe' = p /\ browser' = browser

(* The types after a handler, ...                                          *)
LEMMA HandlesTypes ==
    ASSUME NEW b, NEW s, NEW p, NEW frames, NEW rest, NEW suffix,
           Handles(b, s, p, frames, rest, suffix)
    PROVE  TypesAt(bridge, socket, pipe)' /\ OtherTypes'
<1>1. bridge' \in Bridges /\ stdin' \in Stdins /\ Len(stdin'.lines) <= StdinLimit
  BY DEF Handles, BridgeInv, InvAt, TypesAt, OtherTypes, Ends, Pumped
<1>2. exit' \in Exits
  BY DEF Handles, BridgeInv, InvAt, OtherTypes, Ends, Crash, Exits
<1>3. /\ socket' \in Sockets /\ sidecar' \in Sidecars /\ browser' \in Browsers
      /\ Len(socket'.toBrowser) <= BufferLimit + (IF socket'.client = "open" THEN 0 ELSE 1)
  BY DEF Handles, BridgeInv, InvAt, OtherTypes, Ends
<1>4. pipe' \in Seq(NativeFrames) /\ Len(pipe') <= PipeLimit
  BY DEF Handles, InvAt, TypesAt
<1>5. QED
  BY <1>1, <1>2, <1>3, <1>4 DEF TypesAt, OtherTypes

(* The lists in question.                                                  *)
LEMMA HandlesLists ==
    ASSUME NEW b, NEW s, NEW p, NEW frames, NEW rest, NEW suffix,
           Handles(b, s, p, frames, rest, suffix)
    PROVE  /\ s.toBrowser \in Seq(Frames) /\ suffix \in Seq(Frames)
           /\ frames \in Seq(Frames) /\ rest \in Seq(Frames) /\ p \in Seq(Frames)
           /\ frames \in Seq(NativeFrames) /\ rest \in Seq(NativeFrames)
           /\ browser.received \in Seq(Frames) /\ sidecar.callback \in Seq(Frames)
           /\ bridge.nativeBytes \in Seq(Frames)
           /\ b.gracefulClosing \in BOOLEAN /\ socket \in Sockets
           /\ Forwarded(b, frames) \in Seq(NativeFrames)
           /\ NumObjects(suffix) <= NumObjects(Forwarded(b, frames))
           /\ \A i \in DOMAIN suffix : ~IsCleanClose(suffix[i])
           /\ Forwarded(b, frames) \in Seq(Own(s.session)) => suffix \in Seq(Own(s.session))
           /\ \A r \in Seq(Frames) : Numbered(r \o Forwarded(b, frames)) => Numbered(r \o suffix)
           /\ b.gracefulClosing => ObjectsOf(Forwarded(b, frames)) = <<>>
           /\ ~b.gracefulClosing => Forwarded(b, frames) = frames
<1>1. /\ b \in Bridges /\ s \in Sockets /\ p \in Seq(NativeFrames) /\ socket \in Sockets
      /\ bridge \in Bridges /\ sidecar \in Sidecars /\ browser \in Browsers
      /\ frames \in Seq(NativeFrames) /\ rest \in Seq(NativeFrames) /\ suffix \in Seq(Frames)
      /\ Reaches(suffix, Forwarded(b, frames)) /\ s.session = socket.session
  BY DEF Handles, BridgeInv, InvAt, TypesAt, OtherTypes, Ends
<1>2. /\ s.toBrowser \in Seq(Frames) /\ browser.received \in Seq(Frames)
      /\ bridge.nativeBytes \in Seq(NativeFrames) /\ sidecar.callback \in Seq(NativeFrames)
      /\ b.gracefulClosing \in BOOLEAN
  BY <1>1 DEF Bridges, Sockets, Sidecars, Browsers
<1>3. /\ Forwarded(b, frames) \in Seq(NativeFrames)
      /\ b.gracefulClosing => Forwarded(b, frames) \in Seq(ControlFrames)
      /\ ~b.gracefulClosing => Forwarded(b, frames) = frames
  BY <1>1, ForwardedType
<1>4. b.gracefulClosing => ObjectsOf(Forwarded(b, frames)) = <<>>
  BY <1>3, ControlsHaveNoObjects
<1> DEFINE passed == Forwarded(b, frames)
<1>5. passed \in Seq(NativeFrames) /\ Reaches(suffix, passed)
  BY <1>1, <1>3
<1> HIDE DEF passed
<1>6. /\ NumObjects(suffix) <= NumObjects(passed)
      /\ \A i \in DOMAIN suffix : ~IsCleanClose(suffix[i])
      /\ passed \in Seq(Own(socket.session)) => suffix \in Seq(Own(socket.session))
      /\ \A r \in Seq(Frames) : Numbered(r \o passed) => Numbered(r \o suffix)
  BY <1>1, <1>5, WhatReaches
<1>7. /\ frames \in Seq(Frames) /\ rest \in Seq(Frames) /\ p \in Seq(Frames)
      /\ bridge.nativeBytes \in Seq(Frames) /\ sidecar.callback \in Seq(Frames)
  BY <1>1, <1>2, NativeListsAreLists
<1>8. QED
  BY <1>1, <1>2, <1>3, <1>4, <1>6, <1>7 DEF passed

(* ... the window: what is forwarded is counted as outstanding, ...        *)
LEMMA HandlesWindow ==
    ASSUME NEW b, NEW s, NEW p, NEW frames, NEW rest, NEW suffix,
           Handles(b, s, p, frames, rest, suffix)
    PROVE  WindowAt(bridge, socket)'
<1>1. /\ s.client = "none" => s.toBrowser = <<>>
      /\ s.client # "none" => Load(s) <= Window
      /\ s.client # "none" /\ ~b.gracefulClosing => Load(s) <= b.outstandingObjects
  BY DEF Handles, InvAt, WindowAt
<1>2. /\ socket'.toBrowser = s.toBrowser \o suffix /\ browser' = browser
      /\ socket'.fromBrowser = s.fromBrowser
      /\ socket'.client = "none" <=> s.client = "none"
      /\ s.client # "open" => suffix = <<>>
  BY DEF Handles, Ends
<1> DEFINE a == NumObjects(s.toBrowser)
           c == NumObjects(suffix)
           d == NumObjects(frames)
           k == AcksIn(s.fromBrowser)
           o == b.outstandingObjects
<1>3. /\ a \in Nat /\ c \in Nat /\ d \in Nat /\ k \in Nat /\ browser.held \in Nat /\ o \in Nat
      /\ NumObjects(s.toBrowser \o suffix) = a + c /\ Window \in Nat
  <2>1. s.fromBrowser \in Seq(Messages) /\ browser.held \in 0..Window /\ o \in 0..Window
    BY DEF Handles, InvAt, TypesAt, OtherTypes, Sockets, Browsers, Bridges, Messages
  <2>2. s.toBrowser \in Seq(Frames) /\ suffix \in Seq(Frames) /\ frames \in Seq(Frames)
    BY HandlesLists
  <2>3. NumObjects(s.toBrowser \o suffix) = a + c
    BY <2>2, NumObjectsConcat
  <2>4. a \in Nat /\ c \in Nat /\ d \in Nat
    BY <2>2, NumObjectsType
  <2>5. k \in Nat
    BY <2>1, AcksType
  <2>6. QED
    BY <2>1, <2>3, <2>4, <2>5, LimitsAssumption
<1>4. /\ b.gracefulClosing => c <= 0
      /\ ~b.gracefulClosing => c <= d /\ o + d <= Window
  <2>1. b.gracefulClosing => NumObjects(Forwarded(b, frames)) = 0
    BY HandlesLists, ObjectsOfNone DEF NumObjects
  <2>2. ~b.gracefulClosing => o + d <= Window
    BY DEF Handles, Ends
  <2>3. QED
    BY <2>1, <2>2, HandlesLists
<1>5. Load(socket)' = ((a + c) + browser.held) + k
  BY <1>2, <1>3 DEF Load
<1>6. Load(s) = (a + browser.held) + k
  BY DEF Load
<1>7. socket'.client = "none" => socket'.toBrowser = <<>>
  <2>1. <<>> \o <<>> = <<>>
    OBVIOUS
  <2>2. QED
    BY <1>1, <1>2, <2>1
<1>8. s.client # "none" =>
         /\ ((a + c) + browser.held) + k <= Window
         /\ ~b.gracefulClosing => ((a + c) + browser.held) + k <= o + d
  <2> DEFINE h == browser.held
             l == (a + h) + k
  <2>1. /\ a \in Nat /\ c \in Nat /\ d \in Nat /\ k \in Nat /\ h \in Nat /\ o \in Nat
        /\ Window \in Nat
    BY <1>3
  <2>2. /\ s.client # "none" => l <= Window
        /\ s.client # "none" /\ ~b.gracefulClosing => l <= o
    BY <1>1, <1>6
  <2> HIDE DEF a, c, d, k, o, h
  <2>3. ((a + c) + h) + k = l + c /\ l \in Nat
    BY <2>1
  <2> HIDE DEF l
  <2>4. CASE b.gracefulClosing
    <3>1. s.client # "none" => l + c <= Window
      BY <1>4, <2>1, <2>2, <2>3, <2>4
    <3>2. QED
      BY <2>3, <2>4, <3>1 DEF h
  <2>5. CASE ~b.gracefulClosing
    <3>1. c <= d /\ o + d <= Window
      BY <1>4, <2>5
    <3>2. s.client # "none" => l + c <= o + d
      BY <2>1, <2>2, <2>3, <2>5, <3>1
    <3>3. l + c \in Nat /\ o + d \in Nat
      BY <2>1, <2>3
    <3>4. s.client # "none" => l + c <= Window
      BY <2>1, <3>1, <3>2, <3>3
    <3>5. QED
      BY <2>3, <3>2, <3>4 DEF h
  <2>6. b.gracefulClosing \in BOOLEAN
    BY DEF Handles, InvAt, TypesAt, Bridges
  <2>7. QED
    BY <2>4, <2>5, <2>6
<1> HIDE DEF a, c, d, k, o
<1>9. Alive' => /\ bridge'.gracefulClosing = b.gracefulClosing
                /\ ~b.gracefulClosing => bridge'.outstandingObjects = o + d
  <2>1. Crash => ~Alive'
    BY DEF Handles, BridgeInv, InvAt, OtherTypes, Exits, Crash, Alive
  <2>2. QED
    BY <2>1 DEF Handles, Ends, After, d, o
<1>10. QED
  BY <1>2, <1>5, <1>7, <1>8, <1>9 DEF WindowAt

(* ... the audit before the clean close, ...                               *)
LEMMA HandlesCode ==
    ASSUME NEW b, NEW s, NEW p, NEW frames, NEW rest, NEW suffix,
           Handles(b, s, p, frames, rest, suffix)
    PROVE  CodeAt(bridge, socket)'
<1> DEFINE r == browser.received
           t == s.toBrowser
<1>1. /\ AuditPrecedes(r \o t, browser.asked)
      /\ Persistent /\ s.client = "open" /\ b.auditComplete => Has(r \o t, "audit-complete")
      /\ "bye" \in RangeOf(s.fromBrowser) => "bye" \in RangeOf(browser.asked)
  BY DEF Handles, InvAt, CodeAt
<1>2. /\ socket'.toBrowser = t \o suffix /\ browser' = browser
      /\ socket'.fromBrowser = s.fromBrowser
      /\ socket'.client = "open" => s.client = "open" /\ suffix = Forwarded(b, frames)
  BY DEF Handles, Ends
<1>3. /\ r \in Seq(Frames) /\ t \in Seq(Frames) /\ suffix \in Seq(Frames)
      /\ \A i \in DOMAIN suffix : ~IsCleanClose(suffix[i])
  BY HandlesLists
<1> HIDE DEF r, t
<1>9. r \o (t \o suffix) = (r \o t) \o suffix
  <2>1. Cat(r, Cat(t, suffix)) = Cat(Cat(r, t), suffix)
    BY <1>3, CatFrames
  <2>2. QED
    BY <2>1 DEF Cat
<1>4. r \o (t \o suffix) = (r \o t) \o suffix /\ r \o t \in Seq(Frames)
  BY <1>3, <1>9, FramesConcat
<1>5. AuditPrecedes((r \o t) \o suffix, browser.asked)
  BY <1>1, <1>3, <1>4, AuditPrecedesNext
<1>6. ASSUME Persistent, socket'.client = "open", bridge'.auditComplete
      PROVE  Has((r \o t) \o suffix, "audit-complete")
  <2>1. b.auditComplete \/ Has(frames, "audit-complete")
    BY <1>6 DEF Handles, Ends, After
  <2>2. CASE b.auditComplete
    BY <1>1, <1>2, <1>3, <1>4, <1>6, <2>2, HasConcat
  <2>3. CASE Has(frames, "audit-complete")
    <3>1. Has(Forwarded(b, frames), "audit-complete")
      BY <2>3, HandlesLists, ControlsKept DEF Forwarded, ControlFrames, NativeTypes
    <3>2. Has(suffix, "audit-complete")
      BY <1>2, <1>6, <3>1
    <3>3. QED
      BY <1>3, <1>4, <3>2, HasConcat
  <2>4. QED
    BY <2>1, <2>2, <2>3
<1>7. browser'.received = r /\ browser'.asked = browser.asked
  BY <1>2 DEF r
<1>8. QED
  BY <1>1, <1>2, <1>4, <1>5, <1>6, <1>7 DEF CodeAt

(* (the bridge crashed before it changed anything, or it went on)          *)
LEMMA HandlesOutcome ==
    ASSUME NEW b, NEW s, NEW p, NEW frames, NEW rest, NEW suffix,
           Handles(b, s, p, frames, rest, suffix)
    PROVE  \/ ~b.native /\ ~Alive' /\ UNCHANGED <<bridge, stdin>>
           \/ After(b, frames, rest, bridge') /\ Pumped(b, bridge')
<1>1. Crash => ~Alive'
  BY DEF Handles, BridgeInv, InvAt, OtherTypes, Exits, Crash, Alive
<1>2. QED
  BY <1>1 DEF Handles, Ends

(* ... the objects of the session in order, ...                            *)
LEMMA HandlesObjects ==
    ASSUME NEW b, NEW s, NEW p, NEW frames, NEW rest, NEW suffix,
           Handles(b, s, p, frames, rest, suffix)
    PROVE  ObjectsAt(bridge, socket, pipe)'
<1> DEFINE r == browser.received
           t == s.toBrowser
           passed == Forwarded(b, frames)
           all == (r \o t) \o (b.nativeBytes \o p)
<1>1. /\ s.client # "none" => Numbered(r \o t)
      /\ s.client = "open" /\ ~b.gracefulClosing => Numbered(all)
      /\ s.client = "open" /\ ~b.gracefulClosing /\ sidecar.process \notin {"exited", "closed"} =>
            /\ Numbered(all \o sidecar.callback)
            /\ NumObjects(all \o sidecar.callback) = sidecar.produced
  BY DEF Handles, InvAt, ObjectsAt, Along
<1>2. /\ socket'.toBrowser = t \o suffix /\ browser' = browser /\ pipe' = p
      /\ socket'.client = "open" => s.client = "open" /\ suffix = passed
      /\ s.client # "open" => suffix = <<>>
      /\ socket'.client = "none" <=> s.client = "none"
      /\ SameButStopping(sidecar, sidecar')
      /\ b.nativeBytes = frames \o rest
  BY DEF Handles, Ends
<1>3. /\ r \in Seq(Frames) /\ t \in Seq(Frames) /\ suffix \in Seq(Frames)
      /\ frames \in Seq(Frames) /\ rest \in Seq(Frames) /\ p \in Seq(Frames)
      /\ passed \in Seq(Frames)
  BY HandlesLists, NativeListsAreLists
<1>15. /\ \A q \in Seq(Frames) : Numbered(q \o passed) => Numbered(q \o suffix)
       /\ b.gracefulClosing => ObjectsOf(passed) = <<>>
       /\ ~b.gracefulClosing => passed = frames
  BY HandlesLists
<1> HIDE DEF r, t, passed
<1>16. r \o (t \o suffix) = (r \o t) \o suffix
  <2>1. Cat(r, Cat(t, suffix)) = Cat(Cat(r, t), suffix)
    BY <1>3, CatFrames
  <2>2. QED
    BY <2>1 DEF Cat
<1>17. r \o t \in Seq(Frames) /\ (r \o t) \o <<>> = r \o t
  BY <1>3, FramesConcat
<1>4. r \o (t \o suffix) = (r \o t) \o suffix /\ r \o t \in Seq(Frames) /\ (r \o t) \o <<>> = r \o t
  BY <1>16, <1>17
<1>5. /\ all = ((r \o t) \o frames) \o (rest \o p)
      /\ (r \o t) \o frames \in Seq(Frames) /\ rest \o p \in Seq(Frames)
  <2>1. rest \o p \in Seq(Frames) /\ (r \o t) \o frames \in Seq(Frames)
    BY <1>3, <1>4, FramesConcat
  <2>2. (frames \o rest) \o p = frames \o (rest \o p)
    <3>1. Cat(Cat(frames, rest), p) = Cat(frames, Cat(rest, p))
      BY <1>3, CatFrames
    <3>2. QED
      BY <3>1 DEF Cat
  <2> DEFINE x == r \o t
             y == rest \o p
  <2>6. x \in Seq(Frames) /\ y \in Seq(Frames) /\ frames \in Seq(Frames)
    BY <1>3, <1>4, <2>1
  <2> HIDE DEF x, y
  <2>3. x \o (frames \o y) = (x \o frames) \o y
    <3>1. Cat(x, Cat(frames, y)) = Cat(Cat(x, frames), y)
      BY <2>6, CatFrames
    <3>2. QED
      BY <3>1 DEF Cat
  <2>4. all = (r \o t) \o (frames \o (rest \o p))
    BY <1>2, <2>2
  <2>5. QED
    BY <2>1, <2>3, <2>4 DEF x, y
<1> HIDE DEF all
<1>6. ASSUME s.client # "none" PROVE Numbered(r \o (t \o suffix))
  <2>1. CASE s.client # "open"
    BY <1>1, <1>2, <1>4, <1>6, <2>1
  <2>2. CASE s.client = "open" /\ b.gracefulClosing
    <3>1. ObjectsOf((r \o t) \o passed) = ObjectsOf(r \o t)
      <4>1. ObjectsOf((r \o t) \o passed) = ObjectsOf(r \o t) \o <<>>
        <5>1. ObjectsOf((r \o t) \o passed) = ObjectsOf(r \o t) \o ObjectsOf(passed)
          BY <1>3, <1>4, ObjectsConcat
        <5>2. QED
          BY <1>15, <2>2, <5>1
      <4>2. ObjectsOf(r \o t) \o <<>> = ObjectsOf(r \o t)
        BY <1>4, ObjectsType, FramesConcat
      <4>3. QED
        BY <4>1, <4>2
    <3>2. Numbered((r \o t) \o passed)
      BY <1>1, <1>6, <3>1, NumberedSame
    <3>3. QED
      BY <1>4, <1>15, <3>2
  <2>3. CASE s.client = "open" /\ ~b.gracefulClosing
    <3>1. Numbered((r \o t) \o frames)
      <4>1. Numbered(((r \o t) \o frames) \o (rest \o p))
        BY <1>1, <1>5, <2>3
      <4>2. QED
        BY <1>5, <4>1, NumberedPrefix
    <3>2. QED
      BY <1>4, <1>15, <2>3, <3>1
  <2>4. QED
    BY <2>1, <2>2, <2>3 DEF Handles, InvAt, TypesAt, Bridges
<1>7. ASSUME socket'.client = "open", ~bridge'.gracefulClosing, After(b, frames, rest, bridge')
      PROVE  /\ s.client = "open" /\ ~b.gracefulClosing
             /\ Along(bridge, socket, pipe)' = all
  <2>1. s.client = "open" /\ ~b.gracefulClosing /\ suffix = frames /\ bridge'.nativeBytes = rest
    BY <1>2, <1>15, <1>7 DEF After
  <2>2. Along(bridge, socket, pipe)' = (r \o (t \o frames)) \o (rest \o p)
    BY <1>2, <2>1 DEF Along, r
  <2>3. r \o (t \o frames) = (r \o t) \o frames
    <3>1. Cat(r, Cat(t, frames)) = Cat(Cat(r, t), frames)
      BY <1>3, CatFrames
    <3>2. QED
      BY <3>1 DEF Cat
  <2>4. QED
    BY <1>5, <2>1, <2>2, <2>3
<1>8. \/ After(b, frames, rest, bridge')
      \/ ~b.native /\ ~Alive'
  BY HandlesOutcome
<1>9. ~b.native => s.client = "none" \/ sidecar.process = "closed"
  BY DEF Handles, InvAt, SidecarAt
<1>10. sidecar'.process = sidecar.process /\ sidecar'.callback = sidecar.callback
       /\ sidecar'.produced = sidecar.produced
  BY <1>2 DEF SameButStopping
<1>11. ASSUME socket'.client = "open", ~bridge'.gracefulClosing, Alive'
       PROVE  Numbered(Along(bridge, socket, pipe)')
  BY <1>1, <1>7, <1>8, <1>11
<1>12. ASSUME socket'.client = "open", ~bridge'.gracefulClosing,
              sidecar'.process \notin {"exited", "closed"}
       PROVE  /\ Numbered(Along(bridge, socket, pipe)' \o sidecar.callback)
              /\ NumObjects(Along(bridge, socket, pipe)' \o sidecar.callback) = sidecar.produced
  BY <1>1, <1>2, <1>7, <1>8, <1>9, <1>10, <1>12
<1>13. socket'.client # "none" => Numbered(browser'.received \o socket'.toBrowser)
  BY <1>2, <1>6 DEF r
<1>14. QED
  BY <1>10, <1>11, <1>12, <1>13 DEF ObjectsAt

(* ... the commands, ...                                                   *)
LEMMA HandlesCommands ==
    ASSUME NEW b, NEW s, NEW p, NEW frames, NEW rest, NEW suffix,
           Handles(b, s, p, frames, rest, suffix)
    PROVE  CommandsAt(bridge, socket)'
<1>1. SUFFICES ASSUME socket'.client # "none", ~stdin'.ended, Alive'
               PROVE  IF bridge'.gracefulClosing
                      THEN Essential(Reaching(bridge, socket)') = Essential(browser.asked)
                      ELSE Reaching(bridge, socket)' = Commands(browser.asked)
  BY DEF CommandsAt, Handles
<1>2. Crash => ~Alive'
  BY DEF Handles, BridgeInv, InvAt, OtherTypes, Exits, Crash, Alive
<1>3. /\ s.client # "none" /\ ~stdin.ended /\ bridge'.gracefulClosing = b.gracefulClosing
      /\ stdin'.lines \o bridge'.nativeCommands = stdin.lines \o b.nativeCommands
      /\ sidecar'.obeyed = sidecar.obeyed /\ socket'.fromBrowser = s.fromBrowser
  BY <1>1, <1>2 DEF Handles, Ends, After, Pumped, SameButStopping
<1>4. /\ sidecar.obeyed \in Seq(CommandTypes) /\ stdin.lines \in Seq(CommandTypes)
      /\ b.nativeCommands \in Seq(CommandTypes)
      /\ stdin'.lines \in Seq(CommandTypes) /\ bridge'.nativeCommands \in Seq(CommandTypes)
  BY HandlesTypes DEF Handles, InvAt, TypesAt, OtherTypes, Bridges, Sidecars, Stdins
<1> DEFINE o == sidecar.obeyed
           l == stdin.lines
           c == b.nativeCommands
           m == stdin'.lines
           d == bridge'.nativeCommands
<1>9. /\ o \in Seq(CommandTypes) /\ l \in Seq(CommandTypes) /\ c \in Seq(CommandTypes)
      /\ m \in Seq(CommandTypes) /\ d \in Seq(CommandTypes)
  BY <1>4
<1> HIDE DEF o, l, c, m, d
<1>5. (o \o m) \o d = (o \o l) \o c
  <2>1. (o \o m) \o d = o \o (m \o d)
    <3>1. Cat(Cat(o, m), d) = Cat(o, Cat(m, d))
      BY <1>9, CatCommands
    <3>2. QED
      BY <3>1 DEF Cat
  <2>4. (o \o l) \o c = o \o (l \o c)
    <3>1. Cat(Cat(o, l), c) = Cat(o, Cat(l, c))
      BY <1>9, CatCommands
    <3>2. QED
      BY <3>1 DEF Cat
  <2>2. m \o d = l \o c
    BY <1>3 DEF l, c, m, d
  <2>3. QED
    BY <2>1, <2>2, <2>4
<1>6. Reaching(bridge, socket)' = Reaching(b, s)
  BY <1>3, <1>5 DEF Reaching, o, l, c, m, d
<1>7. IF b.gracefulClosing THEN Essential(Reaching(b, s)) = Essential(browser.asked)
                           ELSE Reaching(b, s) = Commands(browser.asked)
  BY <1>3 DEF Handles, InvAt, CommandsAt
<1>8. QED
  BY <1>3, <1>6, <1>7

(* ... the session of every frame, ...                                     *)
LEMMA HandlesSession ==
    ASSUME NEW b, NEW s, NEW p, NEW frames, NEW rest, NEW suffix,
           Handles(b, s, p, frames, rest, suffix)
    PROVE  SessionAt(bridge, socket, pipe)'
<1>1. SUFFICES ASSUME LazyNative PROVE SessionAt(bridge, socket, pipe)'
  BY DEF SessionAt
<1> DEFINE own == Seq(Own(s.session))
<1>2. /\ browser.received \in own /\ s.toBrowser \in own /\ b.nativeBytes \in own /\ p \in own
      /\ sidecar.callback \in own /\ sidecar.replies \in own
      /\ bridge.nativeBytes \in own
  BY <1>1 DEF Handles, InvAt, BridgeInv, SessionAt
<1>3. frames \in own /\ rest \in own
  <2>1. b.nativeBytes = frames \o rest
    BY DEF Handles, Ends
  <2>2. QED
    BY <1>2, <2>1, HandlesLists, OwnConcat
<1>4. suffix \in own
  BY <1>3, HandlesLists, OwnForwarded
<1>5. s.toBrowser \o suffix \in own
  BY <1>2, <1>4, HandlesLists, OwnConcat
<1>6. /\ socket'.toBrowser = s.toBrowser \o suffix /\ browser' = browser /\ pipe' = p
      /\ socket'.session = s.session
      /\ sidecar'.callback = sidecar.callback /\ sidecar'.replies = sidecar.replies
      /\ bridge'.nativeBytes = bridge.nativeBytes \/ bridge'.nativeBytes = rest
  BY DEF Handles, Ends, SameButStopping, After
<1>7. QED
  BY <1>2, <1>3, <1>5, <1>6 DEF SessionAt

(* ... what the bridge knows of the sidecar, ...                           *)
LEMMA HandlesSidecar ==
    ASSUME NEW b, NEW s, NEW p, NEW frames, NEW rest, NEW suffix,
           Handles(b, s, p, frames, rest, suffix)
    PROVE  SidecarAt(bridge, socket, pipe)'
<1>1. SidecarAt(b, s, p) /\ SidecarAt(bridge, socket, pipe)
  BY DEF Handles, BridgeInv, InvAt
<1>2. /\ sidecar'.process = sidecar.process /\ sidecar'.connected = sidecar.connected
      /\ sidecar'.fetching = sidecar.fetching /\ sidecar'.replies = sidecar.replies
      /\ sidecar'.callback = sidecar.callback
      /\ sidecar.stopping => sidecar'.stopping
      /\ pipe' = p /\ (socket'.client = "none" <=> s.client = "none")
  BY DEF Handles, Ends, SameButStopping
<1>3. \/ ~b.native /\ UNCHANGED <<bridge, stdin>>
      \/ bridge'.native = b.native /\ (Len(stdin'.lines) = StdinLimit => bridge'.nativeInputBlocked)
  BY DEF Handles, Ends, After, Pumped
<1>4. (Len(stdin'.lines) = StdinLimit => bridge'.nativeInputBlocked)
      /\ (~bridge'.native => sidecar.process \in {"none", "closed"})
  BY <1>1, <1>3 DEF SidecarAt
<1>5. QED
  BY <1>1, <1>2, <1>4 DEF SidecarAt

(* ... and the time before the first session.                              *)
LEMMA HandlesFirst ==
    ASSUME NEW b, NEW s, NEW p, NEW frames, NEW rest, NEW suffix,
           Handles(b, s, p, frames, rest, suffix)
    PROVE  FirstAt(bridge, socket, pipe)'
<1>1. FirstAt(b, s, p) /\ FirstAt(bridge, socket, pipe) /\ SidecarAt(b, s, p)
      /\ SidecarAt(bridge, socket, pipe)
  BY DEF Handles, BridgeInv, InvAt
<1>2. /\ sidecar'.fetching = sidecar.fetching /\ sidecar'.produced = sidecar.produced
      /\ sidecar'.callback = sidecar.callback /\ sidecar'.obeyed = sidecar.obeyed
      /\ pipe' = p /\ (socket'.client = "none" <=> s.client = "none")
      /\ socket'.session = s.session /\ browser' = browser /\ s.session = socket.session
  BY DEF Handles, Ends, SameButStopping
<1>3. exit'.server = exit.server
  BY DEF Handles, Ends, Crash, BridgeInv, InvAt, OtherTypes, Exits
<1>4. ASSUME ~LazyNative, s.session = 0
      PROVE  /\ bridge'.nativeCommands = <<>> /\ stdin'.lines = <<>>
             /\ ObjectsOf(bridge'.nativeBytes \o p) = <<>>
  <2>1. CASE ~b.native /\ UNCHANGED <<bridge, stdin>>
    <3>1. p = <<>> /\ pipe = <<>>
      <4>1. sidecar.process \in {"none", "closed"}
        BY <1>1, <2>1 DEF SidecarAt
      <4>2. QED
        BY <1>1, <4>1 DEF SidecarAt
    <3>2. QED
      BY <1>1, <1>2, <1>4, <2>1, <3>1 DEF FirstAt
  <2>2. CASE After(b, frames, rest, bridge') /\ Pumped(b, bridge')
    <3>1. ObjectsOf(b.nativeBytes \o p) = <<>> /\ b.nativeBytes = frames \o rest
      BY <1>1, <1>4 DEF FirstAt, Handles, Ends
    <3>9. frames \in Seq(Frames) /\ rest \in Seq(Frames) /\ p \in Seq(Frames)
      BY HandlesLists
    <3>10. (frames \o rest) \o p = frames \o (rest \o p)
      <4>1. Cat(Cat(frames, rest), p) = Cat(frames, Cat(rest, p))
        BY <3>9, CatFrames
      <4>2. QED
        BY <4>1 DEF Cat
    <3>2. (frames \o rest) \o p = frames \o (rest \o p) /\ rest \o p \in Seq(Frames)
      BY <3>9, <3>10, FramesConcat
    <3>3. ObjectsOf(frames \o (rest \o p)) = ObjectsOf(frames) \o ObjectsOf(rest \o p)
      BY <3>2, HandlesLists, ObjectsConcat
    <3>4. ObjectsOf(frames) \in Seq(Frames) /\ ObjectsOf(rest \o p) \in Seq(Frames)
      BY <3>2, HandlesLists, ObjectsType
    <3>5. ObjectsOf(frames) \o ObjectsOf(rest \o p) = <<>>
      BY <3>1, <3>2, <3>3
    <3>6. ObjectsOf(rest \o p) = <<>>
      BY <3>4, <3>5, ConcatEqualIffEmpty
    <3>7. bridge'.nativeCommands = <<>> /\ stdin'.lines = <<>> /\ bridge'.nativeBytes = rest
      BY <1>1, <1>4, <2>2 DEF FirstAt, After, Pumped
    <3>8. QED
      BY <3>6, <3>7
  <2>3. QED
    BY <2>1, <2>2 DEF Handles, Ends
<1>5. QED
  BY <1>1, <1>2, <1>3, <1>4 DEF FirstAt

(* Together they are the invariant.                                        *)
LEMMA HandlesKeeps ==
    ASSUME NEW b, NEW s, NEW p, NEW frames, NEW rest, NEW suffix,
           Handles(b, s, p, frames, rest, suffix)
    PROVE  BridgeInv'
BY HandlesTypes, HandlesWindow, HandlesCode, HandlesObjects, HandlesCommands, HandlesSession,
   HandlesSidecar, HandlesFirst DEF BridgeInv, InvAt

(* What a handler leaves, as long as it has the parts of the invariant, is *)
(* all that processNativeBytes needs.                                      *)
LEMMA ProcessKeeps ==
    ASSUME NEW b, NEW s, NEW p, NEW resumes \in BOOLEAN, BridgeInv, InvAt(b, s, p), Alive,
           s.session = socket.session, b.auditComplete = bridge.auditComplete,
           pipe' = p, browser' = browser, Process(b, s, resumes)
    PROVE  BridgeInv'
<1>1. TypesAt(b, s, p) /\ (Len(stdin.lines) = StdinLimit => b.nativeInputBlocked)
  BY DEF InvAt, SidecarAt
<1>2. PICK frames, rest, suffix : Ends(b, s, frames, rest, suffix)
  BY <1>1, ProcessEnds
<1>3. Handles(b, s, p, frames, rest, suffix)
  BY <1>2 DEF Handles
<1>4. QED
  BY <1>3, HandlesKeeps

-----------------------------------------------------------------------------
(* The handlers that call processNativeBytes.                              *)

(* The types that the invariant holds.                                     *)
LEMMA InvTypes ==
    ASSUME BridgeInv
    PROVE  /\ bridge \in Bridges /\ socket \in Sockets /\ sidecar \in Sidecars
           /\ stdin \in Stdins /\ browser \in Browsers /\ exit \in Exits
           /\ pipe \in Seq(NativeFrames) /\ bridge.nativeBytes \in Seq(NativeFrames)
           /\ sidecar.callback \in Seq(NativeFrames) /\ sidecar.replies \in Seq(NativeFrames)
           /\ pipe \in Seq(Frames) /\ bridge.nativeBytes \in Seq(Frames)
           /\ sidecar.callback \in Seq(Frames) /\ sidecar.replies \in Seq(Frames)
           /\ socket.toBrowser \in Seq(Frames) /\ browser.received \in Seq(Frames)
           /\ socket.fromBrowser \in Seq(Messages)
           /\ bridge.nativeCommands \in Seq(CommandTypes) /\ stdin.lines \in Seq(CommandTypes)
           /\ sidecar.obeyed \in Seq(CommandTypes)
<1>1. /\ bridge \in Bridges /\ socket \in Sockets /\ sidecar \in Sidecars
      /\ stdin \in Stdins /\ browser \in Browsers /\ exit \in Exits /\ pipe \in Seq(NativeFrames)
  BY DEF BridgeInv, InvAt, TypesAt, OtherTypes
<1>2. /\ bridge.nativeBytes \in Seq(NativeFrames)
      /\ sidecar.callback \in Seq(NativeFrames) /\ sidecar.replies \in Seq(NativeFrames)
      /\ socket.toBrowser \in Seq(Frames) /\ browser.received \in Seq(Frames)
      /\ socket.fromBrowser \in Seq(Messages)
      /\ bridge.nativeCommands \in Seq(CommandTypes) /\ stdin.lines \in Seq(CommandTypes)
      /\ sidecar.obeyed \in Seq(CommandTypes)
  BY <1>1 DEF Bridges, Sockets, Sidecars, Stdins, Browsers, Messages
<1>3. QED
  BY <1>1, <1>2, NativeListsAreLists

(* The sidecar's output: what was in the pipe comes after what is still to *)
(* be handled.                                                             *)
LEMMA StdoutDataKeeps == BridgeInv /\ StdoutData => BridgeInv'
<1>1. SUFFICES ASSUME BridgeInv, StdoutData PROVE BridgeInv'
  OBVIOUS
<1> DEFINE first(k) == SubSeq(pipe, 1, k)
           rest(k) == SubSeq(pipe, k + 1, Len(pipe))
           more(k) == [bridge EXCEPT !.nativeBytes = @ \o first(k)]
<1>2. PICK k \in 1..Len(pipe) : pipe' = rest(k) /\ Process(more(k), socket, FALSE)
  BY <1>1 DEF StdoutData
<1> DEFINE f == first(k)
           p == rest(k)
           n == bridge.nativeBytes
           b == more(k)
<1>3. f \in Seq(NativeFrames) /\ p \in Seq(NativeFrames) /\ pipe = f \o p /\ Len(pipe) \in Nat
  <2>1. pipe \in Seq(NativeFrames) /\ Len(pipe) \in Nat
    BY <1>1, InvTypes, LenProperties
  <2>2. k \in 0..Len(pipe)
    BY <2>1
  <2>3. QED
    BY <2>1, <2>2, CutInTwo
<1>4. /\ bridge \in Bridges /\ n \in Seq(NativeFrames) /\ n \in Seq(Frames)
      /\ f \in Seq(Frames) /\ p \in Seq(Frames) /\ n \o f \in Seq(NativeFrames)
  <2>1. bridge \in Bridges /\ n \in Seq(NativeFrames)
    BY <1>1, InvTypes
  <2>2. n \o f \in Seq(NativeFrames)
    BY <1>3, <2>1, ConcatProperties
  <2>3. QED
    BY <1>3, <2>1, <2>2, NativeListsAreLists
<1>5. Len(p) <= Len(pipe)
  <2>1. Len(f) \in Nat /\ Len(p) \in Nat /\ Len(f \o p) = Len(f) + Len(p)
    BY <1>4, FramesConcat
  <2>2. QED
    BY <1>3, <2>1
<1>6. pipe # <<>>
  BY <1>2, EmptySeq
<1> HIDE DEF first, rest
<1>7. /\ b \in Bridges /\ b.nativeBytes = n \o f /\ b.native = bridge.native
      /\ b.gracefulClosing = bridge.gracefulClosing /\ b.auditComplete = bridge.auditComplete
      /\ b.nativeInputBlocked = bridge.nativeInputBlocked
      /\ b.nativeCommands = bridge.nativeCommands
      /\ b.outstandingObjects = bridge.outstandingObjects
  BY <1>4 DEF Bridges
<1> HIDE DEF f, p, n, b
<1>8. (n \o f) \o p = n \o pipe
  <2>1. (n \o f) \o p = n \o (f \o p)
    <3>1. Cat(Cat(n, f), p) = Cat(n, Cat(f, p))
      BY <1>4, CatFrames
    <3>2. QED
      BY <3>1 DEF Cat
  <2>2. QED
    BY <1>3, <2>1
<1>9. b.nativeBytes \o p = bridge.nativeBytes \o pipe
  BY <1>7, <1>8 DEF n
<1>10. TypesAt(b, socket, p)
  <2>1. Len(p) <= PipeLimit
    <3>1. Len(pipe) <= PipeLimit /\ PipeLimit \in Nat /\ Len(p) \in Nat
      BY <1>1, <1>3, LenProperties, LimitsAssumption DEF BridgeInv, InvAt, TypesAt
    <3>2. QED
      BY <1>3, <1>5, <3>1
  <2>2. QED
    BY <1>1, <1>3, <1>7, <2>1 DEF BridgeInv, InvAt, TypesAt
<1>11. WindowAt(b, socket) /\ CodeAt(b, socket) /\ CommandsAt(b, socket)
  BY <1>1, <1>7 DEF BridgeInv, InvAt, WindowAt, CodeAt, CommandsAt, Reaching
<1>12. ObjectsAt(b, socket, p)
  BY <1>1, <1>7, <1>9 DEF BridgeInv, InvAt, ObjectsAt, Along
<1>13. SessionAt(b, socket, p)
  <2>1. SUFFICES ASSUME LazyNative PROVE SessionAt(b, socket, p)
    BY DEF SessionAt
  <2>2. SessionAt(bridge, socket, pipe)
    BY <1>1 DEF BridgeInv, InvAt
  <2>3. f \in Seq(Own(socket.session)) /\ p \in Seq(Own(socket.session))
    BY <1>3, <1>4, <2>1, <2>2, OwnConcat DEF SessionAt
  <2>4. n \o f \in Seq(Own(socket.session))
    BY <1>4, <2>1, <2>2, <2>3, OwnConcat DEF SessionAt, n
  <2>5. QED
    BY <1>7, <2>1, <2>2, <2>3, <2>4 DEF SessionAt
<1>14. SidecarAt(b, socket, p)
  BY <1>1, <1>6, <1>7 DEF BridgeInv, InvAt, SidecarAt
<1>15. FirstAt(b, socket, p)
  BY <1>1, <1>7, <1>9 DEF BridgeInv, InvAt, FirstAt
<1>16. InvAt(b, socket, p)
  BY <1>1, <1>10, <1>11, <1>12, <1>13, <1>14, <1>15 DEF InvAt, BridgeInv
<1>17. pipe' = p /\ Process(b, socket, FALSE) /\ browser' = browser /\ Alive
  BY <1>1, <1>2 DEF p, b, StdoutData
<1>18. QED
  BY <1>1, <1>7, <1>16, <1>17, ProcessKeeps

(* The browser has read what was buffered.                                 *)
LEMMA SocketDrainKeeps == BridgeInv /\ SocketDrain => BridgeInv'
BY ProcessKeeps DEF SocketDrain, BridgeInv

(* A message that has been read.                                           *)
LEMMA ConsumedFields ==
    ASSUME BridgeInv, socket.fromBrowser # <<>>
    PROVE  LET m == Head(socket.fromBrowser)
               s == Consumed IN
           /\ m \in Messages /\ s \in Sockets /\ s.client = socket.client
           /\ s.session = socket.session /\ s.toBrowser = socket.toBrowser
           /\ s.fromBrowser = Tail(socket.fromBrowser) /\ s.fromBrowser \in Seq(Messages)
           /\ m = "object-ack" => AcksIn(socket.fromBrowser) = AcksIn(s.fromBrowser) + 1
           /\ AcksIn(s.fromBrowser) <= AcksIn(socket.fromBrowser)
           /\ m \in CommandTypes =>
                 Commands(socket.fromBrowser) = <<m>> \o Commands(s.fromBrowser)
           /\ m \notin CommandTypes => Commands(socket.fromBrowser) = Commands(s.fromBrowser)
           /\ "bye" \in RangeOf(s.fromBrowser) \/ m = "bye" => "bye" \in RangeOf(socket.fromBrowser)
<1> DEFINE m == Head(socket.fromBrowser)
           s == Consumed
<1>1. socket \in Sockets /\ socket.fromBrowser \in Seq(Messages)
  BY InvTypes
<1>2. /\ m \in Messages /\ Tail(socket.fromBrowser) \in Seq(Messages)
      /\ m = "object-ack" => AcksIn(socket.fromBrowser) = AcksIn(Tail(socket.fromBrowser)) + 1
      /\ AcksIn(Tail(socket.fromBrowser)) <= AcksIn(socket.fromBrowser)
      /\ m \in CommandTypes =>
            Commands(socket.fromBrowser) = <<m>> \o Commands(Tail(socket.fromBrowser))
      /\ m \notin CommandTypes => Commands(socket.fromBrowser) = Commands(Tail(socket.fromBrowser))
      /\ "bye" \in RangeOf(Tail(socket.fromBrowser)) \/ m = "bye" =>
            "bye" \in RangeOf(socket.fromBrowser)
  BY <1>1, MessageRead
<1>3. /\ s \in Sockets /\ s.client = socket.client /\ s.session = socket.session
      /\ s.toBrowser = socket.toBrowser /\ s.fromBrowser = Tail(socket.fromBrowser)
  BY <1>1, <1>2 DEF Consumed, Sockets, Messages
<1> HIDE DEF s, m
<1>4. QED
  BY <1>2, <1>3 DEF s, m

(* The parts that do not look at the messages on their way.                *)
LEMMA ConsumedParts ==
    ASSUME BridgeInv, socket.fromBrowser # <<>>
    PROVE  /\ TypesAt(bridge, Consumed, pipe) /\ OtherTypes
           /\ CodeAt(bridge, Consumed) /\ ObjectsAt(bridge, Consumed, pipe)
           /\ SessionAt(bridge, Consumed, pipe) /\ SidecarAt(bridge, Consumed, pipe)
           /\ FirstAt(bridge, Consumed, pipe)
<1> DEFINE s == Consumed
<1>1. /\ s \in Sockets /\ s.client = socket.client
      /\ s.session = socket.session /\ s.toBrowser = socket.toBrowser
      /\ "bye" \in RangeOf(s.fromBrowser) => "bye" \in RangeOf(socket.fromBrowser)
  BY ConsumedFields
<1> HIDE DEF s
<1>2. InvAt(bridge, socket, pipe)
  BY DEF BridgeInv
<1>3. TypesAt(bridge, s, pipe) /\ OtherTypes
  BY <1>1, <1>2 DEF InvAt, TypesAt
<1>4. CodeAt(bridge, s)
  BY <1>1, <1>2 DEF InvAt, CodeAt
<1>5. ObjectsAt(bridge, s, pipe)
  BY <1>1, <1>2 DEF InvAt, ObjectsAt, Along
<1>6. SessionAt(bridge, s, pipe) /\ SidecarAt(bridge, s, pipe) /\ FirstAt(bridge, s, pipe)
  BY <1>1, <1>2 DEF InvAt, SessionAt, SidecarAt, FirstAt
<1>7. QED
  BY <1>3, <1>4, <1>5, <1>6 DEF s

(* An acknowledgement on its way becomes room in the window.               *)
LEMMA ObjectAckKeeps == BridgeInv /\ ObjectAck => BridgeInv'
<1>1. SUFFICES ASSUME BridgeInv, ObjectAck PROVE BridgeInv'
  OBVIOUS
<1> DEFINE s == Consumed
           o == bridge.outstandingObjects
           less == IF o = 0 THEN 0 ELSE o - 1
           b == [bridge EXCEPT !.outstandingObjects = less]
<1>2. /\ socket.client # "none" /\ socket.fromBrowser # <<>> /\ Alive
      /\ Head(socket.fromBrowser) = "object-ack"
      /\ Process(b, s, TRUE) /\ pipe' = pipe /\ browser' = browser
  BY <1>1 DEF ObjectAck, Message
<1>3. o \in 0..Window /\ less \in 0..Window /\ Window \in Nat /\ bridge \in Bridges
  BY <1>1, InvTypes, LimitsAssumption DEF Bridges
<1>4. /\ b \in Bridges /\ b.nativeBytes = bridge.nativeBytes /\ b.native = bridge.native
      /\ b.gracefulClosing = bridge.gracefulClosing /\ b.auditComplete = bridge.auditComplete
      /\ b.nativeInputBlocked = bridge.nativeInputBlocked
      /\ b.nativeCommands = bridge.nativeCommands /\ b.outstandingObjects = less
  BY <1>3 DEF Bridges
<1>5. /\ s.client = socket.client /\ s.session = socket.session /\ s.toBrowser = socket.toBrowser
      /\ s.fromBrowser \in Seq(Messages)
      /\ AcksIn(socket.fromBrowser) = AcksIn(s.fromBrowser) + 1
      /\ Commands(socket.fromBrowser) = Commands(s.fromBrowser)
  BY <1>1, <1>2, ConsumedFields DEF CommandTypes
<1> HIDE DEF b, s
<1>6. /\ TypesAt(bridge, s, pipe) /\ OtherTypes
      /\ CodeAt(bridge, s) /\ ObjectsAt(bridge, s, pipe)
      /\ SessionAt(bridge, s, pipe) /\ SidecarAt(bridge, s, pipe)
      /\ FirstAt(bridge, s, pipe)
  BY <1>1, <1>2, ConsumedParts DEF s
<1>7. WindowAt(b, s)
  <2> DEFINE n == NumObjects(socket.toBrowser)
             k == AcksIn(s.fromBrowser)
  <2>1. n \in Nat /\ k \in Nat /\ browser.held \in Nat
    <3>1. socket.toBrowser \in Seq(Frames) /\ browser.held \in 0..Window
      BY <1>1, InvTypes DEF Browsers
    <3>2. QED
      BY <1>3, <1>5, <3>1, NumObjectsType, AcksType
  <2>2. Load(s) = (n + browser.held) + k /\ Load(socket) = (n + browser.held) + (k + 1)
    BY <1>5 DEF Load
  <2>3. /\ Load(socket) <= Window /\ (~bridge.gracefulClosing => Load(socket) <= o)
    BY <1>1, <1>2 DEF BridgeInv, InvAt, WindowAt
  <2> HIDE DEF n, k, o
  <2>4. Load(s) <= Window /\ (~bridge.gracefulClosing => Load(s) <= less)
    BY <1>3, <2>1, <2>2, <2>3
  <2>5. QED
    BY <1>2, <1>4, <1>5, <2>4 DEF WindowAt
<1>8. CommandsAt(b, s)
  BY <1>1, <1>4, <1>5 DEF BridgeInv, InvAt, CommandsAt, Reaching
<1>9. TypesAt(b, s, pipe) /\ CodeAt(b, s) /\ ObjectsAt(b, s, pipe)
  BY <1>4, <1>6 DEF TypesAt, CodeAt, ObjectsAt, Along
<1>10. SessionAt(b, s, pipe) /\ SidecarAt(b, s, pipe) /\ FirstAt(b, s, pipe)
  BY <1>4, <1>6 DEF SessionAt, SidecarAt, FirstAt
<1>11. InvAt(b, s, pipe)
  BY <1>6, <1>7, <1>8, <1>9, <1>10 DEF InvAt
<1>12. QED
  BY <1>1, <1>2, <1>4, <1>5, <1>11, ProcessKeeps

(* A close command overtakes priorities and nothing else.                  *)
LEMMA EssentialConcat ==
    ASSUME NEW s \in Seq(CommandTypes), NEW t \in Seq(CommandTypes)
    PROVE  Essential(s \o t) = Essential(s) \o Essential(t)
BY OnlyConcat DEF Essential

(* Essential commands are commands.                                        *)
LEMMA EssentialType ==
    ASSUME NEW s \in Seq(CommandTypes)
    PROVE  Essential(s) \in Seq(CommandTypes)
<1>1. Essential(s) \in Seq(CommandTypes \cap (CommandTypes \ {"priorities"}))
  BY OnlyType DEF Essential
<1>2. QED
  BY <1>1, SeqMonotonic

(* A close command overtakes no essential command.                         *)
LEMMA EssentialOvertaken ==
    ASSUME NEW c \in Seq(CommandTypes)
    PROVE  Overtaken(c) \in Seq(CommandTypes) /\ Essential(Overtaken(c)) = Essential(c)
<1> DEFINE E == CommandTypes \ {"priorities"}
<1>1. Only(Only(c, E), E) = Only(c, E \cap E)
  <2> HIDE DEF E
  <2>1. QED
    BY OnlyOnly
<1>2. E \cap E = E
  OBVIOUS
<1>3. Overtaken(c) \in Seq(CommandTypes)
  BY EssentialType DEF Overtaken, Essential
<1>4. QED
  BY <1>1, <1>2, <1>3 DEF Overtaken, Essential

(* Every essential message is a command.                                   *)
LEMMA EssentialCommands ==
    ASSUME NEW U, NEW s \in Seq(U)
    PROVE  Essential(Commands(s)) = Essential(s)
<1> DEFINE C == CommandTypes
           E == CommandTypes \ {"priorities"}
<1>1. Only(Only(s, C), E) = Only(s, C \cap E)
  <2> HIDE DEF C, E
  <2>1. QED
    BY OnlyOnly
<1>2. C \cap E = E
  OBVIOUS
<1>3. QED
  BY <1>1, <1>2 DEF Commands, Essential

(* The essential commands keep their order when a close overtakes the      *)
(* priorities before it.                                                   *)
LEMMA EssentialClose ==
    ASSUME NEW a \in Seq(CommandTypes), NEW c \in Seq(CommandTypes), NEW t \in Seq(CommandTypes)
    PROVE  /\ Append(Overtaken(c), "close") \in Seq(CommandTypes)
           /\ Essential((a \o Append(Overtaken(c), "close")) \o t)
                = Essential((a \o c) \o (<<"close">> \o t))
<1> DEFINE d == Overtaken(c)
           x == <<"close">>
           e == Append(d, "close")
<1>1. d \in Seq(CommandTypes) /\ Essential(d) = Essential(c)
  BY EssentialOvertaken
<1>2. x \in Seq(CommandTypes) /\ "close" \in CommandTypes
  BY ListOfOne DEF CommandTypes
<1> HIDE DEF d
<1>3. e = d \o x /\ e \in Seq(CommandTypes)
  BY <1>1, <1>2, AppendIsConcat, AppendProperties
<1> HIDE DEF x, e
<1>4. a \o e \in Seq(CommandTypes) /\ a \o c \in Seq(CommandTypes) /\ x \o t \in Seq(CommandTypes)
  BY <1>2, <1>3, CommandsConcat
<1> DEFINE A == Essential(a)
           D == Essential(c)
           X == Essential(x)
           T == Essential(t)
<1>5. /\ A \in Seq(CommandTypes) /\ D \in Seq(CommandTypes) /\ X \in Seq(CommandTypes)
      /\ T \in Seq(CommandTypes)
  BY <1>2, EssentialType
<1>6. Essential((a \o e) \o t) = (A \o (D \o X)) \o T
  <2>1. Essential((a \o e) \o t) = Essential(a \o e) \o T
    BY <1>4, EssentialConcat
  <2>2. Essential(a \o e) = A \o Essential(e)
    BY <1>3, EssentialConcat
  <2>3. Essential(e) = D \o X
    <3>1. Essential(d \o x) = Essential(d) \o X
      BY <1>1, <1>2, EssentialConcat
    <3>2. QED
      BY <1>1, <1>3, <3>1
  <2>4. QED
    BY <2>1, <2>2, <2>3
<1>7. Essential((a \o c) \o (x \o t)) = (A \o D) \o (X \o T)
  <2>1. Essential((a \o c) \o (x \o t)) = Essential(a \o c) \o Essential(x \o t)
    BY <1>4, EssentialConcat
  <2>2. Essential(a \o c) = A \o D
    BY EssentialConcat
  <2>3. Essential(x \o t) = X \o T
    BY <1>2, EssentialConcat
  <2>4. QED
    BY <2>1, <2>2, <2>3
<1> HIDE DEF A, D, X, T
<1>8. (A \o (D \o X)) \o T = (A \o D) \o (X \o T)
  <2>1. A \o (D \o X) = (A \o D) \o X /\ A \o D \in Seq(CommandTypes)
    <3>1. A \in Seq(CommandTypes) /\ D \in Seq(CommandTypes) /\ X \in Seq(CommandTypes)
      BY <1>5
    <3>2. A \o D \in Seq(CommandTypes)
      BY <3>1, CommandsConcat
    <3>3. (A \o D) \o X = A \o (D \o X)
      <4>1. Cat(Cat(A, D), X) = Cat(A, Cat(D, X))
        BY <3>1, CatCommands
      <4>2. QED
        BY <4>1 DEF Cat
    <3>4. QED
      BY <3>2, <3>3
  <2> DEFINE y == A \o D
  <2>2. y \in Seq(CommandTypes) /\ X \in Seq(CommandTypes) /\ T \in Seq(CommandTypes)
    BY <1>5, <2>1
  <2> HIDE DEF y
  <2>3. (y \o X) \o T = y \o (X \o T)
    <3>1. Cat(Cat(y, X), T) = Cat(y, Cat(X, T))
      BY <2>2, CatCommands
    <3>2. QED
      BY <3>1 DEF Cat
  <2>4. QED
    BY <2>1, <2>3 DEF y
<1>9. QED
  BY <1>3, <1>6, <1>7, <1>8 DEF e, d, x

(* The close command empties the window and the queue of priorities.       *)
LEMMA CloseCommandKeeps == BridgeInv /\ CloseCommand => BridgeInv'
<1>1. SUFFICES ASSUME BridgeInv, CloseCommand PROVE BridgeInv'
  OBVIOUS
<1> DEFINE s == Consumed
           c == bridge.nativeCommands
           d == Append(Overtaken(c), "close")
           b == [bridge EXCEPT !.gracefulClosing = TRUE, !.outstandingObjects = 0,
                               !.paused = PausedByClose, !.nativeCommands = d]
           a == sidecar.obeyed \o stdin.lines
           t == Commands(s.fromBrowser)
<1>2. /\ socket.client # "none" /\ socket.fromBrowser # <<>> /\ Alive
      /\ Head(socket.fromBrowser) = "close"
      /\ Process(b, s, FALSE) /\ pipe' = pipe /\ browser' = browser
  BY <1>1 DEF CloseCommand, Message
<1>3. /\ s.client = socket.client /\ s.session = socket.session /\ s.toBrowser = socket.toBrowser
      /\ s.fromBrowser \in Seq(Messages)
      /\ AcksIn(s.fromBrowser) <= AcksIn(socket.fromBrowser)
      /\ Commands(socket.fromBrowser) = <<"close">> \o t
  BY <1>1, <1>2, ConsumedFields DEF CommandTypes
<1>4. /\ a \in Seq(CommandTypes) /\ c \in Seq(CommandTypes) /\ t \in Seq(CommandTypes)
  <2>1. /\ sidecar.obeyed \in Seq(CommandTypes) /\ stdin.lines \in Seq(CommandTypes)
        /\ c \in Seq(CommandTypes)
    BY <1>1, InvTypes
  <2>2. QED
    BY <1>3, <2>1, CommandsConcat, CommandsType
<1>5. /\ d \in Seq(CommandTypes)
      /\ Essential((a \o d) \o t) = Essential((a \o c) \o (<<"close">> \o t))
  <2> HIDE DEF a, c, t
  <2>1. QED
    BY <1>4, EssentialClose
<1> HIDE DEF d
<1>6. /\ b \in Bridges /\ b.nativeBytes = bridge.nativeBytes /\ b.native = bridge.native
      /\ b.gracefulClosing = TRUE /\ b.auditComplete = bridge.auditComplete
      /\ b.nativeInputBlocked = bridge.nativeInputBlocked
      /\ b.nativeCommands = d
  <2>1. bridge \in Bridges /\ PausedByClose \in BOOLEAN /\ 0 \in 0..Window
    BY <1>1, InvTypes, LimitsAssumption DEF PausedByClose
  <2>2. QED
    BY <1>5, <2>1 DEF Bridges
<1> HIDE DEF b, s
<1>7. /\ TypesAt(bridge, s, pipe) /\ OtherTypes
      /\ CodeAt(bridge, s) /\ ObjectsAt(bridge, s, pipe)
      /\ SessionAt(bridge, s, pipe) /\ SidecarAt(bridge, s, pipe)
      /\ FirstAt(bridge, s, pipe)
  BY <1>1, <1>2, ConsumedParts DEF s
<1>8. WindowAt(b, s)
  <2> DEFINE n == NumObjects(socket.toBrowser)
             k == AcksIn(s.fromBrowser)
             j == AcksIn(socket.fromBrowser)
  <2>1. n \in Nat /\ k \in Nat /\ j \in Nat /\ browser.held \in Nat /\ Window \in Nat
    <3>1. socket.toBrowser \in Seq(Frames) /\ browser.held \in 0..Window
          /\ socket.fromBrowser \in Seq(Messages)
      BY <1>1, InvTypes DEF Browsers
    <3>2. QED
      BY <1>3, <3>1, NumObjectsType, AcksType, LimitsAssumption
  <2>2. Load(s) = (n + browser.held) + k /\ Load(socket) = (n + browser.held) + j /\ k <= j
    BY <1>3 DEF Load
  <2>3. Load(socket) <= Window
    BY <1>1, <1>2 DEF BridgeInv, InvAt, WindowAt
  <2> HIDE DEF n, k, j
  <2>4. Load(s) <= Window
    BY <2>1, <2>2, <2>3
  <2>5. QED
    BY <1>2, <1>3, <1>6, <2>4 DEF WindowAt
<1>9. CommandsAt(b, s)
  <2>1. SUFFICES ASSUME ~stdin.ended PROVE Essential(Reaching(b, s)) = Essential(browser.asked)
    BY <1>6 DEF CommandsAt
  <2>2. Reaching(b, s) = (a \o d) \o t
    BY <1>6 DEF Reaching
  <2>3. Reaching(bridge, socket) = (a \o c) \o (<<"close">> \o t)
    BY <1>3 DEF Reaching
  <2>4. Essential(Reaching(b, s)) = Essential(Reaching(bridge, socket))
    BY <1>5, <2>2, <2>3
  <2>5. IF bridge.gracefulClosing THEN Essential(Reaching(bridge, socket)) = Essential(browser.asked)
                                  ELSE Reaching(bridge, socket) = Commands(browser.asked)
    BY <1>1, <1>2, <2>1 DEF BridgeInv, InvAt, CommandsAt
  <2>6. Essential(Commands(browser.asked)) = Essential(browser.asked)
    <3>1. browser.asked \in Seq(MessageTypes)
      BY <1>1, InvTypes DEF Browsers
    <3>2. QED
      BY <3>1, EssentialCommands
  <2>7. QED
    BY <2>4, <2>5, <2>6
<1>10. TypesAt(b, s, pipe) /\ CodeAt(b, s)
  BY <1>6, <1>7 DEF TypesAt, CodeAt
<1>11. ObjectsAt(b, s, pipe)
  BY <1>6, <1>7 DEF ObjectsAt
<1>12. SessionAt(b, s, pipe) /\ SidecarAt(b, s, pipe)
  BY <1>6, <1>7 DEF SessionAt, SidecarAt
<1>13. FirstAt(b, s, pipe)
  BY <1>2, <1>3, <1>6, <1>7 DEF FirstAt
<1>14. InvAt(b, s, pipe)
  BY <1>7, <1>8, <1>9, <1>10, <1>11, <1>12, <1>13 DEF InvAt
<1>15. QED
  BY <1>1, <1>2, <1>3, <1>6, <1>14, ProcessKeeps

-----------------------------------------------------------------------------
(* The handlers that only write commands.                                  *)

(* The pump, on what its caller leaves in b and s.                         *)
LEMMA PumpKeeps ==
    ASSUME NEW b, NEW s, BridgeInv, InvAt(b, s, pipe), Alive,
           socket' = s, sidecar' = sidecar, pipe' = pipe, browser' = browser, Pump(b)
    PROVE  BridgeInv'
<1>1. /\ b \in Bridges /\ stdin \in Stdins /\ Len(stdin.lines) <= StdinLimit
      /\ Len(stdin.lines) = StdinLimit => b.nativeInputBlocked
      /\ exit \in Exits
  BY DEF InvAt, TypesAt, OtherTypes, SidecarAt
<1>2. /\ bridge' \in Bridges /\ stdin' \in Stdins
      /\ SameButCommands(b, bridge')
      /\ stdin'.ended = stdin.ended
      /\ Len(stdin'.lines) <= StdinLimit
      /\ Len(stdin'.lines) = StdinLimit => bridge'.nativeInputBlocked
      /\ ~stdin.ended =>
            stdin'.lines \o bridge'.nativeCommands = stdin.lines \o b.nativeCommands
      /\ b.nativeCommands = <<>> => bridge'.nativeCommands = <<>> /\ stdin'.lines = stdin.lines
      /\ UNCHANGED exit \/ Crash
  BY <1>1, PumpMoves
<1>3. exit' \in Exits /\ exit'.server = exit.server /\ (Alive' => Alive)
  BY <1>1, <1>2 DEF Crash, Exits, Alive
<1>4. TypesAt(bridge, socket, pipe)' /\ OtherTypes'
  BY <1>2, <1>3 DEF InvAt, TypesAt, OtherTypes
<1>5. WindowAt(bridge, socket)' /\ CodeAt(bridge, socket)'
  BY <1>2, <1>3 DEF InvAt, WindowAt, Load, CodeAt, SameButCommands
<1>6. ObjectsAt(bridge, socket, pipe)'
  BY <1>2, <1>3 DEF InvAt, ObjectsAt, Along, SameButCommands
<1>7. CommandsAt(bridge, socket)'
  <2>1. SUFFICES ASSUME s.client # "none", ~stdin.ended, Alive'
                 PROVE  IF b.gracefulClosing
                        THEN Essential(Reaching(bridge, socket)') = Essential(browser.asked)
                        ELSE Reaching(bridge, socket)' = Commands(browser.asked)
    BY <1>2 DEF CommandsAt, SameButCommands
  <2> DEFINE o == sidecar.obeyed
             l == stdin.lines
             k == b.nativeCommands
             m == stdin'.lines
             d == bridge'.nativeCommands
  <2>2. /\ o \in Seq(CommandTypes) /\ l \in Seq(CommandTypes) /\ k \in Seq(CommandTypes)
    BY <1>1 DEF InvAt, OtherTypes, Bridges, Sidecars, Stdins
  <2>3. o \in Seq(CommandTypes) /\ m \in Seq(CommandTypes) /\ d \in Seq(CommandTypes)
    BY <1>2, <2>2 DEF Bridges, Stdins
  <2>4. m \o d = l \o k
    BY <1>2, <2>1
  <2>5. Reaching(bridge, socket)' = ((o \o m) \o d) \o Commands(s.fromBrowser)
    BY DEF Reaching
  <2>6. Reaching(b, s) = ((o \o l) \o k) \o Commands(s.fromBrowser)
    BY DEF Reaching
  <2> HIDE DEF o, l, k, m, d
  <2>7. (o \o m) \o d = o \o (m \o d)
    <3>1. Cat(Cat(o, m), d) = Cat(o, Cat(m, d))
      BY <2>3, CatCommands
    <3>2. QED
      BY <3>1 DEF Cat
  <2>8. (o \o l) \o k = o \o (l \o k)
    <3>1. Cat(Cat(o, l), k) = Cat(o, Cat(l, k))
      BY <2>2, CatCommands
    <3>2. QED
      BY <3>1 DEF Cat
  <2>9. Reaching(bridge, socket)' = Reaching(b, s)
    BY <2>4, <2>5, <2>6, <2>7, <2>8
  <2>10. IF b.gracefulClosing THEN Essential(Reaching(b, s)) = Essential(browser.asked)
                              ELSE Reaching(b, s) = Commands(browser.asked)
    BY <2>1 DEF InvAt, CommandsAt
  <2>11. QED
    BY <2>9, <2>10
<1>8. SessionAt(bridge, socket, pipe)' /\ SidecarAt(bridge, socket, pipe)'
  BY <1>2 DEF InvAt, SessionAt, SidecarAt, SameButCommands
<1>9. FirstAt(bridge, socket, pipe)'
  BY <1>2, <1>3 DEF InvAt, FirstAt, SameButCommands
<1>10. QED
  BY <1>4, <1>5, <1>6, <1>7, <1>8, <1>9 DEF BridgeInv, InvAt

(* The sidecar has read its input.                                         *)
LEMMA StdinDrainKeeps == BridgeInv /\ StdinDrain => BridgeInv'
<1>1. SUFFICES ASSUME BridgeInv, StdinDrain PROVE BridgeInv'
  OBVIOUS
<1> DEFINE b == [bridge EXCEPT !.nativeInputBlocked = FALSE]
<1>2. /\ Alive /\ Len(stdin.lines) < StdinLimit /\ Pump(b)
      /\ socket' = socket /\ sidecar' = sidecar /\ pipe' = pipe /\ browser' = browser
  BY <1>1 DEF StdinDrain
<1>3. /\ b \in Bridges /\ b.nativeBytes = bridge.nativeBytes /\ b.native = bridge.native
      /\ b.gracefulClosing = bridge.gracefulClosing /\ b.auditComplete = bridge.auditComplete
      /\ b.nativeCommands = bridge.nativeCommands
      /\ b.outstandingObjects = bridge.outstandingObjects
  BY <1>1, InvTypes DEF Bridges
<1> HIDE DEF b
<1>4. Len(stdin.lines) # StdinLimit
  <2>1. Len(stdin.lines) \in Nat /\ StdinLimit \in Nat
    BY <1>1, InvTypes, LenProperties, LimitsAssumption
  <2>2. QED
    BY <1>2, <2>1
<1>5. InvAt(bridge, socket, pipe)
  BY <1>1 DEF BridgeInv
<1>6. TypesAt(b, socket, pipe) /\ WindowAt(b, socket) /\ CodeAt(b, socket)
  BY <1>3, <1>5 DEF InvAt, TypesAt, WindowAt, CodeAt
<1>7. ObjectsAt(b, socket, pipe) /\ CommandsAt(b, socket)
  BY <1>3, <1>5 DEF InvAt, ObjectsAt, Along, CommandsAt, Reaching
<1>8. SessionAt(b, socket, pipe) /\ SidecarAt(b, socket, pipe) /\ FirstAt(b, socket, pipe)
  BY <1>3, <1>4, <1>5 DEF InvAt, SessionAt, SidecarAt, FirstAt
<1>9. InvAt(b, socket, pipe)
  BY <1>5, <1>6, <1>7, <1>8 DEF InvAt
<1>10. QED
  BY <1>1, <1>2, <1>9, PumpKeeps

(* A command goes from the browser's messages to the end of the queue.     *)
LEMMA OpenOrPrioritiesKeeps == BridgeInv /\ OpenOrPriorities => BridgeInv'
<1>1. SUFFICES ASSUME BridgeInv, OpenOrPriorities PROVE BridgeInv'
  OBVIOUS
<1> DEFINE s == Consumed
           c == bridge.nativeCommands
           a == sidecar.obeyed \o stdin.lines
           t == Commands(s.fromBrowser)
<1>2. PICK m \in {"open", "priorities"} :
         /\ Message(m) /\ socket' = s /\ Pump([bridge EXCEPT !.nativeCommands = Append(c, m)])
         /\ sidecar' = sidecar /\ pipe' = pipe /\ browser' = browser
  BY <1>1 DEF OpenOrPriorities
<1> DEFINE d == Append(c, m)
           b == [bridge EXCEPT !.nativeCommands = d]
<1>3. /\ socket.client # "none" /\ socket.fromBrowser # <<>> /\ Alive
      /\ Head(socket.fromBrowser) = m /\ m \in CommandTypes
  BY <1>2 DEF Message, CommandTypes
<1>4. /\ s.client = socket.client /\ s.session = socket.session /\ s.toBrowser = socket.toBrowser
      /\ s.fromBrowser \in Seq(Messages)
      /\ AcksIn(s.fromBrowser) <= AcksIn(socket.fromBrowser)
      /\ Commands(socket.fromBrowser) = <<m>> \o t
  BY <1>1, <1>3, ConsumedFields
<1>5. /\ a \in Seq(CommandTypes) /\ c \in Seq(CommandTypes) /\ t \in Seq(CommandTypes)
      /\ <<m>> \in Seq(CommandTypes) /\ d = c \o <<m>> /\ d \in Seq(CommandTypes)
  <2>1. /\ sidecar.obeyed \in Seq(CommandTypes) /\ stdin.lines \in Seq(CommandTypes)
        /\ c \in Seq(CommandTypes)
    BY <1>1, InvTypes
  <2>2. /\ a \in Seq(CommandTypes) /\ t \in Seq(CommandTypes)
    BY <1>4, <2>1, CommandsConcat, CommandsType
  <2>3. <<m>> \in Seq(CommandTypes) /\ d = c \o <<m>> /\ d \in Seq(CommandTypes)
    BY <1>3, <2>1, ListOfOne, AppendIsConcat, AppendProperties
  <2>4. QED
    BY <2>1, <2>2, <2>3
<1>6. /\ b \in Bridges /\ b.nativeBytes = bridge.nativeBytes /\ b.native = bridge.native
      /\ b.gracefulClosing = bridge.gracefulClosing /\ b.auditComplete = bridge.auditComplete
      /\ b.nativeInputBlocked = bridge.nativeInputBlocked
      /\ b.outstandingObjects = bridge.outstandingObjects
      /\ b.nativeCommands = d
  <2> HIDE DEF d
  <2>1. QED
    BY <1>1, <1>5, InvTypes DEF Bridges
<1>7. /\ TypesAt(bridge, s, pipe) /\ OtherTypes
      /\ CodeAt(bridge, s) /\ ObjectsAt(bridge, s, pipe)
      /\ SessionAt(bridge, s, pipe) /\ SidecarAt(bridge, s, pipe)
      /\ FirstAt(bridge, s, pipe)
  BY <1>1, <1>3, ConsumedParts
<1> HIDE DEF b, s
<1>8. WindowAt(b, s)
  <2> DEFINE n == NumObjects(socket.toBrowser)
             k == AcksIn(s.fromBrowser)
             j == AcksIn(socket.fromBrowser)
             o == bridge.outstandingObjects
  <2>1. n \in Nat /\ k \in Nat /\ j \in Nat /\ browser.held \in Nat /\ Window \in Nat /\ o \in Nat
    <3>1. socket.toBrowser \in Seq(Frames) /\ browser.held \in 0..Window
          /\ socket.fromBrowser \in Seq(Messages) /\ o \in 0..Window
      BY <1>1, InvTypes DEF Browsers, Bridges
    <3>2. QED
      BY <1>4, <3>1, NumObjectsType, AcksType, LimitsAssumption
  <2>2. Load(s) = (n + browser.held) + k /\ Load(socket) = (n + browser.held) + j /\ k <= j
    BY <1>4 DEF Load
  <2>3. Load(socket) <= Window /\ (~bridge.gracefulClosing => Load(socket) <= o)
    BY <1>1, <1>3 DEF BridgeInv, InvAt, WindowAt
  <2> HIDE DEF n, k, j, o
  <2>4. Load(s) <= Window /\ (~bridge.gracefulClosing => Load(s) <= o)
    BY <2>1, <2>2, <2>3
  <2>5. QED
    BY <1>3, <1>4, <1>6, <2>4 DEF WindowAt, o
<1>9. CommandsAt(b, s)
  <2>1. Reaching(b, s) = (a \o d) \o t
    BY <1>6 DEF Reaching
  <2>2. Reaching(bridge, socket) = (a \o c) \o (<<m>> \o t)
    BY <1>4 DEF Reaching
  <2>3. (a \o d) \o t = (a \o c) \o (<<m>> \o t)
    <3> DEFINE x == <<m>>
    <3>1. x \in Seq(CommandTypes) /\ d = c \o x
      BY <1>5
    <3> HIDE DEF a, c, d, t, x
    <3>2. a \o (c \o x) = (a \o c) \o x /\ a \o c \in Seq(CommandTypes)
      <4>1. a \in Seq(CommandTypes) /\ c \in Seq(CommandTypes) /\ x \in Seq(CommandTypes)
        BY <1>5, <3>1
      <4>2. a \o (c \o x) = (a \o c) \o x
        <5>1. Cat(a, Cat(c, x)) = Cat(Cat(a, c), x)
          BY <4>1, CatCommands
        <5>2. QED
          BY <5>1 DEF Cat
      <4>3. a \o c \in Seq(CommandTypes)
        BY <4>1, CommandsConcat
      <4>4. QED
        BY <4>2, <4>3
    <3> DEFINE y == a \o c
    <3>3. y \in Seq(CommandTypes) /\ x \in Seq(CommandTypes) /\ t \in Seq(CommandTypes)
      BY <1>5, <3>1, <3>2
    <3> HIDE DEF y
    <3>4. (y \o x) \o t = y \o (x \o t)
      <4>1. Cat(Cat(y, x), t) = Cat(y, Cat(x, t))
        BY <3>3, CatCommands
      <4>2. QED
        BY <4>1 DEF Cat
    <3>5. (a \o d) \o t = (a \o c) \o (x \o t)
      BY <3>1, <3>2, <3>4 DEF y
    <3>6. QED
      BY <3>5 DEF x
  <2>4. Reaching(b, s) = Reaching(bridge, socket)
    BY <2>1, <2>2, <2>3
  <2>5. CommandsAt(bridge, socket)
    BY <1>1 DEF BridgeInv, InvAt
  <2>6. QED
    BY <1>4, <1>6, <2>4, <2>5 DEF CommandsAt
<1>10. TypesAt(b, s, pipe) /\ CodeAt(b, s)
  BY <1>6, <1>7 DEF TypesAt, CodeAt
<1>11. ObjectsAt(b, s, pipe)
  BY <1>6, <1>7 DEF ObjectsAt, Along
<1>12. SessionAt(b, s, pipe) /\ SidecarAt(b, s, pipe)
  BY <1>6, <1>7 DEF SessionAt, SidecarAt
<1>13. FirstAt(b, s, pipe)
  BY <1>3, <1>4, <1>6, <1>7 DEF FirstAt
<1>14. InvAt(b, s, pipe)
  BY <1>7, <1>8, <1>9, <1>10, <1>11, <1>12, <1>13 DEF InvAt
<1>15. Pump(b)
  BY <1>2 DEF b
<1>16. QED
  BY <1>1, <1>2, <1>3, <1>14, <1>15, PumpKeeps

-----------------------------------------------------------------------------
(* The end of the socket.                                                  *)

(* A socket that ends with frames that are no objects keeps the parts of   *)
(* the invariant.                                                          *)
LEMMA EndedParts ==
    ASSUME NEW b, NEW s, NEW p, NEW t, NEW suffix \in Seq(Frames), InvAt(b, s, p), BridgeInv,
           s.client = "open", t \in Sockets, t.client = "ended",
           t.session = s.session, t.fromBrowser = s.fromBrowser,
           t.toBrowser = s.toBrowser \o suffix, Len(t.toBrowser) <= BufferLimit + 1,
           ObjectsOf(suffix) = <<>>, suffix \in Seq(Own(s.session)),
           \/ \A i \in DOMAIN suffix : ~IsCleanClose(suffix[i])
           \/ Has(browser.received \o s.toBrowser, "audit-complete")
           \/ "bye" \in RangeOf(browser.asked)
    PROVE  InvAt(b, t, p)
<1> DEFINE r == browser.received
           q == s.toBrowser
<1>1. /\ s \in Sockets /\ r \in Seq(Frames) /\ q \in Seq(Frames)
  BY InvTypes DEF InvAt, TypesAt, Sockets
<1> HIDE DEF r, q
<1>14. r \o (q \o suffix) = (r \o q) \o suffix
  <2>1. Cat(r, Cat(q, suffix)) = Cat(Cat(r, q), suffix)
    BY <1>1, CatFrames
  <2>2. QED
    BY <2>1 DEF Cat
<1>2. /\ r \o q \in Seq(Frames) /\ r \o (q \o suffix) = (r \o q) \o suffix
  BY <1>1, <1>14, FramesConcat
<1>3. TypesAt(b, t, p) /\ OtherTypes
  BY DEF InvAt, TypesAt
<1>4. NumObjects(t.toBrowser) = NumObjects(s.toBrowser)
  <2>1. NumObjects(q \o suffix) = NumObjects(q) + NumObjects(suffix)
    BY <1>1, NumObjectsConcat
  <2>2. NumObjects(suffix) = 0 /\ NumObjects(q) \in Nat
    BY <1>1, NumObjectsType, ObjectsOfNone DEF NumObjects
  <2>3. QED
    BY <2>1, <2>2 DEF q
<1>5. WindowAt(b, t)
  BY <1>4 DEF InvAt, WindowAt, Load
<1>6. CodeAt(b, t)
  <2>1. AuditPrecedes(r \o q, browser.asked)
    BY DEF InvAt, CodeAt, r, q
  <2>2. AuditPrecedes((r \o q) \o suffix, browser.asked)
    BY <1>2, <2>1, AuditPrecedesNext DEF r, q
  <2>3. AuditPrecedes(browser.received \o t.toBrowser, browser.asked)
    BY <1>2, <2>2 DEF r, q
  <2>4. QED
    BY <2>3 DEF InvAt, CodeAt
<1>7. ObjectsAt(b, t, p)
  <2>1. Numbered(r \o q)
    BY DEF InvAt, ObjectsAt, r, q
  <2>2. ObjectsOf((r \o q) \o suffix) = ObjectsOf(r \o q)
    <3>1. ObjectsOf((r \o q) \o suffix) = ObjectsOf(r \o q) \o <<>>
      BY <1>2, ObjectsConcat
    <3>2. ObjectsOf(r \o q) \o <<>> = ObjectsOf(r \o q)
      BY <1>2, ObjectsType, FramesConcat
    <3>3. QED
      BY <3>1, <3>2
  <2>3. Numbered((r \o q) \o suffix)
    BY <2>1, <2>2, NumberedSame
  <2>4. Numbered(browser.received \o t.toBrowser)
    BY <1>2, <2>3 DEF r, q
  <2>5. QED
    BY <2>4 DEF ObjectsAt
<1>8. CommandsAt(b, t)
  BY DEF InvAt, CommandsAt, Reaching
<1>9. SessionAt(b, t, p)
  <2>1. LazyNative => q \in Seq(Own(s.session))
    BY DEF InvAt, SessionAt, q
  <2>2. LazyNative => q \o suffix \in Seq(Own(s.session))
    BY <1>1, <2>1, OwnConcat
  <2>3. QED
    BY <2>2 DEF InvAt, SessionAt, q
<1>10. SidecarAt(b, t, p) /\ FirstAt(b, t, p)
  BY DEF InvAt, SidecarAt, FirstAt
<1>11. QED
  BY <1>3, <1>5, <1>6, <1>7, <1>8, <1>9, <1>10 DEF InvAt

(* close(client, code): the socket ends with a close frame of its session. *)
LEMMA ClosedParts ==
    ASSUME NEW b, NEW s, NEW p, NEW code \in Nat, InvAt(b, s, p), BridgeInv,
           s.session = socket.session,
           \/ code # 1000
           \/ s.client = "open" => Has(browser.received \o s.toBrowser, "audit-complete")
           \/ "bye" \in RangeOf(browser.asked)
    PROVE  InvAt(b, Closed(s, code), p)
<1>1. CASE s.client # "open"
  BY <1>1 DEF Closed
<1>2. CASE s.client = "open"
  <2> DEFINE x == <<CloseFrame(code)>>
             t == Closed(s, code)
  <2>1. /\ CloseFrame(code) \in Frames /\ x \in Seq(Frames)
        /\ CloseFrame(code).type = "close" /\ CloseFrame(code).n = code
        /\ CloseFrame(code).session = socket.session
    BY InvTypes, CloseFrameType
  <2>2. ObjectsOf(x) = <<>>
    BY <2>1, ObjectsOfOne
  <2>3. x \in Seq(Own(s.session))
    <3>1. CloseFrame(code) \in Own(s.session)
      BY <2>1 DEF Own
    <3>2. QED
      BY <3>1, OwnBasics
  <2>4. code # 1000 => \A i \in DOMAIN x : ~IsCleanClose(x[i])
    <3>1. DOMAIN x = {1} /\ x[1] = CloseFrame(code)
      OBVIOUS
    <3>2. code # 1000 => ~IsCleanClose(CloseFrame(code))
      BY <2>1, NotClean
    <3> HIDE DEF x
    <3>3. QED
      BY <3>1, <3>2
  <2>5. s \in Sockets /\ s.toBrowser \in Seq(Frames) /\ Len(s.toBrowser) <= BufferLimit
        /\ Len(s.toBrowser) \in Nat /\ BufferLimit \in Nat
    BY <1>2, LenProperties, LimitsAssumption DEF InvAt, TypesAt, Sockets
  <2>6. /\ Append(s.toBrowser, CloseFrame(code)) = s.toBrowser \o x
        /\ Append(s.toBrowser, CloseFrame(code)) \in Seq(Frames)
        /\ Len(Append(s.toBrowser, CloseFrame(code))) = Len(s.toBrowser) + 1
    BY <2>1, <2>5, AppendIsConcat, AppendProperties
  <2>7. t = [s EXCEPT !.client = "ended", !.toBrowser = Append(s.toBrowser, CloseFrame(code))]
    BY <1>2 DEF Closed
  <2> HIDE DEF x, t
  <2>8. /\ t \in Sockets /\ t.client = "ended" /\ t.session = s.session
        /\ t.fromBrowser = s.fromBrowser /\ t.toBrowser = s.toBrowser \o x
        /\ Len(t.toBrowser) = Len(s.toBrowser) + 1
    <3>1. /\ t \in Sockets /\ t.client = "ended" /\ t.session = s.session
          /\ t.fromBrowser = s.fromBrowser
          /\ t.toBrowser = Append(s.toBrowser, CloseFrame(code))
      BY <2>5, <2>6, <2>7 DEF Sockets
    <3>2. QED
      BY <2>6, <3>1
  <2>9. Len(t.toBrowser) <= BufferLimit + 1
    BY <2>5, <2>8
  <2>10. InvAt(b, t, p)
    BY <1>2, <2>1, <2>2, <2>3, <2>4, <2>8, <2>9, EndedParts
  <2>11. QED
    BY <2>10 DEF t
<1>3. QED
  BY <1>1, <1>2

(* The parts do not depend on who has changed the bridge and the socket.   *)
LEMMA SamePartsKeep ==
    ASSUME InvAt(bridge', socket', pipe'), exit' = exit, sidecar' = sidecar, stdin' = stdin,
           browser' = browser
    PROVE  BridgeInv'
<1>1. TypesAt(bridge, socket, pipe)' /\ OtherTypes'
  BY DEF InvAt, TypesAt, OtherTypes
<1>2. WindowAt(bridge, socket)' /\ CodeAt(bridge, socket)'
  BY DEF InvAt, WindowAt, Load, Alive, CodeAt
<1>3. ObjectsAt(bridge, socket, pipe)'
  BY DEF InvAt, ObjectsAt, Along, Alive
<1>4. CommandsAt(bridge, socket)'
  BY DEF InvAt, CommandsAt, Reaching, Alive
<1>5. SessionAt(bridge, socket, pipe)' /\ SidecarAt(bridge, socket, pipe)'
  BY DEF InvAt, SessionAt, SidecarAt
<1>6. FirstAt(bridge, socket, pipe)'
  BY DEF InvAt, FirstAt
<1>7. QED
  BY <1>1, <1>2, <1>3, <1>4, <1>5, <1>6 DEF BridgeInv, InvAt

(* A close frame of the browser, or one the bridge does not accept.        *)
LEMMA FinalMessageKeeps == BridgeInv /\ FinalMessage => BridgeInv'
<1>1. SUFFICES ASSUME BridgeInv, FinalMessage PROVE BridgeInv'
  OBVIOUS
<1> DEFINE s == Consumed
           m == Head(socket.fromBrowser)
<1>2. /\ socket.client # "none" /\ socket.fromBrowser # <<>> /\ m \in {"bye", "bad"}
      /\ \/ m = "bye" /\ socket' = Closed(s, 1000)
         \/ m = "bad" /\ socket' = Closed(s, 1008)
      /\ bridge' = bridge /\ pipe' = pipe
      /\ exit' = exit /\ sidecar' = sidecar /\ stdin' = stdin /\ browser' = browser
  BY <1>1 DEF FinalMessage, Message
<1>3. /\ s.client = socket.client /\ s.session = socket.session /\ s.toBrowser = socket.toBrowser
      /\ s.fromBrowser \in Seq(Messages)
      /\ AcksIn(s.fromBrowser) <= AcksIn(socket.fromBrowser)
      /\ Commands(socket.fromBrowser) = Commands(s.fromBrowser)
      /\ m = "bye" => "bye" \in RangeOf(socket.fromBrowser)
  BY <1>1, <1>2, ConsumedFields DEF CommandTypes
<1>4. /\ TypesAt(bridge, s, pipe) /\ OtherTypes
      /\ CodeAt(bridge, s) /\ ObjectsAt(bridge, s, pipe)
      /\ SessionAt(bridge, s, pipe) /\ SidecarAt(bridge, s, pipe)
      /\ FirstAt(bridge, s, pipe)
  BY <1>1, <1>2, ConsumedParts
<1> HIDE DEF s, m
<1>5. WindowAt(bridge, s)
  <2> DEFINE n == NumObjects(socket.toBrowser)
             k == AcksIn(s.fromBrowser)
             j == AcksIn(socket.fromBrowser)
             o == bridge.outstandingObjects
  <2>1. n \in Nat /\ k \in Nat /\ j \in Nat /\ browser.held \in Nat /\ Window \in Nat /\ o \in Nat
    <3>1. socket.toBrowser \in Seq(Frames) /\ browser.held \in 0..Window
          /\ socket.fromBrowser \in Seq(Messages) /\ o \in 0..Window
      BY <1>1, InvTypes DEF Browsers, Bridges
    <3>2. n \in Nat
      BY <3>1, NumObjectsType
    <3>3. k \in Nat /\ j \in Nat
      BY <1>3, <3>1, AcksType
    <3>4. browser.held \in Nat /\ o \in Nat /\ Window \in Nat
      BY <3>1, LimitsAssumption
    <3>5. QED
      BY <3>2, <3>3, <3>4
  <2>2. Load(s) = (n + browser.held) + k /\ Load(socket) = (n + browser.held) + j /\ k <= j
    BY <1>3 DEF Load
  <2>3. Load(socket) <= Window /\ (Alive /\ ~bridge.gracefulClosing => Load(socket) <= o)
    BY <1>1, <1>2 DEF BridgeInv, InvAt, WindowAt
  <2> HIDE DEF n, k, j, o
  <2>4. Load(s) <= Window /\ (Alive /\ ~bridge.gracefulClosing => Load(s) <= o)
    BY <2>1, <2>2, <2>3
  <2>5. QED
    BY <1>2, <1>3, <2>4 DEF WindowAt, o
<1>6. CommandsAt(bridge, s)
  BY <1>1, <1>3 DEF BridgeInv, InvAt, CommandsAt, Reaching
<1>7. InvAt(bridge, s, pipe)
  BY <1>4, <1>5, <1>6 DEF InvAt
<1>8. m = "bye" => "bye" \in RangeOf(browser.asked)
  BY <1>1, <1>3 DEF BridgeInv, InvAt, CodeAt
<1>9. InvAt(bridge, socket', pipe)
  <2>1. CASE m = "bye" /\ socket' = Closed(s, 1000)
    BY <1>1, <1>3, <1>7, <1>8, <2>1, ClosedParts
  <2>2. CASE m = "bad" /\ socket' = Closed(s, 1008)
    BY <1>1, <1>3, <1>7, <2>2, ClosedParts
  <2>3. QED
    BY <1>2, <2>1, <2>2
<1>10. InvAt(bridge', socket', pipe')
  BY <1>2, <1>9
<1>11. QED
  BY <1>2, <1>10, SamePartsKeep

(* The sidecar has gone, and nothing of its output is left.                *)
LEMMA SidecarGone ==
    ASSUME NEW s, InvAt(bridge, s, pipe), socket' = s, pipe' = pipe, stdin' = stdin,
           browser' = browser, sidecar' = [sidecar EXCEPT !.process = "closed"],
           \/ bridge' = bridge
           \/ bridge' = [bridge EXCEPT !.native = FALSE, !.nativeReady = FALSE],
           exit' \in Exits, exit'.server => exit.server, Alive' => Alive,
           sidecar.process # "none", pipe = <<>>, sidecar.callback = <<>>, sidecar.replies = <<>>
    PROVE  BridgeInv'
<1>1. /\ bridge \in Bridges /\ sidecar \in Sidecars
  BY DEF InvAt, TypesAt, OtherTypes
<1>2. /\ bridge' \in Bridges /\ bridge'.nativeBytes = bridge.nativeBytes
      /\ bridge'.gracefulClosing = bridge.gracefulClosing
      /\ bridge'.auditComplete = bridge.auditComplete
      /\ bridge'.nativeInputBlocked = bridge.nativeInputBlocked
      /\ bridge'.nativeCommands = bridge.nativeCommands
      /\ bridge'.outstandingObjects = bridge.outstandingObjects
  BY <1>1 DEF Bridges
<1>3. /\ sidecar' \in Sidecars /\ sidecar'.process = "closed"
      /\ sidecar'.connected = sidecar.connected /\ sidecar'.fetching = sidecar.fetching
      /\ sidecar'.stopping = sidecar.stopping /\ sidecar'.replies = sidecar.replies
      /\ sidecar'.callback = sidecar.callback /\ sidecar'.produced = sidecar.produced
      /\ sidecar'.obeyed = sidecar.obeyed
  BY <1>1 DEF Sidecars
<1>4. TypesAt(bridge, socket, pipe)' /\ OtherTypes'
  BY <1>2, <1>3 DEF InvAt, TypesAt, OtherTypes
<1>5. WindowAt(bridge, socket)' /\ CodeAt(bridge, socket)'
  BY <1>2 DEF InvAt, WindowAt, Load, CodeAt
<1>6. ObjectsAt(bridge, socket, pipe)'
  BY <1>2, <1>3 DEF InvAt, ObjectsAt, Along
<1>7. CommandsAt(bridge, socket)'
  BY <1>2, <1>3 DEF InvAt, CommandsAt, Reaching
<1>8. SessionAt(bridge, socket, pipe)' /\ SidecarAt(bridge, socket, pipe)'
  BY <1>2, <1>3 DEF InvAt, SessionAt, SidecarAt
<1>9. FirstAt(bridge, socket, pipe)'
  BY <1>2, <1>3 DEF InvAt, FirstAt
<1>10. QED
  BY <1>4, <1>5, <1>6, <1>7, <1>8, <1>9 DEF BridgeInv, InvAt

(* The sidecar is gone: the clean code only after the audit.               *)
LEMMA ChildCloseKeeps == BridgeInv /\ ChildClose => BridgeInv'
<1>1. SUFFICES ASSUME BridgeInv, ChildClose PROVE BridgeInv'
  OBVIOUS
<1>2. /\ Alive /\ sidecar.process = "exited" /\ pipe = <<>>
      /\ pipe' = pipe /\ stdin' = stdin /\ browser' = browser
      /\ sidecar' = [sidecar EXCEPT !.process = "closed"]
  BY <1>1 DEF ChildClose
<1>3. sidecar.callback = <<>> /\ sidecar.replies = <<>> /\ exit \in Exits
  BY <1>1, <1>2 DEF BridgeInv, InvAt, SidecarAt, OtherTypes
<1>4. InvAt(bridge, socket, pipe) /\ InvAt(bridge, Closed(socket, 1011), pipe)
  BY <1>1, ClosedParts DEF BridgeInv
<1>5. CASE /\ Persistent
           /\ bridge' = [bridge EXCEPT !.native = FALSE, !.nativeReady = FALSE]
           /\ socket' = Closed(socket, IF CleanEnd THEN 1000 ELSE 1011)
           /\ UNCHANGED exit
  <2>1. ASSUME CleanEnd PROVE InvAt(bridge, Closed(socket, 1000), pipe)
    <3>1. socket.client = "open" => Has(browser.received \o socket.toBrowser, "audit-complete")
      BY <1>1, <1>5, <2>1 DEF CleanEnd, BridgeInv, InvAt, CodeAt
    <3>2. QED
      BY <1>1, <1>4, <3>1, ClosedParts
  <2>2. InvAt(bridge, socket', pipe)
    BY <1>4, <1>5, <2>1
  <2>3. exit' \in Exits /\ (exit'.server => exit.server) /\ (Alive' => Alive)
    BY <1>3, <1>5 DEF Alive
  <2>4. QED
    BY <1>2, <1>3, <1>5, <2>2, <2>3, SidecarGone
<1>6. CASE /\ exit' = [exit EXCEPT !.timer = TRUE]
           /\ UNCHANGED <<bridge, socket>>
  <2>1. exit' \in Exits /\ (exit'.server => exit.server) /\ (Alive' => Alive)
    BY <1>3, <1>6 DEF Alive, Exits
  <2>2. bridge' = bridge /\ socket' = socket
    BY <1>6
  <2>3. QED
    BY <1>2, <1>3, <1>4, <2>1, <2>2, SidecarGone
<1>7. CASE /\ socket' = Closed(socket, 1011)
           /\ exit' = [exit EXCEPT !.server = FALSE, !.state = "pending", !.code = 1]
           /\ UNCHANGED bridge
  <2>1. exit' \in Exits /\ (exit'.server => exit.server) /\ (Alive' => Alive)
    BY <1>2, <1>3, <1>7 DEF Alive, Exits
  <2>2. bridge' = bridge
    BY <1>7
  <2>3. QED
    BY <1>2, <1>3, <1>4, <1>7, <2>1, <2>2, SidecarGone
<1>8. QED
  BY <1>1, <1>5, <1>6, <1>7 DEF ChildClose

(* The error of a sidecar that could not be started, and the close after   *)
(* it.                                                                     *)
LEMMA ErrorThenClosed ==
    ASSUME BridgeInv
    PROVE  InvAt(bridge, Closed(Sent(socket, <<Control("error")>>), 1011), pipe)
<1> DEFINE e == <<Control("error")>>
           x == <<CloseFrame(1011)>>
           q == socket.toBrowser
           n == Room(socket)
           t == Closed(Sent(socket, e), 1011)
<1>1. /\ socket \in Sockets /\ q \in Seq(Frames) /\ Len(q) \in Nat /\ BufferLimit \in Nat
      /\ socket.client = "open" => Len(q) <= BufferLimit
  BY InvTypes, LenProperties, LimitsAssumption DEF BridgeInv, InvAt, TypesAt
<1>2. /\ CloseFrame(1011) \in Frames /\ x \in Seq(Frames) /\ Len(x) = 1
      /\ CloseFrame(1011).type = "close" /\ CloseFrame(1011).n = 1011
      /\ CloseFrame(1011).session = socket.session
  BY <1>1, CloseFrameType, ListOfOne
<1>3. /\ Control("error") \in Frames /\ e \in Seq(Frames) /\ Len(e) = 1
      /\ Control("error").type = "error" /\ Control("error").session = socket.session
  BY <1>1, ListOfOne DEF Control, Frames, FramesOf, Sockets
<1>4. ObjectsOf(x) = <<>> /\ ObjectsOf(e) = <<>>
  BY <1>2, <1>3, ObjectsOfOne
<1>5. x \in Seq(Own(socket.session)) /\ e \in Seq(Own(socket.session))
  <2>1. CloseFrame(1011) \in Own(socket.session) /\ Control("error") \in Own(socket.session)
    BY <1>2, <1>3 DEF Own
  <2>2. QED
    BY <2>1, OwnBasics
<1>6. /\ \A i \in DOMAIN x : ~IsCleanClose(x[i])
      /\ \A i \in DOMAIN (e \o x) : ~IsCleanClose((e \o x)[i])
  <2>1. ~IsCleanClose(CloseFrame(1011)) /\ ~IsCleanClose(Control("error"))
    BY <1>2, <1>3 DEF IsCleanClose
  <2>2. DOMAIN x = {1} /\ x[1] = CloseFrame(1011)
    OBVIOUS
  <2>3. DOMAIN (e \o x) = {1, 2} /\ (e \o x)[1] = Control("error") /\ (e \o x)[2] = CloseFrame(1011)
    OBVIOUS
  <2> DEFINE y == e \o x
  <2> HIDE DEF x, y
  <2>4. QED
    BY <2>1, <2>2, <2>3 DEF y
<1>7. InvAt(bridge, socket, pipe)
  BY DEF BridgeInv
<1>8. CASE socket.client # "open"
  <2>1. t = socket
    BY <1>8 DEF Sent, Closed
  <2>2. QED
    BY <1>7, <2>1
<1>9. CASE socket.client = "open" /\ Overflows(socket, e)
  <2>1. n = 0
    BY <1>1, <1>3, <1>9 DEF Overflows, Room
  <2>2. SubSeq(e, 1, n) = <<>>
    BY <2>1, SubSeqEmpty
  <2>3. (q \o <<>>) \o x = q \o x /\ q \o x \in Seq(Frames) /\ Len(q \o x) = Len(q) + 1
    <3>1. q \o <<>> = q
      BY <1>1, FramesConcat
    <3>2. q \o x \in Seq(Frames) /\ Len(q \o x) = Len(q) + Len(x)
      BY <1>1, <1>2, FramesConcat
    <3>3. QED
      BY <1>2, <3>1, <3>2
  <2> HIDE DEF t, e, x, n
  <2>10. Sent(socket, e) = [socket EXCEPT !.client = "ended", !.toBrowser = (q \o SubSeq(e, 1, n)) \o x]
    BY <1>9 DEF Sent, x, n
  <2>4. Sent(socket, e) = [socket EXCEPT !.client = "ended", !.toBrowser = q \o x]
    BY <2>2, <2>3, <2>10
  <2>11. Sent(socket, e).client = "ended"
    BY <1>1, <2>4 DEF Sockets
  <2>5. t = [socket EXCEPT !.client = "ended", !.toBrowser = q \o x]
    BY <2>4, <2>11 DEF Closed, t, e
  <2>6. /\ t \in Sockets /\ t.client = "ended" /\ t.session = socket.session
        /\ t.fromBrowser = socket.fromBrowser /\ t.toBrowser = q \o x
    BY <1>1, <2>3, <2>5 DEF Sockets
  <2>7. Len(t.toBrowser) <= BufferLimit + 1
    BY <1>1, <1>9, <2>3, <2>6
  <2>8. InvAt(bridge, t, pipe)
    <3>1. \A i \in DOMAIN x : ~IsCleanClose(x[i])
      BY <1>6
    <3>2. x \in Seq(Frames) /\ ObjectsOf(x) = <<>> /\ x \in Seq(Own(socket.session))
      BY <1>2, <1>4, <1>5
    <3>3. QED
      BY <1>7, <1>9, <2>6, <2>7, <3>1, <3>2, EndedParts
  <2>9. QED
    BY <2>8 DEF t, e
<1>10. CASE socket.client = "open" /\ ~Overflows(socket, e)
  <2>1. Len(q) + 1 <= BufferLimit
    BY <1>1, <1>3, <1>10 DEF Overflows, Room
  <2>2. Sent(socket, e) = [socket EXCEPT !.toBrowser = q \o e]
    BY <1>10 DEF Sent
  <2>3. q \o e \in Seq(Frames) /\ Len(q \o e) = Len(q) + 1
    <3>1. q \o e \in Seq(Frames) /\ Len(q \o e) = Len(q) + Len(e)
      BY <1>1, <1>3, FramesConcat
    <3>2. QED
      BY <1>3, <3>1
  <2>5. (q \o e) \o x = q \o (e \o x) /\ e \o x \in Seq(Frames)
    <3> HIDE DEF q, e, x
    <3>1. q \in Seq(Frames) /\ e \in Seq(Frames) /\ x \in Seq(Frames)
      BY <1>1, <1>2, <1>3
    <3>2. (q \o e) \o x = q \o (e \o x)
      <4>1. Cat(Cat(q, e), x) = Cat(q, Cat(e, x))
        BY <3>1, CatFrames
      <4>2. QED
        BY <4>1 DEF Cat
    <3>3. e \o x \in Seq(Frames)
      BY <3>1, FramesConcat
    <3>4. QED
      BY <3>2, <3>3
  <2> DEFINE w == q \o e
             z == Append(w, CloseFrame(1011))
             y == e \o x
  <2> HIDE DEF t, x, e, z, w, y
  <2>3a. w \in Seq(Frames) /\ Len(w) = Len(q) + 1 /\ w \o x = q \o y /\ y \in Seq(Frames)
    BY <2>3, <2>5 DEF w, y
  <2>4. z = w \o x /\ z \in Seq(Frames) /\ Len(z) = Len(w) + 1
    BY <1>2, <2>3a, AppendIsConcat, AppendProperties DEF z, x
  <2>14. Sent(socket, e).client = "open" /\ Sent(socket, e).toBrowser = w
    BY <1>1, <1>10, <2>2, <2>3a DEF Sockets, w
  <2>15. t = [Sent(socket, e) EXCEPT !.client = "ended", !.toBrowser = z]
    BY <2>14 DEF Closed, t, z, e
  <2>6. t = [socket EXCEPT !.client = "ended", !.toBrowser = z]
    BY <1>1, <2>2, <2>15 DEF Sockets
  <2>7. z = q \o y /\ z \in Seq(Frames) /\ Len(z) <= BufferLimit + 1 /\ y \in Seq(Frames)
    BY <1>1, <2>1, <2>3a, <2>4
  <2>8. /\ t \in Sockets /\ t.client = "ended" /\ t.session = socket.session
        /\ t.fromBrowser = socket.fromBrowser /\ t.toBrowser = q \o y
        /\ Len(t.toBrowser) <= BufferLimit + 1
    BY <1>1, <2>6, <2>7 DEF Sockets
  <2>9. ObjectsOf(y) = <<>>
    <3>1. ObjectsOf(e \o x) = ObjectsOf(e) \o ObjectsOf(x)
      BY <1>2, <1>3, ObjectsConcat
    <3>2. <<>> \o <<>> = <<>>
      OBVIOUS
    <3>3. QED
      BY <1>4, <3>1, <3>2 DEF y
  <2>10. y \in Seq(Own(socket.session))
    BY <1>2, <1>3, <1>5, OwnConcat DEF y
  <2>11. \A i \in DOMAIN y : ~IsCleanClose(y[i])
    BY <1>6 DEF y
  <2>12. InvAt(bridge, t, pipe)
    BY <1>7, <1>10, <2>7, <2>8, <2>9, <2>10, <2>11, EndedParts
  <2>13. QED
    BY <2>12 DEF t, e
<1>11. QED
  BY <1>8, <1>9, <1>10

(* The sidecar could not be started.                                       *)
LEMMA SpawnFailsKeeps == BridgeInv /\ SpawnFails => BridgeInv'
<1>1. SUFFICES ASSUME BridgeInv, SpawnFails PROVE BridgeInv'
  OBVIOUS
<1> DEFINE s == Closed(Sent(socket, <<Control("error")>>), 1011)
<1>2. /\ sidecar.process = "running" /\ ~sidecar.connected /\ ~sidecar.stopping
      /\ sidecar' = [sidecar EXCEPT !.process = "closed"]
      /\ bridge' = [bridge EXCEPT !.native = FALSE, !.nativeReady = FALSE]
      /\ socket' = s
      /\ exit' = exit /\ stdin' = stdin /\ pipe' = pipe /\ browser' = browser
  BY <1>1 DEF SpawnFails
<1>3. InvAt(bridge, s, pipe)
  BY <1>1, ErrorThenClosed
<1> HIDE DEF s
<1>4. pipe = <<>> /\ sidecar.callback = <<>> /\ sidecar.replies = <<>> /\ exit \in Exits
  BY <1>1, <1>2 DEF BridgeInv, InvAt, SidecarAt, OtherTypes
<1>5. exit' \in Exits /\ (exit'.server => exit.server) /\ (Alive' => Alive)
  BY <1>2, <1>4 DEF Alive
<1>6. QED
  BY <1>2, <1>3, <1>4, <1>5, SidecarGone

(* What was read is no less audited than what was read and was still to    *)
(* come.                                                                   *)
LEMMA AuditPrecedesBefore ==
    ASSUME NEW s \in Seq(Frames), NEW t \in Seq(Frames), NEW asked, AuditPrecedes(s \o t, asked)
    PROVE  AuditPrecedes(s, asked)
<1>1. /\ Len(s) \in Nat /\ Len(t) \in Nat /\ DOMAIN s = 1..Len(s)
      /\ s \o t \in Seq(Frames) /\ DOMAIN (s \o t) = 1..(Len(s) + Len(t))
      /\ \A i \in 1..(Len(s) + Len(t)) : (s \o t)[i] = IF i <= Len(s) THEN s[i] ELSE t[i - Len(s)]
  BY LenProperties, ConcatProperties
<1>2. SUFFICES ASSUME NEW i \in 1..Len(s), IsCleanClose(s[i]), "bye" \notin RangeOf(asked)
               PROVE  \E j \in 1..(i - 1) : s[j].type = "audit-complete"
  BY <1>1 DEF AuditPrecedes
<1>3. i \in DOMAIN (s \o t) /\ (s \o t)[i] = s[i]
  BY <1>1
<1>4. PICK j \in 1..(i - 1) : (s \o t)[j].type = "audit-complete"
  BY <1>2, <1>3 DEF AuditPrecedes
<1>5. (s \o t)[j] = s[j]
  BY <1>1, <1>4
<1>6. QED
  BY <1>4, <1>5

(* The client has gone: socket "close", or client.destroy().               *)
LEMMA ClientGone ==
    ASSUME BridgeInv, socket' = Destroyed(socket), bridge' = bridge, pipe' = pipe,
           browser' = browser \/ browser' = Left(browser),
           exit' \in Exits, Alive' => Alive, ~exit'.server \/ LazyNative,
           stdin' \in Stdins, stdin'.lines = stdin.lines, stdin.ended => stdin'.ended,
           sidecar' \in Sidecars, SameButStopping(sidecar, sidecar')
    PROVE  BridgeInv'
<1>1. /\ socket \in Sockets /\ browser \in Browsers /\ socket.toBrowser \in Seq(Frames)
      /\ browser.received \in Seq(Frames)
  BY InvTypes
<1>2. /\ socket' \in Sockets /\ socket'.client = "none" /\ socket'.toBrowser = <<>>
      /\ socket'.fromBrowser = <<>> /\ socket'.session = socket.session
  BY <1>1, EmptySeq DEF Destroyed, Sockets
<1>3. /\ browser' \in Browsers /\ browser'.received = browser.received
      /\ browser'.asked = browser.asked /\ browser'.held = browser.held
      /\ browser.state = "none" => browser'.state = "none"
  BY <1>1 DEF Left, Browsers
<1>4. TypesAt(bridge, socket, pipe)' /\ OtherTypes'
  <2>1. Len(<<>>) = 0 /\ BufferLimit \in Nat
    BY LimitsAssumption
  <2>2. Len(socket'.toBrowser) <= BufferLimit + (IF socket'.client = "open" THEN 0 ELSE 1)
    BY <1>2, <2>1
  <2>3. QED
    BY <1>2, <1>3, <2>2 DEF BridgeInv, InvAt, TypesAt, OtherTypes
<1>5. WindowAt(bridge, socket)' /\ CommandsAt(bridge, socket)' /\ ObjectsAt(bridge, socket, pipe)'
  BY <1>2 DEF WindowAt, CommandsAt, ObjectsAt
<1>6. CodeAt(bridge, socket)'
  <2>1. AuditPrecedes(browser.received \o socket.toBrowser, browser.asked)
    BY DEF BridgeInv, InvAt, CodeAt
  <2>2. AuditPrecedes(browser.received, browser.asked)
    BY <1>1, <2>1, AuditPrecedesBefore
  <2>3. browser.received \o <<>> = browser.received
    BY <1>1, FramesConcat
  <2>4. AuditPrecedes(browser'.received \o socket'.toBrowser, browser'.asked)
    BY <1>2, <1>3, <2>2, <2>3
  <2>5. RangeOf(<<>>) = {}
    BY DEF RangeOf
  <2>6. QED
    BY <1>2, <2>4, <2>5 DEF CodeAt
<1>7. SessionAt(bridge, socket, pipe)'
  <2>1. <<>> \in Seq(Own(socket.session))
    BY OwnBasics
  <2>2. QED
    BY <1>2, <1>3, <2>1 DEF BridgeInv, InvAt, SessionAt, SameButStopping
<1>8. SidecarAt(bridge, socket, pipe)'
  BY <1>2 DEF BridgeInv, InvAt, SidecarAt, SameButStopping
<1>9. FirstAt(bridge, socket, pipe)'
  BY <1>2, <1>3 DEF BridgeInv, InvAt, FirstAt, SameButStopping
<1>10. QED
  BY <1>4, <1>5, <1>6, <1>7, <1>8, <1>9 DEF BridgeInv, InvAt

(* The socket is closed: nothing travels any more.                         *)
LEMMA SocketCloseKeeps == BridgeInv /\ SocketClose => BridgeInv'
<1>1. SUFFICES ASSUME BridgeInv, SocketClose PROVE BridgeInv'
  OBVIOUS
<1>2. bridge \in Bridges /\ exit \in Exits /\ stdin \in Stdins /\ sidecar \in Sidecars
  BY <1>1, InvTypes
<1>3. /\ socket' = Destroyed(socket) /\ bridge' = bridge /\ pipe' = pipe /\ browser' = browser
  BY <1>1 DEF SocketClose
<1>4. exit' \in Exits /\ (Alive' => Alive) /\ (~exit'.server \/ LazyNative)
  BY <1>1, <1>2, ModesAssumption DEF SocketClose, Exits, Alive
<1>5. bridge.gracefulClosing \in BOOLEAN /\ stdin.ended \in BOOLEAN /\ sidecar.stopping \in BOOLEAN
  BY <1>2 DEF Bridges, Stdins, Sidecars
<1>6. stdin' \in Stdins /\ stdin'.lines = stdin.lines /\ (stdin.ended => stdin'.ended)
  BY <1>1, <1>2, <1>5 DEF SocketClose, Stdins
<1>7. sidecar' \in Sidecars /\ SameButStopping(sidecar, sidecar')
  BY <1>1, <1>2, <1>5 DEF SocketClose, Sidecars, SameButStopping
<1>8. QED
  BY <1>1, <1>3, <1>4, <1>6, <1>7, ClientGone

(* A signal closes it, too, ...                                            *)
LEMMA ShutdownKeeps == BridgeInv /\ Shutdown => BridgeInv'
<1>1. SUFFICES ASSUME BridgeInv, Shutdown PROVE BridgeInv'
  OBVIOUS
<1>2. exit \in Exits /\ stdin \in Stdins /\ sidecar \in Sidecars
  BY <1>1, InvTypes
<1>3. /\ socket' = Destroyed(socket) /\ bridge' = bridge /\ pipe' = pipe
      /\ browser' = Left(browser)
  BY <1>1 DEF Shutdown
<1>4. exit' \in Exits /\ (Alive' => Alive) /\ ~exit'.server
  BY <1>1, <1>2 DEF Shutdown, Exits, Alive
<1>5. stdin' \in Stdins /\ stdin'.lines = stdin.lines /\ (stdin.ended => stdin'.ended)
  BY <1>1, <1>2 DEF Shutdown, Stdins
<1>6. sidecar' \in Sidecars /\ SameButStopping(sidecar, sidecar')
  BY <1>1, <1>2 DEF Shutdown, Sidecars, SameButStopping
<1>7. QED
  BY <1>1, <1>3, <1>4, <1>5, <1>6, ClientGone

(* ... and so does the timer of the audit.                                 *)
LEMMA AuditExitKeeps == BridgeInv /\ AuditExit => BridgeInv'
<1>1. SUFFICES ASSUME BridgeInv, AuditExit PROVE BridgeInv'
  OBVIOUS
<1>2. exit \in Exits /\ stdin \in Stdins /\ sidecar \in Sidecars
  BY <1>1, InvTypes
<1>3. /\ socket' = Destroyed(socket) /\ bridge' = bridge /\ pipe' = pipe
      /\ browser' = Left(browser) /\ stdin' = stdin /\ sidecar' = sidecar
  BY <1>1 DEF AuditExit
<1>4. exit' \in Exits /\ (Alive' => Alive) /\ ~exit'.server
  BY <1>1, <1>2 DEF AuditExit, Exits, Alive
<1>5. SameButStopping(sidecar, sidecar')
  BY <1>3 DEF SameButStopping
<1>6. QED
  BY <1>1, <1>2, <1>3, <1>4, <1>5, ClientGone

(* Steps that only the exit sees.                                          *)
LEMMA ExitKeeps == BridgeInv /\ (AuditPolled \/ Exit) => BridgeInv'
<1>1. SUFFICES ASSUME BridgeInv, AuditPolled \/ Exit PROVE BridgeInv'
  OBVIOUS
<1>2. /\ bridge' = bridge /\ socket' = socket /\ sidecar' = sidecar /\ stdin' = stdin
      /\ pipe' = pipe /\ browser' = browser
  BY <1>1 DEF AuditPolled, Exit
<1>3. exit \in Exits
  BY <1>1, InvTypes
<1>4. exit' \in Exits /\ (Alive' => Alive) /\ exit'.server = exit.server
  <2>1. CASE AuditPolled
    BY <1>3, <2>1 DEF AuditPolled, Exits, Alive
  <2>2. CASE Exit
    BY <1>3, <2>2 DEF Exit, Exits, Alive
  <2>3. QED
    BY <1>1, <2>1, <2>2
<1>5. TypesAt(bridge, socket, pipe)' /\ OtherTypes'
  BY <1>1, <1>2, <1>4 DEF BridgeInv, InvAt, TypesAt, OtherTypes
<1>6. WindowAt(bridge, socket)' /\ CodeAt(bridge, socket)'
  BY <1>1, <1>2, <1>4 DEF BridgeInv, InvAt, WindowAt, Load, CodeAt
<1>7. ObjectsAt(bridge, socket, pipe)'
  BY <1>1, <1>2, <1>4 DEF BridgeInv, InvAt, ObjectsAt, Along
<1>8. CommandsAt(bridge, socket)'
  BY <1>1, <1>2, <1>4 DEF BridgeInv, InvAt, CommandsAt, Reaching
<1>9. SessionAt(bridge, socket, pipe)' /\ SidecarAt(bridge, socket, pipe)'
  BY <1>1, <1>2 DEF BridgeInv, InvAt, SessionAt, SidecarAt
<1>10. FirstAt(bridge, socket, pipe)'
  BY <1>1, <1>2, <1>4 DEF BridgeInv, InvAt, FirstAt
<1>11. QED
  BY <1>5, <1>6, <1>7, <1>8, <1>9, <1>10 DEF BridgeInv, InvAt

-----------------------------------------------------------------------------
(* The steps of the sidecar.                                               *)

(* A step of the sidecar leaves the bridge, the socket and the browser     *)
(* alone.                                                                  *)
LEMMA SidecarMoves ==
    ASSUME BridgeInv, bridge' = bridge, exit' = exit, socket' = socket, browser' = browser,
           sidecar' \in Sidecars, stdin' \in Stdins, Len(stdin'.lines) <= StdinLimit,
           pipe' \in Seq(NativeFrames), Len(pipe') <= PipeLimit,
           ObjectsAt(bridge, socket, pipe)', CommandsAt(bridge, socket)',
           SessionAt(bridge, socket, pipe)', SidecarAt(bridge, socket, pipe)',
           FirstAt(bridge, socket, pipe)'
    PROVE  BridgeInv'
<1>1. TypesAt(bridge, socket, pipe)' /\ OtherTypes'
  BY DEF BridgeInv, InvAt, TypesAt, OtherTypes
<1>2. WindowAt(bridge, socket)' /\ CodeAt(bridge, socket)'
  BY DEF BridgeInv, InvAt, WindowAt, Load, CodeAt, Alive
<1>3. QED
  BY <1>1, <1>2 DEF BridgeInv, InvAt

(* A frame that a callback begins to write.                                *)
LEMMA FramesWritten ==
    ASSUME socket \in Sockets
    PROVE  /\ \A type \in NativeTypes \ {"object"} :
                 /\ <<Control(type)>> \in Seq(ControlFrames)
                 /\ <<Control(type)>> \in Seq(NativeFrames)
                 /\ <<Control(type)>> \in Seq(Own(socket.session))
                 /\ ObjectsOf(<<Control(type)>>) = <<>>
           /\ \A n \in Nat :
                 /\ Object(n) \in NativeFrames /\ Object(n) \in Own(socket.session)
                 /\ Object(n).type = "object" /\ Object(n).n = n
<1>1. ASSUME NEW type \in NativeTypes \ {"object"}
      PROVE  /\ <<Control(type)>> \in Seq(ControlFrames)
             /\ <<Control(type)>> \in Seq(NativeFrames)
             /\ <<Control(type)>> \in Seq(Own(socket.session))
             /\ ObjectsOf(<<Control(type)>>) = <<>>
  <2>1. Control(type) \in ControlFrames /\ Control(type).session = socket.session
    BY DEF Control, ControlFrames, FramesOf, Sockets
  <2>2. Control(type) \in NativeFrames /\ Control(type) \in Own(socket.session)
    BY <2>1, KindsOfFrames DEF Own
  <2>3. QED
    BY <2>1, <2>2, ListOfOne, ControlsHaveNoObjects
<1>2. ASSUME NEW n \in Nat
      PROVE  /\ Object(n) \in NativeFrames /\ Object(n) \in Own(socket.session)
             /\ Object(n).type = "object" /\ Object(n).n = n
  <2>1. Object(n) \in FramesOf({"object"}) /\ Object(n).session = socket.session
        /\ Object(n).type = "object" /\ Object(n).n = n
    BY DEF Object, FramesOf, Sockets
  <2>2. QED
    BY <2>1, KindsOfFrames DEF Own
<1>3. QED
  BY <1>1, <1>2

(* Without more objects, the objects are the same.                         *)
LEMMA NothingAdded ==
    ASSUME NEW s \in Seq(Frames), NEW t \in Seq(Frames), ObjectsOf(t) = <<>>
    PROVE  ObjectsOf(s \o t) = ObjectsOf(s)
<1>1. ObjectsOf(s) \in Seq(Frames) /\ ObjectsOf(s \o t) = ObjectsOf(s) \o ObjectsOf(t)
  BY ObjectsType, ObjectsConcat
<1>2. QED
  BY <1>1, FramesConcat

(* What is along the way are frames.                                       *)
LEMMA AlongTypes ==
    ASSUME BridgeInv
    PROVE  Along(bridge, socket, pipe) \in Seq(Frames)
BY InvTypes, FramesConcat DEF Along

(* The sidecar is connected.                                               *)
LEMMA NativeConnectsKeeps == BridgeInv /\ NativeConnects => BridgeInv'
<1>1. SUFFICES ASSUME BridgeInv, NativeConnects PROVE BridgeInv'
  OBVIOUS
<1> DEFINE f == <<Control("ready")>>
<1>2. /\ sidecar.process = "running" /\ ~sidecar.connected /\ sidecar.callback = <<>>
      /\ sidecar' = [sidecar EXCEPT !.connected = TRUE, !.callback = f]
      /\ bridge' = bridge /\ exit' = exit /\ socket' = socket /\ browser' = browser
      /\ stdin' = stdin /\ pipe' = pipe
  BY <1>1 DEF NativeConnects, Running, OnlySidecar
<1>3. /\ sidecar \in Sidecars /\ socket \in Sockets /\ stdin \in Stdins
      /\ pipe \in Seq(NativeFrames)
      /\ Len(pipe) <= PipeLimit /\ Len(stdin.lines) <= StdinLimit
  BY <1>1, InvTypes DEF BridgeInv, InvAt, TypesAt, OtherTypes
<1>4. /\ f \in Seq(NativeFrames) /\ f \in Seq(Frames) /\ f \in Seq(Own(socket.session))
      /\ ObjectsOf(f) = <<>> /\ Len(f) = 1
  BY <1>3, FramesWritten, NativeListsAreLists DEF NativeTypes
<1> HIDE DEF f
<1>5. /\ sidecar' \in Sidecars /\ sidecar'.process = "running" /\ sidecar'.connected
      /\ sidecar'.fetching = sidecar.fetching /\ sidecar'.stopping = sidecar.stopping
      /\ sidecar'.replies = sidecar.replies /\ sidecar'.callback = f
      /\ sidecar'.produced = sidecar.produced /\ sidecar'.obeyed = sidecar.obeyed
  BY <1>2, <1>3, <1>4 DEF Sidecars
<1>6. ObjectsAt(bridge, socket, pipe)'
  <2> DEFINE a == Along(bridge, socket, pipe)
  <2>1. a \in Seq(Frames) /\ Along(bridge, socket, pipe)' = a
    BY <1>1, <1>2, AlongTypes DEF Along
  <2> HIDE DEF a
  <2>2. ObjectsOf(a \o f) = ObjectsOf(a) /\ a \o <<>> = a
    BY <1>4, <2>1, NothingAdded, FramesConcat
  <2>3. (Numbered(a) => Numbered(a \o f)) /\ NumObjects(a \o f) = NumObjects(a)
    BY <2>2, NumberedSame DEF NumObjects
  <2>4. ObjectsAt(bridge, socket, pipe)
    BY <1>1 DEF BridgeInv, InvAt
  <2>5. QED
    BY <1>2, <1>5, <2>1, <2>2, <2>3, <2>4 DEF ObjectsAt, Alive, a
<1>7. CommandsAt(bridge, socket)'
  BY <1>1, <1>2, <1>5 DEF BridgeInv, InvAt, CommandsAt, Reaching, Alive
<1>8. SessionAt(bridge, socket, pipe)'
  BY <1>1, <1>2, <1>4, <1>5 DEF BridgeInv, InvAt, SessionAt
<1>9. SidecarAt(bridge, socket, pipe)'
  <2>1. SidecarAt(bridge, socket, pipe)
    BY <1>1 DEF BridgeInv, InvAt
  <2>2. stdin' = stdin /\ pipe' = pipe /\ bridge' = bridge /\ socket' = socket
    BY <1>2
  <2>3. ~(sidecar'.process \in {"none", "closed"})
    BY <1>5
  <2>4. ObjectsOf(sidecar'.replies) = <<>> /\ Len(sidecar'.callback) <= 1
    <3>1. ObjectsOf(sidecar.replies) = <<>>
      BY <2>1 DEF SidecarAt
    <3>2. sidecar'.replies = sidecar.replies /\ sidecar'.callback = f /\ Len(f) = 1
      BY <1>4, <1>5
    <3>3. ObjectsOf(sidecar'.replies) = <<>>
      BY <3>1, <3>2
    <3>4. Len(sidecar'.callback) <= 1
      BY <3>2
    <3>5. QED
      BY <3>3, <3>4
  <2>5. ~bridge'.native => FALSE
    BY <1>2, <2>1, <2>2 DEF SidecarAt
  <2>6. Len(stdin'.lines) = StdinLimit => bridge'.nativeInputBlocked
    BY <2>1, <2>2 DEF SidecarAt
  <2>7. QED
    BY <1>5, <2>3, <2>4, <2>5, <2>6 DEF SidecarAt
<1>10. FirstAt(bridge, socket, pipe)'
  BY <1>1, <1>2, <1>4, <1>5 DEF BridgeInv, InvAt, FirstAt
<1>11. QED
  BY <1>1, <1>2, <1>3, <1>5, <1>6, <1>7, <1>8, <1>9, <1>10, SidecarMoves

(* The sidecar has an object, and numbers it.                              *)
LEMMA NativeObjectKeeps == BridgeInv /\ NativeObject => BridgeInv'
<1>1. SUFFICES ASSUME BridgeInv, NativeObject PROVE BridgeInv'
  OBVIOUS
<1> DEFINE n == sidecar.produced + 1
           f == Object(n)
<1>2. /\ sidecar.process = "running" /\ sidecar.fetching /\ sidecar.callback = <<>>
      /\ sidecar.produced < MaxObjects
      /\ sidecar' = [sidecar EXCEPT !.produced = @ + 1, !.callback = <<f>>]
      /\ bridge' = bridge /\ exit' = exit /\ socket' = socket /\ browser' = browser
      /\ stdin' = stdin /\ pipe' = pipe
  BY <1>1 DEF NativeObject, Running, OnlySidecar
<1>3. /\ sidecar \in Sidecars /\ socket \in Sockets /\ stdin \in Stdins
      /\ pipe \in Seq(NativeFrames) /\ sidecar.produced \in 0..MaxObjects
      /\ Len(pipe) <= PipeLimit /\ Len(stdin.lines) <= StdinLimit
  BY <1>1, InvTypes DEF BridgeInv, InvAt, TypesAt, OtherTypes, Sidecars
<1>4. n \in Nat /\ n \in 0..MaxObjects /\ n = sidecar.produced + 1
  BY <1>2, <1>3, LimitsAssumption
<1> HIDE DEF n
<1>5. /\ f \in NativeFrames /\ f \in Frames /\ f \in Own(socket.session)
      /\ f.type = "object" /\ f.n = n
  BY <1>3, <1>4, FramesWritten, KindsOfFrames
<1>6. /\ <<f>> \in Seq(NativeFrames) /\ <<f>> \in Seq(Frames)
      /\ <<f>> \in Seq(Own(socket.session)) /\ Len(<<f>>) = 1
  BY <1>5, ListOfOne
<1> HIDE DEF f
<1>7. /\ sidecar' \in Sidecars /\ sidecar'.process = "running"
      /\ sidecar'.connected = sidecar.connected
      /\ sidecar'.fetching = sidecar.fetching /\ sidecar'.stopping = sidecar.stopping
      /\ sidecar'.replies = sidecar.replies /\ sidecar'.callback = <<f>>
      /\ sidecar'.produced = n /\ sidecar'.obeyed = sidecar.obeyed
  BY <1>2, <1>3, <1>4, <1>6 DEF Sidecars
<1>8. ObjectsAt(bridge, socket, pipe)'
  <2> DEFINE a == Along(bridge, socket, pipe)
  <2>1. a \in Seq(Frames) /\ Along(bridge, socket, pipe)' = a
    BY <1>1, <1>2, AlongTypes DEF Along
  <2> HIDE DEF a
  <2>2. a \o <<>> = a /\ NumObjects(a) \in Nat
    BY <2>1, FramesConcat, NumObjectsType
  <2>3. Numbered(a) /\ n = NumObjects(a) + 1 => Numbered(a \o <<f>>)
    BY <1>5, <2>1, NumberedNext DEF NumObjects
  <2>4. NumObjects(a \o <<f>>) = NumObjects(a) + 1
    BY <1>5, <1>6, <2>1, ObjectsOfOne, NumObjectsConcat DEF NumObjects
  <2>5. ObjectsAt(bridge, socket, pipe)
    BY <1>1 DEF BridgeInv, InvAt
  <2>6. socket.client = "open" /\ ~bridge.gracefulClosing =>
           Numbered(a \o <<f>>) /\ NumObjects(a \o <<f>>) = n
    BY <1>2, <1>4, <2>2, <2>3, <2>4, <2>5 DEF ObjectsAt, a
  <2>7. QED
    BY <1>2, <1>7, <2>1, <2>5, <2>6 DEF ObjectsAt, Alive, a
<1>9. CommandsAt(bridge, socket)'
  BY <1>1, <1>2, <1>7 DEF BridgeInv, InvAt, CommandsAt, Reaching, Alive
<1>10. SessionAt(bridge, socket, pipe)'
  BY <1>1, <1>2, <1>6, <1>7 DEF BridgeInv, InvAt, SessionAt
<1>11. SidecarAt(bridge, socket, pipe)'
  BY <1>1, <1>2, <1>6, <1>7 DEF BridgeInv, InvAt, SidecarAt
<1>12. FirstAt(bridge, socket, pipe)'
  BY <1>1, <1>2, <1>7 DEF BridgeInv, InvAt, FirstAt
<1>13. QED
  BY <1>1, <1>2, <1>3, <1>7, <1>8, <1>9, <1>10, <1>11, <1>12, SidecarMoves

(* A frame goes from a callback to the pipe.                               *)
LEMMA CallbackWritesKeeps == BridgeInv /\ CallbackWrites => BridgeInv'
<1>1. SUFFICES ASSUME BridgeInv, CallbackWrites PROVE BridgeInv'
  OBVIOUS
<1> DEFINE c == sidecar.callback
           n == bridge.nativeBytes
           w == browser.received \o socket.toBrowser
<1>2. /\ sidecar.process = "running" /\ c # <<>> /\ Len(pipe) < PipeLimit
      /\ pipe' = pipe \o c /\ sidecar' = [sidecar EXCEPT !.callback = <<>>]
      /\ bridge' = bridge /\ exit' = exit /\ socket' = socket /\ browser' = browser
      /\ stdin' = stdin
  BY <1>1 DEF CallbackWrites, Running, OnlySidecar, HasRoom
<1>3. /\ sidecar \in Sidecars /\ stdin \in Stdins /\ pipe \in Seq(NativeFrames)
      /\ pipe \in Seq(Frames) /\ c \in Seq(NativeFrames) /\ c \in Seq(Frames)
      /\ n \in Seq(Frames) /\ w \in Seq(Frames) /\ Len(stdin.lines) <= StdinLimit
  BY <1>1, InvTypes, FramesConcat DEF BridgeInv, InvAt, OtherTypes
<1>4. pipe \o c \in Seq(NativeFrames) /\ Len(pipe \o c) <= PipeLimit
  <2>1. Len(c) <= 1
    BY <1>1 DEF BridgeInv, InvAt, SidecarAt
  <2>2. /\ pipe \o c \in Seq(NativeFrames) /\ Len(pipe \o c) = Len(pipe) + Len(c)
        /\ Len(pipe) \in Nat /\ Len(c) \in Nat
    BY <1>3, ConcatProperties, LenProperties
  <2>3. QED
    BY <1>2, <2>1, <2>2, LimitsAssumption
<1>5. /\ sidecar' \in Sidecars /\ sidecar'.process = "running"
      /\ sidecar'.connected = sidecar.connected
      /\ sidecar'.fetching = sidecar.fetching /\ sidecar'.stopping = sidecar.stopping
      /\ sidecar'.replies = sidecar.replies /\ sidecar'.callback = <<>>
      /\ sidecar'.produced = sidecar.produced /\ sidecar'.obeyed = sidecar.obeyed
  BY <1>2, <1>3, EmptySeq DEF Sidecars
<1> HIDE DEF c, n, w
<1>6. n \o (pipe \o c) = (n \o pipe) \o c /\ n \o pipe \in Seq(Frames)
  <2>1. n \o (pipe \o c) = (n \o pipe) \o c
    <3>1. Cat(n, Cat(pipe, c)) = Cat(Cat(n, pipe), c)
      BY <1>3, CatFrames
    <3>2. QED
      BY <3>1 DEF Cat
  <2>2. QED
    BY <1>3, <2>1, FramesConcat
<1>7. ObjectsAt(bridge, socket, pipe)'
  <2> DEFINE m == n \o pipe
             a == w \o m
  <2>1. ObjectsAt(bridge, socket, pipe)
    BY <1>1 DEF BridgeInv, InvAt
  <2>2. Along(bridge, socket, pipe) = a
    BY DEF Along, w, n
  <2>3. Along(bridge, socket, pipe)' = w \o (m \o c)
    BY <1>2, <1>6 DEF Along, w, n
  <2>4. m \in Seq(Frames) /\ w \in Seq(Frames) /\ c \in Seq(Frames)
    BY <1>3, <1>6
  <2> HIDE DEF m
  <2>8. (w \o m) \o c = w \o (m \o c)
    <3>1. Cat(Cat(w, m), c) = Cat(w, Cat(m, c))
      BY <2>4, CatFrames
    <3>2. QED
      BY <3>1 DEF Cat
  <2>9. a \in Seq(Frames)
    BY <2>4, FramesConcat
  <2>10. a \o c = w \o (m \o c)
    BY <2>8
  <2> HIDE DEF a
  <2>5. a \o c = w \o (m \o c) /\ a \o c \in Seq(Frames)
    BY <2>4, <2>9, <2>10, FramesConcat
  <2>6. Along(bridge, socket, pipe)' = a \o c /\ (a \o c) \o <<>> = a \o c
    BY <2>3, <2>5, FramesConcat
  <2>7. QED
    BY <1>2, <1>5, <2>1, <2>2, <2>6 DEF ObjectsAt, Alive, c
<1>8. CommandsAt(bridge, socket)'
  BY <1>1, <1>2, <1>5 DEF BridgeInv, InvAt, CommandsAt, Reaching, Alive
<1>9. SessionAt(bridge, socket, pipe)'
  <2>1. SessionAt(bridge, socket, pipe)
    BY <1>1 DEF BridgeInv, InvAt
  <2>2. LazyNative => pipe \o c \in Seq(Own(socket.session))
    BY <1>3, <2>1, OwnConcat DEF SessionAt, c
  <2>3. <<>> \in Seq(Own(socket.session))
    BY OwnBasics
  <2>4. QED
    BY <1>2, <1>5, <2>1, <2>2, <2>3 DEF SessionAt
<1>10. SidecarAt(bridge, socket, pipe)'
  <2>1. SidecarAt(bridge, socket, pipe)
    BY <1>1 DEF BridgeInv, InvAt
  <2>2. sidecar.connected \/ sidecar.stopping
    BY <1>2, <2>1 DEF SidecarAt, c
  <2>3. Len(<<>>) <= 1
    OBVIOUS
  <2>4. QED
    BY <1>2, <1>5, <2>1, <2>2, <2>3 DEF SidecarAt
<1>11. FirstAt(bridge, socket, pipe)'
  <2>1. FirstAt(bridge, socket, pipe)
    BY <1>1 DEF BridgeInv, InvAt
  <2>2. ObjectsOf(n \o pipe) = <<>> /\ ObjectsOf(c) = <<>> => ObjectsOf(n \o (pipe \o c)) = <<>>
    <3> DEFINE m == n \o pipe
    <3>1. n \o (pipe \o c) = m \o c /\ m \in Seq(Frames) /\ c \in Seq(Frames)
      BY <1>3, <1>6
    <3> HIDE DEF m
    <3>2. ObjectsOf(c) = <<>> => ObjectsOf(m \o c) = ObjectsOf(m)
      BY <3>1, NothingAdded
    <3>3. QED
      BY <3>1, <3>2 DEF m
  <2>3. ObjectsOf(<<>>) = <<>>
    BY ObjectsOfNone
  <2>4. QED
    BY <1>2, <1>5, <2>1, <2>2, <2>3 DEF FirstAt, n, c
<1>12. QED
  BY <1>1, <1>2, <1>3, <1>4, <1>5, <1>7, <1>8, <1>9, <1>10, <1>11, SidecarMoves

(* A reply goes from main to the pipe, ahead of an object that waits.      *)
LEMMA MainWritesKeeps == BridgeInv /\ MainWrites => BridgeInv'
<1>1. SUFFICES ASSUME BridgeInv, MainWrites PROVE BridgeInv'
  OBVIOUS
<1> DEFINE c == sidecar.callback
           n == bridge.nativeBytes
           w == browser.received \o socket.toBrowser
           h == <<Head(sidecar.replies)>>
           t == Tail(sidecar.replies)
<1>2. /\ sidecar.process = "running" /\ sidecar.replies # <<>> /\ Len(pipe) < PipeLimit
      /\ pipe' = Append(pipe, Head(sidecar.replies))
      /\ sidecar' = [sidecar EXCEPT !.replies = t, !.main = MainAfter(t, sidecar.stopping)]
      /\ bridge' = bridge /\ exit' = exit /\ socket' = socket /\ browser' = browser
      /\ stdin' = stdin
  BY <1>1 DEF MainWrites, Running, OnlySidecar, HasRoom
<1>3. /\ sidecar \in Sidecars /\ stdin \in Stdins /\ pipe \in Seq(NativeFrames)
      /\ sidecar.replies \in Seq(NativeFrames) /\ sidecar.replies \in Seq(Frames)
      /\ pipe \in Seq(Frames) /\ c \in Seq(Frames)
      /\ n \in Seq(Frames) /\ w \in Seq(Frames) /\ Len(stdin.lines) <= StdinLimit
  BY <1>1, InvTypes, FramesConcat DEF BridgeInv, InvAt, OtherTypes
<1>4. /\ h \in Seq(NativeFrames) /\ t \in Seq(NativeFrames) /\ h \in Seq(Frames)
      /\ t \in Seq(Frames) /\ sidecar.replies = h \o t /\ Len(h) = 1
      /\ Head(sidecar.replies) \in NativeFrames
  BY <1>2, <1>3, HeadFirst, ListOfOne, NativeListsAreLists
<1>5. pipe' = pipe \o h /\ pipe' \in Seq(NativeFrames) /\ Len(pipe') <= PipeLimit
  <2>1. pipe' = pipe \o h /\ pipe' \in Seq(NativeFrames)
    BY <1>2, <1>3, <1>4, AppendIsConcat, AppendProperties
  <2>2. Len(pipe') = Len(pipe) + 1 /\ Len(pipe) \in Nat
    BY <1>2, <1>3, <1>4, AppendProperties, LenProperties
  <2>4. \A i, j \in Nat : i < j => i + 1 <= j
    OBVIOUS
  <2>5. Len(pipe) + 1 <= PipeLimit
    BY <1>2, <2>2, <2>4, LimitsAssumption
  <2>3. QED
    BY <2>1, <2>2, <2>5
<1>6. ObjectsOf(h) = <<>> /\ ObjectsOf(t) = <<>>
  <2>1. ObjectsOf(h \o t) = <<>>
    BY <1>1, <1>4 DEF BridgeInv, InvAt, SidecarAt
  <2> HIDE DEF h, t
  <2>2. /\ ObjectsOf(h \o t) = ObjectsOf(h) \o ObjectsOf(t)
        /\ ObjectsOf(h) \in Seq(Frames) /\ ObjectsOf(t) \in Seq(Frames)
    BY <1>4, ObjectsConcat, ObjectsType
  <2>3. ASSUME NEW x \in Seq(Frames), NEW y \in Seq(Frames), x \o y = <<>>
        PROVE  x = <<>> /\ y = <<>>
    <3>1. Len(x) \in Nat /\ Len(y) \in Nat /\ Len(x) + Len(y) = 0
      BY <2>3, FramesConcat
    <3>2. Len(x) = 0 /\ Len(y) = 0
      BY <3>1
    <3>3. QED
      BY <2>3, <3>2, EmptySeq
  <2>4. QED
    BY <2>1, <2>2, <2>3
<1> HIDE DEF h, t
<1>7. /\ sidecar' \in Sidecars /\ sidecar'.process = "running"
      /\ sidecar'.connected = sidecar.connected
      /\ sidecar'.fetching = sidecar.fetching /\ sidecar'.stopping = sidecar.stopping
      /\ sidecar'.replies = t /\ sidecar'.callback = sidecar.callback
      /\ sidecar'.produced = sidecar.produced /\ sidecar'.obeyed = sidecar.obeyed
  BY <1>2, <1>3, <1>4 DEF Sidecars, MainAfter
<1> HIDE DEF c, n, w
<1>8. n \o (pipe \o h) = (n \o pipe) \o h /\ n \o pipe \in Seq(Frames)
  <2>1. n \o (pipe \o h) = (n \o pipe) \o h
    <3>1. Cat(n, Cat(pipe, h)) = Cat(Cat(n, pipe), h)
      BY <1>3, <1>4, CatFrames
    <3>2. QED
      BY <3>1 DEF Cat
  <2>2. QED
    BY <1>3, <2>1, FramesConcat
<1>9. ObjectsAt(bridge, socket, pipe)'
  <2> DEFINE m == n \o pipe
             a == w \o m
  <2>1. ObjectsAt(bridge, socket, pipe)
    BY <1>1 DEF BridgeInv, InvAt
  <2>2. Along(bridge, socket, pipe) = a
    BY DEF Along, w, n
  <2>3. Along(bridge, socket, pipe)' = w \o (m \o h)
    BY <1>2, <1>5, <1>8 DEF Along, w, n
  <2>4. m \in Seq(Frames) /\ w \in Seq(Frames) /\ h \in Seq(Frames)
    BY <1>3, <1>4, <1>8
  <2> HIDE DEF m
  <2>11. (w \o m) \o h = w \o (m \o h)
    <3>1. Cat(Cat(w, m), h) = Cat(w, Cat(m, h))
      BY <2>4, CatFrames
    <3>2. QED
      BY <3>1 DEF Cat
  <2>12. a \in Seq(Frames)
    BY <2>4, FramesConcat
  <2>13. a \o h = w \o (m \o h)
    BY <2>11
  <2> HIDE DEF a
  <2>5. a \o h = w \o (m \o h) /\ a \in Seq(Frames) /\ a \o h \in Seq(Frames)
    BY <2>4, <2>12, <2>13, FramesConcat
  <2>6. ObjectsOf(a \o h) = ObjectsOf(a)
    BY <1>4, <1>6, <2>5, NothingAdded
  <2>7. ObjectsOf((a \o h) \o c) = ObjectsOf(a \o c)
    <3>1. /\ ObjectsOf((a \o h) \o c) = ObjectsOf(a \o h) \o ObjectsOf(c)
          /\ ObjectsOf(a \o c) = ObjectsOf(a) \o ObjectsOf(c)
      BY <1>3, <2>5, ObjectsConcat
    <3>2. QED
      BY <2>6, <3>1
  <2>8. /\ Numbered(a) => Numbered(a \o h)
        /\ Numbered(a \o c) => Numbered((a \o h) \o c)
        /\ NumObjects((a \o h) \o c) = NumObjects(a \o c)
    BY <2>6, <2>7, NumberedSame DEF NumObjects
  <2>9. Along(bridge, socket, pipe)' = a \o h
    BY <2>3, <2>5
  <2>10. QED
    BY <1>2, <1>7, <2>1, <2>2, <2>8, <2>9 DEF ObjectsAt, Alive, c
<1>10. CommandsAt(bridge, socket)'
  BY <1>1, <1>2, <1>7 DEF BridgeInv, InvAt, CommandsAt, Reaching, Alive
<1>11. SessionAt(bridge, socket, pipe)'
  <2>1. SessionAt(bridge, socket, pipe)
    BY <1>1 DEF BridgeInv, InvAt
  <2>2. LazyNative => h \in Seq(Own(socket.session)) /\ t \in Seq(Own(socket.session))
    BY <1>4, <2>1, OwnConcat DEF SessionAt
  <2>3. LazyNative => pipe \o h \in Seq(Own(socket.session))
    BY <1>3, <1>4, <2>1, <2>2, OwnConcat DEF SessionAt
  <2>4. QED
    BY <1>2, <1>5, <1>7, <2>1, <2>2, <2>3 DEF SessionAt
<1>12. SidecarAt(bridge, socket, pipe)'
  <2>1. SidecarAt(bridge, socket, pipe)
    BY <1>1 DEF BridgeInv, InvAt
  <2>2. sidecar.connected \/ sidecar.stopping
    BY <1>2, <2>1 DEF SidecarAt
  <2>3. QED
    BY <1>2, <1>6, <1>7, <2>1, <2>2 DEF SidecarAt
<1>13. FirstAt(bridge, socket, pipe)'
  <2>1. FirstAt(bridge, socket, pipe)
    BY <1>1 DEF BridgeInv, InvAt
  <2>2. ObjectsOf(n \o pipe') = ObjectsOf(n \o pipe)
    BY <1>4, <1>5, <1>6, <1>8, NothingAdded
  <2>3. QED
    BY <1>2, <1>7, <2>1, <2>2 DEF FirstAt, n
<1>14. QED
  BY <1>1, <1>2, <1>3, <1>5, <1>7, <1>9, <1>10, <1>11, <1>12, <1>13, SidecarMoves

(* Replies are control frames of the session.                              *)
LEMMA RepliesType ==
    ASSUME socket \in Sockets, NEW command \in CommandTypes
    PROVE  /\ Replies(command) \in Seq(NativeFrames)
           /\ Replies(command) \in Seq(Own(socket.session))
           /\ ObjectsOf(Replies(command)) = <<>>
           /\ ~sidecar.connected /\ ~sidecar.fetching /\ command # "close" =>
                 Replies(command) = <<>>
<1>1. <<>> \in Seq(NativeFrames) /\ <<>> \in Seq(Own(socket.session)) /\ ObjectsOf(<<>>) = <<>>
  BY EmptySeq, OwnBasics, ObjectsOfNone
<1>2. /\ <<Control("status")>> \in Seq(NativeFrames)
      /\ <<Control("status")>> \in Seq(Own(socket.session))
      /\ ObjectsOf(<<Control("status")>>) = <<>>
      /\ <<Control("audit-complete")>> \in Seq(NativeFrames)
      /\ <<Control("audit-complete")>> \in Seq(Own(socket.session))
      /\ ObjectsOf(<<Control("audit-complete")>>) = <<>>
  BY FramesWritten DEF NativeTypes
<1>3. CASE command = "open"
  BY <1>1, <1>2, <1>3 DEF Replies
<1>4. CASE command = "priorities"
  BY <1>1, <1>2, <1>4 DEF Replies
<1>5. CASE command = "close"
  BY <1>1, <1>2, <1>5 DEF Replies
<1>6. QED
  BY <1>3, <1>4, <1>5 DEF CommandTypes

(* A command goes from the input to those obeyed.                          *)
LEMMA ReadCommandKeeps == BridgeInv /\ ReadCommand => BridgeInv'
<1>1. SUFFICES ASSUME BridgeInv, ReadCommand PROVE BridgeInv'
  OBVIOUS
<1> DEFINE x == Head(stdin.lines)
           t == Tail(stdin.lines)
           r == Replies(x)
           d == sidecar.stopping \/ x = "close"
<1>2. /\ sidecar.process = "running" /\ stdin.lines # <<>>
      /\ stdin' = [stdin EXCEPT !.lines = t]
      /\ sidecar' = [sidecar EXCEPT
                        !.obeyed = Append(@, x),
                        !.fetching = @ \/ (x = "open" /\ sidecar.connected),
                        !.stopping = d, !.replies = r, !.main = MainAfter(r, d)]
      /\ bridge' = bridge /\ exit' = exit /\ socket' = socket /\ browser' = browser
      /\ pipe' = pipe
  BY <1>1 DEF ReadCommand, Running, OnlySidecar
<1>3. /\ sidecar \in Sidecars /\ stdin \in Stdins /\ pipe \in Seq(NativeFrames)
      /\ socket \in Sockets /\ Len(stdin.lines) <= StdinLimit /\ Len(pipe) <= PipeLimit
      /\ stdin.lines \in Seq(CommandTypes) /\ sidecar.obeyed \in Seq(CommandTypes)
  BY <1>1, InvTypes DEF BridgeInv, InvAt, TypesAt, OtherTypes
<1>4. /\ x \in CommandTypes /\ t \in Seq(CommandTypes) /\ stdin.lines = <<x>> \o t
      /\ Len(t) = Len(stdin.lines) - 1 /\ <<x>> \in Seq(CommandTypes)
  BY <1>2, <1>3, HeadFirst, ListOfOne
<1>5. /\ r \in Seq(NativeFrames) /\ r \in Seq(Own(socket.session)) /\ ObjectsOf(r) = <<>>
      /\ ~sidecar.connected /\ ~sidecar.fetching /\ x # "close" => r = <<>>
  BY <1>3, <1>4, RepliesType
<1>6. d \in BOOLEAN /\ (d <=> sidecar.stopping \/ x = "close")
  BY <1>3 DEF Sidecars
<1> HIDE DEF x, t, r, d
<1>7. stdin' \in Stdins /\ stdin'.lines = t /\ stdin'.ended = stdin.ended
  BY <1>2, <1>3, <1>4 DEF Stdins
<1>8. Len(stdin'.lines) < StdinLimit
  <2>1. Len(stdin.lines) \in Nat /\ StdinLimit \in Nat
    BY <1>3, LenProperties, LimitsAssumption
  <2>2. Len(t) < StdinLimit
    BY <1>3, <1>4, <2>1
  <2>3. QED
    BY <1>7, <2>2
<1>9. Append(sidecar.obeyed, x) = sidecar.obeyed \o <<x>> /\ sidecar.obeyed \o <<x>> \in Seq(CommandTypes)
  BY <1>3, <1>4, AppendIsConcat, CommandsConcat
<1>10. /\ sidecar' \in Sidecars /\ sidecar'.process = "running"
       /\ sidecar'.connected = sidecar.connected
       /\ sidecar'.fetching = (sidecar.fetching \/ (x = "open" /\ sidecar.connected))
       /\ sidecar'.stopping = d
       /\ sidecar'.replies = r /\ sidecar'.callback = sidecar.callback
       /\ sidecar'.produced = sidecar.produced /\ sidecar'.obeyed = sidecar.obeyed \o <<x>>
  <2>1. MainAfter(r, d) \in {"loop", "draining"}
    BY DEF MainAfter
  <2>2. (sidecar.fetching \/ (x = "open" /\ sidecar.connected)) \in BOOLEAN
    BY <1>3 DEF Sidecars
  <2>3. QED
    BY <1>2, <1>3, <1>5, <1>6, <1>9, <2>1, <2>2 DEF Sidecars
<1>11. ObjectsAt(bridge, socket, pipe)'
  BY <1>1, <1>2, <1>10 DEF BridgeInv, InvAt, ObjectsAt, Along, Alive
<1>12. CommandsAt(bridge, socket)'
  <2> DEFINE o == sidecar.obeyed
             y == <<x>>
  <2>1. o \in Seq(CommandTypes) /\ y \in Seq(CommandTypes) /\ t \in Seq(CommandTypes)
    BY <1>3, <1>4
  <2>2. sidecar'.obeyed = o \o y /\ stdin.lines = y \o t
    BY <1>4, <1>10
  <2> HIDE DEF o, y
  <2>3. (o \o y) \o t = o \o (y \o t)
    <3>1. Cat(Cat(o, y), t) = Cat(o, Cat(y, t))
      BY <2>1, CatCommands
    <3>2. QED
      BY <3>1 DEF Cat
  <2>4. Reaching(bridge, socket)' = Reaching(bridge, socket)
    BY <1>2, <1>7, <2>2, <2>3 DEF Reaching, o
  <2>5. CommandsAt(bridge, socket)
    BY <1>1 DEF BridgeInv, InvAt
  <2>6. QED
    BY <1>2, <1>7, <2>4, <2>5 DEF CommandsAt, Alive
<1>13. SessionAt(bridge, socket, pipe)'
  BY <1>1, <1>2, <1>5, <1>10 DEF BridgeInv, InvAt, SessionAt
<1>14. SidecarAt(bridge, socket, pipe)'
  <2>1. SidecarAt(bridge, socket, pipe)
    BY <1>1 DEF BridgeInv, InvAt
  <2>2. ~(Len(stdin'.lines) = StdinLimit)
    BY <1>7, <1>8, <1>4, <1>3, LenProperties, LimitsAssumption
  <2>3. sidecar'.fetching => sidecar'.connected
    BY <1>10, <2>1 DEF SidecarAt
  <2>4. ~sidecar'.connected /\ ~sidecar'.stopping =>
           pipe = <<>> /\ sidecar.callback = <<>> /\ r = <<>>
    BY <1>5, <1>6, <1>10, <2>1 DEF SidecarAt
  <2>5. ~bridge.native => FALSE
    BY <1>2, <2>1 DEF SidecarAt
  <2>6. Len(sidecar'.callback) <= 1
    BY <1>10, <2>1 DEF SidecarAt
  <2>7. QED
    BY <1>2, <1>5, <1>10, <2>2, <2>3, <2>4, <2>5, <2>6 DEF SidecarAt
<1>15. FirstAt(bridge, socket, pipe)'
  BY <1>1, <1>2, <1>10 DEF BridgeInv, InvAt, FirstAt
<1>16. Len(stdin'.lines) <= StdinLimit
  <2>1. Len(stdin.lines) \in Nat
    BY <1>3, LenProperties
  <2>2. Len(t) <= StdinLimit
    BY <1>3, <1>4, <2>1, LimitsAssumption
  <2>3. QED
    BY <1>7, <2>2
<1>17. QED
  BY <1>1, <1>2, <1>3, <1>7, <1>10, <1>11, <1>12, <1>13, <1>14, <1>15, <1>16, SidecarMoves

(* The input ended.                                                        *)
LEMMA EndOfInputKeeps == BridgeInv /\ EndOfInput => BridgeInv'
<1>1. SUFFICES ASSUME BridgeInv, EndOfInput PROVE BridgeInv'
  OBVIOUS
<1>2. /\ sidecar' = [sidecar EXCEPT !.main = "draining", !.stopping = TRUE]
      /\ bridge' = bridge /\ exit' = exit /\ socket' = socket /\ browser' = browser
      /\ stdin' = stdin /\ pipe' = pipe
  BY <1>1 DEF EndOfInput, OnlySidecar
<1>3. /\ sidecar \in Sidecars /\ stdin \in Stdins /\ pipe \in Seq(NativeFrames)
      /\ Len(stdin.lines) <= StdinLimit /\ Len(pipe) <= PipeLimit
  BY <1>1, InvTypes DEF BridgeInv, InvAt, TypesAt, OtherTypes
<1>4. /\ sidecar' \in Sidecars /\ sidecar'.process = sidecar.process
      /\ sidecar'.connected = sidecar.connected
      /\ sidecar'.fetching = sidecar.fetching /\ sidecar'.stopping
      /\ sidecar'.replies = sidecar.replies /\ sidecar'.callback = sidecar.callback
      /\ sidecar'.produced = sidecar.produced /\ sidecar'.obeyed = sidecar.obeyed
  BY <1>2, <1>3 DEF Sidecars
<1>5. ObjectsAt(bridge, socket, pipe)'
  BY <1>1, <1>2, <1>4 DEF BridgeInv, InvAt, ObjectsAt, Along, Alive
<1>6. CommandsAt(bridge, socket)'
  BY <1>1, <1>2, <1>4 DEF BridgeInv, InvAt, CommandsAt, Reaching, Alive
<1>7. SessionAt(bridge, socket, pipe)' /\ SidecarAt(bridge, socket, pipe)'
  BY <1>1, <1>2, <1>4 DEF BridgeInv, InvAt, SessionAt, SidecarAt
<1>8. FirstAt(bridge, socket, pipe)'
  BY <1>1, <1>2, <1>4 DEF BridgeInv, InvAt, FirstAt
<1>9. QED
  BY <1>1, <1>2, <1>3, <1>4, <1>5, <1>6, <1>7, <1>8, SidecarMoves

(* The sidecar exits, wherever it is.                                      *)
LEMMA NativeExitKeeps == BridgeInv /\ NativeExit => BridgeInv'
<1>1. SUFFICES ASSUME BridgeInv, NativeExit PROVE BridgeInv'
  OBVIOUS
<1>2. /\ sidecar.process = "running"
      /\ sidecar' = [sidecar EXCEPT !.process = "exited", !.replies = <<>>, !.callback = <<>>]
      /\ bridge' = [bridge EXCEPT !.paused = FALSE]
      /\ exit' = exit /\ socket' = socket /\ browser' = browser
      /\ stdin' = stdin /\ pipe' = pipe
  BY <1>1 DEF NativeExit, Running
<1>3. bridge \in Bridges /\ sidecar \in Sidecars
  BY <1>1, InvTypes
<1>4. /\ bridge' \in Bridges /\ bridge'.nativeBytes = bridge.nativeBytes
      /\ bridge'.native = bridge.native
      /\ bridge'.gracefulClosing = bridge.gracefulClosing
      /\ bridge'.auditComplete = bridge.auditComplete
      /\ bridge'.nativeInputBlocked = bridge.nativeInputBlocked
      /\ bridge'.nativeCommands = bridge.nativeCommands
      /\ bridge'.outstandingObjects = bridge.outstandingObjects
  BY <1>2, <1>3 DEF Bridges
<1>5. /\ sidecar' \in Sidecars /\ sidecar'.process = "exited"
      /\ sidecar'.connected = sidecar.connected /\ sidecar'.fetching = sidecar.fetching
      /\ sidecar'.stopping = sidecar.stopping /\ sidecar'.replies = <<>>
      /\ sidecar'.callback = <<>> /\ sidecar'.produced = sidecar.produced
      /\ sidecar'.obeyed = sidecar.obeyed
  BY <1>2, <1>3, EmptySeq DEF Sidecars
<1>6. ObjectsOf(<<>>) = <<>> /\ <<>> \in Seq(Own(socket.session)) /\ Len(<<>>) <= 1
  BY ObjectsOfNone, OwnBasics
<1>7. TypesAt(bridge, socket, pipe)' /\ OtherTypes'
  BY <1>1, <1>2, <1>4, <1>5 DEF BridgeInv, InvAt, TypesAt, OtherTypes
<1>8. WindowAt(bridge, socket)' /\ CodeAt(bridge, socket)'
  BY <1>1, <1>2, <1>4 DEF BridgeInv, InvAt, WindowAt, Load, CodeAt, Alive
<1>9. ObjectsAt(bridge, socket, pipe)'
  BY <1>1, <1>2, <1>4, <1>5 DEF BridgeInv, InvAt, ObjectsAt, Along, Alive
<1>10. CommandsAt(bridge, socket)'
  BY <1>1, <1>2, <1>4, <1>5 DEF BridgeInv, InvAt, CommandsAt, Reaching, Alive
<1>11. SessionAt(bridge, socket, pipe)'
  BY <1>1, <1>2, <1>4, <1>5, <1>6 DEF BridgeInv, InvAt, SessionAt
<1>12. SidecarAt(bridge, socket, pipe)'
  <2>1. SidecarAt(bridge, socket, pipe)
    BY <1>1 DEF BridgeInv, InvAt
  <2>2. ~bridge.native => FALSE
    BY <1>2, <2>1 DEF SidecarAt
  <2>3. QED
    BY <1>2, <1>4, <1>5, <1>6, <2>1, <2>2 DEF SidecarAt
<1>13. FirstAt(bridge, socket, pipe)'
  BY <1>1, <1>2, <1>4, <1>5, <1>6 DEF BridgeInv, InvAt, FirstAt
<1>14. QED
  BY <1>7, <1>8, <1>9, <1>10, <1>11, <1>12, <1>13 DEF BridgeInv, InvAt

-----------------------------------------------------------------------------
(* The steps of the browser.                                               *)

(* A step of the browser leaves the bridge and the sidecar alone.          *)
LEMMA BrowserMoves ==
    ASSUME BridgeInv, bridge' = bridge, exit' = exit, sidecar' = sidecar, stdin' = stdin,
           pipe' = pipe, socket' \in Sockets, browser' \in Browsers,
           socket'.client = socket.client, socket'.session = socket.session,
           Len(socket'.toBrowser) <= Len(socket.toBrowser),
           browser'.received \o socket'.toBrowser = browser.received \o socket.toBrowser,
           socket'.client = "none" => socket'.toBrowser = <<>>,
           socket'.client # "none" => Load(socket)' = Load(socket),
           "bye" \in RangeOf(socket'.fromBrowser) => "bye" \in RangeOf(browser'.asked),
           "bye" \in RangeOf(browser.asked) => "bye" \in RangeOf(browser'.asked),
           CommandsAt(bridge, socket)',
           LazyNative => /\ browser'.received \in Seq(Own(socket.session))
                         /\ socket'.toBrowser \in Seq(Own(socket.session)),
           browser.state # "none"
    PROVE  BridgeInv'
<1>1. TypesAt(bridge, socket, pipe)' /\ OtherTypes'
  <2>1. Len(socket'.toBrowser) \in Nat /\ Len(socket.toBrowser) \in Nat /\ BufferLimit \in Nat
    <3>1. socket'.toBrowser \in Seq(Frames) /\ socket.toBrowser \in Seq(Frames)
      BY InvTypes DEF Sockets
    <3>2. QED
      BY <3>1, LenProperties, LimitsAssumption
  <2>2. Len(socket.toBrowser) <= BufferLimit + (IF socket.client = "open" THEN 0 ELSE 1)
    BY DEF BridgeInv, InvAt, TypesAt
  <2>3. Len(socket'.toBrowser) <= BufferLimit + (IF socket'.client = "open" THEN 0 ELSE 1)
    BY <2>1, <2>2
  <2>4. QED
    BY <2>3 DEF BridgeInv, InvAt, TypesAt, OtherTypes
<1>2. WindowAt(bridge, socket)'
  BY DEF BridgeInv, InvAt, WindowAt, Alive
<1>3. CodeAt(bridge, socket)'
  <2>1. CodeAt(bridge, socket)
    BY DEF BridgeInv, InvAt
  <2>2. AuditPrecedes(browser.received \o socket.toBrowser, browser'.asked)
    BY <2>1, AuditPrecedesMore DEF CodeAt
  <2>3. QED
    BY <2>1, <2>2 DEF CodeAt
<1>4. ObjectsAt(bridge, socket, pipe)'
  BY DEF BridgeInv, InvAt, ObjectsAt, Along, Alive
<1>5. SessionAt(bridge, socket, pipe)'
  BY DEF BridgeInv, InvAt, SessionAt
<1>6. SidecarAt(bridge, socket, pipe)'
  BY DEF BridgeInv, InvAt, SidecarAt
<1>7. FirstAt(bridge, socket, pipe)'
  BY DEF BridgeInv, InvAt, FirstAt
<1>8. QED
  BY <1>1, <1>2, <1>3, <1>4, <1>5, <1>6, <1>7 DEF BridgeInv, InvAt

(* A question asked is a question on its way.                              *)
LEMMA AskedMore ==
    ASSUME NEW p \in Seq(CommandTypes), NEW f \in Seq(Messages), NEW a \in Seq(MessageTypes),
           NEW type \in MessageTypes
    PROVE  /\ p \o Commands(f) = Commands(a) =>
                 p \o Commands(Append(f, type)) = Commands(Append(a, type))
           /\ Essential(p \o Commands(f)) = Essential(a) =>
                 Essential(p \o Commands(Append(f, type))) = Essential(Append(a, type))
<1> DEFINE x == <<type>>
           c == Commands(f)
           E == CommandTypes \ {"priorities"}
<1>1. /\ type \in CommandTypes => Commands(Append(f, type)) = Append(c, type)
      /\ type \notin CommandTypes => Commands(Append(f, type)) = c
      /\ c \in Seq(CommandTypes)
  BY MessageSent, CommandsType DEF Messages
<1>2. /\ type \in CommandTypes => Commands(Append(a, type)) = Append(Commands(a), type)
      /\ type \notin CommandTypes => Commands(Append(a, type)) = Commands(a)
      /\ Commands(a) \in Seq(CommandTypes)
  BY OnlyAppend, CommandsType DEF Commands
<1> HIDE DEF c
<1>3. CASE type \in CommandTypes
  <2>1. x \in Seq(CommandTypes) /\ Append(c, type) = c \o x
        /\ Append(Commands(a), type) = Commands(a) \o x /\ Append(a, type) = a \o x
        /\ x \in Seq(MessageTypes)
    BY <1>1, <1>2, <1>3, ListOfOne, AppendIsConcat
  <2> HIDE DEF x
  <2>9. (p \o c) \o x = p \o (c \o x)
    <3>1. Cat(Cat(p, c), x) = Cat(p, Cat(c, x))
      BY <1>1, <2>1, CatCommands
    <3>2. QED
      BY <3>1 DEF Cat
  <2>2. (p \o c) \o x = p \o (c \o x) /\ p \o c \in Seq(CommandTypes)
    BY <1>1, <2>9, CommandsConcat
  <2>3. Essential((p \o c) \o x) = Essential(p \o c) \o Essential(x)
    BY <2>1, <2>2, EssentialConcat
  <2>4. Essential(a \o x) = Essential(a) \o Essential(x)
    BY <2>1, OnlyConcat DEF Essential
  <2>5. Commands(Append(f, type)) = c \o x /\ Commands(Append(a, type)) = Commands(a) \o x
    BY <1>1, <1>2, <1>3, <2>1
  <2>6. p \o c = Commands(a) => p \o Commands(Append(f, type)) = Commands(Append(a, type))
    BY <2>2, <2>5
  <2>7. Essential(p \o c) = Essential(a) =>
           Essential(p \o Commands(Append(f, type))) = Essential(Append(a, type))
    BY <2>1, <2>2, <2>3, <2>4, <2>5
  <2>8. QED
    BY <2>6, <2>7 DEF c
<1>4. CASE type \notin CommandTypes
  <2>1. type \notin E
    BY <1>4
  <2> HIDE DEF E
  <2>2. Only(Append(a, type), E) = Only(a, E)
    BY <2>1, OnlyAppend
  <2>3. Essential(Append(a, type)) = Essential(a)
    BY <2>2 DEF Essential, E
  <2>4. QED
    BY <1>1, <1>2, <1>4, <2>3 DEF c
<1>5. QED
  BY <1>3, <1>4

(* The browser asks.                                                       *)
LEMMA AskKeeps ==
    ASSUME NEW type \in MessageTypes, BridgeInv, Ask(type)
    PROVE  BridgeInv'
<1> DEFINE f == socket.fromBrowser
           a == browser.asked
<1>1. /\ browser.state = "open"
      /\ socket' = [socket EXCEPT !.fromBrowser = Append(f, type)]
      /\ browser' = [browser EXCEPT !.asked = Append(a, type)]
      /\ bridge' = bridge /\ exit' = exit /\ sidecar' = sidecar /\ stdin' = stdin
      /\ pipe' = pipe
  BY DEF Ask, MayAsk, Sends, OnlyBrowser
<1>2. /\ socket \in Sockets /\ browser \in Browsers /\ f \in Seq(Messages)
      /\ a \in Seq(MessageTypes) /\ bridge.nativeCommands \in Seq(CommandTypes)
      /\ stdin.lines \in Seq(CommandTypes) /\ sidecar.obeyed \in Seq(CommandTypes)
      /\ socket.toBrowser \in Seq(Frames)
  BY InvTypes DEF Browsers
<1>3. type \in Messages /\ type # "object-ack"
  BY DEF Messages, MessageTypes, CommandTypes
<1>4. /\ Append(f, type) \in Seq(Messages) /\ Append(a, type) \in Seq(MessageTypes)
      /\ AcksIn(Append(f, type)) = AcksIn(f)
      /\ "bye" \in RangeOf(Append(f, type)) => type = "bye" \/ "bye" \in RangeOf(f)
  BY <1>2, <1>3, MessageSent, AppendProperties
<1> HIDE DEF f, a
<1>5. /\ socket' \in Sockets /\ socket'.client = socket.client
      /\ socket'.session = socket.session /\ socket'.toBrowser = socket.toBrowser
      /\ socket'.fromBrowser = Append(f, type)
  BY <1>1, <1>2, <1>4 DEF Sockets, Messages
<1>6. /\ browser' \in Browsers /\ browser'.state = "open"
      /\ browser'.asked = Append(a, type) /\ browser'.held = browser.held
      /\ browser'.received = browser.received
  BY <1>1, <1>2, <1>4 DEF Browsers
<1>7. /\ "bye" \in RangeOf(a) => "bye" \in RangeOf(Append(a, type))
      /\ type = "bye" => "bye" \in RangeOf(Append(a, type))
  <2>1. /\ Len(a) \in Nat /\ Len(Append(a, type)) = Len(a) + 1
        /\ DOMAIN a = 1..Len(a) /\ DOMAIN Append(a, type) = 1..(Len(a) + 1)
        /\ \A i \in 1..Len(a) : Append(a, type)[i] = a[i]
        /\ Append(a, type)[Len(a) + 1] = type
    BY <1>2, <1>4, LenProperties, AppendProperties
  <2>2. QED
    BY <2>1 DEF RangeOf
<1>8. "bye" \in RangeOf(f) => "bye" \in RangeOf(a)
  BY DEF BridgeInv, InvAt, CodeAt, f, a
<1>9. CommandsAt(bridge, socket)'
  <2> DEFINE p == (sidecar.obeyed \o stdin.lines) \o bridge.nativeCommands
  <2>1. p \in Seq(CommandTypes)
    BY <1>2, ConcatProperties
  <2>2. Reaching(bridge, socket) = p \o Commands(f)
    BY DEF Reaching, f
  <2>3. Reaching(bridge, socket)' = p \o Commands(Append(f, type))
    BY <1>1, <1>5 DEF Reaching
  <2> HIDE DEF p
  <2>4. /\ p \o Commands(f) = Commands(a) =>
              p \o Commands(Append(f, type)) = Commands(Append(a, type))
        /\ Essential(p \o Commands(f)) = Essential(a) =>
              Essential(p \o Commands(Append(f, type))) = Essential(Append(a, type))
    BY <1>2, <2>1, AskedMore DEF f, a
  <2>5. CommandsAt(bridge, socket)
    BY DEF BridgeInv, InvAt
  <2>6. QED
    BY <1>1, <1>5, <1>6, <2>2, <2>3, <2>4, <2>5 DEF CommandsAt, Alive, a
<1>10. /\ Len(socket'.toBrowser) <= Len(socket.toBrowser)
       /\ browser'.received \o socket'.toBrowser = browser.received \o socket.toBrowser
       /\ Load(socket)' = Load(socket)
  <2>1. Len(socket.toBrowser) <= Len(socket.toBrowser)
    BY <1>2, LenProperties
  <2>2. QED
    BY <1>4, <1>5, <1>6, <2>1 DEF Load, f
<1>11. socket'.client = "none" => socket'.toBrowser = <<>>
  BY <1>5 DEF BridgeInv, InvAt, WindowAt
<1>12. LazyNative => /\ browser'.received \in Seq(Own(socket.session))
                     /\ socket'.toBrowser \in Seq(Own(socket.session))
  BY <1>5, <1>6 DEF BridgeInv, InvAt, SessionAt
<1>13. /\ "bye" \in RangeOf(socket'.fromBrowser) => "bye" \in RangeOf(browser'.asked)
       /\ "bye" \in RangeOf(browser.asked) => "bye" \in RangeOf(browser'.asked)
  BY <1>4, <1>5, <1>6, <1>7, <1>8 DEF a
<1>14. QED
  BY <1>1, <1>5, <1>6, <1>9, <1>10, <1>11, <1>12, <1>13, BrowserMoves

(* The browser acknowledges.                                               *)
LEMMA AcknowledgeKeeps == BridgeInv /\ Acknowledge => BridgeInv'
<1>1. SUFFICES ASSUME BridgeInv, Acknowledge PROVE BridgeInv'
  OBVIOUS
<1> DEFINE f == socket.fromBrowser
           m == Append(f, "object-ack")
<1>2. /\ browser.state = "open" /\ browser.held > 0
      /\ socket' = [socket EXCEPT !.fromBrowser = m]
      /\ browser' = [browser EXCEPT !.held = @ - 1]
      /\ bridge' = bridge /\ exit' = exit /\ sidecar' = sidecar /\ stdin' = stdin
      /\ pipe' = pipe
  BY <1>1 DEF Acknowledge, Sends, OnlyBrowser
<1>3. /\ socket \in Sockets /\ browser \in Browsers /\ f \in Seq(Messages)
      /\ socket.toBrowser \in Seq(Frames) /\ browser.held \in 0..Window /\ Window \in Nat
  BY <1>1, InvTypes, LimitsAssumption DEF Browsers
<1>4. /\ m \in Seq(Messages) /\ AcksIn(m) = AcksIn(f) + 1 /\ Commands(m) = Commands(f)
      /\ "bye" \in RangeOf(m) => "bye" \in RangeOf(f)
      /\ AcksIn(f) \in Nat
  BY <1>3, MessageSent, AcksType DEF Messages, MessageTypes, CommandTypes
<1> HIDE DEF f, m
<1>5. /\ socket' \in Sockets /\ socket'.client = socket.client
      /\ socket'.session = socket.session /\ socket'.toBrowser = socket.toBrowser
      /\ socket'.fromBrowser = m
  BY <1>2, <1>3, <1>4 DEF Sockets, Messages
<1>6. browser.held - 1 \in 0..Window
  BY <1>2, <1>3
<1>7. /\ browser' \in Browsers /\ browser'.state = "open"
      /\ browser'.asked = browser.asked /\ browser'.held = browser.held - 1
      /\ browser'.received = browser.received
  BY <1>2, <1>3, <1>6 DEF Browsers
<1>8. Load(socket)' = Load(socket)
  <2> DEFINE n == NumObjects(socket.toBrowser)
             h == browser.held
             k == AcksIn(f)
  <2>1. n \in Nat /\ h \in Nat /\ k \in Nat
    BY <1>3, <1>4, NumObjectsType
  <2>2. Load(socket) = (n + h) + k
    BY DEF Load, f
  <2>3. Load(socket)' = (n + (h - 1)) + (k + 1)
    BY <1>4, <1>5, <1>7 DEF Load
  <2> HIDE DEF n, h, k
  <2>4. QED
    BY <2>1, <2>2, <2>3
<1>9. CommandsAt(bridge, socket)'
  BY <1>1, <1>2, <1>4, <1>5, <1>7 DEF BridgeInv, InvAt, CommandsAt, Reaching, Alive, f
<1>10. /\ Len(socket'.toBrowser) <= Len(socket.toBrowser)
       /\ browser'.received \o socket'.toBrowser = browser.received \o socket.toBrowser
  <2>1. Len(socket.toBrowser) <= Len(socket.toBrowser)
    BY <1>3, LenProperties
  <2>2. QED
    BY <1>5, <1>7, <2>1
<1>11. socket'.client = "none" => socket'.toBrowser = <<>>
  BY <1>1, <1>5 DEF BridgeInv, InvAt, WindowAt
<1>12. LazyNative => /\ browser'.received \in Seq(Own(socket.session))
                     /\ socket'.toBrowser \in Seq(Own(socket.session))
  BY <1>1, <1>5, <1>7 DEF BridgeInv, InvAt, SessionAt
<1>13. /\ "bye" \in RangeOf(socket'.fromBrowser) => "bye" \in RangeOf(browser'.asked)
       /\ "bye" \in RangeOf(browser.asked) => "bye" \in RangeOf(browser'.asked)
  BY <1>1, <1>4, <1>5, <1>7 DEF BridgeInv, InvAt, CodeAt, f
<1>14. QED
  BY <1>1, <1>2, <1>5, <1>7, <1>8, <1>9, <1>10, <1>11, <1>12, <1>13, BrowserMoves

(* The browser reads a frame, and holds it if it is an object.             *)
LEMMA ReceiveKeeps == BridgeInv /\ Receive => BridgeInv'
<1>1. SUFFICES ASSUME BridgeInv, Receive PROVE BridgeInv'
  OBVIOUS
<1> DEFINE r == browser.received
           h == Head(socket.toBrowser)
           t == Tail(socket.toBrowser)
           x == <<h>>
           j == IF IsObject(h) THEN browser.held + 1 ELSE browser.held
<1>2. /\ browser.state = "open" /\ socket.toBrowser # <<>>
      /\ socket' = [socket EXCEPT !.toBrowser = t]
      /\ browser' = [browser EXCEPT !.received = Append(r, h), !.held = j,
                                    !.state = IF h.type = "close" THEN "left" ELSE "open"]
      /\ bridge' = bridge /\ exit' = exit /\ sidecar' = sidecar /\ stdin' = stdin
      /\ pipe' = pipe
  BY <1>1 DEF Receive, OnlyBrowser
<1>3. /\ socket \in Sockets /\ browser \in Browsers /\ r \in Seq(Frames)
      /\ socket.toBrowser \in Seq(Frames) /\ browser.held \in 0..Window /\ Window \in Nat
      /\ socket.fromBrowser \in Seq(Messages)
  BY <1>1, InvTypes, LimitsAssumption DEF Browsers
<1>4. /\ h \in Frames /\ t \in Seq(Frames) /\ socket.toBrowser = x \o t
      /\ Len(t) = Len(socket.toBrowser) - 1 /\ x \in Seq(Frames)
  BY <1>2, <1>3, HeadFirst, ListOfOne
<1>5. /\ NumObjects(x) = (IF IsObject(h) THEN 1 ELSE 0)
      /\ NumObjects(x \o t) = NumObjects(x) + NumObjects(t)
      /\ NumObjects(t) \in Nat /\ AcksIn(socket.fromBrowser) \in Nat
  BY <1>3, <1>4, ObjectsOfOne, NumObjectsConcat, NumObjectsType, AcksType DEF NumObjects, IsObject
<1>6. Append(r, h) = r \o x /\ r \o x \in Seq(Frames)
  BY <1>3, <1>4, AppendIsConcat, FramesConcat
<1>7. socket.client # "none" /\ Load(socket) <= Window
  BY <1>1, <1>2 DEF BridgeInv, InvAt, WindowAt
<1> HIDE DEF x
<1>8. j \in 0..Window /\ ((NumObjects(t) + j) + AcksIn(socket.fromBrowser)) = Load(socket)
  <2> DEFINE n == NumObjects(t)
             o == NumObjects(x)
             k == AcksIn(socket.fromBrowser)
             d == browser.held
  <2>1. Load(socket) = ((o + n) + d) + k
    BY <1>4, <1>5 DEF Load
  <2>2. n \in Nat /\ k \in Nat /\ d \in Nat /\ o = (IF IsObject(h) THEN 1 ELSE 0)
        /\ j = (IF IsObject(h) THEN d + 1 ELSE d)
    BY <1>3, <1>5
  <2> HIDE DEF n, o, k, d, j
  <2>3. j = d + o /\ o \in Nat
    BY <2>2
  <2>4. /\ ((n + j) + k) = Load(socket) /\ Load(socket) \in Nat
        /\ j <= Load(socket) /\ j \in Nat
    BY <2>1, <2>2, <2>3
  <2>5. j \in 0..Window
    BY <1>3, <1>7, <2>4
  <2>6. QED
    BY <2>4, <2>5 DEF n, k
<1> HIDE DEF r, h, t, j
<1>9. /\ socket' \in Sockets /\ socket'.client = socket.client
      /\ socket'.session = socket.session /\ socket'.toBrowser = t
      /\ socket'.fromBrowser = socket.fromBrowser
  BY <1>2, <1>3, <1>4 DEF Sockets
<1>10. /\ browser' \in Browsers /\ browser'.asked = browser.asked /\ browser'.held = j
       /\ browser'.received = r \o x
  BY <1>2, <1>3, <1>6, <1>8 DEF Browsers
<1>11. Load(socket)' = Load(socket)
  BY <1>8, <1>9, <1>10 DEF Load
<1>12. CommandsAt(bridge, socket)'
  BY <1>1, <1>2, <1>9, <1>10 DEF BridgeInv, InvAt, CommandsAt, Reaching, Alive
<1>13. browser'.received \o socket'.toBrowser = browser.received \o socket.toBrowser
  <2>1. x \in Seq(Frames) /\ t \in Seq(Frames) /\ r \in Seq(Frames)
    BY <1>3, <1>4
  <2>2. (r \o x) \o t = r \o (x \o t)
    <3>1. Cat(Cat(r, x), t) = Cat(r, Cat(x, t))
      BY <2>1, CatFrames
    <3>2. QED
      BY <3>1 DEF Cat
  <2>3. QED
    BY <1>4, <1>9, <1>10, <2>2 DEF r
<1>14. Len(socket'.toBrowser) <= Len(socket.toBrowser)
  <2>1. Len(socket.toBrowser) \in Nat
    BY <1>3, LenProperties
  <2>2. Len(t) <= Len(socket.toBrowser)
    BY <1>4, <2>1
  <2>3. QED
    BY <1>9, <2>2
<1>15. socket'.client # "none"
  BY <1>7, <1>9
<1>16. LazyNative => /\ browser'.received \in Seq(Own(socket.session))
                     /\ socket'.toBrowser \in Seq(Own(socket.session))
  <2>1. LazyNative => r \in Seq(Own(socket.session)) /\ x \o t \in Seq(Own(socket.session))
    BY <1>1, <1>4 DEF BridgeInv, InvAt, SessionAt, r
  <2>2. LazyNative => /\ x \in Seq(Own(socket.session)) /\ t \in Seq(Own(socket.session))
    BY <1>4, <2>1, OwnConcat
  <2>3. LazyNative => r \o x \in Seq(Own(socket.session))
    BY <1>3, <1>4, <2>1, <2>2, OwnConcat
  <2>4. QED
    BY <1>9, <1>10, <2>2, <2>3
<1>17. /\ "bye" \in RangeOf(socket'.fromBrowser) => "bye" \in RangeOf(browser'.asked)
       /\ "bye" \in RangeOf(browser.asked) => "bye" \in RangeOf(browser'.asked)
  BY <1>1, <1>9, <1>10 DEF BridgeInv, InvAt, CodeAt
<1>18. QED
  BY <1>1, <1>2, <1>9, <1>10, <1>11, <1>12, <1>13, <1>14, <1>15, <1>16, <1>17, BrowserMoves

(* The browser leaves.                                                     *)
LEMMA LeaveKeeps == BridgeInv /\ Leave => BridgeInv'
<1>1. SUFFICES ASSUME BridgeInv, Leave PROVE BridgeInv'
  OBVIOUS
<1>2. /\ browser.state = "open" /\ browser' = Left(browser) /\ socket' = socket
      /\ bridge' = bridge /\ exit' = exit /\ sidecar' = sidecar /\ stdin' = stdin
      /\ pipe' = pipe
  BY <1>1 DEF Leave, OnlyBrowser
<1>3. socket \in Sockets /\ browser \in Browsers /\ socket.toBrowser \in Seq(Frames)
  BY <1>1, InvTypes
<1>4. /\ browser' \in Browsers /\ browser'.received = browser.received
      /\ browser'.asked = browser.asked /\ browser'.held = browser.held
  BY <1>2, <1>3 DEF Left, Browsers
<1>5. Len(socket.toBrowser) <= Len(socket.toBrowser)
  BY <1>3, LenProperties
<1>6. Load(socket)' = Load(socket)
  BY <1>2, <1>4 DEF Load
<1>7. CommandsAt(bridge, socket)'
  BY <1>1, <1>2, <1>4 DEF BridgeInv, InvAt, CommandsAt, Reaching, Alive
<1>8. socket'.client = "none" => socket'.toBrowser = <<>>
  BY <1>1, <1>2 DEF BridgeInv, InvAt, WindowAt
<1>9. LazyNative => /\ browser'.received \in Seq(Own(socket.session))
                    /\ socket'.toBrowser \in Seq(Own(socket.session))
  BY <1>1, <1>2, <1>4 DEF BridgeInv, InvAt, SessionAt
<1>10. "bye" \in RangeOf(socket.fromBrowser) => "bye" \in RangeOf(browser.asked)
  BY <1>1 DEF BridgeInv, InvAt, CodeAt
<1>11. QED
  BY <1>1, <1>2, <1>3, <1>4, <1>5, <1>6, <1>7, <1>8, <1>9, <1>10, BrowserMoves

-----------------------------------------------------------------------------
(* A new session, and the start.                                           *)

(* What Upgrade leaves in the bridge and the sidecar: nothing of the       *)
(* session has gone through either.                                        *)
Untouched ==
    /\ bridge \in Bridges /\ sidecar \in Sidecars /\ stdin \in Stdins
    /\ bridge.nativeCommands = <<>> /\ stdin.lines = <<>> /\ sidecar.obeyed = <<>>
    /\ ObjectsOf(bridge.nativeBytes \o pipe) = <<>> /\ ObjectsOf(sidecar.callback) = <<>>
    /\ sidecar.produced = 0
    /\ Persistent => ~bridge.auditComplete
    /\ LazyNative => /\ bridge.nativeBytes = <<>> /\ pipe = <<>>
                     /\ sidecar.callback = <<>> /\ sidecar.replies = <<>>

(* What holds of empty lists.                                              *)
LEMMA EmptyFacts ==
    /\ <<>> \o <<>> = <<>> /\ Len(<<>>) = 0 /\ RangeOf(<<>>) = {}
    /\ \A S : <<>> \in Seq(S)
    /\ NumObjects(<<>>) = 0 /\ AcksIn(<<>>) = 0 /\ Numbered(<<>>)
    /\ Commands(<<>>) = <<>> /\ Essential(<<>>) = <<>> /\ ObjectsOf(<<>>) = <<>>
    /\ \A asked : AuditPrecedes(<<>>, asked)
<1>1. <<>> \o <<>> = <<>> /\ Len(<<>>) = 0 /\ RangeOf(<<>>) = {}
  BY DEF RangeOf
<1>2. \A S : <<>> \in Seq(S)
  BY EmptySeq
<1>3. /\ Commands(<<>>) = <<>> /\ Essential(<<>>) = <<>> /\ ObjectsOf(<<>>) = <<>>
      /\ Only(<<>>, {"object-ack"}) = <<>>
  BY OnlyEmpty DEF Commands, Essential, ObjectsOf
<1>4. NumObjects(<<>>) = 0 /\ AcksIn(<<>>) = 0
  BY <1>1, <1>3 DEF NumObjects, AcksIn
<1>5. Numbered(<<>>)
  BY <1>3 DEF Numbered
<1>6. \A asked : AuditPrecedes(<<>>, asked)
  BY DEF AuditPrecedes
<1>7. QED
  BY <1>1, <1>2, <1>3, <1>4, <1>5, <1>6

(* No command and no object has been seen, and nothing is on its way.      *)
Begun ==
    /\ Untouched /\ pipe \in Seq(NativeFrames) /\ Len(pipe) <= PipeLimit /\ exit \in Exits
    /\ socket \in Sockets /\ browser \in Browsers
    /\ socket.toBrowser = <<>> /\ socket.fromBrowser = <<>> /\ browser.asked = <<>>
    /\ browser.held = 0 /\ browser.received = <<>>
MostParts ==
    /\ TypesAt(bridge, socket, pipe) /\ OtherTypes
    /\ WindowAt(bridge, socket) /\ CodeAt(bridge, socket)
    /\ ObjectsAt(bridge, socket, pipe) /\ CommandsAt(bridge, socket)
    /\ SessionAt(bridge, socket, pipe)

(* A session that has not begun has most of the parts.                     *)
LEMMA UntouchedParts == Begun => MostParts
<1> SUFFICES ASSUME Untouched, pipe \in Seq(NativeFrames), Len(pipe) <= PipeLimit, exit \in Exits,
                    socket \in Sockets, browser \in Browsers,
                    socket.toBrowser = <<>>, socket.fromBrowser = <<>>, browser.asked = <<>>,
                    browser.held = 0, browser.received = <<>>
             PROVE  MostParts
  BY DEF Begun
<1>1. TypesAt(bridge, socket, pipe) /\ OtherTypes
  <2>1. Len(socket.toBrowser) = 0 /\ Len(stdin.lines) = 0
    BY EmptyFacts DEF Untouched
  <2>2. Len(socket.toBrowser) <= BufferLimit + (IF socket.client = "open" THEN 0 ELSE 1)
        /\ Len(stdin.lines) <= StdinLimit
    BY <2>1, LimitsAssumption
  <2>3. QED
    BY <2>2 DEF TypesAt, OtherTypes, Untouched
<1>2. WindowAt(bridge, socket)
  <2>1. Load(socket) = (0 + 0) + 0
    BY EmptyFacts DEF Load
  <2>2. bridge.outstandingObjects \in 0..Window /\ Window \in Nat
    BY LimitsAssumption DEF Untouched, Bridges
  <2>3. Load(socket) <= Window /\ Load(socket) <= bridge.outstandingObjects
    BY <2>1, <2>2
  <2>4. QED
    BY <2>3 DEF WindowAt
<1>3. CodeAt(bridge, socket)
  BY EmptyFacts DEF CodeAt, Untouched
<1>4. ObjectsAt(bridge, socket, pipe)
  <2> DEFINE m == bridge.nativeBytes \o pipe
             c == sidecar.callback
  <2>1. m \in Seq(Frames) /\ c \in Seq(Frames) /\ ObjectsOf(m) = <<>> /\ ObjectsOf(c) = <<>>
    <3>1. /\ bridge.nativeBytes \in Seq(Frames) /\ c \in Seq(Frames) /\ pipe \in Seq(Frames)
      BY NativeListsAreLists DEF Untouched, Bridges, Sidecars
    <3>2. QED
      BY <3>1, FramesConcat DEF Untouched
  <2>2. Along(bridge, socket, pipe) = <<>> \o m
    BY EmptyFacts DEF Along
  <2> HIDE DEF m, c
  <2>3. <<>> \o m = m /\ m \o c \in Seq(Frames) /\ ObjectsOf(m \o c) = <<>>
    BY <2>1, FramesConcat, NothingAdded
  <2>4. Numbered(m) /\ Numbered(m \o c) /\ NumObjects(m \o c) = 0
    BY <2>1, <2>3, EmptyFacts DEF Numbered, NumObjects
  <2>5. Numbered(browser.received \o socket.toBrowser)
    BY EmptyFacts
  <2>6. sidecar.produced = 0
    BY DEF Untouched
  <2>7. QED
    BY <2>2, <2>3, <2>4, <2>5, <2>6 DEF ObjectsAt, c
<1>5. CommandsAt(bridge, socket)
  <2>1. Reaching(bridge, socket) = <<>>
    BY EmptyFacts DEF Reaching, Untouched
  <2>2. QED
    BY <2>1, EmptyFacts DEF CommandsAt
<1>6. SessionAt(bridge, socket, pipe)
  BY EmptyFacts DEF SessionAt, Untouched
<1>7. QED
  BY <1>1, <1>2, <1>3, <1>4, <1>5, <1>6 DEF MostParts

(* A new session: nothing of an earlier one is left.                       *)
LEMMA UpgradeKeeps == BridgeInv /\ Upgrade => BridgeInv'
<1>1. SUFFICES ASSUME BridgeInv, Upgrade PROVE BridgeInv'
  OBVIOUS
<1>2. /\ exit.server /\ socket.client = "none" /\ ~(LazyNative /\ bridge.native)
      /\ socket.session < MaxSessions
      /\ socket' = [client |-> "open", session |-> socket.session + 1,
                    toBrowser |-> <<>>, fromBrowser |-> <<>>]
      /\ browser' = [state |-> "open", asked |-> <<>>, held |-> 0, received |-> <<>>]
      /\ \/ LazyNative /\ bridge' = FreshBridge /\ sidecar' = FreshSidecar /\ stdin' = FreshStdin
         \/ ~LazyNative /\ bridge' = bridge /\ sidecar' = sidecar /\ stdin' = stdin
      /\ exit' = exit /\ pipe' = pipe
  BY <1>1 DEF Upgrade, Admits
<1>3. /\ bridge \in Bridges /\ sidecar \in Sidecars /\ stdin \in Stdins /\ exit \in Exits
      /\ pipe \in Seq(NativeFrames) /\ Len(pipe) <= PipeLimit
      /\ socket.session \in 0..MaxSessions
  BY <1>1, InvTypes DEF BridgeInv, InvAt, TypesAt, Sockets
<1>4. /\ socket.session + 1 \in 0..MaxSessions /\ socket.session + 1 # 0 /\ 0 \in 0..Window
  BY <1>2, <1>3, LimitsAssumption
<1>5. socket' \in Sockets /\ browser' \in Browsers
  BY <1>2, <1>4, EmptyFacts DEF Sockets, Browsers
<1>6. SidecarAt(bridge, socket, pipe) /\ FirstAt(bridge, socket, pipe)
  BY <1>1 DEF BridgeInv, InvAt
<1>7. Untouched' /\ SidecarAt(bridge, socket, pipe)'
  <2>1. CASE LazyNative /\ bridge' = FreshBridge /\ sidecar' = FreshSidecar /\ stdin' = FreshStdin
    <3>1. pipe' = <<>>
      BY <1>2, <1>6, <2>1 DEF SidecarAt
    <3>2. bridge' \in Bridges /\ sidecar' \in Sidecars /\ stdin' \in Stdins
      <4>1. bridge' \in Bridges
        BY <1>4, <2>1, EmptyFacts DEF FreshBridge, Bridges
      <4>2. sidecar' \in Sidecars
        <5>1. 0 \in 0..MaxObjects
          BY LimitsAssumption
        <5>2. QED
          BY <2>1, <5>1, EmptyFacts DEF FreshSidecar, Sidecars
      <4>3. stdin' \in Stdins
        BY <2>1, EmptyFacts DEF FreshStdin, Stdins
      <4>4. QED
        BY <4>1, <4>2, <4>3
    <3>3. /\ bridge'.nativeCommands = <<>> /\ bridge'.nativeBytes = <<>> /\ ~bridge'.auditComplete
          /\ bridge'.native
          /\ sidecar'.obeyed = <<>> /\ sidecar'.callback = <<>> /\ sidecar'.replies = <<>>
          /\ sidecar'.produced = 0 /\ ~sidecar'.fetching /\ sidecar'.process = "running"
          /\ stdin'.lines = <<>>
      BY <2>1 DEF FreshBridge, FreshSidecar, FreshStdin
    <3>4. Untouched'
      BY <3>1, <3>2, <3>3, EmptyFacts DEF Untouched
    <3>5. ~(Len(stdin'.lines) = StdinLimit)
      BY <3>3, EmptyFacts, LimitsAssumption
    <3>6. Len(sidecar'.callback) <= 1
      BY <3>3, EmptyFacts
    <3>7. SidecarAt(bridge, socket, pipe)'
      BY <3>1, <3>3, <3>5, <3>6, EmptyFacts DEF SidecarAt
    <3>8. QED
      BY <3>4, <3>7
  <2>2. CASE ~LazyNative /\ bridge' = bridge /\ sidecar' = sidecar /\ stdin' = stdin
    <3>1. ~Persistent /\ socket.session = 0
      BY <1>2, <1>6, <2>2, ModesAssumption DEF FirstAt
    <3>2. Untouched'
      BY <1>2, <1>3, <1>6, <2>2, <3>1 DEF FirstAt, Untouched
    <3>3. SidecarAt(bridge, socket, pipe)'
      BY <1>2, <1>6, <2>2 DEF SidecarAt
    <3>4. QED
      BY <3>2, <3>3
  <2>3. QED
    BY <1>2, <2>1, <2>2
<1>8. /\ socket'.toBrowser = <<>> /\ socket'.fromBrowser = <<>> /\ socket'.client = "open"
      /\ socket'.session = socket.session + 1
      /\ browser'.asked = <<>> /\ browser'.held = 0 /\ browser'.received = <<>>
  BY <1>2
<1>9. FirstAt(bridge, socket, pipe)'
  BY <1>4, <1>8 DEF FirstAt
<1>10. /\ pipe' \in Seq(NativeFrames) /\ Len(pipe') <= PipeLimit /\ exit' \in Exits
  BY <1>2, <1>3
<1>11. Begun'
  BY <1>5, <1>7, <1>8, <1>10 DEF Begun
<1>12. MostParts'
  BY <1>11, UntouchedParts, PTL
<1>13. QED
  BY <1>7, <1>9, <1>12 DEF BridgeInv, InvAt, MostParts

(* It holds at the start.                                                  *)
LEMMA BridgeInit == Init => BridgeInv
<1>1. SUFFICES ASSUME Init PROVE BridgeInv
  OBVIOUS
<1>2. /\ bridge = [FreshBridge EXCEPT !.native = ~LazyNative]
      /\ exit = [timer |-> FALSE, server |-> TRUE, state |-> "no", code |-> 0]
      /\ socket = [client |-> "none", session |-> 0, toBrowser |-> <<>>, fromBrowser |-> <<>>]
      /\ sidecar = [FreshSidecar EXCEPT !.process = IF LazyNative THEN "none" ELSE "running"]
      /\ stdin = FreshStdin /\ pipe = <<>>
      /\ browser = [state |-> "none", asked |-> <<>>, held |-> 0, received |-> <<>>]
  BY <1>1 DEF Init
<1>3. 0 \in 0..Window /\ 0 \in 0..MaxObjects /\ 0 \in 0..MaxSessions
      /\ (~LazyNative) \in BOOLEAN
  BY LimitsAssumption
<1>4. /\ bridge \in Bridges /\ bridge.nativeCommands = <<>> /\ bridge.nativeBytes = <<>>
      /\ ~bridge.auditComplete /\ (bridge.native <=> ~LazyNative)
  <2>1. bridge = [native |-> ~LazyNative, nativeReady |-> FALSE, nativeBytes |-> <<>>,
                  gracefulClosing |-> FALSE, auditComplete |-> FALSE,
                  nativeInputBlocked |-> FALSE, nativeCommands |-> <<>>,
                  outstandingObjects |-> 0, paused |-> FALSE]
    BY <1>2 DEF FreshBridge
  <2>2. QED
    BY <1>3, <2>1, EmptyFacts DEF Bridges
<1>5. /\ sidecar \in Sidecars /\ sidecar.obeyed = <<>> /\ sidecar.callback = <<>>
      /\ sidecar.replies = <<>> /\ sidecar.produced = 0 /\ ~sidecar.fetching
      /\ sidecar.process = (IF LazyNative THEN "none" ELSE "running")
  <2>1. sidecar = [process |-> IF LazyNative THEN "none" ELSE "running",
                   connected |-> FALSE, fetching |-> FALSE, stopping |-> FALSE,
                   main |-> "loop", replies |-> <<>>, callback |-> <<>>, produced |-> 0,
                   obeyed |-> <<>>]
    BY <1>2 DEF FreshSidecar
  <2>2. QED
    BY <1>3, <2>1, EmptyFacts DEF Sidecars
<1>6. stdin \in Stdins /\ stdin.lines = <<>>
  BY <1>2, EmptyFacts DEF FreshStdin, Stdins
<1>7. exit \in Exits
  BY <1>2 DEF Exits
<1>8. /\ socket \in Sockets /\ browser \in Browsers
      /\ socket.client = "none" /\ socket.session = 0 /\ socket.toBrowser = <<>>
      /\ socket.fromBrowser = <<>> /\ browser.state = "none" /\ browser.asked = <<>>
      /\ browser.held = 0 /\ browser.received = <<>>
  BY <1>2, <1>3, EmptyFacts DEF Sockets, Browsers
<1>9. pipe = <<>> /\ pipe \in Seq(NativeFrames) /\ Len(pipe) <= PipeLimit
  BY <1>2, EmptyFacts, LimitsAssumption
<1>10. Untouched
  BY <1>4, <1>5, <1>6, <1>9, EmptyFacts DEF Untouched
<1>11. MostParts
  BY <1>7, <1>8, <1>9, <1>10, UntouchedParts DEF Begun
<1>12. SidecarAt(bridge, socket, pipe)
  <2>1. ~(Len(stdin.lines) = StdinLimit) /\ Len(sidecar.callback) <= 1
    BY <1>5, <1>6, EmptyFacts, LimitsAssumption
  <2>2. QED
    BY <1>4, <1>5, <1>8, <1>9, <2>1, EmptyFacts DEF SidecarAt
<1>13. FirstAt(bridge, socket, pipe)
  BY <1>4, <1>5, <1>6, <1>8, <1>9, EmptyFacts DEF FirstAt
<1>14. QED
  BY <1>11, <1>12, <1>13 DEF BridgeInv, InvAt, MostParts

(* It needs no more than the variables.                                    *)
LEMMA StandsStill == BridgeInv /\ UNCHANGED vars => BridgeInv'
<1>1. SUFFICES ASSUME BridgeInv, UNCHANGED vars PROVE BridgeInv'
  OBVIOUS
<1>2. /\ bridge' = bridge /\ exit' = exit /\ socket' = socket /\ sidecar' = sidecar
      /\ stdin' = stdin /\ pipe' = pipe /\ browser' = browser
  BY <1>1 DEF vars
<1>3. InvAt(bridge', socket', pipe')
  BY <1>1, <1>2 DEF BridgeInv
<1>4. QED
  BY <1>2, <1>3, SamePartsKeep

(* Every step of the bridge, the sidecar and the browser keeps it.         *)
LEMMA BridgeNext == BridgeInv /\ [Next]_vars => BridgeInv'
<1>1. SUFFICES ASSUME BridgeInv, [Next]_vars PROVE BridgeInv'
  OBVIOUS
<1>2. CASE BridgeStep
  BY <1>1, <1>2, StdoutDataKeeps, StdinDrainKeeps, ChildCloseKeeps, ObjectAckKeeps,
     SocketDrainKeeps, OpenOrPrioritiesKeeps, CloseCommandKeeps, FinalMessageKeeps,
     SocketCloseKeeps DEF BridgeStep
<1>3. CASE SidecarStep
  BY <1>1, <1>3, CallbackWritesKeeps, MainWritesKeeps, ReadCommandKeeps, EndOfInputKeeps,
     NativeExitKeeps DEF SidecarStep
<1>4. CASE Timers
  BY <1>1, <1>4, AuditExitKeeps, ExitKeeps DEF Timers
<1>5. CASE Environment
  BY <1>1, <1>5, UpgradeKeeps, SpawnFailsKeeps, ShutdownKeeps, NativeConnectsKeeps,
     NativeObjectKeeps, AskKeeps, LeaveKeeps DEF Environment
<1>6. CASE Receive \/ Acknowledge
  BY <1>1, <1>6, ReceiveKeeps, AcknowledgeKeeps
<1>7. CASE Terminated \/ Idle \/ Stranded \/ UNCHANGED vars
  BY <1>1, <1>7, StandsStill DEF Terminated, Idle, Stranded
<1>8. QED
  BY <1>1, <1>2, <1>3, <1>4, <1>5, <1>6, <1>7 DEF Next

(* The invariant behind the results below.                                 *)
LEMMA BridgeInvariance == Spec => []BridgeInv
BY BridgeInit, BridgeNext, PTL DEF Spec

-----------------------------------------------------------------------------

(* What it implies.                                                        *)
LEMMA InvTypeOK == BridgeInv => TypeOK
<1>1. SUFFICES ASSUME BridgeInv PROVE TypeOK
  OBVIOUS
<1>2. /\ bridge \in Bridges /\ exit \in Exits /\ socket \in Sockets /\ sidecar \in Sidecars
      /\ stdin \in Stdins /\ pipe \in Seq(NativeFrames) /\ browser \in Browsers
      /\ Len(socket.toBrowser) <= BufferLimit + (IF socket.client = "open" THEN 0 ELSE 1)
      /\ Len(stdin.lines) <= StdinLimit /\ Len(pipe) <= PipeLimit
  BY <1>1 DEF BridgeInv, InvAt, TypesAt, OtherTypes
<1>3. QED
  BY <1>2 DEF TypeOK, Bridges, Exits, Sockets, Sidecars, Stdins, Browsers

(* The window, ...                                                         *)
LEMMA InvAckWindow == BridgeInv => AckWindow
BY DEF BridgeInv, InvAt, WindowAt, Load, NumObjects, AckWindow

(* ... the objects, ...                                                    *)
LEMMA InvObjectsKept == BridgeInv => ObjectsKept
<1>1. SUFFICES ASSUME BridgeInv PROVE ObjectsKept
  OBVIOUS
<1> DEFINE r == browser.received \o socket.toBrowser
           n == bridge.nativeBytes
           c == sidecar.callback
           a == Along(bridge, socket, pipe)
<1>2. r \in Seq(Frames) /\ n \in Seq(Frames) /\ pipe \in Seq(Frames)
  BY <1>1, InvTypes, FramesConcat
<1>3. ObjectsAt(bridge, socket, pipe)
  BY <1>1 DEF BridgeInv, InvAt
<1>4. a = r \o (n \o pipe)
  BY DEF Along
<1> HIDE DEF r, n, a
<1>5. (r \o n) \o pipe = r \o (n \o pipe)
  <2>1. Cat(Cat(r, n), pipe) = Cat(r, Cat(n, pipe))
    BY <1>2, CatFrames
  <2>2. QED
    BY <2>1 DEF Cat
<1>6. ((Read \o bridge.nativeBytes) \o pipe) \o c = a \o c
  BY <1>4, <1>5 DEF Read, r, n
<1>7. QED
  BY <1>3, <1>6 DEF ObjectsKept, ObjectsAt, NumObjects, Read, a

(* ... the commands, ...                                                   *)
LEMMA InvCommandsKept == BridgeInv => CommandsKept
BY DEF BridgeInv, InvAt, CommandsAt, Reaching, CommandsKept

(* ... the sessions, ...                                                   *)
LEMMA InvSessionIsolated == BridgeInv => SessionIsolated
<1>1. SUFFICES ASSUME BridgeInv, LazyNative, NEW i \in DOMAIN Read
               PROVE  Read[i].session = socket.session
  BY DEF SessionIsolated
<1>2. Read \in Seq(Own(socket.session))
  <2>1. browser.received \in Seq(Frames) /\ socket.toBrowser \in Seq(Frames)
    BY <1>1, InvTypes
  <2>2. /\ browser.received \in Seq(Own(socket.session))
        /\ socket.toBrowser \in Seq(Own(socket.session))
    BY <1>1 DEF BridgeInv, InvAt, SessionAt
  <2>3. QED
    BY <2>1, <2>2, OwnConcat DEF Read
<1>3. Read[i] \in Own(socket.session)
  BY <1>1, <1>2
<1>4. QED
  BY <1>3 DEF Own

(* ... and the audit.                                                      *)
LEMMA InvCleanCodeAudited == BridgeInv => CleanCodeAudited
<1>1. SUFFICES ASSUME BridgeInv, NEW i \in DOMAIN browser.received,
                      browser.received[i].type = "close", browser.received[i].n = 1000,
                      CountOf("bye") = 0
               PROVE  \E j \in 1..(i - 1) : browser.received[j].type = "audit-complete"
  BY DEF CleanCodeAudited
<1>2. /\ browser.received \in Seq(Frames) /\ socket.toBrowser \in Seq(Frames)
      /\ browser.asked \in Seq(MessageTypes)
  BY <1>1, InvTypes DEF Browsers
<1>3. AuditPrecedes(browser.received, browser.asked)
  <2>1. AuditPrecedes(browser.received \o socket.toBrowser, browser.asked)
    BY <1>1 DEF BridgeInv, InvAt, CodeAt
  <2>2. QED
    BY <1>2, <2>1, AuditPrecedesBefore
<1>4. "bye" \notin RangeOf(browser.asked)
  <2>1. Only(browser.asked, {"bye"}) = <<>>
    <3>1. Only(browser.asked, {"bye"}) \in Seq(MessageTypes \cap {"bye"})
      BY <1>2, OnlyType
    <3>2. Len(Only(browser.asked, {"bye"})) = 0
      BY <1>1 DEF CountOf
    <3>3. QED
      BY <3>1, <3>2, EmptySeq
  <2>2. \A k \in 1..Len(browser.asked) : browser.asked[k] \notin {"bye"}
    BY <1>2, <2>1, OnlyNone
  <2>3. DOMAIN browser.asked = 1..Len(browser.asked)
    BY <1>2, LenProperties
  <2>4. QED
    BY <2>2, <2>3 DEF RangeOf
<1>5. QED
  BY <1>1, <1>3, <1>4 DEF AuditPrecedes, IsCleanClose

(* The bridge's data keep their shape, the sidecar writes no frame of the  *)
(* bridge's own, and every buffer keeps its limit: sendBrowser's limit and *)
(* the one close frame after it, the sidecar's stdin up to `drain`, and    *)
(* the stretch of its output that blocks its writers.                      *)
THEOREM BridgeTypes == Spec => []TypeOK
BY BridgeInvariance, InvTypeOK, PTL

(* What the browser has not acknowledged never exceeds --object-window:    *)
(* processNativeBytes stops in time, whatever the pipe delivers at once,   *)
(* and the close command, which resets the count, sends no object more.    *)
THEOREM WindowHolds == Spec => []AckWindow
BY BridgeInvariance, InvAckWindow, PTL

(* Objects, commands and sessions together: however the window, the drain  *)
(* of stdin and of the socket, a close, an overflow and a dying sidecar    *)
(* interleave, the browser reads the objects of its session in order and   *)
(* without a gap, the sidecar reads its commands once and in order, and a  *)
(* lazy bridge mixes no two sessions.                                      *)
THEOREM StreamsHold == Spec => []StreamsKept
<1>1. BridgeInv => StreamsKept
  BY InvObjectsKept, InvCommandsKept, InvSessionIsolated DEF StreamsKept
<1>2. QED
  BY <1>1, BridgeInvariance, PTL

(* The close code 1000 reaches a browser that asked for the end of the     *)
(* session only after the audit-complete frame, in both places that send   *)
(* it: endNativeSession and the answer to a WebSocket close frame.         *)
THEOREM CleanCodeHolds == Spec => []CleanCodeAudited
BY BridgeInvariance, InvCleanCodeAudited, PTL

=============================================================================
