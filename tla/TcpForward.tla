----------------------------- MODULE TcpForward -----------------------------
(***************************************************************************)
(* One forwarded connection of tcp_forward.py: handle() and its two copy   *)
(* loops between the browser's connection ("client") and the bridge's      *)
(* ("upstream").  The two peers and the kernel's sockets are external,     *)
(* modelled as far as the forwarder can tell: bounded buffers, half-close, *)
(* and the reset that answers data for a closed socket or a close with     *)
(* unread data, which discards what the other side has not read yet.       *)
(*                                                                         *)
(* A unit of data is a chunk that one recv returns.  The join timeouts may *)
(* elapse at any moment.                                                   *)
(*                                                                         *)
(* What the bridge's module also has is prefixed here (ForwardInit, ...),  *)
(* so that one module can speak of both.                                   *)
(***************************************************************************)
EXTENDS Integers

CONSTANTS
    MaxChunks,      \* bound: chunks a peer sends
    Buffer,         \* bound: chunks one direction of a socket holds
    FullClose       \* the peers that may close both directions at once

Sides == {"client", "upstream"}
Peer(s) == IF s = "client" THEN "upstream" ELSE "client"

ASSUME BoundsAssumption == MaxChunks \in Nat /\ Buffer \in Nat \ {0}
ASSUME FullCloseAssumption == FullClose \subseteq Sides

(***************************************************************************)
(* The copy loop of side s reads the socket of s and writes to the socket  *)
(* of Peer(s): copy["client"] is the inbound thread, copy["upstream"] runs *)
(* in the thread of handle.                                                *)
(***************************************************************************)
VARIABLES
    main,       \* where handle() is
    copy,       \* copy[s]: where the loop that reads s is
    held,       \* held[s]: the loop that reads s has a chunk to write
    inbox,      \* inbox[s]: chunks of peer s the forwarder has not read
    outbox,     \* outbox[s]: chunks to peer s that it has not read
    eof,        \* eof[s]: peer s has ended its writing side
    shut,       \* shut[s]: the forwarder has ended its writing side to s
    cut,        \* cut[s]: the forwarder has shut both sides of socket s
    open,       \* open[s]: the forwarder's socket of s is open
    reset,      \* reset[s]: the connection with s was reset
    there,      \* there[s]: peer s has not closed its socket
    sent,       \* history: chunks peer s has sent
    got,        \* history: chunks peer s has read
    timedOut    \* history: the first join has timed out

peerVars == <<there, sent, got, eof>>
forwardVars == <<main, copy, held, inbox, outbox, eof, shut, cut, open, reset, there,
                 sent, got, timedOut>>

ForwardInit ==
    /\ main = "connect"
    /\ copy = [s \in Sides |-> "none"]
    /\ held = [s \in Sides |-> FALSE]
    /\ inbox = [s \in Sides |-> 0]
    /\ outbox = [s \in Sides |-> 0]
    /\ eof = [s \in Sides |-> FALSE]
    /\ shut = [s \in Sides |-> FALSE]
    /\ cut = [s \in Sides |-> FALSE]
    /\ open = [s \in Sides |-> s = "client"]
    /\ reset = [s \in Sides |-> FALSE]
    /\ there = [s \in Sides |-> TRUE]
    /\ sent = [s \in Sides |-> 0]
    /\ got = [s \in Sides |-> 0]
    /\ timedOut = FALSE

----------------------------------------------------------------------------
(* The kernel                                                              *)

(* A reset throws away what the peer has not read, and what the forwarder  *)
(* has not read either.                                                    *)
Reset(S) ==
    /\ reset' = [s \in Sides |-> reset[s] \/ s \in S]
    /\ inbox' = [s \in Sides |-> IF s \in S THEN 0 ELSE inbox[s]]
    /\ outbox' = [s \in Sides |-> IF s \in S THEN 0 ELSE outbox[s]]

(* close() answers unread data with a reset, or else ends in order.        *)
Close(S) ==
    /\ open' = [s \in Sides |-> open[s] /\ s \notin S]
    /\ shut' = [s \in Sides |-> shut[s] \/ s \in S]
    /\ Reset({s \in S : inbox[s] > 0})

----------------------------------------------------------------------------
(* handle                                                                  *)

(* create_connection within ten seconds, or the client is closed.          *)
Connect ==
    /\ main = "connect"
    /\ \/ /\ open' = [open EXCEPT !["upstream"] = TRUE]
          /\ copy' = [s \in Sides |-> "recv"]
          /\ main' = "copying"
          /\ UNCHANGED <<inbox, outbox, shut, reset>>
       \/ /\ Close({"client"})
          /\ main' = "refused"
          /\ UNCHANGED copy
    /\ UNCHANGED <<held, cut, timedOut, peerVars>>

CopyReturns ==
    /\ main = "copying" /\ copy["upstream"] = "done"
    /\ main' = "join"
    /\ UNCHANGED <<copy, held, inbox, outbox, shut, cut, open, reset, timedOut, peerVars>>

(* inbound.join(timeout=10)                                                *)
M_InboundEnded == TRUE
InboundEnded == copy["client"] = "done"

Joined ==
    /\ main = "join" /\ InboundEnded
    /\ main' = "close"
    /\ UNCHANGED <<copy, held, inbox, outbox, shut, cut, open, reset, timedOut, peerVars>>

(* The timeout: SHUT_RDWR on both sockets wakes the inbound loop up.       *)
M_Cut == cut
Cut == [s \in Sides |-> TRUE]

M_TimesOut == copy["client"] = "send"
TimesOut == copy["client"] # "done"

JoinTimesOut ==
    /\ main = "join" /\ TimesOut
    /\ timedOut' = TRUE
    /\ cut' = Cut
    /\ shut' = [s \in Sides |-> shut[s] \/ cut'[s]]
    /\ main' = "rejoin"
    /\ UNCHANGED <<copy, held, inbox, outbox, open, reset, peerVars>>

(* inbound.join(timeout=1), in time or not.                                *)
Rejoined ==
    /\ main = "rejoin"
    /\ main' = "close"
    /\ UNCHANGED <<copy, held, inbox, outbox, shut, cut, open, reset, timedOut, peerVars>>

(* upstream.close(), then client.close().                                  *)
CloseUpstream ==
    /\ main = "close" /\ open["upstream"]
    /\ Close({"upstream"})
    /\ UNCHANGED <<main, copy, held, cut, timedOut, peerVars>>

CloseClient ==
    /\ main = "close" /\ ~open["upstream"]
    /\ Close({"client"})
    /\ main' = "returned"
    /\ UNCHANGED <<copy, held, cut, timedOut, peerVars>>

----------------------------------------------------------------------------
(* copy(source s, destination Peer(s))                                     *)

Broken(s) == reset[s] \/ ~open[s]

(* recv returns a chunk, ...                                               *)
Recv(s) ==
    /\ copy[s] = "recv" /\ ~Broken(s) /\ inbox[s] > 0
    /\ inbox' = [inbox EXCEPT ![s] = @ - 1]
    /\ held' = [held EXCEPT ![s] = TRUE]
    /\ copy' = [copy EXCEPT ![s] = "send"]
    /\ UNCHANGED <<main, outbox, shut, cut, open, reset, timedOut, peerVars>>

(* ... or the end of the stream, or raises.  Closing the socket in another *)
(* thread does not wake a recv that is blocked in the kernel.              *)
RecvEnds(s) ==
    /\ copy[s] = "recv"
    /\ reset[s] \/ (inbox[s] = 0 /\ (eof[s] \/ cut[s]))
    /\ copy' = [copy EXCEPT ![s] = "shut"]
    /\ UNCHANGED <<main, held, inbox, outbox, shut, cut, open, reset, timedOut, peerVars>>

Refused(s) == Broken(s) \/ shut[s]

(* sendall waits for room; a peer that closed answers with a reset.        *)
HasSpace(s) == outbox[Peer(s)] < Buffer

SendAll(s) ==
    /\ copy[s] = "send" /\ ~Refused(Peer(s))
    /\ IF there[Peer(s)]
         THEN /\ HasSpace(s)
              /\ outbox' = [outbox EXCEPT ![Peer(s)] = @ + 1]
              /\ UNCHANGED <<inbox, reset>>
         ELSE Reset({Peer(s)})
    /\ held' = [held EXCEPT ![s] = FALSE]
    /\ copy' = [copy EXCEPT ![s] = "recv"]
    /\ UNCHANGED <<main, shut, cut, open, timedOut, peerVars>>

(* OSError: the chunk is lost and the loop ends.                           *)
SendFails(s) ==
    /\ copy[s] = "send" /\ Refused(Peer(s))
    /\ held' = [held EXCEPT ![s] = FALSE]
    /\ copy' = [copy EXCEPT ![s] = "shut"]
    /\ UNCHANGED <<main, inbox, outbox, shut, cut, open, reset, timedOut, peerVars>>

(* destination.shutdown(SHUT_WR), whatever ended the loop.                 *)
M_HalfClosed(s) == shut
HalfClosed(s) == [shut EXCEPT ![Peer(s)] = TRUE]

HalfClose(s) ==
    /\ copy[s] = "shut"
    /\ shut' = HalfClosed(s)
    /\ copy' = [copy EXCEPT ![s] = "done"]
    /\ UNCHANGED <<main, held, inbox, outbox, cut, open, reset, timedOut, peerVars>>

----------------------------------------------------------------------------
(* The peers                                                               *)

Connected(s) == there[s] /\ ~reset[s] /\ (s = "client" \/ main # "connect")

(* Data for a socket the forwarder has shut for reading or closed is       *)
(* answered with a reset.                                                  *)
PeerSends(s) ==
    /\ Connected(s) /\ ~eof[s] /\ sent[s] < MaxChunks
    /\ s = "upstream" => main # "refused"
    /\ IF open[s] /\ ~cut[s]
         THEN /\ inbox[s] < Buffer
              /\ inbox' = [inbox EXCEPT ![s] = @ + 1]
              /\ UNCHANGED <<outbox, reset>>
         ELSE Reset({s})
    /\ sent' = [sent EXCEPT ![s] = @ + 1]
    /\ UNCHANGED <<main, copy, held, eof, shut, cut, open, there, got, timedOut>>

PeerReads(s) ==
    /\ Connected(s) /\ outbox[s] > 0
    /\ outbox' = [outbox EXCEPT ![s] = @ - 1]
    /\ got' = [got EXCEPT ![s] = @ + 1]
    /\ UNCHANGED <<main, copy, held, inbox, eof, shut, cut, open, reset, there, sent,
                   timedOut>>

(* A peer ends its writing side.                                           *)
PeerHalfCloses(s) ==
    /\ Connected(s) /\ ~eof[s]
    /\ eof' = [eof EXCEPT ![s] = TRUE]
    /\ UNCHANGED <<main, copy, held, inbox, outbox, shut, cut, open, reset, there, sent,
                   got, timedOut>>

(* A peer closes its socket, with unread data or without.                  *)
PeerCloses(s) ==
    /\ s \in FullClose /\ Connected(s)
    /\ there' = [there EXCEPT ![s] = FALSE]
    /\ eof' = [eof EXCEPT ![s] = TRUE]
    /\ Reset(IF outbox[s] > 0 THEN {s} ELSE {})
    /\ UNCHANGED <<main, copy, held, shut, cut, open, sent, got, timedOut>>

----------------------------------------------------------------------------
Handle ==
    \/ Connect \/ CopyReturns \/ Joined \/ JoinTimesOut \/ Rejoined
    \/ CloseUpstream \/ CloseClient

Copy(s) == Recv(s) \/ RecvEnds(s) \/ SendAll(s) \/ SendFails(s) \/ HalfClose(s)

PeerStep(s) ==
    PeerSends(s) \/ PeerReads(s) \/ PeerHalfCloses(s) \/ PeerCloses(s)

Ended ==
    /\ main \in {"returned", "refused"}
    /\ UNCHANGED forwardVars

ForwardNext ==
    \/ Handle
    \/ \E s \in Sides : Copy(s) \/ PeerStep(s)
    \/ Ended

ForwardSpec == ForwardInit /\ [][ForwardNext]_forwardVars

(***************************************************************************)
(* The threads run, the join times out in the end, and a peer reads what   *)
(* arrives.  No peer has to end its side.                                  *)
(***************************************************************************)
ForwardFairSpec ==
    /\ ForwardSpec /\ WF_forwardVars(Handle)
    /\ \A s \in Sides : WF_forwardVars(Copy(s)) /\ WF_forwardVars(PeerReads(s))

----------------------------------------------------------------------------
ForwardTypeOK ==
    /\ main \in {"connect", "copying", "join", "rejoin", "close", "returned", "refused"}
    /\ copy \in [Sides -> {"none", "recv", "send", "shut", "done"}]
    /\ inbox \in [Sides -> 0..Buffer] /\ outbox \in [Sides -> 0..Buffer]
    /\ {held, eof, shut, cut, open, reset, there} \subseteq [Sides -> BOOLEAN]
    /\ sent \in [Sides -> 0..MaxChunks] /\ got \in [Sides -> 0..MaxChunks]
    /\ timedOut \in BOOLEAN

Lost(s) == sent[s] - inbox[s] - (IF held[s] THEN 1 ELSE 0) - outbox[Peer(s)] - got[Peer(s)]

(***************************************************************************)
(* "A server FIN must not discard the browser's final ACK/close data"      *)
(* (test_tcp_forward.py:10), nor the audit on its way to the browser: as   *)
(* long as the peers only half-close and the join does not time out, no    *)
(* chunk of either direction is lost, the closes at the end included, and  *)
(* a half-close never overtakes a chunk.                                   *)
(***************************************************************************)
NothingLost ==
    (main # "refused" /\ ~timedOut /\ \A s \in Sides : there[s]) =>
        \A s \in Sides :
            /\ Lost(s) = 0
            /\ shut[Peer(s)] => (eof[s] /\ inbox[s] = 0 /\ ~held[s])

(***************************************************************************)
(* The end of the upstream's data ends the connection, even when the       *)
(* browser never ends its side: the thread and both sockets are freed.     *)
(***************************************************************************)
UpstreamEndCloses == (eof["upstream"] /\ main = "copying") ~> main = "returned"

(***************************************************************************)
(* The half-close is passed on: a peer's end reaches the other peer.       *)
(***************************************************************************)
EndIsForwarded ==
    \A s \in Sides : (eof[s] /\ copy[s] = "recv") ~> (shut[Peer(s)] \/ reset[Peer(s)])

(***************************************************************************)
(* Every end is passed on in time: a half-close reaches the other peer,    *)
(* and the end of the upstream ends the connection itself.                 *)
(***************************************************************************)
EndsAreForwarded == UpstreamEndCloses /\ EndIsForwarded

(***************************************************************************)
(* No inbound thread outlives its connection: when the join timed out, the *)
(* two shutdowns wake a recv that the closes alone would leave blocked.    *)
(***************************************************************************)
ThreadEnds == main = "returned" ~> copy["client"] = "done"
=============================================================================
