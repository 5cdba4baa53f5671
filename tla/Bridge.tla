------------------------------- MODULE Bridge -------------------------------
(***************************************************************************)
(* The WebSocket bridge, priority_ws_bridge.mjs, between one browser and   *)
(* the sidecar it spawns.  Node runs one event at a time, so one action    *)
(* stands for one event handler with every function it calls.              *)
(*                                                                         *)
(* The sidecar appears as the bridge sees it: a main thread that obeys the *)
(* lines on its standard input, callbacks that write frames, and a bounded *)
(* stretch of output (its queue and the OS pipe) that blocks its writers   *)
(* when the bridge does not read.  The browser is external.                *)
(*                                                                         *)
(* An operator named M_X is X with a plausible mistake in it, for mutation *)
(* runs; no specification uses it.                                         *)
(***************************************************************************)
EXTENDS Integers, Sequences, Lists

CONSTANTS
    Persistent,     \* --persistent
    LazyNative,     \* --lazy-native, implied by --persistent
    Window,         \* --object-window
    BufferLimit,    \* MAX_BROWSER_BUFFER, in frames
    PipeLimit,      \* frames between the sidecar's writers and the bridge
    StdinLimit,     \* commands the sidecar's stdin takes before `drain`
    MaxObjects,     \* bound on the objects of a session
    MaxPriorities,  \* bound on the "priorities" commands of a session
    MaxSessions,    \* bound on the upgrades
    Faults          \* which of "spawn", "crash", "signal" and "bad" may happen

ASSUME ModesAssumption ==
    /\ Persistent \in BOOLEAN /\ LazyNative \in BOOLEAN
    /\ Faults \subseteq {"spawn", "crash", "signal", "bad"}
    /\ Persistent => LazyNative
ASSUME LimitsAssumption ==
    /\ Window \in Nat \ {0} /\ BufferLimit \in Nat \ {0}
    /\ PipeLimit \in Nat \ {0} /\ StdinLimit \in Nat \ {0}
    /\ MaxObjects \in Nat /\ MaxPriorities \in Nat /\ MaxSessions \in Nat

VARIABLES
    bridge,   \* the variables of the module, under their names, and whether
              \* native.stdout is paused; native: is it set?
    exit,     \* auditExitTimer, whether the server listens, and the exit: "no",
              \* "pending" (server.close's callback) or "done", with its code
    socket,   \* client ("none", "open", or "ended": nothing may be written), the
              \* number of its session, and what travels in either direction
    sidecar,  \* process ("none", "running", "exited", or "closed": event seen),
              \* connected, fetching (an open command was handled), stopping,
              \* main ("loop" or "draining"), the replies main still has to write
              \* under state_mutex, the frame a callback is writing, the objects
              \* produced so far and, as a history, the commands obeyed
    stdin,    \* the commands in the sidecar's input, and has it ended?
    pipe,     \* the frames in its output
    browser   \* state ("none", "open" or "left"), the commands it asked, the
              \* number of objects held unacknowledged, the frames received

vars == <<bridge, exit, socket, sidecar, stdin, pipe, browser>>

NativeTypes == {"ready", "status", "object", "audit-complete"}
CommandTypes == {"open", "priorities", "close"}
MessageTypes == CommandTypes \union {"bye", "bad"}

\* Frames remember their session; objects are numbered.
FramesOf(types) == [type : types, n : Nat, session : 0..MaxSessions]
Control(type) == [type |-> type, n |-> 0, session |-> socket.session]
Object(n) == [type |-> "object", n |-> n, session |-> socket.session]
CloseFrame(code) == [type |-> "close", n |-> code, session |-> socket.session]
IsObject(frame) == frame.type = "object"

ObjectsOf(frames) == Only(frames, FramesOf({"object"}))
Has(frames, type) == \E i \in DOMAIN frames : frames[i].type = type
LastOf(S) == CHOOSE n \in S : \A m \in S : m <= n

\* What startNative begins with.
FreshBridge ==
    [native |-> TRUE, nativeReady |-> FALSE, nativeBytes |-> <<>>, gracefulClosing |-> FALSE,
     auditComplete |-> FALSE, nativeInputBlocked |-> FALSE, nativeCommands |-> <<>>,
     outstandingObjects |-> 0, paused |-> FALSE]
FreshSidecar ==
    [process |-> "running", connected |-> FALSE, fetching |-> FALSE, stopping |-> FALSE,
     main |-> "loop", replies |-> <<>>, callback |-> <<>>, produced |-> 0, obeyed |-> <<>>]
FreshStdin == [lines |-> <<>>, ended |-> FALSE]

Init ==
    /\ bridge = [FreshBridge EXCEPT !.native = ~LazyNative]
    /\ exit = [timer |-> FALSE, server |-> TRUE, state |-> "no", code |-> 0]
    /\ socket = [client |-> "none", session |-> 0, toBrowser |-> <<>>, fromBrowser |-> <<>>]
    /\ sidecar = [FreshSidecar EXCEPT !.process = IF LazyNative THEN "none" ELSE "running"]
    /\ stdin = FreshStdin
    /\ pipe = <<>>
    /\ browser = [state |-> "none", asked |-> <<>>, held |-> 0, received |-> <<>>]

Alive == exit.state # "done"

-----------------------------------------------------------------------------
(* Writing to the browser and to the sidecar.                              *)

\* sendBrowser for one frame after the other; the frame that does not fit
\* ends the socket and the rest is dropped.
Room(s) == BufferLimit - Len(s.toBrowser)
Overflows(s, frames) == s.client = "open" /\ Len(frames) > Room(s)
Sent(s, frames) ==
    IF s.client # "open" THEN s
    ELSE IF ~Overflows(s, frames) THEN [s EXCEPT !.toBrowser = @ \o frames]
    ELSE [s EXCEPT !.client = "ended",
                   !.toBrowser = @ \o SubSeq(frames, 1, Room(s)) \o <<CloseFrame(1011)>>]

\* close(client, code, reason), and client.destroy()
Closed(s, code) ==
    IF s.client # "open" THEN s
    ELSE [s EXCEPT !.client = "ended", !.toBrowser = Append(@, CloseFrame(code))]
Destroyed(s) == [s EXCEPT !.client = "none", !.toBrowser = <<>>, !.fromBrowser = <<>>]
Left(u) == [u EXCEPT !.state = IF @ = "open" THEN "left" ELSE @]

\* An exception that nobody catches.
Crash == exit' = [exit EXCEPT !.state = "done", !.code = 1]

\* pumpNativeCommands writes until one write returns false.  A write to a stdin
\* that was ended, or whose reader has died, loses the command; it raises an
\* error event without a listener unless the stream was destroyed before.
Writes(b) ==
    IF ~b.nativeReady \/ b.nativeInputBlocked \/ b.nativeCommands = <<>> THEN 0
    ELSE IF stdin.ended THEN 1
    ELSE LastOf({n \in 1..Len(b.nativeCommands) :
                     Len(stdin.lines) + n <= StdinLimit} \union {1})

Pump(b) ==
    LET n == Writes(b)
        full == stdin.ended \/ Len(stdin.lines) + n >= StdinLimit IN
    /\ bridge' = [b EXCEPT !.nativeCommands = SubSeq(@, n + 1, Len(@)),
                           !.nativeInputBlocked = @ \/ (n > 0 /\ full)]
    /\ stdin' = IF stdin.ended THEN stdin
                ELSE [stdin EXCEPT !.lines = @ \o SubSeq(b.nativeCommands, 1, n)]
    /\ \/ UNCHANGED exit
       \/ n > 0 /\ (stdin.ended \/ sidecar.process = "exited") /\ Crash

-----------------------------------------------------------------------------
(* The sidecar's output.                                                   *)

\* processNativeBytes handles frames until the window is full.
MayHandle(b, i) ==
    b.gracefulClosing
    \/ b.outstandingObjects + Len(ObjectsOf(SubSeq(b.nativeBytes, 1, i))) < Window

Handled(b) ==
    LastOf({n \in 0..Len(b.nativeBytes) : \A i \in 0..(n - 1) : MayHandle(b, i)})

M_Remaining(bytes, n) == <<>>
Remaining(bytes, n) == SubSeq(bytes, n + 1, Len(bytes))

\* Objects that arrive after the close command are dropped.
M_Forwarded(b, frames) == frames
Forwarded(b, frames) ==
    IF b.gracefulClosing THEN Only(frames, FramesOf(NativeTypes \ {"object"})) ELSE frames

\* It pauses the sidecar's output when the window is or becomes full.
Processed(b, frames) ==
    LET outstanding == b.outstandingObjects
                       + IF b.gracefulClosing THEN 0 ELSE Len(ObjectsOf(frames)) IN
    [b EXCEPT !.nativeBytes = Remaining(@, Len(frames)),
              !.outstandingObjects = outstanding,
              !.nativeReady = @ \/ Has(frames, "ready"),
              !.auditComplete = @ \/ Has(frames, "audit-complete"),
              !.paused = @ \/ (b.nativeBytes # <<>> /\ ~b.gracefulClosing /\ outstanding >= Window)]

\* native?.stdout.resume()
M_Resumed(b) == b
Resumed(b) == IF b.outstandingObjects < Window THEN [b EXCEPT !.paused = FALSE] ELSE b

\* processNativeBytes on what its caller leaves in b and s, the pump, and the
\* resume that some callers end with.  An overflow kills the sidecar; pausing
\* one that has gone (native is null) is a TypeError.
Process(b, s, resumes) ==
    LET frames == SubSeq(b.nativeBytes, 1, Handled(b))
        after == Processed(b, frames) IN
    /\ socket' = Sent(s, Forwarded(b, frames))
    /\ sidecar' = [sidecar EXCEPT !.stopping = @ \/ Overflows(s, Forwarded(b, frames))]
    /\ IF after.paused /\ ~b.native THEN Crash /\ UNCHANGED <<bridge, stdin>>
       ELSE Pump(IF resumes THEN Resumed(after) ELSE after)

\* child.stdout "data": whatever the pipe holds, as long as it flows.
StdoutData ==
    /\ Alive /\ sidecar.process \in {"running", "exited"} /\ ~bridge.paused
    /\ \E k \in 1..Len(pipe) :
          /\ pipe' = SubSeq(pipe, k + 1, Len(pipe))
          /\ Process([bridge EXCEPT !.nativeBytes = @ \o SubSeq(pipe, 1, k)], socket, FALSE)
    /\ UNCHANGED browser

\* child.stdin "drain"
StdinDrain ==
    /\ Alive /\ sidecar.process = "running" /\ ~stdin.ended
    /\ bridge.nativeInputBlocked /\ Len(stdin.lines) < StdinLimit
    /\ Pump([bridge EXCEPT !.nativeInputBlocked = FALSE])
    /\ UNCHANGED <<socket, sidecar, pipe, browser>>

-----------------------------------------------------------------------------
(* The end of the sidecar.                                                 *)

\* child "error", before any other event of the session: the sidecar cannot be
\* started.  Its "close" is ignored.
SpawnFails ==
    /\ Alive /\ "spawn" \in Faults
    /\ sidecar.process = "running" /\ bridge.native
    /\ IF LazyNative THEN socket.client = "open" ELSE socket.session = 0
    /\ ~sidecar.connected /\ ~sidecar.stopping
    /\ ~bridge.gracefulClosing /\ bridge.nativeCommands = <<>>
    /\ sidecar' = [sidecar EXCEPT !.process = "closed"]
    /\ bridge' = [bridge EXCEPT !.native = FALSE, !.nativeReady = FALSE]
    /\ socket' = Closed(Sent(socket, <<Control("error")>>), 1011)
    /\ UNCHANGED <<exit, stdin, pipe, browser>>

M_CleanEnd == bridge.gracefulClosing
CleanEnd == bridge.gracefulClosing /\ bridge.auditComplete

\* child "close": the sidecar has exited and its output has been read.
ChildClose ==
    /\ Alive /\ sidecar.process = "exited" /\ pipe = <<>> /\ ~bridge.paused
    /\ sidecar' = [sidecar EXCEPT !.process = "closed"]
    /\ \/ /\ Persistent
          /\ bridge' = [bridge EXCEPT !.native = FALSE, !.nativeReady = FALSE]
          /\ socket' = Closed(socket, IF CleanEnd THEN 1000 ELSE 1011)
          /\ UNCHANGED exit
       \/ /\ ~Persistent /\ CleanEnd
          /\ exit' = [exit EXCEPT !.timer = TRUE]
          /\ UNCHANGED <<bridge, socket>>
       \/ /\ ~Persistent /\ ~CleanEnd
          /\ socket' = Closed(socket, 1011)
          /\ exit' = [exit EXCEPT !.server = FALSE, !.state = "pending", !.code = 1]
          /\ UNCHANGED bridge
    /\ UNCHANGED <<stdin, pipe, browser>>

\* Thirty seconds after a clean end, with the sidecar's own code.
AuditExit ==
    /\ Alive /\ exit.timer
    /\ \E code \in {0, 1} :
          exit' = [timer |-> FALSE, server |-> FALSE, state |-> "pending", code |-> code]
    /\ socket' = Destroyed(socket)
    /\ browser' = Left(browser)
    /\ UNCHANGED <<bridge, sidecar, stdin, pipe>>

\* GET /audit while the server listens.
AuditPolled ==
    /\ Alive /\ exit.server /\ bridge.auditComplete /\ exit.timer
    /\ exit' = [exit EXCEPT !.timer = FALSE]
    /\ UNCHANGED <<bridge, socket, sidecar, stdin, pipe, browser>>

\* The callback of server.close, once no connection is left, or an event loop
\* that has nothing left to wait for; a paused pipe is nothing to wait for.
Exit ==
    /\ Alive /\ socket.client = "none"
    /\ \/ /\ exit.state = "pending"
          /\ exit' = [exit EXCEPT !.state = "done"]
       \/ /\ exit.state = "no" /\ ~exit.server /\ ~exit.timer
          /\ \/ sidecar.process \in {"none", "closed"}
             \/ sidecar.process = "exited" /\ bridge.paused
          /\ exit' = [exit EXCEPT !.state = "done", !.code = 0]
    /\ UNCHANGED <<bridge, socket, sidecar, stdin, pipe, browser>>

-----------------------------------------------------------------------------
(* The browser's messages and connection.                                  *)

M_Admits == socket.client = "none"
Admits == socket.client = "none" /\ ~(LazyNative /\ bridge.native)

\* An upgrade request; a lazy bridge starts the sidecar with it.
Upgrade ==
    /\ Alive /\ exit.server /\ Admits
    /\ browser.state \in {"none", "left"}
    /\ socket.session < MaxSessions
    /\ socket' = [client |-> "open", session |-> socket.session + 1,
                  toBrowser |-> <<>>, fromBrowser |-> <<>>]
    /\ browser' = [state |-> "open", asked |-> <<>>, held |-> 0, received |-> <<>>]
    /\ \/ /\ LazyNative
          /\ bridge' = FreshBridge /\ sidecar' = FreshSidecar /\ stdin' = FreshStdin
       \/ ~LazyNative /\ UNCHANGED <<bridge, sidecar, stdin>>
    /\ UNCHANGED <<exit, pipe>>

\* A message of the browser, one at a time.
Message(type) ==
    /\ Alive /\ socket.client # "none"
    /\ socket.fromBrowser # <<>> /\ Head(socket.fromBrowser) = type
Consumed == [socket EXCEPT !.fromBrowser = Tail(@)]

ObjectAck ==
    /\ Message("object-ack")
    /\ Process([bridge EXCEPT !.outstandingObjects = IF @ = 0 THEN 0 ELSE @ - 1],
               Consumed, TRUE)
    /\ UNCHANGED <<pipe, browser>>

\* socket "drain": the browser has read what was buffered.
SocketDrain ==
    /\ Alive /\ socket.client = "open" /\ socket.toBrowser = <<>>
    /\ Process(bridge, socket, TRUE)
    /\ UNCHANGED <<pipe, browser>>

OpenOrPriorities ==
    \E type \in {"open", "priorities"} :
        /\ Message(type)
        /\ socket' = Consumed
        /\ Pump([bridge EXCEPT !.nativeCommands = Append(@, type)])
        /\ UNCHANGED <<sidecar, pipe, browser>>

\* The close command empties the window, and it overtakes the priorities that
\* are still queued.
M_Overtaken(commands) == <<>>
Overtaken(commands) == Only(commands, CommandTypes \ {"priorities"})
M_PausedByClose == bridge.paused
PausedByClose == FALSE

CloseCommand ==
    /\ Message("close")
    /\ Process([bridge EXCEPT !.gracefulClosing = TRUE, !.outstandingObjects = 0,
                              !.paused = PausedByClose,
                              !.nativeCommands = Append(Overtaken(@), "close")],
               Consumed, FALSE)
    /\ UNCHANGED <<pipe, browser>>

\* A WebSocket close frame is answered with one, and a frame the bridge does not
\* accept with code 1008; nothing more is written.
FinalMessage ==
    /\ \/ Message("bye") /\ socket' = Closed(Consumed, 1000)
       \/ Message("bad") /\ socket' = Closed(Consumed, 1008)
    /\ UNCHANGED <<bridge, exit, sidecar, stdin, pipe, browser>>

\* socket "close"; what the browser had still sent may be lost.
SocketClose ==
    /\ Alive /\ socket.client # "none" /\ browser.state = "left"
    /\ socket' = Destroyed(socket)
    /\ exit' = [exit EXCEPT !.server = @ /\ Persistent]
    /\ stdin' = [stdin EXCEPT !.ended = @ \/ ~bridge.gracefulClosing]
    /\ sidecar' = [sidecar EXCEPT !.stopping = @ \/ ~bridge.gracefulClosing]
    /\ UNCHANGED <<bridge, pipe, browser>>

\* SIGINT or SIGTERM: shutdown, then the socket's own "close" event.
Shutdown ==
    /\ Alive /\ "signal" \in Faults
    /\ exit' = [exit EXCEPT !.server = FALSE, !.timer = FALSE]
    /\ socket' = Destroyed(socket)
    /\ browser' = Left(browser)
    /\ stdin' = [stdin EXCEPT !.ended = TRUE]
    /\ sidecar' = [sidecar EXCEPT !.stopping = TRUE]
    /\ UNCHANGED <<bridge, pipe>>

-----------------------------------------------------------------------------
(* The sidecar (priority_moq_sidecar.c) as the bridge sees it.             *)

OnlySidecar == UNCHANGED <<bridge, exit, socket, browser>>
Running == sidecar.process = "running"
HasRoom == Len(pipe) < PipeLimit

\* Callbacks write control frames under state_mutex, and objects after they
\* have released it.  main holds it while it handles a command.
LockFree ==
    /\ sidecar.replies = <<>>
    /\ sidecar.callback # <<>> => IsObject(sidecar.callback[1])

NativeConnects ==
    /\ Running /\ ~sidecar.connected /\ sidecar.main = "loop"
    /\ sidecar.callback = <<>> /\ LockFree
    /\ sidecar' = [sidecar EXCEPT !.connected = TRUE, !.callback = <<Control("ready")>>]
    /\ OnlySidecar /\ UNCHANGED <<stdin, pipe>>

NativeObject ==
    /\ Running /\ sidecar.fetching /\ ~sidecar.stopping
    /\ sidecar.callback = <<>> /\ LockFree
    /\ sidecar.produced < MaxObjects
    /\ sidecar' = [sidecar EXCEPT !.produced = @ + 1,
                                  !.callback = <<Object(sidecar.produced + 1)>>]
    /\ OnlySidecar /\ UNCHANGED <<stdin, pipe>>

\* write_frame: a thread that finds no room waits for it.
CallbackWrites ==
    /\ Running /\ sidecar.callback # <<>> /\ HasRoom
    /\ pipe' = pipe \o sidecar.callback
    /\ sidecar' = [sidecar EXCEPT !.callback = <<>>]
    /\ OnlySidecar /\ UNCHANGED stdin

\* main leaves its loop after the last reply if it has been told to stop.
MainAfter(replies, stopping) == IF replies = <<>> /\ stopping THEN "draining" ELSE "loop"

MainWrites ==
    /\ Running /\ sidecar.replies # <<>> /\ HasRoom
    /\ pipe' = Append(pipe, Head(sidecar.replies))
    /\ sidecar' = [sidecar EXCEPT !.replies = Tail(@),
                                  !.main = MainAfter(Tail(sidecar.replies), sidecar.stopping)]
    /\ OnlySidecar /\ UNCHANGED stdin

\* What a command makes main write, with the lock held.
Replies(type) ==
    CASE type = "open" -> IF sidecar.connected THEN <<Control("status")>> ELSE <<>>
      [] type = "priorities" -> IF sidecar.fetching THEN <<Control("status")>> ELSE <<>>
      [] type = "close" -> <<Control("audit-complete")>>

ReadCommand ==
    /\ Running /\ sidecar.main = "loop"
    /\ stdin.lines # <<>> /\ LockFree
    /\ LET command == Head(stdin.lines)
           stopping == sidecar.stopping \/ command = "close" IN
       /\ stdin' = [stdin EXCEPT !.lines = Tail(@)]
       /\ sidecar' = [sidecar EXCEPT
             !.obeyed = Append(@, command),
             !.fetching = @ \/ (command = "open" /\ sidecar.connected),
             !.stopping = stopping,
             !.replies = Replies(command),
             !.main = MainAfter(Replies(command), stopping)]
    /\ OnlySidecar /\ UNCHANGED pipe

EndOfInput ==
    /\ Running /\ sidecar.main = "loop" /\ sidecar.replies = <<>>
    /\ stdin.lines = <<>> /\ stdin.ended
    /\ sidecar' = [sidecar EXCEPT !.main = "draining", !.stopping = TRUE]
    /\ OnlySidecar /\ UNCHANGED <<stdin, pipe>>

\* main returns once no callback is left inside write_frame, or the process
\* dies where it is.  Node then resumes its output to read the rest.
NativeExit ==
    /\ Running
    /\ \/ sidecar.main = "draining" /\ sidecar.callback = <<>>
       \/ "crash" \in Faults
    /\ sidecar' = [sidecar EXCEPT !.process = "exited", !.replies = <<>>, !.callback = <<>>]
    /\ bridge' = [bridge EXCEPT !.paused = FALSE]
    /\ UNCHANGED <<exit, socket, stdin, pipe, browser>>

-----------------------------------------------------------------------------
(* The browser (external).                                                 *)

OnlyBrowser == UNCHANGED <<bridge, exit, sidecar, stdin, pipe>>
Sends(message) == socket' = [socket EXCEPT !.fromBrowser = Append(@, message)]

CountOf(type) == Len(Only(browser.asked, {type}))
MayAsk(type) ==
    /\ browser.state = "open"
    /\ CountOf("close") = 0 /\ CountOf("bye") = 0 /\ CountOf("bad") = 0
    /\ CASE type = "open" -> CountOf("open") = 0
         [] type = "priorities" -> CountOf("open") = 1 /\ CountOf("priorities") < MaxPriorities
         [] type = "close" -> TRUE
         [] type = "bye" -> TRUE
         [] type = "bad" -> "bad" \in Faults

Ask(type) ==
    /\ MayAsk(type)
    /\ Sends(type)
    /\ browser' = [browser EXCEPT !.asked = Append(@, type)]
    /\ OnlyBrowser

Acknowledge ==
    /\ browser.state = "open" /\ browser.held > 0
    /\ Sends("object-ack")
    /\ browser' = [browser EXCEPT !.held = @ - 1]
    /\ OnlyBrowser

\* A close frame ends the connection.
Receive ==
    /\ browser.state = "open" /\ socket.toBrowser # <<>>
    /\ LET frame == Head(socket.toBrowser) IN
       /\ socket' = [socket EXCEPT !.toBrowser = Tail(@)]
       /\ browser' = [browser EXCEPT
             !.received = Append(@, frame),
             !.held = IF IsObject(frame) THEN @ + 1 ELSE @,
             !.state = IF frame.type = "close" THEN "left" ELSE "open"]
    /\ OnlyBrowser

Leave ==
    /\ browser.state = "open"
    /\ browser' = Left(browser)
    /\ OnlyBrowser /\ UNCHANGED socket

-----------------------------------------------------------------------------

BridgeStep ==
    \/ StdoutData \/ StdinDrain \/ ChildClose
    \/ ObjectAck \/ SocketDrain \/ OpenOrPriorities \/ CloseCommand \/ FinalMessage
    \/ SocketClose
SidecarStep ==
    \/ CallbackWrites \/ MainWrites \/ ReadCommand \/ EndOfInput \/ NativeExit
Timers == AuditExit \/ AuditPolled \/ Exit
Environment ==
    \/ Upgrade \/ SpawnFails \/ Shutdown
    \/ NativeConnects \/ NativeObject
    \/ \E type \in MessageTypes : Ask(type)
    \/ Leave

\* Where the system really stops: the bridge has exited, it idles with no
\* client, or its client left while the window was full, and nothing resumes
\* the sidecar's output any more.
Terminated == ~Alive /\ UNCHANGED vars
Idle == socket.client = "none" /\ sidecar.process \in {"none", "closed"} /\ exit.server
        /\ UNCHANGED vars
Stranded == socket.client = "none" /\ bridge.paused /\ UNCHANGED vars

Next == BridgeStep \/ SidecarStep \/ Timers \/ Environment \/ Receive \/ Acknowledge
        \/ Terminated \/ Idle \/ Stranded

Spec == Init /\ [][Next]_vars

\* Node delivers the events that are ready, the sidecar's threads are
\* scheduled, and a browser that stays reads and acknowledges.
Fairness ==
    /\ WF_vars(StdoutData) /\ WF_vars(StdinDrain) /\ WF_vars(ChildClose)
    /\ WF_vars(ObjectAck \/ OpenOrPriorities \/ CloseCommand \/ FinalMessage)
    /\ WF_vars(SocketClose)
    /\ WF_vars(CallbackWrites) /\ WF_vars(MainWrites)
    /\ SF_vars(ReadCommand)
    /\ WF_vars(EndOfInput) /\ WF_vars(NativeExit)
    /\ WF_vars(Receive) /\ WF_vars(Acknowledge)

FairSpec == Spec /\ Fairness

-----------------------------------------------------------------------------
(* Properties.                                                             *)

Frames == FramesOf(NativeTypes \union {"error", "close"})
NativeFrames == FramesOf(NativeTypes)

\* Every record has its fields, the sidecar writes no frame of the bridge's own,
\* and no buffer holds more than its limit and the close frame that ends it.
TypeOK ==
    /\ bridge \in [native : BOOLEAN, nativeReady : BOOLEAN, nativeBytes : Seq(NativeFrames),
                   gracefulClosing : BOOLEAN, auditComplete : BOOLEAN,
                   nativeInputBlocked : BOOLEAN, nativeCommands : Seq(CommandTypes),
                   outstandingObjects : 0..Window, paused : BOOLEAN]
    /\ exit \in [timer : BOOLEAN, server : BOOLEAN, state : {"no", "pending", "done"},
                 code : {0, 1}]
    /\ socket \in [client : {"none", "open", "ended"}, session : 0..MaxSessions,
                   toBrowser : Seq(Frames),
                   fromBrowser : Seq(MessageTypes \union {"object-ack"})]
    /\ sidecar \in [process : {"none", "running", "exited", "closed"}, connected : BOOLEAN,
                    fetching : BOOLEAN, stopping : BOOLEAN, main : {"loop", "draining"},
                    replies : Seq(NativeFrames), callback : Seq(NativeFrames),
                    produced : 0..MaxObjects, obeyed : Seq(CommandTypes)]
    /\ stdin \in [lines : Seq(CommandTypes), ended : BOOLEAN]
    /\ pipe \in Seq(NativeFrames)
    /\ browser \in [state : {"none", "open", "left"}, asked : Seq(MessageTypes),
                    held : 0..Window, received : Seq(Frames)]
    /\ Len(socket.toBrowser) <= BufferLimit + (IF socket.client = "open" THEN 0 ELSE 1)
    /\ Len(stdin.lines) <= StdinLimit /\ Len(pipe) <= PipeLimit

\* The objects the browser has not acknowledged, wherever they and their
\* acknowledgements are, never exceed the window ("bridge preserves objects
\* with a bounded ACK window", tests/test_priority_ws_bridge.mjs:12).
AcksIn(messages) == Len(Only(messages, {"object-ack"}))
AckWindow ==
    socket.client # "none" =>
        Len(ObjectsOf(socket.toBrowser)) + browser.held + AcksIn(socket.fromBrowser) <= Window

\* The objects of a session reach the browser in order and without a gap,
\* whatever was paused, discarded at close or cut off; without a close or an
\* ended socket none is missing anywhere between the sidecar and the browser.
Read == browser.received \o socket.toBrowser
Numbered(frames) == \A i \in DOMAIN ObjectsOf(frames) : ObjectsOf(frames)[i].n = i
ObjectsKept ==
    LET along == Read \o bridge.nativeBytes \o pipe \o sidecar.callback IN
    socket.client # "none" =>
        /\ Numbered(Read)
        /\ socket.client = "open" /\ ~bridge.gracefulClosing
              /\ sidecar.process \notin {"exited", "closed"} =>
              Numbered(along) /\ Len(ObjectsOf(along)) = sidecar.produced

\* Every command reaches the sidecar once and in order, except priorities
\* that a close command overtakes.
Commands(messages) == Only(messages, CommandTypes)
Essential(messages) == Only(messages, CommandTypes \ {"priorities"})
CommandsKept ==
    LET reaching == sidecar.obeyed \o stdin.lines \o bridge.nativeCommands
                    \o Commands(socket.fromBrowser) IN
    socket.client # "none" /\ ~stdin.ended /\ Alive =>
        IF bridge.gracefulClosing THEN Essential(reaching) = Essential(browser.asked)
                                  ELSE reaching = Commands(browser.asked)

\* A browser reads nothing of an earlier session.
SessionIsolated ==
    LazyNative /\ socket.client # "none" =>
        \A i \in DOMAIN Read : Read[i].session = socket.session

\* Both directions of a session at once: neither the window, nor a close, nor
\* a session that is still ending costs the browser an object, loses a command
\* the sidecar waits for, or mixes in what belongs to another session.
StreamsKept == ObjectsKept /\ CommandsKept /\ SessionIsolated

\* A browser that reads the close code 1000 after its close command has the
\* audit before it.
CleanCodeAudited ==
    \A i \in DOMAIN browser.received :
        /\ browser.received[i].type = "close"
        /\ browser.received[i].n = 1000
        /\ CountOf("bye") = 0
        => \E j \in 1..(i - 1) : browser.received[j].type = "audit-complete"

\* "guest process status must also reject a missing audit"
\* (tests/test_priority_ws_bridge.mjs:140): status 0 after a session means
\* that its audit is complete.
StatusRejectsMissingAudit ==
    ~Alive /\ exit.code = 0 /\ ~Persistent /\ socket.session > 0 => bridge.auditComplete

\* A close command that finds the sidecar ready is answered by its audit and
\* then by its end, though the window, the pipe and the sidecar's own threads
\* may be blocked and the browser may leave.
CloseIsAudited ==
    bridge.gracefulClosing /\ bridge.nativeReady
        ~> bridge.auditComplete /\ sidecar.process = "closed"

\* Objects keep flowing to a browser that stays.
Flowing ==
    \/ Len(ObjectsOf(browser.received)) = sidecar.produced
    \/ bridge.gracefulClosing \/ socket.client # "open" \/ browser.state # "open"
ObjectsFlow == []<>Flowing
=============================================================================
