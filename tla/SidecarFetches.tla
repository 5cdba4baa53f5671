-------------------------- MODULE SidecarFetches --------------------------
(***************************************************************************)
(* The FETCH and priority-update protocol of priority_moq_sidecar.c: what  *)
(* the main thread does with the browser's commands and what the QUIC      *)
(* thread's callbacks do with the relay's answers and objects.  The relay  *)
(* is external and modelled by the calls and callbacks of imquic.          *)
(*                                                                         *)
(* state_mutex serialises both threads.  main keeps it for a whole command *)
(* (main = "items"); every callback holds it for its whole body, except    *)
(* incoming_object, which writes its frame and its status after unlocking. *)
(* Frames handed to write_frame are appended to the log `out`; SidecarOutput *)
(* shows that the bridge reads them in that order.                         *)
(*                                                                         *)
(* An operator named M_X is X with a plausible mistake in it, for mutation *)
(* runs; no specification uses it.                                         *)
(***************************************************************************)
EXTENDS Integers, Sequences, FiniteSets

CONSTANTS
    Fetches,        \* the request ids a session may open
    Priorities,     \* subscriber priorities, 0..255 in the code
    Objects,        \* object ids of a fetch; the largest ends the stream
    MaxEpochs,      \* bound on the "priorities" commands
    MaxItems,       \* bound on the items of one command
    MaxFailures     \* bound on failed sends and on rejected updates

ASSUME BoundsAssumption == MaxEpochs \in Nat /\ MaxItems \in Nat /\ MaxFailures \in Nat
ASSUME ObjectsAssumption == Objects \subseteq Nat

VARIABLES
    connection,     \* "none" before ready, "up", or "gone"
    stopping,
    main,           \* "loop", "items", "closing", "draining" or "ended"
    items,          \* what is left of the command main is handling
    epoch,          \* epoch of the last "priorities" command
    opened,         \* the keys of the table `fetches`
    applied, desired, pending,  \* per fetch: priority and epoch
    update_id,      \* per fetch: the id of its last update
    update_pending, \* the fetches whose update_pending is set
    complete,       \* the fetches whose complete is set
    objects,        \* per fetch: the object ids seen
    updates,        \* the table of updates in flight
    next_id,        \* imquic_moq_get_next_request_id
    delivery,       \* what incoming_object still has to write
    out,            \* history: the frames handed to write_frame, in order
    served,         \* relay: the fetches it has accepted
    requests,       \* relay: updates on the way, in either direction
    relay_priority, \* relay: the priority it serves each fetch with
    failures        \* sends failed and updates rejected so far

fetchVars == <<opened, applied, desired, complete, objects>>
updateVars == <<pending, update_id, update_pending, updates, next_id, requests>>
relayVars == <<served, relay_priority>>
vars == <<connection, stopping, main, items, epoch, fetchVars, updateVars,
          delivery, out, relayVars, failures>>

Targets == [priority : Priorities, epoch : 0..MaxEpochs]
Unset == [priority |-> 0, epoch |-> 0]
NoDelivery == [stage |-> "none"]
LastObject == CHOOSE o \in Objects : \A x \in Objects : x <= o

Init ==
    /\ connection = "none"
    /\ stopping = FALSE
    /\ main = "loop"
    /\ items = <<>>
    /\ epoch = 0
    /\ opened = {}
    /\ applied = [f \in Fetches |-> Unset]
    /\ desired = [f \in Fetches |-> Unset]
    /\ pending = [f \in Fetches |-> Unset]
    /\ update_id = [f \in Fetches |-> 0]
    /\ update_pending = {}
    /\ complete = {}
    /\ objects = [f \in Fetches |-> {}]
    /\ updates = {}
    /\ next_id = 1
    /\ delivery = NoDelivery
    /\ out = <<>>
    /\ served = {}
    /\ requests = {}
    /\ relay_priority = [f \in Fetches |-> 0]
    /\ failures = 0

-----------------------------------------------------------------------------
(* Frames on standard output.                                              *)

Event(type, f, id, target) ==
    [type |-> type, fetch |-> f, id |-> id, target |-> target]

-----------------------------------------------------------------------------
(* The lock and the threads.                                               *)

\* A callback runs when main does not hold state_mutex and the QUIC thread
\* is not still inside incoming_object.
CallbackMayRun ==
    /\ main \notin {"items", "ended"}
    /\ delivery = NoDelivery

\* main tests `stopping` only between commands: a line that getline was
\* already waiting for is still handled.
AfterCommand == IF stopping THEN "draining" ELSE "loop"

-----------------------------------------------------------------------------
(* send_next_update, called with the lock held.  The caller has computed    *)
(* the fetch's desired and applied targets, the pending flags, the table    *)
(* and the log.                                                             *)

M_NeedsUpdate(f, d, a, busy) ==
    connection = "up" /\ f \notin complete /\ d.priority # a.priority
NeedsUpdate(f, d, a, busy) ==
    /\ connection = "up"
    /\ f \notin complete
    /\ f \notin busy
    /\ d.priority # a.priority

Table(id, f, table) == table \union {[id |-> id, fetch |-> f]}

SendNextUpdate(f, d, a, busy, table, log) ==
    \/ /\ ~NeedsUpdate(f, d, a, busy)
       /\ update_pending' = busy
       /\ updates' = table
       /\ out' = log
       /\ UNCHANGED <<pending, update_id, next_id, failures>>
    \/ /\ NeedsUpdate(f, d, a, busy)      \* imquic_moq_update_request succeeds
       /\ update_id' = [update_id EXCEPT ![f] = next_id]
       /\ pending' = [pending EXCEPT ![f] = d]
       /\ update_pending' = busy \union {f}
       /\ updates' = Table(next_id, f, table)
       /\ next_id' = next_id + 1
       /\ out' = Append(log, Event("priority-sent", f, next_id, d))
       /\ UNCHANGED failures
    \/ /\ NeedsUpdate(f, d, a, busy)      \* it returns an error
       /\ failures < MaxFailures
       /\ failures' = failures + 1
       /\ update_pending' = busy
       /\ updates' = table
       /\ next_id' = next_id + 1
       /\ out' = Append(log, Event("priority-unsent", f, next_id, d))
       /\ UNCHANGED <<pending, update_id>>

\* A sent update is on its way to the relay.
Sent == {[id |-> u.id, fetch |-> u.fetch, target |-> pending'[u.fetch],
          answer |-> "none"] : u \in updates' \ updates}

-----------------------------------------------------------------------------
(* main: one command at a time.                                            *)

\* The items of a command, at most one per fetch.
ItemLists(S) ==
    {l \in UNION {[1..n -> [fetch : S, priority : Priorities]] : n \in 1..MaxItems} :
        \A i, j \in DOMAIN l : l[i].fetch = l[j].fetch => i = j}

Begin(type, list) ==
    /\ main = "loop"
    /\ main' = "items"
    /\ items' = [i \in DOMAIN list |-> [type |-> type, fetch |-> list[i].fetch,
                                        priority |-> list[i].priority]]
    /\ UNCHANGED <<connection, stopping, fetchVars, updateVars, delivery, out,
                   relayVars, failures>>

\* Without a connection handle_open returns at once.
ReadOpen ==
    /\ connection = "up"
    /\ \E list \in ItemLists(Fetches \ opened) : Begin("open", list)
    /\ UNCHANGED epoch

ReadPriorities ==
    /\ epoch < MaxEpochs
    /\ epoch' = epoch + 1
    /\ \E list \in ItemLists(Fetches) : Begin("priorities", list)

\* The loop over the items; the lock is released after the last one.
NextItem ==
    /\ main = "items"
    /\ items' = Tail(items)
    /\ main' = IF Len(items) = 1 THEN AfterCommand ELSE "items"

\* One turn of handle_open's loop.
Open ==
    LET f == Head(items).fetch
        target == [priority |-> Head(items).priority, epoch |-> epoch] IN
    /\ NextItem
    /\ Head(items).type = "open"
    /\ opened' = opened \union {f}
    /\ applied' = [applied EXCEPT ![f] = target]
    /\ desired' = [desired EXCEPT ![f] = target]
    /\ \/ /\ served' = served \union {f}
          /\ relay_priority' = [relay_priority EXCEPT ![f] = target.priority]
          /\ out' = Append(out, Event("fetch-opened", f, 0, target))
          /\ UNCHANGED failures
       \/ /\ failures < MaxFailures       \* imquic_moq_standalone_fetch fails
          /\ failures' = failures + 1
          /\ out' = Append(out, Event("fetch-failed", f, 0, target))
          /\ UNCHANGED relayVars
    /\ UNCHANGED <<connection, stopping, epoch, complete, objects, updateVars,
                   delivery>>

\* One turn of handle_priorities' loop.
Known(f) == f \in opened
SameTarget(f, priority) == desired[f].priority = priority

SetPriority ==
    LET f == Head(items).fetch
        target == [priority |-> Head(items).priority, epoch |-> epoch] IN
    /\ NextItem
    /\ Head(items).type = "priorities"
    /\ \/ /\ ~Known(f) \/ SameTarget(f, target.priority)
          /\ UNCHANGED <<desired, updateVars, out, failures>>
       \/ /\ Known(f) /\ ~SameTarget(f, target.priority)
          /\ desired' = [desired EXCEPT ![f] = target]
          /\ SendNextUpdate(f, target, applied[f], update_pending, updates,
                IF f \in update_pending
                THEN Append(out, Event("priority-superseded", f, update_id[f], target))
                ELSE out)
          /\ requests' = requests \union Sent
    /\ UNCHANGED <<connection, stopping, epoch, opened, applied, complete,
                   objects, delivery, relayVars>>

\* handle_command on "close": the flag is set before the lock is taken.
ReadClose ==
    /\ main = "loop"
    /\ main' = "closing"
    /\ stopping' = TRUE
    /\ UNCHANGED <<connection, items, epoch, fetchVars, updateVars, delivery,
                   out, relayVars, failures>>

\* handle_close.  The "priority-failed" messages of the unresolved updates,
\* written just before it, are part of the audit event.
M_Forgotten == updates
Forgotten == {}
Unresolved == {update_id[f] : f \in update_pending}

HandleClose ==
    /\ main = "closing"
    /\ main' = "draining"
    /\ out' = Append(out, [type |-> "audit-complete", unresolved |-> Unresolved])
    /\ update_pending' = {}
    /\ updates' = Forgotten
    /\ UNCHANGED <<connection, stopping, items, epoch, fetchVars, pending,
                   update_id, next_id, requests, delivery, relayVars, failures>>

\* End of standard input, without a close command.
EndOfInput ==
    /\ main = "loop"
    /\ main' = "draining"
    /\ stopping' = TRUE
    /\ UNCHANGED <<connection, items, epoch, fetchVars, updateVars, delivery,
                   out, relayVars, failures>>

\* A signal, or a failed writer: SidecarOutput's RequestStop and Account.
Stop ==
    /\ ~stopping
    /\ stopping' = TRUE
    /\ UNCHANGED <<connection, main, items, epoch, fetchVars, updateVars,
                   delivery, out, relayVars, failures>>

\* imquic_shutdown_endpoint and imquic_deinit: no callback runs afterwards.
Deinit ==
    /\ main = "draining"
    /\ delivery = NoDelivery
    /\ main' = "ended"
    /\ UNCHANGED <<connection, stopping, items, epoch, fetchVars, updateVars,
                   delivery, out, relayVars, failures>>

-----------------------------------------------------------------------------
(* The QUIC thread: imquic's callbacks.                                    *)

Ready ==
    /\ CallbackMayRun
    /\ connection = "none"
    /\ connection' = "up"
    /\ UNCHANGED <<stopping, main, items, epoch, fetchVars, updateVars,
                   delivery, out, relayVars, failures>>

\* With the connection every answer on its way is lost.
Gone ==
    /\ CallbackMayRun
    /\ connection = "up"
    /\ connection' = "gone"
    /\ requests' = {}
    /\ UNCHANGED <<stopping, main, items, epoch, fetchVars, pending, update_id,
                   update_pending, updates, next_id, delivery, out, relayVars,
                   failures>>

M_AppliedBy(f) == desired[f]
AppliedBy(f) == pending[f]
M_Wanted(f) == pending[f]
Wanted(f) == desired[f]

UpdateAccepted(r) ==
    LET f == r.fetch IN
    /\ CallbackMayRun
    /\ r.answer = "accepted"
    /\ \/ /\ [id |-> r.id, fetch |-> f] \in updates
          /\ applied' = [applied EXCEPT ![f] = AppliedBy(f)]
          /\ SendNextUpdate(f, Wanted(f), AppliedBy(f), update_pending \ {f},
                updates \ {[id |-> r.id, fetch |-> f]},
                Append(out, Event("priority-accepted", f, r.id, AppliedBy(f))))
          /\ requests' = (requests \ {r}) \union Sent
       \/ /\ [id |-> r.id, fetch |-> f] \notin updates
          /\ requests' = requests \ {r}
          /\ UNCHANGED <<applied, pending, update_id, update_pending, updates,
                         next_id, out, failures>>
    /\ UNCHANGED <<connection, stopping, main, items, epoch, opened, desired,
                   complete, objects, delivery, relayVars>>

\* The failed target stays desired and nothing is sent.
UpdateError(r) ==
    LET f == r.fetch IN
    /\ CallbackMayRun
    /\ r.answer = "rejected"
    /\ requests' = requests \ {r}
    /\ \/ /\ [id |-> r.id, fetch |-> f] \in updates
          /\ updates' = updates \ {[id |-> r.id, fetch |-> f]}
          /\ update_pending' = update_pending \ {f}
          /\ out' = Append(out, Event("priority-failed", f, r.id, pending[f]))
       \/ /\ [id |-> r.id, fetch |-> f] \notin updates
          /\ UNCHANGED <<updates, update_pending, out>>
    /\ UNCHANGED <<connection, stopping, main, items, epoch, fetchVars, pending,
                   update_id, next_id, delivery, relayVars, failures>>

\* incoming_object up to its unlock: the header is built under the lock.
IsDuplicate(f, o) == o \in objects[f]
Recorded(f, o) == [objects EXCEPT ![f] = @ \union {o}]
M_Finished(f) == FALSE
Finished(f) == f \in complete
M_Stamp(f) == desired[f]
Stamp(f) == applied[f]

IncomingObject(f, o) ==
    /\ CallbackMayRun
    /\ connection = "up"
    /\ f \in served
    /\ ~stopping
    /\ ~Finished(f)
    /\ ~IsDuplicate(f, o)
    /\ objects' = Recorded(f, o)
    /\ complete' = IF o = LastObject THEN complete \union {f} ELSE complete
    /\ delivery' = [stage |-> "frame", fetch |-> f, object |-> o, target |-> Stamp(f)]
    /\ UNCHANGED <<connection, stopping, main, items, epoch, opened, applied,
                   desired, updateVars, out, relayVars, failures>>

\* ... and after it: the frame, then the status of a finished fetch.
WriteObject ==
    /\ delivery.stage = "frame"
    /\ out' = Append(out, Event("object", delivery.fetch, delivery.object, delivery.target))
    /\ delivery' = IF delivery.object = LastObject
                   THEN [delivery EXCEPT !.stage = "status"] ELSE NoDelivery
    /\ UNCHANGED <<connection, stopping, main, items, epoch, fetchVars,
                   updateVars, relayVars, failures>>

WriteComplete ==
    /\ delivery.stage = "status"
    /\ out' = Append(out, Event("complete", delivery.fetch, 0, delivery.target))
    /\ delivery' = NoDelivery
    /\ UNCHANGED <<connection, stopping, main, items, epoch, fetchVars,
                   updateVars, relayVars, failures>>

-----------------------------------------------------------------------------
(* The relay (external): it answers each update once.                      *)

RelayAccepts(r) ==
    /\ r.answer = "none"
    /\ r.fetch \in served
    /\ requests' = (requests \ {r}) \union {[r EXCEPT !.answer = "accepted"]}
    /\ relay_priority' = [relay_priority EXCEPT ![r.fetch] = r.target.priority]
    /\ UNCHANGED <<connection, stopping, main, items, epoch, fetchVars, pending,
                   update_id, update_pending, updates, next_id, delivery, out,
                   served, failures>>

\* It always rejects an update of a fetch it does not serve.
RelayRejects(r) ==
    /\ r.answer = "none"
    /\ \/ r.fetch \notin served /\ UNCHANGED failures
       \/ r.fetch \in served /\ failures < MaxFailures /\ failures' = failures + 1
    /\ requests' = (requests \ {r}) \union {[r EXCEPT !.answer = "rejected"]}
    /\ UNCHANGED <<connection, stopping, main, items, epoch, fetchVars, pending,
                   update_id, update_pending, updates, next_id, delivery, out,
                   relayVars>>

Ended == main = "ended" /\ UNCHANGED vars

Commands == ReadOpen \/ ReadPriorities \/ Open \/ SetPriority
Leaving == ReadClose \/ HandleClose \/ EndOfInput \/ Stop \/ Deinit
Answers == \E r \in requests : UpdateAccepted(r) \/ UpdateError(r)
Deliveries ==
    \/ \E f \in Fetches, o \in Objects : IncomingObject(f, o)
    \/ WriteObject
    \/ WriteComplete
Relay == \E r \in requests : RelayAccepts(r) \/ RelayRejects(r)

Next == Commands \/ Leaving \/ Ready \/ Gone \/ Answers \/ Deliveries \/ Relay \/ Ended

Spec == Init /\ [][Next]_vars

\* Both threads are scheduled and the relay answers every update.
Fairness ==
    /\ WF_vars(Open \/ SetPriority \/ HandleClose \/ Deinit)
    /\ WF_vars(WriteObject \/ WriteComplete)
    /\ WF_vars(Answers)
    /\ WF_vars(Relay)

FairSpec == Spec /\ Fairness

-----------------------------------------------------------------------------
(* Properties.                                                             *)

AnyTarget == Targets \union {Unset}

TypeOK ==
    /\ connection \in {"none", "up", "gone"}
    /\ stopping \in BOOLEAN
    /\ main \in {"loop", "items", "closing", "draining", "ended"}
    /\ items \in Seq([type : {"open", "priorities"}, fetch : Fetches, priority : Priorities])
    /\ main = "items" <=> items # <<>>
    /\ epoch \in 0..MaxEpochs
    /\ opened \subseteq Fetches
    /\ applied \in [Fetches -> AnyTarget]
    /\ desired \in [Fetches -> AnyTarget]
    /\ pending \in [Fetches -> AnyTarget]
    /\ update_id \in [Fetches -> Nat]
    /\ update_pending \subseteq opened
    /\ complete \subseteq served
    /\ objects \in [Fetches -> SUBSET Objects]
    /\ updates \subseteq [id : Nat, fetch : Fetches]
    /\ next_id \in Nat
    /\ served \subseteq opened
    /\ requests \subseteq [id : Nat, fetch : Fetches, target : AnyTarget,
                            answer : {"none", "accepted", "rejected"}]
    /\ relay_priority \in [Fetches -> Priorities \union {0}]
    /\ failures \in 0..MaxFailures

\* The table of updates and the fetches' own fields tell the same story,
\* through supersession, rejection, loss of the connection and close.
TableMatches ==
    updates = {[id |-> update_id[f], fetch |-> f] : f \in update_pending}

\* A fetch never has two updates on the wire, so the relay cannot apply them
\* in the wrong order (send_next_update waits for the answer).
OneUpdateInFlight ==
    \A r, s \in requests : r.fetch = s.fetch => r = s

\* While the connection and the command loop live, what the sidecar calls
\* applied is what the relay serves with, up to the one update in flight.
AgreesWithRelay ==
    connection = "up" /\ main \notin {"draining", "ended"} =>
        \A f \in served :
            \/ relay_priority[f] = applied[f].priority
            \/ /\ f \in update_pending
               /\ relay_priority[f] = pending[f].priority

\* Every update reported as sent is reported as accepted, failed or unresolved
\* exactly once, unless it is still in the table.
Resolutions(id) ==
    Cardinality({i \in DOMAIN out :
        \/ /\ out[i].type \in {"priority-accepted", "priority-failed"}
           /\ out[i].id = id
        \/ /\ out[i].type = "audit-complete"
           /\ id \in out[i].unresolved})

ResolvedOnce ==
    \A i \in DOMAIN out : out[i].type = "priority-sent" =>
        Resolutions(out[i].id) =
            (IF \E u \in updates : u.id = out[i].id THEN 0 ELSE 1)

\* audit-complete is the last word on priorities: only the object that
\* incoming_object was writing, and its status, may still follow it.
AuditIsFinal ==
    \A i, j \in DOMAIN out :
        i < j /\ out[i].type = "audit-complete" =>
            /\ out[j].type \in {"object", "complete"}
            /\ j <= i + 2

\* An object never carries a priority that the browser has not been told of
\* by an earlier fetch-opened or priority-accepted message.
AnnouncedBeforeUse ==
    \A j \in DOMAIN out : out[j].type = "object" =>
        \E i \in 1..(j - 1) :
            /\ out[i].type \in {"fetch-opened", "priority-accepted"}
            /\ out[i].fetch = out[j].fetch
            /\ out[i].target = out[j].target

\* After a fetch's "complete" status nothing is delivered or sent for it,
\* though the status is written outside the lock.
CompleteIsLast ==
    \A i, j \in DOMAIN out :
        i < j /\ out[i].type = "complete" =>
            /\ out[j].type \in {"object", "priority-sent", "complete"} =>
                  out[j].fetch # out[i].fetch

\* The order the browser audits: what it reads of updates, objects and ends
\* is a story of one connection, although the frames of incoming_object are
\* written after state_mutex is released (lines 412-417).
FrameOrder == ResolvedOnce /\ AuditIsFinal /\ AnnouncedBeforeUse /\ CompleteIsLast

\* As long as no send fails and the relay rejects nothing, the browser's last
\* wish for a fetch is eventually applied, however often it was superseded.
Settled(f) ==
    \/ desired[f].priority = applied[f].priority
    \/ f \in complete \/ connection # "up" \/ stopping \/ failures > 0
Converges == \A f \in Fetches : []<>Settled(f)
=============================================================================
