--------------------------- MODULE MessageDelivery ---------------------------
(***************************************************************************)
(* The outboxes of several windows sending to the server.  The socket is   *)
(* the pair of actions that change both sides: an emit fills a handler     *)
(* slot, an acknowledgement empties it.  An acknowledgement nobody waits   *)
(* for any more is dropped (DropAck).                                      *)
(*                                                                         *)
(* Faults are the steps that disturb an attempt; MaxFaults bounds their    *)
(* number in one behaviour.  After the last one the network is stable.     *)
(***************************************************************************)
EXTENDS Outbox, MessageSend

CONSTANT MaxFaults  \* disturbances in one behaviour (bound)

ASSUME FaultAssumption == MaxFaults \in Nat

VARIABLE faults

vars == <<outboxVars, sendVars, faults>>

TypeOK == OutboxTypeOK /\ SendTypeOK /\ faults \in 0..MaxFaults

Init == OutboxInit /\ SendInit /\ faults = 0

-----------------------------------------------------------------------------
(* Steps of both sides.                                                    *)

UploadFile(s, a) == Uploaded(s, a) /\ CreateAttachment(a, session[s].user)

Send(s, h) == Emit(s, h) /\ Receive(h, Payload(s))

Ack(s) ==
  /\ session[s].call # NoSlot
  /\ Finish(session[s].call)
  /\ Acked(s, handler[session[s].call].reply)

DropAck(h) ==
  /\ \A s \in Sessions : session[s].call = h => ~session[s].online
  /\ Finish(h)
  /\ UNCHANGED outboxVars

-----------------------------------------------------------------------------
UserStep ==
  /\ \E s \in Sessions, id \in Ids :
        \/ Restore(s, id) \/ Retry(s, id) \/ Discard(s, id)
        \/ \E body \in Bodies : Enqueue(s, id, body) \/ Resend(s, id, body)
  /\ UNCHANGED sendVars

\* No answer can come any more: the ten seconds will run out.
Unanswerable(s) ==
  session[s].call # NoSlot
    => ~session[s].online \/ handler[session[s].call] = Free

LoopStep(s) ==
  /\ \/ \E id \in Ids : Pick(s, id)
     \/ Poll(s) \/ Claim(s) \/ CheckLimit(s) \/ SaveUpload(s) \/ ConnectionLost(s)
     \/ Clear(s) \/ Settle(s) \/ Rest(s)
     \/ Unanswerable(s) /\ TimeOut(s)
  /\ UNCHANGED sendVars

SocketStep(s) ==
  \/ \E a \in Attachments : UploadFile(s, a)
  \/ \E h \in Slots : Send(s, h)
  \/ Ack(s)

TimePasses(id) ==
  /\ BackoffEnds(id) \/ (~Attended(id) /\ LeaseExpires(id))
  /\ UNCHANGED sendVars

ServerStep(h) == HandlerStep(h) /\ UNCHANGED outboxVars

\* Decisions of the server and the user's coming and going: no disturbance.
Choice ==
  \/ \E h \in Slots : (Refuse(h) \/ Invalid(h)) /\ UNCHANGED outboxVars
  \/ \E s \in Sessions : (Renew(s) \/ Wake(s) \/ UploadFails(s, FALSE))
                            /\ UNCHANGED sendVars

Returns(s) ==
  /\ GoOnline(s) \/ \E u \in Users : StartSession(s, u)
  /\ UNCHANGED sendVars

WritesRows(id) == RecordRows(id) /\ UNCHANGED outboxVars

Disturbance ==
  \/ /\ \E s \in Sessions : \/ TimeOut(s) \/ UploadFails(s, TRUE) \/ StorageFails(s)
                            \/ WindowGone(s) \/ StopSession(s) \/ GoOffline(s)
     /\ UNCHANGED sendVars
  \* a suspended window misses its renewals
  \/ \E id \in Ids : Attended(id) /\ LeaseExpires(id) /\ UNCHANGED sendVars
  \/ \E h \in Slots : ServerError(h) /\ UNCHANGED outboxVars
  \/ \E id \in Ids : RecordFails(id) /\ UNCHANGED outboxVars
  \/ \E a \in Attachments : ReapOrphan(a) /\ UNCHANGED outboxVars
  \* an upload whose answer never arrived
  \/ \E s \in Sessions, a \in Attachments :
        UploadFails(s, TRUE) /\ CreateAttachment(a, session[s].user)
  \/ ServerCrash /\ UNCHANGED outboxVars

Quiet ==
  \/ UserStep
  \/ \E s \in Sessions : LoopStep(s) \/ SocketStep(s) \/ Returns(s)
  \/ \E h \in Slots : ServerStep(h) \/ DropAck(h)
  \/ \E id \in Ids : TimePasses(id) \/ WritesRows(id)
  \/ Choice

Fault == faults < MaxFaults /\ faults' = faults + 1 /\ Disturbance

Next ==
  \/ Quiet /\ UNCHANGED faults
  \/ Fault

Spec == Init /\ [][Next]_vars

\* run() is re-armed while work is pending, handlers finish, sockets
\* reconnect, the user opens the app again, leases and backoffs run out.
\* Nothing is asked of the user's own decisions or of the disturbances.
Fairness ==
  /\ \A s \in Sessions : /\ WF_vars(LoopStep(s) /\ UNCHANGED faults)
                         /\ WF_vars(SocketStep(s) /\ UNCHANGED faults)
                         /\ WF_vars(Returns(s) /\ UNCHANGED faults)
  /\ \A h \in Slots : /\ WF_vars(ServerStep(h) /\ UNCHANGED faults)
                      /\ WF_vars(DropAck(h) /\ UNCHANGED faults)
  /\ \A id \in Ids : /\ WF_vars(TimePasses(id) /\ UNCHANGED faults)
                     /\ WF_vars(WritesRows(id) /\ UNCHANGED faults)

FairSpec == Spec /\ Fairness

-----------------------------------------------------------------------------
(* Safety.                                                                 *)

\* However often a message is retried, by however many windows, the room
\* hears of it at most once (the replay answers skip the fan-out).
OneAnnouncement == \A id \in Ids : broadcasts[id] <= 1

\* A queued message is only ever posted by the account that wrote it, whoever
\* signs in on the device afterwards.
PostedByItsAuthor ==
  \A id \in Ids : IsStored(id) => stored[id].author = author[id]

Files(id) == {stored[id].atts[i] : i \in 1..Len(stored[id].atts)}

\* A posted message has every file its author attached, and shares none with
\* another message, even when windows upload for the same item.
PostedComplete ==
  \A id \in Ids : IsStored(id) =>
    /\ Len(stored[id].atts) = FileCount[stored[id].body]
    /\ \A a \in Files(id) : attachment[a].state = "linked"
    /\ \A other \in Ids \ {id} : Files(id) \cap Files(other) = {}

\* A message leaves the device only once the server has it, or because its
\* author discarded it while no window was sending it.
LeavesOnlyWhenSafe ==
  [][\A id \in Ids : InOutbox(id) /\ ~InOutbox(id)' =>
       \/ IsStored(id)
       \/ id \in discarded' /\ outbox[id].status # "sending"]_vars

\* While a window holds the lease of an item it is sending, nobody else
\* changes that item; time can only lift its lease and its backoff.
LeaseRespected ==
  [][\A id \in Ids, s \in Sessions :
       /\ outbox[id].status = "sending" /\ outbox[id].leased
       /\ outbox[id].owner = s
       /\ session'[s] = session[s]
       => outbox'[id] \in {outbox[id], [outbox[id] EXCEPT !.leased = FALSE],
                           [outbox[id] EXCEPT !.waiting = FALSE]}]_vars

\* One author's messages are posted in the order they were written, retries
\* and several windows included, unless one of the two was rejected or
\* discarded on the way.
PostedInOrder ==
  [][\A later, earlier \in Ids :
       /\ ~IsStored(later) /\ IsStored(later)'
       /\ InOutbox(earlier) /\ InOutbox(later)
       /\ outbox[earlier].user = outbox[later].user
       /\ outbox[earlier].createdAt < outbox[later].createdAt
       /\ {earlier, later} \cap (failed \cup discarded) = {}
       => IsStored(earlier)]_vars

-----------------------------------------------------------------------------
(* The abstract contract.                                                  *)

Contract == INSTANCE ExactlyOnce WITH
  held      <- {id \in Ids : InOutbox(id)},
  posted    <- {id \in Ids : IsStored(id)},
  announced <- broadcasts,
  withdrawn <- discarded

\* Sending through the outbox implements exactly-once delivery.
ImplementsExactlyOnce == Contract!Spec

-----------------------------------------------------------------------------
(* Liveness.                                                               *)

\* Once the network is stable, an item the device holds is posted and cleared,
\* or is shown as failed, or its author discards it: no lease of a closed
\* window and no lost acknowledgement leaves it in between for ever.
EveryItemSettles ==
  \A id \in Ids :
    (InOutbox(id) /\ outbox[id].status # "failed")
      ~> (~InOutbox(id) \/ outbox[id].status = "failed")

\* docs/NOTIFICATIONS.md: "Nothing is ever silently lost. Every
\* notification-producing event writes a durable row first."
NothingSilentlyLost ==
  \A id \in Ids : IsStored(id) ~> id \in recorded

\* docs/CONVERSATIONS.md: "Queued messages are sent automatically when the
\* open app reconnects": what is cleared as sent is what the author queued.
SentAsWritten ==
  [][\A id \in Ids : InOutbox(id) /\ ~InOutbox(id)' /\ id \notin discarded' =>
       stored[id].body = outbox[id].body]_vars
=============================================================================
