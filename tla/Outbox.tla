-------------------------------- MODULE Outbox --------------------------------
(***************************************************************************)
(* The browser's half of sending a message: the durable outbox             *)
(* (stores/outbox.store.ts, IndexedDB) and the delivery loops that drain   *)
(* it (lib/messageOutbox.ts).                                              *)
(*                                                                         *)
(* A session is one call of startMessageOutbox: one window, one account,   *)
(* one socket, one lease owner.  Several sessions share the database.      *)
(* Each mutateOutbox is one readwrite transaction and so one step; every   *)
(* await of run() is a step boundary.  Time is abstracted to two facts     *)
(* about an item: `leased` (leaseUntil is in the future) and `waiting`     *)
(* (nextAttemptAt is).  A lease owner that is gone compares equal to no    *)
(* later one, so the items it held are given NoSession.                    *)
(***************************************************************************)
EXTENDS MessageData

CONSTANTS
  Sessions,     \* delivery loops that can exist at once (bound)
  MaxEnqueues,  \* how often anything is put into the outbox (bound)
  NoSession

ASSUME OutboxAssumption ==
  /\ NoSession \notin Sessions
  /\ MaxEnqueues \in Nat

VARIABLES
  outbox,   \* the IndexedDB store, by id
  session,  \* the delivery loops
  editing,  \* failed messages restored to a composer draft (draft.outboxId)
  clock,    \* enqueues so far: the source of createdAt
  author,   \* history: the account that wrote an id
  failed,   \* history: ids that ever failed for good
  discarded \* history: ids the user ever discarded

outboxVars == <<outbox, session, editing, clock, author, failed, discarded>>

-----------------------------------------------------------------------------
Item == [user : Users, body : Bodies, atts : Seq(Attachments),
         createdAt : Nat, status : {"queued", "sending", "failed"},
         owner : Sessions \cup {NoSession}, leased : BOOLEAN, waiting : BOOLEAN]
NoItem == [user |-> NoUser, body |-> NoBody, atts |-> << >>, createdAt |-> 0,
           status |-> "none", owner |-> NoSession,
           leased |-> FALSE, waiting |-> FALSE]

Idle == {"idle"}
Running == {"picked", "limit", "upload", "save", "await", "clear", "settle", "rest"}

SessionState ==
  [user : Users \cup {NoUser}, live : BOOLEAN, online : BOOLEAN,
   armed : BOOLEAN, pc : Idle \cup Running, id : Ids \cup {NoId},
   body : Bodies \cup {NoBody}, atts : Seq(Attachments),
   call : Slots \cup {NoSlot}, retryable : BOOLEAN]

Unborn == [user |-> NoUser, live |-> FALSE, online |-> FALSE, armed |-> FALSE,
           pc |-> "idle", id |-> NoId, body |-> NoBody, atts |-> << >>,
           call |-> NoSlot, retryable |-> FALSE]

OutboxTypeOK ==
  /\ outbox \in [Ids -> Item \cup {NoItem}]
  /\ session \in [Sessions -> SessionState]
  /\ editing \subseteq Ids
  /\ clock \in Nat
  /\ author \in [Ids -> Users \cup {NoUser}]
  /\ failed \subseteq Ids
  /\ discarded \subseteq Ids

OutboxInit ==
  /\ outbox = [id \in Ids |-> NoItem]
  /\ session = [s \in Sessions |-> Unborn]
  /\ editing = {}
  /\ clock = 0
  /\ author = [id \in Ids |-> NoUser]
  /\ failed = {}
  /\ discarded = {}

-----------------------------------------------------------------------------
InOutbox(id) == outbox[id] # NoItem

PendingFor(u) == {id \in Ids : outbox[id].user = u /\ InOutbox(id)
                                 /\ outbox[id].status # "failed"}

\* Mutant: look past a message that is leased or backing off.
FirstReady(id, u) ==
  /\ id \in PendingFor(u)
  /\ \A other \in PendingFor(u) :
        outbox[other].waiting \/ outbox[id].createdAt <= outbox[other].createdAt

\* items.find(entry => entry.status !== 'failed') of the list by createdAt
IsHead(id, u) ==
  /\ id \in PendingFor(u)
  /\ \A other \in PendingFor(u) : outbox[id].createdAt <= outbox[other].createdAt

Claimable(id) == ~outbox[id].leased /\ ~outbox[id].waiting

\* active() and socket.connected
Connected(s) == session[s].live /\ session[s].online

\* Mutant: the lease owner is not compared.
AnyoneOwns(s, id) == InOutbox(id)

\* Mutant: the update is written even when the item is gone.
OwnsUnread(s, id) == TRUE

Owns(s, id) == InOutbox(id) /\ outbox[id].owner = s

SessionAt(s, pc) == session[s].pc = pc

Proceed(s, pc) == session' = [session EXCEPT ![s].pc = pc]

\* Leave the try block through its catch.
Throw(s, retryable) ==
  session' = [session EXCEPT ![s].pc = "settle", ![s].call = NoSlot,
                             ![s].retryable = retryable]

\* The composer's and the store's own writes wake this window's loop.
Arm(s) == session' = [session EXCEPT ![s].armed = TRUE]

-----------------------------------------------------------------------------
(* What the user does.                                                     *)

Fresh(u, body, stamp) ==
  [user |-> u, body |-> body, atts |-> << >>, createdAt |-> stamp,
   status |-> "queued", owner |-> NoSession, leased |-> FALSE, waiting |-> FALSE]

Enqueue(s, id, body) ==
  /\ session[s].live /\ clock < MaxEnqueues
  /\ author[id] = NoUser
  /\ outbox' = [outbox EXCEPT ![id] = Fresh(session[s].user, body, clock + 1)]
  /\ clock' = clock + 1
  /\ author' = [author EXCEPT ![id] = session[s].user]
  /\ Arm(s)
  /\ UNCHANGED <<editing, failed, discarded>>

Restore(s, id) ==
  /\ session[s].live
  /\ InOutbox(id) /\ outbox[id].user = session[s].user
  /\ outbox[id].status = "failed"
  /\ editing' = editing \cup {id}
  /\ UNCHANGED <<outbox, session, clock, author, failed, discarded>>

\* Sending a restored draft reuses its id: the failed item is replaced, or put
\* back when it has meanwhile left the outbox.
Resend(s, id, body) ==
  /\ session[s].live /\ clock < MaxEnqueues
  /\ id \in editing /\ author[id] = session[s].user
  /\ InOutbox(id) => outbox[id].status = "failed"
  /\ outbox' = [outbox EXCEPT ![id] = Fresh(session[s].user, body, clock + 1)]
  /\ clock' = clock + 1
  /\ editing' = editing \ {id}
  /\ Arm(s)
  /\ UNCHANGED <<author, failed, discarded>>

\* Retry keeps the attachments already uploaded.
Retry(s, id) ==
  /\ session[s].live
  /\ InOutbox(id) /\ outbox[id].user = session[s].user
  /\ outbox[id].status = "failed"
  /\ outbox' = [outbox EXCEPT ![id].status = "queued",
                              ![id].leased = FALSE, ![id].waiting = FALSE]
  /\ Arm(s)
  /\ UNCHANGED <<editing, clock, author, failed, discarded>>

Discard(s, id) ==
  /\ session[s].live
  /\ InOutbox(id) /\ outbox[id].user = session[s].user
  /\ outbox[id].status # "sending"
  /\ outbox' = [outbox EXCEPT ![id] = NoItem]
  /\ discarded' = discarded \cup {id}
  /\ Arm(s)
  /\ UNCHANGED <<editing, clock, author, failed>>

-----------------------------------------------------------------------------
(* run(): one delivery attempt.                                            *)

Pick(s, id) ==
  /\ SessionAt(s, "idle") /\ session[s].armed /\ Connected(s)
  /\ IsHead(id, session[s].user) /\ Claimable(id)
  /\ session' = [session EXCEPT ![s].pc = "picked", ![s].id = id]
  /\ UNCHANGED <<outbox, editing, clock, author, failed, discarded>>

\* Nothing to do, or the head is leased or waiting: poll again only while
\* something is pending.
Poll(s) ==
  /\ SessionAt(s, "idle") /\ session[s].armed
  /\ \/ ~Connected(s)
     \/ ~\E id \in Ids : IsHead(id, session[s].user) /\ Claimable(id)
  /\ session' = [session EXCEPT ![s].armed = PendingFor(session[s].user) # {}]
  /\ UNCHANGED <<outbox, editing, clock, author, failed, discarded>>

\* The claim re-reads the item the list showed before the await.
Claim(s) ==
  LET id == session[s].id
      current == outbox[id]
      refused == \/ ~InOutbox(id) \/ current.user # session[s].user
                 \/ current.status = "failed" \/ current.leased
  IN
  /\ SessionAt(s, "picked")
  /\ IF refused
     THEN Proceed(s, "rest") /\ UNCHANGED outbox
     ELSE /\ outbox' = [outbox EXCEPT ![id].status = "sending",
                                      ![id].owner = s, ![id].leased = TRUE]
          /\ session' = [session EXCEPT ![s].pc =
                              IF FileCount[current.body] > 0 THEN "limit" ELSE "upload",
                            ![s].body = current.body, ![s].atts = current.atts]
  /\ UNCHANGED <<editing, clock, author, failed, discarded>>

\* Mutant: the loop stops one file early.
OneFileShort(s) == Len(session[s].atts) + 1 >= FileCount[session[s].body]

AllUploaded(s) == Len(session[s].atts) >= FileCount[session[s].body]

\* With files, every attempt first asks the server for its size limit.
CheckLimit(s) ==
  /\ SessionAt(s, "limit")
  /\ Proceed(s, "upload")
  /\ UNCHANGED <<outbox, editing, clock, author, failed, discarded>>

\* The server's answer to one upload is attachment a.
Uploaded(s, a) ==
  /\ SessionAt(s, "upload") /\ ~AllUploaded(s) /\ Connected(s)
  /\ session' = [session EXCEPT ![s].pc = "save", ![s].atts = Append(@, a)]
  /\ UNCHANGED <<outbox, editing, clock, author, failed, discarded>>

\* The size check or an upload fails: too large and 4xx are permanent.
UploadFails(s, retryable) ==
  /\ \/ SessionAt(s, "limit")
     \/ SessionAt(s, "upload") /\ ~AllUploaded(s)
  /\ Throw(s, retryable)
  /\ UNCHANGED <<outbox, editing, clock, author, failed, discarded>>

SaveUpload(s) ==
  LET id == session[s].id IN
  /\ SessionAt(s, "save")
  /\ IF Owns(s, id)
     THEN /\ outbox' = [outbox EXCEPT ![id].body = session[s].body,
                                      ![id].atts = session[s].atts,
                                      ![id].status = "sending"]
          /\ Proceed(s, "upload")
     ELSE Throw(s, TRUE) /\ UNCHANGED outbox
  /\ UNCHANGED <<editing, clock, author, failed, discarded>>

ConnectionLost(s) ==
  /\ SessionAt(s, "upload") /\ ~Connected(s)
  /\ Throw(s, TRUE)
  /\ UNCHANGED <<outbox, editing, clock, author, failed, discarded>>

\* emitWithAck: the request goes out and the loop waits for its answer.
Emit(s, h) ==
  /\ SessionAt(s, "upload") /\ AllUploaded(s) /\ Connected(s)
  /\ \A other \in Sessions : session[other].call # h
  /\ session' = [session EXCEPT ![s].pc = "await", ![s].call = h]
  /\ UNCHANGED <<outbox, editing, clock, author, failed, discarded>>

\* What goes out with it.
Payload(s) == [user |-> session[s].user, id |-> session[s].id,
               body |-> session[s].body, atts |-> session[s].atts]

\* Ten seconds without an answer, whatever became of the request.
TimeOut(s) ==
  /\ SessionAt(s, "await")
  /\ Throw(s, TRUE)
  /\ UNCHANGED <<outbox, editing, clock, author, failed, discarded>>

\* Mutant: any answer counts as an acknowledgement.
AckedUnread(s, reply) ==
  /\ SessionAt(s, "await") /\ session[s].online
  /\ session' = [session EXCEPT ![s].pc = "clear", ![s].call = NoSlot]
  /\ UNCHANGED <<outbox, editing, clock, author, failed, discarded>>

\* The answer to this emit: ok clears the item, an error decides its retry.
Acked(s, reply) ==
  /\ SessionAt(s, "await") /\ session[s].online
  /\ IF reply = "ok"
     THEN session' = [session EXCEPT ![s].pc = "clear", ![s].call = NoSlot]
     ELSE Throw(s, reply = "retry")
  /\ UNCHANGED <<outbox, editing, clock, author, failed, discarded>>

Clear(s) ==
  LET id == session[s].id IN
  /\ SessionAt(s, "clear")
  /\ outbox' = IF Owns(s, id) THEN [outbox EXCEPT ![id] = NoItem] ELSE outbox
  /\ Proceed(s, "rest")
  /\ UNCHANGED <<editing, clock, author, failed, discarded>>

\* Mutant: a permanent rejection removes the item.
SettleDrops(s) ==
  LET id == session[s].id IN
  /\ SessionAt(s, "settle")
  /\ IF Owns(s, id)
     THEN outbox' = [outbox EXCEPT ![id] =
            IF session[s].retryable
            THEN [@ EXCEPT !.status = "queued", !.leased = FALSE, !.waiting = TRUE]
            ELSE NoItem]
     ELSE UNCHANGED outbox
  /\ Proceed(s, "rest")
  /\ UNCHANGED <<editing, clock, author, failed, discarded>>

Settle(s) ==
  LET id == session[s].id
      status == IF session[s].retryable THEN "queued" ELSE "failed"
  IN
  /\ SessionAt(s, "settle")
  /\ IF Owns(s, id)
     THEN /\ outbox' = [outbox EXCEPT ![id].status = status,
                                      ![id].leased = FALSE, ![id].waiting = TRUE]
          /\ failed' = IF status = "failed" THEN failed \cup {id} ELSE failed
     ELSE UNCHANGED <<outbox, failed>>
  /\ Proceed(s, "rest")
  /\ UNCHANGED <<editing, clock, author, discarded>>

\* Mutant: the loop is not scheduled again after an attempt.
RestForGood(s) ==
  /\ SessionAt(s, "rest")
  /\ session' = [session EXCEPT ![s] =
       [Unborn EXCEPT !.user = session[s].user, !.live = session[s].live,
                      !.online = session[s].online]]
  /\ UNCHANGED <<outbox, editing, clock, author, failed, discarded>>

\* finally: clear the interval, refresh, and schedule while work is pending.
Rest(s) ==
  /\ SessionAt(s, "rest")
  /\ session' = [session EXCEPT ![s] =
       [Unborn EXCEPT !.user = session[s].user, !.live = session[s].live,
                      !.online = session[s].online,
                      !.armed = /\ session[s].live
                                /\ \/ session[s].armed
                                   \/ PendingFor(session[s].user) # {}]]
  /\ UNCHANGED <<outbox, editing, clock, author, failed, discarded>>

\* A device-storage write fails: inside the attempt it is one more retryable
\* error, outside it (the claim, the settlement) the attempt just ends.
StorageFails(s) ==
  /\ \/ session[s].pc \in {"save", "clear"} /\ Throw(s, TRUE)
     \/ session[s].pc \in {"picked", "settle"} /\ Proceed(s, "rest")
  /\ UNCHANGED <<outbox, editing, clock, author, failed, discarded>>

-----------------------------------------------------------------------------
(* Time, and what happens to windows.                                      *)

\* The renewal interval runs until finally clears it, so it can still fire
\* after the settlement.
Renew(s) ==
  /\ session[s].pc \in Running \ {"picked"} /\ session[s].live
  /\ Owns(s, session[s].id) /\ ~outbox[session[s].id].leased
  /\ outbox' = [outbox EXCEPT ![session[s].id].leased = TRUE]
  /\ UNCHANGED <<session, editing, clock, author, failed, discarded>>

\* The loop that holds the lease is up and still on the item.
Attended(id) ==
  \E s \in Sessions : /\ Owns(s, id) /\ session[s].live /\ session[s].id = id
                      /\ session[s].pc \in Running \ {"picked"}

LeaseExpires(id) ==
  /\ outbox[id].leased
  /\ outbox' = [outbox EXCEPT ![id].leased = FALSE]
  /\ UNCHANGED <<session, editing, clock, author, failed, discarded>>

BackoffEnds(id) ==
  /\ outbox[id].waiting
  /\ outbox' = [outbox EXCEPT ![id].waiting = FALSE]
  /\ UNCHANGED <<session, editing, clock, author, failed, discarded>>

Disown(s) == outbox' = [id \in Ids |->
  IF outbox[id].owner = s THEN [outbox[id] EXCEPT !.owner = NoSession]
                          ELSE outbox[id]]

\* Mutant: a new account takes over the loop with its attempt in progress.
TakeOverSession(s, u) ==
  /\ ~session[s].live
  /\ session' = [session EXCEPT ![s].user = u, ![s].live = TRUE,
                                ![s].online = TRUE, ![s].armed = TRUE]
  /\ UNCHANGED <<outbox, editing, clock, author, failed, discarded>>

StartSession(s, u) ==
  /\ ~session[s].live /\ SessionAt(s, "idle")
  /\ session' = [session EXCEPT ![s] =
       [Unborn EXCEPT !.user = u, !.live = TRUE, !.online = TRUE, !.armed = TRUE]]
  /\ Disown(s)
  /\ UNCHANGED <<editing, clock, author, failed, discarded>>

\* Sign-out or a new socket: the attempt in progress notices at its next check.
StopSession(s) ==
  /\ session[s].live
  /\ session' = [session EXCEPT ![s].live = FALSE, ![s].armed = FALSE]
  /\ UNCHANGED <<outbox, editing, clock, author, failed, discarded>>

\* The window is closed, reloaded or killed at any point.
WindowGone(s) ==
  /\ session[s] # Unborn
  /\ session' = [session EXCEPT ![s] = Unborn]
  /\ Disown(s)
  /\ UNCHANGED <<editing, clock, author, failed, discarded>>

GoOffline(s) ==
  /\ session[s].online
  /\ session' = [session EXCEPT ![s].online = FALSE]
  /\ UNCHANGED <<outbox, editing, clock, author, failed, discarded>>

\* 'connect' and 'online' refresh and schedule a run.
GoOnline(s) ==
  /\ session[s].live /\ ~session[s].online
  /\ session' = [session EXCEPT ![s].online = TRUE, ![s].armed = TRUE]
  /\ UNCHANGED <<outbox, editing, clock, author, failed, discarded>>

\* The window becomes visible again.
Wake(s) ==
  /\ session[s].live /\ ~session[s].armed
  /\ Arm(s)
  /\ UNCHANGED <<outbox, editing, clock, author, failed, discarded>>

-----------------------------------------------------------------------------
\* What the device does by itself.
DeviceStep ==
  \/ \E s \in Sessions, id \in Ids :
        \/ Restore(s, id) \/ Retry(s, id) \/ Discard(s, id) \/ Pick(s, id)
        \/ \E body \in Bodies : Enqueue(s, id, body) \/ Resend(s, id, body)
  \/ \E s \in Sessions :
        \/ Poll(s) \/ Claim(s) \/ CheckLimit(s) \/ SaveUpload(s)
        \/ ConnectionLost(s) \/ TimeOut(s) \/ Clear(s) \/ Settle(s) \/ Rest(s)
        \/ StorageFails(s) \/ Renew(s) \/ StopSession(s) \/ WindowGone(s)
        \/ GoOffline(s) \/ GoOnline(s) \/ Wake(s)
        \/ \E retryable \in BOOLEAN : UploadFails(s, retryable)
        \/ \E u \in Users : StartSession(s, u)
  \/ \E id \in Ids : LeaseExpires(id) \/ BackoffEnds(id)

\* Every step of the device, whatever the server answers.
OutboxNext ==
  \/ DeviceStep
  \/ \E s \in Sessions :
        \/ \E a \in Attachments : Uploaded(s, a)
        \/ \E h \in Slots : Emit(s, h)
        \/ \E reply \in {"none", "ok", "reject", "retry"} : Acked(s, reply)

\* A running attempt has an account, an item and, once claimed, its copy.
Shaped(loop) ==
  /\ loop.live \/ loop.pc # "idle" => loop.user \in Users
  /\ loop.pc # "idle" => loop.id \in Ids
  /\ loop.pc \in {"limit", "upload", "save", "await"} => loop.body \in Bodies

SessionShape == \A s \in Sessions : Shaped(session[s])
=============================================================================
