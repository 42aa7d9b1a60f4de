----------------------------- MODULE MessageSend -----------------------------
(***************************************************************************)
(* The server's half of sending a message: the handlers of `message:send`  *)
(* and `dm:send` (gateway.gateway.ts), the services they call              *)
(* (MessagesService.createMessage, DmService.createMessage), the replay    *)
(* lookup that makes a send idempotent (message-replay.ts) and the fan-out *)
(* of a new message (message-notifications.ts).                            *)
(*                                                                         *)
(* A handler awaits the database several times; every await is a step      *)
(* boundary, so handlers of the same message interleave.  Slots are the    *)
(* requests the server is working on at once.  A database transaction is   *)
(* one step: the unique key on messages.id and the attachment check inside *)
(* it are what serialises two handlers.                                    *)
(***************************************************************************)
EXTENDS MessageData

VARIABLES
  stored,      \* the messages table, by id
  attachment,  \* the attachments table: free until a message claims it
  handler,     \* the requests in progress
  broadcasts,  \* how many times message:new / dm:new went out for an id
  pending,     \* notification rows whose write was started and not awaited
  recorded     \* messages that have their notification rows

sendVars == <<stored, attachment, handler, broadcasts, pending, recorded>>

-----------------------------------------------------------------------------
Message == [author : Users, body : Bodies, atts : Seq(Attachments)]
NoMessage == [author |-> NoUser, body |-> NoBody, atts |-> << >>]

Phases == {"authorize", "lookup", "insert", "recheck", "deliver", "reply"}
Replies == {"none", "ok", "reject", "retry"}

Request == [user : Users, id : Ids, body : Bodies, atts : Seq(Attachments)]
Busy == [user : Users, id : Ids, body : Bodies, atts : Seq(Attachments),
         pc : Phases, reply : Replies]
Free == [user |-> NoUser, id |-> NoId, body |-> NoBody, atts |-> << >>,
         pc |-> "free", reply |-> "none"]

AttachmentStates == {"fresh", "free", "linked", "gone"}

SendTypeOK ==
  /\ stored \in [Ids -> Message \cup {NoMessage}]
  /\ attachment \in [Attachments -> [state : AttachmentStates,
                                     by : Users \cup {NoUser}]]
  /\ handler \in [Slots -> Busy \cup {Free}]
  /\ broadcasts \in [Ids -> Nat]
  /\ pending \subseteq Ids
  /\ recorded \subseteq Ids

SendInit ==
  /\ stored = [id \in Ids |-> NoMessage]
  /\ attachment = [a \in Attachments |-> [state |-> "fresh", by |-> NoUser]]
  /\ handler = [h \in Slots |-> Free]
  /\ broadcasts = [id \in Ids |-> 0]
  /\ pending = {}
  /\ recorded = {}

-----------------------------------------------------------------------------
At(h, pc) == handler[h].pc = pc

Goto(h, pc) == handler' = [handler EXCEPT ![h].pc = pc]

Reply(h, r) == handler' = [handler EXCEPT ![h].pc = "reply", ![h].reply = r]

IsStored(id) == stored[id] # NoMessage

\* Mutant: a replayed message takes the path of a new one.
ReplayFansOut(h) ==
  /\ IsStored(handler[h].id)
  /\ Goto(h, "deliver")

\* findMessageReplay answers only its own author; an id another account used
\* is a BadRequest, which the exception filter acknowledges as not retryable.
AnswerReplay(h) ==
  /\ IsStored(handler[h].id)
  /\ Reply(h, IF stored[handler[h].id].author = handler[h].user
              THEN "ok" ELSE "reject")

\* The attachments a transaction may link: uploaded by the sender, unlinked.
Linkable(h) ==
  \A i \in 1..Len(handler[h].atts) :
     attachment[handler[h].atts[i]] = [state |-> "free", by |-> handler[h].user]

-----------------------------------------------------------------------------
Receive(h, req) ==
  /\ handler[h] = Free
  /\ handler' = [handler EXCEPT ![h] =
       [user |-> req.user, id |-> req.id, body |-> req.body, atts |-> req.atts,
        pc |-> "authorize", reply |-> "none"]]
  /\ UNCHANGED <<stored, attachment, broadcasts, pending, recorded>>

\* Channel, membership, permission, mute and automod checks.
Authorize(h) ==
  /\ At(h, "authorize")
  /\ Goto(h, "lookup")
  /\ UNCHANGED <<stored, attachment, broadcasts, pending, recorded>>

\* 403, 404 and a blocked text come before the replay lookup: {ok: false}.
Refuse(h) ==
  /\ At(h, "authorize")
  /\ Reply(h, "reject")
  /\ UNCHANGED <<stored, attachment, broadcasts, pending, recorded>>

Lookup(h) ==
  /\ At(h, "lookup")
  /\ \/ AnswerReplay(h)
     \/ ~IsStored(handler[h].id) /\ Goto(h, "insert")
  /\ UNCHANGED <<stored, attachment, broadcasts, pending, recorded>>

\* An invalid reply target or thread parent is thrown outside the try block.
Invalid(h) ==
  /\ At(h, "insert")
  /\ Reply(h, "reject")
  /\ UNCHANGED <<stored, attachment, broadcasts, pending, recorded>>

\* The transaction: link the attachments and create the row, or abort on the
\* unique key (P2002) or on an attachment that is not free (BadRequest).
Insert(h) ==
  LET req == handler[h] IN
  /\ At(h, "insert")
  /\ IF IsStored(req.id) \/ ~Linkable(h)
     THEN Goto(h, "recheck") /\ UNCHANGED <<stored, attachment>>
     ELSE /\ Goto(h, "deliver")
          /\ stored' = [stored EXCEPT ![req.id] =
               [author |-> req.user, body |-> req.body, atts |-> req.atts]]
          /\ attachment' = [a \in Attachments |->
               IF \E i \in 1..Len(req.atts) : req.atts[i] = a
               THEN [attachment[a] EXCEPT !.state = "linked"]
               ELSE attachment[a]]
  /\ UNCHANGED <<broadcasts, pending, recorded>>

\* The catch block: a concurrent handler may have stored it meanwhile.
Recheck(h) ==
  /\ At(h, "recheck")
  /\ \/ AnswerReplay(h)
     \/ ~IsStored(handler[h].id) /\ Reply(h, "reject")
  /\ UNCHANGED <<stored, attachment, broadcasts, pending, recorded>>

\* deliverChannelMessage / deliverDmMessage: emit to the room, then start the
\* notification rows without awaiting them, then acknowledge.
Deliver(h) ==
  /\ At(h, "deliver")
  /\ Reply(h, "ok")
  /\ broadcasts' = [broadcasts EXCEPT ![handler[h].id] = @ + 1]
  /\ pending' = pending \cup {handler[h].id}
  /\ UNCHANGED <<stored, attachment, recorded>>

\* A database or socket-adapter error anywhere, after the commit too (the
\* thread count, the DM member list): acknowledged as retryable.
ServerError(h) ==
  /\ handler[h].pc \in Phases \ {"reply"}
  /\ Reply(h, "retry")
  /\ UNCHANGED <<stored, attachment, broadcasts, pending, recorded>>

\* The acknowledgement leaves; whether anyone still waits is the client's side.
Finish(h) ==
  /\ At(h, "reply")
  /\ handler' = [handler EXCEPT ![h] = Free]
  /\ UNCHANGED <<stored, attachment, broadcasts, pending, recorded>>

RecordRows(id) ==
  /\ id \in pending
  /\ pending' = pending \ {id}
  /\ recorded' = recorded \cup {id}
  /\ UNCHANGED <<stored, attachment, handler, broadcasts>>

\* .catch(err => log.warn(...)): a failed write is logged and dropped.
RecordFails(id) ==
  /\ id \in pending
  /\ pending' = pending \ {id}
  /\ UNCHANGED <<stored, attachment, handler, broadcasts, recorded>>

ServerCrash ==
  /\ handler' = [h \in Slots |-> Free]
  /\ pending' = {}
  /\ UNCHANGED <<stored, attachment, broadcasts, recorded>>

-----------------------------------------------------------------------------
\* POST /uploads: the row is created with no message.
CreateAttachment(a, u) ==
  /\ attachment[a].state = "fresh"
  /\ attachment' = [attachment EXCEPT ![a] = [state |-> "free", by |-> u]]
  /\ UNCHANGED <<stored, handler, broadcasts, pending, recorded>>

\* Storage cleanup removes attachments no message has claimed.
ReapOrphan(a) ==
  /\ attachment[a].state = "free"
  /\ attachment' = [attachment EXCEPT ![a].state = "gone"]
  /\ UNCHANGED <<stored, handler, broadcasts, pending, recorded>>

-----------------------------------------------------------------------------
\* What a handler does on its own, given that its database answers.
HandlerStep(h) ==
  \/ Authorize(h)
  \/ Lookup(h)
  \/ Insert(h)
  \/ Recheck(h)
  \/ Deliver(h)

\* What the server does with the requests it has.
Serve ==
  \/ \E h \in Slots : HandlerStep(h) \/ Refuse(h) \/ Invalid(h)
                      \/ ServerError(h) \/ Finish(h)
  \/ \E id \in Ids : RecordRows(id) \/ RecordFails(id)
  \/ \E a \in Attachments : ReapOrphan(a) \/ \E u \in Users : CreateAttachment(a, u)
  \/ ServerCrash

\* Every step of the server, whoever its clients are.
ServerNext == Serve \/ \E h \in Slots, req \in Request : Receive(h, req)
=============================================================================
