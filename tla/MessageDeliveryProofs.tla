------------------------ MODULE MessageDeliveryProofs ------------------------
(***************************************************************************)
(* Proofs about MessageDelivery, for any number of accounts, messages,     *)
(* windows, handlers and faults.  First the types.  Then the safety        *)
(* properties from one inductive invariant in three parts: what an         *)
(* announcement presupposes, whose message a request carries, and where a  *)
(* written message can be.  Then the refinement of ExactlyOnce, the files  *)
(* of a posted message, and the order of one author's messages.            *)
(***************************************************************************)
EXTENDS MessageDelivery, TLAPS

-----------------------------------------------------------------------------
(* Type correctness.                                                       *)

LEMMA OutboxInitTyped ==
  OutboxInit => OutboxTypeOK /\ SessionShape
  BY SendAssumption, OutboxAssumption
  DEF OutboxInit, OutboxTypeOK, SessionShape, Shaped, NoItem, Unborn, SessionState, Idle, Running

LEMMA SendInitTyped == SendInit => SendTypeOK
  BY DEF SendInit, SendTypeOK, NoMessage, Free, AttachmentStates

\* A slot in use holds a request; moving it on keeps it one.
LEMMA InUse ==
  ASSUME SendTypeOK, NEW h \in Slots, handler[h].pc # "free"
  PROVE  handler[h] \in Busy
  BY DEF SendTypeOK, Free

LEMMA BusyFields ==
  ASSUME NEW req \in Busy
  PROVE  /\ req.user \in Users /\ req.id \in Ids /\ req.body \in Bodies
         /\ req.atts \in Seq(Attachments) /\ req.pc \in Phases
         /\ req.reply \in Replies
  BY DEF Busy

LEMMA BusyMoves ==
  ASSUME NEW req \in Busy, NEW pc \in Phases, NEW r \in Replies
  PROVE  /\ [req EXCEPT !.pc = pc] \in Busy
         /\ [req EXCEPT !.pc = pc, !.reply = r] \in Busy
  BY DEF Busy

LEMMA GotoTyped ==
  ASSUME SendTypeOK, NEW h \in Slots, handler[h].pc # "free",
         NEW pc \in Phases, Goto(h, pc)
  PROVE  handler' \in [Slots -> Busy \cup {Free}]
<1>1. handler[h] \in Busy
  BY InUse
<1>2. [handler[h] EXCEPT !.pc = pc] \in Busy
  BY <1>1, BusyMoves DEF Replies
<1>3. handler' = [handler EXCEPT ![h] = [handler[h] EXCEPT !.pc = pc]]
  BY DEF Goto
<1>4. QED
  BY <1>2, <1>3 DEF SendTypeOK

LEMMA ReplyTyped ==
  ASSUME SendTypeOK, NEW h \in Slots, handler[h].pc # "free",
         NEW r \in Replies, Reply(h, r)
  PROVE  handler' \in [Slots -> Busy \cup {Free}]
<1>1. handler[h] \in Busy
  BY InUse
<1>2. [handler[h] EXCEPT !.pc = "reply", !.reply = r] \in Busy
  BY <1>1, BusyMoves DEF Phases
<1>3. handler' = [handler EXCEPT ![h] =
                    [handler[h] EXCEPT !.pc = "reply", !.reply = r]]
  BY DEF Reply
<1>4. QED
  BY <1>2, <1>3 DEF SendTypeOK

LEMMA AnswerTyped ==
  ASSUME SendTypeOK, NEW h \in Slots, handler[h].pc # "free", AnswerReplay(h)
  PROVE  handler' \in [Slots -> Busy \cup {Free}]
  BY ReplyTyped DEF AnswerReplay, Replies

LEMMA ServerTyped ==
  ASSUME SendTypeOK, ServerNext
  PROVE  SendTypeOK'
<1>1. ASSUME NEW h \in Slots, NEW req \in Request, Receive(h, req)
      PROVE  SendTypeOK'
  <2>1. [user |-> req.user, id |-> req.id, body |-> req.body, atts |-> req.atts,
         pc |-> "authorize", reply |-> "none"] \in Busy
    BY DEF Request, Busy, Phases, Replies
  <2>2. QED
    BY <1>1, <2>1 DEF Receive, SendTypeOK
<1>2. ASSUME NEW h \in Slots, Authorize(h) PROVE SendTypeOK'
  <2>1. handler' \in [Slots -> Busy \cup {Free}]
    BY <1>2, GotoTyped DEF Authorize, At, Phases
  <2>2. QED
    BY <1>2, <2>1 DEF Authorize, SendTypeOK
<1>3. ASSUME NEW h \in Slots, Lookup(h) PROVE SendTypeOK'
  <2>1. handler' \in [Slots -> Busy \cup {Free}]
    BY <1>3, GotoTyped, AnswerTyped DEF Lookup, At, Phases
  <2>2. QED
    BY <1>3, <2>1 DEF Lookup, SendTypeOK
<1>4. ASSUME NEW h \in Slots, Insert(h) PROVE SendTypeOK'
  <2>1. handler[h] \in Busy
    BY <1>4, InUse DEF Insert, At
  <2>2. handler' \in [Slots -> Busy \cup {Free}]
    BY <1>4, GotoTyped DEF Insert, At, Phases
  <2>3. stored' \in [Ids -> Message \cup {NoMessage}]
    <3>1. [author |-> handler[h].user, body |-> handler[h].body,
           atts |-> handler[h].atts] \in Message
      BY <2>1, BusyFields DEF Message
    <3>2. handler[h].id \in Ids
      BY <2>1, BusyFields
    <3>3. QED
      BY <1>4, <3>1, <3>2 DEF Insert, SendTypeOK
  <2>4. attachment' \in [Attachments -> [state : AttachmentStates,
                                         by : Users \cup {NoUser}]]
    <3>1. \A a \in Attachments : [attachment[a] EXCEPT !.state = "linked"]
             \in [state : AttachmentStates, by : Users \cup {NoUser}]
      BY DEF SendTypeOK, AttachmentStates
    <3>2. QED
      BY <1>4, <3>1 DEF Insert, SendTypeOK
  <2>5. QED
    BY <1>4, <2>2, <2>3, <2>4 DEF Insert, SendTypeOK
<1>5. ASSUME NEW h \in Slots, Recheck(h) PROVE SendTypeOK'
  <2>1. handler' \in [Slots -> Busy \cup {Free}]
    BY <1>5, ReplyTyped, AnswerTyped DEF Recheck, At, Replies
  <2>2. QED
    BY <1>5, <2>1 DEF Recheck, SendTypeOK
<1>6. ASSUME NEW h \in Slots, Deliver(h) PROVE SendTypeOK'
  <2>1. handler' \in [Slots -> Busy \cup {Free}]
    BY <1>6, ReplyTyped DEF Deliver, At, Replies
  <2>2. handler[h].id \in Ids
    BY <1>6, InUse, BusyFields DEF Deliver, At
  <2>3. QED
    BY <1>6, <2>1, <2>2 DEF Deliver, SendTypeOK
<1>7. ASSUME NEW h \in Slots, Refuse(h) \/ Invalid(h) \/ ServerError(h)
      PROVE  SendTypeOK'
  <2>1. handler' \in [Slots -> Busy \cup {Free}]
    BY <1>7, ReplyTyped DEF Refuse, Invalid, ServerError, At, Replies, Phases
  <2>2. QED
    BY <1>7, <2>1 DEF Refuse, Invalid, ServerError, SendTypeOK
<1>8. ASSUME NEW h \in Slots, Finish(h) PROVE SendTypeOK'
  BY <1>8 DEF Finish, SendTypeOK
<1>9. ASSUME NEW id \in Ids, RecordRows(id) \/ RecordFails(id)
      PROVE  SendTypeOK'
  BY <1>9 DEF RecordRows, RecordFails, SendTypeOK
<1>10. ASSUME NEW a \in Attachments,
              ReapOrphan(a) \/ \E u \in Users : CreateAttachment(a, u)
       PROVE  SendTypeOK'
  BY <1>10 DEF CreateAttachment, ReapOrphan, SendTypeOK, AttachmentStates
<1>11. ASSUME ServerCrash PROVE SendTypeOK'
  BY <1>11 DEF ServerCrash, SendTypeOK
<1>12. QED
  BY <1>1, <1>2, <1>3, <1>4, <1>5, <1>6, <1>7, <1>8, <1>9, <1>10, <1>11
  DEF ServerNext, Serve, HandlerStep

-----------------------------------------------------------------------------
\* The device: one loop changes its own record, one item its own entry.
LEMMA LoopTyped ==
  ASSUME session \in [Sessions -> SessionState], SessionShape,
         NEW s \in Sessions, NEW loop \in SessionState, Shaped(loop),
         session' = [session EXCEPT ![s] = loop]
  PROVE  session' \in [Sessions -> SessionState] /\ SessionShape'
  BY DEF SessionShape

LEMMA LoopFields ==
  ASSUME NEW loop \in SessionState
  PROVE  /\ loop.user \in Users \cup {NoUser} /\ loop.live \in BOOLEAN
         /\ loop.online \in BOOLEAN /\ loop.armed \in BOOLEAN
         /\ loop.pc \in Idle \cup Running /\ loop.id \in Ids \cup {NoId}
         /\ loop.body \in Bodies \cup {NoBody} /\ loop.atts \in Seq(Attachments)
         /\ loop.call \in Slots \cup {NoSlot} /\ loop.retryable \in BOOLEAN
  BY DEF SessionState

LEMMA ItemTyped ==
  ASSUME outbox \in [Ids -> Item \cup {NoItem}], NEW id \in Ids, NEW item \in Item,
         outbox' = [outbox EXCEPT ![id] = item]
  PROVE  outbox' \in [Ids -> Item \cup {NoItem}]
<1>1. item \in Item \cup {NoItem}
  OBVIOUS
<1>2. QED
  BY <1>1

LEMMA Proceeds ==
  ASSUME OutboxTypeOK, SessionShape, NEW s \in Sessions, NEW pc \in Running,
         session[s].pc \in Running, Proceed(s, pc),
         pc \in {"upload", "save"} => session[s].pc \in {"limit", "upload", "save"},
         pc \notin {"limit", "await"}
  PROVE  session' \in [Sessions -> SessionState] /\ SessionShape'
<1> DEFINE loop == [session[s] EXCEPT !.pc = pc]
<1>0. session[s] \in SessionState /\ Shaped(session[s])
  BY DEF OutboxTypeOK, SessionShape
<1>1. loop \in SessionState
  BY <1>0 DEF SessionState
<1>2. Shaped(loop)
  <2>1. /\ loop.pc = pc /\ loop.id = session[s].id /\ loop.live = session[s].live
        /\ loop.user = session[s].user /\ loop.body = session[s].body
    BY <1>0 DEF SessionState
  <2>2. QED
    BY <1>0, <2>1 DEF Shaped, Running
<1>3. session' = [session EXCEPT ![s] = loop]
  BY DEF Proceed
<1>4. QED
  BY <1>1, <1>2, <1>3, LoopTyped DEF OutboxTypeOK

LEMMA Throws ==
  ASSUME OutboxTypeOK, SessionShape, NEW s \in Sessions, NEW retryable \in BOOLEAN,
         session[s].pc \in Running, Throw(s, retryable)
  PROVE  session' \in [Sessions -> SessionState] /\ SessionShape'
<1> DEFINE loop == [session[s] EXCEPT !.pc = "settle", !.call = NoSlot,
                                      !.retryable = retryable]
<1>0. session[s] \in SessionState /\ Shaped(session[s])
  BY DEF OutboxTypeOK, SessionShape
<1>1. loop \in SessionState
  BY <1>0 DEF SessionState, Running
<1>2. Shaped(loop)
  <2>1. /\ loop.pc = "settle" /\ loop.id = session[s].id
        /\ loop.live = session[s].live /\ loop.user = session[s].user
    BY <1>0 DEF SessionState
  <2>2. QED
    BY <1>0, <2>1 DEF Shaped, Running
<1>3. session' = [session EXCEPT ![s] = loop]
  BY DEF Throw
<1>4. QED
  BY <1>1, <1>2, <1>3, LoopTyped DEF OutboxTypeOK

LEMMA Arms ==
  ASSUME OutboxTypeOK, SessionShape, NEW s \in Sessions, Arm(s)
  PROVE  session' \in [Sessions -> SessionState] /\ SessionShape'
<1> DEFINE loop == [session[s] EXCEPT !.armed = TRUE]
<1>0. session[s] \in SessionState /\ Shaped(session[s])
  BY DEF OutboxTypeOK, SessionShape
<1>1. loop \in SessionState
  BY <1>0 DEF SessionState
<1>2. Shaped(loop)
  <2>1. /\ loop.pc = session[s].pc /\ loop.id = session[s].id
        /\ loop.live = session[s].live /\ loop.user = session[s].user
        /\ loop.body = session[s].body
    BY <1>0 DEF SessionState
  <2>2. QED
    BY <1>0, <2>1 DEF Shaped
<1>3. session' = [session EXCEPT ![s] = loop]
  BY DEF Arm
<1>4. QED
  BY <1>1, <1>2, <1>3, LoopTyped DEF OutboxTypeOK

LEMMA Held ==
  ASSUME OutboxTypeOK, NEW id \in Ids, InOutbox(id)
  PROVE  outbox[id] \in Item
  BY DEF OutboxTypeOK, InOutbox

LEMMA Disowned ==
  ASSUME OutboxTypeOK, NEW s \in Sessions, Disown(s)
  PROVE  outbox' \in [Ids -> Item \cup {NoItem}]
<1>1. \A id \in Ids : outbox[id].owner = s => outbox[id] \in Item
  BY OutboxAssumption DEF OutboxTypeOK, NoItem
<1>2. \A item \in Item : [item EXCEPT !.owner = NoSession] \in Item
  BY DEF Item
<1>3. QED
  BY <1>1, <1>2 DEF Disown, OutboxTypeOK

LEMMA UserTyped ==
  ASSUME OutboxTypeOK, SessionShape, NEW s \in Sessions, NEW id \in Ids,
         \/ Restore(s, id) \/ Retry(s, id) \/ Discard(s, id)
         \/ \E body \in Bodies : Enqueue(s, id, body) \/ Resend(s, id, body)
  PROVE  OutboxTypeOK' /\ SessionShape'
<1>1. ASSUME NEW body \in Bodies, Enqueue(s, id, body) \/ Resend(s, id, body)
      PROVE  OutboxTypeOK' /\ SessionShape'
  <2>1. session[s].user \in Users
    BY <1>1 DEF Enqueue, Resend, SessionShape, Shaped
  <2>2. Fresh(session[s].user, body, clock + 1) \in Item
    BY <2>1 DEF Fresh, Item, OutboxTypeOK
  <2>3. session' \in [Sessions -> SessionState] /\ SessionShape'
    BY <1>1, Arms DEF Enqueue, Resend
  <2>4. QED
    BY <1>1, <2>1, <2>2, <2>3 DEF Enqueue, Resend, OutboxTypeOK
<1>2. ASSUME Restore(s, id) PROVE OutboxTypeOK' /\ SessionShape'
  BY <1>2 DEF Restore, OutboxTypeOK, SessionShape
<1>3. ASSUME Retry(s, id) PROVE OutboxTypeOK' /\ SessionShape'
  <2> DEFINE item == [outbox[id] EXCEPT !.status = "queued", !.leased = FALSE,
                                        !.waiting = FALSE]
  <2>1. item \in Item
    <3>1. outbox[id] \in Item
      BY <1>3, Held DEF Retry
    <3>2. QED
      BY <3>1 DEF Item
  <2>2. outbox' = [outbox EXCEPT ![id] = item]
    BY <1>3 DEF Retry
  <2>3. outbox' \in [Ids -> Item \cup {NoItem}]
    BY <2>1, <2>2, ItemTyped DEF OutboxTypeOK
  <2>4. session' \in [Sessions -> SessionState] /\ SessionShape'
    BY <1>3, Arms DEF Retry
  <2>5. QED
    BY <1>3, <2>3, <2>4 DEF Retry, OutboxTypeOK
<1>4. ASSUME Discard(s, id) PROVE OutboxTypeOK' /\ SessionShape'
  <2>1. session' \in [Sessions -> SessionState] /\ SessionShape'
    BY <1>4, Arms DEF Discard
  <2>2. QED
    BY <1>4, <2>1 DEF Discard, OutboxTypeOK
<1>5. QED
  BY <1>1, <1>2, <1>3, <1>4

LEMMA LoopStepTyped ==
  ASSUME OutboxTypeOK, SessionShape, NEW s \in Sessions,
         \/ \E id \in Ids : Pick(s, id)
         \/ Poll(s) \/ Claim(s) \/ CheckLimit(s) \/ SaveUpload(s)
         \/ ConnectionLost(s) \/ TimeOut(s) \/ Clear(s) \/ Settle(s) \/ Rest(s)
         \/ StorageFails(s) \/ Renew(s)
  PROVE  OutboxTypeOK' /\ SessionShape'
<1>1. ASSUME NEW id \in Ids, Pick(s, id) PROVE OutboxTypeOK' /\ SessionShape'
  <2> DEFINE loop == [session[s] EXCEPT !.pc = "picked", !.id = id]
  <2>1. loop \in SessionState /\ Shaped(loop)
    <3>1. session[s].user \in Users
      BY <1>1 DEF Pick, Connected, SessionShape, Shaped
    <3>2. session[s] \in SessionState
      BY DEF OutboxTypeOK
    <3>3. loop \in SessionState
      BY <3>2 DEF SessionState, Running
    <3>4. loop.pc = "picked" /\ loop.id = id /\ loop.user = session[s].user
      BY <3>2 DEF SessionState
    <3>5. QED
      BY <3>1, <3>3, <3>4 DEF Shaped
  <2>2. session' = [session EXCEPT ![s] = loop]
    BY <1>1 DEF Pick
  <2>3. session' \in [Sessions -> SessionState] /\ SessionShape'
    BY <2>1, <2>2, LoopTyped DEF OutboxTypeOK
  <2>4. QED
    BY <1>1, <2>3 DEF Pick, OutboxTypeOK
<1>2. ASSUME Poll(s) PROVE OutboxTypeOK' /\ SessionShape'
  <2> DEFINE loop == [session[s] EXCEPT
                        !.armed = PendingFor(session[s].user) # {}]
  <2>1. loop \in SessionState /\ Shaped(loop)
    <3>1. session[s] \in SessionState /\ Shaped(session[s])
      BY DEF OutboxTypeOK, SessionShape
    <3>2. \A armed \in BOOLEAN :
             LET new == [session[s] EXCEPT !.armed = armed]
             IN  new \in SessionState /\ Shaped(new)
      BY <3>1 DEF SessionState, Shaped
    <3>3. QED
      BY <3>2
  <2>2. session' = [session EXCEPT ![s] = loop]
    BY <1>2 DEF Poll
  <2>3. session' \in [Sessions -> SessionState] /\ SessionShape'
    BY <2>1, <2>2, LoopTyped DEF OutboxTypeOK
  <2>4. QED
    BY <1>2, <2>3 DEF Poll, OutboxTypeOK
<1>3. ASSUME Claim(s) PROVE OutboxTypeOK' /\ SessionShape'
  <2> DEFINE id == session[s].id
             refused == \/ ~InOutbox(id) \/ outbox[id].user # session[s].user
                        \/ outbox[id].status = "failed" \/ outbox[id].leased
  <2>1. CASE refused
    <3>1. session' \in [Sessions -> SessionState] /\ SessionShape'
      BY <1>3, <2>1, Proceeds DEF Claim, SessionAt, Running
    <3>2. QED
      BY <1>3, <2>1, <3>1 DEF Claim, OutboxTypeOK
  <2>2. CASE ~refused
    <3> DEFINE next == IF FileCount[outbox[id].body] > 0 THEN "limit" ELSE "upload"
               loop == [session[s] EXCEPT !.pc = next, !.body = outbox[id].body,
                                          !.atts = outbox[id].atts]
               item == [outbox[id] EXCEPT !.status = "sending", !.owner = s,
                                          !.leased = TRUE]
    <3>1. id \in Ids /\ session[s].user \in Users
      BY <1>3 DEF Claim, SessionAt, SessionShape, Shaped
    <3>2. outbox[id] \in Item
      BY <2>2, <3>1, Held
    <3>3. item \in Item
      BY <3>2 DEF Item
    <3>4. outbox[id].body \in Bodies /\ outbox[id].atts \in Seq(Attachments)
      BY <3>2 DEF Item
    <3>5. next \in {"limit", "upload"}
      OBVIOUS
    <3>6. loop \in SessionState
      <4>1. session[s] \in SessionState
        BY DEF OutboxTypeOK
      <4>2. next \in Running
        BY <3>5 DEF Running
      <4>3. QED
        BY <3>4, <4>1, <4>2 DEF SessionState
    <3>7. Shaped(loop)
      <4>1. session[s] \in SessionState
        BY DEF OutboxTypeOK
      <4>2. loop.id = id /\ loop.user = session[s].user
            /\ loop.body = outbox[id].body
        BY <4>1 DEF SessionState
      <4>3. QED
        BY <3>1, <3>4, <4>2 DEF Shaped
    <3>8. /\ session' = [session EXCEPT ![s] = loop]
          /\ outbox' = [outbox EXCEPT ![id] = item]
          /\ UNCHANGED <<editing, clock, author, failed, discarded>>
      BY <1>3, <2>2 DEF Claim
    <3>9. session' \in [Sessions -> SessionState] /\ SessionShape'
      BY <3>6, <3>7, <3>8, LoopTyped DEF OutboxTypeOK
    <3>10. outbox' \in [Ids -> Item \cup {NoItem}]
      BY <3>1, <3>3, <3>8 DEF OutboxTypeOK
    <3>11. QED
      BY <3>8, <3>9, <3>10 DEF OutboxTypeOK
  <2>3. QED
    BY <2>1, <2>2
<1>4. ASSUME CheckLimit(s) PROVE OutboxTypeOK' /\ SessionShape'
  <2>1. session' \in [Sessions -> SessionState] /\ SessionShape'
    BY <1>4, Proceeds DEF CheckLimit, SessionAt, Running
  <2>2. QED
    BY <1>4, <2>1 DEF CheckLimit, OutboxTypeOK
<1>5. ASSUME SaveUpload(s) PROVE OutboxTypeOK' /\ SessionShape'
  <2> DEFINE id == session[s].id
  <2>1. session' \in [Sessions -> SessionState] /\ SessionShape'
    BY <1>5, Proceeds, Throws DEF SaveUpload, SessionAt, Running
  <2>2. outbox' \in [Ids -> Item \cup {NoItem}]
    <3>1. id \in Ids /\ session[s].body \in Bodies
      BY <1>5 DEF SaveUpload, SessionAt, SessionShape, Shaped
    <3>2. session[s].atts \in Seq(Attachments)
      BY DEF OutboxTypeOK, SessionState
    <3>3. CASE Owns(s, id)
      <4> DEFINE item == [outbox[id] EXCEPT !.body = session[s].body,
                           !.atts = session[s].atts, !.status = "sending"]
      <4>1. item \in Item
        <5>1. outbox[id] \in Item
          BY <3>1, <3>3, Held DEF Owns
        <5>2. QED
          BY <3>1, <3>2, <5>1 DEF Item
      <4>2. outbox' = [outbox EXCEPT ![id] = item]
        BY <1>5, <3>3 DEF SaveUpload
      <4>3. QED
        BY <3>1, <4>1, <4>2, ItemTyped DEF OutboxTypeOK
    <3>4. CASE ~Owns(s, id)
      BY <1>5, <3>4 DEF SaveUpload, OutboxTypeOK
    <3>5. QED
      BY <3>3, <3>4
  <2>3. QED
    BY <1>5, <2>1, <2>2 DEF SaveUpload, OutboxTypeOK
<1>6. ASSUME ConnectionLost(s) \/ TimeOut(s) PROVE OutboxTypeOK' /\ SessionShape'
  <2>1. session' \in [Sessions -> SessionState] /\ SessionShape'
    BY <1>6, Throws DEF ConnectionLost, TimeOut, SessionAt, Running
  <2>2. QED
    BY <1>6, <2>1 DEF ConnectionLost, TimeOut, OutboxTypeOK
<1>7. ASSUME Clear(s) PROVE OutboxTypeOK' /\ SessionShape'
  <2>1. session' \in [Sessions -> SessionState] /\ SessionShape'
    BY <1>7, Proceeds DEF Clear, SessionAt, Running
  <2>2. QED
    BY <1>7, <2>1 DEF Clear, OutboxTypeOK
<1>8. ASSUME Settle(s) PROVE OutboxTypeOK' /\ SessionShape'
  <2> DEFINE id == session[s].id
             status == IF session[s].retryable THEN "queued" ELSE "failed"
  <2>1. session' \in [Sessions -> SessionState] /\ SessionShape'
    BY <1>8, Proceeds DEF Settle, SessionAt, Running
  <2>2. id \in Ids
    BY <1>8 DEF Settle, SessionAt, SessionShape, Shaped
  <2>3. CASE Owns(s, id)
    <3> DEFINE item == [outbox[id] EXCEPT !.status = status, !.leased = FALSE,
                                          !.waiting = TRUE]
    <3>1. item \in Item
      <4>1. outbox[id] \in Item
        BY <2>2, <2>3, Held DEF Owns
      <4>2. QED
        BY <4>1 DEF Item
    <3>2. outbox' = [outbox EXCEPT ![id] = item]
      BY <1>8, <2>3 DEF Settle
    <3>3. outbox' \in [Ids -> Item \cup {NoItem}]
      BY <2>2, <3>1, <3>2, ItemTyped DEF OutboxTypeOK
    <3>4. failed' \subseteq Ids
      BY <1>8, <2>2, <2>3 DEF Settle, OutboxTypeOK
    <3>5. QED
      BY <1>8, <2>1, <3>3, <3>4 DEF Settle, OutboxTypeOK
  <2>4. CASE ~Owns(s, id)
    BY <1>8, <2>1, <2>4 DEF Settle, OutboxTypeOK
  <2>5. QED
    BY <2>3, <2>4
<1>9. ASSUME Rest(s) PROVE OutboxTypeOK' /\ SessionShape'
  <2> DEFINE loop == [Unborn EXCEPT !.user = session[s].user,
                !.live = session[s].live, !.online = session[s].online,
                !.armed = /\ session[s].live
                          /\ \/ session[s].armed
                             \/ PendingFor(session[s].user) # {}]
  <2>1. loop \in SessionState /\ Shaped(loop)
    <3>1. session[s] \in SessionState
      BY DEF OutboxTypeOK
    <3>2. /\ session[s].user \in Users \cup {NoUser}
          /\ session[s].live \in BOOLEAN /\ session[s].online \in BOOLEAN
          /\ session[s].live => session[s].user \in Users
      BY <3>1, LoopFields DEF SessionShape, Shaped
    <3>3. << >> \in Seq(Attachments)
      OBVIOUS
    <3>4. loop \in SessionState
      BY <3>2, <3>3 DEF SessionState, Unborn, Idle
    <3>5. QED
      BY <3>2, <3>4 DEF Shaped, Unborn
  <2>2. session' = [session EXCEPT ![s] = loop]
    BY <1>9 DEF Rest
  <2>3. session' \in [Sessions -> SessionState] /\ SessionShape'
    BY <2>1, <2>2, LoopTyped DEF OutboxTypeOK
  <2>4. QED
    BY <1>9, <2>3 DEF Rest, OutboxTypeOK
<1>10. ASSUME StorageFails(s) PROVE OutboxTypeOK' /\ SessionShape'
  <2>1. session' \in [Sessions -> SessionState] /\ SessionShape'
    <3>1. CASE session[s].pc \in {"save", "clear"} /\ Throw(s, TRUE)
      BY <3>1, Throws DEF Running
    <3>2. CASE session[s].pc \in {"picked", "settle"} /\ Proceed(s, "rest")
      BY <3>2, Proceeds DEF Running
    <3>3. QED
      BY <1>10, <3>1, <3>2 DEF StorageFails
  <2>2. QED
    BY <1>10, <2>1 DEF StorageFails, OutboxTypeOK
<1>11. ASSUME Renew(s) PROVE OutboxTypeOK' /\ SessionShape'
  <2>1. session[s].id \in Ids
    BY <1>11 DEF Renew, Running, SessionShape, Shaped
  <2> DEFINE item == [outbox[session[s].id] EXCEPT !.leased = TRUE]
  <2>2. item \in Item
    <3>1. outbox[session[s].id] \in Item
      BY <1>11, <2>1, Held DEF Renew, Owns
    <3>2. QED
      BY <3>1 DEF Item
  <2>3. outbox' = [outbox EXCEPT ![session[s].id] = item]
    BY <1>11 DEF Renew
  <2>4. outbox' \in [Ids -> Item \cup {NoItem}]
    BY <2>1, <2>2, <2>3, ItemTyped DEF OutboxTypeOK
  <2>5. QED
    BY <1>11, <2>4 DEF Renew, OutboxTypeOK, SessionShape
<1>12. QED
  BY <1>1, <1>2, <1>3, <1>4, <1>5, <1>6, <1>7, <1>8, <1>9, <1>10, <1>11

\* The loop's half of an exchange with the server.
LEMMA SocketTyped ==
  ASSUME OutboxTypeOK, SessionShape, NEW s \in Sessions,
         \/ \E a \in Attachments : Uploaded(s, a)
         \/ \E retryable \in BOOLEAN : UploadFails(s, retryable)
         \/ \E h \in Slots : Emit(s, h)
         \/ \E reply \in Replies : Acked(s, reply)
  PROVE  OutboxTypeOK' /\ SessionShape'
<1>0. session[s] \in SessionState /\ Shaped(session[s])
  BY DEF OutboxTypeOK, SessionShape
<1>1. ASSUME NEW a \in Attachments, Uploaded(s, a)
      PROVE  OutboxTypeOK' /\ SessionShape'
  <2> DEFINE atts == Append(session[s].atts, a)
             loop == [session[s] EXCEPT !.pc = "save", !.atts = atts]
  <2>1. session[s].pc = "upload"
    BY <1>1 DEF Uploaded, SessionAt
  <2>2. atts \in Seq(Attachments)
    BY <1>0, LoopFields
  <2>3. loop \in SessionState
    <3>1. "save" \in Running
      BY DEF Running
    <3>2. QED
      BY <1>0, <2>2, <3>1 DEF SessionState
  <2>4. Shaped(loop)
    BY <1>0, <2>1 DEF Shaped, SessionState
  <2>5. session' = [session EXCEPT ![s] = loop]
    BY <1>1 DEF Uploaded
  <2>6. session' \in [Sessions -> SessionState] /\ SessionShape'
    BY <2>3, <2>4, <2>5, LoopTyped DEF OutboxTypeOK
  <2>7. QED
    BY <1>1, <2>6 DEF Uploaded, OutboxTypeOK
<1>2. ASSUME NEW retryable \in BOOLEAN, UploadFails(s, retryable)
      PROVE  OutboxTypeOK' /\ SessionShape'
  <2>1. session' \in [Sessions -> SessionState] /\ SessionShape'
    BY <1>2, Throws DEF UploadFails, SessionAt, Running
  <2>2. QED
    BY <1>2, <2>1 DEF UploadFails, OutboxTypeOK
<1>3. ASSUME NEW h \in Slots, Emit(s, h) PROVE OutboxTypeOK' /\ SessionShape'
  <2> DEFINE loop == [session[s] EXCEPT !.pc = "await", !.call = h]
  <2>1. session[s].pc = "upload"
    BY <1>3 DEF Emit, SessionAt
  <2>2. loop \in SessionState
    <3>1. "await" \in Running
      BY DEF Running
    <3>2. QED
      BY <1>0, <3>1 DEF SessionState
  <2>3. Shaped(loop)
    BY <1>0, <2>1 DEF Shaped, SessionState
  <2>4. session' = [session EXCEPT ![s] = loop]
    BY <1>3 DEF Emit
  <2>5. session' \in [Sessions -> SessionState] /\ SessionShape'
    BY <2>2, <2>3, <2>4, LoopTyped DEF OutboxTypeOK
  <2>6. QED
    BY <1>3, <2>5 DEF Emit, OutboxTypeOK
<1>4. ASSUME NEW reply \in Replies, Acked(s, reply)
      PROVE  OutboxTypeOK' /\ SessionShape'
  <2> DEFINE loop == [session[s] EXCEPT !.pc = "clear", !.call = NoSlot]
  <2>1. session[s].pc = "await"
    BY <1>4 DEF Acked, SessionAt
  <2>2. loop \in SessionState
    <3>1. "clear" \in Running
      BY DEF Running
    <3>2. QED
      BY <1>0, <3>1 DEF SessionState
  <2>3. Shaped(loop)
    BY <1>0, <2>1 DEF Shaped, SessionState
  <2>4. session' \in [Sessions -> SessionState] /\ SessionShape'
    <3>1. CASE reply = "ok"
      <4>1. session' = [session EXCEPT ![s] = loop]
        BY <1>4, <3>1 DEF Acked
      <4>2. QED
        BY <2>2, <2>3, <4>1, LoopTyped DEF OutboxTypeOK
    <3>2. CASE reply # "ok"
      BY <1>4, <2>1, <3>2, Throws DEF Acked, Running
    <3>3. QED
      BY <3>1, <3>2
  <2>5. QED
    BY <1>4, <2>4 DEF Acked, OutboxTypeOK
<1>5. QED
  BY <1>1, <1>2, <1>3, <1>4

\* Windows come and go; leases and backoffs run out.
LEMMA WindowTyped ==
  ASSUME OutboxTypeOK, SessionShape,
         \/ \E s \in Sessions :
               \/ StopSession(s) \/ WindowGone(s) \/ GoOffline(s)
               \/ GoOnline(s) \/ Wake(s)
               \/ \E u \in Users : StartSession(s, u)
         \/ \E id \in Ids : LeaseExpires(id) \/ BackoffEnds(id)
  PROVE  OutboxTypeOK' /\ SessionShape'
<1>0. \A s \in Sessions : session[s] \in SessionState /\ Shaped(session[s])
  BY DEF OutboxTypeOK, SessionShape
<1>1. ASSUME NEW s \in Sessions, NEW u \in Users, StartSession(s, u)
      PROVE  OutboxTypeOK' /\ SessionShape'
  <2> DEFINE loop == [Unborn EXCEPT !.user = u, !.live = TRUE,
                                    !.online = TRUE, !.armed = TRUE]
  <2>1. loop \in SessionState
    <3>1. << >> \in Seq(Attachments)
      OBVIOUS
    <3>2. QED
      BY <3>1 DEF SessionState, Unborn, Idle
  <2>2. Shaped(loop)
    BY DEF Shaped, Unborn
  <2>3. session' = [session EXCEPT ![s] = loop]
    BY <1>1 DEF StartSession
  <2>4. session' \in [Sessions -> SessionState] /\ SessionShape'
    BY <2>1, <2>2, <2>3, LoopTyped DEF OutboxTypeOK
  <2>5. outbox' \in [Ids -> Item \cup {NoItem}]
    BY <1>1, Disowned DEF StartSession
  <2>6. QED
    BY <1>1, <2>4, <2>5 DEF StartSession, OutboxTypeOK
<1>2. ASSUME NEW s \in Sessions, WindowGone(s)
      PROVE  OutboxTypeOK' /\ SessionShape'
  <2>1. Unborn \in SessionState /\ Shaped(Unborn)
    BY DEF SessionState, Shaped, Unborn, Idle
  <2>2. session' \in [Sessions -> SessionState] /\ SessionShape'
    BY <1>2, <2>1, LoopTyped DEF WindowGone, OutboxTypeOK
  <2>3. outbox' \in [Ids -> Item \cup {NoItem}]
    BY <1>2, Disowned DEF WindowGone
  <2>4. QED
    BY <1>2, <2>2, <2>3 DEF WindowGone, OutboxTypeOK
<1>3. ASSUME NEW s \in Sessions, StopSession(s) \/ GoOffline(s)
      PROVE  OutboxTypeOK' /\ SessionShape'
  <2> DEFINE stopped == [session[s] EXCEPT !.live = FALSE, !.armed = FALSE]
             offline == [session[s] EXCEPT !.online = FALSE]
  <2>1. stopped \in SessionState /\ offline \in SessionState
    BY <1>0 DEF SessionState
  <2>2. Shaped(stopped) /\ Shaped(offline)
    BY <1>0 DEF Shaped, SessionState
  <2>3. \/ session' = [session EXCEPT ![s] = stopped]
        \/ session' = [session EXCEPT ![s] = offline]
    BY <1>3 DEF StopSession, GoOffline
  <2>4. session' \in [Sessions -> SessionState] /\ SessionShape'
    BY <2>1, <2>2, <2>3, LoopTyped DEF OutboxTypeOK
  <2>5. QED
    BY <1>3, <2>4 DEF StopSession, GoOffline, OutboxTypeOK
<1>4. ASSUME NEW s \in Sessions, GoOnline(s) PROVE OutboxTypeOK' /\ SessionShape'
  <2> DEFINE loop == [session[s] EXCEPT !.online = TRUE, !.armed = TRUE]
  <2>1. loop \in SessionState
    BY <1>0 DEF SessionState
  <2>2. Shaped(loop)
    BY <1>0 DEF Shaped, SessionState
  <2>3. session' = [session EXCEPT ![s] = loop]
    BY <1>4 DEF GoOnline
  <2>4. session' \in [Sessions -> SessionState] /\ SessionShape'
    BY <2>1, <2>2, <2>3, LoopTyped DEF OutboxTypeOK
  <2>5. QED
    BY <1>4, <2>4 DEF GoOnline, OutboxTypeOK
<1>5. ASSUME NEW s \in Sessions, Wake(s) PROVE OutboxTypeOK' /\ SessionShape'
  <2>1. session' \in [Sessions -> SessionState] /\ SessionShape'
    BY <1>5, Arms DEF Wake
  <2>2. QED
    BY <1>5, <2>1 DEF Wake, OutboxTypeOK
<1>6. ASSUME NEW id \in Ids, LeaseExpires(id) \/ BackoffEnds(id)
      PROVE  OutboxTypeOK' /\ SessionShape'
  <2> DEFINE free == [outbox[id] EXCEPT !.leased = FALSE]
             ready == [outbox[id] EXCEPT !.waiting = FALSE]
  <2>1. outbox[id] \in Item
    BY <1>6 DEF LeaseExpires, BackoffEnds, OutboxTypeOK, NoItem
  <2>2. free \in Item /\ ready \in Item
    BY <2>1 DEF Item
  <2>3. outbox' = [outbox EXCEPT ![id] = free] \/ outbox' = [outbox EXCEPT ![id] = ready]
    BY <1>6 DEF LeaseExpires, BackoffEnds
  <2>4. outbox' \in [Ids -> Item \cup {NoItem}]
    BY <2>2, <2>3, ItemTyped DEF OutboxTypeOK
  <2>5. QED
    BY <1>6, <2>4 DEF LeaseExpires, BackoffEnds, OutboxTypeOK, SessionShape
<1>7. QED
  BY <1>1, <1>2, <1>3, <1>4, <1>5, <1>6

LEMMA OutboxTyped ==
  ASSUME OutboxTypeOK, SessionShape, OutboxNext
  PROVE  OutboxTypeOK' /\ SessionShape'
<1>1. {"none", "ok", "reject", "retry"} = Replies
  BY DEF Replies
<1>2. QED
  BY <1>1, UserTyped, LoopStepTyped, SocketTyped, WindowTyped
  DEF OutboxNext, DeviceStep

-----------------------------------------------------------------------------
\* A step of the composition is the device's, the server's, or one exchange.
StepKinds ==
  \/ DeviceStep /\ UNCHANGED sendVars
  \/ Serve /\ UNCHANGED outboxVars
  \/ \E s \in Sessions, h \in Slots : Send(s, h)
  \/ \E s \in Sessions : Ack(s)
  \/ \E s \in Sessions, a \in Attachments :
        /\ CreateAttachment(a, session[s].user)
        /\ Uploaded(s, a) \/ UploadFails(s, TRUE)
  \/ UNCHANGED <<outboxVars, sendVars>>

LEMMA QuietKinds == Quiet => StepKinds
<1>1. UserStep => DeviceStep /\ UNCHANGED sendVars
  BY DEF UserStep, DeviceStep
<1>2. ASSUME NEW s \in Sessions, LoopStep(s)
      PROVE  DeviceStep /\ UNCHANGED sendVars
  BY <1>2 DEF LoopStep, DeviceStep
<1>3. ASSUME NEW s \in Sessions, SocketStep(s) PROVE StepKinds
  BY <1>3 DEF SocketStep, UploadFile, StepKinds
<1>4. ASSUME NEW s \in Sessions, Returns(s)
      PROVE  DeviceStep /\ UNCHANGED sendVars
  BY <1>4 DEF Returns, DeviceStep
<1>5. ASSUME NEW h \in Slots, ServerStep(h) \/ DropAck(h)
      PROVE  Serve /\ UNCHANGED outboxVars
  BY <1>5 DEF ServerStep, DropAck, Serve
<1>6. ASSUME NEW id \in Ids, TimePasses(id)
      PROVE  DeviceStep /\ UNCHANGED sendVars
  BY <1>6 DEF TimePasses, DeviceStep
<1>7. ASSUME NEW id \in Ids, WritesRows(id)
      PROVE  Serve /\ UNCHANGED outboxVars
  BY <1>7 DEF WritesRows, Serve
<1>8. ASSUME NEW h \in Slots, Refuse(h) \/ Invalid(h) PROVE Serve
  BY <1>8 DEF Serve
<1>9. ASSUME NEW s \in Sessions, Renew(s) \/ Wake(s) \/ UploadFails(s, FALSE)
      PROVE  DeviceStep
  BY <1>9 DEF DeviceStep
<1>10. QED
  BY <1>1, <1>2, <1>3, <1>4, <1>5, <1>6, <1>7, <1>8, <1>9
  DEF Quiet, Choice, StepKinds

LEMMA DisturbanceKinds == Disturbance => StepKinds
<1>1. ASSUME NEW s \in Sessions,
             \/ TimeOut(s) \/ UploadFails(s, TRUE) \/ StorageFails(s)
             \/ WindowGone(s) \/ StopSession(s) \/ GoOffline(s)
      PROVE  DeviceStep
  BY <1>1 DEF DeviceStep
<1>2. ASSUME NEW id \in Ids, LeaseExpires(id) PROVE DeviceStep
  BY <1>2 DEF DeviceStep
<1>3. ASSUME NEW h \in Slots, ServerError(h) PROVE Serve
  BY <1>3 DEF Serve
<1>4. ASSUME NEW id \in Ids, RecordFails(id) PROVE Serve
  BY <1>4 DEF Serve
<1>5. ASSUME NEW a \in Attachments, ReapOrphan(a) PROVE Serve
  BY <1>5 DEF Serve
<1>6. ServerCrash => Serve
  BY DEF Serve
<1>7. QED
  BY <1>1, <1>2, <1>3, <1>4, <1>5, <1>6 DEF Disturbance, StepKinds

LEMMA NextKinds == [Next]_vars => StepKinds
  BY QuietKinds, DisturbanceKinds DEF Next, Fault, vars, StepKinds

\* Seen from one side, a step is a step of that side or leaves it alone.
LEMMA NextSplits ==
  ASSUME OutboxTypeOK, SessionShape, SendTypeOK, StepKinds
  PROVE  [OutboxNext]_outboxVars /\ [ServerNext]_sendVars
<1>0. \A s \in Sessions : session[s] \in SessionState /\ Shaped(session[s])
  BY DEF OutboxTypeOK, SessionShape
<1>1. ASSUME NEW s \in Sessions, NEW h \in Slots, Send(s, h)
      PROVE  OutboxNext /\ ServerNext
  <2>1. Payload(s) \in Request
    <3>1. session[s].pc = "upload"
      BY <1>1 DEF Send, Emit, SessionAt
    <3>2. /\ session[s].user \in Users /\ session[s].id \in Ids
          /\ session[s].body \in Bodies /\ session[s].atts \in Seq(Attachments)
      BY <1>0, <3>1, LoopFields DEF Shaped
    <3>3. QED
      BY <3>2 DEF Payload, Request
  <2>2. Emit(s, h) /\ Receive(h, Payload(s))
    BY <1>1 DEF Send
  <2>3. QED
    BY <2>1, <2>2 DEF OutboxNext, ServerNext
<1>2. ASSUME NEW s \in Sessions, Ack(s) PROVE OutboxNext /\ ServerNext
  <2> DEFINE h == session[s].call
  <2>1. h \in Slots
    BY <1>0, <1>2, LoopFields DEF Ack
  <2>2. handler[h].reply \in Replies
    BY <1>2, <2>1, InUse, BusyFields DEF Ack, Finish, At
  <2>3. Finish(h) /\ Acked(s, handler[h].reply)
    BY <1>2 DEF Ack
  <2>4. QED
    BY <2>1, <2>2, <2>3 DEF OutboxNext, ServerNext, Serve, Replies
<1>3. ASSUME NEW s \in Sessions, NEW a \in Attachments,
             CreateAttachment(a, session[s].user),
             Uploaded(s, a) \/ UploadFails(s, TRUE)
      PROVE  OutboxNext /\ ServerNext
  <2>1. session[s].user \in Users
    BY <1>0, <1>3 DEF Uploaded, UploadFails, SessionAt, Shaped
  <2>2. QED
    BY <1>3, <2>1 DEF OutboxNext, DeviceStep, ServerNext, Serve
<1>4. (Serve => ServerNext) /\ (DeviceStep => OutboxNext)
  BY DEF ServerNext, OutboxNext
<1>5. QED
  BY <1>1, <1>2, <1>3, <1>4 DEF StepKinds, outboxVars, sendVars

\* The type invariant, with what a running attempt always carries.
TypeInv == TypeOK /\ SessionShape

LEMMA InitTyped == Init => TypeInv
  BY OutboxInitTyped, SendInitTyped, FaultAssumption DEF Init, TypeInv, TypeOK

LEMMA NextTyped ==
  ASSUME TypeInv, [Next]_vars
  PROVE  TypeInv'
<1>1. OutboxTypeOK /\ SendTypeOK /\ SessionShape
  BY DEF TypeInv, TypeOK
<1>2. [OutboxNext]_outboxVars /\ [ServerNext]_sendVars
  BY <1>1, NextKinds, NextSplits
<1>3. OutboxTypeOK' /\ SessionShape'
  <2>1. CASE OutboxNext
    BY <1>1, <2>1, OutboxTyped
  <2>2. CASE UNCHANGED outboxVars
    BY <1>1, <2>2 DEF outboxVars, OutboxTypeOK, SessionShape
  <2>3. QED
    BY <1>2, <2>1, <2>2
<1>4. SendTypeOK'
  <2>1. CASE ServerNext
    BY <1>1, <2>1, ServerTyped
  <2>2. CASE UNCHANGED sendVars
    BY <1>1, <2>2 DEF sendVars, SendTypeOK
  <2>3. QED
    BY <1>2, <2>1, <2>2
<1>5. (faults \in 0..MaxFaults)'
  BY FaultAssumption DEF TypeInv, TypeOK, Next, Fault, vars
<1>6. QED
  BY <1>3, <1>4, <1>5 DEF TypeInv, TypeOK

\* Every variable keeps its type, whatever the windows and the server do: in
\* particular no write of a loop brings back an item that left the outbox as
\* anything but a whole item.
THEOREM TypeCorrect == Spec => []TypeOK
<1>1. Spec => []TypeInv
  BY InitTyped, NextTyped, PTL DEF Spec
<1>2. TypeInv => TypeOK
  BY DEF TypeInv
<1>3. QED
  BY <1>1, <1>2, PTL

-----------------------------------------------------------------------------
(* What the server's steps keep.                                           *)

LEMMA StoredTyped ==
  ASSUME NEW message \in Message PROVE message # NoMessage
  BY SendAssumption DEF Message, NoMessage

\* Only Insert writes the messages table, and only a row that was not there.
LEMMA StoredBy ==
  ASSUME SendTypeOK, ServerNext
  PROVE  \/ stored' = stored
         \/ \E h \in Slots : /\ Insert(h) /\ ~IsStored(handler[h].id)
                             /\ Goto(h, "deliver")
<1>1. ASSUME NEW h \in Slots, Insert(h), stored' # stored
      PROVE  ~IsStored(handler[h].id) /\ Goto(h, "deliver")
  BY <1>1 DEF Insert
<1>2. \/ stored' = stored
      \/ \E h \in Slots : Insert(h)
  BY DEF ServerNext, Serve, HandlerStep, Receive, Authorize, Refuse, Lookup, Invalid,
         Recheck, Deliver, ServerError, Finish, RecordRows, RecordFails,
         ServerCrash, CreateAttachment, ReapOrphan
<1>3. QED
  BY <1>1, <1>2

LEMMA StoredGrows ==
  ASSUME SendTypeOK, ServerNext, NEW id \in Ids, IsStored(id)
  PROVE  stored'[id] = stored[id]
<1>1. CASE stored' = stored
  BY <1>1
<1>2. ASSUME NEW h \in Slots, Insert(h), ~IsStored(handler[h].id)
      PROVE  stored'[id] = stored[id]
  BY <1>2 DEF Insert, SendTypeOK
<1>3. QED
  BY <1>1, <1>2, StoredBy

\* A request keeps what it asks for until its slot is free again.
SlotKept(h) ==
  \/ handler'[h] = Free
  \/ /\ handler[h].pc # "free" /\ handler'[h].pc # "free"
     /\ handler'[h].user = handler[h].user /\ handler'[h].id = handler[h].id
     /\ handler'[h].body = handler[h].body /\ handler'[h].atts = handler[h].atts

LEMMA MovesKeep ==
  ASSUME SendTypeOK, NEW h \in Slots, handler[h].pc # "free",
         NEW pc \in Phases, NEW r \in Replies, Goto(h, pc) \/ Reply(h, r)
  PROVE  \A g \in Slots : SlotKept(g)
<1>1. handler[h] \in Busy
  BY InUse
<1>2. \A g \in Slots \ {h} : handler'[g] = handler[g]
  BY DEF SendTypeOK, Goto, Reply
<1>3. \A g \in Slots : handler[g].pc = "free" => handler[g] = Free
  BY DEF SendTypeOK, Busy, Phases
<1>4. \/ handler'[h] = [handler[h] EXCEPT !.pc = pc]
      \/ handler'[h] = [handler[h] EXCEPT !.pc = "reply", !.reply = r]
  BY DEF SendTypeOK, Goto, Reply
<1>5. SlotKept(h)
  BY <1>1, <1>4 DEF SlotKept, Busy, Phases
<1>6. QED
  BY <1>2, <1>3, <1>5 DEF SlotKept

LEMMA ServeKeeps ==
  ASSUME SendTypeOK, Serve
  PROVE  \A h \in Slots : SlotKept(h)
<1>0. \A g \in Slots : handler[g].pc = "free" => handler[g] = Free
  BY DEF SendTypeOK, Busy, Phases
<1>1. ASSUME NEW h \in Slots, HandlerStep(h) \/ Refuse(h) \/ Invalid(h) \/ ServerError(h)
      PROVE  \A g \in Slots : SlotKept(g)
  <2>1. handler[h].pc # "free"
    BY <1>1 DEF HandlerStep, Authorize, Lookup, Insert, Recheck, Deliver, Refuse,
                Invalid, ServerError, At, Phases
  <2>2. \/ \E pc \in Phases : Goto(h, pc)
        \/ \E r \in Replies : Reply(h, r)
    BY <1>1 DEF HandlerStep, Authorize, Lookup, Insert, Recheck, Deliver, Refuse,
                Invalid, ServerError, AnswerReplay, Phases, Replies
  <2>3. QED
    BY <2>1, <2>2, MovesKeep DEF Phases, Replies
<1>2. ASSUME NEW h \in Slots, Finish(h) PROVE \A g \in Slots : SlotKept(g)
  BY <1>0, <1>2 DEF Finish, SlotKept, SendTypeOK
<1>3. ServerCrash => \A g \in Slots : SlotKept(g)
  BY DEF ServerCrash, SlotKept
<1>4. handler' = handler => \A g \in Slots : SlotKept(g)
  BY <1>0 DEF SlotKept
<1>5. QED
  BY <1>1, <1>2, <1>3, <1>4
  DEF Serve, RecordRows, RecordFails, CreateAttachment, ReapOrphan

-----------------------------------------------------------------------------
(* Announcements.                                                          *)

\* A handler about to announce is the one that stored the row, so nobody
\* announced it before and nobody else is about to.
Announcing(h) ==
  /\ IsStored(handler[h].id) /\ broadcasts[handler[h].id] = 0
  /\ \A g \in Slots : At(g, "deliver") /\ handler[g].id = handler[h].id => g = h

AnnounceInv ==
  /\ \A id \in Ids : broadcasts[id] \in {0, 1} /\ (broadcasts[id] # 0 => IsStored(id))
  /\ \A h \in Slots : At(h, "deliver") => Announcing(h)
  /\ \A h \in Slots : handler[h].reply = "ok" => IsStored(handler[h].id)

LEMMA AnnounceInit == SendInit => AnnounceInv
  BY DEF SendInit, AnnounceInv, At, Free

\* A handler that moves on without announcing or storing anything.
LEMMA QuietHandler ==
  ASSUME SendTypeOK, AnnounceInv, NEW h \in Slots, NEW new \in Busy \cup {Free},
         handler' = [handler EXCEPT ![h] = new],
         new.pc # "deliver", new.reply = "ok" => IsStored(new.id),
         stored' = stored, broadcasts' = broadcasts
  PROVE  AnnounceInv'
<1>1. \A g \in Slots \ {h} : handler'[g] = handler[g]
  BY DEF SendTypeOK
<1>2. handler'[h] = new
  BY DEF SendTypeOK
<1>3. \A g \in Slots : At(g, "deliver")' => g # h /\ At(g, "deliver")
  BY <1>1, <1>2 DEF At
<1>4. QED
  BY <1>1, <1>2, <1>3 DEF AnnounceInv, Announcing, IsStored

LEMMA QuietMove ==
  ASSUME SendTypeOK, AnnounceInv, NEW h \in Slots, handler[h].pc # "free",
         \/ \E pc \in Phases \ {"deliver"} : Goto(h, pc)
         \/ \E r \in Replies : Reply(h, r) /\ (r = "ok" => IsStored(handler[h].id)),
         stored' = stored, broadcasts' = broadcasts
  PROVE  AnnounceInv'
<1>1. handler[h] \in Busy
  BY InUse
<1>2. handler[h].reply = "ok" => IsStored(handler[h].id)
  BY DEF AnnounceInv
<1>3. ASSUME NEW pc \in Phases \ {"deliver"}, Goto(h, pc) PROVE AnnounceInv'
  <2> DEFINE new == [handler[h] EXCEPT !.pc = pc]
  <2>1. new \in Busy
    BY <1>1, BusyMoves DEF Replies
  <2>2. new.pc = pc /\ new.reply = handler[h].reply /\ new.id = handler[h].id
    BY <1>1 DEF Busy
  <2>3. handler' = [handler EXCEPT ![h] = new]
    BY <1>3 DEF Goto
  <2>4. QED
    BY <1>2, <2>1, <2>2, <2>3, QuietHandler
<1>4. ASSUME NEW r \in Replies, Reply(h, r), r = "ok" => IsStored(handler[h].id)
      PROVE  AnnounceInv'
  <2> DEFINE new == [handler[h] EXCEPT !.pc = "reply", !.reply = r]
  <2>1. new \in Busy
    BY <1>1, BusyMoves DEF Phases
  <2>2. new.pc = "reply" /\ new.reply = r /\ new.id = handler[h].id
    BY <1>1 DEF Busy
  <2>3. handler' = [handler EXCEPT ![h] = new]
    BY <1>4 DEF Reply
  <2>4. QED
    BY <1>4, <2>1, <2>2, <2>3, QuietHandler
<1>5. QED
  BY <1>3, <1>4

LEMMA InsertAnnounces ==
  ASSUME SendTypeOK, AnnounceInv, NEW h \in Slots, Insert(h)
  PROVE  AnnounceInv'
<1>1. handler[h] \in Busy /\ handler[h].pc # "free"
  BY InUse DEF Insert, At
<1>2. CASE stored' = stored /\ Goto(h, "recheck")
  BY <1>1, <1>2, QuietMove DEF Insert, Phases
<1>3. CASE /\ ~IsStored(handler[h].id) /\ Goto(h, "deliver")
           /\ stored' = [stored EXCEPT ![handler[h].id] =
                [author |-> handler[h].user, body |-> handler[h].body,
                 atts |-> handler[h].atts]]
  <2> DEFINE id == handler[h].id
  <2>1. id \in Ids
    BY <1>1, BusyFields
  <2>2. broadcasts' = broadcasts /\ broadcasts[id] = 0
    BY <1>3, <2>1 DEF Insert, AnnounceInv, SendTypeOK
  <2>3. \A other \in Ids : IsStored(other)' <=> (IsStored(other) \/ other = id)
    <3>1. [author |-> handler[h].user, body |-> handler[h].body,
           atts |-> handler[h].atts] # NoMessage
      BY <1>1, BusyFields, SendAssumption DEF NoMessage
    <3>2. QED
      BY <1>3, <2>1, <3>1 DEF IsStored, SendTypeOK
  <2>4. /\ \A g \in Slots \ {h} : handler'[g] = handler[g]
        /\ handler'[h].id = id /\ handler'[h].reply = handler[h].reply
    BY <1>1, <1>3 DEF SendTypeOK, Goto, Busy
  <2>5. \A g \in Slots \ {h} : At(g, "deliver")' => handler[g].id # id
    BY <1>3, <2>4 DEF AnnounceInv, Announcing, At
  <2>6. \A g \in Slots : handler[g].reply = "ok" \/ At(g, "deliver") => handler[g].id \in Ids
    BY InUse, BusyFields DEF At, SendTypeOK, Free
  <2>7. QED
    BY <2>1, <2>2, <2>3, <2>4, <2>5, <2>6 DEF AnnounceInv, Announcing, At
<1>4. QED
  BY <1>2, <1>3 DEF Insert

LEMMA DeliverAnnounces ==
  ASSUME SendTypeOK, AnnounceInv, NEW h \in Slots, Deliver(h)
  PROVE  AnnounceInv'
<1> DEFINE id == handler[h].id
<1>1. handler[h] \in Busy /\ id \in Ids
  BY InUse, BusyFields DEF Deliver, At
<1>2. Announcing(h)
  BY DEF AnnounceInv, Deliver
<1>3. /\ stored' = stored
      /\ broadcasts' = [broadcasts EXCEPT ![id] = 1]
  BY <1>1, <1>2 DEF Deliver, Announcing, SendTypeOK
<1>4. /\ \A g \in Slots \ {h} : handler'[g] = handler[g]
      /\ handler'[h].pc = "reply" /\ handler'[h].id = id
  BY <1>1 DEF Deliver, Reply, SendTypeOK, Busy
<1>5. \A g \in Slots : At(g, "deliver")' => At(g, "deliver") /\ handler[g].id # id
  BY <1>2, <1>4 DEF At, Announcing, Deliver
<1>6. QED
  BY <1>1, <1>2, <1>3, <1>4, <1>5
  DEF AnnounceInv, Announcing, IsStored, SendTypeOK, At

LEMMA AnnounceStep ==
  ASSUME SendTypeOK, AnnounceInv, [ServerNext]_sendVars
  PROVE  AnnounceInv'
<1>1. ASSUME NEW h \in Slots,
             \/ Authorize(h) \/ Lookup(h) \/ Recheck(h)
             \/ Refuse(h) \/ Invalid(h) \/ ServerError(h)
      PROVE  AnnounceInv'
  <2>1. handler[h].pc # "free" /\ stored' = stored /\ broadcasts' = broadcasts
    BY <1>1 DEF Authorize, Lookup, Recheck, Refuse, Invalid, ServerError, At, Phases
  <2>2. \/ \E pc \in Phases \ {"deliver"} : Goto(h, pc)
        \/ \E r \in Replies : Reply(h, r) /\ (r = "ok" => IsStored(handler[h].id))
    BY <1>1 DEF Authorize, Lookup, Recheck, Refuse, Invalid, ServerError,
                AnswerReplay, Phases, Replies
  <2>3. QED
    BY <2>1, <2>2, QuietMove
<1>2. ASSUME NEW h \in Slots, NEW req \in Request, Receive(h, req) PROVE AnnounceInv'
  <2> DEFINE new == [user |-> req.user, id |-> req.id, body |-> req.body,
                     atts |-> req.atts, pc |-> "authorize", reply |-> "none"]
  <2>1. new \in Busy
    BY DEF Request, Busy, Phases, Replies
  <2>2. new.pc = "authorize" /\ new.reply = "none"
    OBVIOUS
  <2>3. /\ handler' = [handler EXCEPT ![h] = new]
        /\ stored' = stored /\ broadcasts' = broadcasts
    BY <1>2 DEF Receive
  <2>4. QED
    BY <2>1, <2>2, <2>3, QuietHandler
<1>3. ASSUME NEW h \in Slots, Finish(h) PROVE AnnounceInv'
  <2>1. Free.pc = "free" /\ Free.reply = "none"
    BY DEF Free
  <2>2. QED
    BY <1>3, <2>1, QuietHandler DEF Finish
<1>4. ServerCrash => AnnounceInv'
  BY DEF ServerCrash, AnnounceInv, Announcing, IsStored, At, Free
<1>5. ASSUME handler' = handler, stored' = stored, broadcasts' = broadcasts
      PROVE  AnnounceInv'
  BY <1>5 DEF AnnounceInv, Announcing, IsStored, At
<1>6. QED
  BY <1>1, <1>2, <1>3, <1>4, <1>5, InsertAnnounces, DeliverAnnounces
  DEF ServerNext, Serve, HandlerStep, RecordRows, RecordFails, CreateAttachment,
      ReapOrphan, sendVars

-----------------------------------------------------------------------------
(* What the device's steps keep.                                           *)

LEMMA ItemReal ==
  ASSUME NEW item \in Item PROVE item # NoItem
  BY SendAssumption DEF Item, NoItem

ItemKept(id) ==
  /\ author'[id] = author[id]
  /\ \/ outbox'[id] = outbox[id]
     \/ InOutbox(id) /\ InOutbox(id)' /\ outbox'[id].user = outbox[id].user

\* An item stays its author's; it leaves by a discard or by a clear.
ItemMoves(id) ==
  \/ ItemKept(id)
  \/ /\ InOutbox(id)' /\ outbox'[id].user = author'[id]
     /\ author[id] \in {NoUser, author'[id]}
  \/ /\ author'[id] = author[id] /\ ~InOutbox(id)'
     /\ id \in discarded' /\ outbox[id].status # "sending"
  \/ /\ author'[id] = author[id] /\ ~InOutbox(id)'
     /\ \E s \in Sessions : session[s].pc = "clear" /\ session[s].id = id

\* A write that keeps the item's account.
LEMMA ItemRewritten ==
  ASSUME OutboxTypeOK, NEW id \in Ids, InOutbox(id), NEW item \in Item,
         item.user = outbox[id].user, author' = author,
         outbox' = [outbox EXCEPT ![id] = item]
  PROVE  \A other \in Ids : ItemKept(other)
<1>1. outbox'[id] = item /\ \A other \in Ids \ {id} : outbox'[other] = outbox[other]
  BY DEF OutboxTypeOK
<1>2. QED
  BY <1>1, ItemReal DEF ItemKept, InOutbox

LEMMA WriteItem ==
  ASSUME OutboxTypeOK, SessionShape, NEW s \in Sessions, NEW id \in Ids,
         \E body \in Bodies : Enqueue(s, id, body) \/ Resend(s, id, body)
  PROVE  /\ InOutbox(id)' /\ outbox'[id].user = author'[id]
         /\ author[id] \in {NoUser, author'[id]}
         /\ \A other \in Ids \ {id} : ItemKept(other)
<1>1. ASSUME NEW body \in Bodies, Enqueue(s, id, body) \/ Resend(s, id, body)
      PROVE  /\ outbox' = [outbox EXCEPT ![id] = Fresh(session[s].user, body, clock + 1)]
             /\ Fresh(session[s].user, body, clock + 1) \in Item
             /\ Fresh(session[s].user, body, clock + 1).user = session[s].user
  <2>1. session[s].user \in Users
    BY <1>1 DEF Enqueue, Resend, SessionShape, Shaped
  <2>2. QED
    BY <1>1, <2>1 DEF Fresh, Item, OutboxTypeOK, Enqueue, Resend
<1>2. PICK item \in Item : /\ outbox' = [outbox EXCEPT ![id] = item]
                           /\ item.user = session[s].user
  BY <1>1
<1>3. outbox'[id] = item /\ \A other \in Ids \ {id} : outbox'[other] = outbox[other]
  BY <1>2 DEF OutboxTypeOK
<1>4. /\ author'[id] = session[s].user
      /\ author[id] \in {NoUser, author'[id]}
      /\ \A other \in Ids \ {id} : author'[other] = author[other]
  BY DEF Enqueue, Resend, OutboxTypeOK
<1>5. QED
  BY <1>2, <1>3, <1>4, ItemReal DEF ItemKept, InOutbox

LEMMA DiscardItem ==
  ASSUME OutboxTypeOK, NEW s \in Sessions, NEW id \in Ids, Discard(s, id)
  PROVE  /\ author' = author /\ ~InOutbox(id)'
         /\ discarded' = discarded \cup {id} /\ outbox[id].status # "sending"
         /\ \A other \in Ids \ {id} : ItemKept(other)
  BY DEF Discard, ItemKept, InOutbox, OutboxTypeOK

\* The attempt's own item: present for every write but the clear's.
LEMMA LoopItem ==
  ASSUME OutboxTypeOK, SessionShape, NEW s \in Sessions, session[s].pc \in Running
  PROVE  /\ session[s].id \in Ids
         /\ InOutbox(session[s].id) => outbox[session[s].id] \in Item
         /\ session[s].pc = "save" => session[s].body \in Bodies
         /\ session[s].atts \in Seq(Attachments)
<1>1. session[s].id \in Ids /\ (session[s].pc = "save" => session[s].body \in Bodies)
  BY DEF SessionShape, Shaped, Running
<1>2. QED
  BY <1>1, Held, LoopFields DEF OutboxTypeOK

LEMMA ClearItem ==
  ASSUME OutboxTypeOK, SessionShape, NEW s \in Sessions, Clear(s), outbox' # outbox
  PROVE  /\ session[s].pc = "clear" /\ session[s].id \in Ids
         /\ InOutbox(session[s].id) /\ author' = author /\ discarded' = discarded
         /\ outbox'[session[s].id] = NoItem
         /\ \A other \in Ids \ {session[s].id} : ItemKept(other)
<1>1. session[s].pc = "clear" /\ session[s].id \in Ids
  BY LoopItem DEF Clear, SessionAt, Running
<1>2. /\ outbox' = [outbox EXCEPT ![session[s].id] = NoItem]
      /\ InOutbox(session[s].id) /\ author' = author /\ discarded' = discarded
  BY DEF Clear, Owns
<1>3. QED
  BY <1>1, <1>2 DEF OutboxTypeOK, ItemKept

LEMMA LoopItems ==
  ASSUME OutboxTypeOK, SessionShape, NEW s \in Sessions,
         Claim(s) \/ SaveUpload(s) \/ Settle(s) \/ Renew(s)
  PROVE  \A other \in Ids : ItemKept(other)
<1> DEFINE id == session[s].id
<1>0. author' = author /\ session[s].pc \in Running
  BY DEF Claim, SaveUpload, Settle, Renew, SessionAt, Running
<1>1. /\ id \in Ids /\ (InOutbox(id) => outbox[id] \in Item)
      /\ session[s].pc = "save" => session[s].body \in Bodies
      /\ session[s].atts \in Seq(Attachments)
  BY <1>0, LoopItem
<1>2. outbox' = outbox => \A other \in Ids : ItemKept(other)
  BY <1>0 DEF ItemKept
<1>3. ASSUME Claim(s), outbox' # outbox PROVE \A other \in Ids : ItemKept(other)
  <2> DEFINE item == [outbox[id] EXCEPT !.status = "sending", !.owner = s, !.leased = TRUE]
  <2>1. InOutbox(id) /\ outbox' = [outbox EXCEPT ![id] = item]
    BY <1>3 DEF Claim
  <2>2. item \in Item /\ item.user = outbox[id].user
    BY <1>1, <2>1 DEF Item
  <2>3. QED
    BY <1>0, <1>1, <2>1, <2>2, ItemRewritten
<1>4. ASSUME SaveUpload(s), outbox' # outbox PROVE \A other \in Ids : ItemKept(other)
  <2> DEFINE item == [outbox[id] EXCEPT !.body = session[s].body,
                        !.atts = session[s].atts, !.status = "sending"]
  <2>1. InOutbox(id) /\ outbox' = [outbox EXCEPT ![id] = item]
    BY <1>4 DEF SaveUpload, Owns
  <2>2. item \in Item /\ item.user = outbox[id].user
    BY <1>1, <1>4, <2>1 DEF Item, SaveUpload, SessionAt
  <2>3. QED
    BY <1>0, <1>1, <2>1, <2>2, ItemRewritten
<1>5. ASSUME Settle(s), outbox' # outbox PROVE \A other \in Ids : ItemKept(other)
  <2> DEFINE status == IF session[s].retryable THEN "queued" ELSE "failed"
             item == [outbox[id] EXCEPT !.status = status, !.leased = FALSE,
                                        !.waiting = TRUE]
  <2>1. InOutbox(id) /\ outbox' = [outbox EXCEPT ![id] = item]
    BY <1>5 DEF Settle, Owns
  <2>2. item \in Item /\ item.user = outbox[id].user
    BY <1>1, <2>1 DEF Item
  <2>3. QED
    BY <1>0, <1>1, <2>1, <2>2, ItemRewritten
<1>6. ASSUME Renew(s) PROVE \A other \in Ids : ItemKept(other)
  <2> DEFINE item == [outbox[id] EXCEPT !.leased = TRUE]
  <2>1. InOutbox(id) /\ outbox' = [outbox EXCEPT ![id] = item]
    BY <1>6 DEF Renew, Owns
  <2>2. item \in Item /\ item.user = outbox[id].user
    BY <1>1, <2>1 DEF Item
  <2>3. QED
    BY <1>0, <1>1, <2>1, <2>2, ItemRewritten
<1>7. QED
  BY <1>2, <1>3, <1>4, <1>5, <1>6

LEMMA DisownItems ==
  ASSUME OutboxTypeOK, NEW s \in Sessions, Disown(s), author' = author
  PROVE  \A id \in Ids : ItemKept(id)
<1>1. ASSUME NEW id \in Ids, outbox[id].owner = s PROVE ItemKept(id)
  <2> DEFINE item == [outbox[id] EXCEPT !.owner = NoSession]
  <2>1. outbox[id] \in Item
    BY <1>1, OutboxAssumption DEF OutboxTypeOK, NoItem
  <2>2. item \in Item /\ item.user = outbox[id].user
    BY <2>1 DEF Item
  <2>3. outbox'[id] = item
    BY <1>1 DEF Disown
  <2>4. QED
    BY <2>1, <2>2, <2>3, ItemReal DEF ItemKept, InOutbox
<1>2. ASSUME NEW id \in Ids, outbox[id].owner # s PROVE ItemKept(id)
  BY <1>2 DEF Disown, ItemKept
<1>3. QED
  BY <1>1, <1>2

LEMMA TimeItems ==
  ASSUME OutboxTypeOK, NEW id \in Ids, LeaseExpires(id) \/ BackoffEnds(id)
  PROVE  \A other \in Ids : ItemKept(other)
<1> DEFINE free == [outbox[id] EXCEPT !.leased = FALSE]
           ready == [outbox[id] EXCEPT !.waiting = FALSE]
<1>1. outbox[id] \in Item
  BY DEF LeaseExpires, BackoffEnds, OutboxTypeOK, NoItem
<1>2. /\ free \in Item /\ free.user = outbox[id].user
      /\ ready \in Item /\ ready.user = outbox[id].user
  BY <1>1 DEF Item
<1>3. /\ outbox' = [outbox EXCEPT ![id] = free] \/ outbox' = [outbox EXCEPT ![id] = ready]
      /\ author' = author
  BY DEF LeaseExpires, BackoffEnds
<1>4. InOutbox(id)
  BY <1>1, ItemReal DEF InOutbox
<1>5. QED
  BY <1>2, <1>3, <1>4, ItemRewritten

LEMMA RetryItem ==
  ASSUME OutboxTypeOK, NEW s \in Sessions, NEW id \in Ids, Retry(s, id)
  PROVE  \A other \in Ids : ItemKept(other)
<1> DEFINE item == [outbox[id] EXCEPT !.status = "queued", !.leased = FALSE,
                                      !.waiting = FALSE]
<1>1. InOutbox(id) /\ outbox[id] \in Item
  BY Held DEF Retry
<1>2. item \in Item /\ item.user = outbox[id].user
  BY <1>1 DEF Item
<1>3. outbox' = [outbox EXCEPT ![id] = item] /\ author' = author
  BY DEF Retry
<1>4. QED
  BY <1>1, <1>2, <1>3, ItemRewritten

\* What happens to the items, by the kind of step.
Writes(id) == \E s \in Sessions, body \in Bodies : Enqueue(s, id, body) \/ Resend(s, id, body)

ItemSteps ==
  \/ (\A id \in Ids : ItemKept(id)) /\ discarded' = discarded
  \/ \E id \in Ids : Writes(id)
  \/ \E s \in Sessions, id \in Ids : Discard(s, id)
  \/ \E s \in Sessions : Clear(s) /\ outbox' # outbox

LEMMA ItemsStep ==
  ASSUME OutboxTypeOK, SessionShape, OutboxNext
  PROVE  ItemSteps
<1>1. outbox' = outbox /\ author' = author => \A id \in Ids : ItemKept(id)
  BY DEF ItemKept
<1>2. ASSUME NEW s \in Sessions, NEW id \in Ids,
             \/ Restore(s, id) \/ Retry(s, id) \/ Discard(s, id) \/ Pick(s, id)
             \/ \E body \in Bodies : Enqueue(s, id, body) \/ Resend(s, id, body)
      PROVE  ItemSteps
  <2>1. Restore(s, id) \/ Pick(s, id) => ItemSteps
    BY <1>1 DEF Restore, Pick, ItemSteps
  <2>2. Retry(s, id) => ItemSteps
    BY RetryItem DEF Retry, ItemSteps
  <2>3. QED
    BY <1>2, <2>1, <2>2 DEF ItemSteps, Writes
<1>3. ASSUME NEW s \in Sessions,
             \/ Poll(s) \/ CheckLimit(s) \/ ConnectionLost(s) \/ TimeOut(s) \/ Rest(s)
             \/ StorageFails(s) \/ StopSession(s) \/ GoOffline(s) \/ GoOnline(s) \/ Wake(s)
      PROVE  ItemSteps
  <2>1. outbox' = outbox /\ author' = author /\ discarded' = discarded
    BY <1>3 DEF Poll, CheckLimit, ConnectionLost, TimeOut, Rest, StorageFails,
                StopSession, GoOffline, GoOnline, Wake
  <2>2. QED
    BY <1>1, <2>1 DEF ItemSteps
<1>4. ASSUME NEW s \in Sessions,
             \/ \E a \in Attachments : Uploaded(s, a)
             \/ \E retryable \in BOOLEAN : UploadFails(s, retryable)
             \/ \E h \in Slots : Emit(s, h)
             \/ \E reply \in {"none", "ok", "reject", "retry"} : Acked(s, reply)
      PROVE  ItemSteps
  <2>1. outbox' = outbox /\ author' = author /\ discarded' = discarded
    BY <1>4 DEF Uploaded, UploadFails, Emit, Acked
  <2>2. QED
    BY <1>1, <2>1 DEF ItemSteps
<1>5. ASSUME NEW s \in Sessions,
             Claim(s) \/ SaveUpload(s) \/ Clear(s) \/ Settle(s) \/ Renew(s)
      PROVE  ItemSteps
  <2>1. author' = author /\ discarded' = discarded
    BY <1>5 DEF Claim, SaveUpload, Clear, Settle, Renew
  <2>2. QED
    BY <1>1, <1>5, <2>1, LoopItems DEF ItemSteps
<1>6. ASSUME NEW s \in Sessions,
             WindowGone(s) \/ \E u \in Users : StartSession(s, u)
      PROVE  ItemSteps
  BY <1>6, DisownItems DEF WindowGone, StartSession, ItemSteps
<1>7. ASSUME NEW id \in Ids, LeaseExpires(id) \/ BackoffEnds(id) PROVE ItemSteps
  <2>1. discarded' = discarded
    BY <1>7 DEF LeaseExpires, BackoffEnds
  <2>2. QED
    BY <1>7, <2>1, TimeItems DEF ItemSteps
<1>8. QED
  BY <1>2, <1>3, <1>4, <1>5, <1>6, <1>7 DEF OutboxNext, DeviceStep

LEMMA ItemsMove ==
  ASSUME OutboxTypeOK, SessionShape, ItemSteps
  PROVE  (\A id \in Ids : ItemMoves(id)) /\ discarded \subseteq discarded'
<1>1. ASSUME NEW id \in Ids, Writes(id)
      PROVE  (\A other \in Ids : ItemMoves(other)) /\ discarded' = discarded
  BY <1>1, WriteItem DEF Writes, ItemMoves, Enqueue, Resend
<1>2. ASSUME NEW s \in Sessions, NEW id \in Ids, Discard(s, id)
      PROVE  (\A other \in Ids : ItemMoves(other)) /\ discarded \subseteq discarded'
  BY <1>2, DiscardItem DEF ItemMoves
<1>3. ASSUME NEW s \in Sessions, Clear(s), outbox' # outbox
      PROVE  (\A other \in Ids : ItemMoves(other)) /\ discarded' = discarded
  BY <1>3, ClearItem DEF ItemMoves, InOutbox
<1>4. QED
  BY <1>1, <1>2, <1>3 DEF ItemSteps, ItemMoves

\* A loop keeps its account and item until it rests; only an acknowledgement
\* makes it clear an item, and only an emit gives it a call.
Follows(old, new) ==
  \/ new.pc = "idle" /\ new.call = NoSlot
  \/ /\ new.user = old.user /\ new.id = old.id
     /\ new.pc = "idle" <=> old.pc = "idle"
     /\ new.pc = "clear" => old.pc = "clear"
     /\ new.call # NoSlot => new.call = old.call /\ new.pc = old.pc

LoopMoves(s) ==
  \/ Follows(session[s], session'[s])
  \/ \E id \in Ids : Pick(s, id)

CallsWait == \A s \in Sessions : session[s].call # NoSlot => session[s].pc = "await"

LEMMA OneLoopMoves ==
  ASSUME OutboxTypeOK, NEW t \in Sessions, NEW new,
         session' = [session EXCEPT ![t] = new], Follows(session[t], new)
  PROVE  \A s \in Sessions : LoopMoves(s)
<1>1. session'[t] = new /\ \A s \in Sessions \ {t} : session'[s] = session[s]
  BY DEF OutboxTypeOK
<1>2. QED
  BY <1>1 DEF LoopMoves, Follows

LEMMA ProceedMoves ==
  ASSUME OutboxTypeOK, CallsWait, NEW t \in Sessions, NEW pc \in Running \ {"clear"},
         session[t].pc \in Running \ {"await"}, Proceed(t, pc)
  PROVE  \A s \in Sessions : LoopMoves(s)
<1> DEFINE new == [session[t] EXCEPT !.pc = pc]
<1>1. session[t] \in SessionState
  BY DEF OutboxTypeOK
<1>2. new.pc = pc /\ new.id = session[t].id /\ new.user = session[t].user
      /\ new.call = session[t].call
  BY <1>1 DEF SessionState
<1>3. Follows(session[t], new)
  BY <1>2 DEF Follows, CallsWait, Running
<1>4. session' = [session EXCEPT ![t] = new]
  BY DEF Proceed
<1>5. QED
  BY <1>3, <1>4, OneLoopMoves

LEMMA ThrowMoves ==
  ASSUME OutboxTypeOK, NEW t \in Sessions, NEW retryable \in BOOLEAN,
         session[t].pc \in Running, Throw(t, retryable)
  PROVE  \A s \in Sessions : LoopMoves(s)
<1> DEFINE new == [session[t] EXCEPT !.pc = "settle", !.call = NoSlot,
                                     !.retryable = retryable]
<1>1. session[t] \in SessionState
  BY DEF OutboxTypeOK
<1>2. new.pc = "settle" /\ new.id = session[t].id /\ new.user = session[t].user
      /\ new.call = NoSlot
  BY <1>1 DEF SessionState
<1>3. Follows(session[t], new)
  BY <1>2 DEF Follows, Running
<1>4. session' = [session EXCEPT ![t] = new]
  BY DEF Throw
<1>5. QED
  BY <1>3, <1>4, OneLoopMoves

LEMMA FlagMoves ==
  ASSUME OutboxTypeOK, NEW t \in Sessions, NEW live \in BOOLEAN,
         NEW online \in BOOLEAN, NEW armed \in BOOLEAN,
         session' = [session EXCEPT ![t] = [@ EXCEPT !.live = live, !.online = online,
                                                     !.armed = armed]]
  PROVE  \A s \in Sessions : LoopMoves(s)
<1> DEFINE new == [session[t] EXCEPT !.live = live, !.online = online, !.armed = armed]
<1>1. session[t] \in SessionState
  BY DEF OutboxTypeOK
<1>2. Follows(session[t], new)
  BY <1>1 DEF Follows, SessionState
<1>3. session' = [session EXCEPT ![t] = new]
  OBVIOUS
<1>4. QED
  BY <1>2, <1>3, OneLoopMoves

LEMMA LoopsMove ==
  ASSUME OutboxTypeOK, CallsWait,
         DeviceStep \/ \E s \in Sessions, a \in Attachments : Uploaded(s, a)
  PROVE  \A s \in Sessions : LoopMoves(s)
<1>0. \A s \in Sessions : session[s] \in SessionState
  BY DEF OutboxTypeOK
<1>1. session' = session => \A s \in Sessions : LoopMoves(s)
  BY DEF LoopMoves, Follows
<1>2. ASSUME NEW t \in Sessions, Arm(t) PROVE \A s \in Sessions : LoopMoves(s)
  <2> DEFINE new == [session[t] EXCEPT !.armed = TRUE]
  <2>1. Follows(session[t], new)
    BY <1>0 DEF Follows, SessionState
  <2>2. session' = [session EXCEPT ![t] = new]
    BY <1>2 DEF Arm
  <2>3. QED
    BY <2>1, <2>2, OneLoopMoves
<1>3. ASSUME NEW t \in Sessions, NEW id \in Ids, Pick(t, id)
      PROVE  \A s \in Sessions : LoopMoves(s)
  <2>1. \A s \in Sessions \ {t} : session'[s] = session[s]
    BY <1>3 DEF Pick, OutboxTypeOK
  <2>2. QED
    BY <1>3, <2>1 DEF LoopMoves, Follows
<1>4. ASSUME NEW t \in Sessions, Poll(t) PROVE \A s \in Sessions : LoopMoves(s)
  <2> DEFINE new == [session[t] EXCEPT !.armed = PendingFor(session[t].user) # {}]
  <2>1. Follows(session[t], new)
    BY <1>0 DEF Follows, SessionState
  <2>2. session' = [session EXCEPT ![t] = new]
    BY <1>4 DEF Poll
  <2>3. QED
    BY <2>1, <2>2, OneLoopMoves
<1>5. ASSUME NEW t \in Sessions, Claim(t) PROVE \A s \in Sessions : LoopMoves(s)
  <2>1. CASE Proceed(t, "rest")
    BY <1>5, <2>1, ProceedMoves DEF Claim, SessionAt, Running
  <2>2. CASE ~Proceed(t, "rest")
    <3> DEFINE item == outbox[session[t].id]
               pc == IF FileCount[item.body] > 0 THEN "limit" ELSE "upload"
               new == [session[t] EXCEPT !.pc = pc, !.body = item.body, !.atts = item.atts]
    <3>1. session' = [session EXCEPT ![t] = new] /\ session[t].pc = "picked"
      BY <1>5, <2>2 DEF Claim, SessionAt
    <3>2. pc \in {"limit", "upload"}
      OBVIOUS
    <3>3. new.pc = pc /\ new.id = session[t].id /\ new.user = session[t].user
          /\ new.call = session[t].call
      BY <1>0 DEF SessionState
    <3>4. Follows(session[t], new)
      BY <3>1, <3>2, <3>3 DEF Follows, CallsWait
    <3>5. QED
      BY <3>1, <3>4, OneLoopMoves
  <2>3. QED
    BY <2>1, <2>2
<1>6. ASSUME NEW t \in Sessions,
             CheckLimit(t) \/ Clear(t) \/ Settle(t) \/ SaveUpload(t) \/ StorageFails(t)
      PROVE  \A s \in Sessions : LoopMoves(s)
  <2>1. session[t].pc \in Running \ {"await"}
    BY <1>6 DEF CheckLimit, Clear, Settle, SaveUpload, StorageFails, SessionAt, Running
  <2>2. \/ \E pc \in Running \ {"clear"} : Proceed(t, pc)
        \/ Throw(t, TRUE)
    BY <1>6 DEF CheckLimit, Clear, Settle, SaveUpload, StorageFails, Running
  <2>3. QED
    BY <2>1, <2>2, ProceedMoves, ThrowMoves
<1>7. ASSUME NEW t \in Sessions,
             \/ ConnectionLost(t) \/ TimeOut(t)
             \/ \E retryable \in BOOLEAN : UploadFails(t, retryable)
      PROVE  \A s \in Sessions : LoopMoves(s)
  <2>1. session[t].pc \in Running /\ \E retryable \in BOOLEAN : Throw(t, retryable)
    BY <1>7 DEF ConnectionLost, TimeOut, UploadFails, SessionAt, Running
  <2>2. QED
    BY <2>1, ThrowMoves
<1>8. ASSUME NEW t \in Sessions, NEW new, new.pc = "idle", new.call = NoSlot,
             session' = [session EXCEPT ![t] = new]
      PROVE  \A s \in Sessions : LoopMoves(s)
  BY <1>8, OneLoopMoves DEF Follows
<1>9. ASSUME NEW t \in Sessions,
             Rest(t) \/ WindowGone(t) \/ \E u \in Users : StartSession(t, u)
      PROVE  \A s \in Sessions : LoopMoves(s)
  <2>1. CASE Rest(t)
    <3> DEFINE new == [Unborn EXCEPT !.user = session[t].user,
                  !.live = session[t].live, !.online = session[t].online,
                  !.armed = /\ session[t].live
                            /\ \/ session[t].armed
                               \/ PendingFor(session[t].user) # {}]
    <3>1. new.pc = "idle" /\ new.call = NoSlot
      BY DEF Unborn
    <3>2. session' = [session EXCEPT ![t] = new]
      BY <2>1 DEF Rest
    <3>3. QED
      BY <1>8, <3>1, <3>2
  <2>2. ASSUME NEW u \in Users, StartSession(t, u)
        PROVE  \A s \in Sessions : LoopMoves(s)
    <3> DEFINE loop == [Unborn EXCEPT !.user = u, !.live = TRUE,
                                      !.online = TRUE, !.armed = TRUE]
    <3>1. loop.pc = "idle" /\ loop.call = NoSlot
      BY DEF Unborn
    <3>2. session' = [session EXCEPT ![t] = loop]
      BY <2>2 DEF StartSession
    <3>3. PICK new : /\ session' = [session EXCEPT ![t] = new]
                     /\ new.pc = "idle" /\ new.call = NoSlot
      BY <3>1, <3>2
    <3>4. QED
      BY <1>8, <3>3
  <2>3. CASE WindowGone(t)
    BY <1>8, <2>3 DEF WindowGone, Unborn
  <2>4. QED
    BY <1>9, <2>1, <2>2, <2>3
<1>10. ASSUME NEW t \in Sessions, StopSession(t) \/ GoOffline(t) \/ GoOnline(t) \/ Wake(t)
       PROVE  \A s \in Sessions : LoopMoves(s)
  <2>1. \E new : /\ session' = [session EXCEPT ![t] = new]
                 /\ Follows(session[t], new)
    <3> DEFINE stopped == [session[t] EXCEPT !.live = FALSE, !.armed = FALSE]
               offline == [session[t] EXCEPT !.online = FALSE]
               online == [session[t] EXCEPT !.online = TRUE, !.armed = TRUE]
    <3>1. Follows(session[t], stopped) /\ Follows(session[t], offline)
          /\ Follows(session[t], online)
      BY <1>0 DEF Follows, SessionState
    <3>2. CASE StopSession(t)
      BY <3>1, <3>2 DEF StopSession
    <3>3. CASE GoOffline(t)
      BY <3>1, <3>3 DEF GoOffline
    <3>4. CASE GoOnline(t)
      BY <3>1, <3>4 DEF GoOnline
    <3>5. CASE Wake(t)
      <4> DEFINE new == [session[t] EXCEPT !.armed = TRUE]
      <4>1. Follows(session[t], new)
        BY <1>0 DEF Follows, SessionState
      <4>2. QED
        BY <3>5, <4>1 DEF Wake, Arm
    <3>6. QED
      BY <1>10, <3>2, <3>3, <3>4, <3>5
  <2>2. QED
    BY <2>1, OneLoopMoves
<1>11. ASSUME NEW t \in Sessions, NEW a \in Attachments, Uploaded(t, a)
       PROVE  \A s \in Sessions : LoopMoves(s)
  <2> DEFINE new == [session[t] EXCEPT !.pc = "save", !.atts = Append(@, a)]
  <2>1. session[t].pc = "upload" /\ session' = [session EXCEPT ![t] = new]
    BY <1>11 DEF Uploaded, SessionAt
  <2>2. Follows(session[t], new)
    BY <1>0, <2>1 DEF Follows, SessionState, CallsWait
  <2>3. QED
    BY <2>1, <2>2, OneLoopMoves
<1>12. QED
  <2>1. CASE \E s \in Sessions, id \in Ids :
               \/ Restore(s, id) \/ Retry(s, id) \/ Discard(s, id) \/ Pick(s, id)
               \/ \E body \in Bodies : Enqueue(s, id, body) \/ Resend(s, id, body)
    BY <1>1, <1>2, <1>3, <2>1 DEF Restore, Retry, Discard, Enqueue, Resend
  <2>2. CASE \E s \in Sessions :
               \/ Poll(s) \/ Claim(s) \/ CheckLimit(s) \/ SaveUpload(s)
               \/ ConnectionLost(s) \/ TimeOut(s) \/ Clear(s) \/ Settle(s) \/ Rest(s)
               \/ StorageFails(s) \/ Renew(s)
    BY <1>1, <1>4, <1>5, <1>6, <1>7, <1>9, <2>2 DEF Renew
  <2>3. CASE \E s \in Sessions :
               \/ StopSession(s) \/ WindowGone(s) \/ GoOffline(s) \/ GoOnline(s) \/ Wake(s)
               \/ \E retryable \in BOOLEAN : UploadFails(s, retryable)
               \/ \E u \in Users : StartSession(s, u)
    BY <1>7, <1>9, <1>10, <2>3
  <2>4. CASE \E id \in Ids : LeaseExpires(id) \/ BackoffEnds(id)
    BY <1>1, <2>4 DEF LeaseExpires, BackoffEnds
  <2>5. QED
    BY <1>11, <2>1, <2>2, <2>3, <2>4 DEF DeviceStep

-----------------------------------------------------------------------------
(* Whose message a request carries.                                        *)

AuthorInv ==
  /\ \A id \in Ids : InOutbox(id) => outbox[id].user = author[id]
  /\ \A s \in Sessions :
        session[s].pc # "idle" => session[s].user = author[session[s].id]
  /\ \A h \in Slots :
        handler[h].pc # "free" => handler[h].user = author[handler[h].id]

\* Where a written message can be.
HeldInv ==
  \A id \in Ids : author[id] # NoUser =>
    InOutbox(id) \/ IsStored(id) \/ id \in discarded

\* A loop waits for an answer to its own message; one about to clear its item
\* has had the answer that it is stored.
CallInv ==
  /\ CallsWait
  /\ \A s \in Sessions : session[s].call # NoSlot =>
        \/ handler[session[s].call] = Free
        \/ handler[session[s].call].id = session[s].id
  /\ \A s \in Sessions : session[s].pc = "clear" => IsStored(session[s].id)
  /\ \A s, t \in Sessions :
        session[s].call = session[t].call /\ session[s].call # NoSlot => s = t

SafetyInv ==
  /\ TypeInv /\ AnnounceInv /\ AuthorInv /\ HeldInv /\ CallInv
  /\ PostedByItsAuthor

LEMMA InitSafe == Init => SafetyInv
<1> SUFFICES ASSUME Init PROVE SafetyInv
  OBVIOUS
<1>1. TypeInv /\ AnnounceInv
  BY InitTyped, AnnounceInit DEF Init
<1>2. AuthorInv
  BY DEF Init, OutboxInit, SendInit, AuthorInv, InOutbox, Unborn, Free
<1>3. HeldInv /\ CallInv /\ PostedByItsAuthor
  BY DEF Init, OutboxInit, SendInit, HeldInv, CallInv, CallsWait, Unborn, Free,
         PostedByItsAuthor, IsStored
<1>4. QED
  BY <1>1, <1>2, <1>3 DEF SafetyInv

\* What a step of the composition keeps of each message, loop and request.
LoopFacts(s) ==
  \/ LoopMoves(s)
  \/ \E h \in Slots : Send(s, h)
  \/ Ack(s) /\ handler[session[s].call].reply = "ok"

SlotMoves(h) ==
  \/ SlotKept(h)
  \/ \E s \in Sessions : Send(s, h)

StepFacts ==
  /\ \A id \in Ids : IsStored(id) => stored'[id] = stored[id]
  /\ \A id \in Ids : ItemMoves(id)
  /\ \A s \in Sessions : LoopFacts(s)
  /\ \A h \in Slots : SlotMoves(h)
  /\ discarded \subseteq discarded'

LEMMA NextFacts ==
  ASSUME TypeInv, CallsWait, [Next]_vars
  PROVE  StepFacts
<1>1. OutboxTypeOK /\ SendTypeOK /\ SessionShape
  BY DEF TypeInv, TypeOK
<1>2. StepKinds /\ [OutboxNext]_outboxVars /\ [ServerNext]_sendVars
  BY <1>1, NextKinds, NextSplits
<1>3. \A id \in Ids : IsStored(id) => stored'[id] = stored[id]
  BY <1>1, <1>2, StoredGrows DEF sendVars
<1>4. (\A id \in Ids : ItemMoves(id)) /\ discarded \subseteq discarded'
  <2>1. CASE OutboxNext
    BY <1>1, <2>1, ItemsStep, ItemsMove
  <2>2. CASE UNCHANGED outboxVars
    BY <2>2 DEF outboxVars, ItemMoves, ItemKept
  <2>3. QED
    BY <1>2, <2>1, <2>2
<1>5. \A s \in Sessions : LoopFacts(s)
  <2>1. CASE DeviceStep \/ \E s \in Sessions, a \in Attachments : Uploaded(s, a)
    BY <1>1, <2>1, LoopsMove DEF LoopFacts
  <2>2. ASSUME NEW t \in Sessions, UploadFails(t, TRUE)
        PROVE  \A s \in Sessions : LoopFacts(s)
    BY <1>1, <2>2, LoopsMove DEF DeviceStep, LoopFacts
  <2>3. ASSUME NEW t \in Sessions, NEW h \in Slots, Send(t, h)
        PROVE  \A s \in Sessions : LoopFacts(s)
    <3>1. \A s \in Sessions \ {t} : session'[s] = session[s]
      BY <1>1, <2>3 DEF Send, Emit, OutboxTypeOK
    <3>2. QED
      BY <2>3, <3>1 DEF LoopFacts, LoopMoves, Follows
  <2>4. ASSUME NEW t \in Sessions, Ack(t) PROVE \A s \in Sessions : LoopFacts(s)
    <3> DEFINE reply == handler[session[t].call].reply
    <3>1. Acked(t, reply)
      BY <2>4 DEF Ack
    <3>2. CASE reply = "ok"
      <4>1. \A s \in Sessions \ {t} : session'[s] = session[s]
        BY <1>1, <3>1, <3>2 DEF Acked, OutboxTypeOK
      <4>2. QED
        BY <2>4, <3>2, <4>1 DEF LoopFacts, LoopMoves, Follows
    <3>3. CASE reply # "ok"
      <4>1. session[t].pc \in Running /\ Throw(t, reply = "retry")
        BY <3>1, <3>3 DEF Acked, SessionAt, Running
      <4>2. QED
        BY <1>1, <4>1, ThrowMoves DEF LoopFacts
    <3>4. QED
      BY <3>2, <3>3
  <2>5. CASE UNCHANGED outboxVars
    BY <2>5 DEF outboxVars, LoopFacts, LoopMoves, Follows
  <2>6. QED
    BY <1>2, <2>1, <2>2, <2>3, <2>4, <2>5 DEF StepKinds
<1>6. \A h \in Slots : SlotMoves(h)
  <2>1. CASE Serve
    BY <1>1, <2>1, ServeKeeps DEF SlotMoves
  <2>2. handler' = handler => \A h \in Slots : SlotKept(h)
    BY <1>1 DEF SlotKept, SendTypeOK, Busy, Phases
  <2>3. ASSUME NEW s \in Sessions, NEW g \in Slots, Send(s, g)
        PROVE  \A h \in Slots : SlotMoves(h)
    <3>1. \A h \in Slots \ {g} : handler'[h] = handler[h]
      BY <1>1, <2>3 DEF Send, Receive, SendTypeOK
    <3>2. \A h \in Slots \ {g} : SlotKept(h)
      BY <1>1, <3>1 DEF SlotKept, SendTypeOK, Busy, Phases
    <3>3. QED
      BY <2>3, <3>2 DEF SlotMoves
  <2>4. ASSUME NEW s \in Sessions, Ack(s) PROVE Serve
    BY <1>1, <2>4, LoopFields DEF Ack, Serve, OutboxTypeOK
  <2>5. QED
    BY <1>2, <2>1, <2>2, <2>3, <2>4, ServeKeeps, <1>1
    DEF StepKinds, SlotMoves, sendVars, CreateAttachment
<1>7. QED
  BY <1>3, <1>4, <1>5, <1>6 DEF StepFacts

-----------------------------------------------------------------------------
(* Every step keeps the invariant.                                         *)

LEMMA Loops ==
  ASSUME TypeInv, NEW s \in Sessions, session[s].pc # "idle"
  PROVE  session[s].user \in Users /\ session[s].id \in Ids
  BY DEF TypeInv, SessionShape, Shaped

LEMMA Requests ==
  ASSUME TypeInv, NEW h \in Slots, handler[h].pc # "free"
  PROVE  handler[h].user \in Users /\ handler[h].id \in Ids
  BY InUse, BusyFields DEF TypeInv, TypeOK

\* An id belongs to one account for good.
LEMMA AuthorFixed ==
  ASSUME SafetyInv, StepFacts, NEW id \in Ids, author[id] # NoUser
  PROVE  author'[id] = author[id]
  BY DEF StepFacts, ItemMoves, ItemKept

LEMMA AuthorStep ==
  ASSUME SafetyInv, StepFacts
  PROVE  AuthorInv'
<1>0. TypeInv /\ AuthorInv
  BY DEF SafetyInv
<1>1. ASSUME NEW id \in Ids, InOutbox(id)' PROVE outbox'[id].user = author'[id]
  BY <1>0, <1>1 DEF StepFacts, ItemMoves, ItemKept, AuthorInv, InOutbox
<1>2. ASSUME NEW s \in Sessions, session'[s].pc # "idle"
      PROVE  session'[s].user = author'[session'[s].id]
  <2>1. CASE Follows(session[s], session'[s]) /\ session[s].pc # "idle"
    <3>1. session[s].user \in Users /\ session[s].id \in Ids
      BY <1>0, <2>1, Loops
    <3>2. session[s].user = author[session[s].id]
      BY <1>0, <2>1 DEF AuthorInv
    <3>3. author'[session[s].id] = author[session[s].id]
      BY <3>1, <3>2, AuthorFixed, SendAssumption
    <3>4. QED
      BY <1>2, <2>1, <3>2, <3>3 DEF Follows
  <2>2. ASSUME NEW id \in Ids, Pick(s, id)
        PROVE  session'[s].user = author'[session'[s].id]
    <3>1. /\ outbox[id].user = session[s].user /\ InOutbox(id)
          /\ session[s].live
      BY <2>2 DEF Pick, IsHead, PendingFor, Connected
    <3>2. session[s].user = author[id] /\ session[s].user \in Users
      BY <1>0, <3>1 DEF AuthorInv, TypeInv, SessionShape, Shaped
    <3>3. session'[s].user = session[s].user /\ session'[s].id = id
      BY <1>0, <2>2 DEF Pick, TypeInv, TypeOK, OutboxTypeOK, SessionState
    <3>4. QED
      BY <3>2, <3>3, AuthorFixed, SendAssumption
  <2>3. ASSUME NEW h \in Slots, Send(s, h)
        PROVE  session'[s].user = author'[session'[s].id]
    <3>1. /\ session'[s].user = session[s].user /\ session'[s].id = session[s].id
          /\ session[s].pc # "idle" /\ author' = author
      BY <1>0, <2>3 DEF Send, Emit, SessionAt, TypeInv, TypeOK, OutboxTypeOK, SessionState
    <3>2. QED
      BY <1>0, <3>1 DEF AuthorInv
  <2>4. CASE Ack(s) /\ handler[session[s].call].reply = "ok"
    <3>1. /\ session'[s].user = session[s].user /\ session'[s].id = session[s].id
          /\ session[s].pc # "idle" /\ author' = author
      BY <1>0, <2>4 DEF Ack, Acked, SessionAt, TypeInv, TypeOK, OutboxTypeOK, SessionState
    <3>2. QED
      BY <1>0, <3>1 DEF AuthorInv
  <2>5. Follows(session[s], session'[s]) => session[s].pc # "idle"
    BY <1>2 DEF Follows
  <2>6. QED
    BY <2>1, <2>2, <2>3, <2>4, <2>5 DEF StepFacts, LoopFacts, LoopMoves
<1>3. ASSUME NEW h \in Slots, handler'[h].pc # "free"
      PROVE  handler'[h].user = author'[handler'[h].id]
  <2>1. CASE SlotKept(h)
    <3>1. /\ handler[h].pc # "free"
          /\ handler'[h].user = handler[h].user /\ handler'[h].id = handler[h].id
      BY <1>3, <2>1 DEF SlotKept, Free
    <3>2. handler[h].user \in Users /\ handler[h].id \in Ids
      BY <1>0, <3>1, Requests
    <3>3. handler[h].user = author[handler[h].id]
      BY <1>0, <3>1 DEF AuthorInv
    <3>4. QED
      BY <3>1, <3>2, <3>3, AuthorFixed, SendAssumption
  <2>2. ASSUME NEW s \in Sessions, Send(s, h)
        PROVE  handler'[h].user = author'[handler'[h].id]
    <3>1. handler'[h].user = session[s].user /\ handler'[h].id = session[s].id
      BY <1>0, <2>2 DEF Send, Receive, Payload, TypeInv, TypeOK, SendTypeOK
    <3>2. session[s].pc # "idle" /\ author' = author
      BY <2>2 DEF Send, Emit, SessionAt
    <3>3. QED
      BY <1>0, <3>1, <3>2 DEF AuthorInv
  <2>3. QED
    BY <2>1, <2>2 DEF StepFacts, SlotMoves
<1>4. QED
  BY <1>1, <1>2, <1>3 DEF AuthorInv

LEMMA HeldStep ==
  ASSUME SafetyInv, StepFacts
  PROVE  HeldInv'
<1> SUFFICES ASSUME NEW id \in Ids, author'[id] # NoUser
             PROVE  InOutbox(id)' \/ IsStored(id)' \/ id \in discarded'
  BY DEF HeldInv
<1>1. IsStored(id) => IsStored(id)'
  BY DEF StepFacts, IsStored
<1>2. ItemMoves(id)
  BY DEF StepFacts
<1>3. CASE \E s \in Sessions : session[s].pc = "clear" /\ session[s].id = id
  BY <1>1, <1>3 DEF SafetyInv, CallInv
<1>4. CASE author'[id] = author[id] /\ (InOutbox(id) => InOutbox(id)')
  BY <1>1, <1>4 DEF SafetyInv, HeldInv, StepFacts
<1>5. QED
  BY <1>2, <1>3, <1>4 DEF ItemMoves, ItemKept, InOutbox

LEMMA CallStep ==
  ASSUME SafetyInv, StepFacts
  PROVE  CallInv'
<1>0. TypeInv /\ CallInv /\ AnnounceInv /\ OutboxTypeOK /\ SendTypeOK
  BY DEF SafetyInv, TypeInv, TypeOK
<1>1. ASSUME NEW s \in Sessions, NEW id \in Ids, Pick(s, id)
      PROVE  session'[s].call = NoSlot /\ session'[s].pc = "picked"
  BY <1>0, <1>1 DEF Pick, SessionAt, OutboxTypeOK, SessionState, CallInv, CallsWait
<1>2. ASSUME NEW s \in Sessions, NEW h \in Slots, Send(s, h)
      PROVE  /\ session'[s].call = h /\ session'[s].pc = "await"
             /\ session'[s].id = session[s].id /\ handler'[h].id = session[s].id
             /\ \A t \in Sessions : session[t].call # h
  BY <1>0, <1>2 DEF Send, Emit, Receive, Payload, SendTypeOK, OutboxTypeOK, SessionState
<1>3. ASSUME NEW s \in Sessions, Ack(s), handler[session[s].call].reply = "ok"
      PROVE  /\ session'[s].call = NoSlot /\ session'[s].id = session[s].id
             /\ session'[s].pc = "clear" /\ IsStored(session[s].id)
  <2> DEFINE h == session[s].call
  <2>1. h \in Slots /\ handler[h] # Free
    BY <1>0, <1>3, LoopFields DEF Ack, Finish, At, OutboxTypeOK, Free
  <2>2. handler[h].id = session[s].id /\ IsStored(handler[h].id)
    BY <1>0, <1>3, <2>1 DEF CallInv, AnnounceInv, Ack
  <2>3. /\ session'[s].call = NoSlot /\ session'[s].id = session[s].id
        /\ session'[s].pc = "clear"
    BY <1>0, <1>3 DEF Ack, Acked, OutboxTypeOK, SessionState
  <2>4. QED
    BY <2>2, <2>3
<1>4. CallsWait'
  BY <1>0, <1>1, <1>2, <1>3
  DEF CallsWait, CallInv, StepFacts, LoopFacts, LoopMoves, Follows
<1>5. ASSUME NEW s \in Sessions, session'[s].call # NoSlot
      PROVE  \/ \E h \in Slots : Send(s, h)
             \/ session'[s].call = session[s].call /\ session'[s].id = session[s].id
  BY <1>0, <1>1, <1>3, <1>5 DEF StepFacts, LoopFacts, LoopMoves, Follows
<1>6. ASSUME NEW s \in Sessions, session'[s].call # NoSlot
      PROVE  \/ handler'[session'[s].call] = Free
             \/ handler'[session'[s].call].id = session'[s].id
  <2>1. CASE \E h \in Slots : Send(s, h)
    BY <1>2, <2>1
  <2>2. CASE session'[s].call = session[s].call /\ session'[s].id = session[s].id
    <3> DEFINE h == session[s].call
    <3>1. h \in Slots
      BY <1>0, <1>6, <2>2, LoopFields DEF OutboxTypeOK
    <3>2. SlotKept(h)
      BY <1>2, <3>1 DEF StepFacts, SlotMoves
    <3>3. handler[h] = Free \/ handler[h].id = session[s].id
      BY <1>0, <1>6, <2>2 DEF CallInv
    <3>4. QED
      BY <2>2, <3>2, <3>3 DEF SlotKept, Free
  <2>3. QED
    BY <1>5, <1>6, <2>1, <2>2
<1>7. ASSUME NEW s \in Sessions, session'[s].pc = "clear"
      PROVE  stored'[session'[s].id] # NoMessage
  <2>1. IsStored(session[s].id) /\ session'[s].id = session[s].id
    BY <1>0, <1>1, <1>2, <1>3, <1>7
    DEF CallInv, StepFacts, LoopFacts, LoopMoves, Follows
  <2>2. session'[s].id \in Ids
    <3>1. session[s].pc # "idle"
      BY <1>1, <1>2, <1>7 DEF StepFacts, LoopFacts, LoopMoves, Follows, Ack, Acked, SessionAt
    <3>2. QED
      BY <1>0, <2>1, <3>1, Loops
  <2>3. QED
    BY <2>1, <2>2 DEF StepFacts, IsStored
<1>8. ASSUME NEW s \in Sessions, NEW t \in Sessions,
             session'[s].call = session'[t].call, session'[s].call # NoSlot
      PROVE  s = t
  <2>1. CASE \E h \in Slots : Send(s, h) \/ Send(t, h)
    BY <1>2, <1>5, <1>8, <2>1, <1>0 DEF Send, Emit, OutboxTypeOK
  <2>2. CASE ~\E h \in Slots : Send(s, h) \/ Send(t, h)
    BY <1>0, <1>5, <1>8, <2>2 DEF CallInv
  <2>3. QED
    BY <2>1, <2>2
<1>9. QED
  BY <1>4, <1>6, <1>7, <1>8 DEF CallInv, IsStored

LEMMA PostStep ==
  ASSUME SafetyInv, StepFacts, [ServerNext]_sendVars
  PROVE  PostedByItsAuthor'
<1>0. TypeInv /\ AuthorInv /\ SendTypeOK
  BY DEF SafetyInv, TypeInv, TypeOK
<1> SUFFICES ASSUME NEW id \in Ids, IsStored(id)'
             PROVE  stored'[id].author = author'[id]
  BY DEF PostedByItsAuthor
<1>1. CASE IsStored(id)
  <2>1. stored'[id] = stored[id] /\ stored[id].author = author[id]
    BY <1>1 DEF StepFacts, SafetyInv, PostedByItsAuthor
  <2>2. author[id] # NoUser
    BY <1>0, <1>1, <2>1, SendAssumption DEF SendTypeOK, IsStored, Message
  <2>3. QED
    BY <2>1, <2>2, AuthorFixed
<1>2. CASE ~IsStored(id)
  <2>1. PICK h \in Slots : Insert(h) /\ ~IsStored(handler[h].id) /\ Goto(h, "deliver")
    BY <1>0, <1>2, StoredBy DEF IsStored, sendVars
  <2>2. handler[h].pc # "free"
    BY <2>1 DEF Insert, At
  <2>3. handler[h].id = id /\ stored'[id].author = handler[h].user
    BY <1>0, <1>2, <2>1 DEF Insert, IsStored, SendTypeOK
  <2>4. handler[h].user = author[id] /\ handler[h].user \in Users
    BY <1>0, <2>2, <2>3, Requests DEF AuthorInv
  <2>5. QED
    BY <2>3, <2>4, AuthorFixed, SendAssumption
<1>3. QED
  BY <1>1, <1>2

LEMMA NextSafe ==
  ASSUME SafetyInv, [Next]_vars
  PROVE  SafetyInv' /\ StepFacts
<1>1. TypeInv /\ TypeInv' /\ StepFacts
  BY NextTyped, NextFacts DEF SafetyInv, CallInv
<1>2. [ServerNext]_sendVars
  BY <1>1, NextKinds, NextSplits DEF TypeInv, TypeOK
<1>3. AnnounceInv'
  BY <1>1, <1>2, AnnounceStep DEF SafetyInv, TypeInv, TypeOK
<1>4. QED
  BY <1>1, <1>2, <1>3, AuthorStep, HeldStep, CallStep, PostStep DEF SafetyInv

LEMMA AlwaysSafe == Spec => []SafetyInv
  BY InitSafe, NextSafe, PTL DEF Spec

-----------------------------------------------------------------------------
\* The room hears of a message at most once, for any number of windows,
\* handlers, retries and faults.
THEOREM AnnouncedOnce == Spec => []OneAnnouncement
<1>1. SafetyInv => OneAnnouncement
  BY DEF SafetyInv, AnnounceInv, OneAnnouncement
<1>2. QED
  BY <1>1, AlwaysSafe, PTL

\* No account ever posts what another one queued on the same device.
THEOREM PostedByAuthor == Spec => []PostedByItsAuthor
<1>1. SafetyInv => PostedByItsAuthor
  BY DEF SafetyInv
<1>2. QED
  BY <1>1, AlwaysSafe, PTL

\* An item leaves the device only when the server has it, or by a discard
\* while no window was sending it.
THEOREM LeavesWhenSafe == Spec => LeavesOnlyWhenSafe
<1> DEFINE Leaves == \A id \in Ids : InOutbox(id) /\ ~InOutbox(id)' =>
                        \/ IsStored(id)
                        \/ id \in discarded' /\ outbox[id].status # "sending"
<1>1. SafetyInv /\ [Next]_vars => [Leaves]_vars
  BY NextSafe DEF StepFacts, ItemMoves, ItemKept, InOutbox, SafetyInv, CallInv
<1>2. QED
  BY <1>1, AlwaysSafe, PTL DEF Spec, LeavesOnlyWhenSafe

-----------------------------------------------------------------------------
(* Leases.                                                                 *)

\* What may happen to an item under the lease of a loop that does nothing.
Guarded(id) ==
  outbox'[id] \in {outbox[id], [outbox[id] EXCEPT !.leased = FALSE],
                   [outbox[id] EXCEPT !.waiting = FALSE]}

LeasedTo(id, s) ==
  /\ outbox[id].status = "sending" /\ outbox[id].leased
  /\ outbox[id].owner = s
  /\ session'[s] = session[s]

LEMMA LeaseStep ==
  ASSUME SafetyInv, OutboxNext, NEW id \in Ids, NEW s \in Sessions, LeasedTo(id, s)
  PROVE  Guarded(id)
<1>0. /\ OutboxTypeOK /\ SessionShape /\ outbox[id] \in Item /\ InOutbox(id)
      /\ author[id] # NoUser
  <2>1. OutboxTypeOK /\ SessionShape
    BY DEF SafetyInv, TypeInv, TypeOK
  <2>2. InOutbox(id)
    BY DEF LeasedTo, InOutbox, NoItem
  <2>3. outbox[id] \in Item
    BY <2>1, <2>2, Held
  <2>4. outbox[id].user \in Users
    BY <2>3 DEF Item
  <2>5. QED
    BY <2>1, <2>2, <2>3, <2>4, SendAssumption DEF SafetyInv, AuthorInv
<1>1. outbox' = outbox => Guarded(id)
  BY DEF Guarded
<1>2. ASSUME NEW t \in Sessions, NEW other \in Ids,
             \/ Restore(t, other) \/ Retry(t, other) \/ Discard(t, other) \/ Pick(t, other)
             \/ \E body \in Bodies : Enqueue(t, other, body) \/ Resend(t, other, body)
      PROVE  Guarded(id)
  <2>1. \/ outbox' = outbox
        \/ other # id /\ \E item : outbox' = [outbox EXCEPT ![other] = item]
    BY <1>0, <1>2
    DEF Restore, Retry, Discard, Pick, Enqueue, Resend, LeasedTo
  <2>2. QED
    BY <1>0, <1>1, <2>1 DEF Guarded, OutboxTypeOK
<1>3. ASSUME NEW t \in Sessions,
             Claim(t) \/ SaveUpload(t) \/ Clear(t) \/ Settle(t) \/ Renew(t)
      PROVE  Guarded(id)
  <2>1. t = s /\ session[t].id = id => outbox' = outbox
    <3>1. session[t] \in SessionState
      BY <1>0 DEF OutboxTypeOK
    <3>2. Renew(t) /\ t = s /\ session[t].id = id => FALSE
      BY DEF Renew, LeasedTo
    <3>3. ASSUME NEW pc, Proceed(t, pc), session[t].pc # pc, t = s PROVE FALSE
      BY <3>1, <3>3, <1>0 DEF Proceed, LeasedTo, OutboxTypeOK, SessionState
    <3>4. ASSUME Throw(t, TRUE), session[t].pc # "settle", t = s PROVE FALSE
      BY <3>1, <3>4, <1>0 DEF Throw, LeasedTo, OutboxTypeOK, SessionState
    <3>5. QED
      BY <1>3, <3>2, <3>3, <3>4
      DEF Claim, SaveUpload, Clear, Settle, SessionAt, LeasedTo
  <2>2. t # s /\ session[t].id = id => outbox' = outbox
    BY <1>3 DEF Claim, SaveUpload, Clear, Settle, Renew, Owns, LeasedTo
  <2>3. \/ outbox' = outbox
        \/ \E item : outbox' = [outbox EXCEPT ![session[t].id] = item]
    BY <1>3 DEF Claim, SaveUpload, Clear, Settle, Renew
  <2>4. QED
    BY <1>0, <1>1, <2>1, <2>2, <2>3 DEF Guarded, OutboxTypeOK
<1>4. ASSUME NEW t \in Sessions,
             WindowGone(t) \/ \E u \in Users : StartSession(t, u)
      PROVE  Guarded(id)
  <2>1. t # s
    <3>1. WindowGone(t) => session'[t] # session[t]
      BY <1>0 DEF WindowGone, OutboxTypeOK
    <3>2. ASSUME NEW u \in Users, StartSession(t, u) PROVE session'[t].live # session[t].live
      BY <1>0, <3>2 DEF StartSession, OutboxTypeOK, Unborn
    <3>3. QED
      BY <1>4, <3>1, <3>2 DEF LeasedTo
  <2>2. QED
    BY <1>4, <2>1 DEF WindowGone, StartSession, Disown, LeasedTo, Guarded
<1>5. ASSUME NEW other \in Ids, LeaseExpires(other) \/ BackoffEnds(other)
      PROVE  Guarded(id)
  BY <1>0, <1>5 DEF LeaseExpires, BackoffEnds, Guarded, OutboxTypeOK
<1>6. ASSUME NEW t \in Sessions,
             \/ Poll(t) \/ CheckLimit(t) \/ ConnectionLost(t) \/ TimeOut(t) \/ Rest(t)
             \/ StorageFails(t) \/ StopSession(t) \/ GoOffline(t) \/ GoOnline(t) \/ Wake(t)
             \/ \E retryable \in BOOLEAN : UploadFails(t, retryable)
      PROVE  outbox' = outbox
  BY <1>6 DEF Poll, CheckLimit, ConnectionLost, TimeOut, Rest, StorageFails,
              StopSession, GoOffline, GoOnline, Wake, UploadFails
<1>7. ASSUME NEW t \in Sessions,
             \/ \E a \in Attachments : Uploaded(t, a)
             \/ \E h \in Slots : Emit(t, h)
             \/ \E reply \in {"none", "ok", "reject", "retry"} : Acked(t, reply)
      PROVE  outbox' = outbox
  BY <1>7 DEF Uploaded, Emit, Acked
<1>8. QED
  BY <1>1, <1>2, <1>3, <1>4, <1>5, <1>6, <1>7 DEF OutboxNext, DeviceStep

\* A lease keeps every other window and the user's own commands off the item.
THEOREM LeaseHolds == Spec => LeaseRespected
<1> DEFINE Respects == \A id \in Ids, s \in Sessions :
      /\ outbox[id].status = "sending" /\ outbox[id].leased
      /\ outbox[id].owner = s
      /\ session'[s] = session[s]
      => outbox'[id] \in {outbox[id], [outbox[id] EXCEPT !.leased = FALSE],
                          [outbox[id] EXCEPT !.waiting = FALSE]}
<1>1. ASSUME SafetyInv, [Next]_vars PROVE Respects
  <2>1. [OutboxNext]_outboxVars
    BY <1>1, NextKinds, NextSplits DEF SafetyInv, TypeInv, TypeOK
  <2>2. CASE UNCHANGED outboxVars
    BY <2>2 DEF outboxVars
  <2>3. CASE OutboxNext
    BY <1>1, <2>3, LeaseStep DEF LeasedTo, Guarded
  <2>4. QED
    BY <2>1, <2>2, <2>3
<1>2. SafetyInv /\ [Next]_vars => [Respects]_vars
  BY <1>1
<1>3. QED
  BY <1>2, AlwaysSafe, PTL DEF Spec, LeaseRespected

-----------------------------------------------------------------------------
(***************************************************************************)
(* MessageDelivery implements ExactlyOnce: under the mapping of Contract   *)
(* every step is one step of the abstract specification or a stutter.      *)
(***************************************************************************)

OnDevice == {id \in Ids : InOutbox(id)}
OnServer == {id \in Ids : IsStored(id)}

\* The device's side of a step: held and withdrawn.
DeviceView ==
  \/ OnDevice' = OnDevice /\ discarded' = discarded
  \/ \E id \in Ids : OnDevice' = OnDevice \cup {id} /\ discarded' = discarded
  \/ \E id \in OnDevice : OnDevice' = OnDevice \ {id} /\ discarded' = discarded \cup {id}
  \/ \E id \in OnDevice \cap OnServer : OnDevice' = OnDevice \ {id} /\ discarded' = discarded

LEMMA DeviceViews ==
  ASSUME SafetyInv, OutboxNext
  PROVE  DeviceView
<1>0. OutboxTypeOK /\ SessionShape /\ ItemSteps
  BY ItemsStep DEF SafetyInv, TypeInv, TypeOK
<1>1. CASE (\A id \in Ids : ItemKept(id)) /\ discarded' = discarded
  <2>1. \A id \in Ids : InOutbox(id)' <=> InOutbox(id)
    BY <1>1 DEF ItemKept, InOutbox
  <2>2. QED
    BY <1>1, <2>1 DEF DeviceView, OnDevice
<1>2. ASSUME NEW id \in Ids, Writes(id) PROVE DeviceView
  <2>1. InOutbox(id)' /\ \A other \in Ids \ {id} : ItemKept(other)
    BY <1>0, <1>2, WriteItem DEF Writes
  <2>2. \A other \in Ids : InOutbox(other)' <=> InOutbox(other) \/ other = id
    BY <2>1 DEF ItemKept, InOutbox
  <2>3. discarded' = discarded
    BY <1>2 DEF Writes, Enqueue, Resend
  <2>4. QED
    BY <2>2, <2>3 DEF DeviceView, OnDevice
<1>3. ASSUME NEW s \in Sessions, NEW id \in Ids, Discard(s, id) PROVE DeviceView
  <2>1. /\ ~InOutbox(id)' /\ discarded' = discarded \cup {id}
        /\ \A other \in Ids \ {id} : ItemKept(other)
    BY <1>0, <1>3, DiscardItem
  <2>2. \A other \in Ids : InOutbox(other)' <=> InOutbox(other) /\ other # id
    BY <2>1 DEF ItemKept, InOutbox
  <2>3. InOutbox(id)
    BY <1>3 DEF Discard
  <2>4. QED
    BY <2>1, <2>2, <2>3 DEF DeviceView, OnDevice
<1>4. ASSUME NEW s \in Sessions, Clear(s), outbox' # outbox PROVE DeviceView
  <2> DEFINE gone == session[s].id
  <2>1. /\ gone \in Ids /\ InOutbox(gone) /\ outbox'[gone] = NoItem
        /\ session[s].pc = "clear" /\ discarded' = discarded
        /\ \A other \in Ids \ {gone} : ItemKept(other)
    BY <1>0, <1>4, ClearItem
  <2>2. \A other \in Ids : InOutbox(other)' <=> InOutbox(other) /\ other # gone
    BY <2>1 DEF ItemKept, InOutbox
  <2>3. IsStored(gone)
    BY <2>1 DEF SafetyInv, CallInv
  <2>4. OnDevice' = OnDevice \ {session[s].id} /\ session[s].id \in OnDevice \cap OnServer
    BY <2>1, <2>2, <2>3 DEF OnDevice, OnServer
  <2>5. QED
    BY <2>1, <2>4 DEF DeviceView
<1>5. QED
  BY <1>0, <1>1, <1>2, <1>3, <1>4 DEF ItemSteps

\* The server's side of a step: posted and announced.
ServerView ==
  \/ OnServer' = OnServer /\ broadcasts' = broadcasts
  \/ \E id \in Ids : /\ id \notin OnServer /\ id \in OnDevice \cup discarded
                     /\ OnServer' = OnServer \cup {id} /\ broadcasts' = broadcasts
  \/ \E id \in OnServer : /\ broadcasts[id] = 0 /\ OnServer' = OnServer
                         /\ broadcasts' = [broadcasts EXCEPT ![id] = 1]

LEMMA ServerViews ==
  ASSUME SafetyInv, ServerNext
  PROVE  ServerView
<1>0. TypeInv /\ SendTypeOK /\ AnnounceInv /\ HeldInv /\ AuthorInv
  BY DEF SafetyInv, TypeInv, TypeOK
<1>1. ASSUME NEW h \in Slots, Insert(h), stored' # stored PROVE ServerView
  <2> DEFINE new == handler[h].id
  <2>1. handler[h] \in Busy /\ handler[h].pc # "free"
    BY <1>0, <1>1, InUse DEF Insert, At
  <2>2. /\ ~IsStored(new) /\ broadcasts' = broadcasts
        /\ stored' = [stored EXCEPT ![new] =
             [author |-> handler[h].user, body |-> handler[h].body,
              atts |-> handler[h].atts]]
    BY <1>1 DEF Insert
  <2>3. new \in Ids /\ handler[h].user \in Users
    BY <2>1, BusyFields
  <2>4. [author |-> handler[h].user, body |-> handler[h].body,
         atts |-> handler[h].atts] # NoMessage
    BY <2>3, SendAssumption DEF NoMessage
  <2>5. \A id \in Ids : IsStored(id)' <=> IsStored(id) \/ id = handler[h].id
    BY <1>0, <2>2, <2>3, <2>4 DEF IsStored, SendTypeOK
  <2>6. author[new] = handler[h].user
    BY <1>0, <2>1 DEF AuthorInv
  <2>7. InOutbox(new) \/ new \in discarded
    BY <1>0, <2>2, <2>3, <2>6, SendAssumption DEF HeldInv
  <2>8. new \notin OnServer /\ new \in OnDevice \cup discarded
        /\ OnServer' = OnServer \cup {handler[h].id}
    BY <2>2, <2>3, <2>5, <2>7 DEF OnServer, OnDevice
  <2>9. QED
    BY <2>2, <2>3, <2>8 DEF ServerView
<1>2. ASSUME NEW h \in Slots, Deliver(h) PROVE ServerView
  <2>1. handler[h].id \in Ids
    BY <1>0, <1>2, InUse, BusyFields DEF Deliver, At
  <2>2. Announcing(h)
    BY <1>0, <1>2 DEF AnnounceInv, Deliver
  <2>3. broadcasts' = [broadcasts EXCEPT ![handler[h].id] = 1]
    BY <1>0, <1>2, <2>1, <2>2 DEF Deliver, Announcing, SendTypeOK
  <2>4. stored' = stored
    BY <1>2 DEF Deliver
  <2>5. OnServer' = OnServer
    BY <2>4 DEF OnServer, IsStored
  <2>6. QED
    BY <2>1, <2>2, <2>3, <2>5 DEF ServerView, Announcing, OnServer
<1>3. stored' = stored /\ broadcasts' = broadcasts => ServerView
  BY DEF ServerView, OnServer, IsStored
<1>4. \/ stored' = stored /\ broadcasts' = broadcasts
      \/ \E h \in Slots : Insert(h) /\ stored' # stored
      \/ \E h \in Slots : Deliver(h)
  <2>1. ASSUME NEW h \in Slots,
               \/ Authorize(h) \/ Lookup(h) \/ Recheck(h) \/ Refuse(h) \/ Invalid(h)
               \/ ServerError(h) \/ Finish(h)
        PROVE  stored' = stored /\ broadcasts' = broadcasts
    BY <2>1 DEF Authorize, Refuse, Lookup, Invalid, Recheck, ServerError, Finish
  <2>2. ASSUME NEW h \in Slots, Insert(h) PROVE broadcasts' = broadcasts
    BY <2>2 DEF Insert
  <2>3. QED
    BY <2>1, <2>2 DEF ServerNext, Serve, HandlerStep, Receive, RecordRows, RecordFails,
                      ServerCrash, CreateAttachment, ReapOrphan
<1>5. QED
  BY <1>1, <1>2, <1>3, <1>4

\* No step of the composition changes both views at once: the exchanges that
\* involve both sides leave held, withdrawn, posted and announced alone.
LEMMA ContractStep ==
  ASSUME SafetyInv, [Next]_vars
  PROVE  [Contract!Next]_(Contract!vars)
<1>0. StepKinds
  BY NextKinds
<1>1. CASE DeviceStep /\ UNCHANGED sendVars
  <2>1. DeviceView /\ OnServer' = OnServer /\ broadcasts' = broadcasts
    BY <1>1, DeviceViews DEF OutboxNext, sendVars, OnServer, IsStored
  <2>2. QED
    BY <2>1 DEF DeviceView, OnDevice, OnServer, Contract!Next, Contract!vars,
                Contract!Hold, Contract!Confirm, Contract!Withdraw
<1>2. CASE Serve /\ UNCHANGED outboxVars
  <2>1. ServerView /\ OnDevice' = OnDevice /\ discarded' = discarded
    BY <1>2, ServerViews DEF ServerNext, outboxVars, OnDevice, InOutbox
  <2>2. QED
    BY <2>1 DEF ServerView, OnDevice, OnServer, Contract!Next, Contract!vars,
                Contract!Post, Contract!Announce
<1>3. CASE /\ outbox' = outbox /\ discarded' = discarded
           /\ stored' = stored /\ broadcasts' = broadcasts
  BY <1>3 DEF Contract!vars, InOutbox, IsStored
<1>4. QED
  BY <1>0, <1>1, <1>2, <1>3
  DEF StepKinds, Send, Emit, Receive, Ack, Finish, Acked, Uploaded, UploadFails,
      CreateAttachment, outboxVars, sendVars

LEMMA ContractInit == Init => Contract!Init
  BY DEF Init, OutboxInit, SendInit, Contract!Init, InOutbox, IsStored

\* Queueing, retrying over any number of windows, uploading, timing out and
\* crashing implement exactly-once delivery.
THEOREM ImplementsContract == Spec => ImplementsExactlyOnce
<1>1. SafetyInv /\ [Next]_vars => [Contract!Next]_(Contract!vars)
  BY ContractStep
<1>2. QED
  BY <1>1, ContractInit, AlwaysSafe, PTL DEF Spec, ImplementsExactlyOnce, Contract!Spec
-----------------------------------------------------------------------------
(* Posted messages are complete.                                           *)

\* Nothing carries more files than its body has, and a request carries all of them.
Fits(carrier) == Len(carrier.atts) <= FileCount[carrier.body]

FilesFit ==
  /\ \A id \in Ids : InOutbox(id) => Fits(outbox[id])
  /\ \A s \in Sessions :
       session[s].pc \in {"limit", "upload", "save", "await"} => Fits(session[s])

RequestsFull ==
  \A h \in Slots : handler[h].pc # "free" => Len(handler[h].atts) = FileCount[handler[h].body]

LEMMA ItemFits ==
  ASSUME OutboxTypeOK, FilesFit, NEW id \in Ids, NEW item,
         item = NoItem \/ Fits(item), outbox' = [outbox EXCEPT ![id] = item]
  PROVE  \A other \in Ids : InOutbox(other)' => Fits(outbox'[other])
<1>1. outbox'[id] = item /\ \A other \in Ids \ {id} : outbox'[other] = outbox[other]
  BY DEF OutboxTypeOK
<1> QED BY <1>1 DEF FilesFit, InOutbox

LEMMA LoopFits ==
  ASSUME OutboxTypeOK, FilesFit, NEW s \in Sessions, NEW loop,
         session' = [session EXCEPT ![s] = loop],
         \/ loop.pc \notin {"limit", "upload", "save", "await"}
         \/ Fits(loop)
         \/ /\ loop.atts = session[s].atts /\ loop.body = session[s].body
            /\ session[s].pc \in {"limit", "upload", "save", "await"}
  PROVE  \A t \in Sessions :
           session'[t].pc \in {"limit", "upload", "save", "await"} => Fits(session'[t])
<1>1. session'[s] = loop /\ \A t \in Sessions \ {s} : session'[t] = session[t]
  BY DEF OutboxTypeOK
<1> QED BY <1>1 DEF FilesFit, Fits

\* The attempt moves on, or fails, or only its flags change.
LEMMA MovesFit ==
  ASSUME OutboxTypeOK, FilesFit, NEW s \in Sessions,
         \/ Proceed(s, "rest") \/ Arm(s)
         \/ Proceed(s, "upload") /\ session[s].pc \in {"limit", "save"}
         \/ \E retryable \in BOOLEAN : Throw(s, retryable)
  PROVE  \A t \in Sessions :
           session'[t].pc \in {"limit", "upload", "save", "await"} => Fits(session'[t])
<1>0. session[s] \in SessionState
  BY DEF OutboxTypeOK
<1>1. CASE Proceed(s, "rest")
  <2> DEFINE loop == [session[s] EXCEPT !.pc = "rest"]
  <2>1. loop.pc = "rest" /\ session' = [session EXCEPT ![s] = loop]
    BY <1>0, <1>1 DEF Proceed, SessionState
  <2> QED BY <2>1, LoopFits
<1>2. CASE Proceed(s, "upload") /\ session[s].pc \in {"limit", "save"}
  <2> DEFINE loop == [session[s] EXCEPT !.pc = "upload"]
  <2>1. /\ loop.atts = session[s].atts /\ loop.body = session[s].body
        /\ session' = [session EXCEPT ![s] = loop]
    BY <1>0, <1>2 DEF Proceed, SessionState
  <2> QED BY <1>2, <2>1, LoopFits
<1>3. ASSUME NEW retryable \in BOOLEAN, Throw(s, retryable)
      PROVE  \A t \in Sessions :
               session'[t].pc \in {"limit", "upload", "save", "await"} => Fits(session'[t])
  <2> DEFINE loop == [session[s] EXCEPT !.pc = "settle", !.call = NoSlot, !.retryable = retryable]
  <2>1. loop.pc = "settle" /\ session' = [session EXCEPT ![s] = loop]
    BY <1>0, <1>3 DEF Throw, SessionState
  <2> QED BY <2>1, LoopFits
<1>4. CASE Arm(s)
  <2> DEFINE loop == [session[s] EXCEPT !.armed = TRUE]
  <2>1. /\ loop.atts = session[s].atts /\ loop.body = session[s].body
        /\ loop.pc = session[s].pc /\ session' = [session EXCEPT ![s] = loop]
    BY <1>0, <1>4 DEF Arm, SessionState
  <2> QED BY <2>1, LoopFits
<1> QED BY <1>1, <1>2, <1>3, <1>4

LEMMA UserFits ==
  ASSUME OutboxTypeOK, SessionShape, FilesFit, NEW s \in Sessions, NEW id \in Ids,
         \/ Restore(s, id) \/ Retry(s, id) \/ Discard(s, id) \/ Pick(s, id)
         \/ \E body \in Bodies : Enqueue(s, id, body) \/ Resend(s, id, body)
  PROVE  FilesFit'
<1>1. ASSUME NEW body \in Bodies, Enqueue(s, id, body) \/ Resend(s, id, body) PROVE FilesFit'
  <2> DEFINE item == Fresh(session[s].user, body, clock + 1)
  <2>1. item.atts = << >> /\ item.body = body
    BY DEF Fresh
  <2>2. FileCount[body] \in Nat /\ Len(<< >>) = 0
    BY SendAssumption
  <2>3. Fits(item)
    BY <2>1, <2>2 DEF Fits
  <2>4. outbox' = [outbox EXCEPT ![id] = item] /\ Arm(s)
    BY <1>1 DEF Enqueue, Resend
  <2> HIDE DEF item
  <2> QED BY <2>3, <2>4, ItemFits, MovesFit DEF FilesFit
<1>2. CASE Restore(s, id)
  BY <1>2 DEF Restore, FilesFit, InOutbox
<1>3. CASE Retry(s, id)
  <2> DEFINE item == [outbox[id] EXCEPT !.status = "queued", !.leased = FALSE,
                                        !.waiting = FALSE]
  <2>1. InOutbox(id) /\ outbox[id] \in Item
    BY <1>3, Held DEF Retry
  <2>2. item.atts = outbox[id].atts /\ item.body = outbox[id].body
    BY <2>1 DEF Item
  <2>3. Fits(item)
    BY <2>1, <2>2 DEF Fits, FilesFit
  <2>4. outbox' = [outbox EXCEPT ![id] = item] /\ Arm(s)
    BY <1>3 DEF Retry
  <2> HIDE DEF item
  <2> QED BY <2>3, <2>4, ItemFits, MovesFit DEF FilesFit
<1>4. CASE Discard(s, id)
  <2>1. outbox' = [outbox EXCEPT ![id] = NoItem] /\ Arm(s)
    BY <1>4 DEF Discard
  <2> QED BY <2>1, ItemFits, MovesFit DEF FilesFit
<1>5. CASE Pick(s, id)
  <2> DEFINE loop == [session[s] EXCEPT !.pc = "picked", !.id = id]
  <2>1. loop.pc = "picked" /\ session' = [session EXCEPT ![s] = loop] /\ outbox' = outbox
    BY <1>5 DEF Pick, OutboxTypeOK, SessionState
  <2> HIDE DEF loop
  <2>2. \A t \in Sessions :
          session'[t].pc \in {"limit", "upload", "save", "await"} => Fits(session'[t])
    BY <2>1, LoopFits
  <2> QED BY <2>1, <2>2 DEF FilesFit, InOutbox
<1> QED BY <1>1, <1>2, <1>3, <1>4, <1>5

\* Steps that write no item.
LEMMA ItemsFit ==
  ASSUME FilesFit, outbox' = outbox
  PROVE  \A other \in Ids : InOutbox(other)' => Fits(outbox'[other])
  BY DEF FilesFit, InOutbox

LEMMA AttemptFits ==
  ASSUME OutboxTypeOK, SessionShape, FilesFit, NEW s \in Sessions,
         \/ Claim(s) \/ SaveUpload(s) \/ Clear(s) \/ Settle(s) \/ Renew(s)
         \/ \E a \in Attachments : Uploaded(s, a)
  PROVE  FilesFit'
<1> DEFINE id == session[s].id
           Carries(t) == session'[t].pc \in {"limit", "upload", "save", "await"} => Fits(session'[t])
<1>0. session[s] \in SessionState
  BY DEF OutboxTypeOK
<1>1. /\ session[s].pc \in Running
      /\ id \in Ids /\ (InOutbox(id) => outbox[id] \in Item)
      /\ session[s].pc = "save" => session[s].body \in Bodies
      /\ session[s].atts \in Seq(Attachments)
  <2>1. session[s].pc \in Running
    BY DEF Claim, SaveUpload, Clear, Settle, Renew, Uploaded, SessionAt, Running
  <2> QED BY <2>1, LoopItem
<1>2. CASE Claim(s)
  <2>1. CASE outbox' = outbox /\ Proceed(s, "rest")
    BY <2>1, ItemsFit, MovesFit DEF FilesFit
  <2>2. CASE ~(outbox' = outbox /\ Proceed(s, "rest"))
    <3> DEFINE item == [outbox[id] EXCEPT !.status = "sending", !.owner = s, !.leased = TRUE]
               pc == IF FileCount[outbox[id].body] > 0 THEN "limit" ELSE "upload"
               loop == [session[s] EXCEPT !.pc = pc, !.body = outbox[id].body,
                                          !.atts = outbox[id].atts]
    <3>1. /\ InOutbox(id) /\ outbox' = [outbox EXCEPT ![id] = item]
          /\ session' = [session EXCEPT ![s] = loop]
      BY <1>2, <2>2 DEF Claim
    <3>2. item.atts = outbox[id].atts /\ item.body = outbox[id].body
      BY <1>1, <3>1 DEF Item
    <3>3. loop.atts = outbox[id].atts /\ loop.body = outbox[id].body
      BY <1>0 DEF SessionState
    <3>4. Fits(outbox[id])
      BY <1>1, <3>1 DEF FilesFit
    <3>5. Fits(item) /\ Fits(loop)
      BY <3>2, <3>3, <3>4 DEF Fits
    <3> HIDE DEF item, loop
    <3>6. \A other \in Ids : InOutbox(other)' => Fits(outbox'[other])
      BY <1>1, <3>1, <3>5, ItemFits
    <3>7. \A t \in Sessions : Carries(t)
      BY <3>1, <3>5, LoopFits
    <3> QED BY <3>6, <3>7 DEF FilesFit
  <2> QED BY <2>1, <2>2
<1>3. CASE SaveUpload(s)
  <2>1. CASE ~Owns(s, id)
    <3>1. outbox' = outbox /\ Throw(s, TRUE)
      BY <1>3, <2>1 DEF SaveUpload
    <3> QED BY <3>1, ItemsFit, MovesFit DEF FilesFit
  <2>2. CASE Owns(s, id)
    <3> DEFINE item == [outbox[id] EXCEPT !.body = session[s].body,
                          !.atts = session[s].atts, !.status = "sending"]
    <3>1. /\ InOutbox(id) /\ outbox' = [outbox EXCEPT ![id] = item]
          /\ Proceed(s, "upload") /\ session[s].pc = "save"
      BY <1>3, <2>2 DEF SaveUpload, Owns, SessionAt
    <3>2. item.atts = session[s].atts /\ item.body = session[s].body
      BY <1>1, <3>1 DEF Item
    <3>3. Fits(item)
      BY <3>1, <3>2 DEF FilesFit, Fits
    <3> HIDE DEF item
    <3>4. \A other \in Ids : InOutbox(other)' => Fits(outbox'[other])
      BY <1>1, <3>1, <3>3, ItemFits
    <3> QED BY <3>1, <3>4, MovesFit DEF FilesFit
  <2> QED BY <2>1, <2>2
<1>4. CASE Clear(s)
  <2>1. \A other \in Ids : InOutbox(other)' => Fits(outbox'[other])
    BY <1>1, <1>4, ItemFits, ItemsFit DEF Clear
  <2> QED BY <1>4, <2>1, MovesFit DEF Clear, FilesFit
<1>5. CASE Settle(s)
  <2>1. Proceed(s, "rest")
    BY <1>5 DEF Settle
  <2>2. CASE outbox' = outbox
    BY <2>1, <2>2, ItemsFit, MovesFit DEF FilesFit
  <2>3. CASE outbox' # outbox
    <3> DEFINE status == IF session[s].retryable THEN "queued" ELSE "failed"
               item == [outbox[id] EXCEPT !.status = status, !.leased = FALSE, !.waiting = TRUE]
    <3>1. InOutbox(id) /\ outbox' = [outbox EXCEPT ![id] = item]
      BY <1>5, <2>3 DEF Settle, Owns
    <3>2. item.atts = outbox[id].atts /\ item.body = outbox[id].body
      BY <1>1, <3>1 DEF Item
    <3>3. Fits(item)
      BY <1>1, <3>1, <3>2 DEF FilesFit, Fits
    <3> HIDE DEF item
    <3>4. \A other \in Ids : InOutbox(other)' => Fits(outbox'[other])
      BY <1>1, <3>1, <3>3, ItemFits
    <3> QED BY <2>1, <3>4, MovesFit DEF FilesFit
  <2> QED BY <2>2, <2>3
<1>6. CASE Renew(s)
  <2> DEFINE item == [outbox[id] EXCEPT !.leased = TRUE]
  <2>1. InOutbox(id) /\ outbox' = [outbox EXCEPT ![id] = item] /\ session' = session
    BY <1>6 DEF Renew, Owns
  <2>2. item.atts = outbox[id].atts /\ item.body = outbox[id].body
    BY <1>1, <2>1 DEF Item
  <2>3. Fits(item)
    BY <1>1, <2>1, <2>2 DEF FilesFit, Fits
  <2> HIDE DEF item
  <2>4. \A other \in Ids : InOutbox(other)' => Fits(outbox'[other])
    BY <1>1, <2>1, <2>3, ItemFits
  <2> QED BY <2>1, <2>4 DEF FilesFit
<1>7. ASSUME NEW a \in Attachments, Uploaded(s, a) PROVE FilesFit'
  <2> DEFINE loop == [session[s] EXCEPT !.pc = "save", !.atts = Append(@, a)]
  <2>1. /\ session' = [session EXCEPT ![s] = loop] /\ outbox' = outbox
        /\ session[s].pc = "upload" /\ ~(Len(session[s].atts) >= FileCount[session[s].body])
    BY <1>7 DEF Uploaded, SessionAt, AllUploaded
  <2>2. loop.body = session[s].body /\ loop.atts = Append(session[s].atts, a)
    BY <1>0 DEF SessionState
  <2>3. FileCount[session[s].body] \in Nat /\ Len(session[s].atts) \in Nat
    BY <1>1, <2>1, SendAssumption DEF SessionShape, Shaped
  <2>4. Len(loop.atts) = Len(session[s].atts) + 1
    BY <1>1, <2>2
  <2>5. Fits(loop)
    BY <2>1, <2>2, <2>3, <2>4 DEF Fits
  <2> HIDE DEF loop
  <2> QED BY <2>1, <2>5, ItemsFit, LoopFits DEF FilesFit
<1> QED BY <1>2, <1>3, <1>4, <1>5, <1>6, <1>7

\* The rest of the device: its loops move on or start, its items wait.
LEMMA OtherFits ==
  ASSUME OutboxTypeOK, SessionShape, FilesFit, NEW s \in Sessions,
         \/ Poll(s) \/ CheckLimit(s) \/ ConnectionLost(s) \/ TimeOut(s) \/ Rest(s)
         \/ StorageFails(s) \/ StopSession(s) \/ WindowGone(s) \/ GoOffline(s)
         \/ GoOnline(s) \/ Wake(s)
         \/ \E retryable \in BOOLEAN : UploadFails(s, retryable)
         \/ \E u \in Users : StartSession(s, u)
         \/ \E h \in Slots : Emit(s, h)
         \/ \E reply \in {"none", "ok", "reject", "retry"} : Acked(s, reply)
  PROVE  FilesFit'
<1> DEFINE Carries(t) == session'[t].pc \in {"limit", "upload", "save", "await"} => Fits(session'[t])
<1>0. session[s] \in SessionState
  BY DEF OutboxTypeOK
<1>1. CASE CheckLimit(s) \/ ConnectionLost(s) \/ TimeOut(s) \/ StorageFails(s) \/ Wake(s)
  <2>1. outbox' = outbox
    BY <1>1 DEF CheckLimit, ConnectionLost, TimeOut, StorageFails, Wake
  <2>2. \/ Proceed(s, "rest") \/ Arm(s)
        \/ Proceed(s, "upload") /\ session[s].pc \in {"limit", "save"}
        \/ \E retryable \in BOOLEAN : Throw(s, retryable)
    BY <1>1 DEF CheckLimit, ConnectionLost, TimeOut, StorageFails, Wake, SessionAt
  <2>3. \A t \in Sessions : Carries(t)
    BY <2>2, MovesFit
  <2> QED BY <2>1, <2>3, ItemsFit DEF FilesFit
<1>2. ASSUME NEW retryable \in BOOLEAN, UploadFails(s, retryable) PROVE FilesFit'
  <2>1. outbox' = outbox /\ Throw(s, retryable)
    BY <1>2 DEF UploadFails
  <2> QED BY <2>1, ItemsFit, MovesFit DEF FilesFit
<1>3. ASSUME NEW reply \in {"none", "ok", "reject", "retry"}, Acked(s, reply) PROVE FilesFit'
  <2>1. outbox' = outbox
    BY <1>3 DEF Acked
  <2>2. CASE reply = "ok"
    <3> DEFINE loop == [session[s] EXCEPT !.pc = "clear", !.call = NoSlot]
    <3>1. loop.pc = "clear" /\ session' = [session EXCEPT ![s] = loop]
      BY <1>0, <1>3, <2>2 DEF Acked, SessionState
    <3> HIDE DEF loop
    <3> QED BY <2>1, <3>1, ItemsFit, LoopFits DEF FilesFit
  <2>3. CASE reply # "ok"
    <3>1. Throw(s, reply = "retry")
      BY <1>3, <2>3 DEF Acked
    <3> QED BY <2>1, <3>1, ItemsFit, MovesFit DEF FilesFit
  <2> QED BY <2>2, <2>3
<1>4. ASSUME NEW h \in Slots, Emit(s, h) PROVE FilesFit'
  <2> DEFINE loop == [session[s] EXCEPT !.pc = "await", !.call = h]
  <2>1. /\ loop.atts = session[s].atts /\ loop.body = session[s].body
        /\ session[s].pc = "upload" /\ session' = [session EXCEPT ![s] = loop]
        /\ outbox' = outbox
    BY <1>0, <1>4 DEF Emit, SessionAt, SessionState
  <2> HIDE DEF loop
  <2> QED BY <2>1, ItemsFit, LoopFits DEF FilesFit
<1>5. ASSUME NEW live \in BOOLEAN, NEW online \in BOOLEAN, NEW armed \in BOOLEAN, outbox' = outbox,
             session' = [session EXCEPT ![s] =
               [session[s] EXCEPT !.live = live, !.online = online, !.armed = armed]]
      PROVE  FilesFit'
  <2> DEFINE loop == [session[s] EXCEPT !.live = live, !.online = online, !.armed = armed]
  <2>1. loop.atts = session[s].atts /\ loop.body = session[s].body /\ loop.pc = session[s].pc
    BY <1>0 DEF SessionState
  <2>2. session' = [session EXCEPT ![s] = loop]
    BY <1>5
  <2> HIDE DEF loop
  <2> QED BY <1>5, <2>1, <2>2, ItemsFit, LoopFits DEF FilesFit
<1>6. CASE Poll(s) \/ StopSession(s) \/ GoOffline(s) \/ GoOnline(s)
  <2>1. outbox' = outbox
    BY <1>6 DEF Poll, StopSession, GoOffline, GoOnline
  <2>2. session[s].live \in BOOLEAN /\ session[s].online \in BOOLEAN /\ session[s].armed \in BOOLEAN
    BY <1>0, LoopFields
  <2>3. \E live, online, armed \in BOOLEAN : session' = [session EXCEPT ![s] =
               [session[s] EXCEPT !.live = live, !.online = online, !.armed = armed]]
    <3>1. CASE Poll(s)
      <4>1. PICK armed \in BOOLEAN : session' = [session EXCEPT ![s].armed = armed]
        BY <3>1 DEF Poll
      <4>2. [session[s] EXCEPT !.armed = armed] =
              [session[s] EXCEPT !.live = session[s].live, !.online = session[s].online, !.armed = armed]
        BY <1>0 DEF SessionState
      <4> QED BY <2>2, <4>1, <4>2
    <3>2. CASE StopSession(s)
      <4>1. session' = [session EXCEPT ![s].live = FALSE, ![s].armed = FALSE]
        BY <3>2 DEF StopSession
      <4>2. [session[s] EXCEPT !.live = FALSE, !.armed = FALSE] =
              [session[s] EXCEPT !.live = FALSE, !.online = session[s].online, !.armed = FALSE]
        BY <1>0 DEF SessionState
      <4> QED BY ZenonT(30), <2>2, <4>1, <4>2
    <3>3. CASE GoOffline(s)
      <4>1. session' = [session EXCEPT ![s].online = FALSE]
        BY <3>3 DEF GoOffline
      <4>2. [session[s] EXCEPT !.online = FALSE] =
              [session[s] EXCEPT !.live = session[s].live, !.online = FALSE, !.armed = session[s].armed]
        BY <1>0 DEF SessionState
      <4> QED BY <2>2, <4>1, <4>2
    <3>4. CASE GoOnline(s)
      <4>1. session' = [session EXCEPT ![s].online = TRUE, ![s].armed = TRUE]
        BY <3>4 DEF GoOnline
      <4>2. [session[s] EXCEPT !.online = TRUE, !.armed = TRUE] =
              [session[s] EXCEPT !.live = session[s].live, !.online = TRUE, !.armed = TRUE]
        BY <1>0 DEF SessionState
      <4> QED BY ZenonT(30), <2>2, <4>1, <4>2
    <3> QED BY <1>6, <3>1, <3>2, <3>3, <3>4
  <2> QED BY <1>5, <2>1, <2>3
<1>7. ASSUME NEW loop, loop.pc = "idle", session' = [session EXCEPT ![s] = loop],
             outbox' = outbox \/ Disown(s)
      PROVE  FilesFit'
  <2>1. \A t \in Sessions : Carries(t)
    BY <1>7, LoopFits
  <2>2. ASSUME Disown(s), NEW id \in Ids, InOutbox(id)' PROVE Fits(outbox'[id])
    <3>1. outbox'[id] = IF outbox[id].owner = s THEN [outbox[id] EXCEPT !.owner = NoSession]
                        ELSE outbox[id]
      BY <2>2 DEF Disown
    <3>2. CASE outbox[id].owner = s
      <4>1. outbox[id] \in Item
        BY <3>2, OutboxAssumption DEF OutboxTypeOK, NoItem
      <4>2. outbox'[id].atts = outbox[id].atts /\ outbox'[id].body = outbox[id].body
        BY <3>1, <3>2, <4>1 DEF Item
      <4>3. InOutbox(id)
        BY <4>1, ItemReal DEF InOutbox
      <4> QED BY <4>2, <4>3 DEF FilesFit, Fits
    <3>3. CASE outbox[id].owner # s
      BY <2>2, <3>1, <3>3 DEF FilesFit, InOutbox
    <3> QED BY <3>2, <3>3
  <2> QED BY <1>7, <2>1, <2>2, ItemsFit DEF FilesFit
<1>8. CASE Rest(s) \/ WindowGone(s) \/ \E u \in Users : StartSession(s, u)
  <2>1. \E loop : /\ loop.pc = "idle" /\ session' = [session EXCEPT ![s] = loop]
                  /\ outbox' = outbox \/ Disown(s)
    <3>1. CASE Rest(s)
      <4>1. PICK armed : session' = [session EXCEPT ![s] =
              [Unborn EXCEPT !.user = session[s].user, !.live = session[s].live,
                             !.online = session[s].online, !.armed = armed]]
        BY <3>1 DEF Rest
      <4> DEFINE loop == [Unborn EXCEPT !.user = session[s].user, !.live = session[s].live,
                                        !.online = session[s].online, !.armed = armed]
      <4>2. loop.pc = "idle" /\ session' = [session EXCEPT ![s] = loop] /\ outbox' = outbox
        BY <3>1, <4>1 DEF Rest, Unborn
      <4> HIDE DEF loop
      <4> QED BY <4>2
    <3>2. CASE WindowGone(s)
      <4>1. Unborn.pc = "idle"
        BY DEF Unborn
      <4> QED BY <3>2, <4>1 DEF WindowGone
    <3>3. ASSUME NEW u \in Users, StartSession(s, u)
          PROVE  \E loop : /\ loop.pc = "idle" /\ session' = [session EXCEPT ![s] = loop]
                           /\ outbox' = outbox \/ Disown(s)
      <4> DEFINE loop == [Unborn EXCEPT !.user = u, !.live = TRUE, !.online = TRUE, !.armed = TRUE]
      <4>1. loop.pc = "idle" /\ session' = [session EXCEPT ![s] = loop] /\ Disown(s)
        BY <3>3 DEF StartSession, Unborn
      <4> HIDE DEF loop
      <4> QED BY <4>1
    <3> QED BY <1>8, <3>1, <3>2, <3>3
  <2> QED BY <1>7, <2>1
<1> QED BY <1>1, <1>2, <1>3, <1>4, <1>6, <1>8

LEMMA TimeFits ==
  ASSUME OutboxTypeOK, FilesFit, NEW id \in Ids, LeaseExpires(id) \/ BackoffEnds(id)
  PROVE  FilesFit'
<1> DEFINE free == [outbox[id] EXCEPT !.leased = FALSE]
           ready == [outbox[id] EXCEPT !.waiting = FALSE]
<1>1. outbox[id] \in Item
  BY DEF LeaseExpires, BackoffEnds, OutboxTypeOK, NoItem
<1>2. /\ free.atts = outbox[id].atts /\ free.body = outbox[id].body
      /\ ready.atts = outbox[id].atts /\ ready.body = outbox[id].body
  BY <1>1 DEF Item
<1>3. /\ outbox' = [outbox EXCEPT ![id] = free] \/ outbox' = [outbox EXCEPT ![id] = ready]
      /\ session' = session
  BY DEF LeaseExpires, BackoffEnds
<1>4. Fits(outbox[id])
  BY <1>1, ItemReal DEF InOutbox, FilesFit
<1>5. Fits(free) /\ Fits(ready)
  BY <1>2, <1>4 DEF Fits
<1> HIDE DEF free, ready
<1>6. \A other \in Ids : InOutbox(other)' => Fits(outbox'[other])
  BY <1>3, <1>5, ItemFits
<1> QED BY <1>3, <1>6 DEF FilesFit

LEMMA DeviceFits ==
  ASSUME OutboxTypeOK, SessionShape, FilesFit, [OutboxNext]_outboxVars
  PROVE  FilesFit'
<1>1. CASE OutboxNext
  BY <1>1, UserFits, AttemptFits, OtherFits, TimeFits DEF OutboxNext, DeviceStep
<1>2. CASE UNCHANGED outboxVars
  BY <1>2 DEF outboxVars, FilesFit, InOutbox
<1> QED BY <1>1, <1>2

-----------------------------------------------------------------------------
\* A request keeps what it was sent with, and is sent with every file.
LEMMA RequestsStayFull ==
  ASSUME TypeInv, FilesFit, RequestsFull, StepFacts
  PROVE  RequestsFull'
<1>0. OutboxTypeOK /\ SendTypeOK /\ SessionShape
  BY DEF TypeInv, TypeOK
<1> SUFFICES ASSUME NEW h \in Slots, handler'[h].pc # "free"
             PROVE  Len(handler'[h].atts) = FileCount[handler'[h].body]
  BY DEF RequestsFull
<1>1. CASE SlotKept(h)
  BY <1>1 DEF SlotKept, Free, RequestsFull
<1>2. ASSUME NEW s \in Sessions, Send(s, h)
      PROVE  Len(handler'[h].atts) = FileCount[handler'[h].body]
  <2>1. /\ session[s].pc = "upload"
        /\ Len(session[s].atts) >= FileCount[session[s].body]
    BY <1>2 DEF Send, Emit, SessionAt, AllUploaded
  <2>2. Len(session[s].atts) <= FileCount[session[s].body]
    BY <2>1 DEF FilesFit, Fits
  <2>3. FileCount[session[s].body] \in Nat /\ Len(session[s].atts) \in Nat
    BY <1>0, <2>1, LoopFields, SendAssumption DEF SessionShape, Shaped, OutboxTypeOK
  <2>4. handler'[h].atts = session[s].atts /\ handler'[h].body = session[s].body
    BY <1>0, <1>2 DEF Send, Receive, Payload, SendTypeOK
  <2> QED BY <2>1, <2>2, <2>3, <2>4
<1> QED BY <1>1, <1>2 DEF StepFacts, SlotMoves

\* A file a message has claimed is never handed out or reaped again.
LEMMA LinkedStays ==
  ASSUME SendTypeOK, ServerNext, NEW a \in Attachments, attachment[a].state = "linked"
  PROVE  attachment'[a].state = "linked"
<1>0. \A b \in Attachments : attachment[b] \in [state : AttachmentStates, by : Users \cup {NoUser}]
  BY DEF SendTypeOK
<1>1. ASSUME NEW b \in Attachments, NEW u \in Users, CreateAttachment(b, u)
      PROVE  attachment'[a].state = "linked"
  BY <1>1 DEF CreateAttachment, SendTypeOK
<1>2. ASSUME NEW b \in Attachments, ReapOrphan(b) PROVE attachment'[a].state = "linked"
  BY <1>2 DEF ReapOrphan, SendTypeOK
<1>3. ASSUME NEW h \in Slots, Insert(h), attachment' # attachment
      PROVE  attachment'[a].state = "linked"
  <2>1. \/ attachment'[a] = [attachment[a] EXCEPT !.state = "linked"]
        \/ attachment'[a] = attachment[a]
    BY <1>3 DEF Insert
  <2> QED BY <1>0, <2>1
<1>4. \/ attachment' = attachment
      \/ \E h \in Slots : Insert(h)
      \/ \E b \in Attachments : ReapOrphan(b) \/ \E u \in Users : CreateAttachment(b, u)
  BY DEF ServerNext, Serve, HandlerStep, Receive, Authorize, Refuse, Lookup, Invalid,
         Recheck, Deliver, ServerError, Finish, RecordRows, RecordFails, ServerCrash
<1> QED BY <1>1, <1>2, <1>3, <1>4

\* The files of a row, and PostedComplete, of any messages and attachments table.
FilesIn(table, id) == {table[id].atts[i] : i \in 1..Len(table[id].atts)}

RowWhole(table, files, id) ==
  table[id] # NoMessage =>
    /\ Len(table[id].atts) = FileCount[table[id].body]
    /\ \A a \in FilesIn(table, id) : files[a].state = "linked"
    /\ \A other \in Ids \ {id} : FilesIn(table, id) \cap FilesIn(table, other) = {}

LEMMA Wholes ==
  /\ PostedComplete <=> \A id \in Ids : RowWhole(stored, attachment, id)
  /\ PostedComplete' <=> \A id \in Ids : RowWhole(stored', attachment', id)
<1>1. \A id : Files(id) = FilesIn(stored, id)
  BY DEF Files, FilesIn
<1>2. PostedComplete <=> \A id \in Ids : RowWhole(stored, attachment, id)
  BY <1>1 DEF PostedComplete, RowWhole, IsStored
<1>3. PostedComplete' <=> \A id \in Ids : RowWhole(stored', attachment', id)
  BY DEF PostedComplete, RowWhole, IsStored, Files, FilesIn
<1> QED BY <1>2, <1>3

LEMMA FilesAre ==
  ASSUME SendTypeOK, NEW id \in Ids
  PROVE  FilesIn(stored, id) \subseteq Attachments
<1>1. stored[id].atts \in Seq(Attachments)
  <2>1. << >> \in Seq(Attachments)
    OBVIOUS
  <2>2. stored[id] \in Message \cup {NoMessage}
    BY DEF SendTypeOK
  <2>3. stored[id] \in Message => stored[id].atts \in Seq(Attachments)
    BY DEF Message
  <2>4. NoMessage.atts = << >>
    BY DEF NoMessage
  <2> QED BY <2>1, <2>2, <2>3, <2>4
<1> QED BY <1>1 DEF FilesIn

LEMMA SameFiles ==
  ASSUME NEW one, NEW two, NEW id, one[id] = two[id]
  PROVE  FilesIn(one, id) = FilesIn(two, id)
  BY DEF FilesIn

LEMMA CompleteStep ==
  ASSUME SendTypeOK, RequestsFull, PostedComplete, ServerNext
  PROVE  PostedComplete'
<1>0. \A id \in Ids : RowWhole(stored, attachment, id)
  BY Wholes
<1>1. CASE stored' = stored
  <2>1. ASSUME NEW id \in Ids PROVE RowWhole(stored', attachment', id)
    BY <1>0, <1>1, FilesAre, LinkedStays DEF RowWhole
  <2> QED BY <2>1, Wholes
<1>2. ASSUME NEW h \in Slots, Insert(h), stored' # stored
      PROVE  PostedComplete'
  <2> DEFINE new == handler[h].id
             atts == handler[h].atts
             mine == {atts[i] : i \in 1..Len(atts)}
             row == [author |-> handler[h].user, body |-> handler[h].body, atts |-> atts]
  <2>1. /\ handler[h].pc # "free" /\ ~IsStored(new) /\ Linkable(h)
        /\ stored' = [stored EXCEPT ![new] = row]
        /\ attachment' = [a \in Attachments |->
             IF \E i \in 1..Len(atts) : atts[i] = a
             THEN [attachment[a] EXCEPT !.state = "linked"] ELSE attachment[a]]
    BY <1>2 DEF Insert, At
  <2>2. new \in Ids /\ atts \in Seq(Attachments)
    BY <2>1, InUse, BusyFields
  <2>3. \A a \in mine : a \in Attachments /\ attachment[a].state = "free"
    BY <2>1, <2>2 DEF Linkable
  <2>4. \A a \in mine : attachment'[a].state = "linked"
    <3>1. \A a \in Attachments : attachment[a] \in [state : AttachmentStates, by : Users \cup {NoUser}]
      BY DEF SendTypeOK
    <3>2. \A a \in mine : attachment'[a] = [attachment[a] EXCEPT !.state = "linked"]
      BY <2>1, <2>3
    <3> QED BY <2>3, <3>1, <3>2
  <2>5. stored'[new] = row /\ \A id \in Ids \ {new} : stored'[id] = stored[id]
    BY <2>1, <2>2 DEF SendTypeOK
  <2>6. FilesIn(stored', new) = mine
    BY <2>5 DEF FilesIn
  <2>7. \A id \in Ids \ {new} : FilesIn(stored', id) = FilesIn(stored, id)
    BY <2>5, SameFiles
  <2>8. Len(stored'[new].atts) = FileCount[stored'[new].body]
    BY <2>1, <2>5 DEF RequestsFull
  <2>9. \A id \in Ids \ {new} :
          \A a \in FilesIn(stored, id) : a \in Attachments /\ attachment[a].state = "linked"
    <3>1. ASSUME NEW id \in Ids, stored[id] = NoMessage PROVE FilesIn(stored, id) = {}
      BY <3>1 DEF FilesIn, NoMessage
    <3> QED BY <1>0, <3>1, FilesAre DEF RowWhole
  <2> HIDE DEF new, mine, row
  <2>10. \A id \in Ids \ {new} : FilesIn(stored, id) \cap mine = {}
    BY <2>3, <2>9
  <2>11. ASSUME NEW id \in Ids \ {new} PROVE RowWhole(stored', attachment', id)
    <3>1. ASSUME NEW other \in Ids \ {id}, stored[id] # NoMessage
          PROVE  FilesIn(stored', id) \cap FilesIn(stored', other) = {}
      BY <1>0, <2>6, <2>7, <2>10, <3>1 DEF RowWhole
    <3>2. \A a \in FilesIn(stored', id) : attachment'[a].state = "linked"
      BY <2>7, <2>9, LinkedStays
    <3> QED BY <1>0, <2>5, <3>1, <3>2 DEF RowWhole
  <2>12. RowWhole(stored', attachment', new)
    BY <2>4, <2>6, <2>7, <2>8, <2>10 DEF RowWhole
  <2> QED BY <2>11, <2>12, Wholes
<1>3. \/ stored' = stored
      \/ \E h \in Slots : Insert(h)
  BY StoredBy
<1> QED BY <1>1, <1>2, <1>3

CompleteInv == SafetyInv /\ FilesFit /\ RequestsFull /\ PostedComplete

LEMMA CompleteInit == Init => CompleteInv
<1> SUFFICES ASSUME Init PROVE CompleteInv
  OBVIOUS
<1>1. FilesFit /\ RequestsFull
  BY DEF Init, OutboxInit, SendInit, FilesFit, RequestsFull, InOutbox, Unborn, Free
<1>2. PostedComplete
  BY DEF Init, SendInit, PostedComplete, IsStored
<1> QED BY <1>1, <1>2, InitSafe DEF CompleteInv

LEMMA CompleteNext ==
  ASSUME CompleteInv, [Next]_vars
  PROVE  CompleteInv'
<1>1. SafetyInv' /\ StepFacts /\ TypeInv
  BY NextSafe DEF CompleteInv, SafetyInv
<1>2. OutboxTypeOK /\ SendTypeOK /\ SessionShape
  BY <1>1 DEF TypeInv, TypeOK
<1>3. [OutboxNext]_outboxVars /\ [ServerNext]_sendVars
  BY <1>2, NextKinds, NextSplits
<1>4. FilesFit'
  BY <1>2, <1>3, DeviceFits DEF CompleteInv
<1>5. RequestsFull'
  BY <1>1, RequestsStayFull DEF CompleteInv
<1>6. PostedComplete'
  <2>1. CASE ServerNext
    BY <1>2, <2>1, CompleteStep DEF CompleteInv
  <2>2. CASE UNCHANGED sendVars
    <3>1. stored' = stored /\ attachment' = attachment
      BY <2>2 DEF sendVars
    <3> QED BY <3>1, Wholes DEF CompleteInv
  <2> QED BY <1>3, <2>1, <2>2
<1> QED BY <1>1, <1>4, <1>5, <1>6 DEF CompleteInv

\* A posted message has every file its author attached, claimed by it alone,
\* for any number of windows uploading for the same item.
THEOREM PostedWhole == Spec => []PostedComplete
<1>1. CompleteInv => PostedComplete
  BY DEF CompleteInv
<1>2. QED
  BY <1>1, CompleteInit, CompleteNext, PTL DEF Spec
-----------------------------------------------------------------------------
(* Messages are posted in the order they were written.                     *)

\* An earlier message that ought to be posted before this one is still here.
Overtakes(id, earlier) ==
  /\ InOutbox(earlier) /\ InOutbox(id)
  /\ outbox[earlier].user = outbox[id].user
  /\ outbox[earlier].createdAt < outbox[id].createdAt
  /\ {earlier, id} \cap (failed \cup discarded) = {}

NextInLine(id) == \A earlier \in Ids : ~Overtakes(id, earlier)

\* What failed for good is remembered; no stamp is ahead of the clock.
StampInv ==
  /\ \A id \in Ids : InOutbox(id) => outbox[id].createdAt <= clock
  /\ \A id \in Ids : InOutbox(id) /\ outbox[id].status = "failed" => id \in failed
  /\ editing \subseteq failed

\* Whatever a loop or a handler is working on was next in line when it was
\* picked, and nothing has been written before it since.
OrderInv ==
  /\ StampInv
  /\ \A s \in Sessions : session[s].pc # "idle" => NextInLine(session[s].id)
  /\ \A h \in Slots : handler[h].pc # "free" => NextInLine(handler[h].id)

\* An item leaves, keeps its author and stamp, or is written with a new stamp.
Stamped(id) ==
  \/ ~InOutbox(id)'
  \/ /\ InOutbox(id) /\ outbox'[id].user = outbox[id].user
     /\ outbox'[id].createdAt = outbox[id].createdAt
     /\ outbox'[id].status = "failed" => id \in failed'
  \/ /\ author[id] = NoUser \/ id \in editing
     /\ clock < clock' /\ outbox'[id].createdAt = clock' /\ outbox'[id].status = "queued"

StampStep ==
  /\ \A id \in Ids : Stamped(id)
  /\ clock' \in Nat /\ clock <= clock'
  /\ failed \subseteq failed' /\ discarded \subseteq discarded'
  /\ editing' \subseteq editing \cup failed

\* Nothing but the items changes, and those only in what is not their stamp.
Beyond == clock' = clock /\ editing' \subseteq editing \cup failed
          /\ failed \subseteq failed' /\ discarded \subseteq discarded'

LEMMA StampRewritten ==
  ASSUME OutboxTypeOK, StampInv, NEW id \in Ids, InOutbox(id), NEW item,
         item.user = outbox[id].user, item.createdAt = outbox[id].createdAt,
         item.status = "failed" => id \in failed', Beyond,
         outbox' = [outbox EXCEPT ![id] = item]
  PROVE  StampStep
<1>1. outbox'[id] = item /\ \A other \in Ids \ {id} : outbox'[other] = outbox[other]
  BY DEF OutboxTypeOK
<1>2. Stamped(id)
  BY <1>1 DEF Stamped
<1>3. \A other \in Ids \ {id} : Stamped(other)
  BY <1>1 DEF Stamped, InOutbox, StampInv, Beyond
<1> QED BY <1>2, <1>3 DEF StampStep, Beyond, OutboxTypeOK

LEMMA StampKept ==
  ASSUME OutboxTypeOK, StampInv, outbox' = outbox, Beyond
  PROVE  StampStep
<1>1. \A id \in Ids : Stamped(id)
  BY DEF Stamped, InOutbox, StampInv, Beyond
<1> QED BY <1>1 DEF StampStep, Beyond, OutboxTypeOK

LEMMA StampRemoved ==
  ASSUME OutboxTypeOK, StampInv, NEW id \in Ids, Beyond,
         outbox' = [outbox EXCEPT ![id] = NoItem]
  PROVE  StampStep
<1>1. outbox'[id] = NoItem /\ \A other \in Ids \ {id} : outbox'[other] = outbox[other]
  BY DEF OutboxTypeOK
<1>2. \A other \in Ids : Stamped(other)
  BY <1>1 DEF Stamped, InOutbox, StampInv, Beyond
<1> QED BY <1>2 DEF StampStep, Beyond, OutboxTypeOK

LEMMA UserStamps ==
  ASSUME OutboxTypeOK, SessionShape, StampInv, NEW s \in Sessions, NEW id \in Ids,
         \/ Restore(s, id) \/ Retry(s, id) \/ Discard(s, id) \/ Pick(s, id)
         \/ \E body \in Bodies : Enqueue(s, id, body) \/ Resend(s, id, body)
  PROVE  StampStep
<1>1. ASSUME NEW body \in Bodies, Enqueue(s, id, body) \/ Resend(s, id, body)
      PROVE  StampStep
  <2> DEFINE item == Fresh(session[s].user, body, clock + 1)
  <2>1. item.createdAt = clock + 1 /\ item.status = "queued"
    BY DEF Fresh
  <2>2. /\ outbox' = [outbox EXCEPT ![id] = item] /\ clock' = clock + 1
        /\ author[id] = NoUser \/ id \in editing
        /\ editing' \subseteq editing /\ failed' = failed /\ discarded' = discarded
    BY <1>1 DEF Enqueue, Resend
  <2> HIDE DEF item
  <2>3. outbox'[id] = item /\ \A other \in Ids \ {id} : outbox'[other] = outbox[other]
    BY <2>2 DEF OutboxTypeOK
  <2>4. clock \in Nat
    BY DEF OutboxTypeOK
  <2>5. Stamped(id)
    BY <2>1, <2>2, <2>3, <2>4 DEF Stamped
  <2>6. \A other \in Ids \ {id} : Stamped(other)
    BY <2>2, <2>3 DEF Stamped, InOutbox, StampInv
  <2> QED BY <2>2, <2>4, <2>5, <2>6 DEF StampStep
<1>2. CASE Restore(s, id)
  BY <1>2, StampKept DEF Restore, StampInv, Beyond
<1>3. CASE Pick(s, id)
  BY <1>3, StampKept DEF Pick, Beyond
<1>4. CASE Retry(s, id)
  <2> DEFINE item == [outbox[id] EXCEPT !.status = "queued", !.leased = FALSE,
                                        !.waiting = FALSE]
  <2>1. InOutbox(id) /\ outbox[id] \in Item /\ Beyond
    BY <1>4, Held DEF Retry, Beyond
  <2>2. /\ item.user = outbox[id].user /\ item.createdAt = outbox[id].createdAt
        /\ item.status # "failed"
    BY <2>1 DEF Item
  <2>3. outbox' = [outbox EXCEPT ![id] = item]
    BY <1>4 DEF Retry
  <2> HIDE DEF item
  <2> QED BY <2>1, <2>2, <2>3, StampRewritten
<1>5. CASE Discard(s, id)
  <2>1. outbox' = [outbox EXCEPT ![id] = NoItem] /\ Beyond
    BY <1>5 DEF Discard, Beyond
  <2> QED BY <2>1, StampRemoved
<1> QED BY <1>1, <1>2, <1>3, <1>4, <1>5

LEMMA AttemptStamps ==
  ASSUME OutboxTypeOK, SessionShape, StampInv, NEW s \in Sessions,
         Claim(s) \/ SaveUpload(s) \/ Clear(s) \/ Settle(s) \/ Renew(s)
  PROVE  StampStep
<1> DEFINE id == session[s].id
<1>1. /\ id \in Ids /\ (InOutbox(id) => outbox[id] \in Item)
  <2>1. session[s].pc \in Running
    BY DEF Claim, SaveUpload, Clear, Settle, Renew, SessionAt, Running
  <2> QED BY <2>1, LoopItem
<1>2. Beyond
  BY DEF Claim, SaveUpload, Clear, Settle, Renew, Beyond
<1>3. CASE outbox' = outbox
  BY <1>2, <1>3, StampKept
<1>4. ASSUME Claim(s), outbox' # outbox PROVE StampStep
  <2> DEFINE item == [outbox[id] EXCEPT !.status = "sending", !.owner = s, !.leased = TRUE]
  <2>1. InOutbox(id) /\ outbox' = [outbox EXCEPT ![id] = item]
    BY <1>4 DEF Claim
  <2>2. /\ item.user = outbox[id].user /\ item.createdAt = outbox[id].createdAt
        /\ item.status # "failed"
    BY <1>1, <2>1 DEF Item
  <2> HIDE DEF item
  <2> QED BY <1>1, <1>2, <2>1, <2>2, StampRewritten
<1>5. ASSUME SaveUpload(s), outbox' # outbox PROVE StampStep
  <2> DEFINE item == [outbox[id] EXCEPT !.body = session[s].body,
                        !.atts = session[s].atts, !.status = "sending"]
  <2>1. InOutbox(id) /\ outbox' = [outbox EXCEPT ![id] = item]
    BY <1>5 DEF SaveUpload, Owns
  <2>2. /\ item.user = outbox[id].user /\ item.createdAt = outbox[id].createdAt
        /\ item.status # "failed"
    BY <1>1, <2>1 DEF Item
  <2> HIDE DEF item
  <2> QED BY <1>1, <1>2, <2>1, <2>2, StampRewritten
<1>6. ASSUME Settle(s), outbox' # outbox PROVE StampStep
  <2> DEFINE status == IF session[s].retryable THEN "queued" ELSE "failed"
             item == [outbox[id] EXCEPT !.status = status, !.leased = FALSE, !.waiting = TRUE]
  <2>1. /\ InOutbox(id) /\ outbox' = [outbox EXCEPT ![id] = item]
        /\ status = "failed" => id \in failed'
    BY <1>6 DEF Settle, Owns
  <2>2. /\ item.user = outbox[id].user /\ item.createdAt = outbox[id].createdAt
        /\ item.status = status
    BY <1>1, <2>1 DEF Item
  <2> HIDE DEF item
  <2> QED BY <1>1, <1>2, <2>1, <2>2, StampRewritten
<1>7. ASSUME Renew(s) PROVE StampStep
  <2> DEFINE item == [outbox[id] EXCEPT !.leased = TRUE]
  <2>1. InOutbox(id) /\ outbox' = [outbox EXCEPT ![id] = item]
    BY <1>7 DEF Renew, Owns
  <2>2. /\ item.user = outbox[id].user /\ item.createdAt = outbox[id].createdAt
        /\ item.status = outbox[id].status
    BY <1>1, <2>1 DEF Item
  <2>3. item.status = "failed" => id \in failed'
    BY <1>1, <1>2, <2>1, <2>2 DEF StampInv, Beyond
  <2> HIDE DEF item
  <2> QED BY <1>1, <1>2, <2>1, <2>2, <2>3, StampRewritten
<1>8. Clear(s) /\ outbox' # outbox => outbox' = [outbox EXCEPT ![id] = NoItem]
  BY DEF Clear
<1> QED BY <1>1, <1>2, <1>3, <1>4, <1>5, <1>6, <1>7, <1>8, StampRemoved

LEMMA OtherStamps ==
  ASSUME OutboxTypeOK, StampInv, NEW s \in Sessions,
         \/ Poll(s) \/ CheckLimit(s) \/ ConnectionLost(s) \/ TimeOut(s) \/ Rest(s)
         \/ StorageFails(s) \/ StopSession(s) \/ GoOffline(s) \/ GoOnline(s) \/ Wake(s)
         \/ \E a \in Attachments : Uploaded(s, a)
         \/ \E retryable \in BOOLEAN : UploadFails(s, retryable)
         \/ \E h \in Slots : Emit(s, h)
         \/ \E reply \in {"none", "ok", "reject", "retry"} : Acked(s, reply)
  PROVE  StampStep
<1>1. /\ outbox' = outbox /\ clock' = clock /\ editing' = editing
      /\ failed' = failed /\ discarded' = discarded
  BY DEF Poll, CheckLimit, ConnectionLost, TimeOut, Rest, StorageFails, StopSession,
         GoOffline, GoOnline, Wake, Uploaded, UploadFails, Emit, Acked
<1> QED BY <1>1, StampKept DEF Beyond

LEMMA DisownStamps ==
  ASSUME OutboxTypeOK, StampInv, NEW s \in Sessions,
         WindowGone(s) \/ \E u \in Users : StartSession(s, u)
  PROVE  StampStep
<1>1. Disown(s) /\ Beyond
  BY DEF WindowGone, StartSession, Beyond
<1>2. ASSUME NEW id \in Ids PROVE Stamped(id)
  <2>1. CASE outbox[id].owner = s
    <3>1. outbox[id] \in Item
      BY <2>1, OutboxAssumption DEF OutboxTypeOK, NoItem
    <3>2. outbox'[id] = [outbox[id] EXCEPT !.owner = NoSession]
      BY <1>1, <2>1 DEF Disown
    <3>3. /\ outbox'[id].user = outbox[id].user /\ outbox'[id].createdAt = outbox[id].createdAt
          /\ outbox'[id].status = outbox[id].status
      BY <3>1, <3>2 DEF Item
    <3>4. InOutbox(id)
      BY <3>1, ItemReal DEF InOutbox
    <3> QED BY <1>1, <3>3, <3>4 DEF Stamped, StampInv, Beyond
  <2>2. CASE outbox[id].owner # s
    <3>1. outbox'[id] = outbox[id]
      BY <1>1, <2>2 DEF Disown
    <3> QED BY <1>1, <3>1 DEF Stamped, InOutbox, StampInv, Beyond
  <2> QED BY <2>1, <2>2
<1> QED BY <1>1, <1>2 DEF StampStep, Beyond, OutboxTypeOK

LEMMA TimeStamps ==
  ASSUME OutboxTypeOK, StampInv, NEW id \in Ids, LeaseExpires(id) \/ BackoffEnds(id)
  PROVE  StampStep
<1> DEFINE free == [outbox[id] EXCEPT !.leased = FALSE]
           ready == [outbox[id] EXCEPT !.waiting = FALSE]
<1>1. outbox[id] \in Item /\ Beyond
  BY DEF LeaseExpires, BackoffEnds, OutboxTypeOK, NoItem, Beyond
<1>2. /\ free.user = outbox[id].user /\ free.createdAt = outbox[id].createdAt
      /\ free.status = outbox[id].status
      /\ ready.user = outbox[id].user /\ ready.createdAt = outbox[id].createdAt
      /\ ready.status = outbox[id].status
  BY <1>1 DEF Item
<1>3. outbox' = [outbox EXCEPT ![id] = free] \/ outbox' = [outbox EXCEPT ![id] = ready]
  BY DEF LeaseExpires, BackoffEnds
<1>4. InOutbox(id)
  BY <1>1, ItemReal DEF InOutbox
<1>5. outbox[id].status = "failed" => id \in failed'
  BY <1>1, <1>4 DEF StampInv, Beyond
<1> HIDE DEF free, ready
<1> QED BY <1>1, <1>2, <1>3, <1>4, <1>5, StampRewritten

LEMMA DeviceStamps ==
  ASSUME OutboxTypeOK, SessionShape, StampInv, [OutboxNext]_outboxVars
  PROVE  StampStep
<1>1. CASE OutboxNext
  BY <1>1, UserStamps, AttemptStamps, OtherStamps, DisownStamps, TimeStamps
  DEF OutboxNext, DeviceStep
<1>2. CASE UNCHANGED outboxVars
  BY <1>2, StampKept DEF outboxVars, Beyond
<1> QED BY <1>1, <1>2

LEMMA StampInvStep ==
  ASSUME OutboxTypeOK, StampInv, StampStep
  PROVE  StampInv'
<1>1. clock \in Nat /\ clock' \in Nat /\ clock <= clock'
  BY DEF OutboxTypeOK, StampStep
<1>2. ASSUME NEW id \in Ids, InOutbox(id)'
      PROVE  /\ outbox'[id].createdAt <= clock'
             /\ outbox'[id].status = "failed" => id \in failed'
  <2>1. Stamped(id)
    BY DEF StampStep
  <2>2. CASE /\ InOutbox(id) /\ outbox'[id].createdAt = outbox[id].createdAt
             /\ outbox'[id].status = "failed" => id \in failed'
    <3>1. outbox[id].createdAt \in Nat /\ outbox[id].createdAt <= clock
      BY <2>2, Held DEF Item, StampInv
    <3> QED BY <1>1, <2>2, <3>1
  <2>3. CASE outbox'[id].createdAt = clock' /\ outbox'[id].status = "queued"
    BY <1>1, <2>3
  <2> QED BY <1>2, <2>1, <2>2, <2>3 DEF Stamped
<1>3. editing' \subseteq failed'
  BY DEF StampInv, StampStep
<1> QED BY <1>2, <1>3 DEF StampInv

\* An id that is in use and next in line stays so: what is written later has a
\* later stamp.
LEMMA StaysNext ==
  ASSUME OutboxTypeOK, StampInv, StampStep, NEW id \in Ids, author[id] # NoUser,
         NextInLine(id)
  PROVE  NextInLine(id)'
<1> SUFFICES ASSUME NEW earlier \in Ids, Overtakes(id, earlier)' PROVE FALSE
  BY DEF NextInLine
<1>1. /\ InOutbox(earlier)' /\ InOutbox(id)'
      /\ outbox'[earlier].user = outbox'[id].user
      /\ outbox'[earlier].createdAt < outbox'[id].createdAt
      /\ {earlier, id} \cap (failed' \cup discarded') = {}
  BY DEF Overtakes
<1>2. {earlier, id} \cap (failed \cup discarded) = {} /\ id \notin editing
  BY <1>1 DEF StampStep, StampInv
<1>3. /\ InOutbox(id) /\ outbox'[id].user = outbox[id].user
      /\ outbox'[id].createdAt = outbox[id].createdAt
  BY <1>1, <1>2 DEF StampStep, Stamped
<1>4. outbox[id].createdAt \in Nat /\ outbox[id].createdAt <= clock /\ clock \in Nat
  BY <1>3, Held DEF Item, StampInv, OutboxTypeOK
<1>5. clock' \in Nat /\ clock <= clock'
  BY DEF StampStep
<1>6. outbox'[earlier].createdAt # clock' \/ ~(clock < clock')
  BY <1>1, <1>3, <1>4, <1>5
<1>7. /\ InOutbox(earlier) /\ outbox'[earlier].user = outbox[earlier].user
      /\ outbox'[earlier].createdAt = outbox[earlier].createdAt
  BY <1>1, <1>6 DEF StampStep, Stamped
<1> QED BY <1>1, <1>2, <1>3, <1>7 DEF NextInLine, Overtakes

\* The head of the list is next in line: what is before it has failed.
LEMMA HeadIsNext ==
  ASSUME OutboxTypeOK, StampInv, NEW id \in Ids, NEW u, IsHead(id, u)
  PROVE  NextInLine(id)
<1> SUFFICES ASSUME NEW earlier \in Ids, Overtakes(id, earlier) PROVE FALSE
  BY DEF NextInLine
<1>1. InOutbox(id) /\ outbox[id].user = u
  BY DEF IsHead, PendingFor
<1>2. InOutbox(earlier) /\ outbox[earlier].user = u /\ earlier \notin failed
  BY <1>1 DEF Overtakes
<1>3. earlier \in PendingFor(u)
  BY <1>2 DEF PendingFor, StampInv
<1>4. outbox[id].createdAt \in Nat /\ outbox[earlier].createdAt \in Nat
  BY <1>1, <1>2, Held DEF Item
<1> QED BY <1>3, <1>4 DEF IsHead, Overtakes

InOrderInv == SafetyInv /\ OrderInv

LEMMA OrderInit == Init => InOrderInv
<1> SUFFICES ASSUME Init PROVE InOrderInv
  OBVIOUS
<1>1. OrderInv
  BY DEF Init, OutboxInit, SendInit, OrderInv, StampInv, InOutbox, Unborn, Free
<1> QED BY <1>1, InitSafe DEF InOrderInv

LEMMA OrderNext ==
  ASSUME InOrderInv, [Next]_vars
  PROVE  InOrderInv'
<1>1. SafetyInv' /\ StepFacts /\ SafetyInv /\ TypeInv /\ AuthorInv
  BY NextSafe DEF InOrderInv, SafetyInv
<1>2. OutboxTypeOK /\ SendTypeOK /\ SessionShape /\ StampInv
  BY <1>1 DEF TypeInv, TypeOK, InOrderInv, OrderInv
<1>3. [OutboxNext]_outboxVars
  BY <1>2, NextKinds, NextSplits
<1>4. StampStep /\ StampInv'
  BY <1>2, <1>3, DeviceStamps, StampInvStep
<1>5. ASSUME NEW id \in Ids, NextInLine(id),
             \/ \E s \in Sessions : session[s].pc # "idle" /\ session[s].id = id
             \/ \E h \in Slots : handler[h].pc # "free" /\ handler[h].id = id
      PROVE  NextInLine(id)'
  <2>1. author[id] # NoUser
    BY <1>1, <1>5, Loops, Requests, SendAssumption DEF AuthorInv
  <2> QED BY <1>2, <1>4, <1>5, <2>1, StaysNext
<1>6. ASSUME NEW s \in Sessions, NEW id, session'[s].pc # "idle", session'[s].id = id
      PROVE  NextInLine(id)'
  <2>1. CASE session[s].id = id /\ session[s].pc # "idle"
    <3>1. id \in Ids /\ NextInLine(id)
      BY <1>1, <2>1, Loops DEF InOrderInv, OrderInv
    <3> QED BY <1>5, <2>1, <3>1
  <2>2. ASSUME NEW head \in Ids, Pick(s, head) PROVE NextInLine(id)'
    <3>1. /\ id = head /\ IsHead(head, session[s].user) /\ outbox' = outbox
          /\ failed' = failed /\ discarded' = discarded
      BY <1>2, <1>6, <2>2 DEF Pick, OutboxTypeOK, SessionState
    <3>2. NextInLine(id)
      BY <1>2, <3>1, HeadIsNext
    <3> QED BY <3>1, <3>2 DEF NextInLine, Overtakes, InOutbox
  <2>3. ASSUME NEW h \in Slots, Send(s, h)
        PROVE  session'[s].id = session[s].id /\ session[s].pc # "idle"
    BY <1>2, <2>3 DEF Send, Emit, SessionAt, OutboxTypeOK, SessionState
  <2>4. ASSUME Ack(s), handler[session[s].call].reply = "ok"
        PROVE  session'[s].id = session[s].id /\ session[s].pc # "idle"
    BY <1>2, <2>4 DEF Ack, Acked, SessionAt, OutboxTypeOK, SessionState
  <2>5. Follows(session[s], session'[s])
          => session'[s].id = session[s].id /\ session[s].pc # "idle"
    BY <1>6 DEF Follows
  <2>6. LoopFacts(s)
    BY <1>1 DEF StepFacts
  <2> QED BY <1>6, <2>1, <2>2, <2>3, <2>4, <2>5, <2>6 DEF LoopFacts, LoopMoves
<1>7. ASSUME NEW h \in Slots, NEW id, handler'[h].pc # "free", handler'[h].id = id
      PROVE  NextInLine(id)'
  <2>1. CASE SlotKept(h)
    <3>1. handler[h].pc # "free" /\ handler[h].id = id
      BY <1>7, <2>1 DEF SlotKept, Free
    <3>2. id \in Ids /\ NextInLine(id)
      BY <1>1, <3>1, Requests DEF InOrderInv, OrderInv
    <3> QED BY <1>5, <3>1, <3>2
  <2>2. ASSUME NEW s \in Sessions, Send(s, h) PROVE NextInLine(id)'
    <3>1. session[s].id = id /\ session[s].pc # "idle"
      BY <1>2, <1>7, <2>2 DEF Send, Emit, SessionAt, Receive, Payload, SendTypeOK
    <3>2. id \in Ids /\ NextInLine(id)
      BY <1>1, <3>1, Loops DEF InOrderInv, OrderInv
    <3> QED BY <1>5, <3>1, <3>2
  <2> QED BY <1>1, <2>1, <2>2 DEF StepFacts, SlotMoves
<1>8. OrderInv'
  <2>1. ASSUME NEW s \in Sessions, session'[s].pc # "idle" PROVE NextInLine(session[s].id)'
    BY <1>6, <2>1 DEF NextInLine, Overtakes
  <2>2. ASSUME NEW h \in Slots, handler'[h].pc # "free" PROVE NextInLine(handler[h].id)'
    BY <1>7, <2>2 DEF NextInLine, Overtakes
  <2> QED BY <1>4, <2>1, <2>2 DEF OrderInv
<1> QED BY <1>1, <1>8 DEF InOrderInv

\* One author's messages are posted in the order they were written, for any
\* number of windows, messages, retries and faults.
THEOREM InOrder == Spec => PostedInOrder
<1>1. ASSUME InOrderInv, [Next]_vars, NEW later \in Ids, NEW earlier \in Ids,
             ~IsStored(later), IsStored(later)',
             InOutbox(earlier), InOutbox(later),
             outbox[earlier].user = outbox[later].user,
             outbox[earlier].createdAt < outbox[later].createdAt,
             {earlier, later} \cap (failed \cup discarded) = {}
      PROVE  FALSE
  <2>1. OutboxTypeOK /\ SendTypeOK /\ SessionShape
    BY <1>1 DEF InOrderInv, SafetyInv, TypeInv, TypeOK
  <2>2. [ServerNext]_sendVars
    BY <1>1, <2>1, NextKinds, NextSplits
  <2>3. PICK h \in Slots : Insert(h) /\ ~IsStored(handler[h].id) /\ Goto(h, "deliver")
    BY <1>1, <2>1, <2>2, StoredBy DEF IsStored, sendVars
  <2>4. handler[h].id = later /\ handler[h].pc # "free"
    BY <1>1, <2>1, <2>3 DEF Insert, At, IsStored, SendTypeOK
  <2>5. NextInLine(later)
    BY <1>1, <2>4 DEF InOrderInv, OrderInv
  <2> QED BY <1>1, <2>5 DEF NextInLine, Overtakes
<1>2. InOrderInv /\ [Next]_vars =>
        [\A later, earlier \in Ids :
           /\ ~IsStored(later) /\ IsStored(later)'
           /\ InOutbox(earlier) /\ InOutbox(later)
           /\ outbox[earlier].user = outbox[later].user
           /\ outbox[earlier].createdAt < outbox[later].createdAt
           /\ {earlier, later} \cap (failed \cup discarded) = {}
           => IsStored(earlier)]_vars
  BY <1>1
<1>3. QED
  BY <1>2, OrderInit, OrderNext, PTL DEF Spec, PostedInOrder
=============================================================================
