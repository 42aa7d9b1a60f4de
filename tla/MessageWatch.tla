----------------------------- MODULE MessageWatch -----------------------------
(***************************************************************************)
(* What one device of a member hears of the channels of a server: full     *)
(* messages of the channel it shows, short hints of the others, nothing of *)
(* the channels it may not see (message-subscriptions.ts, watchMessages    *)
(* and reconcileChannelRooms of gateway.gateway.ts).                       *)
(*                                                                         *)
(* The handlers of the device and the changes of its permissions work on   *)
(* the same rooms of its socket, each over several awaits; an await on a   *)
(* room takes effect when it ends.  The socket is past its connection and  *)
(* takes short hints.  Direct conversations use the same code with         *)
(* membership in place of permission.                                      *)
(***************************************************************************)
EXTENDS Naturals, Sequences, FiniteSets

CONSTANTS
  Contexts,    \* channels
  NoContext,   \* the device shows none
  MaxWatches,  \* channel:watch calls (bound)
  MaxChanges   \* changes of permission and of roles (bound)

ASSUME WatchAssumption ==
  /\ NoContext \notin Contexts
  /\ MaxWatches \in Nat /\ MaxChanges \in Nat

Watches == 1..MaxWatches
Changed == 1..MaxChanges

VARIABLES
  access,     \* channels the member may see, in the database
  base, background, full, \* channels whose room of each kind the socket is in
  sequence,   \* channelWatchSequence
  asked,      \* channelPendingWatch
  watch,      \* channelWatch
  order,      \* each watch call
  updates,    \* messageWatchQueues: calls whose update is not done
  reconciling,\* each change of permission and its reconcileChannelRooms, if any
  joining,    \* channel:join calls whose check has passed
  granted,    \* history: the channel of the last call, once answered ok, until left;
              \* of a call answered while changes crossed, until the next change
  crossed, \* history: since the last reconciliation began a change met one, or a
           \* channel:join, under way
  silent   \* history: channels whose permission changed since a reconciliation read it

watchVars == <<access, base, background, full, sequence, asked, watch, order, updates,
               reconciling, joining, granted, crossed, silent>>

-----------------------------------------------------------------------------
Maybe == Contexts \cup {NoContext}

NoOrder == [stage |-> "new", id |-> NoContext, seq |-> 0, previous |-> NoContext]
NoWork == [stage |-> "new", seen |-> {}, todo |-> {}, at |-> NoContext, step |-> "next"]

WatchTypeOK ==
  /\ access \subseteq Contexts /\ base \subseteq Contexts
  /\ background \subseteq Contexts /\ full \subseteq Contexts
  /\ sequence \in Nat /\ asked \in Maybe /\ watch \in Maybe
  /\ order \in [Watches -> [stage : {"new", "checking", "waiting", "leaving", "joining",
                                     "undoing", "done"},
                            id : Maybe, seq : Nat, previous : Maybe]]
  /\ updates \in Seq(Watches)
  /\ reconciling \in [Changed -> [stage : {"new", "reading", "working", "over", "silent"},
                                  seen : SUBSET Contexts, todo : SUBSET Contexts,
                                  at : Maybe, step : {"next", "full", "background", "base"}]]
  /\ joining \subseteq Contexts /\ granted \in Maybe
  /\ crossed \in BOOLEAN /\ silent \subseteq Contexts

WatchInit ==
  /\ access = Contexts
  /\ base = access /\ background = access /\ full = {}
  /\ sequence = 0 /\ asked = NoContext /\ watch = NoContext
  /\ order = [i \in Watches |-> NoOrder]
  /\ updates = <<>>
  /\ reconciling = [k \in Changed |-> NoWork]
  /\ joining = {} /\ granted = NoContext
  /\ crossed = FALSE /\ silent = {}

-----------------------------------------------------------------------------
(* watchMessages                                                           *)

First(used) == CHOOSE i \in used : \A j \in used : i <= j

\* The device shows another channel, or none.
Watch(c) ==
  LET fresh == {i \in Watches : order[i].stage = "new"} IN
  /\ fresh # {}
  /\ sequence' = sequence + 1 /\ asked' = c /\ granted' = NoContext
  /\ order' = [order EXCEPT ![First(fresh)] =
                 [NoOrder EXCEPT !.id = c, !.seq = sequence + 1,
                                 !.stage = IF c = NoContext THEN "waiting" ELSE "checking"]]
  /\ updates' = IF c = NoContext THEN Append(updates, First(fresh)) ELSE updates
  /\ UNCHANGED <<access, base, background, full, watch, reconciling, joining, crossed, silent>>

\* Its permission is read: the update is queued, or the call is refused.
Checked(i) ==
  /\ order[i].stage = "checking"
  /\ \/ /\ order[i].id \in access
        /\ order' = [order EXCEPT ![i].stage = "waiting"]
        /\ updates' = Append(updates, i)
     \/ /\ order[i].id \notin access
        /\ order' = [order EXCEPT ![i] = [NoOrder EXCEPT !.stage = "done"]]
        /\ UNCHANGED updates
  /\ UNCHANGED <<access, base, background, full, sequence, asked, watch, reconciling,
                 joining, granted, crossed, silent>>

\* A later call, or a leave of the channel, has moved the sequence on.
OutOfDate(i) == order[i].seq # sequence

Goes(i, stage) ==
  /\ order' = [order EXCEPT ![i] = IF stage = "done" THEN [NoOrder EXCEPT !.stage = stage]
                                   ELSE [@ EXCEPT !.stage = stage]]
  /\ updates' = IF stage = "done" THEN Tail(updates) ELSE updates

\* The update has its turn.
BeginUpdate(i) ==
  /\ updates # <<>> /\ Head(updates) = i /\ order[i].stage = "waiting"
  /\ \/ /\ OutOfDate(i) \/ order[i].id \notin base \cup {NoContext}
        /\ Goes(i, "done")
     \/ /\ ~OutOfDate(i) /\ order[i].id \in base \cup {NoContext} /\ watch # NoContext
        /\ order' = [order EXCEPT ![i].stage = "leaving", ![i].previous = watch]
        /\ UNCHANGED updates
     \/ /\ ~OutOfDate(i) /\ order[i].id \in base /\ watch = NoContext
        /\ Goes(i, "joining")
     \/ /\ ~OutOfDate(i) /\ order[i].id = NoContext /\ watch = NoContext
        /\ Goes(i, "done")
  /\ UNCHANGED <<access, base, background, full, sequence, asked, watch, reconciling,
                 joining, granted, crossed, silent>>

\* The full room of the previous channel is left.
LeftPrevious(i) ==
  /\ order[i].stage = "leaving"
  /\ full' = full \ {order[i].previous}
  /\ \/ /\ OutOfDate(i)
        /\ Goes(i, "done") /\ UNCHANGED watch
     \/ /\ ~OutOfDate(i) /\ order[i].id # NoContext
        /\ Goes(i, "joining") /\ UNCHANGED watch
     \/ /\ ~OutOfDate(i) /\ order[i].id = NoContext
        /\ Goes(i, "done") /\ watch' = NoContext
  /\ UNCHANGED <<access, base, background, sequence, asked, reconciling, joining, granted,
                 crossed, silent>>

\* The full room of the channel is joined; a call that is out of date undoes it.
JoinedFull(i) ==
  /\ order[i].stage = "joining"
  /\ full' = full \cup {order[i].id}
  /\ \/ /\ OutOfDate(i)
        /\ Goes(i, "undoing") /\ UNCHANGED <<watch, granted>>
     \/ /\ ~OutOfDate(i)
        /\ Goes(i, "done")
        /\ watch' = order[i].id /\ granted' = order[i].id
  /\ UNCHANGED <<access, base, background, sequence, asked, reconciling, joining, crossed,
                 silent>>

Undone(i) ==
  /\ order[i].stage = "undoing"
  /\ full' = full \ {order[i].id}
  /\ Goes(i, "done")
  /\ UNCHANGED <<access, base, background, sequence, asked, watch, reconciling, joining,
                 granted, crossed, silent>>

-----------------------------------------------------------------------------
(* channel:join                                                            *)

CheckJoin(c) ==
  /\ c \in access \ joining
  /\ joining' = joining \cup {c}
  /\ UNCHANGED <<access, base, background, full, sequence, asked, watch, order, updates,
                 reconciling, granted, crossed, silent>>

\* joinMessageContext: both rooms in one call
Join(c) ==
  /\ base' = base \cup {c}
  /\ background' = background \cup {c}

Joins(c) ==
  /\ c \in joining
  /\ joining' = joining \ {c}
  /\ Join(c)
  /\ UNCHANGED <<access, full, sequence, asked, watch, order, updates, reconciling, granted,
                 crossed, silent>>

-----------------------------------------------------------------------------
(* Permissions                                                             *)

Reconciles(k) == reconciling[k].stage \in {"reading", "working"}

\* The permissions of a channel or the roles of the member change, and a reconciliation
\* of the rooms begins.
ChangeAccess ==
  LET fresh == {k \in Changed : reconciling[k].stage = "new"} IN
  /\ fresh # {}
  /\ crossed' = (joining # {} \/ \E k \in Changed : Reconciles(k))
  /\ reconciling' = [reconciling EXCEPT ![First(fresh)].stage = "reading"]
  /\ access' \in SUBSET Contexts \ {access}
  /\ granted' = IF crossed THEN NoContext ELSE granted
  /\ UNCHANGED <<base, background, full, sequence, asked, watch, order, updates, joining, silent>>

\* Channels the member may see in one of the two only.
Differ(one, other) == (one \ other) \cup (other \ one)

\* A role is edited: its permissions change and nothing looks at the rooms.  So it is
\* with a change whose listener failed at an earlier member, or at its read.
RoleChanges ==
  LET fresh == {k \in Changed : reconciling[k].stage = "new"} IN
  /\ fresh # {}
  /\ reconciling' = [reconciling EXCEPT ![First(fresh)].stage = "silent"]
  /\ access' \in SUBSET Contexts \ {access}
  /\ silent' = silent \cup Differ(access, access')
  /\ crossed' = (crossed \/ joining # {} \/ \E k \in Changed : Reconciles(k))
  /\ UNCHANGED <<base, background, full, sequence, asked, watch, order, updates,
                 joining, granted>>

\* reconcileChannelRooms reads what the member may see; what follows uses that.
ReadVisible(k) ==
  /\ reconciling[k].stage = "reading"
  /\ reconciling' = [reconciling EXCEPT ![k].stage = "working", ![k].seen = access,
                                        ![k].todo = Contexts]
  /\ silent' = {}
  /\ UNCHANGED <<access, base, background, full, sequence, asked, watch, order, updates,
                 joining, granted, crossed>>

JoinNext(k, c) ==
  /\ reconciling[k].step = "next" /\ c \in reconciling[k].todo \cap reconciling[k].seen
  /\ reconciling' = [reconciling EXCEPT ![k].todo = @ \ {c}]
  /\ Join(c)
  /\ UNCHANGED <<access, full, sequence, asked, watch, order, updates, joining, granted,
                 crossed, silent>>

\* Mutant: a leave does not reach the calls under way.
NotFenced(c) == sequence

\* A leave of the channel that was asked for last supersedes the call.
Fenced(c) == IF asked = c THEN sequence + 1 ELSE sequence

\* leaveMessageContext, before its first await
LeaveNext(k, c) ==
  /\ reconciling[k].step = "next" /\ c \in reconciling[k].todo \ reconciling[k].seen
  /\ reconciling' = [reconciling EXCEPT ![k].todo = @ \ {c}, ![k].at = c, ![k].step = "full"]
  /\ sequence' = Fenced(c)
  /\ watch' = IF watch = c THEN NoContext ELSE watch
  /\ granted' = IF granted = c THEN NoContext ELSE granted
  /\ UNCHANGED <<access, base, background, full, asked, order, updates, joining, crossed, silent>>

\* and its awaits, one room after the other
Leaves(k) == LET c == reconciling[k].at IN
  /\ \/ /\ reconciling[k].step = "full"
        /\ full' = full \ {c}
        /\ reconciling' = [reconciling EXCEPT ![k].step = "background"]
        /\ UNCHANGED <<background, base>>
     \/ /\ reconciling[k].step = "background"
        /\ background' = background \ {c}
        /\ reconciling' = [reconciling EXCEPT ![k].step = "base"]
        /\ UNCHANGED <<full, base>>
     \/ /\ reconciling[k].step = "base"
        /\ base' = base \ {c}
        /\ reconciling' = [reconciling EXCEPT ![k].step = "next", ![k].at = NoContext]
        /\ UNCHANGED <<full, background>>
  /\ UNCHANGED <<access, sequence, asked, watch, order, updates, joining, granted, crossed,
                 silent>>

\* All channels are done; the device is asked to send its watch again.
Reconciled(k) ==
  /\ reconciling[k].stage = "working" /\ reconciling[k].todo = {}
  /\ reconciling[k].step = "next"
  /\ reconciling' = [reconciling EXCEPT ![k] = [NoWork EXCEPT !.stage = "over"]]
  /\ UNCHANGED <<access, base, background, full, sequence, asked, watch, order, updates,
                 joining, granted, crossed, silent>>

WatchNext ==
  \/ \E c \in Maybe : Watch(c)
  \/ \E i \in Watches : Checked(i) \/ BeginUpdate(i) \/ LeftPrevious(i) \/ JoinedFull(i) \/ Undone(i)
  \/ \E c \in Contexts : CheckJoin(c) \/ Joins(c)
  \/ ChangeAccess \/ RoleChanges
  \/ \E k \in Changed :
       \/ ReadVisible(k) \/ Leaves(k) \/ Reconciled(k)
       \/ \E c \in Contexts : JoinNext(k, c) \/ LeaveNext(k, c)

WatchSpec == WatchInit /\ [][WatchNext]_watchVars

-----------------------------------------------------------------------------
(* Properties                                                              *)

WatchesDone ==
  /\ \A i \in Watches : order[i].stage \in {"new", "done"}
  /\ \A k \in Changed : ~Reconciles(k)
  /\ joining = {}

\* When the handlers and reconciliations are done, a device is in the full room of
\* one channel at most, one its member may see; and, if no permission change met a
\* reconciliation or a channel:join under way, it hears of each channel it may see,
\* once, and in full of the one it asked for last, whatever calls and revocations
\* crossed (message-subscriptions.ts:38-51, gateway.gateway.ts:1571-1605).  Not so for
\* channels whose permission changed and no reconciliation came: an edited role leaves
\* a device where it is, in the full room of a channel it may no longer see too
\* (roles.service.ts:137-151, gateway-event-listeners.ts:541-543).
RoomsSettle ==
  WatchesDone =>
    /\ full \subseteq access \cup silent /\ Cardinality(full) <= 1
    /\ ~crossed =>
         /\ base \ silent = access \ silent /\ background \ silent = access \ silent
         /\ granted # NoContext => full = {granted}
=============================================================================
