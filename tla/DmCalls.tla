-------------------------------- MODULE DmCalls --------------------------------
(***************************************************************************)
(* Direct and group calls (voice/dm-calls.service.ts and its gateway).     *)
(*                                                                         *)
(* A call lives in memory: the sockets that joined, the users it rings and *)
(* the members it tells.  Handlers run synchronously except where they     *)
(* await the database: every read there is a step, and so is what the      *)
(* handler does once the answer is back.  A membership change commits      *)
(* first and is announced to the calls by an event of its own.             *)
(* A socket that disconnects never returns; a reconnect is another one.    *)
(***************************************************************************)
EXTENDS Naturals, FiniteSets

CONSTANTS
  Users, Conversations, Sockets,
  UserOf,       \* the account behind each socket
  Groups,       \* who may be in a conversation at first (bound)
  CallIds,      \* calls that can be started (bound)
  Slots,        \* requests that can be in progress at once (bound)
  MaxChanges,   \* members added or leaving (bound)
  NoCall, NoConversation

ASSUME CallsAssumption ==
  /\ UserOf \in [Sockets -> Users]
  /\ Sockets # {} /\ IsFiniteSet(Sockets)
  /\ Groups \subseteq SUBSET Users \ {{}}
  /\ MaxChanges \in Nat
  /\ NoCall \notin CallIds /\ NoConversation \notin Conversations

VARIABLES
  call,       \* sessions, by id
  connected,  \* sockets that are up
  request,    \* requests in progress
  member,     \* direct_conversation_members
  announced,  \* dm:members-changed events not yet emitted
  changes

vars == <<call, connected, request, member, announced, changes>>

-----------------------------------------------------------------------------
Call == [status : {"unused", "live", "ended"},
         conversation : Conversations \cup {NoConversation},
         members : SUBSET Users, ringing : SUBSET Users,
         sockets : SUBSET Sockets, caller : Users, deadline : BOOLEAN]

Unused == [status |-> "unused", conversation |-> NoConversation, members |-> {},
           ringing |-> {}, sockets |-> {}, caller |-> CHOOSE u \in Users : TRUE,
           deadline |-> FALSE]

Operations == {"start", "accept", "decline", "leave"}

Request == [pc : {"free", "check", "members"} \cup Operations,
            operation : Operations, socket : Sockets,
            conversation : Conversations \cup {NoConversation},
            id : CallIds \cup {NoCall}, members : SUBSET Users]

Free == [pc |-> "free", operation |-> "start", socket |-> CHOOSE s \in Sockets : TRUE,
         conversation |-> NoConversation, id |-> NoCall, members |-> {}]

Event == [conversation : Conversations, users : SUBSET Users,
          removed : SUBSET Users]

TypeOK ==
  /\ call \in [CallIds -> Call]
  /\ connected \subseteq Sockets
  /\ request \in [Slots -> Request]
  /\ member \in [Conversations -> SUBSET Users]
  /\ announced \subseteq Event
  /\ changes \in 0..MaxChanges

Init ==
  /\ call = [c \in CallIds |-> Unused]
  /\ connected = Sockets
  /\ request = [h \in Slots |-> Free]
  /\ member \in [Conversations -> Groups]
  /\ announced = {}
  /\ changes = 0

-----------------------------------------------------------------------------
Live(c) == call[c].status = "live"
Participants(c) == {UserOf[s] : s \in call[c].sockets}

Busy(u, except) == \E c \in CallIds \ {except} : Live(c) /\ u \in Participants(c)

\* The session is dropped; only handlers that hold it still know it.
Ended == [Unused EXCEPT !.status = "ended"]

\* Mutant: only the last participant ends a call.
UnlessEmpty(session) == IF session.sockets = {} THEN Ended ELSE session

\* A call nobody is in, or one person who rings nobody, ends.
UnlessAlone(session) ==
  IF \/ session.sockets = {}
     \/ Cardinality(session.sockets) < 2 /\ session.ringing = {}
  THEN Ended ELSE session

\* removeSocket: a call also ends when its caller has gone and one is left.
WithoutSocket(session, s) ==
  LET rest == [session EXCEPT !.sockets = @ \ {s}] IN
  IF /\ Cardinality(rest.sockets) < 2
     /\ \A other \in rest.sockets : UserOf[other] # rest.caller
  THEN Ended ELSE UnlessAlone(rest)

\* leaveSocket
SocketRemoved(sessions, s) ==
  [c \in CallIds |->
     IF sessions[c].status = "live" /\ s \in sessions[c].sockets
     THEN WithoutSocket(sessions[c], s) ELSE sessions[c]]

\* Mutant: the gateway does not look at the connection after the await.
KeepSocket(sessions, s) == sessions

\* The gateway's check once a start or an accept is through.
IfConnected(sessions, s) ==
  IF s \in connected THEN sessions ELSE SocketRemoved(sessions, s)

-----------------------------------------------------------------------------
(* Requests.                                                               *)

Receive(h, s, what) ==
  /\ request[h] = Free /\ s \in connected
  /\ request' = [request EXCEPT ![h] = what]
  /\ UNCHANGED <<call, connected, member, announced, changes>>

AskStart(h, s, v) ==
  Receive(h, s, [Free EXCEPT !.pc = "check", !.operation = "start", !.socket = s,
                             !.conversation = v])

\* requireMember finds the call before it awaits the membership.
Ask(h, s, c, operation) ==
  /\ Live(c)
  /\ Receive(h, s, [Free EXCEPT !.pc = "check", !.operation = operation,
                     !.socket = s, !.conversation = call[c].conversation, !.id = c])

Asking(h) == UserOf[request[h].socket]

\* Mutant: an answered request is kept.
AnswerKept(h) == request' = [request EXCEPT ![h].pc = "answered"]

Answer(h) == request' = [request EXCEPT ![h] = Free]

\* requireMembership reads the database.
CheckMembership(h) ==
  /\ request[h].pc = "check"
  /\ IF Asking(h) \notin member[request[h].conversation] THEN Answer(h)
     ELSE request' = [request EXCEPT ![h].pc =
            IF request[h].operation = "start" THEN "members" ELSE request[h].operation]
  /\ UNCHANGED <<call, connected, member, announced, changes>>

ReadMembers(h) ==
  /\ request[h].pc = "members"
  /\ request' = [request EXCEPT ![h].pc = "start",
                                ![h].members = member[request[h].conversation]]
  /\ UNCHANGED <<call, connected, member, announced, changes>>

\* Mutant: the conversation was found free before the membership was read.
FreeBefore(v) == TRUE

FreeConversation(v) == \A c \in CallIds : Live(c) => call[c].conversation # v

\* Muted members are not rung.
Start(h, c, ringing) ==
  LET u == Asking(h)
      s == request[h].socket
      v == request[h].conversation
      members == request[h].members
      session == [status |-> "live", conversation |-> v, members |-> members,
                  ringing |-> ringing, sockets |-> {s}, caller |-> u,
                  deadline |-> FALSE]
  IN
  /\ request[h].pc = "start"
  /\ u \in members /\ Cardinality(members) >= 2
  /\ FreeConversation(v) /\ ~Busy(u, NoCall)
  /\ call[c] = Unused /\ ringing \subseteq members \ {u}
  /\ call' = IfConnected([call EXCEPT ![c] = session], s)
  /\ Answer(h)
  /\ UNCHANGED <<connected, member, announced, changes>>

RefuseStart(h) ==
  LET u == Asking(h) IN
  /\ request[h].pc = "start"
  /\ \/ u \notin request[h].members \/ Cardinality(request[h].members) < 2
     \/ ~FreeConversation(request[h].conversation) \/ Busy(u, NoCall)
  /\ Answer(h)
  /\ UNCHANGED <<call, connected, member, announced, changes>>

\* Mutant: the call is not looked up again after the await.
AnyCall(c) == TRUE

\* The second look of requireMember.
StillLive(c) == Live(c)

\* Mutant: another device of the user may join too.
MayJoinTwice(c, s) == ~Busy(UserOf[s], c)

MayJoin(c, s) ==
  /\ ~Busy(UserOf[s], c)
  /\ \A other \in call[c].sockets \ {s} : UserOf[other] # UserOf[s]

Accept(h) ==
  LET c == request[h].id
      s == request[h].socket
  IN
  /\ request[h].pc = "accept" /\ StillLive(c) /\ MayJoin(c, s)
  /\ call' = IfConnected([call EXCEPT ![c].sockets = @ \cup {s},
                                      ![c].ringing = @ \ {UserOf[s]}], s)
  /\ Answer(h)
  /\ UNCHANGED <<connected, member, announced, changes>>

Decline(h) ==
  LET c == request[h].id
      quiet == [call[c] EXCEPT !.ringing = @ \ {Asking(h)}]
  IN
  /\ request[h].pc = "decline" /\ StillLive(c)
  /\ call' = [call EXCEPT ![c] = UnlessAlone(quiet)]
  /\ Answer(h)
  /\ UNCHANGED <<connected, member, announced, changes>>

Leave(h) ==
  LET c == request[h].id
      s == request[h].socket
  IN
  /\ request[h].pc = "leave" /\ StillLive(c) /\ s \in call[c].sockets
  /\ call' = [call EXCEPT ![c] = WithoutSocket(@, s)]
  /\ Answer(h)
  /\ UNCHANGED <<connected, member, announced, changes>>

\* The call has ended meanwhile, or this device may not do it.
Refuse(h) ==
  LET c == request[h].id
      s == request[h].socket
  IN
  /\ \/ request[h].pc \in {"accept", "decline", "leave"} /\ ~StillLive(c)
     \/ request[h].pc = "accept" /\ ~MayJoin(c, s)
     \/ request[h].pc = "leave" /\ s \notin call[c].sockets
  /\ Answer(h)
  /\ UNCHANGED <<call, connected, member, announced, changes>>

-----------------------------------------------------------------------------
(* What happens to a call from outside.                                    *)

Disconnect(s) ==
  /\ s \in connected
  /\ connected' = connected \ {s}
  /\ call' = SocketRemoved(call, s)
  /\ UNCHANGED <<request, member, announced, changes>>

\* Thirty seconds after the start.
Deadline(c) ==
  /\ Live(c) /\ ~call[c].deadline
  /\ call' = [call EXCEPT ![c] =
       IF Cardinality(@.sockets) < 2 THEN Ended
       ELSE [@ EXCEPT !.ringing = {}, !.deadline = TRUE]]
  /\ UNCHANGED <<connected, request, member, announced, changes>>

\* leaveGroup and addGroupMembers commit; the event follows.
LeaveGroup(v, u) ==
  /\ changes < MaxChanges /\ changes' = changes + 1
  /\ u \in member[v]
  /\ member' = [member EXCEPT ![v] = @ \ {u}]
  /\ announced' = announced \cup
       {[conversation |-> v, users |-> member[v] \ {u}, removed |-> {u}]}
  /\ UNCHANGED <<call, connected, request>>

AddMember(v, u) ==
  /\ changes < MaxChanges /\ changes' = changes + 1
  /\ u \notin member[v] /\ member[v] # {}
  /\ member' = [member EXCEPT ![v] = @ \cup {u}]
  /\ announced' = announced \cup
       {[conversation |-> v, users |-> member[v] \cup {u}, removed |-> {}]}
  /\ UNCHANGED <<call, connected, request>>

MembersChanged(e) ==
  /\ e \in announced
  /\ announced' = announced \ {e}
  /\ call' = [c \in CallIds |->
       IF Live(c) /\ call[c].conversation = e.conversation
       THEN UnlessAlone([call[c] EXCEPT !.members = e.users,
              !.ringing = @ \cap e.users,
              !.sockets = {s \in @ : UserOf[s] \notin e.removed}])
       ELSE call[c]]
  /\ UNCHANGED <<connected, request, member, changes>>

-----------------------------------------------------------------------------
Handle(h) ==
  \/ CheckMembership(h) \/ ReadMembers(h)
  \/ \E c \in CallIds, ringing \in SUBSET Users : Start(h, c, ringing)
  \/ RefuseStart(h) \/ Accept(h) \/ Decline(h) \/ Leave(h) \/ Refuse(h)

Next ==
  \/ \E h \in Slots : Handle(h)
  \/ \E h \in Slots, s \in Sockets :
        \/ \E v \in Conversations : AskStart(h, s, v)
        \/ \E c \in CallIds : \E operation \in Operations \ {"start"} :
              Ask(h, s, c, operation)
  \/ \E s \in Sockets : Disconnect(s)
  \/ \E c \in CallIds : Deadline(c)
  \/ \E v \in Conversations, u \in Users : LeaveGroup(v, u) \/ AddMember(v, u)
  \/ \E e \in announced : MembersChanged(e)

Spec == Init /\ [][Next]_vars

-----------------------------------------------------------------------------
(* Properties.                                                             *)

\* Two members who start a call at the same moment get one call.
OneCallPerConversation ==
  \A c, d \in CallIds :
    Live(c) /\ Live(d) /\ call[c].conversation = call[d].conversation => c = d

\* A user is in one call at a time, with one device, whatever requests of
\* several devices overlap.
OneDevicePerUser ==
  \A c, d \in CallIds : \A s \in call[c].sockets, t \in call[d].sockets :
    Live(c) /\ Live(d) /\ UserOf[s] = UserOf[t] => c = d /\ s = t

\* Only connected sockets are in a call: one that drops while its request to
\* start or to accept awaits the database is removed as well.
ParticipantsConnected ==
  \A c \in CallIds : Live(c) => call[c].sockets # {} /\ call[c].sockets \subseteq connected

\* Once ringing is over nobody sits in a call alone.
NobodyLeftAlone ==
  \A c \in CallIds : Live(c) /\ call[c].deadline => Cardinality(call[c].sockets) >= 2

\* A call that has ended is not touched again by a handler that found it alive.
EndedStaysEnded ==
  [][\A c \in CallIds : call[c].status = "ended" => call'[c] = call[c]]_vars

\* docs/CONVERSATIONS.md: "Leaving requires confirmation and removes access to
\* messages, attachments and calls."
NoCallAfterLeaving ==
  \A c \in CallIds :
    Live(c) /\ (\A e \in announced : e.conversation # call[c].conversation)
      => Participants(c) \subseteq member[call[c].conversation]
=============================================================================
