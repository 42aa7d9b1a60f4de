---------------------------- MODULE DmCallsProofs ----------------------------
(***************************************************************************)
(* Calls are safe for any number of users, devices, requests and calls.    *)
(*                                                                         *)
(* The invariant is stated of a table of sessions and a set of sockets, so *)
(* that it can be claimed of the table in the middle of a handler: when a  *)
(* request is through, before the gateway looks at its connection.         *)
(***************************************************************************)
EXTENDS DmCalls, FiniteSetTheorems, TLAPS

\* What holds of one session.  Ringing must be over after the deadline: a call
\* with one participant is then ended by whatever removed the others.
Sound(session, up) ==
  session.status = "live" =>
    /\ session.conversation \in Conversations
    /\ session.sockets # {}
    /\ session.sockets \subseteq up
    /\ session.deadline => /\ session.ringing = {}
                           /\ Cardinality(session.sockets) >= 2

\* What holds of two.
Apart(sessions) ==
  \A c, d \in CallIds :
    sessions[c].status = "live" /\ sessions[d].status = "live" =>
      /\ sessions[c].conversation = sessions[d].conversation => c = d
      /\ \A s \in sessions[c].sockets, t \in sessions[d].sockets :
            UserOf[s] = UserOf[t] => c = d /\ s = t

Good(sessions, up) ==
  /\ sessions \in [CallIds -> Call]
  /\ \A c \in CallIds : Sound(sessions[c], up)
  /\ Apart(sessions)

\* A request being worked on has a conversation and, unless it is to start a
\* call, the call it is about.
Carries(req) ==
  /\ req.pc # "free" => req.conversation \in Conversations
  /\ req.pc # "free" /\ req.operation # "start" => req.id \in CallIds
  /\ req.pc \in Operations => req.pc = req.operation
  /\ req.pc = "members" => req.operation = "start"

RequestInv == \A h \in Slots : Carries(request[h])

CallsInv == TypeOK /\ RequestInv /\ Good(call, connected)

-----------------------------------------------------------------------------
(* One session.                                                            *)

LEMMA SocketCount ==
  ASSUME NEW S \in SUBSET Sockets
  PROVE  /\ IsFiniteSet(S) /\ Cardinality(S) \in Nat
         /\ Cardinality(S) >= 2 => S # {}
         /\ \A s \in Sockets : Cardinality(S \cup {s}) >= Cardinality(S)
<1>1. IsFiniteSet(S) /\ Cardinality(S) \in Nat
  BY FS_Subset, FS_CardinalityType, CallsAssumption
<1>2. Cardinality(S) >= 2 => S # {}
  BY FS_EmptySet
<1>3. \A s \in Sockets : Cardinality(S \cup {s}) >= Cardinality(S)
  BY <1>1, FS_AddElement
<1> QED BY <1>1, <1>2, <1>3

LEMMA Values == /\ Unused \in Call /\ Ended \in Call /\ Free \in Request
                /\ Ended.status = "ended" /\ Unused.status = "unused"
<1>1. (CHOOSE s \in Sockets : TRUE) \in Sockets
  BY CallsAssumption
<1>2. (CHOOSE u \in Users : TRUE) \in Users
  BY <1>1, CallsAssumption
<1> QED BY <1>1, <1>2 DEF Unused, Ended, Free, Call, Request, Operations

\* What becomes of a live session that loses sockets or ringing members: it
\* ends, or it stays as it is and is sound.
LEMMA AloneEnds ==
  ASSUME NEW session \in Call, session.status = "live",
         session.conversation \in Conversations,
         session.deadline => session.ringing = {},
         NEW up, session.sockets \subseteq up
  PROVE  \/ UnlessAlone(session) = Ended
         \/ UnlessAlone(session) = session /\ Sound(session, up)
<1>1. Cardinality(session.sockets) \in Nat
  BY SocketCount DEF Call
<1> QED BY <1>1 DEF UnlessAlone, Sound

LEMMA RemovalEnds ==
  ASSUME NEW session \in Call, session.status = "live", NEW s \in Sockets,
         NEW up, Sound(session, up)
  PROVE  LET rest == [session EXCEPT !.sockets = @ \ {s}] IN
         \/ WithoutSocket(session, s) = Ended
         \/ WithoutSocket(session, s) = rest /\ rest \in Call /\ Sound(rest, up \ {s})
<1> DEFINE rest == [session EXCEPT !.sockets = @ \ {s}]
<1>1. /\ rest \in Call /\ rest.status = "live" /\ rest.sockets \subseteq up \ {s}
      /\ rest.conversation \in Conversations
      /\ rest.deadline => rest.ringing = {}
  BY DEF Call, Sound
<1>2. UnlessAlone(rest) = Ended \/ (UnlessAlone(rest) = rest /\ Sound(rest, up \ {s}))
  BY <1>1, AloneEnds
<1> QED BY <1>1, <1>2 DEF WithoutSocket

-----------------------------------------------------------------------------
(* The table of sessions.                                                  *)

\* Sessions may end, or lose sockets, without disturbing each other.
LEMMA Narrowing ==
  ASSUME NEW sessions, NEW up, Good(sessions, up), NEW down, NEW after,
         after \in [CallIds -> Call],
         \A c \in CallIds :
           \/ after[c].status # "live"
           \/ /\ sessions[c].status = "live"
              /\ after[c].conversation = sessions[c].conversation
              /\ after[c].sockets \subseteq sessions[c].sockets
              /\ Sound(after[c], down)
  PROVE  Good(after, down)
<1>1. \A c \in CallIds : Sound(after[c], down)
  BY DEF Sound
<1>2. Apart(after)
  BY DEF Apart, Good
<1> QED BY <1>1, <1>2 DEF Good

LEMMA SocketRemovedGood ==
  ASSUME NEW sessions, NEW up, Good(sessions, up), NEW s \in Sockets
  PROVE  Good(SocketRemoved(sessions, s), up \ {s})
<1> DEFINE after == SocketRemoved(sessions, s)
<1>1. ASSUME NEW c \in CallIds, sessions[c].status = "live"
      PROVE  /\ after[c] \in Call
             /\ \/ after[c].status # "live"
                \/ /\ after[c].conversation = sessions[c].conversation
                   /\ after[c].sockets \subseteq sessions[c].sockets
                   /\ Sound(after[c], up \ {s})
  <2>0. sessions[c] \in Call /\ Sound(sessions[c], up)
    BY DEF Good
  <2>1. CASE s \in sessions[c].sockets
    <3> DEFINE rest == [sessions[c] EXCEPT !.sockets = @ \ {s}]
    <3>1. after[c] = WithoutSocket(sessions[c], s)
      BY <1>1, <2>1 DEF SocketRemoved
    <3>2. \/ after[c] = Ended
          \/ after[c] = rest /\ rest \in Call /\ Sound(rest, up \ {s})
      BY <1>1, <2>0, <3>1, RemovalEnds
    <3>3. /\ rest.conversation = sessions[c].conversation
          /\ rest.sockets \subseteq sessions[c].sockets
      BY <2>0 DEF Call
    <3> QED BY <3>2, <3>3, Values
  <2>2. CASE s \notin sessions[c].sockets
    BY <1>1, <2>0, <2>2 DEF SocketRemoved, Sound
  <2> QED BY <2>1, <2>2
<1>2. ASSUME NEW c \in CallIds, sessions[c].status # "live"
      PROVE  after[c] = sessions[c]
  BY <1>2 DEF SocketRemoved
<1>3. after \in [CallIds -> Call]
  <2>1. \A c \in CallIds : after[c] \in Call
    BY <1>1, <1>2 DEF Good
  <2> QED BY <2>1 DEF SocketRemoved
<1> HIDE DEF after
<1>4. Good(after, up \ {s})
  BY <1>1, <1>2, <1>3, Narrowing
<1> QED BY <1>4 DEF after

\* The gateway's check after a start or an accept.
LEMMA IfConnectedGood ==
  ASSUME NEW sessions, NEW s \in Sockets, Good(sessions, connected \cup {s})
  PROVE  Good(IfConnected(sessions, s), connected)
<1>1. CASE s \in connected
  <2>1. connected \cup {s} = connected
    BY <1>1
  <2> QED BY <1>1, <2>1 DEF IfConnected
<1>2. CASE s \notin connected
  <2>1. (connected \cup {s}) \ {s} = connected
    BY <1>2
  <2>2. Good(SocketRemoved(sessions, s), (connected \cup {s}) \ {s})
    BY SocketRemovedGood
  <2> QED BY <1>2, <2>1, <2>2 DEF IfConnected
<1> QED BY <1>1, <1>2

-----------------------------------------------------------------------------
(* Requests.                                                               *)

LEMMA InitHolds == Init => CallsInv
<1>1. Init => TypeOK
  BY Values, CallsAssumption DEF Init, TypeOK
<1>2. Init => RequestInv /\ Good(call, connected)
  BY Values DEF Init, RequestInv, Carries, Free, Operations, Good, Apart, Sound
<1> QED BY <1>1, <1>2 DEF CallsInv

LEMMA InProgress ==
  ASSUME CallsInv, NEW h \in Slots, request[h].pc # "free"
  PROVE  /\ request[h].socket \in Sockets /\ Asking(h) \in Users
         /\ Asking(h) = UserOf[request[h].socket]
         /\ request[h].members \in SUBSET Users
         /\ request[h].conversation \in Conversations
         /\ request[h].pc \in Operations \ {"start"} => request[h].id \in CallIds
  BY CallsAssumption DEF CallsInv, RequestInv, Carries, TypeOK, Request, Asking

\* A new request, or one that moves on, leaves the calls alone.
LEMMA RequestMoves ==
  ASSUME CallsInv, NEW h \in Slots, NEW req \in Request, Carries(req),
         request' = [request EXCEPT ![h] = req],
         UNCHANGED <<call, connected, member, announced, changes>>
  PROVE  CallsInv'
<1>1. TypeOK'
  BY DEF CallsInv, TypeOK
<1>2. RequestInv'
  BY DEF CallsInv, RequestInv, TypeOK
<1>3. Good(call, connected)'
  BY DEF CallsInv, Good, Sound, Apart
<1> QED BY <1>1, <1>2, <1>3 DEF CallsInv

LEMMA AnswerMoves ==
  ASSUME CallsInv, NEW h \in Slots, Answer(h)
  PROVE  /\ request' = [request EXCEPT ![h] = Free]
         /\ request' \in [Slots -> Request] /\ RequestInv'
         /\ Free \in Request /\ Carries(Free)
<1>1. Free \in Request /\ Carries(Free)
  BY Values DEF Carries, Free, Operations
<1> QED BY <1>1 DEF Answer, CallsInv, TypeOK, RequestInv

LEMMA AskStartHolds ==
  ASSUME CallsInv, NEW h \in Slots, NEW s \in Sockets, NEW v \in Conversations,
         AskStart(h, s, v)
  PROVE  CallsInv'
<1> DEFINE req == [Free EXCEPT !.pc = "check", !.operation = "start",
                               !.socket = s, !.conversation = v]
<1>1. req \in Request /\ Carries(req)
  BY Values DEF Request, Operations, Carries
<1> QED BY <1>1, RequestMoves DEF AskStart, Receive

LEMMA AskHolds ==
  ASSUME CallsInv, NEW h \in Slots, NEW s \in Sockets, NEW c \in CallIds,
         NEW operation \in Operations, Ask(h, s, c, operation)
  PROVE  CallsInv'
<1> DEFINE req == [Free EXCEPT !.pc = "check", !.operation = operation, !.socket = s,
                               !.conversation = call[c].conversation, !.id = c]
<1>1. call[c].conversation \in Conversations
  BY DEF CallsInv, Good, Sound, Ask, Live
<1>2. req \in Request /\ Carries(req)
  BY <1>1, Values DEF Request, Operations, Carries
<1> QED BY <1>2, RequestMoves DEF Ask, Receive

LEMMA CheckHolds ==
  ASSUME CallsInv, NEW h \in Slots, CheckMembership(h)
  PROVE  CallsInv'
<1>1. CASE Asking(h) \notin member[request[h].conversation]
  <2>1. Answer(h) /\ UNCHANGED <<call, connected, member, announced, changes>>
    BY <1>1 DEF CheckMembership
  <2> QED BY <2>1, AnswerMoves, RequestMoves
<1>2. CASE Asking(h) \in member[request[h].conversation]
  <2> DEFINE operation == request[h].operation
             pc == IF operation = "start" THEN "members" ELSE operation
             req == [request[h] EXCEPT !.pc = pc]
  <2>1. request[h] \in Request /\ Carries(request[h]) /\ request[h].pc = "check"
    BY DEF CallsInv, TypeOK, RequestInv, CheckMembership
  <2>2. req \in Request /\ Carries(req)
    BY <2>1 DEF Request, Carries, Operations
  <2>3. request' = [request EXCEPT ![h] = req]
    BY <1>2 DEF CheckMembership, CallsInv, TypeOK
  <2> QED BY <2>2, <2>3, RequestMoves DEF CheckMembership
<1> QED BY <1>1, <1>2

LEMMA ReadHolds ==
  ASSUME CallsInv, NEW h \in Slots, ReadMembers(h)
  PROVE  CallsInv'
<1> DEFINE req == [request[h] EXCEPT !.pc = "start",
                                     !.members = member[request[h].conversation]]
<1>1. request[h] \in Request /\ Carries(request[h]) /\ request[h].pc = "members"
  BY DEF CallsInv, TypeOK, RequestInv, ReadMembers
<1>2. member[request[h].conversation] \in SUBSET Users
  BY <1>1 DEF CallsInv, TypeOK, Carries
<1>3. req \in Request /\ Carries(req)
  BY <1>1, <1>2 DEF Request, Carries, Operations
<1>4. request' = [request EXCEPT ![h] = req]
  BY DEF ReadMembers, CallsInv, TypeOK
<1> QED BY <1>3, <1>4, RequestMoves DEF ReadMembers

LEMMA RefusalHolds ==
  ASSUME CallsInv, NEW h \in Slots, RefuseStart(h) \/ Refuse(h)
  PROVE  CallsInv'
  BY AnswerMoves, RequestMoves DEF RefuseStart, Refuse

-----------------------------------------------------------------------------
(* Requests that are through.                                              *)

LEMMA CallChanges ==
  ASSUME CallsInv, NEW h \in Slots, Answer(h), Good(call', connected),
         UNCHANGED <<connected, member, announced, changes>>
  PROVE  CallsInv'
<1>1. TypeOK'
  BY AnswerMoves DEF CallsInv, TypeOK, Good
<1>2. Good(call, connected)'
  BY DEF Good, Sound, Apart
<1> QED BY <1>1, <1>2, AnswerMoves DEF CallsInv

LEMMA StartHolds ==
  ASSUME CallsInv, NEW h \in Slots, NEW c \in CallIds, NEW ringing \in SUBSET Users,
         Start(h, c, ringing)
  PROVE  CallsInv'
<1> DEFINE u == Asking(h)
           s == request[h].socket
           v == request[h].conversation
           members == request[h].members
           session == [status |-> "live", conversation |-> v, members |-> members,
                       ringing |-> ringing, sockets |-> {s}, caller |-> u,
                       deadline |-> FALSE]
           sessions == [call EXCEPT ![c] = session]
<1>1. /\ s \in Sockets /\ u \in Users /\ u = UserOf[s] /\ v \in Conversations
      /\ members \in SUBSET Users
  BY InProgress DEF Start
<1>2. /\ call \in [CallIds -> Call] /\ Apart(call)
      /\ \A d \in CallIds : Sound(call[d], connected)
  BY DEF CallsInv, Good
<1>3. sessions \in [CallIds -> Call]
  BY <1>1, <1>2 DEF Call
<1>4. ASSUME NEW d \in CallIds
      PROVE  Sound(sessions[d], connected \cup {s})
  BY <1>1, <1>2 DEF Sound
<1>5. \A d \in CallIds : call[d].status = "live" =>
         /\ call[d].conversation # v
         /\ \A t \in call[d].sockets : UserOf[t] # u
  <2>1. FreeConversation(v) /\ ~Busy(u, NoCall)
    BY DEF Start
  <2> QED BY <2>1, CallsAssumption DEF FreeConversation, Busy, Participants, Live
<1>6. Apart(sessions)
  BY <1>1, <1>2, <1>5 DEF Apart
<1>7. Good(sessions, connected \cup {s})
  BY <1>3, <1>4, <1>6 DEF Good
<1>8. call' = IfConnected(sessions, s)
  BY DEF Start
<1> HIDE DEF sessions
<1>9. Good(call', connected)
  BY <1>1, <1>7, <1>8, IfConnectedGood
<1> QED BY <1>9, CallChanges DEF Start

LEMMA AcceptHolds ==
  ASSUME CallsInv, NEW h \in Slots, Accept(h)
  PROVE  CallsInv'
<1> DEFINE c == request[h].id
           s == request[h].socket
           u == UserOf[s]
           session == [call[c] EXCEPT !.sockets = @ \cup {s}, !.ringing = @ \ {u}]
           sessions == [call EXCEPT ![c] = session]
<1>1. s \in Sockets /\ c \in CallIds
  BY InProgress DEF Accept, Operations
<1>2. /\ call \in [CallIds -> Call] /\ Apart(call)
      /\ \A d \in CallIds : Sound(call[d], connected)
      /\ call[c].status = "live"
  BY DEF CallsInv, Good, Accept, StillLive, Live
<1>3. /\ session \in Call /\ session.status = "live"
      /\ session.sockets = call[c].sockets \cup {s}
      /\ session.ringing = call[c].ringing \ {u}
      /\ session.deadline = call[c].deadline
      /\ session.conversation = call[c].conversation
  <2>1. call[c] \in Call
    BY <1>1, <1>2
  <2>2. call[c].sockets \cup {s} \in SUBSET Sockets
    BY <1>1, <2>1 DEF Call
  <2>3. call[c].ringing \ {u} \in SUBSET Users
    BY <2>1 DEF Call
  <2> QED BY <1>2, <2>1, <2>2, <2>3 DEF Call
<1> HIDE DEF session
<1>4. sessions \in [CallIds -> Call] /\ sessions[c] = session
  BY <1>1, <1>2, <1>3
<1>5. ASSUME NEW d \in CallIds
      PROVE  Sound(sessions[d], connected \cup {s})
  <2>1. CASE d = c
    <3>1. /\ Cardinality(call[c].sockets \cup {s}) >= Cardinality(call[c].sockets)
          /\ Cardinality(call[c].sockets \cup {s}) \in Nat
          /\ Cardinality(call[c].sockets) \in Nat
      BY <1>1, <1>2, SocketCount DEF Call
    <3>2. Sound(call[c], connected)
      BY <1>1, <1>2
    <3>3. Sound(session, connected \cup {s})
      BY SMTT(20), <1>2, <1>3, <3>1, <3>2 DEF Sound
    <3> QED BY <2>1, <1>4, <3>3
  <2>2. CASE d # c
    BY <1>1, <1>2, <2>2 DEF Sound
  <2> QED BY <2>1, <2>2
<1>6. /\ \A d \in CallIds \ {c} : call[d].status = "live" =>
           \A t \in call[d].sockets : UserOf[t] # u
      /\ \A t \in call[c].sockets \ {s} : UserOf[t] # u
  BY DEF Accept, MayJoin, Busy, Participants, Live
<1>7. Apart(sessions)
  <2>1. \A d \in CallIds :
          /\ sessions[d].status = call[d].status
          /\ sessions[d].conversation = call[d].conversation
          /\ d # c => sessions[d].sockets = call[d].sockets
          /\ d = c => sessions[d].sockets = call[d].sockets \cup {s}
    BY <1>1, <1>2, <1>3
  <2> HIDE DEF sessions
  <2> QED BY <1>1, <1>2, <1>6, <2>1 DEF Apart
<1>8. Good(sessions, connected \cup {s})
  BY <1>4, <1>5, <1>7 DEF Good
<1>9. call' = IfConnected(sessions, s)
  BY <1>1, <1>2 DEF Accept, session, Asking
<1> HIDE DEF sessions
<1>10. Good(call', connected)
  BY <1>1, <1>8, <1>9, IfConnectedGood
<1> QED BY <1>10, CallChanges DEF Accept

LEMMA DeclineHolds ==
  ASSUME CallsInv, NEW h \in Slots, Decline(h)
  PROVE  CallsInv'
<1> DEFINE c == request[h].id
           quiet == [call[c] EXCEPT !.ringing = @ \ {Asking(h)}]
<1>1. c \in CallIds
  BY InProgress DEF Decline, Operations
<1>2. call[c] \in Call /\ call[c].status = "live" /\ Sound(call[c], connected)
  BY <1>1 DEF CallsInv, Good, Decline, StillLive, Live
<1>3. /\ quiet \in Call /\ quiet.status = "live"
      /\ quiet.conversation = call[c].conversation
      /\ quiet.sockets = call[c].sockets
      /\ quiet.deadline => quiet.ringing = {}
      /\ quiet.conversation \in Conversations /\ quiet.sockets \subseteq connected
  BY <1>2 DEF Call, Sound
<1> HIDE DEF quiet
<1>4. \/ UnlessAlone(quiet) = Ended
      \/ UnlessAlone(quiet) = quiet /\ Sound(quiet, connected)
  BY <1>3, AloneEnds
<1>5. call' = [call EXCEPT ![c] = UnlessAlone(quiet)]
  BY DEF Decline, quiet
<1>6. call \in [CallIds -> Call] /\ call' \in [CallIds -> Call]
  BY <1>3, <1>4, <1>5, Values DEF CallsInv, Good
<1>7. \A d \in CallIds : Sound(call[d], connected)
  BY DEF CallsInv, Good
<1>8. ASSUME NEW d \in CallIds
      PROVE  \/ call'[d].status # "live"
             \/ /\ call[d].status = "live"
                /\ call'[d].conversation = call[d].conversation
                /\ call'[d].sockets \subseteq call[d].sockets
                /\ Sound(call'[d], connected)
  <2>1. CASE d = c
    BY <1>1, <1>2, <1>3, <1>4, <1>5, <1>6, <2>1, Values
  <2>2. CASE d # c
    BY <1>1, <1>5, <1>6, <1>7, <2>2
  <2> QED BY <2>1, <2>2
<1>9. Good(call', connected)
  BY <1>6, <1>8, Narrowing DEF CallsInv
<1> QED BY <1>9, CallChanges DEF Decline

LEMMA LeaveHolds ==
  ASSUME CallsInv, NEW h \in Slots, Leave(h)
  PROVE  CallsInv'
<1> DEFINE c == request[h].id
           s == request[h].socket
           rest == [call[c] EXCEPT !.sockets = @ \ {s}]
<1>1. c \in CallIds /\ s \in Sockets
  BY InProgress DEF Leave, Operations
<1>2. call[c] \in Call /\ call[c].status = "live" /\ Sound(call[c], connected)
  BY <1>1 DEF CallsInv, Good, Leave, StillLive, Live
<1>3. \/ WithoutSocket(call[c], s) = Ended
      \/ /\ WithoutSocket(call[c], s) = rest /\ rest \in Call
         /\ Sound(rest, connected \ {s})
  BY <1>1, <1>2, RemovalEnds
<1>4. /\ rest.conversation = call[c].conversation
      /\ rest.sockets \subseteq call[c].sockets
      /\ rest.status = "live"
  BY <1>2 DEF Call
<1> HIDE DEF rest
<1>5. Sound(rest, connected \ {s}) => Sound(rest, connected)
  BY DEF Sound
<1>6. call \in [CallIds -> Call] /\ call' = [call EXCEPT ![c] = WithoutSocket(call[c], s)]
  BY <1>1 DEF Leave, CallsInv, Good
<1>7. call' \in [CallIds -> Call]
  BY <1>3, <1>6, Values
<1>8. \A d \in CallIds : Sound(call[d], connected)
  BY DEF CallsInv, Good
<1>9. ASSUME NEW d \in CallIds
      PROVE  \/ call'[d].status # "live"
             \/ /\ call[d].status = "live"
                /\ call'[d].conversation = call[d].conversation
                /\ call'[d].sockets \subseteq call[d].sockets
                /\ Sound(call'[d], connected)
  <2>1. CASE d = c
    BY <1>1, <1>2, <1>3, <1>4, <1>5, <1>6, <2>1, Values
  <2>2. CASE d # c
    BY <1>1, <1>6, <1>8, <2>2
  <2> QED BY <2>1, <2>2
<1>10. Good(call', connected)
  BY <1>7, <1>9, Narrowing DEF CallsInv
<1> QED BY <1>10, CallChanges DEF Leave

-----------------------------------------------------------------------------
(* What happens to a call from outside.                                    *)

LEMMA DisconnectHolds ==
  ASSUME CallsInv, NEW s \in Sockets, Disconnect(s)
  PROVE  CallsInv'
<1>1. Good(call', connected')
  BY SocketRemovedGood DEF CallsInv, Disconnect
<1>2. TypeOK'
  BY <1>1 DEF CallsInv, TypeOK, Disconnect, Good
<1>3. RequestInv'
  BY DEF CallsInv, RequestInv, Disconnect
<1>4. Good(call, connected)'
  BY <1>1 DEF Good, Sound, Apart
<1> QED BY <1>2, <1>3, <1>4 DEF CallsInv

\* A step from outside that leaves the connections and the requests alone.
LEMMA OutsideChanges ==
  ASSUME CallsInv, call' \in [CallIds -> Call], UNCHANGED <<connected, request>>,
         member' \in [Conversations -> SUBSET Users], announced' \subseteq Event,
         changes' \in 0..MaxChanges,
         \A c \in CallIds :
           \/ call'[c].status # "live"
           \/ /\ call[c].status = "live"
              /\ call'[c].conversation = call[c].conversation
              /\ call'[c].sockets \subseteq call[c].sockets
              /\ Sound(call'[c], connected)
  PROVE  CallsInv'
<1>1. Good(call', connected)
  BY Narrowing DEF CallsInv
<1>2. Good(call, connected)'
  BY <1>1 DEF Good, Sound, Apart
<1>3. TypeOK'
  BY DEF CallsInv, TypeOK
<1>4. RequestInv'
  BY DEF CallsInv, RequestInv
<1> QED BY <1>2, <1>3, <1>4 DEF CallsInv

LEMMA DeadlineHolds ==
  ASSUME CallsInv, NEW c \in CallIds, Deadline(c)
  PROVE  CallsInv'
<1> DEFINE quiet == [call[c] EXCEPT !.ringing = {}, !.deadline = TRUE]
<1>1. /\ call \in [CallIds -> Call] /\ call[c].status = "live"
      /\ \A d \in CallIds : Sound(call[d], connected)
  BY DEF CallsInv, Good, Deadline, Live
<1>2. /\ quiet \in Call /\ quiet.status = "live" /\ quiet.ringing = {}
      /\ quiet.conversation = call[c].conversation
      /\ quiet.sockets = call[c].sockets
  BY <1>1 DEF Call
<1>3. call' = [call EXCEPT ![c] = IF Cardinality(call[c].sockets) < 2
                                  THEN Ended ELSE quiet]
  BY <1>1 DEF Deadline
<1> HIDE DEF quiet
<1>4. Cardinality(call[c].sockets) \in Nat
  BY <1>1, SocketCount DEF Call
<1>5. ~(Cardinality(call[c].sockets) < 2) => Sound(quiet, connected)
  BY <1>1, <1>2, <1>4 DEF Sound
<1>6. call' \in [CallIds -> Call]
  BY <1>1, <1>2, <1>3, Values
<1>7. ASSUME NEW d \in CallIds
      PROVE  \/ call'[d].status # "live"
             \/ /\ call[d].status = "live"
                /\ call'[d].conversation = call[d].conversation
                /\ call'[d].sockets \subseteq call[d].sockets
                /\ Sound(call'[d], connected)
  BY <1>1, <1>2, <1>3, <1>5, Values
<1>8. UNCHANGED <<connected, request, member, announced, changes>>
  BY DEF Deadline
<1> QED BY <1>6, <1>7, <1>8, OutsideChanges DEF CallsInv, TypeOK

LEMMA MembershipHolds ==
  ASSUME CallsInv, NEW v \in Conversations, NEW u \in Users,
         LeaveGroup(v, u) \/ AddMember(v, u)
  PROVE  CallsInv'
<1>1. changes' \in 0..MaxChanges
  BY CallsAssumption DEF CallsInv, TypeOK, LeaveGroup, AddMember
<1>2. member' \in [Conversations -> SUBSET Users] /\ announced' \subseteq Event
  BY DEF CallsInv, TypeOK, LeaveGroup, AddMember, Event
<1>3. UNCHANGED <<call, connected, request>>
  BY DEF LeaveGroup, AddMember
<1>4. /\ call \in [CallIds -> Call]
      /\ \A c \in CallIds : Sound(call[c], connected)
  BY DEF CallsInv, Good
<1> QED BY <1>1, <1>2, <1>3, <1>4, OutsideChanges

LEMMA MembersChangedHolds ==
  ASSUME CallsInv, NEW e \in announced, MembersChanged(e)
  PROVE  CallsInv'
<1> DEFINE cut(c) == [call[c] EXCEPT !.members = e.users,
                                     !.ringing = @ \cap e.users,
                                     !.sockets = {s \in @ : UserOf[s] \notin e.removed}]
<1>1. /\ call \in [CallIds -> Call]
      /\ \A c \in CallIds : Sound(call[c], connected)
      /\ e.users \in SUBSET Users
  BY DEF CallsInv, Good, TypeOK, Event
<1>2. ASSUME NEW c \in CallIds, call[c].status = "live"
      PROVE  /\ cut(c) \in Call /\ cut(c).status = "live"
             /\ cut(c).conversation = call[c].conversation
             /\ cut(c).sockets \subseteq call[c].sockets
             /\ cut(c).deadline => cut(c).ringing = {}
             /\ cut(c).conversation \in Conversations
             /\ cut(c).sockets \subseteq connected
  <2>1. call[c] \in Call /\ Sound(call[c], connected)
    BY <1>1
  <2>2. {s \in call[c].sockets : UserOf[s] \notin e.removed} \in SUBSET Sockets
    BY <2>1 DEF Call
  <2>3. call[c].ringing \cap e.users \in SUBSET Users
    BY <1>1
  <2> QED BY <1>1, <1>2, <2>1, <2>2, <2>3 DEF Call, Sound
<1>3. call' = [c \in CallIds |->
         IF call[c].status = "live" /\ call[c].conversation = e.conversation
         THEN UnlessAlone(cut(c)) ELSE call[c]]
  BY DEF MembersChanged, Live
<1> HIDE DEF cut
<1>4. ASSUME NEW c \in CallIds
      PROVE  /\ call'[c] \in Call
             /\ \/ call'[c].status # "live"
                \/ /\ call[c].status = "live"
                   /\ call'[c].conversation = call[c].conversation
                   /\ call'[c].sockets \subseteq call[c].sockets
                   /\ Sound(call'[c], connected)
  <2>1. CASE call[c].status = "live" /\ call[c].conversation = e.conversation
    <3>1. \/ UnlessAlone(cut(c)) = Ended
          \/ UnlessAlone(cut(c)) = cut(c) /\ Sound(cut(c), connected)
      BY <1>2, <2>1, AloneEnds
    <3>2. call'[c] = UnlessAlone(cut(c))
      BY <1>3, <2>1
    <3> QED BY <1>2, <2>1, <3>1, <3>2, Values
  <2>2. CASE ~(call[c].status = "live" /\ call[c].conversation = e.conversation)
    BY <1>1, <1>3, <2>2
  <2> QED BY <2>1, <2>2
<1>5. call' \in [CallIds -> Call]
  BY <1>3, <1>4
<1>6. announced' \subseteq Event
  BY DEF MembersChanged, CallsInv, TypeOK
<1>7. UNCHANGED <<connected, request, member, changes>>
  BY DEF MembersChanged
<1> QED BY <1>4, <1>5, <1>6, <1>7, OutsideChanges DEF CallsInv, TypeOK

-----------------------------------------------------------------------------
(* Theorems.                                                               *)

LEMMA HandleHolds ==
  ASSUME CallsInv, NEW h \in Slots, Handle(h)
  PROVE  CallsInv'
  BY CheckHolds, ReadHolds, StartHolds, RefusalHolds, AcceptHolds, DeclineHolds,
     LeaveHolds DEF Handle

LEMMA StepHolds == CallsInv /\ [Next]_vars => CallsInv'
<1> SUFFICES ASSUME CallsInv, [Next]_vars
             PROVE  CallsInv'
  OBVIOUS
<1>1. CASE \E h \in Slots : Handle(h)
  BY <1>1, HandleHolds
<1>2. CASE \E h \in Slots, s \in Sockets : \E v \in Conversations : AskStart(h, s, v)
  BY <1>2, AskStartHolds
<1>3. CASE \E h \in Slots, s \in Sockets : \E c \in CallIds :
             \E operation \in Operations \ {"start"} : Ask(h, s, c, operation)
  BY <1>3, AskHolds
<1>4. CASE \E s \in Sockets : Disconnect(s)
  BY <1>4, DisconnectHolds
<1>5. CASE \E c \in CallIds : Deadline(c)
  BY <1>5, DeadlineHolds
<1>6. CASE \E v \in Conversations, u \in Users : LeaveGroup(v, u) \/ AddMember(v, u)
  BY <1>6, MembershipHolds
<1>7. CASE \E e \in announced : MembersChanged(e)
  BY <1>7, MembersChangedHolds
<1>8. CASE UNCHANGED vars
  BY <1>8 DEF vars, CallsInv, TypeOK, RequestInv, Good, Sound, Apart
<1> QED BY <1>1, <1>2, <1>3, <1>4, <1>5, <1>6, <1>7, <1>8 DEF Next

\* The invariant holds in every reachable state.
THEOREM CallsSound == Spec => []CallsInv
  BY InitHolds, StepHolds, PTL DEF Spec

\* Every variable keeps its type, whatever handlers overlap.
THEOREM CallsTyped == Spec => []TypeOK
<1>1. CallsInv => TypeOK
  BY DEF CallsInv
<1> QED BY <1>1, CallsSound, PTL

\* A conversation has one call, though two handlers may have found it free
\* before each awaited the database.
THEOREM OneCall == Spec => []OneCallPerConversation
<1>1. CallsInv => OneCallPerConversation
  BY DEF CallsInv, Good, Apart, OneCallPerConversation, Live
<1> QED BY <1>1, CallsSound, PTL

\* A user is in one call with one device.
THEOREM OneDevice == Spec => []OneDevicePerUser
<1>1. CallsInv => OneDevicePerUser
  BY DEF CallsInv, Good, Apart, OneDevicePerUser, Live
<1> QED BY <1>1, CallsSound, PTL

\* No call is empty or holds a socket that has gone.
THEOREM NoGhosts == Spec => []ParticipantsConnected
<1>1. CallsInv => ParticipantsConnected
  BY DEF CallsInv, Good, Sound, ParticipantsConnected, Live
<1> QED BY <1>1, CallsSound, PTL

\* After the ringing deadline a call has two participants or has ended.
THEOREM NobodyAlone == Spec => []NobodyLeftAlone
<1>1. CallsInv => NobodyLeftAlone
  BY DEF CallsInv, Good, Sound, NobodyLeftAlone, Live
<1> QED BY <1>1, CallsSound, PTL

\* Removing a socket does nothing to a call that has ended.
LEMMA RemovalSpares ==
  ASSUME NEW sessions, NEW s, NEW c \in CallIds, sessions[c].status = "ended"
  PROVE  SocketRemoved(sessions, s)[c] = sessions[c]
  BY DEF SocketRemoved

LEMMA ConnectionSpares ==
  ASSUME NEW sessions, NEW s, NEW c \in CallIds, sessions[c].status = "ended"
  PROVE  IfConnected(sessions, s)[c] = sessions[c]
  BY RemovalSpares DEF IfConnected

LEMMA StepSpares ==
  ASSUME TypeOK, Next, NEW c \in CallIds, call[c].status = "ended"
  PROVE  call'[c] = call[c]
<1> USE DEF TypeOK
<1>1. ASSUME NEW h \in Slots, Handle(h)
      PROVE  call'[c] = call[c]
  <2>1. CASE CheckMembership(h) \/ ReadMembers(h) \/ RefuseStart(h) \/ Refuse(h)
    BY <2>1 DEF CheckMembership, ReadMembers, RefuseStart, Refuse
  <2>2. CASE \E d \in CallIds, ringing \in SUBSET Users : Start(h, d, ringing)
    <3>1. PICK d \in CallIds, ringing \in SUBSET Users : Start(h, d, ringing)
      BY <2>2
    <3>2. d # c
      BY <3>1, Values DEF Start
    <3> DEFINE session == [status |-> "live", conversation |-> request[h].conversation,
                           members |-> request[h].members, ringing |-> ringing,
                           sockets |-> {request[h].socket}, caller |-> Asking(h),
                           deadline |-> FALSE]
               sessions == [call EXCEPT ![d] = session]
    <3>3. call' = IfConnected(sessions, request[h].socket)
      BY <3>1 DEF Start
    <3>4. sessions[c] = call[c]
      BY <3>2
    <3> HIDE DEF sessions
    <3> QED BY <3>3, <3>4, ConnectionSpares
  <2>3. CASE Accept(h)
    <3>1. request[h].id # c
      BY <2>3 DEF Accept, StillLive, Live
    <3> DEFINE d == request[h].id
               s == request[h].socket
               sessions == [call EXCEPT ![d].sockets = @ \cup {s},
                                        ![d].ringing = @ \ {UserOf[s]}]
    <3>2. call' = IfConnected(sessions, s)
      BY <2>3 DEF Accept
    <3>3. sessions[c] = call[c]
      BY <3>1
    <3> HIDE DEF sessions
    <3> QED BY <3>2, <3>3, ConnectionSpares
  <2>4. CASE Decline(h) \/ Leave(h)
    BY <2>4 DEF Decline, Leave, StillLive, Live
  <2> QED BY <1>1, <2>1, <2>2, <2>3, <2>4 DEF Handle
<1>2. ASSUME NEW s \in Sockets, Disconnect(s)
      PROVE  call'[c] = call[c]
  BY <1>2, RemovalSpares DEF Disconnect
<1>3. ASSUME NEW d \in CallIds, Deadline(d)
      PROVE  call'[c] = call[c]
  BY <1>3 DEF Deadline, Live
<1>4. ASSUME NEW e \in announced, MembersChanged(e)
      PROVE  call'[c] = call[c]
  BY <1>4 DEF MembersChanged, Live
<1> QED BY <1>1, <1>2, <1>3, <1>4
        DEF Next, AskStart, Ask, Receive, LeaveGroup, AddMember

\* A handler that found a call alive before its await cannot touch it once it
\* has ended.
THEOREM EndedIsFinal == Spec => EndedStaysEnded
<1>1. ASSUME TypeOK, [Next]_vars
      PROVE  [\A c \in CallIds : call[c].status = "ended" => call'[c] = call[c]]_vars
  BY <1>1, StepSpares
<1> QED BY <1>1, CallsTyped, PTL DEF Spec, EndedStaysEnded
=============================================================================
