------------------------------- MODULE Presence -------------------------------
(***************************************************************************)
(* Who is online and who is looking (gateway.gateway.ts and                *)
(* presence-registry.ts).                                                  *)
(*                                                                         *)
(* A connection is counted only after several awaits, and its disconnect   *)
(* is handled whenever it happens, before the end of those awaits too.     *)
(* What others are told follows a database write, so two announcements of  *)
(* one person can overtake each other, and an announcement whose write     *)
(* fails is never made although the server has noted the status as told.   *)
(* A handler or a timer that rejects ends only itself here: nothing in the *)
(* code catches it, and a server that ends starts again with no sockets.   *)
(* These are people without a manual status; a reconnect is another        *)
(* socket.                                                                 *)
(***************************************************************************)
EXTENDS Naturals, FiniteSets

CONSTANTS
  People, Devices,
  PersonOf,      \* whose connection each socket is
  MaxAnnouncing  \* announcements of one status in flight at once (bound)

ASSUME PresenceAssumption ==
  /\ IsFiniteSet(Devices)
  /\ PersonOf \in [Devices -> People]
  /\ MaxAnnouncing \in Nat \ {0}

VARIABLES
  stage,      \* how far handleConnection is, per socket
  leaving,    \* how far handleDisconnect is, per socket
  welcome,    \* what the connection found when it was counted
  session,    \* the presence registry: sockets with a session
  visible,    \* sessions on screen
  fresh,      \* sessions with input within AWAY_THRESHOLD_MS
  count,      \* onlineUsers
  clamped,    \* history: disconnects that found the count at zero
  grace,      \* users with an entry in disconnectGrace
  timers,     \* grace timers that still run, replaced ones included
  active,     \* users with input within IDLE_THRESHOLD_MS
  status,     \* lastBroadcastedStatus
  outbound,   \* announcements whose database write is not done
  shown,      \* the last status friends and servers were told
  overlapped, \* history: an announcement was started during another one
  untold      \* history: the last announcement to end or begin was not made

presenceVars == <<stage, leaving, welcome, session, visible, fresh, count,
                  clamped, grace, timers, active, status, outbound, shown,
                  overlapped, untold>>

-----------------------------------------------------------------------------
Statuses == {"online", "idle", "offline"}
Stages == {"new", "auth", "load", "hydrate", "greet", "up", "failed", "refused"}

PresenceTypeOK ==
  /\ stage \in [Devices -> Stages]
  /\ leaving \in [Devices -> {"no", "unseen", "activity", "done"}]
  /\ welcome \in [Devices -> {"grace", "first", "more"}]
  /\ session \subseteq Devices /\ visible \subseteq Devices /\ fresh \subseteq Devices
  /\ count \in [People -> Nat] /\ clamped \in [People -> Nat]
  /\ timers \in [People -> Nat]
  /\ grace \subseteq People /\ active \subseteq People
  /\ overlapped \subseteq People /\ untold \subseteq People
  /\ status \in [People -> {"none", "online", "idle"}]
  /\ outbound \in [People -> [Statuses -> Nat]]
  /\ shown \in [People -> Statuses]

PresenceInit ==
  /\ stage = [s \in Devices |-> "new"]
  /\ leaving = [s \in Devices |-> "no"]
  /\ welcome = [s \in Devices |-> "more"]
  /\ session = {} /\ visible = {} /\ fresh = {}
  /\ count = [u \in People |-> 0]
  /\ clamped = [u \in People |-> 0]
  /\ grace = {}
  /\ timers = [u \in People |-> 0]
  /\ active = {}
  /\ status = [u \in People |-> "none"]
  /\ outbound = [u \in People |-> [x \in Statuses |-> 0]]
  /\ shown = [u \in People |-> "offline"]
  /\ overlapped = {} /\ untold = {}

-----------------------------------------------------------------------------
SocketsOf(u) == {s \in Devices : PersonOf[s] = u}

\* Connections that are counted and not yet counted down.
Counted(u) == {s \in SocketsOf(u) : stage[s] \in {"greet", "up"} /\ leaving[s] # "done"}

\* Connections counted down before they were counted, or instead of it.
Early(u) ==
  {s \in SocketsOf(u) : stage[s] \in {"load", "hydrate", "failed"} /\ leaving[s] = "done"}

\* Connections counted and not greeted yet.
Greeting(u) == {s \in SocketsOf(u) : stage[s] = "greet"}

Quiet(u) == \A x \in Statuses : outbound[u][x] = 0

\* isUserOnline
Online(u) == count[u] > 0 \/ u \in grace

\* Mutant: an on-screen session counts however old its last input is.
EngagedWhileVisible(u) == \E s \in session \cap visible : PersonOf[s] = u

\* isActivelyEngaged
Engaged(u) == \E s \in session \cap visible \cap fresh : PersonOf[s] = u

-----------------------------------------------------------------------------
(* Announcements: a database write, then the emit; the write may fail.     *)

\* Tell others x (or nothing new, when x is "none").
Announce(u, x) ==
  IF x = "none" THEN UNCHANGED <<outbound, overlapped, untold>>
  ELSE /\ outbound[u][x] < MaxAnnouncing
       /\ outbound' = [outbound EXCEPT ![u][x] = @ + 1]
       /\ untold' = untold \ {u}
       /\ overlapped' = IF Quiet(u) THEN overlapped \ {u} ELSE overlapped \cup {u}

Emit(u, x) ==
  /\ outbound[u][x] > 0
  /\ outbound' = [outbound EXCEPT ![u][x] = @ - 1]
  /\ shown' = [shown EXCEPT ![u] = x]
  /\ UNCHANGED <<stage, leaving, welcome, session, visible, fresh, count, clamped,
                 grace, timers, active, status, overlapped, untold>>

\* user.update fails, or the read of the friends before their emit: it is not told,
\* or not to everybody, and lastBroadcastedStatus stays as it was set.
AnnouncementFails(u, x) ==
  /\ outbound[u][x] > 0
  /\ outbound' = [outbound EXCEPT ![u][x] = @ - 1]
  /\ untold' = untold \cup {u}
  /\ UNCHANGED <<stage, leaving, welcome, session, visible, fresh, count, clamped,
                 grace, timers, active, status, shown, overlapped>>

-----------------------------------------------------------------------------
(* handleConnection                                                        *)

Connect(s) ==
  /\ stage[s] = "new"
  /\ stage' = [stage EXCEPT ![s] = "auth"]
  /\ UNCHANGED <<leaving, welcome, session, visible, fresh, count, clamped, grace,
                 timers, active, status, outbound, shown, overlapped, untold>>

\* The token is good (the socket knows its user from here on), or it is not.
Authenticate(s) ==
  /\ stage[s] = "auth"
  /\ \/ /\ stage' = [stage EXCEPT ![s] = "load"]
        /\ UNCHANGED leaving
     \/ /\ stage' = [stage EXCEPT ![s] = "refused"]
        /\ leaving' = [leaving EXCEPT ![s] = "unseen"]
  /\ UNCHANGED <<welcome, session, visible, fresh, count, clamped, grace, timers,
                 active, status, outbound, shown, overlapped, untold>>

\* Memberships are read and rooms joined: the session enters the registry.
Register(s) ==
  /\ stage[s] = "load"
  /\ stage' = [stage EXCEPT ![s] = "hydrate"]
  /\ session' = session \cup {s}
  /\ \E v \in BOOLEAN : visible' = IF v THEN visible \cup {s} ELSE visible \ {s}
  /\ fresh' = fresh \cup {s}
  /\ UNCHANGED <<leaving, welcome, count, clamped, grace, timers, active, status,
                 outbound, shown, overlapped, untold>>

\* The manual status is read: a grace period ends and the connection is counted.
Count(s) == LET u == PersonOf[s] IN
  /\ stage[s] = "hydrate"
  /\ stage' = [stage EXCEPT ![s] = "greet"]
  /\ welcome' = [welcome EXCEPT ![s] = IF u \in grace THEN "grace"
                                       ELSE IF count[u] = 0 THEN "first" ELSE "more"]
  /\ timers' = IF u \in grace THEN [timers EXCEPT ![u] = @ - 1] ELSE timers
  /\ grace' = grace \ {u}
  /\ count' = [count EXCEPT ![u] = @ + 1]
  /\ active' = active \cup {u}
  /\ UNCHANGED <<leaving, session, visible, fresh, clamped, status, outbound, shown,
                 overlapped, untold>>

\* Mutant: a connection that ends a grace period announces nothing.
FirstOnly(s) == IF welcome[s] = "first" THEN "online" ELSE "none"

\* What the connection changes for others.
News(s) ==
  IF \/ welcome[s] = "first"
     \/ welcome[s] = "grace" /\ status[PersonOf[s]] # "online"
  THEN "online" ELSE "none"

\* The friends are read: the rest of the connection, up to its announcement.
Greet(s) == LET u == PersonOf[s] IN
  /\ stage[s] = "greet"
  /\ stage' = [stage EXCEPT ![s] = "up"]
  /\ status' = IF News(s) = "none" THEN status ELSE [status EXCEPT ![u] = News(s)]
  /\ Announce(u, News(s))
  /\ welcome' = [welcome EXCEPT ![s] = "more"]
  /\ UNCHANGED <<leaving, session, visible, fresh, count, clamped, grace,
                 timers, active, shown>>

\* A read rejects: before the count nothing is counted, after it nobody is told.
ConnectionFails(s) == LET u == PersonOf[s] IN
  /\ \/ /\ stage[s] \in {"load", "hydrate"}
        /\ stage' = [stage EXCEPT ![s] = "failed"]
        /\ UNCHANGED <<welcome, untold>>
     \/ /\ stage[s] = "greet"
        /\ stage' = [stage EXCEPT ![s] = "up"]
        /\ welcome' = [welcome EXCEPT ![s] = "more"]
        /\ untold' = untold \cup {u}
  /\ UNCHANGED <<leaving, session, visible, fresh, count, clamped, grace, timers,
                 active, status, outbound, shown, overlapped>>

-----------------------------------------------------------------------------
(* handleDisconnect                                                        *)

\* Before its authentication a socket has no user: nothing is undone, now or later.
Drop(s) ==
  /\ stage[s] \notin {"new", "refused"} /\ leaving[s] = "no"
  /\ leaving' = [leaving EXCEPT ![s] = IF stage[s] = "auth" THEN "unseen" ELSE "activity"]
  /\ session' = session \ {s} /\ visible' = visible \ {s} /\ fresh' = fresh \ {s}
  /\ UNCHANGED <<stage, welcome, count, clamped, grace, timers, active, status, outbound,
                 shown, overlapped, untold>>

\* Mutant: the count is not kept from going below zero.
MinusOne(n) == IF n = 0 THEN 0 - 1 ELSE n - 1

\* Mutant: a count of one stays, as if only larger counts went down.
LastStays(n) == IF n <= 1 THEN n ELSE n - 1

\* removeOnlineUser
Less(n) == IF n <= 1 THEN 0 ELSE n - 1

\* The last connection starts a grace period.
GraceAfter(u) == IF count[u] <= 1 THEN grace \cup {u} ELSE grace

\* The activity is cleared: the connection is counted down.
CountDown(s) == LET u == PersonOf[s] IN
  /\ leaving[s] = "activity"
  /\ leaving' = [leaving EXCEPT ![s] = "done"]
  /\ count' = [count EXCEPT ![u] = Less(@)]
  /\ clamped' = [clamped EXCEPT ![u] = IF count[u] = 0 THEN @ + 1 ELSE @]
  /\ grace' = GraceAfter(u)
  /\ timers' = [timers EXCEPT ![u] = IF count[u] <= 1 THEN @ + 1 ELSE @]
  /\ UNCHANGED <<stage, welcome, session, visible, fresh, active, status, outbound,
                 shown, overlapped, untold>>

\* Mutant: the status told last outlives the person's presence.
StillTold(u) == status

\* lastBroadcastedStatus.delete
Forgotten(u) == [status EXCEPT ![u] = "none"]

\* Five minutes later, whatever handlers are under way; a replaced timer fires as well.
MarkOffline(u) ==
  /\ timers[u] > 0
  /\ timers' = [timers EXCEPT ![u] = @ - 1]
  /\ grace' = grace \ {u}
  /\ IF count[u] > 0 THEN UNCHANGED <<active, status, outbound, overlapped, untold>>
     ELSE /\ active' = active \ {u}
          /\ status' = Forgotten(u)
          /\ Announce(u, "offline")
  /\ UNCHANGED <<stage, leaving, welcome, session, visible, fresh, count, clamped, shown>>

-----------------------------------------------------------------------------
(* Input and its absence                                                   *)

\* Three minutes without input of any device.
InputAges(u) ==
  /\ u \in active
  /\ active' = active \ {u}
  /\ UNCHANGED <<stage, leaving, welcome, session, visible, fresh, count, clamped,
                 grace, timers, status, outbound, shown, overlapped, untold>>

\* checkIdleUsers, at its turn for one user
Sweep(u) ==
  /\ count[u] > 0 /\ u \notin active /\ status[u] # "idle"
  /\ status' = [status EXCEPT ![u] = "idle"]
  /\ Announce(u, "idle")
  /\ UNCHANGED <<stage, leaving, welcome, session, visible, fresh, count, clamped,
                 grace, timers, active, shown>>

\* activity:heartbeat
Heartbeat(s) == LET u == PersonOf[s] IN
  /\ stage[s] \in {"load", "hydrate", "greet", "up", "failed"} /\ leaving[s] = "no"
  /\ fresh' = IF s \in session THEN fresh \cup {s} ELSE fresh
  /\ active' = active \cup {u}
  /\ status' = IF status[u] = "idle" THEN [status EXCEPT ![u] = "online"] ELSE status
  /\ Announce(u, IF status[u] = "idle" THEN "online" ELSE "none")
  /\ UNCHANGED <<stage, leaving, welcome, session, visible, count, clamped, grace,
                 timers, shown>>

\* presence:state
Report(s) ==
  /\ s \in session /\ leaving[s] = "no"
  /\ \E v \in BOOLEAN : visible' = IF v THEN visible \cup {s} ELSE visible \ {s}
  /\ fresh' = fresh \cup {s}
  /\ UNCHANGED <<stage, leaving, welcome, session, count, clamped, grace, timers,
                 active, status, outbound, shown, overlapped, untold>>

\* Five minutes without input of this device.
GoesAway(s) ==
  /\ s \in fresh
  /\ fresh' = fresh \ {s}
  /\ UNCHANGED <<stage, leaving, welcome, session, visible, count, clamped, grace,
                 timers, active, status, outbound, shown, overlapped, untold>>

-----------------------------------------------------------------------------
PresenceNext ==
  \/ \E s \in Devices : \/ Connect(s) \/ Authenticate(s) \/ Register(s) \/ Count(s)
                        \/ Greet(s) \/ ConnectionFails(s) \/ Drop(s) \/ CountDown(s)
                        \/ Heartbeat(s) \/ Report(s) \/ GoesAway(s)
  \/ \E u \in People : \/ MarkOffline(u) \/ InputAges(u) \/ Sweep(u)
                       \/ \E x \in Statuses : Emit(u, x) \/ AnnouncementFails(u, x)

PresenceSpec == PresenceInit /\ [][PresenceNext]_presenceVars

-----------------------------------------------------------------------------
(* Properties                                                              *)

\* The count of a user is exact across every overlap of a connection with its
\* own disconnect (gateway.gateway.ts:168-182): it is the number of connections
\* counted and not counted down, less those counted down early, plus the
\* disconnects that found it at zero.  A user stays online with no connection
\* only through those, or through a disconnect before the authentication.
CountIsExact ==
  \A u \in People :
    count[u] + Cardinality(Early(u)) = Cardinality(Counted(u)) + clamped[u]

\* Nobody with a counted connection is offline, whatever timers, replaced ones too,
\* fire meanwhile, and with their connections greeted they have been announced,
\* unless that failed (isUserOnline, gateway.gateway.ts:204; 584-639 and 698-713).
\* A disconnect that is handled before its connection was counted takes away the
\* count of another device and breaks this, for good when the connection then fails.
ConnectedIsOnline ==
  \A u \in People : Counted(u) # {} /\ Early(u) = {} =>
    /\ Online(u)
    /\ Greeting(u) = {} /\ u \notin untold => status[u] # "none"

\* When no announcement is in flight, the last ones did not overlap and the last one
\* did not fail, others were last told what the server believes.  After a failure
\* they may not have been, for as long as lastBroadcastedStatus stays: a heartbeat
\* or a reconnect that finds the status noted writes and tells nothing.
ToldTheTruth ==
  \A u \in People : Quiet(u) /\ u \notin overlapped /\ u \notin untold
    => shown[u] = IF status[u] = "none" THEN "offline" ELSE status[u]

AllGone(u) == \A s \in SocketsOf(u) : stage[s] \in {"new", "refused"} \/ leaving[s] # "no"

\* Time passes for a device nobody touches.
PresenceFairness == WF_presenceVars(\E s \in Devices : GoesAway(s))

\* A person whose devices are all gone counts as away in the end, so push reaches
\* them again, even when a session was registered after its disconnect.
GoneIsPushable == \A u \in People : []<>(AllGone(u) => ~Engaged(u))
=============================================================================
