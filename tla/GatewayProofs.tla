---------------------------- MODULE GatewayProofs -----------------------------
(***************************************************************************)
(* What the gateway keeps in memory, for any number of people and devices: *)
(* presence is exact, rich activity respects the settings, and message     *)
(* subscriptions settle where permissions say.                             *)
(***************************************************************************)
EXTENDS Presence, RichActivity, MessageWatch, FiniteSetTheorems,
        SequenceTheorems, TLAPS

-----------------------------------------------------------------------------
(***************************************************************************)
(* Presence is exact for any number of people, devices and announcements.  *)
(*                                                                         *)
(* The count of a user needs two facts about the handlers: a disconnect    *)
(* that will count down, or has, belongs to a socket that knew its user,   *)
(* and an entry in disconnectGrace has a timer that still runs.  That who  *)
(* is counted has been announced needs two more: nobody in the grace       *)
(* period is counted, and while somebody is counted the status is known,   *)
(* or a greeting will announce it, or telling it failed.  What others were *)
(* told needs a last one: an announcement that is alone in flight carries  *)
(* the status the server believes.                                         *)
(***************************************************************************)

Known == {"load", "hydrate", "greet", "up", "failed"}

LeavingKnown == \A s \in Devices : leaving[s] \in {"activity", "done"} => stage[s] \in Known

GraceTimed == \A u \in People : u \in grace => timers[u] > 0

NoneInGrace == \A u \in People : u \in grace => count[u] = 0

\* Connections whose greeting will announce the user, if nothing is known of them by then.
Heralds(u) == {s \in Greeting(u) : welcome[s] # "more"}

Announced ==
  \A u \in People :
    count[u] > 0 => status[u] # "none" \/ u \in untold \/ Heralds(u) # {}

Believed(u) == IF status[u] = "none" THEN "offline" ELSE status[u]

\* What is in flight, or was told last, unless announcements overlapped or one failed.
InStep(u) ==
  u \notin overlapped \cup untold =>
    /\ \A x \in Statuses : outbound[u][x] > 0 => x = Believed(u) /\ outbound[u][x] = 1
    /\ Quiet(u) => shown[u] = Believed(u)

PresenceInv ==
  /\ PresenceTypeOK /\ LeavingKnown /\ GraceTimed
  /\ CountIsExact /\ NoneInGrace /\ Announced
  /\ \A u \in People : InStep(u)

-----------------------------------------------------------------------------
(* Types                                                                   *)

LEMMA AnnounceTyped ==
  ASSUME PresenceTypeOK, NEW u \in People, NEW x \in Statuses \cup {"none"}, Announce(u, x)
  PROVE  /\ outbound' \in [People -> [Statuses -> Nat]]
         /\ overlapped' \subseteq People /\ untold' \subseteq People
<1>1. CASE x = "none"
  BY <1>1 DEF PresenceTypeOK, Announce
<1>2. CASE x # "none"
  <2>1. x \in Statuses /\ outbound[u][x] \in Nat
    BY <1>2 DEF PresenceTypeOK
  <2>2. [outbound[u] EXCEPT ![x] = @ + 1] \in [Statuses -> Nat]
    BY <2>1 DEF PresenceTypeOK
  <2>3. outbound' = [outbound EXCEPT ![u] = [outbound[u] EXCEPT ![x] = @ + 1]]
    BY <1>2 DEF Announce, PresenceTypeOK
  <2> QED BY <1>2, <2>2, <2>3 DEF PresenceTypeOK, Announce
<1> QED BY <1>1, <1>2

LEMMA Typed ==
  ASSUME PresenceTypeOK, GraceTimed, PresenceNext
  PROVE  PresenceTypeOK'
<1> USE DEF PresenceTypeOK, Stages, Statuses
<1> USE PresenceAssumption
<1>1. ASSUME NEW s \in Devices, Connect(s) PROVE PresenceTypeOK'
  BY <1>1 DEF Connect
<1>2. ASSUME NEW s \in Devices, Authenticate(s) PROVE PresenceTypeOK'
  BY <1>2 DEF Authenticate
<1>3. ASSUME NEW s \in Devices, Register(s) PROVE PresenceTypeOK'
  BY <1>3 DEF Register
<1>4. ASSUME NEW s \in Devices, Count(s) PROVE PresenceTypeOK'
  <2> DEFINE u == PersonOf[s]
  <2>1. u \in People
    OBVIOUS
  <2>2. timers' \in [People -> Nat]
    BY <1>4, <2>1 DEF Count, GraceTimed
  <2>3. count' \in [People -> Nat]
    BY <1>4, <2>1 DEF Count
  <2> QED BY <1>4, <2>1, <2>2, <2>3 DEF Count
<1>5. ASSUME NEW s \in Devices, Greet(s) PROVE PresenceTypeOK'
  <2> DEFINE u == PersonOf[s]
  <2>1. u \in People /\ News(s) \in {"online", "none"}
    BY DEF News
  <2>2. /\ outbound' \in [People -> [Statuses -> Nat]] /\ overlapped' \subseteq People
      /\ untold' \subseteq People
    BY <1>5, <2>1, AnnounceTyped DEF Greet
  <2>3. status' \in [People -> {"none", "online", "idle"}]
    BY <1>5, <2>1 DEF Greet
  <2> QED BY <1>5, <2>1, <2>2, <2>3 DEF Greet
<1>6. ASSUME NEW s \in Devices, Drop(s) PROVE PresenceTypeOK'
  BY <1>6 DEF Drop
<1>7. ASSUME NEW s \in Devices, CountDown(s) PROVE PresenceTypeOK'
  <2> DEFINE u == PersonOf[s]
  <2>1. u \in People /\ count[u] \in Nat
    OBVIOUS
  <2>2. Less(count[u]) \in Nat
    BY <2>1 DEF Less
  <2>3. count' \in [People -> Nat]
    BY <1>7, <2>1, <2>2 DEF CountDown
  <2>4. grace' \subseteq People
    BY <1>7, <2>1 DEF CountDown, GraceAfter
  <2> QED BY <1>7, <2>1, <2>3, <2>4 DEF CountDown
<1>8. ASSUME NEW s \in Devices, Heartbeat(s) PROVE PresenceTypeOK'
  <2> DEFINE u == PersonOf[s]
  <2>1. u \in People
    OBVIOUS
  <2>2. /\ outbound' \in [People -> [Statuses -> Nat]] /\ overlapped' \subseteq People
      /\ untold' \subseteq People
    <3>1. CASE status[u] = "idle"
      BY <1>8, <2>1, <3>1, AnnounceTyped DEF Heartbeat
    <3>2. CASE status[u] # "idle"
      BY <1>8, <2>1, <3>2, AnnounceTyped DEF Heartbeat
    <3> QED BY <3>1, <3>2
  <2> QED BY <1>8, <2>1, <2>2 DEF Heartbeat
<1>9. ASSUME NEW s \in Devices, Report(s) PROVE PresenceTypeOK'
  BY <1>9 DEF Report
<1>10. ASSUME NEW s \in Devices, GoesAway(s) PROVE PresenceTypeOK'
  BY <1>10 DEF GoesAway
<1>11. ASSUME NEW u \in People, MarkOffline(u) PROVE PresenceTypeOK'
  <2>1. timers' \in [People -> Nat]
    BY <1>11 DEF MarkOffline
  <2>2. /\ outbound' \in [People -> [Statuses -> Nat]] /\ overlapped' \subseteq People
      /\ untold' \subseteq People
    <3>1. CASE count[u] > 0
      BY <1>11, <3>1 DEF MarkOffline
    <3>2. CASE ~(count[u] > 0)
      BY <1>11, <3>2, AnnounceTyped DEF MarkOffline
    <3> QED BY <3>1, <3>2
  <2>3. active' \subseteq People /\ status' \in [People -> {"none", "online", "idle"}]
    BY <1>11 DEF MarkOffline, Forgotten
  <2> QED BY <1>11, <2>1, <2>2, <2>3 DEF MarkOffline
<1>12. ASSUME NEW u \in People, InputAges(u) PROVE PresenceTypeOK'
  BY <1>12 DEF InputAges
<1>13. ASSUME NEW u \in People, Sweep(u) PROVE PresenceTypeOK'
  <2>1. /\ outbound' \in [People -> [Statuses -> Nat]] /\ overlapped' \subseteq People
      /\ untold' \subseteq People
    BY <1>13, AnnounceTyped DEF Sweep
  <2> QED BY <1>13, <2>1 DEF Sweep
<1>14. ASSUME NEW u \in People, NEW x \in Statuses, Emit(u, x) PROVE PresenceTypeOK'
  <2>1. [outbound[u] EXCEPT ![x] = @ - 1] \in [Statuses -> Nat]
    BY <1>14 DEF Emit
  <2>2. outbound' = [outbound EXCEPT ![u] = [outbound[u] EXCEPT ![x] = @ - 1]]
    BY <1>14 DEF Emit
  <2> QED BY <1>14, <2>1, <2>2 DEF Emit
<1>15. ASSUME NEW s \in Devices, ConnectionFails(s) PROVE PresenceTypeOK'
  BY <1>15 DEF ConnectionFails
<1>16. ASSUME NEW u \in People, NEW x \in Statuses, AnnouncementFails(u, x)
       PROVE  PresenceTypeOK'
  <2>1. [outbound[u] EXCEPT ![x] = @ - 1] \in [Statuses -> Nat]
    BY <1>16 DEF AnnouncementFails
  <2>2. outbound' = [outbound EXCEPT ![u] = [outbound[u] EXCEPT ![x] = @ - 1]]
    BY <1>16 DEF AnnouncementFails
  <2> QED BY <1>16, <2>1, <2>2 DEF AnnouncementFails
<1> QED BY <1>1, <1>2, <1>3, <1>4, <1>5, <1>6, <1>7, <1>8, <1>9, <1>10, <1>11, <1>12,
           <1>13, <1>14, <1>15, <1>16 DEF PresenceNext

-----------------------------------------------------------------------------
(* Counts                                                                  *)

LEMMA FewSockets ==
  ASSUME NEW u \in People
  PROVE  /\ IsFiniteSet(Counted(u)) /\ Cardinality(Counted(u)) \in Nat
         /\ IsFiniteSet(Early(u)) /\ Cardinality(Early(u)) \in Nat
<1>1. Counted(u) \subseteq Devices /\ Early(u) \subseteq Devices
  BY DEF Counted, Early, SocketsOf
<1> QED BY <1>1, PresenceAssumption, FS_Subset, FS_CardinalityType

LEMMA Same ==
  ASSUME CountIsExact,
         \A u \in People : Counted(u)' = Counted(u) /\ Early(u)' = Early(u),
         count' = count, clamped' = clamped
  PROVE  CountIsExact'
BY DEF CountIsExact

\* A connection is counted, after its disconnect perhaps.
LEMMA CountsOne ==
  ASSUME PresenceTypeOK, CountIsExact, NEW s \in Devices, Count(s)
  PROVE  CountIsExact'
<1> DEFINE u == PersonOf[s]
<1>1. u \in People /\ count[u] \in Nat /\ clamped[u] \in Nat /\ s \in SocketsOf(u)
  BY PresenceAssumption DEF PresenceTypeOK, SocketsOf
<1>2. count'[u] = count[u] + 1 /\ clamped' = clamped
  BY <1>1 DEF Count, PresenceTypeOK
<1>3. stage'[s] = "greet" /\ leaving' = leaving
      /\ \A t \in Devices \ {s} : stage'[t] = stage[t]
  BY DEF Count, PresenceTypeOK
<1>4. ASSUME NEW v \in People, v # u
      PROVE  /\ Counted(v)' = Counted(v) /\ Early(v)' = Early(v)
             /\ count'[v] = count[v]
  BY <1>3, <1>4 DEF Count, Counted, Early, SocketsOf, PresenceTypeOK
<1>5. count'[u] + Cardinality(Early(u)') = Cardinality(Counted(u)') + clamped'[u]
  <2>1. count[u] + Cardinality(Early(u)) = Cardinality(Counted(u)) + clamped[u]
    BY <1>1 DEF CountIsExact
  <2>2. CASE leaving[s] = "done"
    <3>1. s \in Early(u) /\ Early(u)' = Early(u) \ {s} /\ Counted(u)' = Counted(u)
      BY <1>1, <1>3, <2>2 DEF Count, Counted, Early, SocketsOf
    <3>2. Cardinality(Early(u)') = Cardinality(Early(u)) - 1
      BY <1>1, <3>1, FewSockets, FS_RemoveElement
    <3> QED BY <1>1, <1>2, <2>1, <3>1, <3>2, FewSockets
  <2>3. CASE leaving[s] # "done"
    <3>1. s \notin Counted(u) /\ Counted(u)' = Counted(u) \cup {s} /\ Early(u)' = Early(u)
      BY <1>1, <1>3, <2>3 DEF Count, Counted, Early, SocketsOf
    <3>2. Cardinality(Counted(u)') = Cardinality(Counted(u)) + 1
      BY <1>1, <3>1, FewSockets, FS_AddElement
    <3> QED BY <1>1, <1>2, <2>1, <3>1, <3>2, FewSockets
  <2> QED BY <2>2, <2>3
<1> QED BY <1>2, <1>4, <1>5 DEF CountIsExact

\* A connection is counted down, before it is counted perhaps.
LEMMA CountsOneDown ==
  ASSUME PresenceTypeOK, LeavingKnown, CountIsExact,
         NEW s \in Devices, CountDown(s)
  PROVE  CountIsExact'
<1> DEFINE u == PersonOf[s]
<1>1. u \in People /\ count[u] \in Nat /\ clamped[u] \in Nat /\ s \in SocketsOf(u)
  BY PresenceAssumption DEF PresenceTypeOK, SocketsOf
<1>2. /\ count'[u] = Less(count[u])
      /\ clamped'[u] = IF count[u] = 0 THEN clamped[u] + 1 ELSE clamped[u]
  BY <1>1 DEF CountDown, PresenceTypeOK
<1>3. leaving[s] = "activity" /\ leaving'[s] = "done" /\ stage' = stage
      /\ \A t \in Devices \ {s} : leaving'[t] = leaving[t]
  BY DEF CountDown, PresenceTypeOK
<1>4. ASSUME NEW v \in People, v # u
      PROVE  /\ Counted(v)' = Counted(v) /\ Early(v)' = Early(v)
             /\ count'[v] = count[v] /\ clamped'[v] = clamped[v]
  BY <1>3, <1>4 DEF CountDown, GraceAfter, Counted, Early, SocketsOf, PresenceTypeOK
<1>5. count'[u] + Cardinality(Early(u)') = Cardinality(Counted(u)') + clamped'[u]
  <2>1. count[u] + Cardinality(Early(u)) = Cardinality(Counted(u)) + clamped[u]
    BY <1>1 DEF CountIsExact
  <2>2. CASE stage[s] \in {"load", "hydrate", "failed"}
    <3>1. s \notin Early(u) /\ Early(u)' = Early(u) \cup {s} /\ Counted(u)' = Counted(u)
      BY <1>1, <1>3, <2>2 DEF Counted, Early, SocketsOf
    <3>2. Cardinality(Early(u)') = Cardinality(Early(u)) + 1
      BY <1>1, <3>1, FewSockets, FS_AddElement
    <3> QED BY <1>1, <1>2, <2>1, <3>1, <3>2, FewSockets DEF Less
  <2>3. CASE stage[s] \in {"greet", "up"}
    <3>1. s \in Counted(u) /\ Counted(u)' = Counted(u) \ {s} /\ Early(u)' = Early(u)
      BY <1>1, <1>3, <2>3 DEF Counted, Early, SocketsOf
    <3>2. Cardinality(Counted(u)') = Cardinality(Counted(u)) - 1
      BY <1>1, <3>1, FewSockets, FS_RemoveElement
    <3> QED BY <1>1, <1>2, <2>1, <3>1, <3>2, FewSockets DEF Less
  <2> QED BY <1>3, <2>2, <2>3 DEF LeavingKnown, Known
<1> QED BY <1>4, <1>5 DEF CountIsExact

LEMMA CountsKept ==
  ASSUME PresenceTypeOK, LeavingKnown, CountIsExact, PresenceNext
  PROVE  CountIsExact'
<1>1. ASSUME NEW s \in Devices, Connect(s) PROVE CountIsExact'
  <2>1. \A u \in People : Counted(u)' = Counted(u) /\ Early(u)' = Early(u)
    BY <1>1 DEF Connect, Counted, Early, SocketsOf, PresenceTypeOK
  <2> QED BY <1>1, <2>1, Same DEF Connect
<1>2. ASSUME NEW s \in Devices, Authenticate(s) PROVE CountIsExact'
  <2>1. leaving[s] # "done"
    BY <1>2 DEF Authenticate, LeavingKnown, Known
  <2>2. \A u \in People : Counted(u)' = Counted(u) /\ Early(u)' = Early(u)
    BY <1>2, <2>1 DEF Authenticate, Counted, Early, SocketsOf, PresenceTypeOK
  <2> QED BY <1>2, <2>2, Same DEF Authenticate
<1>3. ASSUME NEW s \in Devices, Register(s) PROVE CountIsExact'
  <2>1. \A u \in People : Counted(u)' = Counted(u) /\ Early(u)' = Early(u)
    BY <1>3 DEF Register, Counted, Early, SocketsOf, PresenceTypeOK
  <2> QED BY <1>3, <2>1, Same DEF Register
<1>4. ASSUME NEW s \in Devices, Greet(s) PROVE CountIsExact'
  <2>1. \A u \in People : Counted(u)' = Counted(u) /\ Early(u)' = Early(u)
    BY <1>4 DEF Greet, Counted, Early, SocketsOf, PresenceTypeOK
  <2> QED BY <1>4, <2>1, Same DEF Greet
<1>5. ASSUME NEW s \in Devices, Drop(s) PROVE CountIsExact'
  <2>1. \A u \in People : Counted(u)' = Counted(u) /\ Early(u)' = Early(u)
    BY <1>5 DEF Drop, Counted, Early, SocketsOf, PresenceTypeOK
  <2> QED BY <1>5, <2>1, Same DEF Drop
<1>6. ASSUME NEW s \in Devices, ConnectionFails(s) PROVE CountIsExact'
  <2>1. \A u \in People : Counted(u)' = Counted(u) /\ Early(u)' = Early(u)
    BY <1>6 DEF ConnectionFails, Counted, Early, SocketsOf, PresenceTypeOK
  <2> QED BY <1>6, <2>1, Same DEF ConnectionFails
<1>7. ASSUME UNCHANGED <<stage, leaving, count, clamped>>
      PROVE  CountIsExact'
  <2>1. \A u \in People : Counted(u)' = Counted(u) /\ Early(u)' = Early(u)
    BY <1>7 DEF Counted, Early
  <2> QED BY <1>7, <2>1, Same
<1> QED BY <1>1, <1>2, <1>3, <1>4, <1>5, <1>6, <1>7, CountsOne, CountsOneDown
    DEF PresenceNext, Heartbeat, Report, GoesAway, MarkOffline, InputAges, Sweep, Emit,
        AnnouncementFails

-----------------------------------------------------------------------------
(* Disconnects and grace timers                                            *)

LEMMA LeavingKnownKept ==
  ASSUME PresenceTypeOK, LeavingKnown, PresenceNext
  PROVE  LeavingKnown'
<1> USE DEF PresenceTypeOK, LeavingKnown, Known, Stages
<1>1. ASSUME NEW s \in Devices,
             \/ Connect(s) \/ Authenticate(s) \/ Register(s) \/ Count(s) \/ Greet(s)
             \/ ConnectionFails(s)
      PROVE  LeavingKnown'
  BY <1>1 DEF Connect, Authenticate, Register, Count, Greet, ConnectionFails
<1>2. ASSUME NEW s \in Devices, Drop(s) PROVE LeavingKnown'
  BY <1>2 DEF Drop
<1>3. ASSUME NEW s \in Devices, CountDown(s) PROVE LeavingKnown'
  BY <1>3 DEF CountDown
<1>4. CASE UNCHANGED <<stage, leaving>>
  BY <1>4
<1> QED BY <1>1, <1>2, <1>3, <1>4
    DEF PresenceNext, Heartbeat, Report, GoesAway, MarkOffline, InputAges, Sweep, Emit,
        AnnouncementFails

LEMMA GraceTimedKept ==
  ASSUME PresenceTypeOK, GraceTimed, PresenceNext
  PROVE  GraceTimed'
<1> USE DEF PresenceTypeOK, GraceTimed
<1>1. ASSUME NEW s \in Devices, Count(s) PROVE GraceTimed'
  BY <1>1, PresenceAssumption DEF Count
<1>2. ASSUME NEW s \in Devices, CountDown(s) PROVE GraceTimed'
  BY <1>2, PresenceAssumption DEF CountDown, GraceAfter
<1>3. ASSUME NEW u \in People, MarkOffline(u) PROVE GraceTimed'
  BY <1>3 DEF MarkOffline
<1>4. CASE UNCHANGED <<grace, timers>>
  BY <1>4
<1> QED BY <1>1, <1>2, <1>3, <1>4
    DEF PresenceNext, Connect, Authenticate, Register, Greet, ConnectionFails, Drop,
        Heartbeat, Report, GoesAway, InputAges, Sweep, Emit, AnnouncementFails

LEMMA NoneInGraceKept ==
  ASSUME PresenceTypeOK, NoneInGrace, PresenceNext
  PROVE  NoneInGrace'
<1> USE DEF PresenceTypeOK, NoneInGrace
<1>1. ASSUME NEW s \in Devices, Count(s) PROVE NoneInGrace'
  BY <1>1, PresenceAssumption DEF Count
<1>2. ASSUME NEW s \in Devices, CountDown(s) PROVE NoneInGrace'
  BY <1>2, PresenceAssumption DEF CountDown, GraceAfter, Less
<1>3. ASSUME NEW u \in People, MarkOffline(u) PROVE NoneInGrace'
  BY <1>3 DEF MarkOffline
<1>4. CASE UNCHANGED <<grace, count>>
  BY <1>4
<1> QED BY <1>1, <1>2, <1>3, <1>4
    DEF PresenceNext, Connect, Authenticate, Register, Greet, ConnectionFails, Drop,
        Heartbeat, Report, GoesAway, InputAges, Sweep, Emit, AnnouncementFails

-----------------------------------------------------------------------------
(* Whoever is counted is announced                                         *)

\* Only the end of a greeting, told or failed, and an offline timer that finds nobody
\* counted take away what is known of a user.
LEMMA AnnouncedKept ==
  ASSUME PresenceTypeOK, NoneInGrace, Announced, PresenceNext
  PROVE  Announced'
<1> USE DEF PresenceTypeOK
<1> USE PresenceAssumption
<1>1. ASSUME NEW s \in Devices, Count(s) PROVE Announced'
  <2> DEFINE u == PersonOf[s]
  <2>1. s \in Greeting(u)' /\ status' = status /\ untold' = untold
        /\ welcome'[s] = IF u \in grace THEN "grace" ELSE IF count[u] = 0 THEN "first" ELSE "more"
    BY <1>1 DEF Count, Greeting, SocketsOf
  <2>2. \A v \in People : Heralds(v) \subseteq Heralds(v)'
    BY <1>1 DEF Count, Heralds, Greeting, SocketsOf
  <2>3. CASE count[u] > 0
    <3>1. \A v \in People : count'[v] > 0 => count[v] > 0
      BY <1>1, <2>3 DEF Count
    <3> QED BY <2>1, <2>2, <3>1 DEF Announced
  <2>4. CASE ~(count[u] > 0)
    <3>1. s \in Heralds(u)'
      BY <2>1, <2>4 DEF Heralds
    <3>2. \A v \in People \ {u} : count'[v] = count[v]
      BY <1>1 DEF Count
    <3> QED BY <2>1, <2>2, <3>1, <3>2 DEF Announced
  <2> QED BY <2>3, <2>4
<1>2. ASSUME NEW s \in Devices, Greet(s) PROVE Announced'
  <2> DEFINE u == PersonOf[s]
  <2>1. News(s) \in {"online", "none"}
    BY DEF News
  <2>2. count' = count /\ stage[s] = "greet"
    BY <1>2 DEF Greet
  <2>3. ASSUME NEW v \in People, v # u
        PROVE  /\ status'[v] = status[v] /\ Heralds(v)' = Heralds(v)
               /\ v \in untold => v \in untold'
    BY <1>2, <2>1, <2>3 DEF Greet, Announce, Heralds, Greeting, SocketsOf
  <2>4. CASE News(s) = "online"
    BY <1>2, <2>2, <2>3, <2>4 DEF Greet, Announced
  <2>5. CASE News(s) = "none"
    <3>1. status' = status /\ untold' = untold
      BY <1>2, <2>5 DEF Greet, Announce
    <3>2. CASE welcome[s] = "more"
      <4>1. Heralds(u)' = Heralds(u)
        BY <1>2, <3>2 DEF Greet, Heralds, Greeting, SocketsOf
      <4> QED BY <2>2, <2>3, <3>1, <4>1 DEF Announced
    <3>3. CASE welcome[s] # "more"
      <4>1. status[u] = "online"
        BY <2>5, <3>3 DEF News
      <4> QED BY <2>2, <2>3, <3>1, <4>1 DEF Announced
    <3> QED BY <3>2, <3>3
  <2> QED BY <2>1, <2>4, <2>5
<1>3. ASSUME NEW s \in Devices, ConnectionFails(s) PROVE Announced'
  <2> DEFINE u == PersonOf[s]
  <2>1. count' = count /\ status' = status /\ untold \subseteq untold'
    BY <1>3 DEF ConnectionFails
  <2>2. CASE stage[s] = "greet"
    <3>1. u \in untold'
      BY <1>3, <2>2 DEF ConnectionFails
    <3>2. \A v \in People \ {u} : Heralds(v)' = Heralds(v)
      BY <1>3 DEF ConnectionFails, Heralds, Greeting, SocketsOf
    <3> QED BY <2>1, <3>1, <3>2 DEF Announced
  <2>3. CASE stage[s] # "greet"
    <3>1. \A v \in People : Heralds(v)' = Heralds(v)
      BY <1>3, <2>3 DEF ConnectionFails, Heralds, Greeting, SocketsOf
    <3> QED BY <2>1, <3>1 DEF Announced
  <2> QED BY <2>2, <2>3
<1>4. ASSUME NEW s \in Devices, CountDown(s) PROVE Announced'
  <2>1. \A v \in People : Heralds(v)' = Heralds(v)
    BY <1>4 DEF CountDown, Heralds, Greeting
  <2>2. \A v \in People : count'[v] > 0 => count[v] > 0
    BY <1>4 DEF CountDown, Less
  <2> QED BY <1>4, <2>1, <2>2 DEF CountDown, Announced
<1>5. ASSUME NEW s \in Devices, Heartbeat(s) PROVE Announced'
  <2>1. \A v \in People : Heralds(v)' = Heralds(v)
    BY <1>5 DEF Heartbeat, Heralds, Greeting
  <2>2. ASSUME NEW v \in People
        PROVE  /\ status[v] # "none" => status'[v] # "none"
               /\ v \in untold => v \in untold' \/ status'[v] # "none"
    BY <1>5 DEF Heartbeat, Announce
  <2> QED BY <1>5, <2>1, <2>2 DEF Heartbeat, Announced
<1>6. ASSUME NEW u \in People, Sweep(u) PROVE Announced'
  <2>1. \A v \in People : Heralds(v)' = Heralds(v)
    BY <1>6 DEF Sweep, Heralds, Greeting
  <2>2. status'[u] = "idle" /\ \A v \in People \ {u} : status'[v] = status[v]
    BY <1>6 DEF Sweep
  <2>3. \A v \in People \ {u} : v \in untold => v \in untold'
    BY <1>6 DEF Sweep, Announce
  <2> QED BY <1>6, <2>1, <2>2, <2>3 DEF Sweep, Announced
<1>7. ASSUME NEW u \in People, MarkOffline(u) PROVE Announced'
  <2>1. \A v \in People : Heralds(v)' = Heralds(v)
    BY <1>7 DEF MarkOffline, Heralds, Greeting
  <2>2. \A v \in People \ {u} : status'[v] = status[v] /\ (v \in untold => v \in untold')
    BY <1>7 DEF MarkOffline, Forgotten, Announce
  <2>3. count[u] > 0 => status' = status /\ untold' = untold
    BY <1>7 DEF MarkOffline
  <2> QED BY <1>7, <2>1, <2>2, <2>3 DEF MarkOffline, Announced
<1>8. ASSUME NEW s \in Devices, Connect(s) \/ Authenticate(s) \/ Register(s) PROVE Announced'
  <2>1. /\ \A t \in Devices : stage'[t] = "greet" <=> stage[t] = "greet"
        /\ welcome' = welcome
    BY <1>8 DEF Connect, Authenticate, Register
  <2>2. \A v \in People : Heralds(v)' = Heralds(v)
    BY <2>1 DEF Heralds, Greeting, SocketsOf
  <2> QED BY <1>8, <2>2 DEF Connect, Authenticate, Register, Announced
<1>9. ASSUME NEW u \in People, NEW x \in Statuses, AnnouncementFails(u, x) PROVE Announced'
  BY <1>9 DEF AnnouncementFails, Announced, Heralds, Greeting
<1>10. CASE UNCHANGED <<stage, welcome, count, status, untold>>
  BY <1>10 DEF Announced, Heralds, Greeting
<1> QED BY <1>1, <1>2, <1>3, <1>4, <1>5, <1>6, <1>7, <1>8, <1>9, <1>10
    DEF PresenceNext, Drop, Report, GoesAway, InputAges, Emit

-----------------------------------------------------------------------------
(* Announcements                                                           *)

\* Whoever announces x believes x from then on; nobody else's status changes.
LEMMA AnnounceInStep ==
  ASSUME PresenceTypeOK, \A v \in People : InStep(v),
         NEW u \in People, NEW x \in Statuses \cup {"none"}, Announce(u, x),
         shown' = shown,
         \A v \in People \ {u} : status'[v] = status[v],
         x = "none" => status'[u] = status[u],
         x # "none" => x = IF status'[u] = "none" THEN "offline" ELSE status'[u]
  PROVE  \A v \in People : InStep(v)'
<1>1. CASE x = "none"
  BY <1>1 DEF Announce, InStep, Believed, Quiet
<1>2. CASE x # "none"
  <2>1. x \in Statuses /\ outbound[u][x] \in Nat
    BY <1>2 DEF PresenceTypeOK
  <2>2. /\ outbound'[u][x] = outbound[u][x] + 1
        /\ \A y \in Statuses \ {x} : outbound'[u][y] = outbound[u][y]
        /\ \A v \in People \ {u} : outbound'[v] = outbound[v]
    BY <1>2, <2>1 DEF Announce, PresenceTypeOK
  <2>3. /\ \A v \in People \ {u} : /\ (v \in overlapped' <=> v \in overlapped)
                                      /\ (v \in untold' <=> v \in untold)
        /\ u \notin overlapped' => Quiet(u)
    BY <1>2 DEF Announce
  <2>4. ASSUME NEW v \in People \ {u} PROVE InStep(v)'
    BY <2>2, <2>3 DEF InStep, Believed, Quiet
  <2>5. InStep(u)'
    <3>1. SUFFICES ASSUME u \notin overlapped'
                   PROVE  /\ \A y \in Statuses :
                               outbound'[u][y] > 0 => y = Believed(u)' /\ outbound'[u][y] = 1
                          /\ ~Quiet(u)'
      BY DEF InStep
    <3>2. \A y \in Statuses : outbound[u][y] = 0
      BY <2>3, <3>1 DEF Quiet
    <3>3. outbound'[u][x] = 1 /\ \A y \in Statuses \ {x} : outbound'[u][y] = 0
      BY <2>1, <2>2, <3>2
    <3>4. x = Believed(u)'
      BY <1>2 DEF Believed
    <3> QED BY <2>1, <3>3, <3>4 DEF Quiet
  <2> QED BY <2>4, <2>5
<1> QED BY <1>1, <1>2

\* The only announcement in flight tells what is believed.
LEMMA EmitInStep ==
  ASSUME PresenceTypeOK, \A v \in People : InStep(v),
         NEW u \in People, NEW x \in Statuses, Emit(u, x)
  PROVE  \A v \in People : InStep(v)'
<1>1. /\ outbound'[u][x] = outbound[u][x] - 1 /\ outbound[u][x] > 0
      /\ \A y \in Statuses \ {x} : outbound'[u][y] = outbound[u][y]
      /\ \A v \in People \ {u} : outbound'[v] = outbound[v] /\ shown'[v] = shown[v]
      /\ shown'[u] = x /\ status' = status
      /\ overlapped' = overlapped /\ untold' = untold
  BY DEF Emit, PresenceTypeOK
<1>2. ASSUME NEW v \in People \ {u} PROVE InStep(v)'
  BY <1>1 DEF InStep, Believed, Quiet
<1>3. ASSUME u \notin overlapped \cup untold PROVE InStep(u)'
  <2>1. x = Believed(u) /\ outbound[u][x] = 1
    BY <1>1, <1>3 DEF InStep
  <2>2. \A y \in Statuses \ {x} : ~(outbound[u][y] > 0)
    BY <1>3, <2>1 DEF InStep
  <2>3. \A y \in Statuses : ~(outbound'[u][y] > 0)
    BY <1>1, <2>1, <2>2
  <2> QED BY <1>1, <2>1, <2>3 DEF InStep, Believed
<1> QED BY <1>1, <1>2, <1>3 DEF InStep

\* What others were told of a user whose announcement failed is not in question.
LEMMA FailureInStep ==
  ASSUME PresenceTypeOK, \A v \in People : InStep(v),
         NEW u \in People, NEW x \in Statuses, AnnouncementFails(u, x)
  PROVE  \A v \in People : InStep(v)'
<1>1. /\ \A v \in People \ {u} : outbound'[v] = outbound[v]
      /\ untold' = untold \cup {u}
      /\ UNCHANGED <<status, shown, overlapped>>
  BY DEF AnnouncementFails, PresenceTypeOK
<1>2. ASSUME NEW v \in People \ {u} PROVE InStep(v)'
  BY <1>1 DEF InStep, Believed, Quiet
<1> QED BY <1>1, <1>2 DEF InStep

LEMMA InStepKept ==
  ASSUME PresenceTypeOK, \A v \in People : InStep(v), PresenceNext
  PROVE  \A v \in People : InStep(v)'
<1>1. ASSUME NEW s \in Devices, Greet(s) PROVE \A v \in People : InStep(v)'
  <2> DEFINE u == PersonOf[s]
  <2>1. u \in People /\ News(s) \in {"online", "none"}
    BY PresenceAssumption DEF News
  <2>2. /\ shown' = shown /\ Announce(u, News(s))
        /\ \A v \in People \ {u} : status'[v] = status[v]
        /\ News(s) = "none" => status'[u] = status[u]
        /\ News(s) = "online" => status'[u] = "online"
    BY <1>1, <2>1 DEF Greet, PresenceTypeOK
  <2> QED BY <2>1, <2>2, AnnounceInStep DEF Statuses
<1>2. ASSUME NEW s \in Devices, Heartbeat(s) PROVE \A v \in People : InStep(v)'
  <2> DEFINE u == PersonOf[s]
             x == IF status[u] = "idle" THEN "online" ELSE "none"
  <2>1. u \in People
    BY PresenceAssumption
  <2>2. /\ shown' = shown /\ Announce(u, x)
        /\ \A v \in People \ {u} : status'[v] = status[v]
        /\ x = "none" => status'[u] = status[u]
        /\ x = "online" => status'[u] = "online"
    BY <1>2, <2>1 DEF Heartbeat, PresenceTypeOK
  <2>3. x \in {"online", "none"}
    OBVIOUS
  <2> HIDE DEF x
  <2> QED BY <2>1, <2>2, <2>3, AnnounceInStep DEF Statuses
<1>3. ASSUME NEW u \in People, Sweep(u) PROVE \A v \in People : InStep(v)'
  <2>1. /\ shown' = shown /\ Announce(u, "idle") /\ status'[u] = "idle"
        /\ \A v \in People \ {u} : status'[v] = status[v]
    BY <1>3 DEF Sweep, PresenceTypeOK
  <2> QED BY <2>1, AnnounceInStep DEF Statuses
<1>4. ASSUME NEW u \in People, MarkOffline(u) PROVE \A v \in People : InStep(v)'
  <2>1. CASE count[u] > 0
    BY <1>4, <2>1 DEF MarkOffline, InStep, Believed, Quiet
  <2>2. CASE ~(count[u] > 0)
    <3>1. /\ shown' = shown /\ Announce(u, "offline") /\ status'[u] = "none"
          /\ \A v \in People \ {u} : status'[v] = status[v]
      BY <1>4, <2>2 DEF MarkOffline, Forgotten, PresenceTypeOK
    <3> QED BY <3>1, AnnounceInStep DEF Statuses
  <2> QED BY <2>1, <2>2
<1>5. CASE untold \subseteq untold' /\ UNCHANGED <<status, outbound, shown, overlapped>>
  BY <1>5 DEF InStep, Believed, Quiet
<1> QED BY <1>1, <1>2, <1>3, <1>4, <1>5, EmitInStep, FailureInStep
    DEF PresenceNext, Connect, Authenticate, Register, Count, ConnectionFails, Drop,
        CountDown, Report, GoesAway, InputAges

-----------------------------------------------------------------------------
(* The invariant                                                           *)

LEMMA PresenceStarts ==
  ASSUME PresenceInit PROVE PresenceInv
<1> USE DEF PresenceInit
<1>1. PresenceTypeOK
  BY DEF PresenceTypeOK, Stages, Statuses
<1>2. LeavingKnown /\ GraceTimed /\ NoneInGrace /\ Announced
  BY DEF LeavingKnown, GraceTimed, NoneInGrace, Announced
<1>3. \A u \in People : Counted(u) = {} /\ Early(u) = {}
  BY DEF Counted, Early, SocketsOf
<1>4. CountIsExact
  BY <1>3, FS_EmptySet DEF CountIsExact
<1>5. \A u \in People : InStep(u)
  BY DEF InStep, Believed, Quiet
<1> QED BY <1>1, <1>2, <1>4, <1>5 DEF PresenceInv

LEMMA PresenceInvariant == PresenceSpec => []PresenceInv
<1>1. ASSUME PresenceInv, [PresenceNext]_presenceVars
      PROVE  PresenceInv'
  <2>1. CASE PresenceNext
    BY <1>1, <2>1, Typed, LeavingKnownKept, GraceTimedKept, NoneInGraceKept, CountsKept,
       AnnouncedKept, InStepKept
    DEF PresenceInv
  <2>2. CASE UNCHANGED presenceVars
    <3>1. \A u \in People : Counted(u)' = Counted(u) /\ Early(u)' = Early(u)
      BY <2>2 DEF presenceVars, Counted, Early
    <3>2. CountIsExact'
      BY <1>1, <2>2, <3>1, Same DEF presenceVars, PresenceInv
    <3>3. PresenceTypeOK' /\ LeavingKnown' /\ GraceTimed' /\ NoneInGrace' /\ Announced'
      BY <1>1, <2>2
      DEF presenceVars, PresenceInv, PresenceTypeOK, LeavingKnown, GraceTimed,
          NoneInGrace, Announced, Heralds, Greeting
    <3>4. \A u \in People : InStep(u)'
      BY <1>1, <2>2 DEF PresenceInv, presenceVars, InStep, Believed, Quiet
    <3> QED BY <3>2, <3>3, <3>4 DEF PresenceInv
  <2> QED BY <1>1, <2>1, <2>2
<1> QED BY <1>1, PresenceStarts, PTL DEF PresenceSpec

-----------------------------------------------------------------------------
(* What the gateway promises                                               *)

\* The handlers of connections and disconnects, in every interleaving, count each
\* connection once up and once down, and name every exception (onlineUsers).
THEOREM PresenceCountsExactly == PresenceSpec => []CountIsExact
BY PresenceInvariant, PTL DEF PresenceInv

\* Whenever a grace timer fires, in the middle of a connection or a disconnect and when
\* it was replaced too, nobody who has a counted connection goes offline or stays
\* unannounced, unless a disconnect overtook its own connection, or telling failed.
THEOREM PresenceConnectedIsOnline == PresenceSpec => []ConnectedIsOnline
<1>1. ASSUME PresenceInv, NEW u \in People, Counted(u) # {}, Early(u) = {}
      PROVE  /\ count[u] > 0
             /\ Greeting(u) = {} /\ u \notin untold => status[u] # "none"
  <2>1. Cardinality(Early(u)) = 0 /\ Cardinality(Counted(u)) > 0
    BY <1>1, FewSockets, FS_EmptySet
  <2>2. count[u] \in Nat /\ clamped[u] \in Nat
    BY <1>1 DEF PresenceInv, PresenceTypeOK
  <2>3. count[u] + Cardinality(Early(u)) = Cardinality(Counted(u)) + clamped[u]
    BY <1>1 DEF PresenceInv, CountIsExact
  <2>4. count[u] > 0
    BY <2>1, <2>2, <2>3, FewSockets
  <2>5. Heralds(u) \subseteq Greeting(u)
    BY DEF Heralds
  <2> QED BY <1>1, <2>4, <2>5 DEF PresenceInv, Announced
<1>2. PresenceInv => ConnectedIsOnline
  BY <1>1 DEF ConnectedIsOnline, Online
<1> QED BY <1>2, PresenceInvariant, PTL

\* Friends and servers were last told what lastBroadcastedStatus holds, once the
\* announcements are out, unless two of them overlapped or the last one failed.
THEOREM PresenceToldTheTruth == PresenceSpec => []ToldTheTruth
<1>1. PresenceInv => ToldTheTruth
  BY DEF PresenceInv, InStep, ToldTheTruth, Believed
<1> QED BY <1>1, PresenceInvariant, PTL

-----------------------------------------------------------------------------
(***************************************************************************)
(* No friend is left with an activity the settings forbid, for any number  *)
(* of desktops, friends, reports and changes.                              *)
(*                                                                         *)
(* The argument follows the token of a task: settings it has read are the  *)
(* present ones for as long as it is current, unless a change has not been *)
(* announced yet; the announcement takes every token away.  And what a     *)
(* friend was sent last is what the committed entry says.                  *)
(***************************************************************************)

\* Friends were sent what is committed for them.
SeenExact ==
  /\ \A f \in Friends : seen[f] = IF f \in audience THEN entry.report ELSE "nothing"
  /\ ~entry.on => audience = {}

\* A task that waits has read nothing; no task, no answer.
WaitingQueued ==
  /\ waiting.pc = "queued"
  /\ running.kind = "none" => running.pc = "queued"

\* The settings a current task has read are the present ones.
AnswerHolds ==
  ~owed /\ running.current /\ running.pc = "answered" => running.policy = policy

\* The committed entry is permitted, unless it is in doubt.
EntryPermitted ==
  ~owed /\ ~dirty /\ entry.on => audience \subseteq policy.to /\ Permitted(entry.report, policy)

ActivityInv ==
  /\ ActivityTypeOK /\ SeenExact /\ WaitingQueued /\ AnswerHolds /\ EntryPermitted

-----------------------------------------------------------------------------
(* Types                                                                   *)

LEMMA TasksTyped ==
  /\ NoEntry \in Entry /\ Closed \in Policy /\ NoTask \in Task /\ Refreshing \in Task
  /\ \A t \in Task : Superseded(t) \in Task /\ Superseded(t).pc = t.pc
                     /\ Superseded(t).kind = t.kind /\ ~Superseded(t).current
                     /\ [t EXCEPT !.current = TRUE] \in Task
                     /\ [t EXCEPT !.current = TRUE].pc = t.pc
                     /\ [t EXCEPT !.current = TRUE].kind = t.kind
<1>1. NoEntry \in Entry /\ Closed \in Policy
  BY DEF NoEntry, Entry, Activities, Closed, Policy
<1>2. NoTask \in Task
  BY <1>1 DEF NoTask, Task, Activities
<1>3. Refreshing \in Task
  BY <1>1 DEF Refreshing, NoTask, Task, Activities
<1>4. \A t \in Task : Superseded(t) \in Task /\ Superseded(t).pc = t.pc
                      /\ Superseded(t).kind = t.kind /\ ~Superseded(t).current
  BY DEF Superseded, Task
<1>5. \A t \in Task : [t EXCEPT !.current = TRUE] \in Task
                      /\ [t EXCEPT !.current = TRUE].pc = t.pc
                      /\ [t EXCEPT !.current = TRUE].kind = t.kind
  BY DEF Task
<1> QED BY <1>1, <1>2, <1>3, <1>4, <1>5

\* A commit sends every friend what the new entry says, and clears the doubt.
LEMMA CommitSends ==
  ASSUME ActivityTypeOK, SeenExact, NEW new \in Entry, NEW to \in SUBSET Friends,
         Commit(new, to)
  PROVE  /\ entry' = new /\ dirty' = FALSE
         /\ audience' = IF new.on THEN to ELSE {}
         /\ seen' \in [Friends -> Activities \cup {"nothing"}]
         /\ SeenExact'
<1>1. entry' = new /\ dirty' = FALSE /\ audience' = IF new.on THEN to ELSE {}
  BY DEF Commit
<1>2. new.report \in Activities
  BY DEF Entry
<1>3. seen' \in [Friends -> Activities \cup {"nothing"}]
  BY <1>2 DEF Commit, Sent, ActivityTypeOK
<1>4. ASSUME NEW f \in Friends
      PROVE  seen'[f] = IF f \in audience' THEN entry'.report ELSE "nothing"
  BY <1>1 DEF Commit, Sent, SeenExact
<1> QED BY <1>1, <1>3, <1>4 DEF SeenExact

LEMMA KeepsEntry ==
  ASSUME ActivityTypeOK, SeenExact, EntryPermitted, KeepEntry, policy' = policy, owed' = owed
  PROVE  /\ SeenExact' /\ EntryPermitted'
         /\ entry' \in Entry /\ audience' \subseteq Friends /\ dirty' \in BOOLEAN
         /\ seen' \in [Friends -> Activities \cup {"nothing"}]
BY DEF KeepEntry, SeenExact, EntryPermitted, ActivityTypeOK

-----------------------------------------------------------------------------
(* The queue                                                               *)

\* After a new task no answer is current.
LEMMA EnqueueTakesTokens ==
  ASSUME ActivityTypeOK, WaitingQueued, NEW task \in Task,
         task.pc = "queued", task.kind # "none", Enqueue(task)
  PROVE  /\ running' \in Task /\ waiting' \in Task /\ WaitingQueued'
         /\ running'.current => running'.pc = "queued"
<1>1. running \in Task /\ waiting \in Task
  BY DEF ActivityTypeOK
<1>2. CASE Pending
  <2>1. running' = Superseded(running) /\ waiting' = [task EXCEPT !.current = TRUE]
    BY <1>2 DEF Enqueue
  <2> QED BY <1>1, <1>2, <2>1, TasksTyped DEF WaitingQueued, Pending
<1>3. CASE ~Pending
  <2>1. running' = [task EXCEPT !.current = TRUE] /\ waiting' = waiting
    BY <1>3 DEF Enqueue
  <2> QED BY <1>1, <2>1, TasksTyped DEF WaitingQueued
<1> QED BY <1>2, <1>3

LEMMA FinishStartsNext ==
  ASSUME ActivityTypeOK, WaitingQueued, NEW speaker \in Desktops \cup {Nobody}, Finish(speaker)
  PROVE  /\ running' \in Task /\ waiting' \in Task /\ WaitingQueued'
         /\ reporter' \in Desktops \cup {Nobody}
         /\ running'.pc = "queued"
<1>1. waiting \in Task /\ NoTask \in Task /\ NoTask.pc = "queued"
  BY TasksTyped DEF ActivityTypeOK, NoTask
<1> QED BY <1>1 DEF Finish, WaitingQueued

LEMMA CancelTakesTokens ==
  ASSUME ActivityTypeOK, WaitingQueued, CancelTasks
  PROVE  /\ running' \in Task /\ waiting' \in Task /\ WaitingQueued'
         /\ ~running'.current
<1>1. running \in Task /\ waiting \in Task
  BY DEF ActivityTypeOK
<1> QED BY <1>1, TasksTyped DEF CancelTasks, WaitingQueued

-----------------------------------------------------------------------------
(* The operations                                                          *)

LEMMA UpdateKeeps ==
  ASSUME ActivityInv, NEW d \in Desktops, NEW r \in Activities, Update(d, r)
  PROVE  ActivityInv'
<1> DEFINE task == [NoTask EXCEPT !.kind = "update", !.desktop = d, !.report = r]
<1>1. task \in Task /\ task.pc = "queued" /\ task.kind # "none"
  BY TasksTyped DEF NoTask, Task
<1>2. /\ running' \in Task /\ waiting' \in Task /\ WaitingQueued'
      /\ running'.current => running'.pc = "queued"
  BY <1>1, EnqueueTakesTokens DEF ActivityInv, Update
<1>3. reports' \in 0..MaxReports
  BY ActivityAssumption DEF ActivityInv, ActivityTypeOK, Update
<1>4. AnswerHolds'
  BY <1>2 DEF AnswerHolds
<1> QED BY <1>2, <1>3, <1>4, KeepsEntry DEF ActivityInv, ActivityTypeOK, Update

LEMMA BeginKeeps ==
  ASSUME ActivityInv, Begin
  PROVE  ActivityInv'
<1> USE DEF ActivityInv
<1>1. /\ running \in Task /\ entry \in Entry /\ reporter \in Desktops \cup {Nobody}
      /\ entry.owner \in Desktops \cup {Nobody}
  BY DEF ActivityTypeOK, Entry
<1>2. UNCHANGED <<plugged, policy, owed, reports, policies>>
  BY DEF Begin
<1>3. CASE KeepEntry /\ (Finish(reporter) \/ Finish(entry.owner))
  <2>1. /\ running' \in Task /\ waiting' \in Task /\ WaitingQueued'
        /\ reporter' \in Desktops \cup {Nobody} /\ running'.pc = "queued"
    BY <1>1, <1>3, FinishStartsNext
  <2> QED BY <1>2, <1>3, <2>1, KeepsEntry DEF ActivityTypeOK, AnswerHolds
<1>4. CASE /\ entry' = [entry EXCEPT !.leased = TRUE]
           /\ UNCHANGED <<audience, dirty, seen>> /\ Finish(reporter)
  <2>1. /\ running' \in Task /\ waiting' \in Task /\ WaitingQueued'
        /\ reporter' \in Desktops \cup {Nobody} /\ running'.pc = "queued"
    BY <1>1, <1>4, FinishStartsNext
  <2>2. entry' \in Entry /\ entry'.on = entry.on /\ entry'.report = entry.report
    BY <1>1, <1>4 DEF Entry
  <2>3. SeenExact' /\ EntryPermitted'
    BY <1>2, <1>4, <2>2 DEF SeenExact, EntryPermitted, Permitted
  <2> QED BY <1>2, <1>4, <2>1, <2>2, <2>3 DEF ActivityTypeOK, AnswerHolds
<1>5. ASSUME NEW k \in BOOLEAN, NEW old \in Entry, KeepEntry, Pending,
             running' = [running EXCEPT !.pc = "ask", !.keep = k, !.old = old],
             UNCHANGED <<waiting, reporter>>
      PROVE  ActivityInv'
  <2>1. running' \in Task /\ running'.pc = "ask" /\ running'.kind = running.kind
    BY <1>1, <1>5 DEF Task
  <2>2. WaitingQueued'
    BY <1>5, <2>1 DEF WaitingQueued, Pending
  <2> QED BY <1>2, <1>5, <2>1, <2>2, KeepsEntry DEF ActivityTypeOK, AnswerHolds
<1>6. NoEntry \in Entry
  BY TasksTyped
<1> QED
  <2> DEFINE yields == running.kind = "update" /\ entry.on /\ entry.owner # running.desktop
                       /\ entry.leased /\ Loses(running)
             old == IF running.kind = "update" THEN entry ELSE NoEntry
  <2>1. yields \in BOOLEAN /\ old \in Entry
    BY <1>1, <1>6
  <2>2. \/ KeepEntry /\ (Finish(reporter) \/ Finish(entry.owner))
        \/ /\ entry' = [entry EXCEPT !.leased = TRUE]
           /\ UNCHANGED <<audience, dirty, seen>> /\ Finish(reporter)
        \/ /\ KeepEntry /\ Pending /\ UNCHANGED <<waiting, reporter>>
           /\ running' = [running EXCEPT !.pc = "ask", !.keep = yields, !.old = old]
    BY DEF Begin
  <2> HIDE DEF yields, old
  <2> QED BY <1>3, <1>4, <1>5, <2>1, <2>2

LEMMA ReadPolicyKeeps ==
  ASSUME ActivityInv, ReadPolicy
  PROVE  ActivityInv'
<1>1. /\ running' \in Task /\ running'.kind = running.kind /\ running'.policy = policy
      /\ running'.pc = "answered" /\ running.kind # "none"
  BY DEF ActivityInv, ActivityTypeOK, ReadPolicy, Task, Pending
<1>2. WaitingQueued'
  BY <1>1 DEF ReadPolicy, ActivityInv, WaitingQueued
<1>3. AnswerHolds'
  BY <1>1 DEF ReadPolicy, AnswerHolds
<1> QED BY <1>1, <1>2, <1>3, KeepsEntry DEF ActivityInv, ActivityTypeOK, ReadPolicy

\* A commit that the present settings permit, and after it another task.
LEMMA CommitKeeps ==
  ASSUME ActivityInv, NEW new \in Entry, NEW to \in SUBSET Friends, Commit(new, to),
         ~owed /\ new.on => to \subseteq policy.to /\ Permitted(new.report, policy),
         policy' = policy, owed' = owed
  PROVE  /\ entry' \in Entry /\ audience' \subseteq Friends /\ dirty' \in BOOLEAN
         /\ seen' \in [Friends -> Activities \cup {"nothing"}]
         /\ SeenExact' /\ EntryPermitted'
<1>1. /\ entry' = new /\ dirty' = FALSE
      /\ audience' = IF new.on THEN to ELSE {}
      /\ seen' \in [Friends -> Activities \cup {"nothing"}] /\ SeenExact'
  BY CommitSends DEF ActivityInv
<1>2. EntryPermitted'
  BY <1>1 DEF EntryPermitted, Permitted
<1> QED BY <1>1, <1>2

LEMMA FinishedKeeps ==
  ASSUME ActivityInv, NEW speaker \in Desktops \cup {Nobody}, Finish(speaker),
         entry' \in Entry, audience' \subseteq Friends, dirty' \in BOOLEAN,
         seen' \in [Friends -> Activities \cup {"nothing"}],
         SeenExact', EntryPermitted', UNCHANGED <<plugged, policy, owed, reports, policies>>
  PROVE  ActivityInv'
<1>1. /\ running' \in Task /\ waiting' \in Task /\ WaitingQueued'
      /\ reporter' \in Desktops \cup {Nobody} /\ running'.pc = "queued"
  BY FinishStartsNext DEF ActivityInv
<1> QED BY <1>1 DEF ActivityInv, ActivityTypeOK, AnswerHolds

LEMMA PolicyFailsKeeps ==
  ASSUME ActivityInv, PolicyFails
  PROVE  ActivityInv'
<1>1. Finish(reporter) /\ UNCHANGED <<plugged, policy, owed, reports, policies>>
  BY DEF PolicyFails
<1>2. /\ entry' \in Entry /\ audience' \subseteq Friends /\ dirty' \in BOOLEAN
      /\ seen' \in [Friends -> Activities \cup {"nothing"}]
      /\ SeenExact' /\ EntryPermitted'
  <2>1. CASE Commit(NoEntry, {})
    BY <1>1, <2>1, CommitKeeps, TasksTyped DEF NoEntry
  <2>2. CASE KeepEntry
    BY <1>1, <2>2, KeepsEntry DEF ActivityInv
  <2> QED BY <2>1, <2>2 DEF PolicyFails
<1>3. reporter \in Desktops \cup {Nobody}
  BY DEF ActivityInv, ActivityTypeOK
<1> QED BY <1>1, <1>2, <1>3, FinishedKeeps

LEMMA CommitUpdateKeeps ==
  ASSUME ActivityInv, CommitUpdate
  PROVE  ActivityInv'
<1> DEFINE t == running
           own == [on |-> TRUE, report |-> t.report, owner |-> t.desktop,
                   leased |-> TRUE, checked |-> TRUE]
           kept == [t.old EXCEPT !.checked = TRUE]
<1>1. /\ t.pc = "answered" /\ UNCHANGED <<plugged, policy, owed, reports, policies>>
  BY DEF CommitUpdate
<1>2. /\ t.old \in Entry /\ t.policy.to \in SUBSET Friends /\ own \in Entry
      /\ kept \in Entry /\ kept.report = t.old.report
      /\ {reporter, t.old.owner} \subseteq Desktops \cup {Nobody}
  BY DEF ActivityInv, ActivityTypeOK, Task, Policy, Entry
<1>3. t.current /\ ~owed => t.policy = policy
  BY <1>1 DEF ActivityInv, AnswerHolds
<1>4. /\ entry' \in Entry /\ audience' \subseteq Friends /\ dirty' \in BOOLEAN
      /\ seen' \in [Friends -> Activities \cup {"nothing"}]
      /\ SeenExact' /\ EntryPermitted'
  <2>1. CASE KeepEntry
    BY <1>1, <2>1, KeepsEntry DEF ActivityInv
  <2>2. CASE Commit(NoEntry, {})
    BY <1>1, <2>2, CommitKeeps, TasksTyped DEF NoEntry
  <2>3. CASE t.current /\ Permitted(t.old.report, t.policy) /\ Commit(kept, t.policy.to)
    BY <1>1, <1>2, <1>3, <2>3, CommitKeeps
  <2>4. CASE t.current /\ Permitted(t.old.report, t.policy) /\ Commit(t.old, t.policy.to)
    BY <1>1, <1>2, <1>3, <2>4, CommitKeeps
  <2>5. CASE t.current /\ Permitted(t.report, t.policy) /\ Commit(own, t.policy.to)
    <3>1. own.report = t.report
      OBVIOUS
    <3> HIDE DEF own
    <3> QED BY <1>1, <1>2, <1>3, <2>5, <3>1, CommitKeeps
  <2> QED BY <2>1, <2>2, <2>3, <2>4, <2>5 DEF CommitUpdate
<1>5. Finish(reporter) \/ Finish(t.old.owner)
  BY DEF CommitUpdate
<1> QED BY <1>1, <1>2, <1>4, <1>5, FinishedKeeps

LEMMA CommitRefreshKeeps ==
  ASSUME ActivityInv, CommitRefresh
  PROVE  ActivityInv'
<1> DEFINE t == running
           kept == [entry EXCEPT !.checked = TRUE]
<1>1. /\ t.pc = "answered" /\ UNCHANGED <<plugged, policy, owed, reports, policies>>
      /\ Finish(reporter)
  BY DEF CommitRefresh
<1>2. /\ kept \in Entry /\ kept.report = entry.report /\ t.policy.to \in SUBSET Friends
      /\ reporter \in Desktops \cup {Nobody}
  BY DEF ActivityInv, ActivityTypeOK, Task, Policy, Entry
<1>3. t.current /\ ~owed => t.policy = policy
  BY <1>1 DEF ActivityInv, AnswerHolds
<1>4. /\ entry' \in Entry /\ audience' \subseteq Friends /\ dirty' \in BOOLEAN
      /\ seen' \in [Friends -> Activities \cup {"nothing"}]
      /\ SeenExact' /\ EntryPermitted'
  <2>1. CASE KeepEntry
    BY <1>1, <2>1, KeepsEntry DEF ActivityInv
  <2>2. CASE Commit(NoEntry, {})
    BY <1>1, <2>2, CommitKeeps, TasksTyped DEF NoEntry
  <2>3. CASE t.current /\ Permitted(entry.report, t.policy) /\ Commit(kept, t.policy.to)
    BY <1>1, <1>2, <1>3, <2>3, CommitKeeps
  <2> QED BY <2>1, <2>2, <2>3 DEF CommitRefresh
<1> QED BY <1>1, <1>2, <1>4, FinishedKeeps

\* From a change to its announcement nothing is promised.
LEMMA ChangePolicyKeeps ==
  ASSUME ActivityInv, ChangePolicy
  PROVE  ActivityInv'
<1>1. owed' = TRUE /\ policies' \in 0..MaxPolicies /\ policy' \in Policy
  BY ActivityAssumption DEF ChangePolicy, ActivityInv, ActivityTypeOK
<1>2. UNCHANGED <<entry, audience, dirty, seen, plugged, reporter, running, waiting, reports>>
  BY DEF ChangePolicy, KeepEntry
<1>3. SeenExact' /\ WaitingQueued'
  BY <1>2 DEF ActivityInv, SeenExact, WaitingQueued
<1> QED BY <1>1, <1>2, <1>3 DEF ActivityInv, ActivityTypeOK, AnswerHolds, EntryPermitted

\* The announcement puts the entry in doubt and takes the token of the task at work.
LEMMA RefreshKeeps ==
  ASSUME ActivityInv, Refresh
  PROVE  ActivityInv'
<1>1. /\ owed' = FALSE /\ dirty' = Hidden
      /\ UNCHANGED <<plugged, entry, audience, reporter, policy, seen, reports, policies>>
  BY DEF Refresh
<1>2. dirty' \in BOOLEAN
  BY <1>1 DEF Hidden, ActivityInv, ActivityTypeOK, Entry, Pending
<1>3. SeenExact' /\ EntryPermitted'
  BY <1>1 DEF ActivityInv, SeenExact, EntryPermitted, Hidden
<1>4. /\ running' \in Task /\ waiting' \in Task /\ WaitingQueued'
      /\ running'.current => running'.pc = "queued"
  <2>1. CASE entry.on \/ Pending
    <3>1. Refreshing \in Task /\ Refreshing.pc = "queued" /\ Refreshing.kind # "none"
      BY TasksTyped DEF Refreshing, NoTask
    <3> QED BY <2>1, <3>1, EnqueueTakesTokens DEF Refresh, ActivityInv
  <2>2. CASE ~(entry.on \/ Pending)
    BY <2>2 DEF Refresh, ActivityInv, ActivityTypeOK, WaitingQueued, Pending
  <2> QED BY <2>1, <2>2
<1> QED BY <1>1, <1>2, <1>3, <1>4 DEF ActivityInv, ActivityTypeOK, AnswerHolds

LEMMA ClearKeeps ==
  ASSUME ActivityInv, NEW d \in Desktops, Clear(d), plugged' \subseteq Desktops,
         UNCHANGED <<policy, owed, reports, policies>>
  PROVE  ActivityInv'
<1>1. /\ entry' \in Entry /\ audience' \subseteq Friends /\ dirty' \in BOOLEAN
      /\ seen' \in [Friends -> Activities \cup {"nothing"}]
      /\ SeenExact' /\ EntryPermitted'
  <2>1. CASE KeepEntry
    BY <2>1, KeepsEntry DEF ActivityInv
  <2>2. CASE Commit(NoEntry, {})
    BY <2>2, CommitKeeps, TasksTyped DEF NoEntry
  <2> QED BY <2>1, <2>2 DEF Clear
<1>2. reporter' \in Desktops \cup {Nobody}
  BY DEF Clear, ActivityInv, ActivityTypeOK, Entry
<1>3. /\ running' \in Task /\ waiting' \in Task /\ WaitingQueued' /\ AnswerHolds'
  <2>1. CASE UNCHANGED <<running, waiting>>
    BY <2>1 DEF ActivityInv, ActivityTypeOK, WaitingQueued, AnswerHolds
  <2>2. CASE CancelTasks
    BY <2>2, CancelTakesTokens DEF ActivityInv, AnswerHolds
  <2>3. CASE Enqueue(Refreshing)
    <3>1. Refreshing \in Task /\ Refreshing.pc = "queued" /\ Refreshing.kind # "none"
      BY TasksTyped DEF Refreshing, NoTask
    <3> QED BY <2>3, <3>1, EnqueueTakesTokens DEF ActivityInv, AnswerHolds
  <2> QED BY <2>1, <2>2, <2>3 DEF Clear
<1> QED BY <1>1, <1>2, <1>3 DEF ActivityInv, ActivityTypeOK

LEMMA TimeKeeps ==
  ASSUME ActivityInv, LeaseEnds \/ CheckAges
  PROVE  ActivityInv'
<1>1. /\ entry' \in Entry /\ entry'.on = entry.on /\ entry'.report = entry.report
      /\ UNCHANGED <<plugged, audience, reporter, waiting, dirty, policy, owed, seen,
                     reports, policies>>
  BY DEF LeaseEnds, CheckAges, ActivityInv, ActivityTypeOK, Entry
<1>2. running' \in {running, [running EXCEPT !.old = entry']}
  BY DEF LeaseEnds, CheckAges
<1>3. /\ running' \in Task /\ running'.kind = running.kind /\ running'.pc = running.pc
      /\ running'.current = running.current /\ running'.policy = running.policy
  BY <1>1, <1>2 DEF ActivityInv, ActivityTypeOK, Task
<1>4. SeenExact' /\ EntryPermitted' /\ WaitingQueued' /\ AnswerHolds'
  BY <1>1, <1>3 DEF ActivityInv, SeenExact, EntryPermitted, Permitted, WaitingQueued,
                    AnswerHolds
<1> QED BY <1>1, <1>3, <1>4 DEF ActivityInv, ActivityTypeOK

LEMMA ExpireKeeps ==
  ASSUME ActivityInv, Expire
  PROVE  ActivityInv'
<1>1. /\ Commit(NoEntry, {}) /\ CancelTasks /\ reporter' = Nobody
      /\ UNCHANGED <<plugged, policy, owed, reports, policies>>
  BY DEF Expire
<1>2. /\ entry' \in Entry /\ audience' \subseteq Friends /\ dirty' \in BOOLEAN
      /\ seen' \in [Friends -> Activities \cup {"nothing"}]
      /\ SeenExact' /\ EntryPermitted'
  BY <1>1, CommitKeeps, TasksTyped DEF NoEntry
<1>3. /\ running' \in Task /\ waiting' \in Task /\ WaitingQueued' /\ ~running'.current
  BY <1>1, CancelTakesTokens DEF ActivityInv
<1> QED BY <1>1, <1>2, <1>3 DEF ActivityInv, ActivityTypeOK, AnswerHolds

-----------------------------------------------------------------------------
(* The invariant                                                           *)

LEMMA ActivityStarts ==
  ASSUME ActivityInit PROVE ActivityInv
<1>1. ActivityTypeOK
  <2>1. NoEntry \in Entry /\ NoTask \in Task
    BY TasksTyped
  <2>2. 0 \in 0..MaxReports /\ 0 \in 0..MaxPolicies
    BY ActivityAssumption
  <2> QED BY <2>1, <2>2 DEF ActivityInit, ActivityTypeOK, Policy
<1>2. SeenExact /\ WaitingQueued /\ AnswerHolds /\ EntryPermitted
  BY DEF ActivityInit, SeenExact, WaitingQueued, AnswerHolds, EntryPermitted, NoTask, NoEntry
<1> QED BY <1>1, <1>2 DEF ActivityInv

LEMMA ActivityInvariant == ActivitySpec => []ActivityInv
<1>1. ASSUME ActivityInv, [ActivityNext]_activityVars PROVE ActivityInv'
  <2>1. ASSUME NEW d \in Desktops, ClearReport(d) \/ Unplug(d) PROVE ActivityInv'
    BY <1>1, <2>1, ClearKeeps DEF ClearReport, Unplug, ActivityInv, ActivityTypeOK
  <2>2. CASE UNCHANGED activityVars
    BY <1>1, <2>2 DEF activityVars, ActivityInv, ActivityTypeOK, SeenExact, WaitingQueued,
                      AnswerHolds, EntryPermitted
  <2> QED BY <1>1, <2>1, <2>2, UpdateKeeps, BeginKeeps, ReadPolicyKeeps, PolicyFailsKeeps,
             CommitUpdateKeeps, CommitRefreshKeeps, ChangePolicyKeeps, RefreshKeeps,
             TimeKeeps, ExpireKeeps DEF ActivityNext, Work
<1> QED BY <1>1, ActivityStarts, PTL DEF ActivitySpec

\* A privacy change that was announced and looked at holds for every friend, for
\* any number of desktops, reports and changes in flight (rich-activity.ts).
THEOREM ActivityIsPrivate == ActivitySpec => []PrivacyHolds
<1>1. ASSUME ActivityInv, ~owed, ~dirty, NEW f \in Friends, seen[f] # "nothing"
      PROVE  f \in policy.to /\ Permitted(seen[f], policy)
  <2>1. f \in audience /\ seen[f] = entry.report
    BY <1>1 DEF ActivityInv, SeenExact
  <2>2. entry.on
    BY <1>1, <2>1 DEF ActivityInv, SeenExact
  <2> QED BY <1>1, <2>1, <2>2 DEF ActivityInv, EntryPermitted, Permitted
<1>2. ActivityInv => PrivacyHolds
  BY <1>1 DEF PrivacyHolds
<1> QED BY <1>2, ActivityInvariant, PTL

-----------------------------------------------------------------------------
(***************************************************************************)
(* Message subscriptions settle, for any number of channels, calls and     *)
(* changes of permission.                                                  *)
(*                                                                         *)
(* Only the call at the head of the queue works on the rooms.  The socket  *)
(* is in no full room but that of its watch, one a leave is about to take  *)
(* away, or one a superseded call is about to undo.  For a channel that    *)
(* may not be seen either a reconciliation has still to leave it, or no    *)
(* call that is up to date asks for it, or its permission changed silently *)
(* since one read it.  And while no changes cross, a reconciliation has    *)
(* put right what it is done with, nothing changes silently before its     *)
(* end, and nothing touches a watch that was granted.                      *)
(***************************************************************************)
Underway(i) == order[i].stage \in {"checking", "waiting", "leaving", "joining", "undoing"}
AtWork(i) == order[i].stage \in {"leaving", "joining", "undoing"}

CallsInTurn ==
  \A i \in Watches :
    /\ AtWork(i) => updates # <<>> /\ Head(updates) = i
    /\ order[i].stage = "leaving" => watch \in {order[i].previous, NoContext}
    /\ order[i].stage = "joining" => watch \notin full
    /\ order[i].stage \in {"checking", "joining", "undoing"} => order[i].id \in Contexts

CallsNumbered ==
  /\ \A i \in Watches : Underway(i) => /\ order[i].seq <= sequence
                                       /\ order[i].seq = sequence => order[i].id = asked
  /\ \A i, j \in Watches :
       Underway(i) /\ Underway(j) /\ order[i].seq = order[j].seq => i = j

WorkInOrder ==
  \A k \in Changed :
    /\ reconciling[k].stage # "working" => reconciling[k].todo = {} /\ reconciling[k].step = "next"
    /\ reconciling[k].step # "next" =>
         /\ reconciling[k].at \in Contexts
         /\ reconciling[k].at \notin reconciling[k].todo \cup reconciling[k].seen

Leaving(c) == \E k \in Changed : reconciling[k].step = "full" /\ reconciling[k].at = c
Undoing(c) == \E i \in Watches : order[i].stage = "undoing" /\ order[i].id = c

FullAccounted == \A c \in full : c = watch \/ Leaving(c) \/ Undoing(c)

\* A reconciliation has still to leave the channel.
WillLeave(c) ==
  \E k \in Changed :
    \/ reconciling[k].stage = "reading"
    \/ (reconciling[k].stage = "working" /\ c \in reconciling[k].todo \ reconciling[k].seen)

\* No call that is up to date will join its full room.
NotComing(c) ==
  /\ \A i \in Watches :
       order[i].id = c /\ order[i].stage \in {"waiting", "leaving", "joining"} => OutOfDate(i)
  /\ c \in full => Leaving(c) \/ Undoing(c)

HiddenLeft == \A c \in Contexts \ (access \cup silent) : WillLeave(c) \/ NotComing(c)

\* What reconciliation k has put right.
PutRight(k) ==
  LET r == reconciling[k] IN
  r.stage = "working" =>
    /\ r.seen = access
    /\ \A c \in Contexts \ r.todo :
         /\ (r.step # "next" /\ c = r.at) \/ (c \in base <=> c \in access)
         /\ (r.step \in {"full", "background"} /\ c = r.at)
              \/ (c \in background <=> c \in access)

\* The rooms are what may be seen, of the channels that are not in question.
RoomsMatch(rooms, seeable) == \A c \in Contexts \ silent : c \in rooms <=> c \in seeable

RoomsRight ==
  ~crossed =>
    /\ joining \subseteq access
    /\ \A k, l \in Changed : Reconciles(k) /\ Reconciles(l) => k = l
    /\ \A k \in Changed : PutRight(k) /\ (reconciling[k].stage = "working" => silent = {})
    /\ (\A k \in Changed : ~Reconciles(k))
         => RoomsMatch(base, access) /\ RoomsMatch(background, access)

GrantHolds ==
  ~crossed /\ granted # NoContext =>
    /\ watch = granted /\ asked = granted /\ granted \in full /\ ~Leaving(granted)
    /\ \A i \in Watches : ~AtWork(i) /\ (Underway(i) => OutOfDate(i))

WatchInv ==
  /\ WatchTypeOK /\ CallsInTurn /\ CallsNumbered /\ WorkInOrder
  /\ FullAccounted /\ HiddenLeft /\ RoomsRight /\ GrantHolds

-----------------------------------------------------------------------------
(* Types and operators                                                     *)

LEMMA FirstIsIn ==
  ASSUME NEW used \in SUBSET Nat, used # {}
  PROVE  First(used) \in used
<1> DEFINE less == {pair \in Nat \X Nat : pair[1] < pair[2]}
<1>1. IsWellFoundedOn(less, Nat)
  BY NatLessThanWellFounded DEF OpToRel
<1>2. PICK least \in used : \A other \in used : ~(<<other, least>> \in less)
  <2> HIDE DEF less
  <2> QED BY <1>1, WFMin
<1>3. \A other \in used : least <= other
  <2> SUFFICES ASSUME NEW other \in used, other < least PROVE FALSE
    OBVIOUS
  <2>1. other \in Nat /\ least \in Nat OBVIOUS
  <2>2. <<other, least>> \in less BY <2>1
  <2> QED BY <1>2, <2>2
<1> QED BY <1>3 DEF First

LEMMA QueueTyped ==
  ASSUME NEW S, NEW q \in Seq(S), NEW e \in S
  PROVE  /\ Append(q, e) \in Seq(S) /\ Append(q, e) # <<>>
         /\ q # <<>> => Head(Append(q, e)) = Head(q) /\ Tail(q) \in Seq(S) /\ Head(q) \in S
<1> QED BY AppendProperties, HeadTailAppend, HeadTailProperties

Orders == [stage : {"new", "checking", "waiting", "leaving", "joining", "undoing", "done"},
           id : Maybe, seq : Nat, previous : Maybe]

\* A call goes on, or is over.
LEMMA CallMoves ==
  ASSUME WatchTypeOK, NEW i \in Watches, NEW into \in {"waiting", "joining", "undoing"},
         order' = [order EXCEPT ![i] = [@ EXCEPT !.stage = into]]
  PROVE  /\ order' \in [Watches -> Orders]
         /\ \A j \in Watches : j # i => order'[j] = order[j]
         /\ order'[i].stage = into /\ order'[i].id = order[i].id
         /\ order'[i].seq = order[i].seq /\ order'[i].previous = order[i].previous
<1>1. order \in [Watches -> Orders]
  BY DEF WatchTypeOK, Orders
<1> DEFINE moved == [order[i] EXCEPT !.stage = into]
<1>2. /\ moved \in Orders /\ moved.stage = into /\ moved.id = order[i].id
      /\ moved.seq = order[i].seq /\ moved.previous = order[i].previous
  BY <1>1 DEF Orders
<1>3. order' = [order EXCEPT ![i] = moved]
  OBVIOUS
<1> HIDE DEF moved
<1> QED BY <1>1, <1>2, <1>3

LEMMA CallEnds ==
  ASSUME WatchTypeOK, NEW i \in Watches,
         order' = [order EXCEPT ![i] = [NoOrder EXCEPT !.stage = "done"]]
  PROVE  /\ order' \in [Watches -> Orders]
         /\ \A j \in Watches : j # i => order'[j] = order[j]
         /\ order'[i].stage = "done" /\ order'[i].id = NoContext
<1>1. order \in [Watches -> Orders]
  BY DEF WatchTypeOK, Orders
<1>2. PICK ended : ended = [NoOrder EXCEPT !.stage = "done"] OBVIOUS
<1>3. ended \in Orders /\ ended.stage = "done" /\ ended.id = NoContext
  BY <1>2 DEF Orders, NoOrder, Maybe
<1> QED BY <1>1, <1>2, <1>3

LEMMA CallGoes ==
  ASSUME WatchTypeOK, NEW i \in Watches, updates # <<>>, NEW into \in {"joining", "undoing", "done"},
         Goes(i, into)
  PROVE  /\ order' \in [Watches -> Orders]
         /\ \A j \in Watches : j # i => order'[j] = order[j]
         /\ order'[i].stage = into
         /\ into # "done" => /\ order'[i].id = order[i].id /\ order'[i].seq = order[i].seq
                             /\ updates' = updates
         /\ into = "done" => order'[i].id = NoContext
         /\ updates' \in Seq(Watches)
<1>1. updates \in Seq(Watches) /\ Tail(updates) \in Seq(Watches)
  BY HeadTailProperties DEF WatchTypeOK
<1>2. CASE into = "done"
  BY <1>1, <1>2, CallEnds DEF Goes
<1>3. CASE into # "done"
  <2>1. order' = [order EXCEPT ![i] = [@ EXCEPT !.stage = into]] /\ updates' = updates
    BY <1>3 DEF Goes
  <2> QED BY <1>1, <1>3, <2>1, CallMoves
<1> QED BY <1>2, <1>3

-----------------------------------------------------------------------------
(* The calls of the device                                                 *)

LEMMA WatchKeeps ==
  ASSUME WatchInv, NEW c \in Maybe, Watch(c)
  PROVE  WatchInv'
<1> USE DEF WatchInv
<1> DEFINE unused == {i \in Watches : order[i].stage = "new"}
<1>1. PICK i \in Watches : i = First(unused) /\ order[i].stage = "new"
  <2>1. unused # {} /\ unused \in SUBSET Nat
    BY DEF Watch, Watches
  <2> HIDE DEF unused
  <2>2. First(unused) \in unused
    BY <2>1, FirstIsIn
  <2> QED BY <2>2 DEF unused
<1>2. PICK asks : asks = [NoOrder EXCEPT !.id = c, !.seq = sequence + 1,
                            !.stage = IF c = NoContext THEN "waiting" ELSE "checking"]
  OBVIOUS
<1>3. /\ asks \in Orders /\ asks.id = c /\ asks.seq = sequence + 1
      /\ asks.stage = IF c = NoContext THEN "waiting" ELSE "checking"
  <2>1. sequence + 1 \in Nat /\ c \in Maybe /\ NoContext \in Maybe
    BY DEF WatchTypeOK, Maybe
  <2>2. CASE c = NoContext
    BY <1>2, <2>1, <2>2 DEF Orders, NoOrder
  <2>3. CASE c # NoContext
    BY <1>2, <2>1, <2>3 DEF Orders, NoOrder
  <2> QED BY <2>2, <2>3
<1>4. /\ sequence' = sequence + 1 /\ asked' = c /\ granted' = NoContext
      /\ order' = [order EXCEPT ![i] = asks]
      /\ updates' = IF c = NoContext THEN Append(updates, i) ELSE updates
      /\ UNCHANGED <<access, base, background, full, watch, reconciling, joining, crossed,
                     silent>>
  BY <1>1, <1>2 DEF Watch
<1>5. /\ order' \in [Watches -> Orders] /\ order'[i] = asks
      /\ \A j \in Watches : j # i => order'[j] = order[j]
  BY <1>3, <1>4 DEF WatchTypeOK, Orders
<1>6. updates' \in Seq(Watches) /\ (updates # <<>> => updates' # <<>> /\ Head(updates') = Head(updates))
  BY <1>4, QueueTyped DEF WatchTypeOK
<1>7. WatchTypeOK'
  BY <1>4, <1>5, <1>6 DEF WatchTypeOK, Orders, Maybe
<1>8. CallsInTurn'
  BY <1>3, <1>4, <1>5, <1>6 DEF CallsInTurn, AtWork, Maybe
<1>9. CallsNumbered'
  <2>1. \A j \in Watches : order[j].seq \in Nat /\ sequence \in Nat
    BY DEF WatchTypeOK
  <2>2. \A j \in Watches : j # i /\ Underway(j)' => Underway(j) /\ order'[j].seq <= sequence
    BY <1>5 DEF CallsNumbered, Underway
  <2> QED BY <1>3, <1>4, <1>5, <2>1, <2>2 DEF CallsNumbered
<1>10. \A d : /\ Leaving(d)' <=> Leaving(d)
              /\ Undoing(d)' <=> Undoing(d)
              /\ WillLeave(d)' <=> WillLeave(d)
  BY <1>1, <1>3, <1>4, <1>5 DEF Leaving, Undoing, WillLeave
<1>11. ASSUME NEW d \in Contexts, NotComing(d) PROVE NotComing(d)'
  <2>1. ASSUME NEW j \in Watches, order'[j].id = d, order'[j].stage \in {"waiting", "leaving", "joining"}
        PROVE  OutOfDate(j)'
    <3>1. j # i
      BY <1>3, <1>5, <2>1, WatchAssumption
    <3>2. order'[j] = order[j] /\ order[j].seq <= sequence
      BY <1>5, <2>1, <3>1 DEF CallsNumbered, Underway
    <3> QED BY <1>4, <3>2 DEF OutOfDate, WatchTypeOK
  <2> QED BY <1>4, <1>10, <1>11, <2>1 DEF NotComing
<1>12. WorkInOrder' /\ FullAccounted' /\ HiddenLeft'
  BY <1>4, <1>10, <1>11 DEF WorkInOrder, FullAccounted, HiddenLeft
<1>13. RoomsRight' /\ GrantHolds'
  BY <1>4 DEF RoomsRight, GrantHolds, PutRight, Reconciles, RoomsMatch
<1> QED BY <1>7, <1>8, <1>9, <1>12, <1>13

\* What the work of a call leaves alone.
LEMMA CallKeeps ==
  ASSUME WatchInv, UNCHANGED <<access, base, background, sequence, asked, reconciling,
                               joining, crossed, silent>>
  PROVE  /\ WorkInOrder' /\ RoomsRight'
         /\ \A d : (Leaving(d)' <=> Leaving(d)) /\ (WillLeave(d)' <=> WillLeave(d))
<1> QED BY DEF WatchInv, WorkInOrder, RoomsRight, PutRight, Reconciles, Leaving,
           WillLeave, RoomsMatch

LEMMA NumbersKept ==
  ASSUME CallsNumbered, UNCHANGED <<sequence, asked>>,
         \A j \in Watches : Underway(j)' => /\ Underway(j) /\ order'[j].seq = order[j].seq
                                            /\ order'[j].id = order[j].id
  PROVE  CallsNumbered'
<1> QED BY DEF CallsNumbered

LEMMA CheckedKeeps ==
  ASSUME WatchInv, NEW i \in Watches, Checked(i)
  PROVE  WatchInv'
<1> USE DEF WatchInv
<1>1. /\ order[i].stage = "checking" /\ order[i].id \in Contexts
      /\ UNCHANGED <<access, base, background, full, sequence, asked, watch, reconciling,
                     joining, granted, crossed, silent>>
  BY DEF Checked, CallsInTurn
<1>2. /\ order' \in [Watches -> Orders]
      /\ \A j \in Watches : j # i => order'[j] = order[j]
      /\ order'[i].stage = "waiting" =>
           order[i].id \in access /\ order'[i].id = order[i].id /\ order'[i].seq = order[i].seq
      /\ order'[i].stage # "waiting" => order'[i].stage = "done" /\ order'[i].id = NoContext
      /\ updates' \in {updates, Append(updates, i)}
  <2>1. CASE order[i].id \in access
    <3>1. order' = [order EXCEPT ![i] = [@ EXCEPT !.stage = "waiting"]] /\ updates' = Append(updates, i)
      BY <2>1 DEF Checked
    <3> QED BY <2>1, <3>1, CallMoves
  <2>2. CASE order[i].id \notin access
    <3>1. order' = [order EXCEPT ![i] = [NoOrder EXCEPT !.stage = "done"]] /\ updates' = updates
      BY <2>2 DEF Checked
    <3> QED BY <3>1, CallEnds
  <2> QED BY <2>1, <2>2
<1>3. updates' \in Seq(Watches) /\ (updates # <<>> => updates' # <<>> /\ Head(updates') = Head(updates))
  <2>1. updates \in Seq(Watches)
    BY DEF WatchTypeOK
  <2>2. /\ Append(updates, i) \in Seq(Watches) /\ Append(updates, i) # <<>>
        /\ updates # <<>> => Head(Append(updates, i)) = Head(updates)
    BY <2>1, QueueTyped
  <2> QED BY <1>2, <2>1, <2>2
<1>4. WatchTypeOK'
  BY <1>1, <1>2, <1>3 DEF WatchTypeOK, Orders
<1>5. CallsInTurn'
  BY <1>1, <1>2, <1>3 DEF CallsInTurn, AtWork
<1>6. CallsNumbered'
  BY <1>1, <1>2, NumbersKept DEF Underway
<1>7. \A d : Undoing(d)' <=> Undoing(d)
  BY <1>1, <1>2 DEF Undoing
<1>8. HiddenLeft'
  BY <1>1, <1>2, <1>7, CallKeeps DEF HiddenLeft, NotComing, OutOfDate
<1>9. FullAccounted'
  BY <1>1, <1>7, CallKeeps DEF FullAccounted
<1>10. GrantHolds'
  BY <1>1, <1>2 DEF GrantHolds, AtWork, Underway, OutOfDate, Leaving
<1> QED BY <1>1, <1>4, <1>5, <1>6, <1>8, <1>9, <1>10, CallKeeps

LEMMA BeginKeepsWatch ==
  ASSUME WatchInv, NEW i \in Watches, BeginUpdate(i)
  PROVE  WatchInv'
<1> USE DEF WatchInv
<1>1. /\ order[i].stage = "waiting" /\ updates # <<>> /\ Head(updates) = i
      /\ UNCHANGED <<access, base, background, full, sequence, asked, watch, reconciling,
                     joining, granted, crossed, silent>>
  BY DEF BeginUpdate
<1>2. \A j \in Watches : ~AtWork(j)
  BY <1>1 DEF CallsInTurn, AtWork
<1>3. /\ order' \in [Watches -> Orders] /\ updates' \in Seq(Watches)
      /\ \A j \in Watches : j # i => order'[j] = order[j]
      /\ order'[i].stage \in {"done", "leaving", "joining"}
      /\ order'[i].stage = "done" => order'[i].id = NoContext
      /\ order'[i].stage # "done" =>
           /\ ~OutOfDate(i) /\ updates' = updates
           /\ order'[i].id = order[i].id /\ order'[i].seq = order[i].seq
      /\ order'[i].stage = "leaving" => order'[i].previous = watch
      /\ order'[i].stage = "joining" => watch = NoContext /\ order[i].id \in base
  <2>1. CASE Goes(i, "done")
    BY <1>1, <2>1, CallGoes
  <2>2. CASE /\ ~OutOfDate(i)
             /\ order' = [order EXCEPT ![i].stage = "leaving", ![i].previous = watch]
             /\ UNCHANGED updates
    <3>1. PICK left : left = [order[i] EXCEPT !.stage = "leaving", !.previous = watch] OBVIOUS
    <3>2. order \in [Watches -> Orders] /\ watch \in Maybe
      BY DEF WatchTypeOK, Orders
    <3>3. /\ left \in Orders /\ left.stage = "leaving" /\ left.previous = watch
          /\ left.id = order[i].id /\ left.seq = order[i].seq
      BY <3>1, <3>2 DEF Orders
    <3>4. order' = [order EXCEPT ![i] = left]
      BY <2>2, <3>1, <3>2
    <3>5. /\ order' \in [Watches -> Orders] /\ order'[i] = left
          /\ \A j \in Watches : j # i => order'[j] = order[j]
      BY <3>2, <3>3, <3>4
    <3> QED BY <2>2, <3>3, <3>5 DEF WatchTypeOK
  <2>3. CASE ~OutOfDate(i) /\ order[i].id \in base /\ watch = NoContext /\ Goes(i, "joining")
    BY <1>1, <2>3, CallGoes
  <2> QED BY <2>1, <2>2, <2>3 DEF BeginUpdate
<1>4. WatchTypeOK'
  BY <1>1, <1>3 DEF WatchTypeOK, Orders
<1>5. CallsInTurn'
  <2>1. NoContext \notin full /\ base \subseteq Contexts
    BY WatchAssumption DEF WatchTypeOK
  <2> QED BY <1>1, <1>2, <1>3, <2>1 DEF CallsInTurn, AtWork
<1>6. CallsNumbered'
  BY <1>1, <1>3, NumbersKept DEF Underway
<1>7. \A d : Undoing(d)' <=> Undoing(d)
  BY <1>1, <1>3 DEF Undoing
<1>8. HiddenLeft'
  <2>1. ASSUME NEW d, NotComing(d) PROVE NotComing(d)'
    BY <1>1, <1>3, <1>7, <2>1, CallKeeps DEF NotComing, OutOfDate
  <2> QED BY <1>1, <2>1, CallKeeps DEF HiddenLeft
<1>9. FullAccounted'
  BY <1>1, <1>7, CallKeeps DEF FullAccounted
<1>10. GrantHolds'
  BY <1>1, <1>3 DEF GrantHolds, AtWork, Underway, OutOfDate, Leaving
<1> QED BY <1>1, <1>4, <1>5, <1>6, <1>8, <1>9, <1>10, CallKeeps

LEMMA LeftKeeps ==
  ASSUME WatchInv, NEW i \in Watches, LeftPrevious(i)
  PROVE  WatchInv'
<1> USE DEF WatchInv
<1>1. /\ order[i].stage = "leaving" /\ updates # <<>> /\ Head(updates) = i
      /\ full' = full \ {order[i].previous} /\ watch \in {order[i].previous, NoContext}
      /\ watch' \in {watch, NoContext}
      /\ UNCHANGED <<access, base, background, sequence, asked, reconciling, joining, granted,
                     crossed, silent>>
  BY DEF LeftPrevious, CallsInTurn, AtWork
<1>2. \A j \in Watches : j # i => ~AtWork(j)
  BY <1>1 DEF CallsInTurn
<1>3. /\ order' \in [Watches -> Orders] /\ updates' \in Seq(Watches)
      /\ \A j \in Watches : j # i => order'[j] = order[j]
      /\ order'[i].stage \in {"done", "joining"}
      /\ order'[i].stage = "done" => order'[i].id = NoContext
      /\ order'[i].stage = "joining" =>
           /\ ~OutOfDate(i) /\ updates' = updates /\ order[i].id # NoContext
           /\ order'[i].id = order[i].id /\ order'[i].seq = order[i].seq
  BY <1>1, CallGoes DEF LeftPrevious
<1>4. NoContext \notin full
  BY WatchAssumption DEF WatchTypeOK
<1>5. WatchTypeOK'
  BY <1>1, <1>3 DEF WatchTypeOK, Orders, Maybe
<1>6. CallsInTurn'
  <2>1. order[i].id \in Maybe
    BY DEF WatchTypeOK
  <2>2. watch' \notin full'
    BY <1>1, <1>4
  <2> QED BY <1>1, <1>2, <1>3, <2>1, <2>2 DEF CallsInTurn, AtWork, Maybe
<1>7. CallsNumbered'
  BY <1>1, <1>3, NumbersKept DEF Underway
<1>8. \A d : Undoing(d)' <=> Undoing(d)
  BY <1>1, <1>3 DEF Undoing
<1>9. HiddenLeft'
  <2>1. ASSUME NEW d, NotComing(d) PROVE NotComing(d)'
    BY <1>1, <1>3, <1>8, <2>1, CallKeeps DEF NotComing, OutOfDate
  <2> QED BY <1>1, <2>1, CallKeeps DEF HiddenLeft
<1>10. FullAccounted'
  <2>1. ASSUME NEW d \in full' PROVE d # watch
    BY <1>1, <1>4, <2>1
  <2> QED BY <1>1, <1>8, <2>1, CallKeeps DEF FullAccounted
<1>11. GrantHolds'
  BY <1>1 DEF GrantHolds, AtWork
<1> QED BY <1>1, <1>5, <1>6, <1>7, <1>9, <1>10, <1>11, CallKeeps

LEMMA JoinedKeeps ==
  ASSUME WatchInv, NEW i \in Watches, JoinedFull(i)
  PROVE  WatchInv'
<1> USE DEF WatchInv
<1>0. PICK c : c = order[i].id OBVIOUS
<1>1. /\ order[i].stage = "joining" /\ updates # <<>> /\ Head(updates) = i
      /\ c \in Contexts /\ watch \notin full /\ full' = full \cup {c}
      /\ UNCHANGED <<access, base, background, sequence, asked, reconciling, joining, crossed,
                     silent>>
  BY <1>0 DEF JoinedFull, CallsInTurn, AtWork
<1>2. \A j \in Watches : j # i => ~AtWork(j)
  BY <1>1 DEF CallsInTurn
<1>3. /\ order' \in [Watches -> Orders] /\ updates' \in Seq(Watches)
      /\ \A j \in Watches : j # i => order'[j] = order[j]
      /\ order'[i].stage \in {"done", "undoing"}
      /\ order'[i].stage = "done" =>
           order'[i].id = NoContext /\ ~OutOfDate(i) /\ watch' = c /\ granted' = c
      /\ order'[i].stage = "undoing" =>
           /\ OutOfDate(i) /\ updates' = updates /\ watch' = watch /\ granted' = granted
           /\ order'[i].id = c /\ order'[i].seq = order[i].seq
  BY <1>0, <1>1, CallGoes DEF JoinedFull
<1>4. WatchTypeOK'
  BY <1>1, <1>3 DEF WatchTypeOK, Orders, Maybe
<1>5. CallsInTurn'
  BY <1>1, <1>2, <1>3 DEF CallsInTurn, AtWork
<1>6. CallsNumbered'
  BY <1>0, <1>1, <1>3, NumbersKept DEF Underway
<1>7. ASSUME NEW d PROVE Undoing(d) => Undoing(d)'
  BY <1>1, <1>3 DEF Undoing
<1>8. HiddenLeft'
  <2>1. ASSUME NEW d \in Contexts, NotComing(d) PROVE NotComing(d)'
    <3>1. ASSUME NEW j \in Watches, order'[j].id = d, order'[j].stage \in {"waiting", "leaving", "joining"}
          PROVE  OutOfDate(j)'
      BY <1>0, <1>1, <1>3, <2>1, <3>1 DEF NotComing, OutOfDate
    <3>2. ASSUME d = c PROVE Undoing(d)'
      <4>1. OutOfDate(i)
        BY <1>0, <1>1, <2>1, <3>2 DEF NotComing
      <4> QED BY <1>3, <3>2, <4>1 DEF Undoing
    <3> QED BY <1>1, <1>7, <2>1, <3>1, <3>2, CallKeeps DEF NotComing
  <2> QED BY <1>1, <2>1, CallKeeps DEF HiddenLeft
<1>9. FullAccounted'
  <2>1. c = watch' \/ Undoing(c)'
    BY <1>3 DEF Undoing
  <2>2. ASSUME NEW d \in full PROVE Leaving(d) \/ Undoing(d)
    BY <1>1, <2>2 DEF FullAccounted
  <2> QED BY <1>1, <1>7, <2>1, <2>2, CallKeeps DEF FullAccounted
<1>10. GrantHolds'
  <2>1. CASE order'[i].stage = "undoing"
    BY <1>1, <1>3, <2>1 DEF GrantHolds, AtWork
  <2>2. CASE order'[i].stage = "done"
    <3> SUFFICES ASSUME ~crossed PROVE GrantHolds'
      BY <1>1 DEF GrantHolds
    <3>1. order[i].seq = sequence /\ asked = c
      BY <1>0, <1>1, <1>3, <2>2 DEF OutOfDate, CallsNumbered, Underway
    <3>2. ~NotComing(c)
      BY <1>0, <1>1, <1>3, <2>2 DEF NotComing
    <3>3. ~Leaving(c)
      <4> SUFFICES ASSUME NEW k \in Changed, reconciling[k].step = "full", reconciling[k].at = c
                   PROVE  FALSE
        BY DEF Leaving
      <4>1. /\ reconciling[k].stage = "working" /\ c \notin reconciling[k].todo
            /\ c \notin reconciling[k].seen
        BY DEF WorkInOrder
      <4>2. c \notin access
        BY <4>1 DEF RoomsRight, PutRight, Reconciles
      <4>3. WillLeave(c)
        BY <1>1, <3>2, <4>1, <4>2 DEF HiddenLeft, RoomsRight
      <4> QED BY <4>1, <4>3 DEF WillLeave, RoomsRight, Reconciles
    <3>4. \A j \in Watches : j # i /\ Underway(j) => order[j].seq # sequence
      BY <1>1, <3>1 DEF CallsNumbered, Underway
    <3>5. \A j \in Watches : (~AtWork(j))' /\ (Underway(j)' => OutOfDate(j)')
      BY <1>1, <1>2, <1>3, <2>2, <3>4 DEF AtWork, Underway, OutOfDate
    <3> QED BY <1>1, <1>3, <2>2, <3>1, <3>3, <3>5, CallKeeps DEF GrantHolds
  <2> QED BY <1>3, <2>1, <2>2
<1> QED BY <1>1, <1>4, <1>5, <1>6, <1>8, <1>9, <1>10, CallKeeps

LEMMA UndoneKeeps ==
  ASSUME WatchInv, NEW i \in Watches, Undone(i)
  PROVE  WatchInv'
<1> USE DEF WatchInv
<1> DEFINE c == order[i].id
<1>1. /\ order[i].stage = "undoing" /\ updates # <<>> /\ Head(updates) = i
      /\ c \in Contexts /\ full' = full \ {c}
      /\ UNCHANGED <<access, base, background, sequence, asked, watch, reconciling, joining,
                     granted, crossed, silent>>
  BY DEF Undone, CallsInTurn, AtWork
<1>2. \A j \in Watches : j # i => ~AtWork(j)
  BY <1>1 DEF CallsInTurn
<1>3. /\ order' \in [Watches -> Orders] /\ updates' \in Seq(Watches)
      /\ \A j \in Watches : j # i => order'[j] = order[j]
      /\ order'[i].stage = "done" /\ order'[i].id = NoContext
  BY <1>1, CallGoes DEF Undone
<1>4. WatchTypeOK'
  BY <1>1, <1>3 DEF WatchTypeOK, Orders, Maybe
<1>5. CallsInTurn'
  BY <1>1, <1>2, <1>3 DEF CallsInTurn, AtWork
<1>6. CallsNumbered'
  BY <1>1, <1>3, NumbersKept DEF Underway
<1>7. ASSUME NEW d, d # c PROVE Undoing(d) => Undoing(d)'
  BY <1>1, <1>3, <1>7 DEF Undoing
<1>8. HiddenLeft'
  <2>1. ASSUME NEW d, NotComing(d) PROVE NotComing(d)'
    BY <1>1, <1>3, <1>7, <2>1, CallKeeps DEF NotComing, OutOfDate
  <2> QED BY <1>1, <2>1, CallKeeps DEF HiddenLeft
<1>9. FullAccounted'
  BY <1>1, <1>7, CallKeeps DEF FullAccounted
<1>10. GrantHolds'
  BY <1>1 DEF GrantHolds, AtWork
<1> QED BY <1>1, <1>4, <1>5, <1>6, <1>8, <1>9, <1>10, CallKeeps

-----------------------------------------------------------------------------
(* Joins, permissions and reconciliations                                  *)

\* What leaves the calls alone leaves these alone.
LEMMA RoomsKeep ==
  ASSUME WatchInv, UNCHANGED <<order, updates>>
  PROVE  /\ watch' = watch /\ full' \subseteq full => CallsInTurn'
         /\ UNCHANGED <<sequence, asked>> => CallsNumbered'
         /\ \A d : Undoing(d)' <=> Undoing(d)
<1> QED BY DEF WatchInv, CallsInTurn, CallsNumbered, AtWork, Underway, Undoing

LEMMA CheckJoinKeeps ==
  ASSUME WatchInv, NEW c \in Contexts, CheckJoin(c)
  PROVE  WatchInv'
<1> USE DEF WatchInv
<1>1. /\ joining' = joining \cup {c} /\ c \in access
      /\ UNCHANGED <<access, base, background, full, sequence, asked, watch, order, updates,
                     reconciling, granted, crossed, silent>>
  BY DEF CheckJoin
<1>2. WatchTypeOK' /\ WorkInOrder'
  BY <1>1 DEF WatchTypeOK, WorkInOrder
<1>3. \A d : (Leaving(d)' <=> Leaving(d)) /\ (WillLeave(d)' <=> WillLeave(d))
  BY <1>1 DEF Leaving, WillLeave
<1>4. FullAccounted' /\ HiddenLeft'
  BY <1>1, <1>3, RoomsKeep DEF FullAccounted, HiddenLeft, NotComing, OutOfDate
<1>5. RoomsRight'
  BY <1>1 DEF RoomsRight, PutRight, Reconciles, RoomsMatch
<1>6. GrantHolds'
  BY <1>1, <1>3 DEF GrantHolds, AtWork, Underway, OutOfDate
<1> QED BY <1>1, <1>2, <1>4, <1>5, <1>6, RoomsKeep

LEMMA JoinsKeeps ==
  ASSUME WatchInv, NEW c \in Contexts, Joins(c)
  PROVE  WatchInv'
<1> USE DEF WatchInv
<1>1. /\ joining' = joining \ {c} /\ c \in joining
      /\ base' = base \cup {c} /\ background' = background \cup {c}
      /\ UNCHANGED <<access, full, sequence, asked, watch, order, updates, reconciling, granted,
                     crossed, silent>>
  BY DEF Joins, Join
<1>2. WatchTypeOK' /\ WorkInOrder'
  BY <1>1 DEF WatchTypeOK, WorkInOrder
<1>3. \A d : (Leaving(d)' <=> Leaving(d)) /\ (WillLeave(d)' <=> WillLeave(d))
  BY <1>1 DEF Leaving, WillLeave
<1>4. FullAccounted' /\ HiddenLeft'
  BY <1>1, <1>3, RoomsKeep DEF FullAccounted, HiddenLeft, NotComing, OutOfDate
<1>5. RoomsRight'
  BY <1>1 DEF RoomsRight, PutRight, Reconciles, RoomsMatch
<1>6. GrantHolds'
  BY <1>1, <1>3 DEF GrantHolds, AtWork, Underway, OutOfDate
<1> QED BY <1>1, <1>2, <1>4, <1>5, <1>6, RoomsKeep

Works == [stage : {"new", "reading", "working", "over", "silent"},
          seen : SUBSET Contexts, todo : SUBSET Contexts, at : Maybe,
          step : {"next", "full", "background", "base"}]

LEMMA ChangeKeeps ==
  ASSUME WatchInv, ChangeAccess
  PROVE  WatchInv'
<1> USE DEF WatchInv
<1> DEFINE unused == {k \in Changed : reconciling[k].stage = "new"}
<1>1. PICK k \in Changed : k = First(unused) /\ reconciling[k].stage = "new"
  <2>1. unused # {} /\ unused \in SUBSET Nat
    BY DEF ChangeAccess, Changed
  <2> HIDE DEF unused
  <2>2. First(unused) \in unused
    BY <2>1, FirstIsIn
  <2> QED BY <2>2 DEF unused
<1>2. /\ reconciling' = [reconciling EXCEPT ![k].stage = "reading"]
      /\ crossed' = (joining # {} \/ \E l \in Changed : Reconciles(l))
      /\ access' \subseteq Contexts
      /\ granted' \in {granted, NoContext} /\ (crossed => granted' = NoContext)
      /\ UNCHANGED <<base, background, full, sequence, asked, watch, order, updates, joining,
                     silent>>
  BY <1>1 DEF ChangeAccess
<1>3. reconciling \in [Changed -> Works]
  BY DEF WatchTypeOK, Works
<1>4. /\ reconciling' \in [Changed -> Works]
      /\ \A l \in Changed : l # k => reconciling'[l] = reconciling[l]
      /\ reconciling'[k].stage = "reading" /\ reconciling'[k].todo = {}
      /\ reconciling'[k].step = "next"
  <2>1. reconciling[k].todo = {} /\ reconciling[k].step = "next"
    BY <1>1 DEF WorkInOrder
  <2> QED BY <1>2, <1>3, <2>1 DEF Works
<1>5. WatchTypeOK'
  BY <1>2, <1>4 DEF WatchTypeOK, Works, Maybe
<1>6. WorkInOrder'
  BY <1>4 DEF WorkInOrder
<1>7. \A d : Leaving(d)' <=> Leaving(d)
  <2>1. reconciling[k].step = "next"
    BY <1>1 DEF WorkInOrder
  <2> QED BY <1>4, <2>1 DEF Leaving
<1>8. \A d : WillLeave(d)'
  BY <1>4 DEF WillLeave
<1>9. FullAccounted' /\ HiddenLeft'
  BY <1>2, <1>7, <1>8, RoomsKeep DEF FullAccounted, HiddenLeft
<1>10. RoomsRight'
  <2> SUFFICES ASSUME ~crossed' PROVE RoomsRight'
    BY DEF RoomsRight
  <2>1. joining = {} /\ \A l \in Changed : l # k => ~Reconciles(l)'
    BY <1>2, <1>4 DEF Reconciles
  <2>2. Reconciles(k)'
    BY <1>4 DEF Reconciles
  <2>3. \A l \in Changed : reconciling'[l].stage # "working"
    BY <1>4, <2>1 DEF Reconciles
  <2> QED BY <1>2, <2>1, <2>2, <2>3 DEF RoomsRight, PutRight
<1>11. GrantHolds'
  BY <1>2, <1>7, WatchAssumption DEF GrantHolds, AtWork, Underway, OutOfDate
<1> QED BY <1>2, <1>5, <1>6, <1>9, <1>10, <1>11, RoomsKeep

\* A change nothing reconciles puts only the channels it changes in question.
LEMMA RoleChangeKeeps ==
  ASSUME WatchInv, RoleChanges
  PROVE  WatchInv'
<1> USE DEF WatchInv
<1> DEFINE unused == {k \in Changed : reconciling[k].stage = "new"}
<1>1. PICK k \in Changed : k = First(unused) /\ reconciling[k].stage = "new"
  <2>1. unused # {} /\ unused \in SUBSET Nat
    BY DEF RoleChanges, Changed
  <2> HIDE DEF unused
  <2>2. First(unused) \in unused
    BY <2>1, FirstIsIn
  <2> QED BY <2>2 DEF unused
<1>2. /\ reconciling' = [reconciling EXCEPT ![k].stage = "silent"]
      /\ crossed' = (crossed \/ joining # {} \/ \E l \in Changed : Reconciles(l))
      /\ access' \subseteq Contexts
      /\ silent' = silent \cup Differ(access, access')
      /\ UNCHANGED <<base, background, full, sequence, asked, watch, order, updates, joining,
                     granted>>
  BY <1>1 DEF RoleChanges
<1>3. reconciling \in [Changed -> Works]
  BY DEF WatchTypeOK, Works
<1>4. /\ reconciling' \in [Changed -> Works]
      /\ \A l \in Changed : l # k => reconciling'[l] = reconciling[l]
      /\ reconciling'[k].stage = "silent" /\ reconciling'[k].todo = {}
      /\ reconciling'[k].step = "next"
  <2>1. reconciling[k].todo = {} /\ reconciling[k].step = "next"
    BY <1>1 DEF WorkInOrder
  <2> QED BY <1>2, <1>3, <2>1 DEF Works
<1>5. WatchTypeOK'
  <2>1. silent' \subseteq Contexts
    BY <1>2 DEF WatchTypeOK, Differ
  <2> QED BY <1>2, <1>4, <2>1 DEF WatchTypeOK, Works, Maybe
<1>6. WorkInOrder'
  BY <1>4 DEF WorkInOrder
<1>7. \A d : (Leaving(d)' <=> Leaving(d)) /\ (WillLeave(d)' <=> WillLeave(d))
  <2>1. reconciling[k].step = "next"
    BY <1>1 DEF WorkInOrder
  <2> QED BY <1>1, <1>4, <2>1 DEF Leaving, WillLeave
<1>8. \A d \in Contexts : d \notin silent' => d \notin silent /\ (d \in access' <=> d \in access)
  BY <1>2 DEF Differ
<1>9. FullAccounted' /\ HiddenLeft'
  BY <1>2, <1>7, <1>8, RoomsKeep DEF FullAccounted, HiddenLeft, NotComing, OutOfDate
<1>10. RoomsRight'
  <2> SUFFICES ASSUME ~crossed' PROVE RoomsRight'
    BY DEF RoomsRight
  <2>1. ~crossed /\ joining = {} /\ \A l \in Changed : ~Reconciles(l)
    BY <1>2
  <2>2. \A l \in Changed : ~Reconciles(l)'
    BY <1>4, <2>1 DEF Reconciles
  <2>3. \A l \in Changed : reconciling'[l].stage # "working"
    BY <2>2 DEF Reconciles
  <2>4. RoomsMatch(base, access) /\ RoomsMatch(background, access)
    BY <2>1 DEF RoomsRight
  <2>5. RoomsMatch(base, access)' /\ RoomsMatch(background, access)'
    BY <1>2, <1>8, <2>4 DEF RoomsMatch
  <2> QED BY <1>2, <2>1, <2>2, <2>3, <2>5 DEF RoomsRight, PutRight
<1>11. GrantHolds'
  BY <1>2, <1>7 DEF GrantHolds, AtWork, Underway, OutOfDate
<1> QED BY <1>2, <1>5, <1>6, <1>9, <1>10, <1>11, RoomsKeep

LEMMA ReadVisibleKeeps ==
  ASSUME WatchInv, NEW k \in Changed, ReadVisible(k)
  PROVE  WatchInv'
<1> USE DEF WatchInv
<1>1. /\ reconciling[k].stage = "reading"
      /\ reconciling' = [reconciling EXCEPT ![k].stage = "working", ![k].seen = access,
                                            ![k].todo = Contexts]
      /\ UNCHANGED <<access, base, background, full, sequence, asked, watch, order, updates,
                     joining, granted, crossed>>
      /\ silent' = {}
  BY DEF ReadVisible
<1>2. reconciling \in [Changed -> Works] /\ reconciling[k].step = "next"
  BY <1>1 DEF WatchTypeOK, Works, WorkInOrder
<1>3. /\ reconciling' \in [Changed -> Works]
      /\ \A l \in Changed : l # k => reconciling'[l] = reconciling[l]
      /\ reconciling'[k].stage = "working" /\ reconciling'[k].todo = Contexts
      /\ reconciling'[k].seen = access /\ reconciling'[k].step = "next"
  <2>1. PICK r : r = [reconciling[k] EXCEPT !.stage = "working", !.seen = access,
                                            !.todo = Contexts]
    OBVIOUS
  <2>2. /\ r \in Works /\ r.stage = "working" /\ r.todo = Contexts
        /\ r.seen = access /\ r.step = "next"
    BY <1>2, <2>1 DEF Works, WatchTypeOK
  <2>3. reconciling' = [reconciling EXCEPT ![k] = r]
    BY <1>1, <1>2, <2>1
  <2> QED BY <1>2, <2>2, <2>3
<1>4. WatchTypeOK' /\ WorkInOrder'
  BY <1>1, <1>3 DEF WatchTypeOK, Works, WorkInOrder
<1>5. \A d : Leaving(d)' <=> Leaving(d)
  BY <1>2, <1>3 DEF Leaving
<1>6. \A d \in Contexts \ access : WillLeave(d)'
  BY <1>3 DEF WillLeave
<1>7. FullAccounted' /\ HiddenLeft'
  BY <1>1, <1>5, <1>6, RoomsKeep DEF FullAccounted, HiddenLeft
<1>8. RoomsRight'
  <2>1. \A l \in Changed : Reconciles(l)' <=> Reconciles(l)
    BY <1>1, <1>3 DEF Reconciles
  <2>2. PutRight(k)'
    BY <1>1, <1>3 DEF PutRight
  <2>3. \A l \in Changed : l # k /\ PutRight(l) => PutRight(l)'
    BY <1>1, <1>3 DEF PutRight
  <2>4. Reconciles(k)'
    BY <1>3 DEF Reconciles
  <2> QED BY <1>1, <2>1, <2>2, <2>3, <2>4 DEF RoomsRight
<1>9. GrantHolds'
  BY <1>1, <1>5 DEF GrantHolds, AtWork, Underway, OutOfDate
<1> QED BY <1>1, <1>4, <1>7, <1>8, <1>9, RoomsKeep

LEMMA JoinNextKeeps ==
  ASSUME WatchInv, NEW k \in Changed, NEW c \in Contexts, JoinNext(k, c)
  PROVE  WatchInv'
<1> USE DEF WatchInv
<1>1. /\ reconciling[k].step = "next" /\ c \in reconciling[k].todo /\ c \in reconciling[k].seen
      /\ reconciling' = [reconciling EXCEPT ![k].todo = @ \ {c}]
      /\ base' = base \cup {c} /\ background' = background \cup {c}
      /\ UNCHANGED <<access, full, sequence, asked, watch, order, updates, joining, granted,
                     crossed, silent>>
  BY DEF JoinNext, Join
<1>2. reconciling \in [Changed -> Works] /\ reconciling[k].stage = "working"
  BY <1>1 DEF WatchTypeOK, Works, WorkInOrder
<1>3. /\ reconciling' \in [Changed -> Works]
      /\ \A l \in Changed : l # k => reconciling'[l] = reconciling[l]
      /\ reconciling'[k].stage = "working" /\ reconciling'[k].todo = reconciling[k].todo \ {c}
      /\ reconciling'[k].seen = reconciling[k].seen /\ reconciling'[k].step = "next"
  BY <1>1, <1>2 DEF Works
<1>4. WatchTypeOK' /\ WorkInOrder'
  BY <1>1, <1>3 DEF WatchTypeOK, Works, WorkInOrder
<1>5. \A d : (Leaving(d)' <=> Leaving(d)) /\ (WillLeave(d) => WillLeave(d)')
  BY <1>1, <1>2, <1>3 DEF Leaving, WillLeave
<1>6. FullAccounted' /\ HiddenLeft'
  BY <1>1, <1>5, RoomsKeep DEF FullAccounted, HiddenLeft, NotComing, OutOfDate
<1>7. RoomsRight'
  <2> SUFFICES ASSUME ~crossed PROVE RoomsRight'
    BY <1>1 DEF RoomsRight
  <2>1. \A l \in Changed : Reconciles(l)' <=> l = k
    BY <1>2, <1>3 DEF Reconciles, RoomsRight
  <2>2. PutRight(k)'
    BY <1>1, <1>2, <1>3 DEF PutRight, RoomsRight
  <2>3. \A l \in Changed : l # k => PutRight(l)'
    BY <2>1 DEF PutRight, Reconciles
  <2> QED BY <1>1, <2>1, <2>2, <2>3 DEF RoomsRight
<1>8. GrantHolds'
  BY <1>1, <1>5 DEF GrantHolds, AtWork, Underway, OutOfDate
<1> QED BY <1>1, <1>4, <1>6, <1>7, <1>8, RoomsKeep

LEMMA LeaveNextKeeps ==
  ASSUME WatchInv, NEW k \in Changed, NEW c \in Contexts, LeaveNext(k, c)
  PROVE  WatchInv'
<1> USE DEF WatchInv
<1>1. /\ reconciling[k].step = "next" /\ c \in reconciling[k].todo /\ c \notin reconciling[k].seen
      /\ reconciling' = [reconciling EXCEPT ![k].todo = @ \ {c}, ![k].at = c, ![k].step = "full"]
      /\ sequence' = IF asked = c THEN sequence + 1 ELSE sequence
      /\ watch' = IF watch = c THEN NoContext ELSE watch
      /\ granted' = IF granted = c THEN NoContext ELSE granted
      /\ UNCHANGED <<access, base, background, full, asked, order, updates, joining, crossed,
                     silent>>
  BY DEF LeaveNext, Fenced
<1>2. reconciling \in [Changed -> Works] /\ reconciling[k].stage = "working"
  BY <1>1 DEF WatchTypeOK, Works, WorkInOrder
<1>3. /\ reconciling' \in [Changed -> Works]
      /\ \A l \in Changed : l # k => reconciling'[l] = reconciling[l]
      /\ reconciling'[k].stage = "working" /\ reconciling'[k].todo = reconciling[k].todo \ {c}
      /\ reconciling'[k].seen = reconciling[k].seen /\ reconciling'[k].at = c
      /\ reconciling'[k].step = "full"
  <2>1. PICK r : r = [reconciling[k] EXCEPT !.todo = @ \ {c}, !.at = c, !.step = "full"]
    OBVIOUS
  <2>2. /\ r \in Works /\ r.stage = "working" /\ r.todo = reconciling[k].todo \ {c}
        /\ r.seen = reconciling[k].seen /\ r.at = c /\ r.step = "full"
    BY <1>2, <2>1 DEF Works, Maybe
  <2>3. reconciling' = [reconciling EXCEPT ![k] = r]
    BY <1>1, <1>2, <2>1
  <2> QED BY <1>2, <2>2, <2>3
<1>4. sequence \in Nat /\ sequence' \in Nat /\ \A i \in Watches : order[i].seq \in Nat
  BY <1>1 DEF WatchTypeOK
<1>5. WatchTypeOK' /\ WorkInOrder'
  BY ZenonT(30), <1>1, <1>3, <1>4 DEF WatchTypeOK, Works, WorkInOrder, Maybe
<1>6. CallsInTurn'
  <2>1. NoContext \notin full
    BY WatchAssumption DEF WatchTypeOK
  <2> QED BY <1>1, <2>1 DEF CallsInTurn, AtWork
<1>7. \A i \in Watches : Underway(i) /\ (asked = c \/ OutOfDate(i)) => OutOfDate(i)'
  BY <1>1, <1>4 DEF CallsNumbered, OutOfDate, Underway
<1>8. CallsNumbered'
  BY <1>1, <1>4, <1>7 DEF CallsNumbered, Underway, OutOfDate
<1>9. /\ \A d : d # c => (Leaving(d)' <=> Leaving(d)) /\ (WillLeave(d) => WillLeave(d)')
      /\ Leaving(c)'
  BY <1>1, <1>2, <1>3 DEF Leaving, WillLeave
<1>10. FullAccounted'
  BY <1>1, <1>9, RoomsKeep DEF FullAccounted
<1>11. HiddenLeft'
  <2>1. ASSUME NEW d \in Contexts, d # c, NotComing(d) PROVE NotComing(d)'
    BY <1>1, <1>7, <1>9, <2>1, RoomsKeep DEF NotComing, Underway
  <2>2. NotComing(c)'
    <3> SUFFICES ASSUME NEW i \in Watches, order[i].id = c,
                        order[i].stage \in {"waiting", "leaving", "joining"}
                 PROVE  OutOfDate(i)'
      BY <1>1, <1>9 DEF NotComing
    <3>1. asked = c \/ OutOfDate(i)
      BY DEF CallsNumbered, Underway, OutOfDate
    <3> QED BY <1>7, <3>1 DEF Underway
  <2> QED BY <1>1, <1>9, <2>1, <2>2 DEF HiddenLeft
<1>12. RoomsRight'
  <2> SUFFICES ASSUME ~crossed PROVE RoomsRight'
    BY <1>1 DEF RoomsRight
  <2>1. \A l \in Changed : Reconciles(l)' <=> l = k
    BY <1>2, <1>3 DEF Reconciles, RoomsRight
  <2>2. PutRight(k)'
    BY <1>1, <1>2, <1>3 DEF PutRight, RoomsRight
  <2>3. \A l \in Changed : l # k => PutRight(l)'
    BY <2>1 DEF PutRight, Reconciles
  <2>4. silent' = {}
    BY <1>1, <1>2 DEF RoomsRight
  <2> QED BY <1>1, <2>1, <2>2, <2>3, <2>4 DEF RoomsRight
<1>13. GrantHolds'
  <2> SUFFICES ASSUME ~crossed, granted # NoContext, granted # c PROVE GrantHolds'
    BY <1>1 DEF GrantHolds
  <2>1. /\ watch = granted /\ asked = granted /\ granted \in full /\ ~Leaving(granted)
        /\ \A i \in Watches : ~AtWork(i) /\ (Underway(i) => OutOfDate(i))
    BY DEF GrantHolds
  <2>2. UNCHANGED <<sequence, watch, granted>> /\ ~Leaving(granted)'
    BY <1>1, <1>9, <2>1
  <2> QED BY <1>1, <2>1, <2>2 DEF GrantHolds, AtWork, Underway, OutOfDate
<1> QED BY <1>5, <1>6, <1>8, <1>10, <1>11, <1>12, <1>13

LEMMA LeavesKeeps ==
  ASSUME WatchInv, NEW k \in Changed, Leaves(k)
  PROVE  WatchInv'
<1> USE DEF WatchInv
<1>0. PICK c : c = reconciling[k].at OBVIOUS
<1>1. /\ UNCHANGED <<access, sequence, asked, watch, order, updates, joining, granted, crossed,
                     silent>>
      /\ \/ /\ reconciling[k].step = "full" /\ full' = full \ {c}
            /\ reconciling' = [reconciling EXCEPT ![k].step = "background"]
            /\ UNCHANGED <<background, base>>
         \/ /\ reconciling[k].step = "background" /\ background' = background \ {c}
            /\ reconciling' = [reconciling EXCEPT ![k].step = "base"]
            /\ UNCHANGED <<full, base>>
         \/ /\ reconciling[k].step = "base" /\ base' = base \ {c}
            /\ reconciling' = [reconciling EXCEPT ![k].step = "next", ![k].at = NoContext]
            /\ UNCHANGED <<full, background>>
  BY <1>0 DEF Leaves
<1>2. /\ reconciling \in [Changed -> Works] /\ reconciling[k].stage = "working"
      /\ c \in Contexts /\ c \notin reconciling[k].todo /\ c \notin reconciling[k].seen
  BY <1>0, <1>1 DEF WatchTypeOK, Works, WorkInOrder
<1>3. /\ reconciling' \in [Changed -> Works]
      /\ \A l \in Changed : l # k => reconciling'[l] = reconciling[l]
      /\ reconciling'[k].stage = "working" /\ reconciling'[k].todo = reconciling[k].todo
      /\ reconciling'[k].seen = reconciling[k].seen
      /\ reconciling'[k].step \in {"background", "base", "next"}
      /\ reconciling'[k].step # "next" => reconciling'[k].at = c
  <2>1. CASE reconciling' = [reconciling EXCEPT ![k].step = "background"]
    BY <1>0, <1>2, <2>1 DEF Works
  <2>2. CASE reconciling' = [reconciling EXCEPT ![k].step = "base"]
    BY <1>0, <1>2, <2>2 DEF Works
  <2>3. CASE reconciling' = [reconciling EXCEPT ![k].step = "next", ![k].at = NoContext]
    <3>1. PICK r : r = [reconciling[k] EXCEPT !.step = "next", !.at = NoContext] OBVIOUS
    <3>2. /\ r \in Works /\ r.stage = "working" /\ r.todo = reconciling[k].todo
          /\ r.seen = reconciling[k].seen /\ r.step = "next"
      BY <1>2, <3>1 DEF Works, Maybe
    <3>3. reconciling' = [reconciling EXCEPT ![k] = r]
      BY <1>2, <2>3, <3>1
    <3> QED BY <1>2, <3>2, <3>3
  <2> QED BY <1>1, <2>1, <2>2, <2>3
<1>4. /\ reconciling[k].step = "full" => reconciling'[k].step = "background"
      /\ reconciling[k].step = "background" => reconciling'[k].step = "base"
      /\ reconciling[k].step = "base" => reconciling'[k].step = "next"
  BY <1>1, <1>2 DEF Works
<1>5. WatchTypeOK' /\ WorkInOrder'
  <2>1. full' \subseteq Contexts /\ base' \subseteq Contexts /\ background' \subseteq Contexts
    BY <1>1 DEF WatchTypeOK
  <2>2. WatchTypeOK'
    BY <1>1, <1>3, <2>1 DEF WatchTypeOK, Works
  <2>3. WorkInOrder'
    BY <1>2, <1>3 DEF WorkInOrder
  <2> QED BY <2>2, <2>3
<1>6. full' \subseteq full
  BY <1>1
<1>7. /\ \A d : (Leaving(d)' => Leaving(d)) /\ (WillLeave(d)' <=> WillLeave(d))
      /\ \A d : d # c => (Leaving(d) => Leaving(d)')
      /\ reconciling[k].step # "full" => (Leaving(c) => Leaving(c)') /\ full' = full
      /\ reconciling[k].step = "full" => c \notin full'
  BY <1>0, <1>1, <1>2, <1>3 DEF Leaving, WillLeave
<1>8. FullAccounted' /\ HiddenLeft'
  BY <1>1, <1>6, <1>7, RoomsKeep DEF FullAccounted, HiddenLeft, NotComing, OutOfDate
<1>9. RoomsRight'
  <2> SUFFICES ASSUME ~crossed PROVE RoomsRight'
    BY <1>1 DEF RoomsRight
  <2>1. \A l \in Changed : Reconciles(l)' <=> l = k
    BY <1>2, <1>3 DEF Reconciles, RoomsRight
  <2>2. reconciling[k].seen = access /\ c \notin access
    BY <1>2 DEF RoomsRight, PutRight, Reconciles
  <2>3. PutRight(k)'
    <3>1. ASSUME NEW d \in Contexts, d \notin reconciling[k].todo
          PROVE  /\ (reconciling[k].step # "next" /\ d = c) \/ (d \in base <=> d \in access)
                 /\ (reconciling[k].step \in {"full", "background"} /\ d = c)
                      \/ (d \in background <=> d \in access)
      BY <1>0, <1>2, <3>1 DEF RoomsRight, PutRight, Reconciles
    <3>2. ASSUME NEW d \in Contexts, d \notin reconciling[k].todo
          PROVE  /\ (reconciling'[k].step # "next" /\ d = c) \/ (d \in base' <=> d \in access)
                 /\ (reconciling'[k].step \in {"full", "background"} /\ d = c)
                      \/ (d \in background' <=> d \in access)
      BY <1>1, <1>4, <2>2, <3>1, <3>2
    <3> QED BY <1>1, <1>3, <2>2, <3>2 DEF PutRight
  <2>4. \A l \in Changed : l # k => PutRight(l)'
    BY <2>1 DEF PutRight, Reconciles
  <2>5. silent' = {}
    BY <1>1, <1>2 DEF RoomsRight
  <2> QED BY <1>1, <2>1, <2>3, <2>4, <2>5 DEF RoomsRight
<1>10. GrantHolds'
  <2> SUFFICES ASSUME ~crossed, granted # NoContext PROVE GrantHolds'
    BY <1>1 DEF GrantHolds
  <2>1. granted \in full /\ ~Leaving(granted)
    BY DEF GrantHolds
  <2>2. granted \in full'
    BY <1>0, <1>1, <2>1 DEF Leaving
  <2> QED BY <1>1, <1>7, <2>1, <2>2 DEF GrantHolds, AtWork, Underway, OutOfDate
<1> QED BY <1>1, <1>5, <1>6, <1>8, <1>9, <1>10, RoomsKeep

LEMMA ReconciledKeeps ==
  ASSUME WatchInv, NEW k \in Changed, Reconciled(k)
  PROVE  WatchInv'
<1> USE DEF WatchInv
<1>1. /\ reconciling[k].stage = "working" /\ reconciling[k].todo = {}
      /\ reconciling[k].step = "next"
      /\ reconciling' = [reconciling EXCEPT ![k] = [NoWork EXCEPT !.stage = "over"]]
      /\ UNCHANGED <<access, base, background, full, sequence, asked, watch, order, updates,
                     joining, granted, crossed, silent>>
  BY DEF Reconciled
<1>2. PICK r : r = [NoWork EXCEPT !.stage = "over"] OBVIOUS
<1>3. r \in Works /\ r.stage = "over" /\ r.todo = {} /\ r.step = "next"
  BY <1>2 DEF Works, NoWork, Maybe
<1>4. /\ reconciling' \in [Changed -> Works] /\ reconciling'[k] = r
      /\ \A l \in Changed : l # k => reconciling'[l] = reconciling[l]
  BY <1>1, <1>2, <1>3 DEF WatchTypeOK, Works
<1>5. WatchTypeOK' /\ WorkInOrder'
  BY <1>1, <1>3, <1>4 DEF WatchTypeOK, Works, WorkInOrder
<1>6. \A d : (Leaving(d)' <=> Leaving(d)) /\ (WillLeave(d) => WillLeave(d)')
  BY <1>1, <1>3, <1>4 DEF Leaving, WillLeave
<1>7. FullAccounted' /\ HiddenLeft'
  BY <1>1, <1>6, RoomsKeep DEF FullAccounted, HiddenLeft, NotComing, OutOfDate
<1>8. RoomsRight'
  <2> SUFFICES ASSUME ~crossed PROVE RoomsRight'
    BY <1>1 DEF RoomsRight
  <2>1. \A l \in Changed : ~Reconciles(l)'
    BY <1>1, <1>3, <1>4 DEF Reconciles, RoomsRight
  <2>2. RoomsMatch(base, access) /\ RoomsMatch(background, access)
    BY <1>1 DEF RoomsRight, PutRight, Reconciles, RoomsMatch
  <2>3. \A l \in Changed : PutRight(l)'
    BY <2>1 DEF PutRight, Reconciles
  <2>4. RoomsMatch(base, access)' /\ RoomsMatch(background, access)'
    BY <1>1, <2>2 DEF RoomsMatch
  <2> QED BY <1>1, <2>1, <2>3, <2>4 DEF RoomsRight, Reconciles
<1>9. GrantHolds'
  BY <1>1, <1>6 DEF GrantHolds, AtWork, Underway, OutOfDate
<1> QED BY <1>1, <1>5, <1>7, <1>8, <1>9, RoomsKeep

-----------------------------------------------------------------------------

LEMMA WatchStarts == WatchInit => WatchInv
<1> SUFFICES ASSUME WatchInit PROVE WatchInv OBVIOUS
<1>1. /\ \A i \in Watches : order[i] = NoOrder
      /\ \A k \in Changed : reconciling[k] = NoWork
      /\ full = {} /\ base = access /\ background = access /\ access = Contexts
      /\ updates = <<>> /\ joining = {} /\ granted = NoContext
  BY DEF WatchInit
<1>2. WatchTypeOK
  <2>1. order \in [Watches -> Orders]
    BY DEF WatchInit, Orders, NoOrder, Maybe
  <2>2. reconciling \in [Changed -> Works]
    BY DEF WatchInit, Works, NoWork, Maybe
  <2>3. updates \in Seq(Watches)
    BY DEF WatchInit
  <2> QED BY <1>1, <2>1, <2>2, <2>3 DEF WatchInit, WatchTypeOK, Orders, Works, Maybe
<1>3. CallsInTurn /\ CallsNumbered /\ WorkInOrder
  BY <1>1 DEF CallsInTurn, CallsNumbered, WorkInOrder, AtWork, Underway, NoOrder, NoWork
<1>4. FullAccounted /\ HiddenLeft /\ GrantHolds
  BY <1>1 DEF FullAccounted, HiddenLeft, GrantHolds
<1>5. RoomsRight
  BY <1>1 DEF RoomsRight, Reconciles, PutRight, NoWork, RoomsMatch
<1> QED BY <1>2, <1>3, <1>4, <1>5 DEF WatchInv

LEMMA WatchInvariant == WatchSpec => []WatchInv
<1>1. ASSUME WatchInv, [WatchNext]_watchVars PROVE WatchInv'
  <2>1. CASE UNCHANGED watchVars
    BY <1>1, <2>1 DEF watchVars, WatchInv, WatchTypeOK, CallsInTurn, CallsNumbered, WorkInOrder,
       FullAccounted, HiddenLeft, RoomsRight, GrantHolds, AtWork, Underway, OutOfDate, Leaving,
       Undoing, WillLeave, NotComing, PutRight, Reconciles, RoomsMatch
  <2> QED BY <1>1, <2>1, WatchKeeps, CheckedKeeps, BeginKeepsWatch, LeftKeeps, JoinedKeeps,
             UndoneKeeps, CheckJoinKeeps, JoinsKeeps, ChangeKeeps, RoleChangeKeeps,
             ReadVisibleKeeps, JoinNextKeeps, LeaveNextKeeps, LeavesKeeps, ReconciledKeeps DEF WatchNext
<1> QED BY <1>1, WatchStarts, PTL DEF WatchSpec

\* Message subscriptions settle where permissions say, for any number of channels,
\* watch calls and permission changes, whatever crosses (message-subscriptions.ts
\* and reconcileChannelRooms of gateway.gateway.ts); channels whose permission changed
\* without a reconciliation, as with an edited role, are in question until the next one.
THEOREM SubscriptionsSettle == WatchSpec => []RoomsSettle
<1>1. ASSUME WatchInv, WatchesDone PROVE RoomsSettle
  <2> USE <1>1 DEF WatchInv
  <2>1. /\ \A i \in Watches : order[i].stage \in {"new", "done"}
        /\ \A k \in Changed : reconciling[k].stage \notin {"reading", "working"}
                              /\ reconciling[k].step = "next"
    BY DEF WatchesDone, Reconciles, WorkInOrder
  <2>2. \A d : ~Leaving(d) /\ ~Undoing(d) /\ ~WillLeave(d)
    BY <2>1 DEF Leaving, Undoing, WillLeave
  <2>3. full \subseteq {watch} /\ full \subseteq access \cup silent
    BY <2>2 DEF FullAccounted, HiddenLeft, NotComing, WatchTypeOK
  <2>4. Cardinality(full) <= 1
    <3>1. full = {} \/ full = {watch}
      BY <2>3
    <3>2. Cardinality({}) = 0 /\ Cardinality({watch}) = 1
      BY FS_EmptySet, FS_Singleton
    <3> QED BY <3>1, <3>2
  <2>5. ~crossed => RoomsMatch(base, access) /\ RoomsMatch(background, access)
    BY <2>1 DEF RoomsRight, Reconciles
  <2>6. base \subseteq Contexts /\ background \subseteq Contexts /\ access \subseteq Contexts
    BY DEF WatchTypeOK
  <2>7. ~crossed => base \ silent = access \ silent /\ background \ silent = access \ silent
    BY <2>5, <2>6 DEF RoomsMatch
  <2>8. ~crossed /\ granted # NoContext => full = {granted}
    BY <2>3 DEF GrantHolds
  <2> QED BY <2>3, <2>4, <2>7, <2>8 DEF RoomsSettle
<1>2. WatchInv => RoomsSettle
  BY <1>1 DEF RoomsSettle
<1> QED BY <1>2, WatchInvariant, PTL
=============================================================================
