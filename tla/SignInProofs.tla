------------------------------ MODULE SignInProofs ------------------------------
(***************************************************************************)
(* One window shows one account, and only its user signs it out, for any   *)
(* number of accounts, requests and refreshes under way.                   *)
(*                                                                         *)
(* The argument is about the flows that are woken at the end of a cleanup. *)
(* One that may still publish an account has found no cleanup pending,     *)
(* and no other flow can begin a cleanup between its waking and its        *)
(* publication: such a flow would be stale, because a login makes all      *)
(* others stale (Apart) and a cleared store makes all that had captured    *)
(* its revision stale.                                                     *)
(*                                                                         *)
(* The second argument is about the chain of refresh tokens.  While no     *)
(* answer was lost and no two accounts are mixed, the token in the store   *)
(* is live, or the answer that replaces it is on its way to a flow that    *)
(* will store it; requests that find a refresh under way share it.  So no  *)
(* refresh of the present session is refused, and nothing but the user     *)
(* ends it.                                                                *)
(***************************************************************************)
EXTENDS SignIn, TLAPS

Waking == {"settling", "settled", "clearing", "cleared"}

\* What a flow knows is true of the store: its token, its account, its revision.
Sound(f, t, u, a, mx) ==
  /\ f.held => t # NoToken /\ f.sender = t.account
  /\ f.at = "rotated" /\ f.reply = "granted" =>
       f.account \in Accounts /\ (f.held => f.account = t.account)
  /\ f.kind = "login" =>
       /\ f.account \in Accounts /\ f.at \in {"asking"} \cup Waking
       /\ f.at \in Waking => f.new
       /\ f.latest => ~a
  /\ f.at \in Waking => f.kind \in Captures \cup {"login"} /\ f.account \in Accounts
  /\ f.kind \in Captures /\ f.sameRevision =>
       /\ t # NoToken /\ f.sender \in Accounts
       /\ ~mx => f.sender = u
       /\ ~mx /\ f.at \in {"settling", "settled"} /\ ~f.new => f.account = u
  /\ ~mx /\ f.at \in {"clearing", "cleared"} => f.new

\* A flow awaits a cleanup that is pending, and may go on when none is.
Awaiting(f, step) ==
  /\ f.at \in {"settling", "clearing"} => step # "none"
  /\ f.at = "settled" /\ f.latest /\ (f.kind = "login" \/ f.sameRevision) => step = "none"
  /\ f.at = "cleared" /\ f.latest => step = "none"

\* Of two flows, one is stale.
Apart(f, g) ==
  /\ f.kind = "login" /\ f.latest /\ g.kind \in Captures \cup {"login"} => ~g.latest
  /\ f.kind \in Captures /\ f.latest /\ f.at \in {"clearing", "cleared"} /\ g.kind \in Captures
       => ~g.sameRevision

\* A refresh request and those who await it agree on its token.
RotationGood(c) ==
  /\ rotation[c].held => rotation[c].reply # "none" /\ rotation[c].account = token.account
  /\ rotation[c].reply # "none" =>
       flow[c].at = "rotating" /\ flow[c].on = c /\ rotation[c].account \in Accounts
  /\ flow[c].at = "rotating" =>
       /\ flow[c].on \in Flows /\ rotation[flow[c].on].reply # "none"
       /\ flow[c].held => rotation[flow[c].on].held

StoreGood ==
  /\ token = NoToken \/ token.account \in Accounts
  /\ authed => cleanup.step = "none"
  /\ ~mixed => /\ token.account = user
               /\ cleanup.step = "none" => data \subseteq {user} \cup cleanup.late
               /\ cleanup.step # "none" => user = NoAccount /\ cleanup.current /\ ~cleanup.failed

FlowsSound == \A c \in Flows : Sound(flow[c], token, user, authed, mixed)
FlowsWait == \A c \in Flows : Awaiting(flow[c], cleanup.step)
FlowsApart == \A c, d \in Flows : c # d => Apart(flow[c], flow[d])
RotationsGood == \A c \in Flows : RotationGood(c)

SignInInv ==
  /\ SignInTypeOK /\ StoreGood
  /\ FlowsSound /\ FlowsWait /\ FlowsApart /\ RotationsGood

-----------------------------------------------------------------------------
(* Types                                                                   *)

FlowRecord ==
  [kind : Kinds, at : FlowPlaces, sender : Accounts \cup {NoAccount}, held : BOOLEAN,
   account : Accounts \cup {NoAccount}, new : BOOLEAN,
   reply : {"none", "granted", "refused", "lost"}, on : Flows \cup {NoFlow},
   sameRevision : BOOLEAN, latest : BOOLEAN]
RotationRecord ==
  [reply : {"none", "open", "granted", "refused"}, account : Accounts \cup {NoAccount},
   held : BOOLEAN, live : BOOLEAN]
CleanupRecord ==
  [step : {"none", "resetting", "purging"}, current : BOOLEAN, failed : BOOLEAN,
   late : SUBSET Accounts]
TokenRecord == [account : Accounts \cup {NoAccount}, live : BOOLEAN, fresh : BOOLEAN]

LEMMA RecordsTyped ==
  ASSUME SignInTypeOK
  PROVE  /\ flow \in [Flows -> FlowRecord] /\ rotation \in [Flows -> RotationRecord]
         /\ token \in TokenRecord
BY DEF SignInTypeOK, FlowRecord, RotationRecord, TokenRecord

LEMMA Constants ==
  /\ Idle \in FlowRecord /\ NoRotation \in RotationRecord /\ NoToken \in TokenRecord
  /\ NoToken.account = NoAccount /\ NoAccount \notin Accounts /\ NoFlow \notin Flows
  /\ \A a \in Accounts : NewToken(a) \in TokenRecord /\ NewToken(a).account = a
BY SignInAssumption DEF Idle, NewFlow, FlowRecord, Kinds, FlowPlaces, NoRotation,
   RotationRecord, NoToken, NewToken, TokenRecord

\* g is f, with what it captured possibly out of date.
Weaker(g, f) ==
  /\ g.kind = f.kind /\ g.at = f.at /\ g.sender = f.sender /\ g.account = f.account
  /\ g.new = f.new /\ g.reply = f.reply /\ g.on = f.on
  /\ g.held => f.held
  /\ g.sameRevision => f.sameRevision
  /\ g.latest => f.latest

LEMMA OutdatedWeakens ==
  ASSUME NEW flows \in [Flows -> FlowRecord], NEW u, NEW t, NEW a
  PROVE  LET o == Outdated(flows, u, t, a) IN
         /\ o \in [Flows -> FlowRecord]
         /\ \A d \in Flows : /\ Weaker(o[d], flows[d]) /\ (o[d].held => t = token)
                             /\ o[d].sameRevision /\ o[d].kind \in Captures
                                  => ~Revises(u, t, a)
<1> DEFINE g(d) == [flows[d] EXCEPT
              !.held = @ /\ t = token,
              !.sameRevision = @ /\ (Revises(u, t, a) => flows[d].kind \notin Captures)]
<1>1. Outdated(flows, u, t, a) = [d \in Flows |-> g(d)]
  BY DEF Outdated
<1>2. ASSUME NEW d \in Flows
      PROVE  /\ g(d) \in FlowRecord
             /\ Weaker(g(d), flows[d])
             /\ g(d).held => t = token
             /\ g(d).sameRevision /\ flows[d].kind \in Captures => ~Revises(u, t, a)
  <2>1. flows[d] \in FlowRecord
    OBVIOUS
  <2>2. (Revises(u, t, a) => flows[d].kind \notin Captures) \in BOOLEAN /\ (t = token) \in BOOLEAN
    OBVIOUS
  <2> HIDE DEF g
  <2>3. g(d) = [flows[d] EXCEPT
              !.held = @ /\ t = token,
              !.sameRevision = @ /\ (Revises(u, t, a) => flows[d].kind \notin Captures)]
    BY DEF g
  <2> QED BY ZenonT(30), <2>1, <2>2, <2>3 DEF FlowRecord, Weaker
<1> HIDE DEF g
<1> QED BY <1>1, <1>2 DEF Weaker

LEMMA AttemptedWeakens ==
  ASSUME NEW flows \in [Flows -> FlowRecord]
  PROVE  LET at == Attempted(flows) IN
         /\ at \in [Flows -> FlowRecord]
         /\ \A d \in Flows : /\ Weaker(at[d], flows[d])
                             /\ at[d].latest => flows[d].kind \in {"none", "request"}
<1> DEFINE g(d) == [flows[d] EXCEPT !.latest = @ /\ flows[d].kind \in {"none", "request"}]
<1>1. Attempted(flows) = [d \in Flows |-> g(d)]
  BY DEF Attempted
<1>2. ASSUME NEW d \in Flows
      PROVE  /\ g(d) \in FlowRecord /\ Weaker(g(d), flows[d])
             /\ g(d).latest => flows[d].kind \in {"none", "request"}
  <2>1. flows[d] \in FlowRecord
    OBVIOUS
  <2> HIDE DEF g
  <2>3. g(d) = [flows[d] EXCEPT !.latest = @ /\ flows[d].kind \in {"none", "request"}]
    BY DEF g
  <2> QED BY <2>1, <2>3 DEF FlowRecord, Weaker
<1> HIDE DEF g
<1> QED BY <1>1, <1>2

-----------------------------------------------------------------------------
(* Flows that only lose what they captured.                                *)

\* The store changes from t, u, a to t2, u2, a2.
LEMMA SoundKept ==
  ASSUME NEW f, NEW g, NEW t, NEW u, NEW a, NEW mx, NEW t2, NEW u2, NEW a2, NEW mx2,
         Sound(f, t, u, a, mx), Weaker(g, f), mx \in BOOLEAN, mx2 \in BOOLEAN, mx => mx2,
         g.held => t2 # NoToken /\ t2.account = t.account,
         g.kind \in Captures /\ g.sameRevision => t2 # NoToken /\ u2 = u,
         g.kind = "login" /\ g.latest => ~a2
  PROVE  Sound(g, t2, u2, a2, mx2)
BY DEF Sound, Weaker

LEMMA WaitsKept ==
  ASSUME NEW f, NEW g, NEW step, Awaiting(f, step), Weaker(g, f)
  PROVE  Awaiting(g, step)
BY DEF Awaiting, Weaker

LEMMA ApartKept ==
  ASSUME NEW f, NEW g, NEW f2, NEW g2, Apart(f, g), Weaker(f2, f), Weaker(g2, g)
  PROVE  Apart(f2, g2)
BY DEF Apart, Weaker

LEMMA IdleIsGood ==
  ASSUME NEW t, NEW u, NEW a, NEW mx, NEW step, NEW f
  PROVE  Sound(Idle, t, u, a, mx) /\ Awaiting(Idle, step) /\ Apart(Idle, f) /\ Apart(f, Idle)
BY DEF Sound, Awaiting, Apart, Idle, NewFlow, Captures, Waking

\* Steps in which no refresh begins or ends.
Alike(g, f) ==
  /\ g.at = "rotating" <=> f.at = "rotating"
  /\ f.at = "rotating" => g.on = f.on /\ (g.held => f.held)

LEMMA RotationsKept ==
  ASSUME RotationsGood,
         \A d \in Flows : Alike(flow'[d], flow[d]),
         \A d \in Flows :
           /\ rotation'[d].reply = "none" <=> rotation[d].reply = "none"
           /\ rotation'[d].account = rotation[d].account
           /\ rotation'[d].held => rotation[d].held /\ token'.account = token.account,
         \/ \A d \in Flows : rotation[d].held => rotation'[d].held
         \/ \A d \in Flows : ~flow'[d].held
  PROVE  RotationsGood'
BY DEF RotationsGood, RotationGood, Alike

LEMMA GivenUpRotations ==
  ASSUME SignInTypeOK, NEW t, NEW live \in BOOLEAN
  PROVE  LET g == GivenUp(t, live) IN
         /\ g \in [Flows -> RotationRecord]
         /\ \A d \in Flows :
              /\ g[d].reply = rotation[d].reply /\ g[d].account = rotation[d].account
              /\ g[d].held <=> rotation[d].held /\ t = token
<1>1. rotation \in [Flows -> RotationRecord]
  BY RecordsTyped
<1>2. ASSUME NEW e \in Flows
      PROVE  LET r == IF rotation[e].held /\ t # token
                      THEN [rotation[e] EXCEPT !.held = FALSE, !.live = live]
                      ELSE rotation[e]
             IN  /\ r \in RotationRecord /\ r.reply = rotation[e].reply
                 /\ r.account = rotation[e].account
                 /\ r.held <=> rotation[e].held /\ t = token
  <2>1. rotation[e] \in RotationRecord
    BY <1>1
  <2> QED BY <2>1 DEF RotationRecord
<1> QED BY <1>2 DEF GivenUp

-----------------------------------------------------------------------------
(* Steps of one flow that leave the store as it is.                        *)

BesideTyped ==
  /\ isLoading' \in BOOLEAN /\ shared' \in Flows \cup {NoFlow}
  /\ events' \in 0..MaxEvents /\ lost' \in BOOLEAN

LEMMA OneMoves ==
  ASSUME SignInInv, NEW c \in Flows, flow' \in [Flows -> FlowRecord], BesideTyped,
         UNCHANGED <<user, token, authed, data, cleanup, mixed, rotation>>,
         \A d \in Flows \ {c} : Weaker(flow'[d], flow[d]),
         flow[c].at # "rotating", flow'[c].at # "rotating",
         Sound(flow'[c], token, user, authed, mixed), Awaiting(flow'[c], cleanup.step),
         \A d \in Flows \ {c} : Apart(flow'[c], flow'[d]) /\ Apart(flow'[d], flow'[c])
  PROVE  SignInInv'
<1>1. SignInTypeOK'
  BY DEF SignInInv, SignInTypeOK, BesideTyped, FlowRecord
<1>2. StoreGood'
  BY DEF SignInInv, StoreGood
<1>3. FlowsSound'
  <2> SUFFICES ASSUME NEW d \in Flows \ {c}
               PROVE  Sound(flow'[d], token, user, authed, mixed)
    BY DEF FlowsSound
  <2>1. Sound(flow[d], token, user, authed, mixed)
    BY DEF SignInInv, FlowsSound
  <2> QED BY <2>1 DEF Weaker, Sound
<1>4. FlowsWait'
  <2> SUFFICES ASSUME NEW d \in Flows \ {c}
               PROVE  Awaiting(flow'[d], cleanup.step)
    BY DEF FlowsWait
  <2>1. Awaiting(flow[d], cleanup.step)
    BY DEF SignInInv, FlowsWait
  <2> QED BY <2>1, WaitsKept
<1>5. FlowsApart'
  <2> SUFFICES ASSUME NEW d \in Flows \ {c}, NEW e \in Flows \ {c}, d # e
               PROVE  Apart(flow'[d], flow'[e])
    BY DEF FlowsApart
  <2>1. Apart(flow[d], flow[e])
    BY DEF SignInInv, FlowsApart
  <2> QED BY <2>1, ApartKept
<1>6. RotationsGood'
  <2>1. \A d \in Flows : Alike(flow'[d], flow[d])
    BY DEF Alike, Weaker
  <2> QED BY <2>1, RotationsKept DEF SignInInv
<1> QED BY <1>1, <1>2, <1>3, <1>4, <1>5, <1>6 DEF SignInInv

\* The flow is over.
LEMMA OneEnds ==
  ASSUME SignInInv, NEW c \in Flows, flow' = Done(c), BesideTyped,
         UNCHANGED <<user, token, authed, data, cleanup, mixed, rotation>>,
         flow[c].at # "rotating"
  PROVE  SignInInv'
<1>1. flow \in [Flows -> FlowRecord]
  BY RecordsTyped DEF SignInInv
<1>2. /\ flow' \in [Flows -> FlowRecord] /\ flow'[c] = Idle
      /\ \A d \in Flows \ {c} : flow'[d] = flow[d]
  BY <1>1, Constants DEF Done
<1>3. \A d \in Flows \ {c} : Weaker(flow'[d], flow[d])
  BY <1>2 DEF Weaker
<1>4. flow'[c].at # "rotating"
  BY <1>2 DEF Idle, NewFlow
<1>5. /\ Sound(flow'[c], token, user, authed, mixed) /\ Awaiting(flow'[c], cleanup.step)
      /\ \A d \in Flows \ {c} : Apart(flow'[c], flow'[d]) /\ Apart(flow'[d], flow'[c])
  BY <1>2, IdleIsGood
<1> QED BY <1>2, <1>3, <1>4, <1>5, OneMoves

\* It has gone on with the same captures.
Continues(g, f) == g.kind = f.kind /\ g.sameRevision = f.sameRevision /\ g.latest = f.latest

LEMMA OneContinues ==
  ASSUME SignInInv, NEW c \in Flows, NEW r \in FlowRecord, flow' = [flow EXCEPT ![c] = r],
         BesideTyped, UNCHANGED <<user, token, authed, data, cleanup, mixed, rotation>>,
         flow[c].at # "rotating", r.at \notin {"rotating", "clearing", "cleared"},
         Continues(r, flow[c]),
         Sound(r, token, user, authed, mixed), Awaiting(r, cleanup.step)
  PROVE  SignInInv'
<1>1. flow \in [Flows -> FlowRecord]
  BY RecordsTyped DEF SignInInv
<1>2. /\ flow' \in [Flows -> FlowRecord] /\ flow'[c] = r
      /\ \A d \in Flows \ {c} : flow'[d] = flow[d]
  BY <1>1
<1>3. \A d \in Flows \ {c} : Weaker(flow'[d], flow[d])
  BY <1>2 DEF Weaker
<1>4. \A d \in Flows \ {c} : Apart(flow'[c], flow'[d]) /\ Apart(flow'[d], flow'[c])
  <2> SUFFICES ASSUME NEW d \in Flows \ {c}
               PROVE  Apart(r, flow[d]) /\ Apart(flow[d], r)
    BY <1>2
  <2>1. Apart(flow[c], flow[d]) /\ Apart(flow[d], flow[c])
    BY DEF SignInInv, FlowsApart
  <2> QED BY <2>1 DEF Apart, Continues
<1> QED BY <1>2, <1>3, <1>4, OneMoves

\* prepareSession begins.
LEMMA PreparedMoves ==
  ASSUME SignInInv, NEW c \in Flows, NEW acct \in Accounts, NEW new \in BOOLEAN,
         flow' = Prepared(c, acct, new), BesideTyped,
         UNCHANGED <<user, token, authed, data, cleanup, mixed, rotation>>,
         flow[c].at # "rotating", flow[c].kind \in Captures \cup {"login"},
         flow[c].kind = "login" => new,
         flow[c].kind \in Captures /\ flow[c].sameRevision /\ ~new /\ ~mixed => acct = user
  PROVE  SignInInv'
<1> DEFINE at == IF cleanup.step = "none" THEN "settled" ELSE "settling"
           r == [flow[c] EXCEPT !.account = acct, !.new = new, !.reply = "none", !.at = at]
<1>1. flow \in [Flows -> FlowRecord] /\ flow[c] \in FlowRecord
  BY RecordsTyped DEF SignInInv
<1>2. at \in {"settled", "settling"}
  OBVIOUS
<1>2a. flow' = [flow EXCEPT ![c] = r]
  BY <1>1 DEF Prepared
<1>3. /\ r \in FlowRecord /\ r.at = at /\ Continues(r, flow[c])
      /\ r.held = flow[c].held /\ r.sender = flow[c].sender /\ r.account = acct
      /\ r.new = new /\ r.reply = "none"
  <2>1. at \in FlowPlaces
    BY <1>2 DEF FlowPlaces
  <2> HIDE DEF at
  <2> QED BY <1>1, <2>1 DEF FlowRecord, Continues
<1> HIDE DEF r
<1>4. Sound(flow[c], token, user, authed, mixed)
  BY DEF SignInInv, FlowsSound
<1>5. Sound(r, token, user, authed, mixed)
  <2> HIDE DEF at
  <2> QED BY <1>2, <1>3, <1>4 DEF Sound, Continues, Waking, Captures
<1>6. Awaiting(r, cleanup.step)
  BY <1>3 DEF Awaiting
<1> QED BY <1>2, <1>2a, <1>3, <1>5, <1>6, OneContinues

-----------------------------------------------------------------------------
(* Refreshes.                                                              *)

LEMMA RotateMoves ==
  ASSUME SignInInv, NEW c \in Flows, NEW r \in FlowRecord,
         RotateFor(c, [flow EXCEPT ![c] = r], r.held),
         isLoading' \in BOOLEAN, events' \in 0..MaxEvents, lost' \in BOOLEAN,
         UNCHANGED <<user, token, authed, data, cleanup, mixed>>,
         flow[c].at # "rotating", r.kind # "login", r.sender \in Accounts,
         r.held => token # NoToken /\ r.sender = token.account,
         r.kind \in Captures /\ r.sameRevision =>
           token # NoToken /\ (~mixed => r.sender = user),
         \A d \in Flows \ {c} : Apart(flow[d], r)
  PROVE  SignInInv'
<1> DEFINE on == IF SharesRefresh(r.held) THEN shared ELSE c
           g == [r EXCEPT !.at = "rotating", !.on = on]
<1>1. flow \in [Flows -> FlowRecord] /\ rotation \in [Flows -> RotationRecord]
  BY RecordsTyped DEF SignInInv
<1>2. on \in Flows
  BY DEF SharesRefresh, SignInInv, SignInTypeOK
<1>3. /\ flow' = [flow EXCEPT ![c] = g] /\ shared' = on
      /\ rotation' = IF SharesRefresh(r.held) THEN rotation
                     ELSE [rotation EXCEPT ![c] = [reply |-> "open", held |-> r.held,
                                                   live |-> FALSE, account |-> r.sender]]
  BY <1>1 DEF RotateFor
<1> HIDE DEF on
<1>4. /\ g \in FlowRecord /\ g.at = "rotating" /\ g.on = on /\ Continues(g, r)
      /\ g.held = r.held /\ g.sender = r.sender /\ g.new = r.new
  BY <1>2 DEF FlowRecord, FlowPlaces, Continues
<1> HIDE DEF g
<1>5. /\ flow' \in [Flows -> FlowRecord] /\ flow'[c] = g
      /\ \A d \in Flows \ {c} : flow'[d] = flow[d]
  BY <1>1, <1>3, <1>4
<1>6. /\ rotation' \in [Flows -> RotationRecord]
      /\ \A d \in Flows \ {c} : rotation'[d] = rotation[d]
  <2>1. [reply |-> "open", held |-> r.held, live |-> FALSE, account |-> r.sender]
          \in RotationRecord
    BY DEF RotationRecord, FlowRecord
  <2> QED BY <1>1, <1>3, <2>1
<1>7. SignInTypeOK'
  BY <1>2, <1>3, <1>5, <1>6 DEF SignInInv, SignInTypeOK, FlowRecord, RotationRecord
<1>8. StoreGood'
  BY DEF SignInInv, StoreGood
<1>9. FlowsSound' /\ FlowsWait'
  <2>1. Sound(g, token, user, authed, mixed) /\ Awaiting(g, cleanup.step)
    BY <1>4 DEF Sound, Awaiting, Waking, Continues
  <2> QED BY <1>5, <2>1 DEF SignInInv, FlowsSound, FlowsWait
<1>10. FlowsApart'
  <2>1. ASSUME NEW d \in Flows \ {c}
        PROVE  Apart(g, flow[d]) /\ Apart(flow[d], g)
    BY <1>4 DEF Apart, Continues
  <2> QED BY <1>5, <2>1 DEF SignInInv, FlowsApart
<1>11. RotationsGood'
  <2>1. /\ rotation[c].reply = "none" /\ ~rotation[c].held
        /\ \A d \in Flows : flow[d].at = "rotating" => flow[d].on # c
    BY DEF SignInInv, RotationsGood, RotationGood
  <2>2. ASSUME NEW d \in Flows \ {c}
        PROVE  RotationGood(d)'
    BY <1>5, <1>6, <2>1 DEF SignInInv, RotationsGood, RotationGood
  <2>3. RotationGood(c)'
    <3>1. CASE SharesRefresh(r.held)
      <4>1. on = shared /\ rotation[on].held /\ rotation' = rotation
        BY <1>3, <3>1 DEF on, SharesRefresh
      <4>2. rotation[on].reply # "none"
        BY <1>2, <4>1 DEF SignInInv, RotationsGood, RotationGood
      <4> QED BY <1>2, <1>4, <1>5, <2>1, <4>1, <4>2 DEF RotationGood
    <3>2. CASE ~SharesRefresh(r.held)
      <4>1. on = c
        BY <3>2 DEF on
      <4>2. rotation'[c] = [reply |-> "open", held |-> r.held, live |-> FALSE, account |-> r.sender]
        BY <1>1, <1>3, <3>2
      <4> QED BY <1>4, <1>5, <4>1, <4>2 DEF RotationGood
    <3> QED BY <3>1, <3>2
  <2> QED BY <2>2, <2>3 DEF RotationsGood
<1> QED BY <1>7, <1>8, <1>9, <1>10, <1>11 DEF SignInInv

LEMMA AnsweredMoves ==
  ASSUME SignInInv, NEW c \in Flows, NEW reply \in {"granted", "refused", "lost"},
         RefreshAnswered(c, reply), rotation[c].reply # "none",
         events' \in 0..MaxEvents, lost' \in BOOLEAN,
         UNCHANGED <<user, token, authed, isLoading, data, cleanup, mixed>>
  PROVE  SignInInv'
<1> DEFINE Ends(d) == flow[d].at = "rotating" /\ flow[d].on = c
           g(d) == [flow[d] EXCEPT !.at = "rotated", !.on = NoFlow, !.reply = reply,
                                   !.account = rotation[c].account]
<1>1. flow \in [Flows -> FlowRecord] /\ rotation \in [Flows -> RotationRecord]
  BY RecordsTyped DEF SignInInv
<1>2. rotation[c].account \in Accounts /\ (rotation[c].held => rotation[c].account = token.account)
  BY DEF SignInInv, RotationsGood, RotationGood
<1>3. ASSUME NEW d \in Flows
      PROVE  /\ g(d) \in FlowRecord /\ Continues(g(d), flow[d]) /\ g(d).at = "rotated"
             /\ g(d).held = flow[d].held /\ g(d).sender = flow[d].sender
             /\ g(d).account = rotation[c].account /\ g(d).new = flow[d].new
  <2>1. flow[d] \in FlowRecord
    BY <1>1
  <2> QED BY <1>2, <2>1 DEF FlowRecord, FlowPlaces, Continues
<1>4. flow' = [d \in Flows |-> IF Ends(d) THEN g(d) ELSE flow[d]]
  BY DEF RefreshAnswered
<1>5. rotation' = [rotation EXCEPT ![c] = NoRotation] /\ shared' \in Flows \cup {NoFlow}
  BY DEF RefreshAnswered, SignInInv, SignInTypeOK
<1> HIDE DEF g
<1>6. flow' \in [Flows -> FlowRecord]
  BY <1>1, <1>3, <1>4
<1>7. rotation' \in [Flows -> RotationRecord]
  BY <1>1, <1>5, Constants
<1>8. SignInTypeOK'
  BY <1>5, <1>6, <1>7 DEF SignInInv, SignInTypeOK, FlowRecord, RotationRecord
<1>9. StoreGood'
  BY DEF SignInInv, StoreGood
<1>10. FlowsSound' /\ FlowsWait'
  <2> SUFFICES ASSUME NEW d \in Flows
               PROVE  Sound(flow'[d], token, user, authed, mixed) /\ Awaiting(flow'[d], cleanup.step)
    BY DEF FlowsSound, FlowsWait
  <2>1. Sound(flow[d], token, user, authed, mixed) /\ Awaiting(flow[d], cleanup.step)
    BY DEF SignInInv, FlowsSound, FlowsWait
  <2>2. CASE ~Ends(d)
    BY <1>4, <2>1, <2>2
  <2>3. CASE Ends(d)
    <3>1. flow'[d] = g(d)
      BY <1>4, <2>3
    <3>2. flow[d].held => rotation[c].held
      BY <2>3 DEF SignInInv, RotationsGood, RotationGood
    <3>3. flow[d].kind # "login"
      BY <2>1, <2>3 DEF Sound, Waking
    <3>4. Sound(g(d), token, user, authed, mixed)
      BY <1>2, <1>3, <2>1, <2>3, <3>2, <3>3 DEF Sound, Continues, Waking
    <3>5. Awaiting(g(d), cleanup.step)
      BY <1>3 DEF Awaiting
    <3> QED BY <3>1, <3>4, <3>5
  <2> QED BY <2>2, <2>3
<1>11. FlowsApart'
  <2> SUFFICES ASSUME NEW d \in Flows, NEW e \in Flows, d # e
               PROVE  Apart(flow'[d], flow'[e])
    BY DEF FlowsApart
  <2>1. Apart(flow[d], flow[e])
    BY DEF SignInInv, FlowsApart
  <2>2. ASSUME NEW f \in Flows
        PROVE  /\ Continues(flow'[f], flow[f])
               /\ flow'[f].at \in {"clearing", "cleared"} => flow[f].at = flow'[f].at
    BY <1>3, <1>4 DEF Continues
  <2> QED BY <2>1, <2>2 DEF Apart, Continues
<1>12. RotationsGood'
  <2> SUFFICES ASSUME NEW d \in Flows
               PROVE  RotationGood(d)'
    BY DEF RotationsGood
  <2>1. \A e \in Flows : rotation'[e] = IF e = c THEN NoRotation ELSE rotation[e]
    BY <1>1, <1>5
  <2>2. flow'[d].at = "rotating" => ~Ends(d)
    BY <1>3, <1>4
  <2>3. RotationGood(d)
    BY DEF SignInInv, RotationsGood
  <2>4. ~Ends(d) => flow'[d] = flow[d]
    BY <1>4
  <2>5. CASE d = c
    BY <2>1, <2>2, <2>3, <2>4, <2>5 DEF RotationGood, NoRotation
  <2>6. CASE d # c
    BY <2>1, <2>2, <2>3, <2>4, <2>6 DEF RotationGood
  <2> QED BY <2>5, <2>6
<1> QED BY <1>8, <1>9, <1>10, <1>11, <1>12 DEF SignInInv

\* Only what the server thinks of the token changes.
LEMMA TokenAges ==
  ASSUME SignInInv, token' \in TokenRecord, token'.account = token.account,
         token'.account \in Accounts \/ token' = token,
         rotation' \in [Flows -> RotationRecord],
         \A d \in Flows :
           /\ rotation'[d].reply = "none" <=> rotation[d].reply = "none"
           /\ rotation'[d].account = rotation[d].account /\ rotation'[d].held = rotation[d].held,
         lost' \in BOOLEAN,
         UNCHANGED <<user, authed, isLoading, data, cleanup, flow, shared, events, mixed>>
  PROVE  SignInInv'
<1>1. SignInTypeOK'
  BY DEF SignInInv, SignInTypeOK, RotationRecord, TokenRecord
<1>2. StoreGood'
  BY DEF SignInInv, StoreGood
<1>3. token # NoToken => token' # NoToken
  BY Constants
<1>4. FlowsSound'
  BY <1>3 DEF SignInInv, FlowsSound, Sound
<1>5. FlowsWait' /\ FlowsApart'
  BY DEF SignInInv, FlowsWait, FlowsApart
<1>6. RotationsGood'
  <2>1. \A d \in Flows : Alike(flow'[d], flow[d])
    BY DEF Alike
  <2> QED BY <2>1, RotationsKept DEF SignInInv
<1> QED BY <1>1, <1>2, <1>4, <1>5, <1>6 DEF SignInInv

\* A refreshed token is stored, and the request is sent again.
LEMMA ResentMoves ==
  ASSUME SignInInv, NEW c \in Flows, flow[c].at = "rotated", flow[c].reply = "granted",
         flow[c].kind \in {"request", "check"}, Resent(c),
         UNCHANGED <<isLoading, data, shared, events, lost, mixed>>
  PROVE  SignInInv'
<1> DEFINE t == IF flow[c].held THEN NewToken(flow[c].account) ELSE token
           r == [flow[c] EXCEPT !.at = "retrying", !.reply = "none", !.account = NoAccount,
                                !.sender = t.account, !.held = t # NoToken]
           o == Outdated(flow, user, t, authed)
<1>1. flow \in [Flows -> FlowRecord] /\ token \in TokenRecord /\ flow[c] \in FlowRecord
  BY RecordsTyped DEF SignInInv
<1>2. Sound(flow[c], token, user, authed, mixed)
  BY DEF SignInInv, FlowsSound
<1>3. /\ t \in TokenRecord /\ t.account = token.account
      /\ t = NoToken <=> token = NoToken
      /\ t = NoToken \/ t.account \in Accounts
  BY <1>1, <1>2, Constants DEF Sound, SignInInv, StoreGood
<1>4. /\ token' = t /\ rotation' = GivenUp(t, token.live) /\ flow' = [o EXCEPT ![c] = r]
      /\ UNCHANGED <<user, authed, cleanup>>
  BY DEF Resent
<1> HIDE DEF t
<1>5. /\ r \in FlowRecord /\ Continues(r, flow[c]) /\ r.at = "retrying"
      /\ r.sender = t.account /\ (r.held => t # NoToken)
  BY <1>1, <1>3 DEF FlowRecord, FlowPlaces, Continues, TokenRecord
<1> HIDE DEF r
<1>6. /\ o \in [Flows -> FlowRecord]
      /\ \A d \in Flows : Weaker(o[d], flow[d]) /\ (o[d].held => t = token)
  BY <1>1, OutdatedWeakens
<1> HIDE DEF o
<1>7. /\ flow' \in [Flows -> FlowRecord] /\ flow'[c] = r
      /\ \A d \in Flows \ {c} : flow'[d] = o[d]
  BY <1>4, <1>5, <1>6
<1>8. token.live \in BOOLEAN
  BY <1>1 DEF TokenRecord
<1>9. SignInTypeOK'
  <2>1. rotation' \in [Flows -> RotationRecord]
    BY <1>4, <1>8, GivenUpRotations DEF SignInInv
  <2> QED BY <1>3, <1>4, <1>7, <2>1
       DEF SignInInv, SignInTypeOK, FlowRecord, RotationRecord, TokenRecord
<1>10. StoreGood'
  BY <1>3, <1>4 DEF SignInInv, StoreGood
<1>11. FlowsSound' /\ FlowsWait'
  <2>1. Sound(r, t, user, authed, mixed) /\ Awaiting(r, cleanup.step)
    BY <1>2, <1>3, <1>5 DEF Sound, Awaiting, Waking, Continues, SignInInv, StoreGood
  <2>2. ASSUME NEW d \in Flows \ {c}
        PROVE  Sound(o[d], t, user, authed, mixed) /\ Awaiting(o[d], cleanup.step)
    <3>1. Sound(flow[d], token, user, authed, mixed) /\ Awaiting(flow[d], cleanup.step)
      BY DEF SignInInv, FlowsSound, FlowsWait
    <3>2. Weaker(o[d], flow[d])
      BY <1>6
    <3> QED BY <1>3, <3>1, <3>2, WaitsKept DEF Sound, Weaker
  <2> QED BY <1>4, <1>7, <2>1, <2>2 DEF FlowsSound, FlowsWait
<1>12. FlowsApart'
  <2> SUFFICES ASSUME NEW d \in Flows, NEW e \in Flows, d # e
               PROVE  Apart(flow'[d], flow'[e])
    BY DEF FlowsApart
  <2>1. Apart(flow[d], flow[e])
    BY DEF SignInInv, FlowsApart
  <2>2. ASSUME NEW f \in Flows
        PROVE  /\ flow'[f].kind = flow[f].kind /\ (flow'[f].latest => flow[f].latest)
               /\ flow'[f].sameRevision => flow[f].sameRevision
               /\ flow'[f].at \in {"clearing", "cleared"} => flow[f].at = flow'[f].at
    BY <1>5, <1>6, <1>7 DEF Continues, Weaker
  <2> QED BY <2>1, <2>2 DEF Apart
<1>13. RotationsGood'
  <2>1. \A d \in Flows : Alike(flow'[d], flow[d])
    BY <1>5, <1>6, <1>7 DEF Alike, Weaker
  <2>2. \A d \in Flows :
          /\ rotation'[d].reply = rotation[d].reply /\ rotation'[d].account = rotation[d].account
          /\ rotation'[d].held <=> rotation[d].held /\ t = token
    BY <1>4, <1>8, GivenUpRotations DEF SignInInv
  <2>3. CASE t = token
    BY <1>3, <1>4, <2>1, <2>2, <2>3, RotationsKept DEF SignInInv
  <2>4. CASE t # token
    <3>1. \A d \in Flows \ {c} : ~flow'[d].held
      BY <1>6, <1>7, <2>4
    <3>2. \A d \in Flows : flow'[d].at = "rotating" => ~flow'[d].held
      BY <1>5, <1>7, <3>1
    <3>3. \A d \in Flows : RotationGood(d)
      BY DEF SignInInv, RotationsGood
    <3> QED BY <2>1, <2>2, <2>4, <3>2, <3>3 DEF RotationsGood, RotationGood, Alike
  <2> QED BY <2>3, <2>4
<1> QED BY <1>9, <1>10, <1>11, <1>12, <1>13 DEF SignInInv

-----------------------------------------------------------------------------
(* The store gets or loses its account.                                    *)

\* flows is what is under way after the step: nothing in it may still publish unless it
\* finds its revision gone.
LEMMA ClearedMoves ==
  ASSUME SignInInv, NEW flows \in [Flows -> FlowRecord], NEW live \in BOOLEAN,
         Cleared(flows, live), cleanup.step = "none",
         user # NoAccount \/ token # NoToken \/ authed,
         UNCHANGED <<data, shared, events, mixed>>, lost' \in BOOLEAN,
         \A d \in Flows : Sound(flows[d], token, user, authed, mixed),
         \A d \in Flows : flows[d].latest =>
           flows[d].at # "cleared" /\ (flows[d].at = "settled" => flows[d].kind # "login"),
         \A d, e \in Flows :
           d # e /\ flows[d].kind = "login" /\ flows[d].latest
             /\ flows[e].kind \in Captures \cup {"login"} => ~flows[e].latest,
         \A d \in Flows : Alike(flows[d], flow[d])
  PROVE  SignInInv'
<1> DEFINE o == Outdated(flows, NoAccount, NoToken, FALSE)
<1>1. /\ user' = NoAccount /\ token' = NoToken /\ authed' = FALSE /\ isLoading' = FALSE
      /\ flow' = o /\ rotation' = GivenUp(NoToken, live) /\ cleanup' = Resetting
  BY DEF Cleared
<1>2. Revises(NoAccount, NoToken, FALSE)
  BY DEF Revises, SignInInv, SignInTypeOK
<1>3. /\ o \in [Flows -> FlowRecord]
      /\ \A d \in Flows : /\ Weaker(o[d], flows[d])
                          /\ o[d].held => NoToken = token
                          /\ o[d].kind \in Captures => ~o[d].sameRevision
  BY <1>2, OutdatedWeakens
<1> HIDE DEF o
<1>4. SignInTypeOK'
  <2>1. rotation' \in [Flows -> RotationRecord]
    BY <1>1, GivenUpRotations DEF SignInInv
  <2> QED BY <1>1, <1>3, <2>1, Constants
       DEF SignInInv, SignInTypeOK, FlowRecord, RotationRecord, TokenRecord, Resetting,
          NoCleanup
<1>5. StoreGood'
  BY <1>1, Constants DEF StoreGood, Resetting, NoCleanup
<1>6. FlowsSound'
  <2> SUFFICES ASSUME NEW d \in Flows
               PROVE  Sound(o[d], NoToken, NoAccount, FALSE, mixed)
    BY <1>1 DEF FlowsSound
  <2>1. o[d].held => ~flows[d].held
    BY <1>3 DEF Sound
  <2>2. ~o[d].held
    BY <1>3, <2>1 DEF Weaker
  <2>3. Weaker(o[d], flows[d]) /\ Sound(flows[d], token, user, authed, mixed)
    BY <1>3
  <2> QED BY <1>3, <2>2, <2>3 DEF Sound, Weaker
<1>7. FlowsWait'
  <2> SUFFICES ASSUME NEW d \in Flows
               PROVE  Awaiting(o[d], "resetting")
    BY <1>1 DEF FlowsWait, Resetting, NoCleanup
  <2>1. Weaker(o[d], flows[d])
    BY <1>3
  <2>2. o[d].at = "settled" /\ o[d].latest => o[d].kind \in Captures
    BY <2>1 DEF Weaker, Sound, Waking
  <2> QED BY <1>3, <2>1, <2>2 DEF Awaiting, Weaker
<1>8. FlowsApart'
  <2> SUFFICES ASSUME NEW d \in Flows, NEW e \in Flows, d # e
               PROVE  Apart(o[d], o[e])
    BY <1>1 DEF FlowsApart
  <2> QED BY <1>3 DEF Apart, Weaker
<1>9. RotationsGood'
  <2>1. \A d \in Flows : Alike(flow'[d], flow[d])
    BY <1>1, <1>3 DEF Alike, Weaker
  <2>2. \A d \in Flows : ~flow'[d].held
    BY <1>1, <1>3 DEF Weaker, Sound
  <2>3. \A d \in Flows :
          /\ rotation'[d].reply = rotation[d].reply /\ rotation'[d].account = rotation[d].account
          /\ rotation'[d].held => rotation[d].held /\ token'.account = token.account
    BY <1>1, GivenUpRotations DEF SignInInv
  <2> QED BY <2>1, <2>2, <2>3, RotationsKept DEF SignInInv
<1> QED BY <1>4, <1>5, <1>6, <1>7, <1>8, <1>9 DEF SignInInv

\* Signing out, with flows what is under way but for the attempt.
LEMMA LoggedOut ==
  ASSUME SignInInv, NEW flows \in [Flows -> FlowRecord], LogOut(flows), authed,
         UNCHANGED <<data, shared, events, mixed>>,
         \A d \in Flows : Sound(flows[d], token, user, authed, mixed),
         \A d \in Flows : Alike(flows[d], flow[d])
  PROVE  SignInInv'
<1> DEFINE at == Attempted(flows)
<1>1. PICK live \in {token.live, FALSE} :
        /\ Cleared(at, live)
        /\ lost' = (lost \/ (live # token.live /\ \E c \in Flows : rotation[c].held))
  BY DEF LogOut
<1>2. live \in BOOLEAN /\ lost' \in BOOLEAN
  BY <1>1, RecordsTyped DEF SignInInv, SignInTypeOK, TokenRecord
<1>3. /\ at \in [Flows -> FlowRecord]
      /\ \A d \in Flows : /\ Weaker(at[d], flows[d])
                          /\ at[d].latest => flows[d].kind \in {"none", "request"}
  BY AttemptedWeakens
<1> HIDE DEF at
<1>4. cleanup.step = "none"
  BY DEF SignInInv, StoreGood
<1>5. \A d \in Flows : at[d].latest => at[d].kind \notin Captures \cup {"login"}
  BY <1>3 DEF Weaker, Captures
<1>6. \A d \in Flows : Sound(at[d], token, user, authed, mixed)
  <2> SUFFICES ASSUME NEW d \in Flows
               PROVE  Sound(at[d], token, user, authed, mixed)
    OBVIOUS
  <2>1. Weaker(at[d], flows[d]) /\ Sound(flows[d], token, user, authed, mixed)
    BY <1>3
  <2> QED BY <1>5, <2>1 DEF Sound, Weaker
<1>7. \A d \in Flows : at[d].latest =>
        at[d].at # "cleared" /\ (at[d].at = "settled" => at[d].kind # "login")
  BY <1>5, <1>6 DEF Sound, Waking
<1>8. \A d \in Flows : Alike(at[d], flow[d])
  BY <1>3 DEF Alike, Weaker
<1> QED BY <1>1, <1>2, <1>3, <1>4, <1>5, <1>6, <1>7, <1>8, ClearedMoves

LEMMA DoneFlows ==
  ASSUME SignInInv, NEW c \in Flows, flow[c].at # "rotating"
  PROVE  /\ Done(c) \in [Flows -> FlowRecord] /\ Done(c)[c] = Idle
         /\ \A d \in Flows \ {c} : Done(c)[d] = flow[d]
         /\ \A d \in Flows : Sound(Done(c)[d], token, user, authed, mixed)
         /\ \A d \in Flows : Alike(Done(c)[d], flow[d])
<1>1. flow \in [Flows -> FlowRecord]
  BY RecordsTyped DEF SignInInv
<1>2. /\ Done(c) \in [Flows -> FlowRecord] /\ Done(c)[c] = Idle
      /\ \A d \in Flows \ {c} : Done(c)[d] = flow[d]
  BY <1>1, Constants DEF Done
<1>3. \A d \in Flows : Sound(Done(c)[d], token, user, authed, mixed)
  BY <1>2, IdleIsGood DEF SignInInv, FlowsSound
<1>4. \A d \in Flows : Alike(Done(c)[d], flow[d])
  BY <1>2 DEF Alike, Idle, NewFlow
<1> QED BY <1>2, <1>3, <1>4

\* The store gets an account while no cleanup is pending, or keeps the one it has.
LEMMA SessionSet ==
  ASSUME SignInInv, NEW c \in Flows, flow[c].at # "rotating",
         NEW u \in Accounts, NEW t \in TokenRecord, NEW a \in BOOLEAN,
         SetSession(u, t, a, Done(c)),
         isLoading' \in BOOLEAN, data' \subseteq Accounts, mixed' \in BOOLEAN,
         UNCHANGED <<shared, events, lost>>,
         mixed => mixed', t = NoToken \/ t.account \in Accounts,
         a => cleanup.step = "none",
         a => authed \/ \A d \in Flows \ {c} : flow[d].kind = "login" => ~flow[d].latest,
         ~mixed' => /\ t.account = u
                    /\ cleanup.step = "none" => data' \subseteq {u} \cup cleanup.late
                    /\ cleanup.step # "none" => user = u
  PROVE  SignInInv'
<1> DEFINE o == Outdated(Done(c), u, t, a)
<1>1. /\ user' = u /\ token' = t /\ authed' = a /\ flow' = o
      /\ rotation' = GivenUp(t, token.live)
      /\ cleanup' = [cleanup EXCEPT
                       !.current = @ /\ (cleanup.step = "none" \/ ~Revises(u, t, a))]
  BY DEF SetSession
<1>2. /\ o \in [Flows -> FlowRecord]
      /\ \A d \in Flows :
           /\ Weaker(o[d], Done(c)[d]) /\ (o[d].held => t = token)
           /\ o[d].kind \in Captures /\ o[d].sameRevision => ~Revises(u, t, a)
  BY DoneFlows, OutdatedWeakens
<1> HIDE DEF o
<1>3. token.live \in BOOLEAN
  BY RecordsTyped DEF SignInInv, TokenRecord
<1>4. SignInTypeOK'
  <2>1. rotation' \in [Flows -> RotationRecord]
    BY <1>1, <1>3, GivenUpRotations DEF SignInInv
  <2>2. cleanup' \in CleanupRecord
    BY <1>1 DEF SignInInv, SignInTypeOK, CleanupRecord
  <2> QED BY <1>1, <1>2, <2>1, <2>2
       DEF SignInInv, SignInTypeOK, FlowRecord, RotationRecord, TokenRecord, CleanupRecord
<1>5. cleanup'.step = cleanup.step /\ cleanup'.late = cleanup.late
  BY <1>1 DEF SignInInv, SignInTypeOK
<1>6. StoreGood'
  <2>1. ~mixed' => cleanup.step = "none"
    BY Constants DEF SignInInv, StoreGood
  <2> QED BY <1>1, <1>5, <2>1 DEF StoreGood
<1>7. FlowsSound'
  <2> SUFFICES ASSUME NEW d \in Flows
               PROVE  Sound(o[d], t, u, a, mixed')
    BY <1>1 DEF FlowsSound
  <2>1. Sound(Done(c)[d], token, user, authed, mixed)
    BY DoneFlows
  <2>2. o[d].kind = "login" /\ o[d].latest => ~a
    <3>1. CASE d = c
      BY <1>2, <3>1, DoneFlows DEF Weaker, Idle, NewFlow
    <3>2. CASE d # c
      BY <1>2, <2>1, <3>2, DoneFlows DEF Weaker, Sound
    <3> QED BY <3>1, <3>2
  <2>3. Weaker(o[d], Done(c)[d])
    BY <1>2
  <2>4. o[d].held => t # NoToken /\ t.account = token.account
    BY <1>2, <2>1 DEF Weaker, Sound
  <2>5. o[d].kind \in Captures /\ o[d].sameRevision => t # NoToken /\ u = user
    BY <1>2, <2>1, <2>3 DEF Weaker, Sound, Revises
  <2> QED BY <2>1, <2>2, <2>3, <2>4, <2>5, SoundKept DEF SignInInv, SignInTypeOK
<1>8. FlowsWait'
  <2> SUFFICES ASSUME NEW d \in Flows
               PROVE  Awaiting(o[d], cleanup.step)
    BY <1>1, <1>5 DEF FlowsWait
  <2>1. Awaiting(Done(c)[d], cleanup.step)
    BY DoneFlows, IdleIsGood DEF SignInInv, FlowsWait
  <2> QED BY <1>2, <2>1, WaitsKept
<1>9. FlowsApart'
  <2> SUFFICES ASSUME NEW d \in Flows, NEW e \in Flows, d # e
               PROVE  Apart(o[d], o[e])
    BY <1>1 DEF FlowsApart
  <2>1. Apart(Done(c)[d], Done(c)[e])
    BY DoneFlows, IdleIsGood DEF SignInInv, FlowsApart
  <2> QED BY <1>2, <2>1, ApartKept
<1>10. RotationsGood'
  <2>1. \A d \in Flows : Alike(flow'[d], flow[d])
    BY <1>1, <1>2, DoneFlows DEF Alike, Weaker
  <2>2. \A d \in Flows :
          /\ rotation'[d].reply = rotation[d].reply /\ rotation'[d].account = rotation[d].account
          /\ rotation'[d].held <=> rotation[d].held /\ t = token
    BY <1>1, <1>3, GivenUpRotations DEF SignInInv
  <2>3. CASE t = token
    BY <1>1, <2>1, <2>2, <2>3, RotationsKept DEF SignInInv
  <2>4. CASE t # token
    <3>1. \A d \in Flows : ~flow'[d].held
      BY <1>1, <1>2, <2>4
    <3> QED BY <1>1, <2>1, <2>2, <2>4, <3>1, RotationsKept DEF SignInInv
  <2> QED BY <2>3, <2>4
<1> QED BY <1>4, <1>6, <1>7, <1>8, <1>9, <1>10 DEF SignInInv

-----------------------------------------------------------------------------
(* The actions.                                                            *)

LEMMA OfFlow ==
  ASSUME SignInInv, NEW c \in Flows
  PROVE  /\ flow \in [Flows -> FlowRecord] /\ flow[c] \in FlowRecord
         /\ Sound(flow[c], token, user, authed, mixed) /\ Awaiting(flow[c], cleanup.step)
         /\ \A d \in Flows \ {c} : Apart(flow[c], flow[d]) /\ Apart(flow[d], flow[c])
BY RecordsTyped DEF SignInInv, FlowsSound, FlowsWait, FlowsApart

LEMMA SignInStarts == SignInInit => SignInInv
<1> SUFFICES ASSUME SignInInit
             PROVE  SignInInv
  OBVIOUS
<1>1. SignInTypeOK
  <2>1. flow \in [Flows -> FlowRecord] /\ rotation \in [Flows -> RotationRecord]
    BY Constants DEF SignInInit
  <2>2. 0 \in 0..MaxEvents
    BY SignInAssumption
  <2> QED BY <2>1, <2>2, Constants
       DEF SignInInit, SignInTypeOK, FlowRecord, RotationRecord, TokenRecord, NoCleanup
<1>2. StoreGood
  BY Constants DEF SignInInit, StoreGood, NoCleanup
<1>3. FlowsSound /\ FlowsWait /\ FlowsApart
  BY IdleIsGood DEF SignInInit, FlowsSound, FlowsWait, FlowsApart
<1>4. RotationsGood
  BY DEF SignInInit, RotationsGood, RotationGood, NoRotation, Idle, NewFlow
<1> QED BY <1>1, <1>2, <1>3, <1>4 DEF SignInInv

LEMMA EventCounted ==
  ASSUME SignInInv, Event
  PROVE  events' \in 0..MaxEvents
BY SignInAssumption DEF Event, SignInInv, SignInTypeOK

LEMMA LogInKeeps ==
  ASSUME SignInInv, NEW c \in Flows, NEW a \in Accounts, LogIn(c, a)
  PROVE  SignInInv'
<1> DEFINE at == Attempted(flow)
           r == [NewFlow("login", "asking") EXCEPT !.account = a]
<1>1. flow \in [Flows -> FlowRecord] /\ flow[c] = Idle
  BY OfFlow DEF LogIn, Spare
<1>2. /\ at \in [Flows -> FlowRecord]
      /\ \A d \in Flows : /\ Weaker(at[d], flow[d])
                          /\ at[d].latest => flow[d].kind \in {"none", "request"}
  BY <1>1, AttemptedWeakens
<1> HIDE DEF at
<1>3. /\ r \in FlowRecord /\ r.kind = "login" /\ r.at = "asking" /\ r.account = a
      /\ ~r.held
  BY DEF NewFlow, FlowRecord, Kinds, FlowPlaces
<1> HIDE DEF r
<1>4. flow' = [at EXCEPT ![c] = r]
  BY DEF LogIn, at, r
<1>5. /\ flow' \in [Flows -> FlowRecord] /\ flow'[c] = r
      /\ \A d \in Flows \ {c} : flow'[d] = at[d]
  BY <1>2, <1>3, <1>4
<1>6. flow[c].at # "rotating"
  BY <1>1 DEF Idle, NewFlow
<1>7. Sound(r, token, user, authed, mixed) /\ Awaiting(r, cleanup.step)
  BY <1>3 DEF Sound, Awaiting, Captures, Waking, LogIn
<1>8. \A d \in Flows \ {c} : Apart(r, at[d]) /\ Apart(at[d], r)
  BY <1>2, <1>3 DEF Apart, Captures, Weaker
<1>9. BesideTyped /\ UNCHANGED <<user, token, authed, data, cleanup, mixed, rotation>>
  BY DEF LogIn, storeVars, BesideTyped, SignInInv, SignInTypeOK
<1> QED BY <1>2, <1>3, <1>5, <1>6, <1>7, <1>8, <1>9, OneMoves

LEMMA Beside ==
  ASSUME SignInInv, UNCHANGED <<isLoading, shared, events, lost>>
  PROVE  BesideTyped
BY DEF BesideTyped, SignInInv, SignInTypeOK

LEMMA LogInAnsweredKeeps ==
  ASSUME SignInInv, NEW c \in Flows, LogInAnswered(c)
  PROVE  SignInInv'
<1>1. /\ BesideTyped /\ UNCHANGED <<user, token, authed, data, cleanup, mixed, rotation>>
  BY Beside DEF LogInAnswered, storeVars
<1>2. flow[c].kind = "login" /\ flow[c].at = "asking"
  BY DEF LogInAnswered
<1>3. flow[c].account \in Accounts
  BY <1>2, OfFlow DEF Sound
<1>4. CASE flow' = Done(c)
  BY <1>1, <1>2, <1>4, OneEnds
<1>5. CASE flow' = Prepared(c, flow[c].account, TRUE)
  BY <1>1, <1>2, <1>3, <1>5, PreparedMoves DEF Captures
<1> QED BY <1>4, <1>5 DEF LogInAnswered

LEMMA LogOutByUserKeeps ==
  ASSUME SignInInv, LogOutByUser
  PROVE  SignInInv'
<1>1. flow \in [Flows -> FlowRecord]
  BY RecordsTyped DEF SignInInv
<1>2. \A d \in Flows : Sound(flow[d], token, user, authed, mixed) /\ Alike(flow[d], flow[d])
  BY DEF SignInInv, FlowsSound, Alike
<1> QED BY <1>1, <1>2, LoggedOut DEF LogOutByUser

LEMMA ReloadKeeps ==
  ASSUME SignInInv, NEW c \in Flows, Reload(c)
  PROVE  SignInInv'
<1> DEFINE r == [NewFlow("check", "asking") EXCEPT !.sender = token.account, !.held = TRUE]
<1>1. /\ rotation' = [d \in Flows |-> NoRotation] /\ shared' = NoFlow
      /\ UNCHANGED <<token, data, mixed>>
      /\ events' \in 0..MaxEvents /\ lost' \in BOOLEAN
  <2>1. events' \in 0..MaxEvents
    BY EventCounted DEF Reload
  <2>2. lost' \in BOOLEAN
    BY DEF Reload, SignInInv, SignInTypeOK
  <2> QED BY <2>1, <2>2 DEF Reload
<1>2. token \in TokenRecord
  BY RecordsTyped DEF SignInInv
<1>3. \A d \in Flows : rotation'[d].reply = "none" /\ ~rotation'[d].held
  BY <1>1 DEF NoRotation
<1>4. CASE token = NoToken
  <2>1. /\ user' = NoAccount /\ authed' = FALSE /\ isLoading' = FALSE
        /\ flow' = [d \in Flows |-> Idle] /\ cleanup' = Resetting
    BY <1>4 DEF Reload
  <2>2. SignInTypeOK'
    <3>1. flow' \in [Flows -> FlowRecord] /\ rotation' \in [Flows -> RotationRecord]
      BY <1>1, <2>1, Constants
    <3> QED BY <1>1, <2>1, <3>1
         DEF SignInInv, SignInTypeOK, FlowRecord, RotationRecord, Resetting, NoCleanup
  <2>3. StoreGood'
    BY <1>1, <1>4, <2>1, Constants DEF StoreGood, Resetting, NoCleanup
  <2>4. FlowsSound' /\ FlowsWait' /\ FlowsApart'
    BY <2>1, IdleIsGood DEF FlowsSound, FlowsWait, FlowsApart
  <2>5. RotationsGood'
    BY <1>3, <2>1 DEF RotationsGood, RotationGood, Idle, NewFlow
  <2> QED BY <2>2, <2>3, <2>4, <2>5 DEF SignInInv
<1>5. CASE token # NoToken
  <2>1. /\ isLoading' = TRUE /\ cleanup' = [NoCleanup EXCEPT !.late = cleanup.late]
        /\ UNCHANGED <<user, authed>>
        /\ flow' = [[d \in Flows |-> Idle] EXCEPT ![c] = r]
    BY <1>5 DEF Reload
  <2>2. /\ r \in FlowRecord /\ r.kind = "check" /\ r.at = "asking" /\ r.sender = token.account
    BY <1>2 DEF NewFlow, FlowRecord, Kinds, FlowPlaces, TokenRecord
  <2> HIDE DEF r
  <2>3. /\ flow' \in [Flows -> FlowRecord] /\ flow'[c] = r
        /\ \A d \in Flows \ {c} : flow'[d] = Idle
    BY <2>1, <2>2, Constants
  <2>4. SignInTypeOK'
    <3>1. cleanup' \in CleanupRecord
      BY <2>1 DEF SignInInv, SignInTypeOK, CleanupRecord, NoCleanup
    <3> QED BY <1>1, <2>1, <2>3, <3>1, Constants
         DEF SignInInv, SignInTypeOK, FlowRecord, RotationRecord, CleanupRecord
  <2>5. StoreGood'
    <3>1. ~mixed => cleanup.step = "none"
      BY <1>5, Constants DEF SignInInv, StoreGood
    <3> QED BY <1>1, <2>1, <3>1 DEF SignInInv, StoreGood, NoCleanup
  <2>6. FlowsSound' /\ FlowsWait'
    <3>1. Sound(r, token, user, authed, mixed) /\ Awaiting(r, "none")
      BY <1>5, <2>2 DEF Sound, Awaiting, Waking, SignInInv, StoreGood
    <3> QED BY <1>1, <2>1, <2>3, <3>1, IdleIsGood DEF FlowsSound, FlowsWait, NoCleanup
  <2>7. FlowsApart'
    BY <2>3, IdleIsGood DEF FlowsApart
  <2>8. RotationsGood'
    BY <1>3, <2>2, <2>3 DEF RotationsGood, RotationGood, Idle, NewFlow
  <2> QED BY <2>4, <2>5, <2>6, <2>7, <2>8 DEF SignInInv
<1> QED BY <1>4, <1>5
\* An account is published: no cleanup is pending, and no login is ahead of the flow.
LEMMA Published ==
  ASSUME SignInInv, NEW c \in Flows, Publish(c), UNCHANGED <<shared, events, lost, mixed>>,
         flow[c].at \in Waking, flow[c].latest, cleanup.step = "none",
         user \in {NoAccount, flow[c].account},
         ~mixed => flow[c].new \/ flow[c].account = user
  PROVE  SignInInv'
<1> DEFINE t == IF flow[c].new THEN NewToken(flow[c].account) ELSE token
<1>1. /\ SetSession(flow[c].account, t, TRUE, Done(c))
      /\ isLoading' = (isLoading /\ flow[c].kind = "refresh")
      /\ data' = data \cup {flow[c].account}
  BY DEF Publish
<1>2. flow[c].kind \in Captures \cup {"login"} /\ flow[c].account \in Accounts
  BY OfFlow DEF Sound
<1>3. /\ t \in TokenRecord /\ (t = NoToken \/ t.account \in Accounts)
      /\ ~mixed => t.account = flow[c].account
  BY <1>2, RecordsTyped, Constants DEF SignInInv, StoreGood
<1>4. \A d \in Flows \ {c} : flow[d].kind = "login" => ~flow[d].latest
  BY <1>2, OfFlow DEF Apart
<1>5. isLoading' \in BOOLEAN /\ data' \subseteq Accounts /\ mixed \in BOOLEAN
  BY <1>1, <1>2 DEF SignInInv, SignInTypeOK
<1>6. ~mixed => data' \subseteq {flow[c].account} \cup cleanup.late
  BY <1>1, Constants DEF SignInInv, SignInTypeOK, StoreGood
<1>7. flow[c].at # "rotating"
  BY DEF Waking
<1> HIDE DEF t
<1> QED BY <1>1, <1>2, <1>3, <1>4, <1>5, <1>6, <1>7, SessionSet

LEMMA PrepareSessionKeeps ==
  ASSUME SignInInv, NEW c \in Flows, PrepareSession(c)
  PROVE  SignInInv'
<1>1. flow[c].at = "settled" /\ UNCHANGED <<shared, events, lost, mixed>>
  BY DEF PrepareSession
<1>2. CASE Drops(c)
  <2>1. flow' = Done(c) /\ UNCHANGED <<user, token, authed, isLoading, data, cleanup, rotation>>
    BY <1>2 DEF PrepareSession, storeVars
  <2> QED BY <1>1, <2>1, Beside, OneEnds
<1>3. CASE ~Drops(c)
  <2>1. /\ flow[c].latest /\ (flow[c].kind = "login" \/ flow[c].sameRevision)
        /\ cleanup.step = "none"
    BY <1>1, <1>3, OfFlow DEF Drops, Awaiting
  <2>2. /\ flow[c].kind \in Captures \cup {"login"} /\ flow[c].account \in Accounts
        /\ ~mixed => flow[c].new \/ flow[c].account = user
    BY <1>1, <2>1, OfFlow DEF Sound, Waking
  <2>3. CASE user \in {NoAccount, flow[c].account}
    <3>1. Publish(c)
      BY <1>3, <2>3 DEF PrepareSession
    <3> QED BY <1>1, <2>1, <2>2, <2>3, <3>1, Published DEF Waking
  <2>4. CASE user \notin {NoAccount, flow[c].account}
    <3> DEFINE flows == [flow EXCEPT ![c].at = "clearing"]
    <3>1. Cleared(flows, token.live) /\ UNCHANGED data
      BY <1>3, <2>4 DEF PrepareSession, ClearSession
    <3>2. flow \in [Flows -> FlowRecord] /\ flow[c] \in FlowRecord
      BY OfFlow
    <3>3. flows = [flow EXCEPT ![c] = [flow[c] EXCEPT !.at = "clearing"]]
      BY <3>2
    <3>4. /\ flows \in [Flows -> FlowRecord]
          /\ flows[c] = [flow[c] EXCEPT !.at = "clearing"]
          /\ \A d \in Flows \ {c} : flows[d] = flow[d]
      BY <3>2, <3>3 DEF FlowRecord, FlowPlaces
    <3> HIDE DEF flows
    <3>5. ASSUME NEW d \in Flows
          PROVE  Sound(flows[d], token, user, authed, mixed)
      <4>1. CASE d = c
        <5>1. Sound(flow[c], token, user, authed, mixed)
          BY OfFlow
        <5>2. /\ flows[c].at = "clearing" /\ Continues(flows[c], flow[c])
              /\ flows[c].held = flow[c].held /\ flows[c].sender = flow[c].sender
              /\ flows[c].account = flow[c].account /\ flows[c].new = flow[c].new
          BY <3>2, <3>4 DEF Continues, FlowRecord
        <5> QED BY <1>1, <2>2, <2>4, <4>1, <5>1, <5>2 DEF Sound, Continues, Waking
      <4>2. CASE d # c
        BY <3>4, <4>2, OfFlow
      <4> QED BY <4>1, <4>2
    <3>6. ASSUME NEW d \in Flows
          PROVE  /\ flows[d].kind = flow[d].kind /\ flows[d].latest = flow[d].latest
                 /\ Alike(flows[d], flow[d])
      BY <1>1, <3>2, <3>4 DEF Alike, FlowRecord
    <3>7. ASSUME NEW d \in Flows, flows[d].latest
          PROVE  flows[d].at # "cleared" /\ (flows[d].at = "settled" => flows[d].kind # "login")
      <4>1. CASE d = c
        BY <3>2, <3>4, <4>1 DEF FlowRecord
      <4>2. CASE d # c
        <5>1. Apart(flow[d], flow[c]) /\ Sound(flow[d], token, user, authed, mixed)
              /\ Apart(flow[c], flow[d])
          BY <4>2, OfFlow
        <5> QED BY <2>1, <2>2, <3>4, <3>7, <4>2, <5>1 DEF Apart, Sound, Waking
      <4> QED BY <4>1, <4>2
    <3>8. \A d, e \in Flows :
            d # e /\ flows[d].kind = "login" /\ flows[d].latest
              /\ flows[e].kind \in Captures \cup {"login"} => ~flows[e].latest
      BY <3>6 DEF SignInInv, FlowsApart, Apart
    <3>9. token.live \in BOOLEAN /\ lost' \in BOOLEAN
      BY <1>1, RecordsTyped DEF SignInInv, SignInTypeOK, TokenRecord
    <3> QED BY <1>1, <2>1, <2>4, <3>1, <3>4, <3>5, <3>6, <3>7, <3>8, <3>9, ClearedMoves
  <2> QED BY <2>3, <2>4
<1> QED BY <1>2, <1>3

LEMMA PreparedAfterClearKeeps ==
  ASSUME SignInInv, NEW c \in Flows, PreparedAfterClear(c)
  PROVE  SignInInv'
<1>1. flow[c].at = "cleared" /\ UNCHANGED <<shared, events, lost, mixed>>
  BY DEF PreparedAfterClear
<1>2. CASE user # NoAccount \/ ~flow[c].latest
  <2>1. flow' = Done(c) /\ UNCHANGED <<user, token, authed, isLoading, data, cleanup, rotation>>
    BY <1>2 DEF PreparedAfterClear, storeVars
  <2> QED BY <1>1, <2>1, Beside, OneEnds
<1>3. CASE user = NoAccount /\ flow[c].latest
  <2>1. Publish(c)
    BY <1>3 DEF PreparedAfterClear
  <2>2. cleanup.step = "none" /\ (~mixed => flow[c].new)
    BY <1>1, <1>3, OfFlow DEF Sound, Awaiting
  <2> QED BY <1>1, <1>3, <2>1, <2>2, Published DEF Waking
<1> QED BY <1>2, <1>3

LEMMA CleanupStepKeeps ==
  ASSUME SignInInv, CleanupStep \/ CleanupStepFails
  PROVE  SignInInv'
<1>1. /\ UNCHANGED <<user, token, authed, isLoading, data, flow, rotation, shared, lost>>
      /\ cleanup.step = "resetting" /\ cleanup'.step = "purging"
  BY DEF CleanupStep, CleanupStepFails, storeVars, SignInInv, SignInTypeOK
<1>2. mixed' \in BOOLEAN /\ (mixed => mixed')
      /\ (~mixed' => cleanup'.current = cleanup.current /\ cleanup'.failed = cleanup.failed)
  BY DEF CleanupStep, CleanupStepFails, SignInInv, SignInTypeOK
<1>3. SignInTypeOK'
  <2>1. events' \in 0..MaxEvents
    BY EventCounted DEF CleanupStep, CleanupStepFails, SignInInv, SignInTypeOK
  <2>2. cleanup' \in CleanupRecord
    BY DEF CleanupStep, CleanupStepFails, SignInInv, SignInTypeOK, CleanupRecord
  <2> QED BY <1>1, <1>2, <2>1, <2>2 DEF SignInInv, SignInTypeOK, CleanupRecord
<1>4. StoreGood'
  BY <1>1, <1>2 DEF SignInInv, SignInTypeOK, StoreGood
<1>5. FlowsSound'
  <2> SUFFICES ASSUME NEW d \in Flows
               PROVE  Sound(flow[d], token, user, authed, mixed')
    BY <1>1 DEF FlowsSound
  <2>1. Sound(flow[d], token, user, authed, mixed)
    BY OfFlow
  <2> QED BY <1>2, <2>1 DEF Sound, SignInInv, SignInTypeOK
<1>6. FlowsWait'
  <2> SUFFICES ASSUME NEW d \in Flows
               PROVE  Awaiting(flow[d], "purging")
    BY <1>1 DEF FlowsWait
  <2>1. Awaiting(flow[d], "resetting")
    BY <1>1, OfFlow
  <2> QED BY <2>1 DEF Awaiting
<1>7. FlowsApart' /\ RotationsGood'
  BY <1>1 DEF SignInInv, FlowsApart, RotationsGood, RotationGood
<1> QED BY <1>3, <1>4, <1>5, <1>6, <1>7 DEF SignInInv

LEMMA CleanupEndsKeeps ==
  ASSUME SignInInv, CleanupEnds
  PROVE  SignInInv'
<1> DEFINE g(d) == IF flow[d].at \notin {"settling", "clearing"} THEN flow[d]
                   ELSE IF cleanup.failed THEN Idle
                   ELSE [flow[d] EXCEPT !.at = IF @ = "settling" THEN "settled" ELSE "cleared"]
<1>1. /\ UNCHANGED <<user, token, authed, isLoading, rotation, shared, events, lost, mixed>>
      /\ flow' = [d \in Flows |-> g(d)]
  BY DEF CleanupEnds, storeVars, Awaited
<1>2. \E left \in SUBSET Accounts :
        /\ cleanup' = [NoCleanup EXCEPT !.late = left]
        /\ data' \subseteq Accounts
        /\ cleanup.current /\ ~cleanup.failed => data' = left
  BY DEF CleanupEnds, SignInInv, SignInTypeOK
<1>3. ASSUME NEW d \in Flows
      PROVE  /\ g(d) \in FlowRecord
             /\ \/ g(d) = flow[d] /\ flow[d].at \notin {"settling", "clearing"}
                \/ g(d) = Idle /\ flow[d].at \in {"settling", "clearing"}
                \/ /\ flow[d].at = "settling" /\ g(d).at = "settled"
                   /\ g(d) = [flow[d] EXCEPT !.at = "settled"]
                \/ /\ flow[d].at = "clearing" /\ g(d).at = "cleared"
                   /\ g(d) = [flow[d] EXCEPT !.at = "cleared"]
  <2>1. flow[d] \in FlowRecord
    BY OfFlow
  <2>2. CASE flow[d].at \notin {"settling", "clearing"}
    BY <2>1, <2>2
  <2>3. CASE flow[d].at \in {"settling", "clearing"} /\ cleanup.failed
    BY <2>3, Constants
  <2>4. CASE flow[d].at = "settling" /\ ~cleanup.failed
    <3>1. g(d) = [flow[d] EXCEPT !.at = "settled"]
      BY <2>1, <2>4 DEF FlowRecord
    <3> HIDE DEF g
    <3> QED BY <2>1, <2>4, <3>1 DEF FlowRecord, FlowPlaces
  <2>5. CASE flow[d].at = "clearing" /\ ~cleanup.failed
    <3>1. g(d) = [flow[d] EXCEPT !.at = "cleared"]
      BY <2>1, <2>5 DEF FlowRecord
    <3> HIDE DEF g
    <3> QED BY <2>1, <2>5, <3>1 DEF FlowRecord, FlowPlaces
  <2> QED BY <2>2, <2>3, <2>4, <2>5
<1> HIDE DEF g
<1>4. SignInTypeOK'
  <2>1. flow' \in [Flows -> FlowRecord]
    BY <1>1, <1>3
  <2>2. cleanup' \in CleanupRecord /\ data' \subseteq Accounts
    BY <1>2 DEF NoCleanup, CleanupRecord
  <2> QED BY <1>1, <2>1, <2>2 DEF SignInInv, SignInTypeOK, FlowRecord, CleanupRecord
<1>5. StoreGood'
  <2>1. cleanup.step # "none"
    BY DEF CleanupEnds
  <2> QED BY <1>1, <1>2, <2>1 DEF SignInInv, StoreGood, NoCleanup
<1>6. FlowsSound' /\ FlowsWait'
  <2> SUFFICES ASSUME NEW d \in Flows
               PROVE  Sound(g(d), token, user, authed, mixed) /\ Awaiting(g(d), "none")
    BY <1>1, <1>2 DEF FlowsSound, FlowsWait, NoCleanup
  <2>1. flow[d] \in FlowRecord /\ Sound(flow[d], token, user, authed, mixed)
    BY OfFlow
  <2>2. CASE g(d) = flow[d] /\ flow[d].at \notin {"settling", "clearing"}
    BY <2>1, <2>2 DEF Awaiting
  <2>3. CASE g(d) = Idle
    BY <2>3, IdleIsGood
  <2>4. CASE flow[d].at = "settling" /\ g(d) = [flow[d] EXCEPT !.at = "settled"]
    BY <2>1, <2>4 DEF Sound, Awaiting, Waking, FlowRecord
  <2>5. CASE flow[d].at = "clearing" /\ g(d) = [flow[d] EXCEPT !.at = "cleared"]
    BY <2>1, <2>5 DEF Sound, Awaiting, Waking, FlowRecord
  <2> QED BY <1>3, <2>2, <2>3, <2>4, <2>5
<1>7. FlowsApart'
  <2> SUFFICES ASSUME NEW d \in Flows, NEW e \in Flows, d # e
               PROVE  Apart(g(d), g(e))
    BY <1>1 DEF FlowsApart
  <2>1. Apart(flow[d], flow[e])
    BY OfFlow
  <2>2. ASSUME NEW f \in Flows
        PROVE  \/ g(f) = Idle
               \/ /\ Continues(g(f), flow[f])
                  /\ g(f).at \in {"clearing", "cleared"} => flow[f].at \in {"clearing", "cleared"}
    <3>1. flow[f] \in FlowRecord
      BY OfFlow
    <3> QED BY <1>3, <3>1 DEF Continues, FlowRecord
  <2> QED BY <2>1, <2>2, IdleIsGood DEF Apart, Continues
<1>8. RotationsGood'
  <2>1. ASSUME NEW d \in Flows
        PROVE  Alike(flow'[d], flow[d])
    <3>1. flow[d] \in FlowRecord /\ flow'[d] = g(d)
      BY <1>1, OfFlow
    <3> QED BY <1>3, <3>1 DEF Alike, Idle, NewFlow, FlowRecord
  <2> QED BY <1>1, <2>1, RotationsKept DEF SignInInv
<1> QED BY <1>4, <1>5, <1>6, <1>7, <1>8 DEF SignInInv

LEMMA ProtectedRequestKeeps ==
  ASSUME SignInInv, NEW c \in Flows, ProtectedRequest(c)
  PROVE  SignInInv'
<1> DEFINE r == [NewFlow("request", "asking") EXCEPT !.sender = token.account,
                                                     !.held = token # NoToken]
<1>1. /\ UNCHANGED <<user, token, authed, isLoading, data, cleanup, rotation, shared, lost, mixed>>
      /\ flow' = [flow EXCEPT ![c] = r] /\ flow[c] = Idle
  BY DEF ProtectedRequest, storeVars, Spare
<1>2. BesideTyped
  BY <1>1, EventCounted DEF ProtectedRequest, BesideTyped, SignInInv, SignInTypeOK
<1>3. token.account \in Accounts \cup {NoAccount}
  BY RecordsTyped DEF SignInInv, TokenRecord
<1>4. /\ r \in FlowRecord /\ r.kind = "request" /\ r.at = "asking" /\ r.sender = token.account
      /\ r.held = (token # NoToken)
  BY <1>3 DEF NewFlow, FlowRecord, Kinds, FlowPlaces
<1> HIDE DEF r
<1>5. /\ flow' \in [Flows -> FlowRecord] /\ flow'[c] = r
      /\ \A d \in Flows \ {c} : flow'[d] = flow[d]
  BY <1>1, <1>4, OfFlow
<1>6. \A d \in Flows \ {c} : Weaker(flow'[d], flow[d])
  BY <1>5 DEF Weaker
<1>7. Sound(r, token, user, authed, mixed) /\ Awaiting(r, cleanup.step)
  BY <1>4 DEF Sound, Awaiting, Waking, Captures
<1>8. \A d \in Flows \ {c} : Apart(r, flow[d]) /\ Apart(flow[d], r)
  BY <1>4 DEF Apart, Captures
<1>9. flow[c].at # "rotating" /\ r.at # "rotating"
  BY <1>1, <1>4 DEF Idle, NewFlow
<1> QED BY <1>1, <1>2, <1>5, <1>6, <1>7, <1>8, <1>9, OneMoves

LEMMA RefreshSessionKeeps ==
  ASSUME SignInInv, NEW c \in Flows, RefreshSession(c)
  PROVE  SignInInv'
<1> DEFINE r == [NewFlow("refresh", "rotating") EXCEPT !.sender = token.account, !.held = TRUE]
<1>1. /\ UNCHANGED <<user, token, authed, isLoading, data, cleanup, lost, mixed>>
      /\ flow[c] = Idle /\ authed /\ token # NoToken
      /\ RotateFor(c, [flow EXCEPT ![c] = r], TRUE)
  BY DEF RefreshSession, storeVars, Spare
<1>2. token.account \in Accounts
  BY <1>1 DEF SignInInv, StoreGood
<1>3. /\ r \in FlowRecord /\ r.kind = "refresh" /\ r.sender = token.account /\ r.held = TRUE
      /\ r.at = "rotating"
  BY <1>2 DEF NewFlow, FlowRecord, Kinds, FlowPlaces
<1> HIDE DEF r
<1>4. isLoading' \in BOOLEAN /\ events' \in 0..MaxEvents /\ lost' \in BOOLEAN
  BY <1>1, EventCounted DEF RefreshSession, SignInInv, SignInTypeOK
<1>5. ASSUME NEW d \in Flows \ {c}
      PROVE  Apart(flow[d], r)
  <2>1. flow[d].at # "cleared"
    BY DEF RefreshSession, Drained
  <2>2. flow[d].at # "clearing"
    BY <1>1, OfFlow DEF Awaiting, SignInInv, StoreGood
  <2>3. flow[d].kind = "login" => ~flow[d].latest
    BY <1>1, OfFlow DEF Sound
  <2> QED BY <2>1, <2>2, <2>3 DEF Apart
<1>6. ~mixed => token.account = user
  BY DEF SignInInv, StoreGood
<1>7. flow[c].at # "rotating"
  BY <1>1 DEF Idle, NewFlow
<1> QED BY <1>1, <1>2, <1>3, <1>4, <1>5, <1>6, <1>7, RotateMoves

LEMMA ProfileArrivesKeeps ==
  ASSUME SignInInv, NEW c \in Flows, ProfileArrives(c)
  PROVE  SignInInv'
<1>1. /\ BesideTyped /\ UNCHANGED <<user, token, authed, data, cleanup, mixed, rotation>>
  BY Beside DEF ProfileArrives, storeVars
<1>2. flow[c].kind = "check" /\ flow[c].at # "rotating"
  BY DEF ProfileArrives, Asking
<1>3. CASE IsCurrent(c)
  <2>1. flow' = Prepared(c, flow[c].sender, FALSE)
    BY <1>3 DEF ProfileArrives
  <2>2. flow[c].sender \in Accounts /\ (~mixed => flow[c].sender = user)
    BY <1>2, <1>3, OfFlow DEF IsCurrent, Sound, Captures
  <2> QED BY <1>1, <1>2, <2>1, <2>2, PreparedMoves DEF Captures
<1>4. CASE ~IsCurrent(c)
  BY <1>1, <1>2, <1>4, OneEnds DEF ProfileArrives
<1> QED BY <1>3, <1>4

\* The stores take an answer: what came from another account is late.
LEMMA StoredKeeps ==
  ASSUME SignInInv, NEW c \in Flows, flow[c].at # "rotating", flow' = Done(c),
         NEW acct \in Accounts, Stored(acct),
         UNCHANGED <<user, token, authed, isLoading, rotation, shared, events, lost, mixed>>
  PROVE  SignInInv'
<1>1. /\ cleanup' = [cleanup EXCEPT !.late = @ \cup ({acct} \ {user})]
      /\ data' = data \cup {acct}
  BY DEF Stored
<1>2. cleanup \in CleanupRecord
  BY DEF SignInInv, SignInTypeOK, CleanupRecord
<1>3. /\ cleanup' \in CleanupRecord /\ cleanup'.step = cleanup.step
      /\ cleanup'.current = cleanup.current /\ cleanup'.failed = cleanup.failed
      /\ cleanup'.late = cleanup.late \cup ({acct} \ {user})
  BY <1>1, <1>2 DEF CleanupRecord
<1>4. SignInTypeOK'
  BY <1>1, <1>3, DoneFlows DEF SignInInv, SignInTypeOK, FlowRecord, CleanupRecord
<1>5. StoreGood'
  BY <1>1, <1>3 DEF SignInInv, StoreGood
<1>6. FlowsSound'
  BY DoneFlows DEF FlowsSound
<1>7. FlowsWait'
  BY <1>3, DoneFlows, IdleIsGood DEF SignInInv, FlowsWait
<1>8. FlowsApart'
  BY DoneFlows, IdleIsGood DEF SignInInv, FlowsApart
<1>9. RotationsGood'
  BY DoneFlows, RotationsKept DEF SignInInv
<1> QED BY <1>4, <1>5, <1>6, <1>7, <1>8, <1>9 DEF SignInInv

LEMMA AnswerArrivesKeeps ==
  ASSUME SignInInv, NEW c \in Flows, AnswerArrives(c)
  PROVE  SignInInv'
<1>1. /\ UNCHANGED <<isLoading, shared, events, lost>>
      /\ flow[c].kind = "request" /\ flow[c].at # "rotating" /\ flow[c].sender # NoAccount
  BY DEF AnswerArrives, Asking, Accepted
<1>2. CASE flow' = Done(c) /\ UNCHANGED <<user, token, authed, data, cleanup, rotation, mixed>>
  BY <1>1, <1>2, Beside, OneEnds
<1>3. CASE /\ SetSession(flow[c].sender, token, authed, Done(c)) /\ UNCHANGED data
           /\ mixed' = (mixed \/ user # flow[c].sender)
  <2>1. flow[c].sender \in Accounts
    BY <1>1, OfFlow DEF FlowRecord
  <2>2. token \in TokenRecord /\ authed \in BOOLEAN /\ mixed \in BOOLEAN
    BY RecordsTyped DEF SignInInv, SignInTypeOK
  <2>3. /\ isLoading' \in BOOLEAN /\ data' \subseteq Accounts
        /\ mixed' \in BOOLEAN /\ (mixed => mixed')
    BY <1>1, <1>3, <2>2 DEF SignInInv, SignInTypeOK
  <2>4. (token = NoToken \/ token.account \in Accounts) /\ (authed => cleanup.step = "none")
    BY DEF SignInInv, StoreGood
  <2>5. ~mixed' => /\ token.account = flow[c].sender /\ user = flow[c].sender
                   /\ cleanup.step = "none"
                        => data' \subseteq {flow[c].sender} \cup cleanup.late
    BY <1>1, <1>3, <2>2 DEF SignInInv, StoreGood
  <2> QED BY <1>1, <1>3, <2>1, <2>2, <2>3, <2>4, <2>5, SessionSet
<1>4. CASE /\ flow' = Done(c) /\ Stored(flow[c].sender)
           /\ UNCHANGED <<user, token, authed, rotation, mixed>>
  <2>1. flow[c].sender \in Accounts
    BY <1>1, OfFlow DEF FlowRecord
  <2> QED BY <1>1, <1>4, <2>1, StoredKeeps
<1> QED BY <1>2, <1>3, <1>4 DEF AnswerArrives

\* The caller of a request gets its error.
LEMMA Thrown ==
  ASSUME SignInInv, NEW c \in Flows, NEW hard \in BOOLEAN, Throws(c, hard),
         flow[c].at # "rotating", flow[c].kind \in {"check", "request"},
         UNCHANGED <<user, token, authed, data, cleanup, mixed>>, events' \in 0..MaxEvents
  PROVE  SignInInv'
<1>1. isLoading \in BOOLEAN /\ lost \in BOOLEAN /\ shared \in Flows \cup {NoFlow}
  BY DEF SignInInv, SignInTypeOK
<1>2. CASE flow[c].kind # "check" \/ ~IsCurrent(c) \/ hard
  <2>1. flow' = Done(c) /\ UNCHANGED <<rotation, shared, lost>> /\ isLoading' \in BOOLEAN
    BY <1>1, <1>2 DEF Throws
  <2> QED BY <1>1, <2>1, OneEnds DEF BesideTyped
<1>3. CASE flow[c].kind = "check" /\ IsCurrent(c) /\ ~hard
  <2> DEFINE held == flow[c].held /\ flow[c].at # "retrying"
             r == [flow[c] EXCEPT !.kind = "recheck", !.reply = "none", !.held = held]
  <2>1. flow \in [Flows -> FlowRecord] /\ flow[c] \in FlowRecord
    BY OfFlow
  <2>2. Recheck(c) /\ UNCHANGED isLoading
    BY <1>3 DEF Throws
  <2>3. held \in BOOLEAN /\ (held => flow[c].held)
    BY <2>1 DEF FlowRecord
  <2>4. [flow EXCEPT ![c].kind = "recheck", ![c].reply = "none", ![c].held = held]
          = [flow EXCEPT ![c] = r]
    <3> HIDE DEF held
    <3> QED BY <2>1
  <2>5. RotateFor(c, [flow EXCEPT ![c] = r], held) /\ lost' \in BOOLEAN
    <3>1. /\ RotateFor(c, [flow EXCEPT ![c].kind = "recheck", ![c].reply = "none",
                                       ![c].held = held], held)
          /\ lost' = (lost \/ ~held)
      BY <2>2 DEF Recheck
    <3> HIDE DEF held, r
    <3> QED BY <1>1, <2>4, <3>1
  <2> HIDE DEF held
  <2>6. /\ r \in FlowRecord /\ r.kind = "recheck" /\ r.held = held /\ r.at = flow[c].at
        /\ r.sender = flow[c].sender /\ r.sameRevision = flow[c].sameRevision
        /\ r.latest = flow[c].latest
    BY <2>1, <2>3 DEF FlowRecord, Kinds
  <2> HIDE DEF r
  <2>7. /\ token # NoToken /\ flow[c].sender \in Accounts /\ (~mixed => flow[c].sender = user)
        /\ held => flow[c].sender = token.account
    BY <1>3, <2>3, OfFlow DEF Sound, Captures, IsCurrent
  <2>8. ASSUME NEW d \in Flows \ {c}
        PROVE  Apart(flow[d], r)
    BY <1>3, <2>6, OfFlow DEF Apart, Captures
  <2> QED BY <1>1, <2>2, <2>5, <2>6, <2>7, <2>8, RotateMoves
<1> QED BY <1>2, <1>3

LEMMA AuthFailed ==
  ASSUME SignInInv, NEW c \in Flows, AuthFails(c),
         flow[c].at # "rotating", flow[c].kind \in {"check", "request"},
         UNCHANGED <<data, events, mixed>>
  PROVE  SignInInv'
<1>1. CASE authed
  BY <1>1, DoneFlows, LoggedOut DEF AuthFails
<1>2. CASE ~authed
  <2>1. events' \in 0..MaxEvents
    BY DEF SignInInv, SignInTypeOK
  <2> QED BY <1>2, <2>1, Thrown DEF AuthFails
<1> QED BY <1>1, <1>2

LEMMA UnauthorizedKeeps ==
  ASSUME SignInInv, NEW c \in Flows, Unauthorized(c)
  PROVE  SignInInv'
<1>1. /\ flow[c].kind \in {"check", "request"} /\ flow[c].at \in {"asking", "retrying"}
      /\ UNCHANGED <<data, events, mixed>> /\ events' \in 0..MaxEvents
  BY DEF Unauthorized, Asking, SignInInv, SignInTypeOK
<1>2. flow \in [Flows -> FlowRecord] /\ flow[c] \in FlowRecord
  BY OfFlow
<1>3. CASE flow[c].at = "retrying"
  BY <1>1, <1>3, Thrown DEF Unauthorized
<1>4. CASE flow[c].at # "retrying" /\ token = NoToken
  BY <1>1, <1>4, AuthFailed DEF Unauthorized
<1>5. CASE flow[c].at # "retrying" /\ token # NoToken /\ flow[c].held
  <2>1. /\ RotateFor(c, flow, TRUE)
        /\ UNCHANGED <<user, token, authed, isLoading, cleanup, lost>>
    BY <1>5 DEF Unauthorized, storeVars
  <2>2. flow = [flow EXCEPT ![c] = flow[c]] /\ flow[c].held = TRUE
    BY <1>2, <1>5 DEF FlowRecord
  <2>3. RotateFor(c, [flow EXCEPT ![c] = flow[c]], flow[c].held)
    BY <2>1, <2>2
  <2>4. isLoading' \in BOOLEAN /\ lost' \in BOOLEAN
    BY <2>1 DEF SignInInv, SignInTypeOK
  <2>5. flow[c].sender = token.account /\ token.account \in Accounts
    BY <1>5, OfFlow DEF Sound, SignInInv, StoreGood
  <2>6. ~mixed => token.account = user
    BY DEF SignInInv, StoreGood
  <2> QED BY <1>1, <1>2, <1>5, <2>1, <2>3, <2>4, <2>5, <2>6, OfFlow, RotateMoves
<1>6. CASE flow[c].at # "retrying" /\ token # NoToken /\ ~flow[c].held
  <2> DEFINE r == [flow[c] EXCEPT !.at = "retrying", !.sender = token.account, !.held = TRUE]
  <2>1. /\ flow' = [flow EXCEPT ![c].at = "retrying", ![c].sender = token.account, ![c].held = TRUE]
        /\ UNCHANGED <<user, token, authed, isLoading, cleanup, rotation, shared, lost>>
    BY <1>6 DEF Unauthorized, storeVars
  <2>2. token.account \in Accounts /\ (~mixed => token.account = user)
    BY <1>6 DEF SignInInv, StoreGood
  <2>3. flow' = [flow EXCEPT ![c] = r]
    BY <1>2, <2>1
  <2>4. /\ r \in FlowRecord /\ r.at = "retrying" /\ Continues(r, flow[c])
        /\ r.sender = token.account
    BY <1>2, <2>2 DEF FlowRecord, FlowPlaces, Continues
  <2> HIDE DEF r
  <2>5. Sound(r, token, user, authed, mixed) /\ Awaiting(r, cleanup.step)
    BY <1>1, <1>6, <2>2, <2>4 DEF Sound, Awaiting, Waking, Continues
  <2> QED BY <1>1, <1>6, <2>1, <2>3, <2>4, <2>5, Beside, OneContinues
<1> QED BY <1>3, <1>4, <1>5, <1>6

LEMMA RequestFailsKeeps ==
  ASSUME SignInInv, NEW c \in Flows, RequestFails(c)
  PROVE  SignInInv'
BY EventCounted, Thrown DEF RequestFails, Asking

LEMMA ServerRotatesKeeps ==
  ASSUME SignInInv, NEW c \in Flows, ServerRotates(c)
  PROVE  SignInInv'
<1> DEFINE live == IF rotation[c].held THEN token.live ELSE rotation[c].live
           r == [rotation[c] EXCEPT !.reply = IF live THEN "granted" ELSE "refused"]
<1>1. /\ rotation[c].reply = "open"
      /\ rotation' = [rotation EXCEPT ![c].reply = IF live THEN "granted" ELSE "refused"]
      /\ token' = [token EXCEPT !.live = @ /\ ~rotation[c].held]
      /\ UNCHANGED <<user, authed, isLoading, data, cleanup, flow, shared, events, lost, mixed>>
  BY DEF ServerRotates
<1>2. /\ rotation \in [Flows -> RotationRecord] /\ rotation[c] \in RotationRecord
      /\ token \in TokenRecord /\ lost' \in BOOLEAN
  BY <1>1, RecordsTyped DEF SignInInv, SignInTypeOK
<1>3. rotation' = [rotation EXCEPT ![c] = r]
  BY <1>1, <1>2
<1> HIDE DEF live
<1>4. /\ r \in RotationRecord /\ r.reply # "none" /\ r.account = rotation[c].account
      /\ r.held = rotation[c].held
  BY <1>2 DEF RotationRecord
<1> HIDE DEF r
<1>5. /\ rotation' \in [Flows -> RotationRecord] /\ rotation'[c] = r
      /\ \A d \in Flows \ {c} : rotation'[d] = rotation[d]
  BY <1>2, <1>3, <1>4
<1>6. token' \in TokenRecord /\ token'.account = token.account
  BY <1>1, <1>2 DEF TokenRecord, RotationRecord
<1>7. token.account \in Accounts \/ token' = token
  <2>1. CASE rotation[c].held
    BY <1>1, <2>1 DEF SignInInv, RotationsGood, RotationGood
  <2>2. CASE ~rotation[c].held
    BY <1>1, <1>2, <2>2 DEF TokenRecord
  <2> QED BY <2>1, <2>2
<1> QED BY <1>1, <1>2, <1>4, <1>5, <1>6, <1>7, TokenAges

LEMMA RotationEndsKeeps ==
  ASSUME SignInInv, NEW c \in Flows, RotationArrives(c) \/ RotationLost(c)
  PROVE  SignInInv'
<1>1. CASE RotationArrives(c)
  <2>1. /\ rotation[c].reply \in {"granted", "refused"}
        /\ RefreshAnswered(c, rotation[c].reply)
        /\ UNCHANGED <<user, token, authed, isLoading, data, cleanup, events, lost, mixed>>
    BY <1>1 DEF RotationArrives, storeVars
  <2>2. events' \in 0..MaxEvents /\ lost' \in BOOLEAN
    BY <2>1 DEF SignInInv, SignInTypeOK
  <2> QED BY <2>1, <2>2, AnsweredMoves
<1>2. CASE RotationLost(c)
  <2>1. /\ rotation[c].reply # "none" /\ RefreshAnswered(c, "lost")
        /\ UNCHANGED <<user, token, authed, isLoading, data, cleanup, mixed>>
    BY <1>2 DEF RotationLost, storeVars
  <2>2. events' \in 0..MaxEvents /\ lost' \in BOOLEAN
    BY <1>2, EventCounted DEF RotationLost, SignInInv, SignInTypeOK
  <2> QED BY <2>1, <2>2, AnsweredMoves
<1> QED BY <1>1, <1>2

LEMMA TokenRefreshedKeeps ==
  ASSUME SignInInv, NEW c \in Flows, TokenRefreshed(c)
  PROVE  SignInInv'
<1>1. /\ flow[c].at = "rotated" /\ flow[c].kind \in {"request", "check"}
      /\ UNCHANGED <<data, events, mixed>> /\ events' \in 0..MaxEvents
  BY DEF TokenRefreshed, SignInInv, SignInTypeOK
<1>2. CASE flow[c].reply = "granted" /\ Resent(c) /\ UNCHANGED <<isLoading, shared, lost>>
  BY <1>1, <1>2, ResentMoves
<1>3. CASE flow[c].reply = "refused" /\ AuthFails(c)
  BY <1>1, <1>3, AuthFailed
<1>4. CASE /\ \E hard \in BOOLEAN : Throws(c, hard)
           /\ UNCHANGED <<user, token, authed, cleanup>>
  BY <1>1, <1>4, Thrown
<1> QED BY <1>2, <1>3, <1>4 DEF TokenRefreshed

LEMMA SessionRefreshedKeeps ==
  ASSUME SignInInv, NEW c \in Flows, SessionRefreshed(c)
  PROVE  SignInInv'
<1>1. /\ flow[c].at = "rotated" /\ flow[c].kind \in {"refresh", "recheck"}
      /\ UNCHANGED <<data, shared, events, lost, mixed>>
  BY DEF SessionRefreshed
<1>2. flow[c].kind \in Captures
  BY <1>1 DEF Captures
<1>3. CASE ~IsCurrent(c)
  <2>1. flow' = Done(c) /\ UNCHANGED <<user, token, authed, isLoading, cleanup, rotation>>
    BY <1>3 DEF SessionRefreshed, storeVars
  <2> QED BY <1>1, <2>1, Beside, OneEnds
<1>4. CASE /\ flow[c].reply = "granted" /\ flow' = Prepared(c, flow[c].account, TRUE)
           /\ UNCHANGED <<storeVars, cleanup, rotation>>
  <2>1. flow[c].account \in Accounts
    BY <1>1, <1>4, OfFlow DEF Sound
  <2> QED BY <1>1, <1>2, <1>4, <2>1, Beside, PreparedMoves DEF storeVars
<1>5. CASE /\ flow' = Done(c) /\ isLoading' = (isLoading /\ flow[c].kind = "refresh")
           /\ UNCHANGED <<user, token, authed, cleanup, rotation>>
  BY <1>1, <1>5, OneEnds DEF BesideTyped, SignInInv, SignInTypeOK
<1>6. CASE IsCurrent(c) /\ ClearSession(Done(c))
  <2>1. CASE cleanup.step # "none"
    <3>1. flow' = Done(c) /\ UNCHANGED <<user, token, authed, isLoading, cleanup, rotation>>
      BY <1>6, <2>1 DEF ClearSession, Cleared, storeVars
    <3> QED BY <1>1, <3>1, Beside, OneEnds
  <2>2. CASE cleanup.step = "none"
    <3>1. token # NoToken
      BY <1>2, <1>6, OfFlow DEF Sound, IsCurrent
    <3>2. token.live \in BOOLEAN /\ lost' \in BOOLEAN
      BY <1>1, RecordsTyped DEF SignInInv, SignInTypeOK, TokenRecord
    <3>3. ASSUME NEW d \in Flows, Done(c)[d].latest
          PROVE  /\ Done(c)[d].at # "cleared"
                 /\ Done(c)[d].at = "settled" => Done(c)[d].kind # "login"
      <4>1. CASE d = c
        BY <1>1, <4>1, DoneFlows DEF Idle, NewFlow
      <4>2. CASE d # c
        <5>1. /\ Apart(flow[d], flow[c]) /\ Sound(flow[d], token, user, authed, mixed)
              /\ Done(c)[d] = flow[d]
          BY <1>1, <4>2, OfFlow, DoneFlows
        <5> QED BY <1>2, <1>6, <3>3, <5>1 DEF Apart, Sound, Waking, IsCurrent
      <4> QED BY <4>1, <4>2
    <3>4. ASSUME NEW d \in Flows, NEW e \in Flows, d # e
          PROVE  Apart(Done(c)[d], Done(c)[e])
      BY <1>1, <3>4, DoneFlows, IdleIsGood, OfFlow
    <3>5. \A d, e \in Flows :
            d # e /\ Done(c)[d].kind = "login" /\ Done(c)[d].latest
              /\ Done(c)[e].kind \in Captures \cup {"login"} => ~Done(c)[e].latest
      BY <3>4 DEF Apart
    <3>6. Cleared(Done(c), token.live)
      BY <1>6 DEF ClearSession
    <3> QED BY <1>1, <2>2, <3>1, <3>2, <3>3, <3>5, <3>6, DoneFlows, ClearedMoves
  <2> QED BY <2>1, <2>2
<1> QED BY <1>3, <1>4, <1>5, <1>6 DEF SessionRefreshed

LEMMA TokenAgesKeeps ==
  ASSUME SignInInv, AccessExpires \/ RevokedElsewhere
  PROVE  SignInInv'
<1>1. /\ token.fresh \/ token.live
      /\ \/ token' = [token EXCEPT !.fresh = FALSE]
         \/ token' = [token EXCEPT !.live = FALSE]
      /\ UNCHANGED <<user, authed, isLoading, data, cleanup, flow, rotation, shared, events, mixed>>
  BY DEF AccessExpires, RevokedElsewhere
<1>2. token \in TokenRecord /\ rotation \in [Flows -> RotationRecord] /\ lost' \in BOOLEAN
  BY RecordsTyped DEF SignInInv, SignInTypeOK, AccessExpires, RevokedElsewhere
<1>3. token.account \in Accounts
  BY <1>1 DEF SignInInv, StoreGood, NoToken
<1>4. token' \in TokenRecord /\ token'.account = token.account
  BY <1>1, <1>2 DEF TokenRecord
<1> QED BY <1>1, <1>2, <1>3, <1>4, TokenAges

\* What is true in every state of a window: its account, its token and its data agree, and
\* of the flows under way at most those of the newest attempt may still change them.
THEOREM SignInInvariant == SignInSpec => []SignInInv
<1>1. SignInInit => SignInInv
  BY SignInStarts
<1>2. SignInInv /\ [SignInNext]_signInVars => SignInInv'
  <2> SUFFICES ASSUME SignInInv, [SignInNext]_signInVars
               PROVE  SignInInv'
    OBVIOUS
  <2>1. CASE UNCHANGED signInVars
    BY <2>1 DEF signInVars, SignInInv, SignInTypeOK, StoreGood, FlowsSound, FlowsWait,
       FlowsApart, RotationsGood, RotationGood
  <2>2. CASE LogOutByUser
    BY <2>2, LogOutByUserKeeps
  <2>3. CASE CleanupStep \/ CleanupStepFails
    BY <2>3, CleanupStepKeeps
  <2>4. CASE CleanupEnds
    BY <2>4, CleanupEndsKeeps
  <2>5. CASE AccessExpires \/ RevokedElsewhere
    BY <2>5, TokenAgesKeeps
  <2>6. ASSUME NEW c \in Flows, \E a \in Accounts : LogIn(c, a)
        PROVE  SignInInv'
    BY <2>6, LogInKeeps
  <2>7. ASSUME NEW c \in Flows, LogInAnswered(c) \/ Reload(c)
        PROVE  SignInInv'
    BY <2>7, LogInAnsweredKeeps, ReloadKeeps
  <2>8. ASSUME NEW c \in Flows, PrepareSession(c) \/ PreparedAfterClear(c)
        PROVE  SignInInv'
    BY <2>8, PrepareSessionKeeps, PreparedAfterClearKeeps
  <2>9. ASSUME NEW c \in Flows, ProtectedRequest(c) \/ RefreshSession(c)
        PROVE  SignInInv'
    BY <2>9, ProtectedRequestKeeps, RefreshSessionKeeps
  <2>10. ASSUME NEW c \in Flows, ProfileArrives(c) \/ AnswerArrives(c)
         PROVE  SignInInv'
    BY <2>10, ProfileArrivesKeeps, AnswerArrivesKeeps
  <2>11. ASSUME NEW c \in Flows, Unauthorized(c) \/ RequestFails(c)
         PROVE  SignInInv'
    BY <2>11, UnauthorizedKeeps, RequestFailsKeeps
  <2>12. ASSUME NEW c \in Flows, ServerRotates(c) \/ RotationArrives(c) \/ RotationLost(c)
         PROVE  SignInInv'
    BY <2>12, ServerRotatesKeeps, RotationEndsKeeps
  <2>13. ASSUME NEW c \in Flows, TokenRefreshed(c) \/ SessionRefreshed(c)
         PROVE  SignInInv'
    BY <2>13, TokenRefreshedKeeps, SessionRefreshedKeeps
  <2> QED BY <2>1, <2>2, <2>3, <2>4, <2>5, <2>6, <2>7, <2>8, <2>9, <2>10, <2>11, <2>12, <2>13
       DEF SignInNext
<1> QED BY <1>1, <1>2, PTL DEF SignInSpec

\* A window that is signed in holds the token and the data of its user only, beside what
\* another account's requests were answered since the last cleanup began, and nothing is left
\* that would erase them, whatever the number of accounts, of requests and of refreshes that
\* overlap (prepareSession, clearSession and the two revisions of auth.store.ts, the answers
\* of server.store.ts and bookmark.store.ts).
THEOREM OneAccountAtATime == SignInSpec => []OneAccount
<1>1. SignInInv => OneAccount
  BY DEF SignInInv, StoreGood, OneAccount
<1> QED BY <1>1, SignInInvariant, PTL

-----------------------------------------------------------------------------
(* Nobody is signed out by a refresh.                                      *)
(*                                                                         *)
(* Until the history says that a refused refresh is no surprise, no        *)
(* refresh is refused: the token in the store is live, or its replacement  *)
(* is on its way to the store, and until it gets there no other request    *)
(* presents the old one.  That the replacement does get there is what the  *)
(* captured revisions decide: a refresh whose token is still the store's   *)
(* is not stale (Steady), so its answer is not dropped.                    *)

Checks == {"check", "recheck"}
Renews == {"refresh", "recheck"}
Undisturbed == ~lost /\ ~mixed

\* The account a flow has been answered with is the one whose token it sent.
Named(f) ==
  /\ f.kind = "none" => f.at = "idle"
  /\ f.at = "rotated" => f.account = f.sender
  /\ f.kind \in Captures /\ f.at \in Waking => f.account = f.sender

\* What a flow captured, against the store's authed and isLoading.
Steady(f, a, loading, mx) ==
  /\ Named(f)
  /\ f.kind \in Checks /\ f.sameRevision /\ f.latest => loading
  /\ f.kind = "refresh" /\ f.sameRevision => a
  /\ ~a /\ loading => f.kind \in {"none"} \cup Checks
  /\ ~mx /\ f.kind \in Renews /\ f.held => f.sameRevision /\ f.latest

\* A flow with a new token, and one that will store it.
Delivers(f) ==
  \/ f.at = "rotated" /\ f.reply = "granted"
  \/ f.at = "settled" /\ f.new /\ f.kind \in Captures
Stores(f) ==
  /\ Delivers(f)
  /\ f.at = "rotated" => f.held
  /\ f.at = "settled" \/ f.kind \in Renews => f.sameRevision /\ f.latest

\* One check at a time; flows that one answer wakes agree on it.
Agree(f, g) ==
  /\ f.kind \in Checks => g.kind \notin Checks
  /\ f.at = "rotated" /\ f.reply = "lost" => ~Delivers(g)

\* Those who await a refresh of the store's token hold that token; there is one such refresh.
RotationShared(c) ==
  /\ flow[c].at = "rotating" =>
       /\ rotation[flow[c].on].account = flow[c].sender
       /\ rotation[flow[c].on].held => flow[c].held
  /\ ~lost /\ rotation[c].held => shared = c

\* No refresh is refused, or will be.
RotationLive(c) ==
  Undisturbed =>
    /\ rotation[c].reply # "refused" /\ flow[c].reply # "refused"
    /\ rotation[c].reply = "open" => IF rotation[c].held THEN token.live ELSE rotation[c].live

Replaced(c) == rotation[c].reply = "granted" /\ rotation[c].held
TokenLive ==
  Undisturbed /\ token # NoToken =>
    token.live \/ \E c \in Flows : Replaced(c) \/ Stores(flow[c])

FlowsSteady == \A c \in Flows : Steady(flow[c], authed, isLoading, mixed)
FlowsAgree == \A c, d \in Flows : c # d => Agree(flow[c], flow[d])
RotationsShared == \A c \in Flows : RotationShared(c)
RotationsLive == \A c \in Flows : RotationLive(c)

StayInv ==
  /\ FlowsSteady /\ FlowsAgree /\ RotationsShared /\ RotationsLive /\ TokenLive
  /\ authed => user \in Accounts

-----------------------------------------------------------------------------
(* What leaves it true.                                                    *)

LEMMA NamedKept ==
  ASSUME NEW f, NEW g, Named(f), Weaker(g, f)
  PROVE  Named(g)
BY DEF Named, Weaker

LEMMA IdleIsSteady ==
  ASSUME NEW a, NEW loading, NEW mx, NEW f
  PROVE  /\ Steady(Idle, a, loading, mx) /\ ~Delivers(Idle) /\ Idle.reply = "none"
         /\ Agree(Idle, f) /\ Agree(f, Idle) /\ Idle.at = "idle" /\ Idle.kind = "none"
BY DEF Steady, Named, Delivers, Agree, Idle, NewFlow, Checks, Renews, Captures, Waking

LEMMA OutdatedExactly ==
  ASSUME NEW flows \in [Flows -> FlowRecord], NEW u, NEW t, NEW a, NEW d \in Flows
  PROVE  LET g == Outdated(flows, u, t, a)[d] IN
         /\ g.latest = flows[d].latest
         /\ flows[d].held /\ t = token => g.held
         /\ flows[d].sameRevision /\ ~Revises(u, t, a) => g.sameRevision
<1>1. flows[d] \in FlowRecord
  OBVIOUS
<1>2. Outdated(flows, u, t, a)[d] =
        [flows[d] EXCEPT
           !.held = @ /\ t = token,
           !.sameRevision = @ /\ (Revises(u, t, a) => flows[d].kind \notin Captures)]
  BY DEF Outdated
<1> QED BY ZenonT(30), <1>1, <1>2 DEF FlowRecord

LEMMA GivenUpLive ==
  ASSUME SignInTypeOK, NEW t, NEW live \in BOOLEAN, NEW d \in Flows
  PROVE  GivenUp(t, live)[d].live
           = IF rotation[d].held /\ t # token THEN live ELSE rotation[d].live
<1>1. rotation[d] \in RotationRecord
  BY RecordsTyped
<1> QED BY <1>1 DEF GivenUp, RotationRecord

\* f goes on as g: it begins no refresh and no check, and has no answer it had not before.
GoesOn(g, f) ==
  /\ g.at = "rotating" => f.at = "rotating" /\ g.on = f.on /\ g.sender = f.sender
  /\ g.kind \in Checks => f.kind \in Checks
  /\ g.at = "rotated" => f.at = "rotated" /\ g.reply = f.reply
  /\ g.reply = "refused" => f.reply = "refused"
  /\ Delivers(g) => Delivers(f) \/ Drained

LEMMA WeakerGoesOn ==
  ASSUME NEW f, NEW g, Weaker(g, f)
  PROVE  GoesOn(g, f)
BY DEF Weaker, GoesOn, Delivers

\* Steps in which no refresh begins or ends; with the token, the refreshes under way of the
\* old one are given up.
LEMMA StoreMoves ==
  ASSUME SignInInv, StayInv,
         \A d \in Flows : GoesOn(flow'[d], flow[d]),
         \A d \in Flows : Steady(flow'[d], authed', isLoading', mixed'),
         shared' = shared, lost => lost', mixed => mixed',
         \A d \in Flows :
           /\ rotation'[d].reply = rotation[d].reply /\ rotation'[d].account = rotation[d].account
           /\ rotation'[d].held <=> rotation[d].held /\ token' = token
           /\ flow'[d].at = "rotating" /\ flow[d].held /\ token' = token => flow'[d].held,
         Undisturbed' => \A d \in Flows : rotation'[d].live =
           IF rotation[d].held /\ token' # token THEN token.live ELSE rotation[d].live,
         Undisturbed' /\ token' # NoToken =>
           \/ token'.live
           \/ token' = token /\ \A d \in Flows : Stores(flow[d]) => Stores(flow'[d]),
         authed' => user' \in Accounts
  PROVE  StayInv'
<1>1. Undisturbed' => Undisturbed
  BY DEF Undisturbed
<1>2. FlowsSteady'
  BY DEF FlowsSteady
<1>3. FlowsAgree'
  <2> SUFFICES ASSUME NEW d \in Flows, NEW e \in Flows, d # e
               PROVE  Agree(flow'[d], flow'[e])
    BY DEF FlowsAgree
  <2>1. Agree(flow[d], flow[e]) /\ GoesOn(flow'[d], flow[d]) /\ GoesOn(flow'[e], flow[e])
    BY DEF StayInv, FlowsAgree
  <2> QED BY <2>1 DEF Agree, GoesOn, Drained
<1>4. RotationsShared'
  <2> SUFFICES ASSUME NEW d \in Flows
               PROVE  RotationShared(d)'
    BY DEF RotationsShared
  <2>1. RotationShared(d) /\ RotationGood(d) /\ GoesOn(flow'[d], flow[d])
    BY DEF StayInv, RotationsShared, SignInInv, RotationsGood
  <2> QED BY <2>1 DEF RotationShared, RotationGood, GoesOn
<1>5. RotationsLive'
  <2> SUFFICES ASSUME NEW d \in Flows, Undisturbed'
               PROVE  /\ rotation'[d].reply # "refused" /\ flow'[d].reply # "refused"
                      /\ rotation'[d].reply = "open" =>
                           IF rotation'[d].held THEN token'.live ELSE rotation'[d].live
    BY DEF RotationsLive, RotationLive
  <2>1. RotationLive(d) /\ GoesOn(flow'[d], flow[d])
    BY DEF StayInv, RotationsLive
  <2> QED BY <1>1, <2>1 DEF RotationLive, GoesOn
<1>6. TokenLive'
  <2> SUFFICES ASSUME Undisturbed', token' # NoToken, ~token'.live
               PROVE  \E d \in Flows : Replaced(d)' \/ Stores(flow'[d])
    BY DEF TokenLive
  <2>1. token' = token /\ \A d \in Flows : Stores(flow[d]) => Stores(flow'[d])
    OBVIOUS
  <2>2. PICK d \in Flows : Replaced(d) \/ Stores(flow[d])
    BY <1>1, <2>1 DEF StayInv, TokenLive
  <2> QED BY <2>1, <2>2 DEF Replaced
<1> QED BY <1>2, <1>3, <1>4, <1>5, <1>6 DEF StayInv

LEMMA OfStay ==
  ASSUME StayInv, NEW c \in Flows
  PROVE  /\ Steady(flow[c], authed, isLoading, mixed)
         /\ \A d \in Flows \ {c} : Agree(flow[c], flow[d]) /\ Agree(flow[d], flow[c])
BY DEF StayInv, FlowsSteady, FlowsAgree

\* One flow moves, beside the store.
LEMMA OneSteps ==
  ASSUME SignInInv, StayInv, NEW c \in Flows,
         UNCHANGED <<user, token, authed, rotation, shared, mixed>>, lost => lost',
         \A d \in Flows \ {c} : flow'[d] = flow[d],
         GoesOn(flow'[c], flow[c]), flow'[c].at # "rotating",
         Steady(flow'[c], authed, isLoading', mixed),
         isLoading' \in BOOLEAN, isLoading' => isLoading,
         isLoading' # isLoading => flow[c].kind \in Checks,
         Undisturbed /\ Stores(flow[c]) => Stores(flow'[c])
  PROVE  StayInv'
<1>1. Undisturbed' => Undisturbed
  BY DEF Undisturbed
<1>2. ASSUME NEW d \in Flows
      PROVE  GoesOn(flow'[d], flow[d])
  BY DEF GoesOn
<1>3. ASSUME NEW d \in Flows
      PROVE  Steady(flow'[d], authed, isLoading', mixed)
  <2>1. CASE d = c
    BY <2>1
  <2>2. CASE d # c
    <3>1. Steady(flow[d], authed, isLoading, mixed) /\ Agree(flow[c], flow[d])
      BY <2>2, OfStay
    <3>2. isLoading \in BOOLEAN
      BY DEF SignInInv, SignInTypeOK
    <3> QED BY <2>2, <3>1, <3>2 DEF Steady, Agree
  <2> QED BY <2>1, <2>2
<1>4. ASSUME Undisturbed', NEW d \in Flows, Stores(flow[d])
      PROVE  Stores(flow'[d])
  BY <1>1, <1>4
<1>5. authed => user \in Accounts
  BY DEF StayInv
<1> QED BY <1>2, <1>3, <1>4, <1>5, StoreMoves

LEMMA OneStops ==
  ASSUME SignInInv, StayInv, NEW c \in Flows, flow' = Done(c),
         UNCHANGED <<user, token, authed, rotation, shared, mixed>>, lost => lost',
         isLoading' \in BOOLEAN, isLoading' => isLoading,
         isLoading' # isLoading => flow[c].kind \in Checks,
         Undisturbed => ~Stores(flow[c])
  PROVE  StayInv'
<1>1. flow'[c] = Idle /\ \A d \in Flows \ {c} : flow'[d] = flow[d]
  BY OfFlow DEF Done
<1>2. GoesOn(flow'[c], flow[c]) /\ flow'[c].at # "rotating"
  BY <1>1, IdleIsSteady DEF GoesOn, Checks
<1>3. Steady(flow'[c], authed, isLoading', mixed)
  BY <1>1, IdleIsSteady
<1> QED BY <1>1, <1>2, <1>3, OneSteps

\* prepareSession begins.
LEMMA PreparedSteps ==
  ASSUME SignInInv, StayInv, NEW c \in Flows, NEW acct \in Accounts, NEW new \in BOOLEAN,
         flow' = Prepared(c, acct, new), flow[c].at # "rotating",
         UNCHANGED <<user, token, authed, isLoading, rotation, shared, lost, mixed>>,
         flow[c].kind \in Captures \cup {"login"},
         flow[c].kind \in Captures => acct = flow[c].sender,
         Delivers(flow[c]) \/ Drained,
         Undisturbed /\ Stores(flow[c]) => new /\ flow[c].kind \in Renews
  PROVE  StayInv'
<1> DEFINE at == IF cleanup.step = "none" THEN "settled" ELSE "settling"
           r == [flow[c] EXCEPT !.account = acct, !.new = new, !.reply = "none", !.at = at]
<1>1. flow \in [Flows -> FlowRecord] /\ flow[c] \in FlowRecord
  BY OfFlow
<1>2. flow' = [flow EXCEPT ![c] = r]
  BY <1>1 DEF Prepared
<1>3. at \in {"settled", "settling"} /\ (cleanup.step = "none" => at = "settled")
  OBVIOUS
<1> HIDE DEF at
<1>4. /\ r.at = at /\ Continues(r, flow[c]) /\ r.held = flow[c].held
      /\ r.sender = flow[c].sender /\ r.account = acct /\ r.new = new /\ r.reply = "none"
  BY <1>1 DEF FlowRecord, Continues
<1> HIDE DEF r
<1>5. flow'[c] = r /\ \A d \in Flows \ {c} : flow'[d] = flow[d]
  BY <1>1, <1>2
<1>6. GoesOn(r, flow[c])
  BY <1>3, <1>4 DEF GoesOn, Delivers, Continues
<1>7. Steady(r, authed, isLoading, mixed)
  <2>1. Steady(flow[c], authed, isLoading, mixed)
    BY OfStay
  <2> QED BY <1>3, <1>4, <2>1 DEF Steady, Named, Continues, Captures
<1>8. ASSUME Undisturbed, Stores(flow[c])
      PROVE  Stores(r)
  <2>1. /\ new /\ flow[c].kind \in Renews /\ flow[c].kind \in Captures
        /\ flow[c].sameRevision /\ flow[c].latest
    BY <1>8 DEF Stores, Renews, Captures
  <2>2. token # NoToken
    BY <2>1, OfFlow DEF Sound
  <2>3. cleanup.step = "none"
    BY <1>8, <2>2, Constants DEF SignInInv, StoreGood, Undisturbed
  <2> QED BY <1>3, <1>4, <2>1, <2>3 DEF Stores, Delivers, Continues
<1>9. isLoading \in BOOLEAN
  BY DEF SignInInv, SignInTypeOK
<1> QED BY <1>3, <1>4, <1>5, <1>6, <1>7, <1>8, <1>9, OneSteps

\* The store loses its account.
LEMMA ClearedStays ==
  ASSUME SignInInv, StayInv, NEW flows \in [Flows -> FlowRecord], NEW live \in BOOLEAN,
         Cleared(flows, live), cleanup.step = "none",
         user # NoAccount \/ token # NoToken \/ authed,
         UNCHANGED <<shared, mixed>>, lost => lost',
         Undisturbed' => live = token.live \/ \A d \in Flows : ~rotation[d].held,
         \A d \in Flows : GoesOn(flows[d], flow[d]) /\ Named(flows[d]),
         \A d \in Flows : flows[d].held => token # NoToken
  PROVE  StayInv'
<1> DEFINE o == Outdated(flows, NoAccount, NoToken, FALSE)
<1>1. /\ user' = NoAccount /\ token' = NoToken /\ authed' = FALSE /\ isLoading' = FALSE
      /\ flow' = o /\ rotation' = GivenUp(NoToken, live)
  BY DEF Cleared
<1>2. Revises(NoAccount, NoToken, FALSE)
  BY DEF Revises, SignInInv, SignInTypeOK
<1>3. \A d \in Flows : /\ Weaker(o[d], flows[d])
                       /\ o[d].held => NoToken = token
                       /\ o[d].kind \in Captures => ~o[d].sameRevision
  BY <1>2, OutdatedWeakens
<1> HIDE DEF o
<1>4. ASSUME NEW d \in Flows
      PROVE  ~o[d].held
  BY <1>3 DEF Weaker
<1>5. ASSUME NEW d \in Flows
      PROVE  GoesOn(o[d], flow[d])
  <2>1. Weaker(o[d], flows[d]) /\ GoesOn(flows[d], flow[d])
    BY <1>3
  <2> QED BY <2>1 DEF GoesOn, Weaker, Delivers
<1>6. ASSUME NEW d \in Flows
      PROVE  Steady(o[d], FALSE, FALSE, mixed)
  <2>1. Named(o[d])
    BY <1>3, NamedKept
  <2> QED BY <1>3, <1>4, <2>1 DEF Steady, Captures, Checks
<1>7. ASSUME NEW d \in Flows
      PROVE  /\ rotation'[d].reply = rotation[d].reply
             /\ rotation'[d].account = rotation[d].account
             /\ rotation'[d].held <=> rotation[d].held /\ token' = token
             /\ flow[d].held => token' # token
  <2>1. flow[d].held => token # NoToken
    BY OfFlow DEF Sound
  <2> QED BY <1>1, <2>1, GivenUpRotations DEF SignInInv
<1>8. ASSUME Undisturbed', NEW d \in Flows
      PROVE  rotation'[d].live =
               IF rotation[d].held /\ token' # token THEN token.live ELSE rotation[d].live
  BY <1>1, <1>8, GivenUpLive DEF SignInInv
<1> QED BY <1>1, <1>5, <1>6, <1>7, <1>8, StoreMoves

LEMMA LoggedOutStays ==
  ASSUME SignInInv, StayInv, NEW flows \in [Flows -> FlowRecord], LogOut(flows), authed,
         UNCHANGED <<shared, mixed>>,
         \A d \in Flows : GoesOn(flows[d], flow[d]) /\ Named(flows[d]),
         \A d \in Flows : flows[d].held => token # NoToken
  PROVE  StayInv'
<1> DEFINE at == Attempted(flows)
<1>1. PICK live \in {token.live, FALSE} :
        /\ Cleared(at, live)
        /\ lost' = (lost \/ (live # token.live /\ \E c \in Flows : rotation[c].held))
  BY DEF LogOut
<1>2. live \in BOOLEAN
  BY <1>1, RecordsTyped DEF SignInInv, TokenRecord
<1>3. at \in [Flows -> FlowRecord] /\ \A d \in Flows : Weaker(at[d], flows[d])
  BY AttemptedWeakens
<1> HIDE DEF at
<1>4. cleanup.step = "none"
  BY DEF SignInInv, StoreGood
<1>5. ASSUME NEW d \in Flows
      PROVE  GoesOn(at[d], flow[d]) /\ Named(at[d]) /\ (at[d].held => token # NoToken)
  <2>1. Weaker(at[d], flows[d]) /\ GoesOn(flows[d], flow[d]) /\ Named(flows[d])
    BY <1>3
  <2> QED BY <2>1, NamedKept DEF GoesOn, Weaker, Delivers
<1>6. Undisturbed' => live = token.live \/ \A d \in Flows : ~rotation[d].held
  BY <1>1 DEF Undisturbed
<1> QED BY <1>1, <1>2, <1>3, <1>4, <1>5, <1>6, ClearedStays

LEMMA DoneStays ==
  ASSUME SignInInv, StayInv, NEW c \in Flows
  PROVE  /\ Done(c) \in [Flows -> FlowRecord] /\ Done(c)[c] = Idle
         /\ \A d \in Flows \ {c} : Done(c)[d] = flow[d]
         /\ \A d \in Flows : GoesOn(Done(c)[d], flow[d]) /\ Named(Done(c)[d])
         /\ \A d \in Flows : Done(c)[d].held => token # NoToken
<1>1. /\ Done(c) \in [Flows -> FlowRecord] /\ Done(c)[c] = Idle
      /\ \A d \in Flows \ {c} : Done(c)[d] = flow[d]
  BY OfFlow, Constants DEF Done
<1>2. ASSUME NEW d \in Flows
      PROVE  GoesOn(Done(c)[d], flow[d]) /\ Named(Done(c)[d]) /\ (Done(c)[d].held => token # NoToken)
  <2>1. CASE d = c
    BY <1>1, <2>1 DEF GoesOn, Named, Idle, NewFlow, Delivers, Checks, Captures
  <2>2. CASE d # c
    BY <1>1, <2>2, OfFlow, OfStay DEF GoesOn, Steady, Sound
  <2> QED BY <2>1, <2>2
<1> QED BY <1>1, <1>2

\* The store keeps its account, but may get a new token of it: what the flows captured is
\* still the store's, but for that token.
LEMMA SessionKept ==
  ASSUME SignInInv, StayInv, NEW flows \in [Flows -> FlowRecord], NEW u, NEW t \in TokenRecord,
         NEW a \in BOOLEAN, flow' = Outdated(flows, u, t, a), rotation' = GivenUp(t, token.live),
         user' = u, token' = t, authed' = a, shared' = shared, lost' = lost, mixed => mixed',
         a => u \in Accounts,
         \A d \in Flows : \/ flows[d] = flow[d]
                          \/ flows[d] = Idle /\ (Undisturbed' => ~Stores(flow[d]) \/ t.live),
         \A d \in Flows : flow[d].at = "rotating" => flows[d] = flow[d],
         \A d \in Flows : flows[d].kind \in Checks /\ flows[d].sameRevision /\ flows[d].latest
                            => isLoading',
         a \/ (~authed /\ (isLoading' => isLoading)),
         ~a => ~authed,
         ~mixed' => \A d \in Flows :
           flows[d].kind \in Captures /\ flows[d].sameRevision /\ flows[d].latest => ~Revises(u, t, a),
         t.live \/ t = token \/ t = NoToken
  PROVE  StayInv'
<1> DEFINE o == Outdated(flows, u, t, a)
<1>1. \A d \in Flows : /\ Weaker(o[d], flows[d])
                       /\ o[d].kind \in Captures /\ o[d].sameRevision => ~Revises(u, t, a)
                       /\ o[d].held => t = token
                       /\ o[d].latest = flows[d].latest
                       /\ flows[d].held /\ t = token => o[d].held
                       /\ flows[d].sameRevision /\ ~Revises(u, t, a) => o[d].sameRevision
  BY OutdatedWeakens, OutdatedExactly
<1>2. flow' = o
  OBVIOUS
<1> HIDE DEF o
<1>3. ASSUME NEW d \in Flows
      PROVE  GoesOn(o[d], flow[d])
  <2>1. Weaker(o[d], flows[d])
    BY <1>1
  <2>2. CASE flows[d] = flow[d]
    BY <2>1, <2>2, WeakerGoesOn
  <2>3. CASE flows[d] = Idle
    BY <2>1, <2>3 DEF GoesOn, Weaker, Delivers, Idle, NewFlow, Checks
  <2> QED BY <2>2, <2>3
<1>4. ASSUME NEW d \in Flows
      PROVE  Steady(o[d], a, isLoading', mixed')
  <2>1. Steady(flows[d], authed, isLoading, mixed)
    BY OfStay, IdleIsSteady
  <2>2. Weaker(o[d], flows[d]) /\ Named(o[d])
    BY <1>1, <2>1, NamedKept DEF Steady
  <2>3. o[d].kind \in Checks /\ o[d].sameRevision /\ o[d].latest => isLoading'
    BY <2>2 DEF Weaker
  <2>4. o[d].kind = "refresh" /\ o[d].sameRevision => a
    <3>1. o[d].kind = "refresh" /\ o[d].sameRevision => ~Revises(u, t, a)
      BY <1>1 DEF Captures
    <3> QED BY <2>1, <2>2, <3>1 DEF Weaker, Steady, Revises
  <2>5. ~a /\ isLoading' => o[d].kind \in {"none"} \cup Checks
    BY <2>1, <2>2 DEF Weaker, Steady
  <2>6. ASSUME ~mixed', o[d].kind \in Renews, o[d].held
        PROVE  o[d].sameRevision /\ o[d].latest
    <3>1. flows[d].kind \in Renews /\ flows[d].held /\ ~mixed
      BY <2>2, <2>6 DEF Weaker
    <3>2. flows[d].sameRevision /\ flows[d].latest /\ flows[d].kind \in Captures
      BY <2>1, <3>1 DEF Steady, Renews, Captures
    <3> QED BY <1>1, <2>6, <3>2
  <2> QED BY <2>2, <2>3, <2>4, <2>5, <2>6 DEF Steady
<1>5. ASSUME NEW d \in Flows
      PROVE  /\ rotation'[d].reply = rotation[d].reply
             /\ rotation'[d].account = rotation[d].account
             /\ rotation'[d].held <=> rotation[d].held /\ token' = token
             /\ flow[d].at = "rotating" /\ flow[d].held /\ token' = token => o[d].held
             /\ rotation'[d].live =
                  IF rotation[d].held /\ token' # token THEN token.live ELSE rotation[d].live
  <2>1. token.live \in BOOLEAN
    BY RecordsTyped DEF SignInInv, TokenRecord
  <2> QED BY <1>1, <2>1, GivenUpRotations, GivenUpLive DEF SignInInv
<1>6. ASSUME Undisturbed', token' # NoToken, ~token'.live
      PROVE  token' = token /\ \A d \in Flows : Stores(flow[d]) => Stores(o[d])
  <2>1. token' = token /\ ~mixed'
    BY <1>6 DEF Undisturbed
  <2>2. ASSUME NEW d \in Flows, Stores(flow[d])
        PROVE  Stores(o[d])
    <3>1. flows[d] = flow[d] /\ Weaker(o[d], flow[d])
      BY <1>1, <1>6, <2>2
    <3>2. Delivers(o[d]) /\ o[d].latest = flow[d].latest
      BY <1>1, <2>2, <3>1 DEF Stores, Delivers, Weaker
    <3>3. o[d].at = "rotated" => o[d].held
      BY <1>1, <2>1, <2>2, <3>1 DEF Stores, Weaker
    <3>4. ASSUME o[d].at = "settled" \/ o[d].kind \in Renews
          PROVE  o[d].sameRevision
      <4>1. flow[d].sameRevision /\ flow[d].latest /\ flow[d].kind \in Captures
        BY <2>2, <3>1, <3>4 DEF Stores, Delivers, Weaker, Renews, Captures
      <4> QED BY <1>1, <2>1, <3>1, <4>1
    <3>5. flow[d].latest \/ ~(o[d].at = "settled" \/ o[d].kind \in Renews)
      BY <2>2, <3>1 DEF Stores, Weaker
    <3> QED BY <3>2, <3>3, <3>4, <3>5 DEF Stores
  <2> QED BY <2>1, <2>2
<1>7. \A d \in Flows : GoesOn(flow'[d], flow[d]) /\ Steady(flow'[d], authed', isLoading', mixed')
  BY <1>2, <1>3, <1>4
<1>8. Undisturbed' /\ token' # NoToken =>
        \/ token'.live
        \/ token' = token /\ \A d \in Flows : Stores(flow[d]) => Stores(flow'[d])
  BY <1>2, <1>6
<1>9. authed' => user' \in Accounts
  OBVIOUS
<1>10. \A d \in Flows :
         flow'[d].at = "rotating" /\ flow[d].held /\ token' = token => flow'[d].held
  BY <1>2, <1>3, <1>5 DEF GoesOn
<1> QED BY <1>5, <1>7, <1>8, <1>9, <1>10, StoreMoves

\* A refreshed token is stored, and the request is sent again.
LEMMA ResentStays ==
  ASSUME SignInInv, StayInv, NEW c \in Flows, flow[c].at = "rotated", flow[c].reply = "granted",
         flow[c].kind \in {"request", "check"}, Resent(c),
         UNCHANGED <<isLoading, shared, lost, mixed>>
  PROVE  StayInv'
<1> DEFINE t == IF flow[c].held THEN NewToken(flow[c].account) ELSE token
           r == [flow[c] EXCEPT !.at = "retrying", !.reply = "none", !.account = NoAccount,
                                !.sender = t.account, !.held = t # NoToken]
           o == Outdated(flow, user, t, authed)
<1>1. flow \in [Flows -> FlowRecord] /\ token \in TokenRecord /\ flow[c] \in FlowRecord
  BY RecordsTyped, OfFlow DEF SignInInv
<1>2. Sound(flow[c], token, user, authed, mixed)
  BY OfFlow
<1>3. /\ t = NoToken <=> token = NoToken
      /\ flow[c].held => t.live
      /\ ~flow[c].held => t = token
  BY <1>1, <1>2, Constants DEF Sound, NewToken
<1>4. /\ token' = t /\ rotation' = GivenUp(t, token.live) /\ flow' = [o EXCEPT ![c] = r]
      /\ UNCHANGED <<user, authed>>
  BY DEF Resent
<1> HIDE DEF t
<1>5. Continues(r, flow[c]) /\ r.at = "retrying" /\ r.reply = "none"
  BY <1>1 DEF FlowRecord, FlowPlaces, Continues
<1> HIDE DEF r
<1>6. ~Revises(user, t, authed)
  BY <1>3 DEF Revises
<1>7. /\ o \in [Flows -> FlowRecord]
      /\ \A d \in Flows : /\ Weaker(o[d], flow[d])
                          /\ o[d].latest = flow[d].latest
                          /\ flow[d].held /\ t = token => o[d].held
                          /\ flow[d].sameRevision => o[d].sameRevision
  BY <1>1, <1>6, OutdatedWeakens, OutdatedExactly
<1> HIDE DEF o
<1>8. flow'[c] = r /\ \A d \in Flows \ {c} : flow'[d] = o[d]
  BY <1>4, <1>7
<1>9. ASSUME NEW d \in Flows
      PROVE  GoesOn(flow'[d], flow[d]) /\ Steady(flow'[d], authed, isLoading, mixed)
  <2>1. Steady(flow[d], authed, isLoading, mixed)
    BY OfStay
  <2>2. CASE d = c
    BY <1>5, <1>8, <2>1, <2>2 DEF GoesOn, Delivers, Continues, Steady, Named, Waking, Renews
  <2>3. CASE d # c
    <3>1. Weaker(o[d], flow[d]) /\ flow'[d] = o[d]
      BY <1>7, <1>8, <2>3
    <3>2. Steady(o[d], authed, isLoading, mixed)
      <4>1. Named(o[d])
        BY <2>1, <3>1, NamedKept DEF Steady
      <4> QED BY <1>7, <2>1, <3>1, <4>1 DEF Steady, Weaker
    <3> QED BY <3>1, <3>2, WeakerGoesOn
  <2> QED BY <2>2, <2>3
<1>10. ASSUME NEW d \in Flows
       PROVE  /\ rotation'[d].reply = rotation[d].reply
              /\ rotation'[d].account = rotation[d].account
              /\ rotation'[d].held <=> rotation[d].held /\ token' = token
              /\ rotation'[d].live =
                   IF rotation[d].held /\ token' # token THEN token.live ELSE rotation[d].live
  <2>1. token.live \in BOOLEAN
    BY <1>1 DEF TokenRecord
  <2> QED BY <1>4, <2>1, GivenUpRotations, GivenUpLive DEF SignInInv
<1>11. \A d \in Flows :
         flow'[d].at = "rotating" /\ flow[d].held /\ token' = token => flow'[d].held
  BY <1>4, <1>5, <1>7, <1>8
<1>12. ASSUME ~token'.live, NEW d \in Flows, Stores(flow[d])
       PROVE  token' = token /\ Stores(flow'[d])
  <2>1. t = token /\ ~flow[c].held
    BY <1>3, <1>4, <1>12
  <2>2. d # c
    BY <1>12, <2>1 DEF Stores
  <2>3. Weaker(o[d], flow[d]) /\ flow'[d] = o[d]
    BY <1>7, <1>8, <2>2
  <2>4. o[d].latest = flow[d].latest /\ (flow[d].held => o[d].held)
        /\ (flow[d].sameRevision => o[d].sameRevision)
    BY <1>7, <2>1
  <2> QED BY <1>4, <1>12, <2>1, <2>3, <2>4 DEF Stores, Delivers, Weaker
<1>13. ~token'.live => token' = token
  BY <1>3, <1>4
<1>14. authed' => user' \in Accounts
  BY <1>4 DEF StayInv
<1> QED BY <1>4, <1>9, <1>10, <1>11, <1>12, <1>13, <1>14, StoreMoves

\* A refresh begins, or joins the one under way: no answer is on its way to the store.
LEMMA RotateStays ==
  ASSUME SignInInv, StayInv, NEW c \in Flows, NEW r \in FlowRecord,
         RotateFor(c, [flow EXCEPT ![c] = r], r.held),
         UNCHANGED <<user, token, authed, isLoading, mixed>>,
         lost => lost', ~lost' => r.held,
         flow[c].at # "rotating", r.kind # "none",
         r.reply = "refused" => flow[c].reply = "refused",
         r.kind \in Checks => flow[c].kind \in Checks,
         r.held => token # NoToken /\ r.sender = token.account,
         Steady(r, authed, isLoading, mixed),
         Undisturbed => \A d \in Flows : ~Stores(flow[d])
  PROVE  StayInv'
<1> DEFINE on == IF SharesRefresh(r.held) THEN shared ELSE c
           g == [r EXCEPT !.at = "rotating", !.on = on]
           n == [reply |-> "open", held |-> r.held, live |-> FALSE, account |-> r.sender]
<1>1. flow \in [Flows -> FlowRecord] /\ rotation \in [Flows -> RotationRecord]
  BY RecordsTyped DEF SignInInv
<1>2. /\ flow' = [flow EXCEPT ![c] = g] /\ shared' = on
      /\ rotation' = IF SharesRefresh(r.held) THEN rotation ELSE [rotation EXCEPT ![c] = n]
  BY <1>1 DEF RotateFor
<1>3. on \in Flows /\ (SharesRefresh(r.held) => r.held /\ on = shared /\ rotation[on].held)
  BY DEF SharesRefresh, SignInInv, SignInTypeOK
<1>4. ~SharesRefresh(r.held) => on = c
  OBVIOUS
<1> HIDE DEF on
<1>5. /\ g.at = "rotating" /\ g.on = on /\ Continues(g, r) /\ g.held = r.held
      /\ g.sender = r.sender /\ g.reply = r.reply
  BY DEF FlowRecord, Continues
<1> HIDE DEF g
<1>6. flow'[c] = g /\ \A d \in Flows \ {c} : flow'[d] = flow[d]
  BY <1>1, <1>2
<1>7. Undisturbed' => Undisturbed
  BY DEF Undisturbed
<1>8. /\ rotation[c].reply = "none" /\ ~rotation[c].held
      /\ \A d \in Flows : flow[d].at = "rotating" => flow[d].on # c
  BY DEF SignInInv, RotationsGood, RotationGood
<1>9. /\ \A d \in Flows \ {c} : rotation'[d] = rotation[d]
      /\ SharesRefresh(r.held) => rotation'[c] = rotation[c]
      /\ ~SharesRefresh(r.held) => rotation'[c] = n
  BY <1>1, <1>2
<1>10. ASSUME ~lost, ~SharesRefresh(r.held), r.held, NEW d \in Flows
       PROVE  ~rotation[d].held
  <2>1. rotation[d].held => shared = d
    BY <1>10 DEF StayInv, RotationsShared, RotationShared
  <2> QED BY <1>10, <2>1, SignInAssumption DEF SharesRefresh
<1>11. Undisturbed' /\ ~SharesRefresh(r.held) => token.live
  BY <1>7, <1>10 DEF StayInv, TokenLive, Replaced, Undisturbed
<1>12. FlowsSteady'
  <2>1. Steady(g, authed, isLoading, mixed)
    BY <1>5 DEF Steady, Named, Continues, Waking
  <2> QED BY <1>6, <2>1 DEF StayInv, FlowsSteady
<1>13. FlowsAgree'
  <2>1. ASSUME NEW d \in Flows \ {c}
        PROVE  Agree(g, flow[d]) /\ Agree(flow[d], g)
    BY <1>5, OfStay DEF Agree, Delivers, Continues
  <2> QED BY <1>6, <2>1 DEF StayInv, FlowsAgree
<1>14. RotationsShared'
  <2> SUFFICES ASSUME NEW d \in Flows
               PROVE  RotationShared(d)'
    BY DEF RotationsShared
  <2>1. RotationShared(d) /\ RotationGood(d)
    BY DEF StayInv, RotationsShared, SignInInv, RotationsGood
  <2>2. ~lost' /\ rotation'[d].held => shared' = d
    <3>1. CASE SharesRefresh(r.held)
      BY <1>2, <1>3, <1>8, <1>9, <2>1, <3>1 DEF RotationShared
    <3>2. CASE ~SharesRefresh(r.held)
      BY <1>2, <1>4, <1>9, <1>10, <3>2
    <3> QED BY <3>1, <3>2
  <2>3. CASE d = c
    <3>1. rotation'[on].account = r.sender /\ (rotation'[on].held => r.held)
      <4>1. CASE SharesRefresh(r.held)
        <5>1. RotationGood(on) /\ rotation'[on] = rotation[on] /\ r.held /\ rotation[on].held
          BY <1>3, <1>9, <4>1 DEF SignInInv, RotationsGood
        <5> QED BY <5>1 DEF RotationGood
      <4>2. CASE ~SharesRefresh(r.held)
        BY <1>4, <1>9, <4>2
      <4> QED BY <4>1, <4>2
    <3> QED BY <1>5, <1>6, <2>2, <2>3, <3>1 DEF RotationShared
  <2>4. CASE d # c
    BY <1>6, <1>8, <1>9, <2>1, <2>2, <2>4 DEF RotationShared, RotationGood
  <2> QED BY <2>3, <2>4
<1>15. RotationsLive'
  <2> SUFFICES ASSUME NEW d \in Flows, Undisturbed'
               PROVE  /\ rotation'[d].reply # "refused" /\ flow'[d].reply # "refused"
                      /\ rotation'[d].reply = "open" =>
                           IF rotation'[d].held THEN token.live ELSE rotation'[d].live
    BY DEF RotationsLive, RotationLive
  <2>1. RotationLive(d)
    BY DEF StayInv, RotationsLive
  <2> QED BY <1>5, <1>6, <1>7, <1>8, <1>9, <1>11, <2>1 DEF RotationLive, Undisturbed
<1>16. TokenLive'
  <2> SUFFICES ASSUME Undisturbed', token # NoToken, ~token.live
               PROVE  \E d \in Flows : Replaced(d)'
    BY DEF TokenLive
  <2>1. PICK d \in Flows : Replaced(d)
    BY <1>7 DEF StayInv, TokenLive
  <2> QED BY <1>8, <1>9, <2>1 DEF Replaced
<1>17. authed' => user' \in Accounts
  BY DEF StayInv
<1> QED BY <1>12, <1>13, <1>14, <1>15, <1>16, <1>17 DEF StayInv

-----------------------------------------------------------------------------
(* The actions.                                                            *)

LEMMA DrainedStores ==
  ASSUME Drained, NEW c \in Flows
  PROVE  ~Stores(flow[c]) /\ ~Delivers(flow[c]) /\ flow[c].at \notin {"rotated", "settled", "cleared"}
BY DEF Drained, Stores, Delivers

LEMMA StayStarts == SignInInit => StayInv
<1> SUFFICES ASSUME SignInInit
             PROVE  StayInv
  OBVIOUS
<1>1. \A c \in Flows : flow[c] = Idle /\ rotation[c] = NoRotation
  BY DEF SignInInit
<1>2. FlowsSteady /\ FlowsAgree
  BY <1>1, IdleIsSteady DEF FlowsSteady, FlowsAgree
<1>3. RotationsShared /\ RotationsLive
  BY <1>1, IdleIsSteady DEF RotationsShared, RotationShared, RotationsLive, RotationLive, NoRotation
<1>4. TokenLive /\ ~authed
  BY DEF SignInInit, TokenLive
<1> QED BY <1>2, <1>3, <1>4 DEF StayInv

LEMMA LogInStays ==
  ASSUME SignInInv, StayInv, NEW c \in Flows, NEW a \in Accounts, LogIn(c, a)
  PROVE  StayInv'
<1> DEFINE at == Attempted(flow)
           r == [NewFlow("login", "asking") EXCEPT !.account = a]
<1>1. /\ flow \in [Flows -> FlowRecord] /\ flow[c] = Idle /\ ~authed /\ ~isLoading /\ Drained
      /\ UNCHANGED <<user, token, authed, isLoading, rotation, shared, lost, mixed>>
  BY OfFlow DEF LogIn, Spare, storeVars
<1>2. /\ at \in [Flows -> FlowRecord] /\ \A d \in Flows : Weaker(at[d], flow[d])
      /\ \A d \in Flows : at[d].held = flow[d].held
  <2>1. \A d \in Flows : at[d].held = flow[d].held
    BY <1>1 DEF Attempted, FlowRecord
  <2> QED BY <1>1, <2>1, AttemptedWeakens
<1> HIDE DEF at
<1>3. /\ r.kind = "login" /\ r.at = "asking" /\ r.reply = "none" /\ ~r.held
  BY DEF NewFlow
<1> HIDE DEF r
<1>4. flow' = [at EXCEPT ![c] = r]
  BY DEF LogIn, at, r
<1>5. flow'[c] = r /\ \A d \in Flows \ {c} : flow'[d] = at[d]
  BY <1>2, <1>4
<1>6. ASSUME NEW d \in Flows
      PROVE  GoesOn(flow'[d], flow[d]) /\ Steady(flow'[d], authed, isLoading, mixed)
  <2>1. CASE d = c
    BY <1>1, <1>3, <1>5, <2>1
       DEF GoesOn, Delivers, Steady, Named, Waking, Checks, Renews, Captures
  <2>2. CASE d # c
    <3>1. Weaker(at[d], flow[d]) /\ Steady(flow[d], authed, isLoading, mixed)
      BY <1>2, OfStay
    <3>2. ~mixed => ~(at[d].kind \in Renews /\ at[d].held)
      BY <1>1, <1>2, <3>1 DEF Steady, Weaker, Renews, Checks
    <3> QED BY <1>1, <1>5, <2>2, <3>1, <3>2, NamedKept, WeakerGoesOn DEF Steady, Weaker
  <2> QED BY <2>1, <2>2
<1>7. \A d \in Flows : flow'[d].at = "rotating" /\ flow[d].held => flow'[d].held
  BY <1>2, <1>3, <1>5
<1>8. \A d \in Flows : ~Stores(flow[d])
  BY <1>1, DrainedStores
<1>9. authed => user \in Accounts
  BY <1>1
<1> QED BY <1>1, <1>6, <1>7, <1>8, <1>9, StoreMoves

LEMMA LogInAnsweredStays ==
  ASSUME SignInInv, StayInv, NEW c \in Flows, LogInAnswered(c)
  PROVE  StayInv'
<1>1. /\ UNCHANGED <<user, token, authed, isLoading, rotation, shared, lost, mixed>>
      /\ flow[c].kind = "login" /\ flow[c].at = "asking" /\ Drained
  BY DEF LogInAnswered, storeVars
<1>2. flow[c].account \in Accounts /\ ~Stores(flow[c]) /\ isLoading \in BOOLEAN
  BY <1>1, OfFlow, DrainedStores DEF Sound, SignInInv, SignInTypeOK
<1>3. CASE flow' = Done(c)
  BY <1>1, <1>2, <1>3, OneStops
<1>4. CASE flow' = Prepared(c, flow[c].account, TRUE)
  BY <1>1, <1>2, <1>4, PreparedSteps DEF Captures
<1> QED BY <1>3, <1>4 DEF LogInAnswered

LEMMA LogOutByUserStays ==
  ASSUME SignInInv, StayInv, LogOutByUser
  PROVE  StayInv'
<1>1. flow \in [Flows -> FlowRecord] /\ LogOut(flow) /\ authed /\ UNCHANGED <<shared, mixed>>
  BY RecordsTyped DEF SignInInv, LogOutByUser
<1>2. \A d \in Flows : GoesOn(flow[d], flow[d]) /\ Named(flow[d])
  BY OfStay DEF GoesOn, Steady
<1>3. \A d \in Flows : flow[d].held => token # NoToken
  BY OfFlow DEF Sound
<1> QED BY <1>1, <1>2, <1>3, LoggedOutStays

LEMMA ReloadStays ==
  ASSUME SignInInv, StayInv, NEW c \in Flows, Reload(c)
  PROVE  StayInv'
<1> DEFINE r == [NewFlow("check", "asking") EXCEPT !.sender = token.account, !.held = TRUE]
<1>1. /\ rotation' = [d \in Flows |-> NoRotation] /\ shared' = NoFlow
      /\ UNCHANGED <<token, mixed>> /\ Drained
      /\ lost' = (lost \/ \E d \in Flows : rotation[d].reply = "granted")
  BY DEF Reload
<1>2. \A d \in Flows : rotation'[d].reply = "none" /\ ~rotation'[d].held
  BY <1>1 DEF NoRotation
<1>3. /\ r.kind = "check" /\ r.at = "asking" /\ r.reply = "none"
  BY DEF NewFlow
<1>4. \/ /\ flow' = [d \in Flows |-> Idle] /\ authed' = FALSE
      \/ /\ flow' = [[d \in Flows |-> Idle] EXCEPT ![c] = r] /\ isLoading' = TRUE
         /\ UNCHANGED <<user, authed>>
  BY DEF Reload
<1> HIDE DEF r
<1>5. ASSUME NEW d \in Flows
      PROVE  flow'[d] = Idle \/ (d = c /\ flow'[d] = r /\ isLoading' = TRUE)
  BY <1>4
<1>6. FlowsSteady'
  <2>1. isLoading' = TRUE => Steady(r, authed', isLoading', mixed')
    BY <1>3 DEF Steady, Named, Waking, Checks, Renews, Captures
  <2> QED BY <1>5, <2>1, IdleIsSteady DEF FlowsSteady
<1>7. FlowsAgree'
  BY <1>5, IdleIsSteady DEF FlowsAgree
<1>8. RotationsShared' /\ RotationsLive'
  BY <1>2, <1>3, <1>5, IdleIsSteady DEF RotationsShared, RotationShared, RotationsLive, RotationLive
<1>9. TokenLive'
  <2> SUFFICES ASSUME Undisturbed', token # NoToken
               PROVE  token.live
    BY <1>1 DEF TokenLive
  <2>1. Undisturbed /\ \A d \in Flows : ~Replaced(d) /\ ~Stores(flow[d])
    BY <1>1, DrainedStores DEF Undisturbed, Replaced
  <2> QED BY <2>1 DEF StayInv, TokenLive
<1>10. authed' => user' \in Accounts
  BY <1>4 DEF StayInv
<1> QED BY <1>6, <1>7, <1>8, <1>9, <1>10 DEF StayInv

\* An account is published: it is the store's, or the store has none.
LEMMA PublishedStays ==
  ASSUME SignInInv, StayInv, NEW c \in Flows, Publish(c), UNCHANGED <<shared, lost, mixed>>,
         flow[c].latest,
         \/ flow[c].at = "settled" /\ (flow[c].kind = "login" \/ flow[c].sameRevision)
         \/ flow[c].at = "cleared"
  PROVE  StayInv'
<1> DEFINE acct == flow[c].account
           t == IF flow[c].new THEN NewToken(acct) ELSE token
<1>1. /\ user' = acct /\ token' = t /\ authed' = TRUE /\ flow' = Outdated(Done(c), acct, t, TRUE)
      /\ rotation' = GivenUp(t, token.live)
      /\ isLoading' = (isLoading /\ flow[c].kind = "refresh")
  BY DEF Publish, SetSession
<1>2. flow[c].kind \in Captures \cup {"login"} /\ acct \in Accounts
  BY OfFlow DEF Sound, Waking
<1>3. /\ t \in TokenRecord /\ (flow[c].new => t.live /\ t # NoToken) /\ (~flow[c].new => t = token)
  BY <1>2, RecordsTyped, Constants DEF SignInInv, NewToken
<1> HIDE DEF t
<1>4. ASSUME NEW d \in Flows \ {c}, flow[d].kind \in Captures, flow[d].latest
      PROVE  /\ flow[c].kind \in Captures
             /\ flow[d].sameRevision => flow[c].at = "settled" /\ flow[c].sameRevision
  BY <1>2, <1>4, OfFlow DEF Apart
<1>5. ASSUME NEW d \in Flows \ {c}, flow[d].kind \in Checks, flow[d].sameRevision, flow[d].latest
      PROVE  isLoading'
  <2>1. Steady(flow[d], authed, isLoading, mixed) /\ Agree(flow[c], flow[d])
    BY OfStay
  <2>2. flow[c].kind \in Captures
    BY <1>4, <1>5 DEF Checks, Captures
  <2> QED BY <1>1, <1>5, <2>1, <2>2 DEF Steady, Agree, Checks, Captures
<1>6. ASSUME ~mixed, NEW d \in Flows \ {c},
             flow[d].kind \in Captures, flow[d].sameRevision, flow[d].latest
      PROVE  ~Revises(acct, t, TRUE)
  <2>1. flow[c].kind \in Captures /\ flow[c].at = "settled" /\ flow[c].sameRevision
    BY <1>4, <1>6
  <2>2. flow[c].sender = user /\ token # NoToken
    BY <1>6, <2>1, OfFlow DEF Sound
  <2>3. acct = user
    BY <2>1, <2>2, OfStay DEF Steady, Named, Waking
  <2>4. authed
    <3>1. Steady(flow[d], authed, isLoading, mixed) /\ Agree(flow[c], flow[d])
      BY OfStay
    <3>2. Steady(flow[c], authed, isLoading, mixed)
      BY OfStay
    <3> QED BY <1>6, <2>1, <3>1, <3>2 DEF Steady, Agree, Checks, Captures
  <2>5. t # NoToken
    BY <1>3, <2>2
  <2> QED BY <2>2, <2>3, <2>4, <2>5 DEF Revises, SignInInv, SignInTypeOK
<1>7. ASSUME NEW d \in Flows
      PROVE  /\ Done(c)[d] = flow[d] \/ (Done(c)[d] = Idle /\ (~Stores(flow[d]) \/ t.live))
             /\ flow[d].at = "rotating" => Done(c)[d] = flow[d]
  BY <1>3, DoneStays DEF Stores, Delivers
<1>8. ASSUME NEW d \in Flows, Done(c)[d].kind \in Checks, Done(c)[d].sameRevision, Done(c)[d].latest
      PROVE  isLoading'
  <2>1. d # c /\ Done(c)[d] = flow[d]
    BY <1>8, DoneStays, IdleIsSteady DEF Checks
  <2> QED BY <1>5, <1>8, <2>1
<1>9. ASSUME ~mixed, NEW d \in Flows,
             Done(c)[d].kind \in Captures, Done(c)[d].sameRevision, Done(c)[d].latest
      PROVE  ~Revises(acct, t, TRUE)
  <2>1. d # c /\ Done(c)[d] = flow[d]
    BY <1>9, DoneStays, IdleIsSteady DEF Captures
  <2> QED BY <1>6, <1>9, <2>1
<1>10. Done(c) \in [Flows -> FlowRecord]
  BY DoneStays
<1>11. t.live \/ t = token
  BY <1>3
<1> HIDE DEF acct
<1> QED BY <1>1, <1>2, <1>3, <1>7, <1>8, <1>9, <1>10, <1>11, SessionKept

LEMMA PrepareSessionStays ==
  ASSUME SignInInv, StayInv, NEW c \in Flows, PrepareSession(c)
  PROVE  StayInv'
<1>1. flow[c].at = "settled" /\ UNCHANGED <<shared, lost, mixed>> /\ isLoading \in BOOLEAN
  BY DEF PrepareSession, SignInInv, SignInTypeOK
<1>2. CASE Drops(c)
  <2>1. flow' = Done(c) /\ UNCHANGED <<user, token, authed, isLoading, rotation>>
    BY <1>2 DEF PrepareSession, storeVars
  <2>2. ~Stores(flow[c])
    BY <1>1, <1>2 DEF Drops, Stores, Delivers, Captures
  <2> QED BY <1>1, <2>1, <2>2, OneStops
<1>3. CASE ~Drops(c)
  <2>1. /\ flow[c].latest /\ (flow[c].kind = "login" \/ flow[c].sameRevision)
        /\ cleanup.step = "none"
    BY <1>1, <1>3, OfFlow DEF Drops, Awaiting
  <2>2. CASE user \in {NoAccount, flow[c].account}
    <3>1. Publish(c)
      BY <1>3, <2>2 DEF PrepareSession
    <3> QED BY <1>1, <2>1, <3>1, PublishedStays
  <2>3. CASE user \notin {NoAccount, flow[c].account}
    <3> DEFINE flows == [flow EXCEPT ![c].at = "clearing"]
    <3>1. Cleared(flows, token.live)
      BY <1>3, <2>3 DEF PrepareSession, ClearSession
    <3>2. flow \in [Flows -> FlowRecord] /\ flow[c] \in FlowRecord
      BY OfFlow
    <3>3. /\ flows \in [Flows -> FlowRecord]
          /\ flows[c] = [flow[c] EXCEPT !.at = "clearing"]
          /\ \A d \in Flows \ {c} : flows[d] = flow[d]
      BY <3>2 DEF FlowRecord, FlowPlaces
    <3>4. /\ flows[c].at = "clearing" /\ Continues(flows[c], flow[c])
          /\ flows[c].held = flow[c].held /\ flows[c].sender = flow[c].sender
          /\ flows[c].account = flow[c].account /\ flows[c].reply = flow[c].reply
      BY <3>2, <3>3 DEF Continues, FlowRecord
    <3> HIDE DEF flows
    <3>5. ASSUME NEW d \in Flows
          PROVE  /\ GoesOn(flows[d], flow[d]) /\ Named(flows[d])
                 /\ flows[d].held => token # NoToken
      <4>1. Named(flow[d]) /\ (flow[d].held => token # NoToken)
        BY OfStay, OfFlow DEF Steady, Sound
      <4>2. CASE d = c
        BY <1>1, <3>4, <4>1, <4>2 DEF GoesOn, Named, Delivers, Continues, Waking
      <4>3. CASE d # c
        BY <3>3, <4>1, <4>3 DEF GoesOn
      <4> QED BY <4>2, <4>3
    <3>6. token.live \in BOOLEAN
      BY RecordsTyped DEF SignInInv, TokenRecord
    <3> QED BY <1>1, <2>1, <2>3, <3>1, <3>3, <3>5, <3>6, ClearedStays
  <2> QED BY <2>2, <2>3
<1> QED BY <1>2, <1>3

LEMMA PreparedAfterClearStays ==
  ASSUME SignInInv, StayInv, NEW c \in Flows, PreparedAfterClear(c)
  PROVE  StayInv'
<1>1. flow[c].at = "cleared" /\ UNCHANGED <<shared, lost, mixed>> /\ isLoading \in BOOLEAN
  BY DEF PreparedAfterClear, SignInInv, SignInTypeOK
<1>2. CASE user # NoAccount \/ ~flow[c].latest
  <2>1. flow' = Done(c) /\ UNCHANGED <<user, token, authed, isLoading, rotation>>
    BY <1>2 DEF PreparedAfterClear, storeVars
  <2>2. ~Stores(flow[c])
    BY <1>1 DEF Stores, Delivers
  <2> QED BY <1>1, <2>1, <2>2, OneStops
<1>3. CASE user = NoAccount /\ flow[c].latest
  <2>1. Publish(c)
    BY <1>3 DEF PreparedAfterClear
  <2> QED BY <1>1, <1>3, <2>1, PublishedStays
<1> QED BY <1>2, <1>3

LEMMA CleanupStepStays ==
  ASSUME SignInInv, StayInv, CleanupStep \/ CleanupStepFails
  PROVE  StayInv'
<1>1. /\ UNCHANGED <<user, token, authed, isLoading, flow, rotation, shared, lost>>
      /\ mixed => mixed'
  BY DEF CleanupStep, CleanupStepFails, storeVars
<1>2. ASSUME NEW d \in Flows
      PROVE  GoesOn(flow'[d], flow[d]) /\ Steady(flow'[d], authed, isLoading, mixed')
  BY <1>1, OfStay DEF GoesOn, Steady
<1>3. authed => user \in Accounts
  BY DEF StayInv
<1> QED BY <1>1, <1>2, <1>3, StoreMoves

LEMMA CleanupEndsStays ==
  ASSUME SignInInv, StayInv, CleanupEnds
  PROVE  StayInv'
<1> DEFINE g(d) == IF flow[d].at \notin {"settling", "clearing"} THEN flow[d]
                   ELSE IF cleanup.failed THEN Idle
                   ELSE [flow[d] EXCEPT !.at = IF @ = "settling" THEN "settled" ELSE "cleared"]
<1>1. /\ UNCHANGED <<user, token, authed, isLoading, rotation, shared, lost, mixed>>
      /\ flow' = [d \in Flows |-> g(d)] /\ Drained
  BY DEF CleanupEnds, storeVars, Awaited
<1>2. ASSUME NEW d \in Flows
      PROVE  \/ g(d) = flow[d]
             \/ g(d) = Idle /\ flow[d].at # "rotating"
             \/ /\ flow[d].at \in {"settling", "clearing"} /\ g(d).at \in {"settled", "cleared"}
                /\ Continues(g(d), flow[d]) /\ g(d).reply = flow[d].reply
                /\ g(d).held = flow[d].held /\ g(d).sender = flow[d].sender
                /\ g(d).account = flow[d].account
  <2>1. flow[d] \in FlowRecord
    BY OfFlow
  <2> QED BY <2>1 DEF FlowRecord, Continues
<1> HIDE DEF g
<1>3. ASSUME NEW d \in Flows
      PROVE  /\ GoesOn(flow'[d], flow[d]) /\ Steady(flow'[d], authed, isLoading, mixed)
             /\ flow'[d].at = "rotating" /\ flow[d].held => flow'[d].held
  <2>1. flow'[d] = g(d) /\ Steady(flow[d], authed, isLoading, mixed)
    BY <1>1, OfStay
  <2>2. CASE g(d) = flow[d]
    BY <2>1, <2>2 DEF GoesOn
  <2>3. CASE g(d) = Idle
    BY <2>1, <2>3, IdleIsSteady DEF GoesOn, Checks
  <2>4. CASE /\ flow[d].at \in {"settling", "clearing"} /\ g(d).at \in {"settled", "cleared"}
             /\ Continues(g(d), flow[d]) /\ g(d).reply = flow[d].reply
             /\ g(d).held = flow[d].held /\ g(d).sender = flow[d].sender
             /\ g(d).account = flow[d].account
    BY <1>1, <2>1, <2>4 DEF GoesOn, Steady, Named, Continues, Waking
  <2> QED BY <1>2, <2>2, <2>3, <2>4
<1>4. \A d \in Flows : ~Stores(flow[d])
  BY <1>1, DrainedStores
<1>5. authed => user \in Accounts
  BY DEF StayInv
<1> QED BY <1>1, <1>3, <1>4, <1>5, StoreMoves

LEMMA ProtectedRequestStays ==
  ASSUME SignInInv, StayInv, NEW c \in Flows, ProtectedRequest(c)
  PROVE  StayInv'
<1> DEFINE r == [NewFlow("request", "asking") EXCEPT !.sender = token.account,
                                                     !.held = token # NoToken]
<1>1. /\ UNCHANGED <<user, token, authed, isLoading, rotation, shared, lost, mixed>>
      /\ flow' = [flow EXCEPT ![c] = r] /\ flow[c] = Idle /\ authed /\ Drained
      /\ isLoading \in BOOLEAN
  BY DEF ProtectedRequest, storeVars, Spare, SignInInv, SignInTypeOK
<1>2. r.kind = "request" /\ r.at = "asking" /\ r.reply = "none"
  BY DEF NewFlow
<1> HIDE DEF r
<1>3. flow'[c] = r /\ \A d \in Flows \ {c} : flow'[d] = flow[d]
  BY <1>1, OfFlow
<1>4. GoesOn(r, flow[c]) /\ Steady(r, authed, isLoading, mixed)
  BY <1>1, <1>2 DEF GoesOn, Delivers, Steady, Named, Waking, Checks, Renews, Captures
<1>5. ~Stores(flow[c])
  BY <1>1, DrainedStores
<1> QED BY <1>1, <1>2, <1>3, <1>4, <1>5, OneSteps

LEMMA RefreshSessionStays ==
  ASSUME SignInInv, StayInv, NEW c \in Flows, RefreshSession(c)
  PROVE  StayInv'
<1> DEFINE r == [NewFlow("refresh", "rotating") EXCEPT !.sender = token.account, !.held = TRUE]
<1>1. /\ UNCHANGED <<user, token, authed, isLoading, lost, mixed>>
      /\ flow[c] = Idle /\ authed /\ token # NoToken /\ Drained
      /\ RotateFor(c, [flow EXCEPT ![c] = r], TRUE)
  BY DEF RefreshSession, storeVars, Spare
<1>2. token.account \in Accounts
  BY <1>1 DEF SignInInv, StoreGood
<1>3. /\ r \in FlowRecord /\ r.kind = "refresh" /\ r.sender = token.account /\ r.held = TRUE
      /\ r.at = "rotating" /\ r.reply = "none" /\ r.sameRevision /\ r.latest
  BY <1>2 DEF NewFlow, FlowRecord, Kinds, FlowPlaces
<1> HIDE DEF r
<1>4. flow[c].at # "rotating"
  BY <1>1, IdleIsSteady
<1>5. Steady(r, authed, isLoading, mixed)
  BY <1>1, <1>3 DEF Steady, Named, Waking, Checks
<1>6. \A d \in Flows : ~Stores(flow[d])
  BY <1>1, DrainedStores
<1> QED BY <1>1, <1>3, <1>4, <1>5, <1>6, RotateStays DEF Checks

LEMMA ProfileArrivesStays ==
  ASSUME SignInInv, StayInv, NEW c \in Flows, ProfileArrives(c)
  PROVE  StayInv'
<1>1. /\ UNCHANGED <<user, token, authed, isLoading, rotation, shared, lost, mixed>>
      /\ flow[c].kind = "check" /\ flow[c].at # "rotating" /\ Drained /\ isLoading \in BOOLEAN
  BY DEF ProfileArrives, Asking, storeVars, SignInInv, SignInTypeOK
<1>2. ~Stores(flow[c])
  BY <1>1, DrainedStores
<1>3. CASE IsCurrent(c)
  <2>1. flow' = Prepared(c, flow[c].sender, FALSE)
    BY <1>3 DEF ProfileArrives
  <2>2. flow[c].sender \in Accounts
    BY <1>1, <1>3, OfFlow DEF IsCurrent, Sound, Captures
  <2> QED BY <1>1, <1>2, <2>1, <2>2, PreparedSteps DEF Captures
<1>4. CASE ~IsCurrent(c)
  BY <1>1, <1>2, <1>4, OneStops DEF ProfileArrives
<1> QED BY <1>3, <1>4

LEMMA AnswerArrivesStays ==
  ASSUME SignInInv, StayInv, NEW c \in Flows, AnswerArrives(c)
  PROVE  StayInv'
<1>1. /\ UNCHANGED <<isLoading, shared, lost>> /\ Drained /\ isLoading \in BOOLEAN
      /\ flow[c].kind = "request" /\ flow[c].at # "rotating" /\ flow[c].sender # NoAccount
  BY DEF AnswerArrives, Asking, Accepted, SignInInv, SignInTypeOK
<1>2. ~Stores(flow[c])
  BY <1>1, DrainedStores
<1>3. CASE flow' = Done(c) /\ UNCHANGED <<user, token, authed, rotation, mixed>>
  BY <1>1, <1>2, <1>3, OneStops
<1>4. CASE /\ SetSession(flow[c].sender, token, authed, Done(c))
           /\ mixed' = (mixed \/ user # flow[c].sender)
  <2> DEFINE acct == flow[c].sender
  <2>1. acct \in Accounts
    BY <1>1, OfFlow DEF FlowRecord
  <2>2. token \in TokenRecord /\ authed \in BOOLEAN
    BY RecordsTyped DEF SignInInv, SignInTypeOK
  <2>3. /\ user' = acct /\ token' = token /\ authed' = authed
        /\ flow' = Outdated(Done(c), acct, token, authed) /\ rotation' = GivenUp(token, token.live)
    BY <1>4 DEF SetSession
  <2>4. ASSUME NEW d \in Flows
        PROVE  /\ Done(c)[d] = flow[d] \/ (Done(c)[d] = Idle /\ (~Stores(flow[d]) \/ token.live))
               /\ flow[d].at = "rotating" => Done(c)[d] = flow[d]
    BY <1>1, <1>2, DoneStays
  <2>5. ASSUME NEW d \in Flows, Done(c)[d].kind \in Checks, Done(c)[d].sameRevision, Done(c)[d].latest
        PROVE  isLoading'
    BY <1>1, <2>5, DoneStays, OfStay, IdleIsSteady DEF Checks, Steady
  <2>6. ~mixed' => ~Revises(acct, token, authed)
    BY <1>4 DEF Revises
  <2>7. Done(c) \in [Flows -> FlowRecord]
    BY DoneStays
  <2>8. mixed => mixed'
    BY <1>4
  <2> HIDE DEF acct
  <2> QED BY <1>1, <2>1, <2>2, <2>3, <2>4, <2>5, <2>6, <2>7, <2>8, SessionKept
<1> QED BY <1>3, <1>4 DEF AnswerArrives

\* The caller of a request gets its error; no answer is on its way to the store.
LEMMA ThrownStays ==
  ASSUME SignInInv, StayInv, NEW c \in Flows, NEW hard \in BOOLEAN, Throws(c, hard),
         flow[c].at # "rotating", flow[c].kind \in {"check", "request"},
         UNCHANGED <<user, token, authed, mixed>>,
         Undisturbed => \A d \in Flows : ~Stores(flow[d])
  PROVE  StayInv'
<1>1. isLoading \in BOOLEAN /\ lost \in BOOLEAN
  BY DEF SignInInv, SignInTypeOK
<1>2. CASE flow[c].kind # "check" \/ ~IsCurrent(c) \/ hard
  <2>1. /\ flow' = Done(c) /\ UNCHANGED <<rotation, shared, lost>> /\ isLoading' \in BOOLEAN
        /\ isLoading' => isLoading
        /\ isLoading' # isLoading => flow[c].kind \in Checks
    BY <1>1, <1>2 DEF Throws, Checks
  <2> QED BY <2>1, OneStops
<1>3. CASE flow[c].kind = "check" /\ IsCurrent(c) /\ ~hard
  <2> DEFINE held == flow[c].held /\ flow[c].at # "retrying"
             r == [flow[c] EXCEPT !.kind = "recheck", !.reply = "none", !.held = held]
  <2>1. flow \in [Flows -> FlowRecord] /\ flow[c] \in FlowRecord
    BY OfFlow
  <2>2. Recheck(c) /\ UNCHANGED isLoading
    BY <1>3 DEF Throws
  <2>3. held \in BOOLEAN /\ (held => flow[c].held)
    BY <2>1 DEF FlowRecord
  <2>4. [flow EXCEPT ![c].kind = "recheck", ![c].reply = "none", ![c].held = held]
          = [flow EXCEPT ![c] = r]
    <3> HIDE DEF held
    <3> QED BY <2>1
  <2>5. RotateFor(c, [flow EXCEPT ![c] = r], held) /\ lost' = (lost \/ ~held)
    <3>1. /\ RotateFor(c, [flow EXCEPT ![c].kind = "recheck", ![c].reply = "none",
                                       ![c].held = held], held)
          /\ lost' = (lost \/ ~held)
      BY <2>2 DEF Recheck
    <3> HIDE DEF held, r
    <3> QED BY <2>4, <3>1
  <2> HIDE DEF held
  <2>6. /\ r \in FlowRecord /\ r.kind = "recheck" /\ r.held = held /\ r.at = flow[c].at
        /\ r.sender = flow[c].sender /\ r.sameRevision = flow[c].sameRevision
        /\ r.latest = flow[c].latest /\ r.reply = "none" /\ r.account = flow[c].account
    BY <2>1, <2>3 DEF FlowRecord, Kinds
  <2> HIDE DEF r
  <2>7. token # NoToken /\ (held => flow[c].sender = token.account)
    BY <1>3, <2>3, OfFlow DEF Sound, Captures, IsCurrent
  <2>8. Steady(r, authed, isLoading, mixed)
    <3>1. Steady(flow[c], authed, isLoading, mixed)
      BY OfStay
    <3> QED BY <1>3, <2>6, <3>1 DEF Steady, Named, Checks, Captures, IsCurrent
  <2>9. (lost => lost') /\ (~lost' => r.held) /\ UNCHANGED isLoading
    BY <2>2, <2>5, <2>6
  <2> QED BY <1>3, <2>5, <2>6, <2>7, <2>8, <2>9, RotateStays DEF Checks
<1> QED BY <1>2, <1>3

LEMMA AuthFailedStays ==
  ASSUME SignInInv, StayInv, NEW c \in Flows, AuthFails(c),
         flow[c].at # "rotating", flow[c].kind \in {"check", "request"}, UNCHANGED mixed,
         Undisturbed => \A d \in Flows : ~Stores(flow[d])
  PROVE  StayInv'
<1>1. CASE authed
  BY <1>1, DoneStays, LoggedOutStays DEF AuthFails
<1>2. CASE ~authed
  BY <1>2, ThrownStays DEF AuthFails
<1> QED BY <1>1, <1>2

LEMMA UnauthorizedStays ==
  ASSUME SignInInv, StayInv, NEW c \in Flows, Unauthorized(c)
  PROVE  StayInv'
<1>1. /\ flow[c].kind \in {"check", "request"} /\ flow[c].at \in {"asking", "retrying"}
      /\ UNCHANGED mixed /\ Drained /\ isLoading \in BOOLEAN
  BY DEF Unauthorized, Asking, SignInInv, SignInTypeOK
<1>2. flow \in [Flows -> FlowRecord] /\ flow[c] \in FlowRecord
      /\ Steady(flow[c], authed, isLoading, mixed)
  BY OfFlow, OfStay
<1>3. \A d \in Flows : ~Stores(flow[d])
  BY <1>1, DrainedStores
<1>4. CASE flow[c].at = "retrying"
  BY <1>1, <1>3, <1>4, ThrownStays DEF Unauthorized
<1>5. CASE flow[c].at # "retrying" /\ token = NoToken
  BY <1>1, <1>3, <1>5, AuthFailedStays DEF Unauthorized
<1>6. CASE flow[c].at # "retrying" /\ token # NoToken /\ flow[c].held
  <2>1. /\ RotateFor(c, flow, TRUE)
        /\ UNCHANGED <<user, token, authed, isLoading, lost>>
    BY <1>6 DEF Unauthorized, storeVars
  <2>2. flow = [flow EXCEPT ![c] = flow[c]] /\ flow[c].held = TRUE
    BY <1>2, <1>6 DEF FlowRecord
  <2>3. RotateFor(c, [flow EXCEPT ![c] = flow[c]], flow[c].held)
    BY <2>1, <2>2
  <2>4. flow[c].sender = token.account
    BY <1>6, OfFlow DEF Sound
  <2> QED BY <1>1, <1>2, <1>3, <1>6, <2>1, <2>3, <2>4, RotateStays
<1>7. CASE flow[c].at # "retrying" /\ token # NoToken /\ ~flow[c].held
  <2> DEFINE r == [flow[c] EXCEPT !.at = "retrying", !.sender = token.account, !.held = TRUE]
  <2>1. /\ flow' = [flow EXCEPT ![c].at = "retrying", ![c].sender = token.account, ![c].held = TRUE]
        /\ UNCHANGED <<user, token, authed, isLoading, rotation, shared, lost>>
    BY <1>7 DEF Unauthorized, storeVars
  <2>2. flow' = [flow EXCEPT ![c] = r]
    BY <1>2, <2>1
  <2>3. /\ r.at = "retrying" /\ Continues(r, flow[c]) /\ r.reply = flow[c].reply
        /\ r.account = flow[c].account
    BY <1>2 DEF FlowRecord, Continues
  <2> HIDE DEF r
  <2>4. flow'[c] = r /\ \A d \in Flows \ {c} : flow'[d] = flow[d]
    BY <1>2, <2>2
  <2>5. GoesOn(r, flow[c]) /\ Steady(r, authed, isLoading, mixed)
    BY <1>1, <1>2, <2>3 DEF GoesOn, Delivers, Steady, Named, Continues, Waking, Renews
  <2> QED BY <1>1, <1>3, <2>1, <2>3, <2>4, <2>5, OneSteps
<1> QED BY <1>4, <1>5, <1>6, <1>7

LEMMA RequestFailsStays ==
  ASSUME SignInInv, StayInv, NEW c \in Flows, RequestFails(c)
  PROVE  StayInv'
BY DrainedStores, ThrownStays DEF RequestFails, Asking

LEMMA ServerRotatesStays ==
  ASSUME SignInInv, StayInv, NEW c \in Flows, ServerRotates(c)
  PROVE  StayInv'
<1> DEFINE live == IF rotation[c].held THEN token.live ELSE rotation[c].live
<1>1. /\ rotation[c].reply = "open" /\ Drained
      /\ rotation' = [rotation EXCEPT ![c].reply = IF live THEN "granted" ELSE "refused"]
      /\ token' = [token EXCEPT !.live = @ /\ ~rotation[c].held]
      /\ UNCHANGED <<user, authed, isLoading, flow, shared, lost, mixed>>
  BY DEF ServerRotates
<1>2. rotation \in [Flows -> RotationRecord] /\ token \in TokenRecord
  BY RecordsTyped DEF SignInInv
<1> HIDE DEF live
<1>3. /\ rotation'[c].reply = IF live THEN "granted" ELSE "refused"
      /\ \A d \in Flows : /\ rotation'[d].account = rotation[d].account
                          /\ rotation'[d].held = rotation[d].held
                          /\ rotation'[d].live = rotation[d].live
                          /\ d # c => rotation'[d].reply = rotation[d].reply
  BY <1>1, <1>2 DEF RotationRecord
<1>4. token'.live = (token.live /\ ~rotation[c].held) /\ token'.account = token.account
  BY <1>1, <1>2 DEF TokenRecord
<1>5. Undisturbed' = Undisturbed
  BY <1>1 DEF Undisturbed
<1>6. Undisturbed => live
  BY <1>1 DEF StayInv, RotationsLive, RotationLive, live
<1>7. FlowsSteady' /\ FlowsAgree' /\ (authed' => user' \in Accounts)
  BY <1>1 DEF StayInv, FlowsSteady, FlowsAgree
<1>8. RotationsShared'
  BY <1>1, <1>3 DEF StayInv, RotationsShared, RotationShared, SignInInv, RotationsGood, RotationGood
<1>9. RotationsLive'
  <2> SUFFICES ASSUME NEW d \in Flows, Undisturbed'
               PROVE  /\ rotation'[d].reply # "refused" /\ flow'[d].reply # "refused"
                      /\ rotation'[d].reply = "open" =>
                           IF rotation'[d].held THEN token'.live ELSE rotation'[d].live
    BY DEF RotationsLive, RotationLive
  <2>1. RotationLive(d)
    BY DEF StayInv, RotationsLive
  <2>2. d # c /\ rotation[d].held => ~rotation[c].held
    BY <1>5 DEF StayInv, RotationsShared, RotationShared, Undisturbed
  <2>3. CASE d = c
    BY <1>1, <1>3, <1>5, <1>6, <2>1, <2>3 DEF RotationLive
  <2>4. CASE d # c
    BY <1>1, <1>3, <1>4, <1>5, <2>1, <2>2, <2>4 DEF RotationLive
  <2> QED BY <2>3, <2>4
<1>10. TokenLive'
  <2> SUFFICES ASSUME Undisturbed', ~token'.live, token' # NoToken
               PROVE  \E d \in Flows : Replaced(d)'
    BY DEF TokenLive
  <2>1. CASE rotation[c].held
    BY <1>3, <1>5, <1>6, <2>1 DEF Replaced
  <2>2. CASE ~rotation[c].held
    <3>1. token' = token
      BY <1>1, <1>2, <2>2 DEF TokenRecord
    <3>2. PICK d \in Flows : Replaced(d)
      BY <1>1, <1>5, <3>1, DrainedStores DEF StayInv, TokenLive
    <3> QED BY <1>1, <1>3, <3>2 DEF Replaced
  <2> QED BY <2>1, <2>2
<1> QED BY <1>7, <1>8, <1>9, <1>10 DEF StayInv

\* A refresh is over: the flow that has asked for it, at least, is told of a new token.
LEMMA AnsweredStays ==
  ASSUME SignInInv, StayInv, NEW c \in Flows, NEW reply \in {"granted", "refused", "lost"},
         RefreshAnswered(c, reply), rotation[c].reply # "none", Drained,
         UNCHANGED <<user, token, authed, isLoading, mixed>>, lost => lost',
         reply = "refused" => rotation[c].reply = "refused",
         rotation[c].reply = "granted" => reply = "granted" \/ lost'
  PROVE  StayInv'
<1> DEFINE Ends(d) == flow[d].at = "rotating" /\ flow[d].on = c
           g(d) == [flow[d] EXCEPT !.at = "rotated", !.on = NoFlow, !.reply = reply,
                                   !.account = rotation[c].account]
<1>1. flow \in [Flows -> FlowRecord] /\ rotation \in [Flows -> RotationRecord]
  BY RecordsTyped DEF SignInInv
<1>2. ASSUME NEW d \in Flows
      PROVE  /\ Continues(g(d), flow[d]) /\ g(d).at = "rotated" /\ g(d).held = flow[d].held
             /\ g(d).sender = flow[d].sender /\ g(d).account = rotation[c].account
             /\ g(d).reply = reply
  <2>1. flow[d] \in FlowRecord
    BY <1>1
  <2> QED BY <2>1 DEF FlowRecord, Continues
<1>3. \A d \in Flows : flow'[d] = IF Ends(d) THEN g(d) ELSE flow[d]
  BY DEF RefreshAnswered
<1>4. /\ rotation'[c] = NoRotation /\ \A d \in Flows \ {c} : rotation'[d] = rotation[d]
      /\ shared' = IF shared = c THEN NoFlow ELSE shared
  BY <1>1 DEF RefreshAnswered
<1> HIDE DEF g
<1>5. Undisturbed' => Undisturbed
  BY DEF Undisturbed
<1>6. ASSUME NEW d \in Flows
      PROVE  /\ Steady(flow[d], authed, isLoading, mixed) /\ RotationShared(d) /\ RotationGood(d)
             /\ RotationLive(d)
  BY DEF StayInv, FlowsSteady, RotationsShared, RotationsLive, SignInInv, RotationsGood
<1>7. FlowsSteady'
  <2> SUFFICES ASSUME NEW d \in Flows
               PROVE  Steady(flow'[d], authed, isLoading, mixed)
    BY DEF FlowsSteady
  <2>1. CASE ~Ends(d)
    BY <1>3, <1>6, <2>1
  <2>2. CASE Ends(d)
    <3>1. flow'[d] = g(d) /\ rotation[c].account = flow[d].sender
      BY <1>3, <1>6, <2>2 DEF RotationShared
    <3> QED BY <1>2, <1>6, <2>2, <3>1 DEF Steady, Named, Continues, Waking
  <2> QED BY <2>1, <2>2
<1>8. FlowsAgree'
  <2> SUFFICES ASSUME NEW d \in Flows, NEW e \in Flows, d # e
               PROVE  Agree(flow'[d], flow'[e])
    BY DEF FlowsAgree
  <2>1. Agree(flow[d], flow[e])
    BY DEF StayInv, FlowsAgree
  <2>2. flow'[d].kind = flow[d].kind /\ flow'[e].kind = flow[e].kind
    BY <1>2, <1>3 DEF Continues
  <2>3. ASSUME flow'[d].at = "rotated", flow'[d].reply = "lost"
        PROVE  ~Delivers(flow'[e])
    <3>1. reply = "lost"
      BY <1>2, <1>3, <2>3, DrainedStores
    <3>2. CASE Ends(e)
      BY <1>2, <1>3, <3>1, <3>2 DEF Delivers
    <3>3. CASE ~Ends(e)
      BY <1>3, <3>3, DrainedStores
    <3> QED BY <3>2, <3>3
  <2> QED BY <2>1, <2>2, <2>3 DEF Agree
<1>9. RotationsShared'
  <2> SUFFICES ASSUME NEW d \in Flows
               PROVE  RotationShared(d)'
    BY DEF RotationsShared
  <2>1. flow'[d].at = "rotating" => ~Ends(d)
    BY <1>2, <1>3
  <2>2. ~Ends(d) => flow'[d] = flow[d]
    BY <1>3
  <2>3. ~lost' /\ rotation'[d].held => shared' = d
    BY <1>4, <1>6 DEF RotationShared, NoRotation
  <2> QED BY <1>4, <1>6, <2>1, <2>2, <2>3 DEF RotationShared, RotationGood
<1>10. RotationsLive'
  <2> SUFFICES ASSUME NEW d \in Flows, Undisturbed'
               PROVE  /\ rotation'[d].reply # "refused" /\ flow'[d].reply # "refused"
                      /\ rotation'[d].reply = "open" =>
                           IF rotation'[d].held THEN token.live ELSE rotation'[d].live
    BY DEF RotationsLive, RotationLive
  <2>1. flow'[d].reply # "refused"
    BY <1>2, <1>3, <1>5, <1>6 DEF RotationLive
  <2> QED BY <1>4, <1>5, <1>6, <2>1 DEF RotationLive, NoRotation
<1>11. TokenLive'
  <2> SUFFICES ASSUME Undisturbed', token # NoToken, ~token.live
               PROVE  \E d \in Flows : Replaced(d)' \/ Stores(flow'[d])
    BY DEF TokenLive
  <2>1. PICK d \in Flows : Replaced(d)
    BY <1>5, DrainedStores DEF StayInv, TokenLive
  <2>2. CASE d # c
    BY <1>4, <2>1, <2>2 DEF Replaced
  <2>3. CASE d = c
    <3>1. reply = "granted" /\ Ends(c) /\ flow[c].held
      BY <1>6, <2>1, <2>3 DEF Replaced, Undisturbed, RotationGood, RotationShared
    <3>2. flow'[c] = g(c)
      BY <1>3, <3>1
    <3>3. flow[c].kind \in Renews => flow[c].sameRevision /\ flow[c].latest
      BY <1>5, <1>6, <3>1 DEF Steady, Undisturbed
    <3>4. Stores(g(c))
      BY <1>2, <3>1, <3>3 DEF Stores, Delivers, Continues
    <3> QED BY <3>2, <3>4
  <2> QED BY <2>2, <2>3
<1>12. authed' => user' \in Accounts
  BY DEF StayInv
<1> QED BY <1>7, <1>8, <1>9, <1>10, <1>11, <1>12 DEF StayInv

LEMMA RotationEndsStays ==
  ASSUME SignInInv, StayInv, NEW c \in Flows, RotationArrives(c) \/ RotationLost(c)
  PROVE  StayInv'
<1>1. CASE RotationArrives(c)
  BY <1>1, AnsweredStays DEF RotationArrives, storeVars
<1>2. CASE RotationLost(c)
  BY <1>2, AnsweredStays DEF RotationLost, storeVars
<1> QED BY <1>1, <1>2

LEMMA TokenRefreshedStays ==
  ASSUME SignInInv, StayInv, NEW c \in Flows, TokenRefreshed(c)
  PROVE  StayInv'
<1>1. flow[c].at = "rotated" /\ flow[c].kind \in {"request", "check"} /\ UNCHANGED mixed
  BY DEF TokenRefreshed
<1>2. CASE flow[c].reply = "granted" /\ Resent(c) /\ UNCHANGED <<isLoading, shared, lost>>
  BY <1>1, <1>2, ResentStays
<1>3. CASE flow[c].reply = "refused" /\ AuthFails(c)
  <2>1. ~Undisturbed
    BY <1>3 DEF StayInv, RotationsLive, RotationLive
  <2> QED BY <1>1, <1>3, <2>1, AuthFailedStays
<1>4. CASE /\ flow[c].reply = "lost" /\ \E hard \in BOOLEAN : Throws(c, hard)
           /\ UNCHANGED <<user, token, authed, cleanup>>
  <2>1. ASSUME NEW d \in Flows
        PROVE  ~Stores(flow[d])
    <3>1. CASE d = c
      BY <1>1, <1>4, <3>1 DEF Stores, Delivers
    <3>2. CASE d # c
      BY <1>1, <1>4, <3>2, OfStay DEF Agree, Stores
    <3> QED BY <3>1, <3>2
  <2> QED BY <1>1, <1>4, <2>1, ThrownStays
<1> QED BY <1>2, <1>3, <1>4 DEF TokenRefreshed

LEMMA SessionRefreshedStays ==
  ASSUME SignInInv, StayInv, NEW c \in Flows, SessionRefreshed(c)
  PROVE  StayInv'
<1>1. /\ flow[c].at = "rotated" /\ flow[c].kind \in Renews /\ flow[c].kind \in Captures
      /\ UNCHANGED <<shared, lost, mixed>> /\ isLoading \in BOOLEAN
  BY DEF SessionRefreshed, Renews, Captures, SignInInv, SignInTypeOK
<1>2. CASE ~IsCurrent(c)
  <2>1. flow' = Done(c) /\ UNCHANGED <<user, token, authed, isLoading, rotation>>
    BY <1>2 DEF SessionRefreshed, storeVars
  <2>2. ~Stores(flow[c])
    BY <1>1, <1>2 DEF Stores, IsCurrent
  <2> QED BY <1>1, <2>1, <2>2, OneStops
<1>3. CASE /\ flow[c].reply = "granted" /\ flow' = Prepared(c, flow[c].account, TRUE)
           /\ UNCHANGED <<storeVars, cleanup, rotation>>
  <2>1. flow[c].account \in Accounts
    BY <1>1, <1>3, OfFlow DEF Sound
  <2>2. flow[c].account = flow[c].sender
    BY <1>1, OfStay DEF Steady, Named
  <2>3. Delivers(flow[c])
    BY <1>1, <1>3 DEF Delivers
  <2> QED BY <1>1, <1>3, <2>1, <2>2, <2>3, PreparedSteps DEF storeVars
<1>4. CASE /\ flow[c].reply = "lost" /\ flow' = Done(c)
           /\ isLoading' = (isLoading /\ flow[c].kind = "refresh")
           /\ UNCHANGED <<user, token, authed, cleanup, rotation>>
  <2>1. ~Stores(flow[c])
    BY <1>1, <1>4 DEF Stores, Delivers
  <2>2. isLoading' # isLoading => flow[c].kind \in Checks
    BY <1>1, <1>4 DEF Checks, Renews
  <2> QED BY <1>1, <1>4, <2>1, <2>2, OneStops
<1>5. CASE IsCurrent(c) /\ flow[c].reply = "refused" /\ ClearSession(Done(c))
  <2>1. CASE cleanup.step # "none"
    <3>1. flow' = Done(c) /\ UNCHANGED <<user, token, authed, isLoading, rotation>>
      BY <1>5, <2>1 DEF ClearSession, Cleared, storeVars
    <3>2. ~Stores(flow[c])
      BY <1>1, <1>5 DEF Stores, Delivers
    <3> QED BY <1>1, <3>1, <3>2, OneStops
  <2>2. CASE cleanup.step = "none"
    <3>1. token # NoToken
      BY <1>1, <1>5, OfFlow DEF Sound, IsCurrent
    <3>2. token.live \in BOOLEAN
      BY RecordsTyped DEF SignInInv, TokenRecord
    <3> QED BY <1>1, <1>5, <2>2, <3>1, <3>2, DoneStays, ClearedStays DEF ClearSession
  <2> QED BY <2>1, <2>2
<1> QED BY <1>2, <1>3, <1>4, <1>5 DEF SessionRefreshed

LEMMA TokenAgesStays ==
  ASSUME SignInInv, StayInv, AccessExpires \/ RevokedElsewhere
  PROVE  StayInv'
<1>1. /\ UNCHANGED <<user, authed, isLoading, flow, rotation, shared, mixed>> /\ (lost => lost')
      /\ Undisturbed' => Undisturbed
  BY DEF AccessExpires, RevokedElsewhere, Undisturbed
<1>2. FlowsSteady' /\ FlowsAgree' /\ (authed' => user' \in Accounts)
  BY <1>1 DEF StayInv, FlowsSteady, FlowsAgree
<1>3. RotationsShared'
  BY <1>1 DEF StayInv, RotationsShared, RotationShared
<1>4. Undisturbed' => token'.live = token.live /\ token # NoToken
  <2>1. token \in TokenRecord
    BY RecordsTyped DEF SignInInv
  <2> QED BY <2>1 DEF AccessExpires, RevokedElsewhere, Undisturbed, TokenRecord, NoToken
<1>5. RotationsLive' /\ TokenLive'
  BY <1>1, <1>4 DEF StayInv, RotationsLive, RotationLive, TokenLive, Replaced
<1> QED BY <1>2, <1>3, <1>5 DEF StayInv

\* The second invariant: under way or stored, the window has a token the server takes.
LEMMA StayInvariant == SignInSpec => []StayInv
<1>1. SignInInit => StayInv
  BY StayStarts
<1>2. SignInInv /\ StayInv /\ [SignInNext]_signInVars => StayInv'
  <2> SUFFICES ASSUME SignInInv, StayInv, [SignInNext]_signInVars
               PROVE  StayInv'
    OBVIOUS
  <2>1. CASE UNCHANGED signInVars
    BY <2>1 DEF signInVars, StayInv, FlowsSteady, FlowsAgree, RotationsShared, RotationShared,
       RotationsLive, RotationLive, TokenLive, Replaced, Undisturbed
  <2>2. CASE LogOutByUser
    BY <2>2, LogOutByUserStays
  <2>3. CASE CleanupStep \/ CleanupStepFails
    BY <2>3, CleanupStepStays
  <2>4. CASE CleanupEnds
    BY <2>4, CleanupEndsStays
  <2>5. CASE AccessExpires \/ RevokedElsewhere
    BY <2>5, TokenAgesStays
  <2>6. ASSUME NEW c \in Flows, \E a \in Accounts : LogIn(c, a)
        PROVE  StayInv'
    BY <2>6, LogInStays
  <2>7. ASSUME NEW c \in Flows, LogInAnswered(c) \/ Reload(c)
        PROVE  StayInv'
    BY <2>7, LogInAnsweredStays, ReloadStays
  <2>8. ASSUME NEW c \in Flows, PrepareSession(c) \/ PreparedAfterClear(c)
        PROVE  StayInv'
    BY <2>8, PrepareSessionStays, PreparedAfterClearStays
  <2>9. ASSUME NEW c \in Flows, ProtectedRequest(c) \/ RefreshSession(c)
        PROVE  StayInv'
    BY <2>9, ProtectedRequestStays, RefreshSessionStays
  <2>10. ASSUME NEW c \in Flows, ProfileArrives(c) \/ AnswerArrives(c)
         PROVE  StayInv'
    BY <2>10, ProfileArrivesStays, AnswerArrivesStays
  <2>11. ASSUME NEW c \in Flows, Unauthorized(c) \/ RequestFails(c)
         PROVE  StayInv'
    BY <2>11, UnauthorizedStays, RequestFailsStays
  <2>12. ASSUME NEW c \in Flows, ServerRotates(c) \/ RotationArrives(c) \/ RotationLost(c)
         PROVE  StayInv'
    BY <2>12, ServerRotatesStays, RotationEndsStays
  <2>13. ASSUME NEW c \in Flows, TokenRefreshed(c) \/ SessionRefreshed(c)
         PROVE  StayInv'
    BY <2>13, TokenRefreshedStays, SessionRefreshedStays
  <2> QED BY <2>1, <2>2, <2>3, <2>4, <2>5, <2>6, <2>7, <2>8, <2>9, <2>10, <2>11, <2>12, <2>13
       DEF SignInNext
<1> QED BY <1>1, <1>2, SignInInvariant, PTL DEF SignInSpec

-----------------------------------------------------------------------------
(* The steps that sign the window out.                                     *)

LEMMA FlowKeepsSession ==
  ASSUME SignInInv, StayInv, Undisturbed, authed, NEW c \in Flows,
         \/ \E a \in Accounts : LogIn(c, a)
         \/ LogInAnswered(c) \/ Reload(c) \/ PrepareSession(c) \/ PreparedAfterClear(c)
         \/ ProtectedRequest(c) \/ RefreshSession(c) \/ ProfileArrives(c) \/ AnswerArrives(c)
         \/ Unauthorized(c) \/ RequestFails(c) \/ ServerRotates(c) \/ RotationArrives(c)
         \/ RotationLost(c) \/ TokenRefreshed(c) \/ SessionRefreshed(c)
  PROVE  authed'
<1>1. token # NoToken /\ user \in Accounts
  BY Constants DEF StayInv, SignInInv, StoreGood, Undisturbed
<1>2. flow[c].reply # "refused"
  BY DEF StayInv, RotationsLive, RotationLive
<1>3. CASE \/ \E a \in Accounts : LogIn(c, a)
           \/ LogInAnswered(c) \/ ProtectedRequest(c) \/ RefreshSession(c) \/ ProfileArrives(c)
           \/ RequestFails(c) \/ ServerRotates(c) \/ RotationArrives(c) \/ RotationLost(c)
  BY <1>3 DEF LogIn, LogInAnswered, ProtectedRequest, RefreshSession, ProfileArrives,
     RequestFails, ServerRotates, RotationArrives, RotationLost, storeVars
<1>4. CASE Reload(c)
  BY <1>1, <1>4 DEF Reload
<1>5. CASE PrepareSession(c)
  <2>1. ~Drops(c) => flow[c].account = user
    <3> SUFFICES ASSUME ~Drops(c)
                 PROVE  flow[c].account = user
      OBVIOUS
    <3>1. flow[c].at = "settled"
      BY <1>5 DEF PrepareSession
    <3>2. flow[c].kind \in Captures /\ flow[c].sameRevision
      BY <3>1, OfFlow DEF Drops, Sound, Waking
    <3>3. flow[c].account = flow[c].sender
      BY <3>1, <3>2, OfStay DEF Steady, Named, Waking
    <3> QED BY <3>2, <3>3, OfFlow DEF Sound, Undisturbed
  <2> QED BY <1>5, <2>1 DEF PrepareSession, Publish, SetSession, storeVars
<1>6. CASE PreparedAfterClear(c)
  BY <1>6 DEF PreparedAfterClear, Publish, SetSession, storeVars
<1>7. CASE AnswerArrives(c)
  BY <1>7 DEF AnswerArrives, SetSession
<1>8. CASE Unauthorized(c)
  BY <1>1, <1>8 DEF Unauthorized, storeVars
<1>9. CASE TokenRefreshed(c)
  BY <1>2, <1>9 DEF TokenRefreshed, Resent
<1>10. CASE SessionRefreshed(c)
  BY <1>2, <1>10 DEF SessionRefreshed, storeVars
<1> QED BY <1>3, <1>4, <1>5, <1>6, <1>7, <1>8, <1>9, <1>10

\* Until a refused refresh is expected or accounts are mixed, a window that is signed in is
\* signed out by its user only, however many requests find the access token expired, at the
\* same time or late, and however many refreshes and reloads overlap: whichever gets the new
\* token stores it before anything presents the old one again (refreshToken and
\* tryRefreshToken of api/client.ts, refreshSession of auth.store.ts, refreshToken of
\* auth.service.ts).
THEOREM OnlyUserSignsOut == SignInSpec => StaysSignedIn
<1>1. SignInInv /\ StayInv /\ [SignInNext]_signInVars
        => [authed /\ ~authed' => LogOutByUser \/ lost \/ mixed]_signInVars
  <2> SUFFICES ASSUME SignInInv, StayInv, SignInNext, authed, Undisturbed, ~LogOutByUser
               PROVE  authed'
    BY DEF Undisturbed
  <2>1. CASE CleanupStep \/ CleanupStepFails \/ CleanupEnds \/ AccessExpires \/ RevokedElsewhere
    BY <2>1 DEF CleanupStep, CleanupStepFails, CleanupEnds, AccessExpires, RevokedElsewhere,
       storeVars
  <2> QED BY <2>1, FlowKeepsSession DEF SignInNext
<1> QED BY <1>1, SignInInvariant, StayInvariant, PTL DEF SignInSpec, StaysSignedIn
=============================================================================
