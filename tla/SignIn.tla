-------------------------------- MODULE SignIn --------------------------------
(***************************************************************************)
(* The account one window is signed in to: the store that holds it         *)
(* (auth.store.ts), the requests that carry and refresh its tokens         *)
(* (lib/api/client.ts), the cleanup of what belonged to the account before *)
(* (sessionCleanup.ts, lib/cache/), and the refresh tokens of the server   *)
(* (auth.service.ts).                                                      *)
(*                                                                         *)
(* An access token and the refresh token issued with it are one token, and *)
(* the store and its copy in localStorage, which are written together, are *)
(* one store: other windows of the same browser are left out.  Of tokens   *)
(* that are no longer held only their account matters.  A promise that     *)
(* settles wakes all who await it before anything else happens (Drained):  *)
(* the continuations are microtasks.                                       *)
(***************************************************************************)
EXTENDS Naturals

CONSTANTS
  Accounts,
  NoAccount,
  Flows,      \* of the store or the API client that may be under way at once
  NoFlow,
  MaxEvents   \* requests, refreshes by the timer, reloads and failures (bound)

ASSUME SignInAssumption ==
  /\ NoAccount \notin Accounts /\ NoFlow \notin Flows
  /\ MaxEvents \in Nat

VARIABLES
  user, token, authed, isLoading, \* of the store; of the token also what the server thinks of it
  data,     \* the accounts whose data the stores and the caches hold
  cleanup,  \* pendingCleanup: its step, whether its revision is still the store's; also a
            \* history: the accounts whose answers were stored too late for it, since it began
  flow,     \* what each flow awaits
  rotation, \* the refresh request each flow has begun
  shared,   \* the flow whose refresh request is refreshPromise
  events,   \* how many of those that are bounded there have been
  lost,     \* history: a refused refresh is no surprise any more
  mixed     \* history: something has mixed accounts

signInVars == <<user, token, authed, isLoading, data, cleanup, flow, rotation, shared,
                events, lost, mixed>>
storeVars == <<user, token, authed, isLoading>>

-----------------------------------------------------------------------------
\* live: the server has the refresh token; fresh: the access token has not expired.
NoToken == [account |-> NoAccount, live |-> FALSE, fresh |-> FALSE]
NewToken(a) == [account |-> a, live |-> TRUE, fresh |-> TRUE]

\* sender: the account of the access token that was sent; held: it is the one in the store.
\* account: the one an answer names; new: the answer carries a new token of it.
\* recheck: a checkAuth that has gone on to refresh the token it began with.
\* sameRevision and latest: sessionRevision and authAttempt are those the flow captured.
Kinds == {"none", "login", "check", "recheck", "refresh", "request"}
Captures == {"check", "recheck", "refresh"}
FlowPlaces == {"idle", "asking", "retrying", "rotating", "rotated",
               "settling", "settled", "clearing", "cleared"}
NewFlow(kind, at) ==
  [kind |-> kind, at |-> at, sender |-> NoAccount, held |-> FALSE, account |-> NoAccount,
   new |-> FALSE, reply |-> "none", on |-> NoFlow, sameRevision |-> TRUE, latest |-> TRUE]
Idle == NewFlow("none", "idle")
NoRotation == [reply |-> "none", account |-> NoAccount, held |-> FALSE, live |-> FALSE]
NoCleanup == [step |-> "none", current |-> TRUE, failed |-> FALSE, late |-> {}]
Resetting == [NoCleanup EXCEPT !.step = "resetting"]

SignInTypeOK ==
  /\ user \in Accounts \cup {NoAccount}
  /\ token \in [account : Accounts \cup {NoAccount}, live : BOOLEAN, fresh : BOOLEAN]
  /\ authed \in BOOLEAN /\ isLoading \in BOOLEAN
  /\ data \subseteq Accounts
  /\ cleanup \in [step : {"none", "resetting", "purging"}, current : BOOLEAN, failed : BOOLEAN,
                  late : SUBSET Accounts]
  /\ flow \in [Flows -> [kind : Kinds, at : FlowPlaces, sender : Accounts \cup {NoAccount},
                         held : BOOLEAN, account : Accounts \cup {NoAccount}, new : BOOLEAN,
                         reply : {"none", "granted", "refused", "lost"},
                         on : Flows \cup {NoFlow}, sameRevision : BOOLEAN, latest : BOOLEAN]]
  /\ rotation \in [Flows -> [reply : {"none", "open", "granted", "refused"},
                             account : Accounts \cup {NoAccount}, held : BOOLEAN, live : BOOLEAN]]
  /\ shared \in Flows \cup {NoFlow}
  /\ events \in 0..MaxEvents
  /\ lost \in BOOLEAN /\ mixed \in BOOLEAN

SignInInit ==
  /\ user = NoAccount /\ token = NoToken /\ authed = FALSE /\ isLoading = FALSE
  /\ data = {} /\ cleanup = NoCleanup
  /\ flow = [c \in Flows |-> Idle] /\ rotation = [c \in Flows |-> NoRotation] /\ shared = NoFlow
  /\ events = 0 /\ lost = FALSE /\ mixed = FALSE

-----------------------------------------------------------------------------
(* Parts of the steps.                                                     *)

\* Flows that are not under way are alike: the next to begin is a fixed one of them.
Spare(c) == flow[c] = Idle /\ c = CHOOSE d \in Flows : flow[d] = Idle

Drained == \A c \in Flows : flow[c].at \notin {"rotated", "settled", "cleared"}
Event == events < MaxEvents /\ events' = events + 1
IsCurrent(c) == flow[c].sameRevision /\ flow[c].latest
Done(c) == [flow EXCEPT ![c] = Idle]

\* The subscription at the end of auth.store.ts.
Revises(u, t, a) == u # user \/ (t = NoToken) # (token = NoToken) \/ a # authed

\* What a change of the store does to the flows under way: the revision they captured,
\* and the token they sent, may be the store's no longer.
Outdated(flows, u, t, a) ==
  [c \in Flows |->
     [flows[c] EXCEPT !.held = @ /\ t = token,
                      !.sameRevision = @ /\ (Revises(u, t, a) => flows[c].kind \notin Captures)]]

\* When the store gets another token, the requests that refresh the old one find it at
\* the server as it is left there.
GivenUp(t, live) ==
  [c \in Flows |-> IF rotation[c].held /\ t # token
                   THEN [rotation[c] EXCEPT !.held = FALSE, !.live = live]
                   ELSE rotation[c]]

\* The store gets an account and a token; flows is what is under way after it.
SetSession(u, t, a, flows) ==
  /\ user' = u /\ token' = t /\ authed' = a
  /\ flow' = Outdated(flows, u, t, a)
  /\ rotation' = GivenUp(t, token.live)
  /\ cleanup' = [cleanup EXCEPT !.current = @ /\ (cleanup.step = "none" \/ ~Revises(u, t, a))]

\* While a cleanup is pending, clearSession only awaits it.
Cleared(flows, live) ==
  IF cleanup.step # "none"
  THEN flow' = flows /\ UNCHANGED <<storeVars, cleanup, rotation>>
  ELSE /\ user' = NoAccount /\ token' = NoToken /\ authed' = FALSE /\ isLoading' = FALSE
       /\ flow' = Outdated(flows, NoAccount, NoToken, FALSE)
       /\ rotation' = GivenUp(NoToken, live)
       /\ cleanup' = Resetting

ClearSession(flows) == Cleared(flows, token.live)

\* A new attempt makes those before it stale.
Attempted(flows) ==
  [c \in Flows |-> [flows[c] EXCEPT !.latest = @ /\ flows[c].kind \in {"none", "request"}]]

\* The server revokes the token before or after it handles the refreshes under way.
LogOut(flows) ==
  \E live \in {token.live, FALSE} :
    /\ Cleared(Attempted(flows), live)
    /\ lost' = (lost \/ (live # token.live /\ \E c \in Flows : rotation[c].held))

\* What awaiting pendingCleanup means at the start of prepareSession.
PreparedAtOnce(c, a, new) ==
  [flow EXCEPT ![c].account = a, ![c].new = new, ![c].reply = "none", ![c].at = "settled"]
Prepared(c, a, new) ==
  [flow EXCEPT ![c].account = a, ![c].new = new, ![c].reply = "none",
               ![c].at = IF cleanup.step = "none" THEN "settled" ELSE "settling"]

\* refreshToken of the client: a refresh of the token in the store joins the one under way.
NeverJoins(held) == FALSE
SharesRefresh(held) == held /\ shared # NoFlow /\ rotation[shared].held

RotateFor(c, flows, held) ==
  LET on == IF SharesRefresh(held) THEN shared ELSE c IN
  /\ flow' = [flows EXCEPT ![c].at = "rotating", ![c].on = on]
  /\ shared' = on
  /\ rotation' = IF SharesRefresh(held) THEN rotation
                 ELSE [rotation EXCEPT ![c] = [reply |-> "open", held |-> held, live |-> FALSE,
                                               account |-> flows[c].sender]]

-----------------------------------------------------------------------------
(* Signing in and out.                                                     *)

\* The login page is shown while nobody is signed in and no check is going on.
LogIn(c, a) ==
  /\ Drained /\ ~authed /\ ~isLoading /\ Spare(c)
  /\ flow' = [Attempted(flow) EXCEPT ![c] = [NewFlow("login", "asking") EXCEPT !.account = a]]
  /\ UNCHANGED <<storeVars, data, cleanup, rotation, shared, events, lost, mixed>>

\* The server's answer: tokens of the account, or a refusal.
LogInAnswered(c) ==
  /\ Drained /\ flow[c].kind = "login" /\ flow[c].at = "asking"
  /\ flow' \in {Prepared(c, flow[c].account, TRUE), Done(c)}
  /\ UNCHANGED <<storeVars, data, cleanup, rotation, shared, events, lost, mixed>>

LogOutByUser ==
  /\ Drained /\ authed
  /\ LogOut(flow)
  /\ UNCHANGED <<data, shared, events, mixed>>

\* The window is loaded again: checkAuth runs on what localStorage kept.
Reload(c) ==
  /\ Drained /\ Event /\ c = CHOOSE d \in Flows : TRUE
  /\ rotation' = [d \in Flows |-> NoRotation] /\ shared' = NoFlow
  /\ lost' = (lost \/ \E d \in Flows : rotation[d].reply = "granted")
  /\ IF token = NoToken
     THEN /\ user' = NoAccount /\ authed' = FALSE /\ isLoading' = FALSE
          /\ flow' = [d \in Flows |-> Idle] /\ cleanup' = Resetting
     ELSE /\ flow' = [[d \in Flows |-> Idle] EXCEPT
                        ![c] = [NewFlow("check", "asking") EXCEPT !.sender = token.account,
                                                                  !.held = TRUE]]
          /\ isLoading' = TRUE /\ cleanup' = [NoCleanup EXCEPT !.late = cleanup.late]
          /\ UNCHANGED <<user, authed>>
  /\ UNCHANGED <<token, data, mixed>>

-----------------------------------------------------------------------------
(* prepareSession and the publication of the account, whose data the       *)
(* window then loads.                                                      *)

Publish(c) ==
  /\ LET t == IF flow[c].new THEN NewToken(flow[c].account) ELSE token IN
     SetSession(flow[c].account, t, TRUE, Done(c))
  /\ isLoading' = (isLoading /\ flow[c].kind = "refresh")
  /\ data' = data \cup {flow[c].account}

Drops(c) == ~flow[c].latest \/ (flow[c].kind # "login" /\ ~flow[c].sameRevision)

PrepareSession(c) ==
  /\ flow[c].at = "settled"
  /\ IF Drops(c)
     THEN flow' = Done(c) /\ UNCHANGED <<storeVars, data, cleanup, rotation>>
     ELSE IF user \notin {NoAccount, flow[c].account}
     THEN ClearSession([flow EXCEPT ![c].at = "clearing"]) /\ UNCHANGED data
     ELSE Publish(c)
  /\ UNCHANGED <<shared, events, lost, mixed>>

\* prepareSession after its own clearSession.
PreparedAfterClear(c) ==
  /\ flow[c].at = "cleared"
  /\ IF user # NoAccount \/ ~flow[c].latest
     THEN flow' = Done(c) /\ UNCHANGED <<storeVars, data, cleanup, rotation>>
     ELSE Publish(c)
  /\ UNCHANGED <<shared, events, lost, mixed>>

-----------------------------------------------------------------------------
(* cleanupSession, its steps in two groups.                                *)

\* The end of a cleanup wakes those that await it; a failed one throws at them.
Awaited(failed) ==
  [c \in Flows |->
     IF flow[c].at \notin {"settling", "clearing"} THEN flow[c]
     ELSE IF failed THEN Idle
     ELSE [flow[c] EXCEPT !.at = IF @ = "settling" THEN "settled" ELSE "cleared"]]

\* Each of the stores has been emptied and the purge of the disk cache begins.
CleanupStep ==
  /\ Drained /\ cleanup.step = "resetting" /\ cleanup.current
  /\ cleanup' = [cleanup EXCEPT !.step = "purging"]
  /\ UNCHANGED <<storeVars, data, flow, rotation, shared, events, lost, mixed>>

\* A module cannot be loaded, and what it holds is not reset: the other steps still run.
CleanupStepFails ==
  /\ Drained /\ cleanup.step = "resetting" /\ cleanup.current /\ Event
  /\ cleanup' = [cleanup EXCEPT !.step = "purging", !.failed = TRUE]
  /\ mixed' = TRUE
  /\ UNCHANGED <<storeVars, data, flow, rotation, shared, lost>>

\* The purge, which nothing can cancel, is over, and the stores are empty, but for those that
\* a late answer has filled again since their step; or the store has moved on before the
\* purge began, and it is skipped.
CleanupEnds ==
  /\ Drained
  /\ \/ /\ cleanup.step = "purging" /\ ~cleanup.failed
        /\ \E left \in SUBSET cleanup.late :
             data' = left /\ cleanup' = [NoCleanup EXCEPT !.late = left]
     \/ /\ \/ cleanup.step = "purging" /\ cleanup.failed
           \/ cleanup.step = "resetting" /\ ~cleanup.current
        /\ UNCHANGED data /\ cleanup' = [NoCleanup EXCEPT !.late = cleanup.late]
  /\ flow' = Awaited(cleanup.failed)
  /\ UNCHANGED <<storeVars, rotation, shared, events, lost, mixed>>

-----------------------------------------------------------------------------
(* Requests and the rotation of tokens.                                    *)

ProtectedRequest(c) ==
  /\ Drained /\ authed /\ Spare(c) /\ Event
  /\ flow' = [flow EXCEPT ![c] = [NewFlow("request", "asking") EXCEPT
                                     !.sender = token.account, !.held = token # NoToken]]
  /\ UNCHANGED <<storeVars, data, cleanup, rotation, shared, lost, mixed>>

\* refreshSession, by the timer or after a refused connection.
RefreshSession(c) ==
  /\ Drained /\ authed /\ token # NoToken /\ Spare(c) /\ Event
  /\ RotateFor(c, [flow EXCEPT ![c] = [NewFlow("refresh", "rotating") EXCEPT
                                          !.sender = token.account, !.held = TRUE]], TRUE)
  /\ UNCHANGED <<storeVars, data, cleanup, lost, mixed>>

\* An access token that is no longer held may have expired or not.
Asking(c) == flow[c].kind \in {"request", "check"} /\ flow[c].at \in {"asking", "retrying"}
Accepted(c) == flow[c].sender # NoAccount /\ (flow[c].held => token.fresh)
Denied(c) == flow[c].sender = NoAccount \/ (flow[c].held => ~token.fresh)

\* checkAuth has its profile.
ProfileArrives(c) ==
  /\ Drained /\ Asking(c) /\ flow[c].kind = "check" /\ Accepted(c)
  /\ flow' = IF IsCurrent(c) THEN Prepared(c, flow[c].sender, FALSE) ELSE Done(c)
  /\ UNCHANGED <<storeVars, data, cleanup, rotation, shared, events, lost, mixed>>

\* The stores and caches take what they are answered, whoever is signed in by now.
Stored(a) ==
  /\ data' = data \cup {a}
  /\ cleanup' = [cleanup EXCEPT !.late = @ \cup ({a} \ {user})]

\* Another request is answered; updateProfile and its like store the account they get.
AnswerArrives(c) ==
  /\ Drained /\ Asking(c) /\ flow[c].kind = "request" /\ Accepted(c)
  /\ \/ /\ flow' = Done(c) /\ (UNCHANGED <<data, cleanup>> \/ Stored(flow[c].sender))
        /\ UNCHANGED <<user, token, authed, rotation, mixed>>
     \/ /\ SetSession(flow[c].sender, token, authed, Done(c)) /\ UNCHANGED data
        /\ mixed' = (mixed \/ user # flow[c].sender)
  /\ UNCHANGED <<isLoading, shared, events, lost>>

\* A check that failed for want of an answer or of a valid token refreshes the one it began
\* with, which its own request may have replaced: then the request was being retried.
Recheck(c) ==
  LET held == flow[c].held /\ flow[c].at # "retrying" IN
  /\ RotateFor(c, [flow EXCEPT ![c].kind = "recheck", ![c].reply = "none", ![c].held = held],
               held)
  /\ lost' = (lost \/ ~held)

\* The error of a request, as its caller sees it; hard: with a status that is not 401.
Throws(c, hard) ==
  IF flow[c].kind # "check" \/ ~IsCurrent(c)
  THEN flow' = Done(c) /\ UNCHANGED <<isLoading, rotation, shared, lost>>
  ELSE IF hard
  THEN flow' = Done(c) /\ isLoading' = FALSE /\ UNCHANGED <<rotation, shared, lost>>
  ELSE Recheck(c) /\ UNCHANGED isLoading

\* onAuthFailure; then the caller gets the 401.
AuthFails(c) ==
  IF authed
  THEN LogOut(Done(c)) /\ UNCHANGED shared
  ELSE Throws(c, FALSE) /\ UNCHANGED <<user, token, authed, cleanup>>

\* A 401: the token has changed since, or must be refreshed, or this was the second try.
Unauthorized(c) ==
  /\ Drained /\ Asking(c) /\ Denied(c)
  /\ IF flow[c].at = "retrying"
     THEN Throws(c, FALSE) /\ UNCHANGED <<user, token, authed, cleanup>>
     ELSE IF token = NoToken
     THEN AuthFails(c)
     ELSE IF flow[c].held
     THEN RotateFor(c, flow, TRUE) /\ UNCHANGED <<storeVars, cleanup, lost>>
     ELSE /\ flow' = [flow EXCEPT ![c].at = "retrying", ![c].sender = token.account,
                                 ![c].held = TRUE]
          /\ UNCHANGED <<storeVars, cleanup, rotation, shared, lost>>
  /\ UNCHANGED <<data, events, mixed>>

RequestFails(c) ==
  /\ Drained /\ Asking(c) /\ Event
  /\ \E hard \in BOOLEAN : Throws(c, hard)
  /\ UNCHANGED <<user, token, authed, data, cleanup, mixed>>

\* refreshToken of the server: one transaction replaces the token.
ServerRotates(c) ==
  /\ Drained /\ rotation[c].reply = "open"
  /\ LET live == IF rotation[c].held THEN token.live ELSE rotation[c].live IN
     /\ rotation' = [rotation EXCEPT ![c].reply = IF live THEN "granted" ELSE "refused"]
     /\ token' = [token EXCEPT !.live = @ /\ ~rotation[c].held]
  /\ UNCHANGED <<user, authed, isLoading, data, cleanup, flow, shared, events, lost, mixed>>

\* The promise of the refresh of c settles, for all who await it.
RefreshAnswered(c, reply) ==
  /\ flow' = [d \in Flows |->
                IF flow[d].at = "rotating" /\ flow[d].on = c
                THEN [flow[d] EXCEPT !.at = "rotated", !.on = NoFlow, !.reply = reply,
                                     !.account = rotation[c].account]
                ELSE flow[d]]
  /\ rotation' = [rotation EXCEPT ![c] = NoRotation]
  /\ shared' = IF shared = c THEN NoFlow ELSE shared

RotationArrives(c) ==
  /\ Drained /\ rotation[c].reply \in {"granted", "refused"}
  /\ RefreshAnswered(c, rotation[c].reply)
  /\ UNCHANGED <<storeVars, data, cleanup, events, lost, mixed>>

RotationLost(c) ==
  /\ Drained /\ rotation[c].reply # "none" /\ Event
  /\ RefreshAnswered(c, "lost")
  /\ lost' = (lost \/ rotation[c].reply = "granted")
  /\ UNCHANGED <<storeVars, data, cleanup, mixed>>

\* tryRefreshToken, when it is granted: unless the store has another token by now it gets
\* the new one; the request is sent again with the one in the store.
Resent(c) ==
  LET t == IF flow[c].held THEN NewToken(flow[c].account) ELSE token IN
  /\ token' = t
  /\ rotation' = GivenUp(t, token.live)
  /\ flow' = [Outdated(flow, user, t, authed) EXCEPT
               ![c] = [flow[c] EXCEPT !.at = "retrying", !.reply = "none", !.account = NoAccount,
                                      !.sender = t.account, !.held = t # NoToken]]
  /\ UNCHANGED <<user, authed, cleanup>>

TokenRefreshed(c) ==
  /\ flow[c].at = "rotated" /\ flow[c].kind \in {"request", "check"}
  /\ \/ flow[c].reply = "granted" /\ Resent(c) /\ UNCHANGED <<isLoading, shared, lost>>
     \/ flow[c].reply = "refused" /\ AuthFails(c)
     \/ /\ flow[c].reply = "lost"
        /\ \E hard \in BOOLEAN : Throws(c, hard)
        /\ UNCHANGED <<user, token, authed, cleanup>>
  /\ UNCHANGED <<data, events, mixed>>

\* refreshSession, and the refresh of checkAuth.
SessionRefreshed(c) ==
  /\ flow[c].at = "rotated" /\ flow[c].kind \in {"refresh", "recheck"}
  /\ IF ~IsCurrent(c)
     THEN flow' = Done(c) /\ UNCHANGED <<storeVars, cleanup, rotation>>
     ELSE \/ /\ flow[c].reply = "granted"
             /\ flow' = Prepared(c, flow[c].account, TRUE)
             /\ UNCHANGED <<storeVars, cleanup, rotation>>
          \/ flow[c].reply = "refused" /\ ClearSession(Done(c))
          \/ /\ flow[c].reply = "lost"
             /\ flow' = Done(c)
             /\ isLoading' = (isLoading /\ flow[c].kind = "refresh")
             /\ UNCHANGED <<user, token, authed, cleanup, rotation>>
  /\ UNCHANGED <<data, shared, events, lost, mixed>>

-----------------------------------------------------------------------------
(* What happens to the token elsewhere.                                    *)

AccessExpires ==
  /\ Drained /\ token.fresh /\ token' = [token EXCEPT !.fresh = FALSE]
  /\ UNCHANGED <<user, authed, isLoading, data, cleanup, flow, rotation, shared, events,
                 lost, mixed>>

\* The session is revoked on another device, by a password reset or by its age.
RevokedElsewhere ==
  /\ Drained /\ token.live /\ token' = [token EXCEPT !.live = FALSE]
  /\ lost' = TRUE
  /\ UNCHANGED <<user, authed, isLoading, data, cleanup, flow, rotation, shared, events, mixed>>

SignInNext ==
  \/ LogOutByUser \/ CleanupStep \/ CleanupStepFails \/ CleanupEnds
  \/ AccessExpires \/ RevokedElsewhere
  \/ \E c \in Flows :
       \/ \E a \in Accounts : LogIn(c, a)
       \/ LogInAnswered(c) \/ Reload(c)
       \/ PrepareSession(c) \/ PreparedAfterClear(c) \/ ProtectedRequest(c) \/ RefreshSession(c)
       \/ ProfileArrives(c) \/ AnswerArrives(c) \/ Unauthorized(c) \/ RequestFails(c)
       \/ ServerRotates(c) \/ RotationArrives(c) \/ RotationLost(c)
       \/ TokenRefreshed(c) \/ SessionRefreshed(c)

SignInSpec == SignInInit /\ [][SignInNext]_signInVars

-----------------------------------------------------------------------------
\* A window that is signed in holds the token and the data of one account, its user's, and
\* no cleanup of an older session is still going on to erase them.  The exceptions are the
\* code's: what fetchServers and its like were answered too late, since the last cleanup
\* began and while the account they asked for was not the window's, stays beside it; and once
\* a late answer of updateProfile and its like has put another account's user into the store,
\* or a part of a cleanup could not be loaded, accounts may be mixed.
OneAccount ==
  authed =>
    /\ cleanup.step = "none"
    /\ mixed \/ (token.account = user /\ data \subseteq {user} \cup cleanup.late)

\* A window loses its session only when its user asks, when the server has revoked it, when
\* the answer with its new token was lost, when a check refreshes a token that its own
\* request has replaced, or when a refresh that signing out has revoked is refused after the
\* next account has signed in: requests that find the token expired at the same time, or late, and
\* refreshes by the timer sign nobody out.
StaysSignedIn ==
  [][authed /\ ~authed' => LogOutByUser \/ lost \/ mixed]_signInVars
=============================================================================
