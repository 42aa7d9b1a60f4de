----------------------------- MODULE RichActivity -----------------------------
(***************************************************************************)
(* What one user is playing or listening to, as friends see it             *)
(* (gateway/rich-activity.ts).                                             *)
(*                                                                         *)
(* The desktops of the user report; one of them owns the entry.  Reports   *)
(* and privacy changes are tasks of one queue per user: a task reads the   *)
(* privacy settings over an await and commits only if no later task or     *)
(* clear has taken its token.  Sequence numbers are left out: a socket     *)
(* delivers its reports in order.  "game" outranks "music", then the       *)
(* newer session wins.                                                     *)
(***************************************************************************)
EXTENDS Naturals, FiniteSets

CONSTANTS
  Desktops, Friends,
  Newer,       \* pairs of desktops: the first wins a tie against the second
  MaxReports,  \* activity:update calls (bound)
  MaxPolicies, \* privacy changes (bound)
  Nobody

ASSUME ActivityAssumption ==
  /\ Newer \subseteq Desktops \X Desktops
  /\ MaxReports \in Nat /\ MaxPolicies \in Nat
  /\ Nobody \notin Desktops

VARIABLES
  plugged,   \* desktops whose socket is up
  entry,     \* the committed activity
  audience,  \* the friends it was committed for
  reporter,  \* the desktop that spoke last
  running,   \* the task at the head of the queue
  waiting,   \* the last task of the queue, when it is not the head
  dirty,     \* hidden until the privacy settings are read again
  policy,    \* the privacy settings in the database
  owed,      \* they changed and refresh has not been called yet
  seen,      \* what each friend was sent last
  reports, policies

activityVars == <<plugged, entry, audience, reporter, running, waiting, dirty,
                  policy, owed, seen, reports, policies>>

-----------------------------------------------------------------------------
Activities == {"game", "music"}
NoEntry == [on |-> FALSE, report |-> "game", owner |-> Nobody, leased |-> FALSE,
            checked |-> FALSE]
Entry == [on : BOOLEAN, report : Activities, owner : Desktops \cup {Nobody},
          leased : BOOLEAN, checked : BOOLEAN]
Policy == [reports : SUBSET Activities, to : SUBSET Friends]
Closed == [reports |-> {}, to |-> {}]

\* A task: a report of a desktop, or a refresh.  "current" is its token.
NoTask == [kind |-> "none", desktop |-> Nobody, report |-> "game", current |-> FALSE,
           pc |-> "queued", keep |-> FALSE, old |-> NoEntry, policy |-> Closed]
Task == [kind : {"none", "update", "refresh"}, desktop : Desktops \cup {Nobody},
         report : Activities, current : BOOLEAN, pc : {"queued", "ask", "answered"},
         keep : BOOLEAN, old : Entry, policy : Policy]

ActivityTypeOK ==
  /\ plugged \subseteq Desktops
  /\ entry \in Entry /\ audience \subseteq Friends
  /\ reporter \in Desktops \cup {Nobody}
  /\ running \in Task /\ waiting \in Task
  /\ dirty \in BOOLEAN /\ owed \in BOOLEAN
  /\ policy \in Policy
  /\ seen \in [Friends -> Activities \cup {"nothing"}]
  /\ reports \in 0..MaxReports /\ policies \in 0..MaxPolicies

ActivityInit ==
  /\ plugged = Desktops
  /\ entry = NoEntry /\ audience = {} /\ reporter = Nobody
  /\ running = NoTask /\ waiting = NoTask
  /\ dirty = FALSE /\ owed = FALSE
  /\ policy = [reports |-> Activities, to |-> Friends]
  /\ seen = [f \in Friends |-> "nothing"]
  /\ reports = 0 /\ policies = 0

-----------------------------------------------------------------------------
Pending == running.kind # "none"
Permitted(report, p) == report \in p.reports

\* commit tells those who lose it, those who gain it and, when it changed, the rest.
Sent(new, to) ==
  [f \in Friends |->
     IF new.on /\ f \in to
     THEN IF f \notin audience \/ entry.report # new.report \/ ~entry.on
          THEN new.report ELSE seen[f]
     ELSE IF f \in audience THEN "nothing" ELSE seen[f]]

Commit(new, to) ==
  /\ entry' = new
  /\ audience' = IF new.on THEN to ELSE {}
  /\ dirty' = FALSE
  /\ seen' = Sent(new, to)

KeepEntry == UNCHANGED <<entry, audience, dirty, seen>>

\* Mutant: an older task keeps its token.
LeaveCurrent(task) == task

\* Only the last task that was queued is current.
Superseded(task) == [task EXCEPT !.current = FALSE]

\* run: the head of the queue starts at once, another task waits as the last one.
Enqueue(task) ==
  IF Pending
  THEN /\ running' = Superseded(running)
       /\ waiting' = [task EXCEPT !.current = TRUE]
  ELSE /\ running' = [task EXCEPT !.current = TRUE]
       /\ UNCHANGED waiting

\* The head is done: the last task follows; after it the queue is forgotten, and
\* the reporter with it when there is no entry.
Finish(speaker) ==
  /\ running' = waiting
  /\ waiting' = NoTask
  /\ reporter' = IF waiting.kind = "none" /\ ~entry'.on THEN Nobody ELSE speaker

-----------------------------------------------------------------------------
\* update: a desktop reports.
Update(d, r) ==
  /\ d \in plugged /\ reports < MaxReports
  /\ reports' = reports + 1
  /\ reporter' = d
  /\ Enqueue([NoTask EXCEPT !.kind = "update", !.desktop = d, !.report = r])
  /\ KeepEntry
  /\ UNCHANGED <<plugged, policy, owed, policies>>

\* The report of a task loses against the entry of another desktop.
Loses(task) ==
  \/ task.report = "music" /\ entry.report = "game"
  \/ task.report = entry.report /\ <<task.desktop, entry.owner>> \notin Newer

\* A task at the head starts: it may end at once, or asks for the privacy settings.
Begin ==
  LET t == running
      yields == t.kind = "update" /\ entry.on /\ entry.owner # t.desktop
                /\ entry.leased /\ Loses(t)
      ends == \/ ~t.current
              \/ t.kind = "update" /\ t.desktop \notin plugged
      trusted == ~dirty /\ entry.checked
      renews == t.kind = "update" /\ entry.on /\ entry.owner = t.desktop
                /\ entry.leased /\ trusted /\ entry.report = t.report
  IN
  /\ Pending /\ t.pc = "queued"
  /\ \/ /\ ends
        /\ KeepEntry /\ Finish(reporter)
     \/ /\ ~ends /\ yields /\ trusted
        /\ KeepEntry /\ Finish(entry.owner)
     \/ /\ ~ends /\ renews
        /\ entry' = [entry EXCEPT !.leased = TRUE]
        /\ UNCHANGED <<audience, dirty, seen>>
        /\ Finish(reporter)
     \/ /\ ~ends /\ ~(yields /\ trusted) /\ ~renews
        /\ running' = [t EXCEPT !.pc = "ask", !.keep = yields,
                                !.old = IF t.kind = "update" THEN entry ELSE NoEntry]
        /\ KeepEntry /\ UNCHANGED <<waiting, reporter>>
  /\ UNCHANGED <<plugged, policy, owed, reports, policies>>

\* The privacy settings are read.
ReadPolicy ==
  /\ Pending /\ running.pc = "ask"
  /\ running' = [running EXCEPT !.pc = "answered", !.policy = policy]
  /\ KeepEntry
  /\ UNCHANGED <<plugged, reporter, waiting, policy, owed, reports, policies>>

\* The read fails or takes five seconds.
PolicyFails ==
  /\ Pending /\ running.pc = "ask"
  /\ IF running.current /\ (running.kind = "refresh" \/ dirty)
     THEN Commit(NoEntry, {}) ELSE KeepEntry
  /\ Finish(reporter)
  /\ UNCHANGED <<plugged, policy, owed, reports, policies>>

\* The continuation of a report.
CommitUpdate ==
  LET t == running
      own == [on |-> TRUE, report |-> t.report, owner |-> t.desktop,
               leased |-> TRUE, checked |-> TRUE]
      theirs == t.old.on /\ t.old.owner # t.desktop /\ Permitted(t.old.report, t.policy)
  IN
  /\ t.kind = "update" /\ t.pc = "answered"
  /\ \/ /\ ~t.current \/ t.desktop \notin plugged
        /\ KeepEntry /\ Finish(reporter)
     \/ /\ t.current /\ t.desktop \in plugged
        /\ \/ /\ t.keep /\ theirs
              /\ Commit([t.old EXCEPT !.checked = TRUE], t.policy.to)
              /\ Finish(t.old.owner)
           \/ /\ t.keep /\ ~theirs
              /\ Commit(NoEntry, {})
              /\ Finish(t.old.owner)
           \/ /\ ~t.keep /\ Permitted(t.report, t.policy)
              /\ Commit(own, t.policy.to)
              /\ Finish(reporter)
           \/ /\ ~t.keep /\ ~Permitted(t.report, t.policy) /\ theirs
              /\ Commit(t.old, t.policy.to)
              /\ Finish(t.old.owner)
           \/ /\ ~t.keep /\ ~Permitted(t.report, t.policy) /\ ~theirs
              /\ Commit(NoEntry, {})
              /\ Finish(reporter)
  /\ UNCHANGED <<plugged, policy, owed, reports, policies>>

\* The continuation of a refresh.
CommitRefresh ==
  LET t == running
      stays == entry.on /\ entry.leased /\ Permitted(entry.report, t.policy)
  IN
  /\ t.kind = "refresh" /\ t.pc = "answered"
  /\ \/ ~t.current /\ KeepEntry
     \/ t.current /\ stays /\ Commit([entry EXCEPT !.checked = TRUE], t.policy.to)
     \/ t.current /\ ~stays /\ Commit(NoEntry, {})
  /\ Finish(reporter)
  /\ UNCHANGED <<plugged, policy, owed, reports, policies>>

-----------------------------------------------------------------------------
Refreshing == [NoTask EXCEPT !.kind = "refresh"]

\* refresh hides the entry until it has been checked.
Hidden == dirty \/ entry.on \/ Pending

\* The privacy settings change, and the service that changed them says so.
ChangePolicy ==
  /\ policies < MaxPolicies
  /\ policies' = policies + 1
  /\ policy' \in Policy \ {policy}
  /\ owed' = TRUE
  /\ KeepEntry
  /\ UNCHANGED <<plugged, reporter, running, waiting, reports>>

Refresh ==
  /\ owed
  /\ owed' = FALSE
  /\ dirty' = Hidden
  /\ IF entry.on \/ Pending THEN Enqueue(Refreshing) ELSE UNCHANGED <<running, waiting>>
  /\ UNCHANGED <<plugged, entry, audience, reporter, policy, seen, reports, policies>>

\* No task is current any more.
CancelTasks ==
  /\ running' = Superseded(running)
  /\ waiting' = Superseded(waiting)

\* clear: by the desktop itself, or because its socket has gone.
Clear(d) ==
  LET speaks == IF reporter # Nobody THEN reporter ELSE entry.owner
      owns == entry.on /\ entry.owner = d
  IN
  \/ /\ owns /\ reporter # d
     /\ Commit(NoEntry, {})
     /\ UNCHANGED <<reporter, running, waiting>>
  \/ /\ ~(owns /\ reporter # d) /\ speaks # d
     /\ KeepEntry /\ UNCHANGED <<reporter, running, waiting>>
  \/ /\ ~(owns /\ reporter # d) /\ speaks = d /\ entry.on /\ ~owns
     /\ reporter' = entry.owner
     /\ KeepEntry
     /\ IF dirty THEN Enqueue(Refreshing) ELSE CancelTasks
  \/ /\ ~(owns /\ reporter # d) /\ speaks = d /\ (~entry.on \/ owns)
     /\ Commit(NoEntry, {})
     /\ CancelTasks
     /\ reporter' = Nobody

ClearReport(d) ==
  /\ d \in plugged
  /\ Clear(d)
  /\ UNCHANGED <<plugged, policy, owed, reports, policies>>

Unplug(d) ==
  /\ d \in plugged
  /\ plugged' = plugged \ {d}
  /\ Clear(d)
  /\ UNCHANGED <<policy, owed, reports, policies>>

-----------------------------------------------------------------------------
\* Ninety seconds without a renewal (a task may hold the same entry), or thirty
\* since the last check.
LeaseEnds ==
  /\ entry.on /\ entry.leased
  /\ entry' = [entry EXCEPT !.leased = FALSE]
  /\ running' = IF running.old = entry THEN [running EXCEPT !.old = entry'] ELSE running
  /\ UNCHANGED <<plugged, audience, reporter, waiting, dirty, policy, owed, seen,
                 reports, policies>>

CheckAges ==
  /\ entry.on /\ entry.checked
  /\ entry' = [entry EXCEPT !.checked = FALSE]
  /\ UNCHANGED <<plugged, audience, reporter, running, waiting, dirty, policy, owed,
                 seen, reports, policies>>

\* Mutant: only connected owners are looked at.
OverIfPlugged == entry.on /\ ~entry.leased /\ entry.owner \in plugged

LeaseOver == entry.on /\ ~entry.leased

\* The sweep every fifteen seconds.
Expire ==
  /\ LeaseOver
  /\ Commit(NoEntry, {})
  /\ CancelTasks
  /\ reporter' = Nobody
  /\ UNCHANGED <<plugged, policy, owed, reports, policies>>

Work == Begin \/ ReadPolicy \/ PolicyFails \/ CommitUpdate \/ CommitRefresh

ActivityNext ==
  \/ Work \/ Refresh \/ Expire \/ LeaseEnds \/ CheckAges \/ ChangePolicy
  \/ \E d \in Desktops : \/ ClearReport(d) \/ Unplug(d)
                         \/ \E r \in Activities : Update(d, r)

ActivitySpec == ActivityInit /\ [][ActivityNext]_activityVars

\* Answers arrive or time out, events are delivered, and time passes.
ActivityFairness ==
  WF_activityVars(Work \/ Refresh \/ Expire \/ LeaseEnds)

-----------------------------------------------------------------------------
\* Once a privacy change has been announced and looked at, no friend is left with
\* an activity it forbids, whatever reports, clears and expiries were in flight
\* when it came (refresh and the tokens of run, rich-activity.ts:54-74, 209-225).
PrivacyHolds ==
  ~owed /\ ~dirty => \A f \in Friends :
    seen[f] # "nothing" => f \in policy.to /\ Permitted(seen[f], policy)

\* An entry whose privacy is in doubt is settled, and the activity of a desktop
\* that has gone is withdrawn, also when a task that began before the disconnect
\* has written it back (rich-activity.ts:154-171).
ActivitySettles ==
  []<>(~dirty /\ (entry.on => entry.owner \in plugged))
=============================================================================
