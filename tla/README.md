# Formal models of jablu-chat

TLA+ models of the parts of jablu-chat whose correctness depends on the order of
events, the TLC runs that check them on small instances, and proofs that TLAPS
checks for every value of the constants.

## 1. The system

jablu-chat is a self-hosted chat: a NestJS server (`apps/server`) over
PostgreSQL, Redis and a Socket.IO gateway, a React client (`apps/web`) that works
offline, a desktop shell, a bot and a log watcher.

| Component | State it keeps | Operations | What is hard | What makes it correct |
|---|---|---|---|---|
| Outbox (`web/src/lib/messageOutbox.ts`, `stores/outbox.store.ts`) | IndexedDB store of queued messages with status, lease and backoff; one delivery loop per window | enqueue, restore, resend, retry, discard; claim, upload, emit, clear, settle | several windows on one database, sign-out during an attempt, lost answers, leases of closed windows | a message leaves only when the server has it; one holder at a time; order kept; nothing stuck |
| Send handlers (`gateway.gateway.ts`, `messages.service.ts`, `dm.service.ts`, `message-replay.ts`) | messages, attachments | authorize, replay lookup, transaction, fan-out, acknowledgement | two handlers of one id, errors after the commit, crash | stored once, under its author, with its files; announced at most once |
| Fan-out (`message-notifications.ts`) | notification rows, push | emit, record rows | rows are not awaited | a stored message is recorded for its recipients |
| Uploads (`uploads/`) | files on disk, attachment rows, two work limiters | admit, receive, process, record; link, remove | deadlines and aborts at the moment a place is handed over, failures with files written | limits exact, nobody waits at a free place; no file without an address |
| Storage cleanup (`cleanup/`) | audits, cleanup items, an advisory lock | audit, start, claim, delete, resume, delete audit | a crash between deleting the row and the file; content changed after the review | a deleted row's files go eventually; no file in use is removed |
| Presence (`gateway.gateway.ts`, `presence-registry.ts`) | connection counts, sessions, grace timers, the status last announced | connect, disconnect, heartbeat, idle sweep | a disconnect during the awaits of its own connect; announcements that overtake each other | counts exact, nobody connected is offline, others are told what is true |
| Rich activity (`gateway/rich-activity.ts`) | the announced activity, its audience, a task queue per person | report, clear, privacy change, expiry | a task that decides with settings it read before a change | no friend sees what the settings forbid |
| Calls (`voice/`, `dm-calls.gateway.ts`) | call per conversation, participants | ring, join, decline, leave, time out | an answer racing the timeout | at most one call per conversation; no call without participants |
| Link previews (`preview-work-queue.ts`, `link-preview.service.ts`) | queue with shares per author, table of shared fetches, cache | ask, cancel, dispatch, answer | cancel, deadline and answer in any order while others ask for the same link | counters exact, one fetch per link, everyone answered |
| Read state, in-app notifications (`read-state/`, `in-app-notifications/`) | last read time, mention counter, coalesced row | deliver, open, acknowledge a snapshot, mark unread | statements of a delivery between those of an acknowledgement | what is created after a snapshot or an opening stays unread |
| Inbox (`inbox/`, `stores/inbox.store.ts`) | a catch-up session with a revision, a copy per device | start, anchor, advance, retry, resume | lost answers, two devices, late reads | one decision per click, a view never goes back |
| Message subscriptions (`message-subscriptions.ts`) | the rooms of a socket | watch, join, reconcile permissions | calls that overtake each other, a permission revoked during a join | full messages only where allowed |
| Sign-in session (`stores/auth.store.ts`, `sessionCleanup.ts`, `lib/api/client.ts`, `auth/`) | the account, its tokens, the pending cleanup, the shared refresh | sign in and out, check, request, refresh | a refresh token works once; cleanup of one account while the next signs in; late answers | one account at a time; nobody signed out by a race |
| Push (`push/`) | subscriptions | decide, send, drop | follows presence | nobody engaged is pushed; nobody away is missed |
| Roles, servers, invites, friends, forum, polls, bots, webhooks, XP, search, translation, admin | database rows | mostly one statement each | few | permission and counting rules |
| Web stores and caches | copies of server state | apply events, resync | reconnects | the view converges |

The client talks to the server over Socket.IO (events with acknowledgements) and
HTTP (uploads, REST). Handlers run in one Node process and interleave at every
`await`; the database serialises transactions. `PROJECT.json` lists every
component, also those that are not modelled, and every hazard with its line.

## 2. Modules

| Module | Models |
|---|---|
| `MessageData` | constants the two halves of delivery share |
| `Outbox` | the device: outbox store and delivery loops |
| `MessageSend` | the server: send handlers, replay lookup, fan-out, attachment rows |
| `MessageDelivery` | both composed over the socket, with faults, fairness and the properties |
| `ExactlyOnce` | abstract specification: hold, post, announce, confirm, withdraw |
| `MCMessageDelivery` | instance for TLC |
| `MessageDeliveryProofs` | type correctness, the inductive invariants, the safety theorems, and that delivery implements `ExactlyOnce` |
| `StorageCleanup` | storage cleanup: audits, the claim and removal of items, crashes and recovery |
| `MCStorageCleanup` | instance for TLC |
| `StorageCleanupProofs` | inductive invariants and theorems about `StorageCleanup` |
| `DmCalls` | direct and group calls: requests, devices, the ringing deadline, membership |
| `MCDmCalls` | instance for TLC |
| `DmCallsProofs` | inductive invariant and theorems about `DmCalls` |
| `Presence` | connections, disconnections, grace timers, idle sweep, announcements |
| `RichActivity` | what a person plays or listens to, as friends see it |
| `PreviewQueue` | the bounded queue of link previews and the sharing of fetches |
| `UploadWork` | the two limiters of uploads and the life of the files they make |
| `WorkProofs` | inductive invariants and theorems about `UploadWork` and `PreviewQueue` |
| `ReadState` | read state, badge and notification row of one conversation |
| `CatchUp` | the catch-up session of the Inbox, on the server and on devices |
| `ReadingProofs` | inductive invariants and theorems about `ReadState` and `CatchUp` |
| `MessageWatch` | the rooms of one socket under watch calls and permission changes |
| `GatewayProofs` | inductive invariants and theorems about `Presence`, `RichActivity` and `MessageWatch` |
| `SignIn` | the account and the tokens of one window |
| `SignInProofs` | inductive invariants and theorems about `SignIn` |
| `MCServices` | the eight services above in one instance for TLC |
| `ServicesProofs` | each service's theorems hold of that instance |

### How the model corresponds to the code

**Outbox.** A `session` is one call of `startMessageOutbox`: its `user`, whether it
is `live` (not stopped, still the signed-in account), whether the socket is
`online`, whether a run is scheduled (`armed`), and the program counter of `run()`.
Each `mutateOutbox` is one IndexedDB transaction and one action: `Claim`,
`SaveUpload`, `Clear`, `Settle`, `Renew`. What the loop holds in local variables
across an `await` (`item.id`, `claimed`) is in the session (`id`, `body`, `atts`),
so it can be stale. `leaseUntil` and `nextAttemptAt` become the booleans `leased`
and `waiting` with actions that end them (`LeaseExpires`, `BackoffEnds`). The
UUID `leaseOwner` is the session; when a window goes, the items it held belong to
`NoSession`, as no later UUID equals the old one. The destination of a message
is part of the message; upload progress, error texts and the attempt count are
left out. `StorageFails` is a transaction that fails in the middle of an attempt. A failing
`refresh()` (`messageOutbox.ts:43-50`) is not among the steps: the loop goes on with the list it read
before, where an entry that is stale is refused by the claim, which reads the item again; with an
empty list it does not arm itself until something else changes the outbox.

**MessageSend.** A `handler` slot is one request being worked on. Its program
counter stops at every group of awaits whose order matters: the authorization, the
replay lookup, the transaction, the lookup in the catch block, the fan-out, the
answer. A transaction is one step: the unique key on `messages.id` and the check
of the attachments inside it are its guard. The exception filter's
classification gives the answers `ok`, `reject` (not retryable) and `retry`.
`pending` holds the notification writes that were started and not awaited; a crash
loses them. `ReapOrphan` is the orphan branch of storage cleanup.

**MessageDelivery.** `Send` is an emit and the start of a handler; `Ack` is the
answer reaching the loop that waits for it; `DropAck` an answer nobody waits for.
The steps of `Disturbance` (time-outs before an answer, storage errors, closed
windows, lost connections, server errors and crashes, failed row writes, expired
leases of live windows, removed orphans) are counted by `faults`.

**StorageCleanup.** An audit is a plan of items over rows (deleted messages,
unlinked uploads) and over files nobody refers to. `runAudit` is `StartAudit`, the
`Plan...` steps and `CompleteAudit`; a run of `executeCleanup` is a `worker`, whose
program counter stops at each commit: the page, the item, the two halves of
`claim`, the last ownership query, the comparison of the file's identity, the unlink and
the update of the item. `fs.rm` works on a path, some awaits after the comparison, so a file put in
place of the reviewed one in between is removed; `raced` remembers that. The
PostgreSQL session lock is `lock`; it can be lost with its connection, which the
worker learns only at its next `check()` (`Notice`). `ChangeRow`,
`ChangeCitation` and `ReplaceFile` are what the rest of the server and the disk do
between a review and its execution. Byte counts are numbers of files, and whether
a plan has reached its target is a choice. Plans over log rows and audit history
are left out.

**DmCalls.** A session of the `sessions` map is `call[c]`; its sockets carry their
user through `UserOf`. A `request` slot is one handler; it stops where the code
awaits the database (`CheckMembership`, `ReadMembers`) and goes on in one step
(`Start`, `Accept`, `Decline`, `Leave`, or a refusal), followed in the same step by
the gateway's look at the connection (`IfConnected`): between them there are only
microtasks. `leaveSocket` is `SocketRemoved`, `removeSocket` is `WithoutSocket`,
`end` is `Ended`. A change of members commits (`LeaveGroup`, `AddMember`) and is
announced later (`MembersChanged`), in any order. The thirty seconds are an action
that may happen at any time while the call lives, once. Broadcasts, media flags,
voice tokens and the rooms of the media server are left out.

**Presence.** `stage[s]` is how far `handleConnection` of a socket is: an await ends
each stage (`Authenticate`, `Register`, `Count`, `Greet`). `leaving[s]` is the same for
`handleDisconnect`, which runs whenever the socket closes, before the end of its own
connection too. `Less` is `removeOnlineUser`, which does not go below zero; `GraceAfter`
starts a grace timer and `MarkOffline` is its callback, a replaced timer's included; it fires
at any time, in the middle of a connection or of a disconnection too.
`Announce` decides a status and notes it in `lastBroadcastedStatus` before the database write, `Emit`
tells it after the write; two of one person can be on their way at once. A write that
fails (`AnnouncementFails`), like a read of the friends in a connection (`ConnectionFails`), leaves the
status noted and nobody told, and later heartbeats do not try again. A connection that fails
before it is counted is counted down all the same. Nothing in `main.ts` catches an unhandled
rejection, and Node ends the process for one; the model lets the server live on, which is the
harder case, since a new process begins with no state at all. Time is two booleans: input within the idle threshold
(`active`) and within the shorter one push looks at (`fresh`).

**RichActivity.** A task of the queue (`running`, and the last one that waits) reads the
settings over an await (`ReadPolicy`) and commits what they permit (`CommitUpdate`,
`CommitRefresh`) only while it is `current`: a later task or a clear takes its token.
A change of the settings commits (`ChangePolicy`) before `Refresh` hears of it. Games
and tracks are two values of which one outranks the other.

**PreviewQueue.** A fetch is queued under its author, started by `Dispatch` (which runs
inside every step that frees something, as in the code) and shared by its `consumers`.
A cancelled fetch keeps its slot until it ends. **UploadWork.** The two instances of
`UploadWorkLimiter` are `busy` and `line` of "uploads" and "processing"; `Release`
hands the place to the first in line in the same step. Attachments go through both, images
through the second only. `Received` to `Record` are the awaits of the upload. A crash between the writing of a
file and its row leaves the file behind as well (storage cleanup's search for unreferenced files
finds it) and is not modelled here.

**ReadState.** A statement of the database is a step. `created`, `stamp` and `snapshot`
are clock readings that may be stored long after they were taken. `Unmark`, `Date` and
`SaveRead` are the three statements of `ackDm`; `Acknowledge` is the transaction of
the Inbox, which covers what its snapshot could show (`Covered`) and counts again what is
left (`LeftUnread`). A message that commits after a snapshot but was created before it counts as read once
that snapshot is acknowledged, although nobody was shown it; `UnreadIsKept` is about messages created
later, and `excused` names the others. **CatchUp.** `server` is the stored session with its revision, `view` a
device's copy, `pending` the changes it runs one after the other, `kept` the failed one
its Retry repeats. `MutateSession` takes a change only for its revision and position.
**MessageWatch.** `order[i]` is a call of `watchMessages` and stops at each await;
`reconciling` is a `reconcileChannelRooms` with what it read; `Fenced` is how leaving the
channel that was asked for last makes that call stale. `ChangeAccess` is a change whose event
reconciles the rooms; `RoleChanges` is one whose event does not: `updateRole` emits `role:updated`,
which is only passed on (`gateway-event-listeners.ts:541-543`), and a listener that fails at one
member leaves out those after it (`:531-533`).

**SignIn.** A `flow` is a call of the store or of the API client that awaits something:
a login, `checkAuth`, `refreshSession`, or any request. `sameRevision` and `latest` say
whether `sessionRevision` and `authAttempt` are still those it captured; every change of
the store goes through `Outdated`, which is its subscription. The access token and the
refresh token issued with it are one token (`fresh`, `live`); a flow knows whether the one it
used is still the store's (`held`). `rotation[c]` is a request to `/auth/refresh`, `shared`
the one in `refreshPromise`. `Prepared`, `PrepareSession` and `PreparedAfterClear` are the
awaits of `prepareSession`; `CleanupStep` to `CleanupEnds` are `cleanupSession`, its steps in
two groups: those that empty the stores, which stop when the store has moved on, and the
purge of the disk, which nothing stops. `data` is the set of accounts whose data is in the
window. An answer puts the data of whoever asked into the stores, no matter who is signed in by
then (`server.store.ts:39-48`, `structureCache.ts:43-46`, `bookmark.store.ts:16-23`): `Stored`.

Some services admit exceptions that are the code's own. They are recorded in history variables so that
the properties say exactly what holds: `clamped` and `Early` (a disconnect counted
before its connection leaves the count one too high for good), `overlapped` (two
announcements of one person, told in the wrong order), `backdated` (a notification row
that got an earlier time and is covered by an acknowledgement), `again` (a
message whose mention is counted after an `ackDm` had reset the counter), `spoiled`
(a failed icon upload removes the file of another one under the same key), `crossed` (two permission
changes, or one and a `channel:join`, under way at once: the socket may keep or lack
a room of hints), `lost` (a session ends because an answer with a new token never came; because
`checkAuth` refreshes the token it began with, `auth.store.ts:318`, after its own request
replaced it; or because a request of the last account, refreshing a token that
signing out revoked, reports its failure when the next one is signed in, `App.tsx:65`) and `mixed` (a late answer
of `updateProfile` and its like puts the old account's user into the store; only
`updateLocale` looks who is signed in). Five more name what reaches the person, the file or the account they
are about and what nothing in the code sets right by itself: `untold` (the last announcement of
a person failed: others keep what they were told before), `silent` (channels whose permission changed
since rooms were last reconciled: an edited role leaves a socket in the full room of a channel its
member may no longer see), `raced` (a file replaced after its identity was compared;
`docs/STORAGE_CLEANUP.md` says that cleanup "checks file identity and refuses replacements", which holds up to
the comparison), `cleanup.late` (accounts whose answers were stored while
the account's data was being removed or afterwards: the next cleanup removes them), and `stuck` (files
whose removal failed: `uploads.service.ts:54`, `216-219` and `291-295` swallow the error).

## 3. Runs

| Run | Checks | Bounds | Shows |
|---|---|---|---|
| `Delivery` | type invariant, safety, refinement of `ExactlyOnce` | 2 accounts, 1 id, bodies with and without a file, 2 windows, 2 slots, 1 enqueue, 2 faults | one item handled by two windows and two handlers at once, through two disturbances |
| `DeliveryOrder` | `PostedInOrder` | 1 account, 2 ids, 2 windows, 1 slot, 1 fault | order is kept over retries and windows |
| `DeliverySettles` | `EveryItemSettles` under fairness | 1 account, 1 id with a file, 2 windows, 1 fault | nothing stays queued for ever |
| `DeliveryLost` | `NothingSilentlyLost` (violated) | 1 of each, 1 fault | a stored message without notification rows |
| `DeliveryEdited` | `SentAsWritten` (violated) | 1 of each, 2 enqueues, 1 fault | an edited message dropped in favour of its old text |
| `Cleanup` | type invariant, safety | two overlapping plans, one worker, one row with two files; one failure or crash, one lost lock, one change by a user | no file of a deleted row is forgotten or counted twice; live rows keep their files |
| `CleanupRecovers` | `RecoveryCompletes` under fairness | one plan over a row with two files and an unreferenced file, one worker, two failures, one lost lock, one change, expiry | what was claimed is finished |
| `CleanupTwoWorkers` | `DurableRetry` (violated) | one plan, two workers, one failure or crash, one lost lock | files of a deleted row in no retry record |
| `CleanupPaging` | `PurgeIsComplete` (violated) | pages of one item | an executed purge with an item never looked at |
| `Calls` | type invariant, safety, `EndedStaysEnded` | 2 users, 3 devices, 2 conversations of both or of one of them, 2 calls, 2 requests, 1 membership change | no order of requests, disconnects, deadline and changes breaks the calls |
| `CallsLeaving` | `NoCallAfterLeaving` (violated) | 3 users, 1 conversation, 1 call, 1 change | a call starts with a user who has left |
| `Services` | type invariants, twelve safety properties, four liveness properties | see below | the services beside the message path, each in all its interleavings |

The bounds are enough for what the properties are about: two windows and two slots
are what it takes for two attempts to overlap on the device and on the server, one
id is contended by all of them, and two faults let a lost answer be followed by
a second disturbance of the retry. Order needs two messages and two windows, so
there the slots are reduced. `MaxEnqueues` lets a failed message be edited and
sent again in `DeliveryEdited`. Cleanup needs a row with two files, so that one
can be gone and the other not, and two plans that both name it. Its `PageSize`
stands for the 100 of the code: what matters is that a page can end before the
plan does. For the calls, one user has two devices, and two requests, two calls and
two conversations are what any two handlers can contend for; the theorems of
section 4 hold for any number.

`Services` checks the eight service modules in one run. They share no variable, so
interleaving them would only multiply states: `focus` picks, in the initial state, the one
that runs, and a property of that one is checked in all behaviours with its focus. The bounds:

| Module | Instance | Why it is enough |
|---|---|---|
| `Presence` | 1 person, 2 devices, 1 announcement of a status under way of each kind; in two halves, see below | each device connects and disconnects at every point of the other |
| `RichActivity` | 2 desktops, 1 friend, 2 reports, 1 change of settings | a report before and one after the change, from either desktop |
| `PreviewQueue` | 4 requests, 3 links, 2 authors; 2 slots, 1 per author, 2 in the queue | one author has a fetch running, one queued, one refused, and one link is shared |
| `UploadWork` | 2 attachments, 2 uploads of one icon, one place and one waiting place each | every limit is reached with somebody waiting and somebody refused |
| `ReadState` | 2 messages, 1 device, 2 clock readings of acknowledgements | a delivery before, during and after a snapshot or an `ackDm` |
| `CatchUp` | 1 device in full and one other, lists of 2 conversations or none, 2 sessions, 2 clicks, 1 lost message | a retry meets a decision of the other device and a newer session |
| `MessageWatch` | 2 channels; 2 calls and a permission change, or 1 call, a change that is reconciled and one that is not (`ThreeCross`) | two calls overtake each other while a permission is revoked; a role is edited before, during and after a reconciliation |
| `SignIn` | 2 accounts, 2 flows, 2 requests, timer refreshes, reloads or failures | two requests with one expired token; two accounts with late answers |

Their safety properties: `CountIsExact`, `ConnectedIsOnline`, `ToldTheTruth`,
`PrivacyHolds`, `FetchesAreExact`, `LimitersExact`, `FilesAreKnown`, `UnreadIsKept`,
`OneDecisionPerClick`, `RoomsSettle`, `OneAccount`, and the action properties
`ViewMovesForward` and `StaysSignedIn`. Liveness: `GoneIsPushable`, `ActivitySettles`,
`PreviewsSettle`, `LinesDrain`.

`Presence` takes two values of `focus`. What is counted and announced never depends on the registry of
sessions, nor the registry on counts and announcements, so each half runs against all handlers while the
other rests: under `CountsOnly` nothing is on screen and no input grows old in the registry,
under `RegistryOnly` nothing is told and nobody is without input. `CountsOnly` also leaves out
announcements that overtake each other while one of them fails. Without these halves the
module has 1,399,217 states, and with two calls and two changes of either kind `MessageWatch` has
6,470,052; both satisfy their properties, in more time than one run should take. The
theorems hold without any such restriction.

**Deadlock** is checked in the delivery runs. Cleanup, calls and the services may come to rest
(every plan executed, every socket gone, every request answered), so their
configurations do not check it.

**Fairness.** `FairSpec` assumes weak fairness of each window's loop
(`LoopStep`: `schedule` re-arms it while anything is pending and the event loop
runs every callback), of its use of the socket (`SocketStep`), of the return of
the user and the connection (`Returns`: Socket.IO reconnects by itself, the user
opens the app again), of handlers (`ServerStep`, `DropAck`), of the passing of
time and of row writes. Nothing is assumed of the user's decisions, of refusals,
or of the disturbances, and these are finitely many in a behaviour; the property
is about what happens after the last one. In `StorageCleanup`, `FairSpec` assumes
weak fairness of a started worker (a loop in one process goes on until it ends)
and strong fairness of the operator's resuming a plan that can be resumed, which
is what the documentation asks of an operator; failures and lost locks are finitely
many. In the services: `PresenceFairness` is the passing of time for a device nobody
touches (the threshold is compared with a clock); `ActivityFairness` that a task with an
answer goes on, that the announced change of settings is looked at, and that timers and the
interval of `expire` fire; `PreviewFairness` that a queued fetch meets its deadline and a
running one ends (each has a timer); `UploadFairness` that reading a body and making
a file end and continuations run. Aborts, cancels, clicks and connections are never
assumed to happen. `ReadState`, `CatchUp`, `MessageWatch` and `SignIn` state safety only.

**Findings.** Five statements of the documentation do not hold of the code; each has
its run. (1) `docs/NOTIFICATIONS.md`: "Nothing is ever silently lost": rows are
written after the emit without being awaited, and a retry after a late error is
answered as a replay and skips them. (2) `docs/CONVERSATIONS.md`: "Queued messages
are sent automatically": an edited retry under an id the server has already
stored is acknowledged with the old text and removed as sent. (3)
`docs/STORAGE_CLEANUP.md`: "only one cleanup worker per database" and "a durable
retry record": after an unnoticed loss of the lock connection a second worker
writes `skipped` over an item the first has claimed. (4) The same document:
reviewed messages are purged "regardless of the byte budget", yet the item after
each page boundary is passed over, because `skip: 1` is applied to a query the
cursor row no longer matches. That reading of Prisma's cursor is the one external
assumption of `CleanupPaging`. (5) `docs/CONVERSATIONS.md`: leaving "removes
access to ... calls": a start or an accept that has read the membership before the
leave puts the departed user into the call after it.

## 4. Proofs

All theorems hold for every value of the constants that satisfies the assumption named
in their module: bounds are natural numbers (the limits of the queues and the page of
cleanup positive ones), functions have the types their names say, and sentinels are not
members of the sets they stand beside. Beyond that, `CallsAssumption` has finitely many
sockets, `CatchUpAssumption` takes a list of conversations to be without repetition
(`collect` groups by conversation), and `PreviewAssumption` has at least one link and one
author. `FreedBytesConservative` is a sum over all audits, and its statement asks that they are
finitely many, as the rows of a table are.

Every safety property and every action property that a passing run checks is stated by a theorem
below.

* `TypeCorrect`: `Spec => []TypeOK`. `TypeInv` adds `SessionShape` (a running
  attempt has an account and an item), without which the payload of an emit is
  not typed. One lemma per action of `Outbox` and `MessageSend`; `StepKinds` and
  `NextKinds` reduce `Next` to them.
* `AnnouncedOnce`, `PostedByAuthor`, `LeavesWhenSafe`, `LeaseHolds` from
  `SafetyInv`, whose parts are
  `AnnounceInv` (a message is announced once its handler has passed `deliver`, and
  only one handler of an id can be there: the one whose transaction stored it);
  `AuthorInv` (items, sessions and handlers of an id all carry the account that
  wrote it);
  `HeldInv` (what is in progress for an id belongs to an item held, posted or
  discarded); and
  `CallInv` (a loop about to clear an item has an answer to its own emit, so the
  server has stored it; a handler answering `ok` has its message stored).
* `ImplementsContract`: every step maps to a step of `ExactlyOnce` or a stutter,
  by `ItemSteps` and `SlotMoves`, which say what one step can do to one item and
  one slot.
* `PostedWhole`: `Spec => []PostedComplete`. `FilesFit` and `RequestsFull`: an item or an
  attempt never carries more files than its body has, and a request carries all of
  them. The files `Insert` links were free before, while those of a stored message
  are linked (`LinkedStays`), so no later message takes them away.
* `InOrder`: `Spec => PostedInOrder`. `OrderInv`: whatever a loop or a handler works on was
  next in line when it was picked (`HeadIsNext`), and no step puts anything before it
  (`StaysNext`), since what is written later has a later stamp. The exceptions of the
  property are the code's own, and `StampInv` remembers them: an item that failed for good lets
  others pass, and one that is edited had failed.

`StorageCleanup` has one invariant per question. `TypeInv` adds the shape of a run at each
program point. `LockInv`: while no lock connection was lost, a run holds the lock; so
there is one run at a time (`LockExcludes`). `LiveInv`: between the last look at the
references and the unlink, rows only go, so no live row loses a file
(`LiveFilesStay`), with any number of runs. The next three do need one run at a time,
and say so: `CleanupTwoWorkers` shows the first false without it. `RetryInv`: a run that
removes files works on a claimed item, on no files but the item's, and
what it has taken off its list is no longer owed (`OwedFilesAreOnRecord`,
`ReviewedFilesGo`). A file about to be unlinked has the reviewed identity, or was replaced since
it was compared, in which case `raced` names it. `RecoveryInv`: every claimed item of a plan is still ahead of the run that
works on the plan, and a dismissed plan has none; so a plan that is not running is resumable
while it has claimed items (`ClaimedWorkIsResumable`). It is about plans that fit a page, as
`Recoverable` is: beyond a page the code passes over items (`CleanupPaging`). `LockKeepsRecord` and
`LockKeepsResumable` put the pieces together: where no lock connection is lost, nothing
has to be assumed of the runs.

`FreedBytesConservative` needs no lock: it holds for any number of overlapping runs. The sum of the
counters is not inductive, because a run counts an unlink before it writes the item. `FreedInv` says
that every file that is gone can be put to the credit of one item, so that neither the counter of
an item nor the total of a run at work on it is above its credit (`CreditGood`). An unlink that
counts removes a file that was there, which is added to the credit of the run's item and of no
other (`FreedOfRun`, `FreedOfItem`). That disjoint credits bound the sum (`SumCredited`) is an
induction over a finite set; it is done with a least counterexample in `Nat` (`LeastOf`), a set
instead of the operator parameter that the library's induction theorems take. TLC checked
`FreedInv` as well: 2,271,723 states with one audit, two workers, one fault, one change and one lost
lock.

The calls satisfy `CallsAssumption` (the sockets are finitely many and each has a
user). `CallsInv` is stated of a table of sessions and a set of sockets (`Good`),
because in the middle of a start or an accept the table holds a socket that may
be down already: the handler's table is `Good` with that socket added, and
`IfConnectedGood` says that the gateway's check makes it `Good` for the sockets
that are up. It adds two facts to the properties: ringing is over after the deadline
(without it an ended answer could leave one participant behind), and a request
carries the conversation and the call it is about. `Narrowing` covers all steps
that only end calls or take sockets away. `OneCall`, `OneDevice`, `NoGhosts`,
`NobodyAlone` and `EndedIsFinal` follow.

`PresenceInv` says at which point of its handlers every socket is. `LeavingKnown`: a disconnect that
counts down, or has, belongs to a socket that had its user. `GraceTimed`: an entry of `disconnectGrace` has
a timer that still runs. `NoneInGrace`: nobody with a count is in grace, so a timer, a replaced one
too, marks offline only who has no count, in the middle of a handler as well. `Announced`: who has
a count was announced, or a connection that will do it has not greeted yet (`Heralds`), or that failed.
`InStep`: an announcement that is alone on its way, and the last one told, carry the
status the server believes, unless one overlapped or failed. `ConnectedIsOnline` supposes that no
disconnect was counted before its connection (`Early`): such a one takes the count of another
device away, and a timer then marks a connected person offline. `CountsOne` and `CountsOneDown` say what one socket changes in
the cardinalities; `PresenceCountsExactly`, `PresenceConnectedIsOnline` and
`PresenceToldTheTruth` follow.

`ActivityInv` follows the token of a task: settings that a current task has read are the present
ones unless a change is not announced yet (`AnswerHolds`), because the announcement takes every token away;
friends were sent what is committed (`SeenExact`); what is committed is permitted or
in doubt (`EntryPermitted`). `ActivityIsPrivate` follows.

`WatchInv` follows the calls of one socket. They wait for each other, so only the first in line
works on rooms (`CallsInTurn`); calls under way have numbers of their own, and the latest
number is that of the channel asked for last (`CallsNumbered`). `FullAccounted` gives every room of
full messages to the channel watched, or to a call or reconciliation about to leave it;
`HiddenLeft` says of a channel whose permission is gone that a reconciliation has still to leave it, or
that nobody who is up to date will join it. While no changes cross, a reconciliation has put
right what it is done with (`RoomsRight`, `WorkInOrder`), and nothing touches a watch that was granted
(`GrantHolds`). A change that nothing reconciles makes its channels `silent`, and rooms and permissions
are compared in the others (`RoomsMatch`, `RoleChangeKeeps`). `SubscriptionsSettle` follows.

`ReadInv`: no reading of the clock is ahead of it (`NoTimeAhead`); a notification is dated after its
message, and its row no earlier unless backdated (`DatedInOrder`); what no acknowledgement could
cover is later than the read time, on the badge once counted and in the row once told (`StillUnread`); and the
badge is compared with the messages it has counted, not with all that are posted
(`BadgeExplained`). `UnreadStays` follows. `CatchUpInv`: a device's copy is the stored session or one it has
left behind (`CopiesBehind`), a change that moves on was clicked in a reader the device has shown
(`ChangesClicked`), a request under way is one of the first pending change, made for the conversation
on show (`CallInPlace`), and a recorded move lies behind the stored position, at its
conversation (`ActsRecorded`), which a list without repetition has once. `DecidesOnce` and
`ViewsMoveForward` follow.

`LimitersInv` makes `LimitersExact` inductive by `ImagesPlaced` (images never stand where only
attachments do). The lemmas `LineAppended`, `LineCalled` and `LineLeft` say what
a line is after someone joins, is called in, or leaves from its middle; `JobMoved` what one
job's move changes in the counts. `FilesInv` follows each file from its writing to the row or
answer that names it. `UploadLimitersExact` and `UploadFilesAreKnown` follow.

`PreviewInv` is stated of the queue as a value, because one request runs several operations of it in a
step. `Fits`: the counters and lines of the queue are those of the fetches. `Served`: nothing that could
start is left waiting. An operation that frees one place leaves at most one fetch to start
(`ServedBut`), so the one round of `Dispatch` that the code runs is enough. `Shares`: who waits for a fetch, and which
fetch a new request of its link attaches to. `PreviewFetchesExact` follows.

`SignInInv` follows every flow between its awaits. `Sound` says what a flow still knows of the store:
one that captured the revision and finds it unchanged knows the account and that there is a
token. `Awaiting` says that a flow that may go on to publish finds no cleanup pending, and `Apart`
that of two such flows one is stale, because a login makes all others stale, and a cleared
store those that captured its revision. So nobody begins a cleanup between the waking of a
flow and its publication. `RotationGood` ties a refresh to those that await it: they share its
token. Most steps move one flow and leave the captures of the others, so the lemmas `OneMoves`,
`OneEnds`, `PreparedMoves`, `RotateMoves`, `ClearedMoves` and `SessionSet` carry the proof, and one
lemma per action cites them. A late answer adds only its own account to the data, which is the user's, or the
cleanup notes it (`StoredKeeps`). `OneAccountAtATime` follows.

`StayInv` adds the chain of refresh tokens, which is used up link by link. Until an answer is
lost or accounts are mixed, the token in the store is live, or the answer that replaces it is on
its way to a flow that will store it (`TokenLive`); hence no refresh is refused, and none under way
will be (`RotationsLive`). Two facts carry this. There is one refresh of the store's token, the one
that `refreshPromise` holds, and whoever awaits it sent that token (`RotationsShared`), so nobody
presents a token twice. And a refresh that still holds the store's token is never stale
(`FlowsSteady`: the revision it captured is the present one), so its answer is not dropped but stored, by
the first of those it wakes, who agree on it (`FlowsAgree`). `FlowKeepsSession` goes through
the steps that could end a session; `OnlyUserSignsOut` follows. TLC checked `SignInInv` and
`StayInv` as well: 338,156 states with two flows and three events, 1,630,130 with three flows and two events.

`ServicesAreServices`: every behaviour of `MCServices` is one of each service, since they share no
variable and the one in focus stutters in the others. `ServicesTyped`, and `ServicesSafe` with
every other safety and action property of the run, follow from the theorems above for any constants of the
instance.

Only model-checked is all liveness: `EveryItemSettles`, `RecoveryCompletes`, `GoneIsPushable`,
`ActivitySettles`, `PreviewsSettle` and `LinesDrain`. Liveness under fairness needs `ENABLED`,
which is outside the prover's reach.

## 5. Not modelled

* **Parts of modelled components.** Editing, deleting, pinning, forwarding and paging of
  messages: single statements or queries. Who receives which notification row, and push
  itself: a computation over settings and a call of an external service; what decides a push,
  `isActivelyEngaged`, is in `Presence`. Manual statuses and their expiry, bots and the
  presence of server voice channels. Server voice itself: its rooms are those of the external
  media server. The read state of channels and
  threads is not modelled: it lies in tables of its own, and the Inbox counts the mentions of a channel from
  its unread notification rows, those of a thread down by the rows it clears
  (`inbox.service.ts:496-523`), where it counts a direct conversation from its messages. Acknowledging many conversations at once repeats the statements over many rows. The lists of the
  Inbox are queries. Storage plans over log rows and audit history delete rows only.
* **The sign-in session of several windows.** Windows of one browser share `localStorage`, and each keeps
  its own copy of the tokens; a model of both would need the storage as a component of its own,
  with two `SignIn` over it. Passwords, mail, resets and the list of sessions are library calls around
  one transaction each.
* **One-statement components.** Direct conversations (apart from what calls and sending use),
  roles, servers, members, invites, friends, forum, polls, bookmarks, bots, webhooks,
  automod, XP, administration: each request is one transaction guarded by
  checks, with no state between two requests that another could find half done. That
  permissions change under a running handler is in `MessageSend`, `DmCalls` and
  `MessageWatch`.
* **Text and media.** Search, translation, media proxies, parsing of pages, images: pure
  computation or I/O.
* **Client views.** Stores and caches that mirror the server's state, paging of messages,
  and the components that render them: large, but each is a view of rows the server
  owns. Those with a protocol of their own are modelled.
* **Other programs.** The desktop shell, the bot, the log watcher, the vendored media
  libraries and the translations of the interface.

Five hazards have no property; `PROJECT.json` gives the reason beside each.
