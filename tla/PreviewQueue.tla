----------------------------- MODULE PreviewQueue -----------------------------
(***************************************************************************)
(* Link previews: the bounded queue of fetches (preview-work-queue.ts) and *)
(* the sharing of a fetch by everyone who asks for the same link           *)
(* (link-preview.service.ts).                                              *)
(*                                                                         *)
(* A request is one link of one message.  It attaches to the fetch of its  *)
(* link, or starts one and queues it under the author of its message.  A   *)
(* fetch ends by an answer, by the deadline of the queue or of the fetch,  *)
(* or when the last request that waits for it is cancelled.  What a page   *)
(* says is a value; the expiry of cached values is an action.              *)
(***************************************************************************)
EXTENDS Naturals, Sequences, FiniteSets, SequencesExt

CONSTANTS
  Requests, Links, Authors,
  LinkOf, AuthorOf,      \* of each request
  Fetches,               \* numbers of the fetches that can be started (bound)
  MaxActive, MaxPerAuthor, MaxQueued, MaxGroup,
  NoFetch

ASSUME PreviewAssumption ==
  /\ LinkOf \in [Requests -> Links] /\ AuthorOf \in [Requests -> Authors]
  /\ {MaxActive, MaxPerAuthor, MaxQueued, MaxGroup} \subseteq Nat \ {0}
  /\ Fetches \subseteq Nat /\ NoFetch \notin Fetches
  /\ Links # {} /\ Authors # {}

VARIABLES
  request,   \* what each request is doing
  fetch,     \* fetches: link, author, status, whether aborted, who waits
  inFlight,  \* the fetch new requests of a link attach to
  ring,      \* authors with queued fetches, next one first
  group,     \* their queued fetches
  slots,     \* active
  perAuthor, \* ownerActive
  queued,    \* queued
  cache      \* what is known of each link

previewVars == <<request, fetch, inFlight, ring, group, slots, perAuthor, queued,
                 cache>>

-----------------------------------------------------------------------------
PreviewTypeOK ==
  /\ request \in [Requests -> {"new", "waiting", "answered", "cancelled"}]
  /\ fetch \in [Fetches -> [status : {"unused", "queued", "running", "settled"},
                             link : Links, author : Authors, aborted : BOOLEAN,
                             consumers : SUBSET Requests]]
  /\ inFlight \in [Links -> Fetches \cup {NoFetch}]
  /\ ring \in Seq(Authors)
  /\ group \in [Authors -> Seq(Fetches)]
  /\ slots \in Nat /\ queued \in Nat
  /\ perAuthor \in [Authors -> Nat]
  /\ cache \in [Links -> {"unknown", "meta", "failed"}]

PreviewInit ==
  /\ request = [r \in Requests |-> "new"]
  /\ fetch = [f \in Fetches |->
                [status |-> "unused", link |-> CHOOSE l \in Links : TRUE,
                 author |-> CHOOSE a \in Authors : TRUE, aborted |-> FALSE,
                 consumers |-> {}]]
  /\ inFlight = [l \in Links |-> NoFetch]
  /\ ring = <<>> /\ group = [a \in Authors |-> <<>>]
  /\ slots = 0 /\ perAuthor = [a \in Authors |-> 0] /\ queued = 0
  /\ cache = [l \in Links |-> "unknown"]

-----------------------------------------------------------------------------
Running == {f \in Fetches : fetch[f].status = "running"}
Queued == {f \in Fetches : fetch[f].status = "queued"}

\* The queue of the code as one value, so that its operations compose.
Queue == [ring |-> ring, group |-> group, slots |-> slots, perAuthor |-> perAuthor,
          queued |-> queued, started |-> {}]

MayStart(q, a) == q.perAuthor[a] < MaxPerAuthor

Startable(q) == {i \in DOMAIN q.ring : MayStart(q, q.ring[i])}

\* dispatch: the first author with a free share starts his oldest fetch and goes to
\* the end of the ring.  One round is enough (QueueCountsExact).
Dispatch(q) ==
  IF q.slots >= MaxActive \/ Startable(q) = {} THEN q
  ELSE LET i == CHOOSE i \in Startable(q) : \A j \in Startable(q) : i <= j
           a == q.ring[i]
           rest == Tail(q.group[a])
       IN [ring |-> RemoveAt(q.ring, i) \o (IF rest = <<>> THEN <<>> ELSE <<a>>),
           group |-> [q.group EXCEPT ![a] = rest],
           slots |-> q.slots + 1,
           perAuthor |-> [q.perAuthor EXCEPT ![a] = @ + 1],
           queued |-> q.queued - 1,
           started |-> {Head(q.group[a])}]

\* run: there is room for another fetch of this author.
Admits(a) == queued < MaxQueued /\ Len(group[a]) < MaxGroup

\* run: the fetch is queued.
Push(q, a, f) ==
  [q EXCEPT !.ring = IF q.group[a] = <<>> THEN Append(@, a) ELSE @,
            !.group[a] = Append(@, f),
            !.queued = @ + 1]

\* remove: a queued fetch is taken out.
Take(q, a, f) ==
  LET rest == RemoveFirst(q.group[a], f) IN
  [q EXCEPT !.ring = IF rest = <<>> THEN RemoveFirst(@, a) ELSE @,
            !.group[a] = rest,
            !.queued = @ - 1]

\* A running fetch gives its slot back.
GiveSlotBack(q, a) == [q EXCEPT !.slots = @ - 1, !.perAuthor[a] = @ - 1]

Becomes(q) ==
  /\ ring' = q.ring /\ group' = q.group /\ slots' = q.slots
  /\ perAuthor' = q.perAuthor /\ queued' = q.queued

Started(fetches, q) ==
  [f \in Fetches |-> IF f \in q.started THEN [fetches[f] EXCEPT !.status = "running"]
                     ELSE fetches[f]]

QueueUnchanged == UNCHANGED <<ring, group, slots, perAuthor, queued>>

-----------------------------------------------------------------------------
\* resolveMeta: the link is known already.
AskCached(r) ==
  /\ request[r] = "new" /\ cache[LinkOf[r]] # "unknown"
  /\ request' = [request EXCEPT ![r] = "answered"]
  /\ UNCHANGED <<fetch, inFlight, cache>> /\ QueueUnchanged

\* It is being fetched.
Attach(r) == LET f == inFlight[LinkOf[r]] IN
  /\ request[r] = "new" /\ cache[LinkOf[r]] = "unknown" /\ f # NoFetch
  /\ request' = [request EXCEPT ![r] = "waiting"]
  /\ fetch' = [fetch EXCEPT ![f].consumers = @ \cup {r}]
  /\ UNCHANGED <<inFlight, cache>> /\ QueueUnchanged

\* A fetch is started for it.
Ask(r) == LET l == LinkOf[r]  a == AuthorOf[r] IN
  /\ request[r] = "new" /\ cache[l] = "unknown" /\ inFlight[l] = NoFetch
  /\ Admits(a)
  /\ \E f \in Fetches :
       LET q == Dispatch(Push(Queue, a, f))
           asked == [status |-> "queued", link |-> l, author |-> a, aborted |-> FALSE,
                     consumers |-> {r}]
       IN /\ fetch[f].status = "unused"
          /\ \A g \in Fetches : fetch[g].status = "unused" => f <= g
          /\ fetch' = Started([fetch EXCEPT ![f] = asked], q)
          /\ inFlight' = [inFlight EXCEPT ![l] = f]
          /\ Becomes(q)
  /\ request' = [request EXCEPT ![r] = "waiting"]
  /\ UNCHANGED cache

\* The queue is full: no preview, and nothing is remembered of the link.
Refuse(r) ==
  /\ request[r] = "new" /\ cache[LinkOf[r]] = "unknown"
  /\ inFlight[LinkOf[r]] = NoFetch /\ ~Admits(AuthorOf[r])
  /\ request' = [request EXCEPT ![r] = "answered"]
  /\ UNCHANGED <<fetch, inFlight, cache>> /\ QueueUnchanged

-----------------------------------------------------------------------------
\* Mutant: the entry of the link is dropped whoever put it there.
DropEntry(f) == [inFlight EXCEPT ![fetch[f].link] = NoFetch]

\* Only the fetch that is in flight for the link leaves the table.
Forget(f) ==
  IF inFlight[fetch[f].link] = f THEN [inFlight EXCEPT ![fetch[f].link] = NoFetch]
  ELSE inFlight

\* Mutant: a fetch that was aborted answers nobody.
AnswerUnaborted(f) ==
  [r \in Requests |-> IF r \in fetch[f].consumers /\ ~fetch[f].aborted
                      THEN "answered" ELSE request[r]]

\* Everybody who waits for the fetch is answered.
AnswerAll(f) ==
  [r \in Requests |-> IF r \in fetch[f].consumers THEN "answered" ELSE request[r]]

Settled(f) == [fetch EXCEPT ![f].status = "settled", ![f].consumers = {}]

\* A running fetch ends.  A result or a failure is remembered, unless it was aborted.
FetchEnds(f, result) ==
  /\ fetch[f].status = "running"
  /\ request' = AnswerAll(f)
  /\ inFlight' = Forget(f)
  /\ cache' = IF fetch[f].aborted THEN cache ELSE [cache EXCEPT ![fetch[f].link] = result]
  /\ \E q \in {Dispatch(GiveSlotBack(Queue, fetch[f].author))} :
       fetch' = Started(Settled(f), q) /\ Becomes(q)

\* A queued fetch is cancelled: by its time in the queue or by its deadline.
QueueDeadline(f) ==
  /\ fetch[f].status = "queued"
  /\ request' = AnswerAll(f)
  /\ inFlight' = Forget(f)
  /\ \E q \in {Dispatch(Take(Queue, fetch[f].author, f))} :
       fetch' = Started(Settled(f), q) /\ Becomes(q)
  /\ UNCHANGED cache

\* Fifteen seconds: the fetch is aborted with requests still waiting for it.
FetchDeadline(f) ==
  /\ fetch[f].status = "running" /\ ~fetch[f].aborted
  /\ fetch' = [fetch EXCEPT ![f].aborted = TRUE]
  /\ UNCHANGED <<request, inFlight, cache>> /\ QueueUnchanged

\* The message is deleted: its request goes, and with the last one its fetch.
CancelMessage(r) ==
  \E f \in Fetches :
    LET q == Dispatch(Take(Queue, fetch[f].author, f)) IN
    /\ r \in fetch[f].consumers
    /\ request' = [request EXCEPT ![r] = "cancelled"]
    /\ \/ /\ fetch[f].consumers # {r}
          /\ fetch' = [fetch EXCEPT ![f].consumers = @ \ {r}]
          /\ UNCHANGED inFlight /\ QueueUnchanged
       \/ /\ fetch[f].consumers = {r} /\ fetch[f].status = "queued"
          /\ fetch' = Started(Settled(f), q)
          /\ inFlight' = Forget(f)
          /\ Becomes(q)
       \/ /\ fetch[f].consumers = {r} /\ fetch[f].status = "running"
          /\ fetch' = [fetch EXCEPT ![f].consumers = {}, ![f].aborted = TRUE]
          /\ inFlight' = Forget(f)
          /\ QueueUnchanged
    /\ UNCHANGED cache

CacheExpires(l) ==
  /\ cache[l] # "unknown"
  /\ cache' = [cache EXCEPT ![l] = "unknown"]
  /\ UNCHANGED <<request, fetch, inFlight>> /\ QueueUnchanged

PreviewNext ==
  \/ \E r \in Requests : \/ AskCached(r) \/ Attach(r) \/ Ask(r) \/ Refuse(r)
                         \/ CancelMessage(r)
  \/ \E f \in Fetches : \/ QueueDeadline(f) \/ FetchDeadline(f)
                        \/ \E result \in {"meta", "failed"} : FetchEnds(f, result)
  \/ \E l \in Links : CacheExpires(l)

PreviewSpec == PreviewInit /\ [][PreviewNext]_previewVars

-----------------------------------------------------------------------------
\* The counters of the queue are what they count, through every cancel, deadline
\* and answer, none exceeds its limit, and no slot stays free while a fetch that may
\* start waits: dispatch has nothing left to do (preview-work-queue.ts:15-81).
QueueCountsExact ==
  /\ slots = Cardinality(Running) /\ slots <= MaxActive
  /\ queued = Cardinality(Queued) /\ queued <= MaxQueued
  /\ \A a \in Authors :
       /\ perAuthor[a] = Cardinality({f \in Running : fetch[f].author = a})
       /\ perAuthor[a] <= MaxPerAuthor
       /\ ToSet(group[a]) = {f \in Queued : fetch[f].author = a}
       /\ Len(group[a]) = Cardinality(ToSet(group[a])) /\ Len(group[a]) <= MaxGroup
       /\ Cardinality({i \in DOMAIN ring : ring[i] = a}) = IF group[a] = <<>> THEN 0 ELSE 1
       /\ slots < MaxActive /\ perAuthor[a] < MaxPerAuthor => group[a] = <<>>

\* A link is fetched once for all who ask, and nobody waits for a fetch that is over:
\* a fetch that is not aborted is the one in the table and is waited for, and every
\* request that waits is a consumer of a fetch that will answer it
\* (link-preview.service.ts:204-255).
SharedFetch ==
  /\ \A f \in Running \cup Queued :
       ~fetch[f].aborted => inFlight[fetch[f].link] = f /\ fetch[f].consumers # {}
  /\ \A r \in Requests :
       request[r] = "waiting" <=> \E f \in Running \cup Queued : r \in fetch[f].consumers

\* The queue and the table of shared fetches are exact, and agree on what is under way.
FetchesAreExact == QueueCountsExact /\ SharedFetch

PreviewFairness ==
  WF_previewVars(\E f \in Fetches :
    QueueDeadline(f) \/ \E result \in {"meta", "failed"} : FetchEnds(f, result))

\* Every request is answered or cancelled, and every slot is given back.
PreviewsSettle ==
  []<>(\A r \in Requests : request[r] # "waiting")
=============================================================================
