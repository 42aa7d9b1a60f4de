-------------------------------- MODULE CatchUp --------------------------------
(***************************************************************************)
(* The catch-up session of the Inbox: one per person on the server         *)
(* (inbox.service.ts), worked through from several devices                 *)
(* (inbox.store.ts).                                                       *)
(*                                                                         *)
(* A session is a frozen list of conversations and a position in it.  The  *)
(* server takes a change only for the revision it was made for; a device   *)
(* runs its changes one after the other, keeps a failed one for its retry, *)
(* and drops the ones clicked for a conversation it no longer shows.       *)
(* Requests and answers can be lost.  The devices of Screens are modelled  *)
(* in full; of any others, what they do to the stored session.  What an    *)
(* acknowledgement does to the read state is in ReadState.                 *)
(***************************************************************************)
EXTENDS Naturals, Sequences, FiniteSets, SequencesExt

CONSTANTS
  Screens, Other, \* devices of the person; any other one
  Lists,        \* lists of conversations a new session may freeze, the empty one if nothing waits
  MaxSessions, MaxClicks, MaxPending, MaxFailures, MaxOthers \* bounds

Groups == UNION {ToSet(l) : l \in Lists}

ASSUME CatchUpAssumption ==
  /\ Lists \subseteq Seq(Groups)
  /\ \A l \in Lists : IsInjective(l)
  /\ {MaxSessions, MaxClicks, MaxPending, MaxFailures, MaxOthers} \subseteq Nat
  /\ MaxSessions > 0
  /\ Other \notin Screens

VARIABLES
  started,  \* sessions started so far: the number of a session is its id
  server,   \* the stored session
  view,     \* the copy each device has
  reader,   \* what each device shows
  readers,  \* readers each device has shown
  pending,  \* changes each device has still to make, first one under way
  kept,     \* the failed change each device would retry
  call,     \* the request of the change under way
  loading,  \* the session loadSession was answered with, while it is still wanted
  failures, \* requests and answers lost
  clicks,   \* clicks so far
  others,   \* changes by other devices so far
  acts      \* history: changes of position, with the reader they were clicked in

catchUpVars == <<started, server, view, reader, readers, pending, kept, call, loading,
                 failures, clicks, others, acts>>

-----------------------------------------------------------------------------
NewSession(n, l) == [id |-> n, rev |-> 0, index |-> 1, list |-> l, anchor |-> "none"]
None == NewSession(0, <<>>)
NoReader == [req |-> 0, id |-> 0, group |-> 0, target |-> "none"]
NoCall == [state |-> "none", kind |-> "none", id |-> 0, rev |-> 0, target |-> "none",
           answer |-> None]
NoLoad == [None EXCEPT !.anchor = "unwanted"]
NoChange == [kind |-> "none", req |-> 0]

Complete(s) == s.index > Len(s.list)  \* true of None as well
Current(s) == s.list[s.index]

\* "done" and "later" differ in what they do to the read state and the Later list;
\* in the session both are decisions.
Moves == {"decide", "skip"}
Starts == {"resume", "replace"}

\* A session was started, and every device has loaded it.
CatchUpInit ==
  /\ started = 1
  /\ \E l \in Lists : server = NewSession(1, l)
  /\ view = [d \in Screens |-> server]
  /\ reader = [d \in Screens |-> NoReader] /\ readers = [d \in Screens |-> 0]
  /\ pending = [d \in Screens |-> <<>>] /\ kept = [d \in Screens |-> NoChange]
  /\ call = [d \in Screens |-> NoCall] /\ loading = [d \in Screens |-> NoLoad]
  /\ failures = 0 /\ clicks = 0 /\ others = 0 /\ acts = {}

Session == [id : Nat, rev : Nat, index : Nat \ {0}, list : Lists \cup {<<>>},
            anchor : {"none", "first", "moved"}]
Changes == [kind : Moves \cup Starts \cup {"none"}, req : Nat]
Calls == [state : {"none", "asked", "ok", "conflict", "failed"},
          kind : Moves \cup Starts \cup {"none", "anchor"}, id : Nat, rev : Nat,
          target : {"none", "first", "moved"}, answer : Session]

CatchUpTypeOK ==
  /\ started \in 0..MaxSessions /\ failures \in 0..MaxFailures /\ clicks \in 0..MaxClicks
  /\ others \in 0..MaxOthers
  /\ server \in Session /\ view \in [Screens -> Session]
  /\ reader \in [Screens -> [req : Nat, id : Nat, group : Groups \cup {0},
                             target : {"none", "first", "moved"}]]
  /\ readers \in [Screens -> Nat]
  /\ pending \in [Screens -> Seq(Changes)] /\ kept \in [Screens -> Changes]
  /\ call \in [Screens -> Calls]
  /\ loading \in [Screens -> Session \cup {NoLoad}]

-----------------------------------------------------------------------------
(* The device                                                              *)

\* resume: the reader shows where the session is, if it is not complete.
Shown(d, s) ==
  IF Complete(s) THEN [reader EXCEPT ![d] = NoReader]
  ELSE [reader EXCEPT ![d] = [req |-> readers[d] + 1, id |-> s.id, group |-> Current(s),
                              target |-> IF s.anchor = "none" THEN "first" ELSE s.anchor]]

Resume(d, s) ==
  /\ reader' = Shown(d, s)
  /\ readers' = IF Complete(s) THEN readers ELSE [readers EXCEPT ![d] = @ + 1]

\* A click: the change waits for the ones before it.  A start replaces the session
\* when the device knows of none that is unfinished.
Click(d, kind) ==
  /\ Len(pending[d]) < MaxPending /\ clicks < MaxClicks
  /\ clicks' = clicks + 1
  /\ \/ kind = "resume" /\ ~Complete(view[d])
     \/ kind = "replace" /\ Complete(view[d])
     \/ kind \in Moves /\ reader[d].req > 0
  /\ pending' = [pending EXCEPT ![d] = Append(@, [kind |-> kind, req |-> reader[d].req])]
  /\ UNCHANGED <<started, server, view, reader, readers, kept, call, loading, failures,
                 others, acts>>

\* The person scrolls.
StageAnchor(d) ==
  /\ reader[d].target = "first"
  /\ reader' = [reader EXCEPT ![d].target = "moved"]
  /\ UNCHANGED <<started, server, view, readers, pending, kept, call, loading, failures, clicks, others, acts>>

\* The first change may begin.
Begins(d) == pending[d] # <<>> /\ call[d].state = "none"
Change(d) == Head(pending[d])

\* A change counts only for the reader it was clicked in.
SameReader(d) == Change(d).req = reader[d].req

\* The session of the reader is still where the reader is.
InPlace(d) ==
  /\ view[d].id = reader[d].id /\ ~Complete(view[d])
  /\ Current(view[d]) = reader[d].group

\* Mutant: the answer of a load is still wanted after a change began.
KeepLoad(d) == loading

\* sessionRequest++: an answer under way is not wanted any more.
DropLoad(d) == [loading EXCEPT ![d] = NoLoad]

\* The request the change makes first; a decision about a conversation saves the
\* position in it before, if that changed.
Request(d) == LET c == Change(d) IN
  [NoCall EXCEPT !.state = "asked", !.id = view[d].id, !.rev = view[d].rev,
                 !.target = reader[d].target,
                 !.kind = IF c.kind = "decide" /\ view[d].anchor # reader[d].target
                          THEN "anchor" ELSE c.kind]

Perform(d) ==
  /\ Begins(d)
  /\ IF SameReader(d) /\ (Change(d).kind \in Starts \/ InPlace(d))
     THEN /\ call' = [call EXCEPT ![d] = Request(d)]
          /\ UNCHANGED pending
     ELSE IF SameReader(d) /\ Change(d).kind \in Moves
     THEN /\ call' = [call EXCEPT ![d] = [NoCall EXCEPT !.state = "conflict"]]
          /\ UNCHANGED pending
     ELSE /\ pending' = [pending EXCEPT ![d] = Tail(@)]
          /\ UNCHANGED call
  /\ loading' = DropLoad(d)
  /\ kept' = [kept EXCEPT ![d] = NoChange]
  /\ UNCHANGED <<started, server, view, reader, readers, failures, clicks, others, acts>>

Finished(d) ==
  /\ pending' = [pending EXCEPT ![d] = Tail(@)]
  /\ call' = [call EXCEPT ![d] = NoCall]

\* The answer of a request that was the whole change.
Succeeds(d) == LET s == call[d].answer IN
  /\ call[d].state = "ok" /\ call[d].kind = Change(d).kind
  /\ view' = [view EXCEPT ![d] = s]
  /\ Resume(d, s)
  /\ Finished(d)
  /\ UNCHANGED <<started, server, kept, loading, failures, clicks, others, acts>>

\* The position is saved: the change itself follows.
Proceeds(d) == LET s == call[d].answer IN
  /\ call[d].state = "ok" /\ call[d].kind # Change(d).kind
  /\ view' = [view EXCEPT ![d] = s]
  /\ call' = [call EXCEPT ![d] = [NoCall EXCEPT !.state = "asked", !.id = s.id, !.rev = s.rev,
                                                !.kind = Change(d).kind]]
  /\ UNCHANGED <<started, server, reader, readers, pending, kept, loading, failures, clicks, others, acts>>

\* A conflict: the session is loaded again, if that succeeds; no retry repeats the change.
Conflicts(d) ==
  /\ call[d].state = "conflict"
  /\ \/ view' = [view EXCEPT ![d] = server] /\ UNCHANGED failures
     \/ failures < MaxFailures /\ failures' = failures + 1 /\ UNCHANGED view
  /\ Finished(d)
  /\ UNCHANGED <<started, server, reader, readers, kept, loading, clicks, others, acts>>

\* Anything else: the change is kept for a retry.
Breaks(d) ==
  /\ call[d].state = "failed"
  /\ kept' = [kept EXCEPT ![d] = Change(d)]
  /\ Finished(d)
  /\ UNCHANGED <<started, server, view, reader, readers, loading, failures, clicks, others, acts>>

Retry(d) ==
  /\ kept[d].kind # "none" /\ Len(pending[d]) < MaxPending
  /\ pending' = [pending EXCEPT ![d] = Append(@, kept[d])]
  /\ UNCHANGED <<started, server, view, reader, readers, kept, call, loading, failures, clicks, others, acts>>

\* After a conflict, or from the list: the reader goes where the session is.
Reopen(d) ==
  /\ pending[d] = <<>> /\ ~Complete(view[d]) /\ ~InPlace(d)
  /\ Resume(d, view[d])
  /\ UNCHANGED <<started, server, view, pending, kept, call, loading, failures, clicks, others, acts>>

\* loadSession, unless a change is under way: the server has answered it,
Load(d) ==
  /\ pending[d] = <<>>
  /\ loading' = [loading EXCEPT ![d] = server]
  /\ UNCHANGED <<started, server, view, reader, readers, pending, kept, call, failures,
                 clicks, others, acts>>

\* and the answer arrives, still wanted.
Loaded(d) ==
  /\ loading[d] # NoLoad
  /\ view' = [view EXCEPT ![d] = loading[d]]
  /\ loading' = [loading EXCEPT ![d] = NoLoad]
  /\ UNCHANGED <<started, server, reader, readers, pending, kept, call, failures, clicks,
                 others, acts>>

-----------------------------------------------------------------------------
(* The server: each change is one transaction under the lock of the user.  *)

Answered(d, s) == call' = [call EXCEPT ![d].state = "ok", ![d].answer = s]

\* startSession: an unfinished session is kept unless it is to be replaced.
StartSession(d) ==
  /\ call[d].kind \in Starts
  /\ IF server.id > 0 /\ ~Complete(server) /\ call[d].kind = "resume"
     THEN /\ Answered(d, server)
          /\ UNCHANGED <<started, server>>
     ELSE /\ started < MaxSessions
          /\ \E l \in Lists : server' = NewSession(started + 1, l)
          /\ started' = started + 1
          /\ Answered(d, server')
  /\ UNCHANGED acts

\* Mutant: the revision is not compared.
AnyRevision(d) == server.id = call[d].id

\* mutateSession: the change was made for this session as it is.
UpToDate(d) == server.id = call[d].id /\ server.rev = call[d].rev

\* The next conversation.  The tallies of decisions are left out.
Advanced == [server EXCEPT !.index = @ + 1, !.rev = @ + 1, !.anchor = "none"]

MutateSession(d) ==
  /\ call[d].kind \in Moves \cup {"anchor"}
  /\ \/ /\ UpToDate(d) /\ ~Complete(server)
        /\ IF call[d].kind = "anchor"
           THEN /\ server' = [server EXCEPT !.anchor = call[d].target, !.rev = @ + 1]
                /\ UNCHANGED acts
           ELSE /\ server' = Advanced
                /\ acts' = acts \cup {[screen |-> d, req |-> Change(d).req, id |-> server.id,
                                       index |-> server.index, kind |-> call[d].kind,
                                       group |-> Current(server), seen |-> reader[d].group]}
        /\ Answered(d, server')
     \/ /\ ~UpToDate(d) \/ Complete(server)
        /\ call' = [call EXCEPT ![d].state = IF server.id # call[d].id THEN "failed"
                                             ELSE "conflict"]
        /\ UNCHANGED <<server, acts>>
  /\ UNCHANGED started

Serve(d) ==
  /\ call[d].state = "asked"
  /\ StartSession(d) \/ MutateSession(d)
  /\ UNCHANGED <<view, reader, readers, pending, kept, loading, failures, clicks, others>>

\* Another device, at the revision it has.
OtherDevice ==
  /\ others < MaxOthers /\ others' = others + 1
  /\ \/ /\ ~Complete(server)
        /\ \E kind \in Moves :
             /\ server' = Advanced
             /\ acts' = acts \cup {[screen |-> Other, req |-> others', id |-> server.id,
                                    index |-> server.index, kind |-> kind,
                                    group |-> Current(server), seen |-> Current(server)]}
        /\ UNCHANGED started
     \/ /\ ~Complete(server)
        /\ server' = [server EXCEPT !.anchor = "moved", !.rev = @ + 1]
        /\ UNCHANGED <<started, acts>>
     \/ /\ started < MaxSessions /\ started' = started + 1
        /\ \E l \in Lists : server' = NewSession(started + 1, l)
        /\ UNCHANGED acts
  /\ UNCHANGED <<view, reader, readers, pending, kept, call, loading, failures, clicks>>

\* The request, or its answer, is lost.
Lose(d) ==
  /\ call[d].state \in {"asked", "ok"} /\ failures < MaxFailures
  /\ call' = [call EXCEPT ![d].state = "failed"]
  /\ failures' = failures + 1
  /\ UNCHANGED <<started, server, view, reader, readers, pending, kept, loading, clicks, others, acts>>

CatchUpNext ==
  \/ OtherDevice
  \/ \E d \in Screens :
     \/ \E kind \in Moves \cup Starts : Click(d, kind)
     \/ StageAnchor(d) \/ Perform(d) \/ Succeeds(d) \/ Proceeds(d) \/ Conflicts(d)
     \/ Breaks(d) \/ Retry(d) \/ Reopen(d) \/ Load(d) \/ Loaded(d)
     \/ Serve(d) \/ Lose(d)

CatchUpSpec == CatchUpInit /\ [][CatchUpNext]_catchUpVars

-----------------------------------------------------------------------------
(* Properties                                                              *)

\* Whatever is lost, retried or done on another device, a click moves the session on
\* at most once, and then past the conversation its device showed when it was clicked;
\* no conversation of a session is decided twice (inbox.service.ts:662-710,
\* inbox.store.ts:345-368).
OneDecisionPerClick ==
  /\ \A a \in acts : a.group = a.seen
  /\ \A a, b \in acts : \/ a = b
                        \/ <<a.screen, a.req>> # <<b.screen, b.req>>
                           /\ <<a.id, a.index>> # <<b.id, b.index>>

\* A device never goes back to an older session, nor to an older revision of one.
ViewMovesForward ==
  [][\A d \in Screens :
       \/ view'[d].id > view[d].id
       \/ view'[d].id = view[d].id /\ view'[d].rev >= view[d].rev]_catchUpVars
=============================================================================
