------------------------------ MODULE MCServices ------------------------------
(***************************************************************************)
(* The services beside the message path, for one run of TLC.  They share   *)
(* no state, so a property of one of them holds of all of them together    *)
(* when it holds while that one runs alone: a behaviour here is one of the *)
(* component in focus, the others stay where they begin.                   *)
(***************************************************************************)
EXTENDS Presence, RichActivity, PreviewQueue, UploadWork, ReadState, CatchUp,
        MessageWatch, SignIn, TLC

CONSTANTS ann, phone, laptop
CONSTANTS mine, older
CONSTANTS q1, q2, q3, q4, news, wiki, blog, amy, ben
CONSTANTS file1, file2, icon1, icon2

\* Presence: one person, two devices.
BothOfAnn == [s \in Devices |-> ann]

\* RichActivity: one desktop has the newer session.
MineFirst == {<<mine, older>>}

\* PreviewQueue: two messages share a link; one author may have a fetch running,
\* one queued and one refused.
LinkOfRequest == q1 :> news @@ q2 :> news @@ q3 :> wiki @@ q4 :> blog
AuthorOfRequest == q1 :> amy @@ q2 :> ben @@ q3 :> amy @@ q4 :> amy

\* UploadWork: two attachments, and two uploads of one icon.
FileOfJob == file1 :> "f1" @@ file2 :> "f2" @@ icon1 :> "icon" @@ icon2 :> "icon"
OneEach == [l \in Limiters |-> 1]

\* CatchUp: two conversations, or none.
UpToTwoConversations == {<<1, 2>>, <<>>}

\* MessageWatch: two watch calls and a change, or one call, a change with its
\* reconciliation and one without.
ThreeCross ==
  LET calls == {i \in Watches : order'[i].stage # "new"}
      silently == {k \in Changed : reconciling'[k].stage = "silent"}
      reconciled == {k \in Changed : reconciling'[k].stage # "new"} \ silently IN
  /\ Cardinality(calls) + Cardinality(silently) + Cardinality(reconciled) <= 3
  /\ Cardinality(silently) <= 1 /\ Cardinality(reconciled) <= 1

VARIABLE focus

(***************************************************************************)
(* Presence runs twice.  What is counted and announced is never decided by *)
(* the registry, and the registry never reads a count or an announcement,  *)
(* so each half is in all its interleavings with the handlers while the    *)
(* other half rests: nothing on screen and every input recent, or nothing  *)
(* told and nobody without input.  While announcements overtake each other *)
(* none of them fails, and the other way round.                            *)
(***************************************************************************)
CountsOnly == visible' = {} /\ fresh' = session' /\ overlapped' \cap untold' = {}
RegistryOnly == active \subseteq active' /\ UNCHANGED <<shown, untold>>

\* The list a session begins with makes a difference to CatchUp only.
ServicesInit ==
  /\ focus \in {"Presence", "Registry", "RichActivity", "PreviewQueue",
              "UploadWork", "ReadState", "CatchUp", "MessageWatch", "SignIn"}
  /\ PresenceInit /\ ActivityInit /\ PreviewInit
  /\ UploadInit /\ ReadInit /\ CatchUpInit /\ WatchInit /\ SignInInit
  /\ server.list = <<>> => focus = "CatchUp"

ServicesNext ==
  \/ /\ \/ focus = "Presence" /\ PresenceNext /\ CountsOnly
        \/ focus = "Registry" /\ PresenceNext /\ RegistryOnly
     /\ UNCHANGED <<activityVars, previewVars, uploadVars, readVars,
                    catchUpVars, watchVars, signInVars>>
  \/ /\ focus = "RichActivity" /\ ActivityNext
     /\ UNCHANGED <<presenceVars, previewVars, uploadVars, readVars,
                    catchUpVars, watchVars, signInVars>>
  \/ /\ focus = "PreviewQueue" /\ PreviewNext
     /\ UNCHANGED <<presenceVars, activityVars, uploadVars, readVars,
                    catchUpVars, watchVars, signInVars>>
  \/ /\ focus = "UploadWork" /\ UploadNext
     /\ UNCHANGED <<presenceVars, activityVars, previewVars, readVars,
                    catchUpVars, watchVars, signInVars>>
  \/ /\ focus = "ReadState" /\ ReadNext
     /\ UNCHANGED <<presenceVars, activityVars, previewVars, uploadVars,
                    catchUpVars, watchVars, signInVars>>
  \/ /\ focus = "CatchUp" /\ CatchUpNext
     /\ UNCHANGED <<presenceVars, activityVars, previewVars, uploadVars,
                    readVars, watchVars, signInVars>>
  \/ /\ focus = "MessageWatch" /\ WatchNext /\ ThreeCross
     /\ UNCHANGED <<presenceVars, activityVars, previewVars, uploadVars,
                    readVars, catchUpVars, signInVars>>
  \/ /\ focus = "SignIn" /\ SignInNext
     /\ UNCHANGED <<presenceVars, activityVars, previewVars, uploadVars,
                    readVars, catchUpVars, watchVars>>

servicesVars == <<presenceVars, activityVars, previewVars, uploadVars, readVars,
                  catchUpVars, watchVars, signInVars, focus>>

\* In its initial state no component has an action that fairness is asked of.
ServicesSpec ==
  /\ ServicesInit
  /\ [][ServicesNext /\ UNCHANGED focus]_servicesVars
  /\ PresenceFairness /\ ActivityFairness /\ PreviewFairness /\ UploadFairness

\* Every variable of the service that runs keeps its type (those of the others do not
\* change): in particular no counter of connections goes below zero, no fetch or job
\* is in a place it cannot be in.
ServicesTypeOK ==
  /\ focus \in {"Presence", "Registry"} => PresenceTypeOK
  /\ focus = "RichActivity" => ActivityTypeOK
  /\ focus = "PreviewQueue" => PreviewTypeOK
  /\ focus = "UploadWork" => UploadTypeOK
  /\ focus = "ReadState" => ReadTypeOK
  /\ focus = "CatchUp" => CatchUpTypeOK
  /\ focus = "MessageWatch" => WatchTypeOK
  /\ focus = "SignIn" => SignInTypeOK
=============================================================================
