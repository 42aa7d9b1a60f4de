------------------------------ MODULE UploadWork ------------------------------
(***************************************************************************)
(* Admission and processing of uploads (upload-work-limiter.ts,            *)
(* upload-admission.interceptor.ts, uploads.service.ts,                    *)
(* uploads.controller.ts).                                                 *)
(*                                                                         *)
(* An attachment holds a place among the uploads from its admission to its *)
(* answer, and a place among the processing jobs while its file is made.   *)
(* An image (avatar, emoji, icon) takes only the second and cannot be      *)
(* aborted.  A place that is given back goes to the first who waits.       *)
(* Icons are stored under a key of the client: two of them may be one      *)
(* file.                                                                   *)
(***************************************************************************)
EXTENDS Naturals, Sequences, FiniteSets, SequencesExt

CONSTANTS
  Jobs, Attachments,
  FileOf,                 \* the file each job makes
  Capacity, MaxWaiting    \* of each limiter

Limiters == {"uploads", "processing"}

ASSUME UploadAssumption ==
  /\ IsFiniteSet(Jobs) /\ Attachments \subseteq Jobs
  /\ DOMAIN FileOf = Jobs
  /\ \A j \in Attachments, i \in Jobs : FileOf[i] = FileOf[j] => i = j
  /\ Capacity \in [Limiters -> Nat \ {0}] /\ MaxWaiting \in [Limiters -> Nat]

VARIABLES
  place,   \* how far each job is
  busy,    \* active, of each limiter
  line,    \* waiting, of each limiter
  aborted, \* attachments whose client is gone
  disk,    \* files that exist
  known,   \* jobs whose address was given out (attachments: with their row)
  spoiled, \* history: files a failed job removed
  stuck    \* history: files a failed job could not remove

uploadVars == <<place, busy, line, aborted, disk, known, spoiled, stuck>>

-----------------------------------------------------------------------------
Places == {"new", "lineU", "receiving", "lineP", "granted", "working", "written",
           "saved", "leaving", "over"}

InProcess == {"granted", "working", "written"}
Admitted == {"receiving", "lineP", "saved", "leaving"} \cup InProcess

Waits(l) == {j \in Jobs : place[j] = IF l = "uploads" THEN "lineU" ELSE "lineP"}
Holds(l) == IF l = "uploads" THEN {j \in Attachments : place[j] \in Admitted}
            ELSE {j \in Jobs : place[j] \in InProcess}

UploadTypeOK ==
  /\ place \in [Jobs -> Places]
  /\ busy \in [Limiters -> Nat]
  /\ line \in [Limiters -> Seq(Jobs)]
  /\ aborted \subseteq Attachments /\ known \subseteq Jobs
  /\ disk \subseteq {FileOf[j] : j \in Jobs} /\ spoiled \subseteq {FileOf[j] : j \in Jobs}
  /\ stuck \subseteq {FileOf[j] : j \in Jobs}

UploadInit ==
  /\ place = [j \in Jobs |-> "new"]
  /\ busy = [l \in Limiters |-> 0]
  /\ line = [l \in Limiters |-> <<>>]
  /\ aborted = {} /\ disk = {} /\ known = {} /\ spoiled = {} /\ stuck = {}

-----------------------------------------------------------------------------
(* The limiter.                                                            *)

\* Where a job that is given a place goes on.
Inside(l) == IF l = "uploads" THEN "receiving" ELSE "granted"

\* A job that gets no place: an attachment still has to leave the uploads.
Outside(j) == IF j \in Attachments /\ place[j] \in Admitted THEN "leaving" ELSE "over"

\* acquire
Acquire(l, j) ==
  \/ /\ j \in aborted
     /\ place' = [place EXCEPT ![j] = Outside(j)]
     /\ UNCHANGED <<busy, line>>
  \/ /\ j \notin aborted /\ busy[l] < Capacity[l]
     /\ busy' = [busy EXCEPT ![l] = @ + 1]
     /\ place' = [place EXCEPT ![j] = Inside(l)]
     /\ UNCHANGED line
  \/ /\ j \notin aborted /\ busy[l] >= Capacity[l] /\ Len(line[l]) >= MaxWaiting[l]
     /\ place' = [place EXCEPT ![j] = Outside(j)]
     /\ UNCHANGED <<busy, line>>
  \/ /\ j \notin aborted /\ busy[l] >= Capacity[l] /\ Len(line[l]) < MaxWaiting[l]
     /\ line' = [line EXCEPT ![l] = Append(@, j)]
     /\ place' = [place EXCEPT ![j] = IF l = "uploads" THEN "lineU" ELSE "lineP"]
     /\ UNCHANGED busy

\* Mutant: the place is handed over and freed as well.
ReleaseTwice(l, j, next) ==
  /\ busy' = [busy EXCEPT ![l] = @ - 1]
  /\ line' = IF line[l] = <<>> THEN line ELSE [line EXCEPT ![l] = Tail(@)]
  /\ place' = IF line[l] = <<>> THEN [place EXCEPT ![j] = next]
              ELSE [place EXCEPT ![j] = next, ![Head(line[l])] = Inside(l)]

\* Mutant: nobody is called in.
ReleaseOnly(l, j, next) ==
  /\ busy' = [busy EXCEPT ![l] = @ - 1]
  /\ place' = [place EXCEPT ![j] = next]
  /\ UNCHANGED line

\* The release of a place, by a job that goes on to next: the first who waits has it.
Release(l, j, next) ==
  IF line[l] = <<>>
  THEN /\ busy' = [busy EXCEPT ![l] = @ - 1]
       /\ place' = [place EXCEPT ![j] = next]
       /\ UNCHANGED line
  ELSE /\ line' = [line EXCEPT ![l] = Tail(@)]
       /\ place' = [place EXCEPT ![j] = next, ![Head(line[l])] = Inside(l)]
       /\ UNCHANGED busy

\* cancel: the job is taken out of the line, by its deadline or its signal.
Cancel(l, j) ==
  /\ j \in Waits(l)
  /\ line' = [line EXCEPT ![l] = RemoveAt(@, CHOOSE i \in DOMAIN @ : @[i] = j)]
  /\ place' = [place EXCEPT ![j] = Outside(j)]
  /\ UNCHANGED busy

-----------------------------------------------------------------------------
(* An upload                                                               *)

\* Admission of an attachment; an image is processed at once, unless it is an
\* icon whose file is there.
Arrive(j) ==
  /\ place[j] = "new"
  /\ \/ /\ j \in Attachments
        /\ Acquire("uploads", j)
        /\ UNCHANGED known
     \/ /\ j \notin Attachments /\ FileOf[j] \notin disk
        /\ Acquire("processing", j)
        /\ UNCHANGED known
     \/ /\ j \notin Attachments /\ FileOf[j] \in disk
        /\ place' = [place EXCEPT ![j] = "over"]
        /\ known' = known \cup {j}
        /\ UNCHANGED <<busy, line>>
  /\ UNCHANGED <<aborted, disk, spoiled, stuck>>

\* The file is received and good, or it is not.
Received(j) ==
  /\ place[j] = "receiving"
  /\ \/ Acquire("processing", j)
     \/ /\ place' = [place EXCEPT ![j] = "leaving"]
        /\ UNCHANGED <<busy, line>>
  /\ UNCHANGED <<aborted, disk, known, spoiled, stuck>>

\* Ten seconds in a line.
Expires(j) ==
  /\ \E l \in Limiters : Cancel(l, j)
  /\ UNCHANGED <<aborted, disk, known, spoiled, stuck>>

\* The client goes away: the job leaves its line; elsewhere the signal is looked at later.
ClientGone(j) ==
  /\ j \in Attachments \ aborted /\ place[j] # "over"
  /\ aborted' = aborted \cup {j}
  /\ \/ \E l \in Limiters : Cancel(l, j)
     \/ /\ \A l \in Limiters : j \notin Waits(l)
        /\ UNCHANGED <<place, busy, line>>
  /\ UNCHANGED <<disk, known, spoiled, stuck>>

\* run, after the await: the signal is looked at once more.
StartWork(j) ==
  /\ place[j] = "granted"
  /\ IF j \in aborted THEN Release("processing", j, "leaving")
     ELSE /\ place' = [place EXCEPT ![j] = "working"]
          /\ UNCHANGED <<busy, line>>
  /\ UNCHANGED <<aborted, disk, known, spoiled, stuck>>

Write(j) ==
  /\ place[j] = "working"
  /\ place' = [place EXCEPT ![j] = "written"]
  /\ disk' = disk \cup {FileOf[j]}
  /\ UNCHANGED <<busy, line, aborted, known, spoiled, stuck>>

\* Mutant: the file of a failed job is left behind.
LeftBehind(j) == disk

\* What a failed job leaves of its file.
Unlinked(j) == disk \ {FileOf[j]}

\* The catch of unlink: what cannot be removed stays, and nobody is told.
Removes(j) ==
  \/ /\ disk' = Unlinked(j)
     /\ spoiled' = spoiled \cup {FileOf[j]} /\ stuck' = stuck \ {FileOf[j]}
  \/ /\ FileOf[j] \in disk /\ stuck' = stuck \cup {FileOf[j]}
     /\ UNCHANGED <<disk, spoiled>>

\* The work fails, or its client is gone by the end: its files are removed.
Fails(j) ==
  /\ place[j] \in {"working", "written"}
  /\ Release("processing", j, IF j \in Attachments THEN "leaving" ELSE "over")
  /\ Removes(j)
  /\ UNCHANGED <<aborted, known>>

Processed(j) ==
  /\ place[j] = "written" /\ j \notin aborted
  /\ Release("processing", j, IF j \in Attachments THEN "saved" ELSE "over")
  /\ known' = IF j \in Attachments THEN known ELSE known \cup {j}
  /\ UNCHANGED <<aborted, disk, spoiled, stuck>>

\* uploadAttachment: the row is created, or its failure removes the files.
Record(j) ==
  /\ place[j] = "saved"
  /\ place' = [place EXCEPT ![j] = "leaving"]
  /\ \/ known' = known \cup {j} /\ UNCHANGED <<disk, spoiled, stuck>>
     \/ Removes(j) /\ UNCHANGED known
  /\ UNCHANGED <<busy, line, aborted>>

\* The request is over: finalize gives the upload's place back.
Leave(j) ==
  /\ place[j] = "leaving"
  /\ Release("uploads", j, "over")
  /\ UNCHANGED <<aborted, disk, known, spoiled, stuck>>

UploadNext ==
  \E j \in Jobs : \/ Arrive(j) \/ Received(j) \/ Expires(j) \/ ClientGone(j)
                  \/ StartWork(j) \/ Write(j) \/ Fails(j) \/ Processed(j)
                  \/ Record(j) \/ Leave(j)

UploadSpec == UploadInit /\ [][UploadNext]_uploadVars

-----------------------------------------------------------------------------
(* Properties                                                              *)

\* Through every hand-over, deadline, abort and failure each limiter counts exactly
\* the jobs that hold a place, holds no more than its capacity, has in its line
\* exactly the jobs that wait, each once, and keeps nobody waiting at a free place
\* (upload-work-limiter.ts:14-48).
LimitersExact ==
  \A l \in Limiters :
    /\ busy[l] = Cardinality(Holds(l)) /\ busy[l] <= Capacity[l]
    /\ ToSet(line[l]) = Waits(l) /\ IsInjective(line[l])
    /\ Len(line[l]) <= MaxWaiting[l]
    /\ line[l] # <<>> => busy[l] = Capacity[l]

\* No upload leaves a file nobody knows of, unless it failed and then could not remove
\* it; and no address that was given out names a file that is gone, except that of an
\* icon another client failed to store under the same key (uploads.service.ts:52-56,
\* 216-219).
FilesAreKnown ==
  /\ \A j \in Jobs :
       (\A i \in Jobs : FileOf[i] = FileOf[j] => place[i] = "over")
         => (FileOf[j] \in disk \ stuck => \E i \in known : FileOf[i] = FileOf[j])
  /\ \A j \in known : FileOf[j] \in disk \/ (j \notin Attachments /\ FileOf[j] \in spoiled)

\* A file is made, and a request ends, in bounded time; the deadlines are not relied on.
UploadFairness ==
  WF_uploadVars(\E j \in Jobs :
    \/ Received(j) \/ StartWork(j) \/ Write(j) \/ Fails(j) \/ Processed(j)
    \/ Record(j) \/ Leave(j))

\* Whoever waits is called in: the release of a place never forgets the line.
LinesDrain == []<>(\A j \in Jobs : place[j] \in {"new", "over"})
=============================================================================
