---------------------------- MODULE StorageCleanup ----------------------------
(***************************************************************************)
(* Reviewed storage cleanup (cleanup/cleanup.service.ts, cleanup-files.ts). *)
(*                                                                         *)
(* An audit writes a durable plan: one item per attachment row or message  *)
(* group (kind "row") or per unreferenced upload (kind "disk"), with the   *)
(* files it would remove.  A worker takes the PostgreSQL session lock,     *)
(* goes through the plan page by page, claims each item in a transaction   *)
(* that deletes the row and commits the ownership of its files, and then   *)
(* unlinks the files one by one.                                           *)
(*                                                                         *)
(* Every await is a step boundary.  A row carries `rev`, which its         *)
(* fingerprint covers, and `kept`, which makes it ineligible (pinned,      *)
(* archived, too young).  A file is its identity on disk (inode, mtime,    *)
(* size) or Gone.  Bytes are counted in files, and the files of an item    *)
(* are removed in some fixed order.  The lock can be lost with its         *)
(* connection; the worker finds out at its next check().                   *)
(***************************************************************************)
EXTENDS Naturals, Sequences, FiniteSets, FiniteSetsExt

CONSTANTS
  Audits, Workers, Rows, Files,
  FilesOf,      \* the files of each row: the upload and its thumbnail
  Modes,        \* what the operator reviews: "pressure", "deleted"
  PageSize,     \* items fetched at a time (100 in the code)
  MaxChanges,   \* changes by users to rows, citations and files (bound)
  MaxFaults,    \* I/O errors, database errors and crashes (bound)
  MaxLosses,    \* lock connections lost (bound)
  NoWorker, NoAudit

ASSUME CleanupAssumption ==
  /\ FilesOf \in [Rows -> SUBSET Files]
  /\ Modes \subseteq {"pressure", "deleted"}
  /\ PageSize \in Nat \ {0}
  /\ MaxChanges \in Nat /\ MaxFaults \in Nat /\ MaxLosses \in Nat
  /\ NoWorker \notin Workers /\ NoAudit \notin Audits
  /\ Rows \cap Files = {}

VARIABLES
  row,      \* attachments and messages
  disk,     \* the uploads directory
  cited,    \* files something else refers to: avatars, previews, links
  audit,    \* storage_audits
  items,    \* storage_cleanup_items of each audit, by sequence
  lock,     \* holder of the advisory lock, as PostgreSQL sees it
  worker,   \* runs of executeCleanup
  owed,     \* history: files of deleted rows that are still to be removed
  raced,    \* history: runs whose file was replaced after they compared it
  changes, faults, losses

vars == <<row, disk, cited, audit, items, lock, worker, owed, raced,
          changes, faults, losses>>

-----------------------------------------------------------------------------
Gone == 0
Planned == [file : Files, identity : Nat]
Item == [kind : {"row", "disk"}, source : Rows \cup Files, rev : Nat,
         plan : SUBSET Planned, files : SUBSET Planned, freed : Nat,
         status : {"pending", "deleting", "done", "skipped"}]

AuditStatus == {"none", "pending", "audit_failed", "completed", "executing",
                "interrupted", "failed", "executed", "partial", "superseded",
                "dismissed"}

Steps == {"idle", "start", "mark", "page", "item", "claim", "locked", "files",
          "compare", "unlink", "record", "finish", "supersede", "failing", "release"}

WorkerState ==
  [pc : Steps, audit : Audits \cup {NoAudit}, expired : BOOLEAN,
   reached : BOOLEAN, page : SUBSET [at : Nat, seen : {"pending", "deleting"}],
   cursor : Nat, files : SUBSET Planned, freed : Nat, spare : BOOLEAN,
   lost : BOOLEAN]

NotRunning == [pc |-> "idle", audit |-> NoAudit, expired |-> FALSE,
               reached |-> FALSE, page |-> {}, cursor |-> 0, files |-> {},
               freed |-> 0, spare |-> FALSE, lost |-> FALSE]

TypeOK ==
  /\ row \in [Rows -> [there : BOOLEAN, rev : Nat, kept : BOOLEAN]]
  /\ disk \in [Files -> Nat]
  /\ cited \subseteq Files
  /\ audit \in [Audits -> [status : AuditStatus, expired : BOOLEAN,
                           mode : {"pressure", "deleted"}]]
  /\ items \in [Audits -> Seq(Item)]
  /\ lock \in Workers \cup {NoWorker}
  /\ worker \in [Workers -> WorkerState]
  /\ owed \subseteq Files /\ raced \subseteq Workers
  /\ changes \in 0..MaxChanges /\ faults \in 0..MaxFaults
  /\ losses \in 0..MaxLosses

Init ==
  /\ row = [r \in Rows |-> [there |-> TRUE, rev |-> 0, kept |-> FALSE]]
  /\ disk = [f \in Files |-> 1]
  /\ cited = {}
  /\ audit = [a \in Audits |->
                [status |-> "none", expired |-> FALSE, mode |-> "pressure"]]
  /\ items = [a \in Audits |-> << >>]
  /\ lock = NoWorker
  /\ worker = [w \in Workers |-> NotRunning]
  /\ owed = {} /\ raced = {}
  /\ changes = 0 /\ faults = 0 /\ losses = 0

-----------------------------------------------------------------------------
(* Plans and references.                                                   *)

FileNames(list) == {planned.file : planned \in list}

ItemsIn(a, status) == {k \in DOMAIN items[a] : items[a][k].status = status}

\* Another claimed item is removing the file.
BeingRemoved(f, a, k) ==
  \E b \in Audits : \E j \in ItemsIn(b, "deleting") :
    <<b, j>> # <<a, k>> /\ f \in FileNames(items[b][j].files)

OwnedBy(rows) == UNION {FilesOf[r] : r \in {q \in rows : row[q].there}}

\* Mutant: nobody looks for other references.
ReferencedByNobody(f, owners, a, k) == FALSE

\* referenced(): any row but the excluded ones, or another claimed item.
Referenced(f, owners, a, k) ==
  f \in cited \cup OwnedBy(Rows \ owners) \/ BeingRemoved(f, a, k)

InPlan(a) == UNION {FileNames(items[a][k].plan) : k \in DOMAIN items[a]}

\* The row is locked and read again: same fingerprint, still eligible.
Valid(item) ==
  item.kind = "row" =>
    LET now == row[item.source] IN now.there /\ now.rev = item.rev /\ ~now.kept

\* A reviewed file that is still there has kept its identity.
UnchangedFiles(list) ==
  \A planned \in list : disk[planned.file] \in {Gone, planned.identity}

-----------------------------------------------------------------------------
(* runAudit: nothing is deleted, the plan is written item by item.         *)

StartAudit(a, mode) ==
  /\ audit[a].status = "none"
  /\ audit' = [audit EXCEPT ![a] = [status |-> "pending", expired |-> FALSE,
                                    mode |-> mode]]
  /\ UNCHANGED <<row, disk, cited, items, lock, worker, owed, raced, changes, faults, losses>>

NewItem(kind, source, rev, list) ==
  [kind |-> kind, source |-> source, rev |-> rev, plan |-> list, files |-> list,
   freed |-> 0, status |-> "pending"]

Snapshot(f) == [file |-> f, identity |-> disk[f]]

PlanRow(a, r) ==
  LET wanted(f) == /\ disk[f] # Gone /\ f \notin InPlan(a)
                   /\ ~Referenced(f, {r}, a, 0)
      list == {Snapshot(f) : f \in {g \in FilesOf[r] : wanted(g)}}
  IN
  /\ audit[a].status = "pending"
  /\ row[r].there /\ ~row[r].kept
  /\ \A k \in DOMAIN items[a] : items[a][k].kind = "row" /\ items[a][k].source # r
  /\ items' = [items EXCEPT ![a] = Append(@, NewItem("row", r, row[r].rev, list))]
  /\ UNCHANGED <<row, disk, cited, audit, lock, worker, owed, raced, changes, faults, losses>>

PlanDisk(a, f) ==
  /\ audit[a].status = "pending" /\ audit[a].mode = "pressure"
  /\ disk[f] # Gone /\ f \notin InPlan(a) /\ ~Referenced(f, {}, a, 0)
  /\ items' = [items EXCEPT ![a] =
                 Append(@, NewItem("disk", f, 0, {Snapshot(f)}))]
  /\ UNCHANGED <<row, disk, cited, audit, lock, worker, owed, raced, changes, faults, losses>>

SetStatus(a, status) == audit' = [audit EXCEPT ![a].status = status]

CompleteAudit(a) ==
  /\ audit[a].status = "pending"
  /\ SetStatus(a, "completed")
  /\ UNCHANGED <<row, disk, cited, items, lock, worker, owed, raced, changes, faults, losses>>

FailAudit(a) ==
  /\ audit[a].status = "pending" /\ faults < MaxFaults
  /\ SetStatus(a, "audit_failed")
  /\ faults' = faults + 1
  /\ UNCHANGED <<row, disk, cited, items, lock, worker, owed, raced, changes, losses>>

\* A day passes, or the retention policy is changed.
Expire(a) ==
  /\ audit[a].status # "none" /\ ~audit[a].expired
  /\ audit' = [audit EXCEPT ![a].expired = TRUE]
  /\ UNCHANGED <<row, disk, cited, items, lock, worker, owed, raced, changes, faults, losses>>

-----------------------------------------------------------------------------
(* executeCleanup.                                                         *)

Now(w, pc) == worker[w].pc = pc

\* check() does not throw
Checked(w, pc) == Now(w, pc) /\ ~worker[w].lost

Goto(w, pc) == worker' = [worker EXCEPT ![w].pc = pc]

Plan(w) == items[worker[w].audit]

\* The page is gone through in the order of the plan.
First(page) == CHOOSE entry \in page :
                 \A other \in page : entry.at <= other.at
Seen(w) == First(worker[w].page).seen
At(w) == First(worker[w].page).at
Exists(w) == worker[w].page # {} /\ At(w) \in DOMAIN Plan(w)
Current(w) == Plan(w)[At(w)]

Update(w, item) == items' = [items EXCEPT ![worker[w].audit][At(w)] = item]

\* On to the next item of the page, or to the next page.
Advanced(w) ==
  LET rest == worker[w].page \ {First(worker[w].page)}
  IN  [worker[w] EXCEPT !.page = rest, !.cursor = At(w),
                        !.pc = IF rest = {} THEN "page" ELSE "item"]

NextItem(w) == worker' = [worker EXCEPT ![w] = Advanced(w)]

\* The files of a claimed item are worked on in local variables.
WorkOn(w, item) ==
  worker' = [worker EXCEPT ![w].pc = "files", ![w].files = item.files,
                           ![w].freed = item.freed]

Resumable(a) ==
  /\ audit[a].status \in {"failed", "interrupted", "executing"}
  /\ ItemsIn(a, "deleting") # {} \/ ~audit[a].expired

\* Mutant: an expired plan cannot be run, not even to recover.
ExecutableUnexpired(a) ==
  /\ audit[a].status \in {"completed", "failed", "executing", "interrupted"}
  /\ ~audit[a].expired

Executable(a) ==
  /\ audit[a].status \in {"completed", "failed", "executing", "interrupted"}
  /\ ItemsIn(a, "deleting") # {} \/ ~audit[a].expired

Acquire(w, a) ==
  /\ Now(w, "idle") /\ lock = NoWorker /\ Executable(a)
  /\ lock' = w
  /\ worker' = [worker EXCEPT ![w] = [NotRunning EXCEPT !.pc = "start",
                  !.audit = a, !.expired = audit[a].expired]]
  /\ UNCHANGED <<row, disk, cited, audit, items, owed, raced, changes, faults, losses>>

InterruptOthers(w) ==
  /\ Now(w, "start")
  /\ audit' = [a \in Audits |->
       IF a # worker[w].audit /\ audit[a].status = "executing"
       THEN [audit[a] EXCEPT !.status = "interrupted"] ELSE audit[a]]
  /\ Goto(w, "mark")
  /\ UNCHANGED <<row, disk, cited, items, lock, owed, raced, changes, faults, losses>>

MarkExecuting(w) ==
  /\ Now(w, "mark")
  /\ IF audit[worker[w].audit].status = "dismissed"
     THEN Goto(w, "release") /\ UNCHANGED audit
     ELSE SetStatus(worker[w].audit, "executing") /\ Goto(w, "page")
  /\ UNCHANGED <<row, disk, cited, items, lock, owed, raced, changes, faults, losses>>

Open(w) == {k \in DOMAIN Plan(w) : /\ k >= worker[w].cursor
                                   /\ Plan(w)[k].status \in {"pending", "deleting"}}

\* Prisma: rows that match from the cursor's position on, the first of them
\* skipped when there is a cursor.
FetchPage(w) ==
  LET skip == IF worker[w].cursor = 0 THEN 0 ELSE 1
      before(k) == Cardinality({j \in Open(w) : j < k})
      page == {k \in Open(w) : before(k) \in skip .. skip + PageSize - 1}
  IN
  /\ Now(w, "page")
  /\ worker' = [worker EXCEPT
       ![w].page = {[at |-> k, seen |-> Plan(w)[k].status] : k \in page},
       ![w].pc = IF page = {} THEN "finish" ELSE "item"]
  /\ UNCHANGED <<row, disk, cited, audit, items, lock, owed, raced, changes, faults, losses>>

\* In an expired run, and once usage is down to the target, what is not yet
\* claimed stays as it is.
PassOver(w) ==
  /\ Checked(w, "item") /\ Seen(w) = "pending"
  /\ worker[w].expired \/ audit[worker[w].audit].mode = "pressure"
  /\ worker' = [worker EXCEPT
       ![w] = [Advanced(w) EXCEPT !.reached = @ \/ ~worker[w].expired]]
  /\ UNCHANGED <<row, disk, cited, audit, items, lock, owed, raced, changes, faults, losses>>

TakeItem(w) ==
  /\ Checked(w, "item")
  /\ Seen(w) = "deleting" \/ (~worker[w].expired /\ ~worker[w].reached)
  /\ Goto(w, "claim")
  /\ UNCHANGED <<row, disk, cited, audit, items, lock, owed, raced, changes, faults, losses>>

\* First half of the claim: the item is read without a lock.
ReadItem(w) ==
  /\ Now(w, "claim")
  /\ \/ ~Exists(w) /\ Goto(w, "failing") /\ UNCHANGED items
     \/ /\ Exists(w) /\ Current(w).status = "deleting"
        /\ WorkOn(w, Current(w)) /\ UNCHANGED items
     \/ /\ Exists(w) /\ Current(w).status \in {"done", "skipped"}
        /\ NextItem(w) /\ UNCHANGED items
     \/ /\ Exists(w) /\ Current(w).status = "pending"
        /\ IF UnchangedFiles(Current(w).files)
           THEN Goto(w, "locked") /\ UNCHANGED items
           ELSE /\ Update(w, [Current(w) EXCEPT !.status = "skipped"])
                /\ NextItem(w)
  /\ UNCHANGED <<row, disk, cited, audit, lock, owed, raced, changes, faults, losses>>

\* Second half: under the row locks the row goes and the ownership of its files
\* is committed, whatever the item's status has become.
Claim(w) ==
  /\ Checked(w, "locked") /\ Exists(w)
  /\ IF Valid(Current(w))
     THEN LET claimed == [Current(w) EXCEPT !.status = "deleting"] IN
          /\ row' = [r \in Rows |->
               IF claimed.kind = "row" /\ r = claimed.source
               THEN [row[r] EXCEPT !.there = FALSE] ELSE row[r]]
          /\ Update(w, claimed)
          /\ WorkOn(w, claimed)
          /\ owed' = IF claimed.kind = "row" THEN owed \cup FileNames(claimed.files)
                                             ELSE owed
     ELSE /\ Update(w, [Current(w) EXCEPT !.status = "skipped"])
          /\ NextItem(w)
          /\ UNCHANGED <<row, owed>>
  /\ UNCHANGED <<disk, cited, audit, lock, raced, changes, faults, losses>>

NextFile(files) == CHOOSE planned \in files : TRUE

CheckReferences(w) ==
  /\ Checked(w, "files") /\ worker[w].files # {}
  /\ worker' = [worker EXCEPT ![w].pc = "compare",
       ![w].spare = Referenced(NextFile(worker[w].files).file, {},
                                  worker[w].audit, At(w))]
  /\ UNCHANGED <<row, disk, cited, audit, items, lock, owed, raced, changes, faults, losses>>

\* Mutant: the identity is not compared.
SameName(planned) == TRUE

SameFile(planned) == disk[planned.file] \in {Gone, planned.identity}

\* First half of deletePlannedFile: the file is looked at again and compared with
\* what was reviewed, if it is there.
Compare(w) ==
  /\ Checked(w, "compare")
  /\ IF worker[w].spare \/ SameFile(NextFile(worker[w].files))
     THEN Goto(w, "unlink") /\ raced' = raced \ {w}
     ELSE Goto(w, "failing") /\ UNCHANGED raced
  /\ UNCHANGED <<row, disk, cited, audit, items, lock, owed, changes, faults, losses>>

Freed(w, planned) ==
  IF worker[w].spare \/ disk[planned.file] = Gone THEN 0 ELSE 1

\* Second half: whatever has the name by now is unlinked, unless there are other
\* references; the file leaves the local list.
Unlink(w) ==
  LET planned == NextFile(worker[w].files) IN
  /\ Now(w, "unlink")
  /\ disk' = IF worker[w].spare THEN disk ELSE [disk EXCEPT ![planned.file] = Gone]
  /\ owed' = owed \ {planned.file}
  /\ worker' = [worker EXCEPT ![w].pc = "record", ![w].files = @ \ {planned},
                              ![w].freed = @ + Freed(w, planned)]
  /\ UNCHANGED <<row, cited, audit, items, lock, raced, changes, faults, losses>>

\* Mutant: an item counts as done with its first file.
RecordDone(w) ==
  /\ Now(w, "record")
  /\ IF Exists(w)
     THEN /\ Update(w, [Current(w) EXCEPT !.files = worker[w].files,
                              !.freed = worker[w].freed, !.status = "done"])
          /\ Goto(w, "files")
     ELSE Goto(w, "failing") /\ UNCHANGED items
  /\ UNCHANGED <<row, disk, cited, audit, lock, owed, raced, changes, faults, losses>>

\* Mutant: the running total is added to the item instead of replacing it.
RecordAdds(w) ==
  /\ Now(w, "record") /\ Exists(w)
  /\ Update(w, [Current(w) EXCEPT !.files = worker[w].files,
                                  !.freed = @ + worker[w].freed])
  /\ Goto(w, "files")
  /\ UNCHANGED <<row, disk, cited, audit, lock, owed, raced, changes, faults, losses>>

Record(w) ==
  /\ Now(w, "record")
  /\ IF Exists(w)
     THEN /\ Update(w, [Current(w) EXCEPT !.files = worker[w].files,
                                          !.freed = worker[w].freed])
          /\ Goto(w, "files")
     ELSE Goto(w, "failing") /\ UNCHANGED items
  /\ UNCHANGED <<row, disk, cited, audit, lock, owed, raced, changes, faults, losses>>

ItemDone(w) ==
  /\ Now(w, "files") /\ worker[w].files = {}
  /\ IF Exists(w)
     THEN Update(w, [Current(w) EXCEPT !.status = "done"]) /\ NextItem(w)
     ELSE Goto(w, "failing") /\ UNCHANGED items
  /\ UNCHANGED <<row, disk, cited, audit, lock, owed, raced, changes, faults, losses>>

\* Mutant: the audit is given the status of an item.
FinishDone(w) ==
  /\ Checked(w, "finish")
  /\ SetStatus(worker[w].audit, "done")
  /\ Goto(w, "supersede")
  /\ UNCHANGED <<row, disk, cited, items, lock, owed, raced, changes, faults, losses>>

Finish(w) ==
  /\ Checked(w, "finish")
  /\ IF audit[worker[w].audit].status = "dismissed"
     THEN Goto(w, "failing") /\ UNCHANGED audit
     ELSE /\ \/ SetStatus(worker[w].audit, "executed")
             \/ /\ audit[worker[w].audit].mode = "pressure"
                /\ SetStatus(worker[w].audit, "partial")
          /\ Goto(w, "supersede")
  /\ UNCHANGED <<row, disk, cited, items, lock, owed, raced, changes, faults, losses>>

\* Mutant: every plan that is not being executed is superseded.
SupersedeAll(w) ==
  /\ Now(w, "supersede")
  /\ audit' = [a \in Audits |->
       IF a # worker[w].audit /\ audit[a].status \in {"completed", "failed", "interrupted"}
       THEN [audit[a] EXCEPT !.status = "superseded"] ELSE audit[a]]
  /\ Goto(w, "release")
  /\ UNCHANGED <<row, disk, cited, items, lock, owed, raced, changes, faults, losses>>

Supersede(w) ==
  /\ Now(w, "supersede")
  /\ audit' = [a \in Audits |->
       IF a # worker[w].audit /\ audit[a].status = "completed"
       THEN [audit[a] EXCEPT !.status = "superseded"] ELSE audit[a]]
  /\ Goto(w, "release")
  /\ UNCHANGED <<row, disk, cited, items, lock, owed, raced, changes, faults, losses>>

\* check() throws once the loss of the lock connection has been noticed, and
\* a claim whose item is gone throws too.
Stop(w) ==
  /\ \/ worker[w].lost /\ worker[w].pc \in {"item", "locked", "compare", "finish"}
     \/ worker[w].lost /\ Now(w, "files") /\ worker[w].files # {}
     \/ Now(w, "locked") /\ ~Exists(w)
  /\ Goto(w, "failing")
  /\ UNCHANGED <<row, disk, cited, audit, items, lock, owed, raced, changes, faults, losses>>

RecordFailure(w) ==
  /\ Now(w, "failing")
  /\ IF audit[worker[w].audit].status = "dismissed"
     THEN UNCHANGED audit ELSE SetStatus(worker[w].audit, "failed")
  /\ Goto(w, "release")
  /\ UNCHANGED <<row, disk, cited, items, lock, owed, raced, changes, faults, losses>>

\* finally: the lock goes with the connection.
Release(w) ==
  /\ Now(w, "release")
  /\ lock' = IF lock = w THEN NoWorker ELSE lock
  /\ worker' = [worker EXCEPT ![w] = NotRunning]
  /\ UNCHANGED <<row, disk, cited, audit, items, owed, raced, changes, faults, losses>>

-----------------------------------------------------------------------------
(* Reading and dismissing audits, under the lock for the moment of it.     *)

ReadAudits ==
  /\ lock = NoWorker
  /\ \E a \in Audits : audit[a].status = "executing"
  /\ audit' = [a \in Audits |-> IF audit[a].status = "executing"
                                THEN [audit[a] EXCEPT !.status = "interrupted"]
                                ELSE audit[a]]
  /\ UNCHANGED <<row, disk, cited, items, lock, worker, owed, raced, changes, faults, losses>>

DeleteAudit(a) ==
  /\ lock = NoWorker
  /\ audit[a].status \notin {"none", "executing", "dismissed"}
  /\ ItemsIn(a, "deleting") = {}
  /\ SetStatus(a, "dismissed")
  /\ items' = [items EXCEPT ![a] = << >>]
  /\ UNCHANGED <<row, disk, cited, lock, worker, owed, raced, changes, faults, losses>>

-----------------------------------------------------------------------------
(* The rest of the server, and faults.                                     *)

Changed == changes < MaxChanges /\ changes' = changes + 1

\* A row is edited, attached, pinned or unpinned.
ChangeRow(r) ==
  /\ Changed /\ row[r].there
  /\ \/ row' = [row EXCEPT ![r].rev = @ + 1]
     \/ row' = [row EXCEPT ![r].kept = ~@]
  /\ UNCHANGED <<disk, cited, audit, items, lock, worker, owed, raced, faults, losses>>

\* Something starts or ceases to refer to an upload that is there.
ChangeCitation(f) ==
  /\ Changed /\ disk[f] # Gone
  /\ cited' = IF f \in cited THEN cited \ {f} ELSE cited \cup {f}
  /\ UNCHANGED <<row, disk, audit, items, lock, worker, owed, raced, faults, losses>>

\* A run has compared the file and is about to unlink it.
Unlinking(w, f) == Now(w, "unlink") /\ NextFile(worker[w].files).file = f

ReplaceFile(f) ==
  /\ Changed /\ disk[f] # Gone
  /\ disk' = [disk EXCEPT ![f] = @ + 1]
  /\ raced' = raced \cup {w \in Workers : Unlinking(w, f)}
  /\ UNCHANGED <<row, cited, audit, items, lock, worker, owed, faults, losses>>

\* A query, a transaction or a file operation fails inside the try block.
Throws(w) ==
  /\ faults < MaxFaults /\ faults' = faults + 1
  /\ worker[w].pc \in Steps \ {"idle", "start", "mark", "failing", "release"}
  /\ Goto(w, "failing")
  /\ UNCHANGED <<row, disk, cited, audit, items, lock, owed, raced, changes, losses>>

\* The failure itself cannot be recorded, or the process is gone.
WorkerGone(w) ==
  /\ faults < MaxFaults /\ faults' = faults + 1
  /\ ~Now(w, "idle")
  /\ lock' = IF lock = w THEN NoWorker ELSE lock
  /\ worker' = [worker EXCEPT ![w] = NotRunning]
  /\ UNCHANGED <<row, disk, cited, audit, items, owed, raced, changes, losses>>

LoseLock(w) ==
  /\ losses < MaxLosses /\ losses' = losses + 1
  /\ lock = w
  /\ lock' = NoWorker
  /\ UNCHANGED <<row, disk, cited, audit, items, worker, owed, raced, changes, faults>>

\* The client's error event.
Notice(w) ==
  /\ ~Now(w, "idle") /\ lock # w /\ ~worker[w].lost
  /\ worker' = [worker EXCEPT ![w].lost = TRUE]
  /\ UNCHANGED <<row, disk, cited, audit, items, lock, owed, raced, changes, faults, losses>>

-----------------------------------------------------------------------------
Run(w) ==
  \/ InterruptOthers(w) \/ MarkExecuting(w) \/ FetchPage(w) \/ PassOver(w)
  \/ TakeItem(w) \/ ReadItem(w) \/ Claim(w) \/ CheckReferences(w) \/ Compare(w) \/ Unlink(w)
  \/ Record(w) \/ ItemDone(w) \/ Finish(w) \/ Supersede(w) \/ Stop(w)
  \/ RecordFailure(w) \/ Release(w)

Audit(a) ==
  \/ \E mode \in Modes : StartAudit(a, mode)
  \/ \E r \in Rows : PlanRow(a, r)
  \/ \E f \in Files : PlanDisk(a, f)
  \/ CompleteAudit(a) \/ FailAudit(a) \/ Expire(a)

Next ==
  \/ \E a \in Audits : Audit(a) \/ DeleteAudit(a)
  \/ \E w \in Workers : \/ Run(w) \/ Throws(w) \/ WorkerGone(w) \/ LoseLock(w)
                        \/ Notice(w) \/ \E a \in Audits : Acquire(w, a)
  \/ ReadAudits
  \/ \E r \in Rows : ChangeRow(r)
  \/ \E f \in Files : ChangeCitation(f) \/ ReplaceFile(f)

Spec == Init /\ [][Next]_vars

\* A run goes on until it ends; the operator reads the audits again and
\* resumes one that can be resumed.
Resume(a) == Resumable(a) /\ \E w \in Workers : Acquire(w, a)

Fairness ==
  /\ \A w \in Workers : WF_vars(Run(w))
  /\ \A a \in Audits : SF_vars(Resume(a))

FairSpec == Spec /\ Fairness

-----------------------------------------------------------------------------
(* Properties.                                                             *)

\* docs/STORAGE_CLEANUP.md: "leave the remaining files in a durable retry
\* record even if their source message/attachment has already been removed":
\* whatever fails after a row is deleted, each of its files is gone, was found
\* to be in use, or is listed in an item that recovery will work on.
DurableRetry ==
  \A f \in owed : \E a \in Audits : \E k \in ItemsIn(a, "deleting") :
    f \in FileNames(items[a][k].files)

\* An item that owns file work can be resumed: its audit never reaches a status
\* from which it can neither be resumed nor dismissed.  A plan of several pages may
\* have passed the item over (see PurgeIsComplete) and ended as executed.
FitsAPage(a) == Len(items[a]) <= PageSize

Recoverable ==
  \A a \in Audits : FitsAPage(a) /\ ItemsIn(a, "deleting") # {} =>
    audit[a].status \in {"executing", "failed", "interrupted"}

\* A row that is still there keeps its files, whatever plans list them.
LiveFilesKept ==
  \A r \in Rows : row[r].there => \A f \in FilesOf[r] : disk[f] # Gone

\* "Freed-byte counters are conservative": the plans together never claim more
\* files than are gone, however often one was tried, planned or found missing.
FreedConservative ==
  LET all == UNION {{a} \X DOMAIN items[a] : a \in Audits}
  IN  MapThenSumSet(LAMBDA at : items[at[1]][at[2]].freed, all)
        <= Cardinality({f \in Files : disk[f] = Gone})

\* What is unlinked is a file of a claimed item with the identity that was
\* reviewed; the one exception is a file replaced between the comparison and the
\* unlink, which are several awaits apart (deletePlannedFile).
OnlyReviewedFilesGo ==
  [][\A f \in Files : disk[f] # Gone /\ disk'[f] = Gone =>
       \E a \in Audits : \E k \in ItemsIn(a, "deleting") :
         \E planned \in items[a][k].files :
           /\ planned.file = f
           /\ planned.identity = disk[f] \/ \E w \in raced : Unlinking(w, f)]_vars

\* Claimed file work is finished once faults stop and the operator resumes,
\* unless a file was replaced meanwhile.
RecoveryCompletes ==
  \A a \in Audits :
    ItemsIn(a, "deleting") # {} ~>
      \/ ItemsIn(a, "deleting") = {}
      \/ \E k \in ItemsIn(a, "deleting") : ~UnchangedFiles(items[a][k].files)

\* "explicitly purge the reviewed soft-deleted messages regardless of the byte
\* budget": an executed purge leaves no reviewed item behind.
PurgeIsComplete ==
  \A a \in Audits :
    /\ audit[a].status = "executed" /\ audit[a].mode = "deleted"
    /\ ~audit[a].expired
    => \A k \in DOMAIN items[a] : items[a][k].status \in {"done", "skipped"}
=============================================================================
