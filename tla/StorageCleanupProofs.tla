------------------------- MODULE StorageCleanupProofs -------------------------
(***************************************************************************)
(* Proofs about StorageCleanup, for all audits, workers, rows, files, page  *)
(* sizes and bounds.                                                       *)
(*                                                                         *)
(* The code relies on the advisory lock to have one run of executeCleanup  *)
(* at a time.  It has one as long as no lock connection is lost under a    *)
(* run (LockExcludes), and two runs at once do break the retry record (run *)
(* CleanupTwoWorkers).  What the plans promise is therefore proved of the  *)
(* behaviours with one run at a time; that live rows keep their files, and *)
(* that the counters of freed bytes are conservative, holds however many   *)
(* runs overlap.                                                           *)
(***************************************************************************)
EXTENDS StorageCleanup, TLAPS, FiniteSetTheorems, WellFoundedInduction

Active(w) == worker[w].pc # "idle"

OneRunAtATime == \A v, w \in Workers : Active(v) /\ Active(w) => v = w

-----------------------------------------------------------------------------
(* The inductive invariants.                                               *)

Inside == {"item", "claim", "locked", "files", "compare", "unlink", "record"}
Working == {"files", "compare", "unlink", "record"}
Removing == {"compare", "unlink"}
Going == Inside \cup {"page", "finish"}

\* A run has an audit, and inside the loop a page.
Shaped(w) ==
  /\ Active(w) => worker[w].audit \in Audits
  /\ worker[w].pc \in Inside => worker[w].page # {}

TypeInv == TypeOK /\ \A w \in Workers : Shaped(w)

\* While no lock connection was lost a run holds the lock.
LockInv == losses = 0 => \A w \in Workers : Active(w) => lock = w

\* Between the last look at the references and the unlink nothing can start to
\* own the file: rows only go.
Looked(w) ==
  worker[w].pc \in Removing /\ ~worker[w].spare =>
    NextFile(worker[w].files).file \notin OwnedBy(Rows)

\* A run that removes files works on a claimed item, on no other files than
\* the item's, and what it has taken off its list is no longer owed.
Claimed(w) ==
  /\ worker[w].pc \in Working =>
       /\ Exists(w) /\ Current(w).status = "deleting"
       /\ worker[w].files \subseteq Current(w).files
       /\ \A f \in FileNames(Current(w).files) :
            f \in FileNames(worker[w].files) \/ f \notin owed
  /\ Now(w, "locked") /\ Exists(w) => Current(w).status = "pending"
  /\ worker[w].pc \in Removing => worker[w].files # {}

\* What a run is about to unlink is what it compared, or was replaced since.
Compared(w) ==
  Now(w, "unlink") /\ ~worker[w].spare =>
    w \in raced \/ SameFile(NextFile(worker[w].files))

RetryInv == DurableRetry /\ \A w \in Workers : Claimed(w)

\* A run has every claimed item of its plan before it until it is finished
\* with it, if the plan fits a page.
Entry(k) == [at |-> k, seen |-> "deleting"]

Ahead(w) ==
  FitsAPage(worker[w].audit) =>
    \A k \in ItemsIn(worker[w].audit, "deleting") :
      /\ Now(w, "page") => worker[w].cursor = 0
      /\ worker[w].pc \in {"item", "claim", "locked"} => Entry(k) \in worker[w].page
      /\ worker[w].pc \in Working => k = At(w) \/ Entry(k) \in worker[w].page
      /\ ~Now(w, "finish")

Underway(w) ==
  /\ worker[w].pc \in {"start", "mark"} => worker[w].cursor = 0
  /\ worker[w].pc \in Going =>
       audit[worker[w].audit].status \in {"executing", "interrupted", "dismissed"}
  /\ Active(w) => Ahead(w)

DismissedIsEmpty ==
  \A a \in Audits : audit[a].status = "dismissed" => items[a] = << >>

RecoveryInv ==
  Recoverable /\ DismissedIsEmpty /\ \A w \in Workers : Underway(w)

-----------------------------------------------------------------------------
(* Operators.                                                              *)

\* A set of numbers that is not empty has a least one.
LEMMA LeastOf ==
  ASSUME NEW T, T \subseteq Nat, T # {}
  PROVE  \E m \in T : \A n \in T : m <= n
<1> DEFINE less == {pair \in Nat \X Nat : pair[1] < pair[2]}
<1>1. IsWellFoundedOn(less, Nat)
  BY NatLessThanWellFounded DEF OpToRel
<1>2. PICK m \in T : \A n \in T : ~(<<n, m>> \in less)
  <2> HIDE DEF less
  <2> QED BY <1>1, WFMin
<1>3. ASSUME NEW n \in T PROVE m <= n
  <2> SUFFICES ASSUME n < m PROVE FALSE
    OBVIOUS
  <2>1. <<n, m>> \in less
    OBVIOUS
  <2> QED BY <1>2, <2>1
<1> QED BY <1>3

\* A page that is not empty has a first entry.
LEMMA FirstIsThere ==
  ASSUME NEW page, page # {}, \A entry \in page : entry.at \in Nat
  PROVE  First(page) \in page
<1> DEFINE ats == {entry.at : entry \in page}
<1>1. ats \subseteq Nat /\ ats # {}
  OBVIOUS
<1>2. PICK least \in ats : \A other \in ats : least <= other
  <2> HIDE DEF ats
  <2> QED BY <1>1, LeastOf
<1>3. PICK entry \in page : entry.at = least
  OBVIOUS
<1>4. \A other \in page : entry.at <= other.at
  BY <1>2, <1>3
<1> QED BY <1>4 DEF First

LEMMA NextFileIsThere ==
  ASSUME NEW files, files # {}
  PROVE  NextFile(files) \in files
BY DEF NextFile

\* The first entry of a run's page is one of them.
LEMMA FirstOfPage ==
  ASSUME TypeOK, NEW w \in Workers, worker[w].page # {}
  PROVE  /\ First(worker[w].page) \in worker[w].page
         /\ At(w) \in Nat
<1>1. \A entry \in worker[w].page : entry.at \in Nat
  BY DEF TypeOK, WorkerState
<1>2. First(worker[w].page) \in worker[w].page
  BY <1>1, FirstIsThere
<1> QED BY <1>1, <1>2 DEF At

\* A write to one item of a plan.
LEMMA UpdatedItem ==
  ASSUME TypeOK, NEW w \in Workers, worker[w].audit \in Audits, Exists(w),
         NEW item \in Item, Update(w, item)
  PROVE  /\ items' \in [Audits -> Seq(Item)]
         /\ \A a \in Audits : DOMAIN items'[a] = DOMAIN items[a]
         /\ \A a \in Audits : Len(items'[a]) = Len(items[a])
         /\ items'[worker[w].audit][At(w)] = item
         /\ \A a \in Audits : \A k \in DOMAIN items[a] :
              a # worker[w].audit \/ k # At(w) => items'[a][k] = items[a][k]
<1> DEFINE b == worker[w].audit
           plan == [items[b] EXCEPT ![At(w)] = item]
<1>1. items \in [Audits -> Seq(Item)] /\ At(w) \in DOMAIN items[b]
  BY DEF TypeOK, Exists, Plan
<1>2. items' = [items EXCEPT ![b] = plan]
  BY DEF Update
<1>3. items[b] \in Seq(Item) BY <1>1
<1>4. plan \in Seq(Item) /\ DOMAIN plan = DOMAIN items[b] /\ Len(plan) = Len(items[b])
  BY <1>1, <1>3
<1>5. plan[At(w)] = item /\ \A k \in DOMAIN items[b] : k # At(w) => plan[k] = items[b][k]
  BY <1>1
<1> HIDE DEF plan
<1> QED BY <1>1, <1>2, <1>4, <1>5

\* An item written after the others.
LEMMA AppendedItem ==
  ASSUME TypeOK, NEW a \in Audits, NEW item \in Item,
         items' = [items EXCEPT ![a] = Append(@, item)]
  PROVE  /\ items' \in [Audits -> Seq(Item)]
         /\ Len(items'[a]) = Len(items[a]) + 1
         /\ items'[a][Len(items[a]) + 1] = item
         /\ \A k \in DOMAIN items[a] : items'[a][k] = items[a][k]
         /\ \A k \in DOMAIN items'[a] : k \in DOMAIN items[a] \/ k = Len(items[a]) + 1
         /\ \A k \in DOMAIN items[a] : k \in DOMAIN items'[a]
         /\ \A b \in Audits : b # a => items'[b] = items[b]
<1>1. items \in [Audits -> Seq(Item)] /\ items[a] \in Seq(Item)
  BY DEF TypeOK
<1>2. items'[a] = Append(items[a], item) /\ \A b \in Audits : b # a => items'[b] = items[b]
  BY <1>1
<1>3. Append(items[a], item) \in Seq(Item)
  BY <1>1
<1>4. items' \in [Audits -> Seq(Item)]
  BY <1>1, <1>2, <1>3
<1> QED BY <1>1, <1>2, <1>4

LEMMA CurrentItem ==
  ASSUME TypeOK, NEW w \in Workers, worker[w].audit \in Audits, Exists(w)
  PROVE  Current(w) \in Item
<1>1. items[worker[w].audit] \in Seq(Item)
  BY DEF TypeOK
<1> QED BY <1>1 DEF Exists, Current, Plan

-----------------------------------------------------------------------------
(* Types.                                                                  *)

LEMMA InitTypeInv == Init => TypeInv
<1> SUFFICES ASSUME Init PROVE TypeInv OBVIOUS
<1>1. TypeOK
  BY CleanupAssumption
  DEF Init, TypeOK, Gone, AuditStatus, WorkerState, NotRunning, Steps
<1>2. \A w \in Workers : Shaped(w)
  BY DEF Init, Shaped, Active, NotRunning, Inside
<1> QED BY <1>1, <1>2 DEF TypeInv

\* A step of one run leaves the others as they are; its record stays a record of
\* a run.
LEMMA OneWorkerMoves ==
  ASSUME TypeInv, NEW w \in Workers, NEW state \in WorkerState,
         worker' = [worker EXCEPT ![w] = state],
         state.pc # "idle" => state.audit \in Audits,
         state.pc \in Inside => state.page # {}
  PROVE  worker' \in [Workers -> WorkerState] /\ \A v \in Workers : Shaped(v)'
BY DEF TypeInv, TypeOK, Shaped, Active

\* Going on to the next item.
LEMMA AdvancedState ==
  ASSUME TypeInv, NEW w \in Workers, worker[w].pc \in Inside
  PROVE  /\ Advanced(w) \in WorkerState
         /\ Advanced(w).audit = worker[w].audit
         /\ Advanced(w).pc \in {"page", "item"}
         /\ Advanced(w).pc = "item" => Advanced(w).page # {}
<1>1. worker[w] \in WorkerState /\ worker[w].page # {} /\ worker[w].audit \in Audits
  BY DEF TypeInv, TypeOK, Shaped, Active, Inside
<1>2. At(w) \in Nat
  BY <1>1, FirstOfPage DEF TypeInv
<1> DEFINE rest == worker[w].page \ {First(worker[w].page)}
<1>3. rest \subseteq worker[w].page OBVIOUS
<1> HIDE DEF rest
<1> QED BY <1>1, <1>2, <1>3 DEF Advanced, WorkerState, Steps, rest

LEMMA GotoStep ==
  ASSUME TypeInv, NEW w \in Workers, NEW pc \in Steps, Goto(w, pc),
         pc # "idle" => worker[w].audit \in Audits,
         pc \in Inside => worker[w].page # {}
  PROVE  worker' \in [Workers -> WorkerState] /\ \A v \in Workers : Shaped(v)'
<1> DEFINE state == [worker[w] EXCEPT !.pc = pc]
<1>1. worker[w] \in WorkerState BY DEF TypeInv, TypeOK
<1>2. /\ state \in WorkerState /\ state.pc = pc
      /\ state.audit = worker[w].audit /\ state.page = worker[w].page
  BY <1>1 DEF WorkerState
<1>3. worker' = [worker EXCEPT ![w] = state]
  BY DEF Goto, TypeInv, TypeOK
<1> HIDE DEF state
<1> QED BY <1>2, <1>3, OneWorkerMoves

LEMMA NextItemStep ==
  ASSUME TypeInv, NEW w \in Workers, worker[w].pc \in Inside, NextItem(w)
  PROVE  worker' \in [Workers -> WorkerState] /\ \A v \in Workers : Shaped(v)'
<1>1. worker[w].audit \in Audits
  BY DEF TypeInv, Shaped, Active, Inside
<1> QED BY <1>1, AdvancedState, OneWorkerMoves DEF NextItem, Inside

LEMMA WorkOnStep ==
  ASSUME TypeInv, NEW w \in Workers, worker[w].pc \in Inside,
         NEW item \in Item, WorkOn(w, item)
  PROVE  worker' \in [Workers -> WorkerState] /\ \A v \in Workers : Shaped(v)'
<1> DEFINE state == [worker[w] EXCEPT !.pc = "files", !.files = item.files,
                                      !.freed = item.freed]
<1>1. worker[w] \in WorkerState /\ worker[w].audit \in Audits /\ worker[w].page # {}
  BY DEF TypeInv, TypeOK, Shaped, Active, Inside
<1>2. /\ state \in WorkerState /\ state.pc = "files"
      /\ state.audit = worker[w].audit /\ state.page = worker[w].page
  BY <1>1 DEF WorkerState, Item, Steps
<1>3. worker' = [worker EXCEPT ![w] = state]
  BY DEF WorkOn, TypeInv, TypeOK
<1> HIDE DEF state
<1> QED BY <1>1, <1>2, <1>3, OneWorkerMoves

LEMMA NotRunningStep ==
  ASSUME TypeInv, NEW w \in Workers, worker' = [worker EXCEPT ![w] = NotRunning]
  PROVE  worker' \in [Workers -> WorkerState] /\ \A v \in Workers : Shaped(v)'
<1>1. NotRunning \in WorkerState /\ NotRunning.pc = "idle"
  BY DEF NotRunning, WorkerState, Steps
<1> QED BY <1>1, OneWorkerMoves DEF Inside

LEMMA StatusType ==
  ASSUME TypeOK, NEW a \in Audits, NEW status \in AuditStatus, SetStatus(a, status)
  PROVE  audit' \in [Audits -> [status : AuditStatus, expired : BOOLEAN,
                               mode : {"pressure", "deleted"}]]
BY DEF TypeOK, SetStatus

-----------------------------------------------------------------------------
(* Every action keeps the types.                                           *)

LEMMA AuditTypeInv ==
  ASSUME TypeInv, NEW a \in Audits, Audit(a) \/ DeleteAudit(a)
  PROVE  TypeInv'
<1> USE DEF TypeInv
<1>0. ASSUME UNCHANGED worker PROVE \A w \in Workers : Shaped(w)'
  BY <1>0 DEF Shaped, Active
<1>1. ASSUME NEW mode \in Modes, StartAudit(a, mode) PROVE TypeInv'
  BY <1>0, <1>1, CleanupAssumption DEF StartAudit, TypeOK, AuditStatus
<1>2. ASSUME NEW r \in Rows, PlanRow(a, r) PROVE TypeInv'
  <2> DEFINE list == {Snapshot(f) : f \in {g \in FilesOf[r] :
                        disk[g] # Gone /\ g \notin InPlan(a) /\ ~Referenced(g, {r}, a, 0)}}
             item == NewItem("row", r, row[r].rev, list)
  <2>1. list \subseteq Planned
    BY CleanupAssumption DEF TypeOK, Snapshot, Planned
  <2>2. row[r].rev \in Nat BY DEF TypeOK
  <2> HIDE DEF list
  <2>3. item \in Item
    BY <2>1, <2>2 DEF NewItem, Item
  <2>4. items' = [items EXCEPT ![a] = Append(@, item)]
    BY <1>2 DEF PlanRow, list
  <2> HIDE DEF item
  <2>5. items' \in [Audits -> Seq(Item)]
    BY <2>3, <2>4, AppendedItem
  <2> QED BY <1>0, <1>2, <2>5 DEF PlanRow, TypeOK
<1>3. ASSUME NEW f \in Files, PlanDisk(a, f) PROVE TypeInv'
  <2> DEFINE item == NewItem("disk", f, 0, {Snapshot(f)})
  <2>1. item \in Item
    BY DEF NewItem, Item, TypeOK, Snapshot, Planned
  <2>2. items' = [items EXCEPT ![a] = Append(@, item)]
    BY <1>3 DEF PlanDisk
  <2> HIDE DEF item
  <2>3. items' \in [Audits -> Seq(Item)]
    BY <2>1, <2>2, AppendedItem
  <2> QED BY <1>0, <1>3, <2>3 DEF PlanDisk, TypeOK
<1>4. CASE CompleteAudit(a)
  BY <1>0, <1>4, StatusType DEF CompleteAudit, TypeOK, AuditStatus
<1>5. CASE FailAudit(a)
  BY <1>0, <1>5, StatusType, CleanupAssumption DEF FailAudit, TypeOK, AuditStatus
<1>6. CASE Expire(a)
  BY <1>0, <1>6 DEF Expire, TypeOK
<1>7. CASE DeleteAudit(a)
  <2>1. items' \in [Audits -> Seq(Item)]
    BY <1>7 DEF DeleteAudit, TypeOK
  <2> QED BY <1>0, <1>7, <2>1, StatusType DEF DeleteAudit, TypeOK, AuditStatus
<1> QED BY <1>1, <1>2, <1>3, <1>4, <1>5, <1>6, <1>7 DEF Audit

LEMMA OtherTypeInv ==
  ASSUME TypeInv,
         \/ ReadAudits
         \/ \E r \in Rows : ChangeRow(r)
         \/ \E f \in Files : ChangeCitation(f) \/ ReplaceFile(f)
  PROVE  TypeInv'
<1> USE DEF TypeInv
<1>0. ASSUME UNCHANGED worker PROVE \A w \in Workers : Shaped(w)'
  BY <1>0 DEF Shaped, Active
<1>1. CASE ReadAudits
  BY <1>0, <1>1 DEF ReadAudits, TypeOK, AuditStatus
<1>2. ASSUME NEW r \in Rows, ChangeRow(r) PROVE TypeInv'
  <2> DEFINE kept == ~row[r].kept
  <2>1. kept \in BOOLEAN OBVIOUS
  <2>2. row' = [row EXCEPT ![r].rev = @ + 1] \/ row' = [row EXCEPT ![r].kept = kept]
    BY <1>2 DEF ChangeRow
  <2> HIDE DEF kept
  <2>3. row' \in [Rows -> [there : BOOLEAN, rev : Nat, kept : BOOLEAN]]
    <3> DEFINE rows == [there : BOOLEAN, rev : Nat, kept : BOOLEAN]
               edited == [row[r] EXCEPT !.rev = @ + 1]
               pinned == [row[r] EXCEPT !.kept = kept]
    <3>1. row \in [Rows -> rows] /\ row[r] \in rows
      BY DEF TypeOK
    <3>2. edited \in rows BY <3>1
    <3>3. pinned \in rows BY <2>1, <3>1
    <3>4. row' = [row EXCEPT ![r] = edited] \/ row' = [row EXCEPT ![r] = pinned]
      BY <2>2, <3>1
    <3> HIDE DEF rows, edited, pinned
    <3>5. row' \in [Rows -> rows] BY <3>1, <3>2, <3>3, <3>4
    <3> QED BY <3>5 DEF rows
  <2>4. /\ Changed
        /\ UNCHANGED <<disk, cited, audit, items, lock, worker, owed, raced, faults, losses>>
    BY <1>2, Zenon DEF ChangeRow
  <2> QED BY <1>0, <2>3, <2>4, CleanupAssumption DEF Changed, TypeOK
<1>3. ASSUME NEW f \in Files, ChangeCitation(f) PROVE TypeInv'
  BY <1>0, <1>3, CleanupAssumption DEF ChangeCitation, Changed, TypeOK
<1>4. ASSUME NEW f \in Files, ReplaceFile(f) PROVE TypeInv'
  BY <1>0, <1>4, CleanupAssumption DEF ReplaceFile, Changed, TypeOK
<1> QED BY <1>1, <1>2, <1>3, <1>4

LEMMA WorkerTypeInv ==
  ASSUME TypeInv, NEW w \in Workers,
         \/ Run(w) \/ Throws(w) \/ WorkerGone(w) \/ LoseLock(w) \/ Notice(w)
         \/ \E a \in Audits : Acquire(w, a)
  PROVE  TypeInv'
<1> DEFINE Kept == worker' \in [Workers -> WorkerState] /\ \A v \in Workers : Shaped(v)'
<1> USE DEF TypeInv
<1>0. /\ worker[w] \in WorkerState /\ worker[w].pc \in Steps
      /\ worker[w].pc # "idle" => worker[w].audit \in Audits
      /\ worker[w].pc \in Inside => worker[w].page # {} /\ worker[w].pc # "idle"
  BY DEF TypeOK, WorkerState, Shaped, Active, Inside
<1>a. ASSUME NEW pc \in Steps \ (Inside \cup {"idle"}), Goto(w, pc),
             worker[w].pc # "idle"
      PROVE  Kept
  BY <1>0, <1>a, GotoStep
<1>b. ASSUME NEW pc \in Inside, Goto(w, pc), worker[w].pc \in Inside PROVE Kept
  BY <1>0, <1>b, GotoStep DEF Inside, Steps
<1>c. ASSUME worker[w].pc \in Inside, Exists(w), NEW status \in {"done", "skipped", "deleting"},
             Update(w, [Current(w) EXCEPT !.status = status])
      PROVE  items' \in [Audits -> Seq(Item)]
  <2>1. [Current(w) EXCEPT !.status = status] \in Item
    BY <1>0, <1>c, CurrentItem DEF Item
  <2> QED BY <1>0, <1>c, <2>1, UpdatedItem
<1> HIDE DEF Kept
<1>1. CASE InterruptOthers(w)
  <2>1. Kept BY <1>1, <1>a DEF InterruptOthers, Now, Steps, Inside
  <2> QED BY <1>1, <2>1 DEF InterruptOthers, TypeOK, AuditStatus, Kept
<1>2. CASE MarkExecuting(w)
  <2>1. Kept BY <1>2, <1>a DEF MarkExecuting, Now, Steps, Inside
  <2> QED BY <1>0, <1>2, <2>1, StatusType DEF MarkExecuting, Now, TypeOK, AuditStatus, Kept
<1>3. CASE FetchPage(w)
  <2> DEFINE skip == IF worker[w].cursor = 0 THEN 0 ELSE 1
             page == {k \in Open(w) : Cardinality({j \in Open(w) : j < k})
                                        \in skip .. skip + PageSize - 1}
             entries == {[at |-> k, seen |-> Plan(w)[k].status] : k \in page}
             pc == IF page = {} THEN "finish" ELSE "item"
             state == [worker[w] EXCEPT !.page = entries, !.pc = pc]
  <2>1. page \subseteq Open(w) OBVIOUS
  <2>2. \A k \in Open(w) : k \in Nat /\ Plan(w)[k].status \in {"pending", "deleting"}
    <3>1. Plan(w) \in Seq(Item)
      BY <1>0, <1>3 DEF FetchPage, Now, Plan, TypeOK
    <3> QED BY <3>1 DEF Open
  <2>3. worker' = [worker EXCEPT ![w] = state]
    BY <1>3 DEF FetchPage, TypeOK
  <2> HIDE DEF page
  <2>4. entries \subseteq [at : Nat, seen : {"pending", "deleting"}]
    BY <2>1, <2>2
  <2>5. page # {} => entries # {} OBVIOUS
  <2> HIDE DEF entries
  <2>6. /\ state \in WorkerState /\ state.pc = pc
        /\ state.audit = worker[w].audit /\ state.page = entries
    BY <1>0, <2>4 DEF WorkerState, Steps
  <2>7. Kept
    <3> HIDE DEF state
    <3> QED BY <1>0, <1>3, <2>3, <2>5, <2>6, OneWorkerMoves DEF FetchPage, Now, Inside, Kept
  <2> QED BY <1>3, <2>7 DEF FetchPage, TypeOK, Kept
<1>4. CASE PassOver(w)
  <2> DEFINE next == Advanced(w)
             reached == next.reached \/ ~worker[w].expired
             state == [next EXCEPT !.reached = reached]
  <2>1. worker[w].pc \in Inside
    BY <1>4 DEF PassOver, Checked, Now, Inside
  <2>2. /\ next \in WorkerState /\ next.audit = worker[w].audit
        /\ next.pc \in {"page", "item"} /\ (next.pc = "item" => next.page # {})
    BY <2>1, AdvancedState
  <2>3. worker' = [worker EXCEPT ![w] = state]
    BY <1>4 DEF PassOver
  <2>4. reached \in BOOLEAN OBVIOUS
  <2> HIDE DEF next, reached
  <2>5. /\ state \in WorkerState /\ state.pc = next.pc
        /\ state.audit = worker[w].audit /\ state.page = next.page
    BY <2>2, <2>4 DEF WorkerState
  <2> HIDE DEF state
  <2>6. Kept
    BY <1>0, <2>1, <2>2, <2>3, <2>5, OneWorkerMoves DEF Inside, Kept
  <2> QED BY <1>4, <2>6 DEF PassOver, TypeOK, Kept
<1>5. CASE TakeItem(w)
  <2>1. Kept BY <1>5, <1>b DEF TakeItem, Checked, Now, Inside
  <2> QED BY <1>5, <2>1 DEF TakeItem, TypeOK, Kept
<1>6. CASE ReadItem(w)
  <2>1. worker[w].pc \in Inside BY <1>6 DEF ReadItem, Now, Inside
  <2>2. Exists(w) => Current(w) \in Item
    BY <1>0, <2>1, CurrentItem
  <2>3. Kept
    BY <1>0, <1>6, <2>1, <2>2, <1>a, <1>b, NextItemStep, WorkOnStep
    DEF ReadItem, Steps, Inside, Kept
  <2>4. items' \in [Audits -> Seq(Item)]
    BY <1>6, <2>1, <1>c DEF ReadItem, TypeOK
  <2> QED BY <1>6, <2>3, <2>4 DEF ReadItem, TypeOK, Kept
<1>7. CASE Claim(w)
  <2>1. worker[w].pc \in Inside /\ Exists(w) BY <1>7 DEF Claim, Checked, Now, Inside
  <2>2. Current(w) \in Item
    BY <1>0, <2>1, CurrentItem
  <2>3. [Current(w) EXCEPT !.status = "deleting"] \in Item
    BY <2>2 DEF Item
  <2>4. Kept
    BY <1>7, <2>1, <2>3, NextItemStep, WorkOnStep DEF Claim, Kept
  <2>5. items' \in [Audits -> Seq(Item)]
    BY <1>7, <2>1, <1>c DEF Claim
  <2>6. row' \in [Rows -> [there : BOOLEAN, rev : Nat, kept : BOOLEAN]]
    <3>1. \A r \in Rows :
            [row[r] EXCEPT !.there = FALSE] \in [there : BOOLEAN, rev : Nat, kept : BOOLEAN]
      BY DEF TypeOK
    <3>2. CASE Valid(Current(w))
      BY <1>7, <3>1, <3>2 DEF Claim, TypeOK
    <3>3. CASE ~Valid(Current(w))
      BY <1>7, <3>3 DEF Claim, TypeOK
    <3> QED BY <3>2, <3>3
  <2>7. owed' \subseteq Files
    <3>1. FileNames([Current(w) EXCEPT !.status = "deleting"].files) \subseteq Files
      BY <2>2, <2>3 DEF FileNames, Item, Planned
    <3>2. owed \subseteq Files BY DEF TypeOK
    <3>3. CASE Valid(Current(w))
      BY <1>7, <3>1, <3>2, <3>3 DEF Claim
    <3>4. CASE ~Valid(Current(w))
      BY <1>7, <3>2, <3>4 DEF Claim
    <3> QED BY <3>3, <3>4
  <2> QED BY <1>7, <2>4, <2>5, <2>6, <2>7 DEF Claim, TypeOK, Kept
<1>8. CASE CheckReferences(w)
  <2> DEFINE spare == Referenced(NextFile(worker[w].files).file, {}, worker[w].audit, At(w))
             state == [worker[w] EXCEPT !.pc = "compare", !.spare = spare]
  <2>1. worker[w].pc \in Inside
    BY <1>8 DEF CheckReferences, Checked, Now, Inside
  <2>2. spare \in BOOLEAN BY DEF Referenced
  <2>3. worker' = [worker EXCEPT ![w] = state]
    BY <1>8 DEF CheckReferences, TypeOK
  <2> HIDE DEF spare
  <2>4. /\ state \in WorkerState
        /\ state.audit = worker[w].audit /\ state.page = worker[w].page
    BY <1>0, <2>2 DEF WorkerState, Steps
  <2> HIDE DEF state
  <2>5. Kept
    BY <1>0, <2>1, <2>3, <2>4, OneWorkerMoves DEF Kept
  <2> QED BY <1>8, <2>5 DEF CheckReferences, TypeOK, Kept
<1>9. CASE Unlink(w)
  <2> DEFINE planned == NextFile(worker[w].files)
             rest == worker[w].files \ {planned}
             freed == worker[w].freed + Freed(w, planned)
             state == [worker[w] EXCEPT !.pc = "record", !.files = rest, !.freed = freed]
  <2>1. worker[w].pc \in Inside
    BY <1>9 DEF Unlink, Now, Inside
  <2>2. rest \subseteq Planned /\ freed \in Nat
    BY <1>0 DEF WorkerState, Freed
  <2>3. worker' = [worker EXCEPT ![w] = state]
    BY <1>9 DEF Unlink, TypeOK
  <2> HIDE DEF rest, freed
  <2>4. /\ state \in WorkerState
        /\ state.audit = worker[w].audit /\ state.page = worker[w].page
    BY <1>0, <2>2 DEF WorkerState, Steps
  <2> HIDE DEF state
  <2>5. Kept
    BY <1>0, <2>1, <2>3, <2>4, OneWorkerMoves DEF Kept
  <2>6. /\ disk' = disk \/ disk' = [disk EXCEPT ![planned.file] = 0]
        /\ owed' \subseteq owed
    BY <1>9 DEF Unlink, Gone
  <2>7. disk' \in [Files -> Nat] /\ owed' \subseteq Files
    BY <2>6 DEF TypeOK
  <2> QED BY <1>9, <2>5, <2>7 DEF Unlink, TypeOK, Kept
<1>10. CASE Record(w)
  <2>1. worker[w].pc \in Inside BY <1>10 DEF Record, Now, Inside
  <2>2. Kept BY <1>0, <1>10, <2>1, <1>a, <1>b DEF Record, Inside, Steps
  <2>3. items' \in [Audits -> Seq(Item)]
    <3>1. CASE Exists(w)
      <4> DEFINE item == [Current(w) EXCEPT !.files = worker[w].files,
                                            !.freed = worker[w].freed]
      <4>1. item \in Item
        BY ZenonT(30), <1>0, <2>1, <3>1, CurrentItem DEF Item, WorkerState
      <4> QED BY <1>0, <1>10, <2>1, <3>1, <4>1, UpdatedItem DEF Record
    <3>2. CASE ~Exists(w)
      BY <1>10, <3>2 DEF Record, TypeOK
    <3> QED BY <3>1, <3>2
  <2> QED BY <1>10, <2>2, <2>3 DEF Record, TypeOK, Kept
<1>11. CASE ItemDone(w)
  <2>1. worker[w].pc \in Inside BY <1>11 DEF ItemDone, Now, Inside
  <2>2. Kept BY <1>0, <1>11, <2>1, <1>a, NextItemStep DEF ItemDone, Inside, Steps, Kept
  <2>3. items' \in [Audits -> Seq(Item)]
    BY <1>11, <2>1, <1>c DEF ItemDone, TypeOK
  <2> QED BY <1>11, <2>2, <2>3 DEF ItemDone, TypeOK, Kept
<1>12. CASE Finish(w)
  <2>1. Kept BY <1>12, <1>a DEF Finish, Checked, Now, Steps, Inside
  <2> QED BY <1>0, <1>12, <2>1, StatusType DEF Finish, Checked, Now, TypeOK, AuditStatus, Kept
<1>13. CASE Supersede(w)
  <2>1. Kept BY <1>13, <1>a DEF Supersede, Now, Steps, Inside
  <2> QED BY <1>13, <2>1 DEF Supersede, TypeOK, AuditStatus, Kept
<1>14. CASE Stop(w)
  <2>1. Kept BY <1>14, <1>a DEF Stop, Now, Steps, Inside
  <2> QED BY <1>14, <2>1 DEF Stop, TypeOK, Kept
<1>15. CASE RecordFailure(w)
  <2>1. Kept BY <1>15, <1>a DEF RecordFailure, Now, Steps, Inside
  <2> QED BY <1>0, <1>15, <2>1, StatusType DEF RecordFailure, Now, TypeOK, AuditStatus, Kept
<1>16. CASE Release(w)
  <2>1. Kept BY <1>16, NotRunningStep DEF Release, Kept
  <2> QED BY <1>16, <2>1 DEF Release, TypeOK, Kept
<1>17. CASE Throws(w)
  <2>1. Kept BY <1>17, <1>a DEF Throws, Steps, Inside
  <2> QED BY <1>17, <2>1, CleanupAssumption DEF Throws, TypeOK, Kept
<1>18. CASE WorkerGone(w)
  <2>1. Kept BY <1>18, NotRunningStep DEF WorkerGone, Kept
  <2> QED BY <1>18, <2>1, CleanupAssumption DEF WorkerGone, TypeOK, Kept
<1>19. CASE LoseLock(w)
  <2>1. \A v \in Workers : Shaped(v)'
    BY <1>19 DEF LoseLock, Shaped, Active
  <2> QED BY <1>19, <2>1, CleanupAssumption DEF LoseLock, TypeOK
<1>20. CASE Notice(w)
  <2> DEFINE state == [worker[w] EXCEPT !.lost = TRUE]
  <2>1. worker' = [worker EXCEPT ![w] = state]
    BY <1>20 DEF Notice, TypeOK
  <2>2. /\ state \in WorkerState /\ state.pc = worker[w].pc
        /\ state.audit = worker[w].audit /\ state.page = worker[w].page
    BY <1>0 DEF WorkerState
  <2> HIDE DEF state
  <2>3. Kept BY <1>0, <2>1, <2>2, OneWorkerMoves DEF Kept
  <2> QED BY <1>20, <2>3 DEF Notice, TypeOK, Kept
<1>21. ASSUME NEW a \in Audits, Acquire(w, a) PROVE TypeInv'
  <2> DEFINE state == [NotRunning EXCEPT !.pc = "start", !.audit = a,
                                         !.expired = audit[a].expired]
  <2>1. worker' = [worker EXCEPT ![w] = state]
    BY <1>21 DEF Acquire
  <2>2. state \in WorkerState /\ state.pc = "start" /\ state.audit = a
    BY DEF NotRunning, WorkerState, TypeOK, Steps
  <2> HIDE DEF state
  <2>3. Kept BY <2>1, <2>2, OneWorkerMoves DEF Kept, Inside
  <2> QED BY <1>21, <2>3 DEF Acquire, TypeOK, Kept
<1>22. CASE Compare(w)
  <2>1. Kept
    BY <1>0, <1>22, <1>a, <1>b DEF Compare, Checked, Now, Steps, Inside
  <2>2. raced' \subseteq Workers
    BY <1>22 DEF Compare, TypeOK
  <2> QED BY <1>22, <2>1, <2>2 DEF Compare, TypeOK, Kept
<1> QED
  BY <1>1, <1>2, <1>3, <1>4, <1>5, <1>6, <1>7, <1>8, <1>9, <1>10, <1>11, <1>12,
     <1>13, <1>14, <1>15, <1>16, <1>17, <1>18, <1>19, <1>20, <1>21, <1>22 DEF Run

LEMMA TypeInvStep == TypeInv /\ [Next]_vars => TypeInv'
<1>1. CASE UNCHANGED vars
  BY <1>1 DEF vars, TypeInv, TypeOK, Shaped, Active
<1>2. CASE Next
  BY <1>2, AuditTypeInv, WorkerTypeInv, OtherTypeInv DEF Next
<1> QED BY <1>1, <1>2

\* The state has the declared types, for any number of audits, workers, rows and
\* files.
THEOREM TypesHold == Spec => []TypeOK
<1>1. Spec => []TypeInv
  BY InitTypeInv, TypeInvStep, PTL DEF Spec
<1> QED BY <1>1, PTL DEF TypeInv

-----------------------------------------------------------------------------
(* What a step can do.                                                     *)

Pursues(w) ==
  \/ Run(w) \/ Throws(w) \/ WorkerGone(w) \/ LoseLock(w) \/ Notice(w)
  \/ \E a \in Audits : Acquire(w, a)

\* The steps of a run that write an item or take a file off its list.
OnItem(w) == ReadItem(w) \/ Claim(w) \/ Unlink(w) \/ Record(w) \/ ItemDone(w)

\* A run goes on as it was, or has only noticed the loss of its lock.
SameWork(w) ==
  /\ worker'[w].pc = worker[w].pc /\ worker'[w].audit = worker[w].audit
  /\ worker'[w].page = worker[w].page /\ worker'[w].cursor = worker[w].cursor
  /\ worker'[w].files = worker[w].files /\ worker'[w].spare = worker[w].spare
  /\ worker'[w].freed = worker[w].freed

\* Claimed items stay as they are, and only pending ones are new.
PlansKept ==
  /\ \A a \in Audits : \A k \in ItemsIn(a, "deleting") :
       k \in DOMAIN items'[a] /\ items'[a][k] = items[a][k]
  /\ \A a \in Audits : \A k \in DOMAIN items'[a] :
       \/ k \in DOMAIN items[a] /\ items'[a][k] = items[a][k]
       \/ items'[a][k].status = "pending" /\ items'[a][k].freed = 0
  /\ \A a \in Audits : Len(items'[a]) >= Len(items[a]) \/ items'[a] = << >>

LEMMA OthersStay ==
  ASSUME TypeInv, NEW w \in Workers, Pursues(w), NEW v \in Workers, v # w
  PROVE  worker'[v] = worker[v]
<1>1. worker \in [Workers -> WorkerState]
  BY DEF TypeInv, TypeOK
<1>2. UNCHANGED worker \/ \E state : worker' = [worker EXCEPT ![w] = state]
  BY ZenonT(30), <1>1
  DEF Pursues, Run, Throws, WorkerGone, LoseLock, Notice, Acquire,
     InterruptOthers, MarkExecuting, FetchPage, PassOver, TakeItem, ReadItem, Claim,
     CheckReferences, Compare, Unlink, Record, ItemDone, Finish, Supersede, Stop,
     RecordFailure, Release, Goto, WorkOn, NextItem
<1> QED BY <1>1, <1>2

\* A step that is no run's leaves every run as it is.
LEMMA RunsStay ==
  ASSUME TypeInv, [Next]_vars
  PROVE  UNCHANGED worker \/ \E w \in Workers : Pursues(w)
BY DEF Next, vars, Pursues, Audit, StartAudit, PlanRow, PlanDisk, CompleteAudit,
   FailAudit, Expire, DeleteAudit, ReadAudits, ChangeRow, ChangeCitation, ReplaceFile

\* How a step without a write to an item moves its run.
LEMMA QuietMove ==
  ASSUME TypeInv, NEW w \in Workers, Pursues(w), ~OnItem(w)
  PROVE  \/ SameWork(w)
         \/ CheckReferences(w) /\ worker'[w].pc = "compare"
         \/ Compare(w) /\ worker'[w].pc = "unlink" /\ Goto(w, "unlink")
         \/ worker'[w].pc \in {"idle", "start", "mark", "page", "item", "claim",
                              "finish", "supersede", "failing", "release"}
<1>1. worker \in [Workers -> WorkerState] /\ worker[w] \in WorkerState
  BY DEF TypeInv, TypeOK
<1>2. ASSUME NEW pc, Goto(w, pc) PROVE worker'[w].pc = pc
  BY <1>1, <1>2 DEF Goto, WorkerState
<1>3. CASE InterruptOthers(w) \/ MarkExecuting(w) \/ TakeItem(w) \/ Finish(w)
           \/ Supersede(w) \/ Stop(w) \/ RecordFailure(w) \/ Throws(w)
  BY <1>2, <1>3 DEF InterruptOthers, MarkExecuting, TakeItem, Finish, Supersede,
     Stop, RecordFailure, Throws
<1>4. CASE FetchPage(w)
  BY <1>1, <1>4 DEF FetchPage, WorkerState
<1>5. CASE PassOver(w)
  <2>1. worker[w].pc \in Inside BY <1>5 DEF PassOver, Checked, Now, Inside
  <2>2. Advanced(w) \in WorkerState /\ Advanced(w).pc \in {"page", "item"}
    BY <2>1, AdvancedState
  <2> QED BY <1>1, <1>5, <2>2 DEF PassOver, WorkerState
<1>6. CASE CheckReferences(w)
  BY <1>1, <1>6 DEF CheckReferences, WorkerState
<1>7. CASE Release(w) \/ WorkerGone(w)
  BY <1>1, <1>7 DEF Release, WorkerGone, NotRunning
<1>8. CASE LoseLock(w) \/ Notice(w)
  BY <1>1, <1>8 DEF LoseLock, Notice, SameWork, WorkerState
<1>9. ASSUME NEW a \in Audits, Acquire(w, a) PROVE worker'[w].pc = "start"
  BY <1>1, <1>9 DEF Acquire, NotRunning
<1>10. CASE Compare(w)
  <2>1. Goto(w, "unlink") \/ Goto(w, "failing")
    BY <1>10 DEF Compare
  <2> QED BY <1>2, <1>10, <2>1
<1> QED BY <1>3, <1>4, <1>5, <1>6, <1>7, <1>8, <1>9, <1>10 DEF Pursues, Run, OnItem

LEMMA QuietPlans ==
  ASSUME TypeInv, [Next]_vars, \A w \in Workers : ~OnItem(w)
  PROVE  PlansKept /\ owed' = owed
<1>1. items \in [Audits -> Seq(Item)]
  BY DEF TypeInv, TypeOK
<1>2. CASE UNCHANGED <<items, owed>>
  <2>1. \A a \in Audits : Len(items[a]) \in Nat BY <1>1
  <2> QED BY <1>2, <2>1 DEF PlansKept, ItemsIn
<1>a. ASSUME NEW a \in Audits, NEW item, item.status = "pending", item.freed = 0,
             items' = [items EXCEPT ![a] = Append(@, item)]
      PROVE  PlansKept
  <2>1. items[a] \in Seq(Item) /\ items'[a] = Append(items[a], item)
    BY <1>1, <1>a
  <2>2. \A b \in Audits : b # a => items'[b] = items[b]
    BY <1>1, <1>a
  <2>3. \A k \in DOMAIN items[a] : k \in DOMAIN items'[a] /\ items'[a][k] = items[a][k]
    BY <2>1
  <2>4. \A k \in DOMAIN items'[a] : k \in DOMAIN items[a] \/ items'[a][k] = item
    BY <2>1
  <2>5. \A b \in Audits : Len(items'[b]) >= Len(items[b])
    <3>1. Len(items'[a]) = Len(items[a]) + 1 BY <2>1
    <3>2. \A b \in Audits : Len(items[b]) \in Nat BY <1>1
    <3> QED BY <2>2, <3>1, <3>2
  <2> QED BY <1>a, <2>2, <2>3, <2>4, <2>5 DEF PlansKept, ItemsIn
<1>3. ASSUME NEW a \in Audits, NEW r \in Rows, PlanRow(a, r)
      PROVE PlansKept /\ owed' = owed
  <2> DEFINE list == {Snapshot(f) : f \in {g \in FilesOf[r] :
                        disk[g] # Gone /\ g \notin InPlan(a) /\ ~Referenced(g, {r}, a, 0)}}
             item == NewItem("row", r, row[r].rev, list)
  <2>1. items' = [items EXCEPT ![a] = Append(@, item)] /\ owed' = owed
    BY <1>3 DEF PlanRow
  <2>2. item.status = "pending" /\ item.freed = 0 BY DEF NewItem
  <2> HIDE DEF item
  <2> QED BY <1>a, <2>1, <2>2
<1>4. ASSUME NEW a \in Audits, NEW f \in Files, PlanDisk(a, f)
      PROVE PlansKept /\ owed' = owed
  <2> DEFINE item == NewItem("disk", f, 0, {Snapshot(f)})
  <2>1. items' = [items EXCEPT ![a] = Append(@, item)] /\ owed' = owed
    BY <1>4 DEF PlanDisk
  <2>2. item.status = "pending" /\ item.freed = 0 BY DEF NewItem
  <2> HIDE DEF item
  <2> QED BY <1>a, <2>1, <2>2
<1>5. ASSUME NEW a \in Audits, DeleteAudit(a)
      PROVE PlansKept /\ owed' = owed
  <2>1. \A b \in Audits : Len(items[b]) \in Nat BY <1>1
  <2>2. /\ items'[a] = << >> /\ ItemsIn(a, "deleting") = {} /\ owed' = owed
        /\ \A b \in Audits : b # a => items'[b] = items[b]
    BY <1>1, <1>5 DEF DeleteAudit
  <2> QED BY <2>1, <2>2 DEF PlansKept, ItemsIn
<1>6. ASSUME NEW w \in Workers, Run(w) PROVE UNCHANGED <<items, owed>>
  BY <1>6
  DEF Run, OnItem, InterruptOthers, MarkExecuting, FetchPage, PassOver, TakeItem,
      CheckReferences, Compare, Finish, Supersede, Stop, RecordFailure, Release
<1>7. ASSUME NEW w \in Workers,
             Throws(w) \/ WorkerGone(w) \/ LoseLock(w) \/ Notice(w)
               \/ \E a \in Audits : Acquire(w, a)
      PROVE  UNCHANGED <<items, owed>>
  BY <1>7 DEF Throws, WorkerGone, LoseLock, Notice, Acquire
<1>8. ASSUME NEW a \in Audits, Audit(a)
      PROVE  \/ UNCHANGED <<items, owed>>
             \/ \E r \in Rows : PlanRow(a, r)
             \/ \E f \in Files : PlanDisk(a, f)
  BY <1>8 DEF Audit, StartAudit, CompleteAudit, FailAudit, Expire
<1>9. ReadAudits \/ (\E r \in Rows : ChangeRow(r))
        \/ (\E f \in Files : ChangeCitation(f) \/ ReplaceFile(f))
        => UNCHANGED <<items, owed>>
  BY DEF ReadAudits, ChangeRow, ChangeCitation, ReplaceFile
<1>10. (PlansKept /\ owed' = owed) \/ UNCHANGED <<items, owed>>
  BY <1>3, <1>4, <1>5, <1>6, <1>7, <1>8, <1>9 DEF Next, vars
<1> QED
  BY <1>2, <1>10

-----------------------------------------------------------------------------
(* The lock.                                                               *)

LEMMA LockInvStep == TypeInv /\ LockInv /\ [Next]_vars => LockInv'
<1> SUFFICES ASSUME TypeInv, LockInv, [Next]_vars, losses' = 0,
                    NEW v \in Workers, Active(v)'
             PROVE  lock' = v
  BY DEF LockInv
<1>0. losses \in Nat /\ worker \in [Workers -> WorkerState] /\ lock \in Workers \cup {NoWorker}
  BY CleanupAssumption DEF TypeInv, TypeOK
<1>a. \A w \in Workers : ~LoseLock(w)
  BY <1>0 DEF LoseLock
<1>1. losses = 0
  BY ZenonT(30), <1>0, <1>a DEF Next, vars, Run, Throws, WorkerGone, Notice, Acquire,
     InterruptOthers, MarkExecuting, FetchPage, PassOver, TakeItem, ReadItem, Claim,
     CheckReferences, Compare, Unlink, Record, ItemDone, Finish, Supersede, Stop,
     RecordFailure, Release, Audit, StartAudit, PlanRow, PlanDisk, CompleteAudit,
     FailAudit, Expire, DeleteAudit, ReadAudits, ChangeRow, ChangeCitation, ReplaceFile
<1>2. CASE UNCHANGED <<worker, lock>>
  BY <1>1, <1>2 DEF LockInv, Active
<1>3. ASSUME NEW w \in Workers, NEW a \in Audits, Acquire(w, a) PROVE lock' = v
  <2>1. v = w
    BY <1>0, <1>1, <1>3, CleanupAssumption DEF Acquire, LockInv, Active
  <2> QED BY <1>3, <2>1 DEF Acquire
<1>4. ASSUME NEW w \in Workers, Release(w) \/ WorkerGone(w) PROVE lock' = v
  <2>1. v # w
    BY <1>0, <1>4 DEF Release, WorkerGone, Active, NotRunning
  <2>2. Active(v)
    BY <1>0, <1>4, <2>1 DEF Release, WorkerGone, Active
  <2>3. lock = v BY <1>1, <2>2 DEF LockInv
  <2> QED BY <1>4, <2>1, <2>3 DEF Release, WorkerGone
<1>5. ASSUME NEW w \in Workers, Run(w) \/ Throws(w) \/ Notice(w), ~Release(w)
      PROVE  lock' = v
  <2>1. UNCHANGED lock /\ ~Now(w, "idle")
    BY <1>5 DEF Run, Throws, Notice, Now, Checked, Steps,
       InterruptOthers, MarkExecuting, FetchPage, PassOver, TakeItem, ReadItem, Claim,
       CheckReferences, Compare, Unlink, Record, ItemDone, Finish, Supersede, Stop,
       RecordFailure
  <2>2. v # w => worker'[v] = worker[v]
    BY <1>5, OthersStay DEF Pursues
  <2>3. Active(v)
    BY <2>1, <2>2 DEF Active, Now
  <2> QED BY <1>1, <2>1, <2>3 DEF LockInv
<1> QED
  BY <1>a, <1>1, <1>2, <1>3, <1>4, <1>5
  DEF Next, vars, Audit, StartAudit, PlanRow, PlanDisk, CompleteAudit,
     FailAudit, Expire, DeleteAudit, ReadAudits, ChangeRow, ChangeCitation, ReplaceFile

\* As long as PostgreSQL drops no lock connection there is one run at a time:
\* executeCleanup works only between its acquisition and its release.
THEOREM LockExcludes == Spec => [](losses = 0 => OneRunAtATime)
<1>1. Init => LockInv
  BY DEF Init, LockInv, Active, NotRunning
<1>2. LockInv => (losses = 0 => OneRunAtATime)
  BY DEF LockInv, OneRunAtATime
<1> QED BY <1>1, <1>2, InitTypeInv, TypeInvStep, LockInvStep, PTL DEF Spec

-----------------------------------------------------------------------------
(* Live rows keep their files, however many runs overlap.                  *)

LEMMA RowsOnlyGo ==
  ASSUME TypeInv, [Next]_vars, NEW r \in Rows, row'[r].there
  PROVE  row[r].there
<1>0. row \in [Rows -> [there : BOOLEAN, rev : Nat, kept : BOOLEAN]]
  BY DEF TypeInv, TypeOK
<1>1. CASE UNCHANGED row BY <1>1
<1>2. ASSUME NEW w \in Workers, Claim(w) PROVE row[r].there
  <2>1. CASE Valid(Current(w))
    BY <1>0, <1>2, <2>1 DEF Claim
  <2>2. CASE ~Valid(Current(w))
    BY <1>2, <2>2 DEF Claim
  <2> QED BY <2>1, <2>2
<1>3. ASSUME NEW q \in Rows, ChangeRow(q) PROVE row[r].there
  <2>1. row[q].there BY <1>3 DEF ChangeRow
  <2>2. q # r => row'[r] = row[r] BY <1>0, <1>3 DEF ChangeRow
  <2> QED BY <2>1, <2>2
<1> QED
  BY ZenonT(30), <1>1, <1>2, <1>3
  DEF Next, vars, Run, Throws, WorkerGone, LoseLock, Notice, Acquire,
     InterruptOthers, MarkExecuting, FetchPage, PassOver, TakeItem, ReadItem,
     CheckReferences, Compare, Unlink, Record, ItemDone, Finish, Supersede, Stop,
     RecordFailure, Release, Audit, StartAudit, PlanRow, PlanDisk, CompleteAudit,
     FailAudit, Expire, DeleteAudit, ReadAudits, ChangeCitation, ReplaceFile

LEMMA FilesGoByUnlink ==
  ASSUME TypeInv, [Next]_vars, NEW f \in Files, disk[f] # Gone, disk'[f] = Gone
  PROVE  \E w \in Workers :
           /\ Unlink(w) /\ Now(w, "unlink") /\ ~worker[w].spare
           /\ NextFile(worker[w].files).file = f
<1>0. disk \in [Files -> Nat]
  BY DEF TypeInv, TypeOK
<1>1. PICK w \in Workers : Unlink(w)
  <2>1. disk' # disk OBVIOUS
  <2>2. \A g \in Files : ~ReplaceFile(g)
    BY <1>0 DEF ReplaceFile, Gone
  <2> QED
    BY ZenonT(30), <2>1, <2>2
    DEF Next, vars, Run, Throws, WorkerGone, LoseLock, Notice, Acquire,
       InterruptOthers, MarkExecuting, FetchPage, PassOver, TakeItem, ReadItem, Claim,
       CheckReferences, Compare, Record, ItemDone, Finish, Supersede, Stop,
       RecordFailure, Release, Audit, StartAudit, PlanRow, PlanDisk, CompleteAudit,
       FailAudit, Expire, DeleteAudit, ReadAudits, ChangeRow, ChangeCitation
<1>2. /\ Now(w, "unlink") /\ ~worker[w].spare
      /\ NextFile(worker[w].files).file = f
  BY <1>0, <1>1 DEF Unlink
<1> QED BY <1>1, <1>2

\* A run comes to unlink a file by looking at its references and comparing it.
LEMMA UnlinkBegins ==
  ASSUME TypeInv, [Next]_vars, NEW v \in Workers, worker'[v].pc \in Removing
  PROVE  \/ SameWork(v)
         \/ CheckReferences(v) /\ worker'[v].pc = "compare"
         \/ Compare(v) /\ Goto(v, "unlink")
<1>1. CASE worker'[v] = worker[v]
  BY <1>1 DEF SameWork
<1>2. CASE Pursues(v) /\ ~OnItem(v)
  BY <1>2, QuietMove DEF Removing
<1>3. CASE OnItem(v)
  <2>1. worker \in [Workers -> WorkerState] /\ worker[v] \in WorkerState
    BY DEF TypeInv, TypeOK
  <2>2. ASSUME NEW pc, Goto(v, pc) PROVE worker'[v].pc = pc
    BY <2>1, <2>2 DEF Goto, WorkerState
  <2>3. ASSUME NEW item, WorkOn(v, item) PROVE worker'[v].pc = "files"
    BY <2>1, <2>3 DEF WorkOn, WorkerState
  <2>4. ASSUME NextItem(v), worker[v].pc \in Inside PROVE worker'[v].pc \in {"page", "item"}
    BY <2>1, <2>4, AdvancedState DEF NextItem
  <2>5. CASE ReadItem(v)
    BY <1>3, <2>2, <2>3, <2>4, <2>5 DEF ReadItem, Inside, Now, Removing
  <2>6. CASE Claim(v)
    BY <2>3, <2>4, <2>6 DEF Claim, Inside, Checked, Now, Removing
  <2>7. CASE Unlink(v)
    BY <2>1, <2>7 DEF Unlink, WorkerState, Removing
  <2>8. CASE Record(v)
    BY <2>2, <2>8 DEF Record, Removing
  <2>9. CASE ItemDone(v)
    BY <2>2, <2>4, <2>9 DEF ItemDone, Inside, Now, Removing
  <2> QED BY <1>3, <2>5, <2>6, <2>7, <2>8, <2>9 DEF OnItem
<1> QED BY <1>1, <1>2, <1>3, OthersStay, RunsStay DEF vars

LiveInv == LiveFilesKept /\ \A w \in Workers : Looked(w)

LEMMA LiveInvStep == TypeInv /\ LiveInv /\ [Next]_vars => LiveInv'
<1> SUFFICES ASSUME TypeInv, LiveInv, [Next]_vars PROVE LiveInv' OBVIOUS
<1>1. \A r \in Rows : row'[r].there => row[r].there
  BY RowsOnlyGo
<1>2. LiveFilesKept'
  <2> SUFFICES ASSUME NEW r \in Rows, row'[r].there, NEW f \in FilesOf[r], disk'[f] = Gone
               PROVE FALSE
    BY DEF LiveFilesKept
  <2>1. f \in Files /\ disk[f] # Gone /\ f \in OwnedBy(Rows)
    BY <1>1, CleanupAssumption DEF LiveInv, LiveFilesKept, OwnedBy
  <2>2. PICK w \in Workers : /\ Now(w, "unlink") /\ ~worker[w].spare
                             /\ NextFile(worker[w].files).file = f
    BY <2>1, FilesGoByUnlink
  <2> QED BY <2>1, <2>2 DEF LiveInv, Looked, Now, Removing
<1>3. ASSUME NEW v \in Workers PROVE Looked(v)'
  <2> SUFFICES ASSUME worker'[v].pc \in Removing, ~worker'[v].spare
               PROVE  NextFile(worker'[v].files).file \notin OwnedBy(Rows)'
    BY DEF Looked, Now
  <2>1. OwnedBy(Rows)' \subseteq OwnedBy(Rows)
    BY <1>1 DEF OwnedBy
  <2>2. CASE SameWork(v)
    BY <2>1, <2>2 DEF SameWork, LiveInv, Looked
  <2>3. CASE CheckReferences(v)
    <3>1. worker'[v].spare = Referenced(NextFile(worker[v].files).file, {},
                                        worker[v].audit, At(v))
          /\ worker'[v].files = worker[v].files
      BY <2>3 DEF CheckReferences, TypeInv, TypeOK, WorkerState
    <3>2. NextFile(worker[v].files).file \notin OwnedBy(Rows \ {})
      BY <3>1 DEF Referenced
    <3> QED BY <2>1, <3>1, <3>2
  <2>4. CASE Compare(v) /\ Goto(v, "unlink")
    <3>1. /\ worker[v].pc \in Removing /\ worker'[v].spare = worker[v].spare
          /\ worker'[v].files = worker[v].files
      BY <2>4 DEF Compare, Checked, Now, Removing, Goto, TypeInv, TypeOK, WorkerState
    <3> QED BY <2>1, <3>1 DEF LiveInv, Looked
  <2> QED BY <2>2, <2>3, <2>4, UnlinkBegins
<1> QED BY <1>2, <1>3 DEF LiveInv

\* A file of a row that is still there is never removed, whatever plans list it,
\* whatever fails and however many runs have lost their lock: deletePlannedFile is
\* called only after referenced() found no row, and no row comes back.
THEOREM LiveFilesStay == Spec => []LiveFilesKept
<1>1. Init => LiveInv
  BY CleanupAssumption DEF Init, LiveInv, LiveFilesKept, Looked, Removing, NotRunning, Gone
<1>2. LiveInv => LiveFilesKept BY DEF LiveInv
<1> QED BY <1>1, <1>2, InitTypeInv, TypeInvStep, LiveInvStep, PTL DEF Spec

-----------------------------------------------------------------------------
(* What is owed stays on record.                                           *)

\* A run that goes on as it was keeps its claim through a step that keeps the plans.
LEMMA SameWorkClaimed ==
  ASSUME TypeInv, NEW v \in Workers, Claimed(v), SameWork(v), PlansKept, owed' = owed
  PROVE  Claimed(v)'
<1>1. At(v)' = At(v) /\ (worker[v].page # {})' = (worker[v].page # {})
  BY DEF SameWork, At
<1>2. ASSUME worker'[v].pc \in Working
      PROVE  /\ Exists(v)' /\ Current(v)' = Current(v)
             /\ Current(v).status = "deleting"
  <2>1. /\ worker[v].pc \in Working /\ Exists(v) /\ Current(v).status = "deleting"
        /\ worker[v].audit \in Audits
    BY <1>2 DEF SameWork, Claimed, Working, TypeInv, Shaped, Active
  <2>2. At(v) \in ItemsIn(worker[v].audit, "deleting")
    BY <2>1 DEF Exists, Current, Plan, ItemsIn
  <2>3. /\ At(v) \in DOMAIN items'[worker[v].audit]
        /\ items'[worker[v].audit][At(v)] = items[worker[v].audit][At(v)]
    BY <2>1, <2>2 DEF PlansKept
  <2> QED BY <1>1, <2>1, <2>3 DEF SameWork, Exists, Current, Plan
<1>3. ASSUME worker'[v].pc \in Working
      PROVE  /\ worker'[v].files \subseteq Current(v)'.files
             /\ \A f \in FileNames(Current(v)'.files) :
                  f \in FileNames(worker'[v].files) \/ f \notin owed'
  BY <1>2, <1>3 DEF SameWork, Claimed, Working
<1>4. ASSUME worker'[v].pc = "locked", Exists(v)' PROVE Current(v)'.status = "pending"
  <2>1. worker[v].pc = "locked" /\ worker[v].audit \in Audits
    BY <1>4 DEF SameWork, TypeInv, Shaped, Active
  <2>2. At(v) \in DOMAIN items'[worker[v].audit]
    BY <1>1, <1>4 DEF SameWork, Exists, Plan
  <2>3. CASE At(v) \in DOMAIN items[worker[v].audit] /\
             items'[worker[v].audit][At(v)] = items[worker[v].audit][At(v)]
    BY <1>1, <1>4, <2>1, <2>3 DEF SameWork, Exists, Current, Plan, Claimed, Now
  <2>4. CASE items'[worker[v].audit][At(v)].status = "pending"
    BY <1>1, <2>1, <2>4 DEF SameWork, Current, Plan
  <2> QED BY <2>1, <2>2, <2>3, <2>4 DEF PlansKept
<1>5. worker'[v].pc \in Removing => worker'[v].files # {}
  BY DEF SameWork, Claimed
<1> QED BY <1>2, <1>3, <1>4, <1>5 DEF Claimed, Now

\* What is owed stays on record when the plans are kept.
LEMMA QuietRetry ==
  ASSUME TypeInv, DurableRetry, PlansKept, owed' = owed
  PROVE  DurableRetry'
<1> SUFFICES ASSUME NEW f \in owed
             PROVE  \E a \in Audits : \E k \in ItemsIn(a, "deleting")' :
                      f \in FileNames(items'[a][k].files)
  BY DEF DurableRetry
<1>1. PICK a \in Audits : \E k \in ItemsIn(a, "deleting") :
             f \in FileNames(items[a][k].files)
  BY DEF DurableRetry
<1>a. PICK k \in ItemsIn(a, "deleting") : f \in FileNames(items[a][k].files)
  BY <1>1
<1>2. k \in DOMAIN items'[a] /\ items'[a][k] = items[a][k]
  BY DEF PlansKept
<1> QED BY <1>a, <1>2 DEF ItemsIn

LEMMA QuietRetryInv ==
  ASSUME TypeInv, RetryInv, [Next]_vars, \A w \in Workers : ~OnItem(w)
  PROVE  RetryInv'
<1>1. PlansKept /\ owed' = owed BY QuietPlans
<1>2. ASSUME NEW v \in Workers PROVE Claimed(v)'
  <2>0. worker \in [Workers -> WorkerState] /\ Claimed(v)
    BY DEF TypeInv, TypeOK, RetryInv
  <2>1. CASE SameWork(v)
    BY <1>1, <2>0, <2>1, SameWorkClaimed
  <2>2. CASE worker'[v].pc \in {"idle", "start", "mark", "page", "item", "claim",
                              "finish", "supersede", "failing", "release"}
    BY <2>2 DEF Claimed, Now, Working, Removing
  <2>3. CASE CheckReferences(v)
    <3>1. /\ worker'[v].pc = "compare" /\ worker'[v].audit = worker[v].audit
          /\ worker'[v].page = worker[v].page /\ worker'[v].files = worker[v].files
          /\ worker[v].pc = "files" /\ worker[v].files # {} /\ UNCHANGED <<items, owed>>
      BY <2>0, <2>3 DEF CheckReferences, Checked, Now, WorkerState
    <3>2. Exists(v)' = Exists(v) /\ Current(v)' = Current(v)
      BY <3>1 DEF Exists, Current, At, Plan
    <3> QED BY <2>0, <3>1, <3>2 DEF Claimed, Now, Working, Removing
  <2>4. CASE worker'[v] = worker[v]
    BY <1>1, <2>0, <2>4, SameWorkClaimed DEF SameWork
  <2>5. CASE Compare(v) /\ Goto(v, "unlink")
    <3>1. /\ worker'[v].pc = "unlink" /\ worker'[v].audit = worker[v].audit
          /\ worker'[v].page = worker[v].page /\ worker'[v].files = worker[v].files
          /\ worker[v].pc = "compare" /\ UNCHANGED <<items, owed>>
      BY <2>0, <2>5 DEF Compare, Checked, Now, Goto, TypeInv, TypeOK, WorkerState
    <3>2. Exists(v)' = Exists(v) /\ Current(v)' = Current(v)
      BY <3>1 DEF Exists, Current, At, Plan
    <3> QED BY <2>0, <3>1, <3>2 DEF Claimed, Now, Working, Removing
  <2> QED BY <2>1, <2>2, <2>3, <2>4, <2>5, QuietMove, OthersStay, RunsStay
<1>3. DurableRetry' BY <1>1, QuietRetry DEF RetryInv
<1> QED BY <1>2, <1>3 DEF RetryInv

\* Where a run stands in a step that writes to its item.
LEMMA OnlyRun ==
  ASSUME TypeInv, OneRunAtATime, NEW w \in Workers, OnItem(w),
         NEW v \in Workers, v # w
  PROVE  worker'[v].pc = "idle"
<1>1. Active(w)
  BY DEF OnItem, ReadItem, Claim, Unlink, Record, ItemDone, Checked, Now, Active
<1>2. worker[v].pc = "idle"
  BY <1>1 DEF OneRunAtATime, Active
<1> QED BY <1>2, OthersStay DEF OnItem, Pursues, Run

\* Where Goto, WorkOn and NextItem leave a run.
LEMMA Moves ==
  ASSUME TypeInv, NEW w \in Workers
  PROVE  /\ \A pc : Goto(w, pc) =>
              /\ worker'[w].pc = pc /\ worker'[w].audit = worker[w].audit
              /\ worker'[w].page = worker[w].page /\ worker'[w].cursor = worker[w].cursor
              /\ worker'[w].files = worker[w].files
         /\ \A item : WorkOn(w, item) =>
              /\ worker'[w].pc = "files" /\ worker'[w].audit = worker[w].audit
              /\ worker'[w].page = worker[w].page /\ worker'[w].files = item.files
         /\ NextItem(w) /\ worker[w].pc \in Inside =>
              /\ worker'[w].audit = worker[w].audit
              /\ worker'[w].page = worker[w].page \ {First(worker[w].page)}
              /\ worker'[w].pc = IF worker'[w].page = {} THEN "page" ELSE "item"
<1>1. worker \in [Workers -> WorkerState] /\ worker[w] \in WorkerState
  BY DEF TypeInv, TypeOK
<1>2. ASSUME NEW pc, Goto(w, pc)
      PROVE  /\ worker'[w].pc = pc /\ worker'[w].audit = worker[w].audit
             /\ worker'[w].page = worker[w].page /\ worker'[w].cursor = worker[w].cursor
             /\ worker'[w].files = worker[w].files
  BY <1>1, <1>2 DEF Goto, WorkerState
<1>3. ASSUME NEW item, WorkOn(w, item)
      PROVE  /\ worker'[w].pc = "files" /\ worker'[w].audit = worker[w].audit
             /\ worker'[w].page = worker[w].page /\ worker'[w].files = item.files
  BY <1>1, <1>3 DEF WorkOn, WorkerState
<1>4. ASSUME NextItem(w), worker[w].pc \in Inside
      PROVE  /\ worker'[w].audit = worker[w].audit
             /\ worker'[w].page = worker[w].page \ {First(worker[w].page)}
             /\ worker'[w].pc = IF worker'[w].page = {} THEN "page" ELSE "item"
  <2>1. worker'[w] = Advanced(w) BY <1>1, <1>4 DEF NextItem
  <2> DEFINE rest == worker[w].page \ {First(worker[w].page)}
  <2> HIDE DEF rest
  <2>2. Advanced(w) = [worker[w] EXCEPT !.page = rest, !.cursor = At(w),
                                        !.pc = IF rest = {} THEN "page" ELSE "item"]
    BY DEF Advanced, rest
  <2>3. /\ Advanced(w).audit = worker[w].audit /\ Advanced(w).page = rest
        /\ Advanced(w).pc = IF rest = {} THEN "page" ELSE "item"
    BY <1>1, <2>2 DEF WorkerState
  <2> QED BY <2>1, <2>3 DEF rest
<1> QED BY <1>2, <1>3, <1>4

\* When the current item alone is written, what is owed is on record in it or
\* elsewhere.
LEMMA StillOnRecord ==
  ASSUME TypeInv, DurableRetry, NEW w \in Workers, worker[w].audit \in Audits, Exists(w),
         NEW item \in Item, Update(w, item),
         \A f \in owed' : \/ item.status = "deleting" /\ f \in FileNames(item.files)
                          \/ /\ f \in owed
                             /\ \/ f \notin FileNames(Current(w).files)
                                \/ Current(w).status # "deleting"
  PROVE  DurableRetry'
<1> SUFFICES ASSUME NEW f \in owed'
             PROVE  \E a \in Audits : \E k \in ItemsIn(a, "deleting")' :
                      f \in FileNames(items'[a][k].files)
  BY DEF DurableRetry
<1>1. /\ \A b \in Audits : DOMAIN items'[b] = DOMAIN items[b]
      /\ items'[worker[w].audit][At(w)] = item
      /\ \A b \in Audits : \A j \in DOMAIN items[b] :
           b # worker[w].audit \/ j # At(w) => items'[b][j] = items[b][j]
  BY UpdatedItem DEF TypeInv
<1>2. CASE item.status = "deleting" /\ f \in FileNames(item.files)
  BY <1>1, <1>2 DEF ItemsIn, Exists, Plan
<1>3. CASE /\ f \in owed
           /\ f \notin FileNames(Current(w).files) \/ Current(w).status # "deleting"
  <2>1. PICK a \in Audits : \E k \in ItemsIn(a, "deleting") :
               f \in FileNames(items[a][k].files)
    BY <1>3 DEF DurableRetry
  <2>2. PICK k \in ItemsIn(a, "deleting") : f \in FileNames(items[a][k].files)
    BY <2>1
  <2>3. a # worker[w].audit \/ k # At(w)
    BY <1>3, <2>2 DEF ItemsIn, Current, Plan
  <2> QED BY <1>1, <2>2, <2>3 DEF ItemsIn
<1> QED BY <1>2, <1>3

LEMMA ItemRetryInv ==
  ASSUME TypeInv, RetryInv, OneRunAtATime, NEW w \in Workers, OnItem(w)
  PROVE  RetryInv'
<1>0. ASSUME NEW v \in Workers, v # w PROVE Claimed(v)'
  BY <1>0, OnlyRun DEF Claimed, Now, Working, Removing
<1>a. /\ worker[w].audit \in Audits /\ worker[w].pc \in Inside
      /\ Claimed(w) /\ DurableRetry
      /\ Exists(w) => Current(w) \in Item
  <2>1. worker[w].audit \in Audits /\ worker[w].pc \in Inside
    BY DEF OnItem, ReadItem, Claim, Unlink, Record, ItemDone, Checked, Now, TypeInv,
       Shaped, Active, Inside
  <2> QED BY <2>1, CurrentItem DEF RetryInv, TypeInv
<1>b. ASSUME worker'[w].pc \in {"failing", "page", "item"} PROVE Claimed(w)'
  BY <1>b DEF Claimed, Now, Working, Removing
<1>c. ASSUME worker'[w].audit = worker[w].audit, worker'[w].page = worker[w].page
      PROVE  /\ UNCHANGED items => Exists(w)' = Exists(w) /\ Current(w)' = Current(w)
             /\ \A item \in Item : Exists(w) /\ Update(w, item) =>
                  Exists(w)' /\ Current(w)' = item
  BY <1>a, <1>c, UpdatedItem DEF Exists, Current, At, Plan, TypeInv
<1>1. CASE ReadItem(w)
  <2>1. CASE ~Exists(w)
    <3>1. Goto(w, "failing") /\ UNCHANGED <<items, owed>>
      BY <1>1, <2>1 DEF ReadItem
    <3>2. Claimed(w)' BY <1>b, <3>1, Moves
    <3>3. DurableRetry'
      BY <1>a, <3>1 DEF DurableRetry, ItemsIn
    <3> QED BY <1>0, <3>2, <3>3 DEF RetryInv
  <2>2. CASE Exists(w) /\ Current(w).status = "deleting"
    <3>1. WorkOn(w, Current(w)) /\ UNCHANGED <<items, owed>>
      BY <1>1, <2>2 DEF ReadItem
    <3>2. /\ worker'[w].pc = "files" /\ worker'[w].files = Current(w).files
          /\ worker'[w].audit = worker[w].audit /\ worker'[w].page = worker[w].page
      BY <3>1, Moves
    <3>3. Exists(w)' /\ Current(w)' = Current(w)
      BY <1>c, <2>2, <3>1, <3>2
    <3>4. Claimed(w)'
      BY <2>2, <3>2, <3>3 DEF Claimed, Now, Working, Removing
    <3>5. DurableRetry'
      BY <1>a, <3>1 DEF DurableRetry, ItemsIn
    <3> QED BY <1>0, <3>4, <3>5 DEF RetryInv
  <2>3. CASE Exists(w) /\ Current(w).status \in {"done", "skipped"}
    <3>1. NextItem(w) /\ UNCHANGED <<items, owed>>
      BY <1>1, <2>3 DEF ReadItem
    <3>2. Claimed(w)' BY <1>a, <1>b, <3>1, Moves
    <3>3. DurableRetry'
      BY <1>a, <3>1 DEF DurableRetry, ItemsIn
    <3> QED BY <1>0, <3>2, <3>3 DEF RetryInv
  <2>4. CASE Exists(w) /\ Current(w).status = "pending" /\ UnchangedFiles(Current(w).files)
    <3>1. Goto(w, "locked") /\ UNCHANGED <<items, owed>>
      BY <1>1, <2>4 DEF ReadItem
    <3>2. /\ worker'[w].pc = "locked" /\ worker'[w].audit = worker[w].audit
          /\ worker'[w].page = worker[w].page
      BY <3>1, Moves
    <3>3. Claimed(w)'
      BY <1>c, <2>4, <3>1, <3>2 DEF Claimed, Now, Working, Removing
    <3>4. DurableRetry'
      BY <1>a, <3>1 DEF DurableRetry, ItemsIn
    <3> QED BY <1>0, <3>3, <3>4 DEF RetryInv
  <2>5. CASE Exists(w) /\ Current(w).status = "pending" /\ ~UnchangedFiles(Current(w).files)
    <3> DEFINE item == [Current(w) EXCEPT !.status = "skipped"]
    <3>1. NextItem(w) /\ Update(w, item) /\ UNCHANGED owed
      BY <1>1, <2>5 DEF ReadItem
    <3>2. item \in Item BY <1>a, <2>5 DEF Item
    <3>3. Claimed(w)' BY <1>a, <1>b, <3>1, Moves
    <3> HIDE DEF item
    <3>4. DurableRetry'
      BY <1>a, <2>5, <3>1, <3>2, StillOnRecord
    <3> QED BY <1>0, <3>3, <3>4 DEF RetryInv
  <2> QED BY <1>1, <2>1, <2>2, <2>3, <2>4, <2>5 DEF ReadItem
<1>2. CASE Claim(w)
  <2>1. Exists(w) /\ Current(w).status = "pending" /\ Current(w) \in Item
    BY <1>2, <1>a DEF Claim, Checked, Claimed
  <2>2. CASE Valid(Current(w))
    <3> DEFINE item == [Current(w) EXCEPT !.status = "deleting"]
    <3>1. /\ Update(w, item) /\ WorkOn(w, item)
          /\ owed' \subseteq owed \cup FileNames(item.files)
      BY <1>2, <2>2 DEF Claim
    <3>2. item \in Item /\ item.status = "deleting"
      BY <2>1 DEF Item
    <3> HIDE DEF item
    <3>3. /\ worker'[w].pc = "files" /\ worker'[w].files = item.files
          /\ worker'[w].audit = worker[w].audit /\ worker'[w].page = worker[w].page
      BY <3>1, Moves
    <3>4. Exists(w)' /\ Current(w)' = item
      BY <1>c, <2>1, <3>1, <3>2, <3>3
    <3>5. Claimed(w)'
      BY <3>2, <3>3, <3>4 DEF Claimed, Now, Working, Removing
    <3>6. DurableRetry'
      BY <1>a, <2>1, <3>1, <3>2, StillOnRecord
    <3> QED BY <1>0, <3>5, <3>6 DEF RetryInv
  <2>3. CASE ~Valid(Current(w))
    <3> DEFINE item == [Current(w) EXCEPT !.status = "skipped"]
    <3>1. NextItem(w) /\ Update(w, item) /\ UNCHANGED owed
      BY <1>2, <2>3 DEF Claim
    <3>2. item \in Item BY <2>1 DEF Item
    <3>3. Claimed(w)' BY <1>a, <1>b, <3>1, Moves
    <3> HIDE DEF item
    <3>4. DurableRetry'
      BY <1>a, <2>1, <3>1, <3>2, StillOnRecord
    <3> QED BY <1>0, <3>3, <3>4 DEF RetryInv
  <2> QED BY <2>2, <2>3
<1>3. CASE Unlink(w)
  <2> DEFINE planned == NextFile(worker[w].files)
  <2>1. /\ Exists(w) /\ Current(w).status = "deleting"
        /\ worker[w].files \subseteq Current(w).files
        /\ \A f \in FileNames(Current(w).files) :
             f \in FileNames(worker[w].files) \/ f \notin owed
    BY <1>3, <1>a DEF Unlink, Now, Claimed, Working
  <2>2. UNCHANGED items /\ owed' \subseteq owed
    BY <1>3 DEF Unlink
  <2>3. DurableRetry'
    BY <1>a, <2>2 DEF DurableRetry, ItemsIn
  <2>4. /\ worker'[w].pc = "record" /\ worker'[w].files = worker[w].files \ {planned}
        /\ worker'[w].audit = worker[w].audit /\ worker'[w].page = worker[w].page
        /\ owed' = owed \ {planned.file}
    BY <1>3 DEF Unlink, TypeInv, TypeOK, WorkerState
  <2>5. Exists(w)' /\ Current(w)' = Current(w)
    BY <1>c, <2>1, <2>2, <2>4
  <2> HIDE DEF planned
  <2>6. ASSUME NEW f \in FileNames(Current(w).files)
        PROVE  f \in FileNames(worker'[w].files) \/ f \notin owed'
    <3>1. CASE f \notin owed BY <2>4, <3>1
    <3>2. CASE f \in FileNames(worker[w].files)
      <4>1. PICK one \in worker[w].files : one.file = f
        BY <3>2 DEF FileNames
      <4>2. CASE one = planned BY <2>4, <4>1, <4>2
      <4>3. CASE one # planned BY <2>4, <4>1, <4>3 DEF FileNames
      <4> QED BY <4>2, <4>3
    <3> QED BY <2>1, <3>1, <3>2
  <2>7. Claimed(w)'
    BY <2>1, <2>4, <2>5, <2>6 DEF Claimed, Now, Working, Removing
  <2> QED BY <1>0, <2>3, <2>7 DEF RetryInv
<1>4. CASE Record(w)
  <2>1. /\ Exists(w) /\ Current(w).status = "deleting" /\ Current(w) \in Item
        /\ worker[w].files \subseteq Current(w).files
        /\ \A f \in FileNames(Current(w).files) :
             f \in FileNames(worker[w].files) \/ f \notin owed
    BY <1>4, <1>a DEF Record, Now, Claimed, Working
  <2> DEFINE item == [Current(w) EXCEPT !.files = worker[w].files,
                                        !.freed = worker[w].freed]
  <2>2. Update(w, item) /\ Goto(w, "files") /\ UNCHANGED owed
    BY <1>4, <2>1 DEF Record
  <2>3. item \in Item /\ item.status = "deleting" /\ item.files = worker[w].files
    <3>1. worker[w] \in WorkerState BY DEF TypeInv, TypeOK
    <3> QED BY <2>1, <3>1 DEF Item, WorkerState
  <2> HIDE DEF item
  <2>4. /\ worker'[w].pc = "files" /\ worker'[w].files = worker[w].files
        /\ worker'[w].audit = worker[w].audit /\ worker'[w].page = worker[w].page
    BY <2>2, Moves
  <2>5. Exists(w)' /\ Current(w)' = item
    BY <1>c, <2>1, <2>2, <2>3, <2>4
  <2>6. Claimed(w)'
    BY <2>3, <2>4, <2>5 DEF Claimed, Now, Working, Removing
  <2>7. DurableRetry'
    BY <1>a, <2>1, <2>2, <2>3, StillOnRecord
  <2> QED BY <1>0, <2>6, <2>7 DEF RetryInv
<1>5. CASE ItemDone(w)
  <2>1. /\ Exists(w) /\ Current(w) \in Item /\ worker[w].files = {}
        /\ \A f \in FileNames(Current(w).files) :
             f \in FileNames(worker[w].files) \/ f \notin owed
    BY <1>5, <1>a DEF ItemDone, Now, Claimed, Working
  <2> DEFINE item == [Current(w) EXCEPT !.status = "done"]
  <2>2. Update(w, item) /\ NextItem(w) /\ UNCHANGED owed
    BY <1>5, <2>1 DEF ItemDone
  <2>3. item \in Item BY <2>1 DEF Item
  <2>4. Claimed(w)' BY <1>a, <1>b, <2>2, Moves
  <2> HIDE DEF item
  <2>5. \A f \in FileNames(Current(w).files) : f \notin owed
    BY <2>1 DEF FileNames
  <2>6. DurableRetry'
    BY <1>a, <2>1, <2>2, <2>3, <2>5, StillOnRecord
  <2> QED BY <1>0, <2>4, <2>6 DEF RetryInv
<1> QED BY <1>1, <1>2, <1>3, <1>4, <1>5 DEF OnItem

LEMMA RetryInvStep ==
  TypeInv /\ RetryInv /\ OneRunAtATime /\ [Next]_vars => RetryInv'
BY QuietRetryInv, ItemRetryInv

\* Whatever fails after a row was deleted, each of its files is gone, was found to
\* be in use, or is listed in an item that recovery will work on, as long as one
\* run of executeCleanup works at a time.
THEOREM OwedFilesAreOnRecord == Spec /\ []OneRunAtATime => []DurableRetry
<1>1. Init => RetryInv
  BY DEF Init, RetryInv, DurableRetry, Claimed, Now, NotRunning, Working, Removing
<1>2. RetryInv => DurableRetry BY DEF RetryInv
<1> QED BY <1>1, <1>2, InitTypeInv, TypeInvStep, RetryInvStep, PTL DEF Spec

\* The lock is enough for that.
COROLLARY LockKeepsRecord == Spec /\ [](losses = 0) => []DurableRetry
BY LockExcludes, OwedFilesAreOnRecord, PTL

LEMMA ComparedStep ==
  ASSUME TypeInv, RetryInv, [Next]_vars, NEW v \in Workers, Compared(v)
  PROVE  Compared(v)'
<1> SUFFICES ASSUME worker'[v].pc = "unlink", ~worker'[v].spare
             PROVE  v \in raced' \/ SameFile(NextFile(worker[v].files))'
  BY DEF Compared, Now
<1>0. /\ worker \in [Workers -> WorkerState] /\ disk \in [Files -> Nat]
      /\ worker[v] \in WorkerState
  BY DEF TypeInv, TypeOK
<1>1. CASE SameWork(v)
  <2> DEFINE planned == NextFile(worker[v].files)
  <2>1. /\ worker[v].pc = "unlink" /\ worker'[v].files = worker[v].files
        /\ v \in raced \/ disk[planned.file] \in {Gone, planned.identity}
    BY <1>1 DEF SameWork, Compared, Now, SameFile
  <2>2. SUFFICES v \in raced' \/ disk'[planned.file] \in {Gone, planned.identity}
    BY <2>1 DEF SameFile
  <2>3. CASE UNCHANGED <<disk, raced>>
    BY <2>1, <2>3
  <2>4. ASSUME NEW w \in Workers, Compare(w)
        PROVE  v \in raced' \/ disk'[planned.file] \in {Gone, planned.identity}
    <3>1. v # w /\ disk' = disk /\ (raced' = raced \/ raced' = raced \ {w})
      BY <2>1, <2>4 DEF Compare, Checked, Now
    <3> QED BY <2>1, <3>1
  <2>5. ASSUME NEW w \in Workers, Unlink(w)
        PROVE  v \in raced' \/ disk'[planned.file] \in {Gone, planned.identity}
    <3>1. /\ raced' = raced
          /\ disk' = disk \/ \E g : disk' = [disk EXCEPT ![g] = Gone]
      BY <2>5 DEF Unlink
    <3>2. \A f \in Files : disk'[f] = disk[f] \/ disk'[f] = Gone
      BY <1>0, <3>1
    <3>3. planned.file \in Files
      <4>1. worker[v].files \subseteq Planned /\ worker[v].files # {}
        BY <1>0, <2>1 DEF WorkerState, RetryInv, Claimed, Removing
      <4> QED BY <4>1, NextFileIsThere DEF Planned
    <3> QED BY <2>1, <3>1, <3>2, <3>3
  <2>6. ASSUME NEW f \in Files, ReplaceFile(f)
        PROVE  v \in raced' \/ disk'[planned.file] \in {Gone, planned.identity}
    <3>1. raced' = raced \cup {w \in Workers : Unlinking(w, f)}
          /\ disk' = [disk EXCEPT ![f] = @ + 1]
      BY <2>6 DEF ReplaceFile
    <3>2. CASE planned.file = f
      BY <2>1, <3>1, <3>2 DEF Unlinking, Now
    <3>3. CASE planned.file # f
      <4>1. disk'[planned.file] = disk[planned.file]
        BY <1>0, <3>1, <3>3
      <4> QED BY <2>1, <3>1, <4>1
    <3> QED BY <3>2, <3>3
  <2> HIDE DEF planned
  <2> QED
    BY ZenonT(30), <2>3, <2>4, <2>5, <2>6
    DEF Next, vars, Run, Throws, WorkerGone, LoseLock, Notice, Acquire,
       InterruptOthers, MarkExecuting, FetchPage, PassOver, TakeItem, ReadItem, Claim,
       CheckReferences, Compare, Record, ItemDone, Finish, Supersede, Stop,
       RecordFailure, Release, Audit, StartAudit, PlanRow, PlanDisk, CompleteAudit,
       FailAudit, Expire, DeleteAudit, ReadAudits, ChangeRow, ChangeCitation
<1>2. CASE Compare(v) /\ Goto(v, "unlink")
  <2>1. worker'[v].files = worker[v].files /\ worker'[v].spare = worker[v].spare
    BY <1>0, <1>2 DEF Goto, WorkerState
  <2>2. ~Goto(v, "failing")
    BY <1>0 DEF Goto, WorkerState
  <2>3. SameFile(NextFile(worker[v].files)) /\ disk' = disk
    BY <1>2, <2>1, <2>2 DEF Compare
  <2> QED BY <2>1, <2>3 DEF SameFile
<1> QED BY <1>1, <1>2, UnlinkBegins DEF Removing

\* With one run at a time, what is unlinked is a file of a claimed item, and it is what was
\* reviewed unless it was replaced in the awaits between the comparison and the unlink of
\* deletePlannedFile.
THEOREM ReviewedFilesGo == Spec /\ []OneRunAtATime => OnlyReviewedFilesGo
<1> DEFINE Reviewed(f) ==
             \E a \in Audits : \E k \in ItemsIn(a, "deleting") :
               \E planned \in items[a][k].files :
                 /\ planned.file = f
                 /\ planned.identity = disk[f] \/ \E w \in raced : Unlinking(w, f)
           A == \A f \in Files : disk[f] # Gone /\ disk'[f] = Gone => Reviewed(f)
           Inv == RetryInv /\ \A w \in Workers : Compared(w)
<1>1. TypeInv /\ Inv /\ [Next]_vars => [A]_vars
  <2> SUFFICES ASSUME TypeInv, Inv, [Next]_vars,
                      NEW f \in Files, disk[f] # Gone, disk'[f] = Gone
               PROVE  Reviewed(f)
    OBVIOUS
  <2>1. PICK w \in Workers : /\ Now(w, "unlink") /\ ~worker[w].spare
                             /\ NextFile(worker[w].files).file = f
    BY FilesGoByUnlink
  <2> DEFINE planned == NextFile(worker[w].files)
  <2>2. /\ worker[w].files # {} /\ worker[w].audit \in Audits
    BY <2>1 DEF RetryInv, Claimed, Now, Removing, TypeInv, Shaped, Active
  <2>3. planned \in worker[w].files
    BY <2>2, NextFileIsThere
  <2>4. planned.identity = disk[f] \/ (w \in raced /\ Unlinking(w, f))
    BY <2>1 DEF Compared, SameFile, Unlinking
  <2>5. /\ Exists(w) /\ Current(w).status = "deleting"
        /\ worker[w].files \subseteq Current(w).files
    BY <2>1 DEF RetryInv, Claimed, Now, Working
  <2>6. At(w) \in ItemsIn(worker[w].audit, "deleting")
    BY <2>5 DEF Exists, Current, Plan, ItemsIn
  <2>7. planned \in items[worker[w].audit][At(w)].files
    BY <2>3, <2>5 DEF Current, Plan
  <2>8. planned.file = f
    BY <2>1
  <2> HIDE DEF planned
  <2> QED BY <2>2, <2>4, <2>6, <2>7, <2>8
<1>2. Init => Inv
  BY DEF Init, RetryInv, DurableRetry, Claimed, Compared, Now, NotRunning, Working, Removing
<1>3. TypeInv /\ Inv /\ OneRunAtATime /\ [Next]_vars => Inv'
  BY RetryInvStep, ComparedStep
<1>4. Spec /\ []OneRunAtATime => [][A]_vars
  <2> HIDE DEF A, Inv
  <2> QED BY <1>1, <1>2, <1>3, InitTypeInv, TypeInvStep, PTL DEF Spec
<1> QED BY <1>4 DEF OnlyReviewedFilesGo

-----------------------------------------------------------------------------
(* Claimed work can be taken up again.                                     *)

\* Claimed items of a plan that fits a page were there before a step that keeps
\* the plans.
LEMMA KeptItems ==
  ASSUME TypeInv, TypeInv', PlansKept, NEW a \in Audits, NEW k \in ItemsIn(a, "deleting")',
         FitsAPage(a)'
  PROVE  k \in ItemsIn(a, "deleting") /\ FitsAPage(a)
<1>1. items[a] \in Seq(Item) /\ items'[a] \in Seq(Item) /\ PageSize \in Nat
  BY CleanupAssumption DEF TypeInv, TypeOK
<1>2. k \in DOMAIN items[a] /\ items'[a][k] = items[a][k]
  BY DEF PlansKept, ItemsIn
<1>3. items'[a] # << >> BY DEF ItemsIn
<1> QED BY <1>1, <1>2, <1>3 DEF PlansKept, ItemsIn, FitsAPage

\* A status a run may find its audit in stays one.
Held == {"executing", "interrupted", "dismissed"}

LEMMA SameWorkUnderway ==
  ASSUME TypeInv, TypeInv', NEW v \in Workers, Underway(v), SameWork(v), PlansKept,
         \A a \in Audits : audit[a].status \in Held => audit'[a].status \in Held
  PROVE  Underway(v)'
<1>1. At(v)' = At(v) BY DEF SameWork, At
<1>2. Active(v)' => Active(v) /\ worker[v].audit \in Audits
  BY DEF SameWork, TypeInv, Shaped, Active
<1>3. worker'[v].pc \in Going => audit'[worker'[v].audit].status \in Held
  BY <1>2 DEF SameWork, Underway, Going, Inside, Active, Held
<1>4. \A a \in Audits : \A k \in ItemsIn(a, "deleting")' :
        FitsAPage(a)' => k \in ItemsIn(a, "deleting") /\ FitsAPage(a)
  BY KeptItems
<1>5. ASSUME Active(v)', FitsAPage(worker[v].audit)',
             NEW k \in ItemsIn(worker[v].audit, "deleting")'
      PROVE  k \in ItemsIn(worker[v].audit, "deleting") /\ FitsAPage(worker[v].audit)
  <2>1. PICK a \in Audits : a = worker[v].audit /\ worker'[v].audit = a
    BY <1>2, <1>5 DEF SameWork
  <2>2. FitsAPage(a)' /\ k \in ItemsIn(a, "deleting")'
    BY <1>5, <2>1 DEF FitsAPage, ItemsIn
  <2> QED BY <1>4, <2>1, <2>2
<1>6. Active(v)' => Ahead(v)'
  BY <1>1, <1>2, <1>5 DEF SameWork, Underway, Ahead, Now
<1> QED BY <1>3, <1>6 DEF SameWork, Underway, Held

\* Outside the loop there is nothing to keep.
LEMMA OutsideUnderway ==
  ASSUME NEW v \in Workers,
         worker'[v].pc \in {"idle", "supersede", "failing", "release"}
  PROVE  Underway(v)'
BY DEF Underway, Ahead, Now, Going, Inside, Working

LEMMA StatusHeld ==
  ASSUME TypeInv, [Next]_vars,
         \A w \in Workers : ~(MarkExecuting(w) \/ Finish(w) \/ RecordFailure(w))
  PROVE  \A a \in Audits : audit[a].status \in Held => audit'[a].status \in Held
<1>0. audit \in [Audits -> [status : AuditStatus, expired : BOOLEAN,
                           mode : {"pressure", "deleted"}]]
  BY DEF TypeInv, TypeOK
<1>1. CASE UNCHANGED audit BY <1>1
<1>2. ASSUME NEW w \in Workers, InterruptOthers(w) \/ Supersede(w)
      PROVE  \A a \in Audits : audit[a].status \in Held => audit'[a].status \in Held
  BY <1>0, <1>2 DEF InterruptOthers, Supersede, Held
<1>3. ASSUME NEW b \in Audits, Audit(b) \/ DeleteAudit(b)
      PROVE  \A a \in Audits : audit[a].status \in Held => audit'[a].status \in Held
  <2>1. CASE Audit(b)
    <3>1. CASE UNCHANGED audit BY <3>1
    <3>2. ASSUME NEW mode \in Modes, StartAudit(b, mode)
          PROVE  \A a \in Audits : audit[a].status \in Held => audit'[a].status \in Held
      BY <1>0, <3>2 DEF StartAudit, Held
    <3>3. CASE CompleteAudit(b) \/ FailAudit(b)
      BY <1>0, <3>3 DEF CompleteAudit, FailAudit, SetStatus, Held
    <3>4. CASE Expire(b)
      BY <1>0, <3>4 DEF Expire
    <3> QED BY <2>1, <3>1, <3>2, <3>3, <3>4 DEF Audit, PlanRow, PlanDisk
  <2>2. CASE DeleteAudit(b)
    BY <1>0, <2>2 DEF DeleteAudit, SetStatus, Held
  <2> QED BY <1>3, <2>1, <2>2
<1>4. CASE ReadAudits
  BY <1>0, <1>4 DEF ReadAudits, Held
<1> QED
  BY ZenonT(30), <1>1, <1>2, <1>3, <1>4
  DEF Next, vars, Run, Throws, WorkerGone, LoseLock, Notice, Acquire,
     FetchPage, PassOver, TakeItem, ReadItem, Claim,
     CheckReferences, Compare, Unlink, Record, ItemDone, Stop, Release,
     ChangeRow, ChangeCitation, ReplaceFile

\* The first page holds every claimed item of a plan that fits it.
LEMMA FirstPageHasAll ==
  ASSUME TypeInv, NEW w \in Workers, FetchPage(w), worker[w].cursor = 0,
         FitsAPage(worker[w].audit), NEW k \in ItemsIn(worker[w].audit, "deleting")
  PROVE  Entry(k) \in worker'[w].page /\ worker'[w].pc = "item"
<1> DEFINE before(n) == Cardinality({j \in Open(w) : j < n})
           skip == IF worker[w].cursor = 0 THEN 0 ELSE 1
           page == {n \in Open(w) : before(n) \in skip .. skip + PageSize - 1}
<1>1. worker[w] \in WorkerState /\ worker \in [Workers -> WorkerState]
      /\ worker[w].audit \in Audits /\ PageSize \in Nat \ {0}
  BY CleanupAssumption DEF FetchPage, Now, TypeInv, TypeOK, Shaped, Active
<1>2. items[worker[w].audit] \in Seq(Item)
  BY <1>1 DEF TypeInv, TypeOK
<1>3. k \in Nat /\ k >= 1 /\ k <= Len(Plan(w)) /\ Len(Plan(w)) <= PageSize
      /\ Len(Plan(w)) \in Nat
  BY <1>2 DEF ItemsIn, Plan, FitsAPage
<1>4. k \in Open(w) /\ Plan(w)[k].status = "deleting"
  BY <1>2, <1>3 DEF Open, Plan, ItemsIn
<1>5. {j \in Open(w) : j < k} \subseteq 1 .. k - 1
  BY <1>2, <1>3 DEF Open, Plan
<1>6. IsFiniteSet(1 .. k - 1) /\ Cardinality(1 .. k - 1) = k - 1
  <2> DEFINE last == k - 1
  <2>1. 1 \in Int /\ last \in Int /\ last >= 0 BY <1>3
  <2> HIDE DEF last
  <2>2. /\ IsFiniteSet(1 .. last)
        /\ Cardinality(1 .. last) = IF 1 > last THEN 0 ELSE last - 1 + 1
    BY <2>1, FS_Interval
  <2>3. Cardinality(1 .. last) = last
    BY <2>1, <2>2
  <2> QED BY <2>2, <2>3 DEF last
<1>7. before(k) \in Nat /\ before(k) <= k - 1
  BY <1>3, <1>5, <1>6, FS_Subset, FS_CardinalityType
<1> HIDE DEF before
<1>8. k \in page
  BY <1>1, <1>3, <1>4, <1>7
<1> HIDE DEF page
<1>9. /\ worker'[w].page = {[at |-> n, seen |-> Plan(w)[n].status] : n \in page}
      /\ worker'[w].pc = IF page = {} THEN "finish" ELSE "item"
  BY <1>1 DEF FetchPage, WorkerState, page, before
<1> QED BY <1>4, <1>8, <1>9 DEF Entry

\* Going on to the next item leaves the claimed items before the run.
LEMMA NextItemUnderway ==
  ASSUME TypeInv, NEW w \in Workers, worker[w].pc \in Inside, Underway(w),
         worker'[w].audit = worker[w].audit,
         worker'[w].page = worker[w].page \ {First(worker[w].page)},
         worker'[w].pc = IF worker'[w].page = {} THEN "page" ELSE "item",
         UNCHANGED audit,
         FitsAPage(worker[w].audit)' => FitsAPage(worker[w].audit),
         \A k \in ItemsIn(worker[w].audit, "deleting")' :
           /\ k \in ItemsIn(worker[w].audit, "deleting")
           /\ Entry(k) # First(worker[w].page) /\ (worker[w].pc \in Working => k # At(w))
  PROVE  Underway(w)'
<1>1. worker[w].audit \in Audits /\ Active(w)
  BY DEF TypeInv, Shaped, Active, Inside
<1>2. audit'[worker'[w].audit].status \in Held
  BY <1>1 DEF Underway, Going, Held
<1>3. ASSUME FitsAPage(worker[w].audit)', NEW k \in ItemsIn(worker[w].audit, "deleting")'
      PROVE  Entry(k) \in worker'[w].page
  BY <1>1, <1>3 DEF Underway, Ahead, Inside, Working
<1>4. Ahead(w)'
  BY <1>3 DEF Ahead, Now, Working, FitsAPage, ItemsIn, Entry
<1> QED BY <1>2, <1>4 DEF Underway, Held

\* The steps of a run that write no item keep the claimed items before it.
LEMMA QuietUnderway ==
  ASSUME TypeInv, TypeInv', [Next]_vars, NEW w \in Workers, Underway(w),
         Pursues(w), \A v \in Workers : ~OnItem(v)
  PROVE  Underway(w)'
<1>0. /\ worker \in [Workers -> WorkerState] /\ worker[w] \in WorkerState
      /\ audit \in [Audits -> [status : AuditStatus, expired : BOOLEAN,
                              mode : {"pressure", "deleted"}]]
      /\ Active(w) => worker[w].audit \in Audits
  BY DEF TypeInv, TypeOK, Shaped
<1>a. PlansKept BY QuietPlans
<1>1. CASE InterruptOthers(w)
  <2>1. worker[w].pc = "start" /\ worker'[w].pc = "mark" /\ worker'[w].cursor = worker[w].cursor
    BY <1>1, Moves DEF InterruptOthers, Now
  <2> QED BY <2>1 DEF Underway, Ahead, Now, Going, Inside, Working
<1>2. CASE MarkExecuting(w)
  <2>1. worker[w].pc = "mark" /\ worker[w].audit \in Audits /\ UNCHANGED items
    BY <1>0, <1>2 DEF MarkExecuting, Now, Active
  <2>2. CASE Goto(w, "release")
    BY <2>2, Moves, OutsideUnderway
  <2>3. CASE ~Goto(w, "release")
    <3>1. SetStatus(worker[w].audit, "executing") /\ Goto(w, "page")
      BY <1>2, <2>3 DEF MarkExecuting
    <3>2. /\ worker'[w].pc = "page" /\ worker'[w].audit = worker[w].audit
          /\ worker'[w].cursor = 0
      BY <2>1, <3>1, Moves DEF Underway
    <3>3. audit'[worker[w].audit].status = "executing"
      BY <1>0, <2>1, <3>1 DEF SetStatus
    <3> QED BY <3>2, <3>3 DEF Underway, Ahead, Now, Going, Inside, Working
  <2> QED BY <2>2, <2>3
<1>3. CASE FetchPage(w)
  <2>1. /\ worker[w].pc = "page" /\ worker'[w].audit = worker[w].audit
        /\ worker[w].audit \in Audits
        /\ worker'[w].pc \in {"finish", "item"} /\ UNCHANGED <<audit, items>>
    BY <1>0, <1>3 DEF FetchPage, Now, Active, WorkerState
  <2>2. audit'[worker'[w].audit].status \in Held
    BY <2>1 DEF Underway, Going, Held
  <2>3. ASSUME FitsAPage(worker[w].audit), NEW k \in ItemsIn(worker[w].audit, "deleting")
        PROVE  Entry(k) \in worker'[w].page /\ worker'[w].pc = "item"
    <3>1. worker[w].cursor = 0
      BY <2>1, <2>3 DEF Underway, Ahead, Now, Active
    <3> QED BY <1>3, <2>3, <3>1, FirstPageHasAll
  <2>4. Ahead(w)'
    BY <2>1, <2>3 DEF Ahead, Now, Working, FitsAPage, ItemsIn, Entry
  <2> QED BY <2>1, <2>2, <2>4 DEF Underway, Held
<1>4. CASE PassOver(w)
  <2>1. worker[w].pc = "item" /\ Seen(w) = "pending" /\ UNCHANGED <<audit, items>>
    BY <1>4 DEF PassOver, Checked, Now
  <2>2. worker'[w] = [Advanced(w) EXCEPT !.reached = @ \/ ~worker[w].expired]
    BY <1>0, <1>4 DEF PassOver
  <2> DEFINE rest == worker[w].page \ {First(worker[w].page)}
  <2> HIDE DEF rest
  <2>3. Advanced(w) = [worker[w] EXCEPT !.page = rest, !.cursor = At(w),
                                        !.pc = IF rest = {} THEN "page" ELSE "item"]
    BY DEF Advanced, rest
  <2>4. Advanced(w) \in WorkerState
    BY <2>1, AdvancedState DEF Inside
  <2>5. /\ worker'[w].audit = worker[w].audit /\ worker'[w].page = rest
        /\ worker'[w].pc = IF rest = {} THEN "page" ELSE "item"
    BY ZenonT(30), <1>0, <2>2, <2>3, <2>4 DEF WorkerState
  <2>6. \A k : Entry(k) # First(worker[w].page)
    BY <2>1 DEF Seen, Entry
  <2> QED BY <2>1, <2>5, <2>6, NextItemUnderway DEF rest, Inside, Working, FitsAPage, ItemsIn
<1>5. CASE TakeItem(w)
  <2>1. /\ worker[w].pc = "item" /\ worker'[w].pc = "claim"
        /\ worker'[w].audit = worker[w].audit /\ worker'[w].page = worker[w].page
        /\ UNCHANGED <<audit, items>>
    BY <1>5, Moves DEF TakeItem, Checked, Now
  <2> QED BY <2>1 DEF Underway, Ahead, Now, Going, Inside, Working, FitsAPage, ItemsIn,
                      Entry, Active
<1>6. CASE CheckReferences(w)
  <2>1. /\ worker[w].pc = "files" /\ worker'[w].pc = "compare"
        /\ worker'[w].audit = worker[w].audit /\ worker'[w].page = worker[w].page
        /\ UNCHANGED <<audit, items>>
    BY <1>0, <1>6 DEF CheckReferences, Checked, Now, WorkerState
  <2>2. At(w)' = At(w) BY <2>1 DEF At
  <2> QED BY <2>1, <2>2 DEF Underway, Ahead, Now, Going, Inside, Working, FitsAPage,
                            ItemsIn, Entry, Active
<1>11. CASE Compare(w)
  <2>1. CASE Goto(w, "failing")
    BY <2>1, Moves, OutsideUnderway
  <2>2. CASE Goto(w, "unlink")
    <3>1. /\ worker[w].pc = "compare" /\ worker'[w].pc = "unlink"
          /\ worker'[w].audit = worker[w].audit /\ worker'[w].page = worker[w].page
          /\ UNCHANGED <<audit, items>>
      BY <1>11, <2>2, Moves DEF Compare, Checked, Now
    <3>2. At(w)' = At(w) BY <3>1 DEF At
    <3> QED BY <3>1, <3>2 DEF Underway, Ahead, Now, Going, Inside, Working, FitsAPage,
                              ItemsIn, Entry, Active
  <2> QED BY <1>11, <2>1, <2>2 DEF Compare
<1>7. CASE Finish(w) \/ Supersede(w) \/ Stop(w) \/ RecordFailure(w) \/ Throws(w)
  <2>1. \E pc \in {"supersede", "failing", "release"} : Goto(w, pc)
    BY <1>7 DEF Finish, Supersede, Stop, RecordFailure, Throws
  <2> QED BY <2>1, Moves, OutsideUnderway
<1>8. CASE Release(w) \/ WorkerGone(w)
  <2>1. worker'[w].pc = "idle"
    BY <1>0, <1>8 DEF Release, WorkerGone, NotRunning
  <2> QED BY <2>1, OutsideUnderway
<1>9. CASE LoseLock(w) \/ Notice(w)
  <2>1. SameWork(w) /\ UNCHANGED audit
    BY <1>0, <1>9 DEF LoseLock, Notice, SameWork, WorkerState
  <2> QED BY <1>a, <2>1, SameWorkUnderway
<1>10. ASSUME NEW a \in Audits, Acquire(w, a) PROVE Underway(w)'
  <2>1. worker'[w].pc = "start" /\ worker'[w].cursor = 0
    BY <1>0, <1>10 DEF Acquire, NotRunning
  <2> QED BY <2>1 DEF Underway, Ahead, Now, Going, Inside, Working
<1> QED
  BY <1>1, <1>2, <1>3, <1>4, <1>5, <1>6, <1>7, <1>8, <1>9, <1>10, <1>11
  DEF Pursues, Run, OnItem

\* What a step that writes an item does to the plans.
LEMMA ItemWritten ==
  ASSUME TypeInv, RetryInv, NEW w \in Workers, OnItem(w)
  PROVE  /\ UNCHANGED audit
         /\ \A a \in Audits : Len(items'[a]) = Len(items[a])
         /\ \A a \in Audits : \A k \in ItemsIn(a, "deleting")' :
              \/ k \in ItemsIn(a, "deleting")
              \/ Claim(w) /\ Exists(w) /\ a = worker[w].audit /\ k = At(w)
         /\ \A a \in Audits : items[a] = << >> => items'[a] = << >>
<1>a. /\ worker[w].audit \in Audits /\ worker[w].pc \in Inside /\ Claimed(w)
      /\ Exists(w) => Current(w) \in Item
  <2>1. worker[w].audit \in Audits /\ worker[w].pc \in Inside
    BY DEF OnItem, ReadItem, Claim, Unlink, Record, ItemDone, Checked, Now, TypeInv,
       Shaped, Active, Inside
  <2> QED BY <2>1, CurrentItem DEF RetryInv, TypeInv
<1>b. \A a \in Audits : items[a] \in Seq(Item)
  BY DEF TypeInv, TypeOK
<1>c. ASSUME NEW item \in Item, Exists(w), Update(w, item),
             \/ item.status # "deleting" \/ Current(w).status = "deleting" \/ Claim(w)
      PROVE  /\ \A a \in Audits : Len(items'[a]) = Len(items[a])
             /\ \A a \in Audits : \A k \in ItemsIn(a, "deleting")' :
                  \/ k \in ItemsIn(a, "deleting")
                  \/ Claim(w) /\ Exists(w) /\ a = worker[w].audit /\ k = At(w)
             /\ \A a \in Audits : items[a] = << >> => items'[a] = << >>
  <2>1. /\ items' \in [Audits -> Seq(Item)]
        /\ \A a \in Audits : DOMAIN items'[a] = DOMAIN items[a]
        /\ \A a \in Audits : Len(items'[a]) = Len(items[a])
        /\ items'[worker[w].audit][At(w)] = item
        /\ \A a \in Audits : \A k \in DOMAIN items[a] :
             a # worker[w].audit \/ k # At(w) => items'[a][k] = items[a][k]
    BY <1>a, <1>c, UpdatedItem DEF TypeInv
  <2>2. ASSUME NEW a \in Audits, NEW k \in ItemsIn(a, "deleting")'
        PROVE  \/ k \in ItemsIn(a, "deleting")
               \/ Claim(w) /\ Exists(w) /\ a = worker[w].audit /\ k = At(w)
    <3>1. CASE a # worker[w].audit \/ k # At(w)
      BY <2>1, <2>2, <3>1 DEF ItemsIn
    <3>2. CASE a = worker[w].audit /\ k = At(w)
      BY <1>c, <2>1, <2>2, <3>2 DEF ItemsIn, Current, Plan
    <3> QED BY <3>1, <3>2
  <2>3. ASSUME NEW a \in Audits, items[a] = << >> PROVE items'[a] = << >>
    <3>1. items'[a] \in Seq(Item) /\ Len(items'[a]) = 0
      BY <1>b, <2>1, <2>3
    <3> QED BY <3>1
  <2> QED BY <2>1, <2>2, <2>3
<1>d. ASSUME UNCHANGED items
      PROVE  /\ \A a \in Audits : Len(items'[a]) = Len(items[a])
             /\ \A a \in Audits : \A k \in ItemsIn(a, "deleting")' :
                  k \in ItemsIn(a, "deleting")
             /\ \A a \in Audits : items[a] = << >> => items'[a] = << >>
  BY <1>d DEF ItemsIn
<1>1. UNCHANGED audit
  BY DEF OnItem, ReadItem, Claim, Unlink, Record, ItemDone
<1>e. \A status \in {"done", "skipped", "deleting"} :
        Exists(w) => /\ [Current(w) EXCEPT !.status = status] \in Item
                     /\ [Current(w) EXCEPT !.status = status].status = status
  BY <1>a DEF Item
<1>2. CASE ReadItem(w)
  BY <1>1, <1>2, <1>c, <1>d, <1>e DEF ReadItem
<1>3. CASE Claim(w)
  BY <1>1, <1>3, <1>c, <1>e DEF Claim
<1>4. CASE Unlink(w)
  BY <1>1, <1>4, <1>d DEF Unlink
<1>5. CASE Record(w)
  <2>1. Exists(w) /\ Current(w).status = "deleting"
    BY <1>5, <1>a DEF Record, Now, Claimed, Working
  <2>2. worker[w] \in WorkerState BY DEF TypeInv, TypeOK
  <2>3. [Current(w) EXCEPT !.files = worker[w].files, !.freed = worker[w].freed] \in Item
    BY <1>a, <2>1, <2>2 DEF Item, WorkerState
  <2> QED BY <1>1, <1>5, <1>c, <2>1, <2>3 DEF Record
<1>6. CASE ItemDone(w)
  BY <1>1, <1>6, <1>c, <1>d, <1>e DEF ItemDone
<1> QED BY <1>2, <1>3, <1>4, <1>5, <1>6 DEF OnItem

\* A claim turns the current item into claimed work; the other steps on an item
\* leave the rest of the page before the run.
LEMMA ItemUnderway ==
  ASSUME TypeInv, RetryInv, RetryInv', NEW w \in Workers, OnItem(w), Underway(w)
  PROVE  Underway(w)'
<1>a. /\ worker[w].audit \in Audits /\ worker[w].pc \in Inside /\ Active(w)
      /\ Claimed(w) /\ At(w) \in Nat /\ First(worker[w].page).at = At(w)
  <2>1. worker[w].audit \in Audits /\ worker[w].pc \in Inside /\ worker[w].page # {}
        /\ Active(w)
    BY DEF OnItem, ReadItem, Claim, Unlink, Record, ItemDone, Checked, Now, TypeInv,
       Shaped, Active, Inside
  <2> QED BY <2>1, FirstOfPage DEF RetryInv, TypeInv, At
<1>b. /\ UNCHANGED audit
      /\ FitsAPage(worker[w].audit)' /\ worker'[w].audit = worker[w].audit
           => FitsAPage(worker[w].audit)
      /\ \A k \in ItemsIn(worker[w].audit, "deleting")' :
           worker'[w].audit = worker[w].audit =>
             \/ k \in ItemsIn(worker[w].audit, "deleting")
             \/ Claim(w) /\ Exists(w) /\ k = At(w)
  <2>1. PICK a \in Audits : a = worker[w].audit BY <1>a
  <2> QED BY <2>1, ItemWritten DEF FitsAPage, ItemsIn
<1>c. ASSUME NextItem(w),
             \A k \in ItemsIn(worker[w].audit, "deleting")' :
               /\ k \in ItemsIn(worker[w].audit, "deleting") /\ k # At(w)
      PROVE  Underway(w)'
  <2>1. /\ worker'[w].audit = worker[w].audit
        /\ worker'[w].page = worker[w].page \ {First(worker[w].page)}
        /\ worker'[w].pc = IF worker'[w].page = {} THEN "page" ELSE "item"
    BY <1>a, <1>c, Moves
  <2>2. \A k : k # At(w) => Entry(k) # First(worker[w].page)
    BY <1>a DEF Entry
  <2> QED BY <1>a, <1>b, <1>c, <2>1, <2>2, NextItemUnderway
<1>d. ASSUME worker'[w].audit = worker[w].audit, worker'[w].page = worker[w].page,
             worker'[w].pc \in {"locked", "files", "record"},
             worker'[w].pc = "locked" => worker[w].pc = "claim" /\ ~Claim(w)
      PROVE  Underway(w)'
  <2>1. At(w)' = At(w) BY <1>d DEF At
  <2>2. audit'[worker'[w].audit].status \in Held
    BY <1>a, <1>b, <1>d DEF Underway, Going, Held
  <2>3. ASSUME FitsAPage(worker[w].audit)', NEW k \in ItemsIn(worker[w].audit, "deleting")'
        PROVE  /\ worker'[w].pc = "locked" => Entry(k) \in worker'[w].page
               /\ worker'[w].pc \in Working => k = At(w) \/ Entry(k) \in worker'[w].page
    BY <1>a, <1>b, <1>d, <2>3 DEF Underway, Ahead, Inside, Working
  <2>4. Ahead(w)'
    BY <1>d, <2>1, <2>3 DEF Ahead, Now, Working, FitsAPage, ItemsIn, Entry
  <2> QED BY <1>d, <2>2, <2>4 DEF Underway, Held
<1>e. ASSUME Goto(w, "failing") PROVE Underway(w)'
  BY <1>e, Moves, OutsideUnderway
<1>f. ASSUME Exists(w), NEW status \in {"done", "skipped"},
             Update(w, [Current(w) EXCEPT !.status = status]),
             worker'[w].audit = worker[w].audit,
             NEW k \in ItemsIn(worker[w].audit, "deleting")'
      PROVE  k # At(w)
  <2>1. Current(w) \in Item
    BY <1>a, <1>f, CurrentItem DEF TypeInv
  <2>2. [Current(w) EXCEPT !.status = status] \in Item
        /\ [Current(w) EXCEPT !.status = status].status = status
    BY <2>1 DEF Item
  <2>3. items'[worker[w].audit][At(w)] = [Current(w) EXCEPT !.status = status]
    BY <1>a, <1>f, <2>2, UpdatedItem DEF TypeInv
  <2> QED BY <1>f, <2>2, <2>3 DEF ItemsIn
<1>1. CASE ReadItem(w)
  <2>0. worker[w].pc = "claim" /\ ~Claim(w) BY <1>1 DEF ReadItem, Claim, Checked, Now
  <2>1. CASE ~Exists(w)
    BY <1>1, <1>e, <2>1 DEF ReadItem
  <2>2. CASE Exists(w) /\ Current(w).status = "deleting"
    <3>1. WorkOn(w, Current(w)) BY <1>1, <2>2 DEF ReadItem
    <3> QED BY <1>d, <3>1, Moves
  <2>3. CASE Exists(w) /\ Current(w).status \in {"done", "skipped"}
    <3>1. NextItem(w) /\ UNCHANGED items BY <1>1, <2>3 DEF ReadItem
    <3>2. worker'[w].audit = worker[w].audit BY <1>a, <3>1, Moves
    <3>3. \A k \in ItemsIn(worker[w].audit, "deleting")' :
            k \in ItemsIn(worker[w].audit, "deleting") /\ k # At(w)
      BY <2>3, <3>1, <3>2 DEF ItemsIn, Current, Plan
    <3> QED BY <1>c, <3>1, <3>3
  <2>4. CASE Exists(w) /\ Current(w).status = "pending" /\ UnchangedFiles(Current(w).files)
    <3>1. Goto(w, "locked") BY <1>1, <2>4 DEF ReadItem
    <3> QED BY <1>d, <2>0, <3>1, Moves
  <2>5. CASE Exists(w) /\ Current(w).status = "pending" /\ ~UnchangedFiles(Current(w).files)
    <3>1. NextItem(w) /\ Update(w, [Current(w) EXCEPT !.status = "skipped"])
      BY <1>1, <2>5 DEF ReadItem
    <3>2. worker'[w].audit = worker[w].audit BY <1>a, <3>1, Moves
    <3> QED BY <1>b, <1>c, <1>f, <2>0, <2>5, <3>1, <3>2
  <2> QED BY <1>1, <2>1, <2>2, <2>3, <2>4, <2>5 DEF ReadItem
<1>2. CASE Claim(w)
  <2>1. CASE Valid(Current(w))
    <3>1. WorkOn(w, [Current(w) EXCEPT !.status = "deleting"])
      BY <1>2, <2>1 DEF Claim
    <3> QED BY <1>d, <3>1, Moves
  <2>2. CASE ~Valid(Current(w))
    <3>1. /\ NextItem(w) /\ Update(w, [Current(w) EXCEPT !.status = "skipped"])
          /\ Exists(w)
      BY <1>2, <2>2 DEF Claim
    <3>2. worker'[w].audit = worker[w].audit BY <1>a, <3>1, Moves
    <3> QED BY <1>b, <1>c, <1>f, <3>1, <3>2
  <2> QED BY <2>1, <2>2
<1>3. CASE Unlink(w)
  <2>1. /\ worker'[w].pc = "record" /\ worker'[w].audit = worker[w].audit
        /\ worker'[w].page = worker[w].page
    BY <1>3 DEF Unlink, TypeInv, TypeOK, WorkerState
  <2> QED BY <1>d, <2>1
<1>4. CASE Record(w)
  <2>1. Goto(w, "failing") \/ Goto(w, "files") BY <1>4 DEF Record
  <2> QED BY <1>d, <1>e, <2>1, Moves
<1>5. CASE ItemDone(w)
  <2>0. Exists(w) BY <1>5, <1>a DEF ItemDone, Now, Claimed, Working
  <2>1. NextItem(w) /\ Update(w, [Current(w) EXCEPT !.status = "done"])
    BY <1>5, <2>0 DEF ItemDone
  <2>2. worker'[w].audit = worker[w].audit BY <1>a, <2>1, Moves
  <2>3. ~Claim(w) BY <1>5 DEF ItemDone, Claim, Checked, Now
  <2> QED BY <1>b, <1>c, <1>f, <2>0, <2>1, <2>2, <2>3
<1> QED BY <1>1, <1>2, <1>3, <1>4, <1>5 DEF OnItem

LEMMA UnderwayStep ==
  ASSUME TypeInv, TypeInv', RetryInv, RetryInv', RecoveryInv, OneRunAtATime,
         OneRunAtATime', [Next]_vars, NEW v \in Workers
  PROVE  Underway(v)'
<1>0. Underway(v) BY DEF RecoveryInv
<1>1. CASE \A w \in Workers : ~Pursues(w)
  <2>1. \A w \in Workers : ~OnItem(w) /\ ~MarkExecuting(w) /\ ~Finish(w) /\ ~RecordFailure(w)
    BY <1>1 DEF Pursues, Run, OnItem
  <2>2. SameWork(v) BY <1>1, RunsStay DEF SameWork
  <2> QED BY <1>0, <2>1, <2>2, QuietPlans, StatusHeld, SameWorkUnderway
<1>2. ASSUME NEW w \in Workers, Pursues(w), w # v PROVE Underway(v)'
  <2>1. worker'[v] = worker[v] BY <1>2, OthersStay
  <2>2. CASE ~Active(v)
    BY <2>1, <2>2, OutsideUnderway DEF Active
  <2>3. CASE Active(v)
    <3>1. ~Active(w) /\ ~Active(w)'
      BY <1>2, <2>1, <2>3 DEF OneRunAtATime, Active
    <3>2. ASSUME NEW a \in Audits, Acquire(w, a) PROVE FALSE
      <4>1. worker \in [Workers -> WorkerState] BY DEF TypeInv, TypeOK
      <4>2. worker'[w].pc = "start" BY <3>2, <4>1 DEF Acquire, NotRunning
      <4> QED BY <3>1, <4>2 DEF Active
    <3>3. LoseLock(w)
      BY <1>2, <3>1, <3>2 DEF Pursues, Run, Throws, WorkerGone, Notice, Active, Checked,
         Now, InterruptOthers, MarkExecuting, FetchPage, PassOver, TakeItem, ReadItem,
         Claim, CheckReferences, Compare, Unlink, Record, ItemDone, Finish, Supersede, Stop,
         RecordFailure, Release, Steps
    <3>4. PlansKept /\ UNCHANGED audit
      <4>1. \A a \in Audits : Len(items[a]) \in Nat
        BY DEF TypeInv, TypeOK
      <4> QED BY <3>3, <4>1 DEF LoseLock, PlansKept, ItemsIn
    <3> QED BY <1>0, <2>1, <3>4, SameWorkUnderway DEF SameWork
  <2> QED BY <2>2, <2>3
<1>3. CASE Pursues(v)
  <2>1. CASE OnItem(v) BY <1>0, <2>1, ItemUnderway
  <2>2. CASE ~OnItem(v) /\ \E w \in Workers : OnItem(w)
    BY <1>2, <2>2 DEF OnItem, Pursues, Run
  <2>3. CASE \A w \in Workers : ~OnItem(w)
    BY <1>0, <1>3, <2>3, QuietUnderway
  <2> QED BY <2>1, <2>2, <2>3
<1> QED BY <1>1, <1>2, <1>3

\* Only a plan without claimed work is dismissed, and a dismissed plan is empty.
LEMMA DismissedStep ==
  ASSUME TypeInv, RetryInv, DismissedIsEmpty, [Next]_vars
  PROVE  DismissedIsEmpty'
<1> SUFFICES ASSUME NEW a \in Audits, audit'[a].status = "dismissed"
             PROVE  items'[a] = << >>
  BY DEF DismissedIsEmpty
<1>0. /\ audit \in [Audits -> [status : AuditStatus, expired : BOOLEAN,
                              mode : {"pressure", "deleted"}]]
      /\ items \in [Audits -> Seq(Item)]
  BY DEF TypeInv, TypeOK
<1>1. CASE UNCHANGED <<audit, items>>
  BY <1>1 DEF DismissedIsEmpty
<1>2. ASSUME NEW w \in Workers, OnItem(w) PROVE items'[a] = << >>
  BY <1>2, ItemWritten DEF DismissedIsEmpty
<1>3. ASSUME NEW w \in Workers, InterruptOthers(w) \/ Supersede(w)
      PROVE  items'[a] = << >>
  BY <1>0, <1>3 DEF InterruptOthers, Supersede, DismissedIsEmpty
<1>4. ASSUME NEW w \in Workers, MarkExecuting(w) \/ Finish(w) \/ RecordFailure(w)
      PROVE  items'[a] = << >>
  <2>1. /\ UNCHANGED items
        /\ UNCHANGED audit \/ \E status \in {"executing", "executed", "partial", "failed"} :
                                SetStatus(worker[w].audit, status)
    BY <1>4 DEF MarkExecuting, Finish, RecordFailure
  <2>2. audit[a].status = "dismissed"
    BY <1>0, <2>1 DEF SetStatus
  <2> QED BY <2>1, <2>2 DEF DismissedIsEmpty
<1>5. CASE ReadAudits
  BY <1>0, <1>5 DEF ReadAudits, DismissedIsEmpty
<1>6. ASSUME NEW b \in Audits, DeleteAudit(b) PROVE items'[a] = << >>
  <2>1. CASE a = b BY <1>0, <1>6, <2>1 DEF DeleteAudit
  <2>2. CASE a # b BY <1>0, <1>6, <2>2 DEF DeleteAudit, SetStatus, DismissedIsEmpty
  <2> QED BY <2>1, <2>2
<1>7. ASSUME NEW b \in Audits, Audit(b), ~ UNCHANGED <<audit, items>>
      PROVE  items'[a] = << >>
  <2>1. CASE a = b
    <3>1. audit[b].status \in {"none", "pending"} \/ Expire(b)
      BY <1>7 DEF Audit, StartAudit, PlanRow, PlanDisk, CompleteAudit, FailAudit
    <3>2. ~ \E mode \in Modes : StartAudit(b, mode)
      BY <1>0, <2>1 DEF StartAudit
    <3>3. ~CompleteAudit(b) /\ ~FailAudit(b)
      BY <1>0, <2>1 DEF CompleteAudit, FailAudit, SetStatus
    <3>4. CASE Expire(b)
      BY <1>0, <2>1, <3>4 DEF Expire, DismissedIsEmpty
    <3>5. ASSUME (\E r \in Rows : PlanRow(b, r)) \/ (\E f \in Files : PlanDisk(b, f))
          PROVE FALSE
      BY <2>1, <3>5 DEF PlanRow, PlanDisk
    <3> QED BY <1>7, <3>2, <3>3, <3>4, <3>5 DEF Audit
  <2>2. CASE a # b
    <3>1. audit'[a].status = audit[a].status /\ items'[a] = items[a]
      BY <1>0, <1>7, <2>2 DEF Audit, StartAudit, PlanRow, PlanDisk, CompleteAudit,
         FailAudit, Expire, SetStatus
    <3> QED BY <3>1 DEF DismissedIsEmpty
  <2> QED BY <2>1, <2>2
<1> QED
  BY <1>1, <1>2, <1>3, <1>4, <1>5, <1>6, <1>7
  DEF Next, vars, Run, OnItem, Throws, WorkerGone, LoseLock, Notice, Acquire,
     FetchPage, PassOver, TakeItem, CheckReferences, Compare, Stop, Release,
     ChangeRow, ChangeCitation, ReplaceFile

\* An audit with claimed work leaves the resumable statuses only when its run is
\* finished with all of it.
LEMMA RecoverableStep ==
  ASSUME TypeInv, TypeInv', RetryInv, RecoveryInv, [Next]_vars
  PROVE  Recoverable'
<1> SUFFICES ASSUME NEW a \in Audits, FitsAPage(a)', NEW k \in ItemsIn(a, "deleting")'
             PROVE  audit'[a].status \in {"executing", "failed", "interrupted"}
  BY DEF Recoverable
<1>0. /\ audit \in [Audits -> [status : AuditStatus, expired : BOOLEAN,
                              mode : {"pressure", "deleted"}]]
      /\ \A w \in Workers : Active(w) => worker[w].audit \in Audits
  BY DEF TypeInv, TypeOK, Shaped
<1>1. ASSUME NEW w \in Workers, OnItem(w)
      PROVE  audit'[a].status \in {"executing", "failed", "interrupted"}
  <2>1. /\ UNCHANGED audit /\ FitsAPage(a)
        /\ \/ k \in ItemsIn(a, "deleting")
           \/ Claim(w) /\ Exists(w) /\ a = worker[w].audit
    BY <1>1, ItemWritten DEF FitsAPage
  <2>2. CASE k \in ItemsIn(a, "deleting")
    BY <2>1, <2>2 DEF RecoveryInv, Recoverable
  <2>3. CASE Claim(w) /\ Exists(w) /\ a = worker[w].audit
    <3>1. audit[a].status \in {"executing", "interrupted", "dismissed"}
      BY <2>3 DEF RecoveryInv, Underway, Claim, Checked, Now, Going, Inside
    <3>2. items[a] # << >> BY <2>3 DEF Exists, Plan
    <3> QED BY <2>1, <3>1, <3>2 DEF RecoveryInv, DismissedIsEmpty
  <2> QED BY <2>1, <2>2, <2>3
<1>2. CASE \A w \in Workers : ~OnItem(w)
  <2>1. k \in ItemsIn(a, "deleting") /\ FitsAPage(a)
    BY <1>2, QuietPlans, KeptItems
  <2>2. audit[a].status \in {"executing", "failed", "interrupted"}
    BY <2>1 DEF RecoveryInv, Recoverable
  <2>3. CASE UNCHANGED audit BY <2>2, <2>3
  <2>4. ASSUME NEW w \in Workers, InterruptOthers(w) \/ Supersede(w)
        PROVE  audit'[a].status \in {"executing", "failed", "interrupted"}
    BY <1>0, <2>2, <2>4 DEF InterruptOthers, Supersede
  <2>5. ASSUME NEW w \in Workers, MarkExecuting(w) \/ RecordFailure(w)
        PROVE  audit'[a].status \in {"executing", "failed", "interrupted"}
    <3>1. \/ UNCHANGED audit
          \/ \E status \in {"executing", "failed"} : SetStatus(worker[w].audit, status)
      BY <2>5 DEF MarkExecuting, RecordFailure
    <3> QED BY <1>0, <2>2, <3>1 DEF SetStatus
  <2>6. ASSUME NEW w \in Workers, Finish(w)
        PROVE  audit'[a].status \in {"executing", "failed", "interrupted"}
    <3>1. Now(w, "finish") /\ Underway(w) BY <2>6 DEF Finish, Checked, RecoveryInv
    <3>2. a # worker[w].audit
      BY <2>1, <3>1 DEF Underway, Ahead, Active, Now
    <3> QED BY <1>0, <2>2, <2>6, <3>2 DEF Finish, SetStatus
  <2>7. CASE ReadAudits
    BY <1>0, <2>2, <2>7 DEF ReadAudits
  <2>8. ASSUME NEW b \in Audits, DeleteAudit(b)
        PROVE  audit'[a].status \in {"executing", "failed", "interrupted"}
    BY <1>0, <2>1, <2>2, <2>8 DEF DeleteAudit, SetStatus
  <2>9. ASSUME NEW b \in Audits, Audit(b)
        PROVE  audit'[a].status \in {"executing", "failed", "interrupted"}
    <3>1. CASE UNCHANGED audit BY <2>2, <3>1
    <3>2. ASSUME NEW mode \in Modes, StartAudit(b, mode)
          PROVE  audit'[a].status \in {"executing", "failed", "interrupted"}
      BY <1>0, <2>2, <3>2 DEF StartAudit
    <3>3. CASE CompleteAudit(b) \/ FailAudit(b)
      BY <1>0, <2>2, <3>3 DEF CompleteAudit, FailAudit, SetStatus
    <3>4. CASE Expire(b)
      BY <1>0, <2>2, <3>4 DEF Expire
    <3> QED BY <2>9, <3>1, <3>2, <3>3, <3>4 DEF Audit, PlanRow, PlanDisk
  <2> QED
    BY <1>2, <2>3, <2>4, <2>5, <2>6, <2>7, <2>8, <2>9
    DEF Next, vars, Run, OnItem, Throws, WorkerGone, LoseLock, Notice, Acquire,
       FetchPage, PassOver, TakeItem, CheckReferences, Compare, Stop, Release,
       ChangeRow, ChangeCitation, ReplaceFile
<1> QED BY <1>1, <1>2

\* Claimed file work is never stranded: as long as one run works at a time, an
\* audit whose plan fits a page and that has a claimed item can be resumed.
THEOREM ClaimedWorkIsResumable == Spec /\ []OneRunAtATime => []Recoverable
<1> DEFINE Inv == TypeInv /\ RetryInv /\ RecoveryInv
<1>1. Init => Inv
  <2> SUFFICES ASSUME Init PROVE Inv OBVIOUS
  <2>1. RetryInv
    BY DEF Init, RetryInv, DurableRetry, Claimed, Now, NotRunning, Working, Removing
  <2>2. \A w \in Workers : Underway(w)
    BY DEF Init, Underway, Active, NotRunning, Going, Inside
  <2>3. Recoverable /\ DismissedIsEmpty
    BY DEF Init, Recoverable, DismissedIsEmpty, ItemsIn
  <2> QED BY <2>1, <2>2, <2>3, InitTypeInv DEF RecoveryInv
<1>2. Inv /\ OneRunAtATime /\ OneRunAtATime' /\ [Next]_vars => Inv'
  <2> SUFFICES ASSUME Inv, OneRunAtATime, OneRunAtATime', [Next]_vars PROVE Inv'
    OBVIOUS
  <2>1. TypeInv' BY TypeInvStep
  <2>2. RetryInv' BY RetryInvStep
  <2>3. \A w \in Workers : Underway(w)' BY <2>1, <2>2, UnderwayStep
  <2>4. DismissedIsEmpty' BY DismissedStep DEF RecoveryInv
  <2>5. Recoverable' BY <2>1, RecoverableStep
  <2> QED BY <2>1, <2>2, <2>3, <2>4, <2>5 DEF RecoveryInv
<1>3. Inv => Recoverable BY DEF RecoveryInv
<1> QED BY <1>1, <1>2, <1>3, PTL DEF Spec

COROLLARY LockKeepsResumable == Spec /\ [](losses = 0) => []Recoverable
BY LockExcludes, ClaimedWorkIsResumable, PTL

-----------------------------------------------------------------------------
(* Sums.  What MapThenSumSet computes is a function over the subsets of a  *)
(* set; that there is one, and what bounds it, follows by induction on     *)
(* their size, with the least counterexample as the set of WFMin.          *)

Pick(s) == CHOOSE x \in s : TRUE

\* The equation of a sum over the subsets of a set.
Added(sum, g, s) == IF s = {} THEN 0 ELSE g[Pick(s)] + sum[s \ {Pick(s)}]
Adds(sum, g, S) == sum = [s \in SUBSET S |-> Added(sum, g, s)]

\* A set without the element its sum begins with.
LEMMA Without ==
  ASSUME NEW S, IsFiniteSet(S), NEW s \in SUBSET S, s # {}
  PROVE  /\ Pick(s) \in s /\ s \ {Pick(s)} \in SUBSET S
         /\ Cardinality(s) \in Nat /\ Cardinality(s \ {Pick(s)}) \in Nat
         /\ Cardinality(s) = Cardinality(s \ {Pick(s)}) + 1
<1>1. Pick(s) \in s
  BY DEF Pick
<1>2. IsFiniteSet(s) /\ IsFiniteSet(s \ {Pick(s)})
  BY FS_Subset
<1>3. /\ Cardinality(s) \in Nat /\ Cardinality(s \ {Pick(s)}) \in Nat
      /\ Cardinality(s \ {Pick(s)}) = Cardinality(s) - 1
  BY <1>1, <1>2, FS_CardinalityType, FS_RemoveElement
<1> QED BY <1>1, <1>3

\* A finite set has such a sum: the subsets of each size have one.
LEMMA SumExists ==
  ASSUME NEW S, IsFiniteSet(S), NEW g
  PROVE  \E sum : Adds(sum, g, S)
<1> DEFINE Upto(h, n) == \A s \in SUBSET S : Cardinality(s) <= n => h[s] = Added(h, g, s)
           Missing == {n \in Nat : ~\E h : Upto(h, n)}
<1>1. Missing = {}
  <2> SUFFICES ASSUME Missing # {} PROVE FALSE
    OBVIOUS
  <2>1. PICK m \in Missing : \A n \in Missing : m <= n
    <3> Missing \subseteq Nat
      OBVIOUS
    <3> HIDE DEF Missing
    <3> QED BY LeastOf
  <2>2. m # 0
    <3> DEFINE h == [s \in SUBSET S |-> 0]
    <3>1. ASSUME NEW s \in SUBSET S, Cardinality(s) <= 0 PROVE s = {}
      <4> SUFFICES ASSUME s # {} PROVE FALSE
        OBVIOUS
      <4>1. /\ Cardinality(s) \in Nat /\ Cardinality(s \ {Pick(s)}) \in Nat
            /\ Cardinality(s) = Cardinality(s \ {Pick(s)}) + 1
        BY Without
      <4> QED BY <3>1, <4>1
    <3>2. ASSUME NEW s \in SUBSET S, Cardinality(s) <= 0 PROVE h[s] = Added(h, g, s)
      <4>1. s = {} /\ h[s] = 0
        BY <3>1, <3>2
      <4> HIDE DEF h
      <4> QED BY <4>1 DEF Added
    <3>3. Upto(h, 0)
      <4> HIDE DEF h
      <4> QED BY <3>2
    <3> HIDE DEF h
    <3> HIDE DEF Upto
    <3> QED BY <2>1, <3>3
  <2>3. m - 1 \in Nat /\ m - 1 \notin Missing
    BY <2>1, <2>2
  <2>4. PICK h : Upto(h, m - 1)
    BY <2>3
  <2> DEFINE k == [s \in SUBSET S |-> Added(h, g, s)]
  <2>5. ASSUME NEW s \in SUBSET S, Cardinality(s) <= m PROVE k[s] = Added(k, g, s)
    <3>1. CASE s = {}
      BY <3>1 DEF Added
    <3>2. CASE s # {}
      <4> DEFINE r == s \ {Pick(s)}
      <4>1. r \in SUBSET S /\ Cardinality(r) <= m - 1
        BY <2>1, <2>5, <3>2, Without
      <4>2. k[r] = h[r]
        BY <2>4, <4>1
      <4>3. k[s] = g[Pick(s)] + h[r]
        BY <3>2 DEF Added
      <4> HIDE DEF k
      <4> QED BY <3>2, <4>2, <4>3 DEF Added
    <3> QED BY <3>1, <3>2
  <2>6. Upto(k, m)
    <3> HIDE DEF k
    <3> QED BY <2>5
  <2> HIDE DEF k, Upto
  <2> QED BY <2>1, <2>6
<1>2. Cardinality(S) \in Nat
  BY FS_CardinalityType
<1>3. PICK h : Upto(h, Cardinality(S))
  <2> HIDE DEF Upto
  <2> QED BY <1>1, <1>2
<1> DEFINE sum == [s \in SUBSET S |-> h[s]]
<1>4. ASSUME NEW s \in SUBSET S PROVE h[s] = Added(sum, g, s)
  <2>1. Cardinality(s) <= Cardinality(S)
    BY FS_Subset
  <2>2. h[s] = Added(h, g, s)
    BY <1>3, <2>1
  <2>3. s # {} => sum[s \ {Pick(s)}] = h[s \ {Pick(s)}]
    OBVIOUS
  <2> HIDE DEF sum
  <2> QED BY <2>2, <2>3 DEF Added
<1>5. Adds(sum, g, S)
  <2>1. sum = [s \in SUBSET S |-> Added(sum, g, s)]
    <3> DEFINE T == sum
    <3>1. \A s \in SUBSET S : h[s] = Added(T, g, s)
      BY <1>4
    <3>2. T = [s \in SUBSET S |-> h[s]]
      OBVIOUS
    <3> HIDE DEF T
    <3> QED BY <3>1, <3>2
  <2> QED BY <2>1 DEF Adds
<1> QED BY <1>5

\* Where every element has at least as many of a set to its credit as it adds, the sum is not
\* larger than the set.
LEMMA SumCredited ==
  ASSUME NEW S, IsFiniteSet(S), NEW g, NEW G, IsFiniteSet(G), NEW c, NEW sum, Adds(sum, g, S),
         \A x \in S : g[x] \in Nat /\ g[x] <= Cardinality({f \in G : c[f] = x})
  PROVE  sum[S] <= Cardinality(G)
<1> DEFINE Of(s) == {f \in G : c[f] \in s}
           Good(s) == sum[s] \in Nat /\ sum[s] <= Cardinality(Of(s))
           Bad == {n \in Nat : \E s \in SUBSET S : Cardinality(s) = n /\ ~Good(s)}
<1>0. \A s : /\ IsFiniteSet(Of(s)) /\ Cardinality(Of(s)) \in Nat
             /\ Cardinality(Of(s)) <= Cardinality(G)
  BY FS_Subset, FS_CardinalityType
<1>a. \A s \in SUBSET S : sum[s] = Added(sum, g, s)
  BY DEF Adds
<1>1. Bad = {}
  <2> SUFFICES ASSUME Bad # {} PROVE FALSE
    OBVIOUS
  <2>1. PICK m \in Bad : \A n \in Bad : m <= n
    <3> Bad \subseteq Nat
      OBVIOUS
    <3> HIDE DEF Bad
    <3> QED BY LeastOf
  <2>2. PICK s \in SUBSET S : Cardinality(s) = m /\ ~Good(s)
    BY <2>1
  <2>3. s # {}
    <3> SUFFICES ASSUME s = {} PROVE Good(s)
      BY <2>2
    <3>1. sum[s] = 0
      BY <1>a DEF Added
    <3>2. Cardinality(Of(s)) \in Nat
      BY <1>0
    <3> HIDE DEF Of
    <3> QED BY <3>1, <3>2
  <2> DEFINE x == Pick(s)
             r == s \ {x}
  <2>4. x \in s /\ r \in SUBSET S /\ Cardinality(r) \in Nat /\ Cardinality(r) < m /\ x \in S
    BY <2>2, <2>3, Without
  <2>5. Good(r)
    <3>1. Cardinality(r) \notin Bad
      <4>1. m \in Nat
        BY <2>1
      <4> HIDE DEF Bad, r
      <4> QED BY <2>1, <2>4, <4>1
    <3> HIDE DEF r, Good
    <3> QED BY <2>4, <3>1
  <2>6. sum[s] = g[x] + sum[r]
    BY <1>a, <2>3 DEF Added
  <2>9. g[x] \in Nat /\ g[x] <= Cardinality({f \in G : c[f] = x})
    BY <2>4
  <2>7. Cardinality(Of(s)) = Cardinality(Of(r)) + Cardinality({f \in G : c[f] = x})
    <3>1. /\ Of(s) = Of(r) \cup {f \in G : c[f] = x}
          /\ Of(r) \cap {f \in G : c[f] = x} = {}
      BY <2>4
    <3> DEFINE D == {f \in G : c[f] = x}
    <3>2. IsFiniteSet(D) /\ IsFiniteSet(Of(r))
      BY <1>0, FS_Subset
    <3> HIDE DEF Of, r, x, D
    <3>3. Cardinality(Of(r)) \in Nat /\ Cardinality(D) \in Nat
      BY <3>2, FS_CardinalityType
    <3>4. Cardinality(Of(r) \cup D)
            = Cardinality(Of(r)) + Cardinality(D) - Cardinality(Of(r) \cap D)
      BY <3>2, FS_Union
    <3>5. Of(s) = Of(r) \cup D /\ Of(r) \cap D = {}
      BY <3>1 DEF D
    <3>6. Cardinality(Of(s)) = Cardinality(Of(r)) + Cardinality(D)
      BY <3>3, <3>4, <3>5, FS_EmptySet
    <3> QED BY <3>6 DEF D
  <2>8. Cardinality({f \in G : c[f] = x}) \in Nat
    BY FS_Subset, FS_CardinalityType
  <2> HIDE DEF Of, r, x
  <2>10. Cardinality(Of(r)) \in Nat /\ Cardinality(Of(s)) \in Nat
    BY <1>0
  <2>11. sum[s] \in Nat /\ sum[s] <= Cardinality(Of(s))
    BY <2>5, <2>6, <2>7, <2>8, <2>9, <2>10
  <2> QED BY <2>2, <2>11
<1>2. Good(S)
  <2>1. Cardinality(S) \in Nat
    BY FS_CardinalityType
  <2> HIDE DEF Good
  <2> QED BY <1>1, <2>1
<1>3. Cardinality(Of(S)) \in Nat /\ Cardinality(Of(S)) <= Cardinality(G)
  BY <1>0
<1>4. Cardinality(G) \in Nat
  BY FS_CardinalityType
<1> HIDE DEF Of
<1> QED BY <1>2, <1>3, <1>4

-----------------------------------------------------------------------------
(* Freed counters are conservative.                                        *)
(*                                                                         *)
(* The sum of the counters is not inductive, since a run counts before it  *)
(* writes.  Each file that is gone is to the credit of one item at most;   *)
(* neither the counter of an item nor the total of a run at work on it is  *)
(* above that credit.                                                      *)

GoneFiles == {f \in Files : disk[f] = Gone}

\* Which item each file that is gone is to the credit of: a plan and a place in it.
Credits == [Files -> (Audits \cup {NoAudit}) \X Nat]
Credited(c, i) == {f \in GoneFiles : c[f] = i}
Place(w) == <<worker[w].audit, At(w)>>

\* No item claims more than its credit, nor does what a run will write to its item.
CreditGood(c) ==
  /\ \A a \in Audits : \A k \in DOMAIN items[a] :
       items[a][k].freed <= Cardinality(Credited(c, <<a, k>>))
  /\ \A w \in Workers : worker[w].pc \in Working =>
       worker[w].freed <= Cardinality(Credited(c, Place(w)))

\* A run unlinks a file of its list.
Picked(w) == worker[w].pc \in Removing => worker[w].files # {}

FreedInv ==
  /\ IsFiniteSet(GoneFiles) /\ \E c \in Credits : CreditGood(c)
  /\ \A w \in Workers : Picked(w)

\* An unlink that counts: the file was there and is in use nowhere.
Frees(w) == Unlink(w) /\ worker'[w].pc = "record" /\ worker'[w].freed # worker[w].freed

\* How an unlink moves its run.
LEMMA UnlinkMoves ==
  ASSUME TypeInv, NEW w \in Workers, Unlink(w), worker'[w].pc \in Working
  PROVE  LET f == NextFile(worker[w].files).file IN
         /\ worker'[w].pc = "record" /\ worker[w].pc = "unlink" /\ items' = items
         /\ worker'[w].audit = worker[w].audit /\ worker'[w].page = worker[w].page
         /\ \A v \in Workers \ {w} : worker'[v] = worker[v]
         /\ \/ worker'[w].freed = worker[w].freed
            \/ /\ worker'[w].freed = worker[w].freed + 1
               /\ disk[f] # Gone /\ disk' = [disk EXCEPT ![f] = Gone]
<1>1. worker \in [Workers -> WorkerState] /\ worker[w] \in WorkerState
  BY DEF TypeInv, TypeOK
<1> DEFINE planned == NextFile(worker[w].files)
<1>3. /\ worker[w].pc = "unlink" /\ items' = items
      /\ disk' = IF worker[w].spare THEN disk ELSE [disk EXCEPT ![planned.file] = Gone]
      /\ worker' = [worker EXCEPT ![w].pc = "record", ![w].files = @ \ {planned},
                                  ![w].freed = @ + Freed(w, planned)]
  BY DEF Unlink, Now
<1>4. \/ Freed(w, planned) = 0
      \/ Freed(w, planned) = 1 /\ ~worker[w].spare /\ disk[planned.file] # Gone
  BY DEF Freed
<1>5. /\ worker'[w].pc = "record" /\ worker'[w].freed = worker[w].freed + Freed(w, planned)
      /\ worker'[w].audit = worker[w].audit /\ worker'[w].page = worker[w].page
      /\ \A v \in Workers \ {w} : worker'[v] = worker[v]
  <2> DEFINE n == Freed(w, planned)
  <2> HIDE DEF n
  <2> QED BY <1>1, <1>3 DEF WorkerState, n
<1>6. worker[w].freed \in Nat
  BY <1>1 DEF WorkerState
<1>7. CASE Freed(w, planned) = 0
  <2>1. worker'[w].freed = worker[w].freed
    BY <1>5, <1>6, <1>7
  <2> QED BY <1>3, <1>5, <2>1
<1>8. CASE Freed(w, planned) = 1 /\ ~worker[w].spare /\ disk[planned.file] # Gone
  <2>1. disk' = [disk EXCEPT ![planned.file] = Gone]
    BY <1>3, <1>8
  <2>2. worker'[w].freed = worker[w].freed + 1
    BY <1>5, <1>8
  <2> QED BY <1>3, <1>5, <1>8, <2>1, <2>2
<1> QED BY <1>4, <1>7, <1>8

\* A file that is gone stays gone.
LEMMA GoneForGood ==
  ASSUME TypeInv, [Next]_vars, NEW f \in Files, disk[f] = Gone
  PROVE  disk'[f] = Gone
<1>0. disk \in [Files -> Nat]
  BY DEF TypeInv, TypeOK
<1>1. ASSUME NEW w \in Workers, Unlink(w) PROVE disk'[f] = Gone
  BY <1>0, <1>1 DEF Unlink, Gone
<1>2. ASSUME NEW g \in Files, ReplaceFile(g) PROVE disk'[f] = Gone
  BY <1>0, <1>2 DEF ReplaceFile
<1> QED
  BY ZenonT(30), <1>1, <1>2
  DEF Next, vars, Run, Throws, WorkerGone, LoseLock, Notice, Acquire,
     InterruptOthers, MarkExecuting, FetchPage, PassOver, TakeItem, ReadItem, Claim,
     CheckReferences, Compare, Record, ItemDone, Finish, Supersede, Stop,
     RecordFailure, Release, Audit, StartAudit, PlanRow, PlanDisk, CompleteAudit,
     FailAudit, Expire, DeleteAudit, ReadAudits, ChangeRow, ChangeCitation

\* What a run counts after a step: what it counted, or what it finds in the item it takes up.
LEMMA FreedOfRun ==
  ASSUME TypeInv, [Next]_vars, NEW v \in Workers, worker'[v].pc \in Working
  PROVE  /\ worker'[v].audit = worker[v].audit /\ worker'[v].page = worker[v].page
         /\ \/ worker[v].pc \in Working /\ worker'[v].freed = worker[v].freed
            \/ Frees(v)
            \/ worker[v].audit \in Audits /\ Exists(v) /\ worker'[v].freed = Current(v).freed
<1>0. worker \in [Workers -> WorkerState] /\ worker[v] \in WorkerState
  BY DEF TypeInv, TypeOK
<1>1. CASE SameWork(v) \/ worker'[v] = worker[v]
  BY <1>1 DEF SameWork
<1>2. CASE CheckReferences(v) \/ (Compare(v) /\ Goto(v, "unlink"))
  BY <1>0, <1>2 DEF CheckReferences, Compare, Goto, Checked, Now, WorkerState, Working
<1>3. CASE OnItem(v)
  <2>a. worker[v].pc \in Inside /\ worker[v].audit \in Audits
    BY <1>3 DEF OnItem, ReadItem, Claim, Unlink, Record, ItemDone, Checked, Now, Inside,
       TypeInv, Shaped, Active
  <2>1. ASSUME NEW pc, Goto(v, pc)
        PROVE  /\ worker'[v].pc = pc /\ worker'[v].audit = worker[v].audit
               /\ worker'[v].page = worker[v].page /\ worker'[v].freed = worker[v].freed
    BY <1>0, <2>1 DEF Goto, WorkerState
  <2>2. ASSUME NEW item, WorkOn(v, item)
        PROVE  /\ worker'[v].audit = worker[v].audit /\ worker'[v].page = worker[v].page
               /\ worker'[v].freed = item.freed
    BY <1>0, <2>2 DEF WorkOn, WorkerState
  <2>3. ~NextItem(v)
    BY <1>0, <2>a, AdvancedState DEF NextItem, Working
  <2>4. CASE ReadItem(v)
    BY <2>a, <2>1, <2>2, <2>3, <2>4 DEF ReadItem, Working
  <2>5. CASE Claim(v)
    <3>1. Exists(v) /\ WorkOn(v, [Current(v) EXCEPT !.status = "deleting"])
      BY <2>3, <2>5 DEF Claim
    <3>2. Current(v) \in Item
      BY <2>a, <3>1, CurrentItem DEF TypeInv
    <3>3. [Current(v) EXCEPT !.status = "deleting"].freed = Current(v).freed
      BY <3>2 DEF Item
    <3> QED BY <2>a, <2>2, <3>1, <3>3
  <2>6. CASE Unlink(v)
    BY <2>6, UnlinkMoves DEF Frees, Working
  <2>7. CASE Record(v)
    BY <2>1, <2>7 DEF Record, Now, Working
  <2>8. CASE ItemDone(v)
    BY <2>1, <2>3, <2>8 DEF ItemDone, Working
  <2> QED BY <1>3, <2>4, <2>5, <2>6, <2>7, <2>8 DEF OnItem
<1>4. Pursues(v) /\ ~OnItem(v) =>
        SameWork(v) \/ CheckReferences(v) \/ (Compare(v) /\ Goto(v, "unlink"))
  BY QuietMove DEF Working
<1> QED BY <1>1, <1>2, <1>3, <1>4, OthersStay, RunsStay

\* What an item claims after a step: what it claimed, nothing, or what a run has counted.
LEMMA FreedOfItem ==
  ASSUME TypeInv, [Next]_vars, NEW a \in Audits, NEW k \in DOMAIN items'[a]
  PROVE  \/ k \in DOMAIN items[a] /\ items'[a][k].freed = items[a][k].freed
         \/ items'[a][k].freed = 0
         \/ \E w \in Workers : /\ worker[w].pc \in Working /\ Place(w) = <<a, k>>
                               /\ items'[a][k].freed = worker[w].freed
<1>1. CASE \A w \in Workers : ~OnItem(w)
  BY <1>1, QuietPlans DEF PlansKept
<1>2. ASSUME NEW w \in Workers, OnItem(w)
      PROVE  \/ k \in DOMAIN items[a] /\ items'[a][k].freed = items[a][k].freed
             \/ /\ worker[w].pc \in Working /\ Place(w) = <<a, k>>
                /\ items'[a][k].freed = worker[w].freed
  <2>1. worker[w].audit \in Audits
    BY <1>2 DEF OnItem, ReadItem, Claim, Unlink, Record, ItemDone, Checked, Now,
       TypeInv, Shaped, Active
  <2>2. CASE items' = items
    BY <2>2
  <2>3. ASSUME Exists(w), NEW status \in {"done", "skipped", "deleting"},
               Update(w, [Current(w) EXCEPT !.status = status])
        PROVE  k \in DOMAIN items[a] /\ items'[a][k].freed = items[a][k].freed
    <3> DEFINE item == [Current(w) EXCEPT !.status = status]
    <3>1. Current(w) \in Item /\ Current(w) = items[worker[w].audit][At(w)]
      BY <2>1, <2>3, CurrentItem DEF TypeInv, Current, Plan
    <3>2. item \in Item /\ item.freed = Current(w).freed
      BY <2>3, <3>1 DEF Item
    <3> HIDE DEF item
    <3>3. Update(w, item)
      BY <2>3 DEF item
    <3> QED BY <2>1, <2>3, <3>1, <3>2, <3>3, UpdatedItem DEF TypeInv
  <2>4. CASE Record(w) /\ Exists(w)
    <3> DEFINE item == [Current(w) EXCEPT !.files = worker[w].files, !.freed = worker[w].freed]
    <3>1. Current(w) \in Item /\ worker[w] \in WorkerState
      BY <2>1, <2>4, CurrentItem DEF TypeInv, TypeOK
    <3>2. item \in Item /\ item.freed = worker[w].freed
      <4>1. worker[w].files \in SUBSET Planned /\ worker[w].freed \in Nat
        BY <3>1 DEF WorkerState
      <4> QED BY ZenonT(30), <3>1, <4>1 DEF Item
    <3>3. Update(w, item) /\ worker[w].pc \in Working
      BY <2>4 DEF Record, Now, Working
    <3> HIDE DEF item
    <3> QED BY <2>1, <2>4, <3>2, <3>3, UpdatedItem DEF TypeInv, Place
  <2>5. ReadItem(w) => \/ UNCHANGED items
                       \/ Exists(w) /\ Update(w, [Current(w) EXCEPT !.status = "skipped"])
    BY DEF ReadItem
  <2>6. Claim(w) => Exists(w) /\ \E status \in {"skipped", "deleting"} :
                                   Update(w, [Current(w) EXCEPT !.status = status])
    BY DEF Claim
  <2>7. ItemDone(w) => \/ UNCHANGED items
                       \/ Exists(w) /\ Update(w, [Current(w) EXCEPT !.status = "done"])
    BY DEF ItemDone
  <2>8. Unlink(w) \/ (Record(w) /\ ~Exists(w)) => UNCHANGED items
    BY DEF Unlink, Record
  <2> QED BY <1>2, <2>2, <2>3, <2>4, <2>5, <2>6, <2>7, <2>8 DEF OnItem
<1> QED BY <1>1, <1>2

LEMMA FreedInvStep == TypeInv /\ FreedInv /\ [Next]_vars => FreedInv'
<1> SUFFICES ASSUME TypeInv, FreedInv, [Next]_vars PROVE FreedInv'
  OBVIOUS
<1>0. worker \in [Workers -> WorkerState] /\ disk \in [Files -> Nat]
  BY DEF TypeInv, TypeOK
<1>1. PICK c \in Credits : CreditGood(c)
  BY DEF FreedInv
<1>2. GoneFiles \subseteq GoneFiles'
  BY GoneForGood DEF GoneFiles
<1>3. \A v \in Workers : worker'[v].pc \in Working => Place(v)' = Place(v)
  BY FreedOfRun DEF Place, At
<1>4. IsFiniteSet(GoneFiles)
  BY DEF FreedInv
<1>8. \A w \in Workers : Picked(w)'
  <2> SUFFICES ASSUME NEW w \in Workers, worker'[w].pc \in Removing PROVE worker'[w].files # {}
    BY DEF Picked
  <2>1. CASE SameWork(w)
    BY <2>1 DEF SameWork, FreedInv, Picked
  <2>2. CASE CheckReferences(w)
    BY <1>0, <2>2 DEF CheckReferences, WorkerState
  <2>3. CASE Compare(w) /\ Goto(w, "unlink")
    BY <2>3, Moves DEF Compare, Checked, Now, Removing, FreedInv, Picked
  <2> QED BY <2>1, <2>2, <2>3, UnlinkBegins
\* However c becomes d, what was to the credit of an item still is, and a file that
\* a run frees is to the credit of the run's.
<1>5. ASSUME NEW d \in Credits, IsFiniteSet(GoneFiles'),
             \A f \in GoneFiles : d[f] = c[f],
             \A w \in Workers : Frees(w) =>
               \E f \in Files : disk[f] # Gone /\ disk'[f] = Gone /\ d[f] = Place(w)
      PROVE  FreedInv'
  <2> DEFINE now(i) == Cardinality({f \in GoneFiles' : d[f] = i})
             before(i) == Cardinality(Credited(c, i))
  <2>1. ASSUME NEW i
        PROVE  /\ IsFiniteSet({f \in GoneFiles' : d[f] = i})
               /\ Credited(c, i) \subseteq {f \in GoneFiles' : d[f] = i}
               /\ now(i) \in Nat /\ before(i) \in Nat /\ before(i) <= now(i)
    <3>1. IsFiniteSet({f \in GoneFiles' : d[f] = i})
      BY <1>5, FS_Subset
    <3>2. Credited(c, i) \subseteq {f \in GoneFiles' : d[f] = i}
      BY <1>2, <1>5 DEF Credited
    <3> QED BY <3>1, <3>2, FS_Subset, FS_CardinalityType
  <2>2. ASSUME NEW a \in Audits, NEW k \in DOMAIN items'[a]
        PROVE  items'[a][k].freed <= now(<<a, k>>)
    <3> DEFINE i == <<a, k>>
    <3>1. before(i) \in Nat /\ now(i) \in Nat /\ before(i) <= now(i)
      BY <2>1
    <3>2. items'[a][k].freed \in Nat
      <4>1. items'[a] \in Seq(Item)
        BY TypeInvStep DEF TypeInv, TypeOK
      <4>2. items'[a][k] \in Item
        BY <4>1
      <4> QED BY <4>2 DEF Item
    <3>3. items'[a][k].freed <= before(i) \/ items'[a][k].freed = 0
      BY <1>1, FreedOfItem DEF CreditGood
    <3> HIDE DEF now, before, i
    <3> QED BY <3>1, <3>2, <3>3 DEF i
  <2>3. ASSUME NEW v \in Workers, worker'[v].pc \in Working
        PROVE  worker'[v].freed <= now(Place(v))
    <3> DEFINE i == Place(v)
    <3>1. before(i) \in Nat /\ now(i) \in Nat /\ before(i) <= now(i)
      BY <2>1
    <3>2. worker'[v].freed \in Nat /\ worker[v].freed \in Nat
      BY TypeInvStep DEF TypeInv, TypeOK, WorkerState
    <3>3. CASE worker[v].pc \in Working /\ worker'[v].freed = worker[v].freed
      <4>1. worker[v].freed <= before(i)
        BY <1>1, <3>3 DEF CreditGood
      <4> HIDE DEF now, before, i
      <4> QED BY <3>1, <3>2, <3>3, <4>1 DEF i
    <3>4. CASE worker[v].audit \in Audits /\ Exists(v) /\ worker'[v].freed = Current(v).freed
      <4>1. Current(v).freed <= before(i)
        BY <1>1, <3>4 DEF CreditGood, Exists, Current, Plan, Place
      <4> HIDE DEF now, before, i
      <4> QED BY <3>1, <3>2, <3>4, <4>1 DEF i
    <3>5. CASE Frees(v)
      <4>1. PICK f \in Files : disk[f] # Gone /\ disk'[f] = Gone /\ d[f] = i
        BY <1>5, <3>5
      <4>2. worker[v].freed <= before(i) /\ worker'[v].freed = worker[v].freed + 1
        BY <1>1, <3>5, UnlinkMoves DEF CreditGood, Frees, Working
      <4>3. now(i) >= before(i) + 1
        <5> DEFINE Now1 == {g \in GoneFiles' : d[g] = i}
        <5>1. f \in Now1 /\ f \notin Credited(c, i)
          BY <4>1 DEF Credited, GoneFiles
        <5>2. IsFiniteSet(Now1) /\ Credited(c, i) \subseteq Now1 \ {f}
          BY <2>1, <5>1
        <5>3. Cardinality(Now1 \ {f}) = Cardinality(Now1) - 1 /\ Cardinality(Now1) \in Nat
          BY <5>1, <5>2, FS_RemoveElement, FS_CardinalityType
        <5>4. IsFiniteSet(Now1 \ {f})
          BY <5>2, FS_Subset
        <5>5. Cardinality(Credited(c, i)) <= Cardinality(Now1 \ {f})
          BY <5>2, <5>4, FS_Subset
        <5>6. now(i) = Cardinality(Now1)
          OBVIOUS
        <5> HIDE DEF Now1, now, i
        <5> QED BY <3>1, <5>3, <5>5, <5>6
      <4> HIDE DEF now, before, i
      <4> QED BY <3>1, <3>2, <4>2, <4>3 DEF i
    <3> QED BY <2>3, <3>3, <3>4, <3>5, FreedOfRun
  <2>4. CreditGood(d)'
    <3>1. \A i : now(i) = Cardinality(Credited(d, i)')
      BY DEF Credited
    <3> HIDE DEF now
    <3> QED BY <1>3, <2>2, <2>3, <3>1 DEF CreditGood
  <2> QED BY <1>5, <1>8, <2>4 DEF FreedInv
<1>6. CASE \E w \in Workers : Frees(w)
  <2>1. PICK w \in Workers : Frees(w)
    BY <1>6
  <2> DEFINE f == NextFile(worker[w].files).file
             d == [c EXCEPT ![f] = Place(w)]
  <2>2. /\ disk[f] # Gone /\ disk' = [disk EXCEPT ![f] = Gone]
        /\ \A v \in Workers \ {w} : worker'[v] = worker[v]
    BY <2>1, UnlinkMoves DEF Frees, Working
  <2>3. f \in Files
    <3>1. worker[w].files \subseteq Planned
      BY <1>0 DEF WorkerState
    <3>2. worker[w].files # {}
      BY <2>1 DEF FreedInv, Picked, Frees, Unlink, Now, Removing
    <3> QED BY <3>1, <3>2, NextFileIsThere DEF Planned
  <2>4. Place(w) \in Audits \X Nat
    <3>1. worker[w].pc = "unlink"
      BY <2>1 DEF Frees, Unlink, Now
    <3>2. worker[w].audit \in Audits /\ worker[w].page # {}
      BY <3>1 DEF TypeInv, Shaped, Active, Inside
    <3> QED BY <3>2, FirstOfPage DEF Place, TypeInv
  <2>5. GoneFiles' = GoneFiles \cup {f}
    BY <1>0, <2>2, <2>3 DEF GoneFiles
  <2> HIDE DEF f
  <2>6. IsFiniteSet(GoneFiles')
    BY <1>4, <2>5, FS_AddElement
  <2>7. d \in Credits /\ d[f] = Place(w) /\ \A g \in Files \ {f} : d[g] = c[g]
    BY <2>3, <2>4 DEF Credits
  <2> HIDE DEF d
  <2>8. \A v \in Workers : Frees(v) => v = w
    BY <2>2 DEF Frees
  <2> QED BY <1>0, <1>5, <2>2, <2>3, <2>6, <2>7, <2>8 DEF GoneFiles
<1>7. CASE ~\E w \in Workers : Frees(w)
  <2>1. ASSUME NEW f \in Files, disk[f] # Gone, disk'[f] = Gone PROVE FALSE
    <3>1. PICK w \in Workers : /\ Unlink(w) /\ Now(w, "unlink") /\ ~worker[w].spare
                               /\ NextFile(worker[w].files).file = f
      BY <2>1, FilesGoByUnlink
    <3> DEFINE planned == NextFile(worker[w].files)
    <3>2. worker' = [worker EXCEPT ![w].pc = "record", ![w].files = @ \ {planned},
                                   ![w].freed = @ + Freed(w, planned)]
      BY <3>1 DEF Unlink
    <3>3. worker[w] \in WorkerState
      BY <1>0
    <3>4. worker'[w].pc = "record" /\ worker'[w].freed = worker[w].freed + 1
      <4>1. Freed(w, planned) = 1
        BY <2>1, <3>1 DEF Freed
      <4> HIDE DEF planned
      <4> QED BY <1>0, <3>2, <3>3, <4>1 DEF WorkerState
    <3>5. worker[w].freed \in Nat
      BY <3>3 DEF WorkerState
    <3> QED BY <1>7, <3>1, <3>4, <3>5 DEF Frees
  <2>2. GoneFiles' = GoneFiles
    BY <1>2, <2>1 DEF GoneFiles
  <2> QED BY <1>4, <1>5, <1>7, <2>2
<1> QED BY <1>6, <1>7

\* A sum of what items claim is one of the function g.
LEMMA FreedSum ==
  ASSUME NEW S, NEW g, g = [at \in S |-> items[at[1]][at[2]].freed], \E sum : Adds(sum, g, S)
  PROVE  \E sum : /\ Adds(sum, g, S)
                  /\ MapThenSumSet(LAMBDA at : items[at[1]][at[2]].freed, S) = sum[S]
<1> DEFINE Mine(sum) == sum = [s \in SUBSET S |->
                           IF s = {} THEN 0
                           ELSE items[Pick(s)[1]][Pick(s)[2]].freed + sum[s \ {Pick(s)}]]
           total == CHOOSE sum : Mine(sum)
<1>1. MapThenSumSet(LAMBDA at : items[at[1]][at[2]].freed, S) = total[S]
  BY DEF MapThenSumSet, MapThenFoldSet, Pick
<1>2. ASSUME NEW sum, NEW s \in SUBSET S
      PROVE  Added(sum, g, s) = IF s = {} THEN 0
                                ELSE items[Pick(s)[1]][Pick(s)[2]].freed + sum[s \ {Pick(s)}]
  <2>1. s # {} => Pick(s) \in S
    BY DEF Pick
  <2>2. s # {} => g[Pick(s)] = items[Pick(s)[1]][Pick(s)[2]].freed
    BY <2>1
  <2> QED BY <2>2 DEF Added
<1>3. ASSUME NEW sum PROVE Adds(sum, g, S) <=> Mine(sum)
  BY <1>2 DEF Adds
<1>4. \E sum : Mine(sum)
  BY <1>3
<1>5. Mine(total)
  <2> HIDE DEF Mine
  <2> QED BY <1>4
<1>6. Adds(total, g, S)
  BY <1>3, <1>5
<1> HIDE DEF total
<1> QED BY <1>1, <1>6

LEMMA FreedFits ==
  ASSUME TypeInv, FreedInv, IsFiniteSet(Audits)
  PROVE  FreedConservative
<1>1. PICK c \in Credits : CreditGood(c)
  BY DEF FreedInv
<1> DEFINE Places(a) == {a} \X DOMAIN items[a]
           all == UNION {Places(a) : a \in Audits}
           g == [at \in all |-> items[at[1]][at[2]].freed]
<1>2. IsFiniteSet(all)
  <2>1. ASSUME NEW a \in Audits PROVE IsFiniteSet(Places(a))
    <3>1. items[a] \in Seq(Item)
      BY DEF TypeInv, TypeOK
    <3>2. IsFiniteSet(DOMAIN items[a])
      <4>1. Len(items[a]) \in Nat /\ DOMAIN items[a] = 1 .. Len(items[a])
        BY <3>1
      <4> QED BY <4>1, FS_Interval
    <3> QED BY <3>2, FS_Singleton, FS_Product
  <2> DEFINE family == {Places(a) : a \in Audits}
  <2>2. IsFiniteSet(family)
    <3> DEFINE h == [a \in Audits |-> Places(a)]
    <3>1. h \in Surjection(Audits, family)
      <4> HIDE DEF Places
      <4> QED BY DEF Surjection
    <3> HIDE DEF h, family
    <3> QED BY <3>1, FS_Surjection
  <2>3. \A T \in family : IsFiniteSet(T)
    BY <2>1
  <2>4. all = UNION family
    OBVIOUS
  <2> HIDE DEF all, family
  <2> QED BY <2>2, <2>3, <2>4, FS_UNION
<1>3. ASSUME NEW at \in all
      PROVE  g[at] \in Nat /\ g[at] <= Cardinality({f \in GoneFiles : c[f] = at})
  <2>0. PICK a \in Audits : at \in Places(a)
    OBVIOUS
  <2>1. PICK k \in DOMAIN items[a] : at = <<a, k>>
    BY <2>0
  <2>2. g[at] = items[a][k].freed
    BY <2>1
  <2>3. items[a][k] \in Item
    <3>1. items[a] \in Seq(Item)
      BY DEF TypeInv, TypeOK
    <3> QED BY <2>1, <3>1
  <2> HIDE DEF g
  <2> QED BY <1>1, <2>1, <2>2, <2>3 DEF CreditGood, Credited, Item
<1>4. IsFiniteSet(GoneFiles)
  BY DEF FreedInv
<1>5. g = [at \in all |-> items[at[1]][at[2]].freed]
  OBVIOUS
<1> HIDE DEF all, g
<1>7. PICK sum : /\ Adds(sum, g, all)
                 /\ MapThenSumSet(LAMBDA at : items[at[1]][at[2]].freed, all) = sum[all]
  BY <1>2, <1>5, SumExists, FreedSum
<1>8. sum[all] <= Cardinality(GoneFiles)
  <2>1. \A at \in all : g[at] \in Nat /\ g[at] <= Cardinality({f \in GoneFiles : c[f] = at})
    BY <1>3
  <2>2. Adds(sum, g, all)
    BY <1>7
  <2> QED BY <1>2, <1>4, <2>1, <2>2, SumCredited
<1>9. MapThenSumSet(LAMBDA at : items[at[1]][at[2]].freed, all) <= Cardinality(GoneFiles)
  BY <1>7, <1>8
<1> QED BY <1>9 DEF FreedConservative, GoneFiles, all

\* The plans together never claim more bytes freed than there are files gone, however often
\* a file was tried, planned or found missing, and however many runs work on one plan: an
\* item's counter is replaced by the run's total, which grows by one with the unlink of a file
\* that was there (deletePlannedFile and the loop over the files of an item).
THEOREM FreedBytesConservative == IsFiniteSet(Audits) => (Spec => []FreedConservative)
<1> SUFFICES ASSUME IsFiniteSet(Audits) PROVE Spec => []FreedConservative
  OBVIOUS
<1>1. Init => FreedInv
  <2> SUFFICES ASSUME Init PROVE FreedInv
    OBVIOUS
  <2>1. GoneFiles = {}
    BY DEF Init, GoneFiles, Gone
  <2>2. IsFiniteSet(GoneFiles)
    BY <2>1, FS_EmptySet
  <2>3. \A w \in Workers : worker[w].pc = "idle"
    BY DEF Init, NotRunning
  <2>4. \A a \in Audits : DOMAIN items[a] = {}
    BY DEF Init
  <2>5. ASSUME NEW c PROVE CreditGood(c)
    BY <2>3, <2>4 DEF CreditGood, Working
  <2>6. [f \in Files |-> <<NoAudit, 0>>] \in Credits
    BY DEF Credits
  <2> QED BY <2>2, <2>3, <2>5, <2>6 DEF FreedInv, Picked, Removing
<1>2. TypeInv /\ FreedInv => FreedConservative
  BY FreedFits
<1> QED BY <1>1, <1>2, InitTypeInv, TypeInvStep, FreedInvStep, PTL DEF Spec
=============================================================================
