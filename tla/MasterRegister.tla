--------------------------- MODULE MasterRegister ---------------------------
(* The accession register: one record per book in the database, and the    *)
(* Master Register workbook that every finished run appends to, every      *)
(* download tops up and every refresh rebuilds.  A process executes the    *)
(* tail of a pipeline run, a download request or a refresh request.        *)
(*                                                                         *)
(* An accession number is the n of "{prefix}-n"; None stands for no        *)
(* number.  A row of the workbook is the number and the book whose details *)
(* it shows.  COMPLETED implies that the searchable PDF is stored (see     *)
(* DocumentPipeline), so the row's fourth precondition needs no variable.  *)
EXTENDS Integers, FiniteSets, SequencesExt, Functions

CONSTANTS
  Doc,         \* the uploaded books
  Proc,        \* worker processes and request threads
  Filename,    \* the number each file name carries, None if it has none
  Cover,       \* the number read on each cover, None if there is none
  Start,       \* accession_number_start
  Nobody,
  Bounds       \* bounds, one or more: runs that reach the end of the
               \* pipeline, downloads and refreshes, deleted books, and
               \* failed extractions, failed saves and crashes

None == 0

Bounded == {"runs", "requests", "deletes", "faults"}

ASSUME NumbersAssumption ==
  /\ IsFiniteSet(Doc)
  /\ Start \in Nat \ {None}
  /\ Filename \in [Doc -> Nat]
  /\ Cover \in [Doc -> Nat]
  /\ Nobody \notin Proc
  /\ Bounds \subseteq [Bounded -> Nat]

VARIABLES
  record,  \* the accession number of each book, None without a record (UNIQUE)
  job,     \* status of each book's newest job
  deleted, \* books that were soft-deleted
  ready,   \* the workbook exists with the current header
  sheet,   \* the data rows of the workbook on disk
  lock,    \* the process that holds the workbook's file lock
  task,    \* what each process executes
  left,    \* what remains of the bounds
  done,    \* history: books that completed at least once
  stale,   \* history: books whose rows may show a number they lost
  torn     \* history: books renumbered while the last rebuild read its rows

vars == <<record, job, deleted, ready, sheet, lock, task, left, done, stale, torn>>

Idle == [pc |-> "idle", kind |-> "none", doc |-> {}, number |-> None, todo |-> {},
         present |-> {}, rows |-> {}, need |-> {}, excused |-> FALSE, dirty |-> {}]

Numbers(rows) == {r.number : r \in rows}
SheetRows == ToSet(sheet)

(* Rows in the order of their numbers.  S.No is the position.              *)
Sorted(rows) ==
  {s \in {[i \in DOMAIN rows |-> rows[f[i]]] : f \in Bijection(DOMAIN rows, DOMAIN rows)} :
     \A i, j \in DOMAIN rows : i < j => s[i].number <= s[j].number}

Rows == [number : Nat, book : Doc]

PC == {"idle", "record", "insert", "complete", "backfill", "candidates", "present", "rows",
       "ensure", "lock", "write", "serve"}
TaskType ==
  [pc : PC, kind : {"none", "run", "download", "refresh"}, doc : SUBSET Doc, number : Nat,
   todo : SUBSET Doc, present : SUBSET Nat, rows : SUBSET Rows, need : SUBSET Doc,
   excused : BOOLEAN, dirty : SUBSET Doc]

At(p, pc) == task[p].pc = pc

DataTypeOK ==
  /\ record \in [Doc -> Nat]
  /\ job \in [Doc -> {"none", "running", "completed", "failed"}]
  /\ deleted \subseteq Doc /\ done \subseteq Doc /\ stale \subseteq Doc /\ torn \subseteq Doc
  /\ ready \in BOOLEAN /\ sheet \in Seq(Rows)
  /\ left \in [Bounded -> Nat]

TypeOK ==
  /\ DataTypeOK
  /\ lock \in {Nobody} \cup {p \in Proc : At(p, "write")}
  /\ task \in [Proc -> TaskType]

(* Books processed before the register existed have a generated number,    *)
(* one after the other, and no row.                                        *)
Init ==
  /\ \E old \in SUBSET Doc : \E f \in Bijection(old, Start .. Start + Cardinality(old) - 1) :
       /\ record = [d \in Doc |-> IF d \in old THEN f[d] ELSE None]
       /\ job = [d \in Doc |-> IF d \in old THEN "completed" ELSE "none"]
       /\ done = old
  /\ deleted = {} /\ stale = {} /\ torn = {}
  /\ ready = FALSE /\ sheet = <<>> /\ lock = Nobody
  /\ task = [p \in Proc |-> Idle]
  /\ left \in Bounds

Spend(what) == left[what] > 0 /\ left' = [left EXCEPT ![what] = @ - 1]
OnlyDoc(p) == CHOOSE d \in Doc : d \in task[p].doc
Books == {d \in Doc : record[d] # None}

-----------------------------------------------------------------------------
(* Mutants: plausible bugs that the runs' properties must detect           *)
RowOfFilename(d) == [number |-> IF Filename[d] # None THEN Filename[d] ELSE record[d],
                     book |-> d]
EligibleAnyJob(d) == record[d] # None
DuplicatesKept(rows) == {rows}
FirstRowOnly(rows) == {{CHOOSE r \in rows : TRUE}}

-----------------------------------------------------------------------------
(* The accession record                                                    *)

Taken(n, d) == \E e \in Doc \ {d} : record[e] = n

(* The number after the highest one, Start when there is none.             *)
NextNumber == Max({Start - 1} \cup {record[d] : d \in Doc}) + 1

Extracted(d) == IF Filename[d] # None THEN Filename[d] ELSE Cover[d]

NumberFor(d) ==
  IF Extracted(d) # None /\ ~Taken(Extracted(d), d) THEN Extracted(d) ELSE NextNumber

(* A run begins, or a reprocessing one: the book's newest job is at work.  *)
(* Runs of one book exclude each other (ExclusiveProcessing).              *)
RunReachesEnd(p, d) ==
  /\ At(p, "idle") /\ d \notin deleted /\ Spend("runs")
  /\ \A q \in Proc : task[q].kind = "run" => task[q].doc # {d}
  /\ job' = [job EXCEPT ![d] = "running"]
  /\ task' = [q \in Proc |->
                IF q = p THEN [Idle EXCEPT !.pc = "record", !.kind = "run", !.doc = {d}]
                ELSE [task[q] EXCEPT !.need = @ \ {d}]]
  /\ UNCHANGED <<record, deleted, ready, sheet, lock, done, stale, torn>>

(* A record that exists is updated in place and keeps its number; for a    *)
(* new one a number is chosen from what the table holds now.               *)
ReadRecord(p) ==
  /\ At(p, "record")
  /\ \E d \in task[p].doc :
       task' = [task EXCEPT ![p] =
         IF record[d] # None THEN [@ EXCEPT !.pc = "complete"]
         ELSE [@ EXCEPT !.pc = "insert", !.number = NumberFor(d)]]
  /\ UNCHANGED <<record, job, deleted, ready, sheet, lock, left, done, stale, torn>>

(* An error before the database is touched costs the record only.          *)
ExtractionFails(p) ==
  /\ At(p, "record") /\ Spend("faults")
  /\ task' = [task EXCEPT ![p].pc = "complete"]
  /\ UNCHANGED <<record, job, deleted, ready, sheet, lock, done, stale, torn>>

Unique(n, d) == record[d] = None /\ ~Taken(n, d)

InsertRecord(p) ==
  /\ At(p, "insert")
  /\ \E d \in task[p].doc :
       /\ Unique(task[p].number, d)
       /\ record' = [record EXCEPT ![d] = task[p].number]
  /\ task' = [task EXCEPT ![p] = [@ EXCEPT !.pc = "complete", !.number = None]]
  /\ UNCHANGED <<job, deleted, ready, sheet, lock, left, done, stale, torn>>

(* The constraint refuses the loser of a race.  A refresh rolls back and   *)
(* goes on; a run does not, and its next use of the session fails the run. *)
InsertRefused(p) ==
  /\ At(p, "insert") /\ \A d \in task[p].doc : ~Unique(task[p].number, d)
  /\ IF task[p].kind = "run"
       THEN /\ job' = [job EXCEPT ![OnlyDoc(p)] = "failed"]
            /\ task' = [task EXCEPT ![p] = Idle]
       ELSE /\ task' = [task EXCEPT ![p] = [@ EXCEPT !.pc = "complete", !.number = None]]
            /\ UNCHANGED job
  /\ UNCHANGED <<record, deleted, ready, sheet, lock, left, done, stale, torn>>

Complete(p) ==
  /\ At(p, "complete") /\ task[p].kind = "run"
  /\ job' = [job EXCEPT ![OnlyDoc(p)] = "completed"]
  /\ done' = done \cup task[p].doc
  /\ task' = [task EXCEPT ![p] = [@ EXCEPT !.pc = "rows", !.todo = task[p].doc]]
  /\ UNCHANGED <<record, deleted, ready, sheet, lock, left, stale, torn>>

DeleteBook(d) ==
  /\ d \notin deleted /\ Spend("deletes")
  /\ deleted' = deleted \cup {d}
  /\ UNCHANGED <<record, job, ready, sheet, lock, task, done, stale, torn>>

-----------------------------------------------------------------------------
(* Refresh: records of completed books, then numbers, then the rebuild     *)

RefreshBegins(p) ==
  /\ At(p, "idle") /\ Spend("requests")
  /\ task' = [task EXCEPT ![p] = [Idle EXCEPT !.pc = "complete", !.kind = "refresh",
                !.todo = {d \in Doc \ deleted : job[d] = "completed"}]]
  /\ UNCHANGED <<record, job, deleted, ready, sheet, lock, done, stale, torn>>

RefreshNext(p) ==
  /\ At(p, "complete") /\ task[p].kind = "refresh"
  /\ IF task[p].todo = {} THEN task' = [task EXCEPT ![p] = [@ EXCEPT !.pc = "backfill", !.doc = {}]]
     ELSE \E d \in task[p].todo :
            task' = [task EXCEPT ![p] = [@ EXCEPT !.pc = "record", !.doc = {d}, !.todo = task[p].todo \ {d}]]
  /\ UNCHANGED <<record, job, deleted, ready, sheet, lock, left, done, stale, torn>>

(* Books whose file name carries another number that no other record has.  *)
Misnumbered ==
  {d \in Books : Filename[d] \notin {None, record[d]} /\ ~Taken(Filename[d], d)}

(* One of the books that claim the same number gets it.  All changes are   *)
(* committed together; here the whole pass is one step.                    *)
Backfill(p) ==
  /\ At(p, "backfill")
  /\ \E winners \in SUBSET Misnumbered :
       /\ IsInjective([d \in winners |-> Filename[d]])
       /\ \A d \in Misnumbered : \E w \in winners : Filename[w] = Filename[d]
       /\ record' = [d \in Doc |-> IF d \in winners THEN Filename[d] ELSE record[d]]
       /\ stale' = stale \cup winners
       /\ task' = [q \in Proc |->
                     IF q = p THEN [task[p] EXCEPT !.pc = "candidates"]
                     ELSE [task[q] EXCEPT !.dirty = @ \cup winners, !.need = @ \ winners]]
  /\ UNCHANGED <<job, deleted, ready, sheet, lock, left, done, torn>>

-----------------------------------------------------------------------------
(* The rows a process is going to write                                    *)

DownloadBegins(p) ==
  /\ At(p, "idle") /\ Spend("requests")
  /\ task' = [task EXCEPT ![p] = [Idle EXCEPT !.pc = "present", !.kind = "download",
                !.need = {d \in Books \ deleted : job[d] = "completed"}]]
  /\ UNCHANGED <<record, job, deleted, ready, sheet, lock, done, stale, torn>>

(* Read without the lock: the file is only ever replaced as a whole.       *)
ReadPresent(p) ==
  /\ At(p, "present") /\ ready
  /\ task' = [task EXCEPT ![p] = [@ EXCEPT !.pc = "candidates", !.present = Numbers(SheetRows)]]
  /\ UNCHANGED <<record, job, deleted, ready, sheet, lock, left, done, stale, torn>>

Candidates(p) ==
  /\ At(p, "candidates")
  /\ task' = [task EXCEPT ![p] = [@ EXCEPT !.pc = "rows", !.dirty = {},
       !.todo = {d \in Books \ deleted : record[d] \notin task[p].present}]]
  /\ UNCHANGED <<record, job, deleted, ready, sheet, lock, left, done, stale, torn>>

(* _build_row: what the book's record says.                                *)
Row(d) == [number |-> record[d], book |-> d]

Eligible(d) == job[d] = "completed" /\ record[d] # None

(* Every candidate is read on its own; the newest job decides.             *)
BuildRow(p) ==
  /\ At(p, "rows")
  /\ \E d \in task[p].todo :
       task' = [task EXCEPT ![p] = [@ EXCEPT !.todo = task[p].todo \ {d},
                  !.rows = task[p].rows \cup (IF Eligible(d) THEN {Row(d)} ELSE {})]]
  /\ UNCHANGED <<record, job, deleted, ready, sheet, lock, left, done, stale, torn>>

Rebuilds(p) == task[p].kind = "refresh"

(* A download without anything to add goes on, a run without a row ends.   *)
Finish(p, excused) ==
  task' = [task EXCEPT ![p] =
    IF task[p].kind = "download"
      THEN [@ EXCEPT !.pc = "serve", !.rows = {}, !.present = {}, !.dirty = {},
                     !.excused = task[p].excused \/ excused]
      ELSE Idle]

RowsBuilt(p) ==
  /\ At(p, "rows") /\ task[p].todo = {}
  /\ IF task[p].rows = {} /\ ~Rebuilds(p) THEN Finish(p, FALSE)
     ELSE task' = [task EXCEPT ![p] = [@ EXCEPT !.pc = "ensure", !.present = {}]]
  /\ UNCHANGED <<record, job, deleted, ready, sheet, lock, left, done, stale, torn>>

-----------------------------------------------------------------------------
(* The workbook                                                            *)

Holds(p) == lock = p
Release == lock' = Nobody
Free == lock = Nobody

(* A missing workbook, or one with an old header, is created empty under   *)
(* the lock.                                                               *)
EnsureMasterExcel(p) ==
  /\ task[p].pc \in {"ensure", "present", "serve"} /\ ~ready /\ Free
  /\ ready' = TRUE /\ sheet' = <<>>
  /\ UNCHANGED <<record, job, deleted, lock, task, left, done, stale, torn>>

Ensured(p) ==
  /\ At(p, "ensure") /\ ready
  /\ task' = [task EXCEPT ![p].pc = "lock"]
  /\ UNCHANGED <<record, job, deleted, ready, sheet, lock, left, done, stale, torn>>

AcquireLock(p) ==
  /\ At(p, "lock") /\ Free
  /\ lock' = p
  /\ task' = [task EXCEPT ![p].pc = "write"]
  /\ UNCHANGED <<record, job, deleted, ready, sheet, left, done, stale, torn>>

(* An append or a top-up gives up quietly, a refresh fails.                *)
LockTimesOut(p) ==
  /\ At(p, "lock") /\ ~Free
  /\ Finish(p, TRUE)
  /\ UNCHANGED <<record, job, deleted, ready, sheet, lock, left, done, stale, torn>>

(* The rows whose number the workbook does not hold yet.  One row more for *)
(* the same number within one call is refused as well.                     *)
NotDuplicate(rows) ==
  {chosen \in SUBSET {r \in rows : r.number \notin Numbers(SheetRows)} :
     /\ \A r, s \in chosen : r.number = s.number => r = s
     /\ Numbers(chosen) = Numbers(rows) \ Numbers(SheetRows)}

(* load_workbook, the change, save_atomic and release: nobody else writes  *)
(* in between, and a reader sees the old file until the rename.            *)
AppendRows(p) ==
  /\ At(p, "write") /\ Holds(p) /\ ~Rebuilds(p)
  /\ \E new \in NotDuplicate(task[p].rows) : sheet' \in Sorted(sheet \o SetToSeq(new))
  /\ stale' = stale \cup task[p].dirty
  /\ Release
  /\ Finish(p, FALSE)
  /\ UNCHANGED <<record, job, deleted, ready, left, done, torn>>

(* Every data row is replaced by what was read before the lock was taken.  *)
RebuildRegister(p) ==
  /\ At(p, "write") /\ Holds(p) /\ Rebuilds(p)
  /\ sheet' \in Sorted(SetToSeq(task[p].rows))
  /\ stale' = task[p].dirty /\ torn' = task[p].dirty
  /\ Release
  /\ task' = [q \in Proc |->
                IF q = p THEN Idle
                ELSE [task[q] EXCEPT !.excused = @ \/ (task[q].kind = "download" /\ ~At(q, "present"))]]
  /\ UNCHANGED <<record, job, deleted, ready, left, done>>

(* The original file is untouched.                                         *)
SaveFails(p) ==
  /\ At(p, "write") /\ Spend("faults")
  /\ Release
  /\ Finish(p, TRUE)
  /\ UNCHANGED <<record, job, deleted, ready, sheet, done, stale, torn>>

(* The download reads the file without the lock.                           *)
Serve(p) ==
  /\ At(p, "serve") /\ ready
  /\ task' = [task EXCEPT ![p] = Idle]
  /\ UNCHANGED <<record, job, deleted, ready, sheet, lock, left, done, stale, torn>>

(* The operating system releases a dead process's file lock.               *)
ProcessDies(p) ==
  /\ ~At(p, "idle") /\ Spend("faults")
  /\ task' = [task EXCEPT ![p] = Idle]
  /\ lock' = IF Holds(p) THEN Nobody ELSE lock
  /\ UNCHANGED <<record, job, deleted, ready, sheet, done, stale, torn>>

Step(p) ==
  \/ ReadRecord(p) \/ InsertRecord(p) \/ InsertRefused(p) \/ Complete(p)
  \/ RefreshNext(p) \/ Backfill(p)
  \/ ReadPresent(p) \/ Candidates(p) \/ BuildRow(p) \/ RowsBuilt(p)
  \/ EnsureMasterExcel(p) \/ Ensured(p) \/ AcquireLock(p) \/ LockTimesOut(p)
  \/ AppendRows(p) \/ RebuildRegister(p) \/ Serve(p)

Environment ==
  \/ \E p \in Proc : \/ \E d \in Doc : RunReachesEnd(p, d)
                     \/ RefreshBegins(p) \/ DownloadBegins(p)
                     \/ ExtractionFails(p) \/ SaveFails(p) \/ ProcessDies(p)
  \/ \E d \in Doc : DeleteBook(d)

Next == Environment \/ \E p \in Proc : Step(p)

Spec == Init /\ [][Next]_vars

-----------------------------------------------------------------------------
(* Two rows of the workbook carry the same accession number only where one *)
(* of their books was renumbered while the last rebuild read its rows one  *)
(* by one: a rebuild checks for no duplicates, and a number that one book  *)
(* gave up meanwhile can be another's by the time its row is read.  Every  *)
(* append and top-up, however they interleave, adds only numbers that the  *)
(* workbook lacks: the checks in _append_rows and in the database.         *)
NoNumberTwice ==
  \A i, j \in DOMAIN sheet :
    sheet[i].number = sheet[j].number => i = j \/ {sheet[i].book, sheet[j].book} \cap torn # {}

(* A row shows its book's current number, unless the book was renumbered   *)
(* by a backfill after the row was read and no later rebuild has replaced  *)
(* it.  With NoNumberTwice: only such a book can have two rows.            *)
RowsMatchRecords ==
  \A r \in SheetRows : r.number = record[r.book] \/ r.book \in stale

(* The register lists books whose processing completed, never one that     *)
(* only failed, was cancelled or is still at work for the first time.      *)
RowsOfCompletedBooks == \A r \in SheetRows : r.book \in done

(* A download holds every book that was complete when it was asked for and *)
(* still is, unless its top-up was refused, a rebuild overwrote the file   *)
(* meanwhile, or a renumbered book's old row still holds the number.       *)
DownloadIsComplete ==
  \A p \in Proc : At(p, "serve") /\ ready /\ ~task[p].excused =>
    \A d \in task[p].need \ deleted :
      (\E r \in SheetRows : r.book = d) \/ (\E r \in SheetRows : r.number = record[d] /\ r.book \in stale)

(* "a metadata extraction problem must not turn a successfully-OCR'd       *)
(* document into a FAILED one": what the pipeline's comment promises.      *)
RecordNeverFailsRun == \A d \in Doc : job[d] # "failed"
-----------------------------------------------------------------------------
(* What every step keeps: the inductive invariant behind the properties    *)

(* The database's UNIQUE constraint: no two books share a number.          *)
NumbersInv ==
  /\ \A d, e \in Doc : record[d] = record[e] /\ record[d] # None => d = e
  /\ \A d \in Doc : job[d] = "completed" => d \in done

(* Which process works on which book.  While a run is at it, the book's    *)
(* newest job is at work.                                                  *)
WorkOK(t) ==
  /\ t.kind = "run" \/ t.pc \in {"record", "insert"} => \E d \in Doc : t.doc = {d}
  /\ t.kind = "run" /\ t.pc \in {"record", "insert", "complete"} =>
       \A d \in t.doc : job[d] = "running"
  /\ t.kind = "download" =>
       t.pc \in {"present", "candidates", "rows", "ensure", "lock", "write", "serve"}
  /\ t.pc = "backfill" => t.kind = "refresh"
  /\ t.pc = "serve" => t.kind = "download"

RunsApart ==
  \A p, q \in Proc :
    task[p].kind = "run" /\ task[q].kind = "run" /\ task[p].doc = task[q].doc => p = q

(* The rows in hand: read from finished books, and out of date only for    *)
(* books that were renumbered since the candidates were chosen.            *)
RowsOK(t) ==
  /\ IsFiniteSet(t.rows)
  /\ t.rows # {} => t.pc \in {"rows", "ensure", "lock", "write"}
  /\ t.pc \in {"ensure", "lock", "write", "serve"} => t.todo = {}
  /\ \A r \in t.rows :
       /\ r.number # None /\ r.book \in done
       /\ r.number = record[r.book] \/ r.book \in t.dirty

(* A book that a download needs is in the workbook, or on its way to it.   *)
OnItsWay(t, d) ==
  IF t.pc = "candidates" THEN record[d] \notin t.present
  ELSE d \in t.todo \/ Row(d) \in t.rows

DownloadOK(t) ==
  t.kind = "download" =>
    /\ \A d \in t.need : job[d] = "completed" /\ record[d] # None
    /\ t.pc # "present" /\ ~t.excused =>
         /\ ready
         /\ \A d \in t.need \ deleted : record[d] \in Numbers(SheetRows) \/ OnItsWay(t, d)

TasksInv == \A p \in Proc : WorkOK(task[p]) /\ RowsOK(task[p]) /\ DownloadOK(task[p])

SheetInv ==
  /\ \A r \in SheetRows : r.number # None
  /\ NoNumberTwice /\ RowsMatchRecords /\ RowsOfCompletedBooks

IInv == TypeOK /\ NumbersInv /\ RunsApart /\ TasksInv /\ SheetInv
=============================================================================
