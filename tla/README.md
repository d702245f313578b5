# A TLA+ model of the document processing backend

The repository scans documents into searchable PDFs, DOCX and XLSX files. A
FastAPI application takes uploads, Celery workers run the OCR pipeline, Redis
carries messages, locks, flags and progress events, PostgreSQL holds the state
everybody reads, and a React frontend shows it. This directory models the parts
of it where several actors change the same state: what is checked by TLC, what
is proved by TLAPS, and what the code turned out not to keep.

Source paths below are relative to `src/backend/app/` unless they start with
`frontend/`.

## The system

### Components

| Component | State | Operations | Modelled in |
|---|---|---|---|
| Document pipeline (`workers/pipeline_tasks.py`, `core/locks.py`, `core/celery_app.py`) | document lease and cancel flag in Redis, persisted pages, exports, job status | deliver, acquire, resume, persist a page, renew, check for cancellation, sweep, assemble, render, store exports, complete, fail, release, crash handler | `DocumentPipeline` |
| Job and document status (`services/document_service.py`, `api/v1/documents.py`) | `ProcessingJob.status`, `Document.status` | create a job, progress updates, stale detection, cancel | `DocumentPipeline` |
| Page worker pool (`workers/page_worker_pool.py`) | task and result queues, worker slots, per-slot counters | submit, load an engine, take, finish, flush, exit, recycle, shutdown | `PageWorkerPool` |
| Isolated OCR subprocess (`ocr/subprocess_runner.py`, the sweep in `workers/pipeline_tasks.py`) | child process, two queues | ask for a page with a timeout, kill, fall back to Tesseract, shut down | `IsolatedOCR` |
| Batch scheduling (`workers/batch_tasks.py`, `services/batch_service.py`, `services/batch_scheduler.py`, `api/v1/batches.py`) | batch and item rows, slot messages, advisory lock | add, start, cancel, retry, poll; claim, run, finalize | `Batch` |
| Concurrency sizing and `pick_next` (`services/batch_scheduler.py`, `core/config.py`) | none | size the host, share the workers, choose the next file | `Sizing` |
| Accession numbers and Master Register (`services/accession_service.py`, `services/accession_register_service.py`, `core/excel_lock.py`) | number column, workbook file, file lock | choose and store a number, append, top up, rebuild, renumber | `MasterRegister` |
| Progress events (`services/progress.py`, `api/v1/ws.py`, `frontend/src/hooks/useDocumentProgress.ts`) | pub/sub channel, socket, displayed state, timers | publish, relay, poll, close, leave | `ProgressFeed` |
| Table and block editing (`services/document_service.py`, `api/v1/documents.py`) | table rows, cells, the page's Document JSON | edit a cell or block, add and delete rows and columns, merge, split | `TableEdits` |
| Layout and table detection (`tables/`, `layout/`) | none | tables from rules, from text, from both; text blocks and pictures | `TableRecovery`, `PageAssembly` |
| Page JSON and exporters (`reconstruction/`, `exporters/`) | none | build the page JSON, write the Excel and Word tables and the searchable PDF's text | `PageAssembly` |
| Upload, duplicates, deletion, storage (`api/v1/documents.py`, `services/document_service.py`, `services/storage.py`) | document rows, files under four prefixes | check and create, send, delete | `DocumentLibrary` |
| Upload queue of the browser (`frontend/src/hooks/useBatchUpload.ts`) | the tab's batch | create, add each file, start | `DocumentLibrary` |
| Export regeneration (`workers/export_tasks.py`) | export files and their rows | dispatch, render, store, record | `DocumentLibrary` |
| OCR engines, image preprocessing, metadata heuristics, schema and migrations, frontend pages | | | not modelled, see the end |

### How they interact

* The API creates a `ProcessingJob` in one transaction and sends a Celery
  message afterwards. The message is acknowledged late, so a message whose
  worker dies is delivered again, and with the Redis transport one that runs
  longer than the visibility timeout is delivered again while its run is alive.
* A run takes the lease of its document (a Redis key with a token and a TTL of
  600 s), renews it after every page that succeeded, and releases it at the end.
* A cancellation is a Redis flag per document, which the run polls after every
  page, plus a status written by the API at once. Both sides write
  `ProcessingJob.status` without coordination: the last writer wins.
* Reading the progress of a job may itself fail the job, when it looks stale
  and the lease is gone.
* A run gives its pages to a pool of child processes over two queues, and does
  what the pool did not deliver itself, one page after the other.
* A batch is a set of rows plus one interchangeable message ("slot") per queued
  file. A slot claims one file under a database advisory lock and calls the same
  pipeline function; the item's state mirrors the job's. The limit the claim
  compares with, and the workers each document may start, are worked out from the
  host's CPUs and memory.
* A run ends by giving its book an accession number, COMPLETED, and a row in one
  Excel file that downloads and refreshes also write, under a file lock.
* Every status update is committed and then published; a page that shows the
  document listens over a WebSocket and polls when it hears nothing.
* An export is written by the run and, after edits, by regeneration tasks: the
  file first, then its row. Neither looks at the deletion flag once it has begun.

### What is hard, and what correctness means

* *Leases.* At most one run at work per document; nobody takes a lease that is
  not theirs; a live run keeps its lease as long as nothing outlasts it.
* *Cancellation.* A cancelled run stops within a page, and an old flag has no
  effect on a later job (the second is not true; see below).
* *Crashes.* Native crashes kill one process, a container restart kills all of
  them. A job must end in a terminal status in every case, and a document that
  reads COMPLETED must have exports that agree with its pages.
* *The pool.* Each page is in exactly one place; a recycled worker takes nothing
  with it; counting results is as good as having every page.
* *Batches.* The host's limit holds; each queued file has a slot that will look
  at it; each queued file ends.
* *The sweep.* An answer belongs to the page it is taken for, although answers
  carry no page number; a page without words has a reason.
* *The register.* No number twice; the rows are those of the completed books.
* *Progress.* The page shows the end of a job, with any socket, and stops polling.
* *Editing.* Two copies of a table follow each other through concurrent edits,
  and no operation loses a word it was not asked to.
* *From words to files.* A word ends in one cell or one text; what the page JSON
  holds reaches the exports.
* *The library.* No duplicates nobody asked for, no document that nothing will
  process, no files left of a deleted one, and a regenerated file holds the edits.

## The modules

`DocumentPipeline` models one document: keys, pages and exports are per
document, so documents do not affect each other there. Every line of
`run_document_pipeline` and `_run_pipeline` that changes or reads shared state is
a step: the run's place is `pc[w]`, what it remembers is `job`, `token`,
`expect` (pages asked of the pool), `got` (results seen), `stored` (exports
written). The lease is `lock` (the token under the key) and `fresh` (acquired or
renewed since the last page result). The database is `status`, `docStatus`,
`done` and `exports`; the broker is `task` and `revoked`. `overrun` is a
history variable: pages persisted since the cancel flag was set. A result that
arrives from the pool (`PageArrives`) also persists the page, publishes and
writes the status, as the code does in one iteration; the check for the cancel
flag (`SeesCancel`, `SeesNoCancel`) is a step of its own because the API can
write between them. The API's cancel request has three steps (`CancelBegins`
reads, `CancelFlags` sets the flag and revokes, `CancelWrites` writes the
status), the stale check two. A page that fails in the sweep is left out and the
run goes on, as in `_run_sequential_fallback`.

`ExclusiveProcessing` is what the document lock promises: runs exclude each
other, and only the one at work adds pages. `DocumentPipeline` implements it
with `running` mapped to the runs that have a token and `pages` to the persisted
pages.

`PageWorkerPool` models the parent (`parent`: submitting, checking, waiting,
handling a result, joining a worker, shutting down), the children (`child`,
`hand`, `served`, and `outbox`, the results a feeder thread has not sent yet), and
the two queues. The consumer of `results()` may stop early (`Abandon`), as the
pipeline does on a cancellation. A dying process loses the page in its hand and
its outbox, never what it has sent.

`PageStream` is the iterator the pipeline relies on: no page comes twice, and
nothing comes after the end. The pool implements it.

`Batch` models one batch and its API requests. A request that reads rows and
writes them back is two steps (`StartReads` and `StartCommits`, `CancelLooks` and
`CancelDrops`, `PollReads` and `PollWrites`, and so on), because a slot, a run or
another request may commit in between. Slots are counted, not named:
`run_batch_slot` has only the batch as its argument. The claim is `ClaimReads`
and `ClaimCommits` under `claiming`, the advisory lock. The pipeline run appears in
outline (`Enter`, `Refused`, `Progress`, `RunCompletes`, `RunFails`,
`RunCancelled`, `Release`): the status it writes and the lease it takes, with the
details left to `DocumentPipeline`. `recent` are the items claimed within
`CLAIM_GRACE_SECONDS`.

`IsolatedOCR` models the sweep over the pages the pool left. The parent is at
`loop`, `wait` (for `_result_q.get`), `check` (`poll_crashed`) or `fallback`
(Tesseract); the child is `starting`, `serving`, `exiting` or `dead`; `alive` is what
the parent believes. `taskQ` and `resultQ` are the two queues. `origin` records the
page an answer was computed from, which the code does not know.

`MasterRegister` models processes that execute the tail of a run (`record`,
`insert`, `complete`), a refresh (the same for every completed book, then
`backfill`) or a download, all of which end in reading candidates, building rows
one by one, and writing the workbook under its lock. The reads come before the
lock, as in the code, so `task[p]` holds what may be out of date by the time it is
written. `stale` (books whose rows may show a number they lost), `torn` (books
renumbered while a rebuild read its rows), `dirty` and `excused` are history variables that say precisely when a row may be wrong.

`ProgressFeed` models one job and one page that watches it: the database, the
event each writer has committed but not published (`outbox`), the endpoint's
subscription (`relay`), `frames` in transit, the socket, and the hook's state:
`poll`, `silence`, `shown`, `finished`. A poll is answered with the status of the
moment it was sent and may arrive any time later (`asked`). Publication may lose
the event and the socket may deliver nothing without closing.

`TableEdits` models the tables of a page, each as rows (`grid`) and as its part of
the page JSON (`page`). A request loads the rows, commits its change (the columns
it changed and no others, as the session does), reads the JSON and writes it back
as a whole; two handlers and a reprocessing run interleave between these steps.
`ragged` and `doubt` are history variables: tables edited in a way that the code
does not keep sound, and tables whose JSON an overlapping edit may have spoilt.

`TableRecovery` is the geometry of table detection as functions of a page: a grid
of spots, sixty pixels wide, with at most one word in each and ruling lines between
them. Boundaries come from ruling lines, are completed from the text, and cells are
united where no line separates them; without rules, runs of lines with common
starts make a table. The constants are those of the code, scaled to the spots.
`PageAssembly` takes a page through detection, text blocks, pictures, the page JSON,
an optional merge in the editor, and the three exports.

`DocumentLibrary` models documents around their processing. The upload endpoints
are coroutines that await nothing between the duplicate check and the commit, so one
process of the API has one upload in hand (`request`); but the compose files start two
replicas (`docker-compose.yml:57`, `docker-compose.prod.yml:59`) and `document_hash`
has no unique constraint (`models/document.py:42`), so check and commit are two steps,
and those of different processes interleave. A commit marks the checks of the same
content it overtakes (`overtaken`). The message is sent in a step of its own. The
browser's batch adds one file after the other; a handler goes on when its tab is closed. Each export has a version of the text in the file (`output`)
and in its row (`recorded`), written in two steps by the run and by tasks.
A deletion is the flag and then the prefixes. `forced`, `crossed`, `stranded`,
`exposed` and `torn` are history variables: they name the only ways in which a
property is known not to hold.

`Sizing` is the arithmetic of the scheduler: what a container leaves of the host,
how many documents run at a time, how many page workers each gets, and which file
is next.

The modules named `MC...` name the model values, symmetry sets and inputs for TLC;
`MCBatch` takes the batch's limit from `Sizing`, so that the scheduler is checked
with the limit its host would have. The modules named `...Proofs` hold the proofs.

Some modules contain variants of an operator, each marked as such and no part of
`Next`. They are slips the code could plausibly have made, and substituting one
makes the property it is aimed at fail: this is how each property was shown to
depend on the code.

## What the runs check

A bounded instance always stops (jobs, requests and faults are used up, or the
pool has ended), so every configuration says `CHECK_DEADLOCK FALSE`; that nothing
is stuck before its end is what the liveness properties say.

* **pipeline_lease** (2 workers, 2 jobs, 2 pages, 2 exports, one crash or kill).
  `LiveRunHoldsLease`: a run that acquired the lease holds it until it releases
  it. `CancelWithinOnePage`: once the cancel flag is set, a run persists at most
  one more page, in the pool's loop and in the sweep alike. (Each look at the flag
  that Redis fails costs one more, which the theorem covers; no call fails here.)
  `CompletedDocumentIsConsistent`: when the document reads COMPLETED and no run is
  at work, one run stored all exports and they hold exactly the persisted pages,
  although a crashed run may have left half of its exports and a later run takes
  over the pages of an earlier one. `ExclusiveSpec`: the run implements
  `ExclusiveProcessing`. Two workers and two jobs are the least that can contend,
  two pages let a run be cancelled or die between pages and leave a partial
  result to resume, two exports let it die between exports. No wait outlasts the
  lease here and no message is redelivered late; that is what the next run is for.
* **pipeline_slow** (2 workers, 1 job, 1 page; errored pages and the tail may
  outlast the lease, one late redelivery, one failing Redis call, one kill).
  `OwnLeaseOnly`: a lease leaves a live run only by that run's own end, or because
  the run outlasts it. No second run, request or handler takes it. A release that Redis
  fails is swallowed (`workers/pipeline_tasks.py:135`); the lease then stays until it
  lapses.
* **pipeline_settles** (1 worker, 2 jobs, 1 page, no exports, one crash or kill).
  `SentJobSettles`: every job whose message was sent ends in a terminal status and
  stays there. `SettledMessageSettledJob`: once the message is acknowledged and no
  run or request is concerned with the job, its status is terminal. One worker is
  enough for the jobs to queue behind each other; exports add steps, not
  statuses. With a late redelivery the second property does not hold: the refused
  copy acknowledges the message, and a container kill then loses the run for good.
  Such a job is terminal (the refused copy marked it failed) until the run's next
  update, and is failed again only by a progress poll.
* **pool_results** (4 pages, 2 workers recycled after 2 pages, one crash, one
  engine that does not load, one page that fails). `PagesConserved`: each page is
  in exactly one place (unsent, queued, in a hand, in a feeder, in the result queue,
  yielded, or lost with a process). `RecycleOnlyExhausted`: the process the parent
  waits for and may terminate has nothing left to lose. `CompleteIfEnginesLoad`: when
  the parent has counted enough results, each page was yielded; if an engine did
  not load, its error result (page −1) counts as a page, and the consumer's sweep
  takes the rest. `StreamSpec`: refinement of `PageStream`. `EndsUnlessPageLost`:
  the pool ends unless a crash took a page with it. Four pages let both workers
  reach their limit and let results overtake each other.
* **batch_items** (2 files, 2 workers, one client, limit 1, two requests besides
  adding and polling, one refused send, one kill, one lock fault: a scan, a
  request for the lock or a release that Redis fails, or a live run's lease that lapses;
  a crash of one worker alone is in the next run, and in the theorems).
  `RunningWithinLimit`: files that are at work and say so never exceed the limit,
  also while a claimed file has no lease yet and while a dead run's lease is still
  there. `live_pipeline_document_ids` answers a Redis error with no locks at all
  (`services/batch_scheduler.py:294`), so such a claim counts recent claims only and
  exceeds the limit, and so may the next one when a live run has lost its lease. The
  history variable `stray` has the files claimed that way and the files whose run lost
  its lease, and the property is about the others: each fault lets one file more run,
  and the claims after it see every lock again. `QueuedHasSlot`: the queued files never
  outnumber the slots that are in
  the queue, about to claim, still to be sent by a request (`ToSend`, one pair for
  each), or `lost`. `lost` is a history variable: it counts the slots a request gave
  up because the broker refused one, less the waiting files a start took back for
  them. With one client a start takes back a file for each such slot, so `lost` counts
  retries only; with several it may not (see below), which the theorem covers.
* **batch_settles** (2 files, 1 worker, two requests, one crash, one kill, no lock fault).
  `QueuedItemSettles`: a queued file ends, is taken back by a reverted start, or
  falls into the one state nothing looks at: its slot died after claiming it and
  before the first progress update, so the item is running and its job QUEUED, which
  the stale check does not consider.

* **register** (3 books, 2 processes; two runs and two requests, one of each and a
  deletion, two requests and a deletion, one run, two requests and a fault, or three
  requests; books processed before the
  register existed in any combination). Two books have each other's first number in
  their file names, so generated, extracted and corrected numbers collide.
  `NoNumberTwice`: no two rows carry the same number, however appends, top-ups and
  rebuilds interleave, unless a rebuild read its rows while one of the two books was
  renumbered (three refreshes are the least for that, and two books that exchange
  numbers while a third process renumbers them again). `RowsMatchRecords`: a row shows its book's current number,
  unless a backfill changed it after the row was read. `RowsOfCompletedBooks`: only
  books that completed are listed. `DownloadIsComplete`: a download holds every
  book that was complete when it was asked for, unless its top-up was refused, a
  rebuild came between, or a renumbered book's old row still holds the number.
* **table_edits** (a table of two rows and one of a single cell, 2 handlers,
  3 requests, 1 reprocessing; additions up to 2 rows and columns in the first table
  and 1 in the second; indices before, in and beyond the table; a cell edit may set a
  span of 2 by 1). `JsonMatchesRows`: at rest the page JSON is what the editor shows,
  outside `doubt`. `SoundGrid`: no two cells start at one place, each starts inside
  the table, and each row has a height, outside `ragged`. `StructureKeepsText`: a row, column or split edit never
  undoes a text another request has stored, whatever overlaps. `MergeLosesNoWord`: a
  merge on its own loses nothing, whichever cells are selected. Three requests are
  the least for one to overlap another and a third to meet what they left.
* **progress_feed** (one update before the end, 2 polls under way, 1 failing poll).
  `PollingStops`: after the end, or after the page is left, no timer polls,
  whatever still arrives. `NeverDeaf`: until then a poll, a timer or a close event is
  always there to make the page look again. `EndLeftByLateAnswerOnly`: an end the
  socket delivered leaves the display only by the answer to an older poll (and then for
  good, as nothing polls any more: the hook does let this happen).
  `EndIsShown`: when the run is over, the page comes to know it, with a socket that
  is refused, broken or silent. Two polls suffice for answers out of order.
* **isolated_ocr** (5 pages, 2 failures in the parent). `AnswersPairUp`: an answer is
  never taken for another page's, after timeouts, kills and crashes.
  `BlankHasReason`: a page is stored without words only if recognising it failed or
  the engine had not loaded. `LoadFailureCostsOnePage`. `SweepEnds`: the sweep ends,
  whatever the child does.
* **page_assembly** (pages of 5 lines and 3 columns: ruled tables with
  up to 2 words and a rule of each kind missing, tables ruled on one axis, words
  over and beside the edge of a frame, tables
  without rules with missing and indented words, text around every rectangle as a
  picture, as many stamps as a page may have and one more; pages with as many pixels as
  A4 has points, and, as at 150 dpi, with twice as many). `EachWordOnce`: a word is in a
  cell, a text or a picture and in one of them only, apart from the words the code is
  known to give up or to show twice; on a page larger than A4 in points these include
  the words a scaled table stands over (`Stranded`) or no longer covers (`Outgrown`).
  `UnruledRowsStayApart`: where rows are not ruled, the values of
  several lines never share a cell, if the lines are spaced about evenly. `ExportsHoldTables`: the Excel and Word tables
  hold each cell's words at its place, while no two cells overlap and every row
  starts one. `SearchableHoldsPage`: the searchable page shows every text and
  picture and all words of tables, and every word can be found. Four lines are the least from which the code
  takes columns, or a table without rules, from the text; the fifth is the text
  around it.
* **document_library** (2 documents, one good and one refused content, 2 API
  processes, 2 tasks, 2 uploads or lists, 3 edits, regenerations and deletions
  together, 1 fault). `NoTwoLiveDuplicates`: two documents have the same content only
  if one was forced, or was committed while another process was between its duplicate
  check and its commit. `StrandedOnlyByFault`: a document that nothing will process is
  the work of a lost message, a start that failed or a tab that was closed.
  `DeletedLeavesNoFiles`: nothing of a deleted document stays, unless a writer was at
  work or the deletion broke off. `RecordMatchesFile`: at rest the export's row
  describes its file, unless two writers overlapped or one died between the two
  writes. `RegeneratedHoldsEdits`: a regeneration that no other writer overlapped
  leaves a file with every edit made before it was asked for. Two documents are
  enough for a duplicate, two processes for a crossing, two tasks for overlapping
  writers, and with three requests two regenerations meet an edit or a deletion.

`MCBatch` also states two facts about `Sizing`, which TLC evaluates with both batch
runs on small queues and hosts; `BatchProofs` proves them for all. `PickNextPolicy`,
on all queues of up to four files of three sizes: the file that is picked waits; with
one lane it is the smallest; and of two started in a row at most one is not the
smallest, so long files never hold up all short ones. `WorkersShared`, over hosts of 1
to 9 CPUs and several memory sizes: documents at a time, times the workers of each,
stay within what the host has.

Types are not checked by a run: `TypeOK` of each stateful module that has proofs is
a theorem, and the runs' instances are cases of it.

## Known disagreements

While the code was translated, some comments, documents and tests turned out to
promise more than it does. Where a definition states the promise, a configuration
that names it as INVARIANT or PROPERTY shows the behaviour in seconds; where a
property of a run would be affected, it names the exception instead.

Pipeline and pool:

* Nothing renews the lease after the last page, so a tail of more than 600 s loses
  it ("a genuinely still-running job never loses it mid-document",
  `workers/pipeline_tasks.py:62`): `LiveRunHoldsLease` with `Slow <- TailSlow`.
* A flag whose job never ran, or was past its last check, stops the next job of the
  document ("a leftover flag just gets ignored", `workers/pipeline_tasks.py:122`):
  `LeftoverFlagIgnored`, with two jobs and one worker.
* The refused copy of a running message sets the running job and the document to
  FAILED ("makes any redelivered/duplicate invocation a no-op",
  `workers/pipeline_tasks.py:171`): `RedeliveryIsNoOp`, with `MaxLate = 1`.
* The crash handler exempts COMPLETED and FAILED but not CANCELLED
  (`workers/pipeline_tasks.py:227`), so a crash after a cancellation reads as a
  failure.
* When a child dies in the middle of a page and another lives, `results()` waits for
  ever ("one page, or even one dead worker, never takes down the whole document",
  `workers/page_worker_pool.py:38`): `PoolAlwaysEnds` under `FairSpec`.
* The liveness check comes before the queue is drained. If the last live worker
  reached its page limit while the consumer persisted an earlier result, the pool is
  declared dead without any fault ("is replaced with a fresh process",
  `workers/page_worker_pool.py:375`): `CleanExitIsReplaced` with three pages, one
  worker and `MaxPages = 2`. The pages it gives up are left for the sweep.
* A page that fails in the sweep is left out of a document that completes
  ("guarantees no page is silently dropped", `workers/pipeline_tasks.py:513`), and a
  page on which the child reports an error is stored without words, not given to
  Tesseract ("or for any page it reports a (non-crash) failure on", line 578).

Batches and sizing:

* A file whose job is already reported as failed or cancelled can be retried while
  its slot has not finished. `_finalize_item` then finds the new job, which is
  QUEUED, and marks the file failed; the slot sent for the retry finds nothing to
  claim ("Re-queue one failed/cancelled file", `docs/API.md:45`):
  `FailsForItsOwnJob` with one file and three requests.
* `cancel_batch` may write CANCELLED over an item that was claimed after it was read;
  its run is starting but the item no longer counts as in use, so one more file than
  the limit may run (`RunningWithinLimit` speaks of items that are still `running`).
* A start that is taken back can strand files another request queued meanwhile, by a
  retry or a start of its own. Their slots may be used for files of the first start that
  are still queued; `revert_start` then finds fewer files to take back than slots it did
  not send, and the other files stay queued with no slot ("instead of the batch sitting
  'processing' with nothing scheduled", `services/batch_service.py:206`).
  `QueuedHasSlot` without the term that `RevertCommits` adds to `lost` is false with two
  requests at a time, two files, one worker and one refused slot.
* `revert_start` lets "the client simply call start again"
  (`services/batch_service.py:205`), but the shipped page can only submit the files
  again, in a new batch in which all of them are duplicates.
* The limit of a claim is worked out for the engine of the batch that asks, while
  what it is compared with counts the running documents of all batches
  (`services/batch_scheduler.py:366`); `MemoryRespected` speaks of one engine.

Register:

* "Accession numbers never change" (`api/v1/accession.py:80`): the refresh renumbers
  books whose file name carries another number.
* "The download always contains every completed book" (`api/v1/accession.py:64`):
  not when the lock is taken, a rebuild comes between, or a renumbered book's old
  row holds the number; `DownloadIsComplete` names these.
* "This register's duplicate rule is defined purely on Accession Number"
  (`services/accession_register_service.py:70`), but only appends apply it: a rebuild
  reads its rows book by book before it has the lock and writes them all (line 604).
  When other refreshes renumber books meanwhile, it may list one number twice, until
  the next rebuild; `torn` marks the books it can happen to.
* "A metadata extraction problem must not turn a successfully-OCR'd document into a
  FAILED one" (`workers/pipeline_tasks.py:430`): the loser of a race for
  a number leaves its session in a failed transaction, and the next update of the
  job raises. `RecordNeverFailsRun` of `MasterRegister` states the promise.

Editing, detection and exports:

* A deletion of rows or columns does not adjust spans; a merge of cells that are no
  rectangle may move one onto the place of another; a cell edit writes into every table
  of the page JSON that has a cell at the same place. `ragged` and `doubt` mark these
  tables.
* No row or column index is checked (`services/document_service.py:528`): a row added
  beyond the table leaves its cells outside, and a deletion at an index from an older
  view shrinks the table without removing a cell. `ragged` has these tables as well.
* A cell edit may also set the spans of a cell, in the row only: the copy of the edit
  in the page JSON is that of its text (`services/document_service.py:506` and line
  701). So the two differ until a structure edit rewrites the table; `doubt` marks it until then.
* A table box in pixels is compared with the A4 size in points and scaled
  (`tables/engine.py:109`), while its cells and words stay where they are. Pages are
  rendered at 150 to 600 dpi, with two to eight pixels to a point, so this happens to
  every table that reaches beyond the first 595 by 842 pixels: what is kept free for it
  is not where its words are. A word beside the table may then be in neither a cell nor
  a text (`Stranded`), against "every OCR word is either in a cell or available to the paragraph grouper --
  never neither" (`tables/opencv_engine.py:199`), and a word of the
  table may be shown as text besides (`Outgrown`). `EachWordOnce` names both.
* The crop of the searchable PDF is made from words and pictures
  (`reconstruction/searchable_pdf.py:58`, `utils/page_normalize.py:106`), not tables:
  empty outer rows and columns of a table, and its outer rules, may be cut off.
* In the place of a table without rules, lines with fewer words than it has columns
  and words left of its first column are lost, and a text of which most lies in a
  picture loses the rest of its lines (`ShortLine` and `TextOfPicture`).
* Base cells united around a corner make cells that overlap, and words may then
  appear twice. A word through whose middle an edge between two cells runs is in both:
  `_center_in` includes the edges (`OnAnEdge`).
* Boundaries closer than two fifths of the typical gap are merged, so lines of very
  uneven distances may share a row ("staying well short of merging two genuinely
  distinct rows/columns into one", `tables/opencv_engine.py:309`).
  `UnruledRowsStayApart` speaks of lines whose distances differ by a quarter at most.
* A merge that leaves a row without a cell makes later rows fall outside the Excel
  sheet and the Word table, which count rows of the JSON.

Library:

* Two replicas of the API can both find no duplicate and both create the document:
  the check is advisory, as `models/document.py:42` says, and nothing repairs it.
* Errors of a regeneration are returned as a result, so Celery says SUCCESS and the
  page reports that the file is ready (`workers/export_tasks.py:71`,
  `frontend/src/services/api.ts:164`).
* When sending the message of an upload fails, the document stays QUEUED for ever
  and uploading the file again is answered as a duplicate.
* A run or a task that was at work when its document was deleted writes files again,
  and a deletion that broke off cannot be repeated: the document is not found.
* Of two regenerations at a time the one with the older text may be last.

## Fairness

`DocumentPipeline!Fairness`: every live process is scheduled; Celery delivers
what is queued, redelivers what a dead worker held, discards what was revoked and
reports a lost process; Redis expires keys; a request that was received is served
to its end. Users, polls and faults are free: nobody has to cancel, poll or crash.

`PageWorkerPool!Fairness`: the parent and every live child are scheduled. An OCR
call returns or its process dies: the code has no timeout for a page in the pool.

`Batch!Fairness`: as for the pipeline, and the page that shows the batch keeps
polling (`frontend/src/pages/BatchPage.tsx` does while it is open). The poll is
strongly fair because it needs a free API client, which other requests may take
again and again, and weak fairness would not serve it; a client that retries its
poll does get in.

`IsolatedOCR!FairSpec`: weak fairness of the parent alone. `get` has a timeout, so the
parent can always go on; the child may do nothing at all.

`ProgressFeed!FairSpec`: the run goes on and publishes, timers fire, close events are
handled, and a poll is ticked and answered, by the server or by an error, of which
there are finitely many. Nothing is assumed of the socket or of Redis.

The other modules have no liveness property and no fairness.

## Assumptions and bounds

Every bound is a constant of the module and is listed with it: jobs, exports,
requests, crashes, kills, late redeliveries, failing Redis calls, refused sends,
failing engines and pages.

* Time is abstracted to what expires before what. A lease lapses when its holder is
  gone or outlasts it; `Slow` names the waits that may ("error": pages that
  failed, which do not renew; "tail": everything after the last page). A run that
  waits for a page that succeeds is assumed to get it within 600 s. A job looks
  stale after 900 s without an update, which only a run that outlasts its lease,
  or none, can cause. `CLAIM_GRACE_SECONDS` (120 s) outlasts the start of a run.
* In `Batch` the lease of a live run may lapse once per lock fault, at any time after
  its first progress; slots are redelivered only after a kill, and a slot's task id stands for
  one claim; the code may use it for a second one when a slot is redelivered.
* Database calls do not fail in the middle of a request, except where the code has
  a path for it (`RunFails`).
* In `MasterRegister` the workbook is read and replaced as a whole (`save_atomic`), the
  backfill of all books is one step, and an extraction finds what `Filename` and
  `Cover` say. An unreadable workbook does not occur.
* In `TableEdits` a detected table has at most three rows and columns, a request for a
  split names a cell of its own table that spans more than one place (a split of
  another table's cell would be written to it, and only the requesting one be
  copied), and a cell's text is the set of words in it, so their order in a merged cell is not seen.
* In `PageAssembly` all rules of a page are one connected region and a word fills its
  spot; thresholds are those of the code, and no word or rule is nearer to one than
  spots allow. Words and rules at other distances are not tried. A picture is a solid
  rectangle, so the ink of its component is its area; every word is recognised with
  confidence, so no region is taken for handwriting. (A region of doubtful words is
  never a stamp in the code, and stamps only differ in the cut of `NoExcessStamps`.)
* In `DocumentLibrary` a document has one export and one message, and the four storage
  prefixes go in one step unless the deletion breaks off: once the original is gone,
  which is the first of them, no run begins.

## What is proved

`DocumentPipelineProofs`, for every number of workers, pages, jobs and exports, and
every bound:

* `TypeCorrect`: `TypeOK` is invariant. The proof has a step for each action.
* `TokensUnique`: no lease token is handed out twice, two live runs never have the
  same, and a run has one exactly inside its body (`TokenInv`). It needs only
  types: tokens are counted by `runs`.
* `LeaseOwnership`: `OwnLeaseOnly`, with anything slow and any Redis call failing.
  It follows from `TokenInv`: whoever deletes a lease compares it with a token that
  cannot be another run's.
* `LeaseHeld`: `LiveRunHoldsLease`, assuming `Slow = {}` and `MaxRedisErrors = 0`.
  Without the first it is false (see the disagreements); the second leaves out renewals
  that are swallowed. The property is not inductive: that a lease does not lapse
  during a wait for a page depends on its having been renewed before the wait began.
  `LeaseInv` adds `TokenInv` and `fresh` at every place where a run waits.
* `ImplementsExclusive`: under the same assumption every behaviour of the pipeline
  is one of `ExclusiveProcessing`: an acquisition maps to `Enter`, a persisted page
  to `AddPage`, an end or a crash to `Leave`, everything else to a stutter. That
  `Enter` finds nobody running is `LiveRunHoldsLease` together with SET NX.
* `CancelCostsOnePage`: `CancelWithinOnePage`, with no assumption on faults. The
  inductive `CancelInv` says where a run may stand with a page in hand that it took
  before the flag, or after a failed look at it.
* `CompletedIsConsistent`: `CompletedDocumentIsConsistent`, under the assumption of
  `LeaseHeld`. `TailInv` adds that COMPLETED is the last thing a run says, that past
  the first look a run knows all persisted pages, and that what it has stored so
  far is its own; `LeaseInv` says that nobody else touches them meanwhile.
* `SettledIsSettled`: `SettledMessageSettledJob`, assuming `MaxLate = 0`. Every step of
  a run either keeps its message and records only for its own job (`WorksOn`), or
  settles job and message together (`Settles`); `SettleInv` adds that a run holds the
  only copy of its message and has settled the job when it comes to its release. With
  `MaxLate >= 1` it is false: the end of the first copy acknowledges both deliveries,
  and a container killed during the second leaves a job in progress that no message
  will bring back; only the stale check settles it.

`BatchProofs`, for any sets of files and workers, any limit and any bounds:

* `BatchTypeCorrect`: `TypeOK` of the batch, its counts included: `slots` never goes
  below zero. `RequestInv` ties what a request remembers to the step it is at, and
  `SlotInv` gives every slot past its claim an item.
* `LimitRespected`: `RunningWithinLimit`. It is not inductive: that a run may start
  depends on room that was found one step earlier. `LimitInv` adds that the
  serialized claim still has that room unless its scan failed, that an item between its
  claim and its lock is in `recent`, and that a run past its lock holds it unless its
  file is in `stray`. A file stays in `stray` until no worker has it, not only until it
  is claimed again: with a worker whose file was cancelled and queued again meanwhile,
  two runs of one file may be at work, and only the later one may have a lease. It rests
  on the modelling assumption in `GraceEnds`, that the grace period outlasts the start of
  a run.
  Sizes of sets come from FiniteSetTheorems.
* `QueuedKeepsSlot`: `QueuedHasSlot`. It is not inductive: a claim uses up a slot one
  commit after it chose the file, and in between the file may be cancelled, taken back
  or taken by no one. `SlotsInv` keeps the claim in progress, with its slot and its
  file, out of both sides: the other queued files (`Waiting`) never outnumber the other
  slots; and only a request that is sending or taking back has slots to send. `Balance`
  reduces each step to what it adds and takes on both sides, and `PairsCount` says that
  the total to send changes by as much as one request's number does.

`PageWorkerPoolProofs`, for any number of pages, workers, pages per worker and faults:

* `TypeCorrect`, with what a process and the parent know of their own state
  (`ChildInv`, `ParentInv`).
* `RecyclingCostsNoPage`: `RecycleOnlyExhausted`. Parent and child count separately.
  `Balance` says that what the parent counted from a process, what is queued from it
  and what its feeder still holds never exceed what it served, so a process whose
  results the parent counted to the limit has nothing left; `OutboxInv` keeps a
  failed engine's error result, which no one counts, out of the balance.
* `PagesAreConserved`: `PagesConserved`. The places of a page are named sets
  (`contents`), `Partition` says that they divide the pages among them, and each step
  moves pages from one place to another or leaves them (`Moved`, `Shift`);
  `QueuesInv` says that no queue has a page twice. `OneSpot` turns this into the
  statement of the run.
* `CompleteRunsAreComplete`: `CompleteIfEnginesLoad`. When no engine failed every result
  names a page (`NamedInv`), no page comes twice, and as many different pages as
  there are pages are all of them.
* `PoolIsAStream`: `StreamSpec`, the refinement of `PageStream`.

`IsolatedOCRProofs`, for any number of pages and failures: `TypeCorrect`,
`AnswersArePaired`, `BlanksHaveReasons` and `OnePageLost` from one inductive `IInv`. Its
core is `Asked`: while the parent waits for a child it takes for serving, the page it
waits for is in exactly one of the request queue, the child's hands and the answer
queue, and nothing else is anywhere. A child that ended, or was killed, is never
asked again, which is why order alone pairs answers with pages.

`DocumentLibraryProofs`, for any documents, contents, API processes, tasks and bounds:
`TypeCorrect`, `DuplicatesAreForcedOrCross`, `OnlyFaultsStrand`, `DeletionIsComplete`,
`RowsDescribeFiles` and `EditsAreRegenerated`, from `Inductive`. `CheckInv` says that a
duplicate check nobody overtook still holds when its process commits; with one process
`crossed` stays empty (`OneProcessCrossesNothing`). `ClientInv` relates requests and the tab's batch
to the documents, `FileInv` says that a deleted document outside `exposed` has no writer,
`WriterInv` that writers which overlap are marked, `RecordInv` what a file and its row
have between the two writes, and `VersionInv` that what a task was asked to hold is no
newer than what it renders.

The same module holds the proofs about `ProgressFeed`, for any number of updates, polls
and errors: `FeedTypeCorrect`, `NoPollingAfterEnd`, `HookListens`
and `EndStaysShown`. The two invariants are inductive together; the action property
needs besides that an end told by the socket closed it.

`MasterRegisterProofs`, for any finite set of books, any processes, numbers and
bounds: `NumbersListedOnce`, `RowsAreCurrent`, `OnlyCompletedBooks` and
`DownloadsComplete`, from `RegisterInvariant`. The rows a process holds are older than
the database by the time it writes them, so `RowsOK` says of them what the properties
say of the workbook, and `OnItsWay` follows a book that a download needs from the
candidates over the rows to the sheet. That `NextNumber` is a number nobody has needs
the greatest element of a finite set, and a sorted arrangement of the rows holds the
same rows: the former is `GreatestElement`, an induction over finite sets made without
the induction theorem, as the descent of a smallest counterexample along the
well-founded order of subsets.

`TableEditsProofs`, for any tables of up to three rows and columns as detected, any
handlers, requests and reprocessing runs, four results from one inductive `IInv`:

* `EditsAreTyped` (`EditsInv`): rows stay sound records (`IsGrid`), a request's names for
  new cells are nobody's yet (`NamesInv`), and one that nobody overlapped still finds
  the rows it loaded (`AloneInv`). A lemma about each edit says what it makes of the
  table it loaded (`RowAdded` ... `CellsMerged`), another what the session then writes into
  the rows as they are by now (`RowsWritten`, `WrittenAlone`).
* `StructureEditsKeepText` (`StructureKeepsText`) and `MergesLoseNoWord`
  (`MergeLosesNoWord`).
* `GridsStaySound`: `SoundGrid`, which the edits keep one by one, for any indices and
  spans in the requests: those that name a place the table has not, or move a merged
  cell onto another, put the table into `ragged`. For a merge it needs the least and
  the greatest element of finite sets of rows and columns (`Extremes`).
* `JsonFollowsRows`: `JsonMatchesRows`. The property speaks of moments of rest only.
  `JsonInv` says what holds in between: either a request that another overlapped has
  stored its change and will put every table in doubt when it writes, or each table
  outside `doubt` has JSON that agrees with its rows or is about to be written, and what
  a request will write does agree (`WillAgree`). For the text of a cell that takes
  `OneTextApart`: before the copy, JSON and rows differ in that one text, and in a sound
  grid no other cell starts at its place (`TextCopied`).

The parts of `IInv` were checked by TLC as invariants of the run's instance first.

`BatchProofs` also has the theorems about `Sizing`, for every host and every setting the configuration admits:
`MemoryRespected` (when more than one document runs at a time, all their page workers
together fit into the memory the host leaves them, if one fits at all),
`BudgetRespected` (and stay within its CPUs and the setting, or are one each),
`TightestBound`, `ContainerLimitsRespected` and `FewerPagesFirst` (a file with fewer pages
is cheaper, as long as it is smaller than a gigabyte). `SmallFilesKeepALane` is
`PickNextPolicy` for every finite queue and any number of lanes. It needs that each
rank of a queue is some file's (`RankedExists`: the ranks of n files are n different
numbers below n) and that no median is above the largest file (`MedianWithin`); so a
long file that was picked is itself at least the median, and the next pick is the
smallest again.

The assumptions on the constants (`ConstantsOK`, `HoldersOK`, `BatchConstantsOK`,
`FiniteOK`, `PagesAssumption`, `BoundsAssumption`, `SizeAssumption`, `LibraryAssumption` and
so on) are
those of the model: the bounds are natural numbers, the sets are finite, and "nobody"
is no member of them.

`PageAssemblyProofs`, for pages of any size with any finite number of words, rules and
pictures: `PageShape` (the inductive `IInv`), `TypeCorrect`, `TablesExported`,
`SearchableComplete`, `WordsOnce` and `RowsStayApart`. Most of it is about the
functions the model is built from:

* Induction is made without the induction theorems: `UpTo` is the descent of a smallest
  counterexample along the well-founded order of subsets, for a set of numbers rather
  than a predicate. The recursive functions (union-find, kept pictures, the cells
  written so far) exist by it (`GrowthDefined`, `KeptDefined`, `SheetsDefined`,
  `DocumentsDefined`, `SumsDefined`), and so do their invariants.
* `Enumerates`: a list made by counting the elements before each one has every element
  of a finite ordered set once. `Sorted`, `ReadInOrder` and `LargerFirstList` apply it.
* `UnitedCloses`: after as many rounds as there are adjacent pairs a group of base cells
  grows no more, so groups are equal or disjoint (`GroupsApart`), and cells of
  different groups are met first at different places (`CellOfOK`).
* `ClustersWithin`, `SupplementWithin`, `RowBoundsWithin`, `ColumnBoundsWithin`: means of
  clusters and boundaries taken from the text stay between the outermost ones, so all
  cells lie in the page (`BoundariesOK`, `StructureOK`, `FromRowsOK`).
* An export is a loop over the cells in reading order. `SheetIs` and `DocumentIs` say
  what the file holds after the first of them: in a table whose cells do not overlap,
  the words of each at its place and of nothing else; a merge then neither clears nor
  cuts what was written before (`SheetCellOK`, `WordCellOK`).
* `CropHolds`: the crop reaches around each box it was made from, so none is clipped
  away (`SharedWithin`). For the words of tables `SearchableComplete` needs that each
  cell's words are known to the page, from detection through a merge (`WordsKnownHolds`).
* `WordsOnce` (`EachWordOnce`) needs the invariant `Built`: tables and JSON are what
  detection and layout make of the page. Then each word is followed through them. A
  ruled table considers every word centred in it, and its cells cover its grid
  (`RuledIs`); two cells can both hold a word only when they overlap or the edge between
  them runs through its middle (`GridCellsApart`). Runs of rows share no line
  (`RunsApart`), and within a run a word is in the column it starts in (`RowTakesWord`,
  `ColumnsApart`) or left of the first. The text blocks divide the words outside all
  tables (`TextTakesWord`). A word is centred in one table's place only
  (`TablesShareNoWord`), so it is never both in a cell and in a text. The page may have
  any size: a table stands where it was found, its cells filling its place
  (`GridCellsBox`, `RowsCellsBox`), unless they reach beyond A4 (`ScaledBeyond`), and
  then the words it newly covers, and those of its cells it no longer covers, are the
  exceptions the property names. The sizes of A4 in points must be numbers (`PagesAssumption`).
* `RowsStayApart` (`UnruledRowsStayApart`) also rests on `Built`. With at most a frame
  ruled (`RuledFrames`) most boundaries are those of the text, so the typical gap
  is no larger than two lines are apart (`TypicalGapBound`), and the gap below which
  boundaries are merged is at most half the distance of any two lines. The middle of the
  space between two lines is further than that from every other boundary (`MidsAway`),
  so it stays as it is (`AloneStays`) and separates rows by itself (`MidsForced`). No
  group of base cells reaches over it (`ForcedSeparates`), and it lies between the
  middles of the words (`LinesApart`). A word that counts for the region is centred in
  its height (`InsideCentred`), so no line is left out.

Every safety property a run checks is stated by a theorem. Only model-checked: all
liveness (`SentJobSettles`, `EndsUnlessPageLost`, `QueuedItemSettles`, `EndIsShown`,
`SweepEnds`), which needs fairness and ENABLED and is beyond the prover.

## Not modelled

* *OCR engines, their providers and image preprocessing* (`ocr/`, `vision/`): numerical
  code and remote calls. The models contain their outcomes: a result, an error, a
  crash, an engine that does not load, no answer.
* *Metadata extraction and cover reading* (`services/accession_extractor.py`,
  `services/cover_reader.py`): text heuristics without state. `MasterRegister` takes the
  number they find as an input.
* *Models and migrations*: schema. `migrate_with_lock.py` holds one advisory lock
  around a tool that is not part of this code.
* *Frontend pages*: presentation; the hooks with races of their own are modelled.
* *In modelled components*: listings, statistics, downloads and the ETA, which only
  read; the styling and the other columns of the workbook; rows of the page JSON other
  than tables, texts and pictures; placement, fonts and the reconstructed PDF; the
  contents of files that validation refuses; S3 as a storage backend.
* *Settings of a job on reprocessing*: pages of an earlier run are taken over whatever
  engine, DPI or profile the new job asks for. The model has no settings to differ.
* *Server-side subscriptions*: a closed page's subscription ends at the next event,
  and a cancelled job publishes none after its last; only the page's side is modelled.

## Plan

The core came first (pipeline, pool, batch), then the parts around it (register,
library, progress, editing, sweep, sizing), then detection and exports, each with its
runs before its proofs. What is left, in the order of its worth:

1. Settings of a job in `DocumentPipeline`, so that taking over the pages of an earlier
   run can be stated.
2. The server's subscriptions in `ProgressFeed`, with the number of open ones.
