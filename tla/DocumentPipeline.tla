-------------------------- MODULE DocumentPipeline --------------------------
(***************************************************************************)
(* Processing runs of ONE document: the jobs the API creates for it, the   *)
(* Celery messages that carry them, the worker processes that execute      *)
(* run_document_pipeline, the Redis lease and cancel flag of the document, *)
(* its persisted pages and stored exports, and the API requests (cancel,   *)
(* progress polling) that race with a run.                                 *)
(*                                                                         *)
(* Locks, flags, pages and exports are keyed by document, so documents are *)
(* independent of each other here.  Time is abstracted to what expires     *)
(* before what; see LeaseLapses and StaleRead.                             *)
(***************************************************************************)
EXTENDS Naturals, FiniteSets

CONSTANTS
    Worker,         \* worker processes of the pipeline queue
    Page,           \* pages of the document
    MaxJobs,        \* bound: processing jobs created for the document
    NumExports,     \* export files a run stores, one after the other
    Slow,           \* unrenewed waits that may outlast the lease: "error", "tail"
    MaxKills,       \* bound: native crashes plus container kills
    MaxLate,        \* bound: messages redelivered while their run is alive
    MaxRedisErrors  \* bound: Redis calls that fail and are swallowed

ASSUME ConstantsOK ==
    /\ MaxJobs \in Nat /\ NumExports \in Nat
    /\ MaxKills \in Nat /\ MaxLate \in Nat /\ MaxRedisErrors \in Nat
    /\ Slow \subseteq {"error", "tail"}

Job == 1..MaxJobs
NoJob == 0
NoToken == 0

Started   == {"PROCESSING", "OCR_PROCESSING", "RECONSTRUCTING", "EXPORTING"}
Terminal  == {"COMPLETED", "FAILED", "CANCELLED"}
Cancellable == {"QUEUED"} \cup Started
Status    == {"NONE", "QUEUED"} \cup Started \cup Terminal

(* Where a run is inside run_document_pipeline.                            *)
Tail == {"assemble", "render", "store"}
Body == {"start", "resume", "ocr", "renew", "check", "sweep", "sweeppage",
         "sweeprenew", "clear", "cancelled", "release"} \cup Tail
PC == {"idle", "lock", "skip", "lost"} \cup Body

VARIABLES
    latest,     \* newest job of the document (0: none); jobs are numbered by created_at
    status,     \* status[j]: ProcessingJob.status
    docStatus,  \* Document.status
    task,       \* task[j]: the broker's view of job j's message
    revoked,    \* jobs whose message the workers will discard
    lock,       \* token stored under the document's lock key (0: key absent)
    fresh,      \* the lease was acquired or renewed since the last page result
    flag,       \* 0: no cancel flag; otherwise the job whose cancellation set it
    done,       \* pages whose document_json is persisted
    exports,    \* exports[e]: run that stored export e and the pages in it
    pc, job, token, expect, got, stored,  \* of the run in each worker process
    overrun,    \* pages a run persisted since the cancel flag was set (history)
    cancel,     \* cancel request being served
    stale,      \* job a progress poll decided to fail (0: none)
    runs,       \* leases handed out so far
    kills, late, redisErrors

redisVars == <<lock, fresh, flag>>
dbVars    == <<latest, status, docStatus, done, exports>>
runVars   == <<pc, job, token, expect, got, stored, overrun>>
apiVars   == <<cancel, stale>>
bounds    == <<runs, kills, late, redisErrors>>
vars == <<redisVars, dbVars, task, revoked, runVars, apiVars, bounds>>

Init ==
    /\ latest = NoJob
    /\ status = [j \in Job |-> "NONE"]
    /\ docStatus = "NONE"
    /\ task = [j \in Job |-> "none"]
    /\ revoked = {}
    /\ lock = NoToken /\ fresh = FALSE /\ flag = NoJob
    /\ done = {}
    /\ exports = [e \in 1..NumExports |-> [run |-> NoToken, pages |-> {}]]
    /\ pc = [w \in Worker |-> "idle"]
    /\ job = [w \in Worker |-> NoJob]
    /\ token = [w \in Worker |-> NoToken]
    /\ expect = [w \in Worker |-> {}]
    /\ got = [w \in Worker |-> {}]
    /\ stored = [w \in Worker |-> 0]
    /\ overrun = [w \in Worker |-> 0]
    /\ cancel = [step |-> "none", job |-> NoJob]
    /\ stale = NoJob
    /\ runs = 0 /\ kills = 0 /\ late = 0 /\ redisErrors = 0

-----------------------------------------------------------------------------
(* Building blocks                                                         *)

Goto(w, l) == pc' = [pc EXCEPT ![w] = l]

(* update_job_progress: the job's and the document's status, one commit.   *)
UpdateJobProgress(j, s) ==
    /\ status' = [status EXCEPT ![j] = s]
    /\ docStatus' = s
    /\ UNCHANGED latest

(* A swallowed Redis failure.                                              *)
RedisFails ==
    /\ redisErrors < MaxRedisErrors
    /\ redisErrors' = redisErrors + 1

(* Variants: slips this code could plausibly have made, used to show that  *)
(* the properties below notice them.  None is part of Next.                *)
LeaseFreeWithoutNX == TRUE
CompareAndExpireNeverRenews(t) == UNCHANGED fresh
CompareAndDeleteAnyToken(t) == lock' = NoToken
HandOverAcksEarly(j) == task' = [task EXCEPT ![j] = "acked"]
FailRefusedSilently(j) == UNCHANGED <<status, docStatus, latest>>
CancelRequestedNotInSweep(w) == flag # NoJob /\ pc[w] = "check"
MoreToStoreOneShort(w) == stored[w] + 1 < NumExports

(* SET NX: the key must be absent.                                         *)
LeaseFree == lock = NoToken

(* _RENEW_LUA: a lease that is gone, or another run's, is left alone.      *)
CompareAndExpire(t) == fresh' = (fresh \/ lock = t)

(* _RELEASE_LUA: delete the key only if it still holds this token.         *)
CompareAndDelete(t) == lock' = IF lock = t THEN NoToken ELSE lock

(* task_acks_late: a message that is being executed is not settled yet.    *)
HandOver(j) == task' = [task EXCEPT ![j] = "unacked"]

(* The message's delivery tag survives a redelivery, so the end of one     *)
(* copy's run also settles a copy that is being executed, but not one that *)
(* is back in the queue.                                                   *)
Acknowledge(j) ==
    task' = [task EXCEPT ![j] = IF @ = "unacked" THEN "acked" ELSE @]

RunningJob(j) == {w \in Worker : pc[w] # "idle" /\ job[w] = j}

-----------------------------------------------------------------------------
(* API: creating a job (upload, reprocess) and sending its message         *)

CreateJob ==
    /\ latest < MaxJobs
    /\ latest' = latest + 1
    /\ status' = [status EXCEPT ![latest + 1] = "QUEUED"]
    /\ docStatus' = "QUEUED"
    /\ UNCHANGED <<done, exports, task, revoked, redisVars, runVars, apiVars, bounds>>

(* A second request, or a failing broker, may come before this.            *)
SendTask(j) ==
    /\ j <= latest /\ task[j] = "none"
    /\ task' = [task EXCEPT ![j] = "queued"]
    /\ UNCHANGED <<dbVars, revoked, redisVars, runVars, apiVars, bounds>>

-----------------------------------------------------------------------------
(* Broker                                                                  *)

Deliver(w, j) ==
    /\ pc[w] = "idle" /\ task[j] = "queued" /\ j \notin revoked
    /\ HandOver(j)
    /\ job' = [job EXCEPT ![w] = j]
    /\ Goto(w, "lock")
    /\ UNCHANGED <<dbVars, revoked, redisVars, token, expect, got, stored, overrun,
                   apiVars, bounds>>

DiscardRevoked(j) ==
    /\ task[j] = "queued" /\ j \in revoked
    /\ task' = [task EXCEPT ![j] = "acked"]
    /\ UNCHANGED <<dbVars, revoked, redisVars, runVars, apiVars, bounds>>

(* task_acks_late: the message of a killed worker comes back ...           *)
RedeliverLost(j) ==
    /\ task[j] = "unacked" /\ RunningJob(j) = {}
    /\ task' = [task EXCEPT ![j] = "queued"]
    /\ UNCHANGED <<dbVars, revoked, redisVars, runVars, apiVars, bounds>>

(* ... and so does, after the visibility timeout, that of a run which is   *)
(* still going.                                                            *)
RedeliverLate(j) ==
    /\ task[j] = "unacked" /\ RunningJob(j) # {} /\ late < MaxLate
    /\ task' = [task EXCEPT ![j] = "queued"]
    /\ late' = late + 1
    /\ UNCHANGED <<dbVars, revoked, redisVars, runVars, apiVars, runs, kills, redisErrors>>

-----------------------------------------------------------------------------
(* The lease                                                               *)

AcquireLease(w) ==
    /\ pc[w] = "lock" /\ LeaseFree
    /\ runs' = runs + 1
    /\ lock' = runs + 1 /\ fresh' = TRUE
    /\ token' = [token EXCEPT ![w] = runs + 1]
    /\ Goto(w, "start")
    /\ UNCHANGED <<dbVars, task, revoked, flag, job, expect, got, stored, overrun,
                   apiVars, kills, late, redisErrors>>

LeaseRefused(w) ==
    /\ pc[w] = "lock" /\ ~LeaseFree
    /\ Goto(w, "skip")
    /\ UNCHANGED <<dbVars, task, revoked, redisVars, job, token, expect, got, stored,
                   overrun, apiVars, bounds>>

(* A refused run fails its own job, whatever that job's status, and ends.  *)
FailRefused(j) == UpdateJobProgress(j, "FAILED")

SkipDuplicate(w) ==
    /\ pc[w] = "skip"
    /\ FailRefused(job[w])
    /\ Acknowledge(job[w])
    /\ Goto(w, "idle") /\ job' = [job EXCEPT ![w] = NoJob]
    /\ UNCHANGED <<done, exports, revoked, redisVars, token, expect, got, stored,
                   overrun, apiVars, bounds>>

(* After every page; a Redis failure only costs the renewal.               *)
Renew(w) ==
    /\ pc[w] \in {"renew", "sweeprenew"}
    /\ \/ CompareAndExpire(token[w]) /\ UNCHANGED redisErrors
       \/ RedisFails /\ UNCHANGED fresh
    /\ Goto(w, IF pc[w] = "renew" THEN "check" ELSE "sweep")
    /\ UNCHANGED <<dbVars, task, revoked, lock, flag, job, token, expect, got, stored,
                   overrun, apiVars, runs, kills, late>>

(* The 600 s TTL covers the slowest page ("fresh") but not two pages in a  *)
(* row without a renewal, nor -- when Slow says so -- an errored page or   *)
(* the tail of a run; the lease of a dead run lapses sooner or later.      *)
Outlasts(w) ==
    \/ pc[w] \in {"ocr", "sweeppage"} /\ ~fresh
    \/ pc[w] \in Tail /\ "tail" \in Slow

LeaseMayLapse ==
    /\ lock # NoToken
    /\ \A w \in Worker : token[w] = lock => Outlasts(w)

LeaseLapses ==
    /\ LeaseMayLapse
    /\ lock' = NoToken
    /\ UNCHANGED <<dbVars, task, revoked, fresh, flag, runVars, apiVars, bounds>>

(* finally: release the lease, return, and let Celery acknowledge.  When   *)
(* Redis fails, the lease stays until it lapses.                           *)
EndRun(w) ==
    /\ pc[w] = "release"
    /\ \/ CompareAndDelete(token[w]) /\ UNCHANGED redisErrors
       \/ RedisFails /\ UNCHANGED lock
    /\ Acknowledge(job[w])
    /\ Goto(w, "idle")
    /\ job' = [job EXCEPT ![w] = NoJob]
    /\ token' = [token EXCEPT ![w] = NoToken]
    /\ expect' = [expect EXCEPT ![w] = {}]
    /\ got' = [got EXCEPT ![w] = {}]
    /\ stored' = [stored EXCEPT ![w] = 0]
    /\ overrun' = [overrun EXCEPT ![w] = 0]
    /\ UNCHANGED <<dbVars, revoked, fresh, flag, apiVars, runs, kills, late>>

-----------------------------------------------------------------------------
(* The page phase                                                          *)

StartRun(w) ==
    /\ pc[w] = "start"
    /\ UpdateJobProgress(job[w], "PROCESSING")
    /\ Goto(w, "resume")
    /\ UNCHANGED <<done, exports, task, revoked, redisVars, job, token, expect, got,
                   stored, overrun, apiVars, bounds>>

(* Pages any earlier run persisted are taken over, not submitted again.    *)
Resume(w) ==
    /\ pc[w] = "resume"
    /\ got' = [got EXCEPT ![w] = done]
    /\ expect' = [expect EXCEPT ![w] = Page \ done]
    /\ IF done # {} THEN UpdateJobProgress(job[w], "OCR_PROCESSING")
                    ELSE UNCHANGED <<status, docStatus, latest>>
    /\ Goto(w, IF done = Page THEN "assemble" ELSE "ocr")
    /\ UNCHANGED <<done, exports, task, revoked, redisVars, job, token, stored, overrun,
                   apiVars, bounds>>

(* _persist_page_result and what both page loops do after it.              *)
PersistPage(w, p) ==
    /\ done' = done \cup {p}
    /\ got' = [got EXCEPT ![w] = @ \cup {p}]
    /\ overrun' = IF flag = NoJob THEN overrun ELSE [overrun EXCEPT ![w] = @ + 1]
    /\ fresh' = FALSE

(* Results of the page worker pool arrive in any order.                    *)
PageArrives(w, p) ==
    /\ pc[w] = "ocr" /\ p \in expect[w]
    /\ PersistPage(w, p)
    /\ expect' = [expect EXCEPT ![w] = @ \ {p}]
    /\ UpdateJobProgress(job[w], "OCR_PROCESSING")
    /\ Goto(w, "renew")
    /\ UNCHANGED <<exports, task, revoked, lock, flag, job, token, stored, apiVars, bounds>>

(* An errored result skips the renewal and the cancel check.               *)
PageErrors(w, p) ==
    /\ pc[w] = "ocr" /\ p \in expect[w]
    /\ expect' = [expect EXCEPT ![w] = @ \ {p}]
    /\ fresh' = (fresh /\ "error" \notin Slow)
    /\ UNCHANGED <<dbVars, task, revoked, lock, flag, pc, job, token, got, stored,
                   overrun, apiVars, bounds>>

(* The pool delivered everything, or lost its last worker before that;     *)
(* pages without a result go to the sequential sweep.                      *)
PoolEnds(w) ==
    /\ pc[w] = "ocr"
    /\ IF got[w] = Page
       THEN Goto(w, "assemble") /\ UNCHANGED <<status, docStatus, latest, expect>>
       ELSE /\ UpdateJobProgress(job[w], "OCR_PROCESSING")
            /\ expect' = [expect EXCEPT ![w] = Page \ got[w]]
            /\ Goto(w, "sweep")
    /\ UNCHANGED <<done, exports, task, revoked, redisVars, job, token, got, stored,
                   overrun, apiVars, bounds>>

(* _is_cancel_requested: after each pool result, before each sweep page.   *)
CancelRequested(w) ==
    /\ flag # NoJob
    /\ \/ pc[w] = "check"
       \/ pc[w] = "sweep" /\ expect[w] # {}

SeesCancel(w) ==
    /\ CancelRequested(w)
    /\ Goto(w, "clear")
    /\ UNCHANGED <<dbVars, task, revoked, redisVars, job, token, expect, got, stored,
                   overrun, apiVars, bounds>>

(* A Redis failure reads as "not cancelled".                               *)
SeesNoCancel(w) ==
    /\ \/ pc[w] = "check" /\ Goto(w, "ocr")
       \/ pc[w] = "sweep" /\ expect[w] # {} /\ Goto(w, "sweeppage")
    /\ \/ ~CancelRequested(w) /\ UNCHANGED redisErrors
       \/ CancelRequested(w) /\ RedisFails
    /\ UNCHANGED <<dbVars, task, revoked, redisVars, job, token, expect, got, stored,
                   overrun, apiVars, runs, kills, late>>

(* One page of the sweep; a page that fails here too is only logged.       *)
SweepPage(w, p) ==
    /\ pc[w] = "sweeppage" /\ p \in expect[w]
    /\ expect' = [expect EXCEPT ![w] = @ \ {p}]
    /\ \/ PersistPage(w, p)
       \/ fresh' = FALSE /\ UNCHANGED <<done, got, overrun>>
    /\ Goto(w, "sweeprenew")
    /\ UNCHANGED <<latest, status, docStatus, exports, task, revoked, lock, flag, job,
                   token, stored, apiVars, bounds>>

SweepEnds(w) ==
    /\ pc[w] = "sweep" /\ expect[w] = {}
    /\ Goto(w, "assemble")
    /\ UNCHANGED <<dbVars, task, revoked, redisVars, job, token, expect, got, stored,
                   overrun, apiVars, bounds>>

ClearCancelFlag(w) ==
    /\ pc[w] = "clear"
    /\ \/ flag' = NoJob /\ UNCHANGED redisErrors
       \/ RedisFails /\ UNCHANGED flag
    /\ Goto(w, "cancelled")
    /\ UNCHANGED <<dbVars, task, revoked, lock, fresh, job, token, expect, got, stored,
                   overrun, apiVars, runs, kills, late>>

RecordCancelled(w) ==
    /\ pc[w] = "cancelled"
    /\ UpdateJobProgress(job[w], "CANCELLED")
    /\ Goto(w, "release")
    /\ UNCHANGED <<done, exports, task, revoked, redisVars, job, token, expect, got,
                   stored, overrun, apiVars, bounds>>

-----------------------------------------------------------------------------
(* The tail of a run: no renewal, no cancel check                          *)

Assemble(w) ==
    /\ pc[w] = "assemble"
    /\ UpdateJobProgress(job[w], "RECONSTRUCTING")
    /\ Goto(w, "render")
    /\ UNCHANGED <<done, exports, task, revoked, redisVars, job, token, expect, got,
                   stored, overrun, apiVars, bounds>>

Render(w) ==
    /\ pc[w] = "render"
    /\ UpdateJobProgress(job[w], "EXPORTING")
    /\ Goto(w, "store")
    /\ UNCHANGED <<done, exports, task, revoked, redisVars, job, token, expect, got,
                   stored, overrun, apiVars, bounds>>

MoreToStore(w) == stored[w] < NumExports

(* _store_export, in the order of the code.                                *)
StoreExport(w) ==
    /\ pc[w] = "store" /\ MoreToStore(w)
    /\ stored' = [stored EXCEPT ![w] = @ + 1]
    /\ exports' = [exports EXCEPT ![stored[w] + 1] = [run |-> token[w], pages |-> got[w]]]
    /\ UNCHANGED <<latest, status, docStatus, done, task, revoked, redisVars, pc, job,
                   token, expect, got, overrun, apiVars, bounds>>

Complete(w) ==
    /\ pc[w] = "store" /\ ~MoreToStore(w)
    /\ UpdateJobProgress(job[w], "COMPLETED")
    /\ Goto(w, "release")
    /\ UNCHANGED <<done, exports, task, revoked, redisVars, job, token, expect, got,
                   stored, overrun, apiVars, bounds>>

-----------------------------------------------------------------------------
(* Failures of a run                                                       *)

(* An exception (storage, OCR start-up, soft time limit): the except block *)
(* records FAILED; task_failure then finds the job terminal.               *)
RunFails(w) ==
    /\ pc[w] \in {"lock", "start", "resume", "ocr", "sweep", "assemble", "render", "store"}
    /\ UpdateJobProgress(job[w], "FAILED")
    /\ Goto(w, "release")
    /\ UNCHANGED <<done, exports, task, revoked, redisVars, job, token, expect, got,
                   stored, overrun, apiVars, bounds>>

(* A native crash kills the process: neither except nor finally runs, the  *)
(* lease stays.                                                            *)
NativeCrash(w) ==
    /\ pc[w] \notin {"idle", "lost"} /\ kills < MaxKills
    /\ kills' = kills + 1
    /\ Goto(w, "lost")
    /\ token' = [token EXCEPT ![w] = NoToken]
    /\ expect' = [expect EXCEPT ![w] = {}]
    /\ got' = [got EXCEPT ![w] = {}]
    /\ stored' = [stored EXCEPT ![w] = 0]
    /\ overrun' = [overrun EXCEPT ![w] = 0]
    /\ UNCHANGED <<dbVars, task, revoked, redisVars, job, apiVars, runs, late, redisErrors>>

(* _on_any_task_failure, in the parent of the crashed process.             *)
TaskFailure(w) ==
    /\ pc[w] = "lost"
    /\ IF status[job[w]] \in {"COMPLETED", "FAILED"}
       THEN UNCHANGED <<status, docStatus, latest>>
       ELSE UpdateJobProgress(job[w], "FAILED")
    /\ Acknowledge(job[w])
    /\ Goto(w, "idle") /\ job' = [job EXCEPT ![w] = NoJob]
    /\ UNCHANGED <<done, exports, revoked, redisVars, token, expect, got, stored,
                   overrun, apiVars, bounds>>

(* The worker container goes away with everything its processes knew; the  *)
(* messages stay unacknowledged and the revocations are forgotten.         *)
ContainerKill ==
    /\ kills < MaxKills
    /\ \E w \in Worker : pc[w] # "idle"
    /\ kills' = kills + 1
    /\ pc' = [w \in Worker |-> "idle"]
    /\ job' = [w \in Worker |-> NoJob]
    /\ token' = [w \in Worker |-> NoToken]
    /\ expect' = [w \in Worker |-> {}]
    /\ got' = [w \in Worker |-> {}]
    /\ stored' = [w \in Worker |-> 0]
    /\ overrun' = [w \in Worker |-> 0]
    /\ revoked' = {}
    /\ UNCHANGED <<dbVars, task, redisVars, apiVars, runs, late, redisErrors>>

-----------------------------------------------------------------------------
(* API: cancelling and polling                                             *)

(* POST /cancel looks at the newest job only ...                           *)
CancelBegins ==
    /\ cancel.step = "none" /\ latest # NoJob
    /\ status[latest] \in Cancellable
    /\ cancel' = [step |-> "flag", job |-> latest]
    /\ UNCHANGED <<dbVars, task, revoked, redisVars, runVars, stale, bounds>>

(* ... raises the document's flag and revokes the task, if it was sent ... *)
CancelFlags ==
    /\ cancel.step = "flag"
    /\ flag' = cancel.job
    /\ overrun' = IF flag = NoJob THEN [w \in Worker |-> 0] ELSE overrun
    /\ revoked' = IF task[cancel.job] = "none" THEN revoked ELSE revoked \cup {cancel.job}
    /\ cancel' = [cancel EXCEPT !.step = "write"]
    /\ UNCHANGED <<dbVars, task, lock, fresh, pc, job, token, expect, got, stored,
                   stale, bounds>>

(* ... and records CANCELLED, without looking at the status again.         *)
CancelWrites ==
    /\ cancel.step = "write"
    /\ UpdateJobProgress(cancel.job, "CANCELLED")
    /\ cancel' = [step |-> "none", job |-> NoJob]
    /\ UNCHANGED <<done, exports, task, revoked, redisVars, runVars, stale, bounds>>

(* The flag's own TTL (3600 s).                                            *)
CancelFlagExpires ==
    /\ flag # NoJob
    /\ flag' = NoJob
    /\ UNCHANGED <<dbVars, task, revoked, lock, fresh, runVars, apiVars, bounds>>

(* detect_and_fail_stale_job, called by GET /progress for the newest job:  *)
(* started, not updated for 900 s, and no lock.  Only a run that outlasts  *)
(* its lease, or none at all, leaves a job without an update for so long.  *)
StaleRead ==
    /\ stale = NoJob /\ latest # NoJob
    /\ status[latest] \in Started /\ lock = NoToken
    /\ \A w \in RunningJob(latest) : Outlasts(w)
    /\ stale' = latest
    /\ UNCHANGED <<dbVars, task, revoked, redisVars, runVars, cancel, bounds>>

StaleWrite ==
    /\ stale # NoJob
    /\ UpdateJobProgress(stale, "FAILED")
    /\ stale' = NoJob
    /\ UNCHANGED <<done, exports, task, revoked, redisVars, runVars, cancel, bounds>>

-----------------------------------------------------------------------------

(* A step the code of a run takes by itself.                               *)
RunStep(w) ==
    \/ AcquireLease(w) \/ LeaseRefused(w) \/ SkipDuplicate(w)
    \/ StartRun(w) \/ Resume(w)
    \/ \E p \in Page : PageArrives(w, p) \/ PageErrors(w, p) \/ SweepPage(w, p)
    \/ PoolEnds(w) \/ Renew(w) \/ SeesCancel(w) \/ SeesNoCancel(w) \/ SweepEnds(w)
    \/ ClearCancelFlag(w) \/ RecordCancelled(w)
    \/ Assemble(w) \/ Render(w) \/ StoreExport(w) \/ Complete(w)
    \/ EndRun(w)

ApiStep ==
    \/ CreateJob \/ \E j \in Job : SendTask(j)
    \/ CancelBegins \/ CancelFlags \/ CancelWrites
    \/ StaleRead \/ StaleWrite

BrokerStep ==
    \E j \in Job : \/ \E w \in Worker : Deliver(w, j)
                   \/ DiscardRevoked(j) \/ RedeliverLost(j) \/ RedeliverLate(j)

Next ==
    \/ \E w \in Worker : RunStep(w) \/ RunFails(w) \/ NativeCrash(w) \/ TaskFailure(w)
    \/ ContainerKill \/ BrokerStep \/ ApiStep
    \/ LeaseLapses \/ CancelFlagExpires

Spec == Init /\ [][Next]_vars

-----------------------------------------------------------------------------
(* Properties                                                              *)

Holding == {w \in Worker : token[w] # NoToken}

(* The states every variable stays in.  Code: the fields and keys above.   *)
DbTypeOK ==
    /\ latest \in 0..MaxJobs
    /\ status \in [Job -> Status]
    /\ docStatus \in Status
    /\ done \in SUBSET Page
    /\ exports \in [1..NumExports -> [run : Nat, pages : SUBSET Page]]

BrokerTypeOK ==
    /\ task \in [Job -> {"none", "queued", "unacked", "acked"}]
    /\ revoked \in SUBSET Job

RedisTypeOK == lock \in Nat /\ fresh \in BOOLEAN /\ flag \in 0..MaxJobs

RunTypeOK ==
    /\ pc \in [Worker -> PC]
    /\ job \in [Worker -> 0..MaxJobs]
    /\ token \in [Worker -> Nat]
    /\ expect \in [Worker -> SUBSET Page]
    /\ got \in [Worker -> SUBSET Page]
    /\ stored \in [Worker -> 0..NumExports]
    /\ overrun \in [Worker -> Nat]

ApiTypeOK ==
    /\ cancel \in [step : {"none"}, job : {NoJob}] \cup [step : {"flag", "write"}, job : Job]
    /\ stale \in 0..MaxJobs

BoundsTypeOK == runs \in Nat /\ kills \in Nat /\ late \in Nat /\ redisErrors \in Nat

TypeOK == DbTypeOK /\ BrokerTypeOK /\ RedisTypeOK /\ RunTypeOK /\ ApiTypeOK /\ BoundsTypeOK

(* A live run holds the document's lease from acquiring to releasing it:   *)
(* the claim above _DOCUMENT_LOCK_TTL_SECONDS ("a genuinely still-running  *)
(* job never loses it mid-document").                                      *)
LiveRunHoldsLease == \A w \in Worker : token[w] # NoToken => lock = token[w]

(* What makes LiveRunHoldsLease inductive: tokens are never handed out     *)
(* twice, a run has one exactly inside its body, and whoever waits for a   *)
(* page waits on a lease that was just renewed.                            *)
Outside == PC \ Body
Waiting == {"start", "resume", "ocr", "check", "sweep", "sweeppage"}

TokenInv ==
    /\ lock <= runs
    /\ \A w \in Worker : token[w] <= runs
    /\ \A v, w \in Worker : (v # w /\ token[v] # NoToken) => token[v] # token[w]
    /\ \A w \in Worker : pc[w] \in Outside => token[w] = NoToken
    /\ \A w \in Worker : pc[w] \in Body \ {"release"} => token[w] # NoToken

LeaseInv ==
    /\ TokenInv
    /\ LiveRunHoldsLease
    /\ \A w \in Worker : pc[w] \in Waiting => fresh

(* A lease leaves a live run only when that run ends or outlasts it: no    *)
(* other run, API request or handler takes it away.  Code: the token       *)
(* comparison of _RELEASE_LUA.                                             *)
LeasesLeftAlone ==
    \A w \in Worker :
        (token[w] # NoToken /\ lock = token[w] /\ lock' # lock)
            => (token'[w] # token[w] \/ Outlasts(w))

OwnLeaseOnly == [][LeasesLeftAlone]_vars

(* Once a user's cancellation is flagged, a run persists at most one more  *)
(* page, and one for each look at the flag that Redis failed.  Code:       *)
(* cancel_processing's "the page currently being processed always finishes *)
(* cleanly", and the except branch of _is_cancel_requested.                *)
CancelWithinOnePage == \A w \in Holding : overrun[w] <= 1 + redisErrors

(* What makes it inductive: a run that goes on to another page has seen    *)
(* that there was no flag, or was not told.                                *)
CancelInv ==
    \A w \in Worker :
        /\ overrun[w] <= 1 + redisErrors
        /\ pc[w] \in Outside \cup {"start", "resume"} => overrun[w] = 0
        /\ (flag # NoJob /\ pc[w] \in {"ocr", "sweeppage"}) => overrun[w] <= redisErrors

(* When the document reads COMPLETED and no run is at work, its exports    *)
(* were all stored by one and the same run and hold exactly the persisted  *)
(* pages.  Code: the tail of _run_pipeline under the document lock.        *)
ExportsMatch ==
    /\ \A e, f \in DOMAIN exports : exports[e] = exports[f]
    /\ \A e \in DOMAIN exports : exports[e].pages = done

CompletedDocumentIsConsistent ==
    (docStatus = "COMPLETED" /\ Holding = {}) => ExportsMatch

(* What makes it inductive: COMPLETED is the last thing a run says, past   *)
(* its first look at the pages it knows them all, and what it stored so    *)
(* far is its own.                                                         *)
TailInv ==
    /\ docStatus = "COMPLETED" =>
           ExportsMatch /\ \A w \in Worker : pc[w] \in Outside \cup {"start", "release"}
    /\ \A w \in Worker : pc[w] \in Body \ {"start", "resume", "release"} => got[w] = done
    /\ \A w \in Worker : pc[w] \notin {"store", "release"} => stored[w] = 0
    /\ \A w \in Worker : pc[w] = "store" =>
           \A e \in 1..stored[w] : exports[e] = [run |-> token[w], pages |-> done]

(* A job whose message is settled for good, and which nobody is working    *)
(* on, shows a terminal status.  Code: the explicit status of a skipped    *)
(* duplicate, and the three failure paths.                                 *)
SettledMessageSettledJob ==
    \A j \in Job :
        (task[j] = "acked" /\ RunningJob(j) = {} /\ cancel.job # j)
            => status[j] \in Terminal

(* What makes it inductive, as long as no message is delivered while its   *)
(* run is alive: a run holds the only copy of its message, whose job it    *)
(* has settled when it comes to its release; and what workers are going to *)
(* discard was settled by the request that revoked it.                     *)
SettleInv ==
    /\ \A j \in Job : j > latest => task[j] = "none"
    /\ \A j \in revoked : task[j] # "none"
    /\ \A w \in Worker : pc[w] # "idle" => job[w] \in Job /\ task[job[w]] = "unacked"
    /\ \A v, w \in Worker : v # w /\ pc[v] # "idle" /\ pc[w] # "idle" => job[v] # job[w]
    /\ \A w \in Worker : pc[w] = "release" => status[job[w]] \in Terminal
    /\ \A j \in Job :
          (j \in revoked \/ task[j] = "acked") /\ RunningJob(j) = {} /\ cancel.job # j
              => status[j] \in Terminal

(* The runs of a document exclude each other, and pages only come from the *)
(* one at work: the comment in run_document_pipeline above the lock.       *)
Exclusive == INSTANCE ExclusiveProcessing WITH running <- Holding, pages <- done

ExclusiveSpec == Exclusive!Spec

-----------------------------------------------------------------------------
(* Claims of comments in pipeline_tasks.py that the code does not keep     *)

(* "a leftover flag just gets ignored" (_clear_cancel_flag): a run is      *)
(* never stopped by an earlier job's cancellation that was long served.    *)
LeftoverFlagIgnored ==
    [][\A w \in Worker :
          (SeesCancel(w) /\ cancel.step = "none") => flag >= job[w]]_vars

(* "makes any redelivered/duplicate invocation a no-op": a refused copy of *)
(* a message leaves the job alone while the first copy's run is working.   *)
RedeliveryIsNoOp ==
    [][\A w \in Worker :
          (SkipDuplicate(w) /\ \E v \in Holding : job[v] = job[w]) => status' = status]_vars

-----------------------------------------------------------------------------
(* Liveness                                                                *)

(* The scheduler runs every live process; Celery delivers what is queued,  *)
(* redelivers what a dead worker held, and reports a lost process; Redis   *)
(* expires keys.  Users, polls and faults are free.                        *)
Fairness ==
    /\ \A w \in Worker : WF_vars(RunStep(w)) /\ WF_vars(TaskFailure(w))
    /\ \A j \in Job : /\ WF_vars(\E w \in Worker : Deliver(w, j))
                      /\ WF_vars(DiscardRevoked(j))
                      /\ WF_vars(RedeliverLost(j))
    /\ WF_vars(LeaseLapses)
    /\ WF_vars(CancelWrites) /\ WF_vars(StaleWrite)

FairSpec == Spec /\ Fairness

(* A job whose message was sent reaches a terminal status and stays there: *)
(* crashes, cancellations and refused duplicates leave nothing behind that *)
(* reads as still processing.                                              *)
SentJobSettles ==
    \A j \in Job : (task[j] # "none") ~> [](status[j] \in Terminal)
=============================================================================
