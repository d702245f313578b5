------------------------------- MODULE Batch -------------------------------
(***************************************************************************)
(* One multiple-file OCR batch: its items, the API requests that add,      *)
(* start, cancel, retry and poll them, the interchangeable slot messages,  *)
(* the workers that claim one item per slot, and an outline of the         *)
(* pipeline run an item gets (DocumentPipeline has the run itself).        *)
(*                                                                         *)
(* Every file is a document of its own; its processing jobs are numbered   *)
(* in the order they are created.  A request reads rows and writes them    *)
(* back later, one commit at a time, so both are steps.                    *)
(***************************************************************************)
EXTENDS Naturals, FiniteSetsExt

CONSTANTS
    Item,          \* files that may be uploaded
    Worker,        \* worker processes of the pipeline queue
    Client,        \* API requests served at the same time
    Limit,         \* decision.limit: documents the host can process at once
    MaxJobs,       \* bound: jobs per document, one more for every retry
    MaxRequests,   \* bound: start, cancel and retry requests
    MaxSendFails,  \* bound: slots the broker does not take
    MaxCrashes,    \* bound: native crashes
    MaxKills,      \* bound: container kills
    MaxLockFaults  \* bound: Redis calls about locks that fail, and leases outlasted

ASSUME BatchConstantsOK ==
    /\ Limit \in Nat \ {0} /\ MaxJobs \in Nat \ {0}
    /\ MaxRequests \in Nat /\ MaxSendFails \in Nat /\ MaxCrashes \in Nat /\ MaxKills \in Nat
    /\ MaxLockFaults \in Nat

CONSTANTS Nobody, Dead  \* holders of a lock that is free, or outlived its run
ASSUME HoldersOK == Nobody # Dead /\ Nobody \notin Worker /\ Dead \notin Worker
ASSUME FiniteOK == IsFiniteSet(Item) /\ IsFiniteSet(Worker) /\ IsFiniteSet(Client)

Job == 1..MaxJobs
NoJob == 0
NoItem == Nobody

TerminalItem == {"completed", "failed", "cancelled"}
ItemState == {"absent", "pending", "queued", "running"} \cup TerminalItem
TerminalJob == {"COMPLETED", "FAILED", "CANCELLED"}
JobStatus == {"NONE", "QUEUED", "ACTIVE"} \cup TerminalJob

VARIABLES
    started,   \* batch.started_at is set
    state,     \* state[i]: the item's state ("absent": no such row yet)
    current,   \* current[i]: its processing_job_id
    claimant,  \* claimant[i]: whose slot's task id it carries
    recent,    \* items claimed within CLAIM_GRACE_SECONDS
    status,    \* status[i][k]: status of the document's k-th job
    newest,    \* newest[i]: jobs the document has
    lock,      \* lock[i]: holder of the document lock
    flag,      \* documents with a cancel flag
    faults,    \* lock faults so far
    stray,     \* history: items claimed while the scan for locks failed, or
               \* whose run outlived its lease, until no worker has them
    slots,     \* slot messages in the queue
    claiming,  \* worker inside the serialized claim
    pc, item, job,       \* of the slot task in each worker
    op, on, at, seen, send,  \* of the request each client makes: its next step,
                             \* item, job, rows read and slots to send
    requests, unsent, crashes, kills,
    lost    \* history: slots given up whose item still waits

itemVars == <<started, state, current, claimant, recent>>
lockVars == <<lock, faults, stray>>
docVars == <<status, newest, lockVars, flag>>
slotVars == <<slots, claiming, pc, item, job>>
apiVars == <<op, on, at, seen, send>>
bounds == <<requests, unsent, crashes, kills, lost>>
vars == <<itemVars, docVars, slotVars, apiVars, bounds>>

Init ==
    /\ started = FALSE
    /\ state = [i \in Item |-> "absent"]
    /\ current = [i \in Item |-> NoJob]
    /\ claimant = [i \in Item |-> Nobody]
    /\ recent = {}
    /\ status = [i \in Item |-> [k \in Job |-> "NONE"]]
    /\ newest = [i \in Item |-> NoJob]
    /\ lock = [i \in Item |-> Nobody]
    /\ flag = {} /\ faults = 0 /\ stray = {}
    /\ slots = 0 /\ claiming = Nobody
    /\ pc = [w \in Worker |-> "idle"]
    /\ item = [w \in Worker |-> NoItem]
    /\ job = [w \in Worker |-> NoJob]
    /\ op = [c \in Client |-> "none"]
    /\ on = [c \in Client |-> NoItem]
    /\ at = [c \in Client |-> NoJob]
    /\ seen = [c \in Client |-> {}]
    /\ send = [c \in Client |-> 0]
    /\ requests = 0 /\ unsent = 0 /\ crashes = 0 /\ kills = 0 /\ lost = 0

-----------------------------------------------------------------------------
(* Building blocks                                                         *)

SetStatus(i, k, s) == status' = [status EXCEPT ![i][k] = s]
SetState(i, s) == state' = [state EXCEPT ![i] = s]

(* A client's next step, with what it remembers of what it read.           *)
Request(c, o, i, k, S) ==
    /\ op' = [op EXCEPT ![c] = o]
    /\ on' = [on EXCEPT ![c] = i]
    /\ at' = [at EXCEPT ![c] = k]
    /\ seen' = [seen EXCEPT ![c] = S]

Done(c) == Request(c, "none", NoItem, NoJob, {})

LockFault == faults < MaxLockFaults /\ faults' = faults + 1

NewRequest == requests < MaxRequests /\ requests' = requests + 1

Mapped == [COMPLETED |-> "completed", FAILED |-> "failed", CANCELLED |-> "cancelled"]

(* sync_item_with_job, for an item that is not terminal yet.               *)
JobOutcome(i) ==
    IF current[i] # NoJob /\ status[i][current[i]] \in TerminalJob
    THEN {Mapped[status[i][current[i]]]} ELSE {}

Queued == {i \in Item : state[i] = "queued"}

(* Queued items no worker is about to claim.                               *)
Waiting == {i \in Queued : claiming = Nobody \/ item[claiming] # i}

(* How far m exceeds n.                                                    *)
Beyond(m, n) == IF m > n THEN m - n ELSE 0

(* Variants: slips this code could plausibly have made, used to show that  *)
(* the properties below notice them.  None is part of Next.                *)
InUseLocksOnly == {i \in Item : lock[i] # Nobody}
SlotGivenUp == UNCHANGED slots
NoStaleCheck(i) == FALSE

RecentlyClaimed == {i \in recent : state[i] = "running"}

(* live_pipeline_document_ids (when Redis answers) and recently_claimed.   *)
InUse == {i \in Item : lock[i] # Nobody} \cup RecentlyClaimed

-----------------------------------------------------------------------------
(* Requests: adding files and starting                                     *)

(* add_file checks started_at first and inserts the item at the end.       *)
AddBegins(c, i) ==
    /\ op[c] = "none" /\ ~started
    /\ state[i] = "absent" /\ \A d \in Client : on[d] # i
    /\ Request(c, "add", i, NoJob, {})
    /\ UNCHANGED <<itemVars, docVars, slotVars, send, bounds>>

AddCommits(c) ==
    /\ op[c] = "add"
    /\ SetState(on[c], "pending")
    /\ current' = [current EXCEPT ![on[c]] = 1]
    /\ newest' = [newest EXCEPT ![on[c]] = 1]
    /\ SetStatus(on[c], 1, "QUEUED")
    /\ Done(c)
    /\ UNCHANGED <<started, claimant, recent, lockVars, flag, slotVars, send, bounds>>

StartReads(c) ==
    /\ op[c] = "none" /\ ~started
    /\ \E i \in Item : state[i] # "absent"
    /\ NewRequest
    /\ Request(c, "start", NoItem, NoJob, {i \in Item : state[i] = "pending"})
    /\ UNCHANGED <<itemVars, docVars, slotVars, send, unsent, crashes, kills, lost>>

SlotsFor(S) == Cardinality(S)

StartCommits(c) ==
    /\ op[c] = "start"
    /\ state' = [i \in Item |-> IF i \in seen[c] THEN "queued" ELSE state[i]]
    /\ started' = TRUE
    /\ send' = [send EXCEPT ![c] = SlotsFor(seen[c])]
    /\ Request(c, "send", NoItem, NoJob, seen[c])
    /\ UNCHANGED <<current, claimant, recent, docVars, slotVars, bounds>>

(* _enqueue_slots, for a start (seen # {}) or for a retry.                 *)
SendSlot(c) ==
    /\ op[c] = "send" /\ send[c] > 0
    /\ slots' = slots + 1
    /\ send' = [send EXCEPT ![c] = @ - 1]
    /\ UNCHANGED <<itemVars, docVars, claiming, pc, item, job, op, on, at, seen, bounds>>

AllSent(c) ==
    /\ op[c] = "send" /\ send[c] = 0
    /\ Done(c)
    /\ UNCHANGED <<itemVars, docVars, slotVars, send, bounds>>

(* Broker down.  A start is undone; a retry stays as committed.  lost      *)
(* counts the slots that were not sent and whose items keep waiting: the   *)
(* retried one, and what a start does not take back.                       *)
SendFails(c) ==
    /\ op[c] = "send" /\ send[c] > 0 /\ unsent < MaxSendFails
    /\ unsent' = unsent + 1
    /\ IF on[c] = NoItem
       THEN Request(c, "revert", NoItem, NoJob, Queued) /\ UNCHANGED <<send, lost>>
       ELSE Done(c) /\ send' = [send EXCEPT ![c] = 0] /\ lost' = lost + send[c]
    /\ UNCHANGED <<itemVars, docVars, slotVars, requests, crashes, kills>>

RevertCommits(c) ==
    /\ op[c] = "revert"
    /\ state' = [i \in Item |-> IF i \in seen[c] THEN "pending" ELSE state[i]]
    /\ started' = FALSE
    /\ send' = [send EXCEPT ![c] = 0]
    /\ lost' = lost + Beyond(send[c], Cardinality(seen[c] \cap Waiting))
    /\ Done(c)
    /\ UNCHANGED <<current, claimant, recent, docVars, slotVars, requests, unsent, crashes, kills>>

-----------------------------------------------------------------------------
(* Requests: retry, cancel, status                                         *)

(* retry_item: the new job is committed first, the item afterwards.        *)
RetryBegins(c, i) ==
    /\ op[c] = "none" /\ state[i] \in {"failed", "cancelled"} /\ newest[i] < MaxJobs
    /\ NewRequest
    /\ newest' = [newest EXCEPT ![i] = @ + 1]
    /\ SetStatus(i, newest[i] + 1, "QUEUED")
    /\ Request(c, "retry", i, newest[i] + 1, {})
    /\ UNCHANGED <<itemVars, lockVars, flag, slotVars, send, unsent, crashes, kills, lost>>

RetryCommits(c) ==
    /\ op[c] = "retry"
    /\ current' = [current EXCEPT ![on[c]] = at[c]]
    /\ SetState(on[c], "queued")
    /\ claimant' = [claimant EXCEPT ![on[c]] = Nobody]
    /\ recent' = recent \ {on[c]}
    /\ send' = [send EXCEPT ![c] = 1]
    /\ op' = [op EXCEPT ![c] = "send"]
    /\ UNCHANGED <<started, docVars, slotVars, on, at, seen, bounds>>

(* cancel_batch walks over the items one by one.                           *)
CancelBegins(c) ==
    /\ op[c] = "none" /\ NewRequest
    /\ Request(c, "cancel", NoItem, NoJob, {i \in Item : state[i] # "absent"})
    /\ UNCHANGED <<itemVars, docVars, slotVars, send, unsent, crashes, kills, lost>>

CancelLooks(c, i) ==
    /\ op[c] = "cancel" /\ i \in seen[c]
    /\ \/ state[i] \in {"pending", "queued"} /\ Request(c, "drop", i, current[i], seen[c] \ {i})
       \/ /\ state[i] = "running"
          /\ IF status[i][newest[i]] \in {"QUEUED", "ACTIVE"}
             THEN Request(c, "stop", i, newest[i], seen[c] \ {i})
             ELSE Request(c, "cancel", NoItem, NoJob, seen[c] \ {i})
       \/ state[i] \in TerminalItem /\ Request(c, "cancel", NoItem, NoJob, seen[c] \ {i})
    /\ UNCHANGED <<itemVars, docVars, slotVars, send, bounds>>

CancelDrops(c) ==
    /\ op[c] = "drop"
    /\ SetState(on[c], "cancelled")
    /\ op' = [op EXCEPT ![c] = "mark"]
    /\ UNCHANGED <<started, current, claimant, recent, docVars, slotVars, on, at, seen, send, bounds>>

CancelMarks(c) ==
    /\ op[c] = "mark"
    /\ SetStatus(on[c], at[c], "CANCELLED")
    /\ Request(c, "cancel", NoItem, NoJob, seen[c])
    /\ UNCHANGED <<itemVars, newest, lockVars, flag, slotVars, send, bounds>>

(* cancel_processing, for the document's newest job.                       *)
CancelStops(c) ==
    /\ op[c] = "stop"
    /\ flag' = flag \cup {on[c]}
    /\ SetStatus(on[c], at[c], "CANCELLED")
    /\ Request(c, "cancel", NoItem, NoJob, seen[c])
    /\ UNCHANGED <<itemVars, newest, lockVars, slotVars, send, bounds>>

CancelEnds(c) ==
    /\ op[c] = "cancel" /\ seen[c] = {}
    /\ Done(c)
    /\ UNCHANGED <<itemVars, docVars, slotVars, send, bounds>>

(* detect_and_fail_stale_job: an item still running, a job in a started    *)
(* status, no update for long, and no lock; so no run, or one that         *)
(* outlasts its lease.                                                     *)
Stale(i) ==
    /\ state[i] = "running" /\ status[i][current[i]] = "ACTIVE"
    /\ lock[i] = Nobody /\ \A w \in Worker : item[w] = i => pc[w] = "run"

(* refresh_running_items, per item: fail a stale job, then copy a terminal *)
(* outcome onto the item; the row is written after it was read.            *)
PollFailsStale(i) ==
    /\ Stale(i)
    /\ SetStatus(i, current[i], "FAILED")
    /\ UNCHANGED <<itemVars, newest, lockVars, flag, slotVars, apiVars, bounds>>

PollReads(c, i) ==
    /\ op[c] = "none" /\ state[i] \in {"queued", "running"}
    /\ JobOutcome(i) # {}
    /\ Request(c, "poll", i, NoJob, JobOutcome(i))
    /\ UNCHANGED <<itemVars, docVars, slotVars, send, bounds>>

PollWrites(c) ==
    /\ op[c] = "poll"
    /\ \E s \in seen[c] : SetState(on[c], s)
    /\ Done(c)
    /\ UNCHANGED <<started, current, claimant, recent, docVars, slotVars, send, bounds>>

-----------------------------------------------------------------------------
(* Slots: claiming an item                                                 *)

Goto(w, l) == pc' = [pc EXCEPT ![w] = l]

TakeSlot(w) ==
    /\ pc[w] = "idle" /\ slots > 0
    /\ slots' = slots - 1
    /\ Goto(w, "claim")
    /\ UNCHANGED <<itemVars, docVars, claiming, item, job, apiVars, bounds>>

(* Nothing to claim: the slot is used up.                                  *)
ClaimEmpty(w) ==
    /\ pc[w] = "claim" /\ claiming = Nobody /\ Queued = {}
    /\ Goto(w, "idle")
    /\ UNCHANGED <<itemVars, docVars, slots, claiming, item, job, apiVars, bounds>>

SlotRetried == slots' = slots + 1

(* The host is full: self.retry puts the slot back.                        *)
ClaimNoCapacity(w) ==
    /\ pc[w] = "claim" /\ claiming = Nobody
    /\ Queued # {} /\ Cardinality(InUse) >= Limit
    /\ SlotRetried
    /\ Goto(w, "idle")
    /\ UNCHANGED <<itemVars, docVars, claiming, item, job, apiVars, bounds>>

(* Under the advisory lock: check the capacity, choose an item (any; the   *)
(* order pick_next prefers does not matter here).  A scan for locks that   *)
(* fails finds none, so that only recent claims count ...                  *)
ClaimReads(w, i) ==
    /\ pc[w] = "claim" /\ claiming = Nobody /\ i \in Queued
    /\ \/ Cardinality(InUse) < Limit /\ UNCHANGED <<faults, stray>>
       \/ LockFault /\ Cardinality(RecentlyClaimed) < Limit /\ stray' = stray \cup {i}
    /\ claiming' = w
    /\ item' = [item EXCEPT ![w] = i]
    /\ UNCHANGED <<itemVars, status, newest, lock, flag, slots, pc, job, apiVars, bounds>>

(* ... and commit, which gives the lock back.                              *)
ClaimCommits(w) ==
    /\ claiming = w
    /\ claiming' = Nobody
    /\ SetState(item[w], "running")
    /\ recent' = recent \cup {item[w]}
    /\ claimant' = [claimant EXCEPT ![item[w]] = w]
    /\ job' = [job EXCEPT ![w] = current[item[w]]]
    /\ Goto(w, "enter")
    /\ UNCHANGED <<started, current, docVars, slots, item, apiVars, bounds>>

(* CLAIM_GRACE_SECONDS outlasts the start of a pipeline run.               *)
GraceEnds(i) ==
    /\ i \in recent /\ \A w \in Worker : item[w] = i => pc[w] # "enter"
    /\ recent' = recent \ {i}
    /\ UNCHANGED <<started, state, current, claimant, docVars, slotVars, apiVars, bounds>>

-----------------------------------------------------------------------------
(* Slots: the pipeline run, in outline, and its outcome                    *)

Enter(w) ==
    /\ pc[w] = "enter" /\ lock[item[w]] = Nobody
    /\ lock' = [lock EXCEPT ![item[w]] = w]
    /\ Goto(w, "begin")
    /\ UNCHANGED <<itemVars, status, newest, faults, stray, flag, slots, claiming, item, job, apiVars, bounds>>

(* The lock is taken, or asking for it fails.                              *)
Refused(w) ==
    /\ pc[w] = "enter"
    /\ \/ lock[item[w]] # Nobody /\ UNCHANGED faults
       \/ LockFault
    /\ SetStatus(item[w], job[w], "FAILED")
    /\ Goto(w, "finalize")
    /\ UNCHANGED <<itemVars, newest, lock, stray, flag, slots, claiming, item, job, apiVars, bounds>>

(* Any progress of the run, a first or a later one, overwrites the status. *)
Progress(w) ==
    /\ pc[w] \in {"begin", "run"}
    /\ SetStatus(item[w], job[w], "ACTIVE")
    /\ Goto(w, "run")
    /\ UNCHANGED <<itemVars, newest, lockVars, flag, slots, claiming, item, job, apiVars, bounds>>

RunEnds(w, outcome) ==
    /\ SetStatus(item[w], job[w], outcome)
    /\ Goto(w, "release")
    /\ UNCHANGED <<itemVars, newest, lockVars, slots, claiming, item, job, apiVars, bounds>>

RunCompletes(w) == pc[w] = "run" /\ RunEnds(w, "COMPLETED") /\ UNCHANGED flag

RunFails(w) == pc[w] \in {"begin", "run"} /\ RunEnds(w, "FAILED") /\ UNCHANGED flag

RunCancelled(w) ==
    /\ pc[w] = "run" /\ item[w] \in flag
    /\ RunEnds(w, "CANCELLED")
    /\ flag' = flag \ {item[w]}

(* The lease of a live run lapses: nothing renews it for too long, in the  *)
(* tail of the run or because Redis fails.                                 *)
LeaseLapses(w) ==
    /\ pc[w] = "run" /\ lock[item[w]] = w /\ LockFault
    /\ lock' = [lock EXCEPT ![item[w]] = Nobody]
    /\ stray' = stray \cup {item[w]}
    /\ UNCHANGED <<itemVars, status, newest, flag, slotVars, apiVars, bounds>>

(* The lock of this run, if it has one, becomes h.                         *)
LockLeft(w, h) == lock' = [lock EXCEPT ![item[w]] = IF @ = w THEN h ELSE @]

(* A release that fails leaves the lock until it lapses.                   *)
Release(w) ==
    /\ pc[w] = "release"
    /\ \/ LockLeft(w, Nobody) /\ UNCHANGED faults
       \/ LockLeft(w, Dead) /\ LockFault
    /\ Goto(w, "finalize")
    /\ UNCHANGED <<itemVars, status, newest, stray, flag, slots, claiming, item, job, apiVars, bounds>>

SlotOver(w) ==
    /\ Goto(w, "idle")
    /\ item' = [item EXCEPT ![w] = NoItem]
    /\ job' = [job EXCEPT ![w] = NoJob]
    /\ stray' = {i \in stray : \E v \in Worker \ {w} : item[v] = i}

(* _finalize_item looks at the item's job, whichever that is by now.       *)
Finalize(w) ==
    /\ pc[w] = "finalize"
    /\ IF state[item[w]] \in TerminalItem
       THEN UNCHANGED state
       ELSE \E s \in IF JobOutcome(item[w]) = {} THEN {"failed"} ELSE JobOutcome(item[w]) :
                SetState(item[w], s)
    /\ SlotOver(w)
    /\ UNCHANGED <<started, current, claimant, recent, status, newest, lock, faults, flag, slots,
                   claiming, apiVars, bounds>>

-----------------------------------------------------------------------------
(* Crashes                                                                 *)

(* Native code takes the process down; the lock outlives it for a while.   *)
NativeCrash(w) ==
    /\ pc[w] = "run" /\ crashes < MaxCrashes
    /\ crashes' = crashes + 1
    /\ LockLeft(w, Dead)
    /\ Goto(w, "lost")
    /\ UNCHANGED <<itemVars, status, newest, faults, stray, flag, slots, claiming, item, job, apiVars,
                   requests, unsent, kills, lost>>

(* _on_batch_task_failure finds the item by the task id it carries.        *)
TaskFailure(w) ==
    /\ pc[w] = "lost"
    /\ LET i == item[w]
       IN IF claimant[i] # w \/ state[i] \in TerminalItem
          THEN UNCHANGED <<state, status>>
          ELSE /\ SetState(i, "failed")
               /\ IF status[i][current[i]] \in TerminalJob THEN UNCHANGED status
                  ELSE SetStatus(i, current[i], "FAILED")
    /\ SlotOver(w)
    /\ UNCHANGED <<started, current, claimant, recent, newest, lock, faults, flag, slots, claiming,
                   apiVars, bounds>>

Busy == {w \in Worker : pc[w] # "idle"}

SlotsRedelivered(W) == slots' = slots + Cardinality(W)

(* Every slot in execution is redelivered, and no run is told.             *)
ContainerKill ==
    /\ kills < MaxKills /\ Busy # {}
    /\ kills' = kills + 1
    /\ SlotsRedelivered(Busy)
    /\ lock' = [i \in Item |-> IF lock[i] \in Worker THEN Dead ELSE lock[i]]
    /\ claiming' = Nobody
    /\ pc' = [w \in Worker |-> "idle"]
    /\ item' = [w \in Worker |-> NoItem]
    /\ job' = [w \in Worker |-> NoJob]
    /\ stray' = {}
    /\ UNCHANGED <<itemVars, status, newest, faults, flag, apiVars, requests, unsent, crashes, lost>>

LockLapses(i) ==
    /\ lock[i] = Dead
    /\ lock' = [lock EXCEPT ![i] = Nobody]
    /\ UNCHANGED <<itemVars, status, newest, faults, stray, flag, slotVars, apiVars, bounds>>

-----------------------------------------------------------------------------

(* A request that was received is served to its end.                       *)
RequestStep(c) ==
    \/ AddCommits(c) \/ StartCommits(c) \/ SendSlot(c) \/ AllSent(c) \/ RevertCommits(c)
    \/ RetryCommits(c) \/ CancelDrops(c) \/ CancelMarks(c) \/ CancelStops(c) \/ CancelEnds(c)
    \/ PollWrites(c) \/ \E i \in Item : CancelLooks(c, i)

NewRequestStep(c) ==
    \/ StartReads(c) \/ CancelBegins(c)
    \/ \E i \in Item : AddBegins(c, i) \/ RetryBegins(c, i)

(* What the status endpoint does each time the page refreshes.             *)
Poll == \E i \in Item : PollFailsStale(i) \/ \E c \in Client : PollReads(c, i)

(* A claim and a run go on by themselves.                                  *)
SlotStep(w) ==
    \/ TakeSlot(w) \/ ClaimEmpty(w) \/ \E i \in Item : ClaimReads(w, i)
    \/ ClaimNoCapacity(w) \/ ClaimCommits(w) \/ Enter(w) \/ Refused(w) \/ Progress(w)
    \/ RunCompletes(w) \/ RunCancelled(w) \/ Release(w) \/ Finalize(w) \/ TaskFailure(w)

Next ==
    \/ \E c \in Client : RequestStep(c) \/ NewRequestStep(c) \/ SendFails(c)
    \/ \E w \in Worker : SlotStep(w) \/ RunFails(w) \/ NativeCrash(w) \/ LeaseLapses(w)
    \/ \E i \in Item : GraceEnds(i) \/ LockLapses(i)
    \/ Poll \/ ContainerKill

Spec == Init /\ [][Next]_vars

-----------------------------------------------------------------------------
(* Properties                                                              *)

PC == {"idle", "claim", "enter", "begin", "run", "release", "finalize", "lost"}
Op == {"none", "add", "start", "send", "revert", "retry", "cancel", "drop", "mark", "stop",
       "poll"}

(* The states every variable stays in.  Code: the columns of OCRBatch,     *)
(* OCRBatchItem and ProcessingJob, and the Redis keys.                     *)
ItemTypeOK ==
    /\ started \in BOOLEAN /\ state \in [Item -> ItemState]
    /\ current \in [Item -> 0..MaxJobs]
    /\ claimant \in [Item -> Worker \cup {Nobody}] /\ recent \in SUBSET Item

DocTypeOK ==
    /\ status \in [Item -> [Job -> JobStatus]] /\ newest \in [Item -> 0..MaxJobs]
    /\ lock \in [Item -> Worker \cup {Nobody, Dead}] /\ flag \in SUBSET Item
    /\ faults \in Nat /\ stray \in SUBSET Item

SlotTypeOK ==
    /\ slots \in Nat /\ claiming \in Worker \cup {Nobody}
    /\ pc \in [Worker -> PC] /\ item \in [Worker -> Item \cup {NoItem}]
    /\ job \in [Worker -> 0..MaxJobs]

ApiTypeOK ==
    /\ op \in [Client -> Op] /\ on \in [Client -> Item \cup {NoItem}]
    /\ at \in [Client -> 0..MaxJobs] /\ seen \in [Client -> SUBSET (Item \cup TerminalItem)]
    /\ send \in [Client -> 0..Cardinality(Item)]

BoundsTypeOK ==
    /\ requests \in Nat /\ unsent \in Nat /\ crashes \in Nat /\ kills \in Nat
    /\ lost \in Nat

TypeOK == ItemTypeOK /\ DocTypeOK /\ SlotTypeOK /\ ApiTypeOK /\ BoundsTypeOK

AtWork(i) == \E w \in Worker : item[w] = i /\ pc[w] \in {"enter", "begin", "run"}

Running == {i \in Item : AtWork(i) /\ state[i] = "running"}

(* Documents in OCR whose items say so never exceed the host's limit, but  *)
(* for those claimed while the scan for locks failed and those whose run   *)
(* outlived its lease: every such fault lets one file more run, never two. *)
(* Code: claim_next_item, _serialize_claims and CLAIM_GRACE_SECONDS.       *)
RunningWithinLimit == Cardinality(Running \ stray) <= Limit

(* What makes TypeOK inductive: what a request remembers fits its step,    *)
(* and a slot past its claim has an item.                                  *)
RequestInv ==
    \A c \in Client :
        /\ op[c] \in {"add", "retry", "drop", "mark", "stop", "poll"} => on[c] \in Item
        /\ seen[c] \subseteq IF op[c] = "poll" THEN TerminalItem ELSE Item

SlotInv ==
    /\ \A w \in Worker : pc[w] \notin {"idle", "claim"} => item[w] \in Item
    /\ claiming # Nobody => item[claiming] \in Item /\ pc[claiming] = "claim"

(* What makes RunningWithinLimit inductive: whoever runs counts as in use, *)
(* by the grace period or by its lock, and a claim in progress has found   *)
(* room that nobody else can take.                                         *)
LimitInv ==
    /\ RunningWithinLimit
    /\ claiming # Nobody => item[claiming] \in stray \/ Cardinality(Running \ stray) < Limit
    /\ \A w \in Worker : pc[w] = "enter" /\ state[item[w]] = "running" => item[w] \in recent
    /\ \A w \in Worker :
           pc[w] \in {"begin", "run", "release"} => item[w] \in stray \/ lock[item[w]] = w

(* The slots that requests still have to send, one pair for each.          *)
ToSend == {x \in Client \X (1..Cardinality(Item)) : x[2] <= send[x[1]]}

Claimers == {w \in Worker : pc[w] = "claim"}

(* Every queued item has a slot that will look at it: waiting, about to    *)
(* claim, or still to be sent by a request; except for the slots the       *)
(* broker refused.  Code: _enqueue_slots, self.retry and task_acks_late.   *)
QueuedHasSlot ==
    Cardinality(Queued) <= slots + Cardinality(ToSend) + Cardinality(Claimers) + lost

(* What makes it inductive: a claim in progress has its own slot and its   *)
(* own item, the others share the rest; and a request has slots to send    *)
(* only while it sends or takes back.                                      *)
SlotsInv ==
    /\ Cardinality(Waiting)
          <= slots + Cardinality(ToSend) + Cardinality(Claimers \ {claiming}) + lost
    /\ \A c \in Client : op[c] \notin {"send", "revert"} => send[c] = 0

(* "Re-queue one failed/cancelled file" (docs/API.md, retry): a queued     *)
(* file fails only because its own job did.  Code: _finalize_item, which   *)
(* finds another job in the item than the one its run worked for.          *)
FailsForItsOwnJob ==
    [][\A i \in Item : state[i] = "queued" /\ state'[i] = "failed"
                          => status[i][current[i]] = "FAILED"]_vars

-----------------------------------------------------------------------------
(* Liveness                                                                *)

(* Requests are served, workers run, keys and the grace period expire, and *)
(* the page that shows the batch keeps polling.                            *)
Fairness ==
    /\ \A c \in Client : WF_vars(RequestStep(c))
    /\ \A w \in Worker : WF_vars(SlotStep(w))
    /\ \A i \in Item : WF_vars(GraceEnds(i)) /\ WF_vars(LockLapses(i))
                       /\ WF_vars(PollFailsStale(i)) /\ SF_vars(\E c \in Client : PollReads(c, i))

FairSpec == Spec /\ Fairness

(* The state no status check looks at: the slot died after its claim and   *)
(* before the run's first progress update.                                 *)
Unnoticed(i) ==
    state[i] = "running" /\ status[i][current[i]] = "QUEUED" /\ \A w \in Worker : item[w] # i

(* A queued item is run, dropped or taken back, and ends, through crashes, *)
(* kills and lost races, unless it falls into that state.                  *)
QueuedItemSettles ==
    \A i \in Item :
        state[i] = "queued"
            ~> (state[i] \in TerminalItem \cup {"pending"} \/ Unnoticed(i) \/ unsent > 0)
=============================================================================
