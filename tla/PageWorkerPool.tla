--------------------------- MODULE PageWorkerPool ---------------------------
(***************************************************************************)
(* The page worker pool of one pipeline run: the parent that submits the   *)
(* pages, drains the results and replaces recycled workers, the worker     *)
(* processes, and the two queues between them.                             *)
(*                                                                         *)
(* The task queue is FIFO and the shutdown sentinels come after all pages, *)
(* so it is the pages still in it and a number of sentinels behind them.   *)
(* A process puts its results into a buffer of its own that a feeder       *)
(* thread empties into the result queue (billiard's Queue.put).            *)
(***************************************************************************)
EXTENDS Integers, Sequences, FiniteSets, Functions

CONSTANTS
    NumPages,      \* pages submitted
    NumWorkers,    \* num_workers
    MaxPages,      \* max_pages_per_worker
    MaxCrashes,    \* bound: native crashes
    MaxInitFails,  \* bound: OCR engines that do not load
    MaxErrors      \* bound: error results

ASSUME PoolConstantsOK ==
    /\ NumWorkers \in Nat \ {0} /\ NumPages \in Nat /\ NumWorkers <= NumPages
    /\ MaxPages \in Nat \ {0}
    /\ MaxCrashes \in Nat /\ MaxInitFails \in Nat /\ MaxErrors \in Nat

Page == 1..NumPages
Slot == 0..NumWorkers - 1
NoPage == -1
NoWorker == -1

(* An error result carries no worker_name; the one a process sends when    *)
(* its engine does not load carries no page number either.                 *)
Result == [page : Page \cup {NoPage}, worker : Slot \cup {NoWorker}]

VARIABLES
    submitted,  \* pages put into the task queue so far
    tasks,      \* pages in the task queue
    sentinels,  \* shutdown sentinels behind them
    results,    \* the result queue
    outbox,     \* outbox[s]: results the feeder of process s still holds
    child,      \* child[s]: state of the process at slot s
    hand,       \* hand[s]: page it works on
    served,     \* served[s]: its pages_done
    counted,    \* counted[s]: _pages_done_by_worker
    yielded,    \* results handed to the pipeline, in order
    parent,     \* where the parent is
    slot,       \* slot whose process the parent waits for
    reason,     \* why results() ended
    lost,       \* pages that vanished with a process (history)
    faults      \* faults so far

parentVars == <<submitted, counted, yielded, parent, slot, reason>>
childVars == <<child, hand, served, outbox, lost>>
vars == <<parentVars, childVars, tasks, sentinels, results, faults>>

Init ==
    /\ submitted = 0 /\ tasks = <<>> /\ sentinels = 0 /\ results = <<>>
    /\ outbox = [s \in Slot |-> <<>>]
    /\ child = [s \in Slot |-> "loading"]
    /\ hand = [s \in Slot |-> NoPage]
    /\ served = [s \in Slot |-> 0] /\ counted = [s \in Slot |-> 0]
    /\ yielded = <<>>
    /\ parent = "submit" /\ slot = NoWorker /\ reason = "none"
    /\ lost = {}
    /\ faults = [crash |-> 0, init |-> 0, error |-> 0]

Alive(s) == child[s] \in {"loading", "idle", "busy", "leaving"}

PagesOf(q) == {q[i].page : i \in DOMAIN q} \ {NoPage}

(* What disappears when the process at slot s dies.                        *)
HeldBy(s) == ({hand[s]} \ {NoPage}) \cup PagesOf(outbox[s])

(* Variants: slips this code could plausibly have made, used to show that  *)
(* the properties below notice them.  None is part of Next.                *)
AnyStarted == TRUE
AllReceivedOneShort == Len(yielded) >= NumPages - 1
CountKept(s) == counted
TakenPageStays == UNCHANGED tasks
-----------------------------------------------------------------------------
(* Worker processes                                                        *)

LoadEngine(s) ==
    /\ child[s] = "loading"
    /\ child' = [child EXCEPT ![s] = "idle"]
    /\ UNCHANGED <<parentVars, hand, served, outbox, lost, tasks, sentinels, results, faults>>

(* The failure is reported as a result, and the process ends.              *)
EngineFails(s) ==
    /\ child[s] = "loading" /\ faults.init < MaxInitFails
    /\ faults' = [faults EXCEPT !.init = @ + 1]
    /\ outbox' = [outbox EXCEPT ![s] = Append(@, [page |-> NoPage, worker |-> NoWorker])]
    /\ child' = [child EXCEPT ![s] = "leaving"]
    /\ UNCHANGED <<parentVars, hand, served, lost, tasks, sentinels, results>>

HeadTaken == tasks' = Tail(tasks)

TakePage(s) ==
    /\ child[s] = "idle" /\ tasks # <<>>
    /\ HeadTaken
    /\ hand' = [hand EXCEPT ![s] = Head(tasks)]
    /\ child' = [child EXCEPT ![s] = "busy"]
    /\ UNCHANGED <<parentVars, served, outbox, lost, sentinels, results, faults>>

TakeSentinel(s) ==
    /\ child[s] = "idle" /\ tasks = <<>> /\ sentinels > 0
    /\ sentinels' = sentinels - 1
    /\ child' = [child EXCEPT ![s] = "leaving"]
    /\ UNCHANGED <<parentVars, hand, served, outbox, lost, tasks, results, faults>>

Exhausted(n) == n >= MaxPages

(* A page is answered, for better or worse, and counts towards recycling.  *)
Answer(s, who) ==
    /\ child[s] = "busy"
    /\ outbox' = [outbox EXCEPT ![s] = Append(@, [page |-> hand[s], worker |-> who])]
    /\ served' = [served EXCEPT ![s] = @ + 1]
    /\ hand' = [hand EXCEPT ![s] = NoPage]
    /\ child' = [child EXCEPT ![s] = IF Exhausted(served[s] + 1) THEN "leaving" ELSE "idle"]
    /\ UNCHANGED <<parentVars, lost, tasks, sentinels, results>>

FinishPage(s) == Answer(s, s) /\ UNCHANGED faults

PageFails(s) ==
    /\ faults.error < MaxErrors
    /\ faults' = [faults EXCEPT !.error = @ + 1]
    /\ Answer(s, NoWorker)

(* The feeder thread.                                                      *)
Flush(s) ==
    /\ Alive(s) /\ outbox[s] # <<>>
    /\ results' = Append(results, Head(outbox[s]))
    /\ outbox' = [outbox EXCEPT ![s] = Tail(@)]
    /\ UNCHANGED <<parentVars, child, hand, served, lost, tasks, sentinels, faults>>

(* A clean exit waits for the feeder.                                      *)
Exit(s) ==
    /\ child[s] = "leaving" /\ outbox[s] = <<>>
    /\ child' = [child EXCEPT ![s] = "exited"]
    /\ UNCHANGED <<parentVars, hand, served, outbox, lost, tasks, sentinels, results, faults>>

(* Native code takes the process down, and what it holds with it.          *)
Crash(s) ==
    /\ child[s] \in {"loading", "busy"} /\ faults.crash < MaxCrashes
    /\ faults' = [faults EXCEPT !.crash = @ + 1]
    /\ child' = [child EXCEPT ![s] = "dead"]
    /\ lost' = lost \cup HeldBy(s)
    /\ hand' = [hand EXCEPT ![s] = NoPage]
    /\ outbox' = [outbox EXCEPT ![s] = <<>>]
    /\ UNCHANGED <<parentVars, served, tasks, sentinels, results>>

-----------------------------------------------------------------------------
(* The parent: submit() and results()                                      *)

SubmitPage ==
    /\ parent = "submit"
    /\ submitted' = submitted + 1
    /\ tasks' = Append(tasks, submitted + 1)
    /\ parent' = IF submitted + 1 = NumPages THEN "check" ELSE "submit"
    /\ UNCHANGED <<counted, yielded, slot, reason, childVars, sentinels, results, faults>>

AnyAlive == \E s \in Slot : Alive(s)

End(why) ==
    /\ parent' = "close"
    /\ reason' = why

CheckAlive ==
    /\ parent = "check"
    /\ IF AnyAlive THEN parent' = "wait" /\ UNCHANGED reason ELSE End("allDead")
    /\ UNCHANGED <<submitted, counted, yielded, slot, childVars, tasks, sentinels, results, faults>>

(* get(timeout) gives up: back to the liveness check.                      *)
GetTimesOut ==
    /\ parent = "wait" /\ results = <<>>
    /\ parent' = "check"
    /\ UNCHANGED <<submitted, counted, yielded, slot, reason, childVars, tasks, sentinels, results, faults>>

(* received is Len(yielded).                                               *)
GetResult ==
    /\ parent = "wait" /\ results # <<>>
    /\ yielded' = Append(yielded, Head(results))
    /\ results' = Tail(results)
    /\ parent' = "handle"
    /\ UNCHANGED <<submitted, counted, slot, reason, childVars, tasks, sentinels, faults>>

(* The pipeline leaves its loop: it saw the cancel flag, or persisting the *)
(* page raised.  It passes over an error result.                           *)
Abandon ==
    /\ parent = "handle" /\ yielded[Len(yielded)].worker # NoWorker
    /\ End("abandoned")
    /\ UNCHANGED <<submitted, counted, yielded, slot, childVars, tasks, sentinels, results, faults>>

AllReceived == Len(yielded) >= NumPages

Complete ==
    /\ parent = "handle" /\ AllReceived
    /\ End("complete")
    /\ UNCHANGED <<submitted, counted, yielded, slot, childVars, tasks, sentinels, results, faults>>

(* Only a result with a worker_name is counted; the worker's last one      *)
(* makes the parent wait for its process.                                  *)
Count ==
    /\ parent = "handle" /\ ~AllReceived
    /\ LET w == yielded[Len(yielded)].worker
       IN \/ w = NoWorker /\ parent' = "check" /\ UNCHANGED <<counted, slot>>
          \/ /\ w # NoWorker
             /\ counted' = [counted EXCEPT ![w] = @ + 1]
             /\ IF Exhausted(counted[w] + 1)
                THEN parent' = "join" /\ slot' = w
                ELSE parent' = "check" /\ UNCHANGED slot
    /\ UNCHANGED <<submitted, yielded, reason, childVars, tasks, sentinels, results, faults>>

CountReset(s) == [counted EXCEPT ![s] = 0]

(* join(30), terminate() if that was too short, and a new process at the   *)
(* same slot.                                                              *)
Respawn ==
    /\ parent = "join"
    /\ lost' = lost \cup HeldBy(slot)
    /\ counted' = CountReset(slot)
    /\ child' = [child EXCEPT ![slot] = "loading"]
    /\ hand' = [hand EXCEPT ![slot] = NoPage]
    /\ served' = [served EXCEPT ![slot] = 0]
    /\ outbox' = [outbox EXCEPT ![slot] = <<>>]
    /\ parent' = "check" /\ slot' = NoWorker
    /\ UNCHANGED <<submitted, yielded, reason, tasks, sentinels, results, faults>>

-----------------------------------------------------------------------------
(* The parent: shutdown()                                                  *)

SendSentinels ==
    /\ parent = "close"
    /\ sentinels' = NumWorkers
    /\ parent' = "reap"
    /\ UNCHANGED <<submitted, counted, yielded, slot, reason, childVars, tasks, results, faults>>

(* join(5) each, then terminate() whoever is still alive.                  *)
Reap ==
    /\ parent = "reap"
    /\ lost' = lost \cup UNION {HeldBy(s) : s \in {t \in Slot : Alive(t)}}
    /\ child' = [s \in Slot |-> IF Alive(s) THEN "dead" ELSE child[s]]
    /\ hand' = [s \in Slot |-> NoPage]
    /\ outbox' = [s \in Slot |-> <<>>]
    /\ parent' = "ended"
    /\ UNCHANGED <<submitted, counted, yielded, slot, reason, served, tasks, sentinels, results, faults>>

-----------------------------------------------------------------------------

ParentStep ==
    \/ SubmitPage \/ CheckAlive \/ GetTimesOut \/ GetResult
    \/ Complete \/ Count \/ Respawn \/ SendSentinels \/ Reap

ChildStep(s) ==
    \/ LoadEngine(s) \/ TakePage(s) \/ TakeSentinel(s) \/ FinishPage(s)
    \/ Flush(s) \/ Exit(s)

Fault(s) == EngineFails(s) \/ PageFails(s) \/ Crash(s)

Next ==
    \/ ParentStep \/ Abandon
    \/ \E s \in Slot : ChildStep(s) \/ Fault(s)

Spec == Init /\ [][Next]_vars

-----------------------------------------------------------------------------
(* Properties                                                              *)

(* The states every variable stays in.  Code: the fields of PageWorkerPool *)
(* and the locals of _child_main and results().                            *)
TypeOK ==
    /\ submitted \in 0..NumPages /\ tasks \in Seq(Page) /\ sentinels \in 0..NumWorkers
    /\ results \in Seq(Result) /\ yielded \in Seq(Result)
    /\ outbox \in [Slot -> Seq(Result)]
    /\ child \in [Slot -> {"loading", "idle", "busy", "leaving", "exited", "dead"}]
    /\ hand \in [Slot -> Page \cup {NoPage}]
    /\ served \in [Slot -> 0..MaxPages] /\ counted \in [Slot -> 0..MaxPages]
    /\ parent \in {"submit", "check", "wait", "handle", "join", "close", "reap", "ended"}
    /\ slot \in Slot \cup {NoWorker}
    /\ reason \in {"none", "allDead", "abandoned", "complete"}
    /\ lost \in SUBSET Page
    /\ faults \in [{"crash", "init", "error"} -> Nat]

(* Everywhere page p is at the moment.                                     *)
UnsentSpots(p) == {<<"unsent", 0, 0>> : n \in {p} \ 1..submitted}
TaskSpots(p) == {<<"tasks", 0, i>> : i \in {j \in DOMAIN tasks : tasks[j] = p}}
HandSpots(p) == {<<"hand", s, 0>> : s \in {t \in Slot : hand[t] = p}}
OutboxSpots(p) ==
    UNION {{<<"outbox", s, i>> : i \in {j \in DOMAIN outbox[s] : outbox[s][j].page = p}} : s \in Slot}
ResultSpots(p) == {<<"results", 0, i>> : i \in {j \in DOMAIN results : results[j].page = p}}
YieldedSpots(p) == {<<"yielded", 0, i>> : i \in {j \in DOMAIN yielded : yielded[j].page = p}}
LostSpots(p) == {<<"lost", 0, 0>> : n \in {p} \cap lost}

Spots(p) ==
    UnsentSpots(p) \cup TaskSpots(p) \cup HandSpots(p) \cup OutboxSpots(p)
    \cup ResultSpots(p) \cup YieldedSpots(p) \cup LostSpots(p)

(* Every page is in exactly one place at any time: no page is processed    *)
(* twice or forgotten by the queues, recycling and shutdown included.      *)
(* Code: task_q, result_q and the processes between them.                  *)
PagesConserved == \A p \in Page : Cardinality(Spots(p)) = 1

(* The process the parent waits for, and may terminate, has sent all its   *)
(* results and only has to exit: recycling costs no page.  Code: the two   *)
(* separate counters, pages_done and _pages_done_by_worker.                *)
RecycleOnlyExhausted ==
    parent = "join" => child[slot] \in {"leaving", "exited"} /\ HeldBy(slot) = {}

EveryPageYielded == \A p \in Page : \E i \in DOMAIN yielded : yielded[i].page = p

(* When results() counts itself complete, every page was yielded, provided *)
(* no engine failed to load.  Code: received >= expected_count.            *)
CompleteIfEnginesLoad ==
    (reason = "complete" /\ faults.init = 0) => EveryPageYielded

(* The pool is the stream of results the pipeline's page loop relies on.   *)
(* Code: the docstring of results().                                       *)
Stream == INSTANCE PageStream
          WITH given <- yielded,
               ended <- parent \in {"close", "reap", "ended"}

StreamSpec == Stream!Spec

-----------------------------------------------------------------------------
(* Claims of page_worker_pool.py that the code does not keep               *)

(* "A worker that exits cleanly after hitting max_pages_per_worker [...]   *)
(* is replaced with a fresh process" (results()): without a fault the pool *)
(* never runs out of workers.                                              *)
CleanExitIsReplaced ==
    (faults.crash = 0 /\ faults.init = 0 /\ faults.error = 0) => reason # "allDead"

-----------------------------------------------------------------------------
(* Liveness                                                                *)

(* The scheduler runs the parent and every live process; an OCR call       *)
(* returns, or its process dies.  Faults and abandonment are free.         *)
Fairness == WF_vars(ParentStep) /\ \A s \in Slot : WF_vars(ChildStep(s))

FairSpec == Spec /\ Fairness

(* The pool comes to its end, unless a crash took a page with it.          *)
EndsUnlessPageLost == <>(parent = "ended" \/ lost # {})

(* "one page, or even one dead worker, never takes down the whole          *)
(* document" (the module's docstring): the pool always comes to its end.   *)
PoolAlwaysEnds == <>(parent = "ended")
=============================================================================
