----------------------------- MODULE IsolatedOCR ----------------------------
(* The sequential sweep over the pages that the pool did not deliver: an   *)
(* OCR engine in a child process of its own, asked for one page at a time  *)
(* through a pair of queues, and Tesseract in the parent once the child is *)
(* gone.  A request carries a page, an answer carries no page number.      *)
EXTENDS Integers, Sequences, FiniteSets

CONSTANTS
  NumPages,     \* pages to sweep
  MaxFailures   \* bound: pages and Tesseract calls that fail in the parent

ASSUME PagesAssumption == NumPages \in Nat \ {0} /\ MaxFailures \in Nat

Page == 1 .. NumPages
NoPage == 0

VARIABLES
  page,      \* the page the parent works on
  pc,        \* where the parent is
  alive,     \* the parent takes the child for alive
  proc,      \* the child: starting, serving, exiting, dead
  taskQ,     \* pages asked for
  resultQ,   \* answers: ok or error, and the page each was computed from
  working,   \* the page in the child's hands
  words,     \* how the words of each page were obtained
  origin,    \* the page whose image an engine's words come from
  failures,  \* failures in the parent so far
  reported,  \* history: pages whose recognition failed in the child
  initError  \* history: the child reported that its engine did not load

parentVars == <<page, pc, alive, words, origin, failures>>
childVars == <<proc, working, reported, initError>>
vars == <<parentVars, childVars, taskQ, resultQ>>

Answer == [kind : {"ok", "error"}, of : Page \cup {NoPage}]

TypeOK ==
  /\ page \in 1 .. NumPages + 1
  /\ pc \in {"loop", "wait", "check", "fallback", "done"}
  /\ alive \in BOOLEAN
  /\ proc \in {"starting", "serving", "exiting", "dead"}
  /\ taskQ \in Seq(Page) /\ resultQ \in Seq(Answer)
  /\ working \in Page \cup {NoPage}
  /\ words \in [Page -> {"none", "engine", "blank", "tesseract"}]
  /\ origin \in [Page -> Page \cup {NoPage}]
  /\ failures \in 0 .. MaxFailures
  /\ reported \subseteq Page /\ initError \in BOOLEAN

Init ==
  /\ page = 1 /\ pc = "loop" /\ alive = TRUE
  /\ proc = "starting" /\ taskQ = <<>> /\ resultQ = <<>> /\ working = NoPage
  /\ words = [p \in Page |-> "none"] /\ origin = [p \in Page |-> NoPage]
  /\ failures = 0 /\ reported = {} /\ initError = FALSE

(* Mutants: plausible bugs that the runs' properties must detect           *)
KillForgotten == UNCHANGED <<alive, proc>>
EngineFailsKeepsServing ==
  /\ proc = "starting" /\ proc' = "serving"
  /\ resultQ' = Append(resultQ, [kind |-> "error", of |-> NoPage])
  /\ initError' = TRUE
  /\ UNCHANGED <<parentVars, taskQ, working, reported>>
TimeoutLeavesBlank ==
  /\ pc = "wait" /\ pc' = "loop"
  /\ alive' = FALSE /\ proc' = "dead"
  /\ words' = [words EXCEPT ![page] = "blank"] /\ page' = page + 1
  /\ UNCHANGED <<origin, failures, working, reported, initError, taskQ, resultQ>>
WaitForEver == FALSE

-----------------------------------------------------------------------------
(* The child                                                               *)

EngineLoads ==
  /\ proc = "starting" /\ proc' = "serving"
  /\ UNCHANGED <<parentVars, taskQ, resultQ, working, reported, initError>>

(* The failure answers whatever is asked first, and the child ends.        *)
EngineFails ==
  /\ proc = "starting" /\ proc' = "exiting"
  /\ resultQ' = Append(resultQ, [kind |-> "error", of |-> NoPage])
  /\ initError' = TRUE
  /\ UNCHANGED <<parentVars, taskQ, working, reported>>

ChildExits ==
  /\ proc = "exiting" /\ proc' = "dead"
  /\ UNCHANGED <<parentVars, taskQ, resultQ, working, reported, initError>>

TakeTask ==
  /\ proc = "serving" /\ working = NoPage /\ taskQ # <<>>
  /\ working' = Head(taskQ) /\ taskQ' = Tail(taskQ)
  /\ UNCHANGED <<parentVars, proc, resultQ, reported, initError>>

Recognized(kind) ==
  /\ proc = "serving" /\ working # NoPage
  /\ resultQ' = Append(resultQ, [kind |-> kind, of |-> working])
  /\ working' = NoPage
  /\ reported' = IF kind = "error" THEN reported \cup {working} ELSE reported
  /\ UNCHANGED <<parentVars, taskQ, proc, initError>>

(* A native crash takes the page in hand, and maybe an unsent answer.      *)
ChildCrashes ==
  /\ proc \in {"starting", "serving", "exiting"} /\ proc' = "dead"
  /\ working' = NoPage
  /\ resultQ' \in {resultQ, <<>>}
  /\ UNCHANGED <<parentVars, taskQ, reported, initError>>

-----------------------------------------------------------------------------
(* The parent                                                              *)

PutTask(p) == taskQ' = Append(taskQ, p)

AskChild ==
  /\ pc = "loop" /\ page \in Page /\ alive
  /\ PutTask(page)
  /\ pc' = "wait"
  /\ UNCHANGED <<page, alive, words, origin, failures, childVars, resultQ>>

ChildGivenUp ==
  /\ pc = "loop" /\ page \in Page /\ ~alive
  /\ pc' = "fallback"
  /\ UNCHANGED <<page, alive, words, origin, failures, childVars, taskQ, resultQ>>

Persist(how, from) ==
  /\ words' = [words EXCEPT ![page] = how]
  /\ origin' = [origin EXCEPT ![page] = from]
  /\ page' = page + 1
  /\ pc' = "loop"

GetWords ==
  /\ pc = "wait" /\ resultQ # <<>> /\ Head(resultQ).kind = "ok"
  /\ Persist("engine", Head(resultQ).of)
  /\ resultQ' = Tail(resultQ)
  /\ UNCHANGED <<alive, failures, childVars, taskQ>>

GetError ==
  /\ pc = "wait" /\ resultQ # <<>> /\ Head(resultQ).kind = "error"
  /\ pc' = "check"
  /\ resultQ' = Tail(resultQ)
  /\ UNCHANGED <<page, alive, words, origin, failures, childVars, taskQ>>

(* _kill: the child is terminated and never asked again.                   *)
Kill == alive' = FALSE /\ proc' = "dead"

(* No answer in time, whether the child is slow or gone.                   *)
TaskTimeout ==
  /\ pc = "wait"
  /\ Kill
  /\ pc' = "fallback"
  /\ UNCHANGED <<page, words, origin, failures, working, reported, initError, taskQ, resultQ>>

Crashed == proc = "dead"

(* A child that ended after reporting an error is noticed here if it has   *)
(* ended by now.                                                           *)
PollCrashed ==
  /\ pc = "check" /\ Crashed
  /\ Kill
  /\ pc' = "fallback"
  /\ UNCHANGED <<page, words, origin, failures, working, reported, initError, taskQ, resultQ>>

(* An error of a living child: the page is stored without words.           *)
PageWithoutWords ==
  /\ pc = "check" /\ ~Crashed
  /\ Persist("blank", NoPage)
  /\ UNCHANGED <<alive, failures, childVars, taskQ, resultQ>>

Tesseract ==
  /\ pc = "fallback"
  /\ Persist("tesseract", page)
  /\ UNCHANGED <<alive, failures, childVars, taskQ, resultQ>>

TesseractFails ==
  /\ pc = "fallback" /\ failures < MaxFailures
  /\ failures' = failures + 1
  /\ Persist("blank", page)
  /\ UNCHANGED <<alive, childVars, taskQ, resultQ>>

(* Rendering, detection or storing fails: the page is skipped.             *)
PageFails ==
  /\ pc \in {"loop", "fallback"} /\ page \in Page /\ failures < MaxFailures
  /\ failures' = failures + 1
  /\ page' = page + 1 /\ pc' = "loop"
  /\ UNCHANGED <<alive, words, origin, childVars, taskQ, resultQ>>

(* The last page, or a cancellation: the child is asked to end and, after  *)
(* five seconds, made to.                                                  *)
Shutdown ==
  /\ pc = "loop"
  /\ pc' = "done" /\ alive' = FALSE /\ proc' = "dead"
  /\ UNCHANGED <<page, words, origin, failures, working, reported, initError, taskQ, resultQ>>

Parent ==
  \/ AskChild \/ ChildGivenUp \/ GetWords \/ GetError \/ TaskTimeout \/ PollCrashed
  \/ PageWithoutWords \/ Tesseract \/ TesseractFails \/ PageFails
  \/ (page > NumPages /\ Shutdown)

CancelSeen == page \in Page /\ Shutdown

Child ==
  \/ EngineLoads \/ EngineFails \/ ChildExits \/ TakeTask
  \/ Recognized("ok") \/ Recognized("error") \/ ChildCrashes

Next == Parent \/ CancelSeen \/ Child

Spec == Init /\ [][Next]_vars
FairSpec == Spec /\ WF_vars(Parent)

-----------------------------------------------------------------------------
(* An answer that comes late, after a timeout or an earlier error, is      *)
(* never taken for another page's: the engine's words of a page were read  *)
(* from that page.  Only the order of the queues pairs them.               *)
AnswersPairUp == \A p \in Page : words[p] = "engine" => origin[p] = p

(* A page without words had its recognition fail in the child, or in       *)
(* Tesseract, or was the first page to meet an engine that did not load.   *)
BlankHasReason ==
  \A p \in Page : words[p] = "blank" =>
    \/ p \in reported \/ origin[p] = p
    \/ initError /\ \A q \in Page : words[q] # "engine"

(* An engine that does not load costs at most one page its words.          *)
LoadFailureCostsOnePage ==
  initError => Cardinality({p \in Page : words[p] = "blank" /\ origin[p] = NoPage}) <= 1

(* Whatever the child does or fails to do, the sweep comes to its end.     *)
SweepEnds == <>(pc = "done")
=============================================================================
