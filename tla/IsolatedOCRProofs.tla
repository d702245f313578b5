------------------------- MODULE IsolatedOCRProofs -------------------------
(* Proofs about IsolatedOCR, for any number of pages and failures: the     *)
(* types, that answers belong to the pages they are taken for, and why a   *)
(* page is left without words.                                             *)
EXTENDS IsolatedOCR, FiniteSetTheorems, TLAPS

(* Where the parent is, against the child it has.                          *)
ParentInv ==
  /\ pc \in {"wait", "check"} => alive
  /\ pc \in {"wait", "check", "fallback"} => page \in Page
  /\ pc = "fallback" => ~alive
  /\ ~alive => proc = "dead"

(* While the parent believes in a serving child, the page it waits for is  *)
(* in exactly one place, and nothing else is under way.  This is what      *)
(* pairs answers with pages; a child that does not serve answers at most   *)
(* once more.                                                              *)
Idle == taskQ = <<>> /\ working = NoPage /\ resultQ = <<>>
Asked ==
  \/ taskQ = <<page>> /\ working = NoPage /\ resultQ = <<>>
  \/ taskQ = <<>> /\ working = page /\ resultQ = <<>>
  \/ taskQ = <<>> /\ working = NoPage /\ resultQ # <<>>
OneAnswer ==
  resultQ # <<>> =>
    \E a \in Answer : /\ resultQ = <<a>>
                      /\ a.kind = "ok" => pc = "wait" /\ a.of = page
QueueInv ==
  alive =>
    /\ OneAnswer
    /\ proc = "serving" => IF pc = "wait" THEN Asked ELSE Idle
    /\ proc = "starting" => /\ working = NoPage /\ resultQ = <<>> /\ pc # "check"
                            /\ taskQ = IF pc = "wait" THEN <<page>> ELSE <<>>

(* Where errors come from.  The one about the engine is answered before    *)
(* any page was recognized, and taken once.                                *)
Answered == resultQ # <<>>
Wordless == {p \in Page : words[p] = "blank" /\ origin[p] = NoPage}
ErrorInv ==
  /\ proc = "starting" => ~initError /\ Wordless = {} /\ \A p \in Page : words[p] = "none"
  /\ initError => /\ proc \in {"exiting", "dead"}
                  /\ \A p \in Page : words[p] # "engine"
                  /\ Answered => Head(resultQ).kind = "error"
  /\ alive /\ Answered /\ Head(resultQ).kind = "error" => initError \/ (pc = "wait" /\ page \in reported)
  /\ pc = "check" => ~Answered /\ (page \in reported \/ initError)

OneBlank ==
  /\ initError /\ (Answered \/ pc = "check") => Wordless = {}
  /\ initError => \E p \in Page : Wordless \subseteq {p}

-----------------------------------------------------------------------------
(* What Tail and Append do to the queues, which hold one element at most.  *)
LEMMA Single ==
  ASSUME NEW S, NEW a \in S
  PROVE /\ Append(<<>>, a) = <<a>>
        /\ Head(<<a>>) = a
        /\ Tail(<<a>>) = <<>>
        /\ <<a>> # <<>>
OBVIOUS

LEMMA Pages ==
  /\ Page \subseteq Nat /\ NoPage \notin Page /\ 1 \in Page
  /\ \A p \in Page : p + 1 \in 1 .. NumPages + 1
  /\ \A p \in 1 .. NumPages + 1 : p \in Page \/ p = NumPages + 1
BY PagesAssumption DEF Page, NoPage

LEMMA Queues ==
  /\ <<>> \in Seq(Answer) /\ <<>> \in Seq(Page)
  /\ \A kind \in {"ok", "error"}, p \in Page \cup {NoPage} :
       /\ [kind |-> kind, of |-> p] \in Answer
       /\ \A q \in Seq(Answer) : Append(q, [kind |-> kind, of |-> p]) \in Seq(Answer)
<1>1. <<>> \in Seq(Answer) /\ <<>> \in Seq(Page)
  OBVIOUS
<1>2. \A kind \in {"ok", "error"}, p \in Page \cup {NoPage} : [kind |-> kind, of |-> p] \in Answer
  BY DEF Answer
<1>3. \A a \in Answer, q \in Seq(Answer) : Append(q, a) \in Seq(Answer)
  OBVIOUS
<1> QED BY <1>1, <1>2, <1>3

Typed == TypeOK /\ ParentInv

LEMMA PersistType ==
  ASSUME Typed, page \in Page, pc \in {"wait", "check", "fallback"},
         NEW how \in {"engine", "blank", "tesseract"}, NEW from \in Page \cup {NoPage},
         Persist(how, from)
  PROVE /\ page' \in 1 .. NumPages + 1 /\ pc' = "loop"
        /\ words' \in [Page -> {"none", "engine", "blank", "tesseract"}]
        /\ origin' \in [Page -> Page \cup {NoPage}]
BY Pages DEF Typed, TypeOK, Persist

LEMMA TypesKept == Typed /\ [Next]_vars => Typed'
<1> SUFFICES ASSUME Typed, [Next]_vars PROVE Typed'
  OBVIOUS
<1> USE DEF Typed, TypeOK, ParentInv
<1>1. CASE Child
  <2>1. CASE EngineLoads \/ EngineFails \/ ChildExits
    BY <2>1, Queues DEF EngineLoads, EngineFails, ChildExits, parentVars
  <2>2. CASE TakeTask
    BY <2>2 DEF TakeTask, parentVars
  <2>3. ASSUME NEW kind \in {"ok", "error"}, Recognized(kind) PROVE Typed'
    BY <2>3, Queues DEF Recognized, parentVars
  <2>4. CASE ChildCrashes
    BY <2>4, Queues DEF ChildCrashes, parentVars
  <2> QED BY <1>1, <2>1, <2>2, <2>3, <2>4 DEF Child
<1>2. CASE AskChild
  BY <1>2 DEF AskChild, PutTask, childVars
<1>3. CASE ChildGivenUp
  BY <1>3 DEF ChildGivenUp, childVars
<1>4. CASE GetWords
  <2>1. Head(resultQ) \in Answer /\ Tail(resultQ) \in Seq(Answer)
    BY <1>4 DEF GetWords
  <2> QED BY <1>4, <2>1, PersistType DEF GetWords, childVars, Answer
<1>5. CASE GetError
  BY <1>5 DEF GetError, childVars
<1>6. CASE TaskTimeout \/ PollCrashed
  BY <1>6 DEF TaskTimeout, PollCrashed, Kill
<1>7. CASE PageWithoutWords
  BY <1>7, PersistType DEF PageWithoutWords, childVars
<1>8. CASE Tesseract
  BY <1>8, PersistType DEF Tesseract, childVars
<1>9. CASE TesseractFails
  <2>1. failures' \in 0 .. MaxFailures
    BY <1>9, PagesAssumption DEF TesseractFails
  <2> QED BY <1>9, <2>1, PersistType DEF TesseractFails, childVars
<1>10. CASE PageFails
  <2>1. failures' \in 0 .. MaxFailures /\ page' \in 1 .. NumPages + 1
    BY <1>10, PagesAssumption, Pages DEF PageFails
  <2> QED BY <1>10, <2>1 DEF PageFails, childVars
<1>11. CASE Shutdown
  BY <1>11 DEF Shutdown
<1>12. CASE UNCHANGED vars
  BY <1>12 DEF vars, parentVars, childVars
<1> QED
  BY <1>1, <1>2, <1>3, <1>4, <1>5, <1>6, <1>7, <1>8, <1>9, <1>10, <1>11, <1>12
  DEF Next, Parent, CancelSeen

LEMMA InitTyped == Init => Typed
<1>1. 1 \in 1 .. NumPages + 1 /\ 0 \in 0 .. MaxFailures
  BY PagesAssumption
<1>2. /\ [p \in Page |-> "none"] \in [Page -> {"none", "engine", "blank", "tesseract"}]
      /\ [p \in Page |-> NoPage] \in [Page -> Page \cup {NoPage}]
  OBVIOUS
<1> QED BY <1>1, <1>2, Queues DEF Init, Typed, TypeOK, ParentInv

(* Every variable keeps its type, for any number of pages and failures.    *)
THEOREM TypeCorrect == Spec => []TypeOK
<1>1. Typed => TypeOK
  BY DEF Typed
<1> QED BY <1>1, InitTyped, TypesKept, PTL DEF Spec

-----------------------------------------------------------------------------
(* Answers and pages                                                       *)

IInv == Typed /\ QueueInv /\ ErrorInv /\ OneBlank /\ AnswersPairUp /\ BlankHasReason

LEMMA QueueKept == Typed /\ QueueInv /\ [Next]_vars => QueueInv'
<1> SUFFICES ASSUME Typed, QueueInv, [Next]_vars PROVE QueueInv'
  OBVIOUS
<1>0. /\ resultQ \in Seq(Answer) /\ taskQ \in Seq(Page) /\ working \in Page \cup {NoPage}
      /\ page \in 1 .. NumPages + 1 /\ alive \in BOOLEAN /\ ParentInv
  BY DEF Typed, TypeOK
<1> USE <1>0 DEF QueueInv, OneAnswer, Asked, Idle
<1>1. CASE EngineLoads
  BY <1>1 DEF EngineLoads, parentVars
<1>2. CASE EngineFails
  BY <1>2, Queues, Single, Pages DEF EngineFails, parentVars
<1>3. CASE ChildExits
  BY <1>3 DEF ChildExits, parentVars
<1>4. CASE TakeTask
  BY <1>4, Single DEF TakeTask, parentVars
<1>5. ASSUME NEW kind \in {"ok", "error"}, Recognized(kind) PROVE QueueInv'
  <2>1. CASE ~alive
    BY <1>5, <2>1 DEF Recognized, parentVars
  <2>2. CASE alive
    <3>1. pc = "wait" /\ working = page /\ resultQ = <<>> /\ taskQ = <<>>
      BY <1>5, <2>2 DEF Recognized
    <3>2. resultQ' = <<[kind |-> kind, of |-> page]>>
      BY <1>5, <3>1 DEF Recognized
    <3>3. [kind |-> kind, of |-> page] \in Answer
      BY <3>1, <1>5, Queues DEF Recognized
    <3> QED BY <1>5, <3>1, <3>2, <3>3, Single DEF Recognized, parentVars
  <2> QED BY <2>1, <2>2
<1>6. CASE ChildCrashes
  BY <1>6 DEF ChildCrashes, parentVars
<1>7. CASE AskChild
  <2>1. Append(<<>>, page) = <<page>>
    BY <1>7, Single DEF AskChild
  <2> QED BY <1>7, <2>1 DEF AskChild, PutTask, childVars
<1>8. CASE ChildGivenUp
  BY <1>8 DEF ChildGivenUp, childVars
<1>9. CASE GetWords
  BY <1>9, Single DEF GetWords, Persist, childVars, ParentInv
<1>10. CASE GetError
  BY <1>10, Single DEF GetError, childVars, ParentInv
<1>11. CASE TaskTimeout \/ PollCrashed
  BY <1>11 DEF TaskTimeout, PollCrashed, Kill
<1>12. CASE PageWithoutWords
  BY <1>12 DEF PageWithoutWords, Persist, childVars
<1>13. CASE Tesseract \/ TesseractFails
  BY <1>13 DEF Tesseract, TesseractFails, Persist, childVars
<1>14. CASE PageFails
  BY <1>14 DEF PageFails, childVars
<1>15. CASE Shutdown
  BY <1>15 DEF Shutdown
<1>16. CASE UNCHANGED vars
  BY <1>16 DEF vars, parentVars, childVars
<1> QED
  BY <1>1, <1>2, <1>3, <1>4, <1>5, <1>6, <1>7, <1>8, <1>9, <1>10, <1>11, <1>12, <1>13, <1>14,
     <1>15, <1>16 DEF Next, Parent, CancelSeen, Child

LEMMA ErrorKept == Typed /\ QueueInv /\ ErrorInv /\ [Next]_vars => ErrorInv'
<1> SUFFICES ASSUME Typed, QueueInv, ErrorInv, [Next]_vars PROVE ErrorInv'
  OBVIOUS
<1>0. /\ resultQ \in Seq(Answer) /\ working \in Page \cup {NoPage}
      /\ words \in [Page -> {"none", "engine", "blank", "tesseract"}]
      /\ origin \in [Page -> Page \cup {NoPage}] /\ reported \subseteq Page
      /\ alive \in BOOLEAN /\ ParentInv
  BY DEF Typed, TypeOK
<1> USE <1>0 DEF ErrorInv, Answered
<1>1. CASE EngineLoads
  BY <1>1 DEF EngineLoads, parentVars, Wordless
<1>2. CASE EngineFails
  <2>1. alive /\ resultQ = <<>> /\ pc # "check"
    BY <1>2 DEF EngineFails, QueueInv, ParentInv
  <2>2. resultQ' = <<[kind |-> "error", of |-> NoPage]>> /\ Head(resultQ') = [kind |-> "error", of |-> NoPage]
    BY <1>2, <2>1, Queues, Single DEF EngineFails
  <2> QED BY <1>2, <2>1, <2>2 DEF EngineFails, parentVars
<1>3. CASE ChildExits
  BY <1>3 DEF ChildExits, parentVars
<1>4. CASE TakeTask
  BY <1>4 DEF TakeTask, parentVars
<1>5. ASSUME NEW kind \in {"ok", "error"}, Recognized(kind) PROVE ErrorInv'
  <2>1. pc # "check" /\ ~initError
    BY <1>5 DEF Recognized, QueueInv, Idle, ParentInv
  <2>2. CASE alive
    <3>1. pc = "wait" /\ working = page /\ resultQ = <<>>
      BY <1>5, <2>2 DEF Recognized, QueueInv, Asked, Idle
    <3>2. resultQ' = <<[kind |-> kind, of |-> page]>> /\ Head(resultQ') = [kind |-> kind, of |-> page]
      BY <1>5, <3>1, Queues, Single DEF Recognized
    <3>3. kind = "error" => page \in reported'
      BY <1>5, <3>1 DEF Recognized
    <3> QED BY <1>5, <2>1, <3>1, <3>2, <3>3 DEF Recognized, parentVars
  <2> QED BY <1>5, <2>1, <2>2 DEF Recognized, parentVars
<1>6. CASE ChildCrashes
  BY <1>6 DEF ChildCrashes, parentVars
<1>7. CASE AskChild
  BY <1>7 DEF AskChild, childVars, Wordless, QueueInv, Idle, OneAnswer
<1>8. CASE ChildGivenUp
  BY <1>8 DEF ChildGivenUp, childVars, Wordless
<1>9. CASE GetWords
  BY <1>9, Single DEF GetWords, Persist, childVars, QueueInv, OneAnswer, ParentInv
<1>10. CASE GetError
  BY <1>10, Single DEF GetError, childVars, QueueInv, OneAnswer, ParentInv
<1>11. CASE TaskTimeout \/ PollCrashed
  BY <1>11 DEF TaskTimeout, PollCrashed, Kill
<1>12. CASE PageWithoutWords
  BY <1>12 DEF PageWithoutWords, Persist, childVars, QueueInv, ParentInv
<1>13. CASE Tesseract \/ TesseractFails
  BY <1>13 DEF Tesseract, TesseractFails, Persist, childVars, QueueInv, ParentInv
<1>14. CASE PageFails
  BY <1>14 DEF PageFails, childVars, Wordless
<1>15. CASE Shutdown
  BY <1>15 DEF Shutdown
<1>16. CASE UNCHANGED vars
  BY <1>16 DEF vars, parentVars, childVars, Wordless
<1> QED
  BY <1>1, <1>2, <1>3, <1>4, <1>5, <1>6, <1>7, <1>8, <1>9, <1>10, <1>11, <1>12, <1>13, <1>14,
     <1>15, <1>16 DEF Next, Parent, CancelSeen, Child

(* How the words of a page are obtained.                                   *)
LEMMA WordsKept ==
  Typed /\ QueueInv /\ ErrorInv /\ [Next]_vars =>
    /\ AnswersPairUp => AnswersPairUp'
    /\ BlankHasReason => BlankHasReason'
    /\ OneBlank => OneBlank'
<1> SUFFICES ASSUME Typed, QueueInv, ErrorInv, [Next]_vars
             PROVE /\ AnswersPairUp => AnswersPairUp'
                   /\ BlankHasReason => BlankHasReason'
                   /\ OneBlank => OneBlank'
  OBVIOUS
<1>0. /\ page \in 1 .. NumPages + 1
      /\ words \in [Page -> {"none", "engine", "blank", "tesseract"}]
      /\ origin \in [Page -> Page \cup {NoPage}] /\ ParentInv
  BY DEF Typed, TypeOK
<1> USE <1>0 DEF AnswersPairUp, BlankHasReason, OneBlank, Wordless
<1>1. CASE EngineLoads \/ ChildExits \/ TakeTask \/ ChildCrashes
  BY <1>1 DEF EngineLoads, ChildExits, TakeTask, ChildCrashes, parentVars, Answered
<1>2. CASE EngineFails
  BY <1>2, Pages DEF EngineFails, parentVars, ErrorInv
<1>3. ASSUME NEW kind \in {"ok", "error"}, Recognized(kind)
      PROVE /\ AnswersPairUp => AnswersPairUp'
            /\ BlankHasReason => BlankHasReason'
            /\ OneBlank => OneBlank'
  BY <1>3 DEF Recognized, parentVars, ErrorInv
<1>4. CASE AskChild \/ ChildGivenUp \/ GetError
  BY <1>4 DEF AskChild, ChildGivenUp, GetError, childVars, Answered
<1>5. CASE GetWords
  <2>1. Head(resultQ).of = page /\ ~initError
    BY <1>5, Single DEF GetWords, QueueInv, OneAnswer, ErrorInv, Answered, ParentInv
  <2> QED BY <1>5, <2>1, Pages DEF GetWords, Persist, childVars, ParentInv
<1>6. CASE TaskTimeout \/ PollCrashed \/ Shutdown
  BY <1>6 DEF TaskTimeout, PollCrashed, Shutdown, Kill, Answered
<1>7. CASE PageWithoutWords
  <2>1. page \in Page /\ (page \in reported \/ initError) /\ resultQ = <<>>
    BY <1>7 DEF PageWithoutWords, ErrorInv, Answered, ParentInv
  <2>2. initError => Wordless' \subseteq {page} \cup Wordless
    BY <1>7, <2>1 DEF PageWithoutWords, Persist
  <2> QED BY <1>7, <2>1, <2>2 DEF PageWithoutWords, Persist, childVars, ErrorInv, Answered
<1>8. CASE Tesseract \/ TesseractFails
  <2>1. page \in Page /\ page # NoPage
    BY <1>8, Pages DEF Tesseract, TesseractFails, ParentInv
  <2>2. Wordless' \subseteq Wordless
    BY <1>8, <2>1 DEF Tesseract, TesseractFails, Persist
  <2> QED BY <1>8, <2>1, <2>2 DEF Tesseract, TesseractFails, Persist, childVars, Answered
<1>9. CASE PageFails
  BY <1>9 DEF PageFails, childVars, Answered
<1>10. CASE UNCHANGED vars
  BY <1>10 DEF vars, parentVars, childVars, Answered
<1> QED
  BY <1>1, <1>2, <1>3, <1>4, <1>5, <1>6, <1>7, <1>8, <1>9, <1>10
  DEF Next, Parent, CancelSeen, Child

LEMMA Invariant == Spec => []IInv
<1>1. ASSUME Init PROVE IInv
  <2>1. Typed
    BY <1>1, InitTyped
  <2>2. QueueInv /\ ErrorInv /\ OneBlank /\ AnswersPairUp /\ BlankHasReason
    BY <1>1, Pages DEF Init, QueueInv, OneAnswer, ErrorInv, OneBlank, Wordless, Answered,
       AnswersPairUp, BlankHasReason
  <2> QED BY <2>1, <2>2 DEF IInv
<1>2. IInv /\ [Next]_vars => IInv'
  BY TypesKept, QueueKept, ErrorKept, WordsKept DEF IInv
<1> QED BY <1>1, <1>2, PTL DEF Spec

(* The engine's words of a page were read from that page's image, however  *)
(* the child crashes, hangs or fails, although answers carry no page.      *)
THEOREM AnswersArePaired == Spec => []AnswersPairUp
<1>1. IInv => AnswersPairUp
  BY DEF IInv
<1> QED BY <1>1, Invariant, PTL

(* No page is left without words but for a failed recognition.             *)
THEOREM BlanksHaveReasons == Spec => []BlankHasReason
<1>1. IInv => BlankHasReason
  BY DEF IInv
<1> QED BY <1>1, Invariant, PTL

(* An engine that does not load costs at most one page its words.          *)
THEOREM OnePageLost == Spec => []LoadFailureCostsOnePage
<1>1. IInv => LoadFailureCostsOnePage
  <2> SUFFICES ASSUME IInv, initError PROVE Cardinality(Wordless) <= 1
    BY DEF LoadFailureCostsOnePage, Wordless
  <2>1. PICK p \in Page : Wordless \subseteq {p}
    BY DEF IInv, OneBlank
  <2>2. Wordless = {} \/ Wordless = {p}
    BY <2>1
  <2>3. Cardinality({}) = 0 /\ Cardinality({p}) = 1
    BY FS_EmptySet, FS_Singleton
  <2> QED BY <2>2, <2>3
<1> QED BY <1>1, Invariant, PTL
=============================================================================
