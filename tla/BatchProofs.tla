---------------------------- MODULE BatchProofs ----------------------------
(***************************************************************************)
(* Proofs about Batch, for any files, workers and requests: the types, and *)
(* that claims keep the number of running files within the host's limit.   *)
(* At the end, theorems about Sizing, which chooses that limit and the     *)
(* next file: for every host, every setting and every queue.               *)
(***************************************************************************)
EXTENDS Batch, Sizing, FiniteSetTheorems, TLAPS

SlotPart == SlotTypeOK /\ SlotInv
ApiPart == ApiTypeOK /\ RequestInv
Typed == ItemTypeOK /\ DocTypeOK /\ SlotPart /\ ApiPart /\ BoundsTypeOK

(* Sets of files and of workers are finite, so what is counted is a number. *)
LEMMA Counted ==
    /\ \A S \in SUBSET Item : IsFiniteSet(S) /\ Cardinality(S) \in Nat
    /\ \A S \in SUBSET Worker : IsFiniteSet(S) /\ Cardinality(S) \in Nat
BY FiniteOK, FS_Subset, FS_CardinalityType

(* One more element adds at most one to a finite set's size.                *)
LEMMA OneMore ==
    ASSUME NEW S, NEW x, IsFiniteSet(S)
    PROVE  IsFiniteSet(S \cup {x}) /\ Cardinality(S \cup {x}) <= Cardinality(S) + 1
<1>1. Cardinality(S) \in Nat
  BY FS_CardinalityType
<1>2. /\ IsFiniteSet(S \cup {x})
      /\ Cardinality(S \cup {x}) = IF x \in S THEN Cardinality(S) ELSE Cardinality(S) + 1
  BY FS_AddElement
<1> QED
  BY <1>1, <1>2

(* How many slots a request may have to send, and what is left of it.      *)
LEMMA SendTypes ==
    ASSUME ApiTypeOK, NEW c \in Client
    PROVE  /\ Cardinality(Item) \in Nat /\ send[c] \in 0..Cardinality(Item)
           /\ [send EXCEPT ![c] = 0] \in [Client -> 0..Cardinality(Item)]
           /\ send[c] > 0 => [send EXCEPT ![c] = @ - 1] \in [Client -> 0..Cardinality(Item)]
           /\ \A S \in SUBSET Item :
                  [send EXCEPT ![c] = Cardinality(S)] \in [Client -> 0..Cardinality(Item)]
           /\ \A i \in Item : [send EXCEPT ![c] = 1] \in [Client -> 0..Cardinality(Item)]
<1>1. \A S \in SUBSET Item : Cardinality(S) \in 0..Cardinality(Item)
  BY FiniteOK, FS_Subset, FS_CardinalityType
<1>2. \A i \in Item : 1 \in 0..Cardinality(Item)
  <2> TAKE i \in Item
  <2>1. {i} \in SUBSET Item /\ Cardinality({i}) = 1
    BY FS_Singleton
  <2> QED
    BY <1>1, <2>1
<1>3. Cardinality(Item) \in Nat
  BY FiniteOK, FS_CardinalityType
<1> QED
  BY <1>1, <1>2, <1>3 DEF ApiTypeOK

(* A finished job maps to a terminal item state.                           *)
LEMMA OutcomeType ==
    ASSUME NEW i \in Item
    PROVE  JobOutcome(i) \subseteq TerminalItem
BY DEF JobOutcome, Mapped, TerminalJob, TerminalItem

-----------------------------------------------------------------------------
(* Types                                                                   *)

(* What a step leaves alone keeps its type.                                *)
LEMMA Frame ==
    ASSUME Typed
    PROVE  /\ UNCHANGED itemVars => ItemTypeOK'
           /\ UNCHANGED docVars => DocTypeOK'
           /\ UNCHANGED slotVars => SlotPart'
           /\ UNCHANGED apiVars => ApiPart'
           /\ UNCHANGED bounds => BoundsTypeOK'
BY DEF Typed, ItemTypeOK, DocTypeOK, SlotPart, SlotTypeOK, SlotInv, ApiPart, ApiTypeOK,
   RequestInv, BoundsTypeOK, itemVars, docVars, lockVars, slotVars, apiVars, bounds

LEMMA SetStateType ==
    ASSUME ItemTypeOK, NEW i, NEW s \in ItemState, SetState(i, s),
           UNCHANGED <<started, current, claimant, recent>>
    PROVE  ItemTypeOK'
BY DEF ItemTypeOK, SetState

LEMMA SetStatusType ==
    ASSUME DocTypeOK, NEW i, NEW k, NEW s \in JobStatus, SetStatus(i, k, s),
           UNCHANGED <<newest, lock>>, flag' \in SUBSET Item,
           faults' \in Nat, stray' \in SUBSET Item
    PROVE  DocTypeOK'
BY DEF DocTypeOK, SetStatus

LEMMA RequestType ==
    ASSUME ApiPart, NEW c \in Client, NEW o \in Op, NEW i \in Item \cup {NoItem},
           NEW k \in 0..MaxJobs, NEW S, Request(c, o, i, k, S),
           S \subseteq IF o = "poll" THEN TerminalItem ELSE Item,
           o \in {"add", "retry", "drop", "mark", "stop", "poll"} => i \in Item,
           send' \in [Client -> 0..Cardinality(Item)]
    PROVE  ApiPart'
<1>1. ApiTypeOK'
  BY DEF ApiPart, ApiTypeOK, Request
<1>2. RequestInv'
  BY DEF ApiPart, ApiTypeOK, RequestInv, Request
<1> QED
  BY <1>1, <1>2 DEF ApiPart

(* A request about the whole batch, and the end of any request.            *)
LEMMA BatchRequestType ==
    ASSUME ApiPart, NEW c \in Client, NEW o \in {"none", "start", "send", "revert", "cancel"},
           NEW S \in SUBSET Item, Request(c, o, NoItem, NoJob, S),
           send' \in [Client -> 0..Cardinality(Item)]
    PROVE  ApiPart'
BY RequestType, BatchConstantsOK DEF Op, NoJob

LEMMA DoneType ==
    ASSUME ApiPart, NEW c \in Client, Done(c), send' \in [Client -> 0..Cardinality(Item)]
    PROVE  ApiPart'
BY BatchRequestType DEF Done

LEMMA GotoType ==
    ASSUME SlotPart, NEW w \in Worker, NEW l \in PC, Goto(w, l), claiming # w,
           l \notin {"idle", "claim"} => item[w] \in Item,
           slots' \in Nat, UNCHANGED <<claiming, item, job>>
    PROVE  SlotPart'
BY DEF SlotPart, SlotTypeOK, SlotInv, Goto

(* Requests: what they remember always fits the step they are at.          *)
LEMMA ApiStepType ==
    ASSUME Typed, NEW c \in Client, RequestStep(c) \/ NewRequestStep(c) \/ SendFails(c)
    PROVE  Typed'
<1> USE Frame, BatchConstantsOK DEF Typed, Op, ItemState, TerminalItem, JobStatus, TerminalJob,
        Job, NoJob
<1> USE DEF itemVars, docVars, lockVars, slotVars, apiVars, bounds
<1>0. ApiTypeOK /\ RequestInv /\ ItemTypeOK /\ DocTypeOK /\ BoundsTypeOK
  BY DEF ApiPart
<1>1. ASSUME NEW i \in Item, AddBegins(c, i)  PROVE Typed'
  BY <1>0, <1>1, RequestType DEF AddBegins, ApiTypeOK
<1>2. CASE AddCommits(c)
  <2>1. ItemTypeOK'
    BY <1>0, <1>2 DEF AddCommits, ItemTypeOK, SetState
  <2>2. DocTypeOK'
    BY <1>0, <1>2 DEF AddCommits, DocTypeOK, SetStatus
  <2>3. ApiPart'
    BY <1>0, <1>2, DoneType DEF AddCommits, ApiTypeOK
  <2> QED
    BY <1>2, <2>1, <2>2, <2>3 DEF AddCommits
<1>3. CASE StartReads(c)
  <2>1. ApiPart'
    BY <1>0, <1>3, BatchRequestType DEF StartReads, ApiTypeOK
  <2>2. BoundsTypeOK'
    BY <1>0, <1>3 DEF StartReads, NewRequest, BoundsTypeOK
  <2> QED
    BY <1>3, <2>1, <2>2 DEF StartReads
<1>4. CASE StartCommits(c)
  <2>1. ItemTypeOK'
    BY <1>0, <1>4 DEF StartCommits, ItemTypeOK
  <2>2. seen[c] \subseteq Item
    BY <1>0, <1>4 DEF StartCommits, RequestInv
  <2>3. send' \in [Client -> 0..Cardinality(Item)]
    BY <1>0, <1>4, <2>2, SendTypes DEF StartCommits, SlotsFor
  <2>4. ApiPart'
    BY <1>4, <2>2, <2>3, BatchRequestType DEF StartCommits
  <2> QED
    BY <1>4, <2>1, <2>4 DEF StartCommits
<1>5. CASE SendSlot(c)
  <2>1. SlotPart'
    BY <1>5 DEF SendSlot, SlotPart, SlotTypeOK, SlotInv
  <2>2. send' \in [Client -> 0..Cardinality(Item)]
    BY <1>0, <1>5, SendTypes DEF SendSlot
  <2>3. ApiPart'
    BY <1>5, <2>2 DEF SendSlot, ApiPart, ApiTypeOK, RequestInv
  <2> QED
    BY <1>5, <2>1, <2>3 DEF SendSlot
<1>6. CASE AllSent(c)
  BY <1>0, <1>6, DoneType DEF AllSent, ApiTypeOK
<1>7. CASE SendFails(c)
  <2>1. send' \in [Client -> 0..Cardinality(Item)]
    BY <1>0, <1>7, SendTypes DEF SendFails, ApiTypeOK
  <2>2. ApiPart'
    BY <1>7, <2>1, BatchRequestType, DoneType DEF SendFails, Queued
  <2>3. BoundsTypeOK'
    BY <1>0, <1>7, SendTypes DEF SendFails, BoundsTypeOK
  <2> QED
    BY <1>7, <2>2, <2>3 DEF SendFails
<1>8. CASE RevertCommits(c)
  <2>1. ItemTypeOK'
    BY <1>0, <1>8 DEF RevertCommits, ItemTypeOK
  <2>2. send' \in [Client -> 0..Cardinality(Item)]
    BY <1>0, <1>8, SendTypes DEF RevertCommits
  <2>3. ApiPart'
    BY <1>8, <2>2, DoneType DEF RevertCommits
  <2>4. BoundsTypeOK'
    <3>1. Cardinality(seen[c] \cap Waiting) \in Nat
      BY Counted DEF Waiting, Queued
    <3>2. lost' \in Nat
      BY <1>0, <1>8, <3>1, SendTypes DEF RevertCommits, Beyond, BoundsTypeOK
    <3> QED
      BY <1>0, <1>8, <3>2 DEF RevertCommits, BoundsTypeOK
  <2> QED
    BY <1>8, <2>1, <2>3, <2>4 DEF RevertCommits
<1>9. ASSUME NEW i \in Item, RetryBegins(c, i)  PROVE Typed'
  <2>1. newest[i] + 1 \in 1..MaxJobs
    BY <1>0, <1>9 DEF RetryBegins, DocTypeOK
  <2>2. DocTypeOK'
    BY <1>0, <1>9, <2>1 DEF RetryBegins, DocTypeOK, SetStatus
  <2>3. ApiPart'
    BY <1>0, <1>9, <2>1, RequestType DEF RetryBegins, ApiTypeOK
  <2>4. BoundsTypeOK'
    BY <1>0, <1>9 DEF RetryBegins, NewRequest, BoundsTypeOK
  <2> QED
    BY <1>9, <2>2, <2>3, <2>4 DEF RetryBegins
<1>10. CASE RetryCommits(c)
  <2>1. ItemTypeOK'
    BY <1>0, <1>10 DEF RetryCommits, ItemTypeOK, SetState, ApiTypeOK
  <2>2. send' \in [Client -> 0..Cardinality(Item)]
    BY <1>0, <1>10, SendTypes DEF RetryCommits, RequestInv
  <2>3. ApiPart'
    BY <1>10, <2>2 DEF RetryCommits, ApiPart, ApiTypeOK, RequestInv
  <2> QED
    BY <1>10, <2>1, <2>3 DEF RetryCommits
<1>11. CASE CancelBegins(c)
  <2>1. ApiPart'
    BY <1>0, <1>11, BatchRequestType DEF CancelBegins, ApiTypeOK
  <2>2. BoundsTypeOK'
    BY <1>0, <1>11 DEF CancelBegins, NewRequest, BoundsTypeOK
  <2> QED
    BY <1>11, <2>1, <2>2 DEF CancelBegins
<1>12. ASSUME NEW i \in Item, CancelLooks(c, i)  PROVE Typed'
  <2>1. seen[c] \ {i} \subseteq Item
    BY <1>0, <1>12 DEF CancelLooks, RequestInv
  <2>2. current[i] \in 0..MaxJobs /\ newest[i] \in 0..MaxJobs /\ send' \in [Client -> 0..Cardinality(Item)]
    BY <1>0, <1>12 DEF CancelLooks, ItemTypeOK, DocTypeOK, ApiTypeOK
  <2>3. ApiPart'
    BY <1>12, <2>1, <2>2, RequestType, BatchRequestType DEF CancelLooks
  <2> QED
    BY <1>12, <2>3 DEF CancelLooks
<1>13. CASE CancelDrops(c)
  <2>1. ItemTypeOK'
    BY <1>13, SetStateType DEF CancelDrops
  <2>2. ApiPart'
    BY <1>13 DEF CancelDrops, ApiPart, ApiTypeOK, RequestInv
  <2> QED
    BY <1>13, <2>1, <2>2 DEF CancelDrops
<1>14. CASE CancelMarks(c) \/ CancelStops(c)
  <2>1. seen[c] \subseteq Item /\ on[c] \in Item /\ send' \in [Client -> 0..Cardinality(Item)]
    BY <1>0, <1>14 DEF CancelMarks, CancelStops, RequestInv, ApiTypeOK
  <2>2. flag' \in SUBSET Item
    BY <1>0, <1>14, <2>1 DEF CancelMarks, CancelStops, DocTypeOK
  <2>3. DocTypeOK'
    BY <1>0, <1>14, <2>2, SetStatusType DEF CancelMarks, CancelStops, DocTypeOK
  <2>4. ApiPart'
    BY <1>14, <2>1, BatchRequestType DEF CancelMarks, CancelStops
  <2> QED
    BY <1>14, <2>3, <2>4 DEF CancelMarks, CancelStops
<1>15. CASE CancelEnds(c)
  BY <1>0, <1>15, DoneType DEF CancelEnds, ApiTypeOK
<1>16. CASE PollWrites(c)
  <2>1. seen[c] \subseteq ItemState
    BY <1>0, <1>16 DEF PollWrites, RequestInv
  <2>2. ItemTypeOK'
    BY <1>0, <1>16, <2>1, SetStateType DEF PollWrites
  <2>3. ApiPart'
    BY <1>0, <1>16, DoneType DEF PollWrites, ApiTypeOK
  <2> QED
    BY <1>16, <2>2, <2>3 DEF PollWrites
<1> QED
  BY <1>1, <1>2, <1>3, <1>4, <1>5, <1>6, <1>7, <1>8, <1>9, <1>10, <1>11, <1>12, <1>13, <1>14,
     <1>15, <1>16 DEF RequestStep, NewRequestStep

LEMMA PollType ==
    ASSUME Typed, Poll
    PROVE  Typed'
<1> USE Frame DEF Typed, Op, TerminalItem, JobStatus, TerminalJob, NoJob, NoItem
<1>1. ASSUME NEW i \in Item, PollFailsStale(i)  PROVE Typed'
  <2>1. DocTypeOK'
    BY <1>1, SetStatusType DEF PollFailsStale, DocTypeOK, lockVars
  <2> QED
    BY <1>1, <2>1 DEF PollFailsStale
<1>2. ASSUME NEW i \in Item, NEW c \in Client, PollReads(c, i)  PROVE Typed'
  <2>1. JobOutcome(i) \subseteq TerminalItem
    BY OutcomeType
  <2>2. ApiPart'
    BY <1>2, <2>1, RequestType, BatchConstantsOK DEF PollReads, ApiPart, ApiTypeOK
  <2> QED
    BY <1>2, <2>2 DEF PollReads
<1> QED
  BY <1>1, <1>2 DEF Poll

(* Slots: past a claim there is an item.                                   *)
LEMMA SlotStepType ==
    ASSUME Typed, NEW w \in Worker, SlotStep(w) \/ RunFails(w) \/ NativeCrash(w)
    PROVE  Typed'
<1> USE Frame, HoldersOK DEF Typed, PC, TerminalItem, ItemState, JobStatus, TerminalJob,
        NoJob, NoItem
<1> USE DEF itemVars, docVars, lockVars, slotVars, apiVars, bounds
<1>0. SlotTypeOK /\ SlotInv
  BY DEF SlotPart
<1>1. CASE TakeSlot(w) \/ ClaimEmpty(w) \/ ClaimNoCapacity(w)
  <2>1. slots' \in Nat /\ claiming # w
    BY <1>0, <1>1 DEF TakeSlot, ClaimEmpty, ClaimNoCapacity, SlotRetried, SlotTypeOK, SlotInv
  <2>2. SlotPart'
    BY <1>1, <2>1, GotoType DEF TakeSlot, ClaimEmpty, ClaimNoCapacity
  <2> QED
    BY <1>1, <2>2 DEF TakeSlot, ClaimEmpty, ClaimNoCapacity
<1>2. ASSUME NEW i \in Item, ClaimReads(w, i)  PROVE Typed'
  <2>1. SlotPart'
    BY <1>0, <1>2 DEF ClaimReads, SlotPart, SlotTypeOK, SlotInv
  <2>2. DocTypeOK'
    BY <1>2 DEF ClaimReads, LockFault, DocTypeOK
  <2> QED
    BY <1>2, <2>1, <2>2 DEF ClaimReads
<1>3. CASE ClaimCommits(w)
  <2>1. ItemTypeOK'
    BY <1>0, <1>3 DEF ClaimCommits, ItemTypeOK, SetState, SlotInv
  <2>2. SlotPart'
    BY <1>0, <1>3 DEF ClaimCommits, ItemTypeOK, SlotPart, SlotTypeOK, SlotInv, Goto
  <2> QED
    BY <1>3, <2>1, <2>2 DEF ClaimCommits
<1>4. ASSUME pc[w] \notin {"idle", "claim"}
      PROVE  claiming # w /\ item[w] \in Item
  BY <1>0, <1>4 DEF SlotInv
<1>5. CASE Enter(w) \/ Release(w)
  <2>1. DocTypeOK'
    BY <1>5 DEF Enter, Release, LockLeft, LockFault, DocTypeOK
  <2>2. SlotPart'
    BY <1>0, <1>4, <1>5, GotoType DEF Enter, Release, SlotTypeOK
  <2> QED
    BY <1>5, <2>1, <2>2 DEF Enter, Release
<1>6. CASE Refused(w) \/ Progress(w)
  <2>1. DocTypeOK'
    BY <1>6, SetStatusType DEF Refused, Progress, LockFault, DocTypeOK
  <2>2. SlotPart'
    BY <1>0, <1>4, <1>6, GotoType DEF Refused, Progress, SlotTypeOK
  <2> QED
    BY <1>6, <2>1, <2>2 DEF Refused, Progress
<1>7. CASE RunCompletes(w) \/ RunFails(w) \/ RunCancelled(w)
  <2>1. flag' \in SUBSET Item
    BY <1>7 DEF RunCompletes, RunFails, RunCancelled, DocTypeOK
  <2>2. DocTypeOK'
    BY <1>7, <2>1, SetStatusType DEF RunCompletes, RunFails, RunCancelled, RunEnds, DocTypeOK
  <2>3. SlotPart'
    BY <1>0, <1>4, <1>7, GotoType DEF RunCompletes, RunFails, RunCancelled, RunEnds, SlotTypeOK
  <2> QED
    BY <1>7, <2>2, <2>3 DEF RunCompletes, RunFails, RunCancelled, RunEnds
<1>8. ASSUME SlotOver(w), pc[w] \notin {"idle", "claim"}, UNCHANGED <<slots, claiming>>
      PROVE  SlotPart'
  <2>1. SlotTypeOK'
    BY <1>0, <1>8, BatchConstantsOK DEF SlotOver, Goto, SlotTypeOK
  <2>2. SlotInv'
    BY <1>0, <1>4, <1>8 DEF SlotOver, Goto, SlotTypeOK, SlotInv
  <2> QED
    BY <2>1, <2>2 DEF SlotPart
<1>9. CASE Finalize(w)
  <2>1. JobOutcome(item[w]) \subseteq TerminalItem
    BY <1>4, <1>9, OutcomeType DEF Finalize
  <2>2. ItemTypeOK'
    BY <1>9, <2>1 DEF Finalize, ItemTypeOK, SetState
  <2>3. SlotPart'
    BY <1>8, <1>9 DEF Finalize
  <2>4. DocTypeOK'
    BY <1>9 DEF Finalize, SlotOver, DocTypeOK
  <2> QED
    BY <1>9, <2>2, <2>3, <2>4 DEF Finalize
<1>10. CASE NativeCrash(w)
  <2>1. DocTypeOK'
    BY <1>10 DEF NativeCrash, LockLeft, DocTypeOK
  <2>2. SlotPart'
    BY <1>0, <1>4, <1>10, GotoType DEF NativeCrash, SlotTypeOK
  <2>3. BoundsTypeOK'
    BY <1>10 DEF NativeCrash, BoundsTypeOK
  <2> QED
    BY <1>10, <2>1, <2>2, <2>3 DEF NativeCrash
<1>11. CASE TaskFailure(w)
  <2>1. ItemTypeOK'
    BY <1>11 DEF TaskFailure, ItemTypeOK, SetState
  <2>2. DocTypeOK'
    <3>1. status' = status \/ SetStatus(item[w], current[item[w]], "FAILED")
      BY <1>11 DEF TaskFailure
    <3> QED
      BY <1>11, <3>1, SetStatusType DEF TaskFailure, SlotOver, DocTypeOK
  <2>3. SlotPart'
    BY <1>8, <1>11 DEF TaskFailure
  <2> QED
    BY <1>11, <2>1, <2>2, <2>3 DEF TaskFailure
<1> QED
  BY <1>1, <1>2, <1>3, <1>5, <1>6, <1>7, <1>9, <1>10, <1>11 DEF SlotStep

LEMMA TypedInit == Init => Typed
<1> SUFFICES ASSUME Init  PROVE Typed
  OBVIOUS
<1> USE BatchConstantsOK, HoldersOK DEF Init, NoJob, NoItem
<1>0. 0 \in 0..MaxJobs
  OBVIOUS
<1>1. ItemTypeOK
  BY <1>0 DEF ItemTypeOK, ItemState
<1>2. DocTypeOK
  <2>1. newest \in [Item -> 0..MaxJobs] /\ flag \in SUBSET Item
    BY <1>0
  <2>2. status \in [Item -> [Job -> JobStatus]]
    BY DEF JobStatus
  <2>3. lock \in [Item -> Worker \cup {Nobody, Dead}]
    OBVIOUS
  <2> QED
    BY <2>1, <2>2, <2>3 DEF DocTypeOK
<1>3. SlotPart
  BY DEF SlotPart, SlotTypeOK, SlotInv, PC
<1>4. ApiPart
  <2>1. 0 \in 0..Cardinality(Item)
    BY FiniteOK, FS_CardinalityType
  <2> QED
    BY <2>1 DEF ApiPart, ApiTypeOK, RequestInv, Op
<1>5. BoundsTypeOK
  BY DEF BoundsTypeOK
<1> QED
  BY <1>1, <1>2, <1>3, <1>4, <1>5 DEF Typed

LEMMA TypedStep ==
    ASSUME Typed, [Next]_vars
    PROVE  Typed'
<1> USE Frame DEF Typed, itemVars, docVars, lockVars, slotVars, apiVars, bounds
<1>1. ASSUME NEW i \in Item, GraceEnds(i)  PROVE Typed'
  BY <1>1 DEF GraceEnds, ItemTypeOK
<1>2. ASSUME NEW i \in Item, LockLapses(i)  PROVE Typed'
  BY <1>2 DEF LockLapses, DocTypeOK
<1>3. CASE ContainerKill
  <2>1. DocTypeOK'
    BY <1>3 DEF ContainerKill, DocTypeOK
  <2>2. Cardinality(Busy) \in Nat
    BY Counted DEF Busy
  <2>3. SlotPart'
    <3>1. SlotTypeOK'
      BY <1>3, <2>2, BatchConstantsOK DEF ContainerKill, SlotsRedelivered, SlotPart, SlotTypeOK,
         PC, NoItem, NoJob
    <3>2. SlotInv'
      BY <1>3 DEF ContainerKill, SlotInv
    <3> QED
      BY <3>1, <3>2 DEF SlotPart
  <2>4. BoundsTypeOK'
    BY <1>3 DEF ContainerKill, BoundsTypeOK
  <2> QED
    BY <1>3, <2>1, <2>3, <2>4 DEF ContainerKill
<1>4. ASSUME NEW w \in Worker, LeaseLapses(w)  PROVE Typed'
  <2>1. item[w] \in Item
    BY <1>4 DEF LeaseLapses, SlotPart, SlotInv
  <2>2. DocTypeOK'
    BY <1>4, <2>1 DEF LeaseLapses, LockFault, DocTypeOK
  <2> QED
    BY <1>4, <2>2 DEF LeaseLapses
<1>5. CASE UNCHANGED vars
  BY <1>5 DEF vars
<1> QED
  BY <1>1, <1>2, <1>3, <1>4, <1>5, ApiStepType, PollType, SlotStepType DEF Next

(* Every variable of the batch keeps its type, counts included: no slot is *)
(* taken that is not there.  Code: the columns of OCRBatch, OCRBatchItem   *)
(* and ProcessingJob, the queue and the Redis keys.                        *)
THEOREM BatchTypeCorrect == Spec => []TypeOK
<1>1. Typed => TypeOK
  BY DEF Typed, TypeOK, SlotPart, ApiPart
<1> QED
  BY <1>1, TypedInit, TypedStep, PTL DEF Spec

-----------------------------------------------------------------------------
(* The limit                                                               *)

WorkPC == {"enter", "begin", "run"}

(* The files the limit is about.                                           *)
Counts == Running \ stray

(* A step that brings no file to work leaves the count within the limit.   *)
LEMMA NobodyNew ==
    ASSUME Typed, LimitInv,
           claiming' # Nobody => claiming' = claiming /\ item'[claiming] = item[claiming],
           claiming' # Nobody /\ item[claiming] \in stray => item[claiming] \in stray',
           \A w \in Worker : pc'[w] \in WorkPC =>
               /\ pc[w] \in WorkPC /\ item'[w] = item[w]
               /\ item[w] \in stray => item[w] \in stray',
           \A i \in Item : state'[i] = "running" => state[i] = "running"
    PROVE  /\ RunningWithinLimit'
           /\ claiming' # Nobody => item'[claiming'] \in stray' \/ Cardinality(Counts') < Limit
<1>1. Counts' \subseteq Counts /\ Counts \subseteq Item
  BY DEF Counts, Running, AtWork, WorkPC
<1>2. Cardinality(Counts') <= Cardinality(Counts)
  BY <1>1, Counted, FS_Subset
<1>3. Cardinality(Counts') \in Nat /\ Cardinality(Counts) \in Nat
  BY <1>1, Counted
<1>4. /\ Cardinality(Counts) <= Limit
      /\ claiming # Nobody => item[claiming] \in stray \/ Cardinality(Counts) < Limit
  BY DEF LimitInv, RunningWithinLimit, Counts
<1>5. Cardinality(Counts') <= Limit
  BY <1>2, <1>3, <1>4, BatchConstantsOK
<1>6. ASSUME claiming' # Nobody
      PROVE  item'[claiming'] \in stray' \/ Cardinality(Counts') < Limit
  BY <1>2, <1>3, <1>4, <1>6, BatchConstantsOK
<1> QED
  BY <1>5, <1>6 DEF RunningWithinLimit, Counts

(* Requests never set an item running, and forget the time of a claim only *)
(* when they queue the item again.                                         *)
LEMMA RequestsApart ==
    ASSUME Typed,
           Poll \/ \E c \in Client : RequestStep(c) \/ NewRequestStep(c) \/ SendFails(c)
    PROVE  /\ UNCHANGED <<claiming, pc, item, lock, stray>>
           /\ \A i \in Item : state'[i] = "running" =>
                  state[i] = "running" /\ (i \in recent => i \in recent')
<1> USE DEF itemVars, docVars, lockVars, slotVars, SetState, Typed, ItemTypeOK
<1>1. ASSUME NEW c \in Client, NEW i \in Item, AddBegins(c, i) \/ RetryBegins(c, i) \/ CancelLooks(c, i)
      PROVE  UNCHANGED <<claiming, pc, item, lock, stray, state, recent>>
  BY <1>1 DEF AddBegins, RetryBegins, CancelLooks
<1>2. ASSUME NEW c \in Client, \/ StartReads(c) \/ SendSlot(c) \/ AllSent(c) \/ SendFails(c)
                               \/ CancelBegins(c) \/ CancelMarks(c) \/ CancelStops(c)
                               \/ CancelEnds(c)
      PROVE  UNCHANGED <<claiming, pc, item, lock, stray, state, recent>>
  BY <1>2 DEF StartReads, SendSlot, AllSent, SendFails, CancelBegins, CancelMarks, CancelStops,
     CancelEnds
<1>3. Poll => \/ UNCHANGED <<claiming, pc, item, lock, stray, state, recent>>
  BY DEF Poll, PollFailsStale, PollReads
<1>4. ASSUME NEW c \in Client, AddCommits(c) \/ CancelDrops(c) \/ RetryCommits(c)
      PROVE  /\ UNCHANGED <<claiming, pc, item, lock, stray>>
             /\ \A i \in Item : state'[i] = "running" =>
                    state[i] = "running" /\ (i \in recent => i \in recent')
  BY <1>4 DEF AddCommits, CancelDrops, RetryCommits
<1>5. ASSUME NEW c \in Client, StartCommits(c) \/ RevertCommits(c)
      PROVE  /\ UNCHANGED <<claiming, pc, item, lock, stray, recent>>
             /\ \A i \in Item : state'[i] = "running" => state[i] = "running"
  BY <1>5 DEF StartCommits, RevertCommits
<1>6. ASSUME NEW c \in Client, PollWrites(c)
      PROVE  /\ UNCHANGED <<claiming, pc, item, lock, stray, recent>>
             /\ \A i \in Item : state'[i] = "running" => state[i] = "running"
  <2>1. "running" \notin seen[c]
    BY <1>6 DEF PollWrites, ApiPart, RequestInv, TerminalItem
  <2> QED
    BY <1>6, <2>1 DEF PollWrites
<1> QED
  BY <1>1, <1>2, <1>3, <1>4, <1>5, <1>6 DEF RequestStep, NewRequestStep

(* Under the claim's lock there is room for one file more.                 *)
LEMMA ClaimLimit ==
    ASSUME Typed, LimitInv, NEW w \in Worker,
           ClaimCommits(w) \/ \E i \in Item : ClaimReads(w, i)
    PROVE  LimitInv'
<1> USE BatchConstantsOK, HoldersOK DEF Typed, ItemTypeOK, DocTypeOK, SlotPart, SlotTypeOK,
        SlotInv
<1>0. Counts \subseteq Item /\ Cardinality(Counts) \in Nat /\ Cardinality(Counts) <= Limit
  BY Counted DEF Counts, Running, LimitInv, RunningWithinLimit
<1>1. ASSUME NEW i \in Item, ClaimReads(w, i)  PROVE LimitInv'
  <2>1. UNCHANGED <<state, recent, lock, pc>> /\ pc[w] = "claim" /\ claiming' = w
        /\ item'[w] = i /\ \A v \in Worker \ {w} : item'[v] = item[v]
    BY <1>1 DEF ClaimReads, itemVars
  <2>2. stray' = stray \/ stray' = stray \cup {i}
    BY <1>1 DEF ClaimReads
  <2>3. Running' = Running /\ Counts' \subseteq Counts
    BY <2>1, <2>2 DEF Counts, Running, AtWork
  <2>8. Cardinality(Counts') <= Cardinality(Counts) /\ Cardinality(Counts') \in Nat
    BY <1>0, <2>3, Counted, FS_Subset
  <2>4. ASSUME i \notin stray'  PROVE Cardinality(Counts) < Limit
    <3>1. Cardinality(InUse) < Limit
      BY <1>1, <2>4 DEF ClaimReads
    <3>2. Counts \subseteq InUse /\ InUse \subseteq Item
      BY DEF Counts, Running, AtWork, InUse, RecentlyClaimed, LimitInv
    <3>3. Cardinality(Counts) <= Cardinality(InUse) /\ Cardinality(InUse) \in Nat
      BY <3>2, Counted, FS_Subset
    <3> QED
      BY <1>0, <3>1, <3>3
  <2>5. RunningWithinLimit' /\ (i \notin stray' => Cardinality(Counts') < Limit)
    BY <1>0, <2>8, <2>4 DEF RunningWithinLimit, Counts
  <2>6. \A v \in Worker : pc'[v] = "enter" /\ state'[item'[v]] = "running" => item'[v] \in recent'
    BY <2>1 DEF LimitInv
  <2>7. \A v \in Worker : pc'[v] \in {"begin", "run", "release"} =>
                            item'[v] \in stray' \/ lock'[item'[v]] = v
    BY <2>1, <2>2 DEF LimitInv
  <2> QED
    BY <2>1, <2>5, <2>6, <2>7 DEF LimitInv, Counts
<1>2. CASE ClaimCommits(w)
  <2>1. /\ claiming = w /\ claiming' = Nobody /\ item[w] \in Item /\ item' = item
        /\ state' = [state EXCEPT ![item[w]] = "running"] /\ UNCHANGED <<lock, stray>>
        /\ recent' = recent \cup {item[w]} /\ pc' = [pc EXCEPT ![w] = "enter"]
    BY <1>2 DEF ClaimCommits, docVars, lockVars, SetState, Goto
  <2>3. Counts' \subseteq Counts \cup {item[w]}
    BY <2>1 DEF Counts, Running, AtWork
  <2>4. ASSUME item[w] \notin stray  PROVE RunningWithinLimit'
    <3>1. Cardinality(Counts) < Limit
      BY <2>1, <2>4 DEF LimitInv, Counts
    <3>2. IsFiniteSet(Counts)
      BY <1>0, Counted
    <3>3. /\ IsFiniteSet(Counts \cup {item[w]})
          /\ Cardinality(Counts \cup {item[w]}) <= Cardinality(Counts) + 1
      BY <3>2, OneMore
    <3>4. Cardinality(Counts') <= Cardinality(Counts \cup {item[w]}) /\ Cardinality(Counts') \in Nat
      BY <2>3, <3>3, FS_Subset, FS_CardinalityType
    <3>5. Cardinality(Counts \cup {item[w]}) \in Nat
      BY <3>3, FS_CardinalityType
    <3>6. Cardinality(Counts') <= Limit
      BY <1>0, <3>1, <3>3, <3>4, <3>5
    <3> QED
      BY <3>6 DEF RunningWithinLimit, Counts
  <2>5. ASSUME item[w] \in stray  PROVE RunningWithinLimit'
    <3>1. Counts' \subseteq Counts
      BY <2>1, <2>5 DEF Counts, Running, AtWork
    <3>2. Cardinality(Counts') <= Cardinality(Counts) /\ Cardinality(Counts') \in Nat
      BY <1>0, <3>1, Counted, FS_Subset
    <3>3. Cardinality(Counts') <= Limit
      BY <1>0, <3>2
    <3> QED
      BY <3>3 DEF RunningWithinLimit, Counts
  <2>6. RunningWithinLimit'
    BY <2>4, <2>5
  <2> QED
    BY <2>1, <2>6 DEF LimitInv
<1> QED
  BY <1>1, <1>2

(* The other steps of a slot: a run keeps its lock until it releases it.   *)
LEMMA SlotLimit ==
    ASSUME Typed, LimitInv, NEW w \in Worker,
           SlotStep(w) \/ RunFails(w) \/ NativeCrash(w),
           ~ClaimCommits(w), \A i \in Item : ~ClaimReads(w, i)
    PROVE  LimitInv'
<1> USE HoldersOK DEF Typed, ItemTypeOK, DocTypeOK, SlotPart, SlotTypeOK, SlotInv, Goto, SlotOver,
        SetState, PC
<1> USE DEF itemVars, docVars, lockVars
<1>1. claiming' = claiming /\ (claiming # Nobody => item[claiming] \in Item /\ pc[claiming] = "claim")
  BY DEF SlotStep, TakeSlot, ClaimEmpty, ClaimNoCapacity, Enter, Refused, Progress, RunCompletes,
     RunFails, RunCancelled, RunEnds, Release, Finalize, NativeCrash, TaskFailure
<1>2. CASE TakeSlot(w) \/ ClaimEmpty(w) \/ ClaimNoCapacity(w)
  <2>1. UNCHANGED <<state, recent, lock, stray, item>>
        /\ \E l \in {"idle", "claim"} : pc' = [pc EXCEPT ![w] = l]
    BY <1>2 DEF TakeSlot, ClaimEmpty, ClaimNoCapacity
  <2> QED
    BY <1>1, <2>1, NobodyNew DEF LimitInv, WorkPC, Counts
<1>3. CASE Enter(w)
  <2>1. /\ UNCHANGED <<state, recent, stray, item>> /\ pc[w] = "enter" /\ lock[item[w]] = Nobody
        /\ lock' = [lock EXCEPT ![item[w]] = w] /\ pc' = [pc EXCEPT ![w] = "begin"]
    BY <1>3 DEF Enter
  <2> QED
    BY <1>1, <2>1, NobodyNew DEF LimitInv, WorkPC, Counts
<1>4. CASE Refused(w) \/ Progress(w) \/ RunCompletes(w) \/ RunFails(w) \/ RunCancelled(w)
  <2>1. /\ UNCHANGED <<state, recent, item, lock, stray>>
        /\ \/ pc' = [pc EXCEPT ![w] = "finalize"]
           \/ /\ pc[w] \in {"begin", "run"}
              /\ \E l \in {"run", "release"} : pc' = [pc EXCEPT ![w] = l]
    BY <1>4 DEF Refused, Progress, RunCompletes, RunFails, RunCancelled, RunEnds
  <2> QED
    BY <1>1, <2>1, NobodyNew DEF LimitInv, WorkPC, Counts
<1>5. CASE Release(w) \/ NativeCrash(w)
  <2>1. /\ UNCHANGED <<state, recent, stray, item>> /\ pc[w] \in {"run", "release"}
        /\ \A i \in Item : lock[i] # w => lock'[i] = lock[i]
        /\ \E l \in {"finalize", "lost"} : pc' = [pc EXCEPT ![w] = l]
    BY <1>5 DEF Release, NativeCrash, LockLeft
  <2>2. \A v \in Worker : pc'[v] \in {"begin", "run", "release"} =>
            item'[v] \in stray' \/ lock'[item'[v]] = v
    <3> TAKE v \in Worker
    <3>1. CASE v = w
      BY <2>1, <3>1
    <3>2. CASE v # w
      BY <2>1, <3>2 DEF LimitInv
    <3> QED
      BY <3>1, <3>2
  <2>3. /\ RunningWithinLimit'
        /\ claiming' # Nobody => item'[claiming'] \in stray' \/ Cardinality(Counts') < Limit
    BY <1>1, <2>1, NobodyNew DEF WorkPC
  <2> QED
    BY <2>1, <2>2, <2>3 DEF LimitInv, Counts
<1>6. CASE Finalize(w) \/ TaskFailure(w)
  <2>1. pc[w] \notin {"idle", "claim"} /\ item[w] \in Item
    BY <1>6 DEF Finalize, TaskFailure
  <2>2. \A i \in Item : state'[i] = "running" => state[i] = "running"
    <3>1. \/ state' = state
          \/ \E s \in JobOutcome(item[w]) \cup {"failed"} : state' = [state EXCEPT ![item[w]] = s]
      BY <1>6 DEF Finalize, TaskFailure
    <3> QED
      BY <2>1, <3>1, OutcomeType DEF TerminalItem
  <2>3. /\ UNCHANGED <<recent, lock>> /\ pc' = [pc EXCEPT ![w] = "idle"]
        /\ \A v \in Worker \ {w} : item'[v] = item[v] /\ (item[v] \in stray => item[v] \in stray')
    BY <1>6 DEF Finalize, TaskFailure
  <2>4. claiming # w
    BY <1>1, <2>1
  <2> QED
    BY <1>1, <2>2, <2>3, <2>4, NobodyNew DEF LimitInv, WorkPC, Counts
<1> QED
  BY <1>2, <1>3, <1>4, <1>5, <1>6 DEF SlotStep

LEMMA LimitStep ==
    ASSUME Typed, LimitInv, [Next]_vars
    PROVE  LimitInv'
<1>1. CASE Poll \/ \E c \in Client : RequestStep(c) \/ NewRequestStep(c) \/ SendFails(c)
  BY <1>1, RequestsApart, NobodyNew DEF LimitInv, WorkPC, Counts, Typed, SlotPart, SlotInv
<1>2. ASSUME NEW w \in Worker, SlotStep(w) \/ RunFails(w) \/ NativeCrash(w)
      PROVE  LimitInv'
  BY <1>2, ClaimLimit, SlotLimit
<1>3. ASSUME NEW i \in Item, GraceEnds(i)  PROVE LimitInv'
  BY <1>3, NobodyNew DEF GraceEnds, docVars, lockVars, slotVars, LimitInv, WorkPC, Counts
<1>4. ASSUME NEW i \in Item, LockLapses(i)  PROVE LimitInv'
  BY <1>4, NobodyNew, HoldersOK DEF LockLapses, itemVars, slotVars, LimitInv, WorkPC, Counts, Typed,
     DocTypeOK
<1>5. CASE ContainerKill
  BY <1>5, NobodyNew DEF ContainerKill, itemVars, LimitInv, WorkPC, Counts
<1>7. ASSUME NEW w \in Worker, LeaseLapses(w)  PROVE LimitInv'
  <2>1. /\ UNCHANGED <<itemVars, slotVars>> /\ stray' = stray \cup {item[w]}
        /\ \A i \in Item : i # item[w] => lock'[i] = lock[i]
    BY <1>7 DEF LeaseLapses, Typed, DocTypeOK
  <2> QED
    BY <2>1, NobodyNew DEF itemVars, slotVars, LimitInv, WorkPC, Counts, Typed, SlotPart, SlotInv
<1>6. CASE UNCHANGED vars
  BY <1>6, NobodyNew DEF vars, itemVars, docVars, lockVars, slotVars, LimitInv, WorkPC, Counts
<1> QED
  BY <1>1, <1>2, <1>3, <1>4, <1>5, <1>6, <1>7 DEF Next

(* Claims respect the host's limit, for any number of files, workers and   *)
(* requests, and any limit: claim_next_item under _serialize_claims, with  *)
(* CLAIM_GRACE_SECONDS bridging the gap until the document lock.           *)
THEOREM LimitRespected == Spec => []RunningWithinLimit
<1>1. Init => LimitInv
  <2> SUFFICES ASSUME Init  PROVE LimitInv
    OBVIOUS
  <2>1. Running = {}
    BY DEF Init, Running, AtWork
  <2>2. Cardinality(Running \ stray) = 0
    BY <2>1, FS_EmptySet
  <2> QED
    BY <2>2, BatchConstantsOK DEF Init, LimitInv, RunningWithinLimit
<1>2. LimitInv => RunningWithinLimit
  BY DEF LimitInv
<1> QED
  BY <1>1, <1>2, TypedInit, TypedStep, LimitStep, PTL DEF Spec

-----------------------------------------------------------------------------
(* Slots                                                                   *)

(* SlotsInv by its parts: enough slots, and who may have some to send.     *)
Enough ==
    Cardinality(Waiting)
        <= slots + Cardinality(ToSend) + Cardinality(Claimers \ {claiming}) + lost
SendsInTime == \A c \in Client : op[c] \notin {"send", "revert"} => send[c] = 0

(* ToSend, for any numbers of slots to send.                               *)
Pairs(f) == {x \in Client \X (1..Cardinality(Item)) : x[2] <= f[x[1]]}

LEMMA ToSendPairs == ToSend = Pairs(send) /\ ToSend' = Pairs(send')
BY DEF ToSend, Pairs

LEMMA PairsFinite ==
    ASSUME NEW f
    PROVE  IsFiniteSet(Pairs(f)) /\ Cardinality(Pairs(f)) \in Nat
<1>1. IsFiniteSet(1..Cardinality(Item))
  <2>1. Cardinality(Item) \in Nat
    BY FiniteOK, FS_CardinalityType
  <2> QED
    BY <2>1, FS_Interval
<1>2. IsFiniteSet(Client \X (1..Cardinality(Item)))
  BY <1>1, FiniteOK, FS_Product
<1>3. Pairs(f) \in SUBSET (Client \X (1..Cardinality(Item)))
  BY DEF Pairs
<1> HIDE DEF Pairs
<1> QED
  BY <1>2, <1>3, FS_Subset, FS_CardinalityType

(* When one request's number changes, the total changes by as much.        *)
LEMMA PairsCount ==
    ASSUME NEW f \in [Client -> 0..Cardinality(Item)],
           NEW g \in [Client -> 0..Cardinality(Item)],
           NEW c \in Client, \A d \in Client \ {c} : g[d] = f[d]
    PROVE  /\ Cardinality(Pairs(f)) \in Nat /\ Cardinality(Pairs(g)) \in Nat
           /\ Cardinality(Pairs(g)) + f[c] = Cardinality(Pairs(f)) + g[c]
<1> DEFINE N == Cardinality(Item)
           Of(n) == {c} \X (1..n)
           Rest == {x \in Pairs(f) : x[1] # c}
<1>1. N \in Nat /\ f[c] \in 0..N /\ g[c] \in 0..N
  BY FiniteOK, FS_CardinalityType
<1>2. IsFiniteSet(Rest) /\ Cardinality(Rest) \in Nat
  <2>1. Rest \in SUBSET Pairs(f)
    OBVIOUS
  <2> HIDE DEF Rest
  <2> QED
    BY <2>1, PairsFinite, FS_Subset, FS_CardinalityType
<1>3. ASSUME NEW n \in 0..N
      PROVE  /\ IsFiniteSet(Of(n)) /\ Cardinality(Of(n)) = n /\ Rest \cap Of(n) = {}
             /\ Cardinality(Rest \cup Of(n)) = Cardinality(Rest) + n
  <2>1. IsFiniteSet(1..n) /\ Cardinality(1..n) = n
    BY <1>1, <1>3, FS_Interval
  <2>2. IsFiniteSet(Of(n)) /\ Cardinality(Of(n)) = Cardinality({c}) * Cardinality(1..n)
    <3>1. IsFiniteSet({c})
      BY FS_Singleton
    <3> QED
      BY <2>1, <3>1, FS_Product
  <2>3. Cardinality(Of(n)) = n
    <3>1. Cardinality({c}) = 1
      BY FS_Singleton
    <3> HIDE DEF Of
    <3> QED
      BY <1>1, <1>3, <2>1, <2>2, <3>1
  <2>4. Rest \cap Of(n) = {}
    OBVIOUS
  <2> HIDE DEF Rest, Of
  <2>5. Cardinality(Rest \cup Of(n))
            = Cardinality(Rest) + Cardinality(Of(n)) - Cardinality(Rest \cap Of(n))
    BY <1>2, <2>2, FS_Union
  <2>6. Cardinality(Rest \cap Of(n)) = 0
    BY <2>4, FS_EmptySet
  <2>7. n \in Nat
    BY <1>1, <1>3
  <2> QED
    BY <1>2, <2>2, <2>3, <2>4, <2>5, <2>6, <2>7
<1>4. Pairs(f) = Rest \cup Of(f[c])
  BY <1>1 DEF Pairs
<1>5. Pairs(g) = Rest \cup Of(g[c])
  BY <1>1 DEF Pairs
<1> HIDE DEF Rest, Of, N
<1> QED
  BY <1>1, <1>2, <1>3, <1>4, <1>5

(* What Enough counts are numbers, before and after a step.                *)
LEMMA SlotNumbers ==
    ASSUME Typed, Typed'
    PROVE  /\ slots \in Nat /\ lost \in Nat /\ slots' \in Nat /\ lost' \in Nat
           /\ Cardinality(Waiting) \in Nat /\ Cardinality(Waiting') \in Nat
           /\ Cardinality(Claimers \ {claiming}) \in Nat
           /\ Cardinality(Claimers' \ {claiming'}) \in Nat
           /\ Waiting \in SUBSET Item /\ Waiting' \in SUBSET Item
           /\ Claimers \in SUBSET Worker /\ Claimers' \in SUBSET Worker
<1>1. slots \in Nat /\ lost \in Nat /\ slots' \in Nat /\ lost' \in Nat
  BY DEF Typed, SlotPart, SlotTypeOK, BoundsTypeOK
<1>2. Waiting \in SUBSET Item /\ Waiting' \in SUBSET Item
  BY DEF Waiting, Queued
<1>3. Claimers \in SUBSET Worker /\ Claimers' \in SUBSET Worker
  BY DEF Claimers
<1> QED
  BY <1>1, <1>2, <1>3, Counted

(* The slots to send are a number, the same one unless send changes.       *)
LEMMA SendNumbers ==
    ASSUME Typed, Typed'
    PROVE  /\ Cardinality(ToSend) \in Nat /\ Cardinality(ToSend') \in Nat
           /\ send' = send => Cardinality(ToSend') = Cardinality(ToSend)
           /\ \A c \in Client : (\A d \in Client \ {c} : send'[d] = send[d]) =>
                  Cardinality(ToSend') + send[c] = Cardinality(ToSend) + send'[c]
<1>1. send \in [Client -> 0..Cardinality(Item)] /\ send' \in [Client -> 0..Cardinality(Item)]
  BY DEF Typed, ApiPart, ApiTypeOK
<1>2. Cardinality(Pairs(send)) \in Nat /\ Cardinality(Pairs(send')) \in Nat
  BY PairsFinite
<1> QED
  BY <1>1, <1>2, ToSendPairs, PairsCount

(* Enough slots stay enough when they lose no more than the waiting items. *)
LEMMA Balance ==
    ASSUME Typed, Typed', Enough,
           Cardinality(Waiting') + slots + Cardinality(ToSend) + Cardinality(Claimers \ {claiming}) + lost
               <= Cardinality(Waiting) + slots' + Cardinality(ToSend')
                  + Cardinality(Claimers' \ {claiming'}) + lost'
    PROVE  Enough'
<1>1. Cardinality(Waiting) <= slots + Cardinality(ToSend) + Cardinality(Claimers \ {claiming}) + lost
  BY DEF Enough
<1>2. Cardinality(Waiting')
          <= slots' + Cardinality(ToSend') + Cardinality(Claimers' \ {claiming'}) + lost'
  BY <1>1, SlotNumbers, SendNumbers
<1> QED
  BY <1>2 DEF Enough

(* A step that queues nothing and moves no slot.                           *)
LEMMA NothingQueued ==
    ASSUME Typed, Typed', Enough, Waiting' \subseteq Waiting,
           Claimers' \ {claiming'} = Claimers \ {claiming}, UNCHANGED <<slots, send, lost>>
    PROVE  Enough'
<1>1. Cardinality(Waiting') <= Cardinality(Waiting)
  BY Counted, FS_Subset, SlotNumbers
<1>2. /\ slots' = slots /\ lost' = lost /\ Cardinality(ToSend') = Cardinality(ToSend)
      /\ Cardinality(Claimers' \ {claiming'}) = Cardinality(Claimers \ {claiming})
  BY SendNumbers
<1> QED
  BY <1>1, <1>2, SlotNumbers, SendNumbers, Balance

(* A request that queues items has their slots to send, and one that fails *)
(* to send them takes their items back, or counts them as lost.            *)
LEMMA RequestSlots ==
    ASSUME Typed, Typed', Enough, SendsInTime, NEW c \in Client,
           RequestStep(c) \/ NewRequestStep(c) \/ SendFails(c)
    PROVE  Enough'
<1> USE SlotNumbers, SendNumbers
<1>0. /\ UNCHANGED <<claiming, pc, item>> /\ Claimers' \ {claiming'} = Claimers \ {claiming}
  BY RequestsApart DEF Claimers
<1>1. ASSUME \A i \in Item : state'[i] = "queued" => state[i] = "queued"
      PROVE  Waiting' \subseteq Waiting
  BY <1>0, <1>1 DEF Waiting, Queued
<1>2. send[c] \in Nat /\ send'[c] \in Nat /\ seen[c] \in SUBSET (Item \cup TerminalItem)
  BY SendTypes DEF Typed, ApiPart, ApiTypeOK
<1>3. ASSUME \/ AddCommits(c) \/ AllSent(c) \/ CancelDrops(c) \/ CancelMarks(c) \/ CancelStops(c)
             \/ CancelEnds(c) \/ PollWrites(c) \/ StartReads(c) \/ CancelBegins(c)
             \/ \E i \in Item : CancelLooks(c, i) \/ AddBegins(c, i) \/ RetryBegins(c, i)
      PROVE  Enough'
  <2>1. UNCHANGED <<slots, send, lost>>
    BY <1>3 DEF AddCommits, AllSent, CancelDrops, CancelMarks, CancelStops, CancelEnds, PollWrites,
       StartReads, CancelBegins, CancelLooks, AddBegins, RetryBegins, slotVars, bounds
  <2>2. \A i \in Item : state'[i] = "queued" => state[i] = "queued"
    <3>1. CASE UNCHANGED state
      BY <3>1
    <3>2. CASE PollWrites(c)
      <4>1. "queued" \notin seen[c]
        BY <3>2 DEF PollWrites, Typed, ApiPart, RequestInv, TerminalItem
      <4> QED
        BY <3>2, <4>1 DEF PollWrites, SetState, Typed, ItemTypeOK
    <3>3. CASE AddCommits(c) \/ CancelDrops(c)
      BY <3>3 DEF AddCommits, CancelDrops, SetState, Typed, ItemTypeOK
    <3> QED
      BY <1>3, <3>1, <3>2, <3>3 DEF AllSent, CancelMarks, CancelStops, CancelEnds, StartReads,
         CancelBegins, CancelLooks, AddBegins, RetryBegins, itemVars
  <2> QED
    BY <1>0, <1>1, <2>1, <2>2, NothingQueued
<1>4. CASE StartCommits(c)
  <2>1. seen[c] \in SUBSET Item
    BY <1>4 DEF StartCommits, Typed, ApiPart, RequestInv
  <2>2. Waiting' \subseteq Waiting \cup seen[c]
    BY <1>0, <1>4 DEF StartCommits, Waiting, Queued
  <2>3. Cardinality(Waiting') <= Cardinality(Waiting) + Cardinality(seen[c])
    <3>1. IsFiniteSet(Waiting) /\ IsFiniteSet(seen[c]) /\ Cardinality(Waiting \cap seen[c]) \in Nat
      BY <2>1, Counted
    <3>2. /\ IsFiniteSet(Waiting \cup seen[c])
          /\ Cardinality(Waiting \cup seen[c])
                 = Cardinality(Waiting) + Cardinality(seen[c]) - Cardinality(Waiting \cap seen[c])
      BY <3>1, FS_Union
    <3>3. Cardinality(Waiting') <= Cardinality(Waiting \cup seen[c])
      BY <2>2, <3>2, FS_Subset
    <3> QED
      BY <2>1, <3>1, <3>2, <3>3, Counted
  <2>4. send[c] = 0
    BY <1>4 DEF StartCommits, SendsInTime
  <2>5. send' = [send EXCEPT ![c] = Cardinality(seen[c])] /\ slots' = slots /\ lost' = lost
    BY <1>4 DEF StartCommits, SlotsFor, slotVars, bounds
  <2>6. send'[c] = Cardinality(seen[c]) /\ \A d \in Client \ {c} : send'[d] = send[d]
    BY <2>5 DEF Typed, ApiPart, ApiTypeOK
  <2>7. Cardinality(ToSend') = Cardinality(ToSend) + Cardinality(seen[c])
    BY <1>2, <2>4, <2>6
  <2> QED
    BY <1>0, <1>2, <2>3, <2>5, <2>6, <2>7, Balance
<1>5. CASE SendSlot(c)
  <2>1. /\ send'[c] = send[c] - 1 /\ \A d \in Client \ {c} : send'[d] = send[d]
        /\ slots' = slots + 1 /\ lost' = lost /\ state' = state
    BY <1>5 DEF SendSlot, itemVars, bounds, Typed, ApiPart, ApiTypeOK
  <2>2. Cardinality(ToSend') + 1 = Cardinality(ToSend)
    BY <1>2, <2>1
  <2>3. Waiting' = Waiting
    BY <1>0, <2>1 DEF Waiting, Queued
  <2>4. Cardinality(Waiting') + slots + Cardinality(ToSend) + Cardinality(Claimers \ {claiming}) + lost
            <= Cardinality(Waiting) + slots' + Cardinality(ToSend')
               + Cardinality(Claimers' \ {claiming'}) + lost'
    <3>1. /\ Cardinality(Waiting') = Cardinality(Waiting)
          /\ Cardinality(Claimers' \ {claiming'}) = Cardinality(Claimers \ {claiming})
      BY <1>0, <2>3
    <3> QED
      BY ONLY <2>1, <2>2, <3>1, SlotNumbers, SendNumbers, Typed, Typed'
  <2> QED
    BY <2>4, Balance
<1>6. CASE SendFails(c)
  <2>1. slots' = slots /\ state' = state
    BY <1>6 DEF SendFails, slotVars, itemVars
  <2>2. Waiting' = Waiting
    BY <1>0, <2>1 DEF Waiting, Queued
  <2>3. CASE on[c] = NoItem
    BY <1>0, <1>6, <2>1, <2>2, <2>3, NothingQueued DEF SendFails
  <2>4. CASE on[c] # NoItem
    <3>1. /\ send'[c] = 0 /\ \A d \in Client \ {c} : send'[d] = send[d]
          /\ lost' = lost + send[c]
      BY <1>6, <2>4 DEF SendFails, Typed, ApiPart, ApiTypeOK
    <3>2. Cardinality(ToSend') + send[c] = Cardinality(ToSend)
      BY <1>2, <3>1
    <3> QED
      BY <1>0, <1>2, <2>1, <2>2, <3>1, <3>2, Balance
  <2> QED
    BY <2>3, <2>4
<1>7. CASE RevertCommits(c)
  <2>1. Waiting' = Waiting \ seen[c]
    BY <1>0, <1>7 DEF RevertCommits, Waiting, Queued
  <2>2. /\ Cardinality(Waiting') = Cardinality(Waiting) - Cardinality(seen[c] \cap Waiting)
        /\ Cardinality(seen[c] \cap Waiting) \in Nat
    <3>1. IsFiniteSet(Waiting) /\ Waiting \cap seen[c] = seen[c] \cap Waiting
      BY Counted
    <3>2. Cardinality(Waiting \ seen[c]) = Cardinality(Waiting) - Cardinality(Waiting \cap seen[c])
      BY <3>1, FS_Difference
    <3>3. seen[c] \cap Waiting \in SUBSET Item
      OBVIOUS
    <3> QED
      BY <2>1, <3>1, <3>2, <3>3, Counted
  <2>3. /\ send'[c] = 0 /\ \A d \in Client \ {c} : send'[d] = send[d]
        /\ slots' = slots /\ lost' = lost + Beyond(send[c], Cardinality(seen[c] \cap Waiting))
    BY <1>7 DEF RevertCommits, slotVars, Typed, ApiPart, ApiTypeOK
  <2>4. Cardinality(ToSend') + send[c] = Cardinality(ToSend)
    BY <1>2, <2>3
  <2>5. lost' + Cardinality(seen[c] \cap Waiting) >= lost + send[c]
    BY <1>2, <2>2, <2>3 DEF Beyond
  <2>6. Cardinality(Waiting') + slots + Cardinality(ToSend) + Cardinality(Claimers \ {claiming}) + lost
            <= Cardinality(Waiting) + slots' + Cardinality(ToSend')
               + Cardinality(Claimers' \ {claiming'}) + lost'
    <3>1. Cardinality(Claimers' \ {claiming'}) = Cardinality(Claimers \ {claiming})
      BY <1>0
    <3>2. slots' = slots
      BY <2>3
    <3> QED
      BY ONLY <1>2, <2>2, <2>4, <2>5, <3>1, <3>2, SlotNumbers, SendNumbers, Typed, Typed'
  <2> QED
    BY <2>6, Balance
<1>8. CASE RetryCommits(c)
  <2>1. Waiting' \subseteq Waiting \cup {on[c]}
    BY <1>0, <1>8 DEF RetryCommits, SetState, Waiting, Queued, Typed, ItemTypeOK
  <2>2. Cardinality(Waiting') <= Cardinality(Waiting) + 1
    <3>1. IsFiniteSet(Waiting)
      BY Counted
    <3>2. /\ IsFiniteSet(Waiting \cup {on[c]})
          /\ Cardinality(Waiting \cup {on[c]}) <= Cardinality(Waiting) + 1
      BY <3>1, OneMore
    <3>3. /\ Cardinality(Waiting') <= Cardinality(Waiting \cup {on[c]})
          /\ Cardinality(Waiting \cup {on[c]}) \in Nat
      BY <2>1, <3>2, FS_Subset, FS_CardinalityType
    <3> QED
      BY <3>2, <3>3
  <2>3. send[c] = 0
    BY <1>8 DEF RetryCommits, SendsInTime
  <2>4. /\ send'[c] = 1 /\ \A d \in Client \ {c} : send'[d] = send[d]
        /\ slots' = slots /\ lost' = lost
    BY <1>8 DEF RetryCommits, slotVars, bounds, Typed, ApiPart, ApiTypeOK
  <2>5. Cardinality(ToSend') = Cardinality(ToSend) + 1
    BY <2>3, <2>4
  <2> QED
    BY <1>0, <2>2, <2>4, <2>5, Balance
<1> QED
  BY <1>3, <1>4, <1>5, <1>6, <1>7, <1>8 DEF RequestStep, NewRequestStep

(* Claims: a slot is taken for the item it claims, put back, or not needed. *)
LEMMA ClaimSlots ==
    ASSUME Typed, Typed', Enough, NEW w \in Worker,
           \/ TakeSlot(w) \/ ClaimEmpty(w) \/ ClaimNoCapacity(w) \/ ClaimCommits(w)
           \/ \E i \in Item : ClaimReads(w, i)
    PROVE  Enough'
<1> USE SlotNumbers, SendNumbers, HoldersOK DEF Typed, SlotPart, SlotTypeOK, SlotInv
<1>0. /\ send' = send /\ lost' = lost /\ Cardinality(ToSend') = Cardinality(ToSend)
      /\ \A S \in SUBSET Worker : IsFiniteSet(S)
  BY Counted DEF TakeSlot, ClaimEmpty, ClaimNoCapacity, ClaimCommits, ClaimReads, apiVars, bounds
<1>1. CASE TakeSlot(w)
  <2>1. /\ UNCHANGED <<state, claiming, item>> /\ slots' = slots - 1 /\ claiming # w
        /\ pc[w] = "idle" /\ pc' = [pc EXCEPT ![w] = "claim"]
    BY <1>1 DEF TakeSlot, itemVars, Goto
  <2>2. Waiting' = Waiting
    BY <2>1 DEF Waiting, Queued
  <2>3. Claimers' \ {claiming'} = (Claimers \ {claiming}) \cup {w} /\ w \notin Claimers
    BY <2>1 DEF Claimers
  <2>4. Cardinality(Claimers' \ {claiming'}) = Cardinality(Claimers \ {claiming}) + 1
    BY <1>0, <2>3, FS_AddElement
  <2> QED
    BY <1>0, <2>1, <2>2, <2>4, Balance
<1>2. CASE ClaimEmpty(w)
  <2>1. Waiting' = {}
    BY <1>2 DEF ClaimEmpty, itemVars, Waiting, Queued
  <2>2. Cardinality(Waiting') = 0
    BY <2>1, FS_EmptySet
  <2> QED
    BY <2>2 DEF Enough
<1>3. CASE ClaimNoCapacity(w)
  <2>1. /\ UNCHANGED <<state, claiming, item>> /\ slots' = slots + 1 /\ claiming = Nobody
        /\ pc[w] = "claim" /\ pc' = [pc EXCEPT ![w] = "idle"]
    BY <1>3 DEF ClaimNoCapacity, SlotRetried, itemVars, Goto
  <2>2. Waiting' = Waiting
    BY <2>1 DEF Waiting, Queued
  <2>3. Claimers' \ {claiming'} = (Claimers \ {claiming}) \ {w} /\ w \in Claimers \ {claiming}
    BY <2>1 DEF Claimers
  <2>4. Cardinality(Claimers' \ {claiming'}) = Cardinality(Claimers \ {claiming}) - 1
    <3>1. IsFiniteSet(Claimers \ {claiming})
      BY <1>0
    <3> QED
      BY ONLY SMTT(60), <2>3, <3>1, FS_RemoveElement
  <2> QED
    BY <1>0, <2>1, <2>2, <2>4, Balance
<1>4. ASSUME NEW i \in Item, ClaimReads(w, i)  PROVE Enough'
  <2>1. /\ UNCHANGED <<state, slots, pc>> /\ claiming = Nobody /\ claiming' = w
        /\ pc[w] = "claim" /\ i \in Queued /\ item' = [item EXCEPT ![w] = i]
    BY <1>4 DEF ClaimReads, itemVars
  <2>2. Waiting' = Waiting \ {i} /\ i \in Waiting
    BY <2>1 DEF Waiting, Queued
  <2>3. Cardinality(Waiting') = Cardinality(Waiting) - 1
    BY <2>2, Counted, FS_RemoveElement
  <2>4. Claimers' \ {claiming'} = (Claimers \ {claiming}) \ {w} /\ w \in Claimers \ {claiming}
    BY <2>1 DEF Claimers
  <2>5. Cardinality(Claimers' \ {claiming'}) = Cardinality(Claimers \ {claiming}) - 1
    <3>1. IsFiniteSet(Claimers \ {claiming})
      BY <1>0
    <3> QED
      BY ONLY SMTT(60), <2>4, <3>1, FS_RemoveElement
  <2> QED
    BY <1>0, <2>1, <2>3, <2>5, Balance
<1>5. CASE ClaimCommits(w)
  <2>1. /\ UNCHANGED <<slots, item>> /\ claiming = w /\ claiming' = Nobody
        /\ state' = [state EXCEPT ![item[w]] = "running"] /\ pc' = [pc EXCEPT ![w] = "enter"]
    BY <1>5 DEF ClaimCommits, SetState, Goto
  <2>2. Waiting' \subseteq Waiting
    BY <2>1 DEF Waiting, Queued, ItemTypeOK
  <2>3. Claimers' \ {claiming'} = Claimers \ {claiming}
    BY <2>1 DEF Claimers
  <2> QED
    BY <1>0, <2>1, <2>2, <2>3, NothingQueued
<1> QED
  BY <1>1, <1>2, <1>3, <1>4, <1>5

(* A run leaves the slots and the claim of others alone.                   *)
LEMMA RunSlots ==
    ASSUME Typed, Typed', Enough, NEW w \in Worker,
           \/ Enter(w) \/ Refused(w) \/ Progress(w) \/ RunCompletes(w) \/ RunCancelled(w)
           \/ Release(w) \/ Finalize(w) \/ TaskFailure(w) \/ RunFails(w) \/ NativeCrash(w)
    PROVE  Enough'
<1> USE HoldersOK DEF Typed, SlotPart, SlotTypeOK, SlotInv
<1>1. /\ UNCHANGED <<slots, claiming, send, lost>> /\ pc[w] \notin {"idle", "claim"}
      /\ \E l \in PC \ {"claim"} : pc' = [pc EXCEPT ![w] = l]
      /\ \A v \in Worker \ {w} : item'[v] = item[v]
  BY DEF Enter, Refused, Progress, RunCompletes, RunCancelled, RunFails, RunEnds, Release, Finalize,
     TaskFailure, NativeCrash, SlotOver, Goto, apiVars, bounds, PC
<1>2. \A i \in Item : state'[i] = "queued" => state[i] = "queued"
  <2>1. CASE Finalize(w)
    <3>1. item[w] \in Item /\ JobOutcome(item[w]) \subseteq TerminalItem
      BY <1>1, OutcomeType
    <3> QED
      BY <2>1, <3>1 DEF Finalize, SetState, TerminalItem, ItemTypeOK
  <2>2. CASE TaskFailure(w)
    BY <2>2 DEF TaskFailure, SetState, ItemTypeOK
  <2> QED
    BY <2>1, <2>2 DEF Enter, Refused, Progress, RunCompletes, RunCancelled, RunFails, RunEnds, Release,
       NativeCrash, itemVars
<1>3. Waiting' \subseteq Waiting
  BY <1>1, <1>2 DEF Waiting, Queued
<1>4. Claimers' \ {claiming'} = Claimers \ {claiming}
  BY <1>1 DEF Claimers
<1> QED
  BY <1>1, <1>3, <1>4, NothingQueued

(* A kill loses the claim in progress, and its slot comes back with those  *)
(* of all others.                                                          *)
LEMMA KillSlots ==
    ASSUME Typed, Typed', Enough, ContainerKill
    PROVE  Enough'
<1> USE SlotNumbers, SendNumbers
<1>1. /\ slots' = slots + Cardinality(Busy) /\ send' = send /\ lost' = lost /\ state' = state
      /\ claiming' = Nobody /\ pc' = [v \in Worker |-> "idle"]
  BY DEF ContainerKill, SlotsRedelivered, apiVars, itemVars
<1>2. Busy \in SUBSET Worker /\ IsFiniteSet(Busy) /\ Cardinality(Busy) \in Nat
  BY Counted DEF Busy
<1>3. Cardinality(Claimers' \ {claiming'}) = 0
  <2>1. Claimers' \ {claiming'} = {}
    BY <1>1 DEF Claimers
  <2> QED
    BY <2>1, FS_EmptySet
<1>4. CASE claiming = Nobody
  <2>1. Waiting' = Waiting
    BY <1>1, <1>4 DEF Waiting, Queued
  <2>2. Claimers \ {claiming} \subseteq Busy
    BY DEF Claimers, Busy
  <2>3. Cardinality(Claimers \ {claiming}) <= Cardinality(Busy)
    BY <1>2, <2>2, FS_Subset
  <2> QED
    BY <1>1, <1>2, <1>3, <2>1, <2>3, Balance
<1>5. CASE claiming # Nobody
  <2>1. claiming \in Claimers
    BY <1>5 DEF Typed, SlotPart, SlotTypeOK, SlotInv, Claimers
  <2>2. Waiting' \subseteq Waiting \cup {item[claiming]}
    BY <1>1 DEF Waiting, Queued
  <2>3. Cardinality(Waiting') <= Cardinality(Waiting) + 1
    <3>1. IsFiniteSet(Waiting)
      BY Counted
    <3>2. /\ IsFiniteSet(Waiting \cup {item[claiming]})
          /\ Cardinality(Waiting \cup {item[claiming]}) <= Cardinality(Waiting) + 1
      BY <3>1, OneMore
    <3>3. /\ Cardinality(Waiting') <= Cardinality(Waiting \cup {item[claiming]})
          /\ Cardinality(Waiting \cup {item[claiming]}) \in Nat
      BY <2>2, <3>2, FS_Subset, FS_CardinalityType
    <3> QED
      BY <3>2, <3>3
  <2>4. Cardinality(Claimers \ {claiming}) + 1 <= Cardinality(Busy)
    <3>1. Claimers \subseteq Busy
      BY DEF Claimers, Busy
    <3>2. Cardinality(Claimers) <= Cardinality(Busy) /\ Cardinality(Claimers) \in Nat
      BY <1>2, <3>1, Counted, FS_Subset
    <3>3. IsFiniteSet(Claimers)
      BY Counted
    <3>4. Cardinality(Claimers \ {claiming}) = Cardinality(Claimers) - 1
      BY <2>1, <3>3, FS_RemoveElement
    <3> QED
      BY <1>2, <3>2, <3>4
  <2> QED
    BY <1>1, <1>2, <1>3, <2>3, <2>4, Balance
<1> QED
  BY <1>4, <1>5

LEMMA EnoughStep ==
    ASSUME Typed, Typed', Enough, SendsInTime, [Next]_vars
    PROVE  Enough'
<1>1. ASSUME \/ Poll \/ UNCHANGED vars \/ \E w \in Worker : LeaseLapses(w)
             \/ \E i \in Item : GraceEnds(i) \/ LockLapses(i)
      PROVE  Enough'
  <2>1. UNCHANGED <<state, slots, claiming, pc, item, send, lost>>
    BY <1>1 DEF Poll, PollFailsStale, PollReads, GraceEnds, LockLapses, LeaseLapses, vars, itemVars, slotVars,
       apiVars, bounds
  <2>2. Waiting' = Waiting /\ Claimers' = Claimers
    BY <2>1 DEF Waiting, Queued, Claimers
  <2> QED
    BY <2>1, <2>2, NothingQueued
<1> QED
  BY <1>1, RequestSlots, ClaimSlots, RunSlots, KillSlots DEF Next, SlotStep

(* A request has slots to send only while it sends them or takes a start   *)
(* back.                                                                   *)
LEMMA SendsInTimeStep ==
    ASSUME Typed, SendsInTime, [Next]_vars
    PROVE  SendsInTime'
<1> USE DEF SendsInTime, Typed, ApiPart, ApiTypeOK
<1>1. ASSUME UNCHANGED <<op, send>>  PROVE SendsInTime'
  BY <1>1
<1>2. ASSUME NEW c \in Client, RequestStep(c) \/ NewRequestStep(c) \/ SendFails(c)
      PROVE  SendsInTime'
  <2>1. ASSUME NEW o, op' = [op EXCEPT ![c] = o], send[c] = 0, send' = send
        PROVE  SendsInTime'
    BY <2>1
  <2>2. ASSUME NEW o, op' = [op EXCEPT ![c] = o], \E n : send' = [send EXCEPT ![c] = n],
               o \notin {"send", "revert"} => send'[c] = 0
        PROVE  SendsInTime'
    BY <2>2
  <2>3. CASE \/ AddCommits(c) \/ AllSent(c) \/ CancelMarks(c) \/ CancelStops(c) \/ CancelEnds(c)
             \/ PollWrites(c) \/ StartReads(c) \/ CancelBegins(c) \/ CancelDrops(c)
             \/ \E i \in Item : CancelLooks(c, i) \/ AddBegins(c, i) \/ RetryBegins(c, i)
    <3>1. send[c] = 0 /\ send' = send
      BY <2>3 DEF AddCommits, AllSent, CancelMarks, CancelStops, CancelEnds, PollWrites, StartReads,
         CancelBegins, CancelLooks, AddBegins, RetryBegins, CancelDrops
    <3>2. \E o : op' = [op EXCEPT ![c] = o]
      BY <2>3 DEF AddCommits, AllSent, CancelMarks, CancelStops, CancelEnds, PollWrites, StartReads,
         CancelBegins, CancelLooks, AddBegins, RetryBegins, CancelDrops, Request, Done
    <3> QED
      BY <2>1, <3>1, <3>2
  <2>4. CASE StartCommits(c) \/ RetryCommits(c)
    BY <2>2, <2>4 DEF StartCommits, RetryCommits, Request
  <2>5. CASE SendSlot(c)
    BY <2>5 DEF SendSlot
  <2>6. CASE SendFails(c)
    BY <2>6 DEF SendFails, Request, Done
  <2>7. CASE RevertCommits(c)
    BY <2>2, <2>7 DEF RevertCommits, Request, Done
  <2> QED
    BY <1>2, <2>3, <2>4, <2>5, <2>6, <2>7 DEF RequestStep, NewRequestStep
<1>3. ASSUME Poll  PROVE SendsInTime'
  <2>1. ASSUME NEW i \in Item, NEW c \in Client, PollReads(c, i)  PROVE SendsInTime'
    <3>1. send[c] = 0 /\ send' = send /\ op' = [op EXCEPT ![c] = "poll"]
      BY <2>1 DEF PollReads, Request
    <3> QED
      BY <3>1
  <2> QED
    BY <1>1, <1>3, <2>1 DEF Poll, PollFailsStale, apiVars
<1>4. ASSUME NEW w \in Worker, SlotStep(w) \/ RunFails(w) \/ NativeCrash(w)
      PROVE  UNCHANGED <<op, send>>
  BY <1>4 DEF SlotStep, TakeSlot, ClaimEmpty, ClaimReads, ClaimNoCapacity, ClaimCommits, Enter, Refused,
     Progress, RunCompletes, RunCancelled, Release, Finalize, TaskFailure, RunFails, RunEnds,
     NativeCrash, apiVars
<1>5. ASSUME \/ ContainerKill \/ UNCHANGED vars \/ \E w \in Worker : LeaseLapses(w)
             \/ \E i \in Item : GraceEnds(i) \/ LockLapses(i)
      PROVE  UNCHANGED <<op, send>>
  BY <1>5 DEF ContainerKill, GraceEnds, LockLapses, LeaseLapses, vars, apiVars
<1> QED
  BY <1>1, <1>2, <1>3, <1>4, <1>5 DEF Next

(* No queued file is forgotten, for any files, workers and requests, with  *)
(* crashes, kills and lost races: each has a slot that will look at it, or *)
(* is one of those whose slot the broker refused.  Code: _enqueue_slots,   *)
(* self.retry and task_acks_late.                                          *)
THEOREM QueuedKeepsSlot == Spec => []QueuedHasSlot
<1>1. Init => Enough /\ SendsInTime
  <2> SUFFICES ASSUME Init  PROVE Enough /\ SendsInTime
    OBVIOUS
  <2>1. Waiting = {} /\ ToSend = {} /\ Claimers = {}
    BY DEF Init, Waiting, Queued, ToSend, Claimers
  <2>2. Cardinality(Waiting) = 0 /\ Cardinality(ToSend) = 0 /\ Cardinality(Claimers \ {claiming}) = 0
    BY <2>1, FS_EmptySet
  <2> QED
    BY <2>2 DEF Init, Enough, SendsInTime
<1>2. Typed /\ Enough => QueuedHasSlot
  <2> SUFFICES ASSUME Typed, Enough  PROVE QueuedHasSlot
    OBVIOUS
  <2>0. /\ slots \in Nat /\ lost \in Nat /\ Cardinality(ToSend) \in Nat
        /\ Claimers \in SUBSET Worker /\ Waiting \in SUBSET Item /\ Queued \in SUBSET Item
    BY PairsFinite DEF Typed, SlotPart, SlotTypeOK, BoundsTypeOK, Claimers, Waiting, Queued, ToSend, Pairs
  <2>1. CASE claiming = Nobody
    <3>1. Waiting = Queued /\ Claimers \ {claiming} = Claimers
      BY <2>1, HoldersOK DEF Waiting, Claimers
    <3> QED
      BY <3>1 DEF Enough, QueuedHasSlot
  <2>2. CASE claiming # Nobody
    <3>1. claiming \in Claimers
      BY <2>2 DEF Typed, SlotPart, SlotTypeOK, SlotInv, Claimers
    <3>2. Cardinality(Claimers \ {claiming}) = Cardinality(Claimers) - 1
      BY <2>0, <3>1, Counted, FS_RemoveElement
    <3>3. IsFiniteSet(Waiting) /\ Queued \subseteq Waiting \cup {item[claiming]}
      BY <2>0, Counted DEF Waiting
    <3>4. /\ IsFiniteSet(Waiting \cup {item[claiming]})
          /\ Cardinality(Waiting \cup {item[claiming]}) <= Cardinality(Waiting) + 1
      BY <3>3, OneMore
    <3>5. /\ Cardinality(Queued) <= Cardinality(Waiting \cup {item[claiming]})
          /\ Cardinality(Waiting \cup {item[claiming]}) \in Nat
      BY <3>3, <3>4, FS_Subset, FS_CardinalityType
    <3>6. /\ Cardinality(Queued) \in Nat /\ Cardinality(Waiting) \in Nat
          /\ Cardinality(Claimers) \in Nat
      BY <2>0, Counted
    <3> QED
      BY <2>0, <3>2, <3>4, <3>5, <3>6 DEF Enough, QueuedHasSlot
  <2> QED
    BY <2>1, <2>2
<1>3. Typed /\ Enough /\ SendsInTime /\ [Next]_vars => Typed' /\ Enough' /\ SendsInTime'
  BY TypedStep, EnoughStep, SendsInTimeStep
<1> QED
  BY <1>1, <1>2, <1>3, TypedInit, PTL DEF Spec

-----------------------------------------------------------------------------
(* Sizing                                                                  *)

Settings ==
  [ocr_reserved_cpu : Nat, ocr_reserved_memory_mb : Nat, ocr_worker_est_memory_mb : Nat \ {0},
   batch_light_engine_est_memory_mb : Nat \ {0}, max_ai_concurrency : Int,
   ocr_max_concurrency : Int, ocr_workers : Int, ocr_max_workers : Nat \ {0},
   ocr_min_workers : Nat \ {0}, ocr_auto_fallback : BOOLEAN]
Hosts == [cpu : Nat \ {0}, mem : Nat \cup {Unknown}]

(* The least of up to three numbers is one of them.                        *)
LEMMA LeastOfThree ==
  ASSUME NEW a \in Int, NEW b \in Int, NEW c \in Int
  PROVE /\ Least({a, b, c}) \in {a, b, c}
        /\ Least({a, b, c}) <= a /\ Least({a, b, c}) <= b /\ Least({a, b, c}) <= c
<1>1. \E x \in {a, b, c} : \A y \in {a, b, c} : x <= y
  OBVIOUS
<1> QED BY <1>1 DEF Least

(* What the tightest bound is chosen from: three numbers, some the same.   *)
LEMMA BoundsAreThree ==
  ASSUME NEW provider, NEW h \in Hosts, NEW s \in Settings
  PROVE \E a, b, c \in Int : Bounds(provider, h, s) = {a, b, c}
<1> DEFINE ram == RamFit(h.mem, PerWorker(provider, s), s.ocr_reserved_memory_mb)
           cap == s.ocr_max_concurrency
<1>1. PerWorker(provider, s) \in Nat \ {0} /\ cap \in Int /\ h.mem \in Int /\ s.ocr_reserved_memory_mb \in Nat
  BY DEF Settings, Hosts, PerWorker, Unknown
<1>2. ram \in Int
  BY <1>1 DEF RamFit, Larger
<1>3. PICK a \in Int : EngineBounds(provider, h, s) \in {{a}, {a, ram}}
  <2>1. CpuBudget(h, s) \in Int /\ Larger(1, s.max_ai_concurrency) \in Int
    BY DEF CpuBudget, Larger, Settings, Hosts
  <2>2. RamBound(provider, h, s) \in {{}, {ram}}
    BY DEF RamBound
  <2>3. CASE provider \in {"paddleocr", "tesseract"}
    BY <2>1, <2>2, <2>3 DEF EngineBounds
  <2>4. CASE provider = "nvidia"
    BY <2>1, <2>2, <2>4 DEF EngineBounds
  <2>5. CASE provider \notin {"paddleocr", "tesseract", "nvidia"}
    BY <2>5 DEF EngineBounds
  <2> QED BY <2>3, <2>4, <2>5
<1>4. {cap} \cap (Nat \ {0}) \in {{}, {cap}}
  OBVIOUS
<1>5. Bounds(provider, h, s) \in {{a}, {a, ram}, {a, cap}, {a, ram, cap}}
  BY <1>3, <1>4 DEF Bounds
<1>6. /\ {a} = {a, a, a} /\ {a, ram} = {a, ram, ram} /\ {a, cap} = {a, cap, cap}
  OBVIOUS
<1>7. CASE Bounds(provider, h, s) = {a}
  BY <1>6, <1>7
<1>8. CASE Bounds(provider, h, s) = {a, ram}
  BY <1>2, <1>6, <1>8
<1>9. CASE Bounds(provider, h, s) = {a, cap}
  BY <1>1, <1>6, <1>9
<1>10. CASE Bounds(provider, h, s) = {a, ram, cap}
  BY <1>1, <1>2, <1>10
<1> QED BY <1>5, <1>7, <1>8, <1>9, <1>10

(* A batch can always go on, and no more documents run at a time than any  *)
(* bound allows, the configured cap included ("a ceiling, never a floor"), *)
(* unless the cap itself is below one.                                     *)
THEOREM TightestBound ==
  ASSUME NEW provider, NEW h \in Hosts, NEW s \in Settings
  PROVE LET limit == ResolveConcurrency(provider, h, s)
        IN /\ limit \in Nat /\ limit >= 1
           /\ \A b \in Bounds(provider, h, s) : b >= 1 => limit <= b
<1>1. PICK a, b, c \in Int : Bounds(provider, h, s) = {a, b, c}
  BY BoundsAreThree
<1>2. /\ Least({a, b, c}) \in Int
      /\ Least({a, b, c}) <= a /\ Least({a, b, c}) <= b /\ Least({a, b, c}) <= c
  BY LeastOfThree
<1> QED BY <1>1, <1>2 DEF ResolveConcurrency, Larger

(* What fits into memory, fits.                                            *)
LEMMA RamFits ==
  ASSUME NEW mem \in Nat, NEW per \in Nat \ {0}, NEW reserved \in Nat,
         mem - reserved >= per
  PROVE RamFit(mem, per, reserved) \in Nat \ {0} /\ RamFit(mem, per, reserved) * per + reserved <= mem
<1> DEFINE q == (mem - reserved) \div per
<1>1. q \in Int /\ per * q <= mem - reserved /\ mem - reserved < per * q + per
  OBVIOUS
<1>2. q >= 1
  BY <1>1
<1>3. RamFit(mem, per, reserved) = q
  BY <1>1, <1>2 DEF RamFit, Larger
<1> QED BY <1>1, <1>2, <1>3

(* Sharing a budget among n documents hands out no more than the budget,   *)
(* or one worker each.                                                     *)
LEMMA Shared ==
  ASSUME NEW n \in Nat \ {0}, NEW total \in Nat \ {0}
  PROVE /\ Larger(1, total \div n) \in Nat \ {0}
        /\ n * Larger(1, total \div n) <= Larger(n, total)
<1>1. total \div n \in Nat /\ n * (total \div n) <= total
  OBVIOUS
<1>2. CASE total \div n >= 1
  BY <1>1, <1>2 DEF Larger
<1>3. CASE total \div n < 1
  BY <1>1, <1>3 DEF Larger
<1> QED BY <1>1, <1>2, <1>3

(* Documents that run at the same time share the workers the host has: all *)
(* theirs together are within its CPUs, its memory where that is known,    *)
(* and the setting; or each has a single one.                              *)
THEOREM BudgetRespected ==
  ASSUME NEW provider, NEW h \in Hosts, NEW s \in Settings,
         ResolveConcurrency(provider, h, s) > 1,
         NEW resolved \in Nat, NEW pages \in Nat
  PROVE LET limit == ResolveConcurrency(provider, h, s)
            workers == NumWorkers(resolved, pages, PoolWorkersPerJob(provider, limit, h, s))
            budget == WorkerBudget(provider, h, s)
        IN /\ workers \in Nat \ {0} /\ budget <= Requested(s) /\ budget <= CpuBudget(h, s)
           /\ limit * workers <= Larger(limit, budget)
<1> DEFINE limit == ResolveConcurrency(provider, h, s)
           ram == RamFit(h.mem, PerWorker(provider, s), s.ocr_reserved_memory_mb)
           budget == WorkerBudget(provider, h, s)
           cap == PoolWorkersPerJob(provider, limit, h, s)
           workers == NumWorkers(resolved, pages, cap)
<1>1. limit \in Nat /\ limit > 1
  BY TightestBound
<1>2. budget \in Nat \ {0} /\ budget <= Requested(s) /\ budget <= CpuBudget(h, s)
  <2>1. Requested(s) \in Nat \ {0} /\ CpuBudget(h, s) \in Nat \ {0}
    BY DEF Requested, CpuBudget, Larger, Settings, Hosts
  <2>2. CASE h.mem = Unknown
    <3>1. budget = Smaller(Requested(s), CpuBudget(h, s))
      BY <2>2 DEF WorkerBudget
    <3> QED BY <2>1, <3>1 DEF Smaller
  <2>3. CASE h.mem # Unknown
    <3>1. ram \in Nat \ {0}
      <4>1. h.mem \in Nat /\ PerWorker(provider, s) \in Nat /\ s.ocr_reserved_memory_mb \in Nat
        BY <2>3 DEF Settings, Hosts, PerWorker, Unknown
      <4>2. Larger(1, PerWorker(provider, s)) \in Nat \ {0}
        BY <4>1 DEF Larger
      <4>3. (h.mem - s.ocr_reserved_memory_mb) \div Larger(1, PerWorker(provider, s)) \in Int
        BY <4>1, <4>2
      <4> QED BY <4>3 DEF RamFit, Larger
    <3> HIDE DEF ram
    <3>2. budget = Smaller(Smaller(Requested(s), CpuBudget(h, s)), ram)
      BY <2>3 DEF WorkerBudget, ram
    <3> QED BY <2>1, <3>1, <3>2 DEF Smaller
  <2> QED BY <2>2, <2>3
<1> HIDE DEF limit, budget
<1>3. cap \in Nat \ {0} /\ limit * cap <= Larger(limit, budget)
  <2>1. cap = Larger(1, budget \div limit)
    BY <1>1 DEF PoolWorkersPerJob, budget
  <2> QED BY <1>1, <1>2, <2>1, Shared
<1>4. workers \in Nat \ {0} /\ workers <= cap
  <2> HIDE DEF cap
  <2> QED BY <1>3 DEF NumWorkers, Smaller, Larger, Unknown
<1>5. limit * workers <= Larger(limit, budget)
  <2> HIDE DEF cap, workers
  <2>1. /\ limit * workers <= limit * cap /\ limit * workers \in Nat /\ limit * cap \in Nat
        /\ Larger(limit, budget) \in Nat
    BY <1>1, <1>2, <1>3, <1>4 DEF Larger
  <2> QED BY <1>3, <2>1
<1> QED BY <1>2, <1>4, <1>5 DEF limit, budget

(* However many files of one engine a batch runs at a time and however     *)
(* many pages they have, all their page workers together fit into the      *)
(* host's memory beside what is reserved, if a single one does: the crash  *)
(* the sizing was written against does not come back.                      *)
THEOREM MemoryRespected ==
  ASSUME NEW provider \in {"paddleocr", "tesseract", "nvidia"}, NEW h \in Hosts, NEW s \in Settings,
         h.mem # Unknown, h.mem - s.ocr_reserved_memory_mb >= PerWorker(provider, s),
         ResolveConcurrency(provider, h, s) > 1,
         NEW resolved \in Nat, NEW pages \in Nat
  PROVE LET limit == ResolveConcurrency(provider, h, s)
            workers == NumWorkers(resolved, pages, PoolWorkersPerJob(provider, limit, h, s))
        IN limit * workers * PerWorker(provider, s) + s.ocr_reserved_memory_mb <= h.mem
<1> DEFINE limit == ResolveConcurrency(provider, h, s)
           per == PerWorker(provider, s)
           reserved == s.ocr_reserved_memory_mb
           ram == RamFit(h.mem, per, reserved)
           budget == WorkerBudget(provider, h, s)
           cap == PoolWorkersPerJob(provider, limit, h, s)
           workers == NumWorkers(resolved, pages, cap)
<1>1. per \in Nat \ {0} /\ reserved \in Nat /\ h.mem \in Nat
  BY DEF Settings, Hosts, PerWorker, Unknown
<1>2. ram \in Nat \ {0} /\ ram * per + reserved <= h.mem
  BY <1>1, RamFits
<1>3. limit \in Nat /\ limit > 1 /\ limit <= ram
  <2>1. ram \in Bounds(provider, h, s)
    BY DEF Bounds, EngineBounds, RamBound
  <2> QED BY <1>2, <2>1, TightestBound
<1>4. budget \in Nat \ {0} /\ budget <= ram
  <2>1. Requested(s) \in Nat \ {0} /\ CpuBudget(h, s) \in Nat \ {0}
    BY DEF Requested, CpuBudget, Larger, Settings, Hosts
  <2> HIDE DEF per, reserved
  <2>2. budget = Smaller(Smaller(Requested(s), CpuBudget(h, s)), ram)
    BY DEF WorkerBudget, per, reserved
  <2> QED BY <1>2, <2>1, <2>2 DEF Smaller
<1>5. cap \in Nat \ {0} /\ limit * cap <= ram
  <2> HIDE DEF limit, budget, ram
  <2>1. cap = Larger(1, budget \div limit)
    BY <1>3 DEF PoolWorkersPerJob, budget
  <2>2. cap \in Nat \ {0} /\ limit * cap <= Larger(limit, budget)
    BY <1>3, <1>4, <2>1, Shared
  <2> QED BY <1>2, <1>3, <1>4, <2>2 DEF Larger
<1>6. workers \in Nat /\ workers <= cap
  <2> HIDE DEF cap
  <2> QED BY <1>5 DEF NumWorkers, Smaller, Larger, Unknown
<1>7. limit * workers <= ram
  <2> HIDE DEF limit, cap, ram, workers
  <2>1. limit * workers <= limit * cap /\ limit * workers \in Nat /\ limit * cap \in Nat
    BY <1>3, <1>5, <1>6
  <2> QED BY <1>2, <1>5, <2>1
<1>8. limit * workers * per <= ram * per
  <2> HIDE DEF limit, ram, workers, per
  <2>1. limit * workers \in Nat
    BY <1>3, <1>6
  <2> QED BY <1>1, <1>2, <1>7, <2>1
<1> HIDE DEF limit, workers, per, reserved, ram
<1>9. limit * workers * per \in Int /\ ram * per \in Int
  BY <1>1, <1>2, <1>3, <1>6
<1> QED BY <1>1, <1>2, <1>8, <1>9 DEF limit, workers, per, reserved, cap

(* A file with fewer pages goes first whatever its size, as long as no     *)
(* file has a gigabyte.                                                    *)
THEOREM FewerPagesFirst ==
  ASSUME NEW p \in Nat \ {0}, NEW q \in Nat \ {0}, NEW a \in Nat, NEW b \in Nat,
         p < q, a < Gigabyte
  PROVE EstimateWorkload(p, a) < EstimateWorkload(q, b)
BY DEF EstimateWorkload, Gigabyte

(* A container's limits are respected: the figures used are never above    *)
(* what the host or its container has.                                     *)
THEOREM ContainerLimitsRespected ==
  ASSUME NEW cpus \in Nat \ {0}, NEW memory \in Nat \cup {Unknown},
         NEW quota \in Nat, NEW period \in Nat \ {0}, NEW memoryLimit \in Nat
  PROVE LET h == DetectHostResources(cpus, memory, quota, period, memoryLimit)
        IN /\ h \in Hosts
           /\ h.cpu <= cpus /\ (h.cpu - 1) * period < Larger(quota, 1)
           /\ h.mem <= memoryLimit /\ h.mem # Unknown
<1> DEFINE n == (quota + period - 1) \div period
           h == DetectHostResources(cpus, memory, quota, period, memoryLimit)
<1>1. n \in Nat /\ period * n <= quota + period - 1
  OBVIOUS
<1>2. quota # Unknown /\ CgroupCpuLimit(quota, period) = Larger(1, n)
  BY DEF CgroupCpuLimit, Unknown
<1>3. h.cpu = Smaller(cpus, Larger(1, n)) /\ h.cpu \in Nat \ {0} /\ h.cpu <= cpus /\ h.cpu <= Larger(1, n)
  BY <1>1, <1>2 DEF DetectHostResources, Tighter, Larger, Smaller, Unknown
<1>4. (h.cpu - 1) * period < Larger(quota, 1)
  <2>1. CASE n >= 1
    <3>1. h.cpu - 1 <= n - 1 /\ h.cpu - 1 \in Nat /\ n - 1 \in Nat
      BY <1>1, <1>3, <2>1 DEF Larger
    <3> HIDE DEF n, h
    <3>2. (h.cpu - 1) * period <= (n - 1) * period
      BY <3>1
    <3>3. (n - 1) * period = period * n - period
      BY <1>1
    <3> QED BY <1>1, <3>1, <3>2, <3>3 DEF Larger
  <2>2. CASE n = 0
    <3>1. h.cpu - 1 = 0
      BY <1>3, <2>2 DEF Larger
    <3> QED BY <3>1 DEF Larger
  <2> QED BY <1>1, <2>1, <2>2
<1>5. h.mem \in Nat /\ h.mem <= memoryLimit
  BY DEF DetectHostResources, Tighter, Smaller, Unknown
<1> QED BY <1>3, <1>4, <1>5 DEF Hosts, DetectHostResources, Unknown
-----------------------------------------------------------------------------
(* Which file is next                                                      *)

(* Files that wait or run: each has a cost and a place of its own.         *)
IsQueue(S) ==
  /\ IsFiniteSet(S) /\ Cardinality(S) \in Nat
  /\ \A i \in S : i.score \in Nat /\ i.position \in Nat
  /\ \A i, j \in S : i.position = j.position => i = j

Below(S, i) == {j \in S : Before(j, i)}
IsSmallest(S, i) == i \in S /\ \A j \in S \ {i} : Before(i, j)
IsLargest(S, i) == i \in S /\ \A j \in S \ {i} : Before(j, i)

(* Before orders the files of a queue.                                     *)
LEMMA BeforeOrders ==
  ASSUME NEW S, IsQueue(S), NEW i \in S, NEW j \in S
  PROVE /\ ~Before(i, i)
        /\ i # j => Before(i, j) \/ Before(j, i)
        /\ Before(i, j) => ~Before(j, i) /\ i.score <= j.score
        /\ \A k \in S : Before(i, j) /\ Before(j, k) => Before(i, k)
BY DEF IsQueue, Before

(* Part of a queue is one, and so is what two parts make up.               *)
LEMMA PartOfQueue ==
  ASSUME NEW S, IsQueue(S), NEW T \in SUBSET S
  PROVE IsQueue(T)
<1>1. IsFiniteSet(T) /\ Cardinality(T) \in Nat
  BY FS_Subset, FS_CardinalityType DEF IsQueue
<1> QED BY <1>1 DEF IsQueue

(* What is before a file of n is a set of at most n - 1 others.            *)
LEMMA BelowOthers ==
  ASSUME NEW S, IsQueue(S), NEW i \in S
  PROVE /\ Below(S, i) \in SUBSET (S \ {i})
        /\ IsFiniteSet(S \ {i}) /\ Cardinality(S \ {i}) = Cardinality(S) - 1
        /\ IsFiniteSet(Below(S, i)) /\ Cardinality(Below(S, i)) \in 0 .. Cardinality(S) - 1
<1>1. Below(S, i) \in SUBSET (S \ {i})
  BY BeforeOrders DEF Below
<1>2. IsFiniteSet(S) /\ Cardinality(S) \in Nat
  BY DEF IsQueue
<1>3. IsFiniteSet(S \ {i}) /\ Cardinality(S \ {i}) = Cardinality(S) - 1
  BY <1>2, FS_RemoveElement
<1>4. IsFiniteSet(Below(S, i)) /\ Cardinality(Below(S, i)) <= Cardinality(S \ {i})
  BY <1>1, <1>3, FS_Subset
<1>5. Cardinality(Below(S, i)) \in Nat
  BY <1>4, FS_CardinalityType
<1> QED BY <1>1, <1>2, <1>3, <1>4, <1>5

(* A later file has more before it.                                        *)
LEMMA MoreBelow ==
  ASSUME NEW S, IsQueue(S), NEW i \in S, NEW j \in S, Before(i, j)
  PROVE Cardinality(Below(S, i)) < Cardinality(Below(S, j))
<1>1. Below(S, i) \in SUBSET (Below(S, j) \ {i}) /\ i \in Below(S, j)
  BY BeforeOrders DEF Below
<1>2. IsFiniteSet(Below(S, j)) /\ Cardinality(Below(S, j)) \in Nat
  BY BelowOthers, FS_CardinalityType
<1>3. /\ IsFiniteSet(Below(S, j) \ {i})
      /\ Cardinality(Below(S, j) \ {i}) = Cardinality(Below(S, j)) - 1
  BY <1>1, <1>2, FS_RemoveElement
<1>4. Cardinality(Below(S, i)) <= Cardinality(Below(S, j) \ {i})
  BY <1>1, <1>3, FS_Subset
<1>5. Cardinality(Below(S, i)) \in Nat
  BY BelowOthers, FS_CardinalityType
<1> QED BY <1>2, <1>3, <1>4, <1>5

(* So there is a file of each rank: the ranks of n files are n numbers     *)
(* below n, no two the same.                                               *)
LEMMA RankedExists ==
  ASSUME NEW S, IsQueue(S), NEW k \in 1 .. Cardinality(S)
  PROVE Ranked(S, k) \in S /\ Cardinality(Below(S, Ranked(S, k))) = k - 1
<1> DEFINE n == Cardinality(S)
           rank == [i \in S |-> Cardinality(Below(S, i))]
<1>1. n \in Nat /\ IsFiniteSet(S)
  BY DEF IsQueue
<1>2. rank \in Injection(S, 0 .. n - 1)
  <2>1. rank \in [S -> 0 .. n - 1]
    BY BelowOthers
  <2>2. \A i, j \in S : rank[i] = rank[j] => i = j
    <3> SUFFICES ASSUME NEW i \in S, NEW j \in S, i # j  PROVE rank[i] # rank[j]
      OBVIOUS
    <3>1. rank[i] \in Int /\ rank[j] \in Int
      BY <1>1, <2>1
    <3>2. rank[i] < rank[j] \/ rank[j] < rank[i]
      BY BeforeOrders, MoreBelow
    <3> QED BY <3>1, <3>2
  <2> QED BY <2>1, <2>2 DEF Injection, IsInjective
<1>3. IsFiniteSet(0 .. n - 1) /\ Cardinality(0 .. n - 1) = n
  <2> HIDE DEF n, rank
  <2>1. 0 \in Int /\ n - 1 \in Int /\ (0 > n - 1 <=> n = 0) /\ n - 1 - 0 + 1 = n
    BY <1>1
  <2> QED BY <1>1, <2>1, FS_Interval
<1>4. rank \in Surjection(S, 0 .. n - 1)
  BY <1>2, <1>3, FS_Injection
<1>5. k - 1 \in 0 .. n - 1
  BY <1>1
<1>6. \E i \in S : Cardinality(Below(S, i)) = k - 1
  BY <1>4, <1>5 DEF Surjection
<1> QED BY <1>6 DEF Ranked, Below

(* The first is the smallest and the last is the largest.                  *)
LEMMA EndsOfQueue ==
  ASSUME NEW S, IsQueue(S), S # {}
  PROVE /\ Cardinality(S) >= 1
        /\ IsSmallest(S, Ranked(S, 1)) /\ IsLargest(S, Ranked(S, Cardinality(S)))
<1> DEFINE n == Cardinality(S)
           least == Ranked(S, 1)
           most == Ranked(S, n)
<1>1. n \in Nat /\ n >= 1 /\ IsFiniteSet(S)
  BY FS_EmptySet DEF IsQueue
<1>2. least \in S /\ Cardinality(Below(S, least)) = 0
  BY <1>1, RankedExists
<1>3. most \in S /\ Cardinality(Below(S, most)) = n - 1
  BY <1>1, RankedExists
<1> HIDE DEF least, most
<1>4. Below(S, least) = {}
  <2>1. IsFiniteSet(Below(S, least))
    BY <1>2, BelowOthers
  <2> QED BY <1>2, <2>1, FS_EmptySet
<1>5. Below(S, most) = S \ {most}
  <2>1. /\ Below(S, most) \in SUBSET (S \ {most}) /\ IsFiniteSet(S \ {most})
        /\ Cardinality(S \ {most}) = n - 1
    BY <1>3, BelowOthers
  <2> QED BY <1>3, <2>1, FS_Subset
<1>6. IsSmallest(S, least)
  BY <1>2, <1>4, BeforeOrders DEF Below, IsSmallest
<1>7. IsLargest(S, most)
  BY <1>3, <1>5 DEF Below, IsLargest
<1> QED BY <1>1, <1>6, <1>7 DEF least, most

(* No median is above the largest file.                                    *)
LEMMA MedianWithin ==
  ASSUME NEW S, IsQueue(S), NEW top, IsLargest(S, top)
  PROVE TwiceMedian(S) \in Nat /\ TwiceMedian(S) <= 2 * top.score
<1> DEFINE n == Cardinality(S)
           low == Ranked(S, (n + 1) \div 2)
           high == Ranked(S, n \div 2 + 1)
<1>1. n \in Nat /\ n >= 1 /\ top \in S
  BY EndsOfQueue DEF IsLargest, IsQueue
<1>2. (n + 1) \div 2 \in 1 .. n /\ n \div 2 + 1 \in 1 .. n
  BY <1>1
<1>3. low \in S /\ high \in S
  BY <1>2, RankedExists
<1>4. \A i \in S : i.score <= top.score
  BY <1>1, BeforeOrders DEF IsLargest, IsQueue
<1>5. low.score \in Nat /\ high.score \in Nat /\ top.score \in Nat
  BY <1>1, <1>3 DEF IsQueue
<1>6. TwiceMedian(S) = low.score + high.score
  BY DEF TwiceMedian
<1> HIDE DEF low, high
<1> QED BY <1>3, <1>4, <1>5, <1>6

(* What is picked waits, and is the smallest, or the largest where no long *)
(* file runs: then it is at least as long as the median itself.            *)
LEMMA PickedFile ==
  ASSUME NEW queued, NEW running, NEW lanes \in Nat,
         IsQueue(queued \cup running), queued # {}
  PROVE LET pick == PickNext(queued, running, lanes)
            all == queued \cup running
        IN /\ pick \in queued
           /\ \/ IsSmallest(queued, pick)
              \/ lanes >= 2 /\ 2 * pick.score >= TwiceMedian(all)
<1> DEFINE all == queued \cup running
           pick == PickNext(queued, running, lanes)
<1>1. IsQueue(queued)
  BY PartOfQueue
<1>2. CASE pick = Ranked(queued, 1)
  BY <1>1, <1>2, EndsOfQueue DEF IsSmallest
<1>3. CASE /\ lanes >= 2 /\ pick = Ranked(queued, Cardinality(queued))
           /\ \A r \in running : 2 * r.score < TwiceMedian(all)
  <2>1. IsLargest(queued, pick)
    BY <1>1, <1>3, EndsOfQueue
  <2>2. PICK top : IsLargest(all, top)
    BY EndsOfQueue
  <2>3. TwiceMedian(all) \in Nat /\ TwiceMedian(all) <= 2 * top.score
    BY <2>2, MedianWithin
  <2>4. top \in all /\ top.score \in Nat
    BY <2>2 DEF IsLargest, IsQueue
  <2>5. top \in queued
    <3>1. ~(2 * top.score < TwiceMedian(all))
      <4> HIDE DEF all
      <4> QED BY <2>3, <2>4
    <3> QED BY <1>3, <2>4, <3>1
  <2>6. pick \in queued /\ top.score <= pick.score /\ pick.score \in Nat
    BY <1>1, <2>1, <2>4, <2>5, BeforeOrders DEF IsLargest, IsQueue
  <2> HIDE DEF pick, all
  <2>7. 2 * pick.score >= TwiceMedian(all)
    BY <2>3, <2>4, <2>6
  <2> QED BY <1>3, <2>6, <2>7 DEF pick, all
<1> QED BY <1>2, <1>3 DEF PickNext

(* The file picked is one that waits; with one lane none before it waits;  *)
(* and of two files started in a row at most one is not the smallest that  *)
(* waits ("without giving up early results for small files"), however many *)
(* lanes there are.                                                        *)
THEOREM SmallFilesKeepALane ==
  ASSUME NEW queued, NEW running, NEW lanes \in Nat,
         IsQueue(queued \cup running), queued # {}
  PROVE LET pick == PickNext(queued, running, lanes)
            rest == queued \ {pick}
        IN /\ pick \in queued
           /\ lanes <= 1 => IsSmallest(queued, pick)
           /\ rest # {} /\ ~IsSmallest(queued, pick)
                => IsSmallest(rest, PickNext(rest, running \cup {pick}, lanes))
<1> DEFINE pick == PickNext(queued, running, lanes)
           rest == queued \ {pick}
           all == queued \cup running
<1>1. /\ pick \in queued
      /\ IsSmallest(queued, pick) \/ (lanes >= 2 /\ 2 * pick.score >= TwiceMedian(all))
  BY PickedFile
<1> HIDE DEF pick
<1>2. ASSUME rest # {}, ~IsSmallest(queued, pick)
      PROVE IsSmallest(rest, PickNext(rest, running \cup {pick}, lanes))
  <2>1. rest \cup (running \cup {pick}) = all
    BY <1>1
  <2>2. ~(2 * pick.score < TwiceMedian(all))
    <3>1. pick.score \in Nat
      BY <1>1 DEF IsQueue
    <3>2. TwiceMedian(all) \in Nat
      BY EndsOfQueue, MedianWithin
    <3> QED BY <1>1, <1>2, <3>1, <3>2
  <2>3. PickNext(rest, running \cup {pick}, lanes) = Ranked(rest, 1)
    BY <2>1, <2>2 DEF PickNext
  <2>4. IsQueue(rest)
    BY PartOfQueue
  <2> QED BY <1>2, <2>3, <2>4, EndsOfQueue
<1> QED BY <1>1, <1>2 DEF pick
=============================================================================
