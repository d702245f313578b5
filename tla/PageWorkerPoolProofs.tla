------------------------ MODULE PageWorkerPoolProofs ------------------------
(***************************************************************************)
(* Proofs about PageWorkerPool, for any number of pages, workers, pages    *)
(* per worker and faults: every page is in one place, recycling costs no   *)
(* page, and the pool is the stream of results its docstring promises.     *)
(***************************************************************************)
EXTENDS PageWorkerPool, FiniteSetTheorems, TLAPS

-----------------------------------------------------------------------------
(* Sequences                                                               *)

LEMMA Appended ==
    ASSUME NEW T, NEW q \in Seq(T), NEW r \in T
    PROVE  /\ Append(q, r) \in Seq(T) /\ Append(q, r) # <<>>
           /\ Len(Append(q, r)) = Len(q) + 1
           /\ DOMAIN Append(q, r) = (DOMAIN q) \cup {Len(q) + 1} /\ Len(q) + 1 \notin DOMAIN q
           /\ \A i \in DOMAIN q : Append(q, r)[i] = q[i]
           /\ Append(q, r)[Len(q) + 1] = r
OBVIOUS

LEMMA Removed ==
    ASSUME NEW T, NEW q \in Seq(T), q # <<>>
    PROVE  /\ Head(q) \in T /\ Head(q) = q[1] /\ 1 \in DOMAIN q
           /\ Tail(q) \in Seq(T) /\ Len(Tail(q)) = Len(q) - 1 /\ Len(q) \in Nat \ {0}
           /\ \A i \in DOMAIN Tail(q) : i + 1 \in DOMAIN q /\ Tail(q)[i] = q[i + 1]
           /\ \A i \in DOMAIN q : i # 1 => i - 1 \in DOMAIN Tail(q)
OBVIOUS

-----------------------------------------------------------------------------
(* Types, with what the processes and the parent know of their own state   *)

(* A process has a page in hand while it is busy, and only one that may    *)
(* still leave by itself, or has left, has served all it may.              *)
ChildInv ==
    \A s \in Slot :
        /\ child[s] = "busy" <=> hand[s] # NoPage
        /\ child[s] \in {"loading", "idle", "busy"} => served[s] < MaxPages
        /\ child[s] = "dead" /\ parent # "ended" => served[s] < MaxPages

ParentInv ==
    /\ parent = "submit" => submitted < NumPages
    /\ parent = "handle" => yielded # <<>>
    /\ parent = "join" => slot \in Slot /\ counted[slot] = MaxPages
    /\ \A s \in Slot : parent # "join" \/ slot # s => counted[s] < MaxPages
    /\ reason = "complete" => Len(yielded) >= NumPages

ParentTypeOK ==
    /\ submitted \in 0..NumPages /\ yielded \in Seq(Result)
    /\ counted \in [Slot -> 0..MaxPages]
    /\ parent \in {"submit", "check", "wait", "handle", "join", "close", "reap", "ended"}
    /\ slot \in Slot \cup {NoWorker}
    /\ reason \in {"none", "allDead", "abandoned", "complete"}

ChildTypeOK ==
    /\ outbox \in [Slot -> Seq(Result)]
    /\ child \in [Slot -> {"loading", "idle", "busy", "leaving", "exited", "dead"}]
    /\ hand \in [Slot -> Page \cup {NoPage}] /\ served \in [Slot -> 0..MaxPages]
    /\ lost \in SUBSET Page

QueueTypeOK ==
    /\ tasks \in Seq(Page) /\ sentinels \in 0..NumWorkers /\ results \in Seq(Result)

FaultTypeOK == faults \in [{"crash", "init", "error"} -> Nat]

Typed == ParentTypeOK /\ ChildTypeOK /\ QueueTypeOK /\ FaultTypeOK /\ ChildInv /\ ParentInv

LEMMA Unaffected ==
    ASSUME Typed
    PROVE  /\ UNCHANGED parentVars => ParentTypeOK' /\ ParentInv'
           /\ UNCHANGED childVars => ChildTypeOK'
           /\ UNCHANGED <<child, hand, served>> /\ (parent # "ended" \/ parent' = parent) => ChildInv'
           /\ UNCHANGED <<tasks, sentinels, results>> => QueueTypeOK'
           /\ UNCHANGED faults => FaultTypeOK'
<1>1. UNCHANGED parentVars => ParentTypeOK'
  BY DEF Typed, ParentTypeOK, parentVars
<1>2. UNCHANGED parentVars => ParentInv'
  BY DEF Typed, ParentInv, parentVars
<1>3. UNCHANGED childVars => ChildTypeOK'
  BY DEF Typed, ChildTypeOK, childVars
<1>4. UNCHANGED <<child, hand, served>> /\ (parent # "ended" \/ parent' = parent) => ChildInv'
  BY DEF Typed, ChildInv, ParentTypeOK
<1>5. UNCHANGED <<tasks, sentinels, results>> => QueueTypeOK'
  BY DEF Typed, QueueTypeOK
<1>6. UNCHANGED faults => FaultTypeOK'
  BY DEF Typed, FaultTypeOK
<1> QED
  BY <1>1, <1>2, <1>3, <1>4, <1>5, <1>6

LEMMA Constants ==
    /\ NoPage \notin Page /\ NoWorker \notin Slot /\ Page \subseteq Nat /\ Slot \subseteq Nat
    /\ NumPages \in Nat \ {0} /\ 0 \in Slot
BY PoolConstantsOK DEF Page, Slot, NoPage, NoWorker

(* What a process holds consists of pages.                                 *)
LEMMA HeldPages ==
    ASSUME Typed, NEW s \in Slot
    PROVE  HeldBy(s) \in SUBSET Page
<1>1. hand[s] \in Page \cup {NoPage} /\ outbox[s] \in Seq(Result)
  BY DEF Typed, ChildTypeOK
<1>2. \A i \in DOMAIN outbox[s] : outbox[s][i].page \in Page \cup {NoPage}
  <2> SUFFICES ASSUME NEW i \in DOMAIN outbox[s] PROVE outbox[s][i].page \in Page \cup {NoPage}
    OBVIOUS
  <2>1. outbox[s][i] \in Result
    BY <1>1
  <2> QED BY <2>1 DEF Result
<1> QED
  BY <1>1, <1>2 DEF HeldBy, PagesOf

LEMMA InitTyped == Init => Typed
<1> SUFFICES ASSUME Init PROVE Typed
  OBVIOUS
<1>1. <<>> \in Seq(Result) /\ <<>> \in Seq(Page)
  OBVIOUS
<1> QED
  BY <1>1, Constants, PoolConstantsOK
  DEF Init, Typed, ParentTypeOK, ChildTypeOK, QueueTypeOK, FaultTypeOK, ChildInv, ParentInv

LEMMA ChildTyping ==
    ASSUME Typed, NEW s \in Slot, ChildStep(s) \/ Fault(s)
    PROVE  Typed'
<1> USE PoolConstantsOK
<1>0. /\ ChildTypeOK /\ ChildInv /\ QueueTypeOK /\ FaultTypeOK
      /\ outbox[s] \in Seq(Result)
  BY DEF Typed, ChildTypeOK
<1>1. CASE LoadEngine(s) \/ TakeSentinel(s) \/ Exit(s)
  <2>1. ChildTypeOK'
    BY <1>0, <1>1 DEF LoadEngine, TakeSentinel, Exit, ChildTypeOK
  <2>2. ChildInv'
    BY <1>0, <1>1 DEF LoadEngine, TakeSentinel, Exit, ChildTypeOK, ChildInv, parentVars
  <2>3. QueueTypeOK'
    BY <1>0, <1>1 DEF LoadEngine, TakeSentinel, Exit, QueueTypeOK
  <2> QED BY <1>1, <2>1, <2>2, <2>3, Unaffected DEF LoadEngine, TakeSentinel, Exit, Typed
<1>2. CASE EngineFails(s)
  <2>1. [page |-> NoPage, worker |-> NoWorker] \in Result
    BY DEF Result
  <2>2. Append(outbox[s], [page |-> NoPage, worker |-> NoWorker]) \in Seq(Result)
    BY <1>0, <2>1, Appended
  <2>3. ChildTypeOK'
    BY <1>0, <1>2, <2>2 DEF EngineFails, ChildTypeOK
  <2>4. ChildInv'
    BY <1>0, <1>2 DEF EngineFails, ChildTypeOK, ChildInv, parentVars
  <2>5. FaultTypeOK'
    BY <1>0, <1>2 DEF EngineFails, FaultTypeOK
  <2> QED BY <1>2, <2>3, <2>4, <2>5, Unaffected DEF EngineFails, Typed
<1>3. CASE TakePage(s)
  <2>1. Head(tasks) \in Page /\ Tail(tasks) \in Seq(Page)
    BY <1>0, <1>3, Removed DEF TakePage, QueueTypeOK
  <2>2. ChildTypeOK' /\ ChildInv' /\ QueueTypeOK'
    BY <1>0, <1>3, <2>1, Constants DEF TakePage, HeadTaken, ChildTypeOK, ChildInv, QueueTypeOK, parentVars
  <2> QED BY <1>3, <2>2, Unaffected DEF TakePage, Typed
<1>4. ASSUME NEW who \in {s, NoWorker}, Answer(s, who) PROVE ChildTypeOK' /\ ChildInv' /\ QueueTypeOK' /\ ParentTypeOK' /\ ParentInv'
  <2>1. [page |-> hand[s], worker |-> who] \in Result
    BY <1>0 DEF ChildTypeOK, Result
  <2>2. Append(outbox[s], [page |-> hand[s], worker |-> who]) \in Seq(Result)
    BY <1>0, <2>1, Appended
  <2>3. ChildTypeOK' /\ ChildInv'
    BY <1>0, <1>4, <2>2 DEF Answer, Exhausted, ChildTypeOK, ChildInv, parentVars
  <2> QED BY <1>4, <2>3, Unaffected DEF Answer
<1>5. CASE FinishPage(s)
  BY <1>4, <1>5, Unaffected DEF FinishPage, Typed
<1>6. CASE PageFails(s)
  <2>1. FaultTypeOK'
    BY SMTT(30), <1>0, <1>6 DEF PageFails, FaultTypeOK
  <2> QED BY <1>4, <1>6, <2>1 DEF PageFails, Typed
<1>7. CASE Flush(s)
  <2>1. /\ Head(outbox[s]) \in Result /\ Tail(outbox[s]) \in Seq(Result)
        /\ Append(results, Head(outbox[s])) \in Seq(Result)
    BY <1>0, <1>7, Removed, Appended DEF Flush, QueueTypeOK
  <2>2. ChildTypeOK' /\ QueueTypeOK' /\ ChildInv'
    BY <1>0, <1>7, <2>1, Unaffected DEF Flush, ChildTypeOK, QueueTypeOK, parentVars
  <2> QED BY <1>7, <2>2, Unaffected DEF Flush, Typed
<1>8. CASE Crash(s)
  <2>1. HeldBy(s) \in SUBSET Page /\ <<>> \in Seq(Result)
    BY HeldPages
  <2>2. ChildTypeOK'
    BY <1>0, <1>8, <2>1 DEF Crash, ChildTypeOK
  <2>3. ChildInv'
    BY <1>0, <1>8 DEF Crash, ChildTypeOK, ChildInv, parentVars
  <2>4. FaultTypeOK'
    BY <1>0, <1>8 DEF Crash, FaultTypeOK
  <2> QED BY <1>8, <2>2, <2>3, <2>4, Unaffected DEF Crash, Typed
<1> QED
  BY <1>1, <1>2, <1>3, <1>5, <1>6, <1>7, <1>8 DEF ChildStep, Fault

LEMMA ParentTyping ==
    ASSUME Typed, ParentStep \/ Abandon
    PROVE  Typed'
<1> USE PoolConstantsOK
<1>0. ParentTypeOK /\ ParentInv /\ ChildTypeOK /\ ChildInv /\ QueueTypeOK
  BY DEF Typed
<1>1. CASE SubmitPage
  <2>1. submitted + 1 \in Page
    BY <1>0, <1>1 DEF SubmitPage, ParentTypeOK, ParentInv, Page
  <2>2. QueueTypeOK'
    BY <1>0, <1>1, <2>1, Appended DEF SubmitPage, QueueTypeOK
  <2>3. ParentTypeOK' /\ ParentInv'
    BY <1>0, <1>1, <2>1 DEF SubmitPage, ParentTypeOK, ParentInv, Page
  <2> QED BY <1>1, <2>2, <2>3, Unaffected DEF SubmitPage, Typed, childVars
<1>2. CASE CheckAlive \/ GetTimesOut \/ Complete \/ Abandon
  <2>1. ParentTypeOK' /\ ParentInv'
    BY <1>0, <1>2 DEF CheckAlive, GetTimesOut, Complete, Abandon, End, AllReceived, ParentTypeOK, ParentInv
  <2> QED BY <1>2, <2>1, Unaffected DEF CheckAlive, GetTimesOut, Complete, Abandon, End, Typed, childVars
<1>3. CASE GetResult
  <2>1. Head(results) \in Result /\ Tail(results) \in Seq(Result)
    BY <1>0, <1>3, Removed DEF GetResult, QueueTypeOK
  <2>2. Append(yielded, Head(results)) \in Seq(Result) /\ Append(yielded, Head(results)) # <<>>
        /\ Len(Append(yielded, Head(results))) = Len(yielded) + 1 /\ Len(yielded) \in Nat
    BY <1>0, <2>1, Appended DEF ParentTypeOK
  <2>3. ParentTypeOK' /\ ParentInv' /\ QueueTypeOK'
    BY <1>0, <1>3, <2>1, <2>2 DEF GetResult, ParentTypeOK, ParentInv, QueueTypeOK
  <2> QED BY <1>3, <2>3, Unaffected DEF GetResult, Typed, childVars
<1>4. CASE Count
  <2> DEFINE w == yielded[Len(yielded)].worker
  <2>1. w \in Slot \cup {NoWorker}
    <3>1. yielded # <<>> /\ yielded \in Seq(Result)
      BY <1>0, <1>4 DEF Count, ParentTypeOK, ParentInv
    <3>2. yielded[Len(yielded)] \in Result
      BY <3>1
    <3> QED BY <3>2 DEF Result
  <2>2. CASE w = NoWorker
    BY <1>0, <1>4, <2>1, <2>2, Constants, Unaffected
    DEF Count, ParentTypeOK, ParentInv, Typed, childVars
  <2>3. CASE w # NoWorker
    <3>1. /\ counted' = [counted EXCEPT ![w] = @ + 1]
          /\ IF Exhausted(counted[w] + 1) THEN parent' = "join" /\ slot' = w ELSE parent' = "check" /\ UNCHANGED slot
          /\ UNCHANGED <<submitted, yielded, reason, childVars, tasks, sentinels, results, faults>>
          /\ parent = "handle" /\ w \in Slot
      BY <1>4, <2>1, <2>3 DEF Count
    <3>2. counted[w] < MaxPages /\ counted[w] \in 0..MaxPages
      BY <1>0, <3>1 DEF ParentInv, ParentTypeOK
    <3>3. ParentTypeOK' /\ ParentInv'
      BY <1>0, <3>1, <3>2 DEF Exhausted, ParentTypeOK, ParentInv
    <3> QED BY <3>1, <3>3, Unaffected DEF Typed, childVars
  <2> QED BY <2>2, <2>3
<1>5. CASE Respawn
  <2>1. slot \in Slot /\ HeldBy(slot) \in SUBSET Page /\ <<>> \in Seq(Result)
    BY <1>0, <1>5, HeldPages DEF Respawn, ParentInv
  <2>2. ChildTypeOK' /\ ChildInv' /\ ParentTypeOK' /\ ParentInv'
    BY <1>0, <1>5, <2>1 DEF Respawn, CountReset, ChildTypeOK, ChildInv, ParentTypeOK, ParentInv
  <2> QED BY <1>5, <2>2, Unaffected DEF Respawn, Typed
<1>6. CASE SendSentinels
  <2>1. ParentTypeOK' /\ ParentInv' /\ QueueTypeOK'
    BY <1>0, <1>6 DEF SendSentinels, ParentTypeOK, ParentInv, QueueTypeOK
  <2> QED BY <1>6, <2>1, Unaffected DEF SendSentinels, Typed, childVars
<1>7. CASE Reap
  <2>1. \A s \in Slot : HeldBy(s) \in SUBSET Page
    BY HeldPages
  <2>2. lost' \in SUBSET Page /\ <<>> \in Seq(Result)
    BY <1>0, <1>7, <2>1 DEF Reap, ChildTypeOK
  <2>3. ChildTypeOK' /\ ParentTypeOK' /\ ParentInv'
    BY <1>0, <1>7, <2>2 DEF Reap, Alive, ChildTypeOK, ParentTypeOK, ParentInv
  <2>4. ChildInv'
    BY <1>0, <1>7 DEF Reap, Alive, ChildTypeOK, ChildInv
  <2> QED BY <1>7, <2>3, <2>4, Unaffected DEF Reap, Typed
<1> QED
  BY <1>1, <1>2, <1>3, <1>4, <1>5, <1>6, <1>7 DEF ParentStep

LEMMA Typing == Typed /\ [Next]_vars => Typed'
<1>1. Typed /\ UNCHANGED vars => Typed'
  BY Unaffected DEF vars, childVars, parentVars, Typed
<1> QED BY <1>1, ChildTyping, ParentTyping DEF Next

(* Every variable keeps its type.                                          *)
THEOREM TypeCorrect == Spec => []TypeOK
<1>1. Typed => TypeOK
  BY DEF Typed, TypeOK, ParentTypeOK, ChildTypeOK, QueueTypeOK, FaultTypeOK
<1> QED BY InitTyped, Typing, <1>1, PTL DEF Spec

-----------------------------------------------------------------------------
(* Recycling.  pages_done is never behind what the parent has counted for  *)
(* a process and what of its results is still on the way.                  *)

(* Results in q that carry the name of the process at slot s.              *)
Named(q, s) == Cardinality({i \in DOMAIN q : q[i].worker = s})

LEMMA NamedFacts ==
    ASSUME NEW T, NEW q \in Seq(T), NEW s
    PROVE  /\ Named(q, s) \in Nat
           /\ \A r \in T : Named(Append(q, r), s) = Named(q, s) + (IF r.worker = s THEN 1 ELSE 0)
           /\ q # <<>> => Named(q, s) = Named(Tail(q), s) + (IF Head(q).worker = s THEN 1 ELSE 0)
<1> DEFINE A == {i \in DOMAIN q : q[i].worker = s}
<1>1. IsFiniteSet(A) /\ Cardinality(A) \in Nat
  <2>1. Len(q) \in Nat /\ DOMAIN q = 1..Len(q)
    OBVIOUS
  <2>2. IsFiniteSet(1..Len(q)) /\ A \in SUBSET (1..Len(q))
    BY <2>1, FS_Interval
  <2>3. IsFiniteSet(A)
    BY <2>2, FS_Subset
  <2> QED BY <2>3, FS_CardinalityType
<1>2. ASSUME NEW r \in T PROVE Named(Append(q, r), s) = Named(q, s) + (IF r.worker = s THEN 1 ELSE 0)
  <2> DEFINE B == {i \in DOMAIN Append(q, r) : Append(q, r)[i].worker = s}
  <2>1. Len(q) + 1 \notin A /\ B = IF r.worker = s THEN A \cup {Len(q) + 1} ELSE A
    BY Appended
  <2>2. Cardinality(B) = Cardinality(A) + (IF r.worker = s THEN 1 ELSE 0)
    <3> HIDE DEF A, B
    <3>1. CASE r.worker = s
      <4>1. Cardinality(A \cup {Len(q) + 1}) = Cardinality(A) + 1
        BY <1>1, <2>1, FS_AddElement
      <4> QED BY <2>1, <3>1, <4>1
    <3>2. CASE r.worker # s
      BY <1>1, <2>1, <3>2
    <3> QED BY <3>1, <3>2
  <2> QED BY <2>2 DEF Named
<1>3. ASSUME q # <<>> PROVE Named(q, s) = Named(Tail(q), s) + (IF Head(q).worker = s THEN 1 ELSE 0)
  <2> DEFINE B == {i \in DOMAIN Tail(q) : Tail(q)[i].worker = s}
             f == [i \in B |-> i + 1]
  <2>1. B \subseteq Nat /\ A \subseteq Nat
    BY <1>3, Removed
  <2>2. f \in Bijection(B, A \ {1})
    <3>1. f \in [B -> A \ {1}]
      BY <1>3, <2>1, Removed
    <3>2. \A i, j \in B : f[i] = f[j] => i = j
      BY <2>1
    <3>3. \A j \in A \ {1} : \E i \in B : f[i] = j
      <4> SUFFICES ASSUME NEW j \in A \ {1} PROVE j - 1 \in B /\ f[j - 1] = j
        OBVIOUS
      <4>1. j - 1 \in DOMAIN Tail(q) /\ j \in Nat /\ (j - 1) + 1 = j
        BY <1>3, <2>1, Removed
      <4>2. Tail(q)[j - 1] = q[j]
        BY <1>3, <4>1, Removed
      <4> QED BY <4>1, <4>2
    <3> QED BY <3>1, <3>2, <3>3 DEF Bijection, Injection, Surjection, IsInjective
  <2>3. IsFiniteSet(A \ {1}) /\ Cardinality(A \ {1}) = IF 1 \in A THEN Cardinality(A) - 1 ELSE Cardinality(A)
    BY <1>1, FS_RemoveElement
  <2>4. Cardinality(B) = Cardinality(A \ {1})
    <3>1. IsFiniteSet(B)
      <4>1. DOMAIN Tail(q) = 1..Len(Tail(q)) /\ Len(Tail(q)) \in Nat
        BY <1>3, Removed
      <4> QED BY <4>1, FS_Interval, FS_Subset
    <3>2. ExistsBijection(B, A \ {1})
      BY <2>2 DEF ExistsBijection
    <3> QED BY <3>1, <3>2, FS_Bijection
  <2>5. 1 \in A <=> Head(q).worker = s
    BY <1>3, Removed
  <2>6. Cardinality(A) = Cardinality(B) + (IF Head(q).worker = s THEN 1 ELSE 0)
    <3> HIDE DEF A, B
    <3> QED BY <1>1, <2>3, <2>4, <2>5
  <2> QED BY <2>6 DEF Named
<1> QED BY <1>1, <1>2, <1>3 DEF Named

Handled(s) == IF parent = "handle" /\ yielded[Len(yielded)].worker = s THEN 1 ELSE 0
Unflushed(s) == IF served[s] = 0 THEN 0 ELSE Len(outbox[s])

(* A process whose engine failed has served nothing; its answer has no name. *)
Balance == \A s \in Slot : counted[s] + Named(results, s) + Handled(s) + Unflushed(s) <= served[s]

OutboxInv ==
    \A s \in Slot :
        /\ \A i \in DOMAIN outbox[s] : /\ outbox[s][i].worker \in {s, NoWorker}
                                       /\ served[s] = 0 => outbox[s][i].worker = NoWorker
        /\ served[s] = 0 /\ child[s] \in {"loading", "idle", "busy"} => outbox[s] = <<>>
        /\ child[s] = "loading" => served[s] = 0

CountInv == Balance /\ OutboxInv

LEMMA CountChild ==
    ASSUME Typed, CountInv, NEW u \in Slot, ChildStep(u) \/ Fault(u)
    PROVE  CountInv'
<1>0. /\ \A s \in Slot : /\ outbox[s] \in Seq(Result) /\ served[s] \in Nat /\ counted[s] \in Nat
                         /\ Named(results, s) \in Nat /\ Unflushed(s) \in Nat /\ Handled(s) \in {0, 1}
                         /\ Len(outbox[s]) \in Nat
      /\ results \in Seq(Result) /\ child \in [Slot -> {"loading", "idle", "busy", "leaving", "exited", "dead"}]
      /\ outbox \in [Slot -> Seq(Result)] /\ served \in [Slot -> 0..MaxPages]
  <2>1. results \in Seq(Result) /\ outbox \in [Slot -> Seq(Result)] /\ served \in [Slot -> 0..MaxPages]
        /\ counted \in [Slot -> 0..MaxPages]
        /\ child \in [Slot -> {"loading", "idle", "busy", "leaving", "exited", "dead"}]
    BY DEF Typed, ChildTypeOK, QueueTypeOK, ParentTypeOK
  <2>2. \A s \in Slot : Named(results, s) \in Nat
    BY <2>1, NamedFacts
  <2> QED BY <2>1, <2>2 DEF Unflushed, Handled
<1>n. \A s \in Slot : /\ counted[s] \in Nat /\ Named(results, s) \in Nat /\ Unflushed(s) \in Nat
                       /\ Handled(s) \in {0, 1} /\ served[s] \in Nat
  BY <1>0
<1>b. \A s \in Slot : counted[s] + Named(results, s) + Handled(s) + Unflushed(s) <= served[s]
  BY DEF CountInv, Balance
<1>a. UNCHANGED parentVars => counted' = counted /\ \A s \in Slot : Handled(s)' = Handled(s)
  BY DEF parentVars, Handled
<1>1. CASE LoadEngine(u) \/ TakePage(u) \/ TakeSentinel(u) \/ Exit(u)
  <2>1. /\ UNCHANGED <<served, outbox, results>> /\ UNCHANGED parentVars
        /\ \A s \in Slot : child'[s] \in {"loading", "idle", "busy"} => child[s] \in {"loading", "idle", "busy"}
        /\ \A s \in Slot : child'[s] = "loading" => child[s] = "loading"
    BY <1>0, <1>1 DEF LoadEngine, TakePage, TakeSentinel, Exit
  <2> QED BY <1>a, <2>1 DEF CountInv, Balance, OutboxInv, Unflushed
<1>2. CASE EngineFails(u)
  <2>1. /\ served[u] = 0 /\ child'[u] = "leaving"
        /\ outbox'[u] = Append(outbox[u], [page |-> NoPage, worker |-> NoWorker])
        /\ \A s \in Slot \ {u} : outbox'[s] = outbox[s] /\ child'[s] = child[s]
        /\ UNCHANGED <<served, results>> /\ UNCHANGED parentVars
    BY <1>0, <1>2 DEF EngineFails, CountInv, OutboxInv
  <2>2. \A i \in DOMAIN outbox'[u] : outbox'[u][i].worker = NoWorker
    <3>1. [page |-> NoPage, worker |-> NoWorker] \in Result
      BY DEF Result
    <3> QED BY <1>0, <2>1, <3>1, Appended DEF CountInv, OutboxInv
  <2>3. \A s \in Slot : Unflushed(s)' = Unflushed(s)
    BY <2>1 DEF Unflushed
  <2> QED BY <1>a, <2>1, <2>2, <2>3 DEF CountInv, Balance, OutboxInv
<1>3. ASSUME NEW who \in {u, NoWorker}, Answer(u, who) PROVE CountInv'
  <2> DEFINE r == [page |-> hand[u], worker |-> who]
  <2>1. /\ child[u] = "busy" /\ child'[u] \in {"leaving", "idle"}
        /\ outbox'[u] = Append(outbox[u], r) /\ served'[u] = served[u] + 1
        /\ \A s \in Slot \ {u} : outbox'[s] = outbox[s] /\ child'[s] = child[s] /\ served'[s] = served[s]
        /\ UNCHANGED results /\ UNCHANGED parentVars
    BY <1>0, <1>3 DEF Answer
  <2>2. r \in Result
    BY DEF Typed, ChildTypeOK, Result
  <2>3. Len(outbox'[u]) = Len(outbox[u]) + 1 /\ \A i \in DOMAIN outbox'[u] : outbox'[u][i].worker \in {u, NoWorker}
    BY <1>0, <2>1, <2>2, Appended DEF CountInv, OutboxInv
  <2>4. Unflushed(u)' = Unflushed(u) + 1
    BY <1>0, <2>1, <2>3 DEF CountInv, OutboxInv, Unflushed
  <2>5. \A s \in Slot \ {u} : Unflushed(s)' = Unflushed(s)
    BY <2>1 DEF Unflushed
  <2>6. counted'[u] + Named(results', u) + Handled(u)' + Unflushed(u)' <= served'[u] /\ served'[u] # 0
    BY SMTT(30), <1>n, <1>b, <1>a, <2>1, <2>4
  <2>7. Balance'
    BY <1>b, <1>a, <2>1, <2>5, <2>6 DEF Balance
  <2>8. OutboxInv'
    BY <2>1, <2>3, <2>6 DEF CountInv, OutboxInv
  <2> QED BY <2>7, <2>8 DEF CountInv
<1>4. CASE FinishPage(u) \/ PageFails(u)
  BY <1>3, <1>4 DEF FinishPage, PageFails
<1>5. CASE Flush(u)
  <2> DEFINE r == Head(outbox[u])
  <2>1. /\ outbox[u] # <<>> /\ outbox'[u] = Tail(outbox[u]) /\ results' = Append(results, r)
        /\ \A s \in Slot \ {u} : outbox'[s] = outbox[s]
        /\ UNCHANGED <<child, served>> /\ UNCHANGED parentVars
    BY <1>0, <1>5 DEF Flush
  <2>2. r \in Result /\ r = outbox[u][1] /\ 1 \in DOMAIN outbox[u]
    BY <1>0, <2>1, Removed
  <2>3. r.worker \in {u, NoWorker} /\ (served[u] = 0 => r.worker = NoWorker)
    BY <2>2 DEF CountInv, OutboxInv
  <2>4. \A s \in Slot : Named(results', s) = Named(results, s) + (IF r.worker = s THEN 1 ELSE 0)
    BY <1>0, <2>1, <2>2, NamedFacts
  <2>5. /\ Len(outbox'[u]) = Len(outbox[u]) - 1
        /\ \A i \in DOMAIN outbox'[u] : i + 1 \in DOMAIN outbox[u] /\ outbox'[u][i] = outbox[u][i + 1]
    BY <1>0, <2>1, Removed
  <2>6. \A s \in Slot \ {u} : Unflushed(s)' = Unflushed(s) /\ Named(results', s) = Named(results, s)
    <3>1. \A s \in Slot \ {u} : r.worker # s
      BY <2>3, Constants
    <3>2. \A s \in Slot \ {u} : Named(results', s) = Named(results, s)
      BY <1>n, <2>4, <3>1
    <3> QED BY <2>1, <3>2 DEF Unflushed
  <2>7. Named(results', u) + Unflushed(u)' <= Named(results, u) + Unflushed(u) /\ Unflushed(u)' \in Int
    <3>1. CASE served[u] = 0
      BY <1>0, <2>1, <2>3, <2>4, <3>1, Constants DEF Unflushed
    <3>2. CASE served[u] # 0
      BY <1>0, <2>1, <2>3, <2>4, <2>5, <3>2 DEF Unflushed
    <3> QED BY <3>1, <3>2
  <2>8. counted[u] + Named(results', u) + Handled(u) + Unflushed(u)' <= served[u]
    <3>1. Named(results', u) \in Nat
      BY SMTT(30), <1>0, <2>4
    <3> QED BY <1>n, <1>b, <2>7, <3>1
  <2>9. ~(served[u] = 0 /\ child[u] \in {"loading", "idle", "busy"})
    BY <2>1 DEF CountInv, OutboxInv
  <2>10. Balance'
    BY <1>b, <1>a, <2>1, <2>6, <2>8 DEF Balance
  <2>11. \A i \in DOMAIN outbox'[u] : /\ outbox'[u][i].worker \in {u, NoWorker}
                                      /\ served[u] = 0 => outbox'[u][i].worker = NoWorker
    BY <2>5 DEF CountInv, OutboxInv
  <2>12. OutboxInv'
    BY <2>1, <2>9, <2>11 DEF CountInv, OutboxInv
  <2> QED BY <2>10, <2>12 DEF CountInv
<1>6. CASE Crash(u)
  <2>1. /\ outbox'[u] = <<>> /\ child'[u] = "dead"
        /\ \A s \in Slot \ {u} : outbox'[s] = outbox[s] /\ child'[s] = child[s]
        /\ UNCHANGED <<served, results>> /\ UNCHANGED parentVars
    BY <1>0, <1>6 DEF Crash
  <2>2. Unflushed(u)' = 0 /\ \A s \in Slot \ {u} : Unflushed(s)' = Unflushed(s)
    BY <2>1 DEF Unflushed
  <2>3. counted[u] + Named(results, u) + Handled(u) + 0 <= served[u]
    BY <1>n, <1>b
  <2> QED BY <1>a, <2>1, <2>2, <2>3 DEF CountInv, Balance, OutboxInv
<1> QED BY <1>1, <1>2, <1>4, <1>5, <1>6 DEF ChildStep, Fault

LEMMA CountParent ==
    ASSUME Typed, CountInv, ParentStep \/ Abandon
    PROVE  CountInv'
<1>0. /\ \A s \in Slot : /\ outbox[s] \in Seq(Result) /\ served[s] \in 0..MaxPages /\ counted[s] \in Nat
                         /\ Named(results, s) \in Nat /\ Unflushed(s) \in Nat /\ Handled(s) \in {0, 1}
      /\ results \in Seq(Result) /\ yielded \in Seq(Result)
      /\ outbox \in [Slot -> Seq(Result)] /\ counted \in [Slot -> 0..MaxPages] /\ served \in [Slot -> 0..MaxPages]
      /\ child \in [Slot -> {"loading", "idle", "busy", "leaving", "exited", "dead"}]
  <2>1. results \in Seq(Result) /\ outbox \in [Slot -> Seq(Result)] /\ served \in [Slot -> 0..MaxPages]
        /\ counted \in [Slot -> 0..MaxPages] /\ yielded \in Seq(Result)
        /\ child \in [Slot -> {"loading", "idle", "busy", "leaving", "exited", "dead"}]
    BY DEF Typed, ChildTypeOK, QueueTypeOK, ParentTypeOK
  <2>2. \A s \in Slot : Named(results, s) \in Nat
    BY <2>1, NamedFacts
  <2> QED BY <2>1, <2>2 DEF Unflushed, Handled
<1>n. \A s \in Slot : /\ counted[s] \in Nat /\ Named(results, s) \in Nat /\ Unflushed(s) \in Nat
                       /\ Handled(s) \in {0, 1} /\ served[s] \in Nat
  BY <1>0
<1>b. \A s \in Slot : counted[s] + Named(results, s) + Handled(s) + Unflushed(s) <= served[s]
  BY DEF CountInv, Balance
<1>a. UNCHANGED childVars => UNCHANGED <<served, outbox, child>> /\ \A s \in Slot : Unflushed(s)' = Unflushed(s)
  BY DEF childVars, Unflushed
<1>1. CASE SubmitPage \/ CheckAlive \/ GetTimesOut \/ Complete \/ Abandon \/ SendSentinels
  <2>1. UNCHANGED <<counted, results>> /\ UNCHANGED childVars /\ parent' # "handle"
    BY <1>1 DEF SubmitPage, CheckAlive, GetTimesOut, Complete, Abandon, SendSentinels, End
  <2>2. \A s \in Slot : Handled(s)' = 0
    BY <2>1 DEF Handled
  <2>3. Balance'
    BY <1>n, <1>b, <1>a, <2>1, <2>2 DEF Balance
  <2>4. OutboxInv'
    BY <1>a, <2>1 DEF CountInv, OutboxInv
  <2> QED BY <2>3, <2>4 DEF CountInv
<1>2. CASE GetResult
  <2> DEFINE r == Head(results)
  <2>1. /\ results # <<>> /\ results' = Tail(results) /\ yielded' = Append(yielded, r)
        /\ parent = "wait" /\ parent' = "handle" /\ UNCHANGED counted /\ UNCHANGED childVars
    BY <1>2 DEF GetResult
  <2>2. r \in Result
    BY <1>0, <2>1, Removed
  <2>3. yielded'[Len(yielded')] = r
    BY <1>0, <2>1, <2>2, Appended
  <2>4. \A s \in Slot : Handled(s) = 0 /\ Handled(s)' = IF r.worker = s THEN 1 ELSE 0
    BY <2>1, <2>3 DEF Handled
  <2>5. \A s \in Slot : Named(results, s) = Named(results', s) + (IF r.worker = s THEN 1 ELSE 0)
    BY <1>0, <2>1, NamedFacts
  <2>6. \A s \in Slot : Named(results', s) \in Nat
    BY <1>0, <2>1, Removed, NamedFacts
  <2>7. \A s \in Slot : counted'[s] + Named(results', s) + Handled(s)' + Unflushed(s)' <= served'[s]
    BY <1>n, <1>b, <1>a, <2>1, <2>4, <2>5, <2>6
  <2> QED BY <1>a, <2>1, <2>7 DEF CountInv, Balance, OutboxInv
<1>3. CASE Count
  <2> DEFINE w == yielded[Len(yielded)].worker
  <2>1. /\ UNCHANGED results /\ UNCHANGED childVars /\ parent = "handle" /\ parent' # "handle"
        /\ \A s \in Slot : counted'[s] = IF s = w THEN counted[s] + 1 ELSE counted[s]
    BY <1>0, <1>3, Constants DEF Count
  <2>2. \A s \in Slot : Handled(s)' = 0 /\ Handled(s) = IF s = w THEN 1 ELSE 0
    BY <2>1 DEF Handled
  <2>3. Balance'
    BY <1>n, <1>b, <1>a, <2>1, <2>2 DEF Balance
  <2>4. OutboxInv'
    BY <1>a, <2>1 DEF CountInv, OutboxInv
  <2> QED BY <2>3, <2>4 DEF CountInv
<1>4. CASE Respawn
  <2>1. PICK z \in Slot : z = slot /\ counted[z] = MaxPages /\ parent = "join"
    BY <1>4 DEF Respawn, Typed, ParentInv
  <2>2. Named(results, z) = 0
    <3>1. served[z] \in 0..MaxPages /\ MaxPages \in Nat
      BY <1>0, PoolConstantsOK
    <3> QED BY <1>n, <1>b, <2>1, <3>1
  <2>3. /\ counted'[z] = 0 /\ outbox'[z] = <<>> /\ served'[z] = 0
        /\ \A s \in Slot \ {z} : /\ counted'[s] = counted[s] /\ outbox'[s] = outbox[s]
                                 /\ served'[s] = served[s] /\ child'[s] = child[s]
        /\ UNCHANGED results /\ parent' = "check"
    BY <1>0, <1>4, <2>1 DEF Respawn, CountReset
  <2>4. \A s \in Slot : Handled(s)' = 0 /\ Handled(s) = 0
    BY <2>1, <2>3 DEF Handled
  <2>5. Unflushed(z)' = 0 /\ \A s \in Slot \ {z} : Unflushed(s)' = Unflushed(s)
    BY <2>3 DEF Unflushed
  <2>6. Balance'
    BY <1>n, <1>b, <2>2, <2>3, <2>4, <2>5 DEF Balance
  <2>7. OutboxInv'
    BY <2>3 DEF CountInv, OutboxInv
  <2> QED BY <2>6, <2>7 DEF CountInv
<1>5. CASE Reap
  <2>1. /\ UNCHANGED <<counted, served, results>> /\ parent' # "handle"
        /\ \A s \in Slot : outbox'[s] = <<>> /\ (child'[s] = child[s] \/ child'[s] = "dead")
    BY <1>0, <1>5 DEF Reap
  <2>2. \A s \in Slot : Handled(s)' = 0 /\ Unflushed(s)' = 0
    BY <2>1 DEF Handled, Unflushed
  <2>3. \A s \in Slot : counted[s] + Named(results, s) + 0 + 0 <= served[s]
    BY <1>n, <1>b
  <2> QED BY <2>1, <2>2, <2>3 DEF CountInv, Balance, OutboxInv
<1> QED BY <1>1, <1>2, <1>3, <1>4, <1>5 DEF ParentStep

(* The process the parent waits for has sent everything.                   *)
LEMMA JoinedIsDone == Typed /\ CountInv => RecycleOnlyExhausted
<1> SUFFICES ASSUME Typed, CountInv, parent = "join"
             PROVE  child[slot] \in {"leaving", "exited"} /\ HeldBy(slot) = {}
  BY DEF RecycleOnlyExhausted
<1>1. /\ slot \in Slot /\ counted[slot] = MaxPages /\ served[slot] \in 0..MaxPages
      /\ outbox[slot] \in Seq(Result) /\ results \in Seq(Result)
      /\ child[slot] \in {"loading", "idle", "busy", "leaving", "exited", "dead"}
  BY DEF Typed, ParentInv, ChildTypeOK, QueueTypeOK
<1>2. Named(results, slot) \in Nat /\ Handled(slot) = 0 /\ Len(outbox[slot]) \in Nat
  BY <1>1, NamedFacts DEF Handled
<1>3. served[slot] = MaxPages /\ Len(outbox[slot]) = 0
  BY <1>1, <1>2, PoolConstantsOK DEF CountInv, Balance, Unflushed
<1>4. child[slot] \in {"leaving", "exited"} /\ hand[slot] = NoPage
  BY <1>1, <1>3 DEF Typed, ChildInv
<1>5. PagesOf(outbox[slot]) = {}
  BY <1>1, <1>3 DEF PagesOf
<1> QED BY <1>4, <1>5 DEF HeldBy

(* Recycling costs no page: the process the parent waits for, and may      *)
(* terminate, has handed over every result.  Code: pages_done in           *)
(* _child_main and _pages_done_by_worker in results().                     *)
THEOREM RecyclingCostsNoPage == Spec => []RecycleOnlyExhausted
<1>1. Init => CountInv
  <2> SUFFICES ASSUME Init PROVE CountInv
    OBVIOUS
  <2>1. \A s \in Slot : Named(results, s) = 0
    <3>1. \A s \in Slot : {i \in DOMAIN results : results[i].worker = s} = {}
      BY DEF Init
    <3> QED BY <3>1, FS_EmptySet DEF Named
  <2> QED BY <2>1 DEF Init, CountInv, Balance, OutboxInv, Handled, Unflushed
<1>2. Typed /\ CountInv /\ [Next]_vars => CountInv'
  <2>1. CountInv /\ UNCHANGED vars => CountInv'
    BY DEF CountInv, Balance, OutboxInv, Handled, Unflushed, vars, parentVars, childVars
  <2> QED BY <2>1, CountChild, CountParent DEF Next
<1> QED BY InitTyped, Typing, <1>1, <1>2, JoinedIsDone, PTL DEF Spec

-----------------------------------------------------------------------------
(* Conservation: the places partition the pages, and a step only moves     *)
(* pages from some places into one other.                                  *)

Kind == {"unsent", "tasks", "hand", "outbox", "results", "yielded", "lost"}

InHand(p) == {p} \ {NoPage}

(* The pages at each place; what is not at a process is filed under 0.     *)
contents ==
    [n \in Kind |-> [s \in Slot |->
        IF n = "hand" THEN InHand(hand[s])
        ELSE IF n = "outbox" THEN PagesOf(outbox[s])
        ELSE IF s # 0 THEN {}
        ELSE IF n = "unsent" THEN Page \ 1..submitted
        ELSE IF n = "tasks" THEN Range(tasks)
        ELSE IF n = "results" THEN PagesOf(results)
        ELSE IF n = "yielded" THEN PagesOf(yielded)
        ELSE lost]]

Partition(C) ==
    \A p \in Page :
        \E n \in Kind, s \in Slot :
            /\ p \in C[n][s]
            /\ \A m \in Kind, t \in Slot : p \in C[m][t] => m = n /\ t = s

(* From C to D pages only move, and only to place n, s.                    *)
MovesTo(C, D, n, s) ==
    \A p \in Page :
        /\ \A m \in Kind, t \in Slot : (m # n \/ t # s) /\ p \in D[m][t] => p \in C[m][t]
        /\ \A m \in Kind, t \in Slot : p \in C[m][t] => p \in D[m][t] \/ p \in D[n][s]
        /\ p \in D[n][s] /\ p \notin C[n][s] =>
              \E m \in Kind, t \in Slot : p \in C[m][t] /\ p \notin D[m][t]

LEMMA Moved ==
    ASSUME NEW C, NEW D, Partition(C), NEW n \in Kind, NEW s \in Slot, MovesTo(C, D, n, s)
    PROVE  Partition(D)
<1> SUFFICES ASSUME NEW p \in Page
             PROVE  \E m \in Kind, t \in Slot :
                       /\ p \in D[m][t]
                       /\ \A k \in Kind, u \in Slot : p \in D[k][u] => k = m /\ u = t
  BY DEF Partition
<1>1. PICK m \in Kind, t \in Slot :
          p \in C[m][t] /\ \A k \in Kind, u \in Slot : p \in C[k][u] => k = m /\ u = t
  BY DEF Partition
<1>2. CASE p \in D[n][s]
  <2>1. ASSUME NEW k \in Kind, NEW u \in Slot, p \in D[k][u] PROVE k = n /\ u = s
    <3> SUFFICES ASSUME k # n \/ u # s PROVE FALSE
      OBVIOUS
    <3>1. k = m /\ u = t
      BY <1>1, <2>1 DEF MovesTo
    <3>2. CASE p \in C[n][s]
      BY <1>1, <3>1, <3>2
    <3>3. CASE p \notin C[n][s]
      BY <1>1, <1>2, <2>1, <3>1, <3>3 DEF MovesTo
    <3> QED BY <3>2, <3>3
  <2> QED BY <1>2, <2>1
<1>3. CASE p \notin D[n][s]
  BY <1>1, <1>3 DEF MovesTo
<1> QED BY <1>2, <1>3

(* The pages of M go from place m, t to place n, s.                        *)
Shifts(C, D, m, t, n, s, M) ==
    /\ \A p \in M : p \in C[m][t]
    /\ D[n][s] = C[n][s] \cup M /\ D[m][t] = C[m][t] \ M
    /\ \A k \in Kind, u \in Slot : (k # n \/ u # s) /\ (k # m \/ u # t) => D[k][u] = C[k][u]

LEMMA Shift ==
    ASSUME NEW C, NEW D, NEW m \in Kind, NEW t \in Slot, NEW n \in Kind, NEW s \in Slot, NEW M,
           Partition(C), n # m, Shifts(C, D, m, t, n, s, M)
    PROVE  Partition(D)
<1> USE DEF Shifts
<1>1. ASSUME NEW p, NEW k \in Kind, NEW u \in Slot, k # n \/ u # s, p \in D[k][u]
      PROVE  p \in C[k][u]
  <2>1. CASE k = m /\ u = t
    BY <1>1, <2>1
  <2>2. CASE ~(k = m /\ u = t)
    BY <1>1, <2>2
  <2> QED BY <2>1, <2>2
<1>2. ASSUME NEW p, NEW k \in Kind, NEW u \in Slot, p \in C[k][u]
      PROVE  p \in D[k][u] \/ p \in D[n][s]
  <2>1. CASE k = m /\ u = t
    BY <1>2, <2>1
  <2>2. CASE k = n /\ u = s
    BY <1>2, <2>2
  <2>3. CASE ~(k = m /\ u = t) /\ ~(k = n /\ u = s)
    BY <1>2, <2>3
  <2> QED BY <2>1, <2>2, <2>3
<1>3. ASSUME NEW p, p \in D[n][s], p \notin C[n][s] PROVE p \in C[m][t] /\ p \notin D[m][t]
  BY <1>3
<1>4. MovesTo(C, D, n, s)
  BY <1>1, <1>2, <1>3 DEF MovesTo
<1> QED BY <1>4, Moved

Distinct(q) ==
    \A i, j \in DOMAIN q : q[i].page = q[j].page /\ q[i].page # NoPage => i = j

LEMMA Contents ==
    /\ \A s \in Slot :
        /\ contents["hand"][s] = InHand(hand[s])
        /\ contents["outbox"][s] = PagesOf(outbox[s])
        /\ contents["unsent"][s] = IF s = 0 THEN Page \ 1..submitted ELSE {}
        /\ contents["tasks"][s] = IF s = 0 THEN Range(tasks) ELSE {}
        /\ contents["results"][s] = IF s = 0 THEN PagesOf(results) ELSE {}
        /\ contents["yielded"][s] = IF s = 0 THEN PagesOf(yielded) ELSE {}
        /\ contents["lost"][s] = IF s = 0 THEN lost ELSE {}
    /\ \A s \in Slot :
        /\ contents'["hand"][s] = InHand(hand'[s])
        /\ contents'["outbox"][s] = PagesOf(outbox'[s])
        /\ contents'["unsent"][s] = IF s = 0 THEN Page \ 1..submitted' ELSE {}
        /\ contents'["tasks"][s] = IF s = 0 THEN Range(tasks') ELSE {}
        /\ contents'["results"][s] = IF s = 0 THEN PagesOf(results') ELSE {}
        /\ contents'["yielded"][s] = IF s = 0 THEN PagesOf(yielded') ELSE {}
        /\ contents'["lost"][s] = IF s = 0 THEN lost' ELSE {}
<1>1. \A s \in Slot : (PagesOf(outbox[s]))' = PagesOf(outbox'[s])
  BY DEF PagesOf
<1>3. \A s \in Slot : (InHand(hand[s]))' = InHand(hand'[s])
  BY DEF InHand
<1>2. (Range(tasks))' = Range(tasks') /\ (PagesOf(results))' = PagesOf(results') /\ (PagesOf(yielded))' = PagesOf(yielded')
  BY DEF PagesOf, Range
<1> QED BY <1>1, <1>2, <1>3 DEF contents, Kind

(* A page that goes in at the end of a queue, and one taken off its head.  *)
LEMMA QueueEnds ==
    ASSUME NEW q \in Seq(Result)
    PROVE  /\ \A r \in Result : /\ PagesOf(Append(q, r)) = PagesOf(q) \cup ({r.page} \ {NoPage})
                                /\ Distinct(q) /\ r.page \notin PagesOf(q) => Distinct(Append(q, r))
           /\ q # <<>> => /\ PagesOf(q) = PagesOf(Tail(q)) \cup ({Head(q).page} \ {NoPage})
                          /\ Distinct(q) => Distinct(Tail(q)) /\ Head(q).page \notin PagesOf(Tail(q))
<1>1. ASSUME NEW r \in Result PROVE PagesOf(Append(q, r)) = PagesOf(q) \cup ({r.page} \ {NoPage})
  BY Appended DEF PagesOf
<1>2. ASSUME NEW r \in Result, Distinct(q), r.page \notin PagesOf(q) PROVE Distinct(Append(q, r))
  BY <1>2, Appended DEF PagesOf, Distinct
<1>3. ASSUME q # <<>> PROVE PagesOf(q) = PagesOf(Tail(q)) \cup ({Head(q).page} \ {NoPage})
  <2>1. \A x : x \in PagesOf(q) => x \in PagesOf(Tail(q)) \cup ({Head(q).page} \ {NoPage})
    <3> SUFFICES ASSUME NEW i \in DOMAIN q, i # 1, q[i].page # NoPage
                 PROVE  q[i].page \in PagesOf(Tail(q))
      BY <1>3, Removed DEF PagesOf
    <3>1. i - 1 \in DOMAIN Tail(q) /\ (i - 1) + 1 = i
      BY <1>3, Removed
    <3>2. Tail(q)[i - 1] = q[i]
      BY <1>3, <3>1, Removed
    <3> QED BY <3>1, <3>2 DEF PagesOf
  <2>2. \A x : x \in PagesOf(Tail(q)) \cup ({Head(q).page} \ {NoPage}) => x \in PagesOf(q)
    BY <1>3, Removed DEF PagesOf
  <2> QED BY <2>1, <2>2
<1>4. ASSUME q # <<>>, Distinct(q) PROVE Distinct(Tail(q)) /\ Head(q).page \notin PagesOf(Tail(q))
  <2>1. \A i \in DOMAIN Tail(q) : i + 1 \in DOMAIN q /\ Tail(q)[i] = q[i + 1] /\ i \in Nat /\ i # 0
    BY <1>4, Removed
  <2>2. Distinct(Tail(q))
    BY <1>4, <2>1 DEF Distinct
  <2>3. Head(q) = q[1] /\ 1 \in DOMAIN q
    BY <1>4, Removed
  <2>4. \A i \in DOMAIN Tail(q) : Tail(q)[i].page # NoPage => Tail(q)[i].page # Head(q).page
    BY <1>4, <2>1, <2>3 DEF Distinct
  <2> QED BY <2>2, <2>4 DEF PagesOf
<1> QED BY <1>1, <1>2, <1>3, <1>4

LEMMA TaskEnds ==
    ASSUME NEW q \in Seq(Page), IsInjective(q)
    PROVE  /\ \A p \in Page : /\ Range(Append(q, p)) = Range(q) \cup {p}
                              /\ p \notin Range(q) => IsInjective(Append(q, p))
           /\ q # <<>> => /\ Range(Tail(q)) = Range(q) \ {Head(q)} /\ Head(q) \in Range(q)
                          /\ IsInjective(Tail(q))
<1>1. ASSUME NEW p \in Page
      PROVE  /\ Range(Append(q, p)) = Range(q) \cup {p}
             /\ p \notin Range(q) => IsInjective(Append(q, p))
  BY Appended DEF Range, IsInjective
<1>2. ASSUME q # <<>>
      PROVE  /\ Range(Tail(q)) = Range(q) \ {Head(q)} /\ Head(q) \in Range(q)
             /\ IsInjective(Tail(q))
  <2> DEFINE b == Tail(q)
  <2>1. \A i \in DOMAIN b : i + 1 \in DOMAIN q /\ b[i] = q[i + 1] /\ i \in Nat /\ i # 0
    BY <1>2, Removed
  <2>2. Head(q) = q[1] /\ 1 \in DOMAIN q
    BY <1>2, Removed
  <2>3. IsInjective(b)
    BY <2>1 DEF IsInjective
  <2>4. ASSUME NEW i \in DOMAIN b PROVE b[i] \in Range(q) \ {Head(q)}
    BY <2>1, <2>2 DEF IsInjective, Range
  <2>5. ASSUME NEW i \in DOMAIN q, q[i] # Head(q) PROVE q[i] \in Range(b)
    <3>1. i # 1 /\ i - 1 \in DOMAIN b /\ (i - 1) + 1 = i
      BY <1>2, <2>2, <2>5, Removed
    <3> QED BY <2>1, <3>1 DEF Range
  <2> QED BY <2>2, <2>3, <2>4, <2>5 DEF Range
<1> QED BY <1>1, <1>2

(* The places of what does not change.                                     *)
LEMMA SamePlaces ==
    ASSUME NEW s \in Slot
    PROVE  /\ UNCHANGED hand => contents'["hand"][s] = contents["hand"][s]
           /\ UNCHANGED outbox => contents'["outbox"][s] = contents["outbox"][s]
           /\ UNCHANGED submitted => contents'["unsent"][s] = contents["unsent"][s]
           /\ UNCHANGED tasks => contents'["tasks"][s] = contents["tasks"][s]
           /\ UNCHANGED results => contents'["results"][s] = contents["results"][s]
           /\ UNCHANGED yielded => contents'["yielded"][s] = contents["yielded"][s]
           /\ UNCHANGED lost => contents'["lost"][s] = contents["lost"][s]
<1>1. UNCHANGED hand => contents'["hand"][s] = contents["hand"][s]
  BY Contents
<1>7. ASSUME UNCHANGED outbox PROVE contents'["outbox"][s] = contents["outbox"][s]
  <2>1. PagesOf(outbox'[s]) = PagesOf(outbox[s])
    BY <1>7
  <2> QED BY <2>1, Contents
<1>2. UNCHANGED submitted => contents'["unsent"][s] = contents["unsent"][s]
  BY Contents
<1>3. UNCHANGED tasks => contents'["tasks"][s] = contents["tasks"][s]
  BY Contents
<1>4. UNCHANGED results => contents'["results"][s] = contents["results"][s]
  BY Contents
<1>5. UNCHANGED yielded => contents'["yielded"][s] = contents["yielded"][s]
  BY Contents
<1>6. UNCHANGED lost => contents'["lost"][s] = contents["lost"][s]
  BY Contents
<1> QED BY <1>1, <1>2, <1>3, <1>4, <1>5, <1>6, <1>7

(* What else keeps the pages apart: no queue holds one twice, and the      *)
(* processes that are gone hold nothing.                                   *)
QueuesInv ==
    /\ Distinct(results) /\ Distinct(yielded) /\ IsInjective(tasks)
    /\ \A s \in Slot : Distinct(outbox[s])
    /\ \A s \in Slot : child[s] \in {"exited", "dead"} => outbox[s] = <<>>

PlaceInv == Partition(contents) /\ QueuesInv

LEMMA SameQueues ==
    ASSUME QueuesInv
    PROVE  /\ UNCHANGED results => Distinct(results')
           /\ UNCHANGED yielded => Distinct(yielded')
           /\ UNCHANGED tasks => IsInjective(tasks')
           /\ \A s \in Slot : outbox'[s] = outbox[s] => Distinct(outbox'[s])
           /\ Distinct(results') /\ Distinct(yielded') /\ IsInjective(tasks')
              /\ (\A s \in Slot : Distinct(outbox'[s]))
              /\ (\A s \in Slot : child'[s] \in {"exited", "dead"} => outbox'[s] = <<>>)
              => QueuesInv'
<1>1. /\ (Distinct(results))' = Distinct(results') /\ (Distinct(yielded))' = Distinct(yielded')
      /\ (IsInjective(tasks))' = IsInjective(tasks')
      /\ \A s \in Slot : (Distinct(outbox[s]))' = Distinct(outbox'[s])
  BY DEF Distinct, IsInjective
<1> QED BY <1>1 DEF QueuesInv

(* Nothing changes place.                                                  *)
LEMMA Still ==
    ASSUME PlaceInv, UNCHANGED <<submitted, tasks, hand, outbox, results, yielded, lost>>,
           \A s \in Slot : child'[s] \in {"exited", "dead"} =>
                               child[s] \in {"exited", "dead"} \/ outbox[s] = <<>>
    PROVE  PlaceInv'
<1>1. \A n \in Kind, s \in Slot : contents'[n][s] = contents[n][s]
  BY SamePlaces DEF Kind
<1>2. Partition(contents')
  BY <1>1 DEF PlaceInv, Partition
<1>3. (Partition(contents))' = Partition(contents')
  BY DEF Partition
<1>4. QueuesInv'
  BY SameQueues DEF PlaceInv, QueuesInv
<1> QED BY <1>2, <1>3, <1>4 DEF PlaceInv

(* Processes are gone and what they held is lost.                          *)
Drops(S) ==
    /\ UNCHANGED <<submitted, tasks, results, yielded>>
    /\ \A s \in Slot \ S : \/ outbox'[s] = outbox[s] /\ hand'[s] = hand[s]
                           \/ HeldBy(s) = {} /\ outbox'[s] = <<>> /\ hand'[s] = NoPage
    /\ \A s \in S : outbox'[s] = <<>> /\ hand'[s] = NoPage
    /\ lost' = lost \cup UNION {HeldBy(s) : s \in S}

LEMMA Dropped ==
    ASSUME PlaceInv, NEW S \in SUBSET Slot, Drops(S)
    PROVE  Partition(contents')
<1>1. \A s \in Slot : HeldBy(s) = contents["hand"][s] \cup contents["outbox"][s]
  BY Contents DEF HeldBy, InHand
<1>2. PagesOf(<<>>) = {} /\ InHand(NoPage) = {}
  BY DEF PagesOf, InHand
<1> USE DEF Drops
<1>3. \A s \in S : contents'["hand"][s] = {} /\ contents'["outbox"][s] = {}
  BY <1>2, Contents
<1>4. ASSUME NEW s \in Slot, s \notin S
      PROVE  contents'["hand"][s] = contents["hand"][s] /\ contents'["outbox"][s] = contents["outbox"][s]
  <2>1. CASE outbox'[s] = outbox[s] /\ hand'[s] = hand[s]
    <3>1. PagesOf(outbox'[s]) = PagesOf(outbox[s]) /\ InHand(hand'[s]) = InHand(hand[s])
      BY <2>1
    <3>2. contents'["hand"][s] = contents["hand"][s]
      BY SMTT(30), <3>1, Contents
    <3>3. contents'["outbox"][s] = PagesOf(outbox'[s]) /\ contents["outbox"][s] = PagesOf(outbox[s])
      BY Contents
    <3> QED BY <3>1, <3>2, <3>3
  <2>2. CASE HeldBy(s) = {} /\ outbox'[s] = <<>> /\ hand'[s] = NoPage
    <3>1. contents["hand"][s] = {} /\ contents["outbox"][s] = {}
      BY <1>1, <2>2
    <3>2. contents'["hand"][s] = {} /\ contents'["outbox"][s] = {}
      BY <1>2, <2>2, Contents
    <3> QED BY <3>1, <3>2
  <2> QED BY <1>4, <2>1, <2>2
<1>5. \A p : p \in contents'["lost"][0] <=>
                 p \in contents["lost"][0] \/ \E s \in S : p \in contents["hand"][s] \/ p \in contents["outbox"][s]
  <2>1. 0 \in Slot /\ contents'["lost"][0] = lost' /\ contents["lost"][0] = lost
    BY Contents, Constants
  <2> QED BY <1>1, <2>1
<1>6. \A s \in Slot \ {0} : contents'["lost"][s] = contents["lost"][s]
  BY Contents
<1>7. \A n \in Kind \ {"hand", "outbox", "lost"}, s \in Slot : contents'[n][s] = contents[n][s]
  BY SamePlaces DEF Kind
<1>8. MovesTo(contents, contents', "lost", 0)
  <2> SUFFICES ASSUME NEW p \in Page
               PROVE  /\ \A m \in Kind, t \in Slot :
                            (m # "lost" \/ t # 0) /\ p \in contents'[m][t] => p \in contents[m][t]
                      /\ \A m \in Kind, t \in Slot :
                            p \in contents[m][t] => p \in contents'[m][t] \/ p \in contents'["lost"][0]
                      /\ p \in contents'["lost"][0] /\ p \notin contents["lost"][0] =>
                            \E m \in Kind, t \in Slot : p \in contents[m][t] /\ p \notin contents'[m][t]
    BY DEF MovesTo
  <2>1. ASSUME NEW m \in Kind, NEW t \in Slot, m # "lost" \/ t # 0, p \in contents'[m][t]
        PROVE  p \in contents[m][t]
    BY <1>3, <1>4, <1>6, <1>7, <2>1
  <2>2. ASSUME NEW m \in Kind, NEW t \in Slot, p \in contents[m][t]
        PROVE  p \in contents'[m][t] \/ p \in contents'["lost"][0]
    BY <1>4, <1>5, <1>6, <1>7, <2>2
  <2>3. ASSUME p \in contents'["lost"][0], p \notin contents["lost"][0]
        PROVE  \E m \in Kind, t \in Slot : p \in contents[m][t] /\ p \notin contents'[m][t]
    BY <1>3, <1>5, <2>3 DEF Kind
  <2> QED BY <2>1, <2>2, <2>3
<1> QED BY <1>8, Constants, Moved DEF PlaceInv, Kind

LEMMA PlaceChild ==
    ASSUME Typed, PlaceInv, NEW u \in Slot, ChildStep(u) \/ Fault(u)
    PROVE  PlaceInv'
<1>0. /\ outbox \in [Slot -> Seq(Result)] /\ hand \in [Slot -> Page \cup {NoPage}]
      /\ child \in [Slot -> {"loading", "idle", "busy", "leaving", "exited", "dead"}]
      /\ results \in Seq(Result) /\ tasks \in Seq(Page) /\ outbox[u] \in Seq(Result)
      /\ \A s \in Slot : child[s] = "busy" <=> hand[s] # NoPage
      /\ 0 \in Slot /\ NoPage \notin Page
  BY Constants DEF Typed, ChildTypeOK, QueueTypeOK, ChildInv
<1>q. QueuesInv /\ Partition(contents)
  BY DEF PlaceInv
<1>p. Partition(contents') /\ QueuesInv' => PlaceInv'
  BY DEF PlaceInv, Partition
<1>1. CASE LoadEngine(u) \/ TakeSentinel(u) \/ Exit(u)
  <2>1. UNCHANGED <<submitted, tasks, hand, outbox, results, yielded, lost>>
    BY <1>1 DEF LoadEngine, TakeSentinel, Exit, parentVars
  <2>2. \A s \in Slot : child'[s] \in {"exited", "dead"} =>
                               child[s] \in {"exited", "dead"} \/ outbox[s] = <<>>
    BY <1>0, <1>1 DEF LoadEngine, TakeSentinel, Exit
  <2> QED BY <2>1, <2>2, Still
<1>2. CASE TakePage(u)
  <2>1. /\ hand[u] = NoPage /\ Head(tasks) \in Page /\ tasks' = Tail(tasks) /\ tasks # <<>>
        /\ hand' = [hand EXCEPT ![u] = Head(tasks)] /\ child' = [child EXCEPT ![u] = "busy"]
        /\ UNCHANGED <<submitted, outbox, results, yielded, lost>>
    BY <1>0, <1>2, Removed DEF TakePage, HeadTaken, parentVars
  <2>2. /\ Range(tasks') = Range(tasks) \ {Head(tasks)}
        /\ Head(tasks) \in Range(tasks) /\ IsInjective(tasks')
    BY <1>0, <1>q, <2>1, TaskEnds DEF QueuesInv
  <2>3. contents'["hand"][u] = contents["hand"][u] \cup {Head(tasks)}
    BY <1>0, <2>1, Contents DEF InHand
  <2>4. \A s \in Slot \ {u} : contents'["hand"][s] = contents["hand"][s]
    BY <1>0, <2>1, Contents
  <2>5. /\ contents'["tasks"][0] = contents["tasks"][0] \ {Head(tasks)}
        /\ \A p \in {Head(tasks)} : p \in contents["tasks"][0]
    BY <1>0, <2>2, Contents
  <2>6. \A s \in Slot \ {0} : contents'["tasks"][s] = contents["tasks"][s]
    BY Contents
  <2>7. \A n \in Kind \ {"hand", "tasks"}, s \in Slot : contents'[n][s] = contents[n][s]
    BY <2>1, SamePlaces DEF Kind
  <2>8. Partition(contents')
    <3>1. \A n \in Kind, s \in Slot : (n # "hand" \/ s # u) /\ (n # "tasks" \/ s # 0) =>
                                        contents'[n][s] = contents[n][s]
      BY <2>4, <2>6, <2>7
    <3>2. Shifts(contents, contents', "tasks", 0, "hand", u, {Head(tasks)})
      BY <2>3, <2>5, <3>1 DEF Shifts
    <3>3. "hand" \in Kind /\ "tasks" \in Kind /\ "hand" # "tasks"
      BY DEF Kind
    <3> QED BY <1>0, <1>q, <3>2, <3>3, Shift
  <2>9. \A s \in Slot : child'[s] \in {"exited", "dead"} => outbox'[s] = <<>>
    BY <1>0, <1>q, <2>1 DEF QueuesInv
  <2>10. QueuesInv'
    BY <1>q, <2>1, <2>2, <2>9, SameQueues
  <2> QED BY <1>p, <2>8, <2>10
<1>3. CASE EngineFails(u)
  <2> DEFINE r == [page |-> NoPage, worker |-> NoWorker]
  <2>1. /\ r \in Result /\ outbox' = [outbox EXCEPT ![u] = Append(outbox[u], r)]
        /\ child' = [child EXCEPT ![u] = "leaving"]
        /\ UNCHANGED <<submitted, tasks, hand, results, yielded, lost>>
    BY <1>3 DEF EngineFails, parentVars, Result
  <2> HIDE DEF r
  <2>2. /\ PagesOf(Append(outbox[u], r)) = PagesOf(outbox[u]) \cup ({NoPage} \ {NoPage})
        /\ Distinct(Append(outbox[u], r))
    <3>1. r.page = NoPage /\ NoPage \notin PagesOf(outbox[u])
      BY DEF PagesOf, r
    <3> QED BY <1>0, <1>q, <2>1, <3>1, QueueEnds DEF QueuesInv
  <2>3. \A s \in Slot : PagesOf(outbox'[s]) = PagesOf(outbox[s])
    <3>1. \A s \in Slot \ {u} : outbox'[s] = outbox[s]
      BY <1>0, <2>1
    <3>2. outbox'[u] = Append(outbox[u], r)
      BY <1>0, <2>1
    <3> QED BY <2>2, <3>1, <3>2
  <2>4. \A s \in Slot : contents'["outbox"][s] = contents["outbox"][s]
    BY <2>3, Contents
  <2>5. \A n \in Kind, s \in Slot : contents'[n][s] = contents[n][s]
    BY <2>1, <2>4, SamePlaces DEF Kind
  <2>6. Partition(contents')
    BY <1>q, <2>5 DEF Partition
  <2>7. \A s \in Slot : Distinct(outbox'[s]) /\ (child'[s] \in {"exited", "dead"} => outbox'[s] = <<>>)
    BY <1>0, <1>q, <2>1, <2>2 DEF QueuesInv
  <2>8. QueuesInv'
    BY <1>q, <2>1, <2>7, SameQueues
  <2> QED BY <1>p, <2>6, <2>8
<1>4. ASSUME NEW who \in {u, NoWorker}, Answer(u, who) PROVE PlaceInv'
  <2> DEFINE r == [page |-> hand[u], worker |-> who]
  <2>1. /\ r \in Result /\ r.page = hand[u] /\ hand[u] \in Page
        /\ outbox' = [outbox EXCEPT ![u] = Append(outbox[u], r)]
        /\ hand' = [hand EXCEPT ![u] = NoPage]
        /\ \A s \in Slot : child'[s] \in {"exited", "dead"} => child[s] \in {"exited", "dead"} /\ s # u
        /\ UNCHANGED <<submitted, tasks, results, yielded, lost>>
    BY <1>0, <1>4 DEF Answer, parentVars, Result
  <2> HIDE DEF r
  <2>2. hand[u] \in contents["hand"][u] /\ contents["hand"][u] = {hand[u]}
    BY <1>0, <2>1, Contents DEF InHand
  <2>3. hand[u] \notin PagesOf(outbox[u])
    <3>1. hand[u] \notin contents["outbox"][u]
      BY <1>q, <2>1, <2>2 DEF Partition, Kind
    <3> QED BY <3>1, Contents
  <2>4. /\ PagesOf(Append(outbox[u], r)) = PagesOf(outbox[u]) \cup {hand[u]}
        /\ Distinct(Append(outbox[u], r))
    BY <1>0, <1>q, <2>1, <2>3, QueueEnds DEF QueuesInv
  <2>5. /\ outbox'[u] = Append(outbox[u], r) /\ hand'[u] = NoPage
        /\ \A s \in Slot \ {u} : outbox'[s] = outbox[s] /\ hand'[s] = hand[s]
    BY <1>0, <2>1
  <2>6. Partition(contents')
    <3>1. contents'["outbox"][u] = contents["outbox"][u] \cup {hand[u]}
      BY ZenonT(60), <2>4, <2>5, Contents
    <3>2. contents'["hand"][u] = contents["hand"][u] \ {hand[u]}
      BY <2>2, <2>5, Contents DEF InHand
    <3>3. \A s \in Slot \ {u} : contents'["outbox"][s] = contents["outbox"][s]
      BY <2>5, Contents
    <3>4. \A s \in Slot \ {u} : contents'["hand"][s] = contents["hand"][s]
      BY <2>5, Contents
    <3>5. \A n \in Kind \ {"hand", "outbox"}, s \in Slot : contents'[n][s] = contents[n][s]
      BY <2>1, SamePlaces DEF Kind
    <3>6. Shifts(contents, contents', "hand", u, "outbox", u, {hand[u]})
      BY <2>2, <3>1, <3>2, <3>3, <3>4, <3>5 DEF Shifts
    <3> QED BY <1>0, <1>q, <3>6, Shift DEF Kind
  <2>7. \A s \in Slot : Distinct(outbox'[s]) /\ (child'[s] \in {"exited", "dead"} => outbox'[s] = <<>>)
    BY <1>0, <1>q, <2>1, <2>4, <2>5 DEF QueuesInv
  <2>8. QueuesInv'
    BY <1>q, <2>1, <2>7, SameQueues
  <2> QED BY <1>p, <2>6, <2>8
<1>5. CASE FinishPage(u) \/ PageFails(u)
  BY <1>4, <1>5 DEF FinishPage, PageFails
<1>6. CASE Flush(u)
  <2> DEFINE r == Head(outbox[u])
  <2>1. /\ r \in Result /\ outbox[u] # <<>>
        /\ outbox' = [outbox EXCEPT ![u] = Tail(outbox[u])] /\ results' = Append(results, r)
        /\ UNCHANGED <<submitted, tasks, hand, yielded, lost, child>>
    BY <1>0, <1>6, Removed DEF Flush, parentVars
  <2> DEFINE M == {r.page} \ {NoPage}
  <2>2. /\ PagesOf(outbox[u]) = PagesOf(Tail(outbox[u])) \cup M
        /\ r.page \notin PagesOf(Tail(outbox[u])) /\ Distinct(Tail(outbox[u]))
    BY <1>0, <1>q, <2>1, QueueEnds DEF QueuesInv
  <2> HIDE DEF r
  <2>3. r.page \notin PagesOf(results)
    <3>1. CASE r.page = NoPage
      BY <3>1 DEF PagesOf
    <3>2. CASE r.page # NoPage
      <4>1. r.page \in Page
        BY <2>1, <3>2 DEF Result
      <4>2. r.page \in contents["outbox"][u]
        BY <2>2, <3>2, Contents
      <4>3. r.page \notin contents["results"][0]
        BY <1>0, <1>q, <4>1, <4>2 DEF Partition, Kind
      <4> QED BY <1>0, <4>3, Contents
    <3> QED BY <3>1, <3>2
  <2>4. PagesOf(results') = PagesOf(results) \cup M /\ Distinct(results')
    BY <1>0, <1>q, <2>1, <2>3, QueueEnds DEF QueuesInv
  <2>5. outbox'[u] = Tail(outbox[u]) /\ \A s \in Slot \ {u} : outbox'[s] = outbox[s]
    BY <1>0, <2>1
  <2>6. Partition(contents')
    <3>1. contents'["results"][0] = contents["results"][0] \cup M
      BY <1>0, <2>4, Contents
    <3>2. contents'["outbox"][u] = contents["outbox"][u] \ M /\ \A p \in M : p \in contents["outbox"][u]
      BY <2>2, <2>5, Contents
    <3>3. \A s \in Slot \ {u} : contents'["outbox"][s] = contents["outbox"][s]
      BY <2>5, Contents
    <3>4. \A s \in Slot \ {0} : contents'["results"][s] = contents["results"][s]
      BY Contents
    <3>5. \A n \in Kind \ {"results", "outbox"}, s \in Slot : contents'[n][s] = contents[n][s]
      BY <2>1, SamePlaces DEF Kind
    <3> HIDE DEF M
    <3>6. Shifts(contents, contents', "outbox", u, "results", 0, M)
      BY <3>1, <3>2, <3>3, <3>4, <3>5 DEF Shifts
    <3> QED BY <1>0, <1>q, <3>6, Shift DEF Kind
  <2>7. \A s \in Slot : Distinct(outbox'[s]) /\ (child'[s] \in {"exited", "dead"} => outbox'[s] = <<>>)
    BY <1>0, <1>6, <1>q, <2>1, <2>2, <2>5 DEF QueuesInv, Flush, Alive
  <2>8. QueuesInv'
    BY <1>q, <2>1, <2>4, <2>7, SameQueues
  <2> QED BY <1>p, <2>6, <2>8
<1>7. CASE Crash(u)
  <2>1. /\ lost' = lost \cup UNION {HeldBy(s) : s \in {u}}
        /\ outbox'[u] = <<>> /\ hand'[u] = NoPage
        /\ \A s \in Slot \ {u} : outbox'[s] = outbox[s] /\ hand'[s] = hand[s] /\ child'[s] = child[s]
        /\ UNCHANGED <<submitted, tasks, results, yielded>>
    BY <1>0, <1>7 DEF Crash, parentVars
  <2>2. Partition(contents')
    <3>1. Drops({u})
      BY <2>1 DEF Drops
    <3> QED BY <2>1, <3>1, Dropped
  <2>3. \A s \in Slot : Distinct(outbox'[s]) /\ (child'[s] \in {"exited", "dead"} => outbox'[s] = <<>>)
    BY <1>q, <2>1 DEF QueuesInv, Distinct
  <2>4. QueuesInv'
    BY <1>q, <2>1, <2>3, SameQueues
  <2> QED BY <1>p, <2>2, <2>4
<1> QED BY <1>1, <1>2, <1>3, <1>5, <1>6, <1>7 DEF ChildStep, Fault

LEMMA PlaceParent ==
    ASSUME Typed, PlaceInv, ParentStep \/ Abandon
    PROVE  PlaceInv'
<1>0. /\ outbox \in [Slot -> Seq(Result)] /\ hand \in [Slot -> Page \cup {NoPage}]
      /\ child \in [Slot -> {"loading", "idle", "busy", "leaving", "exited", "dead"}]
      /\ results \in Seq(Result) /\ yielded \in Seq(Result) /\ tasks \in Seq(Page)
      /\ \A s \in Slot : child[s] = "busy" <=> hand[s] # NoPage
      /\ 0 \in Slot /\ NoPage \notin Page /\ submitted \in Nat
  BY Constants DEF Typed, ChildTypeOK, QueueTypeOK, ChildInv, ParentTypeOK
<1>q. QueuesInv /\ Partition(contents)
  BY DEF PlaceInv
<1>p. Partition(contents') /\ QueuesInv' => PlaceInv'
  BY DEF PlaceInv, Partition
<1>1. CASE CheckAlive \/ GetTimesOut \/ Complete \/ Count \/ SendSentinels \/ Abandon
  <2>1. UNCHANGED <<submitted, tasks, hand, outbox, results, yielded, lost, child>>
    BY <1>1 DEF CheckAlive, GetTimesOut, Complete, Count, SendSentinels, Abandon, End, childVars
  <2> QED BY <2>1, Still
<1>2. CASE SubmitPage
  <2>1. /\ submitted + 1 \in Page /\ submitted' = submitted + 1 /\ tasks' = Append(tasks, submitted + 1)
        /\ UNCHANGED <<hand, outbox, results, yielded, lost, child>>
    BY <1>0, <1>2, PoolConstantsOK DEF SubmitPage, Page, childVars, Typed, ParentTypeOK, ParentInv
  <2>2. submitted + 1 \in contents["unsent"][0] /\ contents["unsent"][0] = Page \ 1..submitted
    BY <1>0, <2>1, Contents
  <2>3. submitted + 1 \notin Range(tasks)
    <3>1. submitted + 1 \notin contents["tasks"][0]
      BY <1>0, <1>q, <2>1, <2>2 DEF Partition, Kind
    <3> QED BY <1>0, <3>1, Contents
  <2>4. Range(tasks') = Range(tasks) \cup {submitted + 1} /\ IsInjective(tasks')
    BY <1>0, <1>q, <2>1, <2>3, TaskEnds DEF QueuesInv
  <2>5. Partition(contents')
    <3>1. contents'["tasks"][0] = contents["tasks"][0] \cup {submitted + 1}
      BY <1>0, <2>4, Contents
    <3>2. contents'["unsent"][0] = contents["unsent"][0] \ {submitted + 1}
      <4>1. contents'["unsent"][0] = Page \ 1..(submitted + 1)
        BY <1>0, <2>1, Contents
      <4> QED BY <1>0, <2>2, <4>1 DEF Page
    <3>3. \A s \in Slot \ {0} : contents'["tasks"][s] = contents["tasks"][s]
      BY Contents
    <3>4. \A s \in Slot \ {0} : contents'["unsent"][s] = contents["unsent"][s]
      BY Contents
    <3>5. \A n \in Kind \ {"tasks", "unsent"}, s \in Slot : contents'[n][s] = contents[n][s]
      BY <2>1, SamePlaces DEF Kind
    <3>6. Shifts(contents, contents', "unsent", 0, "tasks", 0, {submitted + 1})
      BY <2>2, <3>1, <3>2, <3>3, <3>4, <3>5 DEF Shifts
    <3> QED BY <1>0, <1>q, <3>6, Shift DEF Kind
  <2>6. QueuesInv'
    BY <1>q, <2>1, <2>4, SameQueues DEF QueuesInv
  <2> QED BY <1>p, <2>5, <2>6
<1>3. CASE GetResult
  <2> DEFINE r == Head(results)
             M == {r.page} \ {NoPage}
  <2>1. /\ r \in Result /\ results # <<>> /\ results' = Tail(results) /\ yielded' = Append(yielded, r)
        /\ UNCHANGED <<submitted, tasks, hand, outbox, lost, child>>
    BY <1>0, <1>3, Removed DEF GetResult, childVars
  <2>2. /\ PagesOf(results) = PagesOf(results') \cup M
        /\ r.page \notin PagesOf(results') /\ Distinct(results')
    BY <1>0, <1>q, <2>1, QueueEnds DEF QueuesInv
  <2> HIDE DEF r
  <2>3. r.page \notin PagesOf(yielded)
    <3>1. CASE r.page = NoPage
      BY <3>1 DEF PagesOf
    <3>2. CASE r.page # NoPage
      <4>1. r.page \in Page
        BY <2>1, <3>2 DEF Result
      <4>2. r.page \in contents["results"][0]
        BY <1>0, <2>2, <3>2, Contents
      <4>3. r.page \notin contents["yielded"][0]
        BY <1>0, <1>q, <4>1, <4>2 DEF Partition, Kind
      <4> QED BY <1>0, <4>3, Contents
    <3> QED BY <3>1, <3>2
  <2>4. PagesOf(yielded') = PagesOf(yielded) \cup M /\ Distinct(yielded')
    BY <1>0, <1>q, <2>1, <2>3, QueueEnds DEF QueuesInv
  <2>5. Partition(contents')
    <3>1. contents'["yielded"][0] = contents["yielded"][0] \cup M
      BY <1>0, <2>4, Contents
    <3>2. contents'["results"][0] = contents["results"][0] \ M /\ \A p \in M : p \in contents["results"][0]
      BY <1>0, <2>2, Contents
    <3>3. \A s \in Slot \ {0} : contents'["yielded"][s] = contents["yielded"][s]
      BY Contents
    <3>4. \A s \in Slot \ {0} : contents'["results"][s] = contents["results"][s]
      BY Contents
    <3>5. \A n \in Kind \ {"results", "yielded"}, s \in Slot : contents'[n][s] = contents[n][s]
      BY <2>1, SamePlaces DEF Kind
    <3> HIDE DEF M
    <3>6. Shifts(contents, contents', "results", 0, "yielded", 0, M)
      BY <3>1, <3>2, <3>3, <3>4, <3>5 DEF Shifts
    <3> QED BY <1>0, <1>q, <3>6, Shift DEF Kind
  <2>6. QueuesInv'
    BY <1>q, <2>1, <2>2, <2>4, SameQueues DEF QueuesInv
  <2> QED BY <1>p, <2>5, <2>6
<1>4. CASE Respawn
  <2>1. /\ slot \in Slot /\ outbox'[slot] = <<>> /\ hand'[slot] = NoPage /\ child'[slot] = "loading"
        /\ lost' = lost \cup UNION {HeldBy(s) : s \in {slot}}
        /\ \A s \in Slot \ {slot} : outbox'[s] = outbox[s] /\ hand'[s] = hand[s] /\ child'[s] = child[s]
        /\ UNCHANGED <<submitted, tasks, results, yielded>>
    BY <1>0, <1>4 DEF Respawn, Typed, ParentInv
  <2>2. Partition(contents')
    <3>1. Drops({slot})
      BY <2>1 DEF Drops
    <3> QED BY <2>1, <3>1, Dropped
  <2>3. \A s \in Slot : Distinct(outbox'[s]) /\ (child'[s] \in {"exited", "dead"} => outbox'[s] = <<>>)
    BY <1>q, <2>1 DEF QueuesInv, Distinct
  <2>4. QueuesInv'
    BY <1>q, <2>1, <2>3, SameQueues
  <2> QED BY <1>p, <2>2, <2>4
<1>5. CASE Reap
  <2>1. /\ lost' = lost \cup UNION {HeldBy(s) : s \in {t \in Slot : Alive(t)}}
        /\ \A s \in Slot : outbox'[s] = <<>> /\ hand'[s] = NoPage
        /\ UNCHANGED <<submitted, tasks, results, yielded>>
    BY <1>5 DEF Reap
  <2>2. \A s \in Slot : ~Alive(s) => HeldBy(s) = {}
    <3> SUFFICES ASSUME NEW s \in Slot, ~Alive(s) PROVE HeldBy(s) = {}
      OBVIOUS
    <3>1. child[s] \in {"exited", "dead"}
      BY <1>0 DEF Alive
    <3>2. outbox[s] = <<>> /\ hand[s] = NoPage
      BY <1>0, <1>q, <3>1 DEF QueuesInv
    <3> QED BY <3>2 DEF HeldBy, PagesOf
  <2>3. Partition(contents')
    <3>1. Drops({t \in Slot : Alive(t)})
      BY <2>1, <2>2 DEF Drops
    <3> QED BY <3>1, Dropped
  <2>4. \A s \in Slot : Distinct(outbox'[s])
    BY <2>1 DEF Distinct
  <2>5. QueuesInv'
    BY <1>q, <2>1, <2>4, SameQueues
  <2> QED BY <1>p, <2>3, <2>5
<1> QED BY <1>1, <1>2, <1>3, <1>4, <1>5 DEF ParentStep

LEMMA PlacesInitially == Init => PlaceInv
<1> SUFFICES ASSUME Init PROVE PlaceInv
  OBVIOUS
<1>1. 0 \in Slot /\ NoPage \notin Page /\ Page \subseteq Nat
  BY Constants
<1>2. PagesOf(<<>>) = {} /\ Range(<<>>) = {} /\ InHand(NoPage) = {}
  BY DEF PagesOf, Range, InHand
<1>3. contents["unsent"][0] = Page
  <2>1. Page \ 1..0 = Page
    BY <1>1
  <2> QED BY <1>1, <2>1, Contents DEF Init
<1>4. \A s \in Slot \ {0} : contents["unsent"][s] = {}
  BY Contents
<1>5. \A n \in Kind \ {"unsent"}, s \in Slot : contents[n][s] = {}
  BY <1>2, Contents DEF Init, Kind
<1>6. Partition(contents)
  BY <1>1, <1>3, <1>4, <1>5 DEF Partition, Kind
<1>7. QueuesInv
  BY DEF Init, QueuesInv, Distinct, IsInjective
<1> QED BY <1>6, <1>7 DEF PlaceInv

LEMMA Places == Typed /\ PlaceInv /\ [Next]_vars => PlaceInv'
<1>1. PlaceInv /\ UNCHANGED vars => PlaceInv'
  BY Still DEF vars, parentVars, childVars
<1> QED BY <1>1, PlaceChild, PlaceParent DEF Next

(* What a spot says of the page it is a spot of.                           *)
SpotSays(p, n, s, i) ==
    /\ p \in contents[n][s]
    /\ \/ n = "tasks" /\ i \in DOMAIN tasks /\ tasks[i] = p
       \/ n = "outbox" /\ i \in DOMAIN outbox[s] /\ outbox[s][i].page = p
       \/ n = "results" /\ i \in DOMAIN results /\ results[i].page = p
       \/ n = "yielded" /\ i \in DOMAIN yielded /\ yielded[i].page = p
       \/ n \in {"unsent", "hand", "lost"} /\ i = 0

LEMMA SpotOf ==
    ASSUME Typed, NEW p \in Page, NEW x \in Spots(p)
    PROVE  \E n \in Kind, s \in Slot, i \in Nat : x = <<n, s, i>> /\ SpotSays(p, n, s, i)
<1>0. /\ 0 \in Slot /\ p # NoPage /\ 0 \in Nat
      /\ tasks \in Seq(Page) /\ results \in Seq(Result) /\ yielded \in Seq(Result)
      /\ outbox \in [Slot -> Seq(Result)] /\ submitted \in Nat
  BY Constants DEF Typed, QueueTypeOK, ParentTypeOK, ChildTypeOK
<1>1. CASE x \in UnsentSpots(p)
  <2>1. x = <<"unsent", 0, 0>> /\ p \in contents["unsent"][0]
    BY <1>0, <1>1, Contents DEF UnsentSpots
  <2> QED BY <1>0, <2>1 DEF SpotSays, Kind
<1>2. CASE x \in TaskSpots(p)
  <2>1. PICK i \in DOMAIN tasks : tasks[i] = p /\ x = <<"tasks", 0, i>>
    BY <1>2 DEF TaskSpots
  <2>2. i \in Nat /\ p \in Range(tasks)
    BY <1>0, <2>1 DEF Range
  <2>3. p \in contents["tasks"][0]
    BY <1>0, <2>2, Contents
  <2> QED BY <1>0, <2>1, <2>2, <2>3 DEF SpotSays, Kind
<1>3. CASE x \in HandSpots(p)
  <2>1. PICK s \in Slot : hand[s] = p /\ x = <<"hand", s, 0>>
    BY <1>3 DEF HandSpots
  <2>2. p \in contents["hand"][s]
    BY <1>0, <2>1, Contents DEF InHand
  <2> QED BY <1>0, <2>1, <2>2 DEF SpotSays, Kind
<1>4. CASE x \in OutboxSpots(p)
  <2>1. PICK s \in Slot : \E i \in DOMAIN outbox[s] : outbox[s][i].page = p /\ x = <<"outbox", s, i>>
    BY <1>4 DEF OutboxSpots
  <2>2. PICK i \in DOMAIN outbox[s] : outbox[s][i].page = p /\ x = <<"outbox", s, i>>
    BY <2>1
  <2>3. p \in PagesOf(outbox[s]) /\ i \in Nat
    BY <1>0, <2>2 DEF PagesOf
  <2>4. p \in contents["outbox"][s]
    BY <2>3, Contents
  <2> QED BY <2>2, <2>3, <2>4 DEF SpotSays, Kind
<1>5. CASE x \in ResultSpots(p)
  <2>1. PICK i \in DOMAIN results : results[i].page = p /\ x = <<"results", 0, i>>
    BY <1>5 DEF ResultSpots
  <2>2. p \in PagesOf(results) /\ i \in Nat
    BY <1>0, <2>1 DEF PagesOf
  <2>3. p \in contents["results"][0]
    BY <1>0, <2>2, Contents
  <2> QED BY <1>0, <2>1, <2>2, <2>3 DEF SpotSays, Kind
<1>6. CASE x \in YieldedSpots(p)
  <2>1. PICK i \in DOMAIN yielded : yielded[i].page = p /\ x = <<"yielded", 0, i>>
    BY <1>6 DEF YieldedSpots
  <2>2. p \in PagesOf(yielded) /\ i \in Nat
    BY <1>0, <2>1 DEF PagesOf
  <2>3. p \in contents["yielded"][0]
    BY <1>0, <2>2, Contents
  <2> QED BY <1>0, <2>1, <2>2, <2>3 DEF SpotSays, Kind
<1>7. CASE x \in LostSpots(p)
  <2>1. x = <<"lost", 0, 0>> /\ p \in contents["lost"][0]
    BY <1>0, <1>7, Contents DEF LostSpots
  <2> QED BY <1>0, <2>1 DEF SpotSays, Kind
<1> QED BY <1>1, <1>2, <1>3, <1>4, <1>5, <1>6, <1>7 DEF Spots

LEMMA SomeSpot ==
    ASSUME Typed, NEW p \in Page, NEW n \in Kind, NEW s \in Slot, p \in contents[n][s]
    PROVE  Spots(p) # {}
<1>1. CASE n = "unsent"
  <2>1. p \in {p} \ 1..submitted
    BY <1>1, Contents
  <2>2. <<"unsent", 0, 0>> \in UnsentSpots(p)
    BY <2>1 DEF UnsentSpots
  <2> QED BY <2>2 DEF Spots
<1>2. CASE n = "tasks"
  <2>1. p \in Range(tasks)
    BY <1>2, Contents
  <2>2. PICK i \in DOMAIN tasks : tasks[i] = p
    BY <2>1 DEF Range
  <2>3. <<"tasks", 0, i>> \in TaskSpots(p)
    BY <2>2 DEF TaskSpots
  <2> QED BY <2>3 DEF Spots
<1>3. CASE n = "hand"
  <2>1. hand[s] = p
    BY <1>3, Contents DEF InHand
  <2>2. <<"hand", s, 0>> \in HandSpots(p)
    BY <2>1 DEF HandSpots
  <2> QED BY <2>2 DEF Spots
<1>4. CASE n = "outbox"
  <2>1. p \in PagesOf(outbox[s])
    BY <1>4, Contents
  <2>2. PICK i \in DOMAIN outbox[s] : outbox[s][i].page = p
    BY <2>1 DEF PagesOf
  <2>3. <<"outbox", s, i>> \in {<<"outbox", s, k>> : k \in {j \in DOMAIN outbox[s] : outbox[s][j].page = p}}
    BY <2>2
  <2>4. <<"outbox", s, i>> \in OutboxSpots(p)
    BY <2>3 DEF OutboxSpots
  <2> QED BY <2>4 DEF Spots
<1>5. CASE n = "results"
  <2>1. p \in PagesOf(results)
    BY <1>5, Contents
  <2>2. PICK i \in DOMAIN results : results[i].page = p
    BY <2>1 DEF PagesOf
  <2>3. <<"results", 0, i>> \in ResultSpots(p)
    BY <2>2 DEF ResultSpots
  <2> QED BY <2>3 DEF Spots
<1>6. CASE n = "yielded"
  <2>1. p \in PagesOf(yielded)
    BY <1>6, Contents
  <2>2. PICK i \in DOMAIN yielded : yielded[i].page = p
    BY <2>1 DEF PagesOf
  <2>3. <<"yielded", 0, i>> \in YieldedSpots(p)
    BY <2>2 DEF YieldedSpots
  <2> QED BY <2>3 DEF Spots
<1>7. CASE n = "lost"
  <2>1. p \in {p} \cap lost
    BY <1>7, Contents
  <2>2. <<"lost", 0, 0>> \in LostSpots(p)
    BY <2>1 DEF LostSpots
  <2> QED BY <2>2 DEF Spots
<1> QED BY <1>1, <1>2, <1>3, <1>4, <1>5, <1>6, <1>7 DEF Kind

LEMMA OneSpot == Typed /\ PlaceInv => PagesConserved
<1> SUFFICES ASSUME Typed, PlaceInv, NEW p \in Page PROVE Cardinality(Spots(p)) = 1
  BY DEF PagesConserved
<1>0. p # NoPage
  BY Constants
<1>1. PICK n \in Kind, s \in Slot :
          p \in contents[n][s] /\ \A m \in Kind, t \in Slot : p \in contents[m][t] => m = n /\ t = s
  BY DEF PlaceInv, Partition
<1>2. \A i, j \in Nat : SpotSays(p, n, s, i) /\ SpotSays(p, n, s, j) => i = j
  BY <1>0 DEF SpotSays, PlaceInv, QueuesInv, Distinct, IsInjective
<1>3. \A x, y \in Spots(p) : x = y
  <2> SUFFICES ASSUME NEW x \in Spots(p), NEW y \in Spots(p) PROVE x = y
    OBVIOUS
  <2>1. PICK n1 \in Kind, s1 \in Slot, i1 \in Nat : x = <<n1, s1, i1>> /\ SpotSays(p, n1, s1, i1)
    BY SpotOf
  <2>2. PICK n2 \in Kind, s2 \in Slot, i2 \in Nat : y = <<n2, s2, i2>> /\ SpotSays(p, n2, s2, i2)
    BY SpotOf
  <2>3. n1 = n /\ s1 = s /\ n2 = n /\ s2 = s
    BY <1>1, <2>1, <2>2 DEF SpotSays
  <2>4. i1 = i2
    BY <1>2, <2>1, <2>2, <2>3
  <2> QED BY <2>1, <2>2, <2>3, <2>4
<1>4. PICK x : Spots(p) = {x}
  <2>1. Spots(p) # {}
    BY <1>1, SomeSpot
  <2> QED BY <1>3, <2>1
<1> QED BY <1>4, FS_Singleton

(* Every page is in exactly one place at any time, recycling, crashes and  *)
(* shutdown included.  Code: task_q, result_q and the processes between    *)
(* them.                                                                   *)
THEOREM PagesAreConserved == Spec => []PagesConserved
BY InitTyped, Typing, PlacesInitially, Places, OneSpot, PTL DEF Spec

-----------------------------------------------------------------------------
(* Completion.  Every page yielded once and NumPages results yielded make  *)
(* all pages, provided no result lacks its page.                           *)

AllNamed(q) == \A i \in DOMAIN q : q[i].page # NoPage

NamedInv ==
    faults.init = 0 => AllNamed(results) /\ AllNamed(yielded) /\ \A s \in Slot : AllNamed(outbox[s])

LEMMA NamedStep == Typed /\ NamedInv /\ [Next]_vars => NamedInv'
<1> SUFFICES ASSUME Typed, NamedInv, [Next]_vars, faults'.init = 0
             PROVE  AllNamed(results') /\ AllNamed(yielded') /\ \A s \in Slot : AllNamed(outbox'[s])
  BY DEF NamedInv, AllNamed
<1>0. /\ outbox \in [Slot -> Seq(Result)] /\ hand \in [Slot -> Page \cup {NoPage}]
      /\ results \in Seq(Result) /\ yielded \in Seq(Result)
      /\ \A s \in Slot : child[s] = "busy" <=> hand[s] # NoPage
      /\ faults \in [{"crash", "init", "error"} -> Nat]
  BY DEF Typed, ChildTypeOK, QueueTypeOK, ParentTypeOK, ChildInv, FaultTypeOK
<1>t. ASSUME NEW q \in Seq(Result), AllNamed(q)
      PROVE  /\ \A r \in Result : r.page # NoPage => AllNamed(Append(q, r))
             /\ q # <<>> => AllNamed(Tail(q)) /\ Head(q) \in Result /\ Head(q).page # NoPage
  <2>1. \A r \in Result : r.page # NoPage => AllNamed(Append(q, r))
    BY <1>t, Appended DEF AllNamed
  <2>2. q # <<>> => AllNamed(Tail(q)) /\ Head(q) \in Result /\ Head(q).page # NoPage
    BY <1>t, Removed DEF AllNamed
  <2> QED BY <2>1, <2>2
<1>e. AllNamed(<<>>)
  BY DEF AllNamed
<1>1. ASSUME faults.init = 0 PROVE AllNamed(results) /\ AllNamed(yielded) /\ \A s \in Slot : AllNamed(outbox[s])
  BY <1>1 DEF NamedInv
<1>2. CASE UNCHANGED <<results, yielded, outbox, faults>>
  BY <1>1, <1>2
<1>3. ASSUME NEW s \in Slot, NEW who \in {s, NoWorker}, Answer(s, who), faults.init = 0
      PROVE  AllNamed(results') /\ AllNamed(yielded') /\ \A u \in Slot : AllNamed(outbox'[u])
  <2> DEFINE r == [page |-> hand[s], worker |-> who]
  <2>1. r \in Result /\ r.page # NoPage
    BY <1>0, <1>3 DEF Answer, Result
  <2>2. UNCHANGED <<results, yielded>> /\ outbox' = [outbox EXCEPT ![s] = Append(outbox[s], r)]
    BY <1>3 DEF Answer, parentVars
  <2> HIDE DEF r
  <2>3. AllNamed(Append(outbox[s], r))
    BY <1>0, <1>1, <1>3, <1>t, <2>1
  <2> QED BY <1>0, <1>1, <1>3, <2>2, <2>3
<1>4. CASE \E s \in Slot : FinishPage(s) \/ PageFails(s)
  <2>1. faults.init = 0
    BY <1>0, <1>4 DEF FinishPage, PageFails
  <2> QED BY <1>3, <1>4, <2>1 DEF FinishPage, PageFails
<1>5. CASE \E s \in Slot : EngineFails(s)
  BY <1>0, <1>5 DEF EngineFails
<1>6. CASE \E s \in Slot : Flush(s)
  <2>1. PICK s \in Slot : Flush(s)
    BY <1>6
  <2>2. /\ faults.init = 0 /\ UNCHANGED yielded /\ outbox[s] # <<>>
        /\ results' = Append(results, Head(outbox[s]))
        /\ outbox' = [outbox EXCEPT ![s] = Tail(outbox[s])]
    BY <2>1 DEF Flush, parentVars
  <2>3. AllNamed(results') /\ AllNamed(Tail(outbox[s]))
    BY <1>0, <1>1, <1>t, <2>2
  <2> QED BY <1>0, <1>1, <2>2, <2>3
<1>7. CASE GetResult
  <2>1. /\ faults.init = 0 /\ UNCHANGED outbox /\ results # <<>>
        /\ yielded' = Append(yielded, Head(results)) /\ results' = Tail(results)
    BY <1>7 DEF GetResult, childVars
  <2>2. AllNamed(results') /\ AllNamed(yielded')
    BY <1>0, <1>1, <1>t, <2>1
  <2> QED BY <1>1, <2>1, <2>2
<1>8. CASE Respawn \/ Reap \/ \E s \in Slot : Crash(s)
  <2>1. /\ faults.init = 0 /\ UNCHANGED <<results, yielded>>
        /\ \A s \in Slot : outbox'[s] = outbox[s] \/ outbox'[s] = <<>>
    BY <1>0, <1>8 DEF Respawn, Reap, Crash, parentVars
  <2> QED BY <1>1, <1>e, <2>1
<1> QED
  BY <1>2, <1>4, <1>5, <1>6, <1>7, <1>8
  DEF Next, ParentStep, ChildStep, Fault, vars, parentVars, childVars, LoadEngine, TakePage,
      TakeSentinel, Exit, SubmitPage, CheckAlive, GetTimesOut, Complete, Count, SendSentinels, Abandon, End

LEMMA AllYielded ==
    Typed /\ PlaceInv /\ NamedInv => CompleteIfEnginesLoad
<1> SUFFICES ASSUME Typed, PlaceInv, NamedInv, reason = "complete", faults.init = 0
             PROVE  EveryPageYielded
  BY DEF CompleteIfEnginesLoad
<1> DEFINE f == [i \in 1..Len(yielded) |-> yielded[i].page]
<1>1. /\ yielded \in Seq(Result) /\ Len(yielded) \in Nat /\ NumPages \in Nat
      /\ Len(yielded) >= NumPages /\ DOMAIN yielded = 1..Len(yielded)
  BY PoolConstantsOK DEF Typed, ParentTypeOK, ParentInv
<1>2. \A i \in 1..Len(yielded) : yielded[i].page \in Page
  <2>1. \A i \in 1..Len(yielded) : yielded[i] \in Result /\ yielded[i].page # NoPage
    BY <1>1 DEF NamedInv, AllNamed
  <2> QED BY <2>1 DEF Result
<1>3. f \in Injection(1..Len(yielded), Page)
  <2>1. f \in [1..Len(yielded) -> Page]
    BY <1>2
  <2>2. IsInjective(f)
    BY <1>1, <1>2, Constants DEF PlaceInv, QueuesInv, Distinct, IsInjective
  <2> QED BY <2>1, <2>2 DEF Injection
<1> SUFFICES ASSUME NEW p \in Page, \A i \in DOMAIN yielded : yielded[i].page # p PROVE FALSE
  BY DEF EveryPageYielded
<1>4. f \in Injection(1..Len(yielded), Page \ {p})
  BY <1>1, <1>3 DEF Injection
<1> HIDE DEF f
<1>5. /\ IsFiniteSet(Page \ {p}) /\ IsFiniteSet(1..Len(yielded))
      /\ Cardinality(Page \ {p}) = NumPages - 1 /\ Cardinality(1..Len(yielded)) = Len(yielded)
  <2>1. IsFiniteSet(Page) /\ Cardinality(Page) = NumPages
    <3>1. \A k \in Nat : IsFiniteSet(1..k) /\ Cardinality(1..k) = IF 1 > k THEN 0 ELSE k - 1 + 1
      BY FS_Interval
    <3> QED BY <1>1, <3>1 DEF Page
  <2>2. IsFiniteSet(1..Len(yielded)) /\ Cardinality(1..Len(yielded)) = Len(yielded)
    <3>1. \A k \in Nat : IsFiniteSet(1..k) /\ Cardinality(1..k) = IF 1 > k THEN 0 ELSE k - 1 + 1
      BY FS_Interval
    <3> QED BY <1>1, <3>1
  <2> QED BY <2>1, <2>2, FS_RemoveElement
<1>6. Cardinality(1..Len(yielded)) <= Cardinality(Page \ {p})
  BY <1>4, <1>5, FS_Injection DEF ExistsInjection
<1> QED BY <1>1, <1>5, <1>6

(* A run of results() that counts itself complete has yielded every page,  *)
(* provided every engine loaded.  Code: received >= expected_count.        *)
THEOREM CompleteRunsAreComplete == Spec => []CompleteIfEnginesLoad
<1>1. Init => NamedInv
  BY DEF Init, NamedInv, AllNamed
<1> QED BY InitTyped, Typing, PlacesInitially, Places, <1>1, NamedStep, AllYielded, PTL DEF Spec

-----------------------------------------------------------------------------
(* The stream                                                              *)

(* The pool implements the stream its consumer relies on: one result at a  *)
(* time, no page twice, nothing after the end.  Code: results() and its    *)
(* docstring.                                                              *)
THEOREM PoolIsAStream == Spec => StreamSpec
<1>1. Init => Stream!Init
  BY DEF Init, Stream!Init
<1>2. Typed /\ PlaceInv /\ PlaceInv' /\ Typed' /\ [Next]_vars => [Stream!Next]_(Stream!vars)
  <2> SUFFICES ASSUME Typed, PlaceInv, PlaceInv', Typed', [Next]_vars
               PROVE  Stream!Next \/ UNCHANGED Stream!vars
    OBVIOUS
  <2>1. CASE GetResult
    <3> DEFINE r == Head(results)
    <3>1. /\ r \in Result /\ yielded \in Seq(Result) /\ yielded' = Append(yielded, r)
          /\ parent = "wait" /\ parent' = "handle"
      BY <2>1, Removed DEF GetResult, Typed, QueueTypeOK, ParentTypeOK
    <3> HIDE DEF r
    <3>2. ASSUME r.page # NoPage, NEW i \in DOMAIN yielded PROVE yielded[i].page # r.page
      <4>1. /\ i \in DOMAIN yielded' /\ yielded'[i] = yielded[i]
            /\ Len(yielded) + 1 \in DOMAIN yielded' /\ yielded'[Len(yielded) + 1] = r
            /\ i # Len(yielded) + 1
        BY <3>1, Appended
      <4>2. \A j, k \in DOMAIN yielded' :
                yielded'[j].page = yielded'[k].page /\ yielded'[j].page # NoPage => j = k
        BY DEF PlaceInv, QueuesInv, Distinct
      <4> QED BY <3>2, <4>1, <4>2
    <3>3. Stream!Give(r)
      BY <3>1, <3>2 DEF Stream!Give
    <3> QED BY <3>1, <3>3 DEF Stream!Next
  <2>2. CASE Complete \/ Abandon \/ CheckAlive
    BY <2>2 DEF Complete, Abandon, CheckAlive, End, Stream!Next, Stream!End, Stream!vars
  <2>3. CASE SubmitPage \/ GetTimesOut \/ Count \/ Respawn \/ SendSentinels \/ Reap
    BY <2>3 DEF SubmitPage, GetTimesOut, Count, Respawn, SendSentinels, Reap, Stream!vars
  <2>4. CASE \E s \in Slot : ChildStep(s) \/ Fault(s)
    <3>1. UNCHANGED <<yielded, parent>>
      BY <2>4 DEF ChildStep, Fault, LoadEngine, TakePage, TakeSentinel, FinishPage, PageFails, Answer,
                  Flush, Exit, EngineFails, Crash, parentVars
    <3> QED BY <3>1 DEF Stream!vars
  <2>5. CASE UNCHANGED vars
    BY <2>5 DEF vars, parentVars, Stream!vars
  <2> QED BY <2>1, <2>2, <2>3, <2>4, <2>5 DEF Next, ParentStep
<1> QED
  BY InitTyped, Typing, PlacesInitially, Places, <1>1, <1>2, PTL DEF Spec, StreamSpec, Stream!Spec
=============================================================================
