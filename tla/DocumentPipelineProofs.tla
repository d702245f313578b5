----------------------- MODULE DocumentPipelineProofs -----------------------
(***************************************************************************)
(* Proofs about DocumentPipeline, for every number of workers, pages and   *)
(* jobs and every bound.                                                   *)
(***************************************************************************)
EXTENDS DocumentPipeline, TLAPS

-----------------------------------------------------------------------------
(* Type correctness                                                        *)

(* A group of variables a step leaves alone keeps its types.               *)
LEMMA Frame ==
    ASSUME TypeOK
    PROVE  /\ UNCHANGED <<latest, status, docStatus, done, exports>> => DbTypeOK'
           /\ UNCHANGED <<task, revoked>> => BrokerTypeOK'
           /\ UNCHANGED <<lock, fresh, flag>> => RedisTypeOK'
           /\ UNCHANGED <<pc, job, token, expect, got, stored, overrun>> => RunTypeOK'
           /\ UNCHANGED <<cancel, stale>> => ApiTypeOK'
           /\ UNCHANGED <<runs, kills, late, redisErrors>> => BoundsTypeOK'
BY DEF TypeOK, DbTypeOK, BrokerTypeOK, RedisTypeOK, RunTypeOK, ApiTypeOK, BoundsTypeOK

(* update_job_progress writes rows of the right type.                      *)
LEMMA UpdateType ==
    ASSUME TypeOK, NEW j, NEW s \in Status, UpdateJobProgress(j, s),
           UNCHANGED <<done, exports>>
    PROVE  DbTypeOK'
BY DEF TypeOK, DbTypeOK, UpdateJobProgress

(* Settling a message keeps the broker's types.                            *)
LEMMA AcknowledgeType ==
    ASSUME TypeOK, NEW j, Acknowledge(j), UNCHANGED revoked
    PROVE  BrokerTypeOK'
BY DEF TypeOK, BrokerTypeOK, Acknowledge

(* A step that only moves a run's control point keeps the run's types.     *)
LEMMA GotoType ==
    ASSUME TypeOK, NEW w \in Worker, NEW l \in PC, Goto(w, l),
           UNCHANGED <<job, token, expect, got, stored, overrun>>
    PROVE  RunTypeOK'
BY DEF TypeOK, RunTypeOK, Goto

(* A step of a run keeps the types.                                        *)
LEMMA RunStepType ==
    ASSUME TypeOK, NEW w \in Worker, RunStep(w)
    PROVE  TypeOK'
<1> USE ConstantsOK DEF redisVars, dbVars, runVars, apiVars, bounds,
        PC, Body, Tail, Status, Started, Terminal, NoJob, NoToken
<1>1. CASE AcquireLease(w)
  <2>1. RunTypeOK'
    BY <1>1 DEF TypeOK, RunTypeOK, BoundsTypeOK, AcquireLease, Goto
  <2>2. RedisTypeOK' /\ BoundsTypeOK'
    BY <1>1 DEF TypeOK, RedisTypeOK, BoundsTypeOK, AcquireLease
  <2> QED
    BY <1>1, <2>1, <2>2, Frame DEF TypeOK, AcquireLease
<1>2. CASE LeaseRefused(w)
  BY <1>2, Frame, GotoType DEF TypeOK, LeaseRefused
<1>3. CASE SkipDuplicate(w)
  <2>1. RunTypeOK'
    BY <1>3 DEF TypeOK, RunTypeOK, SkipDuplicate, Goto
  <2>2. DbTypeOK' /\ BrokerTypeOK'
    BY <1>3, UpdateType, AcknowledgeType DEF SkipDuplicate, FailRefused
  <2> QED
    BY <1>3, <2>1, <2>2, Frame DEF TypeOK, SkipDuplicate
<1>4. CASE StartRun(w)
  BY <1>4, Frame, GotoType, UpdateType DEF TypeOK, StartRun
<1>5. CASE Resume(w)
  <2>1. RunTypeOK'
    BY <1>5 DEF TypeOK, RunTypeOK, DbTypeOK, Resume, Goto
  <2>2. DbTypeOK'
    <3>1. CASE done = {}
      BY <1>5, <3>1, Frame DEF Resume
    <3>2. CASE done # {}
      BY <1>5, <3>2, UpdateType DEF Resume
    <3> QED
      BY <3>1, <3>2
  <2> QED
    BY <1>5, <2>1, <2>2, Frame DEF TypeOK, Resume
<1>6. ASSUME NEW p \in Page, PageArrives(w, p)  PROVE TypeOK'
  <2>1. RunTypeOK'
    <3>1. overrun' \in [Worker -> Nat]
      BY <1>6 DEF TypeOK, RunTypeOK, PageArrives, PersistPage
    <3> QED
      BY <1>6, <3>1 DEF TypeOK, RunTypeOK, PageArrives, PersistPage, Goto
  <2>2. RedisTypeOK'
    BY <1>6 DEF TypeOK, RedisTypeOK, PageArrives, PersistPage
  <2>3. DbTypeOK'
    BY <1>6 DEF TypeOK, DbTypeOK, PageArrives, PersistPage, UpdateJobProgress
  <2> QED
    BY <1>6, <2>1, <2>2, <2>3, Frame DEF TypeOK, PageArrives
<1>7. ASSUME NEW p \in Page, PageErrors(w, p)  PROVE TypeOK'
  <2>1. RunTypeOK'
    BY <1>7 DEF TypeOK, RunTypeOK, PageErrors
  <2>2. RedisTypeOK'
    BY <1>7 DEF TypeOK, RedisTypeOK, PageErrors
  <2> QED
    BY <1>7, <2>1, <2>2, Frame DEF TypeOK, PageErrors
<1>8. ASSUME NEW p \in Page, SweepPage(w, p)  PROVE TypeOK'
  <2>1. RunTypeOK'
    <3>1. overrun' \in [Worker -> Nat] /\ got' \in [Worker -> SUBSET Page]
      BY <1>8 DEF TypeOK, RunTypeOK, SweepPage, PersistPage
    <3> QED
      BY <1>8, <3>1 DEF TypeOK, RunTypeOK, SweepPage, Goto
  <2>2. RedisTypeOK' /\ DbTypeOK'
    BY <1>8 DEF TypeOK, RedisTypeOK, DbTypeOK, SweepPage, PersistPage
  <2> QED
    BY <1>8, <2>1, <2>2, Frame DEF TypeOK, SweepPage
<1>9. CASE PoolEnds(w)
  <2>1. CASE got[w] = Page
    BY <1>9, <2>1, Frame, GotoType DEF TypeOK, PoolEnds
  <2>2. CASE got[w] # Page
    <3>1. RunTypeOK'
      BY <1>9, <2>2 DEF TypeOK, RunTypeOK, PoolEnds, Goto
    <3>2. DbTypeOK'
      BY <1>9, <2>2, UpdateType DEF PoolEnds
    <3> QED
      BY <1>9, <3>1, <3>2, Frame DEF TypeOK, PoolEnds
  <2> QED
    BY <2>1, <2>2
<1>10. CASE Renew(w)
  <2>1. RunTypeOK'
    <3>1. CASE pc[w] = "renew"
      BY <1>10, <3>1, GotoType DEF Renew
    <3>2. CASE pc[w] = "sweeprenew"
      BY <1>10, <3>2, GotoType DEF Renew
    <3> QED
      BY <1>10, <3>1, <3>2 DEF Renew
  <2>2. fresh' \in BOOLEAN
    <3>1. fresh' = fresh \/ fresh' = (fresh \/ lock = token[w])
      BY <1>10 DEF Renew, CompareAndExpire
    <3> QED
      BY <3>1, Zenon DEF TypeOK, RedisTypeOK
  <2>3. lock' \in Nat /\ flag' \in 0..MaxJobs /\ BoundsTypeOK'
    BY <1>10 DEF TypeOK, RedisTypeOK, BoundsTypeOK, Renew, RedisFails
  <2> QED
    BY <1>10, <2>1, <2>2, <2>3, Frame DEF TypeOK, RedisTypeOK, Renew
<1>11. CASE SeesCancel(w)
  BY <1>11, Frame, GotoType DEF TypeOK, SeesCancel
<1>12. CASE SeesNoCancel(w)
  <2>1. RunTypeOK'
    <3>1. CASE Goto(w, "ocr")
      BY <1>12, <3>1, GotoType DEF SeesNoCancel
    <3>2. CASE Goto(w, "sweeppage")
      BY <1>12, <3>2, GotoType DEF SeesNoCancel
    <3> QED
      BY <1>12, <3>1, <3>2 DEF SeesNoCancel
  <2>2. BoundsTypeOK'
    BY <1>12 DEF TypeOK, BoundsTypeOK, SeesNoCancel, RedisFails
  <2> QED
    BY <1>12, <2>1, <2>2, Frame DEF TypeOK, SeesNoCancel
<1>13. CASE SweepEnds(w)
  BY <1>13, Frame, GotoType DEF TypeOK, SweepEnds
<1>14. CASE ClearCancelFlag(w)
  <2>1. RunTypeOK'
    BY <1>14, GotoType DEF ClearCancelFlag
  <2>2. RedisTypeOK' /\ BoundsTypeOK'
    BY <1>14 DEF TypeOK, RedisTypeOK, BoundsTypeOK, ClearCancelFlag, RedisFails
  <2> QED
    BY <1>14, <2>1, <2>2, Frame DEF TypeOK, ClearCancelFlag
<1>15. CASE RecordCancelled(w)
  BY <1>15, Frame, GotoType, UpdateType DEF TypeOK, RecordCancelled
<1>16. CASE Assemble(w)
  BY <1>16, Frame, GotoType, UpdateType DEF TypeOK, Assemble
<1>17. CASE Render(w)
  BY <1>17, Frame, GotoType, UpdateType DEF TypeOK, Render
<1>18. CASE StoreExport(w)
  <2>1. RunTypeOK'
    BY <1>18 DEF TypeOK, RunTypeOK, StoreExport, MoreToStore
  <2>2. DbTypeOK'
    BY <1>18 DEF TypeOK, DbTypeOK, RunTypeOK, StoreExport
  <2> QED
    BY <1>18, <2>1, <2>2, Frame DEF TypeOK, StoreExport
<1>19. CASE Complete(w)
  BY <1>19, Frame, GotoType, UpdateType DEF TypeOK, Complete
<1>20. CASE EndRun(w)
  <2>1. RunTypeOK'
    BY <1>20 DEF TypeOK, RunTypeOK, EndRun, Goto
  <2>2. RedisTypeOK'
    BY <1>20 DEF TypeOK, RedisTypeOK, EndRun, CompareAndDelete
  <2>3. BoundsTypeOK'
    BY <1>20 DEF TypeOK, BoundsTypeOK, EndRun, RedisFails
  <2> QED
    BY <1>20, <2>1, <2>2, <2>3, Frame, AcknowledgeType DEF TypeOK, EndRun
<1> QED
  BY <1>1, <1>2, <1>3, <1>4, <1>5, <1>6, <1>7, <1>8, <1>9, <1>10, <1>11, <1>12,
     <1>13, <1>14, <1>15, <1>16, <1>17, <1>18, <1>19, <1>20 DEF RunStep

(* So does everything that is not a run's own step.                        *)
LEMMA OtherStepType ==
    ASSUME TypeOK, Next, \A w \in Worker : ~RunStep(w)
    PROVE  TypeOK'
<1> USE ConstantsOK DEF redisVars, dbVars, runVars, apiVars, bounds,
        PC, Body, Tail, Status, Started, Terminal, NoJob, NoToken, Job
<1>1. ASSUME NEW w \in Worker, RunFails(w)  PROVE TypeOK'
  BY <1>1, Frame, GotoType, UpdateType DEF TypeOK, RunFails
<1>2. ASSUME NEW w \in Worker, NativeCrash(w)  PROVE TypeOK'
  <2>1. RunTypeOK'
    BY <1>2 DEF TypeOK, RunTypeOK, NativeCrash, Goto
  <2>2. BoundsTypeOK'
    BY <1>2 DEF TypeOK, BoundsTypeOK, NativeCrash
  <2> QED
    BY <1>2, <2>1, <2>2, Frame DEF TypeOK, NativeCrash
<1>3. ASSUME NEW w \in Worker, TaskFailure(w)  PROVE TypeOK'
  <2>1. RunTypeOK'
    BY <1>3 DEF TypeOK, RunTypeOK, TaskFailure, Goto
  <2>2. DbTypeOK'
    <3>1. CASE status[job[w]] \in {"COMPLETED", "FAILED"}
      BY <1>3, <3>1, Frame DEF TaskFailure
    <3>2. CASE status[job[w]] \notin {"COMPLETED", "FAILED"}
      BY <1>3, <3>2, UpdateType DEF TaskFailure
    <3> QED
      BY <3>1, <3>2
  <2> QED
    BY <1>3, <2>1, <2>2, Frame, AcknowledgeType DEF TypeOK, TaskFailure
<1>4. CASE ContainerKill
  <2>1. RunTypeOK'
    BY <1>4 DEF TypeOK, RunTypeOK, ContainerKill
  <2>2. BoundsTypeOK' /\ BrokerTypeOK'
    BY <1>4 DEF TypeOK, BoundsTypeOK, BrokerTypeOK, ContainerKill
  <2> QED
    BY <1>4, <2>1, <2>2, Frame DEF TypeOK, ContainerKill
<1>5. CASE BrokerStep
  <2>1. ASSUME NEW j \in Job, NEW w \in Worker, Deliver(w, j)  PROVE TypeOK'
    <3>1. RunTypeOK'
      BY <2>1 DEF TypeOK, RunTypeOK, Deliver, Goto
    <3>2. BrokerTypeOK'
      BY <2>1 DEF TypeOK, BrokerTypeOK, Deliver, HandOver
    <3> QED
      BY <2>1, <3>1, <3>2, Frame DEF TypeOK, Deliver
  <2>2. ASSUME NEW j \in Job, DiscardRevoked(j)  PROVE TypeOK'
    <3>1. BrokerTypeOK'
      BY <2>2 DEF TypeOK, BrokerTypeOK, DiscardRevoked
    <3> QED
      BY <2>2, <3>1, Frame DEF TypeOK, DiscardRevoked
  <2>3. ASSUME NEW j \in Job, RedeliverLost(j)  PROVE TypeOK'
    <3>1. BrokerTypeOK'
      BY <2>3 DEF TypeOK, BrokerTypeOK, RedeliverLost
    <3> QED
      BY <2>3, <3>1, Frame DEF TypeOK, RedeliverLost
  <2>4. ASSUME NEW j \in Job, RedeliverLate(j)  PROVE TypeOK'
    <3>1. BrokerTypeOK' /\ BoundsTypeOK'
      BY <2>4 DEF TypeOK, BrokerTypeOK, BoundsTypeOK, RedeliverLate
    <3> QED
      BY <2>4, <3>1, Frame DEF TypeOK, RedeliverLate
  <2> QED
    BY <1>5, <2>1, <2>2, <2>3, <2>4 DEF BrokerStep
<1>6. CASE ApiStep
  <2>1. CASE CreateJob
    <3>1. DbTypeOK'
      BY <2>1 DEF TypeOK, DbTypeOK, CreateJob
    <3> QED
      BY <2>1, <3>1, Frame DEF TypeOK, CreateJob
  <2>2. ASSUME NEW j \in Job, SendTask(j)  PROVE TypeOK'
    <3>1. BrokerTypeOK'
      BY <2>2 DEF TypeOK, BrokerTypeOK, SendTask
    <3> QED
      BY <2>2, <3>1, Frame DEF TypeOK, SendTask
  <2>3. CASE CancelBegins
    <3>1. ApiTypeOK'
      BY <2>3 DEF TypeOK, DbTypeOK, ApiTypeOK, CancelBegins
    <3> QED
      BY <2>3, <3>1, Frame DEF TypeOK, CancelBegins
  <2>4. CASE CancelFlags
    <3>1. cancel \in [step : {"flag", "write"}, job : Job]
      BY <2>4 DEF TypeOK, ApiTypeOK, CancelFlags
    <3>2. ApiTypeOK'
      BY <2>4, <3>1 DEF TypeOK, ApiTypeOK, CancelFlags
    <3>3. RedisTypeOK' /\ BrokerTypeOK'
      BY <2>4, <3>1 DEF TypeOK, RedisTypeOK, BrokerTypeOK, CancelFlags
    <3>4. RunTypeOK'
      BY <2>4 DEF TypeOK, RunTypeOK, CancelFlags
    <3> QED
      BY <2>4, <3>2, <3>3, <3>4, Frame DEF TypeOK, CancelFlags
  <2>5. CASE CancelWrites
    <3>1. ApiTypeOK'
      BY <2>5 DEF TypeOK, ApiTypeOK, CancelWrites
    <3> QED
      BY <2>5, <3>1, Frame, UpdateType DEF TypeOK, CancelWrites
  <2>6. CASE StaleRead
    <3>1. ApiTypeOK'
      BY <2>6 DEF TypeOK, DbTypeOK, ApiTypeOK, StaleRead
    <3> QED
      BY <2>6, <3>1, Frame DEF TypeOK, StaleRead
  <2>7. CASE StaleWrite
    <3>1. ApiTypeOK'
      BY <2>7 DEF TypeOK, ApiTypeOK, StaleWrite
    <3> QED
      BY <2>7, <3>1, Frame, UpdateType DEF TypeOK, StaleWrite
  <2> QED
    BY <1>6, <2>1, <2>2, <2>3, <2>4, <2>5, <2>6, <2>7 DEF ApiStep
<1>7. CASE LeaseLapses
  <2>1. RedisTypeOK'
    BY <1>7 DEF TypeOK, RedisTypeOK, LeaseLapses
  <2> QED
    BY <1>7, <2>1, Frame DEF TypeOK, LeaseLapses
<1>8. CASE CancelFlagExpires
  <2>1. RedisTypeOK'
    BY <1>8 DEF TypeOK, RedisTypeOK, CancelFlagExpires
  <2> QED
    BY <1>8, <2>1, Frame DEF TypeOK, CancelFlagExpires
<1> QED
  BY <1>1, <1>2, <1>3, <1>4, <1>5, <1>6, <1>7, <1>8 DEF Next

(* Every behaviour of the pipeline keeps the types of its variables: the   *)
(* rows of the database, the Redis keys, the messages and the runs.        *)
THEOREM TypeCorrect == Spec => []TypeOK
<1>1. Init => TypeOK
  <2> USE ConstantsOK DEF Init, Job, NoJob, NoToken
  <2>1. Init => DbTypeOK
    BY DEF DbTypeOK, Status
  <2>2. Init => BrokerTypeOK /\ ApiTypeOK /\ BoundsTypeOK
    BY DEF BrokerTypeOK, ApiTypeOK, BoundsTypeOK
  <2>3. Init => RedisTypeOK
    <3>1. Init => fresh \in BOOLEAN
      BY Zenon
    <3>2. Init => lock \in Nat /\ flag \in 0..MaxJobs
      OBVIOUS
    <3> QED
      BY <3>1, <3>2 DEF RedisTypeOK
  <2>4. Init => RunTypeOK
    BY DEF RunTypeOK, PC
  <2> QED
    BY <2>1, <2>2, <2>3, <2>4 DEF TypeOK
<1>2. TypeOK /\ [Next]_vars => TypeOK'
  <2> SUFFICES ASSUME TypeOK, [Next]_vars  PROVE TypeOK'
    OBVIOUS
  <2>1. CASE \E w \in Worker : RunStep(w)
    BY <2>1, RunStepType
  <2>2. CASE Next /\ ~\E w \in Worker : RunStep(w)
    BY <2>2, OtherStepType
  <2>3. CASE UNCHANGED vars
    BY <2>3, Frame DEF TypeOK, vars, dbVars, redisVars, runVars, apiVars, bounds
  <2> QED
    BY <2>1, <2>2, <2>3
<1> QED
  BY <1>1, <1>2, PTL DEF Spec

-----------------------------------------------------------------------------
(* The lease                                                               *)

(* A step that neither hands out nor takes back a lease, and moves run w   *)
(* within its body, within the code around it, or to its release.          *)
Quiet(w) ==
    /\ UNCHANGED <<lock, token, runs>>
    /\ \E l \in PC :
          /\ Goto(w, l)
          /\ \/ l \in Body /\ pc[w] \in Body \ {"release"}
             \/ l = "release"
             \/ l \in Outside /\ pc[w] \in Outside

(* Every step is quiet, leaves leases and control points alone, or is one  *)
(* of the five that are about leases.                                      *)
LEMMA StepKinds ==
    ASSUME TypeOK, [Next]_vars
    PROVE  \/ \E w \in Worker : AcquireLease(w) \/ EndRun(w) \/ NativeCrash(w) \/ Quiet(w)
           \/ ContainerKill
           \/ LeaseLapses
           \/ UNCHANGED <<lock, token, runs, pc>>
<1> USE DEF redisVars, dbVars, runVars, apiVars, bounds, PC, Body, Tail, Outside
<1>1. ASSUME NEW w \in Worker, RunStep(w)
      PROVE  AcquireLease(w) \/ EndRun(w) \/ Quiet(w) \/ UNCHANGED <<lock, token, runs, pc>>
  <2>1. CASE LeaseRefused(w) \/ SkipDuplicate(w)
    BY <2>1 DEF LeaseRefused, SkipDuplicate, Quiet
  <2>2. CASE StartRun(w) \/ Resume(w) \/ PoolEnds(w)
    BY <2>2 DEF StartRun, Resume, PoolEnds, Quiet
  <2>3. CASE \E p \in Page : PageArrives(w, p) \/ PageErrors(w, p) \/ SweepPage(w, p)
    BY <2>3 DEF PageArrives, PageErrors, SweepPage, Quiet
  <2>4. CASE Renew(w) \/ SeesCancel(w) \/ SeesNoCancel(w) \/ SweepEnds(w)
    BY <2>4 DEF Renew, SeesCancel, CancelRequested, SeesNoCancel, SweepEnds, Quiet
  <2>5. CASE ClearCancelFlag(w) \/ RecordCancelled(w)
    BY <2>5 DEF ClearCancelFlag, RecordCancelled, Quiet
  <2>6. CASE Assemble(w) \/ Render(w) \/ StoreExport(w) \/ Complete(w)
    BY <2>6 DEF Assemble, Render, StoreExport, Complete, Quiet
  <2> QED
    BY <1>1, <2>1, <2>2, <2>3, <2>4, <2>5, <2>6 DEF RunStep
<1>2. ASSUME NEW w \in Worker, RunFails(w) \/ TaskFailure(w)
      PROVE  Quiet(w)
  BY <1>2 DEF RunFails, TaskFailure, Quiet
<1>3. ASSUME BrokerStep
      PROVE  (\E w \in Worker : Quiet(w)) \/ UNCHANGED <<lock, token, runs, pc>>
  BY <1>3 DEF BrokerStep, Deliver, DiscardRevoked, RedeliverLost, RedeliverLate, Quiet
<1>4. ASSUME ApiStep \/ CancelFlagExpires \/ UNCHANGED vars
      PROVE  UNCHANGED <<lock, token, runs, pc>>
  BY <1>4 DEF ApiStep, CreateJob, SendTask, CancelBegins, CancelFlags, CancelWrites,
     StaleRead, StaleWrite, CancelFlagExpires, vars
<1> QED
  BY <1>1, <1>2, <1>3, <1>4 DEF Next

(* Tokens stay unique and in the hands of runs inside their body.          *)
LEMMA TokenStep ==
    ASSUME TypeOK, TokenInv, [Next]_vars
    PROVE  TokenInv'
<1> USE DEF redisVars, PC, Body, Tail, Outside, NoToken, TypeOK, RunTypeOK, RedisTypeOK,
        BoundsTypeOK
<1>1. ASSUME NEW w \in Worker, AcquireLease(w)  PROVE TokenInv'
  BY <1>1 DEF TokenInv, AcquireLease, Goto
<1>2. ASSUME NEW w \in Worker, EndRun(w)  PROVE TokenInv'
  BY <1>2 DEF TokenInv, EndRun, CompareAndDelete, Goto, bounds
<1>3. ASSUME NEW w \in Worker, NativeCrash(w)  PROVE TokenInv'
  BY <1>3 DEF TokenInv, NativeCrash, Goto
<1>4. ASSUME NEW w \in Worker, Quiet(w)  PROVE TokenInv'
  BY <1>4 DEF TokenInv, Quiet, Goto
<1>5. CASE ContainerKill
  BY <1>5 DEF TokenInv, ContainerKill
<1>6. CASE LeaseLapses
  BY <1>6 DEF TokenInv, LeaseLapses, runVars, bounds
<1>7. CASE UNCHANGED <<lock, token, runs, pc>>
  BY <1>7 DEF TokenInv
<1> QED
  BY <1>1, <1>2, <1>3, <1>4, <1>5, <1>6, <1>7, StepKinds

(* Tokens are unique in every behaviour, whatever is slow and whatever     *)
(* fails.                                                                  *)
THEOREM TokensUnique == Spec => []TokenInv
<1>1. Init => TokenInv
  BY DEF Init, TokenInv, PC, Body, Tail, Outside, NoToken
<1>2. TypeOK /\ TokenInv /\ [Next]_vars => TokenInv'
  BY TokenStep
<1> QED
  BY <1>1, <1>2, TypeCorrect, PTL DEF Spec

(* Only its own end, or a wait that outlasts it, takes a lease from a live *)
(* run: the release script of a predecessor whose lease lapsed cannot      *)
(* delete the successor's.                                                 *)
THEOREM LeaseOwnership == Spec => OwnLeaseOnly
<1>1. TypeOK /\ TokenInv /\ [Next]_vars => LeasesLeftAlone
  <2> SUFFICES ASSUME TypeOK, TokenInv, [Next]_vars, NEW w \in Worker,
                      token[w] # NoToken, lock = token[w], lock' # lock
               PROVE  token'[w] # token[w] \/ Outlasts(w)
    BY DEF LeasesLeftAlone
  <2>1. ASSUME NEW v \in Worker, EndRun(v)  PROVE token'[w] # token[w]
    <3>1. v = w
      BY <2>1 DEF EndRun, CompareAndDelete, TokenInv
    <3> QED
      BY <2>1, <3>1 DEF EndRun, TypeOK, RunTypeOK
  <2>2. CASE LeaseLapses
    BY <2>2 DEF LeaseLapses, LeaseMayLapse
  <2>3. ASSUME NEW v \in Worker, AcquireLease(v)  PROVE FALSE
    BY <2>3 DEF AcquireLease, LeaseFree
  <2>4. ASSUME NEW v \in Worker, NativeCrash(v) \/ Quiet(v)  PROVE FALSE
    BY <2>4 DEF NativeCrash, Quiet, redisVars
  <2>5. CASE ContainerKill
    BY <2>5 DEF ContainerKill, redisVars
  <2> QED
    BY <2>1, <2>2, <2>3, <2>4, <2>5, StepKinds
<1> QED
  BY <1>1, TypeCorrect, TokensUnique, PTL DEF Spec, OwnLeaseOnly

-----------------------------------------------------------------------------
(* Mutual exclusion, when no unrenewed wait outlasts the lease             *)

(* A step that does not touch the age of the lease, and brings nobody to a *)
(* wait who was not waiting already.                                       *)
Ageless ==
    /\ fresh' = fresh
    /\ \/ pc' = pc
       \/ \E w \in Worker, l \in PC : Goto(w, l) /\ (l \in Waiting => pc[w] \in Waiting)

(* With quick errors, every other step acquires, renews, or ends a page.   *)
LEMMA AgeKinds ==
    ASSUME Slow = {}, TypeOK, [Next]_vars
    PROVE  \/ Ageless
           \/ ContainerKill
           \/ \E w \in Worker : \/ AcquireLease(w) \/ Renew(w)
                                \/ \E p \in Page : PageArrives(w, p) \/ SweepPage(w, p)
<1> USE DEF redisVars, runVars, apiVars, bounds, PC, Body, Tail, Waiting
<1>1. ASSUME NEW w \in Worker, RunStep(w),
             ~AcquireLease(w), ~Renew(w),
             \A p \in Page : ~PageArrives(w, p) /\ ~SweepPage(w, p)
      PROVE  Ageless
  <2>1. CASE LeaseRefused(w) \/ SkipDuplicate(w)
    BY <2>1 DEF LeaseRefused, SkipDuplicate, Ageless
  <2>2. CASE StartRun(w) \/ Resume(w) \/ PoolEnds(w)
    BY <2>2 DEF StartRun, Resume, PoolEnds, Ageless
  <2>3. CASE \E p \in Page : PageErrors(w, p)
    <3>1. PICK p \in Page : PageErrors(w, p)
      BY <2>3
    <3>2. fresh' = (fresh /\ TRUE) /\ pc' = pc
      BY <3>1 DEF PageErrors
    <3>3. fresh' = fresh
      BY <3>2, Zenon DEF TypeOK, RedisTypeOK
    <3> QED
      BY <3>2, <3>3 DEF Ageless
  <2>4. CASE SeesCancel(w) \/ SeesNoCancel(w) \/ SweepEnds(w)
    BY <2>4 DEF SeesCancel, SeesNoCancel, SweepEnds, Ageless
  <2>5. CASE ClearCancelFlag(w) \/ RecordCancelled(w)
    BY <2>5 DEF ClearCancelFlag, RecordCancelled, Ageless
  <2>6. CASE Assemble(w) \/ Render(w) \/ StoreExport(w) \/ Complete(w)
    BY <2>6 DEF Assemble, Render, StoreExport, Complete, Ageless
  <2>7. CASE EndRun(w)
    BY <2>7 DEF EndRun, Ageless
  <2> QED
    BY <1>1, <2>1, <2>2, <2>3, <2>4, <2>5, <2>6, <2>7 DEF RunStep
<1>2. ASSUME NEW w \in Worker, RunFails(w) \/ NativeCrash(w) \/ TaskFailure(w)
      PROVE  Ageless
  BY <1>2 DEF RunFails, NativeCrash, TaskFailure, Ageless
<1>3. ASSUME BrokerStep  PROVE Ageless
  BY <1>3 DEF BrokerStep, Deliver, DiscardRevoked, RedeliverLost, RedeliverLate, Ageless
<1>4. ASSUME ApiStep \/ CancelFlagExpires \/ LeaseLapses \/ UNCHANGED vars
      PROVE  Ageless
  BY <1>4 DEF ApiStep, CreateJob, SendTask, CancelBegins, CancelFlags, CancelWrites,
     StaleRead, StaleWrite, CancelFlagExpires, LeaseLapses, vars, Ageless
<1> QED
  BY <1>1, <1>2, <1>3, <1>4 DEF Next

(* Whoever waits for a page waits on a fresh lease, so no lease lapses     *)
(* under a live run.                                                       *)
LEMMA LeaseStep ==
    ASSUME Slow = {}, MaxRedisErrors = 0, TypeOK, LeaseInv, [Next]_vars
    PROVE  LeaseInv'
<1>1. TokenInv'
  BY TokenStep DEF LeaseInv
<1>2. LiveRunHoldsLease'
  <2> USE DEF LeaseInv, LiveRunHoldsLease, TokenInv, TypeOK, RunTypeOK, NoToken
  <2>1. ASSUME NEW w \in Worker, AcquireLease(w)  PROVE LiveRunHoldsLease'
    BY <2>1 DEF AcquireLease, LeaseFree
  <2>2. ASSUME NEW w \in Worker, EndRun(w)  PROVE LiveRunHoldsLease'
    BY <2>2 DEF EndRun, CompareAndDelete
  <2>3. ASSUME NEW w \in Worker, NativeCrash(w) \/ Quiet(w)  PROVE LiveRunHoldsLease'
    BY <2>3 DEF NativeCrash, Quiet, redisVars
  <2>4. CASE ContainerKill
    BY <2>4 DEF ContainerKill
  <2>5. CASE LeaseLapses
    BY <2>5 DEF LeaseLapses, LeaseMayLapse, Outlasts, Waiting, runVars
  <2>6. CASE UNCHANGED <<lock, token, runs, pc>>
    BY <2>6
  <2> QED
    BY <2>1, <2>2, <2>3, <2>4, <2>5, <2>6, StepKinds
<1>3. (\A w \in Worker : pc[w] \in Waiting => fresh)'
  <2> SUFFICES ASSUME NEW v \in Worker, pc'[v] \in Waiting  PROVE fresh'
    OBVIOUS
  <2> USE DEF LeaseInv, TypeOK, RunTypeOK, Goto
  <2>1. CASE Ageless
    BY <2>1 DEF Ageless
  <2>2. CASE ContainerKill
    BY <2>2 DEF ContainerKill, Waiting
  <2>3. ASSUME NEW w \in Worker, AcquireLease(w)  PROVE fresh'
    BY <2>3 DEF AcquireLease
  <2>4. ASSUME NEW w \in Worker, Renew(w)  PROVE fresh'
    <3>1. token[w] # NoToken
      BY <2>4 DEF Renew, TokenInv, Body
    <3>2. fresh' = (fresh \/ lock = token[w])
      BY <2>4 DEF Renew, CompareAndExpire, RedisFails, BoundsTypeOK
    <3> QED
      BY <3>1, <3>2 DEF LiveRunHoldsLease
  <2>5. ASSUME NEW w \in Worker, NEW p \in Page, PageArrives(w, p) \/ SweepPage(w, p)
        PROVE  fresh'
    <3>1. pc[w] \in {"ocr", "sweeppage"} /\ pc'[w] \notin Waiting
      BY <2>5 DEF PageArrives, SweepPage, Waiting
    <3>2. v # w /\ pc[v] \in Waiting
      BY <2>5, <3>1 DEF PageArrives, SweepPage
    <3>3. token[w] # NoToken /\ token[v] # NoToken
      BY <3>1, <3>2 DEF TokenInv, Body, Waiting
    <3> QED
      BY <3>2, <3>3 DEF TokenInv, LiveRunHoldsLease
  <2> QED
    BY <2>1, <2>2, <2>3, <2>4, <2>5, AgeKinds
<1> QED
  BY <1>1, <1>2, <1>3 DEF LeaseInv

(* A live run holds the document's lease, if errored pages and the tail of *)
(* a run fit into one lease and no renewal fails.                          *)
THEOREM LeaseHeld ==
    ASSUME Slow = {}, MaxRedisErrors = 0
    PROVE  Spec => []LiveRunHoldsLease
<1>1. Init => LeaseInv
  <2>1. Init => TokenInv
    BY DEF Init, TokenInv, PC, Body, Tail, Outside, NoToken
  <2> QED
    BY <2>1 DEF Init, LeaseInv, LiveRunHoldsLease, Waiting
<1>2. TypeOK /\ LeaseInv /\ [Next]_vars => LeaseInv'
  BY LeaseStep
<1>3. LeaseInv => LiveRunHoldsLease
  BY DEF LeaseInv
<1> QED
  BY <1>1, <1>2, <1>3, TypeCorrect, PTL DEF Spec

(* Then runs exclude each other: the pipeline implements the abstract      *)
(* ExclusiveProcessing, every step mapping to one of its steps or to none. *)
THEOREM ImplementsExclusive ==
    ASSUME Slow = {}, MaxRedisErrors = 0
    PROVE  Spec => ExclusiveSpec
<1> USE DEF Holding, NoToken
<1>1. Init => LeaseInv /\ Exclusive!Init
  <2>1. Init => TokenInv
    BY DEF Init, TokenInv, PC, Body, Tail, Outside
  <2> QED
    BY <2>1 DEF Init, LeaseInv, LiveRunHoldsLease, Waiting, Exclusive!Init
<1>2. TypeOK /\ LeaseInv /\ [Next]_vars => LeaseInv'
  BY LeaseStep
<1>3. TypeOK /\ LeaseInv /\ [Next]_vars => [Exclusive!Next]_(Exclusive!vars)
  <2> SUFFICES ASSUME TypeOK, LeaseInv, [Next]_vars
               PROVE  [Exclusive!Next]_(Exclusive!vars)
    OBVIOUS
  <2> USE DEF Exclusive!Next, Exclusive!vars
  <2>1. \A v, w \in Holding : v = w
    BY DEF LeaseInv, LiveRunHoldsLease, TokenInv
  <2>2. ASSUME NEW w \in Worker, NEW p \in Page, PageArrives(w, p) \/ SweepPage(w, p)
        PROVE  [Exclusive!Next]_(Exclusive!vars)
    <3>1. pc[w] \in {"ocr", "sweeppage"} /\ token' = token
      BY <2>2 DEF PageArrives, SweepPage
    <3>2. Holding = {w}
      BY <2>1, <3>1 DEF LeaseInv, TokenInv, Body
    <3>3. Holding' = {w}
      BY <3>1, <3>2
    <3>4. done' = done \cup {p} \/ done' = done
      BY <2>2 DEF PageArrives, SweepPage, PersistPage
    <3> QED
      BY <3>2, <3>3, <3>4 DEF Exclusive!AddPage
  <2>3. ASSUME NEW w \in Worker, AcquireLease(w)
        PROVE  [Exclusive!Next]_(Exclusive!vars)
    <3>1. Holding = {}
      BY <2>3 DEF AcquireLease, LeaseFree, LeaseInv, LiveRunHoldsLease
    <3>2. Holding' = {w} /\ done' = done
      BY <2>3, <3>1 DEF AcquireLease, dbVars, TypeOK, RunTypeOK, BoundsTypeOK
    <3> QED
      BY <3>1, <3>2 DEF Exclusive!Enter
  <2>4. ASSUME NEW w \in Worker, EndRun(w) \/ NativeCrash(w)
        PROVE  [Exclusive!Next]_(Exclusive!vars)
    <3>1. Holding' = Holding \ {w} /\ done' = done
      BY <2>4 DEF EndRun, NativeCrash, dbVars, TypeOK, RunTypeOK
    <3>2. Holding = {} \/ Holding' = {} \/ Holding' = Holding
      BY <2>1, <3>1
    <3> QED
      BY <3>1, <3>2 DEF Exclusive!Leave
  <2>5. CASE ContainerKill
    <3>1. Holding' = {} /\ done' = done
      BY <2>5 DEF ContainerKill, dbVars
    <3> QED
      BY <3>1 DEF Exclusive!Leave
  <2>6. CASE UNCHANGED <<token, done>>
    BY <2>6
  <2>7. \/ \E w \in Worker : \/ AcquireLease(w) \/ EndRun(w) \/ NativeCrash(w)
                             \/ \E p \in Page : PageArrives(w, p) \/ SweepPage(w, p)
        \/ ContainerKill
        \/ UNCHANGED <<token, done>>
    <3> USE DEF dbVars, runVars
    <3>1. ASSUME NEW w \in Worker, RunStep(w), ~AcquireLease(w), ~EndRun(w),
                 \A p \in Page : ~PageArrives(w, p) /\ ~SweepPage(w, p)
          PROVE  UNCHANGED <<token, done>>
      BY <3>1 DEF RunStep, LeaseRefused, SkipDuplicate, StartRun, Resume, PageErrors,
         PoolEnds, Renew, SeesCancel, SeesNoCancel, SweepEnds, ClearCancelFlag,
         RecordCancelled, Assemble, Render, StoreExport, Complete
    <3>2. ASSUME NEW w \in Worker, RunFails(w) \/ TaskFailure(w)
          PROVE  UNCHANGED <<token, done>>
      BY <3>2 DEF RunFails, TaskFailure
    <3>3. BrokerStep => UNCHANGED <<token, done>>
      BY DEF BrokerStep, Deliver, DiscardRevoked, RedeliverLost, RedeliverLate
    <3>4. ApiStep \/ CancelFlagExpires \/ LeaseLapses \/ UNCHANGED vars
            => UNCHANGED <<token, done>>
      BY DEF ApiStep, CreateJob, SendTask, CancelBegins, CancelFlags, CancelWrites,
         StaleRead, StaleWrite, CancelFlagExpires, LeaseLapses, vars
    <3> QED
      BY <3>1, <3>2, <3>3, <3>4 DEF Next
  <2> QED
    BY <2>2, <2>3, <2>4, <2>5, <2>6, <2>7
<1> QED
  BY <1>1, <1>2, <1>3, TypeCorrect, PTL DEF Spec, ExclusiveSpec, Exclusive!Spec

-----------------------------------------------------------------------------
(* Cancellation                                                            *)

(* A run's own steps: only those that persist a page raise overrun, and    *)
(* only a look at the flag leads to another page.                          *)
LEMMA CancelRunStep ==
    ASSUME TypeOK, CancelInv, NEW w \in Worker, RunStep(w)
    PROVE  CancelInv'
<1> USE DEF CancelInv, TypeOK, RunTypeOK, RedisTypeOK, BoundsTypeOK, Goto, PC, Body, Tail,
        Outside, redisVars, bounds
<1>1. CASE AcquireLease(w) \/ LeaseRefused(w) \/ SkipDuplicate(w)
  BY <1>1 DEF AcquireLease, LeaseRefused, SkipDuplicate
<1>2. CASE StartRun(w) \/ Resume(w)
  BY <1>2 DEF StartRun, Resume
<1>3. ASSUME NEW p \in Page, PageArrives(w, p) \/ SweepPage(w, p)
      PROVE  CancelInv'
  BY <1>3 DEF PageArrives, SweepPage, PersistPage
<1>4. CASE (\E p \in Page : PageErrors(w, p)) \/ PoolEnds(w) \/ Renew(w)
  BY <1>4 DEF PageErrors, PoolEnds, Renew, RedisFails
<1>5. CASE SeesNoCancel(w)
  <2>1. \/ flag = NoJob /\ redisErrors' = redisErrors
        \/ redisErrors' = redisErrors + 1
    BY <1>5 DEF SeesNoCancel, CancelRequested, RedisFails
  <2> QED
    BY <1>5, <2>1 DEF SeesNoCancel
<1>6. CASE SeesCancel(w) \/ SweepEnds(w) \/ ClearCancelFlag(w) \/ RecordCancelled(w)
  BY <1>6 DEF SeesCancel, SweepEnds, ClearCancelFlag, RecordCancelled, RedisFails
<1>7. CASE Assemble(w) \/ Render(w) \/ StoreExport(w) \/ Complete(w)
  BY <1>7 DEF Assemble, Render, StoreExport, Complete
<1>8. CASE EndRun(w)
  <2>1. redisErrors' \in {redisErrors, redisErrors + 1}
    BY <1>8 DEF EndRun, RedisFails
  <2> QED
    BY <1>8, <2>1 DEF EndRun
<1> QED
  BY <1>1, <1>2, <1>3, <1>4, <1>5, <1>6, <1>7, <1>8 DEF RunStep

LEMMA CancelStep ==
    ASSUME TypeOK, CancelInv, [Next]_vars
    PROVE  CancelInv'
<1> USE DEF CancelInv, TypeOK, RunTypeOK, RedisTypeOK, BoundsTypeOK, Goto, PC, Body, Tail,
        Outside, redisVars, runVars, bounds
<1>1. ASSUME NEW w \in Worker, RunStep(w)  PROVE CancelInv'
  BY <1>1, CancelRunStep
<1>2. ASSUME NEW w \in Worker, RunFails(w) \/ NativeCrash(w) \/ TaskFailure(w)
      PROVE  CancelInv'
  BY <1>2 DEF RunFails, NativeCrash, TaskFailure
<1>3. CASE ContainerKill
  BY <1>3 DEF ContainerKill
<1>4. CASE BrokerStep
  BY <1>4 DEF BrokerStep, Deliver, DiscardRevoked, RedeliverLost, RedeliverLate
<1>5. CASE CancelFlags
  BY <1>5 DEF CancelFlags
<1>6. CASE ApiStep /\ ~CancelFlags
  BY <1>6 DEF ApiStep, CreateJob, SendTask, CancelBegins, CancelWrites, StaleRead, StaleWrite
<1>7. CASE LeaseLapses \/ CancelFlagExpires \/ UNCHANGED vars
  BY <1>7 DEF LeaseLapses, CancelFlagExpires, vars
<1> QED
  BY <1>1, <1>2, <1>3, <1>4, <1>5, <1>6, <1>7 DEF Next

(* A cancellation that was flagged costs at most the page in hand, in the  *)
(* pool's loop and in the sweep, and a page for each look at the flag that *)
(* failed: cancel_processing's "the page currently being processed always  *)
(* finishes cleanly".                                                      *)
THEOREM CancelCostsOnePage == Spec => []CancelWithinOnePage
<1>1. Init => CancelInv
  BY DEF Init, CancelInv
<1>2. TypeOK /\ CancelInv /\ [Next]_vars => CancelInv'
  BY CancelStep
<1>3. CancelInv => CancelWithinOnePage
  BY DEF CancelInv, CancelWithinOnePage, Holding
<1> QED
  BY <1>1, <1>2, <1>3, TypeCorrect, PTL DEF Spec

-----------------------------------------------------------------------------
(* Completed documents                                                     *)

(* At most one run is between acquiring and releasing.                     *)
LEMMA OneInside ==
    ASSUME LeaseInv, NEW v \in Worker, NEW w \in Worker,
           pc[v] \in Body \ {"release"}, pc[w] \in Body \ {"release"}
    PROVE  v = w
BY DEF LeaseInv, LiveRunHoldsLease, TokenInv

LEMMA TailRunStep ==
    ASSUME TypeOK, LeaseInv, TailInv, NEW w \in Worker, RunStep(w)
    PROVE  TailInv'
<1> USE DEF TailInv, TypeOK, RunTypeOK, Goto, PC, Body, Tail, Outside
<1>1. CASE AcquireLease(w) \/ LeaseRefused(w) \/ SkipDuplicate(w)
  BY <1>1 DEF AcquireLease, LeaseRefused, SkipDuplicate, FailRefused, UpdateJobProgress,
     dbVars, ExportsMatch
<1>2. CASE StartRun(w) \/ Resume(w)
  BY <1>2, OneInside DEF StartRun, Resume, UpdateJobProgress, ExportsMatch
<1>3. ASSUME NEW p \in Page, PageArrives(w, p) \/ SweepPage(w, p)
      PROVE  TailInv'
  <2>1. pc[w] \in {"ocr", "sweeppage"} /\ docStatus # "COMPLETED"
    BY <1>3 DEF PageArrives, SweepPage
  <2>2. \A v \in Worker \ {w} : pc[v] \in Outside \cup {"release"}
    BY <2>1, OneInside
  <2> QED
    BY ZenonT(30), <1>3, <2>1, <2>2 DEF PageArrives, SweepPage, PersistPage, UpdateJobProgress
<1>4. CASE (\E p \in Page : PageErrors(w, p)) \/ PoolEnds(w) \/ Renew(w)
  BY <1>4 DEF PageErrors, PoolEnds, Renew, UpdateJobProgress, dbVars, ExportsMatch
<1>5. CASE SeesCancel(w) \/ SeesNoCancel(w) \/ SweepEnds(w)
  BY <1>5 DEF SeesCancel, CancelRequested, SeesNoCancel, SweepEnds, dbVars, ExportsMatch
<1>6. CASE ClearCancelFlag(w) \/ RecordCancelled(w)
  BY <1>6 DEF ClearCancelFlag, RecordCancelled, UpdateJobProgress, dbVars, ExportsMatch
<1>7. CASE Assemble(w) \/ Render(w)
  BY <1>7 DEF Assemble, Render, UpdateJobProgress
<1>8. CASE StoreExport(w)
  <2>1. \A v \in Worker \ {w} : pc[v] # "store"
    BY <1>8, OneInside DEF StoreExport
  <2>2. docStatus' # "COMPLETED"
    BY <1>8 DEF StoreExport
  <2>3. UNCHANGED <<pc, token, got, done>> /\ \A v \in Worker \ {w} : stored'[v] = stored[v]
    BY <1>8 DEF StoreExport
  <2>4. stored'[w] = stored[w] + 1 /\ stored[w] + 1 \in 1..NumExports /\ got[w] = done
    BY <1>8, ConstantsOK DEF StoreExport, MoreToStore
  <2>5. \A e \in 1..stored'[w] : exports'[e] = [run |-> token[w], pages |-> done]
    BY <1>8, <2>4, ConstantsOK DEF StoreExport, DbTypeOK
  <2> QED
    BY <1>8, <2>1, <2>2, <2>3, <2>5 DEF StoreExport
<1>9. CASE Complete(w)
  <2>1. \A v \in Worker \ {w} : pc[v] \in Outside \cup {"release"}
    BY <1>9, OneInside DEF Complete
  <2>2. ExportsMatch
    <3>1. stored[w] = NumExports
      BY <1>9, ConstantsOK DEF Complete, MoreToStore
    <3>2. \A e \in 1..NumExports : exports[e] = [run |-> token[w], pages |-> done]
      BY <1>9, <3>1 DEF Complete
    <3> QED
      BY <3>2 DEF ExportsMatch, DbTypeOK
  <2> QED
    BY <1>9, <2>1, <2>2 DEF Complete, UpdateJobProgress, ExportsMatch
<1>10. CASE EndRun(w)
  BY <1>10 DEF EndRun, dbVars, ExportsMatch
<1> QED
  BY <1>1, <1>2, <1>3, <1>4, <1>5, <1>6, <1>7, <1>8, <1>9, <1>10 DEF RunStep

LEMMA TailStep ==
    ASSUME TypeOK, LeaseInv, TailInv, [Next]_vars
    PROVE  TailInv'
<1> USE DEF TailInv, TypeOK, RunTypeOK, Goto, PC, Body, Tail, Outside, dbVars, runVars,
        ExportsMatch, UpdateJobProgress
<1>1. ASSUME NEW w \in Worker, RunStep(w)  PROVE TailInv'
  BY <1>1, TailRunStep
<1>2. ASSUME NEW w \in Worker, RunFails(w) \/ NativeCrash(w) \/ TaskFailure(w)
      PROVE  TailInv'
  BY <1>2 DEF RunFails, NativeCrash, TaskFailure
<1>3. CASE ContainerKill
  BY <1>3 DEF ContainerKill
<1>4. CASE BrokerStep
  BY <1>4 DEF BrokerStep, Deliver, DiscardRevoked, RedeliverLost, RedeliverLate
<1>5. CASE ApiStep
  BY <1>5 DEF ApiStep, CreateJob, SendTask, CancelBegins, CancelFlags, CancelWrites,
     StaleRead, StaleWrite
<1>6. CASE LeaseLapses \/ CancelFlagExpires \/ UNCHANGED vars
  BY <1>6 DEF LeaseLapses, CancelFlagExpires, vars
<1> QED
  BY <1>1, <1>2, <1>3, <1>4, <1>5, <1>6 DEF Next

(* A document that reads COMPLETED, with no run at work, has exports of    *)
(* one run with exactly the persisted pages, however often earlier runs    *)
(* died half-way: the tail of _run_pipeline under the document lock.       *)
THEOREM CompletedIsConsistent ==
    ASSUME Slow = {}, MaxRedisErrors = 0
    PROVE  Spec => []CompletedDocumentIsConsistent
<1>1. Init => LeaseInv /\ TailInv
  <2>1. Init => TokenInv
    BY DEF Init, TokenInv, PC, Body, Tail, Outside, NoToken
  <2>2. Init => LeaseInv
    BY <2>1 DEF Init, LeaseInv, LiveRunHoldsLease, Waiting
  <2> QED
    BY <2>2 DEF Init, TailInv, Body, Tail
<1>2. TypeOK /\ LeaseInv /\ [Next]_vars => LeaseInv'
  BY LeaseStep
<1>3. TypeOK /\ LeaseInv /\ TailInv /\ [Next]_vars => TailInv'
  BY TailStep
<1>4. TailInv => CompletedDocumentIsConsistent
  BY DEF TailInv, CompletedDocumentIsConsistent
<1> QED
  BY <1>1, <1>2, <1>3, <1>4, TypeCorrect, PTL DEF Spec

-----------------------------------------------------------------------------
(* Settled messages                                                        *)

(* A step of run w that keeps its message: what it records, it records for *)
(* its own job, and a run that comes to its release has settled that job.  *)
WorksOn(w) ==
    /\ pc[w] # "idle"
    /\ UNCHANGED <<latest, task, revoked, job, cancel>>
    /\ \E s \in Status : status' \in {status, [status EXCEPT ![job[w]] = s]}
    /\ \E l \in PC \ {"idle"} :
          Goto(w, l) /\ (l = "release" => status'[job[w]] \in Terminal)

(* A step that ends the run of w, its job and its message settled.         *)
Settles(w) ==
    /\ pc[w] # "idle"
    /\ UNCHANGED <<latest, revoked, cancel>>
    /\ status' \in {status, [status EXCEPT ![job[w]] = "FAILED"]}
    /\ status'[job[w]] \in Terminal
    /\ Goto(w, "idle") /\ job' = [job EXCEPT ![w] = NoJob]
    /\ Acknowledge(job[w])

LEMMA RunKinds ==
    ASSUME TypeOK, SettleInv, NEW w \in Worker,
           RunStep(w) \/ RunFails(w) \/ NativeCrash(w) \/ TaskFailure(w)
    PROVE  WorksOn(w) \/ Settles(w)
<1> USE DEF PC, Body, Tail, Status, Started, Terminal, dbVars, apiVars, UpdateJobProgress
<1>0. /\ status \in [Job -> Status] /\ pc \in [Worker -> PC] /\ pc[w] \in PC
      /\ pc[w] # "idle" => job[w] \in Job
      /\ pc[w] = "release" => status[job[w]] \in Terminal
  BY DEF TypeOK, DbTypeOK, RunTypeOK, SettleInv
<1>1. CASE AcquireLease(w) \/ LeaseRefused(w)
  BY <1>0, <1>1 DEF AcquireLease, LeaseRefused, WorksOn, Goto
<1>2. CASE SkipDuplicate(w)
  BY <1>0, <1>2 DEF SkipDuplicate, FailRefused, Settles
<1>3. CASE StartRun(w) \/ Resume(w) \/ PoolEnds(w)
  BY <1>0, <1>3 DEF StartRun, Resume, PoolEnds, WorksOn
<1>4. CASE \E p \in Page : PageArrives(w, p) \/ PageErrors(w, p) \/ SweepPage(w, p)
  BY <1>0, <1>4 DEF PageArrives, PageErrors, SweepPage, PersistPage, WorksOn, Goto
<1>5. CASE Renew(w) \/ SeesCancel(w) \/ SeesNoCancel(w) \/ SweepEnds(w) \/ ClearCancelFlag(w)
  BY <1>0, <1>5 DEF Renew, SeesCancel, CancelRequested, SeesNoCancel, SweepEnds,
     ClearCancelFlag, WorksOn
<1>6. CASE RecordCancelled(w) \/ Complete(w) \/ RunFails(w)
  BY <1>0, <1>6 DEF RecordCancelled, Complete, RunFails, WorksOn
<1>7. CASE Assemble(w) \/ Render(w) \/ StoreExport(w)
  BY <1>0, <1>7 DEF Assemble, Render, StoreExport, WorksOn, Goto
<1>8. CASE NativeCrash(w)
  BY <1>0, <1>8 DEF NativeCrash, WorksOn
<1>9. CASE EndRun(w) \/ TaskFailure(w)
  BY <1>0, <1>9 DEF EndRun, TaskFailure, Settles
<1> QED
  BY <1>1, <1>2, <1>3, <1>4, <1>5, <1>6, <1>7, <1>8, <1>9 DEF RunStep

LEMMA SettleStep ==
    ASSUME MaxLate = 0, TypeOK, SettleInv, [Next]_vars
    PROVE  SettleInv'
<1> USE DEF SettleInv, RunningJob, Terminal, NoJob, Job
<1>0. /\ status \in [Job -> Status] /\ latest \in 0..MaxJobs /\ revoked \in SUBSET Job
      /\ task \in [Job -> {"none", "queued", "unacked", "acked"}]
      /\ pc \in [Worker -> PC] /\ job \in [Worker -> 0..MaxJobs]
      /\ IF cancel.step = "none" THEN cancel.job = NoJob ELSE cancel.job \in Job
      /\ stale \in 0..MaxJobs /\ late \in Nat /\ MaxJobs \in Nat
  BY ConstantsOK DEF TypeOK, DbTypeOK, BrokerTypeOK, RunTypeOK, ApiTypeOK, BoundsTypeOK
<1>1. ASSUME NEW w \in Worker, WorksOn(w)  PROVE SettleInv'
  BY <1>0, <1>1 DEF WorksOn, Goto
<1>2. ASSUME NEW w \in Worker, Settles(w)  PROVE SettleInv'
  BY <1>0, <1>2 DEF Settles, Goto, Acknowledge
<1>3. CASE ContainerKill
  BY <1>0, <1>3 DEF ContainerKill, dbVars, apiVars
<1>4. CASE BrokerStep
  <2>1. ASSUME NEW w \in Worker, NEW j \in Job, Deliver(w, j)  PROVE SettleInv'
    BY <1>0, <2>1 DEF Deliver, HandOver, Goto, dbVars, apiVars
  <2>2. ASSUME NEW j \in Job, DiscardRevoked(j)  PROVE SettleInv'
    BY <1>0, <2>2 DEF DiscardRevoked, dbVars, runVars, apiVars
  <2>3. ASSUME NEW j \in Job, RedeliverLost(j)  PROVE SettleInv'
    BY <1>0, <2>3 DEF RedeliverLost, dbVars, runVars, apiVars
  <2>4. \A j \in Job : ~RedeliverLate(j)
    BY <1>0 DEF RedeliverLate
  <2> QED
    BY <1>4, <2>1, <2>2, <2>3, <2>4 DEF BrokerStep
<1>5. CASE CreateJob
  BY <1>0, <1>5 DEF CreateJob, runVars, apiVars
<1>6. ASSUME NEW j \in Job, SendTask(j)  PROVE SettleInv'
  <2>1. UNCHANGED <<latest, status, revoked, pc, job, cancel>> /\ j <= latest
    BY <1>6 DEF SendTask, dbVars, runVars, apiVars
  <2>2. task[j] = "none" /\ task' = [task EXCEPT ![j] = "queued"]
    BY <1>6 DEF SendTask
  <2>3. \A k \in Job : task'[k] # task[k] => task[k] = "none" /\ task'[k] = "queued" /\ k <= latest
    BY <1>0, <2>1, <2>2
  <2> QED
    BY <1>0, <2>1, <2>3
<1>7. CASE CancelBegins
  BY <1>0, <1>7 DEF CancelBegins, dbVars, runVars
<1>8. CASE CancelFlags
  <2>1. /\ UNCHANGED <<latest, status, task, pc, job>> /\ cancel.job \in Job
        /\ revoked' = IF task[cancel.job] = "none" THEN revoked ELSE revoked \cup {cancel.job}
    BY <1>0, <1>8 DEF CancelFlags, dbVars
  <2>2. cancel'.job = cancel.job
    BY <1>8 DEF CancelFlags, TypeOK, ApiTypeOK
  <2> QED
    BY <1>0, <2>1, <2>2
<1>9. CASE CancelWrites \/ StaleWrite
  <2>1. ASSUME NEW j \in Job, UpdateJobProgress(j, "CANCELLED") \/ UpdateJobProgress(j, "FAILED"),
               UNCHANGED <<task, revoked, pc, job>>, cancel' = cancel \/ cancel.job = j
        PROVE  SettleInv'
    <3>1. \A k \in Job : status'[k] \in Terminal \/ (k # j /\ status'[k] = status[k])
      BY <1>0, <2>1 DEF UpdateJobProgress
    <3>2. latest' = latest /\ \A k \in Job : cancel'.job # k => k = j \/ cancel.job # k
      BY <2>1 DEF UpdateJobProgress
    <3> QED
      BY SMTT(60), <1>0, <2>1, <3>1, <3>2
  <2> QED
    BY <1>0, <1>9, <2>1 DEF CancelWrites, StaleWrite, runVars
<1>10. CASE StaleRead \/ LeaseLapses \/ CancelFlagExpires \/ UNCHANGED vars
  BY <1>10 DEF StaleRead, LeaseLapses, CancelFlagExpires, vars, dbVars, runVars, apiVars
<1> QED
  BY <1>1, <1>2, <1>3, <1>4, <1>5, <1>6, <1>7, <1>8, <1>9, <1>10, RunKinds DEF Next, ApiStep

(* A message that is settled for good leaves a job that reads as over,     *)
(* whichever way its run ended: _on_any_task_failure, the except block,    *)
(* the explicit status of a refused run and the cancel endpoint.  A        *)
(* message delivered a second time during its run is excluded: the first   *)
(* copy's end settles both, and a kill then leaves the second's job open.  *)
THEOREM SettledIsSettled ==
    ASSUME MaxLate = 0
    PROVE  Spec => []SettledMessageSettledJob
<1>1. Init => SettleInv
  BY DEF Init, SettleInv
<1>2. TypeOK /\ SettleInv /\ [Next]_vars => SettleInv'
  BY SettleStep
<1>3. SettleInv => SettledMessageSettledJob
  BY DEF SettleInv, SettledMessageSettledJob
<1> QED
  BY <1>1, <1>2, <1>3, TypeCorrect, PTL DEF Spec
=============================================================================
