------------------------------ MODULE MCBatch ------------------------------
(* Model-checking instances of Batch, on a host whose limit Sizing works   *)
(* out from the default settings; and the policy of PickNext, tried on all *)
(* small queues.                                                           *)
EXTENDS Batch, TLC

CONSTANTS a, b, w1, w2, c1, c2

Host == INSTANCE Sizing

MCItems == {a, b}
MCWorkers == {w1, w2}
MCOneClient == {c1}
MCClients == {c1, c2}

ItemsAndWorkers == Permutations(MCItems) \cup Permutations(MCWorkers)

(* core/config.py, and a host with eight gigabytes.                        *)
Defaults ==
  [ocr_reserved_cpu |-> 3, ocr_reserved_memory_mb |-> 1536, ocr_worker_est_memory_mb |-> 4800,
   batch_light_engine_est_memory_mb |-> 700, max_ai_concurrency |-> 2, ocr_max_concurrency |-> 0,
   ocr_workers |-> 0, ocr_max_workers |-> 10, ocr_min_workers |-> 1, ocr_auto_fallback |-> TRUE]
Small == Host!DetectHostResources(4, 8000, 200000, 100000, Host!Unknown)
MCLimit == Host!ResolveConcurrency("paddleocr", Small, Defaults)

(* Up to four files that wait or run, with equal sizes among them.         *)
Files == {[score |-> s, position |-> p] : s \in 1 .. 3, p \in 1 .. 4}
Queues == {f \in SUBSET Files : /\ f # {} /\ Cardinality(f) <= 4
                                /\ \A i, j \in f : i.position = j.position => i = j}

(* The file that is picked waits; with one lane none before it waits; and  *)
(* of two files started in a row at most one is not the smallest, so that  *)
(* a long file never holds up all short ones.                              *)
ASSUME PickNextPolicy ==
  \A all \in Queues : \A queued \in SUBSET all \ {{}} : \A lanes \in 1 .. 2 :
    LET running == all \ queued
        pick == Host!PickNext(queued, running, lanes)
        smallest(i, q) == \A j \in q \ {i} : Host!Before(i, j)
        rest == queued \ {pick}
    IN /\ pick \in queued
       /\ lanes = 1 => smallest(pick, queued)
       /\ rest # {} /\ ~smallest(pick, queued)
            => smallest(Host!PickNext(rest, running \cup {pick}, lanes), rest)

(* No bound is overrun where documents share the workers, whatever the     *)
(* engine: the documents at a time, times the workers of each, are within  *)
(* the workers the host has, or one for each document.                     *)
ASSUME WorkersShared ==
  \A cpu \in 1 .. 9, mem \in {Host!Unknown, 4000, 8000, 12000, 40000}, cap \in 0 .. 3,
     workers \in {0, 1, 7}, provider \in {"paddleocr", "tesseract", "nvidia", "ollama"} :
    LET h == [cpu |-> cpu, mem |-> mem]
        s == [Defaults EXCEPT !.ocr_max_concurrency = cap, !.ocr_workers = workers]
        n == Host!ResolveConcurrency(provider, h, s)
        each == Host!NumWorkers(Host!ResolvedOcrWorkers(cpu, mem, s), 100,
                                Host!PoolWorkersPerJob(provider, n, h, s))
    IN /\ each >= 1
       /\ cap > 0 => n <= cap
       /\ n > 1 => n * each <= Host!Larger(n, Host!WorkerBudget(provider, h, s))
=============================================================================
