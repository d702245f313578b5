------------------------------- MODULE Sizing -------------------------------
(* How many documents are processed at a time, with how many page workers  *)
(* each, and which file of a batch is next.  Pure functions of what the    *)
(* host has (h: cpu, mem), of the settings (s, under their names in        *)
(* core/config.py) and of the waiting files.  Memory is in megabytes.      *)
EXTENDS Integers, FiniteSets

Unknown == -1
Larger(a, b) == IF a > b THEN a ELSE b
Smaller(a, b) == IF a < b THEN a ELSE b
Least(S) == CHOOSE x \in S : \A y \in S : x <= y

-----------------------------------------------------------------------------
(* The host, as its container limits it                                    *)

(* Without a quota the container has no CPU limit; a part of a CPU is one. *)
CgroupCpuLimit(quota, period) ==
  IF quota = Unknown THEN Unknown ELSE Larger(1, (quota + period - 1) \div period)

(* The smaller of two figures of which either may be missing.              *)
Tighter(a, b) == IF a = Unknown THEN b ELSE IF b = Unknown THEN a ELSE Smaller(a, b)

DetectHostResources(cpus, memory, quota, period, memoryLimit) ==
  [cpu |-> Tighter(cpus, CgroupCpuLimit(quota, period)), mem |-> Tighter(memory, memoryLimit)]

-----------------------------------------------------------------------------
(* Documents at a time                                                     *)

CpuBudget(h, s) == Larger(1, h.cpu - s.ocr_reserved_cpu)

RamFit(mem, per_job_mb, reserved_mb) == Larger(1, (mem - reserved_mb) \div Larger(1, per_job_mb))

(* A worker of PaddleOCR holds a model; one of another engine, a document. *)
PerWorker(provider, s) ==
  IF provider = "paddleocr" THEN s.ocr_worker_est_memory_mb ELSE s.batch_light_engine_est_memory_mb

RamBound(provider, h, s) ==
  IF h.mem = Unknown THEN {} ELSE {RamFit(h.mem, PerWorker(provider, s), s.ocr_reserved_memory_mb)}

EngineBounds(provider, h, s) ==
  CASE provider \in {"paddleocr", "tesseract"} -> {CpuBudget(h, s)} \cup RamBound(provider, h, s)
    [] provider = "nvidia" -> {Larger(1, s.max_ai_concurrency)} \cup RamBound(provider, h, s)
    [] OTHER -> {1}

Bounds(provider, h, s) ==
  EngineBounds(provider, h, s) \cup ({s.ocr_max_concurrency} \cap (Nat \ {0}))

ResolveConcurrency(provider, h, s) == Larger(1, Least(Bounds(provider, h, s)))

-----------------------------------------------------------------------------
(* Page workers of one document                                            *)

Requested(s) == IF s.ocr_workers > 0 THEN s.ocr_workers ELSE s.ocr_max_workers

(* The size a document's pool has by itself, from the memory available at  *)
(* its start.                                                              *)
ResolvedOcrWorkers(cpus, available, s) ==
  LET ram_budget ==
        IF available = Unknown THEN Larger(1, Smaller(6, cpus \div 2))
        ELSE Larger(1, Larger(0, available - s.ocr_reserved_memory_mb) \div s.ocr_worker_est_memory_mb)
      safe == Smaller(Smaller(Requested(s), Larger(1, cpus - s.ocr_reserved_cpu)), ram_budget)
  IN IF ~s.ocr_auto_fallback THEN Larger(1, Requested(s)) ELSE Larger(s.ocr_min_workers, safe)

(* What documents that run at the same time share.                         *)
WorkerBudget(provider, h, s) ==
  LET total == Smaller(Requested(s), CpuBudget(h, s))
  IN IF h.mem = Unknown THEN total
     ELSE Smaller(total, RamFit(h.mem, PerWorker(provider, s), s.ocr_reserved_memory_mb))

(* One document at a time has no cap.                                      *)
PoolWorkersPerJob(provider, concurrency, h, s) ==
  IF concurrency <= 1 THEN Unknown
  ELSE Larger(1, WorkerBudget(provider, h, s) \div concurrency)

(* The workers the pipeline starts for the pages it has to process.        *)
NumWorkers(resolved, pages, cap) ==
  LET n == Smaller(resolved, pages)
  IN IF cap = Unknown THEN n ELSE Larger(1, Smaller(n, cap))

-----------------------------------------------------------------------------
(* The next file                                                           *)

(* The cost of a file, a page costing 1024^3: its pages and its bytes, or  *)
(* its bytes alone when the pages are not known.                           *)
Gigabyte == 1024 * 1024 * 1024
EstimateWorkload(page_count, size_bytes) ==
  IF page_count > 0 THEN page_count * Gigabyte + size_bytes
  ELSE Larger(Gigabyte, (size_bytes * Gigabyte) \div (150 * 1024)) + size_bytes

Before(i, j) == i.score < j.score \/ (i.score = j.score /\ i.position < j.position)
Ranked(S, k) == CHOOSE i \in S : Cardinality({j \in S : Before(j, i)}) = k - 1
TwiceMedian(S) ==
  LET n == Cardinality(S) IN Ranked(S, (n + 1) \div 2).score + Ranked(S, n \div 2 + 1).score

(* The smallest file, but the largest one when there is more than one lane *)
(* and no long file is under way.                                          *)
PickNext(queued, running, concurrency) ==
  IF /\ concurrency >= 2 /\ Cardinality(queued) > 1 /\ running # {}
     /\ \A r \in running : 2 * r.score < TwiceMedian(queued \cup running)
  THEN Ranked(queued, Cardinality(queued)) ELSE Ranked(queued, 1)
=============================================================================
