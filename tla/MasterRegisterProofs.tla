------------------------ MODULE MasterRegisterProofs ------------------------
(* Proofs about MasterRegister, for any books, file names, covers and      *)
(* processes: the types, and that the workbook lists a book's current      *)
(* number, no number twice, finished books only, and in a download every   *)
(* book it was asked for.                                                  *)
EXTENDS MasterRegister, FiniteSetTheorems, WellFoundedInduction, TLAPS

-----------------------------------------------------------------------------
(* About the operators                                                     *)

(* A finite set of numbers has a greatest element: a smallest set without  *)
(* one would leave, after losing an element, a smaller set without one.    *)
LEMMA GreatestElement ==
  ASSUME NEW S \in SUBSET Int, IsFiniteSet(S), S # {}
  PROVE /\ Max(S) \in S
        /\ \A y \in S : Max(S) >= y
<1> DEFINE Has(T) == \E m \in T : \A y \in T : m >= y
           Bad == {T \in FiniteSubsetsOf(S) : T # {} /\ ~Has(T)}
<1>1. Bad = {}
  <2> SUFFICES ASSUME Bad # {} PROVE FALSE
    OBVIOUS
  <2>1. PICK T \in Bad : \A U \in Bad : <<U, T>> \notin StrictSubsetOrdering(S)
    <3>1. Bad \subseteq FiniteSubsetsOf(S)
      OBVIOUS
    <3> HIDE DEF Bad
    <3> QED BY <3>1, FS_StrictSubsetOrderingWellFounded, WFMin
  <2>2. PICK x \in T : x \in Int
    BY DEF FiniteSubsetsOf
  <2>3. T \ {x} \in FiniteSubsetsOf(S) /\ T \subseteq S
    BY FS_RemoveElement DEF FiniteSubsetsOf
  <2>4. <<T \ {x}, T>> \in StrictSubsetOrdering(S)
    BY <2>2, <2>3 DEF StrictSubsetOrdering
  <2>5. T \ {x} = {} \/ Has(T \ {x})
    BY <2>1, <2>3, <2>4
  <2>6. Has(T)
    <3>1. CASE T \ {x} = {}
      BY <2>2, <3>1
    <3>2. CASE Has(T \ {x})
      <4>1. PICK m \in T \ {x} : \A y \in T \ {x} : m >= y
        BY <3>2
      <4>2. m \in Int
        BY <2>3
      <4>3. CASE m >= x
        BY <4>1, <4>3
      <4>4. CASE x >= m
        <5>1. \A y \in T \ {x} : y \in Int /\ x >= y
          BY <2>2, <2>3, <4>1, <4>2, <4>4
        <5> QED BY <2>2, <5>1
      <4> QED BY <2>2, <4>2, <4>3, <4>4
    <3> QED BY <2>5, <3>1, <3>2
  <2> QED BY <2>1, <2>6
<1>2. Has(S)
  BY <1>1 DEF FiniteSubsetsOf
<1> QED BY <1>2 DEF Max

(* A new record's number is free, by what the table holds when it is read. *)
LEMMA NumberChosen ==
  ASSUME TypeOK, NEW d \in Doc
  PROVE NumberFor(d) \in Nat \ {None} /\ ~Taken(NumberFor(d), d)
<1> DEFINE S == {Start - 1} \cup {record[e] : e \in Doc}
<1>1. IsFiniteSet({record[e] : e \in Doc}) /\ S \in SUBSET Int
  <2>1. IsFiniteSet({record[e] : e \in Doc})
    <3>1. record \in Surjection(Doc, {record[e] : e \in Doc})
      BY DEF TypeOK, DataTypeOK, Surjection
    <3> QED BY <3>1, NumbersAssumption, FS_Surjection DEF ExistsSurjection
  <2> QED BY <2>1, NumbersAssumption DEF TypeOK, DataTypeOK, None
<1>2. IsFiniteSet(S)
  BY <1>1, FS_AddElement
<1>3. Max(S) \in S /\ \A y \in S : Max(S) >= y
  BY <1>1, <1>2, GreatestElement
<1>4. NextNumber \in Nat \ {None} /\ \A e \in Doc : NextNumber > record[e]
  <2>1. NextNumber = Max(S) + 1
    BY DEF NextNumber
  <2>2. Start \in Nat /\ Start > 0 /\ \A e \in Doc : record[e] \in Nat
    BY NumbersAssumption DEF TypeOK, DataTypeOK, None
  <2>3. Max(S) \in Int /\ Max(S) >= Start - 1 /\ \A e \in Doc : Max(S) >= record[e]
    BY <1>1, <1>3
  <2> HIDE DEF S
  <2>4. Max(S) + 1 \in Nat \ {None} /\ \A e \in Doc : Max(S) + 1 > record[e]
    BY <2>2, <2>3 DEF None
  <2> QED BY <2>1, <2>4
<1>5. ~Taken(NextNumber, d)
  BY <1>4, NumbersAssumption DEF Taken, TypeOK, DataTypeOK
<1>6. Extracted(d) \in Nat
  BY NumbersAssumption DEF Extracted
<1> QED BY <1>4, <1>5, <1>6 DEF NumberFor

(* The rows of a finite set are listed once each.                          *)
LEMMA Listed ==
  ASSUME NEW S, IsFiniteSet(S)
  PROVE LET s == SetToSeq(S) IN
    /\ s \in Seq(S) /\ IsInjective(s) /\ ToSet(s) = S
    /\ DOMAIN s = 1 .. Len(s)
<1> DEFINE n == Cardinality(S)
           s == SetToSeq(S)
<1>1. n \in Nat /\ ExistsBijection(1 .. n, S)
  BY FS_CardinalityType
<1>2. \E f \in [1 .. n -> S] : IsInjective(f)
  BY <1>1 DEF ExistsBijection, Bijection, Injection
<1>3. s \in [1 .. n -> S] /\ IsInjective(s)
  BY <1>2 DEF SetToSeq
<1>4. IsFiniteSet(1 .. n) /\ Cardinality(1 .. n) = n
  BY <1>1, FS_Interval
<1>5. s \in Surjection(1 .. n, S)
  <2>1. s \in Injection(1 .. n, S)
    BY <1>3 DEF Injection
  <2> HIDE DEF s
  <2> QED BY <2>1, <1>4, FS_Injection
<1>6. ToSet(s) = S
  BY <1>3, <1>5 DEF ToSet, Surjection
<1> HIDE DEF s, n
<1>7. s \in Seq(S) /\ DOMAIN s = 1 .. Len(s)
  BY <1>1, <1>3
<1> QED BY <1>3, <1>6, <1>7 DEF s

(* One sequence after another.                                             *)
LEMMA Joined ==
  ASSUME NEW s \in Seq(Rows), NEW t \in Seq(Rows)
  PROVE /\ DOMAIN s = 1 .. Len(s) /\ DOMAIN t = 1 .. Len(t) /\ DOMAIN (s \o t) = 1 .. Len(s) + Len(t)
        /\ \A i \in 1 .. Len(s) : (s \o t)[i] = s[i]
        /\ \A i \in 1 .. Len(s) + Len(t) :
             i \in 1 .. Len(s) \/ (i - Len(s) \in 1 .. Len(t) /\ (s \o t)[i] = t[i - Len(s)])
        /\ ToSet(s \o t) = ToSet(s) \cup ToSet(t)
<1>1. /\ DOMAIN s = 1 .. Len(s) /\ DOMAIN t = 1 .. Len(t) /\ DOMAIN (s \o t) = 1 .. Len(s) + Len(t)
      /\ Len(s) \in Nat /\ Len(t) \in Nat
  OBVIOUS
<1>2. \A i \in 1 .. Len(s) : (s \o t)[i] = s[i] /\ i \in 1 .. Len(s) + Len(t)
  OBVIOUS
<1>3. \A i \in 1 .. Len(s) + Len(t) :
        i \in 1 .. Len(s) \/ (i - Len(s) \in 1 .. Len(t) /\ (s \o t)[i] = t[i - Len(s)])
  <2> TAKE i \in 1 .. Len(s) + Len(t)
  <2>0. i \in Nat /\ i >= 1 /\ i <= Len(s) + Len(t) /\ Len(s) \in Nat /\ Len(t) \in Nat
    BY <1>1
  <2>1. CASE i <= Len(s)
    <3>1. i \in 1 .. Len(s)
      BY ONLY <2>0, <2>1
    <3> QED BY <3>1
  <2>2. CASE i > Len(s)
    <3>1. i - Len(s) \in 1 .. Len(t)
      BY ONLY <2>0, <2>2
    <3>2. (s \o t)[i] = t[i - Len(s)]
      BY <1>1, <2>2
    <3> QED BY <3>1, <3>2
  <2> QED BY <2>0, <2>1, <2>2
<1>4. \A j \in 1 .. Len(t) : j + Len(s) \in 1 .. Len(s) + Len(t) /\ (s \o t)[j + Len(s)] = t[j]
  OBVIOUS
<1>5. ToSet(s \o t) = ToSet(s) \cup ToSet(t)
  <2>1. ASSUME NEW r \in ToSet(s \o t) PROVE r \in ToSet(s) \cup ToSet(t)
    BY <1>1, <1>2, <1>3 DEF ToSet
  <2>2. ASSUME NEW r \in ToSet(s) \cup ToSet(t) PROVE r \in ToSet(s \o t)
    BY ONLY <1>1, <1>2, <1>4, r \in ToSet(s) \cup ToSet(t) DEF ToSet
  <2> QED BY <2>1, <2>2
<1> QED BY <1>1, <1>2, <1>3, <1>5

(* Sorting moves the rows and nothing else.                                *)
LEMMA Arranged ==
  ASSUME NEW rows \in Seq(Rows), NEW s \in Sorted(rows)
  PROVE /\ s \in Seq(Rows) /\ DOMAIN s = DOMAIN rows /\ ToSet(s) = ToSet(rows)
        /\ \E f \in [DOMAIN rows -> DOMAIN rows] :
             IsInjective(f) /\ \A i \in DOMAIN rows : s[i] = rows[f[i]]
<1>1. PICK f \in Bijection(DOMAIN rows, DOMAIN rows) : s = [i \in DOMAIN rows |-> rows[f[i]]]
  BY DEF Sorted
<1>2. /\ f \in [DOMAIN rows -> DOMAIN rows] /\ IsInjective(f)
      /\ \A j \in DOMAIN rows : \E i \in DOMAIN rows : f[i] = j
  BY DEF Bijection, Injection, Surjection
<1>3. \A i \in DOMAIN rows : s[i] = rows[f[i]]
  BY <1>1
<1>4. DOMAIN s = DOMAIN rows
  BY <1>1
<1>5. s \in Seq(Rows)
  <2>1. DOMAIN rows = 1 .. Len(rows) /\ Len(rows) \in Nat /\ \A i \in DOMAIN rows : rows[i] \in Rows
    OBVIOUS
  <2>2. s \in [1 .. Len(rows) -> Rows]
    BY <1>1, <1>2, <2>1
  <2> QED BY <2>1, <2>2
<1>6. ToSet(s) = ToSet(rows)
  BY <1>2, <1>3, <1>4 DEF ToSet
<1> QED BY <1>2, <1>3, <1>4, <1>5, <1>6

-----------------------------------------------------------------------------
(* Initially                                                               *)

LEMMA IdleType == Idle \in TaskType
BY DEF Idle, TaskType, PC, None

LEMMA InitOK == Init => IInv
<1> SUFFICES ASSUME Init PROVE IInv
  OBVIOUS
<1>0. PICK old \in SUBSET Doc : \E f \in Bijection(old, Start .. Start + Cardinality(old) - 1) :
        /\ record = [d \in Doc |-> IF d \in old THEN f[d] ELSE None]
        /\ job = [d \in Doc |-> IF d \in old THEN "completed" ELSE "none"]
        /\ done = old
  BY DEF Init
<1>1. PICK f \in Bijection(old, Start .. Start + Cardinality(old) - 1) :
        /\ record = [d \in Doc |-> IF d \in old THEN f[d] ELSE None]
        /\ job = [d \in Doc |-> IF d \in old THEN "completed" ELSE "none"]
        /\ done = old
  BY <1>0
<1>2. Start .. Start + Cardinality(old) - 1 \subseteq Nat
  <2>1. Cardinality(old) \in Nat /\ Start \in Nat
    BY NumbersAssumption, FS_Subset, FS_CardinalityType
  <2> QED BY <2>1
<1>3. \A d \in old : f[d] \in Nat /\ \A e \in old : f[d] = f[e] => d = e
  BY <1>2 DEF Bijection, Injection, IsInjective
<1>4. record \in [Doc -> Nat] /\ \A d \in Doc : record[d] # None => d \in old /\ record[d] = f[d]
  BY <1>1, <1>3 DEF None
<1>5. task = [p \in Proc |-> Idle] /\ sheet = <<>> /\ deleted = {} /\ stale = {} /\ torn = {}
      /\ ready = FALSE /\ lock = Nobody /\ left \in [Bounded -> Nat]
  BY NumbersAssumption DEF Init
<1>6. TypeOK
  <2>1. task \in [Proc -> TaskType] /\ lock = Nobody
    BY <1>5, IdleType
  <2>2. DataTypeOK
    <3>1. job \in [Doc -> {"none", "running", "completed", "failed"}] /\ done \subseteq Doc
      BY <1>1
    <3>2. sheet \in Seq(Rows) /\ ready \in BOOLEAN
      <4>1. <<>> \in Seq(Rows)
        OBVIOUS
      <4> QED BY <4>1, <1>5
    <3>3. deleted \subseteq Doc /\ stale \subseteq Doc /\ torn \subseteq Doc /\ left \in [Bounded -> Nat]
      BY <1>5
    <3>4. record \in [Doc -> Nat]
      BY <1>4
    <3> QED BY <3>1, <3>2, <3>3, <3>4 DEF DataTypeOK
  <2> QED BY <2>1, <2>2 DEF TypeOK
<1>7. NumbersInv
  BY <1>1, <1>3, <1>4 DEF NumbersInv
<1>8. RunsApart
  BY <1>5 DEF RunsApart, Idle
<1>9. TasksInv
  BY <1>5, FS_EmptySet DEF TasksInv, Idle, WorkOK, RowsOK, DownloadOK
<1>10. SheetInv
  BY <1>5 DEF SheetInv, NoNumberTwice, RowsMatchRecords, RowsOfCompletedBooks, SheetRows, ToSet
<1> QED BY <1>6, <1>7, <1>8, <1>9, <1>10 DEF IInv

-----------------------------------------------------------------------------
(* Types                                                                   *)

LEMMA TaskFields ==
  ASSUME TypeOK, NEW p \in Proc
  PROVE /\ task[p] \in TaskType
        /\ task[p].pc \in PC /\ task[p].doc \subseteq Doc /\ task[p].number \in Nat
        /\ task[p].todo \subseteq Doc /\ task[p].need \subseteq Doc /\ task[p].dirty \subseteq Doc
        /\ task[p].rows \subseteq Rows /\ task[p].present \subseteq Nat
        /\ task[p].excused \in BOOLEAN
        /\ task[p].kind \in {"none", "run", "download", "refresh"}
<1>1. task[p] \in TaskType
  BY DEF TypeOK
<1> QED BY <1>1 DEF TaskType

LEMMA SheetType ==
  ASSUME TypeOK
  PROVE SheetRows \subseteq Rows /\ Numbers(SheetRows) \subseteq Nat /\ sheet \in Seq(Rows)
<1>1. sheet \in Seq(Rows)
  BY DEF TypeOK, DataTypeOK, Rows
<1>2. SheetRows \subseteq Rows
  BY <1>1 DEF SheetRows, ToSet
<1> QED BY <1>1, <1>2 DEF Numbers, Rows

(* One field at a time.                                                    *)
LEMMA FieldType ==
  ASSUME NEW t \in TaskType
  PROVE /\ \A x \in PC : [t EXCEPT !.pc = x] \in TaskType
        /\ \A x \in {"none", "run", "download", "refresh"} : [t EXCEPT !.kind = x] \in TaskType
        /\ \A x \in SUBSET Doc : /\ [t EXCEPT !.doc = x] \in TaskType
                                /\ [t EXCEPT !.todo = x] \in TaskType
                                /\ [t EXCEPT !.need = x] \in TaskType
                                /\ [t EXCEPT !.dirty = x] \in TaskType
        /\ \A x \in Nat : [t EXCEPT !.number = x] \in TaskType
        /\ \A x \in SUBSET Nat : [t EXCEPT !.present = x] \in TaskType
        /\ \A x \in SUBSET Rows : [t EXCEPT !.rows = x] \in TaskType
        /\ \A x \in BOOLEAN : [t EXCEPT !.excused = x] \in TaskType
BY DEF TaskType

LEMMA OneTaskType ==
  ASSUME TypeOK, NEW p \in Proc, NEW x \in TaskType, task' = [task EXCEPT ![p] = x], DataTypeOK',
         \/ lock' = Nobody
         \/ lock' = p /\ x.pc = "write"
         \/ lock' = lock /\ (lock # p \/ ~At(p, "write"))
  PROVE TypeOK'
<1>1. task' \in [Proc -> TaskType] /\ task'[p] = x /\ \A q \in Proc \ {p} : task'[q] = task[q]
  BY DEF TypeOK
<1>2. lock' \in {Nobody} \cup {q \in Proc : At(q, "write")'}
  BY <1>1 DEF TypeOK, At
<1> QED BY <1>1, <1>2 DEF TypeOK

LEMMA SpendType ==
  ASSUME DataTypeOK, NEW what \in Bounded, Spend(what)
  PROVE left' \in [Bounded -> Nat]
BY DEF DataTypeOK, Spend

(* What is left alone keeps its type.                                      *)
LEMMA Unchanged ==
  ASSUME DataTypeOK
  PROVE /\ record' = record => record' \in [Doc -> Nat]
        /\ job' = job => job' \in [Doc -> {"none", "running", "completed", "failed"}]
        /\ deleted' = deleted => deleted' \subseteq Doc
        /\ done' = done => done' \subseteq Doc
        /\ stale' = stale => stale' \subseteq Doc
        /\ torn' = torn => torn' \subseteq Doc
        /\ ready' = ready => ready' \in BOOLEAN
        /\ sheet' = sheet => sheet' \in Seq(Rows)
        /\ left' = left => left' \in [Bounded -> Nat]
BY DEF DataTypeOK

(* How the steps that work on one task change it.                          *)
LEMMA TaskSteps ==
  ASSUME TypeOK, NEW p \in Proc,
         \/ ReadRecord(p) \/ ExtractionFails(p) \/ InsertRecord(p) \/ InsertRefused(p) \/ Complete(p)
         \/ RefreshBegins(p) \/ RefreshNext(p) \/ DownloadBegins(p) \/ ReadPresent(p) \/ Candidates(p)
         \/ BuildRow(p) \/ RowsBuilt(p) \/ Ensured(p) \/ AcquireLock(p) \/ LockTimesOut(p)
         \/ SaveFails(p) \/ AppendRows(p) \/ Serve(p) \/ ProcessDies(p)
  PROVE \E x \in TaskType : task' = [task EXCEPT ![p] = x]
<1> USE TaskFields, FieldType, IdleType
<1>1. {"idle", "record", "insert", "complete", "backfill", "candidates", "present", "rows",
       "ensure", "lock", "write", "serve"} \subseteq PC
  BY DEF PC
<1>2. CASE ReadRecord(p)
  <2>1. PICK d \in task[p].doc : task' = [task EXCEPT ![p] =
           IF record[d] # None THEN [@ EXCEPT !.pc = "complete"]
           ELSE [@ EXCEPT !.pc = "insert", !.number = NumberFor(d)]]
    BY <1>2 DEF ReadRecord
  <2>2. NumberFor(d) \in Nat
    BY NumberChosen
  <2> QED BY <1>1, <2>1, <2>2
<1>3. CASE ExtractionFails(p) \/ Ensured(p) \/ AcquireLock(p)
  BY <1>1, <1>3 DEF ExtractionFails, Ensured, AcquireLock
<1>4. CASE InsertRecord(p) \/ InsertRefused(p)
  BY <1>1, <1>4 DEF InsertRecord, InsertRefused, None
<1>5. CASE Complete(p)
  BY <1>1, <1>5 DEF Complete
<1>6. CASE RefreshBegins(p)
  <2>1. {d \in Doc \ deleted : job[d] = "completed"} \in SUBSET Doc
    OBVIOUS
  <2> QED BY <1>1, <1>6, <2>1 DEF RefreshBegins
<1>7. CASE RefreshNext(p)
  <2>1. CASE task[p].todo = {}
    BY <1>1, <1>7, <2>1 DEF RefreshNext
  <2>2. CASE task[p].todo # {}
    <3>1. PICK d \in task[p].todo :
            task' = [task EXCEPT ![p] = [@ EXCEPT !.pc = "record", !.doc = {d}, !.todo = task[p].todo \ {d}]]
      BY <1>7, <2>2 DEF RefreshNext
    <3>2. {d} \in SUBSET Doc /\ task[p].todo \ {d} \in SUBSET Doc
      OBVIOUS
    <3>3. [task[p] EXCEPT !.pc = "record", !.doc = {d}] \in TaskType
      BY <1>1, <3>2
    <3> QED BY <3>1, <3>2, <3>3
  <2> QED BY <2>1, <2>2
<1>8. CASE DownloadBegins(p)
  <2>1. {d \in Books \ deleted : job[d] = "completed"} \in SUBSET Doc
    BY DEF Books
  <2> QED BY <1>1, <1>8, <2>1 DEF DownloadBegins
<1>9. CASE ReadPresent(p)
  BY <1>1, <1>9, SheetType DEF ReadPresent
<1>10. CASE Candidates(p)
  BY <1>1, <1>10 DEF Candidates, Books
<1>11. CASE BuildRow(p)
  <2>1. PICK d \in task[p].todo : task' = [task EXCEPT ![p] = [@ EXCEPT !.todo = task[p].todo \ {d},
           !.rows = task[p].rows \cup (IF Eligible(d) THEN {Row(d)} ELSE {})]]
    BY <1>11 DEF BuildRow
  <2>2. Row(d) \in Rows
    BY DEF Row, Rows, TypeOK, DataTypeOK
  <2>3. task[p].rows \cup (IF Eligible(d) THEN {Row(d)} ELSE {}) \in SUBSET Rows
        /\ task[p].todo \ {d} \in SUBSET Doc
    BY <2>2
  <2> QED BY <2>1, <2>3
<1>12. CASE RowsBuilt(p) \/ LockTimesOut(p) \/ SaveFails(p) \/ AppendRows(p)
  <2>1. \A excused \in BOOLEAN : Finish(p, excused) => \E x \in TaskType : task' = [task EXCEPT ![p] = x]
    BY <1>1 DEF Finish
  <2>2. CASE \E excused \in BOOLEAN : Finish(p, excused)
    BY <2>1, <2>2
  <2>3. CASE task' = [task EXCEPT ![p] = [@ EXCEPT !.pc = "ensure", !.present = {}]]
    BY <1>1, <2>3
  <2> QED BY <1>12, <2>2, <2>3 DEF RowsBuilt, LockTimesOut, SaveFails, AppendRows
<1>13. CASE Serve(p) \/ ProcessDies(p)
  BY <1>13 DEF Serve, ProcessDies
<1> QED BY <1>2, <1>3, <1>4, <1>5, <1>6, <1>7, <1>8, <1>9, <1>10, <1>11, <1>12, <1>13

(* What the workbook holds after a write.                                  *)
LEMMA WrittenRows ==
  ASSUME TypeOK, TasksInv, NEW p \in Proc
  PROVE /\ AppendRows(p) =>
             \E new \in NotDuplicate(task[p].rows) :
               /\ sheet' \in Sorted(sheet \o SetToSeq(new)) /\ sheet \o SetToSeq(new) \in Seq(Rows)
               /\ IsFiniteSet(new) /\ new \subseteq task[p].rows
        /\ RebuildRegister(p) => SetToSeq(task[p].rows) \in Seq(Rows)
<1>1. IsFiniteSet(task[p].rows) /\ task[p].rows \subseteq Rows
  BY TaskFields DEF TasksInv, RowsOK
<1>2. \A new \in SUBSET task[p].rows : IsFiniteSet(new) /\ SetToSeq(new) \in Seq(Rows)
  <2> TAKE new \in SUBSET task[p].rows
  <2>1. IsFiniteSet(new)
    BY <1>1, FS_Subset
  <2>2. SetToSeq(new) \in Seq(new) /\ new \subseteq Rows
    BY <1>1, <2>1, Listed
  <2> HIDE DEF SetToSeq
  <2> QED BY <2>1, <2>2
<1>3. ASSUME AppendRows(p)
      PROVE \E new \in NotDuplicate(task[p].rows) :
               /\ sheet' \in Sorted(sheet \o SetToSeq(new)) /\ sheet \o SetToSeq(new) \in Seq(Rows)
               /\ IsFiniteSet(new) /\ new \subseteq task[p].rows
  <2>1. PICK new \in NotDuplicate(task[p].rows) : sheet' \in Sorted(sheet \o SetToSeq(new))
    BY <1>3 DEF AppendRows
  <2>2. new \in SUBSET task[p].rows
    BY DEF NotDuplicate
  <2>3. sheet \o SetToSeq(new) \in Seq(Rows)
    BY <1>2, <2>2, SheetType
  <2> QED BY <1>2, <2>1, <2>2, <2>3
<1> QED BY <1>2, <1>3

LEMMA DataTypeStep ==
  ASSUME TypeOK, TasksInv, [Next]_vars
  PROVE DataTypeOK'
<1> USE Unchanged, SpendType DEF Bounded
<1>1. DataTypeOK
  BY DEF TypeOK
<1>2. CASE UNCHANGED vars
  BY <1>1, <1>2 DEF vars, DataTypeOK
<1>3. CASE \E d \in Doc : DeleteBook(d)
  BY <1>1, <1>3 DEF DeleteBook, DataTypeOK
<1>4. ASSUME NEW p \in Proc,
             \/ \E d \in Doc : RunReachesEnd(p, d)
             \/ RefreshBegins(p) \/ DownloadBegins(p)
             \/ ExtractionFails(p) \/ SaveFails(p) \/ ProcessDies(p)
      PROVE DataTypeOK'
  <2>1. CASE \E d \in Doc : RunReachesEnd(p, d)
    BY <1>1, <2>1 DEF RunReachesEnd, DataTypeOK
  <2>2. CASE \/ RefreshBegins(p) \/ DownloadBegins(p)
             \/ ExtractionFails(p) \/ SaveFails(p) \/ ProcessDies(p)
    BY <1>1, <2>2 DEF RefreshBegins, DownloadBegins, ExtractionFails, SaveFails, ProcessDies, DataTypeOK
  <2> QED BY <1>4, <2>1, <2>2
<1>5. ASSUME NEW p \in Proc, Step(p)
      PROVE DataTypeOK'
  <2>1. CASE \/ ReadRecord(p) \/ RefreshNext(p) \/ ReadPresent(p) \/ Candidates(p) \/ BuildRow(p)
             \/ RowsBuilt(p) \/ Ensured(p) \/ AcquireLock(p) \/ LockTimesOut(p) \/ Serve(p)
    BY <1>1, <2>1 DEF ReadRecord, RefreshNext, ReadPresent, Candidates, BuildRow, RowsBuilt, Ensured,
      AcquireLock, LockTimesOut, Serve, DataTypeOK
  <2>2. CASE InsertRecord(p)
    BY <1>1, <2>2, TaskFields DEF InsertRecord, DataTypeOK
  <2>3. CASE InsertRefused(p) \/ Complete(p)
    BY <1>1, <2>3, TaskFields DEF InsertRefused, Complete, DataTypeOK
  <2>4. CASE Backfill(p)
    <3>1. PICK winners \in SUBSET Misnumbered :
            /\ record' = [d \in Doc |-> IF d \in winners THEN Filename[d] ELSE record[d]]
            /\ stale' = stale \cup winners
      BY <2>4 DEF Backfill
    <3>2. winners \subseteq Doc
      BY DEF Misnumbered, Books
    <3>3. record' \in [Doc -> Nat] /\ stale' \subseteq Doc
      BY <1>1, <3>1, <3>2, NumbersAssumption DEF DataTypeOK
    <3> QED BY <1>1, <2>4, <3>3 DEF Backfill, DataTypeOK
  <2>5. CASE EnsureMasterExcel(p)
    <3>1. <<>> \in Seq(Rows)
      OBVIOUS
    <3> QED BY <1>1, <2>5, <3>1 DEF EnsureMasterExcel, DataTypeOK
  <2>6. CASE AppendRows(p)
    <3>1. sheet' \in Seq(Rows)
      BY <2>6, WrittenRows, Arranged
    <3> QED BY <1>1, <2>6, <3>1, TaskFields DEF AppendRows, DataTypeOK
  <2>7. CASE RebuildRegister(p)
    <3>1. sheet' \in Seq(Rows)
      BY <2>7, WrittenRows, Arranged DEF RebuildRegister
    <3> QED BY <1>1, <2>7, <3>1, TaskFields DEF RebuildRegister, DataTypeOK
  <2> QED BY <1>5, <2>1, <2>2, <2>3, <2>4, <2>5, <2>6, <2>7 DEF Step
<1> QED BY <1>2, <1>3, <1>4, <1>5 DEF Next, Environment

LEMMA TypeStep ==
  ASSUME TypeOK, TasksInv, [Next]_vars
  PROVE TypeOK'
<1>1. DataTypeOK'
  BY DataTypeStep
<1>2. CASE UNCHANGED vars \/ \E d \in Doc : DeleteBook(d)
  BY <1>1, <1>2 DEF vars, DeleteBook, TypeOK, At
<1>3. ASSUME NEW p \in Proc,
             \/ ReadRecord(p) \/ ExtractionFails(p) \/ InsertRecord(p) \/ InsertRefused(p) \/ Complete(p)
             \/ RefreshBegins(p) \/ RefreshNext(p) \/ DownloadBegins(p) \/ ReadPresent(p) \/ Candidates(p)
             \/ BuildRow(p) \/ RowsBuilt(p) \/ Ensured(p) \/ AcquireLock(p) \/ LockTimesOut(p)
             \/ SaveFails(p) \/ AppendRows(p) \/ Serve(p) \/ ProcessDies(p)
      PROVE TypeOK'
  <2>1. PICK x \in TaskType : task' = [task EXCEPT ![p] = x]
    BY <1>3, TaskSteps
  <2>2. CASE SaveFails(p) \/ AppendRows(p) \/ ProcessDies(p)
    <3>1. lock' = Nobody \/ (lock' = lock /\ lock # p)
      BY <2>2 DEF SaveFails, AppendRows, ProcessDies, Release, Holds
    <3> QED BY <1>1, <2>1, <3>1, OneTaskType
  <2>3. CASE AcquireLock(p)
    <3>1. task' = [task EXCEPT ![p].pc = "write"] /\ lock' = p
      BY <2>3 DEF AcquireLock
    <3>2. task'[p].pc = "write" /\ task'[p] = x
      BY <2>1, <3>1, TaskFields DEF TypeOK, TaskType
    <3> QED BY <1>1, <2>1, <3>1, <3>2, OneTaskType
  <2>4. CASE \/ ReadRecord(p) \/ ExtractionFails(p) \/ InsertRecord(p) \/ InsertRefused(p) \/ Complete(p)
             \/ RefreshBegins(p) \/ RefreshNext(p) \/ DownloadBegins(p) \/ ReadPresent(p) \/ Candidates(p)
             \/ BuildRow(p) \/ RowsBuilt(p) \/ Ensured(p) \/ LockTimesOut(p) \/ Serve(p)
    <3>1. lock' = lock /\ ~At(p, "write")
      BY <2>4 DEF ReadRecord, ExtractionFails, InsertRecord, InsertRefused, Complete, RefreshBegins,
        RefreshNext, DownloadBegins, ReadPresent, Candidates, BuildRow, RowsBuilt, Ensured,
        LockTimesOut, Serve, At
    <3> QED BY <1>1, <2>1, <3>1, OneTaskType
  <2> QED BY <1>3, <2>2, <2>3, <2>4
<1>4. ASSUME NEW p \in Proc, NEW d \in Doc, RunReachesEnd(p, d)
      PROVE TypeOK'
  <2>1. [Idle EXCEPT !.pc = "record", !.kind = "run", !.doc = {d}] \in TaskType
    BY DEF TaskType, Idle, PC, None
  <2>2. \A q \in Proc : [task[q] EXCEPT !.need = @ \ {d}] \in TaskType
    BY TaskFields, FieldType
  <2>3. task' \in [Proc -> TaskType]
    BY <1>4, <2>1, <2>2 DEF RunReachesEnd
  <2>4. \A q \in Proc \ {p} : task'[q].pc = task[q].pc
    BY <1>4, TaskFields DEF RunReachesEnd, TaskType
  <2>5. lock' = lock /\ ~At(p, "write")
    BY <1>4 DEF RunReachesEnd, At
  <2> QED BY <1>1, <2>3, <2>4, <2>5 DEF TypeOK, At
<1>5. ASSUME NEW p \in Proc, Backfill(p)
      PROVE TypeOK'
  <2>1. PICK winners \in SUBSET Misnumbered :
          task' = [q \in Proc |->
                     IF q = p THEN [task[p] EXCEPT !.pc = "candidates"]
                     ELSE [task[q] EXCEPT !.dirty = @ \cup winners, !.need = @ \ winners]]
    BY <1>5 DEF Backfill
  <2>2. winners \subseteq Doc
    BY DEF Misnumbered, Books
  <2>3. [task[p] EXCEPT !.pc = "candidates"] \in TaskType
    BY TaskFields, FieldType DEF PC
  <2>4. \A q \in Proc : [task[q] EXCEPT !.dirty = @ \cup winners, !.need = @ \ winners] \in TaskType
    <3> TAKE q \in Proc
    <3>1. [task[q] EXCEPT !.dirty = @ \cup winners] \in TaskType
      BY <2>2, TaskFields, FieldType
    <3> QED BY <3>1, <2>2, TaskFields, FieldType
  <2>5. task' \in [Proc -> TaskType]
    BY <2>1, <2>3, <2>4
  <2>6. \A q \in Proc \ {p} : task'[q].pc = task[q].pc
    BY <2>1, TaskFields DEF TaskType
  <2>7. lock' = lock /\ ~At(p, "write")
    BY <1>5 DEF Backfill, At
  <2> QED BY <1>1, <2>5, <2>6, <2>7 DEF TypeOK, At
<1>6. ASSUME NEW p \in Proc, EnsureMasterExcel(p)
      PROVE TypeOK'
  BY <1>1, <1>6 DEF EnsureMasterExcel, TypeOK, At
<1>7. ASSUME NEW p \in Proc, RebuildRegister(p)
      PROVE TypeOK'
  <2>1. \A q \in Proc : [task[q] EXCEPT !.excused = @ \/ (task[q].kind = "download" /\ ~At(q, "present"))] \in TaskType
    BY TaskFields, FieldType
  <2>2. task' \in [Proc -> TaskType]
    BY <1>7, <2>1, IdleType DEF RebuildRegister
  <2>3. lock' = Nobody
    BY <1>7 DEF RebuildRegister, Release
  <2> QED BY <1>1, <2>2, <2>3 DEF TypeOK
<1> QED BY <1>2, <1>3, <1>4, <1>5, <1>6, <1>7 DEF Next, Environment, Step

-----------------------------------------------------------------------------
(* The records                                                             *)

(* The book of a run, or of the record being chosen.                       *)
LEMMA TheDoc ==
  ASSUME TypeOK, NEW p \in Proc, NEW d \in Doc, task[p].doc = {d}
  PROVE OnlyDoc(p) = d
BY DEF OnlyDoc

LEMMA NumbersStep ==
  ASSUME IInv, [Next]_vars
  PROVE NumbersInv'
<1>1. TypeOK /\ NumbersInv /\ TasksInv
  BY DEF IInv
<1>2. /\ record \in [Doc -> Nat] /\ job \in [Doc -> {"none", "running", "completed", "failed"}]
  BY <1>1 DEF TypeOK, DataTypeOK
<1>3. CASE UNCHANGED <<record, job, done>>
  BY <1>1, <1>3 DEF NumbersInv
<1>4. ASSUME NEW p \in Proc, NEW d \in Doc, RunReachesEnd(p, d)
      PROVE NumbersInv'
  BY <1>1, <1>2, <1>4 DEF RunReachesEnd, NumbersInv
<1>5. ASSUME NEW p \in Proc, InsertRecord(p)
      PROVE NumbersInv'
  <2>1. PICK d \in task[p].doc :
          Unique(task[p].number, d) /\ record' = [record EXCEPT ![d] = task[p].number]
    BY <1>5 DEF InsertRecord
  <2>2. job' = job /\ done' = done
    BY <1>5 DEF InsertRecord
  <2>3. d \in Doc /\ \A e \in Doc \ {d} : record[e] # task[p].number
    BY <1>1, <2>1, TaskFields DEF Unique, Taken
  <2> QED BY <1>1, <1>2, <2>1, <2>2, <2>3 DEF NumbersInv
<1>6. ASSUME NEW p \in Proc, InsertRefused(p) \/ Complete(p)
      PROVE NumbersInv'
  <2>1. CASE UNCHANGED <<record, job, done>>
    BY <1>3, <2>1
  <2>2. CASE task[p].kind = "run"
    <3>1. PICK d \in Doc : task[p].doc = {d}
      BY <1>1, <2>2 DEF TasksInv, WorkOK
    <3>2. OnlyDoc(p) = d
      BY <1>1, <3>1, TheDoc
    <3>3. /\ record' = record
          /\ \/ job' = [job EXCEPT ![d] = "failed"] /\ done' = done
             \/ job' = [job EXCEPT ![d] = "completed"] /\ done' = done \cup {d}
      BY <1>6, <2>2, <3>1, <3>2 DEF InsertRefused, Complete
    <3> QED BY <1>1, <1>2, <3>3 DEF NumbersInv
  <2> QED BY <1>6, <2>1, <2>2 DEF InsertRefused, Complete
<1>7. ASSUME NEW p \in Proc, Backfill(p)
      PROVE NumbersInv'
  <2>1. PICK winners \in SUBSET Misnumbered :
          /\ IsInjective([d \in winners |-> Filename[d]])
          /\ record' = [d \in Doc |-> IF d \in winners THEN Filename[d] ELSE record[d]]
    BY <1>7 DEF Backfill
  <2>2. \A d, e \in winners : Filename[d] = Filename[e] => d = e
    BY <2>1 DEF IsInjective
  <2>3. \A d \in winners : \A e \in Doc \ {d} : record[e] # Filename[d]
    BY DEF Misnumbered, Taken
  <2>4. job' = job /\ done' = done
    BY <1>7 DEF Backfill
  <2> QED BY <1>1, <2>1, <2>2, <2>3, <2>4 DEF NumbersInv
<1>8. ASSUME NEW p \in Proc, Step(p)
      PROVE NumbersInv'
  <2>1. CASE \/ ReadRecord(p) \/ RefreshNext(p) \/ ReadPresent(p) \/ Candidates(p) \/ BuildRow(p)
             \/ RowsBuilt(p) \/ EnsureMasterExcel(p) \/ Ensured(p) \/ AcquireLock(p) \/ LockTimesOut(p)
             \/ AppendRows(p) \/ RebuildRegister(p) \/ Serve(p)
    BY <1>3, <2>1 DEF ReadRecord, RefreshNext, ReadPresent, Candidates, BuildRow, RowsBuilt,
      EnsureMasterExcel, Ensured, AcquireLock, LockTimesOut, AppendRows, RebuildRegister, Serve
  <2> QED BY <1>5, <1>6, <1>7, <1>8, <2>1 DEF Step
<1>9. CASE UNCHANGED vars \/ Environment
  <2>1. CASE UNCHANGED vars \/ \E d \in Doc : DeleteBook(d)
    BY <1>3, <2>1 DEF vars, DeleteBook
  <2>2. CASE \E p \in Proc : \/ RefreshBegins(p) \/ DownloadBegins(p)
                            \/ ExtractionFails(p) \/ SaveFails(p) \/ ProcessDies(p)
    BY <1>3, <2>2 DEF RefreshBegins, DownloadBegins, ExtractionFails, SaveFails, ProcessDies
  <2> QED BY <1>4, <1>9, <2>1, <2>2 DEF Environment
<1> QED BY <1>8, <1>9 DEF Next

-----------------------------------------------------------------------------
(* The tasks                                                               *)

(* What another process has in hand survives a step that keeps the records *)
(* there are, the finished jobs, the workbook's numbers and its own job.   *)
LEMMA OtherTask ==
  ASSUME IInv, TypeOK', NEW q \in Proc, task'[q] = task[q],
         \A d \in Doc : record[d] # None => record'[d] = record[d],
         \A d \in Doc : job[d] = "completed" => job'[d] = "completed",
         task[q].kind = "run" => \A d \in task[q].doc : job'[d] = job[d],
         done \subseteq done', deleted \subseteq deleted', ready => ready',
         ready => Numbers(SheetRows) \subseteq Numbers(SheetRows)'
  PROVE (WorkOK(task[q]) /\ RowsOK(task[q]) /\ DownloadOK(task[q]))'
<1>1. WorkOK(task[q]) /\ RowsOK(task[q]) /\ DownloadOK(task[q]) /\ TypeOK
  BY DEF IInv, TasksInv
<1>2. task[q].need \subseteq Doc /\ task[q].rows \subseteq Rows /\ task[q].doc \subseteq Doc
  BY <1>1, TaskFields
<1>3. WorkOK(task[q])'
  BY <1>1, <1>2 DEF WorkOK
<1>4. RowsOK(task[q])'
  <2>1. \A r \in task[q].rows : r.book \in Doc
    BY <1>2 DEF Rows
  <2> QED BY <1>1, <2>1 DEF RowsOK
<1>5. DownloadOK(task[q])'
  <2>1. ASSUME task[q].kind = "download", NEW d \in task[q].need
        PROVE job[d] = "completed" /\ record[d] # None /\ d \in Doc
              /\ record'[d] = record[d] /\ job'[d] = "completed" /\ Row(d)' = Row(d)
    BY <1>1, <1>2, <2>1 DEF DownloadOK, Row
  <2>2. ASSUME task[q].kind = "download", task[q].pc # "present" /\ ~task[q].excused
        PROVE ready' /\ \A d \in task[q].need \ deleted' :
                record[d] \in Numbers(SheetRows)' \/ OnItsWay(task[q], d)
    BY <1>1, <2>2 DEF DownloadOK
  <2>3. ASSUME task[q].kind = "download", NEW d \in task[q].need, OnItsWay(task[q], d)
        PROVE OnItsWay(task[q], d)'
    BY <2>1, <2>3 DEF OnItsWay
  <2> QED BY <2>1, <2>2, <2>3 DEF DownloadOK
<1> QED BY <1>3, <1>4, <1>5

OwnTask(p) == WorkOK(task[p]) /\ RowsOK(task[p]) /\ DownloadOK(task[p])

(* A process that is idle, or has yet to read the workbook, owes nothing.  *)
LEMMA Nothing ==
  ASSUME TypeOK', NEW p \in Proc, task'[p].rows = {},
         task'[p].kind \in {"none", "refresh"}, task'[p].pc \in {"idle", "complete"}
  PROVE OwnTask(p)'
<1>1. IsFiniteSet({})
  BY FS_EmptySet
<1> QED BY <1>1 DEF OwnTask, WorkOK, RowsOK, DownloadOK

LEMMA IdleOwn ==
  ASSUME TypeOK', NEW p \in Proc, task'[p] = Idle
  PROVE OwnTask(p)'
BY Nothing DEF Idle

(* Steps on the way to a record.                                           *)
LEMMA RecordSteps ==
  ASSUME IInv, TypeOK', NEW p \in Proc,
         ReadRecord(p) \/ ExtractionFails(p) \/ RefreshBegins(p) \/ RefreshNext(p)
  PROVE OwnTask(p)' /\ (task'[p].kind = "run" => task[p].kind = "run" /\ task'[p].doc = task[p].doc)
<1>1. OwnTask(p) /\ TypeOK
  BY DEF IInv, TasksInv, OwnTask
<1>2. task[p] \in TaskType /\ task \in [Proc -> TaskType]
  BY <1>1 DEF TypeOK
<1>3. CASE ReadRecord(p)
  <2>1. /\ task[p].pc = "record" /\ task'[p].pc \in {"insert", "complete"} /\ task'[p].rows = task[p].rows
        /\ task'[p].kind = task[p].kind /\ task'[p].doc = task[p].doc /\ job' = job
    <3>1. PICK d \in task[p].doc : task' = [task EXCEPT ![p] =
             IF record[d] # None THEN [@ EXCEPT !.pc = "complete"]
             ELSE [@ EXCEPT !.pc = "insert", !.number = NumberFor(d)]]
      BY <1>3 DEF ReadRecord
    <3>2. task[p].pc = "record" /\ job' = job
      BY <1>3 DEF ReadRecord, At
    <3>3. task'[p] \in {[task[p] EXCEPT !.pc = "complete"],
                       [task[p] EXCEPT !.pc = "insert", !.number = NumberFor(d)]}
      BY <1>2, <3>1
    <3> QED BY <1>2, <3>2, <3>3 DEF TaskType
  <2> QED BY <1>1, <2>1 DEF OwnTask, WorkOK, RowsOK, DownloadOK
<1>4. CASE ExtractionFails(p)
  <2>1. /\ task[p].pc = "record" /\ task'[p].pc = "complete" /\ task'[p].rows = task[p].rows
        /\ task'[p].kind = task[p].kind /\ task'[p].doc = task[p].doc /\ job' = job
    BY <1>2, <1>4 DEF ExtractionFails, At, TaskType
  <2> QED BY <1>1, <2>1 DEF OwnTask, WorkOK, RowsOK, DownloadOK
<1>5. CASE RefreshBegins(p)
  <2>1. task'[p].pc = "complete" /\ task'[p].rows = {} /\ task'[p].kind = "refresh"
    BY <1>2, <1>5 DEF RefreshBegins, TaskType, Idle
  <2> QED BY <2>1, Nothing
<1>6. CASE RefreshNext(p)
  <2>1. /\ task'[p].kind = "refresh" /\ task'[p].rows = task[p].rows
        /\ \/ task'[p].pc = "backfill"
           \/ task'[p].pc = "record" /\ \E d \in Doc : task'[p].doc = {d}
    <3>1. CASE task[p].todo = {}
      <4>1. task' = [task EXCEPT ![p] = [@ EXCEPT !.pc = "backfill", !.doc = {}]] /\ task[p].kind = "refresh"
        BY <1>6, <3>1 DEF RefreshNext
      <4> QED BY <1>2, <4>1 DEF TaskType
    <3>2. CASE task[p].todo # {}
      <4>1. PICK d \in task[p].todo :
              task' = [task EXCEPT ![p] = [@ EXCEPT !.pc = "record", !.doc = {d}, !.todo = task[p].todo \ {d}]]
        BY <1>6, <3>2 DEF RefreshNext
      <4>2. d \in Doc /\ task[p].kind = "refresh"
        BY <1>1, <1>6, TaskFields DEF RefreshNext
      <4> QED BY <1>2, <4>1, <4>2 DEF TaskType
    <3> QED BY <3>1, <3>2
  <2>2. task[p].pc = "complete"
    BY <1>6 DEF RefreshNext, At
  <2> QED BY <1>1, <2>1, <2>2 DEF OwnTask, WorkOK, RowsOK, DownloadOK
<1> QED BY <1>3, <1>4, <1>5, <1>6

(* Steps from the candidates to the workbook.                              *)
LEMMA RowSteps ==
  ASSUME IInv, TypeOK', NEW p \in Proc,
         DownloadBegins(p) \/ ReadPresent(p) \/ Candidates(p) \/ BuildRow(p)
  PROVE OwnTask(p)' /\ (task'[p].kind = "run" => task[p].kind = "run" /\ task'[p].doc = task[p].doc)
<1>1. OwnTask(p) /\ TypeOK /\ NumbersInv
  BY DEF IInv, TasksInv, OwnTask
<1>2. task[p] \in TaskType /\ task \in [Proc -> TaskType]
  BY <1>1 DEF TypeOK
<1>3. CASE DownloadBegins(p)
  <2>1. /\ task'[p].pc = "present" /\ task'[p].rows = {} /\ task'[p].kind = "download"
        /\ task'[p].need = {d \in Books \ deleted : job[d] = "completed"}
        /\ job' = job /\ record' = record
    BY <1>2, <1>3 DEF DownloadBegins, TaskType, Idle
  <2>2. IsFiniteSet({})
    BY FS_EmptySet
  <2> QED BY <2>1, <2>2 DEF OwnTask, WorkOK, RowsOK, DownloadOK, Books
<1>4. CASE ReadPresent(p)
  <2>1. /\ task[p].pc = "present" /\ ready /\ ready' = ready /\ sheet' = sheet
        /\ task'[p].pc = "candidates" /\ task'[p].rows = task[p].rows /\ task'[p].kind = task[p].kind
        /\ task'[p].need = task[p].need /\ task'[p].doc = task[p].doc
        /\ task'[p].present = Numbers(SheetRows)
        /\ job' = job /\ record' = record
    BY <1>2, <1>4 DEF ReadPresent, At, TaskType
  <2>2. Numbers(SheetRows)' = Numbers(SheetRows)
    BY <2>1 DEF SheetRows, Numbers
  <2>3. WorkOK(task[p])' /\ RowsOK(task[p])'
    BY <1>1, <2>1 DEF OwnTask, WorkOK, RowsOK
  <2>4. DownloadOK(task[p])'
    BY <1>1, <2>1, <2>2 DEF OwnTask, DownloadOK, OnItsWay
  <2> QED BY <2>1, <2>3, <2>4 DEF OwnTask
<1>5. CASE Candidates(p)
  <2>1. /\ task[p].pc = "candidates" /\ ready' = ready /\ sheet' = sheet /\ deleted' = deleted
        /\ task'[p].pc = "rows" /\ task'[p].rows = task[p].rows /\ task'[p].kind = task[p].kind
        /\ task'[p].need = task[p].need /\ task'[p].excused = task[p].excused /\ task'[p].doc = task[p].doc
        /\ task'[p].todo = {d \in Books \ deleted : record[d] \notin task[p].present}
        /\ job' = job /\ record' = record
    BY <1>2, <1>5 DEF Candidates, At, TaskType
  <2>2. Numbers(SheetRows)' = Numbers(SheetRows)
    BY <2>1 DEF SheetRows, Numbers
  <2>3. WorkOK(task[p])' /\ RowsOK(task[p])'
    BY <1>1, <2>1 DEF OwnTask, WorkOK, RowsOK
  <2>4. task[p].need \subseteq Doc
    BY <1>1, TaskFields
  <2>5. DownloadOK(task[p])'
    BY <1>1, <2>1, <2>2, <2>4 DEF OwnTask, DownloadOK, OnItsWay, Books
  <2> QED BY <2>1, <2>3, <2>5 DEF OwnTask
<1>6. CASE BuildRow(p)
  <2>1. PICK d \in task[p].todo :
          task' = [task EXCEPT ![p] = [@ EXCEPT !.todo = task[p].todo \ {d},
                     !.rows = task[p].rows \cup (IF Eligible(d) THEN {Row(d)} ELSE {})]]
    BY <1>6 DEF BuildRow
  <2>2. /\ task[p].pc = "rows" /\ ready' = ready /\ sheet' = sheet /\ deleted' = deleted
        /\ job' = job /\ record' = record /\ done' = done
    BY <1>6 DEF BuildRow, At
  <2>3. /\ task'[p].pc = task[p].pc /\ task'[p].kind = task[p].kind /\ task'[p].doc = task[p].doc
        /\ task'[p].need = task[p].need /\ task'[p].excused = task[p].excused
        /\ task'[p].dirty = task[p].dirty
        /\ task'[p].todo = task[p].todo \ {d}
        /\ task'[p].rows = task[p].rows \cup (IF Eligible(d) THEN {Row(d)} ELSE {})
    BY <1>2, <2>1 DEF TaskType
  <2>4. d \in Doc /\ Row(d).number = record[d] /\ Row(d).book = d
    BY <1>1, TaskFields DEF Row
  <2>5. WorkOK(task[p])'
    BY <1>1, <2>2, <2>3 DEF OwnTask, WorkOK
  <2>6. RowsOK(task[p])'
    <3>1. IsFiniteSet(task[p].rows) /\ IsFiniteSet(task'[p].rows)
      <4>1. IsFiniteSet(task[p].rows) /\ IsFiniteSet(task[p].rows \cup {Row(d)})
        BY <1>1, FS_AddElement DEF OwnTask, RowsOK
      <4>2. task'[p].rows \in {task[p].rows, task[p].rows \cup {Row(d)}}
        BY <2>3
      <4> QED BY <4>1, <4>2
    <3>2. \A r \in task'[p].rows : /\ r.number # None /\ r.book \in done
                                   /\ r.number = record[r.book] \/ r.book \in task[p].dirty
      BY <1>1, <2>3, <2>4 DEF OwnTask, RowsOK, Eligible, NumbersInv
    <3> QED BY <2>2, <2>3, <3>1, <3>2 DEF RowsOK
  <2>7. DownloadOK(task[p])'
    <3>1. \A e \in Doc : Row(e)' = Row(e)
      BY <2>2 DEF Row
    <3>2. Numbers(SheetRows)' = Numbers(SheetRows)
      BY <2>2 DEF SheetRows, Numbers
    <3>3. task[p].kind = "download" => \A e \in task[p].need : e \in Doc /\ job[e] = "completed" /\ record[e] # None
      BY <1>1, TaskFields DEF OwnTask, DownloadOK
    <3>4. ASSUME task[p].kind = "download", NEW e \in task[p].need, OnItsWay(task[p], e)
          PROVE OnItsWay(task[p], e)'
      BY <2>2, <2>3, <2>4, <3>1, <3>3, <3>4 DEF OnItsWay, Eligible
    <3>5. task[p].kind = "download" /\ ~task[p].excused =>
            ready /\ \A e \in task[p].need \ deleted : record[e] \in Numbers(SheetRows) \/ OnItsWay(task[p], e)
      BY <1>1, <2>2 DEF OwnTask, DownloadOK
    <3> QED BY <2>2, <2>3, <3>2, <3>3, <3>4, <3>5 DEF DownloadOK
  <2> QED BY <2>3, <2>5, <2>6, <2>7 DEF OwnTask
<1> QED BY <1>3, <1>4, <1>5, <1>6

(* What ends a process's work on the workbook: a download serves the file, *)
(* others are done.                                                        *)
LEMMA Finished ==
  ASSUME NEW p \in Proc, NEW excused, Finish(p, excused)
  PROVE IF task[p].kind = "download"
          THEN task' = [task EXCEPT ![p] = [@ EXCEPT !.pc = "serve", !.rows = {}, !.present = {},
                          !.dirty = {}, !.excused = task[p].excused \/ excused]]
          ELSE task' = [task EXCEPT ![p] = Idle]
BY DEF Finish

(* Steps that give up, end or hold the lock, with the workbook unchanged.  *)
LEMMA LockSteps ==
  ASSUME IInv, TypeOK', NEW p \in Proc,
         \/ RowsBuilt(p) \/ Ensured(p) \/ AcquireLock(p) \/ LockTimesOut(p)
         \/ SaveFails(p) \/ Serve(p) \/ ProcessDies(p)
  PROVE OwnTask(p)' /\ (task'[p].kind = "run" => task[p].kind = "run" /\ task'[p].doc = task[p].doc)
<1>1. OwnTask(p) /\ TypeOK
  BY DEF IInv, TasksInv, OwnTask
<1>2. task[p] \in TaskType /\ task \in [Proc -> TaskType] /\ task[p].excused \in BOOLEAN
  BY <1>1, TaskFields DEF TypeOK
<1>3. UNCHANGED <<job, record, ready, sheet, deleted, done>>
  BY DEF RowsBuilt, Ensured, AcquireLock, LockTimesOut, SaveFails, Serve, ProcessDies
<1>4. Numbers(SheetRows)' = Numbers(SheetRows) /\ \A d \in Doc : Row(d)' = Row(d)
  BY <1>3 DEF SheetRows, Numbers, Row
<1>5. CASE task' = [task EXCEPT ![p] = Idle]
  <2>1. task'[p] = Idle
    BY <1>2, <1>5
  <2>2. task'[p].kind # "run"
    BY <2>1 DEF Idle
  <2> QED BY <2>1, <2>2, IdleOwn
<1>6. ASSUME task'[p].kind = "download", task[p].kind = "download", task'[p].pc = "serve",
             task'[p].rows = {}, task'[p].todo = task[p].todo, task[p].todo = {}, task'[p].need = task[p].need,
             task'[p].excused = TRUE \/ (task'[p].excused = task[p].excused /\ task[p].rows = {}),
             task[p].pc \in {"rows", "lock", "write"}
      PROVE OwnTask(p)'
  <2>1. WorkOK(task[p])'
    BY <1>6 DEF WorkOK
  <2>2. RowsOK(task[p])'
    BY <1>6, FS_EmptySet DEF RowsOK
  <2>3. task[p].need \subseteq Doc
    BY <1>1, TaskFields
  <2>4. DownloadOK(task[p])'
    BY <1>1, <1>3, <1>4, <1>6, <2>3 DEF OwnTask, DownloadOK, OnItsWay
  <2> QED BY <2>1, <2>2, <2>4 DEF OwnTask
<1>7. CASE RowsBuilt(p)
  <2>1. task[p].pc = "rows" /\ task[p].todo = {}
    BY <1>7 DEF RowsBuilt, At
  <2>2. CASE task' = [task EXCEPT ![p] = [@ EXCEPT !.pc = "serve", !.rows = {}, !.present = {}, !.dirty = {},
                     !.excused = task[p].excused \/ FALSE]]
             /\ task[p].kind = "download" /\ task[p].rows = {}
    <3>1. /\ task'[p].pc = "serve" /\ task'[p].rows = {} /\ task'[p].kind = task[p].kind
          /\ task'[p].todo = task[p].todo /\ task'[p].need = task[p].need
          /\ task'[p].excused = task[p].excused
      BY <1>2, <2>2 DEF TaskType
    <3> QED BY <1>6, <2>1, <2>2, <3>1
  <2>3. CASE task' = [task EXCEPT ![p] = [@ EXCEPT !.pc = "ensure", !.present = {}]]
    <3>1. /\ task'[p].pc = "ensure" /\ task'[p].rows = task[p].rows /\ task'[p].kind = task[p].kind
          /\ task'[p].todo = task[p].todo /\ task'[p].need = task[p].need
          /\ task'[p].excused = task[p].excused /\ task'[p].doc = task[p].doc /\ task'[p].dirty = task[p].dirty
      BY <1>2, <2>3 DEF TaskType
    <3>2. WorkOK(task[p])' /\ RowsOK(task[p])'
      BY <1>1, <1>3, <2>1, <3>1 DEF OwnTask, WorkOK, RowsOK
    <3>3. task[p].need \subseteq Doc
      BY <1>1, TaskFields
    <3>4. DownloadOK(task[p])'
      BY <1>1, <1>3, <1>4, <2>1, <3>1, <3>3 DEF OwnTask, DownloadOK, OnItsWay
    <3> QED BY <3>1, <3>2, <3>4 DEF OwnTask
  <2>4. CASE task[p].rows = {} /\ Finish(p, FALSE)
    BY <1>5, <2>2, <2>4, Finished
  <2> QED BY <1>7, <2>3, <2>4 DEF RowsBuilt
<1>8. CASE Ensured(p) \/ AcquireLock(p)
  <2>1. PICK l \in {"lock", "write"} : task' = [task EXCEPT ![p].pc = l] /\ task[p].pc \in {"ensure", "lock"}
    BY <1>8 DEF Ensured, AcquireLock, At
  <2>2. /\ task'[p].pc = l /\ task'[p].rows = task[p].rows /\ task'[p].kind = task[p].kind
        /\ task'[p].todo = task[p].todo /\ task'[p].need = task[p].need
        /\ task'[p].excused = task[p].excused /\ task'[p].doc = task[p].doc /\ task'[p].dirty = task[p].dirty
    BY <1>2, <2>1 DEF TaskType
  <2>3. WorkOK(task[p])' /\ RowsOK(task[p])'
    BY <1>1, <1>3, <2>1, <2>2 DEF OwnTask, WorkOK, RowsOK
  <2>4. task[p].need \subseteq Doc
    BY <1>1, TaskFields
  <2>5. DownloadOK(task[p])'
    BY <1>1, <1>3, <1>4, <2>1, <2>2, <2>4 DEF OwnTask, DownloadOK, OnItsWay
  <2> QED BY <2>2, <2>3, <2>5 DEF OwnTask
<1>9. CASE LockTimesOut(p) \/ SaveFails(p)
  <2>1. task[p].pc \in {"lock", "write"} /\ task[p].todo = {} /\ Finish(p, TRUE)
    BY <1>1, <1>9 DEF LockTimesOut, SaveFails, At, OwnTask, RowsOK
  <2>2. CASE task' = [task EXCEPT ![p] = [@ EXCEPT !.pc = "serve", !.rows = {}, !.present = {}, !.dirty = {},
                     !.excused = task[p].excused \/ TRUE]]
             /\ task[p].kind = "download"
    <3>1. /\ task'[p].pc = "serve" /\ task'[p].rows = {} /\ task'[p].kind = task[p].kind
          /\ task'[p].todo = task[p].todo /\ task'[p].need = task[p].need
          /\ task'[p].excused = TRUE
      BY <1>2, <2>2 DEF TaskType
    <3> QED BY <1>6, <2>1, <2>2, <3>1
  <2> QED BY <1>5, <2>1, <2>2, Finished
<1>10. CASE Serve(p) \/ ProcessDies(p)
  BY <1>5, <1>10 DEF Serve, ProcessDies
<1> QED BY <1>7, <1>8, <1>9, <1>10

(* Steps that write a record or end a run's work on it.                    *)
LEMMA InsertSteps ==
  ASSUME IInv, TypeOK', NEW p \in Proc, InsertRecord(p) \/ InsertRefused(p) \/ Complete(p)
  PROVE OwnTask(p)' /\ (task'[p].kind = "run" => task[p].kind = "run" /\ task'[p].doc = task[p].doc)
<1>1. OwnTask(p) /\ TypeOK
  BY DEF IInv, TasksInv, OwnTask
<1>2. task[p] \in TaskType /\ task \in [Proc -> TaskType]
  BY <1>1 DEF TypeOK
<1>3. task[p].pc \in {"insert", "complete"} /\ task[p].rows = {} /\ task[p].kind # "download"
  BY <1>1 DEF InsertRecord, InsertRefused, Complete, At, OwnTask, WorkOK, RowsOK
<1>4. CASE task' = [task EXCEPT ![p] = [@ EXCEPT !.pc = "complete", !.number = None]] /\ job' = job
  <2>1. /\ task'[p].pc = "complete" /\ task'[p].rows = {} /\ task'[p].kind = task[p].kind
        /\ task'[p].doc = task[p].doc
    BY <1>2, <1>3, <1>4 DEF TaskType
  <2>2. WorkOK(task[p])'
    BY <1>1, <1>3, <1>4, <2>1 DEF OwnTask, WorkOK
  <2> QED BY <1>3, <2>1, <2>2, FS_EmptySet DEF OwnTask, RowsOK, DownloadOK
<1>5. CASE task' = [task EXCEPT ![p] = Idle]
  <2>1. task'[p] = Idle
    BY <1>2, <1>5
  <2>2. task'[p].kind # "run"
    BY <2>1 DEF Idle
  <2> QED BY <2>1, <2>2, IdleOwn
<1>6. CASE Complete(p)
  <2>1. /\ task'[p].pc = "rows" /\ task'[p].rows = {} /\ task'[p].kind = "run" /\ task[p].kind = "run"
        /\ task'[p].doc = task[p].doc
    BY <1>2, <1>3, <1>6 DEF Complete, TaskType
  <2>2. WorkOK(task[p])'
    BY <1>1, <2>1 DEF OwnTask, WorkOK
  <2> QED BY <2>1, <2>2, FS_EmptySet DEF OwnTask, RowsOK, DownloadOK
<1> QED BY <1>4, <1>5, <1>6 DEF InsertRecord, InsertRefused

(* An append leaves every number in the workbook that it was to add.       *)
LEMMA AppendedNumbers ==
  ASSUME TypeOK, TasksInv, NEW p \in Proc, AppendRows(p)
  PROVE Numbers(SheetRows)' = Numbers(SheetRows) \cup Numbers(task[p].rows)
<1>1. PICK new \in NotDuplicate(task[p].rows) :
        /\ sheet' \in Sorted(sheet \o SetToSeq(new)) /\ sheet \o SetToSeq(new) \in Seq(Rows)
        /\ IsFiniteSet(new) /\ new \subseteq task[p].rows
  BY WrittenRows
<1>2. ToSet(sheet') = ToSet(sheet \o SetToSeq(new))
  BY <1>1, Arranged
<1>3. ToSet(sheet \o SetToSeq(new)) = SheetRows \cup new
  <2>1. SetToSeq(new) \in Seq(new) /\ ToSet(SetToSeq(new)) = new
    BY <1>1, Listed
  <2>2. sheet \in Seq(Rows)
    BY SheetType
  <2>3. SetToSeq(new) \in Seq(Rows)
    <3>1. new \subseteq Rows
      BY <1>1, TaskFields
    <3> HIDE DEF SetToSeq
    <3> QED BY <2>1, <3>1
  <2> QED BY <2>1, <2>2, <2>3, Joined DEF SheetRows
<1>4. Numbers(new) = Numbers(task[p].rows) \ Numbers(SheetRows)
  BY DEF NotDuplicate
<1>5. SheetRows' = SheetRows \cup new
  BY <1>2, <1>3 DEF SheetRows
<1> QED BY ZenonT(60), <1>4, <1>5 DEF Numbers

LEMMA AppendSteps ==
  ASSUME IInv, TypeOK', NEW p \in Proc, AppendRows(p)
  PROVE OwnTask(p)' /\ (task'[p].kind = "run" => task[p].kind = "run" /\ task'[p].doc = task[p].doc)
<1>1. OwnTask(p) /\ TypeOK /\ TasksInv
  BY DEF IInv, TasksInv, OwnTask
<1>2. task[p] \in TaskType /\ task \in [Proc -> TaskType] /\ task[p].excused \in BOOLEAN
      /\ task[p].need \subseteq Doc
  BY <1>1, TaskFields DEF TypeOK
<1>3. UNCHANGED <<job, record, ready, deleted, done>> /\ task[p].pc = "write" /\ Finish(p, FALSE)
  BY DEF AppendRows, At
<1>4. CASE task' = [task EXCEPT ![p] = Idle]
  <2>1. task'[p] = Idle
    BY <1>2, <1>4
  <2>2. task'[p].kind # "run"
    BY <2>1 DEF Idle
  <2> QED BY <2>1, <2>2, IdleOwn
<1>5. CASE task' = [task EXCEPT ![p] = [@ EXCEPT !.pc = "serve", !.rows = {}, !.present = {},
                      !.dirty = {}, !.excused = task[p].excused \/ FALSE]]
           /\ task[p].kind = "download"
  <2>1. /\ task'[p].pc = "serve" /\ task'[p].rows = {} /\ task'[p].kind = "download"
        /\ task'[p].todo = task[p].todo /\ task'[p].need = task[p].need
        /\ task'[p].excused = task[p].excused
    BY <1>2, <1>5 DEF TaskType
  <2>2. WorkOK(task[p])'
    BY <2>1 DEF WorkOK
  <2>3. RowsOK(task[p])'
    BY <1>1, <1>3, <2>1, FS_EmptySet DEF OwnTask, RowsOK
  <2>4. DownloadOK(task[p])'
    <3>1. \A d \in Doc : Row(d) \in task[p].rows => record[d] \in Numbers(task[p].rows)
      BY DEF Row, Numbers
    <3>2. task[p].todo = {}
      BY <1>1, <1>3 DEF OwnTask, RowsOK
    <3>3. Numbers(SheetRows)' = Numbers(SheetRows) \cup Numbers(task[p].rows)
      BY <1>1, AppendedNumbers
    <3>4. \A d \in task[p].need : job[d] = "completed" /\ record[d] # None
      BY <1>1, <1>5 DEF OwnTask, DownloadOK
    <3>5. ~task[p].excused => ready /\ \A d \in task[p].need \ deleted : record[d] \in Numbers(SheetRows)'
      BY <1>1, <1>2, <1>3, <1>5, <3>1, <3>2, <3>3 DEF OwnTask, DownloadOK, OnItsWay
    <3> QED BY <1>3, <2>1, <3>4, <3>5 DEF DownloadOK
  <2> QED BY <2>1, <2>2, <2>3, <2>4 DEF OwnTask
<1> QED BY <1>3, <1>4, <1>5, Finished

(* A run begins: the others no longer need its book.                       *)
LEMMA RunSteps ==
  ASSUME IInv, TypeOK', NEW p \in Proc, NEW d \in Doc, RunReachesEnd(p, d)
  PROVE (TasksInv /\ RunsApart)'
<1>1. TypeOK /\ RunsApart /\ TasksInv
  BY DEF IInv
<1>2. /\ UNCHANGED <<record, ready, sheet, deleted, done>> /\ job' = [job EXCEPT ![d] = "running"]
      /\ \A q \in Proc : task[q].kind = "run" => task[q].doc # {d}
  BY DEF RunReachesEnd
<1>3. /\ task'[p].pc = "record" /\ task'[p].kind = "run" /\ task'[p].doc = {d} /\ task'[p].rows = {}
  BY DEF RunReachesEnd, Idle
<1>4. \A q \in Proc \ {p} :
        /\ task'[q].pc = task[q].pc /\ task'[q].kind = task[q].kind /\ task'[q].doc = task[q].doc
        /\ task'[q].rows = task[q].rows /\ task'[q].todo = task[q].todo /\ task'[q].present = task[q].present
        /\ task'[q].dirty = task[q].dirty /\ task'[q].excused = task[q].excused
        /\ task'[q].need = task[q].need \ {d}
  BY <1>1, TaskFields DEF RunReachesEnd, TaskType
<1>5. job' \in [Doc -> {"none", "running", "completed", "failed"}] /\ job'[d] = "running"
      /\ \A e \in Doc \ {d} : job'[e] = job[e]
  BY <1>1, <1>2 DEF TypeOK, DataTypeOK
<1>6. OwnTask(p)'
  BY <1>3, <1>5, FS_EmptySet DEF OwnTask, WorkOK, RowsOK, DownloadOK
<1>7. ASSUME NEW q \in Proc \ {p}
      PROVE (WorkOK(task[q]) /\ RowsOK(task[q]) /\ DownloadOK(task[q]))'
  <2>1. WorkOK(task[q]) /\ RowsOK(task[q]) /\ DownloadOK(task[q])
    BY <1>1 DEF TasksInv
  <2>2. task[q].doc \subseteq Doc /\ task[q].need \subseteq Doc
    BY <1>1, TaskFields
  <2>3. WorkOK(task[q])'
    BY <1>2, <1>4, <1>5, <2>1, <2>2 DEF WorkOK
  <2>4. RowsOK(task[q])'
    BY <1>2, <1>4, <2>1 DEF RowsOK
  <2>5. DownloadOK(task[q])'
    <3>1. Numbers(SheetRows)' = Numbers(SheetRows) /\ \A e \in Doc : Row(e)' = Row(e)
      BY <1>2 DEF SheetRows, Numbers, Row
    <3> QED BY <1>2, <1>4, <1>5, <2>1, <2>2, <3>1 DEF DownloadOK, OnItsWay
  <2> QED BY <2>3, <2>4, <2>5
<1>8. RunsApart'
  BY <1>1, <1>2, <1>3, <1>4 DEF RunsApart
<1> QED BY <1>6, <1>7, <1>8 DEF TasksInv, OwnTask

(* Backfill: the others know that their rows of the winners may be old.    *)
LEMMA BackfillSteps ==
  ASSUME IInv, TypeOK', NEW p \in Proc, Backfill(p)
  PROVE (TasksInv /\ RunsApart)'
<1>1. TypeOK /\ RunsApart /\ TasksInv
  BY DEF IInv
<1>2. PICK winners \in SUBSET Misnumbered :
        /\ record' = [e \in Doc |-> IF e \in winners THEN Filename[e] ELSE record[e]]
        /\ task' = [q \in Proc |->
                     IF q = p THEN [task[p] EXCEPT !.pc = "candidates"]
                     ELSE [task[q] EXCEPT !.dirty = @ \cup winners, !.need = @ \ winners]]
  BY DEF Backfill
<1>3. /\ UNCHANGED <<job, ready, sheet, deleted, done>> /\ task[p].pc = "backfill"
  BY DEF Backfill, At
<1>4. \A e \in Doc \ winners : record'[e] = record[e]
  BY <1>2
<1>5. /\ task'[p].pc = "candidates" /\ task'[p].kind = task[p].kind /\ task'[p].doc = task[p].doc
      /\ task'[p].rows = task[p].rows
  BY <1>1, <1>2, TaskFields DEF TaskType
<1>6. \A q \in Proc \ {p} :
        /\ task'[q].pc = task[q].pc /\ task'[q].kind = task[q].kind /\ task'[q].doc = task[q].doc
        /\ task'[q].rows = task[q].rows /\ task'[q].todo = task[q].todo /\ task'[q].present = task[q].present
        /\ task'[q].dirty = task[q].dirty \cup winners /\ task'[q].excused = task[q].excused
        /\ task'[q].need = task[q].need \ winners
  BY <1>1, <1>2, TaskFields DEF TaskType
<1>7. OwnTask(p)'
  <2>1. WorkOK(task[p]) /\ RowsOK(task[p])
    BY <1>1 DEF TasksInv
  <2>2. task[p].kind = "refresh" /\ task[p].rows = {}
    BY <1>3, <2>1 DEF WorkOK, RowsOK
  <2> QED BY <1>5, <2>2, FS_EmptySet DEF OwnTask, WorkOK, RowsOK, DownloadOK
<1>8. ASSUME NEW q \in Proc \ {p}
      PROVE (WorkOK(task[q]) /\ RowsOK(task[q]) /\ DownloadOK(task[q]))'
  <2>1. WorkOK(task[q]) /\ RowsOK(task[q]) /\ DownloadOK(task[q])
    BY <1>1 DEF TasksInv
  <2>2. task[q].need \subseteq Doc /\ \A r \in task[q].rows : r.book \in Doc
    BY <1>1, TaskFields DEF Rows
  <2>3. WorkOK(task[q])'
    BY <1>3, <1>6, <2>1 DEF WorkOK
  <2>4. RowsOK(task[q])'
    BY <1>3, <1>4, <1>6, <2>1, <2>2 DEF RowsOK
  <2>5. DownloadOK(task[q])'
    <3>1. Numbers(SheetRows)' = Numbers(SheetRows) /\ \A e \in Doc \ winners : Row(e)' = Row(e)
      BY <1>3, <1>4 DEF SheetRows, Numbers, Row
    <3> QED BY <1>3, <1>4, <1>6, <2>1, <2>2, <3>1 DEF DownloadOK, OnItsWay
  <2> QED BY <2>3, <2>4, <2>5
<1>9. RunsApart'
  <2>1. \A q \in Proc : task'[q].kind = task[q].kind /\ task'[q].doc = task[q].doc
    BY <1>5, <1>6
  <2> QED BY <1>1, <2>1 DEF RunsApart
<1> QED BY <1>7, <1>8, <1>9 DEF TasksInv, OwnTask

(* A rebuild excuses the downloads that count on what it replaced.         *)
LEMMA RebuildSteps ==
  ASSUME IInv, TypeOK', NEW p \in Proc, RebuildRegister(p)
  PROVE (TasksInv /\ RunsApart)'
<1>1. TypeOK /\ RunsApart /\ TasksInv
  BY DEF IInv
<1>2. UNCHANGED <<record, job, ready, deleted, done>> /\ task'[p] = Idle
  BY DEF RebuildRegister
<1>3. \A q \in Proc \ {p} :
        /\ task'[q].pc = task[q].pc /\ task'[q].kind = task[q].kind /\ task'[q].doc = task[q].doc
        /\ task'[q].rows = task[q].rows /\ task'[q].todo = task[q].todo
        /\ task'[q].dirty = task[q].dirty /\ task'[q].need = task[q].need
        /\ task'[q].excused = (task[q].excused \/ (task[q].kind = "download" /\ task[q].pc # "present"))
  BY <1>1, TaskFields DEF RebuildRegister, TaskType, At
<1>4. OwnTask(p)'
  BY <1>2, IdleOwn
<1>5. ASSUME NEW q \in Proc \ {p}
      PROVE (WorkOK(task[q]) /\ RowsOK(task[q]) /\ DownloadOK(task[q]))'
  <2>1. WorkOK(task[q]) /\ RowsOK(task[q]) /\ DownloadOK(task[q])
    BY <1>1 DEF TasksInv
  <2>2. WorkOK(task[q])' /\ RowsOK(task[q])'
    BY <1>2, <1>3, <2>1 DEF WorkOK, RowsOK
  <2>3. DownloadOK(task[q])'
    BY ZenonT(60), <1>2, <1>3, <2>1 DEF DownloadOK
  <2> QED BY <2>2, <2>3
<1>6. RunsApart'
  BY <1>1, <1>2, <1>3 DEF RunsApart, Idle
<1> QED BY <1>4, <1>5, <1>6 DEF TasksInv, OwnTask

(* A step of one task keeps what the others have in hand.                  *)
LEMMA OneTaskStep ==
  ASSUME IInv, TypeOK', NEW p \in Proc, OwnTask(p)', NEW x, task' = [task EXCEPT ![p] = x],
         task'[p].kind = "run" => task[p].kind = "run" /\ task'[p].doc = task[p].doc,
         \A d \in Doc : record[d] # None => record'[d] = record[d],
         \A d \in Doc : job[d] = "completed" => job'[d] = "completed",
         \A q \in Proc \ {p} :
           task[q].kind = "run" => \A d \in task[q].doc : job'[d] = job[d],
         done \subseteq done', deleted \subseteq deleted', ready => ready',
         ready => Numbers(SheetRows) \subseteq Numbers(SheetRows)'
  PROVE (TasksInv /\ RunsApart)'
<1>1. TypeOK /\ RunsApart
  BY DEF IInv
<1>2. \A q \in Proc \ {p} : task'[q] = task[q]
  BY <1>1 DEF TypeOK
<1>3. ASSUME NEW q \in Proc \ {p}
      PROVE (WorkOK(task[q]) /\ RowsOK(task[q]) /\ DownloadOK(task[q]))'
  BY <1>2, OtherTask
<1>4. RunsApart'
  BY <1>1, <1>2 DEF RunsApart
<1> QED BY <1>3, <1>4 DEF TasksInv, OwnTask

LEMMA TasksStep ==
  ASSUME IInv, TypeOK', [Next]_vars
  PROVE (TasksInv /\ RunsApart)'
<1>1. TypeOK /\ TasksInv /\ RunsApart /\ NumbersInv
  BY DEF IInv
<1>2. record \in [Doc -> Nat] /\ job \in [Doc -> {"none", "running", "completed", "failed"}]
  BY <1>1 DEF TypeOK, DataTypeOK
<1>3. sheet' = sheet => Numbers(SheetRows)' = Numbers(SheetRows)
  BY DEF SheetRows, Numbers
<1>4. CASE UNCHANGED vars \/ \E d \in Doc : DeleteBook(d)
  <2>1. UNCHANGED <<record, job, ready, sheet, done, task>> /\ deleted \subseteq deleted'
    BY <1>4 DEF vars, DeleteBook
  <2>2. \A q \in Proc : (WorkOK(task[q]) /\ RowsOK(task[q]) /\ DownloadOK(task[q]))'
    BY <1>3, <2>1, OtherTask
  <2>3. RunsApart'
    BY <1>1, <2>1 DEF RunsApart
  <2> QED BY <2>2, <2>3 DEF TasksInv
<1>5. ASSUME NEW p \in Proc,
             \/ ReadRecord(p) \/ ExtractionFails(p) \/ RefreshBegins(p) \/ RefreshNext(p)
             \/ DownloadBegins(p) \/ ReadPresent(p) \/ Candidates(p) \/ BuildRow(p)
             \/ RowsBuilt(p) \/ Ensured(p) \/ AcquireLock(p) \/ LockTimesOut(p)
             \/ SaveFails(p) \/ Serve(p) \/ ProcessDies(p)
      PROVE (TasksInv /\ RunsApart)'
  <2>1. UNCHANGED <<record, job, ready, sheet, done, deleted>>
    BY <1>5 DEF ReadRecord, ExtractionFails, RefreshBegins, RefreshNext, DownloadBegins, ReadPresent,
      Candidates, BuildRow, RowsBuilt, Ensured, AcquireLock, LockTimesOut, SaveFails, Serve, ProcessDies
  <2>2. \E x \in TaskType : task' = [task EXCEPT ![p] = x]
    BY <1>1, <1>5, TaskSteps
  <2>3. OwnTask(p)' /\ (task'[p].kind = "run" => task[p].kind = "run" /\ task'[p].doc = task[p].doc)
    BY <1>5, RecordSteps, RowSteps, LockSteps
  <2> QED BY <1>3, <2>1, <2>2, <2>3, OneTaskStep
<1>6. ASSUME NEW p \in Proc, InsertRecord(p) \/ InsertRefused(p) \/ Complete(p)
      PROVE (TasksInv /\ RunsApart)'
  <2>1. \E x \in TaskType : task' = [task EXCEPT ![p] = x]
    BY <1>1, <1>6, TaskSteps
  <2>2. OwnTask(p)' /\ (task'[p].kind = "run" => task[p].kind = "run" /\ task'[p].doc = task[p].doc)
    BY <1>6, InsertSteps
  <2>3. UNCHANGED <<ready, sheet, deleted>> /\ done \subseteq done'
    BY <1>6 DEF InsertRecord, InsertRefused, Complete
  <2>4. \A d \in Doc : record[d] # None => record'[d] = record[d]
    BY <1>1, <1>2, <1>6, TaskFields DEF InsertRecord, InsertRefused, Complete, Unique
  <2>5. /\ \A d \in Doc : job[d] = "completed" => job'[d] = "completed"
        /\ \A q \in Proc \ {p} : task[q].kind = "run" => \A d \in task[q].doc : job'[d] = job[d]
    <3>1. CASE job' = job
      BY <3>1
    <3>2. CASE task[p].kind = "run"
      <4>1. PICK d \in Doc : task[p].doc = {d}
        BY <1>1, <3>2 DEF TasksInv, WorkOK
      <4>2. job[d] = "running"
        BY <1>1, <1>6, <3>2, <4>1 DEF TasksInv, WorkOK, InsertRecord, InsertRefused, Complete, At
      <4>3. \A e \in Doc \ {d} : job'[e] = job[e]
        BY <1>1, <1>2, <1>6, <3>2, <4>1, TheDoc DEF InsertRecord, InsertRefused, Complete
      <4>4. \A q \in Proc \ {p} : task[q].kind = "run" => d \notin task[q].doc /\ task[q].doc \subseteq Doc
        BY ZenonT(60), <1>1, <3>2, <4>1 DEF RunsApart, TasksInv, WorkOK
      <4> QED BY <4>2, <4>3, <4>4
    <3> QED BY <1>6, <3>1, <3>2 DEF InsertRecord, InsertRefused, Complete
  <2> QED BY <1>3, <2>1, <2>2, <2>3, <2>4, <2>5, OneTaskStep
<1>7. ASSUME NEW p \in Proc, AppendRows(p)
      PROVE (TasksInv /\ RunsApart)'
  <2>1. \E x \in TaskType : task' = [task EXCEPT ![p] = x]
    BY <1>1, <1>7, TaskSteps
  <2>2. OwnTask(p)' /\ (task'[p].kind = "run" => task[p].kind = "run" /\ task'[p].doc = task[p].doc)
    BY <1>7, AppendSteps
  <2>3. UNCHANGED <<record, job, ready, done, deleted>>
    BY <1>7 DEF AppendRows
  <2>4. Numbers(SheetRows) \subseteq Numbers(SheetRows)'
    BY <1>1, <1>7, AppendedNumbers
  <2> QED BY <2>1, <2>2, <2>3, <2>4, OneTaskStep
<1>8. ASSUME NEW p \in Proc, EnsureMasterExcel(p)
      PROVE (TasksInv /\ RunsApart)'
  <2>1. UNCHANGED <<record, job, done, deleted, task>> /\ ~ready
    BY <1>8 DEF EnsureMasterExcel
  <2>2. \A q \in Proc : (WorkOK(task[q]) /\ RowsOK(task[q]) /\ DownloadOK(task[q]))'
    BY <2>1, OtherTask
  <2>3. RunsApart'
    BY <1>1, <2>1 DEF RunsApart
  <2> QED BY <2>2, <2>3 DEF TasksInv
<1> QED BY <1>4, <1>5, <1>6, <1>7, <1>8, RunSteps, BackfillSteps, RebuildSteps DEF Next, Environment, Step

-----------------------------------------------------------------------------
(* The workbook                                                            *)

OnceEach(s, T) ==
  \A i, j \in DOMAIN s : s[i].number = s[j].number => i = j \/ {s[i].book, s[j].book} \cap T # {}

LEMMA SortedOnce ==
  ASSUME NEW rows \in Seq(Rows), NEW s \in Sorted(rows), NEW T, OnceEach(rows, T)
  PROVE OnceEach(s, T)
<1>1. PICK f \in [DOMAIN rows -> DOMAIN rows] :
        IsInjective(f) /\ \A i \in DOMAIN rows : s[i] = rows[f[i]]
  BY Arranged
<1>2. DOMAIN s = DOMAIN rows
  BY Arranged
<1> QED BY <1>1, <1>2 DEF OnceEach, IsInjective

(* An append checks each number against the sheet and the rows it adds.    *)
LEMMA AppendedOnce ==
  ASSUME TypeOK, TasksInv, NoNumberTwice, NEW p \in Proc, AppendRows(p)
  PROVE NoNumberTwice'
<1>1. PICK new \in NotDuplicate(task[p].rows) :
        /\ sheet' \in Sorted(sheet \o SetToSeq(new)) /\ sheet \o SetToSeq(new) \in Seq(Rows)
        /\ IsFiniteSet(new) /\ new \subseteq task[p].rows
  BY WrittenRows
<1>2. torn' = torn
  BY DEF AppendRows
<1>3. PICK s : s = SetToSeq(new) /\ s \in Seq(Rows) /\ ToSet(s) = new /\ IsInjective(s)
  <2>1. new \subseteq Rows
    BY <1>1, TaskFields
  <2>2. SetToSeq(new) \in Seq(new) /\ ToSet(SetToSeq(new)) = new /\ IsInjective(SetToSeq(new))
    BY <1>1, Listed
  <2> HIDE DEF SetToSeq
  <2> QED BY <2>1, <2>2
<1>4. sheet \in Seq(Rows)
  BY SheetType
<1>5. /\ \A r \in new : r.number \notin Numbers(SheetRows)
      /\ \A r, q \in new : r.number = q.number => r = q
  BY DEF NotDuplicate
<1>6. OnceEach(sheet \o s, torn)
  <2> DEFINE n == Len(sheet)
             j == sheet \o s
  <2>1. /\ DOMAIN j = 1 .. n + Len(s) /\ DOMAIN sheet = 1 .. n /\ DOMAIN s = 1 .. Len(s)
        /\ n \in Nat /\ Len(s) \in Nat
        /\ \A i \in 1 .. n : j[i] = sheet[i]
        /\ \A i \in 1 .. n + Len(s) : i \in 1 .. n \/ (i - n \in 1 .. Len(s) /\ j[i] = s[i - n])
    BY <1>3, <1>4, Joined
  <2> HIDE DEF n, j
  <2>2. \A i \in 1 .. n : j[i].number \in Numbers(SheetRows)
    BY <2>1 DEF Numbers, SheetRows, ToSet
  <2>3. \A i \in 1 .. Len(s) : s[i] \in new
    BY <1>3, <2>1 DEF ToSet
  <2>4. \A i, k \in 1 .. Len(s) : s[i].number = s[k].number => i = k
    BY <1>3, <1>5, <2>1, <2>3 DEF IsInjective
  <2>5. ASSUME NEW i \in DOMAIN j, NEW k \in DOMAIN j, j[i].number = j[k].number
        PROVE i = k \/ {j[i].book, j[k].book} \cap torn # {}
    <3>1. CASE i \in 1 .. n /\ k \in 1 .. n
      BY <2>1, <2>5, <3>1 DEF NoNumberTwice
    <3>2. CASE i \in 1 .. n /\ k \notin 1 .. n
      BY <1>5, <2>1, <2>2, <2>3, <2>5, <3>2
    <3>3. CASE i \notin 1 .. n /\ k \in 1 .. n
      BY <1>5, <2>1, <2>2, <2>3, <2>5, <3>3
    <3>4. CASE i \notin 1 .. n /\ k \notin 1 .. n
      <4>1. i - n = k - n
        BY <2>1, <2>4, <2>5, <3>4
      <4> QED BY <2>1, <4>1
    <3> QED BY <3>1, <3>2, <3>3, <3>4
  <2> QED BY <2>5 DEF OnceEach, j
<1>7. OnceEach(sheet', torn)
  BY <1>1, <1>3, <1>6, SortedOnce
<1> QED BY <1>2, <1>7 DEF OnceEach, NoNumberTwice

(* Rows read from records that no two books share: only a book renumbered  *)
(* on the way can bring a number twice.                                    *)
LEMMA RebuiltOnce ==
  ASSUME IInv, NEW p \in Proc, RebuildRegister(p)
  PROVE NoNumberTwice'
<1>1. TypeOK /\ NumbersInv /\ TasksInv
  BY DEF IInv
<1>2. PICK s : s = SetToSeq(task[p].rows) /\ s \in Seq(Rows) /\ ToSet(s) = task[p].rows /\ IsInjective(s)
  <2>1. IsFiniteSet(task[p].rows)
    BY <1>1 DEF TasksInv, RowsOK
  <2> QED BY <1>1, <2>1, Listed, WrittenRows
<1>3. sheet' \in Sorted(s) /\ torn' = task[p].dirty
  BY <1>2 DEF RebuildRegister
<1>4. \A r, q \in task[p].rows : r.number = q.number => r = q \/ {r.book, q.book} \cap task[p].dirty # {}
  <2> SUFFICES ASSUME NEW r \in task[p].rows, NEW q \in task[p].rows, r.number = q.number,
                      r.book \notin task[p].dirty, q.book \notin task[p].dirty
               PROVE r = q
    OBVIOUS
  <2>1. r \in Rows /\ q \in Rows
    BY <1>1, TaskFields
  <2>2. r.number = record[r.book] /\ q.number = record[q.book] /\ r.number # None
    BY <1>1 DEF TasksInv, RowsOK
  <2>3. r.book = q.book
    BY <1>1, <2>1, <2>2 DEF NumbersInv, Rows
  <2> QED BY <2>1, <2>3 DEF Rows
<1>5. OnceEach(s, task[p].dirty)
  <2>1. \A i \in DOMAIN s : s[i] \in task[p].rows
    BY <1>2 DEF ToSet
  <2> QED BY <1>2, <1>4, <2>1 DEF OnceEach, IsInjective
<1>6. OnceEach(sheet', task[p].dirty)
  BY <1>2, <1>3, <1>5, SortedOnce
<1> QED BY <1>3, <1>6 DEF OnceEach, NoNumberTwice

RowOK(r) ==
  r.number # None /\ (r.number = record[r.book] \/ r.book \in stale) /\ r.book \in done

LEMMA SheetParts ==
  SheetInv <=> NoNumberTwice /\ \A r \in SheetRows : RowOK(r)
BY DEF SheetInv, RowOK, RowsMatchRecords, RowsOfCompletedBooks

LEMMA SheetStep ==
  ASSUME IInv, [Next]_vars
  PROVE SheetInv'
<1>1. TypeOK /\ NumbersInv /\ TasksInv /\ NoNumberTwice /\ \A r \in SheetRows : RowOK(r)
  BY SheetParts DEF IInv
<1>2. record \in [Doc -> Nat] /\ \A r \in SheetRows : r.book \in Doc
  BY <1>1, SheetType DEF TypeOK, DataTypeOK, Rows
<1>3. SheetInv' <=> NoNumberTwice' /\ \A r \in SheetRows' : RowOK(r)'
  BY SheetParts DEF SheetInv, RowOK, RowsMatchRecords, RowsOfCompletedBooks
<1>4. CASE /\ sheet' = sheet /\ torn' = torn /\ stale \subseteq stale' /\ done \subseteq done'
           /\ \A d \in Doc : record[d] # None => record'[d] = record[d] \/ d \in stale'
  <2>1. SheetRows' = SheetRows /\ NoNumberTwice'
    BY <1>1, <1>4 DEF SheetRows, NoNumberTwice
  <2>2. \A r \in SheetRows : RowOK(r)'
    BY <1>1, <1>2, <1>4 DEF RowOK
  <2> QED BY <1>3, <2>1, <2>2
<1>5. CASE UNCHANGED <<sheet, torn, stale, done, record>>
  BY <1>4, <1>5
<1>6. ASSUME NEW p \in Proc, InsertRecord(p) \/ Complete(p) \/ Backfill(p)
      PROVE SheetInv'
  <2>1. CASE InsertRecord(p)
    BY <1>2, <1>4, <2>1 DEF InsertRecord, Unique
  <2>2. CASE Complete(p)
    BY <1>4, <2>2 DEF Complete
  <2>3. CASE Backfill(p)
    <3>1. PICK winners \in SUBSET Misnumbered :
            /\ record' = [d \in Doc |-> IF d \in winners THEN Filename[d] ELSE record[d]]
            /\ stale' = stale \cup winners
      BY <2>3 DEF Backfill
    <3> QED BY <1>4, <2>3, <3>1 DEF Backfill
  <2> QED BY <1>6, <2>1, <2>2, <2>3
<1>7. ASSUME NEW p \in Proc, EnsureMasterExcel(p)
      PROVE SheetInv'
  <2>1. sheet' = <<>>
    BY <1>7 DEF EnsureMasterExcel
  <2> QED BY <1>3, <2>1 DEF NoNumberTwice, SheetRows, ToSet
<1>8. ASSUME NEW p \in Proc, AppendRows(p)
      PROVE SheetInv'
  <2>1. PICK new \in NotDuplicate(task[p].rows) :
          /\ sheet' \in Sorted(sheet \o SetToSeq(new)) /\ sheet \o SetToSeq(new) \in Seq(Rows)
          /\ IsFiniteSet(new) /\ new \subseteq task[p].rows
    BY <1>1, <1>8, WrittenRows
  <2>2. SetToSeq(new) \in Seq(Rows) /\ ToSet(SetToSeq(new)) = new
    <3>1. new \subseteq Rows
      BY <1>1, <2>1, TaskFields
    <3>2. SetToSeq(new) \in Seq(new) /\ ToSet(SetToSeq(new)) = new
      BY <2>1, Listed
    <3> HIDE DEF SetToSeq
    <3> QED BY <3>1, <3>2
  <2>3. SheetRows' = SheetRows \cup new
    <3>1. ToSet(sheet \o SetToSeq(new)) = ToSet(sheet) \cup new
      BY <1>1, <2>2, SheetType, Joined
    <3> QED BY <2>1, <3>1, Arranged DEF SheetRows
  <2>4. UNCHANGED <<record, done>> /\ stale' = stale \cup task[p].dirty
    BY <1>8 DEF AppendRows
  <2>5. \A r \in task[p].rows : RowOK(r)'
    BY <1>1, <2>4 DEF TasksInv, RowsOK, RowOK
  <2>6. \A r \in SheetRows : RowOK(r)'
    BY <1>1, <2>4 DEF RowOK
  <2> QED BY <1>1, <1>3, <1>8, <2>1, <2>3, <2>5, <2>6, AppendedOnce
<1>9. ASSUME NEW p \in Proc, RebuildRegister(p)
      PROVE SheetInv'
  <2>1. UNCHANGED <<record, done>> /\ stale' = task[p].dirty /\ sheet' \in Sorted(SetToSeq(task[p].rows))
    BY <1>9 DEF RebuildRegister
  <2>2. SetToSeq(task[p].rows) \in Seq(Rows) /\ ToSet(SetToSeq(task[p].rows)) = task[p].rows
    BY <1>1, <1>9, Listed, WrittenRows DEF TasksInv, RowsOK
  <2>3. SheetRows' = task[p].rows
    BY <2>1, <2>2, Arranged DEF SheetRows
  <2>4. \A r \in task[p].rows : RowOK(r)'
    BY <1>1, <2>1 DEF TasksInv, RowsOK, RowOK
  <2> QED BY <1>3, <1>9, <2>3, <2>4, RebuiltOnce
<1>10. ASSUME NEW p \in Proc, Step(p)
       PROVE SheetInv'
  <2>1. CASE \/ ReadRecord(p) \/ InsertRefused(p) \/ RefreshNext(p) \/ ReadPresent(p) \/ Candidates(p)
             \/ BuildRow(p) \/ RowsBuilt(p) \/ Ensured(p) \/ AcquireLock(p) \/ LockTimesOut(p) \/ Serve(p)
    BY <1>5, <2>1 DEF ReadRecord, InsertRefused, RefreshNext, ReadPresent, Candidates, BuildRow,
      RowsBuilt, Ensured, AcquireLock, LockTimesOut, Serve
  <2> QED BY <1>6, <1>7, <1>8, <1>9, <1>10, <2>1 DEF Step
<1>11. CASE UNCHANGED vars \/ Environment
  <2>1. CASE UNCHANGED vars \/ \E d \in Doc : DeleteBook(d)
    BY <1>5, <2>1 DEF vars, DeleteBook
  <2>2. CASE \E p \in Proc : \/ RefreshBegins(p) \/ DownloadBegins(p) \/ ExtractionFails(p)
                            \/ SaveFails(p) \/ ProcessDies(p) \/ \E d \in Doc : RunReachesEnd(p, d)
    BY <1>5, <2>2 DEF RefreshBegins, DownloadBegins, ExtractionFails, SaveFails, ProcessDies, RunReachesEnd
  <2> QED BY <1>11, <2>1, <2>2 DEF Environment
<1> QED BY <1>10, <1>11 DEF Next

-----------------------------------------------------------------------------
(* Theorems                                                                *)

LEMMA InductiveStep == IInv /\ [Next]_vars => IInv'
<1> SUFFICES ASSUME IInv, [Next]_vars PROVE IInv'
  OBVIOUS
<1>1. TypeOK'
  BY TypeStep DEF IInv
<1> QED BY <1>1, NumbersStep, TasksStep, SheetStep DEF IInv

(* What holds in every state of the register.                              *)
THEOREM RegisterInvariant == Spec => []IInv
BY InitOK, InductiveStep, PTL DEF Spec

(* Two rows carry one number only where a book was renumbered while a      *)
(* rebuild read its rows, however appends, top-ups, rebuilds and crashes   *)
(* interleave.                                                             *)
THEOREM NumbersListedOnce == Spec => []NoNumberTwice
<1>1. IInv => NoNumberTwice
  BY DEF IInv, SheetInv
<1> QED BY <1>1, RegisterInvariant, PTL

(* A row shows its book's current number, or the book was renumbered since *)
(* the row was read.                                                       *)
THEOREM RowsAreCurrent == Spec => []RowsMatchRecords
<1>1. IInv => RowsMatchRecords
  BY DEF IInv, SheetInv
<1> QED BY <1>1, RegisterInvariant, PTL

(* The register lists only books whose processing completed.               *)
THEOREM OnlyCompletedBooks == Spec => []RowsOfCompletedBooks
<1>1. IInv => RowsOfCompletedBooks
  BY DEF IInv, SheetInv
<1> QED BY <1>1, RegisterInvariant, PTL

(* A download whose top-up was not refused, and that no rebuild overtook,  *)
(* serves every book that was complete when it was asked for.              *)
THEOREM DownloadsComplete == Spec => []DownloadIsComplete
<1>1. ASSUME IInv PROVE DownloadIsComplete
  <2> SUFFICES ASSUME NEW p \in Proc, At(p, "serve"), ready, ~task[p].excused,
                      NEW d \in task[p].need \ deleted
               PROVE \/ \E r \in SheetRows : r.book = d
                     \/ \E r \in SheetRows : r.number = record[d] /\ r.book \in stale
    BY DEF DownloadIsComplete
  <2>1. TypeOK /\ NumbersInv /\ TasksInv /\ RowsMatchRecords
    BY <1>1 DEF IInv, SheetInv
  <2>2. d \in Doc /\ \A r \in SheetRows : r.book \in Doc
    BY <2>1, TaskFields, SheetType DEF Rows
  <2>3. CASE task[p].kind = "download"
    <3>1. record[d] # None /\ record[d] \in Numbers(SheetRows)
      BY <2>1, <2>3 DEF TasksInv, RowsOK, DownloadOK, OnItsWay, At
    <3>2. PICK r \in SheetRows : r.number = record[d]
      BY <3>1 DEF Numbers
    <3>3. r.book \in stale \/ record[r.book] = record[d]
      BY <2>1, <3>2 DEF RowsMatchRecords
    <3> QED BY <2>1, <2>2, <3>1, <3>2, <3>3 DEF NumbersInv
  <2>4. task[p].kind = "download"
    BY <2>1 DEF TasksInv, WorkOK, At
  <2> QED BY <2>3, <2>4
<1> QED BY <1>1, RegisterInvariant, PTL
=============================================================================
