----------------------- MODULE DocumentLibraryProofs -----------------------
(* Proofs about DocumentLibrary, for any documents, contents, tasks and    *)
(* bounds.                                                                 *)
EXTENDS DocumentLibrary, ProgressFeed, Sequences, TLAPS

Bound == {"asks", "uploads", "faults"}
RunType == [pc : {"unsent", "sent", "read", "pages", "rendered", "stored", "ended"}, seen : Nat]
TaskType == [pc : {"free", "queued", "rendered", "stored"},
             doc : Doc \cup {Nothing}, seen : Nat, asked : Nat, alone : BOOLEAN]
RequestType == [file : Content \cup {Nothing}, from : {"upload", "tab", "gone"}, overtaken : BOOLEAN]
TabType == [pc : {"idle", "adding"}, todo : SUBSET Content, added : BOOLEAN]

DocTyped ==
  /\ content \in [Doc -> Content \cup {Nothing}] /\ deletion \in [Doc -> {"no", "flagged", "gone"}]
  /\ original \subseteq Doc /\ forced \subseteq Doc /\ crossed \subseteq Doc
ExportTyped ==
  /\ images \subseteq Doc
  /\ output \in [Doc -> Nat] /\ recorded \in [Doc -> Nat] /\ text \in [Doc -> Nat]
ClientTyped ==
  /\ sending \subseteq Doc /\ pending \subseteq Doc /\ stranded \subseteq Doc
  /\ browser \in TabType /\ request \in [Api -> RequestType]
  /\ pending # {} => browser.pc # "idle"
  /\ \A p \in Api : request[p].from = "tab" => browser.pc # "idle" /\ request[p].file \in browser.todo
  /\ \A p, q \in Api : request[p].from = "tab" /\ request[q].from = "tab" => p = q
RegenTyped ==
  /\ regen \in [Task -> TaskType]
  /\ \A t \in Task : regen[t].pc # "free" => regen[t].doc \in Doc
HistoryTyped == exposed \subseteq Doc /\ torn \subseteq Doc
Typed ==
  /\ DocTyped /\ ExportTyped /\ ClientTyped /\ HistoryTyped
  /\ run \in [Doc -> RunType] /\ RegenTyped /\ left \in [Bound -> Nat]

LEMMA TypedIsTypeOK == Typed => TypeOK
BY DEF TypeOK, Typed, DocTyped, ExportTyped, ClientTyped, HistoryTyped, RegenTyped, RunType, TaskType, TabType,
   RequestType, Bound

(* What a step leaves alone keeps its type.                                *)
LEMMA Frame ==
  ASSUME Typed
  PROVE /\ UNCHANGED docVars => DocTyped'
        /\ UNCHANGED exportVars => ExportTyped'
        /\ UNCHANGED clientVars => ClientTyped'
        /\ UNCHANGED <<exposed, torn>> => HistoryTyped'
        /\ UNCHANGED run => run' \in [Doc -> RunType]
        /\ UNCHANGED regen => RegenTyped'
        /\ UNCHANGED left => left' \in [Bound -> Nat]
        /\ \A what \in Bound : Spend(what) => left' \in [Bound -> Nat]
<1>1. ASSUME NEW what \in Bound, Spend(what) PROVE left' \in [Bound -> Nat]
  BY <1>1 DEF Typed, Spend
<1> QED
  BY <1>1 DEF Typed, DocTyped, ExportTyped, ClientTyped, HistoryTyped, RegenTyped, docVars, exportVars, clientVars

(* A step of a run or of a task changes one entry.                         *)
LEMMA RunStep ==
  ASSUME Typed, NEW d \in Doc
  PROVE /\ run[d].seen \in Nat
        /\ \A pc \in {"sent", "read", "pages", "rendered", "stored", "ended"} :
             [run EXCEPT ![d].pc = pc] \in [Doc -> RunType]
        /\ \A seen \in Nat : [run EXCEPT ![d] = [pc |-> "rendered", seen |-> seen]] \in [Doc -> RunType]
        /\ [run EXCEPT ![d] = [pc |-> "ended", seen |-> 0]] \in [Doc -> RunType]
BY DEF Typed, RunType

LEMMA TaskStep ==
  ASSUME Typed, NEW t \in Task
  PROVE /\ TaskEnds(t) => RegenTyped'
        /\ regen' = [regen EXCEPT ![t].pc = "stored"] /\ regen[t].pc # "free" => RegenTyped'
        /\ regen' = [regen EXCEPT ![t].pc = "queued", ![t].seen = 0, ![t].alone = TRUE] /\ regen[t].pc # "free"
             => RegenTyped'
        /\ regen[t].seen \in Nat
        /\ regen[t].pc # "free" => regen[t].doc \in Doc
<1>1. NoTask \in TaskType /\ NoTask.pc = "free"
  BY DEF NoTask, TaskType
<1>2. TaskEnds(t) => RegenTyped'
  BY <1>1 DEF Typed, RegenTyped, TaskEnds
<1> QED BY <1>2 DEF Typed, RegenTyped, TaskType

LEMMA Closed ==
  ASSUME Typed
  PROVE [pc |-> "idle", todo |-> {}, added |-> FALSE] \in TabType
BY DEF TabType

LEMMA Typing == [Next]_vars /\ Typed => Typed'
<1> SUFFICES ASSUME Typed, [Next]_vars PROVE Typed'
  OBVIOUS
<1>a. {"asks", "uploads", "faults"} = Bound
  BY DEF Bound
<1>1. ASSUME NEW p \in Api, NEW d \in Doc, CreateDocument(p, d)
      PROVE /\ UNCHANGED <<deletion, forced>> => DocTyped'
            /\ request' \in [Api -> RequestType]
            /\ \A q \in Api : request'[q].from = "tab" => request[q].from = "tab" /\ q # p /\ request'[q].file = request[q].file
  <2>1. NoRequest \in RequestType /\ NoRequest.from = "upload"
    BY DEF NoRequest, RequestType
  <2>2. request \in [Api -> RequestType]
    BY DEF Typed, ClientTyped
  <2>3. \A q \in Api : request'[q] \in {NoRequest, request[q], [request[q] EXCEPT !.overtaken = TRUE]}
                       /\ (q = p => request'[q] = NoRequest)
    BY <1>1 DEF CreateDocument
  <2>4. request' = [q \in Api |-> request'[q]]
    BY <1>1 DEF CreateDocument
  <2>5. \A q \in Api : /\ [request[q] EXCEPT !.overtaken = TRUE] \in RequestType
                        /\ [request[q] EXCEPT !.overtaken = TRUE].from = request[q].from
                        /\ [request[q] EXCEPT !.overtaken = TRUE].file = request[q].file
    BY <2>2 DEF RequestType
  <2>6. \A q \in Api : request'[q] \in RequestType
    BY <2>1, <2>2, <2>3, <2>5
  <2>7. \A q \in Api : request'[q].from = "tab" => request[q].from = "tab" /\ q # p /\ request'[q].file = request[q].file
    BY <2>1, <2>3, <2>5
  <2>8. request' \in [Api -> RequestType]
    BY <2>4, <2>6
  <2>9. request[p].file \in Content
    BY <1>1, <2>2 DEF CreateDocument, RequestType
  <2>10. UNCHANGED <<deletion, forced>> => DocTyped'
    BY <1>1, <2>9 DEF Typed, DocTyped, CreateDocument, StoreDocument
  <2> QED BY <2>7, <2>8, <2>10
<1>2. ASSUME NEW c, browser.pc = "adding", NEW took \in BOOLEAN, FileDone(c, took)
      PROVE browser' \in TabType /\ browser'.pc = "adding"
  BY <1>2 DEF Typed, ClientTyped, TabType, FileDone
<1>b. ASSUME NEW p \in Api, NEW c \in Content, NEW from \in {"upload", "tab"}, Checked(p, c, from)
      PROVE /\ request' \in [Api -> RequestType]
            /\ \A q \in Api : request'[q].from = "tab" =>
                 \/ q = p /\ from = "tab" /\ request'[q].file = c
                 \/ q # p /\ request'[q] = request[q]
  BY <1>b DEF Checked, RequestType, Typed, ClientTyped
<1>3. ASSUME NEW p \in Api, NEW d \in Doc, UploadDocument(p, d) PROVE Typed'
  <2>1. DocTyped' /\ request' \in [Api -> RequestType] /\ \A q \in Api : request'[q].from = "tab" => request[q].from = "tab" /\ request'[q].file = request[q].file
    BY <1>1, <1>3 DEF UploadDocument
  <2>2. ClientTyped'
    BY <1>3, <2>1 DEF UploadDocument, Typed, ClientTyped
  <2> QED BY <1>3, <2>1, <2>2, Frame DEF UploadDocument, Typed
<1>c. ASSUME NEW p \in Api, NEW c \in Content, NEW d \in Doc, UploadForced(p, c, d) PROVE Typed'
  <2>1. DocTyped' /\ ClientTyped'
    BY <1>c DEF UploadForced, StoreDocument, Typed, DocTyped, ClientTyped
  <2> QED BY <1>c, <1>a, <2>1, Frame DEF UploadForced, Typed
<1>d. ASSUME NEW p \in Api, NEW c \in Content, UploadChecked(p, c) \/ AddChecked(p, c) PROVE Typed'
  <2>1. ClientTyped'
    <3>1. CASE UploadChecked(p, c)
      BY <1>b, <3>1 DEF UploadChecked, Typed, ClientTyped
    <3>2. CASE AddChecked(p, c)
      BY <1>b, <3>2 DEF AddChecked, NextFile, Typed, ClientTyped
    <3> QED BY <1>d, <3>1, <3>2
  <2> QED BY <1>d, <1>a, <2>1, Frame DEF UploadChecked, AddChecked, Typed
<1>4. ASSUME NEW p \in Api, NEW d \in Doc, AddFile(p, d) \/ AnswerLost(p, d) \/ AddFileDies(p, d) PROVE Typed'
  <2>0. browser.pc = "adding"
    BY <1>4 DEF AddFile, AnswerLost, AddFileDies, Typed, ClientTyped, TabType
  <2>1. DocTyped' /\ request' \in [Api -> RequestType] /\ \A q \in Api : request'[q].from # "tab"
    BY <1>1, <1>4 DEF AddFile, AnswerLost, AddFileDies, Typed, ClientTyped
  <2>2. browser' \in TabType /\ browser'.pc = "adding"
    BY <1>2, <1>4, <2>0 DEF AddFile, AnswerLost, AddFileDies
  <2>3. ClientTyped'
    BY <1>4, <2>1, <2>2 DEF AddFile, AnswerLost, AddFileDies, Typed, ClientTyped
  <2> QED BY <1>4, <1>a, <2>1, <2>3, Frame DEF AddFile, AnswerLost, AddFileDies, Typed
<1>e. ASSUME NEW p \in Api, NEW d \in Doc, AddForNobody(p, d) PROVE Typed'
  <2>1. DocTyped' /\ request' \in [Api -> RequestType] /\ \A q \in Api : request'[q].from = "tab" => request[q].from = "tab" /\ request'[q].file = request[q].file
    BY <1>1, <1>e DEF AddForNobody
  <2>2. ClientTyped'
    BY <1>e, <2>1 DEF AddForNobody, Typed, ClientTyped
  <2> QED BY <1>e, <2>1, <2>2, Frame DEF AddForNobody, Typed
<1>f. ASSUME NEW p \in Api, RequestFails(p) PROVE Typed'
  <2>1. request' \in [Api -> RequestType]
        /\ \A q \in Api : request'[q].from = "tab" => q # p /\ request'[q] = request[q]
    BY <1>f DEF RequestFails, NoRequest, RequestType, Typed, ClientTyped
  <2>2. CASE request[p].from = "tab"
    <3>1. browser.pc = "adding"
      BY <2>2 DEF Typed, ClientTyped, TabType
    <3>2. browser' \in TabType /\ browser'.pc = "adding"
      BY <1>f, <1>2, <2>2, <3>1 DEF RequestFails
    <3>3. ClientTyped'
      BY <1>f, <2>1, <3>2 DEF RequestFails, Typed, ClientTyped
    <3> QED BY <1>f, <1>a, <3>3, Frame DEF RequestFails, Typed
  <2>3. CASE request[p].from # "tab"
    <3>1. ClientTyped'
      BY <1>f, <2>1, <2>3 DEF RequestFails, Typed, ClientTyped
    <3> QED BY <1>f, <1>a, <3>1, Frame DEF RequestFails, Typed
  <2> QED BY <2>2, <2>3
<1>5. ASSUME NEW files \in SUBSET Content, Submit(files) PROVE Typed'
  BY <1>5, <1>a, Frame DEF Submit, Typed, ClientTyped, TabType
<1>6. ASSUME NEW c \in Content, AddDuplicate(c) \/ AddRefused(c) PROVE Typed'
  BY <1>6, <1>2, Frame DEF AddDuplicate, AddRefused, NextFile, Typed, ClientTyped
<1>7. CASE StartBatch \/ StartFails \/ NothingAdded \/ TabCloses
  <2>1. browser' \in TabType
    BY <1>7, Closed DEF StartBatch, StartFails, NothingAdded, TabCloses, Leave
  <2>0. request' \in [Api -> RequestType] /\ \A p \in Api : request'[p].from # "tab"
    <3>1. CASE TabCloses
      BY <3>1 DEF TabCloses, Typed, ClientTyped, RequestType
    <3>2. CASE StartBatch \/ StartFails \/ NothingAdded
      BY <3>2 DEF StartBatch, StartFails, NothingAdded, AllSent, Typed, ClientTyped
    <3> QED BY <1>7, <3>1, <3>2
  <2>2. ClientTyped'
    BY <1>7, <2>0, <2>1 DEF StartBatch, StartFails, NothingAdded, TabCloses, BatchOver, Typed, ClientTyped
  <2>3. run' \in [Doc -> RunType]
    BY <1>7 DEF StartBatch, StartFails, NothingAdded, TabCloses, Typed, RunType
  <2> QED BY <1>7, <1>a, <2>2, <2>3, Frame DEF StartBatch, StartFails, NothingAdded, TabCloses, Typed
<1>8. ASSUME NEW d \in Doc, SendTask(d) PROVE Typed'
  <2>1. ClientTyped' /\ run' \in [Doc -> RunType]
    BY <1>8, RunStep DEF SendTask, Typed, ClientTyped
  <2> QED BY <1>8, <2>1, Frame DEF SendTask, Typed
<1>9. ASSUME NEW d \in Doc, SendFails(d) PROVE Typed'
  <2>1. ClientTyped'
    BY <1>9 DEF SendFails, Typed, ClientTyped
  <2> QED BY <1>9, <1>a, <2>1, Frame DEF SendFails, Typed
<1>10. ASSUME NEW d \in Doc, StartRun(d) PROVE Typed'
  <2>1. run' \in [Doc -> RunType] /\ HistoryTyped'
    BY <1>10, RunStep DEF StartRun, Typed, HistoryTyped
  <2> QED BY <1>10, <2>1, Frame DEF StartRun, Typed
<1>11. ASSUME NEW d \in Doc, PersistPages(d) PROVE Typed'
  <2>1. run' \in [Doc -> RunType] /\ ExportTyped'
    BY <1>11, RunStep DEF PersistPages, Typed, ExportTyped
  <2> QED BY <1>11, <2>1, Frame DEF PersistPages, Typed
<1>12. ASSUME NEW d \in Doc, RenderRun(d) PROVE Typed'
  <2>1. text[d] \in Nat
    BY DEF Typed, ExportTyped
  <2>2. run' \in [Doc -> RunType] /\ HistoryTyped'
    BY <1>12, <2>1, RunStep DEF RenderRun, Typed, HistoryTyped
  <2>3. RegenTyped'
    BY ZenonT(60), <1>12 DEF RenderRun, Typed, RegenTyped, TaskType
  <2> QED BY <1>12, <2>2, <2>3, Frame DEF RenderRun, Typed
<1>13. ASSUME NEW d \in Doc, StoreOfRun(d) \/ RecordOfRun(d) PROVE Typed'
  <2>1. run' \in [Doc -> RunType]
    <3>1. \/ run' = [run EXCEPT ![d].pc = "stored"]
          \/ run' = [run EXCEPT ![d] = [pc |-> "ended", seen |-> 0]]
      BY <1>13 DEF StoreOfRun, RecordOfRun
    <3>2. /\ [run EXCEPT ![d].pc = "stored"] \in [Doc -> RunType]
          /\ [run EXCEPT ![d] = [pc |-> "ended", seen |-> 0]] \in [Doc -> RunType]
      BY ZenonT(60), RunStep
    <3> QED BY <3>1, <3>2
  <2>2. ExportTyped'
    BY <1>13, RunStep DEF StoreOfRun, RecordOfRun, StoreExport, RecordExportFile, Typed, ExportTyped
  <2> QED BY <1>13, <2>1, <2>2, Frame DEF StoreOfRun, RecordOfRun, Typed
<1>14. ASSUME NEW d \in Doc, RunFails(d) PROVE Typed'
  BY <1>14, <1>a, RunStep, Frame DEF RunFails, Typed, HistoryTyped
<1>15. ASSUME NEW d \in Doc, EditText(d) PROVE Typed'
  BY <1>15, <1>a, Frame DEF EditText, Typed, ExportTyped
<1>16. ASSUME NEW d \in Doc, SoftDelete(d) \/ DeletePrefixes(d) \/ DeleteDies(d) PROVE Typed'
  <2>1. DocTyped' /\ HistoryTyped'
    BY <1>16 DEF SoftDelete, DeletePrefixes, DeleteDies, Typed, DocTyped, HistoryTyped
  <2>2. ExportTyped'
    BY <1>16 DEF SoftDelete, DeletePrefixes, DeleteDies, Typed, ExportTyped, exportVars
  <2> QED BY <1>16, <1>a, <2>1, <2>2, Frame DEF SoftDelete, DeletePrefixes, DeleteDies, Typed
<1>17. ASSUME NEW t \in Task, NEW d \in Doc, DispatchExport(t, d) PROVE Typed'
  <2>1. [NoTask EXCEPT !.pc = "queued", !.doc = d, !.asked = text[d]] \in TaskType
    BY DEF NoTask, TaskType, Typed, ExportTyped
  <2>2. RegenTyped'
    BY <1>17, <2>1 DEF DispatchExport, Typed, RegenTyped, NoTask
  <2> QED BY <1>17, <1>a, <2>2, Frame DEF DispatchExport, Typed
<1>18. ASSUME NEW t \in Task, TaskRefused(t) PROVE Typed'
  BY <1>18, TaskStep, Frame DEF TaskRefused, TaskEnds, Typed
<1>19. ASSUME NEW t \in Task, TaskFails(t) \/ ExportWorkerDies(t) PROVE Typed'
  <2>1. regen[t].pc # "free"
    BY <1>19 DEF TaskFails, ExportWorkerDies, Working
  <2>2. RegenTyped'
    BY <1>19, <2>1, TaskStep DEF TaskFails, ExportWorkerDies
  <2>3. HistoryTyped'
    BY <1>19, <2>1, TaskStep DEF TaskFails, ExportWorkerDies, HalfDone, Typed, HistoryTyped
  <2> QED BY <1>19, <1>a, <2>2, <2>3, Frame DEF TaskFails, ExportWorkerDies, Typed
<1>20. ASSUME NEW t \in Task, RenderTask(t) PROVE Typed'
  <2>1. regen[t].doc \in Doc /\ text[regen[t].doc] \in Nat
    BY <1>20, TaskStep DEF RenderTask, Typed, ExportTyped
  <2>2. RegenTyped'
    <3>1. /\ regen[t] \in TaskType /\ regen[t].pc = "queued"
          /\ regen \in [Task -> TaskType]
          /\ \A u \in Task : regen[u].pc # "free" => regen[u].doc \in Doc
      BY <1>20 DEF RenderTask, Typed, RegenTyped
    <3>2. \A u \in Task : regen'[u] \in TaskType /\ regen'[u].doc = regen[u].doc
                           /\ (regen'[u].pc # "free" => regen[u].pc # "free")
      BY <1>20, <2>1, <3>1 DEF RenderTask, TaskType
    <3>3. DOMAIN regen' = Task /\ regen' = [u \in Task |-> regen'[u]]
      BY <1>20 DEF RenderTask
    <3> QED BY <3>1, <3>2, <3>3 DEF RegenTyped
  <2>3. HistoryTyped'
    BY <1>20, <2>1 DEF RenderTask, Typed, HistoryTyped
  <2> QED BY <1>20, <2>2, <2>3, Frame DEF RenderTask, Typed
<1>21. ASSUME NEW t \in Task, StoreOfTask(t) \/ RecordOfTask(t) PROVE Typed'
  <2>1. regen[t].pc # "free"
    BY <1>21 DEF StoreOfTask, RecordOfTask
  <2>2. RegenTyped'
    BY <1>21, <2>1, TaskStep DEF StoreOfTask, RecordOfTask
  <2>3. ExportTyped' /\ HistoryTyped'
    BY <1>21, <2>1, TaskStep DEF StoreOfTask, RecordOfTask, StoreExport, RecordExportFile, Typed,
       ExportTyped, HistoryTyped
  <2> QED BY <1>21, <2>2, <2>3, Frame DEF StoreOfTask, RecordOfTask, Typed
<1>22. CASE UNCHANGED vars
  BY <1>22, Frame DEF Typed, vars
<1> QED
  BY <1>3, <1>c, <1>d, <1>4, <1>e, <1>f, <1>5, <1>6, <1>7, <1>8, <1>9, <1>10, <1>11, <1>12, <1>13, <1>14,
     <1>15, <1>16, <1>17, <1>18, <1>19, <1>20, <1>21, <1>22
  DEF Next, Server, Upload, Client, Document, Regeneration

LEMMA InitTyped == Init => Typed
<1>1. /\ NoTask \in TaskType /\ NoTask.pc = "free"
      /\ [pc |-> "unsent", seen |-> 0] \in RunType
      /\ [pc |-> "idle", todo |-> {}, added |-> FALSE] \in TabType
      /\ NoRequest \in RequestType /\ NoRequest.from = "upload"
  BY DEF NoTask, TaskType, RunType, TabType, NoRequest, RequestType
<1>2. [asks |-> MaxAsks, uploads |-> MaxUploads, faults |-> MaxFaults] \in [Bound -> Nat]
  BY LibraryAssumption DEF Bound
<1> QED
  BY <1>1, <1>2 DEF Init, Typed, DocTyped, ExportTyped, ClientTyped, HistoryTyped, RegenTyped

(* Every variable keeps its type.                                          *)
THEOREM TypeCorrect == Spec => []TypeOK
BY InitTyped, Typing, TypedIsTypeOK, PTL DEF Spec

-----------------------------------------------------------------------------
(* Uploads.  A document is sent once; a batch that adds nothing has        *)
(* nothing to start but what a fault left in it.                           *)

ClientInv ==
  /\ sending \cap pending = {}
  /\ \A d \in sending \cup pending : content[d] # Nothing /\ run[d].pc = "unsent"
  /\ \A d \in Doc : content[d] = Nothing => deletion[d] = "no" /\ run[d].pc = "unsent"
  /\ ~browser.added => pending \subseteq stranded

LEMMA ClientKept ==
  Typed /\ ClientInv /\ [Next]_vars =>
    ClientInv' /\ (StrandedOnlyByFault => StrandedOnlyByFault')
<1> DEFINE Kept == ClientInv' /\ (StrandedOnlyByFault => StrandedOnlyByFault')
<1> SUFFICES ASSUME Typed, ClientInv, [Next]_vars PROVE Kept
  OBVIOUS
<1>0. /\ content \in [Doc -> Content \cup {Nothing}] /\ deletion \in [Doc -> {"no", "flagged", "gone"}]
      /\ run \in [Doc -> RunType] /\ browser \in TabType
      /\ sending \subseteq Doc /\ pending \subseteq Doc
      /\ (pending # {} => browser.pc # "idle") /\ Nothing \notin Content
  BY LibraryAssumption DEF Typed, DocTyped, ClientTyped
<1> USE <1>0 DEF ClientInv, StrandedOnlyByFault, Live
<1>a. ASSUME NEW c, FileDone(c, TRUE) PROVE browser'.added
  BY <1>a DEF FileDone, TabType
<1>b. ASSUME NEW c, FileDone(c, FALSE) PROVE ~browser'.added <=> ~browser.added
  BY <1>b DEF FileDone, TabType
<1>1. ASSUME NEW p \in Api, NEW d \in Doc, UploadDocument(p, d) \/ \E c \in Content : UploadForced(p, c, d) PROVE Kept
  <2>1. PICK c \in Content \cup {Nothing} : c # Nothing /\ content[d] = Nothing /\ content' = [content EXCEPT ![d] = c]
    BY <1>1 DEF UploadDocument, UploadForced, CreateDocument, StoreDocument, Typed, ClientTyped, RequestType
  <2>2. sending' = sending \cup {d} /\ UNCHANGED <<run, deletion, browser, pending, stranded>>
    BY <1>1 DEF UploadDocument, UploadForced
  <2> QED BY <2>1, <2>2
<1>2. ASSUME NEW p \in Api, NEW d \in Doc,
             AddFile(p, d) \/ AnswerLost(p, d) \/ AddFileDies(p, d) \/ AddForNobody(p, d)
      PROVE Kept
  <2>1. /\ request[p].file # Nothing /\ content[d] = Nothing /\ content' = [content EXCEPT ![d] = request[p].file]
        /\ deletion' = deletion /\ run' = run /\ sending' = sending
    BY <1>2 DEF AddFile, AnswerLost, AddFileDies, AddForNobody, CreateDocument, StoreDocument
  <2>2. /\ pending' \subseteq pending \cup {d} /\ pending \subseteq pending'
        /\ stranded \subseteq stranded' /\ d \in pending' \cup stranded'
        /\ ~browser'.added => ~browser.added /\ pending' \subseteq pending \cup stranded'
    BY <1>2, <1>a, <1>b DEF AddFile, AnswerLost, AddFileDies, AddForNobody
  <2> QED BY <2>1, <2>2
<1>c. ASSUME NEW p \in Api, NEW c \in Content, UploadChecked(p, c) \/ AddChecked(p, c) PROVE Kept
  BY <1>c DEF UploadChecked, AddChecked, docVars
<1>d. ASSUME NEW p \in Api, RequestFails(p) PROVE Kept
  <2>1. (~browser'.added <=> ~browser.added) /\ UNCHANGED <<content, deletion, run, sending, pending, stranded>>
    BY <1>b, <1>d DEF RequestFails, docVars
  <2> QED BY <2>1
<1>3. ASSUME NEW files \in SUBSET Content, Submit(files) PROVE Kept
  BY <1>3 DEF Submit, docVars
<1>4. ASSUME NEW c \in Content, AddDuplicate(c) \/ AddRefused(c) PROVE Kept
  BY ZenonT(60), <1>4, <1>a, <1>b DEF AddDuplicate, AddRefused, docVars
<1>5. CASE StartBatch
  BY <1>5 DEF StartBatch, BatchOver, Leave, docVars, RunType
<1>6. CASE StartFails \/ NothingAdded \/ TabCloses
  BY <1>6 DEF StartFails, NothingAdded, TabCloses, BatchOver, Leave, docVars
<1>7. ASSUME NEW d \in Doc, SendTask(d) \/ SendFails(d) PROVE Kept
  BY <1>7 DEF SendTask, SendFails, docVars, RunType
<1>8. ASSUME NEW d \in Doc,
             StartRun(d) \/ PersistPages(d) \/ RenderRun(d) \/ StoreOfRun(d) \/ RecordOfRun(d) \/ RunFails(d)
      PROVE Kept
  <2>1. \A e \in Doc : run'[e].pc = "unsent" <=> run[e].pc = "unsent"
    BY <1>8 DEF StartRun, PersistPages, RenderRun, StoreOfRun, RecordOfRun, RunFails, RunType
  <2>2. UNCHANGED <<docVars, clientVars>>
    BY <1>8 DEF StartRun, PersistPages, RenderRun, StoreOfRun, RecordOfRun, RunFails
  <2> QED BY <2>1, <2>2 DEF docVars, clientVars
<1>9. ASSUME NEW d \in Doc, SoftDelete(d) \/ DeletePrefixes(d) \/ DeleteDies(d) PROVE Kept
  BY <1>9 DEF SoftDelete, DeletePrefixes, DeleteDies, clientVars
<1>10. ASSUME NEW t \in Task, Regeneration(t) PROVE Kept
  <2>1. UNCHANGED <<docVars, clientVars, run>>
    BY <1>10 DEF Regeneration, DispatchExport, TaskRefused, RenderTask, StoreOfTask, RecordOfTask,
       TaskFails, ExportWorkerDies
  <2> QED BY <2>1 DEF docVars, clientVars
<1>11. ASSUME NEW d \in Doc, EditText(d) PROVE Kept
  BY <1>11 DEF EditText, docVars, clientVars
<1>12. CASE UNCHANGED vars
  BY <1>12 DEF vars, docVars, clientVars
<1> QED
  BY <1>1, <1>2, <1>c, <1>d, <1>3, <1>4, <1>5, <1>6, <1>7, <1>8, <1>9, <1>10, <1>11, <1>12
  DEF Next, Server, Upload, Client, Document

(* A check that nobody has overtaken still holds.                          *)
CheckInv ==
  \A p \in Api : request[p].file # Nothing /\ ~request[p].overtaken =>
    \A d \in Doc : Live(d) /\ content[d] = request[p].file => d \in forced

LEMMA DuplicatesKept ==
  Typed /\ ClientInv /\ CheckInv /\ NoTwoLiveDuplicates /\ [Next]_vars => CheckInv' /\ NoTwoLiveDuplicates'
<1> DEFINE Kept == CheckInv' /\ NoTwoLiveDuplicates'
<1> SUFFICES ASSUME Typed, ClientInv, CheckInv, NoTwoLiveDuplicates, [Next]_vars PROVE Kept
  OBVIOUS
<1>0. /\ content \in [Doc -> Content \cup {Nothing}] /\ deletion \in [Doc -> {"no", "flagged", "gone"}]
      /\ request \in [Api -> RequestType] /\ Nothing \notin Content /\ NoRequest.file = Nothing
  BY LibraryAssumption DEF Typed, DocTyped, ClientTyped, NoRequest
<1> USE <1>0 DEF CheckInv, NoTwoLiveDuplicates, Live
(* A commit marks the other checks of its content.                         *)
<1>1. ASSUME NEW p \in Api, NEW d \in Doc, CreateDocument(p, d), UNCHANGED <<deletion, forced>> PROVE Kept
  <2>1. /\ request[p].file # Nothing /\ content[d] = Nothing /\ deletion[d] = "no"
        /\ \A e \in Doc : content'[e] = IF e = d THEN request[p].file ELSE content[e]
        /\ crossed' = IF request[p].overtaken THEN crossed \cup {d} ELSE crossed
    BY <1>1 DEF CreateDocument, StoreDocument, ClientInv
  <2>2. \A q \in Api : request'[q].file # Nothing /\ ~request'[q].overtaken =>
          request'[q] = request[q] /\ request[q].file # request[p].file
    <3>1. ASSUME NEW q \in Api PROVE [request[q] EXCEPT !.overtaken = TRUE].overtaken
      BY DEF RequestType
    <3> QED BY <1>1, <3>1 DEF CreateDocument
  <2>3. CheckInv'
    BY <1>1, <2>1, <2>2
  <2>4. NoTwoLiveDuplicates'
    BY <1>1, <2>1
  <2> QED BY <2>3, <2>4
<1>2. ASSUME NEW p \in Api, NEW d \in Doc, Upload(p, d) PROVE Kept
  <2>1. CASE \E c \in Content : UploadForced(p, c, d)
    BY <2>1 DEF UploadForced, StoreDocument
  <2> QED BY <1>1, <1>2, <2>1 DEF Upload, UploadDocument, AddFile, AnswerLost, AddFileDies, AddForNobody
<1>3. ASSUME NEW p \in Api, NEW c \in Content, UploadChecked(p, c) \/ AddChecked(p, c) PROVE Kept
  <2>1. /\ FindDocumentByHash(c) = {} /\ UNCHANGED docVars
        /\ \A q \in Api : request'[q] = IF q = p THEN request'[p] ELSE request[q]
        /\ request'[p].file = c
    BY <1>3 DEF UploadChecked, AddChecked, Checked
  <2> QED BY <2>1 DEF FindDocumentByHash, docVars
<1>4. ASSUME UNCHANGED <<content, forced, crossed>>,
             \A d \in Doc : deletion'[d] = "no" => deletion[d] = "no",
             \A p \in Api : \/ request'[p] = NoRequest
                            \/ request'[p].file = request[p].file /\ request'[p].overtaken = request[p].overtaken
      PROVE Kept
  BY <1>4
<1>5. ASSUME NEW p \in Api, RequestFails(p) PROVE Kept
  BY <1>4, <1>5 DEF RequestFails, docVars
<1>6. CASE Client
  <2>1. UNCHANGED docVars
    BY <1>6 DEF Client, Submit, AddDuplicate, AddRefused, StartBatch, StartFails, NothingAdded, TabCloses
  <2>2. \A p \in Api : request'[p].file = request[p].file /\ request'[p].overtaken = request[p].overtaken
    <3>1. CASE TabCloses
      BY <3>1 DEF TabCloses, RequestType
    <3> QED BY <1>6, <3>1 DEF Client, Submit, AddDuplicate, AddRefused, StartBatch, StartFails, NothingAdded
  <2> QED BY <1>4, <2>1, <2>2 DEF docVars
<1>7. ASSUME NEW d \in Doc, Document(d) PROVE Kept
  <2>1. UNCHANGED <<content, forced, crossed, request>> /\ \A e \in Doc : deletion'[e] = "no" => deletion[e] = "no"
    BY <1>7 DEF Document, SendTask, SendFails, StartRun, PersistPages, RenderRun, StoreOfRun, RecordOfRun, RunFails,
       EditText, SoftDelete, DeletePrefixes, DeleteDies, docVars, clientVars
  <2> QED BY <1>4, <2>1
<1>8. ASSUME NEW t \in Task, Regeneration(t) PROVE Kept
  <2>1. UNCHANGED <<docVars, clientVars>>
    BY <1>8 DEF Regeneration, DispatchExport, TaskRefused, RenderTask, StoreOfTask, RecordOfTask,
       TaskFails, ExportWorkerDies
  <2> QED BY <1>4, <2>1 DEF docVars, clientVars
<1>9. CASE UNCHANGED vars
  BY <1>4, <1>9 DEF vars, docVars, clientVars
<1> QED BY <1>2, <1>3, <1>5, <1>6, <1>7, <1>8, <1>9 DEF Next, Server

-----------------------------------------------------------------------------
(* Storage.  Once a document is deleted no writer of its files is at work, *)
(* but for one that was at work already.                                   *)

Busy(d) == run[d].pc \in {"read", "pages", "rendered", "stored"}
Writing(d) == \E t \in Task : regen[t].doc = d /\ Working(t)
FileInv ==
  \A d \in Doc \ exposed : deletion[d] # "no" => ~Busy(d) /\ ~Writing(d)

LEMMA FilesKept ==
  Typed /\ ClientInv /\ FileInv /\ DeletedLeavesNoFiles /\ [Next]_vars => FileInv' /\ DeletedLeavesNoFiles'
<1> DEFINE Kept == FileInv' /\ DeletedLeavesNoFiles'
<1> SUFFICES ASSUME Typed, ClientInv, FileInv, DeletedLeavesNoFiles, [Next]_vars PROVE Kept
  OBVIOUS
<1>0. /\ content \in [Doc -> Content \cup {Nothing}] /\ deletion \in [Doc -> {"no", "flagged", "gone"}]
      /\ run \in [Doc -> RunType] /\ regen \in [Task -> TaskType]
      /\ \A t \in Task : regen[t].pc # "free" => regen[t].doc \in Doc
      /\ original \subseteq Doc /\ images \subseteq Doc /\ output \in [Doc -> Nat]
  BY DEF Typed, DocTyped, ExportTyped, RegenTyped
<1> USE <1>0 DEF FileInv, DeletedLeavesNoFiles, Busy, Writing, Working, Live
<1>1. ASSUME NEW p \in Api, NEW d \in Doc, Upload(p, d) PROVE Kept
  <2>1. /\ content[d] = Nothing /\ deletion[d] = "no" /\ original' = original \cup {d}
        /\ UNCHANGED <<exportVars, deletion, run, regen, exposed>>
    BY <1>1 DEF ClientInv, Upload, UploadDocument, UploadForced, AddFile, AnswerLost, AddFileDies, AddForNobody,
       CreateDocument, StoreDocument
  <2> QED BY <2>1 DEF exportVars
<1>2. ASSUME UNCHANGED <<docVars, exportVars, regen, exposed>>,
             \A d \in Doc : run'[d].pc = run[d].pc \/ run'[d].pc \in {"sent", "ended"}
      PROVE Kept
  BY <1>2 DEF docVars, exportVars
<1>3. ASSUME NEW c \in Content, AddDuplicate(c) \/ AddRefused(c) PROVE Kept
  BY <1>2, <1>3 DEF AddDuplicate, AddRefused
<1>a. ASSUME NEW p \in Api, NEW c \in Content, UploadChecked(p, c) \/ AddChecked(p, c) PROVE Kept
  BY <1>2, <1>a DEF UploadChecked, AddChecked
<1>b. ASSUME NEW p \in Api, RequestFails(p) PROVE Kept
  BY <1>2, <1>b DEF RequestFails
<1>4. ASSUME NEW files \in SUBSET Content, Submit(files) PROVE Kept
  BY <1>2, <1>4 DEF Submit
<1>5. CASE StartBatch \/ StartFails \/ NothingAdded \/ TabCloses
  BY <1>2, <1>5 DEF StartBatch, StartFails, NothingAdded, TabCloses, RunType
<1>6. ASSUME NEW d \in Doc, SendTask(d) \/ SendFails(d) \/ RunFails(d) PROVE Kept
  BY <1>2, <1>6 DEF SendTask, SendFails, RunFails, RunType
<1>7. ASSUME NEW d \in Doc, StartRun(d) PROVE Kept
  <2>1. \A e \in Doc : run'[e] = IF e = d THEN [run[d] EXCEPT !.pc = IF d \in original THEN "read" ELSE "ended"]
                                 ELSE run[e]
    BY <1>7 DEF StartRun
  <2>2. CASE d \in original
    <3>1. \A e \in Doc : run'[e].pc = IF e = d THEN "read" ELSE run[e].pc
      BY <2>1, <2>2 DEF RunType
    <3>2. d \in exposed' \/ content[d] = Nothing \/ deletion[d] = "no"
      BY <1>7, <2>2 DEF StartRun
    <3>3. exposed \subseteq exposed' /\ UNCHANGED <<docVars, exportVars, regen>>
      BY <1>7 DEF StartRun
    <3> QED BY <3>1, <3>2, <3>3 DEF docVars, exportVars, ClientInv
  <2>3. CASE d \notin original
    BY <1>2, <1>7, <2>1, <2>3 DEF StartRun, RunType
  <2> QED BY <2>2, <2>3
<1>8. ASSUME NEW d \in Doc, PersistPages(d) \/ RenderRun(d) \/ StoreOfRun(d) \/ RecordOfRun(d) PROVE Kept
  <2>1. Busy(d) /\ \A e \in Doc \ {d} : run'[e] = run[e]
    BY <1>8 DEF PersistPages, RenderRun, StoreOfRun, RecordOfRun
  <2>2. /\ exposed' = exposed /\ deletion' = deletion /\ original' = original
        /\ images' \subseteq images \cup {d}
        /\ \A e \in Doc \ {d} : output'[e] = output[e]
    BY <1>8 DEF PersistPages, RenderRun, StoreOfRun, RecordOfRun, StoreExport, docVars, exportVars
  <2>3. \A t \in Task : regen'[t].doc = regen[t].doc /\ regen'[t].pc = regen[t].pc
    BY <1>8 DEF PersistPages, RenderRun, StoreOfRun, RecordOfRun, TaskType
  <2> QED BY <2>1, <2>2, <2>3
<1>9. ASSUME NEW d \in Doc, EditText(d) PROVE Kept
  BY <1>9 DEF EditText, docVars
<1>10. ASSUME NEW d \in Doc, SoftDelete(d) PROVE Kept
  BY <1>10 DEF SoftDelete, exportVars
<1>11. ASSUME NEW d \in Doc, DeletePrefixes(d) \/ DeleteDies(d) PROVE Kept
  BY <1>11 DEF DeletePrefixes, DeleteDies, exportVars
<1>12. ASSUME NEW t \in Task, NEW d \in Doc, DispatchExport(t, d) PROVE Kept
  <2>1. regen'[t].pc = "queued" /\ \A u \in Task \ {t} : regen'[u] = regen[u]
    BY <1>12 DEF DispatchExport, NoTask
  <2> QED BY <1>12, <2>1 DEF DispatchExport, docVars, exportVars
<1>13. ASSUME NEW t \in Task, TaskRefused(t) \/ TaskFails(t) \/ ExportWorkerDies(t) PROVE Kept
  <2>1. regen'[t].pc \in {"free", "queued"} /\ \A u \in Task \ {t} : regen'[u] = regen[u]
    BY <1>13 DEF TaskRefused, TaskFails, ExportWorkerDies, TaskEnds, NoTask, TaskType
  <2> QED BY <1>13, <2>1 DEF TaskRefused, TaskFails, ExportWorkerDies, docVars, exportVars
<1>14. ASSUME NEW t \in Task, RenderTask(t) PROVE Kept
  <2>1. deletion[regen[t].doc] = "no" /\ regen[t].doc \in Doc
    BY <1>14 DEF RenderTask, Found
  <2>2. UNCHANGED <<docVars, exportVars, run, exposed>>
    BY <1>14 DEF RenderTask
  <2>3. \A u \in Task : regen'[u].doc = regen[u].doc
    BY ZenonT(60), <1>14 DEF RenderTask, TaskType
  <2>4. \A u \in Task \ {t} : regen'[u].pc = regen[u].pc
    BY ZenonT(60), <1>14 DEF RenderTask, TaskType
  <2> QED BY <2>1, <2>2, <2>3, <2>4 DEF docVars, exportVars
<1>15. ASSUME NEW t \in Task, StoreOfTask(t) \/ RecordOfTask(t) PROVE Kept
  <2>1. /\ Working(t) /\ regen[t].doc \in Doc
        /\ regen'[t].doc = regen[t].doc \/ regen'[t].pc = "free"
        /\ \A u \in Task \ {t} : regen'[u] = regen[u]
    BY <1>15 DEF StoreOfTask, RecordOfTask, TaskEnds, NoTask, TaskType
  <2>2. \A e \in Doc \ {regen[t].doc} : output'[e] = output[e]
    BY <1>15, <2>1 DEF StoreOfTask, RecordOfTask, StoreExport
  <2> QED BY <1>15, <2>1, <2>2 DEF StoreOfTask, RecordOfTask, docVars
<1>16. CASE UNCHANGED vars
  BY <1>2, <1>16 DEF vars
<1> QED
  BY <1>1, <1>3, <1>a, <1>b, <1>4, <1>5, <1>6, <1>7, <1>8, <1>9, <1>10, <1>11, <1>12, <1>13, <1>14, <1>15, <1>16
  DEF Next, Server, Client, Document, Regeneration

-----------------------------------------------------------------------------
(* Exports.  A task that is alone stays alone until it ends or is marked;  *)
(* a writer that is not alone has torn its document's export.              *)

Stored(t) == regen[t].pc = "stored"

WriterInv ==
  /\ \A t \in Task : Working(t) /\ regen[t].alone =>
       /\ ~RunWrites(regen[t].doc)
       /\ \A u \in Task \ {t} : Working(u) => regen[u].doc # regen[t].doc
  /\ \A t \in Task : Working(t) /\ ~regen[t].alone => regen[t].doc \in torn
  /\ \A t \in Task : Working(t) /\ RunWrites(regen[t].doc) => regen[t].doc \in torn

(* A writer that stored and has not recorded yet still finds its file, and *)
(* without such a writer the row describes the file.                       *)
RecordInv ==
  /\ \A t \in Task : Stored(t) /\ regen[t].alone /\ deletion[regen[t].doc] = "no" =>
       output[regen[t].doc] = regen[t].seen
  /\ \A d \in Doc \ torn : deletion[d] = "no" =>
       /\ run[d].pc = "stored" => output[d] = run[d].seen
       /\ \/ run[d].pc = "stored" \/ \E t \in Task : Stored(t) /\ regen[t].doc = d
          \/ recorded[d] = output[d]

(* The text only grows, and a task renders what was asked for, or more.    *)
VersionInv ==
  /\ \A d \in Doc : run[d].pc \in {"unsent", "sent", "read"} => text[d] = 0
  /\ \A t \in Task : regen[t].pc # "free" => regen[t].asked <= text[regen[t].doc]
  /\ \A t \in Task : Working(t) => regen[t].asked <= regen[t].seen

ExportInv == WriterInv /\ RecordInv /\ VersionInv

(* What a writer that begins does to the others of its document.           *)
LEMMA Marked ==
  ASSUME NEW r \in TaskType
  PROVE LET q == [r EXCEPT !.alone = FALSE]
        IN q.pc = r.pc /\ q.doc = r.doc /\ q.seen = r.seen /\ q.asked = r.asked /\ ~q.alone
BY DEF TaskType

LEMMA ExportsKept == Typed /\ ClientInv /\ ExportInv /\ [Next]_vars => ExportInv'
<1> SUFFICES ASSUME Typed, ClientInv, ExportInv, [Next]_vars PROVE ExportInv'
  OBVIOUS
<1>0. /\ deletion \in [Doc -> {"no", "flagged", "gone"}]
      /\ run \in [Doc -> RunType] /\ regen \in [Task -> TaskType]
      /\ \A t \in Task : regen[t].pc # "free" => regen[t].doc \in Doc
      /\ output \in [Doc -> Nat] /\ recorded \in [Doc -> Nat] /\ text \in [Doc -> Nat]
  BY DEF Typed, DocTyped, ExportTyped, RegenTyped
<1> USE <1>0 DEF ExportInv, WriterInv, RecordInv, VersionInv, Working, RunWrites, Stored
(* Steps of the clients, of a run that does not write, of a deletion that  *)
(* removes no export.                                                      *)
<1>1. ASSUME UNCHANGED <<exportVars, regen, torn>>,
             \A d \in Doc : deletion'[d] = "no" => deletion[d] = "no",
             \A d \in Doc : \/ run'[d] = run[d]
                            \/ /\ run[d].pc \in {"unsent", "sent", "read"}
                               /\ run'[d].pc \in {"sent", "read", "ended"}
      PROVE ExportInv'
  BY <1>1 DEF exportVars
<1>a. ASSUME NEW p \in Api, Server(p) PROVE ExportInv'
  <2>1. UNCHANGED <<exportVars, regen, torn, deletion, run>>
    BY <1>a DEF Server, Upload, UploadDocument, UploadForced, UploadChecked, AddChecked, AddFile, AnswerLost,
       AddFileDies, AddForNobody, RequestFails, docVars
  <2> QED BY <1>1, <2>1
<1>2. CASE Client
  <2>1. UNCHANGED <<exportVars, regen, torn, deletion>>
    BY <1>2 DEF Client, Submit, AddDuplicate, AddRefused,
       StartBatch, StartFails, NothingAdded, TabCloses, docVars
  <2>2. run' = run \/ run' = [d \in Doc |-> IF d \in pending THEN [run[d] EXCEPT !.pc = "sent"] ELSE run[d]]
    BY <1>2 DEF Client, Submit, AddDuplicate, AddRefused,
       StartBatch, StartFails, NothingAdded, TabCloses
  <2>3. \A d \in Doc : run'[d] = run[d] \/ (run[d].pc = "unsent" /\ run'[d].pc = "sent")
    BY <2>2 DEF ClientInv, RunType
  <2> QED BY <1>1, <2>1, <2>3
<1>3. ASSUME NEW d \in Doc, SendTask(d) \/ SendFails(d) \/ StartRun(d) PROVE ExportInv'
  <2>1. UNCHANGED <<exportVars, regen, torn, deletion>>
    BY <1>3 DEF SendTask, SendFails, StartRun, docVars
  <2>2. \A e \in Doc \ {d} : run'[e] = run[e]
    BY <1>3 DEF SendTask, SendFails, StartRun
  <2>3. run'[d] = run[d] \/ (run[d].pc \in {"unsent", "sent"} /\ run'[d].pc \in {"sent", "read", "ended"})
    BY <1>3 DEF SendTask, SendFails, StartRun, RunType, ClientInv
  <2> QED BY <1>1, <2>1, <2>2, <2>3
<1>4. ASSUME NEW d \in Doc, SoftDelete(d) \/ DeleteDies(d) PROVE ExportInv'
  BY <1>1, <1>4 DEF SoftDelete, DeleteDies, Live
<1>5. ASSUME NEW d \in Doc, DeletePrefixes(d) PROVE ExportInv'
  BY <1>5 DEF DeletePrefixes
<1>6. ASSUME NEW d \in Doc, PersistPages(d) PROVE ExportInv'
  <2>1. /\ text[d] = 0 /\ text'[d] = 1 /\ run[d].pc = "read" /\ run'[d].pc = "pages"
        /\ \A e \in Doc \ {d} : text'[e] = text[e] /\ run'[e] = run[e]
        /\ UNCHANGED <<output, recorded, regen, torn, deletion>>
    BY <1>6 DEF PersistPages, RunType, docVars
  <2> QED BY <2>1 DEF TaskType
<1>7. ASSUME NEW d \in Doc, RenderRun(d) PROVE ExportInv'
  <2>1. /\ run[d].pc = "pages" /\ run'[d].pc = "rendered" /\ \A e \in Doc \ {d} : run'[e] = run[e]
        /\ UNCHANGED <<output, recorded, text, deletion>>
    BY <1>7 DEF RenderRun, docVars, exportVars
  <2>a. \A t \in Task : regen'[t] = IF regen[t].doc = d /\ Working(t) THEN [regen[t] EXCEPT !.alone = FALSE]
                                    ELSE regen[t]
    BY <1>7 DEF RenderRun, TasksWriting
  <2>2. \A t \in Task : /\ regen'[t].pc = regen[t].pc /\ regen'[t].doc = regen[t].doc
                        /\ regen'[t].seen = regen[t].seen /\ regen'[t].asked = regen[t].asked
    BY ZenonT(60), <2>a, Marked
  <2>b. /\ \A t \in Task : regen[t].doc = d /\ Working(t) => ~regen'[t].alone
        /\ \A t \in Task : ~(regen[t].doc = d /\ Working(t)) => regen'[t] = regen[t]
    <3>1. ASSUME NEW t \in Task, regen[t].doc = d, Working(t) PROVE ~regen'[t].alone
      <4>1. regen'[t] = [regen[t] EXCEPT !.alone = FALSE] /\ regen[t] \in TaskType
        BY <2>a, <3>1
      <4> QED BY <4>1, Marked
    <3> QED BY <2>a, <3>1
  <2>3. torn' = IF \E t \in Task : Working(t) /\ regen[t].doc = d THEN torn \cup {d} ELSE torn
    BY <1>7 DEF RenderRun, TasksWriting
  <2>4. WriterInv'
    BY <2>1, <2>2, <2>b, <2>3
  <2>5. RecordInv'
    BY <2>1, <2>2, <2>b, <2>3
  <2>6. VersionInv'
    BY <2>1, <2>2
  <2> QED BY <2>4, <2>5, <2>6
<1>8. ASSUME NEW d \in Doc, StoreOfRun(d) PROVE ExportInv'
  <2>1. /\ run[d].pc = "rendered" /\ run'[d].pc = "stored" /\ run'[d].seen = run[d].seen
        /\ output'[d] = run'[d].seen
        /\ \A e \in Doc \ {d} : run'[e] = run[e] /\ output'[e] = output[e]
        /\ UNCHANGED <<recorded, text, regen, torn, deletion>>
    BY <1>8 DEF StoreOfRun, StoreExport, RunType, docVars
  <2> QED BY <2>1
<1>9. ASSUME NEW d \in Doc, RecordOfRun(d) PROVE ExportInv'
  <2>1. /\ run[d].pc = "stored" /\ run'[d].pc = "ended"
        /\ recorded'[d] = run[d].seen
        /\ \A e \in Doc \ {d} : run'[e] = run[e] /\ recorded'[e] = recorded[e]
        /\ UNCHANGED <<output, text, regen, torn, deletion>>
    BY <1>9 DEF RecordOfRun, RecordExportFile, docVars
  <2> QED BY <2>1
<1>10. ASSUME NEW d \in Doc, RunFails(d) PROVE ExportInv'
  <2>1. /\ run'[d].pc = "ended" /\ \A e \in Doc \ {d} : run'[e] = run[e]
        /\ torn' = (IF run[d].pc = "stored" THEN torn \cup {d} ELSE torn)
        /\ UNCHANGED <<output, recorded, text, regen, deletion>>
    BY <1>10 DEF RunFails, docVars, exportVars
  <2> QED BY <2>1
<1>11. ASSUME NEW d \in Doc, EditText(d) PROVE ExportInv'
  <2>1. /\ text[d] > 0 /\ text'[d] = text[d] + 1 /\ \A e \in Doc \ {d} : text'[e] = text[e]
        /\ UNCHANGED <<output, recorded, run, regen, torn, deletion>>
    BY <1>11 DEF EditText, docVars
  <2> QED BY <2>1 DEF TaskType
<1>12. ASSUME NEW t \in Task, NEW d \in Doc, DispatchExport(t, d) PROVE ExportInv'
  <2>1. /\ regen[t].pc = "free" /\ regen'[t].pc = "queued" /\ regen'[t].doc = d /\ regen'[t].asked = text[d]
        /\ \A u \in Task \ {t} : regen'[u] = regen[u]
        /\ UNCHANGED <<output, recorded, text, run, torn, deletion>>
    BY <1>12 DEF DispatchExport, NoTask, docVars, exportVars
  <2> QED BY <2>1
<1>13. ASSUME NEW t \in Task, TaskRefused(t) PROVE ExportInv'
  <2>1. /\ regen[t].pc = "queued" /\ regen'[t].pc = "free" /\ \A u \in Task \ {t} : regen'[u] = regen[u]
        /\ UNCHANGED <<output, recorded, text, run, torn, deletion>>
    BY <1>13 DEF TaskRefused, TaskEnds, NoTask, docVars, exportVars
  <2> QED BY <2>1
<1>14. ASSUME NEW t \in Task, RenderTask(t) PROVE ExportInv'
  <2> DEFINE d == regen[t].doc
             others == {u \in Task : regen[u].doc = d /\ Working(u)}
             alone == others = {} /\ ~RunWrites(d)
  <2>1. /\ regen[t].pc = "queued" /\ d \in Doc /\ t \notin others
        /\ UNCHANGED <<output, recorded, text, run, deletion>>
    BY <1>14 DEF RenderTask, docVars, exportVars
  <2>2. /\ regen'[t].pc = "rendered" /\ regen'[t].doc = d
        /\ regen'[t].seen = text[d] /\ regen'[t].asked = regen[t].asked
        /\ regen'[t].alone <=> alone
    BY ZenonT(60), <1>14 DEF RenderTask, TasksWriting, TaskType
  <2>a. \A u \in Task \ {t} : regen'[u] = IF u \in others THEN [regen[u] EXCEPT !.alone = FALSE] ELSE regen[u]
    BY <1>14 DEF RenderTask, TasksWriting
  <2>3. \A u \in Task \ {t} : /\ regen'[u].pc = regen[u].pc /\ regen'[u].doc = regen[u].doc
                              /\ regen'[u].seen = regen[u].seen /\ regen'[u].asked = regen[u].asked
    BY ZenonT(60), <2>a, Marked
  <2>b. /\ \A u \in others : ~regen'[u].alone
        /\ \A u \in Task \ {t} : u \notin others => regen'[u] = regen[u]
    <3>1. ASSUME NEW u \in others PROVE ~regen'[u].alone
      <4>1. regen'[u] = [regen[u] EXCEPT !.alone = FALSE] /\ regen[u] \in TaskType
        BY <2>1, <2>a
      <4> QED BY <4>1, Marked
    <3> QED BY <2>a, <3>1
  <2>4. torn' = IF alone THEN torn ELSE torn \cup {d}
    BY <1>14 DEF RenderTask, TasksWriting
  <2>5. WriterInv'
    BY <2>1, <2>2, <2>3, <2>b, <2>4
  <2>6. RecordInv'
    BY <2>1, <2>2, <2>3, <2>b, <2>4
  <2>7. VersionInv'
    BY <2>1, <2>2, <2>3
  <2> QED BY <2>5, <2>6, <2>7
<1>15. ASSUME NEW t \in Task, StoreOfTask(t) PROVE ExportInv'
  <2> DEFINE d == regen[t].doc
  <2>1. /\ regen[t].pc = "rendered" /\ d \in Doc /\ output'[d] = regen[t].seen
        /\ regen'[t].pc = "stored" /\ regen'[t].doc = d /\ regen'[t].seen = regen[t].seen
        /\ regen'[t].asked = regen[t].asked /\ regen'[t].alone = regen[t].alone
    BY <1>15 DEF StoreOfTask, StoreExport, TaskType
  <2>2. /\ \A u \in Task \ {t} : regen'[u] = regen[u]
        /\ \A e \in Doc \ {d} : output'[e] = output[e]
        /\ UNCHANGED <<recorded, text, run, torn, deletion>>
    BY <1>15 DEF StoreOfTask, StoreExport, docVars
  <2>3. WriterInv' /\ VersionInv'
    BY <2>1, <2>2
  <2>4. RecordInv'
    BY <2>1, <2>2
  <2> QED BY <2>3, <2>4
<1>16. ASSUME NEW t \in Task, RecordOfTask(t) PROVE ExportInv'
  <2> DEFINE d == regen[t].doc
  <2>1. /\ regen[t].pc = "stored" /\ d \in Doc /\ recorded'[d] = regen[t].seen
        /\ regen'[t].pc = "free" /\ \A u \in Task \ {t} : regen'[u] = regen[u]
        /\ \A e \in Doc \ {d} : recorded'[e] = recorded[e]
        /\ torn' = (IF regen[t].alone THEN torn \ {d} ELSE torn)
        /\ UNCHANGED <<output, text, run, deletion>>
    BY <1>16 DEF RecordOfTask, RecordExportFile, TaskEnds, NoTask, docVars
  <2>2. WriterInv' /\ VersionInv'
    BY <2>1
  <2>3. RecordInv'
    BY <2>1
  <2> QED BY <2>2, <2>3
<1>17. ASSUME NEW t \in Task, TaskFails(t) \/ ExportWorkerDies(t) PROVE ExportInv'
  <2> DEFINE d == regen[t].doc
  <2>1. /\ Working(t) /\ d \in Doc
        /\ regen'[t].pc = "free" \/ (regen'[t].pc = "queued" /\ regen'[t].doc = d /\ regen'[t].asked = regen[t].asked)
        /\ \A u \in Task \ {t} : regen'[u] = regen[u]
        /\ torn' = (IF regen[t].pc = "stored" THEN torn \cup {d} ELSE torn)
        /\ UNCHANGED <<output, recorded, text, run, deletion>>
    BY <1>17 DEF TaskFails, ExportWorkerDies, TaskEnds, NoTask, HalfDone, TaskType, docVars, exportVars
  <2>2. WriterInv'
    BY <2>1
  <2>3. RecordInv'
    BY <2>1
  <2>4. VersionInv'
    BY <2>1
  <2> QED BY <2>2, <2>3, <2>4
<1>18. CASE UNCHANGED vars
  BY <1>1, <1>18 DEF vars, docVars
<1> QED
  BY <1>a, <1>2, <1>3, <1>4, <1>5, <1>6, <1>7, <1>8, <1>9, <1>10, <1>11, <1>12, <1>13, <1>14, <1>15, <1>16,
     <1>17, <1>18 DEF Next, Document, Regeneration

-----------------------------------------------------------------------------
(* What the runs check, for every instance                                 *)

IInv ==
  /\ Typed /\ ClientInv /\ CheckInv /\ NoTwoLiveDuplicates /\ StrandedOnlyByFault
  /\ FileInv /\ DeletedLeavesNoFiles /\ ExportInv

LEMMA InitIInv == Init => IInv
<1> SUFFICES ASSUME Init PROVE IInv
  OBVIOUS
<1>1. Typed
  BY InitTyped
<1>2. ClientInv /\ CheckInv /\ NoTwoLiveDuplicates /\ StrandedOnlyByFault /\ FileInv /\ DeletedLeavesNoFiles
  BY DEF Init, ClientInv, CheckInv, NoRequest, NoTwoLiveDuplicates, StrandedOnlyByFault, FileInv, DeletedLeavesNoFiles, Live
<1>3. \A t \in Task : regen[t].pc = "free"
  BY DEF Init, NoTask
<1>4. ExportInv
  BY <1>3 DEF Init, ExportInv, WriterInv, RecordInv, VersionInv, Working, Stored, RunWrites
<1> QED BY <1>1, <1>2, <1>4 DEF IInv

(* What clients, files, writers, records and versions keep to, for any     *)
(* number of documents, contents and tasks.                                *)
THEOREM Inductive == Spec => []IInv
<1>1. IInv /\ [Next]_vars => IInv'
  BY Typing, ClientKept, DuplicatesKept, FilesKept, ExportsKept DEF IInv
<1> QED BY InitIInv, <1>1, PTL DEF Spec

(* Two live documents with the same content: one was forced, or its check  *)
(* was overtaken by the commit of the other.                               *)
THEOREM DuplicatesAreForcedOrCross == Spec => []NoTwoLiveDuplicates
BY Inductive, PTL DEF IInv

(* One process of the API crosses nothing: there every duplicate is forced *)
(* (more than one is what the compose files start).                        *)
THEOREM OneProcessCrossesNothing ==
  ASSUME \A p, q \in Api : p = q
  PROVE  Spec => [](crossed = {})
<1> DEFINE Alone == crossed = {} /\ \A p \in Api : ~request[p].overtaken
<1>1. Init => Alone
  BY DEF Init, NoRequest
<1>2. ASSUME Typed, Alone, [Next]_vars PROVE Alone'
  <2>0. request \in [Api -> RequestType] /\ ~NoRequest.overtaken
    BY <1>2 DEF Typed, ClientTyped, NoRequest
  <2>1. ASSUME NEW p \in Api, NEW d \in Doc, CreateDocument(p, d) PROVE Alone'
    BY <1>2, <2>0, <2>1 DEF CreateDocument
  <2>2. ASSUME NEW p \in Api, Server(p) PROVE Alone'
    <3>1. CASE \E d \in Doc : Upload(p, d)
      BY <1>2, <2>1, <3>1 DEF Upload, UploadDocument, UploadForced, AddFile, AnswerLost, AddFileDies, AddForNobody
    <3>2. CASE \E c \in Content : UploadChecked(p, c) \/ AddChecked(p, c)
      BY <1>2, <2>0, <3>2 DEF UploadChecked, AddChecked, Checked, docVars
    <3>3. CASE RequestFails(p)
      BY <1>2, <2>0, <3>3 DEF RequestFails, docVars
    <3> QED BY <2>2, <3>1, <3>2, <3>3 DEF Server
  <2>3. CASE Client
    <3>1. CASE TabCloses
      BY <1>2, <2>0, <3>1 DEF TabCloses, docVars, RequestType
    <3> QED BY <1>2, <2>3, <3>1 DEF Client, Submit, AddDuplicate, AddRefused, StartBatch, StartFails, NothingAdded, docVars
  <2>4. ASSUME NEW d \in Doc, Document(d) PROVE Alone'
    BY <1>2, <2>4 DEF Document, SendTask, SendFails, StartRun, PersistPages, RenderRun, StoreOfRun, RecordOfRun,
       RunFails, EditText, SoftDelete, DeletePrefixes, DeleteDies, docVars, clientVars
  <2>5. ASSUME NEW t \in Task, Regeneration(t) PROVE Alone'
    BY <1>2, <2>5 DEF Regeneration, DispatchExport, TaskRefused, RenderTask, StoreOfTask, RecordOfTask, TaskFails,
       ExportWorkerDies, docVars, clientVars
  <2>6. CASE UNCHANGED vars
    BY <1>2, <2>6 DEF vars, docVars, clientVars
  <2> QED BY <1>2, <2>2, <2>3, <2>4, <2>5, <2>6 DEF Next
<1>3. Typed /\ Alone /\ [Next]_vars => Alone'
  BY <1>2
<1>4. Alone => crossed = {}
  OBVIOUS
<1> HIDE DEF Alone
<1> QED BY InitTyped, Typing, <1>1, <1>3, <1>4, PTL DEF Spec

(* A document nothing will process is a fault's work.                      *)
THEOREM OnlyFaultsStrand == Spec => []StrandedOnlyByFault
BY Inductive, PTL DEF IInv

(* Deletion leaves nothing in storage, but under a writer or when it dies. *)
THEOREM DeletionIsComplete == Spec => []DeletedLeavesNoFiles
BY Inductive, PTL DEF IInv

(* Without overlapping or broken writers the row describes the file.       *)
THEOREM RowsDescribeFiles == Spec => []RecordMatchesFile
<1>1. ASSUME IInv PROVE RecordMatchesFile
  <2>1. /\ RecordInv
        /\ \A t \in Task : regen[t].pc = "stored" => t \in TasksWriting(regen[t].doc)
    BY <1>1 DEF IInv, ExportInv, TasksWriting
  <2> QED BY <2>1 DEF RecordInv, RecordMatchesFile, Stored, Live, RunWrites
<1> QED BY Inductive, <1>1, PTL

(* A regeneration that was alone stores every edit made before it.         *)
THEOREM EditsAreRegenerated == Spec => RegeneratedHoldsEdits
<1>1. ASSUME IInv, NEW t \in Task, RecordOfTask(t), regen[t].alone, Live(regen[t].doc)
      PROVE output[regen[t].doc] >= regen[t].asked
  <2>1. Working(t) /\ Stored(t) /\ deletion[regen[t].doc] = "no"
    BY <1>1 DEF RecordOfTask, Working, Stored, Live
  <2>2. regen[t].asked <= regen[t].seen /\ output[regen[t].doc] = regen[t].seen
    BY <1>1, <2>1 DEF IInv, ExportInv, RecordInv, VersionInv
  <2> QED BY <2>2
<1>2. IInv /\ [Next]_vars =>
        [\A t \in Task : RecordOfTask(t) /\ regen[t].alone /\ Live(regen[t].doc) =>
           output[regen[t].doc] >= regen[t].asked]_vars
  BY <1>1
<1> QED BY Inductive, <1>2, PTL DEF Spec, RegeneratedHoldsEdits

-----------------------------------------------------------------------------
(* The other page of the frontend that waits for a document: the hook that *)
(* follows a job's progress (ProgressFeed), for any number of updates, of  *)
(* unanswered polls and of failures.                                       *)

ServerTyped ==
  /\ db \in Event /\ outbox \in [Writer -> Event \cup {NoEvent}]
  /\ stop \in BOOLEAN /\ over \in BOOLEAN /\ gone \in BOOLEAN
  /\ relay \in {"none", "live", "closed"} /\ frames \in Seq(Event)
SocketTyped == socket \in {"open", "closed"} /\ closing \in BOOLEAN
HookTyped ==
  /\ mounted \in BOOLEAN /\ finished \in BOOLEAN /\ poll \in BOOLEAN /\ silence \in BOOLEAN
  /\ shown \in Event \cup {NoEvent} /\ endBy \in {"none", "socket", "poll"}
PollsTyped == asked \subseteq (1 .. MaxInFlight) \X Event /\ errors \in 0 .. MaxErrors
FeedTyped == ServerTyped /\ SocketTyped /\ HookTyped /\ PollsTyped

LEMMA FeedUnaffected ==
  ASSUME FeedTyped
  PROVE /\ UNCHANGED <<serverVars, frames>> => ServerTyped'
        /\ UNCHANGED socketVars => SocketTyped'
        /\ UNCHANGED hookVars => HookTyped'
        /\ UNCHANGED <<asked, errors>> => PollsTyped'
BY DEF FeedTyped, ServerTyped, SocketTyped, HookTyped, PollsTyped, serverVars, socketVars, hookVars

LEMMA FeedInitTyped == FeedInit => FeedTyped
<1>1. [n |-> 0, status |-> "active"] \in Event /\ 0 \in 0 .. MaxErrors
  BY BoundsAssumption DEF Event
<1>2. <<>> \in Seq(Event)
  OBVIOUS
<1> QED BY <1>1, <1>2 DEF FeedInit, FeedTyped, ServerTyped, SocketTyped, HookTyped, PollsTyped

LEMMA FeedCommits ==
  ASSUME FeedTyped, NEW w \in Writer, NEW s \in {"active", "COMPLETED", "CANCELLED"},
         s = "active" => db.n < Steps, Commit(w, s), stop' \in BOOLEAN, over' \in BOOLEAN
  PROVE FeedTyped'
<1>1. Updated(s) \in Event
  BY BoundsAssumption DEF Updated, Event, FeedTyped, ServerTyped
<1>2. ServerTyped'
  BY <1>1 DEF Commit, FeedTyped, ServerTyped
<1> QED BY <1>2, FeedUnaffected DEF Commit, FeedTyped

LEMMA FeedTyping == FeedTyped /\ [FeedNext]_feedVars => FeedTyped'
<1> SUFFICES ASSUME FeedTyped, [FeedNext]_feedVars PROVE FeedTyped'
  OBVIOUS
<1>0. stop \in BOOLEAN /\ over \in BOOLEAN /\ "worker" \in Writer /\ "api" \in Writer
  BY DEF FeedTyped, ServerTyped, Writer
<1>1. CASE Run
  BY <1>0, <1>1, FeedCommits DEF Run, RunUpdates, RunCompletes, RunStops
<1>2. CASE CancelRequested
  BY <1>0, <1>2, FeedCommits DEF CancelRequested
<1>3. CASE DocumentDeleted \/ Subscribe
  <2>1. ServerTyped'
    BY <1>3 DEF DocumentDeleted, Subscribe, FeedTyped, ServerTyped
  <2> QED BY <1>3, <2>1, FeedUnaffected DEF DocumentDeleted, Subscribe, FeedTyped
<1>4. ASSUME NEW w \in Writer, Publish(w) PROVE FeedTyped'
  <2>1. outbox[w] \in Event
    BY <1>4 DEF Publish, FeedTyped, ServerTyped
  <2>2. frames' \in Seq(Event)
    BY <1>4, <2>1 DEF Publish, FeedTyped, ServerTyped
  <2>3. ServerTyped'
    BY <1>4, <2>2 DEF Publish, FeedTyped, ServerTyped
  <2> QED BY <1>4, <2>3, FeedUnaffected DEF Publish, FeedTyped
<1>5. CASE FrameArrives
  <2>1. Head(frames) \in Event /\ frames' \in Seq(Event)
    BY <1>5 DEF FrameArrives, FeedTyped, ServerTyped
  <2>2. ServerTyped'
    BY <1>5, <2>1 DEF FrameArrives, FeedTyped, ServerTyped, serverVars
  <2>3. SocketTyped'
    BY <1>5 DEF FrameArrives, CloseSocket, FeedTyped, SocketTyped, socketVars
  <2>4. HookTyped'
    BY <1>5, <2>1 DEF FrameArrives, StopPolling, ArmSilence, End, FeedTyped, HookTyped
  <2> QED BY <1>5, <2>2, <2>3, <2>4, FeedUnaffected DEF FrameArrives, FeedTyped
<1>6. CASE SilenceFires \/ SocketDrops \/ CloseEvent
  <2>1. HookTyped'
    BY <1>6 DEF SilenceFires, SocketDrops, CloseEvent, StartPolling, MayPoll, FeedTyped, HookTyped
  <2>2. SocketTyped'
    BY <1>6 DEF SilenceFires, SocketDrops, CloseEvent, CloseSocket, FeedTyped, SocketTyped, socketVars
  <2> QED BY <1>6, <2>1, <2>2, FeedUnaffected DEF SilenceFires, SocketDrops, CloseEvent, FeedTyped
<1>7. CASE PollTick
  <2>1. PollsTyped'
    BY <1>7 DEF PollTick, FeedTyped, ServerTyped, PollsTyped
  <2> QED BY <1>7, <2>1, FeedUnaffected DEF PollTick, FeedTyped
<1>8. ASSUME NEW a \in asked, PollAnswered(a) \/ PollRefused(a) PROVE FeedTyped'
  <2>1. a[2] \in Event
    BY DEF FeedTyped, PollsTyped
  <2>2. PollsTyped'
    BY <1>8 DEF PollAnswered, PollRefused, FeedTyped, PollsTyped
  <2>3. HookTyped'
    BY <1>8, <2>1 DEF PollAnswered, PollRefused, End, StopPolling, hookVars, FeedTyped, HookTyped
  <2> QED BY <1>8, <2>2, <2>3, FeedUnaffected DEF PollAnswered, PollRefused, FeedTyped
<1>9. ASSUME NEW a \in asked, PollFails(a) PROVE FeedTyped'
  <2>1. PollsTyped'
    BY <1>9, BoundsAssumption DEF PollFails, FeedTyped, PollsTyped
  <2> QED BY <1>9, <2>1, FeedUnaffected DEF PollFails, FeedTyped
<1>10. CASE Unmount
  BY <1>10, FeedUnaffected DEF Unmount, StopPolling, CloseSocket, FeedTyped, SocketTyped, HookTyped
<1>11. CASE UNCHANGED feedVars
  BY <1>11, FeedUnaffected DEF feedVars, FeedTyped
<1> QED
  BY <1>1, <1>2, <1>3, <1>4, <1>5, <1>6, <1>7, <1>8, <1>9, <1>10, <1>11
  DEF FeedNext, Publication, Answer

(* Every variable keeps its type.                                          *)
THEOREM FeedTypeCorrect == FeedSpec => []FeedTypeOK
<1>1. FeedTyped => FeedTypeOK
  BY DEF FeedTyped, ServerTyped, SocketTyped, HookTyped, PollsTyped, FeedTypeOK
<1> QED BY FeedInitTyped, FeedTyping, <1>1, PTL DEF FeedSpec

-----------------------------------------------------------------------------
(* An end the socket delivered has closed the socket: no frame follows.    *)
SocketEndCloses == endBy = "socket" => socket = "closed"

HookInv == PollingStops /\ NeverDeaf /\ SocketEndCloses

LEMMA HookKept == FeedTyped /\ HookInv /\ [FeedNext]_feedVars => HookInv'
<1> SUFFICES ASSUME HookTyped, SocketTyped, HookInv, [FeedNext]_feedVars PROVE HookInv'
  BY DEF FeedTyped
<1> USE DEF HookTyped, SocketTyped, HookInv, PollingStops, NeverDeaf, SocketEndCloses
<1>1. CASE Run \/ CancelRequested \/ DocumentDeleted \/ Subscribe \/ Publication \/ PollTick
           \/ (\E a \in asked : PollFails(a))
  <2>1. UNCHANGED <<socketVars, hookVars>>
    BY <1>1 DEF Run, RunUpdates, RunCompletes, RunStops, CancelRequested, Commit, DocumentDeleted, Subscribe,
       Publication, Publish, PollTick, PollFails
  <2> QED BY <2>1 DEF socketVars, hookVars
<1>2. CASE FrameArrives
  BY <1>2 DEF FrameArrives, StopPolling, ArmSilence, End, CloseSocket, socketVars
<1>3. CASE SilenceFires \/ CloseEvent \/ SocketDrops
  BY <1>3 DEF SilenceFires, CloseEvent, SocketDrops, StartPolling, MayPoll, CloseSocket, socketVars
<1>4. ASSUME NEW a \in asked, PollAnswered(a) \/ PollRefused(a) PROVE HookInv'
  BY <1>4 DEF PollAnswered, PollRefused, End, StopPolling, socketVars, hookVars
<1>5. CASE Unmount
  BY <1>5 DEF Unmount, StopPolling, CloseSocket
<1>6. CASE UNCHANGED feedVars
  BY <1>6 DEF feedVars, socketVars, hookVars
<1> QED BY <1>1, <1>2, <1>3, <1>4, <1>5, <1>6 DEF FeedNext, Answer

LEMMA HookAlways == FeedSpec => [](FeedTyped /\ HookInv)
<1>1. FeedInit => HookInv
  BY DEF FeedInit, HookInv, PollingStops, NeverDeaf, SocketEndCloses
<1> QED BY FeedInitTyped, FeedTyping, <1>1, HookKept, PTL DEF FeedSpec

(* After the end, and after the page is left, nothing polls.               *)
THEOREM NoPollingAfterEnd == FeedSpec => []PollingStops
BY HookAlways, PTL DEF HookInv

(* Until the end something will make the hook ask.                         *)
THEOREM HookListens == FeedSpec => []NeverDeaf
BY HookAlways, PTL DEF HookInv

(* What the socket told last stays, but for an answer under way.           *)
THEOREM EndStaysShown == FeedSpec => EndLeftByLateAnswerOnly
<1>1. ASSUME FeedTyped, HookInv, [FeedNext]_feedVars, endBy = "socket", shown' # shown
      PROVE \E a \in asked : a \notin asked' /\ shown' = a[2]
  <2>1. socket = "closed"
    BY <1>1 DEF HookInv, SocketEndCloses
  <2>2. PICK a \in asked : PollAnswered(a)
    BY <1>1, <2>1
    DEF FeedNext, Run, RunUpdates, RunCompletes, RunStops, CancelRequested, Commit, DocumentDeleted, Subscribe,
        Publication, Publish, FrameArrives, SilenceFires, SocketDrops, CloseEvent, PollTick, PollFails, PollRefused,
        Answer, Unmount, hookVars, feedVars
  <2> QED BY <1>1, <2>2 DEF PollAnswered, hookVars
<1>2. FeedTyped /\ HookInv /\ [FeedNext]_feedVars =>
        [endBy = "socket" /\ shown' # shown => \E a \in asked : a \notin asked' /\ shown' = a[2]]_feedVars
  BY <1>1
<1> QED BY HookAlways, <1>2, PTL DEF FeedSpec, EndLeftByLateAnswerOnly
=============================================================================
