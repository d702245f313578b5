--------------------------- MODULE DocumentLibrary ---------------------------
(* What the library does with a document around its processing: upload and *)
(* duplicate detection, the browser's multiple-file upload, the stored     *)
(* files, deletion, and the regeneration of an export after an edit.       *)
(*                                                                         *)
(* The API runs as several processes (two replicas by default).  An upload *)
(* endpoint is a coroutine that awaits nothing between its duplicate check *)
(* and its commit, so one process works on one upload at a time, but those *)
(* of different processes cross, and no constraint of the database stops   *)
(* them; deletions, starts and the workers run beside them.                *)
(*                                                                         *)
(* A version of the text stands for the Document JSON, for an export that  *)
(* is rendered from it (reconstructed PDF, DOCX or XLSX) and for the size  *)
(* recorded with that export; 0 is none.                                   *)
EXTENDS Integers, FiniteSets

CONSTANTS
  Doc,         \* document ids
  Content,     \* the files users have, told apart by their hash
  Refused,     \* the files validate_upload refuses
  Task,        \* ids of regeneration tasks
  Api,         \* the API's processes
  Nothing,
  MaxAsks,     \* bound: edits of a text, requests to regenerate an export and deletions together
  MaxUploads,  \* bound: single uploads and submitted file lists together
  MaxFaults    \* bound: crashes, lost messages and answers, failed tasks

ASSUME LibraryAssumption ==
  /\ Refused \subseteq Content /\ Nothing \notin Doc \cup Content
  /\ {MaxAsks, MaxUploads, MaxFaults} \subseteq Nat

VARIABLES
  content,   \* the content of each document's original, Nothing for an unused id
  run,       \* the document's message and its processing: what it does, what it rendered
  deletion,  \* how far each document's deletion is
  original, images, \* the documents with an original and with page images in storage
  output,    \* the version of each document's export in storage
  recorded,  \* the version its ExportFile row records
  text,      \* the version of its Document JSON
  regen,     \* the regeneration tasks
  sending,   \* documents whose upload request has not sent the message yet
  request,   \* the upload each API process is at work on, checked and not committed
  browser,   \* the multiple-file upload of one browser tab
  pending,   \* the documents of the tab's batch that wait for its start
  left,      \* what remains of the bounds
  forced,    \* history: documents uploaded with force=true
  crossed,   \* history: documents whose duplicate check another upload overtook
  stranded,  \* history: documents whose message a fault prevented
  exposed,   \* history: documents deleted under a writer, or not to the end
  torn       \* history: documents whose export two writers wrote at a time, or one did not finish

docVars == <<content, deletion, original, forced, crossed>>
exportVars == <<images, output, recorded, text>>
clientVars == <<sending, request, browser, pending, stranded>>
vars == <<docVars, exportVars, clientVars, run, regen, left, exposed, torn>>

NoTask == [pc |-> "free", doc |-> Nothing, seen |-> 0, asked |-> 0, alone |-> TRUE]
NoRequest == [file |-> Nothing, from |-> "upload", overtaken |-> FALSE]

TypeOK ==
  /\ content \in [Doc -> Content \cup {Nothing}]
  /\ run \in [Doc -> [pc : {"unsent", "sent", "read", "pages", "rendered", "stored", "ended"},
                      seen : Nat]]
  /\ deletion \in [Doc -> {"no", "flagged", "gone"}]
  /\ original \subseteq Doc /\ images \subseteq Doc
  /\ {output, recorded, text} \subseteq [Doc -> Nat]
  /\ regen \in [Task -> [pc : {"free", "queued", "rendered", "stored"},
                         doc : Doc \cup {Nothing}, seen : Nat, asked : Nat, alone : BOOLEAN]]
  /\ browser \in [pc : {"idle", "adding"}, todo : SUBSET Content,
                  added : BOOLEAN]
  /\ request \in [Api -> [file : Content \cup {Nothing}, from : {"upload", "tab", "gone"},
                           overtaken : BOOLEAN]]
  /\ {sending, pending, forced, crossed, stranded, exposed, torn} \subseteq SUBSET Doc
  /\ pending # {} => browser.pc # "idle"
  /\ left \in [{"asks", "uploads", "faults"} -> Nat]

Init ==
  /\ content = [d \in Doc |-> Nothing]
  /\ run = [d \in Doc |-> [pc |-> "unsent", seen |-> 0]]
  /\ deletion = [d \in Doc |-> "no"]
  /\ original = {} /\ images = {}
  /\ output = [d \in Doc |-> 0] /\ recorded = output /\ text = output
  /\ regen = [t \in Task |-> NoTask]
  /\ browser = [pc |-> "idle", todo |-> {}, added |-> FALSE]
  /\ request = [p \in Api |-> NoRequest]
  /\ sending = {} /\ pending = {} /\ forced = {} /\ crossed = {} /\ stranded = {} /\ exposed = {} /\ torn = {}
  /\ left = [asks |-> MaxAsks, uploads |-> MaxUploads, faults |-> MaxFaults]

Spend(what) == left[what] > 0 /\ left' = [left EXCEPT ![what] = @ - 1]
Live(d) == content[d] # Nothing /\ deletion[d] = "no"

-----------------------------------------------------------------------------
(* Mutants: plausible bugs that the run's properties must detect           *)
FoundWhenProcessed(c) == {d \in Doc : Live(d) /\ content[d] = c /\ run[d].pc = "ended"}
FoundOrDeleted(d) == content[d] # Nothing
AbortOnRefusal(c, took) ==
  browser' = IF took THEN [browser EXCEPT !.todo = @ \ {c}, !.added = TRUE]
             ELSE [browser EXCEPT !.todo = {}, !.added = FALSE]
RowKept(d, version) == recorded' = [recorded EXCEPT ![d] = IF @ = 0 THEN version ELSE @]
FileKept(d, version) == output' = [output EXCEPT ![d] = IF @ = 0 THEN version ELSE @]

-----------------------------------------------------------------------------
(* Upload                                                                  *)

FindDocumentByHash(c) == {d \in Doc : Live(d) /\ content[d] = c}

(* The original is stored and the document committed as QUEUED with a job. *)
StoreDocument(c, d) ==
  /\ content[d] = Nothing
  /\ content' = [content EXCEPT ![d] = c]
  /\ original' = original \cup {d}

(* The handler has looked for duplicates and goes on to create a document. *)
(* A duplicate is answered with the document that exists, a file that is   *)
(* refused with an error.                                                  *)
Checked(p, c, from) ==
  /\ request[p] = NoRequest
  /\ c \notin Refused /\ FindDocumentByHash(c) = {}
  /\ request' = [request EXCEPT ![p] = [file |-> c, from |-> from, overtaken |-> FALSE]]

(* It commits whatever the other processes have committed since the check. *)
CreateDocument(p, d) ==
  LET mine == request[p]
  IN /\ mine.file # Nothing /\ StoreDocument(mine.file, d)
     /\ crossed' = IF mine.overtaken THEN crossed \cup {d} ELSE crossed
     /\ request' = [q \in Api |-> IF q = p THEN NoRequest
                                  ELSE IF request[q].file = mine.file THEN [request[q] EXCEPT !.overtaken = TRUE]
                                  ELSE request[q]]

UploadChecked(p, c) ==
  /\ Checked(p, c, "upload") /\ Spend("uploads")
  /\ UNCHANGED <<docVars, exportVars, run, regen, sending, browser, pending, stranded, exposed, torn>>

UploadDocument(p, d) ==
  /\ request[p].from = "upload" /\ CreateDocument(p, d)
  /\ sending' = sending \cup {d}
  /\ UNCHANGED <<exportVars, run, deletion, forced, regen, browser, pending, stranded, left, exposed, torn>>

(* With force=true nothing is looked up before the commit.                 *)
UploadForced(p, c, d) ==
  /\ request[p] = NoRequest /\ c \notin Refused /\ Spend("uploads")
  /\ StoreDocument(c, d)
  /\ forced' = forced \cup {d}
  /\ sending' = sending \cup {d}
  /\ UNCHANGED <<exportVars, run, deletion, crossed, regen, request, browser, pending, stranded, exposed, torn>>

SendTask(d) ==
  /\ d \in sending
  /\ sending' = sending \ {d}
  /\ run' = [run EXCEPT ![d].pc = "sent"]
  /\ UNCHANGED <<docVars, exportVars, regen, request, browser, pending, stranded, left, exposed, torn>>

(* The broker is down: 500, and the committed document stays.              *)
SendFails(d) ==
  /\ d \in sending /\ Spend("faults")
  /\ sending' = sending \ {d}
  /\ stranded' = stranded \cup {d}
  /\ UNCHANGED <<docVars, exportVars, run, regen, request, browser, pending, exposed, torn>>

-----------------------------------------------------------------------------
(* The browser's batch: create, add each file, start                       *)

Submit(files) ==
  /\ browser.pc = "idle" /\ Spend("uploads") /\ files # {}
  /\ browser' = [pc |-> "adding", todo |-> files, added |-> FALSE]
  /\ UNCHANGED <<docVars, exportVars, run, regen, sending, request, pending, stranded, exposed, torn>>

(* A file that is refused, or whose answer is lost, is skipped and the     *)
(* rest goes on; a duplicate counts as added.                              *)
FileDone(c, took) == browser' = [browser EXCEPT !.todo = @ \ {c}, !.added = @ \/ took]

(* The tab sends one file at a time.                                       *)
NextFile(c) ==
  browser.pc = "adding" /\ c \in browser.todo /\ \A p \in Api : request[p].from # "tab"

AddDuplicate(c) ==
  /\ NextFile(c) /\ FindDocumentByHash(c) # {}
  /\ FileDone(c, TRUE)
  /\ UNCHANGED <<docVars, exportVars, run, regen, sending, request, pending, stranded, left, exposed, torn>>

AddRefused(c) ==
  /\ NextFile(c) /\ c \in Refused
  /\ FileDone(c, FALSE)
  /\ UNCHANGED <<docVars, exportVars, run, regen, sending, request, pending, stranded, left, exposed, torn>>

AddChecked(p, c) ==
  /\ NextFile(c) /\ Checked(p, c, "tab")
  /\ UNCHANGED <<docVars, exportVars, run, regen, sending, browser, pending, stranded, left, exposed, torn>>

AddFile(p, d) ==
  /\ request[p].from = "tab" /\ CreateDocument(p, d)
  /\ pending' = pending \cup {d}
  /\ FileDone(request[p].file, TRUE)
  /\ UNCHANGED <<exportVars, run, deletion, forced, regen, sending, stranded, left, exposed, torn>>

(* The item is committed and its answer does not arrive; when no other     *)
(* file is added, the batch is not started.                                *)
AnswerLost(p, d) ==
  /\ request[p].from = "tab" /\ CreateDocument(p, d) /\ Spend("faults")
  /\ pending' = pending \cup {d}
  /\ stranded' = stranded \cup {d}
  /\ FileDone(request[p].file, FALSE)
  /\ UNCHANGED <<exportVars, run, deletion, forced, regen, sending, exposed, torn>>

(* The document is committed and its batch item is not.                    *)
AddFileDies(p, d) ==
  /\ request[p].from = "tab" /\ CreateDocument(p, d) /\ Spend("faults")
  /\ stranded' = stranded \cup {d}
  /\ FileDone(request[p].file, FALSE)
  /\ UNCHANGED <<exportVars, run, deletion, forced, regen, sending, pending, exposed, torn>>

(* The handler goes on when the tab is closed: the item joins a batch that *)
(* nobody starts.                                                          *)
AddForNobody(p, d) ==
  /\ request[p].from = "gone" /\ CreateDocument(p, d)
  /\ stranded' = stranded \cup {d}
  /\ UNCHANGED <<exportVars, run, deletion, forced, regen, sending, browser, pending, left, exposed, torn>>

(* The process dies, or storage refuses the file: nothing is committed.    *)
RequestFails(p) ==
  /\ request[p] # NoRequest /\ Spend("faults")
  /\ request' = [request EXCEPT ![p] = NoRequest]
  /\ IF request[p].from = "tab" THEN FileDone(request[p].file, FALSE) ELSE UNCHANGED browser
  /\ UNCHANGED <<docVars, exportVars, run, regen, sending, pending, stranded, exposed, torn>>

AllSent == browser.pc = "adding" /\ browser.todo = {}
BatchOver == pending' = {}
Leave == browser' = [pc |-> "idle", todo |-> {}, added |-> FALSE]

(* Every pending item is queued and a slot task sent for it.               *)
StartBatch ==
  /\ AllSent /\ browser.added
  /\ run' = [d \in Doc |-> IF d \in pending THEN [run[d] EXCEPT !.pc = "sent"] ELSE run[d]]
  /\ BatchOver /\ Leave
  /\ UNCHANGED <<docVars, exportVars, regen, sending, request, stranded, left, exposed, torn>>

(* revert_start: the items are pending again.  The page only offers to     *)
(* submit the files once more, which makes a new batch.                    *)
StartFails ==
  /\ AllSent /\ browser.added /\ Spend("faults")
  /\ stranded' = stranded \cup pending
  /\ BatchOver /\ Leave
  /\ UNCHANGED <<docVars, exportVars, run, regen, sending, request, exposed, torn>>

(* "None of the files could be added": the batch is never started.         *)
NothingAdded ==
  /\ AllSent /\ ~browser.added
  /\ BatchOver /\ Leave
  /\ UNCHANGED <<docVars, exportVars, run, regen, sending, request, stranded, left, exposed, torn>>

TabCloses ==
  /\ browser.pc = "adding" /\ Spend("faults")
  /\ stranded' = stranded \cup pending
  /\ request' = [p \in Api |-> IF request[p].from = "tab" THEN [request[p] EXCEPT !.from = "gone"]
                               ELSE request[p]]
  /\ BatchOver /\ Leave
  /\ UNCHANGED <<docVars, exportVars, run, regen, sending, exposed, torn>>

-----------------------------------------------------------------------------
(* Writers of an export: the pipeline's run and the regeneration tasks     *)

RunWrites(d) == run[d].pc \in {"rendered", "stored"}
TasksWriting(d) == {t \in Task : regen[t].doc = d /\ regen[t].pc \in {"rendered", "stored"}}

StoreExport(d, version) == output' = [output EXCEPT ![d] = version]

(* The row of the export is updated in place, or created.                  *)
RecordExportFile(d, version) == recorded' = [recorded EXCEPT ![d] = version]

(* The run fails when the original is gone; it never asks whether the      *)
(* document was deleted.                                                   *)
StartRun(d) ==
  /\ run[d].pc = "sent"
  /\ run' = [run EXCEPT ![d].pc = IF d \in original THEN "read" ELSE "ended"]
  /\ exposed' = IF d \in original /\ ~Live(d) THEN exposed \cup {d} ELSE exposed
  /\ UNCHANGED <<docVars, exportVars, clientVars, regen, left, torn>>

PersistPages(d) ==
  /\ run[d].pc = "read"
  /\ run' = [run EXCEPT ![d].pc = "pages"]
  /\ images' = images \cup {d} /\ text' = [text EXCEPT ![d] = 1]
  /\ UNCHANGED <<docVars, clientVars, output, recorded, regen, left, exposed, torn>>

RenderRun(d) ==
  /\ run[d].pc = "pages"
  /\ run' = [run EXCEPT ![d] = [pc |-> "rendered", seen |-> text[d]]]
  /\ torn' = IF TasksWriting(d) # {} THEN torn \cup {d} ELSE torn
  /\ regen' = [t \in Task |-> IF t \in TasksWriting(d) THEN [regen[t] EXCEPT !.alone = FALSE]
                              ELSE regen[t]]
  /\ UNCHANGED <<docVars, exportVars, clientVars, left, exposed>>

StoreOfRun(d) ==
  /\ run[d].pc = "rendered"
  /\ StoreExport(d, run[d].seen)
  /\ run' = [run EXCEPT ![d].pc = "stored"]
  /\ UNCHANGED <<docVars, clientVars, images, recorded, text, regen, left, exposed, torn>>

RecordOfRun(d) ==
  /\ run[d].pc = "stored"
  /\ RecordExportFile(d, run[d].seen)
  /\ run' = [run EXCEPT ![d] = [pc |-> "ended", seen |-> 0]]
  /\ UNCHANGED <<docVars, clientVars, images, output, text, regen, left, exposed, torn>>

RunFails(d) ==
  /\ run[d].pc \in {"read", "pages", "rendered", "stored"} /\ Spend("faults")
  /\ run' = [run EXCEPT ![d] = [pc |-> "ended", seen |-> 0]]
  /\ torn' = IF run[d].pc = "stored" THEN torn \cup {d} ELSE torn
  /\ UNCHANGED <<docVars, exportVars, clientVars, regen, exposed>>

(* update_layout_block and the other edits, once the pages exist.          *)
EditText(d) ==
  /\ Live(d) /\ text[d] > 0 /\ Spend("asks")
  /\ text' = [text EXCEPT ![d] = @ + 1]
  /\ UNCHANGED <<docVars, clientVars, images, output, recorded, run, regen, exposed, torn>>

DispatchExport(t, d) ==
  /\ regen[t].pc = "free" /\ Live(d) /\ Spend("asks")
  /\ regen' = [regen EXCEPT ![t] = [NoTask EXCEPT !.pc = "queued", !.doc = d, !.asked = text[d]]]
  /\ UNCHANGED <<docVars, exportVars, clientVars, run, exposed, torn>>

(* The task ends.  A result with an error is a SUCCESS to Celery and to    *)
(* the page as well.                                                       *)
TaskEnds(t) == regen' = [regen EXCEPT ![t] = NoTask]

Found(d) == Live(d)

(* The task loads the document and the stored JSON and renders the export. *)
TaskRefused(t) ==
  /\ regen[t].pc = "queued" /\ (~Found(regen[t].doc) \/ text[regen[t].doc] = 0)
  /\ TaskEnds(t)
  /\ UNCHANGED <<docVars, exportVars, clientVars, run, left, exposed, torn>>

RenderTask(t) ==
  /\ regen[t].pc = "queued" /\ Found(regen[t].doc) /\ text[regen[t].doc] > 0
  /\ LET d == regen[t].doc
         others == TasksWriting(d)
         alone == others = {} /\ ~RunWrites(d)
     IN /\ regen' = [u \in Task |->
                       IF u = t THEN [regen[t] EXCEPT !.pc = "rendered", !.seen = text[d], !.alone = alone]
                       ELSE IF u \in others THEN [regen[u] EXCEPT !.alone = FALSE] ELSE regen[u]]
        /\ torn' = IF alone THEN torn ELSE torn \cup {d}
  /\ UNCHANGED <<docVars, exportVars, clientVars, run, left, exposed>>

StoreOfTask(t) ==
  /\ regen[t].pc = "rendered"
  /\ StoreExport(regen[t].doc, regen[t].seen)
  /\ regen' = [regen EXCEPT ![t].pc = "stored"]
  /\ UNCHANGED <<docVars, clientVars, images, recorded, text, run, left, exposed, torn>>

RecordOfTask(t) ==
  /\ regen[t].pc = "stored"
  /\ RecordExportFile(regen[t].doc, regen[t].seen)
  /\ TaskEnds(t)
  /\ torn' = IF regen[t].alone THEN torn \ {regen[t].doc} ELSE torn
  /\ UNCHANGED <<docVars, clientVars, images, output, text, run, left, exposed>>

Working(t) == regen[t].pc \in {"rendered", "stored"}
HalfDone(t) == IF regen[t].pc = "stored" THEN torn \cup {regen[t].doc} ELSE torn

TaskFails(t) ==
  /\ Working(t) /\ Spend("faults")
  /\ TaskEnds(t) /\ torn' = HalfDone(t)
  /\ UNCHANGED <<docVars, exportVars, clientVars, run, exposed>>

(* The message was not acknowledged and is delivered once more.            *)
ExportWorkerDies(t) ==
  /\ Working(t) /\ Spend("faults")
  /\ regen' = [regen EXCEPT ![t].pc = "queued", ![t].seen = 0, ![t].alone = TRUE]
  /\ torn' = HalfDone(t)
  /\ UNCHANGED <<docVars, exportVars, clientVars, run, exposed>>

-----------------------------------------------------------------------------
(* Deletion: the flag, then the four prefixes of the storage.  Once the    *)
(* original, the first of them, is gone no run begins, so the four are     *)
(* removed in one step here; DeleteDies leaves what was not removed yet.   *)

SoftDelete(d) ==
  /\ Live(d) /\ Spend("asks")
  /\ deletion' = [deletion EXCEPT ![d] = "flagged"]
  /\ exposed' = IF \/ run[d].pc \in {"read", "pages", "rendered", "stored"}
                   \/ \E t \in Task : regen[t].doc = d /\ Working(t)
                  THEN exposed \cup {d} ELSE exposed
  /\ UNCHANGED <<content, original, forced, crossed, exportVars, clientVars, run, regen, torn>>

DeletePrefixes(d) ==
  /\ deletion[d] = "flagged"
  /\ deletion' = [deletion EXCEPT ![d] = "gone"]
  /\ original' = original \ {d}
  /\ images' = images \ {d}
  /\ output' = [output EXCEPT ![d] = 0]
  /\ UNCHANGED <<content, forced, crossed, recorded, text, clientVars, run, regen, left, exposed, torn>>

(* A second DELETE is answered 404: nobody deletes the rest.               *)
DeleteDies(d) ==
  /\ deletion[d] = "flagged" /\ Spend("faults")
  /\ deletion' = [deletion EXCEPT ![d] = "gone"]
  /\ original' \in {original, original \ {d}}
  /\ exposed' = exposed \cup {d}
  /\ UNCHANGED <<content, forced, crossed, exportVars, clientVars, run, regen, torn>>

Upload(p, d) ==
  \/ UploadDocument(p, d) \/ \E c \in Content : UploadForced(p, c, d)
  \/ AddFile(p, d) \/ AnswerLost(p, d) \/ AddFileDies(p, d) \/ AddForNobody(p, d)

Server(p) ==
  \/ \E c \in Content : UploadChecked(p, c) \/ AddChecked(p, c)
  \/ \E d \in Doc : Upload(p, d)
  \/ RequestFails(p)

Client ==
  \/ \E files \in SUBSET Content : Submit(files)
  \/ \E c \in Content : AddDuplicate(c) \/ AddRefused(c)
  \/ StartBatch \/ StartFails \/ NothingAdded \/ TabCloses

Document(d) ==
  \/ SendTask(d) \/ SendFails(d)
  \/ StartRun(d) \/ PersistPages(d) \/ RenderRun(d) \/ StoreOfRun(d) \/ RecordOfRun(d)
  \/ RunFails(d) \/ EditText(d)
  \/ SoftDelete(d) \/ DeletePrefixes(d) \/ DeleteDies(d)

Regeneration(t) ==
  \/ \E d \in Doc : DispatchExport(t, d)
  \/ TaskRefused(t) \/ RenderTask(t) \/ StoreOfTask(t) \/ RecordOfTask(t)
  \/ TaskFails(t) \/ ExportWorkerDies(t)

Next ==
  \/ \E p \in Api : Server(p)
  \/ Client
  \/ \E d \in Doc : Document(d)
  \/ \E t \in Task : Regeneration(t)

Spec == Init /\ [][Next]_vars

-----------------------------------------------------------------------------
(* Two documents of the library have the same content only if one of them  *)
(* was uploaded with force=true, or was committed by one process while     *)
(* another was between its duplicate check and its own commit: whatever    *)
(* uploads, batches and deletions come between, only such a crossing makes *)
(* a duplicate nobody asked for.                                           *)
NoTwoLiveDuplicates ==
  \A d, e \in Doc : d # e /\ Live(d) /\ Live(e) /\ content[d] = content[e] =>
    {d, e} \cap (forced \cup crossed) # {}

(* A document that nothing will ever process is the work of a fault: a     *)
(* message that could not be sent, a batch that could not be started, a    *)
(* tab closed half-way or while a file was added.  Refused files and duplicates strand nothing.      *)
StrandedOnlyByFault ==
  \A d \in Doc : Live(d) /\ run[d].pc = "unsent" => d \in sending \cup pending \cup stranded

(* Nothing of a deleted document stays in storage, unless a writer was at  *)
(* work on it when it was deleted or the deletion itself broke off.        *)
DeletedLeavesNoFiles ==
  \A d \in Doc \ exposed :
    deletion[d] = "gone" => d \notin original \cup images /\ output[d] = 0

(* When a regeneration succeeds, which is what its page waits for, the     *)
(* stored export holds every edit made before the button was pressed,      *)
(* unless another writer of the same export overlapped: then the older     *)
(* text may win.                                                           *)
RegeneratedHoldsEdits ==
  [][\A t \in Task : RecordOfTask(t) /\ regen[t].alone /\ Live(regen[t].doc) =>
       output[regen[t].doc] >= regen[t].asked]_vars

(* At rest the ExportFile row describes the stored file, unless two        *)
(* writers overlapped or one broke off between the two writes and no later *)
(* one has repaired it.                                                    *)
RecordMatchesFile ==
  \A d \in Doc \ torn :
    Live(d) /\ ~RunWrites(d) /\ TasksWriting(d) = {} => recorded[d] = output[d]
=============================================================================
