---------------------------- MODULE BackgroundRuns ----------------------------
(***************************************************************************)
(* Work done in the background: the supplier-invoice import, the preview   *)
(* of a price-bulletin PDF and the printing of purchase orders.  A request *)
(* creates a BackgroundJobRun, stores its input as a JobArtifact and puts  *)
(* a job on the queue; a worker marks the run PROCESSING, writes the       *)
(* output artifact and marks the run.  The preview of a bulletin may then  *)
(* be corrected line by line.                                              *)
(*                                                                         *)
(* A request may stop between two of its steps; a handler may throw, the   *)
(* database may refuse a mark and a worker may die.  Every queue.add makes *)
(* a new job: enqueueRun passes no job id.                                 *)
(***************************************************************************)
EXTENDS Integers, FiniteSets

CONSTANTS
    JobRuns,       \* ids of runs; each stands for the request that makes it too
    Pdfs,          \* file contents, told apart by their checksum
    JobWorkers,
    PreviewRows,   \* lines of a preview
    Editors,       \* requests that correct a preview at the same time
    JobFaults,     \* subset of {"handler", "mark", "worker"}
    Nobody

ASSUME JobFaultsAssumption == JobFaults \subseteq {"handler", "mark", "worker"}
ASSUME JobRunsAssumption == IsFiniteSet(JobRuns)
ASSUME NobodyAssumption == Nobody \notin JobRuns \cup Pdfs \cup PreviewRows

VARIABLES
    request,       \* how far the HTTP request of each run has come
    bgRun,         \* the BackgroundJobRun table
    input,         \* the input artifact of each run
    output,        \* the output artifact of each run
    bgJob,         \* the queue's job of each run
    bgWorker,
    editor,        \* each correction of a preview: between reading and writing it
    saved,         \* history: the lines corrected while no other correction was under way
    markLost       \* history: the runs a mark of which threw since their job was last taken

bgVars == <<request, bgRun, input, output, bgJob, bgWorker, editor, saved, markLost>>

JobTypes == {"invoice", "price", "print"}
NoInput == [at |-> 0, drive |-> FALSE]
NoOutput == [written |-> FALSE, drive |-> FALSE, warned |-> FALSE, edits |-> {}]
IdleWorker == [pc |-> "idle", run |-> Nobody, found |-> FALSE, drive |-> FALSE]
IdleEditor == [run |-> Nobody, row |-> Nobody, edits |-> {}]

BgInit ==
    /\ request = [r \in JobRuns |-> "none"]
    /\ bgRun = [r \in JobRuns |-> [status |-> "ABSENT", type |-> "print", file |-> Nobody]]
    /\ input = [r \in JobRuns |-> NoInput]
    /\ output = [r \in JobRuns |-> NoOutput]
    /\ bgJob = [r \in JobRuns |-> [state |-> "none", failures |-> 0, stalls |-> 0]]
    /\ bgWorker = [w \in JobWorkers |-> IdleWorker]
    /\ editor = [e \in Editors |-> IdleEditor]
    /\ saved = [r \in JobRuns |-> {}]
    /\ markLost = {}

\* attempts of the queue profile: 'pdf_parse', or the default of 5.
AttemptsOf(type) == IF type = "print" THEN 5 ELSE 2

-----------------------------------------------------------------------------
(* Requests.                                                                *)

\* findExistingFileByChecksum: the newest input artifact with this checksum.
WithChecksum(f) == {r \in JobRuns : input[r].at > 0 /\ bgRun[r].type = "invoice" /\ bgRun[r].file = f}
Newest(rs) == CHOOSE r \in rs : \A s \in rs : input[s].at <= input[r].at
ExistingFile(f) == input[Newest(WithChecksum(f))]

\* importPdf of a file of at most 2 MB that was not stored before uploads it at
\* once; one that was stored before is answered without writing anything.
ImportFast(r, f) ==
    /\ request[r] = "none"
    /\ WithChecksum(f) = {}
    /\ request' = [request EXCEPT ![r] = "upload"]
    /\ bgRun' = [bgRun EXCEPT ![r].type = "invoice", ![r].file = f]
    /\ UNCHANGED <<input, output, bgJob, bgWorker, editor, saved, markLost>>

\* The upload or the parser threw: the import falls back to the queue.
FallBack(r) ==
    /\ request[r] = "upload"
    /\ request' = [request EXCEPT ![r] = "create"]
    /\ UNCHANGED <<bgRun, input, output, bgJob, bgWorker, editor, saved, markLost>>

\* importPdf of a large file, startImportPreview, createPrintBatch.
StartRun(r, type, f) ==
    /\ request[r] = "none"
    /\ request' = [request EXCEPT ![r] = "create"]
    /\ bgRun' = [bgRun EXCEPT ![r].type = type, ![r].file = f]
    /\ UNCHANGED <<input, output, bgJob, bgWorker, editor, saved, markLost>>

CreateBgRun(r) ==
    /\ request[r] \in {"upload", "create"}
    /\ bgRun' = [bgRun EXCEPT ![r].status = "PENDING"]
    /\ request' = [request EXCEPT ![r] = IF @ = "upload" THEN "storeFile" ELSE "storeInput"]
    /\ UNCHANGED <<input, output, bgJob, bgWorker, editor, saved, markLost>>

\* The file itself goes into the artifact of an import that was not uploaded;
\* an uploaded one is done, its run is never put on a queue nor marked.
StoreInput(r) ==
    /\ request[r] \in {"storeFile", "storeInput"}
    /\ input' = [input EXCEPT ![r] = [at |-> 1 + Cardinality({s \in JobRuns : input[s].at > 0}),
                                      drive |-> request[r] = "storeFile"]]
    /\ request' = [request EXCEPT ![r] = IF @ = "storeFile" THEN "done" ELSE "enqueue"]
    /\ UNCHANGED <<bgRun, output, bgJob, bgWorker, editor, saved, markLost>>

EnqueueRun(r) ==
    /\ request[r] = "enqueue"
    /\ bgJob' = [bgJob EXCEPT ![r].state = "waiting"]
    /\ request' = [request EXCEPT ![r] = "done"]
    /\ UNCHANGED <<bgRun, input, output, bgWorker, editor, saved, markLost>>

-----------------------------------------------------------------------------
(* Workers: handleWorkerJob of the three services.                          *)

Takes(w, r) ==
    /\ bgWorker[w].pc = "idle"
    /\ bgJob[r].state = "waiting"
    /\ bgJob' = [bgJob EXCEPT ![r].state = "active"]
    /\ UNCHANGED <<request, input, output, editor, saved>>

TakeRun(w, r) ==
    /\ Takes(w, r)
    /\ bgRun' = [bgRun EXCEPT ![r].status = "PROCESSING"]
    /\ bgWorker' = [bgWorker EXCEPT ![w] = [IdleWorker EXCEPT !.pc = "read", !.run = r]]
    /\ markLost' = markLost \ {r}

\* markProcessing stands before the try: when it throws, the job throws and
\* the run stays as it was.
TakeRunUnmarked(w, r) ==
    /\ "mark" \in JobFaults
    /\ Takes(w, r)
    /\ bgWorker' = [bgWorker EXCEPT ![w] = [IdleWorker EXCEPT !.pc = "throw", !.run = r]]
    /\ markLost' = markLost \cup {r}
    /\ UNCHANGED bgRun

\* The invoice handler looks for the file by its checksum and finds at least
\* the input it was given itself.
LookedUp(r) ==
    IF bgRun[r].type = "invoice" /\ WithChecksum(bgRun[r].file) # {}
    THEN [found |-> TRUE, drive |-> ExistingFile(bgRun[r].file).drive]
    ELSE [found |-> FALSE, drive |-> bgRun[r].type = "invoice"]

ReadInputOnly(w) ==
    /\ bgWorker[w].pc = "read"
    /\ bgWorker' = [bgWorker EXCEPT ![w].pc = "mark"]
    /\ UNCHANGED <<request, bgRun, input, output, bgJob, editor, saved, markLost>>
ReadInput(w) ==
    LET r == bgWorker[w].run
    IN  /\ bgWorker[w].pc = "read"
        /\ bgWorker' = [bgWorker EXCEPT ![w] =
              [pc |-> IF input[r].at = 0 THEN "catch" ELSE "write", run |-> r,
               found |-> LookedUp(r).found, drive |-> LookedUp(r).drive]]
        /\ UNCHANGED <<request, bgRun, input, output, bgJob, editor, saved, markLost>>

\* upsertArtifact: a preview written before, and corrected, is written over.
WriteOutput(w) ==
    LET r == bgWorker[w].run
    IN  /\ bgWorker[w].pc = "write"
        /\ output' = [output EXCEPT ![r] = [written |-> TRUE, drive |-> bgWorker[w].drive,
                                            warned |-> bgWorker[w].found, edits |-> {}]]
        /\ bgWorker' = [bgWorker EXCEPT ![w].pc = "mark"]
        /\ UNCHANGED <<request, bgRun, input, bgJob, editor, saved, markLost>>

MarkRunSuccess(w) ==
    /\ bgWorker[w].pc = "mark"
    /\ bgRun' = [bgRun EXCEPT ![bgWorker[w].run].status = "SUCCESS"]
    /\ bgWorker' = [bgWorker EXCEPT ![w].pc = "return"]
    /\ UNCHANGED <<request, input, output, bgJob, editor, saved, markLost>>

HandlerThrows(w) ==
    /\ "handler" \in JobFaults
    /\ bgWorker[w].pc \in {"read", "write", "mark"}
    /\ bgWorker' = [bgWorker EXCEPT ![w].pc = "catch"]
    /\ UNCHANGED <<request, bgRun, input, output, bgJob, editor, saved, markLost>>

\* browser.close, in the finally of a print, throws after the run was marked.
CloseThrows(w) ==
    /\ "handler" \in JobFaults
    /\ bgWorker[w].pc = "return"
    /\ bgRun[bgWorker[w].run].type = "print"
    /\ bgWorker' = [bgWorker EXCEPT ![w].pc = "throw"]
    /\ UNCHANGED <<request, bgRun, input, output, bgJob, editor, saved, markLost>>

\* The catch block throws again, but for an invoice: that job just returns.
Swallows(type) == type = "invoice"

MarkRunFailed(w) ==
    LET r == bgWorker[w].run
    IN  /\ bgWorker[w].pc = "catch"
        /\ bgRun' = [bgRun EXCEPT ![r].status = "FAILED"]
        /\ bgWorker' = [bgWorker EXCEPT ![w].pc = IF Swallows(bgRun[r].type) THEN "return" ELSE "throw"]
        /\ UNCHANGED <<request, input, output, bgJob, editor, saved, markLost>>

\* markFailed throws in the catch, of an invoice too: the run stays PROCESSING.
MarkFailedThrows(w) ==
    /\ "mark" \in JobFaults
    /\ bgWorker[w].pc = "catch"
    /\ bgWorker' = [bgWorker EXCEPT ![w].pc = "throw"]
    /\ markLost' = markLost \cup {bgWorker[w].run}
    /\ UNCHANGED <<request, bgRun, input, output, bgJob, editor, saved>>

JobReturns(w) ==
    /\ bgWorker[w].pc = "return"
    /\ bgJob' = [bgJob EXCEPT ![bgWorker[w].run].state = "completed"]
    /\ bgWorker' = [bgWorker EXCEPT ![w] = IdleWorker]
    /\ UNCHANGED <<request, bgRun, input, output, editor, saved, markLost>>

RequeuedUncounted(j, type) == [j EXCEPT !.state = "waiting"]
Requeued(j, type) ==
    [j EXCEPT !.failures = @ + 1,
              !.state = IF j.failures + 1 < AttemptsOf(type) THEN "waiting" ELSE "failed"]

JobThrows(w) ==
    LET r == bgWorker[w].run
    IN  /\ bgWorker[w].pc = "throw"
        /\ bgJob' = [bgJob EXCEPT ![r] = Requeued(@, bgRun[r].type)]
        /\ bgWorker' = [bgWorker EXCEPT ![w] = IdleWorker]
        /\ UNCHANGED <<request, bgRun, input, output, editor, saved, markLost>>

\* A job whose worker died is taken back once, then failed.
Lost(j) == [j EXCEPT !.stalls = @ + 1, !.state = IF j.stalls = 0 THEN "waiting" ELSE "failed"]

JobWorkerDies(w) ==
    LET r == bgWorker[w].run
    IN  /\ "worker" \in JobFaults
        /\ bgWorker[w].pc # "idle"
        /\ bgJob' = [bgJob EXCEPT ![r] = Lost(@)]
        /\ bgWorker' = [bgWorker EXCEPT ![w] = IdleWorker]
        /\ UNCHANGED <<request, bgRun, input, output, editor, saved, markLost>>

-----------------------------------------------------------------------------
(* updatePreviewLine: the artifact is read, changed and written as a whole. *)

ReadPreview(e, r, row) ==
    /\ editor[e] = IdleEditor
    /\ bgRun[r].type = "price" /\ output[r].written
    /\ editor' = [editor EXCEPT ![e] = [run |-> r, row |-> row, edits |-> output[r].edits]]
    /\ UNCHANGED <<request, bgRun, input, output, bgJob, bgWorker, saved, markLost>>

CorrectedOnlyHere(edits, row) == {row}
Corrected(edits, row) == edits \cup {row}

WritePreview(e) ==
    LET r == editor[e].run
        others == {d \in Editors \ {e} : editor[d].run = r}
    IN  /\ editor[e] # IdleEditor
        /\ output' = [output EXCEPT ![r].edits = Corrected(editor[e].edits, editor[e].row)]
        /\ saved' = [saved EXCEPT ![r] = IF others = {} THEN @ \cup {editor[e].row} ELSE @]
        /\ editor' = [editor EXCEPT ![e] = IdleEditor]
        /\ UNCHANGED <<request, bgRun, input, bgJob, bgWorker, markLost>>

-----------------------------------------------------------------------------
RequestStep(r) ==
    \/ \E f \in Pdfs : ImportFast(r, f)
    \/ FallBack(r)
    \/ \E type \in JobTypes, f \in Pdfs : StartRun(r, type, f)
    \/ CreateBgRun(r)
    \/ StoreInput(r)
    \/ EnqueueRun(r)

WorkerStep(w) ==
    \/ \E r \in JobRuns : TakeRun(w, r) \/ TakeRunUnmarked(w, r)
    \/ ReadInput(w)
    \/ WriteOutput(w)
    \/ MarkRunSuccess(w)
    \/ HandlerThrows(w)
    \/ CloseThrows(w)
    \/ MarkRunFailed(w)
    \/ MarkFailedThrows(w)
    \/ JobReturns(w)
    \/ JobThrows(w)

EditStep(e) == WritePreview(e) \/ \E r \in JobRuns, row \in PreviewRows : ReadPreview(e, r, row)

BgNext ==
    \/ \E r \in JobRuns : RequestStep(r)
    \/ \E w \in JobWorkers : WorkerStep(w) \/ JobWorkerDies(w)
    \/ \E e \in Editors : EditStep(e)

BgSpec == BgInit /\ [][BgNext]_bgVars

-----------------------------------------------------------------------------
(* Properties                                                              *)

\* The row of a run, which clients poll (getImportStatus, getPrintStatus), tells
\* how it went, after any number of failed attempts and lost workers: SUCCESS
\* never announces an output that is missing, a run whose job is completed is
\* marked and, an invoice's excepted, whose handler hides its failure, succeeded,
\* and one whose job failed is marked, unless two workers died on it or the
\* database refused a mark of its last attempt.
RunsAreMarked ==
    \A r \in JobRuns :
        /\ bgRun[r].status = "SUCCESS" => output[r].written
        /\ \/ bgJob[r].state = "completed"
           \/ bgJob[r].state = "failed" /\ bgJob[r].stalls < 2 /\ r \notin markLost
           => bgRun[r].status \in {"SUCCESS", "FAILED"}
        /\ bgJob[r].state = "completed" /\ bgRun[r].type # "invoice" => bgRun[r].status = "SUCCESS"

\* A correction of a preview that was answered with success while no other was
\* under way is still there, however later ones overlap, unless the run was
\* delivered a second time.  Of corrections that overlap the last to write
\* undoes the others, and a redelivered job writes the preview over:
\* updatePreviewLine looks neither at what it overwrites nor at the run's status.
CorrectionsSurvive ==
    \A r \in JobRuns :
        bgJob[r].failures = 0 /\ bgJob[r].stalls = 0 => saved[r] \subseteq output[r].edits

\* A run that was put on the queue ends there, whatever throws or dies.
QueuedRunsSettle ==
    \A r \in JobRuns : bgJob[r].state = "waiting" ~> bgJob[r].state \in {"completed", "failed"}

\* What handleWorkerJob and importPdf tell the user, 'the file exists already,
\* the old one is reused': there is a stored file then.
ReusedFileExists == \A r \in JobRuns : output[r].warned => output[r].drive
=============================================================================
