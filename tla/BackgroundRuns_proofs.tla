------------------------ MODULE BackgroundRuns_proofs ------------------------
(***************************************************************************)
(* Proofs about BackgroundRuns, for any runs, files, workers, editors and  *)
(* faults: types and attempts, that the row of a run tells how it went,    *)
(* and that a correction of a preview no other overlaps is lost only to a  *)
(* redelivered job.                                                        *)
(*                                                                         *)
(* They rest on two facts: a job is on the queue only after its request is *)
(* done with the run, and an active job is held by one worker alone.       *)
(***************************************************************************)
EXTENDS BackgroundRuns, SumTheorems

USE JobRunsAssumption, NobodyAssumption

RunRow == [status : {"ABSENT", "PENDING", "PROCESSING", "SUCCESS", "FAILED"}, type : JobTypes,
           file : Pdfs \cup {Nobody}]
InputRow == [at : Nat, drive : BOOLEAN]
OutputRow == [written : BOOLEAN, drive : BOOLEAN, warned : BOOLEAN, edits : SUBSET PreviewRows]
JobRow == [state : {"none", "waiting", "active", "completed", "failed"}, failures : 0 .. 5, stalls : 0 .. 2]
WorkerRow == [pc : {"idle", "read", "write", "mark", "catch", "return", "throw"},
              run : JobRuns \cup {Nobody}, found : BOOLEAN, drive : BOOLEAN]
EditorRow == [run : JobRuns \cup {Nobody}, row : PreviewRows \cup {Nobody}, edits : SUBSET PreviewRows]
RequestPcs == {"none", "upload", "create", "storeFile", "storeInput", "enqueue", "done"}

BgTypeOK ==
    /\ request \in [JobRuns -> RequestPcs]
    /\ bgRun \in [JobRuns -> RunRow]
    /\ input \in [JobRuns -> InputRow]
    /\ output \in [JobRuns -> OutputRow]
    /\ bgJob \in [JobRuns -> JobRow]
    /\ bgWorker \in [JobWorkers -> WorkerRow]
    /\ editor \in [Editors -> EditorRow]
    /\ saved \in [JobRuns -> SUBSET PreviewRows]
    /\ markLost \in SUBSET JobRuns

\* A job that is not over has an attempt left and was lost at most once.
JobsHaveAttempts ==
    \A r \in JobRuns :
        /\ bgJob[r].failures <= AttemptsOf(bgRun[r].type)
        /\ bgJob[r].state \in {"none", "waiting", "active"} =>
               bgJob[r].failures < AttemptsOf(bgRun[r].type) /\ bgJob[r].stalls < 2
        /\ bgJob[r].state = "none" => bgJob[r].failures = 0 /\ bgJob[r].stalls = 0

\* The request of a run on the queue is done with it.
QueuedIsRequested == \A r \in JobRuns : bgJob[r].state # "none" => request[r] = "done"

\* A worker that is busy holds an active job, which no other worker holds.
WorkersHoldJobs ==
    /\ \A w \in JobWorkers :
        /\ bgWorker[w].pc = "idle" <=> bgWorker[w].run = Nobody
        /\ bgWorker[w].pc # "idle" => bgJob[bgWorker[w].run].state = "active"
    /\ \A v, w \in JobWorkers : bgWorker[v].run = bgWorker[w].run /\ bgWorker[v].pc # "idle" => v = w

\* What a worker has done to its run, before it marks it and before it leaves.
WorkersHaveDone ==
    \A w \in JobWorkers :
        /\ bgWorker[w].pc = "mark" => output[bgWorker[w].run].written
        /\ bgWorker[w].pc = "throw" =>
               bgRun[bgWorker[w].run].status \in {"SUCCESS", "FAILED"} \/ bgWorker[w].run \in markLost
        /\ bgWorker[w].pc = "return" =>
               \/ bgRun[bgWorker[w].run].status = "SUCCESS"
               \/ bgRun[bgWorker[w].run].status = "FAILED" /\ bgRun[bgWorker[w].run].type = "invoice"

\* Nothing is corrected that is not written.
CorrectedIsWritten ==
    /\ \A r \in JobRuns : saved[r] # {} => output[r].written
    /\ \A e \in Editors : editor[e] # IdleEditor =>
           editor[e].run \in JobRuns /\ editor[e].row \in PreviewRows /\ output[editor[e].run].written

\* The first delivery of a job: nothing is written before its worker writes.
FirstDelivery(r) == bgJob[r].failures = 0 /\ bgJob[r].stalls = 0
FirstWrites ==
    /\ \A r \in JobRuns : FirstDelivery(r) /\ bgJob[r].state \in {"none", "waiting"} => ~output[r].written
    /\ \A w \in JobWorkers : bgWorker[w].pc \in {"read", "write"} /\ FirstDelivery(bgWorker[w].run) =>
           ~output[bgWorker[w].run].written
    /\ \A e \in Editors : editor[e] # IdleEditor /\ FirstDelivery(editor[e].run) =>
           saved[editor[e].run] \subseteq editor[e].edits

MarkInv == BgTypeOK /\ JobsHaveAttempts /\ QueuedIsRequested /\ WorkersHoldJobs /\ WorkersHaveDone /\ RunsAreMarked
EditInv == CorrectedIsWritten /\ FirstWrites /\ CorrectionsSurvive

-----------------------------------------------------------------------------
LEMMA Initially == BgInit => MarkInv /\ EditInv
<1> SUFFICES ASSUME BgInit PROVE MarkInv /\ EditInv
  OBVIOUS
<1> USE DEF BgInit, NoInput, NoOutput, IdleWorker, IdleEditor
<1>1. BgTypeOK
  <2>1. /\ [status |-> "ABSENT", type |-> "print", file |-> Nobody] \in RunRow
        /\ NoInput \in InputRow
        /\ NoOutput \in OutputRow
        /\ [state |-> "none", failures |-> 0, stalls |-> 0] \in JobRow
        /\ IdleWorker \in WorkerRow
        /\ IdleEditor \in EditorRow
    BY DEF RunRow, InputRow, OutputRow, JobRow, WorkerRow, EditorRow, JobTypes
  <2> QED
    BY <2>1 DEF BgTypeOK, RequestPcs
<1>2. JobsHaveAttempts /\ QueuedIsRequested /\ WorkersHoldJobs /\ WorkersHaveDone
  BY DEF JobsHaveAttempts, AttemptsOf, QueuedIsRequested, WorkersHoldJobs, WorkersHaveDone
<1>3. RunsAreMarked /\ CorrectedIsWritten /\ FirstWrites /\ CorrectionsSurvive
  BY DEF RunsAreMarked, CorrectedIsWritten, FirstWrites, CorrectionsSurvive
<1> QED
  BY <1>1, <1>2, <1>3 DEF MarkInv, EditInv

-----------------------------------------------------------------------------
(* Types.                                                                   *)

\* Of any input artifacts one is the newest.
LEMMA NewestIsOne ==
  ASSUME BgTypeOK, NEW rs \in SUBSET JobRuns, rs # {}
  PROVE  Newest(rs) \in rs
<1> DEFINE newest(x, s) == \A y \in s : input[y].at <= input[x].at
           T == {s \in SUBSET rs : s # {} /\ ~\E x \in s : newest(x, s)}
<1>0. IsFiniteSet(rs) /\ T \subseteq SUBSET rs
  BY FS_Subset
<1>1. \A x \in rs : input[x].at \in Nat
  BY DEF BgTypeOK, InputRow
<1>2. ASSUME T # {} PROVE FALSE
  <2> HIDE DEF T
  <2>1. PICK s \in T : \A t \in T : ~(t \subseteq s /\ t # s)
    BY <1>0, <1>2, MinimalSubset
  <2> USE DEF T
  <2>2. PICK x : x \in s
    BY <2>1
  <2>3. s \ {x} \notin T /\ s \subseteq rs
    BY <2>1, <2>2
  <2>4. CASE s \ {x} = {}
    BY <1>1, <2>1, <2>2, <2>3, <2>4
  <2>5. CASE s \ {x} # {}
    <3>1. PICK y \in s \ {x} : newest(y, s \ {x})
      BY <2>3, <2>5
    <3>2. CASE input[x].at <= input[y].at
      <4>1. newest(y, s)
        BY <3>1, <3>2
      <4> QED
        BY <2>1, <3>1, <4>1
    <3>3. CASE ~(input[x].at <= input[y].at)
      <4>1. \A z \in s : input[z].at <= input[x].at
        BY <1>1, <2>2, <2>3, <3>1, <3>3
      <4> QED
        BY <2>1, <2>2, <4>1
    <3> QED
      BY <3>2, <3>3
  <2> QED
    BY <2>4, <2>5
<1>3. \E x \in rs : newest(x, rs)
  BY <1>2
<1> QED
  BY <1>3 DEF Newest

LEMMA TypeStep == MarkInv /\ CorrectedIsWritten /\ [BgNext]_bgVars => BgTypeOK'
<1> SUFFICES ASSUME MarkInv, CorrectedIsWritten, [BgNext]_bgVars PROVE BgTypeOK'
  OBVIOUS
<1>0. BgTypeOK /\ WorkersHoldJobs /\ JobsHaveAttempts
  BY DEF MarkInv
<1>a. /\ request \in [JobRuns -> RequestPcs] /\ bgRun \in [JobRuns -> RunRow]
      /\ input \in [JobRuns -> InputRow] /\ output \in [JobRuns -> OutputRow]
      /\ bgJob \in [JobRuns -> JobRow] /\ bgWorker \in [JobWorkers -> WorkerRow]
      /\ editor \in [Editors -> EditorRow] /\ saved \in [JobRuns -> SUBSET PreviewRows]
      /\ markLost \in SUBSET JobRuns
  BY <1>0 DEF BgTypeOK
<1>ar. bgRun \in [JobRuns -> RunRow]
  BY <1>a
<1>aw. bgWorker \in [JobWorkers -> WorkerRow]
  BY <1>a
<1>aj. bgJob \in [JobRuns -> JobRow]
  BY <1>a
<1>b. \A w \in JobWorkers : bgWorker[w].pc # "idle" =>
          /\ bgWorker[w].run \in JobRuns /\ bgJob[bgWorker[w].run].state = "active"
          /\ bgJob[bgWorker[w].run].failures < AttemptsOf(bgRun[bgWorker[w].run].type)
          /\ bgJob[bgWorker[w].run].stalls < 2
  BY <1>0, <1>a DEF WorkersHoldJobs, WorkerRow, JobsHaveAttempts
<1>c. \A t \in JobTypes : AttemptsOf(t) \in 1 .. 5
  BY DEF AttemptsOf
<1>d. IdleWorker \in WorkerRow /\ IdleEditor \in EditorRow
  BY DEF IdleWorker, WorkerRow, IdleEditor, EditorRow
<1>1. CASE UNCHANGED bgVars
  BY <1>0, <1>1 DEF bgVars, BgTypeOK
<1>2a. ASSUME NEW r \in JobRuns, NEW f \in Pdfs, ImportFast(r, f) PROVE BgTypeOK'
  <2>1. request' \in [JobRuns -> RequestPcs]
    BY <1>a, <1>2a DEF ImportFast, RequestPcs
  <2>2. bgRun' \in [JobRuns -> RunRow]
    BY <1>ar, <1>2a DEF ImportFast, RunRow, JobTypes
  <2> QED
    BY <1>a, <1>2a, <2>1, <2>2 DEF ImportFast, BgTypeOK
<1>2. ASSUME NEW r \in JobRuns, NEW f \in Pdfs, NEW type \in JobTypes, StartRun(r, type, f) PROVE BgTypeOK'
  <2>1. request' \in [JobRuns -> RequestPcs]
    BY <1>a, <1>2 DEF StartRun, RequestPcs
  <2>2. bgRun' \in [JobRuns -> RunRow]
    BY <1>ar, <1>2 DEF StartRun, RunRow
  <2> QED
    BY <1>a, <1>2, <2>1, <2>2 DEF StartRun, BgTypeOK
<1>3. ASSUME NEW r \in JobRuns, FallBack(r) PROVE BgTypeOK'
  BY <1>a, <1>3 DEF FallBack, RequestPcs, BgTypeOK
<1>4. ASSUME NEW r \in JobRuns, CreateBgRun(r) PROVE BgTypeOK'
  <2>1. request' \in [JobRuns -> RequestPcs] /\ bgRun' \in [JobRuns -> RunRow]
    BY <1>a, <1>4 DEF CreateBgRun, RequestPcs, RunRow
  <2> QED
    BY <1>a, <1>4, <2>1 DEF CreateBgRun, BgTypeOK
<1>5. ASSUME NEW r \in JobRuns, StoreInput(r) PROVE BgTypeOK'
  <2>1. Cardinality({s \in JobRuns : input[s].at > 0}) \in Nat
    BY FS_Subset, FS_CardinalityType
  <2>2. request' \in [JobRuns -> RequestPcs] /\ input' \in [JobRuns -> InputRow]
    BY <1>a, <1>5, <2>1 DEF StoreInput, RequestPcs, InputRow
  <2> QED
    BY <1>a, <1>5, <2>2 DEF StoreInput, BgTypeOK
<1>6. ASSUME NEW r \in JobRuns, EnqueueRun(r) PROVE BgTypeOK'
  <2>1. request' \in [JobRuns -> RequestPcs] /\ bgJob' \in [JobRuns -> JobRow]
    BY <1>a, <1>6 DEF EnqueueRun, RequestPcs, JobRow
  <2> QED
    BY <1>a, <1>6, <2>1 DEF EnqueueRun, BgTypeOK
<1>7. ASSUME NEW w \in JobWorkers, NEW r \in JobRuns, TakeRun(w, r) \/ TakeRunUnmarked(w, r) PROVE BgTypeOK'
  <2>1. bgRun' \in [JobRuns -> RunRow]
    BY <1>ar, <1>7 DEF TakeRun, TakeRunUnmarked, RunRow
  <2>3. bgJob' \in [JobRuns -> JobRow]
    BY <1>aj, <1>7 DEF TakeRun, TakeRunUnmarked, Takes, JobRow
  <2>2. bgWorker' \in [JobWorkers -> WorkerRow]
    <3>1. ASSUME NEW pc \in {"read", "throw"} PROVE [IdleWorker EXCEPT !.pc = pc, !.run = r] \in WorkerRow
      BY DEF IdleWorker, WorkerRow
    <3>2. \E pc \in {"read", "throw"} : bgWorker' = [bgWorker EXCEPT ![w] = [IdleWorker EXCEPT !.pc = pc, !.run = r]]
      BY <1>7 DEF TakeRun, TakeRunUnmarked
    <3> QED
      BY <1>aw, <3>1, <3>2
  <2>4. markLost' \in SUBSET JobRuns
    BY <1>a, <1>7 DEF TakeRun, TakeRunUnmarked
  <2>5. UNCHANGED <<request, input, output, editor, saved>>
    BY <1>7 DEF TakeRun, TakeRunUnmarked, Takes
  <2> QED
    BY <1>a, <2>1, <2>2, <2>3, <2>4, <2>5 DEF BgTypeOK
<1>8. ASSUME NEW w \in JobWorkers, ReadInput(w) PROVE BgTypeOK'
  <2>1. bgWorker[w].run \in JobRuns
    BY <1>b, <1>8 DEF ReadInput
  <2>2. \A f : WithChecksum(f) # {} => ExistingFile(f).drive \in BOOLEAN
    <3> SUFFICES ASSUME NEW f, WithChecksum(f) # {} PROVE ExistingFile(f).drive \in BOOLEAN
      OBVIOUS
    <3>1. WithChecksum(f) \in SUBSET JobRuns
      BY DEF WithChecksum
    <3>2. Newest(WithChecksum(f)) \in JobRuns
      BY <1>0, <3>1, NewestIsOne
    <3> QED
      BY <1>a, <3>2 DEF ExistingFile, InputRow
  <2>3. LookedUp(bgWorker[w].run).found \in BOOLEAN /\ LookedUp(bgWorker[w].run).drive \in BOOLEAN
    BY <2>2 DEF LookedUp
  <2>4. bgWorker' \in [JobWorkers -> WorkerRow]
    BY <1>a, <1>8, <2>1, <2>3 DEF ReadInput, WorkerRow
  <2> QED
    BY <1>a, <1>8, <2>4 DEF ReadInput, BgTypeOK
<1>9. ASSUME NEW w \in JobWorkers, WriteOutput(w) PROVE BgTypeOK'
  <2>1. output' \in [JobRuns -> OutputRow]
    BY <1>a, <1>9 DEF WriteOutput, OutputRow, WorkerRow
  <2>2. bgWorker' \in [JobWorkers -> WorkerRow]
    BY <1>a, <1>9 DEF WriteOutput, WorkerRow
  <2> QED
    BY <1>a, <1>9, <2>1, <2>2 DEF WriteOutput, BgTypeOK
<1>10. ASSUME NEW w \in JobWorkers,
              \/ MarkRunSuccess(w) \/ HandlerThrows(w) \/ CloseThrows(w)
              \/ MarkRunFailed(w) \/ MarkFailedThrows(w)
       PROVE  BgTypeOK'
  <2>1. bgRun' \in [JobRuns -> RunRow]
    BY <1>ar, <1>10 DEF MarkRunSuccess, HandlerThrows, CloseThrows, MarkRunFailed, MarkFailedThrows, RunRow
  <2>2. bgWorker' \in [JobWorkers -> WorkerRow]
    BY <1>aw, <1>10 DEF MarkRunSuccess, HandlerThrows, CloseThrows, MarkRunFailed, MarkFailedThrows, WorkerRow
  <2>3. UNCHANGED <<request, input, output, bgJob, editor, saved>>
    BY <1>10 DEF MarkRunSuccess, HandlerThrows, CloseThrows, MarkRunFailed, MarkFailedThrows
  <2>4. markLost' \in SUBSET JobRuns
    <3>1. CASE MarkFailedThrows(w)
      BY <1>a, <1>b, <3>1 DEF MarkFailedThrows
    <3>2. CASE MarkRunSuccess(w) \/ HandlerThrows(w) \/ CloseThrows(w) \/ MarkRunFailed(w)
      BY <1>a, <3>2 DEF MarkRunSuccess, HandlerThrows, CloseThrows, MarkRunFailed
    <3> QED
      BY <1>10, <3>1, <3>2
  <2> QED
    BY <1>a, <2>1, <2>2, <2>3, <2>4 DEF BgTypeOK
<1>11. ASSUME NEW w \in JobWorkers, JobReturns(w) PROVE BgTypeOK'
  <2>1. bgJob' \in [JobRuns -> JobRow] /\ bgWorker' \in [JobWorkers -> WorkerRow]
    BY <1>aj, <1>aw, <1>d, <1>11 DEF JobReturns, JobRow
  <2> QED
    BY <1>a, <1>11, <2>1 DEF JobReturns, BgTypeOK
<1>12. ASSUME NEW w \in JobWorkers, JobThrows(w) PROVE BgTypeOK'
  <2>1. /\ bgWorker[w].run \in JobRuns
        /\ bgJob[bgWorker[w].run].failures < AttemptsOf(bgRun[bgWorker[w].run].type)
    BY <1>b, <1>12 DEF JobThrows
  <2>2. AttemptsOf(bgRun[bgWorker[w].run].type) \in 1 .. 5
    BY <1>a, <1>c, <2>1 DEF RunRow
  <2>3. bgJob[bgWorker[w].run].failures + 1 \in 0 .. 5
    BY <1>a, <2>1, <2>2 DEF JobRow
  <2>4. Requeued(bgJob[bgWorker[w].run], bgRun[bgWorker[w].run].type) \in JobRow
    <3> DEFINE j == bgJob[bgWorker[w].run]
               next == IF j.failures + 1 < AttemptsOf(bgRun[bgWorker[w].run].type) THEN "waiting" ELSE "failed"
    <3>1. j \in JobRow /\ j.failures + 1 \in 0 .. 5
      BY <1>a, <2>1, <2>3
    <3>2. Requeued(j, bgRun[bgWorker[w].run].type) = [j EXCEPT !.failures = j.failures + 1, !.state = next]
      BY DEF Requeued
    <3>3. next \in {"waiting", "failed"}
      OBVIOUS
    <3> HIDE DEF j, next
    <3>4. [j EXCEPT !.failures = j.failures + 1, !.state = next] \in JobRow
      BY <3>1, <3>3 DEF JobRow
    <3> QED
      BY <3>2, <3>4 DEF j
  <2>5. bgJob' \in [JobRuns -> JobRow] /\ bgWorker' \in [JobWorkers -> WorkerRow]
    BY <1>a, <1>d, <1>12, <2>4 DEF JobThrows
  <2> QED
    BY <1>a, <1>12, <2>5 DEF JobThrows, BgTypeOK
<1>13. ASSUME NEW w \in JobWorkers, JobWorkerDies(w) PROVE BgTypeOK'
  <2>1. bgWorker[w].run \in JobRuns /\ bgJob[bgWorker[w].run].stalls < 2
    BY <1>b, <1>13 DEF JobWorkerDies
  <2>2. Lost(bgJob[bgWorker[w].run]) \in JobRow
    <3> DEFINE j == bgJob[bgWorker[w].run]
               next == IF j.stalls = 0 THEN "waiting" ELSE "failed"
    <3>1. j \in JobRow /\ j.stalls + 1 \in 0 .. 2 /\ next \in {"waiting", "failed"}
      BY <1>a, <2>1 DEF JobRow
    <3>2. Lost(j) = [j EXCEPT !.stalls = j.stalls + 1, !.state = next]
      BY DEF Lost
    <3> HIDE DEF j, next
    <3>3. [j EXCEPT !.stalls = j.stalls + 1, !.state = next] \in JobRow
      BY <3>1 DEF JobRow
    <3> QED
      BY <3>2, <3>3 DEF j
  <2>3. bgJob' \in [JobRuns -> JobRow] /\ bgWorker' \in [JobWorkers -> WorkerRow]
    BY <1>a, <1>d, <1>13, <2>2 DEF JobWorkerDies
  <2> QED
    BY <1>a, <1>13, <2>3 DEF JobWorkerDies, BgTypeOK
<1>14. ASSUME NEW e \in Editors, NEW r \in JobRuns, NEW row \in PreviewRows, ReadPreview(e, r, row) PROVE BgTypeOK'
  <2>1. editor' \in [Editors -> EditorRow]
    BY <1>a, <1>14 DEF ReadPreview, EditorRow, OutputRow
  <2> QED
    BY <1>a, <1>14, <2>1 DEF ReadPreview, BgTypeOK
<1>15. ASSUME NEW e \in Editors, WritePreview(e) PROVE BgTypeOK'
  <2>1. editor[e].run \in JobRuns /\ editor[e].row \in PreviewRows
    BY <1>15 DEF WritePreview, CorrectedIsWritten
  <2>2. Corrected(editor[e].edits, editor[e].row) \in SUBSET PreviewRows
    BY <1>a, <2>1 DEF Corrected, EditorRow
  <2>3. output' \in [JobRuns -> OutputRow]
    BY <1>a, <1>15, <2>1, <2>2 DEF WritePreview, OutputRow
  <2>4. saved' \in [JobRuns -> SUBSET PreviewRows] /\ editor' \in [Editors -> EditorRow]
    BY <1>a, <1>d, <1>15, <2>1 DEF WritePreview
  <2> QED
    BY <1>a, <1>15, <2>3, <2>4 DEF WritePreview, BgTypeOK
<1> QED
  BY <1>1, <1>2a, <1>2, <1>3, <1>4, <1>5, <1>6, <1>7, <1>8, <1>9, <1>10, <1>11, <1>12, <1>13, <1>14, <1>15
     DEF BgNext, RequestStep, WorkerStep, EditStep

-----------------------------------------------------------------------------
(* The row of a run.                                                        *)

Marks == JobsHaveAttempts /\ QueuedIsRequested /\ WorkersHoldJobs /\ WorkersHaveDone /\ RunsAreMarked

\* A request works on runs that are not on the queue.
LEMMA RequestMarks ==
  ASSUME MarkInv, NEW r \in JobRuns, RequestStep(r)
  PROVE  Marks'
<1>0. BgTypeOK /\ Marks
  BY DEF MarkInv, Marks
<1>1. /\ request[r] # "done" /\ bgJob[r].state = "none"
      /\ \A w \in JobWorkers : bgWorker[w].pc # "idle" => bgWorker[w].run # r
  <2>1. request[r] # "done"
    BY DEF RequestStep, ImportFast, FallBack, StartRun, CreateBgRun, StoreInput, EnqueueRun
  <2> QED
    BY <1>0, <2>1 DEF Marks, QueuedIsRequested, WorkersHoldJobs, BgTypeOK, JobRow
<1>2. /\ bgWorker' = bgWorker /\ output' = output /\ markLost' = markLost
      /\ \A x \in JobRuns \ {r} : /\ request'[x] = request[x] /\ bgRun'[x] = bgRun[x] /\ bgJob'[x] = bgJob[x]
  BY <1>0 DEF BgTypeOK, RequestStep, ImportFast, FallBack, StartRun, CreateBgRun, StoreInput, EnqueueRun
<1>3. bgJob'[r].state # "none" => request'[r] = "done"
  BY <1>0, <1>1 DEF BgTypeOK, RequestStep, ImportFast, FallBack, StartRun, CreateBgRun, StoreInput, EnqueueRun
<1>4. bgJob' = bgJob \/ bgJob' = [bgJob EXCEPT ![r].state = "waiting"]
  BY DEF RequestStep, ImportFast, FallBack, StartRun, CreateBgRun, StoreInput, EnqueueRun
<1>5. /\ bgJob'[r].state \in {"none", "waiting"} /\ bgJob'[r].failures = bgJob[r].failures
      /\ bgJob'[r].stalls = bgJob[r].stalls
  BY <1>0, <1>1, <1>4 DEF BgTypeOK, JobRow
<1>6. bgRun'[r].status \in {bgRun[r].status, "PENDING"}
  <2>1. ASSUME CreateBgRun(r) PROVE bgRun'[r].status = "PENDING"
    BY <1>0, <2>1 DEF BgTypeOK, RunRow, CreateBgRun
  <2>2. ASSUME NEW f, ImportFast(r, f) PROVE bgRun'[r].status = bgRun[r].status
    BY <1>0, <2>2 DEF BgTypeOK, RunRow, ImportFast
  <2>3. ASSUME NEW f, NEW type, StartRun(r, type, f) PROVE bgRun'[r].status = bgRun[r].status
    BY <1>0, <2>3 DEF BgTypeOK, RunRow, StartRun
  <2>4. ASSUME FallBack(r) \/ StoreInput(r) \/ EnqueueRun(r) PROVE bgRun' = bgRun
    BY <2>4 DEF FallBack, StoreInput, EnqueueRun
  <2> QED
    BY <2>1, <2>2, <2>3, <2>4 DEF RequestStep
<1>7. bgJob[r].failures = 0 /\ bgJob[r].stalls = 0
  BY <1>0, <1>1 DEF Marks, JobsHaveAttempts
<1>8. JobsHaveAttempts'
  <2>1. AttemptsOf(bgRun'[r].type) \in 1 .. 5
    BY DEF AttemptsOf
  <2>2. ASSUME NEW x \in JobRuns \ {r}
        PROVE  AttemptsOf(bgRun'[x].type) = AttemptsOf(bgRun[x].type)
    BY <1>2
  <2> QED
    BY <1>0, <1>2, <1>5, <1>7, <2>1, <2>2 DEF Marks, JobsHaveAttempts
<1>9. QueuedIsRequested'
  BY <1>0, <1>2, <1>3 DEF Marks, QueuedIsRequested
<1>10. \A w \in JobWorkers : bgWorker[w].pc # "idle" => bgWorker[w].run \in JobRuns \ {r}
  BY <1>0, <1>1 DEF Marks, WorkersHoldJobs, BgTypeOK, WorkerRow
<1>11. WorkersHoldJobs'
  BY <1>0, <1>2, <1>10 DEF Marks, WorkersHoldJobs
<1>12. WorkersHaveDone'
  <2>1. \A w \in JobWorkers : bgWorker[w].pc # "idle" => bgRun'[bgWorker[w].run] = bgRun[bgWorker[w].run]
    BY <1>2, <1>10
  <2> QED
    BY <1>0, <1>2, <2>1 DEF Marks, WorkersHaveDone
<1>13. RunsAreMarked'
  BY <1>0, <1>2, <1>5, <1>6 DEF Marks, RunsAreMarked
<1> QED
  BY <1>8, <1>9, <1>11, <1>12, <1>13 DEF Marks

\* What a step of a worker does: it changes itself, its run and its job, which
\* no other worker holds.
LEMMA WorkerMarks ==
  ASSUME MarkInv, BgTypeOK', NEW w \in JobWorkers, WorkerStep(w) \/ JobWorkerDies(w)
  PROVE  Marks'
<1>0. BgTypeOK /\ Marks
  BY DEF MarkInv, Marks
<1>a. /\ bgRun \in [JobRuns -> RunRow] /\ output \in [JobRuns -> OutputRow]
      /\ bgJob \in [JobRuns -> JobRow] /\ bgWorker \in [JobWorkers -> WorkerRow]
      /\ markLost \in SUBSET JobRuns
  BY <1>0 DEF BgTypeOK
\* What has to be seen of a step: the job, the row and the output of run r.
<1>b. ASSUME NEW r \in JobRuns,
             request' = request,
             \/ bgWorker[w].run = r /\ bgWorker[w].pc # "idle"
             \/ bgWorker[w].pc = "idle" /\ bgJob[r].state = "waiting",
             \A v \in JobWorkers \ {w} : bgWorker'[v] = bgWorker[v],
             \A x \in JobRuns \ {r} : /\ bgRun'[x] = bgRun[x] /\ bgJob'[x] = bgJob[x]
                                      /\ output'[x] = output[x]
                                      /\ x \in markLost' <=> x \in markLost,
             bgRun'[r].type = bgRun[r].type,
             output[r].written => output'[r].written,
             bgJob'[r].failures <= AttemptsOf(bgRun[r].type),
             bgJob'[r].state # "none",
             bgJob'[r].state \in {"waiting", "active"} =>
                 bgJob'[r].failures < AttemptsOf(bgRun[r].type) /\ bgJob'[r].stalls < 2,
             bgWorker'[w].pc = "idle" <=> bgWorker'[w].run = Nobody,
             bgWorker'[w].pc # "idle" => bgWorker'[w].run = r /\ bgJob'[r].state = "active",
             bgWorker'[w].pc = "mark" => output'[r].written,
             bgWorker'[w].pc = "throw" => bgRun'[r].status \in {"SUCCESS", "FAILED"} \/ r \in markLost',
             bgWorker'[w].pc = "return" =>
                 \/ bgRun'[r].status = "SUCCESS"
                 \/ bgRun'[r].status = "FAILED" /\ bgRun'[r].type = "invoice",
             bgRun'[r].status = "SUCCESS" => output'[r].written,
             \/ bgJob'[r].state = "completed"
             \/ bgJob'[r].state = "failed" /\ bgJob'[r].stalls < 2 /\ r \notin markLost'
             => bgRun'[r].status \in {"SUCCESS", "FAILED"},
             bgJob'[r].state = "completed" /\ bgRun'[r].type # "invoice" => bgRun'[r].status = "SUCCESS"
      PROVE  Marks'
  <2>1. \A v \in JobWorkers \ {w} : bgWorker[v].pc # "idle" => bgWorker[v].run \in JobRuns \ {r}
    BY <1>0, <1>a, <1>b DEF Marks, WorkersHoldJobs, WorkerRow
  <2>2. JobsHaveAttempts'
    BY <1>0, <1>b DEF Marks, JobsHaveAttempts
  <2>3. bgJob[r].state # "none"
    BY <1>0, <1>b DEF Marks, WorkersHoldJobs
  <2>4. QueuedIsRequested'
    BY <1>0, <1>b, <2>3 DEF Marks, QueuedIsRequested
  <2>5. WorkersHoldJobs'
    <3>1. ASSUME NEW v \in JobWorkers
          PROVE  /\ (bgWorker[v].pc = "idle" <=> bgWorker[v].run = Nobody)'
                 /\ (bgWorker[v].pc # "idle" => bgJob[bgWorker[v].run].state = "active")'
      BY <1>0, <1>b, <2>1 DEF Marks, WorkersHoldJobs
    <3>2. ASSUME NEW u \in JobWorkers, NEW v \in JobWorkers,
                 bgWorker'[u].run = bgWorker'[v].run, bgWorker'[u].pc # "idle"
          PROVE  u = v
      <4>1. bgWorker'[v].pc # "idle"
        BY <3>1, <3>2
      <4> QED
        BY <1>0, <1>b, <2>1, <3>2, <4>1 DEF Marks, WorkersHoldJobs
    <3> QED
      BY <3>1, <3>2 DEF WorkersHoldJobs
  <2>6. WorkersHaveDone'
    <3>1. ASSUME NEW v \in JobWorkers \ {w}
          PROVE  /\ bgWorker'[v] = bgWorker[v]
                 /\ bgWorker[v].pc # "idle" => /\ bgRun'[bgWorker[v].run] = bgRun[bgWorker[v].run]
                                               /\ output'[bgWorker[v].run] = output[bgWorker[v].run]
                                               /\ bgWorker[v].run \in markLost' <=> bgWorker[v].run \in markLost
      BY <1>b, <2>1
    <3>2. ASSUME NEW v \in JobWorkers \ {w}
          PROVE  /\ (bgWorker[v].pc = "mark" => output[bgWorker[v].run].written)'
                 /\ (bgWorker[v].pc = "throw" =>
                        \/ bgRun[bgWorker[v].run].status \in {"SUCCESS", "FAILED"}
                        \/ bgWorker[v].run \in markLost)'
                 /\ (bgWorker[v].pc = "return" =>
                        \/ bgRun[bgWorker[v].run].status = "SUCCESS"
                        \/ bgRun[bgWorker[v].run].status = "FAILED" /\ bgRun[bgWorker[v].run].type = "invoice")'
      BY <1>0, <3>1 DEF Marks, WorkersHaveDone
    <3>3. /\ (bgWorker[w].pc = "mark" => output[bgWorker[w].run].written)'
          /\ (bgWorker[w].pc = "throw" =>
                 \/ bgRun[bgWorker[w].run].status \in {"SUCCESS", "FAILED"}
                 \/ bgWorker[w].run \in markLost)'
          /\ (bgWorker[w].pc = "return" =>
                 \/ bgRun[bgWorker[w].run].status = "SUCCESS"
                 \/ bgRun[bgWorker[w].run].status = "FAILED" /\ bgRun[bgWorker[w].run].type = "invoice")'
      <4>1. bgWorker'[w].pc \in {"mark", "throw", "return"} => bgWorker'[w].run = r
        BY <1>b
      <4>2. bgWorker'[w].pc = "mark" => output'[r].written
        BY <1>b
      <4>3. bgWorker'[w].pc = "throw" => bgRun'[r].status \in {"SUCCESS", "FAILED"} \/ r \in markLost'
        BY <1>b
      <4>4. bgWorker'[w].pc = "return" =>
                \/ bgRun'[r].status = "SUCCESS"
                \/ bgRun'[r].status = "FAILED" /\ bgRun'[r].type = "invoice"
        BY <1>b
      <4> QED
        BY <4>1, <4>2, <4>3, <4>4
    <3>4. ASSUME NEW v \in JobWorkers
          PROVE  /\ (bgWorker[v].pc = "mark" => output[bgWorker[v].run].written)'
                 /\ (bgWorker[v].pc = "throw" =>
                        \/ bgRun[bgWorker[v].run].status \in {"SUCCESS", "FAILED"}
                        \/ bgWorker[v].run \in markLost)'
                 /\ (bgWorker[v].pc = "return" =>
                        \/ bgRun[bgWorker[v].run].status = "SUCCESS"
                        \/ bgRun[bgWorker[v].run].status = "FAILED" /\ bgRun[bgWorker[v].run].type = "invoice")'
      <4>1. CASE v = w
        BY <3>3, <4>1
      <4>2. CASE v # w
        BY <3>2, <4>2
      <4> QED
        BY <4>1, <4>2
    <3> QED
      BY <3>4 DEF WorkersHaveDone
  <2>7. RunsAreMarked'
    BY <1>0, <1>b DEF Marks, RunsAreMarked
  <2> QED
    BY <2>2, <2>4, <2>5, <2>6, <2>7 DEF Marks
<1> DEFINE r == bgWorker[w].run
<1>c. bgWorker[w].pc # "idle" =>
          /\ r \in JobRuns /\ bgJob[r].state = "active"
          /\ bgJob[r].failures < AttemptsOf(bgRun[r].type) /\ bgJob[r].stalls < 2
  BY <1>0, <1>a DEF Marks, WorkersHoldJobs, WorkerRow, JobsHaveAttempts
<1>1. ASSUME NEW x \in JobRuns, TakeRun(w, x) PROVE Marks'
  <2>1. /\ bgJob' = [bgJob EXCEPT ![x].state = "active"]
        /\ bgRun' = [bgRun EXCEPT ![x].status = "PROCESSING"]
        /\ bgWorker' = [bgWorker EXCEPT ![w] = [IdleWorker EXCEPT !.pc = "read", !.run = x]]
        /\ bgWorker[w].pc = "idle" /\ bgJob[x].state = "waiting"
        /\ request' = request /\ output' = output /\ markLost' = markLost \ {x}
    BY <1>1 DEF TakeRun, Takes
  <2>2. /\ bgJob'[x].state = "active" /\ bgJob'[x].failures = bgJob[x].failures
        /\ bgJob'[x].stalls = bgJob[x].stalls
        /\ bgRun'[x].status = "PROCESSING" /\ bgRun'[x].type = bgRun[x].type
        /\ bgWorker'[w].pc = "read" /\ bgWorker'[w].run = x
    BY <1>a, <2>1 DEF JobRow, RunRow, IdleWorker
  <2>3. bgJob[x].failures < AttemptsOf(bgRun[x].type) /\ bgJob[x].stalls < 2
    BY <1>0, <2>1 DEF Marks, JobsHaveAttempts
  <2>4. /\ \A v \in JobWorkers \ {w} : bgWorker'[v] = bgWorker[v]
        /\ \A y \in JobRuns \ {x} : bgRun'[y] = bgRun[y] /\ bgJob'[y] = bgJob[y] /\ output'[y] = output[y]
    BY <1>a, <2>1
  <2>5. bgJob[x].failures <= AttemptsOf(bgRun[x].type)
    BY <1>0 DEF Marks, JobsHaveAttempts
  <2> QED
    BY <1>b, <2>1, <2>2, <2>3, <2>4, <2>5
<1>1u. ASSUME NEW x \in JobRuns, TakeRunUnmarked(w, x) PROVE Marks'
  <2>1. /\ bgJob' = [bgJob EXCEPT ![x].state = "active"]
        /\ bgRun' = bgRun
        /\ bgWorker' = [bgWorker EXCEPT ![w] = [IdleWorker EXCEPT !.pc = "throw", !.run = x]]
        /\ bgWorker[w].pc = "idle" /\ bgJob[x].state = "waiting"
        /\ request' = request /\ output' = output /\ markLost' = markLost \cup {x}
    BY <1>1u DEF TakeRunUnmarked, Takes
  <2>2. /\ bgJob'[x].state = "active" /\ bgJob'[x].failures = bgJob[x].failures
        /\ bgJob'[x].stalls = bgJob[x].stalls
        /\ bgWorker'[w].pc = "throw" /\ bgWorker'[w].run = x
    BY <1>a, <2>1 DEF JobRow, IdleWorker
  <2>3. bgJob[x].failures < AttemptsOf(bgRun[x].type) /\ bgJob[x].stalls < 2
    BY <1>0, <2>1 DEF Marks, JobsHaveAttempts
  <2>4. /\ \A v \in JobWorkers \ {w} : bgWorker'[v] = bgWorker[v]
        /\ \A y \in JobRuns \ {x} : bgJob'[y] = bgJob[y]
    BY <1>a, <2>1
  <2>5. /\ bgJob[x].failures <= AttemptsOf(bgRun[x].type)
        /\ bgRun[x].status = "SUCCESS" => output[x].written
    BY <1>0 DEF Marks, JobsHaveAttempts, RunsAreMarked
  <2> QED
    BY <1>b, <2>1, <2>2, <2>3, <2>4, <2>5
<1>d. bgWorker[w].pc # "idle" =>
          /\ bgJob[r].failures <= AttemptsOf(bgRun[r].type)
          /\ bgRun[r].status = "SUCCESS" => output[r].written
          /\ bgJob[r].state \notin {"none", "completed", "failed"}
  BY <1>0, <1>a, <1>c DEF Marks, JobsHaveAttempts, RunsAreMarked
<1>2. ASSUME ReadInput(w) \/ HandlerThrows(w) PROVE Marks'
  <2>1. /\ bgWorker[w].pc # "idle"
        /\ UNCHANGED <<request, bgRun, output, bgJob, markLost>>
    BY <1>2 DEF ReadInput, HandlerThrows
  <2>2. bgWorker'[w].pc \in {"catch", "write"} /\ bgWorker'[w].run = r
    BY <1>a, <1>2 DEF ReadInput, HandlerThrows, WorkerRow
  <2>3. \A v \in JobWorkers \ {w} : bgWorker'[v] = bgWorker[v]
    BY <1>a, <1>2 DEF ReadInput, HandlerThrows
  <2> QED
    BY <1>b, <1>c, <1>d, <2>1, <2>2, <2>3
<1>3. ASSUME WriteOutput(w) PROVE Marks'
  <2>1. /\ bgWorker[w].pc # "idle"
        /\ UNCHANGED <<request, bgRun, bgJob, markLost>>
    BY <1>3 DEF WriteOutput
  <2>2. bgWorker'[w].pc = "mark" /\ bgWorker'[w].run = r /\ output'[r].written
    BY <1>a, <1>c, <1>3 DEF WriteOutput, WorkerRow, OutputRow
  <2>3. /\ \A v \in JobWorkers \ {w} : bgWorker'[v] = bgWorker[v]
        /\ \A x \in JobRuns \ {r} : output'[x] = output[x]
    BY <1>a, <1>3 DEF WriteOutput
  <2> QED
    BY <1>b, <1>c, <1>d, <2>1, <2>2, <2>3
<1>4. ASSUME MarkRunSuccess(w) PROVE Marks'
  <2>1. /\ bgWorker[w].pc = "mark"
        /\ UNCHANGED <<request, output, bgJob, markLost>>
    BY <1>4 DEF MarkRunSuccess
  <2>2. bgWorker'[w].pc = "return" /\ bgWorker'[w].run = r
    BY <1>a, <1>4 DEF MarkRunSuccess, WorkerRow
  <2>3. bgRun'[r].status = "SUCCESS" /\ bgRun'[r].type = bgRun[r].type
    BY <1>a, <1>c, <1>4 DEF MarkRunSuccess, RunRow
  <2>4. /\ \A v \in JobWorkers \ {w} : bgWorker'[v] = bgWorker[v]
        /\ \A x \in JobRuns \ {r} : bgRun'[x] = bgRun[x]
    BY <1>a, <1>4 DEF MarkRunSuccess
  <2>5. output[r].written
    BY <1>0, <2>1 DEF Marks, WorkersHaveDone
  <2> QED
    BY <1>b, <1>c, <1>d, <2>1, <2>2, <2>3, <2>4, <2>5
<1>5. ASSUME MarkRunFailed(w) PROVE Marks'
  <2>1. /\ bgWorker[w].pc = "catch"
        /\ UNCHANGED <<request, output, bgJob, markLost>>
    BY <1>5 DEF MarkRunFailed
  <2>2. /\ bgWorker'[w].pc = IF Swallows(bgRun[r].type) THEN "return" ELSE "throw"
        /\ bgWorker'[w].run = r
    BY <1>a, <1>5 DEF MarkRunFailed, WorkerRow
  <2>3. bgRun'[r].status = "FAILED" /\ bgRun'[r].type = bgRun[r].type
    BY <1>a, <1>c, <1>5, <2>1 DEF MarkRunFailed, RunRow
  <2>4. /\ \A v \in JobWorkers \ {w} : bgWorker'[v] = bgWorker[v]
        /\ \A x \in JobRuns \ {r} : bgRun'[x] = bgRun[x]
    BY <1>a, <1>5 DEF MarkRunFailed
  <2> QED
    BY <1>b, <1>c, <1>d, <2>1, <2>2, <2>3, <2>4 DEF Swallows
<1>5c. ASSUME CloseThrows(w) PROVE Marks'
  <2>1. /\ bgWorker[w].pc = "return" /\ bgRun[r].type = "print"
        /\ UNCHANGED <<request, bgRun, output, bgJob, markLost>>
    BY <1>5c DEF CloseThrows
  <2>2. bgWorker'[w].pc = "throw" /\ bgWorker'[w].run = r
    BY <1>a, <1>5c DEF CloseThrows, WorkerRow
  <2>3. \A v \in JobWorkers \ {w} : bgWorker'[v] = bgWorker[v]
    BY <1>a, <1>5c DEF CloseThrows
  <2>4. bgRun[r].status = "SUCCESS"
    BY <1>0, <2>1 DEF Marks, WorkersHaveDone
  <2> QED
    BY <1>b, <1>c, <1>d, <2>1, <2>2, <2>3, <2>4
<1>5f. ASSUME MarkFailedThrows(w) PROVE Marks'
  <2>1. /\ bgWorker[w].pc = "catch" /\ markLost' = markLost \cup {r}
        /\ UNCHANGED <<request, bgRun, output, bgJob>>
    BY <1>5f DEF MarkFailedThrows
  <2>2. bgWorker'[w].pc = "throw" /\ bgWorker'[w].run = r
    BY <1>a, <1>5f DEF MarkFailedThrows, WorkerRow
  <2>3. \A v \in JobWorkers \ {w} : bgWorker'[v] = bgWorker[v]
    BY <1>a, <1>5f DEF MarkFailedThrows
  <2> QED
    BY <1>b, <1>c, <1>d, <2>1, <2>2, <2>3
<1>6. ASSUME JobReturns(w) PROVE Marks'
  <2>1. /\ bgWorker[w].pc = "return"
        /\ UNCHANGED <<request, bgRun, output, markLost>>
    BY <1>6 DEF JobReturns
  <2>2. bgWorker'[w] = IdleWorker
    BY <1>a, <1>6 DEF JobReturns
  <2>3. /\ bgJob'[r].state = "completed" /\ bgJob'[r].failures = bgJob[r].failures
        /\ bgJob'[r].stalls = bgJob[r].stalls
    BY <1>a, <1>c, <1>6, <2>1 DEF JobReturns, JobRow
  <2>4. /\ \A v \in JobWorkers \ {w} : bgWorker'[v] = bgWorker[v]
        /\ \A x \in JobRuns \ {r} : bgJob'[x] = bgJob[x]
    BY <1>a, <1>6 DEF JobReturns
  <2>5. \/ bgRun[r].status = "SUCCESS"
        \/ bgRun[r].status = "FAILED" /\ bgRun[r].type = "invoice"
    BY <1>0, <2>1 DEF Marks, WorkersHaveDone
  <2>6. bgWorker'[w].pc = "idle" /\ bgWorker'[w].run = Nobody
    BY <2>2 DEF IdleWorker
  <2> QED
    BY <1>b, <1>c, <1>d, <2>1, <2>3, <2>4, <2>5, <2>6
<1>7. ASSUME JobThrows(w) PROVE Marks'
  <2> DEFINE j == bgJob[r]
             n == j.failures + 1
             next == IF n < AttemptsOf(bgRun[r].type) THEN "waiting" ELSE "failed"
  <2>1. /\ bgWorker[w].pc = "throw" /\ r \in JobRuns
        /\ UNCHANGED <<request, bgRun, output, markLost>>
    BY <1>c, <1>7 DEF JobThrows
  <2>2. bgWorker'[w].pc = "idle" /\ bgWorker'[w].run = Nobody
    BY <1>a, <1>7 DEF JobThrows, IdleWorker
  <2>3. bgJob' = [bgJob EXCEPT ![r] = [j EXCEPT !.failures = n, !.state = next]]
    BY <1>7 DEF JobThrows, Requeued
  <2>4. bgJob'[r].state = next /\ bgJob'[r].failures = n /\ bgJob'[r].stalls = j.stalls
    <3>1. j \in JobRow /\ bgJob'[r] = [j EXCEPT !.failures = n, !.state = next]
      BY <1>a, <2>1, <2>3
    <3> HIDE DEF j, n, next
    <3> QED
      BY <3>1 DEF JobRow
  <2>5. /\ \A v \in JobWorkers \ {w} : bgWorker'[v] = bgWorker[v]
        /\ \A x \in JobRuns \ {r} : bgJob'[x] = bgJob[x]
    BY <1>a, <1>7, <2>3 DEF JobThrows
  <2>6. bgRun[r].status \in {"SUCCESS", "FAILED"} \/ r \in markLost
    BY <1>0, <2>1 DEF Marks, WorkersHaveDone
  <2>7. /\ next \in {"waiting", "failed"}
        /\ next = "waiting" => n < AttemptsOf(bgRun[r].type)
    OBVIOUS
  <2>8. n <= AttemptsOf(bgRun[r].type) /\ j.stalls < 2
    BY <1>a, <1>c, <2>1 DEF JobRow, AttemptsOf
  <2> HIDE DEF j, n, next
  <2> QED
    BY <1>b, <1>c, <1>d, <2>1, <2>2, <2>4, <2>5, <2>6, <2>7, <2>8
<1>8. ASSUME JobWorkerDies(w) PROVE Marks'
  <2> DEFINE j == bgJob[r]
             next == IF j.stalls = 0 THEN "waiting" ELSE "failed"
  <2>1. /\ bgWorker[w].pc # "idle" /\ r \in JobRuns
        /\ UNCHANGED <<request, bgRun, output, markLost>>
    BY <1>c, <1>8 DEF JobWorkerDies
  <2>2. bgWorker'[w].pc = "idle" /\ bgWorker'[w].run = Nobody
    BY <1>a, <1>8 DEF JobWorkerDies, IdleWorker
  <2>3. bgJob' = [bgJob EXCEPT ![r] = [j EXCEPT !.stalls = j.stalls + 1, !.state = next]]
    BY <1>8 DEF JobWorkerDies, Lost
  <2>4. bgJob'[r].state = next /\ bgJob'[r].stalls = j.stalls + 1 /\ bgJob'[r].failures = j.failures
    <3>1. j \in JobRow /\ bgJob'[r] = [j EXCEPT !.stalls = j.stalls + 1, !.state = next]
      BY <1>a, <2>1, <2>3
    <3> HIDE DEF j, next
    <3> QED
      BY <3>1 DEF JobRow
  <2>5. /\ \A v \in JobWorkers \ {w} : bgWorker'[v] = bgWorker[v]
        /\ \A x \in JobRuns \ {r} : bgJob'[x] = bgJob[x]
    BY <1>a, <1>8, <2>3 DEF JobWorkerDies
  <2>6. /\ next \in {"waiting", "failed"}
        /\ next = "waiting" => j.stalls + 1 < 2
        /\ next = "failed" => ~(j.stalls + 1 < 2)
    BY <1>a, <2>1 DEF JobRow
  <2> HIDE DEF j, next
  <2>7. /\ bgJob'[r].failures <= AttemptsOf(bgRun[r].type)
        /\ bgJob'[r].failures < AttemptsOf(bgRun[r].type)
    BY <1>c, <1>d, <2>1, <2>4 DEF j
  <2> QED
    BY <1>b, <1>c, <1>d, <2>1, <2>2, <2>4, <2>5, <2>6, <2>7
<1> QED
  BY <1>1, <1>1u, <1>2, <1>3, <1>4, <1>5, <1>5c, <1>5f, <1>6, <1>7, <1>8 DEF WorkerStep

LEMMA MarkStep == MarkInv /\ CorrectedIsWritten /\ [BgNext]_bgVars => MarkInv'
<1> SUFFICES ASSUME MarkInv, CorrectedIsWritten, [BgNext]_bgVars PROVE MarkInv'
  OBVIOUS
<1>1. BgTypeOK'
  BY TypeStep
<1>2. BgTypeOK /\ Marks
  BY DEF MarkInv, Marks
<1>3. CASE UNCHANGED bgVars
  BY <1>1, <1>2, <1>3
     DEF bgVars, MarkInv, Marks, JobsHaveAttempts, QueuedIsRequested, WorkersHoldJobs, WorkersHaveDone, RunsAreMarked
<1>4. ASSUME NEW e \in Editors, EditStep(e) PROVE MarkInv'
  <2>1. UNCHANGED <<request, bgRun, bgJob, bgWorker, markLost>> /\ \A r \in JobRuns : output'[r].written = output[r].written
    BY <1>2, <1>4 DEF EditStep, ReadPreview, WritePreview, BgTypeOK, OutputRow
  <2>2. JobsHaveAttempts' /\ QueuedIsRequested' /\ WorkersHoldJobs' /\ RunsAreMarked'
    BY <1>2, <2>1 DEF Marks, JobsHaveAttempts, QueuedIsRequested, WorkersHoldJobs, RunsAreMarked
  <2>3. \A w \in JobWorkers : bgWorker[w].pc = "mark" => bgWorker[w].run \in JobRuns
    BY <1>2 DEF Marks, WorkersHoldJobs, BgTypeOK, WorkerRow
  <2>4. WorkersHaveDone'
    BY <1>2, <2>1, <2>3 DEF Marks, WorkersHaveDone
  <2> QED
    BY <1>1, <2>2, <2>4 DEF MarkInv
<1>5. ASSUME Marks' PROVE MarkInv'
  BY <1>1, <1>5 DEF Marks, MarkInv
<1> QED
  BY <1>1, <1>3, <1>4, <1>5, RequestMarks, WorkerMarks DEF BgNext

-----------------------------------------------------------------------------
(* The corrections of a preview.                                            *)

LEMMA EditInvStep == MarkInv /\ EditInv /\ [BgNext]_bgVars => EditInv'
<1> SUFFICES ASSUME MarkInv, EditInv, [BgNext]_bgVars PROVE EditInv'
  OBVIOUS
<1>0. BgTypeOK /\ WorkersHoldJobs /\ CorrectedIsWritten /\ FirstWrites /\ CorrectionsSurvive
  BY DEF MarkInv, EditInv
<1>a. /\ bgJob \in [JobRuns -> JobRow] /\ bgWorker \in [JobWorkers -> WorkerRow]
      /\ output \in [JobRuns -> OutputRow] /\ editor \in [Editors -> EditorRow]
      /\ saved \in [JobRuns -> SUBSET PreviewRows]
  BY <1>0 DEF BgTypeOK
<1>b. \A w \in JobWorkers : bgWorker[w].pc # "idle" => bgWorker[w].run \in JobRuns
  BY <1>0, <1>a DEF WorkersHoldJobs, WorkerRow
\* A step that neither writes a preview nor delivers a run for the first time
\* once more.
<1>c. ASSUME UNCHANGED <<output, editor, saved>>,
             \A r \in JobRuns : FirstDelivery(r)' => FirstDelivery(r),
             \A r \in JobRuns : FirstDelivery(r)' /\ bgJob'[r].state \in {"none", "waiting"} =>
                 bgJob[r].state \in {"none", "waiting"},
             \A w \in JobWorkers : bgWorker'[w].pc \in {"read", "write"} =>
                 /\ bgWorker'[w].run \in JobRuns
                 /\ \/ bgWorker[w].pc \in {"read", "write"} /\ bgWorker'[w].run = bgWorker[w].run
                    \/ bgJob[bgWorker'[w].run].state = "waiting"
      PROVE  EditInv'
  <2>1. CorrectedIsWritten'
    BY <1>0, <1>c DEF CorrectedIsWritten
  <2>2. CorrectionsSurvive'
    BY <1>0, <1>c DEF CorrectionsSurvive, FirstDelivery
  <2>3. ASSUME NEW r \in JobRuns, FirstDelivery(r)', bgJob'[r].state \in {"none", "waiting"}
        PROVE  ~output'[r].written
    BY <1>0, <1>c, <2>3 DEF FirstWrites
  <2>4. ASSUME NEW w \in JobWorkers, bgWorker'[w].pc \in {"read", "write"}, FirstDelivery(bgWorker[w].run)'
        PROVE  ~output'[bgWorker'[w].run].written
    <3>1. FirstDelivery(bgWorker'[w].run) /\ bgWorker'[w].run \in JobRuns
      BY <1>c, <2>4 DEF FirstDelivery
    <3>2. CASE bgWorker[w].pc \in {"read", "write"} /\ bgWorker'[w].run = bgWorker[w].run
      BY <1>0, <1>c, <3>1, <3>2 DEF FirstWrites
    <3>3. CASE bgJob[bgWorker'[w].run].state = "waiting"
      BY <1>0, <1>c, <3>1, <3>3 DEF FirstWrites
    <3> QED
      BY <1>c, <2>4, <3>2, <3>3
  <2>5. ASSUME NEW e \in Editors, editor'[e] # IdleEditor, FirstDelivery(editor[e].run)'
        PROVE  saved'[editor'[e].run] \subseteq editor'[e].edits
    <3>1. editor[e].run \in JobRuns /\ editor[e] # IdleEditor /\ FirstDelivery(editor[e].run)
      BY <1>0, <1>c, <2>5 DEF CorrectedIsWritten, FirstDelivery
    <3> QED
      BY <1>0, <1>c, <3>1 DEF FirstWrites
  <2>6. FirstWrites'
    BY <2>3, <2>4, <2>5 DEF FirstWrites
  <2> QED
    BY <2>1, <2>2, <2>6 DEF EditInv
<1>1. CASE UNCHANGED bgVars
  BY <1>b, <1>c, <1>1 DEF bgVars, FirstDelivery
<1>2. ASSUME NEW r \in JobRuns, RequestStep(r) PROVE EditInv'
  <2>1. UNCHANGED <<output, editor, saved, bgWorker>>
    BY <1>2 DEF RequestStep, ImportFast, FallBack, StartRun, CreateBgRun, StoreInput, EnqueueRun
  <2>2. bgJob' = bgJob \/ bgJob' = [bgJob EXCEPT ![r].state = "waiting"]
    BY <1>2 DEF RequestStep, ImportFast, FallBack, StartRun, CreateBgRun, StoreInput, EnqueueRun
  <2>3. bgJob[r].state = "none"
    <3>1. request[r] # "done"
      BY <1>2 DEF RequestStep, ImportFast, FallBack, StartRun, CreateBgRun, StoreInput, EnqueueRun
    <3> QED
      BY <3>1 DEF MarkInv, QueuedIsRequested
  <2>4. \A x \in JobRuns : /\ bgJob'[x].failures = bgJob[x].failures /\ bgJob'[x].stalls = bgJob[x].stalls
                           /\ x # r => bgJob'[x] = bgJob[x]
    BY <1>a, <2>2 DEF JobRow
  <2> QED
    BY <1>b, <1>c, <2>1, <2>3, <2>4 DEF FirstDelivery
<1>3. ASSUME NEW w \in JobWorkers, NEW x \in JobRuns, TakeRun(w, x) \/ TakeRunUnmarked(w, x) PROVE EditInv'
  <2>1. UNCHANGED <<output, editor, saved>> /\ bgJob[x].state = "waiting"
    BY <1>3 DEF TakeRun, TakeRunUnmarked, Takes
  <2>2. /\ \A y \in JobRuns \ {x} : bgJob'[y] = bgJob[y]
        /\ bgJob'[x].failures = bgJob[x].failures /\ bgJob'[x].stalls = bgJob[x].stalls
    BY <1>a, <1>3 DEF TakeRun, TakeRunUnmarked, Takes, JobRow
  <2>3. /\ \A v \in JobWorkers \ {w} : bgWorker'[v] = bgWorker[v]
        /\ bgWorker'[w].run = x
    BY <1>a, <1>3 DEF TakeRun, TakeRunUnmarked, IdleWorker
  <2> QED
    BY <1>b, <1>c, <2>1, <2>2, <2>3 DEF FirstDelivery
<1>4. ASSUME NEW w \in JobWorkers,
             \/ ReadInput(w) \/ MarkRunSuccess(w) \/ HandlerThrows(w) \/ CloseThrows(w)
             \/ MarkRunFailed(w) \/ MarkFailedThrows(w)
      PROVE  EditInv'
  <2>1. UNCHANGED <<output, editor, saved, bgJob>>
    BY <1>4 DEF ReadInput, MarkRunSuccess, HandlerThrows, CloseThrows, MarkRunFailed, MarkFailedThrows
  <2>2. \A v \in JobWorkers \ {w} : bgWorker'[v] = bgWorker[v]
    BY <1>a, <1>4 DEF ReadInput, MarkRunSuccess, HandlerThrows, CloseThrows, MarkRunFailed, MarkFailedThrows
  <2>3. bgWorker'[w].pc \in {"read", "write"} =>
            bgWorker[w].pc \in {"read", "write"} /\ bgWorker'[w].run = bgWorker[w].run
    BY <1>a, <1>4 DEF ReadInput, MarkRunSuccess, HandlerThrows, CloseThrows, MarkRunFailed, MarkFailedThrows, WorkerRow
  <2> QED
    BY <1>b, <1>c, <2>1, <2>2, <2>3 DEF FirstDelivery
<1>5. ASSUME NEW w \in JobWorkers, JobReturns(w) \/ JobThrows(w) \/ JobWorkerDies(w) PROVE EditInv'
  <2>1. UNCHANGED <<output, editor, saved>> /\ bgWorker[w].pc # "idle"
    BY <1>5 DEF JobReturns, JobThrows, JobWorkerDies
  <2>0. PICK r \in JobRuns : r = bgWorker[w].run
    BY <1>b, <2>1
  <2>2. \A v \in JobWorkers \ {w} : bgWorker'[v] = bgWorker[v]
    BY <1>a, <1>5, <2>0 DEF JobReturns, JobThrows, JobWorkerDies
  <2>3. bgWorker'[w].pc = "idle"
    BY <1>a, <1>5, <2>0 DEF JobReturns, JobThrows, JobWorkerDies, IdleWorker
  <2>4. \A x \in JobRuns \ {r} : bgJob'[x] = bgJob[x]
    BY <1>a, <1>5, <2>0 DEF JobReturns, JobThrows, JobWorkerDies
  <2>5. FirstDelivery(r)' => FirstDelivery(r) /\ bgJob'[r].state = "completed"
    <3>1. bgJob[r] \in JobRow
      BY <1>a, <2>0, <2>1
    <3>2. CASE JobReturns(w)
      BY <1>a, <2>0, <2>1, <3>1, <3>2 DEF JobReturns, JobRow, FirstDelivery
    <3>3. CASE JobThrows(w)
      <4>1. bgJob'[r].failures = bgJob[r].failures + 1
        BY <1>a, <2>0, <2>1, <3>1, <3>3 DEF JobThrows, Requeued, JobRow
      <4> QED
        BY <3>1, <4>1 DEF FirstDelivery, JobRow
    <3>4. CASE JobWorkerDies(w)
      <4>1. bgJob'[r].stalls = bgJob[r].stalls + 1
        BY <1>a, <2>0, <2>1, <3>1, <3>4 DEF JobWorkerDies, Lost, JobRow
      <4> QED
        BY <3>1, <4>1 DEF FirstDelivery, JobRow
    <3> QED
      BY <1>5, <3>2, <3>3, <3>4
  <2> QED
    BY <1>b, <1>c, <2>0, <2>1, <2>2, <2>3, <2>4, <2>5 DEF FirstDelivery
<1>6. ASSUME NEW w \in JobWorkers, WriteOutput(w) PROVE EditInv'
  <2> DEFINE r == bgWorker[w].run
  <2>1. /\ UNCHANGED <<bgJob, editor, saved>> /\ r \in JobRuns /\ bgWorker[w].pc = "write"
        /\ bgJob[r].state = "active"
    BY <1>0, <1>b, <1>6 DEF WriteOutput, WorkersHoldJobs
  <2>2. /\ \A x \in JobRuns \ {r} : output'[x] = output[x]
        /\ output'[r].written
    BY <1>a, <1>6, <2>1 DEF WriteOutput, OutputRow
  <2>3. /\ \A v \in JobWorkers \ {w} : /\ bgWorker'[v] = bgWorker[v]
                                       /\ bgWorker[v].pc # "idle" => bgWorker[v].run \in JobRuns \ {r}
        /\ bgWorker'[w].pc = "mark"
    BY <1>0, <1>a, <1>b, <1>6, <2>1 DEF WriteOutput, WorkersHoldJobs, WorkerRow
  <2>4. FirstDelivery(r) => ~output[r].written /\ saved[r] = {}
    BY <1>0, <2>1 DEF FirstWrites, CorrectedIsWritten
  <2>5. CorrectedIsWritten'
    BY <1>0, <2>1, <2>2 DEF CorrectedIsWritten
  <2>6. CorrectionsSurvive'
    BY <1>0, <2>1, <2>2, <2>4 DEF CorrectionsSurvive, FirstDelivery
  <2>7. FirstWrites'
    <3>1. \A x \in JobRuns : FirstDelivery(x)' <=> FirstDelivery(x)
      BY <2>1 DEF FirstDelivery
    <3>2. ASSUME NEW x \in JobRuns, FirstDelivery(x)', bgJob'[x].state \in {"none", "waiting"}
          PROVE  ~output'[x].written
      BY <1>0, <2>1, <2>2, <3>1, <3>2 DEF FirstWrites
    <3>3. ASSUME NEW v \in JobWorkers, bgWorker'[v].pc \in {"read", "write"}, FirstDelivery(bgWorker[v].run)'
          PROVE  ~output'[bgWorker'[v].run].written
      <4>1. v # w /\ bgWorker'[v] = bgWorker[v] /\ bgWorker[v].run \in JobRuns \ {r}
        BY <2>3, <3>3
      <4>2. FirstDelivery(bgWorker[v].run)
        BY <2>1, <3>3, <4>1 DEF FirstDelivery
      <4> QED
        BY <1>0, <2>2, <3>3, <4>1, <4>2 DEF FirstWrites
    <3>4. ASSUME NEW e \in Editors, editor'[e] # IdleEditor, FirstDelivery(editor[e].run)'
          PROVE  saved'[editor'[e].run] \subseteq editor'[e].edits
      <4>1. FirstDelivery(editor[e].run) /\ editor[e] # IdleEditor
        BY <2>1, <3>4 DEF FirstDelivery
      <4> QED
        BY <1>0, <2>1, <4>1 DEF FirstWrites
    <3> QED
      BY <3>2, <3>3, <3>4 DEF FirstWrites
  <2> QED
    BY <2>5, <2>6, <2>7 DEF EditInv
<1>7. ASSUME NEW e \in Editors, NEW r \in JobRuns, NEW row \in PreviewRows, ReadPreview(e, r, row) PROVE EditInv'
  <2>1. /\ UNCHANGED <<bgJob, bgWorker, output, saved>> /\ output[r].written
        /\ editor'[e].run = r /\ editor'[e].row = row /\ editor'[e].edits = output[r].edits
        /\ \A d \in Editors \ {e} : editor'[d] = editor[d]
    BY <1>a, <1>7 DEF ReadPreview
  <2>2. CorrectedIsWritten'
    BY <1>0, <2>1 DEF CorrectedIsWritten
  <2>3. FirstWrites' /\ CorrectionsSurvive'
    BY <1>0, <2>1 DEF FirstWrites, FirstDelivery, CorrectionsSurvive
  <2> QED
    BY <2>2, <2>3 DEF EditInv
<1>8. ASSUME NEW e \in Editors, WritePreview(e) PROVE EditInv'
  <2> DEFINE r == editor[e].run
  <2>1. /\ UNCHANGED <<bgJob, bgWorker>> /\ r \in JobRuns /\ output[r].written /\ editor[e] # IdleEditor
        /\ editor'[e] = IdleEditor /\ \A d \in Editors \ {e} : editor'[d] = editor[d]
    BY <1>0, <1>a, <1>8 DEF WritePreview, CorrectedIsWritten
  <2>2. /\ \A x \in JobRuns : output'[x].written = output[x].written
        /\ \A x \in JobRuns \ {r} : output'[x] = output[x] /\ saved'[x] = saved[x]
        /\ output'[r].edits = editor[e].edits \cup {editor[e].row}
        /\ \/ saved'[r] = saved[r]
           \/ saved'[r] = saved[r] \cup {editor[e].row} /\ \A d \in Editors \ {e} : editor[d].run # r
    BY <1>a, <1>8, <2>1 DEF WritePreview, OutputRow, Corrected
  <2>3. CorrectedIsWritten'
    BY <1>0, <2>1, <2>2 DEF CorrectedIsWritten
  <2>4. FirstDelivery(r) => saved[r] \subseteq editor[e].edits
    BY <1>0, <2>1 DEF FirstWrites
  <2>5. CorrectionsSurvive'
    BY <1>0, <2>1, <2>2, <2>4 DEF CorrectionsSurvive, FirstDelivery
  \* Whoever else has read the preview of r made saved[r] stay as it was.
  <2>6. ASSUME NEW d \in Editors, editor'[d] # IdleEditor, FirstDelivery(editor[d].run)'
        PROVE  saved'[editor'[d].run] \subseteq editor'[d].edits
    <3>1. d # e /\ editor'[d] = editor[d] /\ editor[d] # IdleEditor /\ editor[d].run \in JobRuns
      BY <1>0, <2>1, <2>6 DEF CorrectedIsWritten
    <3>2. FirstDelivery(editor[d].run)
      BY <2>1, <2>6, <3>1 DEF FirstDelivery
    <3>3. saved[editor[d].run] \subseteq editor[d].edits
      BY <1>0, <3>1, <3>2 DEF FirstWrites
    <3>4. saved'[editor[d].run] = saved[editor[d].run]
      BY <2>2, <3>1
    <3> QED
      BY <3>1, <3>3, <3>4
  <2>7. FirstWrites'
    BY <1>0, <1>b, <2>1, <2>2, <2>6 DEF FirstWrites, FirstDelivery
  <2> QED
    BY <2>3, <2>5, <2>7 DEF EditInv
<1> QED
  BY <1>1, <1>2, <1>3, <1>4, <1>5, <1>6, <1>7, <1>8 DEF BgNext, WorkerStep, EditStep

-----------------------------------------------------------------------------
LEMMA Invariant == BgSpec => [](MarkInv /\ EditInv)
<1>1. MarkInv /\ EditInv /\ [BgNext]_bgVars => (MarkInv /\ EditInv)'
  BY MarkStep, EditInvStep DEF EditInv
<1> QED
  BY <1>1, Initially, PTL DEF BgSpec

\* Runs, jobs, artifacts and workers keep their types, and no job fails more
\* often than its queue gives it attempts, nor is lost more than twice.
THEOREM TypeCorrect == BgSpec => [](BgTypeOK /\ JobsHaveAttempts)
<1>1. MarkInv => BgTypeOK /\ JobsHaveAttempts
  BY DEF MarkInv
<1> QED
  BY <1>1, Invariant, PTL

\* The row of a run tells how it went, whatever throws or dies: SUCCESS has its
\* output, what the queue completed is marked and so is what it gave up, unless
\* two workers died on it or the database refused a mark of its last attempt.
THEOREM RunsAreMarkedCorrect == BgSpec => []RunsAreMarked
<1>1. MarkInv => RunsAreMarked
  BY DEF MarkInv
<1> QED
  BY <1>1, Invariant, PTL

\* A correction that was answered with success while no other was under way
\* stays in the preview, however later ones overlap, until the run is delivered
\* again.
THEOREM CorrectionsSurviveCorrect == BgSpec => []CorrectionsSurvive
<1>1. EditInv => CorrectionsSurvive
  BY DEF EditInv
<1> QED
  BY <1>1, Invariant, PTL
=============================================================================
