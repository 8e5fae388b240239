------------------------------- MODULE MCQueues -------------------------------
(* The daily report and the background runs share the Redis server but no   *)
(* state, so their interleavings show nothing: each behaviour is of one     *)
(* part, chosen at the start, and the others stay as they begin.  Liveness  *)
(* forbids symmetry reduction.                                              *)
EXTENDS CronRun, BackgroundRuns

CONSTANTS c1, c2, w1, x1, x2, b1, b2, r1, r2, f1, v1, v2, e1, e2

MCSchedulers == {c1, c2}
MCWorkers == {w1}
MCFaultSets == {FaultKinds, {"mail", "scheduler"}}
MCRuns == {x1, x2}

MCJobRuns == {b1, b2}
MCJobWorkers == {v1, v2}
MCPdfs == {f1}
MCPreviewRows == {r1, r2}
MCEditors == {e1, e2}
MCJobFaults == {"handler", "mark", "worker"}

VARIABLE part

mcVars == <<part, vars, bgVars>>

MCInit == part \in {"report", "invoices", "other"} /\ Init /\ BgInit

ReportPart(A) == part = "report" /\ A /\ UNCHANGED <<part, bgVars>>
RunsPart(A) == part # "report" /\ A /\ UNCHANGED <<part, vars>>

\* Runs meet only through the file of an invoice: the other types get one run.
OfThisPart ==
    \A r \in JobRuns :
        bgRun'[r].file # Nobody => IF part = "invoices" THEN bgRun'[r].type = "invoice"
                                   ELSE bgRun'[r].type # "invoice" /\ r = b1

MCNext == ReportPart(Next) \/ RunsPart(BgNext /\ OfThisPart)

\* The schedulers and the workers keep running their event loops; a request may
\* stop anywhere.
MCFairness ==
    /\ \A c \in Schedulers : WF_mcVars(ReportPart(Schedule(c)))
    /\ \A w \in Workers : WF_mcVars(ReportPart(Work(w)))
    /\ \A w \in JobWorkers : WF_mcVars(RunsPart(WorkerStep(w)))

MCSpec == MCInit /\ [][MCNext]_mcVars /\ MCFairness
MCSafe == MCInit /\ [][MCNext]_mcVars

\* What the queues hold leaves them, the day's report as well as the other runs.
JobsLeaveTheQueues == JobsSettle /\ QueuedRunsSettle
=============================================================================
