CONSTANTS
    c1 = c1
    c2 = c2
    w1 = w1
    x1 = x1
    x2 = x2
    b1 = b1
    b2 = b2
    v1 = v1
    v2 = v2
    e1 = e1
    e2 = e2
    f1 = f1
    r1 = r1
    r2 = r2
    Schedulers <- MCSchedulers
    Workers <- MCWorkers
    Runs <- MCRuns
    MaxDay = 2
    Attempts = 2
    FaultSets <- MCFaultSets
    NoRun = NoRun
    JobRuns <- MCJobRuns
    JobWorkers <- MCJobWorkers
    Pdfs <- MCPdfs
    PreviewRows <- MCPreviewRows
    Editors <- MCEditors
    JobFaults <- MCJobFaults
    Nobody = Nobody
SPECIFICATION MCSpec
CHECK_DEADLOCK FALSE
INVARIANTS SuccessMeansMailed MailedOnce RunsAreMarked CorrectionsSurvive
PROPERTIES JobsLeaveTheQueues
