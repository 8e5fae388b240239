------------------------------- MODULE CronRun -------------------------------
(***************************************************************************)
(* The daily contract-expiry report: ContractExpiryScheduler opens a       *)
(* CronJobRun for the day (CronRunnerService.beginRun) and puts a job on   *)
(* the "cron" queue, a worker dispatches it to ContractExpiryCronService,  *)
(* which sends the mail and marks the run.                                 *)
(*                                                                         *)
(* Schedulers and workers are separate processes over PostgreSQL and Redis *)
(* and may die between any two steps.  The queue is BullMQ as the code     *)
(* uses it: a job id is added once, a job that throws is retried up to its *)
(* attempts, a job whose worker died is taken back once.                   *)
(***************************************************************************)
EXTENDS Integers, FiniteSets

CONSTANTS
    Schedulers, Workers,
    Runs,          \* ids a CronJobRun row may get
    MaxDay,        \* bound: days modelled
    Attempts,      \* attempts of a job (5 in defaultJobOpts)
    FaultSets,     \* what may fail, one set for each deployment modelled
    NoRun

ASSUME BoundsAssumption == MaxDay \in Nat \ {0} /\ Attempts \in Nat \ {0}
FaultKinds == {"mail", "db", "scheduler", "worker"}
ASSUME FaultsAssumption == FaultSets \subseteq SUBSET FaultKinds
ASSUME NoRunAssumption == NoRun \notin Runs
ASSUME RunsAssumption == IsFiniteSet(Runs)

VARIABLES
    today,         \* the day the clocks show
    run,           \* the CronJobRun table
    job,           \* the queue: the job of each run, if one was added
    sched,         \* each scheduler process
    worker,        \* each worker process
    mails,         \* how many times the report of each run has been mailed
    faults         \* what may fail: chosen once, at the start

vars == <<today, run, job, sched, worker, mails, faults>>

Absent == [day |-> 0, status |-> "ABSENT", order |-> 0]
JobStates == {"none", "waiting", "active", "completed", "failed"}
IdleScheduler == [pc |-> "idle", run |-> NoRun, firedDay |-> 0]
StoppedWorker == [pc |-> "stopped", run |-> NoRun, registered |-> FALSE]

RunsOf(day) == {x \in Runs : run[x].day = day}
\* findFirst, newest first.
LatestRun(day) == CHOOSE x \in RunsOf(day) : \A y \in RunsOf(day) : run[y].order <= run[x].order

Init ==
    /\ today = 1
    /\ run = [x \in Runs |-> Absent]
    /\ job = [x \in Runs |-> [state |-> "none", failures |-> 0, stalls |-> 0]]
    /\ sched = [c \in Schedulers |-> IdleScheduler]
    /\ worker = [w \in Workers |-> StoppedWorker]
    /\ mails = [x \in Runs |-> 0]
    /\ faults \in FaultSets

NextDay ==
    /\ today < MaxDay
    /\ today' = today + 1
    /\ UNCHANGED <<run, job, sched, worker, mails, faults>>

-----------------------------------------------------------------------------
(* The scheduler: handleDaily, once a day.                                  *)

\* Only a run that succeeded makes the day done.
Skippable(day) == RunsOf(day) # {} /\ run[LatestRun(day)].status = "SUCCESS"

\* beginRun's findFirst; READ COMMITTED keeps no lock on what it did not find.
BeginRun(c) ==
    /\ sched[c].pc = "idle"
    /\ sched[c].firedDay < today
    /\ sched' = [sched EXCEPT ![c] =
                    IF Skippable(today)
                    THEN [pc |-> "idle", run |-> NoRun, firedDay |-> today]
                    ELSE IF RunsOf(today) # {}
                    THEN [pc |-> "enqueue", run |-> LatestRun(today), firedDay |-> today]
                    ELSE [pc |-> "create", run |-> NoRun, firedDay |-> today]]
    /\ UNCHANGED <<today, run, job, worker, mails, faults>>

\* A new run starts out FAILED.
NewRun(day) == [day |-> day, status |-> "FAILED", order |-> Cardinality(RunsOf(day)) + 1]

CreateRun(c, x) ==
    /\ sched[c].pc = "create"
    /\ run[x].status = "ABSENT"
    /\ run' = [run EXCEPT ![x] = NewRun(sched[c].firedDay)]
    /\ sched' = [sched EXCEPT ![c].pc = "enqueue", ![c].run = x]
    /\ UNCHANGED <<today, job, worker, mails, faults>>

\* queue.add with an id derived from the run: ignored when the id is known.
Enqueue(c) ==
    LET x == sched[c].run
    IN  /\ sched[c].pc = "enqueue"
        /\ job' = [job EXCEPT ![x].state = IF @ = "none" THEN "waiting" ELSE @]
        /\ sched' = [sched EXCEPT ![c].pc = "idle", ![c].run = NoRun]
        /\ UNCHANGED <<today, run, worker, mails, faults>>

SchedulerDies(c) ==
    /\ "scheduler" \in faults
    /\ sched[c].pc # "idle"
    /\ sched' = [sched EXCEPT ![c].pc = "idle", ![c].run = NoRun]
    /\ UNCHANGED <<today, run, job, worker, mails, faults>>

-----------------------------------------------------------------------------
(* The worker process: handlers are registered on module init, the queue is *)
(* listened to on application bootstrap.                                    *)

Register(w) ==
    /\ worker[w].pc = "stopped"
    /\ ~worker[w].registered
    /\ worker' = [worker EXCEPT ![w].registered = TRUE]
    /\ UNCHANGED <<today, run, job, sched, mails, faults>>

ListenOnModuleInit(w) ==
    /\ worker[w].pc = "stopped"
    /\ worker' = [worker EXCEPT ![w].pc = "idle"]
    /\ UNCHANGED <<today, run, job, sched, mails, faults>>
Listen(w) ==
    /\ worker[w].pc = "stopped"
    /\ worker[w].registered
    /\ worker' = [worker EXCEPT ![w].pc = "idle"]
    /\ UNCHANGED <<today, run, job, sched, mails, faults>>

\* dispatch: a job whose handler is not registered ends there, without error.
Take(w, x) ==
    /\ worker[w].pc = "idle"
    /\ job[x].state = "waiting"
    /\ job' = [job EXCEPT ![x].state = "active"]
    /\ worker' = [worker EXCEPT ![w].pc = IF worker[w].registered THEN "send" ELSE "complete",
                                ![w].run = x]
    /\ UNCHANGED <<today, run, sched, mails, faults>>

SendMail(w) ==
    /\ worker[w].pc = "send"
    /\ mails' = [mails EXCEPT ![worker[w].run] = @ + 1]
    /\ worker' = [worker EXCEPT ![w].pc = "markSuccess"]
    /\ UNCHANGED <<today, run, job, sched, faults>>

SendMailFails(w) ==
    /\ "mail" \in faults
    /\ worker[w].pc = "send"
    /\ worker' = [worker EXCEPT ![w].pc = "markFailed"]
    /\ UNCHANGED <<today, run, job, sched, mails, faults>>

MarkSuccess(w) ==
    /\ worker[w].pc = "markSuccess"
    /\ run' = [run EXCEPT ![worker[w].run].status = "SUCCESS"]
    /\ worker' = [worker EXCEPT ![w].pc = "complete"]
    /\ UNCHANGED <<today, job, sched, mails, faults>>

\* The mail is out, but the same try block sends the error to markFailed.
MarkSuccessFails(w) ==
    /\ "db" \in faults
    /\ worker[w].pc = "markSuccess"
    /\ worker' = [worker EXCEPT ![w].pc = "markFailed"]
    /\ UNCHANGED <<today, run, job, sched, mails, faults>>

\* A job that threw: another attempt while it has any left.
Retried(j) == [j EXCEPT !.failures = @ + 1,
                        !.state = IF j.failures + 1 < Attempts THEN "waiting" ELSE "failed"]

\* markFailed, then the error is thrown again and the queue retries.
MarkFailed(w, stored) ==
    LET x == worker[w].run
    IN  /\ worker[w].pc = "markFailed"
        /\ stored \/ "db" \in faults
        /\ run' = IF stored THEN [run EXCEPT ![x].status = "FAILED"] ELSE run
        /\ job' = [job EXCEPT ![x] = Retried(@)]
        /\ worker' = [worker EXCEPT ![w].pc = "idle", ![w].run = NoRun]
        /\ UNCHANGED <<today, sched, mails, faults>>

CompleteForgotten(w) ==
    /\ worker[w].pc = "complete"
    /\ job' = [job EXCEPT ![worker[w].run].state = "waiting"]
    /\ worker' = [worker EXCEPT ![w].pc = "idle", ![w].run = NoRun]
    /\ UNCHANGED <<today, run, sched, mails, faults>>
\* The handler returned: the queue moves the job to completed.
Complete(w) ==
    /\ worker[w].pc = "complete"
    /\ job' = [job EXCEPT ![worker[w].run].state = "completed"]
    /\ worker' = [worker EXCEPT ![w].pc = "idle", ![w].run = NoRun]
    /\ UNCHANGED <<today, run, sched, mails, faults>>

\* A dead worker's job is stalled: it is taken back once, then failed.
Stalled(j) == [j EXCEPT !.stalls = @ + 1,
                        !.state = IF j.stalls = 0 THEN "waiting" ELSE "failed"]

WorkerDies(w) ==
    LET x == worker[w].run
    IN  /\ "worker" \in faults
        /\ x # NoRun
        /\ job' = [job EXCEPT ![x] = Stalled(@)]
        /\ worker' = [worker EXCEPT ![w] = StoppedWorker]
        /\ UNCHANGED <<today, run, sched, mails, faults>>

Schedule(c) == BeginRun(c) \/ (\E x \in Runs : CreateRun(c, x)) \/ Enqueue(c)

Work(w) ==
    \/ Register(w)
    \/ Listen(w)
    \/ \E x \in Runs : Take(w, x)
    \/ SendMail(w)
    \/ SendMailFails(w)
    \/ MarkSuccess(w)
    \/ MarkSuccessFails(w)
    \/ \E stored \in BOOLEAN : MarkFailed(w, stored)
    \/ Complete(w)

Next ==
    \/ NextDay
    \/ \E c \in Schedulers : Schedule(c) \/ SchedulerDies(c)
    \/ \E w \in Workers : Work(w) \/ WorkerDies(w)

Spec == Init /\ [][Next]_vars

\* The scheduler process and the worker process keep running their event loops.
Fairness ==
    /\ \A c \in Schedulers : WF_vars(Schedule(c))
    /\ \A w \in Workers : WF_vars(Work(w))

FairSpec == Spec /\ Fairness

-----------------------------------------------------------------------------
(* Properties                                                              *)

\* Runs, jobs and processes have the states the code and the queue give them;
\* a new run is never anything but FAILED until it succeeds.
TypeOK ==
    /\ today \in 1 .. MaxDay
    /\ run \in [Runs -> [day : 0 .. MaxDay, status : {"ABSENT", "FAILED", "SUCCESS"}, order : Nat]]
    /\ job \in [Runs -> [state : JobStates, failures : 0 .. Attempts, stalls : 0 .. 2]]
    /\ sched \in [Schedulers -> [pc : {"idle", "create", "enqueue"}, run : Runs \cup {NoRun},
                                 firedDay : 0 .. MaxDay]]
    /\ worker \in [Workers -> [pc : {"stopped", "idle", "send", "markSuccess", "markFailed",
                                     "complete"},
                               run : Runs \cup {NoRun}, registered : BOOLEAN]]
    /\ mails \in [Runs -> Nat]
    /\ faults \in FaultSets

\* A run is called SUCCESS only after its report has really been mailed, and
\* a job the queue calls completed belongs to such a run: no job is swallowed
\* by a worker that listens before its handlers are registered.
SuccessMeansMailed ==
    \A x \in Runs :
        /\ run[x].status = "SUCCESS" => mails[x] > 0
        /\ job[x].state = "completed" => run[x].status = "SUCCESS"

\* While only the mail server and the scheduler fail, retries never mail a run
\* twice: a job comes back for another attempt only if its mail did not go out.
MailedOnce == faults \subseteq {"mail", "scheduler"} => \A x \in Runs : mails[x] <= 1

\* A job that was put on the queue ends, completed or failed, whatever
\* dies or is refused on the way.
JobsSettle ==
    \A x \in Runs : job[x].state = "waiting" ~> job[x].state \in {"completed", "failed"}
=============================================================================
