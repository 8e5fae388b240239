---------------------------- MODULE CronRun_proofs ----------------------------
(***************************************************************************)
(* Proofs about CronRun, for any schedulers, workers, runs, days, attempts *)
(* and faults: types, that a run called SUCCESS was mailed, and that mail  *)
(* and scheduler failures alone never mail a run twice.                    *)
(*                                                                         *)
(* Both rest on who holds a job: the worker that took it, and nobody else, *)
(* until the queue gets it back.                                           *)
(***************************************************************************)
EXTENDS CronRun, TLAPS, FiniteSetTheorems

USE BoundsAssumption, NoRunAssumption, RunsAssumption

Days == 1 .. MaxDay
RunRow == [day : 0 .. MaxDay, status : {"ABSENT", "FAILED", "SUCCESS"}, order : Nat]
JobRow == [state : JobStates, failures : 0 .. Attempts, stalls : 0 .. 2]
SchedulerRow == [pc : {"idle", "create", "enqueue"}, run : Runs \cup {NoRun}, firedDay : 0 .. MaxDay]
WorkerRow == [pc : {"stopped", "idle", "send", "markSuccess", "markFailed", "complete"},
              run : Runs \cup {NoRun}, registered : BOOLEAN]

Typed ==
    /\ today \in Days
    /\ run \in [Runs -> RunRow]
    /\ job \in [Runs -> JobRow]
    /\ sched \in [Schedulers -> SchedulerRow]
    /\ worker \in [Workers -> WorkerRow]
    /\ mails \in [Runs -> Nat]
    /\ faults \in FaultSets

\* A row has a day from the moment it is there; within a day rows are
\* numbered up to their count, so that one of them is the newest.
RunsAreNumbered ==
    /\ \A x \in Runs : run[x].status = "ABSENT" <=> run[x].day = 0
    /\ \A x \in Runs : run[x].day # 0 => run[x].order <= Cardinality(RunsOf(run[x].day))
    /\ \A day \in Days : RunsOf(day) # {} =>
           \E x \in RunsOf(day) : \A y \in RunsOf(day) : run[y].order <= run[x].order

\* What a scheduler goes on with was found or is of the day it fired on; what
\* is on the queue has a row.
SchedulersKnow ==
    \A c \in Schedulers : /\ sched[c].pc = "enqueue" =>
                               sched[c].run \in Runs /\ run[sched[c].run].status # "ABSENT"
                          /\ sched[c].pc = "create" => sched[c].firedDay \in Days

\* A worker that is busy holds an active job, which no other worker holds; only
\* registered workers listen.
WorkersHoldJobs ==
    /\ \A w \in Workers :
        /\ worker[w].pc \in {"stopped", "idle"} <=> worker[w].run = NoRun
        /\ worker[w].run # NoRun => job[worker[w].run].state = "active"
        /\ worker[w].pc # "stopped" => worker[w].registered
    /\ \A v, w \in Workers : worker[v].run = worker[w].run /\ worker[v].run # NoRun => v = w

JobsHaveRuns == \A x \in Runs : job[x].state # "none" => run[x].status # "ABSENT"

\* A job that is not over has an attempt left and was lost at most once.
JobsHaveAttempts ==
    \A x \in Runs : job[x].state \notin {"completed", "failed"} =>
        job[x].failures < Attempts /\ job[x].stalls < 2

\* What a worker has done to the run of its job.
WorkersHaveDone ==
    \A w \in Workers :
        /\ worker[w].pc = "markSuccess" => mails[worker[w].run] > 0
        /\ worker[w].pc = "complete" => run[worker[w].run].status = "SUCCESS"

IInv ==
    /\ Typed
    /\ RunsAreNumbered
    /\ SchedulersKnow
    /\ WorkersHoldJobs
    /\ JobsHaveRuns
    /\ JobsHaveAttempts
    /\ WorkersHaveDone
    /\ SuccessMeansMailed

-----------------------------------------------------------------------------
LEMMA Initially == Init => IInv
<1> SUFFICES ASSUME Init PROVE IInv
  OBVIOUS
<1> USE DEF Init, Absent, IdleScheduler, StoppedWorker
<1>1. Typed
  <2>1. [state |-> "none", failures |-> 0, stalls |-> 0] \in JobRow
    BY DEF JobRow, JobStates
  <2>2. Absent \in RunRow /\ IdleScheduler \in SchedulerRow /\ StoppedWorker \in WorkerRow
    BY DEF RunRow, SchedulerRow, WorkerRow
  <2> QED
    BY <2>1, <2>2 DEF Typed, Days
<1>2. RunsAreNumbered
  BY DEF RunsAreNumbered, RunsOf, Days
<1>3. SchedulersKnow /\ WorkersHoldJobs /\ JobsHaveRuns /\ JobsHaveAttempts
  BY DEF SchedulersKnow, WorkersHoldJobs, JobsHaveRuns, JobsHaveAttempts
<1>4. WorkersHaveDone /\ SuccessMeansMailed
  BY DEF WorkersHaveDone, SuccessMeansMailed
<1> QED
  BY <1>1, <1>2, <1>3, <1>4 DEF IInv

\* The newest run of a day is one.
LEMMA LatestIsRun ==
  ASSUME RunsAreNumbered, NEW day \in Days, RunsOf(day) # {}
  PROVE  LatestRun(day) \in Runs /\ run[LatestRun(day)].status # "ABSENT"
<1>1. \E x \in RunsOf(day) : \A y \in RunsOf(day) : run[y].order <= run[x].order
  BY DEF RunsAreNumbered
<1> QED
  BY <1>1 DEF LatestRun, RunsOf, RunsAreNumbered, Days

\* A new row is numbered after those of its day.
LEMMA CreateNumbers ==
  ASSUME Typed, RunsAreNumbered, NEW day \in Days, NEW x \in Runs, run[x].status = "ABSENT",
         run' = [run EXCEPT ![x] = NewRun(day)]
  PROVE  RunsAreNumbered' /\ run' \in [Runs -> RunRow]
<1> DEFINE n == Cardinality(RunsOf(day))
<1>1. run[x].day = 0 /\ x \notin RunsOf(day)
  BY DEF RunsAreNumbered, RunsOf, Days
<1>2. IsFiniteSet(RunsOf(day)) /\ n \in Nat
  BY FS_Subset, FS_CardinalityType DEF RunsOf
<1>3. run'[x] = [day |-> day, status |-> "FAILED", order |-> n + 1]
  BY DEF NewRun, Typed, RunRow, JobRow, SchedulerRow, WorkerRow
<1>4. \A y \in Runs \ {x} : run'[y] = run[y]
  BY DEF Typed, RunRow, JobRow, SchedulerRow, WorkerRow
<1>5. RunsOf(day)' = RunsOf(day) \cup {x}
  BY <1>3, <1>4 DEF RunsOf
<1>6. Cardinality(RunsOf(day)') = n + 1
  BY <1>1, <1>2, <1>5, FS_AddElement
<1>7. \A d \in Days \ {day} : RunsOf(d)' = RunsOf(d)
  BY <1>1, <1>3, <1>4 DEF RunsOf, Days
<1>8. \A y \in RunsOf(day) : run[y].order <= n /\ run[y].order \in Nat
  BY DEF RunsAreNumbered, RunsOf, Days, Typed, RunRow, JobRow, SchedulerRow, WorkerRow
<1>9. run' \in [Runs -> RunRow]
  BY <1>2 DEF Typed, RunRow, JobRow, SchedulerRow, WorkerRow, NewRun, Days
<1>10. ASSUME NEW y \in Runs
       PROVE  run'[y].status = "ABSENT" <=> run'[y].day = 0
  BY <1>3, <1>4 DEF RunsAreNumbered, Days
<1>11. ASSUME NEW y \in Runs, run'[y].day # 0
       PROVE  (run[y].order <= Cardinality(RunsOf(run[y].day)))'
  <2>1. CASE y = x
    <3>1. RunsOf(run[y].day)' = RunsOf(day)'
      BY <1>3, <2>1 DEF RunsOf
    <3> QED
      BY <1>2, <1>3, <1>6, <2>1, <3>1
  <2>2. CASE y # x /\ run[y].day = day
    <3>1. y \in RunsOf(day) /\ run'[y].order = run[y].order
      BY <1>4, <2>2 DEF RunsOf
    <3>2. RunsOf(run[y].day)' = RunsOf(day)'
      BY <1>4, <2>2 DEF RunsOf
    <3> QED
      BY <1>2, <1>6, <1>8, <3>1, <3>2
  <2>3. CASE y # x /\ run[y].day # day
    <3>1. run[y].day \in Days \ {day}
      BY <1>4, <1>11, <2>3 DEF Typed, RunRow, JobRow, SchedulerRow, WorkerRow, Days
    <3> QED
      BY <1>4, <1>7, <1>11, <2>3, <3>1 DEF RunsAreNumbered
  <2> QED
    BY <2>1, <2>2, <2>3
<1>12. ASSUME NEW d \in Days, RunsOf(d)' # {}
       PROVE  \E y \in RunsOf(d)' : \A z \in RunsOf(d)' : run'[z].order <= run'[y].order
  <2>1. CASE d = day
    <3>1. \A z \in RunsOf(day)' : run'[z].order <= run'[x].order
      BY <1>2, <1>3, <1>4, <1>5, <1>8
    <3> QED
      BY <1>5, <2>1, <3>1
  <2>2. CASE d # day
    <3>1. PICK y \in RunsOf(d) : \A z \in RunsOf(d) : run[z].order <= run[y].order
      BY <1>7, <1>12, <2>2 DEF RunsAreNumbered
    <3>2. x \notin RunsOf(d)
      BY <1>1 DEF RunsOf, Days
    <3> QED
      BY <1>4, <1>7, <2>2, <3>1, <3>2 DEF RunsOf
  <2> QED
    BY <2>1, <2>2
<1> QED
  BY <1>9, <1>10, <1>11, <1>12 DEF RunsAreNumbered

\* A row whose status changes, to one a row has, keeps its number.
LEMMA MarkNumbers ==
  ASSUME Typed, RunsAreNumbered, NEW x \in Runs, NEW status \in {"FAILED", "SUCCESS"},
         run[x].status # "ABSENT", run' = [run EXCEPT ![x].status = status]
  PROVE  RunsAreNumbered' /\ run' \in [Runs -> RunRow]
<1>1. \A y \in Runs : run'[y].day = run[y].day /\ run'[y].order = run[y].order
  BY DEF Typed, RunRow, JobRow, SchedulerRow, WorkerRow
<1>2. \A y \in Runs : run'[y].status = "ABSENT" <=> run[y].status = "ABSENT"
  BY DEF Typed, RunRow, JobRow, SchedulerRow, WorkerRow
<1>3. \A day : RunsOf(day)' = RunsOf(day)
  BY <1>1 DEF RunsOf
<1>4. run' \in [Runs -> RunRow]
  BY DEF Typed, RunRow, JobRow, SchedulerRow, WorkerRow
<1> QED
  BY <1>1, <1>2, <1>3, <1>4 DEF RunsAreNumbered, RunsOf

-----------------------------------------------------------------------------
\* A worker that goes from one busy step to the next keeps its job.
LEMMA WorkerGoesOn ==
  ASSUME Typed, WorkersHoldJobs, NEW w \in Workers, worker[w].run # NoRun,
         NEW pc \in {"send", "markSuccess", "markFailed", "complete"},
         worker' = [worker EXCEPT ![w].pc = pc], UNCHANGED job
  PROVE  /\ WorkersHoldJobs'
         /\ worker' \in [Workers -> WorkerRow]
         /\ worker'[w].pc = pc
         /\ \A v \in Workers : worker'[v].run = worker[v].run /\ (v # w => worker'[v].pc = worker[v].pc)
BY DEF Typed, RunRow, JobRow, SchedulerRow, WorkerRow, WorkersHoldJobs

\* A worker whose job goes back to the queue holds none, and nobody holds that job.
LEMMA WorkerLetsGo ==
  ASSUME Typed, WorkersHoldJobs, NEW w \in Workers, worker[w].run # NoRun,
         NEW new \in {StoppedWorker, [worker[w] EXCEPT !.pc = "idle", !.run = NoRun]},
         worker' = [worker EXCEPT ![w] = new],
         NEW j \in JobRow,
         job' = [job EXCEPT ![worker[w].run] = j]
  PROVE  /\ WorkersHoldJobs'
         /\ worker' \in [Workers -> WorkerRow]
         /\ job' \in [Runs -> JobRow]
         /\ worker'[w].run = NoRun /\ worker'[w].pc \in {"stopped", "idle"}
         /\ \A v \in Workers \ {w} : worker'[v] = worker[v] /\ worker[v].run # worker[w].run
<1>1. worker[w].run \in Runs /\ worker[w].registered \in BOOLEAN
  BY DEF Typed, RunRow, JobRow, SchedulerRow, WorkerRow
<1>2. new \in [pc : {"stopped", "idle"}, run : {NoRun}, registered : BOOLEAN]
      /\ (new.pc = "idle" => new.registered)
  <2>1. CASE new = StoppedWorker
    BY <2>1 DEF StoppedWorker
  <2>2. CASE new = [worker[w] EXCEPT !.pc = "idle", !.run = NoRun]
    <3>1. new = [pc |-> "idle", run |-> NoRun, registered |-> worker[w].registered]
      BY <2>2 DEF Typed, WorkerRow
    <3> QED
      BY <1>1, <3>1 DEF WorkersHoldJobs
  <2> QED
    BY <2>1, <2>2
<1>3. \A v \in Workers : worker'[v] = IF v = w THEN new ELSE worker[v]
  BY DEF Typed, RunRow, JobRow, SchedulerRow, WorkerRow
<1>4. \A v \in Workers \ {w} : worker[v].run # worker[w].run
  BY DEF WorkersHoldJobs
<1>5. \A x \in Runs : job'[x] = IF x = worker[w].run THEN j ELSE job[x]
  BY DEF Typed, RunRow, JobRow, SchedulerRow, WorkerRow
<1>6. worker' \in [Workers -> WorkerRow]
  BY <1>2 DEF Typed, RunRow, JobRow, SchedulerRow, WorkerRow
<1>7. job' \in [Runs -> JobRow]
  BY DEF Typed, RunRow, JobRow, SchedulerRow, WorkerRow
<1>8. WorkersHoldJobs'
  BY <1>2, <1>3, <1>4, <1>5 DEF Typed, RunRow, JobRow, SchedulerRow, WorkerRow, WorkersHoldJobs
<1> QED
  BY <1>2, <1>3, <1>4, <1>6, <1>7, <1>8

\* Every step keeps the invariant.
LEMMA Inductive == IInv /\ [Next]_vars => IInv'
<1> SUFFICES ASSUME IInv, [Next]_vars PROVE IInv'
  OBVIOUS
<1> USE DEF IInv
<1>0. ASSUME UNCHANGED run PROVE RunsAreNumbered'
  BY <1>0 DEF RunsAreNumbered, RunsOf
<1>1. CASE UNCHANGED vars
  BY <1>0, <1>1 DEF vars, Typed, RunRow, JobRow, SchedulerRow, WorkerRow, SchedulersKnow, WorkersHoldJobs, JobsHaveRuns, JobsHaveAttempts, WorkersHaveDone,
     SuccessMeansMailed
<1>2. CASE NextDay
  <2>1. Typed'
    BY <1>2 DEF NextDay, Typed, Days
  <2> QED
    BY <1>0, <1>2, <2>1 DEF NextDay, SchedulersKnow, WorkersHoldJobs, JobsHaveRuns, JobsHaveAttempts,
       WorkersHaveDone, SuccessMeansMailed
<1>3. ASSUME NEW c \in Schedulers, BeginRun(c) PROVE IInv'
  <2>1. today \in Days
    BY DEF Typed, RunRow, JobRow, SchedulerRow, WorkerRow, Days
  <2>2. RunsOf(today) # {} => LatestRun(today) \in Runs /\ run[LatestRun(today)].status # "ABSENT"
    BY <2>1, LatestIsRun
  <2>3. Typed' /\ SchedulersKnow'
    BY <1>3, <2>1, <2>2 DEF BeginRun, Typed, RunRow, JobRow, SchedulerRow, WorkerRow, SchedulersKnow, Days
  <2> QED
    BY <1>0, <1>3, <2>3 DEF BeginRun, WorkersHoldJobs, JobsHaveRuns, JobsHaveAttempts, WorkersHaveDone, SuccessMeansMailed
<1>4. ASSUME NEW c \in Schedulers, NEW x \in Runs, CreateRun(c, x) PROVE IInv'
  <2>1. sched[c].firedDay \in Days
    BY <1>4 DEF CreateRun, SchedulersKnow
  <2>2. RunsAreNumbered' /\ run' \in [Runs -> RunRow]
    BY <1>4, <2>1, CreateNumbers DEF CreateRun
  <2>3. run'[x].status = "FAILED" /\ \A y \in Runs \ {x} : run'[y] = run[y]
    BY <1>4 DEF CreateRun, NewRun, Typed, RunRow, JobRow, SchedulerRow, WorkerRow
  <2>4. Typed' /\ SchedulersKnow'
    <3>1. sched'[c] = [pc |-> "enqueue", run |-> x, firedDay |-> sched[c].firedDay]
          /\ \A d \in Schedulers \ {c} : sched'[d] = sched[d]
      BY <1>4 DEF CreateRun, Typed, SchedulerRow
    <3>2. sched' \in [Schedulers -> SchedulerRow]
      BY <1>4 DEF CreateRun, Typed, SchedulerRow
    <3>3. Typed'
      BY <1>4, <2>2, <3>2 DEF CreateRun, Typed
    <3>4. SchedulersKnow'
      BY <2>3, <3>1 DEF SchedulersKnow
    <3> QED
      BY <3>3, <3>4
  <2>5. WorkersHaveDone'
    BY <1>4, <2>3 DEF CreateRun, WorkersHaveDone, WorkersHoldJobs, Typed, RunRow, JobRow, SchedulerRow, WorkerRow
  <2>6. SuccessMeansMailed'
    BY <1>4, <2>3 DEF CreateRun, SuccessMeansMailed
  <2>7. JobsHaveRuns'
    BY <1>4, <2>3 DEF CreateRun, JobsHaveRuns
  <2> QED
    BY <1>4, <2>2, <2>4, <2>5, <2>6, <2>7 DEF CreateRun, WorkersHoldJobs, JobsHaveAttempts
<1>5. ASSUME NEW c \in Schedulers, Enqueue(c) PROVE IInv'
  <2>1. sched[c].run \in Runs
    BY <1>5 DEF Enqueue, SchedulersKnow
  <2>2. Typed' /\ SchedulersKnow'
    BY <1>5, <2>1 DEF Enqueue, Typed, RunRow, JobRow, SchedulerRow, WorkerRow, SchedulersKnow, JobStates
  <2>3. \A x \in Runs : \/ job'[x] = job[x]
                        \/ /\ job[x].state = "none" /\ job'[x].state = "waiting"
                           /\ job'[x].failures = job[x].failures /\ job'[x].stalls = job[x].stalls
    BY <1>5, <2>1 DEF Enqueue, Typed, RunRow, JobRow, SchedulerRow, WorkerRow
  <2>4. WorkersHoldJobs'
    BY <1>5, <2>3 DEF Enqueue, WorkersHoldJobs, Typed, RunRow, JobRow, SchedulerRow, WorkerRow
  <2>5. JobsHaveAttempts' /\ SuccessMeansMailed' /\ JobsHaveRuns'
    BY <1>5, <2>3 DEF Enqueue, JobsHaveAttempts, SuccessMeansMailed, JobsHaveRuns, SchedulersKnow, Typed, RunRow, JobRow, SchedulerRow, WorkerRow
  <2> QED
    BY <1>0, <1>5, <2>2, <2>4, <2>5 DEF Enqueue, WorkersHaveDone
<1>6. ASSUME NEW c \in Schedulers, SchedulerDies(c) PROVE IInv'
  <2>1. sched' \in [Schedulers -> SchedulerRow]
    BY <1>6 DEF SchedulerDies, Typed, SchedulerRow
  <2>2. sched'[c].pc = "idle" /\ \A d \in Schedulers \ {c} : sched'[d] = sched[d]
    BY <1>6 DEF SchedulerDies, Typed, SchedulerRow
  <2>3. Typed' /\ SchedulersKnow'
    BY <1>6, <2>1, <2>2 DEF SchedulerDies, Typed, SchedulersKnow
  <2> QED
    BY <1>0, <1>6, <2>3 DEF SchedulerDies, WorkersHoldJobs, JobsHaveRuns, JobsHaveAttempts,
       WorkersHaveDone, SuccessMeansMailed
<1>7. ASSUME NEW w \in Workers, Register(w) \/ Listen(w) PROVE IInv'
  <2>1. worker' \in [Workers -> WorkerRow]
    <3>1. CASE Register(w)
      BY <3>1 DEF Register, Typed, WorkerRow
    <3>2. CASE Listen(w)
      BY <3>2 DEF Listen, Typed, WorkerRow
    <3> QED
      BY <1>7, <3>1, <3>2
  <2>2. /\ worker[w].run = NoRun /\ worker'[w].run = NoRun /\ worker'[w].pc \in {"stopped", "idle"}
        /\ worker'[w].pc # "stopped" => worker'[w].registered
        /\ \A v \in Workers \ {w} : worker'[v] = worker[v]
    BY <1>7 DEF Register, Listen, Typed, WorkerRow, WorkersHoldJobs
  <2>3. WorkersHoldJobs' /\ WorkersHaveDone'
    BY <1>7, <2>2 DEF Register, Listen, WorkersHoldJobs, WorkersHaveDone
  <2> QED
    BY <1>0, <1>7, <2>1, <2>3 DEF Register, Listen, Typed, SchedulersKnow, JobsHaveRuns,
       JobsHaveAttempts, SuccessMeansMailed
<1>8. ASSUME NEW w \in Workers, NEW x \in Runs, Take(w, x) PROVE IInv'
  <2>1. worker[w].registered
    BY <1>8 DEF Take, WorkersHoldJobs
  <2>2. job' \in [Runs -> JobRow] /\ worker' \in [Workers -> WorkerRow]
    BY <1>8 DEF Take, Typed, JobRow, WorkerRow, JobStates
  <2>3. worker'[w] = [pc |-> "send", run |-> x, registered |-> worker[w].registered]
        /\ \A v \in Workers \ {w} : worker'[v] = worker[v]
    BY <1>8, <2>1 DEF Take, Typed, WorkerRow
  <2>4. job'[x] = [job[x] EXCEPT !.state = "active"] /\ \A y \in Runs \ {x} : job'[y] = job[y]
    BY <1>8 DEF Take, Typed
  <2>5. job'[x].state = "active" /\ job'[x].failures = job[x].failures /\ job'[x].stalls = job[x].stalls
    BY <2>4 DEF Typed, JobRow
  <2>6. \A v \in Workers : worker[v].run # x /\ worker[v].run \in Runs \cup {NoRun}
    BY <1>8 DEF Take, WorkersHoldJobs, Typed, WorkerRow
  <2>7. WorkersHoldJobs'
    <3>1. ASSUME NEW v \in Workers
          PROVE  /\ worker'[v].pc \in {"stopped", "idle"} <=> worker'[v].run = NoRun
                 /\ worker'[v].run # NoRun => job'[worker'[v].run].state = "active"
                 /\ worker'[v].pc # "stopped" => worker'[v].registered
      <4>1. CASE v = w
        BY <2>1, <2>3, <2>5, <4>1
      <4>2. CASE v # w
        BY <2>3, <2>4, <2>6, <4>2 DEF WorkersHoldJobs
      <4> QED
        BY <4>1, <4>2
    <3>2. ASSUME NEW u \in Workers, NEW v \in Workers, worker'[u].run = worker'[v].run,
                 worker'[u].run # NoRun
          PROVE  u = v
      BY <2>3, <2>6, <3>2 DEF WorkersHoldJobs
    <3> QED
      BY <3>1, <3>2 DEF WorkersHoldJobs
  <2>8. JobsHaveAttempts' /\ JobsHaveRuns'
    BY <1>8, <2>4, <2>5 DEF Take, JobsHaveRuns, JobsHaveAttempts
  <2>9. SuccessMeansMailed'
    BY <1>8, <2>4, <2>5 DEF Take, SuccessMeansMailed
  <2>10. Typed' /\ SchedulersKnow'
    BY <1>8, <2>2 DEF Take, Typed, SchedulersKnow
  <2>11. WorkersHaveDone'
    <3>1. worker'[w].pc = "send"
      BY <2>3
    <3> QED
      BY <1>8, <2>3, <3>1 DEF Take, WorkersHaveDone
  <2> QED
    BY <1>0, <1>8, <2>7, <2>8, <2>9, <2>10, <2>11 DEF Take
<1>9. ASSUME NEW w \in Workers, SendMail(w) PROVE IInv'
  <2>1. worker[w].run \in Runs /\ worker[w].run # NoRun
    BY <1>9 DEF SendMail, WorkersHoldJobs, Typed, RunRow, JobRow, SchedulerRow, WorkerRow
  <2>2. WorkersHoldJobs' /\ worker' \in [Workers -> WorkerRow]
    BY <1>9, <2>1, WorkerGoesOn DEF SendMail
  <2>3. \A x \in Runs : mails'[x] >= mails[x] /\ (x = worker[w].run => mails'[x] > 0)
    BY <1>9, <2>1 DEF SendMail, Typed, RunRow, JobRow, SchedulerRow, WorkerRow
  <2>4. WorkersHaveDone'
    BY <1>9, <2>1, <2>3, WorkerGoesOn DEF SendMail, WorkersHaveDone, Typed, RunRow, JobRow, SchedulerRow, WorkerRow, WorkersHoldJobs
  <2>5. SuccessMeansMailed'
    BY <1>9, <2>3 DEF SendMail, SuccessMeansMailed, Typed, RunRow, JobRow, SchedulerRow, WorkerRow
  <2>6. Typed'
    BY <1>9, <2>1, <2>2 DEF SendMail, Typed
  <2> QED
    BY <1>0, <1>9, <2>2, <2>4, <2>5, <2>6 DEF SendMail, SchedulersKnow, JobsHaveRuns, JobsHaveAttempts
<1>10. ASSUME NEW w \in Workers, SendMailFails(w) \/ MarkSuccessFails(w) PROVE IInv'
  <2>1. worker[w].run \in Runs /\ worker[w].run # NoRun
    BY <1>10 DEF SendMailFails, MarkSuccessFails, WorkersHoldJobs, Typed, RunRow, JobRow, SchedulerRow, WorkerRow
  <2>2. WorkersHoldJobs' /\ Typed'
    BY <1>10, <2>1, WorkerGoesOn DEF SendMailFails, MarkSuccessFails, Typed, RunRow, JobRow, SchedulerRow, WorkerRow
  <2>3. WorkersHaveDone'
    BY <1>10, <2>1, WorkerGoesOn DEF SendMailFails, MarkSuccessFails, WorkersHaveDone
  <2> QED
    BY <1>0, <1>10, <2>2, <2>3 DEF SendMailFails, MarkSuccessFails, SchedulersKnow, JobsHaveRuns, JobsHaveAttempts,
       SuccessMeansMailed
<1>11. ASSUME NEW w \in Workers, MarkSuccess(w) PROVE IInv'
  <2>1. worker[w].run \in Runs /\ worker[w].run # NoRun /\ mails[worker[w].run] > 0
        /\ run[worker[w].run].status # "ABSENT"
    BY <1>11 DEF MarkSuccess, WorkersHoldJobs, WorkersHaveDone, JobsHaveRuns, Typed, RunRow, JobRow, SchedulerRow, WorkerRow
  <2>2. \A x \in Runs : run'[x].status = IF x = worker[w].run THEN "SUCCESS" ELSE run[x].status
    BY <1>11, <2>1 DEF MarkSuccess, Typed, RunRow, JobRow, SchedulerRow, WorkerRow
  <2>3. WorkersHaveDone'
    BY <1>11, <2>1, <2>2, WorkerGoesOn DEF MarkSuccess, WorkersHaveDone, Typed, RunRow, JobRow, SchedulerRow, WorkerRow, WorkersHoldJobs
  <2>4. SuccessMeansMailed'
    BY <1>11, <2>1, <2>2 DEF MarkSuccess, SuccessMeansMailed
  <2>5. RunsAreNumbered' /\ run' \in [Runs -> RunRow]
    BY <1>11, <2>1, MarkNumbers DEF MarkSuccess
  <2>6. WorkersHoldJobs' /\ Typed'
    BY <1>11, <2>1, <2>5, WorkerGoesOn DEF MarkSuccess, Typed, RunRow, JobRow, SchedulerRow, WorkerRow
  <2> QED
    BY <1>11, <2>2, <2>3, <2>4, <2>5, <2>6 DEF MarkSuccess, SchedulersKnow, JobsHaveRuns, JobsHaveAttempts
<1>12. ASSUME NEW w \in Workers, NEW stored \in BOOLEAN, MarkFailed(w, stored) PROVE IInv'
  <2> DEFINE x == worker[w].run
             idle == [worker[w] EXCEPT !.pc = "idle", !.run = NoRun]
  <2>1. x \in Runs /\ x # NoRun /\ job[x].state = "active" /\ run[x].status # "ABSENT"
    BY <1>12 DEF MarkFailed, WorkersHoldJobs, JobsHaveRuns, Typed, RunRow, JobRow, SchedulerRow, WorkerRow
  <2>2. Retried(job[x]) \in JobRow
        /\ Retried(job[x]).state \in {"waiting", "failed"}
        /\ (Retried(job[x]).state = "waiting" =>
                Retried(job[x]).failures < Attempts /\ Retried(job[x]).stalls < 2)
    <3>1. job[x] \in JobRow /\ job[x].failures < Attempts /\ job[x].stalls < 2
      BY <2>1 DEF Typed, JobsHaveAttempts
    <3> DEFINE failures == job[x].failures + 1
               state == IF job[x].failures + 1 < Attempts THEN "waiting" ELSE "failed"
    <3>2. failures \in 0 .. Attempts /\ state \in {"waiting", "failed"}
          /\ (state = "waiting" => failures < Attempts)
      BY <3>1 DEF JobRow
    <3>3. Retried(job[x]) = [job[x] EXCEPT !.failures = failures, !.state = state]
      BY DEF Retried
    <3> HIDE DEF failures, state
    <3>4. /\ Retried(job[x]) \in JobRow
          /\ Retried(job[x]).failures = failures
          /\ Retried(job[x]).state = state
          /\ Retried(job[x]).stalls = job[x].stalls
      BY <3>1, <3>2, <3>3 DEF JobRow, JobStates
    <3> QED
      BY <3>1, <3>2, <3>4
  <2>3. job' = [job EXCEPT ![x] = Retried(job[x])] /\ worker' = [worker EXCEPT ![w] = idle]
    BY <1>12, <2>1 DEF MarkFailed, Typed, RunRow, JobRow, SchedulerRow, WorkerRow
  <2>4. /\ WorkersHoldJobs'
        /\ worker' \in [Workers -> WorkerRow]
        /\ job' \in [Runs -> JobRow]
        /\ worker'[w].run = NoRun /\ worker'[w].pc \in {"stopped", "idle"}
        /\ \A v \in Workers \ {w} : worker'[v] = worker[v] /\ worker[v].run # x
    BY <2>1, <2>2, <2>3, WorkerLetsGo
  <2>5. RunsAreNumbered' /\ run' \in [Runs -> RunRow]
    BY <1>0, <1>12, <2>1, MarkNumbers DEF MarkFailed, Typed, RunRow, JobRow, SchedulerRow, WorkerRow
  <2>6. \A y \in Runs \ {x} : run'[y] = run[y] /\ job'[y] = job[y]
    BY <1>12, <2>3 DEF MarkFailed, Typed, RunRow, JobRow, SchedulerRow, WorkerRow
  <2>7. run'[x].status \in {run[x].status, "FAILED"} /\ job'[x] = Retried(job[x])
    BY <1>12, <2>1, <2>3 DEF MarkFailed, Typed, RunRow, JobRow, SchedulerRow, WorkerRow
  <2>8. Typed'
    BY <1>12, <2>4, <2>5 DEF MarkFailed, Typed, RunRow, JobRow, SchedulerRow, WorkerRow
  <2>9. SchedulersKnow' /\ JobsHaveRuns'
    BY <1>12, <2>1, <2>6, <2>7 DEF MarkFailed, SchedulersKnow, JobsHaveRuns
  <2>10. JobsHaveAttempts'
    BY <2>2, <2>6, <2>7 DEF JobsHaveAttempts
  <2>11. WorkersHaveDone'
    BY <1>12, <2>4, <2>6 DEF MarkFailed, WorkersHaveDone, WorkersHoldJobs, Typed, RunRow, JobRow, SchedulerRow, WorkerRow
  <2>12. SuccessMeansMailed'
    BY <1>12, <2>2, <2>6, <2>7 DEF MarkFailed, SuccessMeansMailed
  <2> QED
    BY <2>4, <2>5, <2>8, <2>9, <2>10, <2>11, <2>12
<1>13. ASSUME NEW w \in Workers, Complete(w) PROVE IInv'
  <2> DEFINE x == worker[w].run
             idle == [worker[w] EXCEPT !.pc = "idle", !.run = NoRun]
             over == [job[x] EXCEPT !.state = "completed"]
  <2>1. x \in Runs /\ x # NoRun /\ job[x].state = "active" /\ run[x].status = "SUCCESS"
    BY <1>13 DEF Complete, WorkersHoldJobs, WorkersHaveDone, Typed, RunRow, JobRow, SchedulerRow, WorkerRow
  <2>2. over \in JobRow
    BY <2>1 DEF Typed, RunRow, JobRow, SchedulerRow, WorkerRow, JobStates
  <2>3. job' = [job EXCEPT ![x] = over] /\ worker' = [worker EXCEPT ![w] = idle]
    BY <1>13, <2>1 DEF Complete, Typed, RunRow, JobRow, SchedulerRow, WorkerRow
  <2>4. /\ WorkersHoldJobs'
        /\ worker' \in [Workers -> WorkerRow]
        /\ job' \in [Runs -> JobRow]
        /\ worker'[w].run = NoRun /\ worker'[w].pc \in {"stopped", "idle"}
        /\ \A v \in Workers \ {w} : worker'[v] = worker[v] /\ worker[v].run # x
    BY <2>1, <2>2, <2>3, WorkerLetsGo
  <2>5. job'[x] = over /\ \A y \in Runs \ {x} : job'[y] = job[y]
    BY <2>1, <2>3 DEF Typed, RunRow, JobRow, SchedulerRow, WorkerRow
  <2>6. Typed'
    BY <1>13, <2>4 DEF Complete, Typed, RunRow, JobRow, SchedulerRow, WorkerRow
  <2>7. WorkersHaveDone'
    BY <1>13, <2>4 DEF Complete, WorkersHaveDone, WorkersHoldJobs, Typed, RunRow, JobRow, SchedulerRow, WorkerRow
  <2>8. JobsHaveRuns' /\ JobsHaveAttempts' /\ SuccessMeansMailed'
    BY <1>13, <2>1, <2>5 DEF Complete, JobsHaveRuns, JobsHaveAttempts, SuccessMeansMailed, Typed, RunRow, JobRow, SchedulerRow, WorkerRow
  <2> QED
    BY <1>0, <1>13, <2>4, <2>6, <2>7, <2>8 DEF Complete, SchedulersKnow
<1>14. ASSUME NEW w \in Workers, WorkerDies(w) PROVE IInv'
  <2> DEFINE x == worker[w].run
             lost == Stalled(job[x])
  <2>1. x \in Runs /\ x # NoRun /\ job[x].state = "active" /\ run[x].status # "ABSENT"
    BY <1>14 DEF WorkerDies, WorkersHoldJobs, JobsHaveRuns, Typed, RunRow, JobRow, SchedulerRow, WorkerRow
  <2>2. lost \in JobRow
        /\ lost.state \in {"waiting", "failed"}
        /\ (lost.state = "waiting" => lost.failures < Attempts /\ lost.stalls < 2)
    <3>1. job[x] \in JobRow /\ job[x].failures < Attempts /\ job[x].stalls < 2
      BY <2>1 DEF Typed, JobsHaveAttempts
    <3> DEFINE stalls == job[x].stalls + 1
               state == IF job[x].stalls = 0 THEN "waiting" ELSE "failed"
    <3>2. stalls \in 0 .. 2 /\ state \in {"waiting", "failed"} /\ (state = "waiting" => stalls < 2)
      BY <3>1 DEF JobRow
    <3>3. lost = [job[x] EXCEPT !.stalls = stalls, !.state = state]
      BY DEF Stalled
    <3> HIDE DEF stalls, state, lost
    <3>4. /\ lost \in JobRow
          /\ lost.failures = job[x].failures
          /\ lost.state = state
          /\ lost.stalls = stalls
      BY <3>1, <3>2, <3>3 DEF JobRow, JobStates
    <3> QED
      BY <3>1, <3>2, <3>4
  <2>3. job' = [job EXCEPT ![x] = lost] /\ worker' = [worker EXCEPT ![w] = StoppedWorker]
    BY <1>14, <2>1 DEF WorkerDies, Typed, RunRow, JobRow, SchedulerRow, WorkerRow
  <2>4. /\ WorkersHoldJobs'
        /\ worker' \in [Workers -> WorkerRow]
        /\ job' \in [Runs -> JobRow]
        /\ worker'[w].run = NoRun /\ worker'[w].pc \in {"stopped", "idle"}
        /\ \A v \in Workers \ {w} : worker'[v] = worker[v] /\ worker[v].run # x
    BY <2>1, <2>2, <2>3, WorkerLetsGo
  <2>5. job'[x] = lost /\ \A y \in Runs \ {x} : job'[y] = job[y]
    BY <2>1, <2>3 DEF Typed, RunRow, JobRow, SchedulerRow, WorkerRow
  <2> HIDE DEF lost
  <2>6. Typed'
    BY <1>14, <2>4 DEF WorkerDies, Typed, RunRow, JobRow, SchedulerRow, WorkerRow
  <2>7. WorkersHaveDone'
    BY <1>14, <2>4 DEF WorkerDies, WorkersHaveDone, WorkersHoldJobs, Typed, RunRow, JobRow, SchedulerRow, WorkerRow
  <2>8. JobsHaveRuns' /\ JobsHaveAttempts' /\ SuccessMeansMailed'
    BY <1>14, <2>1, <2>2, <2>5 DEF WorkerDies, JobsHaveRuns, JobsHaveAttempts, SuccessMeansMailed
  <2> QED
    BY <1>0, <1>14, <2>4, <2>6, <2>7, <2>8 DEF WorkerDies, SchedulersKnow
<1> QED
  BY <1>1, <1>2, <1>3, <1>4, <1>5, <1>6, <1>7, <1>8, <1>9, <1>10, <1>11, <1>12, <1>13, <1>14
     DEF Next, Schedule, Work

-----------------------------------------------------------------------------
THEOREM Invariant == Spec => []IInv
<1>1. Init => IInv
  BY Initially
<1>2. IInv /\ [Next]_vars => IInv'
  BY Inductive
<1> QED
  BY <1>1, <1>2, PTL DEF Spec

\* Runs, jobs and processes always have the shape the code and the queue give
\* them: in particular a job never gets more attempts than it is given.
THEOREM TypeCorrect == Spec => []TypeOK
<1>1. IInv => TypeOK
  BY DEF IInv, TypeOK, Typed, Days, RunRow, JobRow, SchedulerRow, WorkerRow
<1> QED
  BY <1>1, Invariant, PTL

\* A run is called SUCCESS only after its report was mailed, and a job the
\* queue calls completed belongs to such a run, whatever fails or dies.
THEOREM SuccessCorrect == Spec => []SuccessMeansMailed
<1>1. IInv => SuccessMeansMailed
  BY DEF IInv
<1> QED
  BY <1>1, Invariant, PTL

-----------------------------------------------------------------------------
(* While nothing but the mail server and the scheduler fails, a job that may *)
(* be attempted, and a worker that is about to mail or to report an error,   *)
(* has no mail behind it.                                                    *)

OnlyMailFails == faults \subseteq {"mail", "scheduler"}
Unmailed ==
    /\ \A x \in Runs : job[x].state \in {"none", "waiting", "failed"} => mails[x] = 0
    /\ \A w \in Workers : worker[w].pc \in {"send", "markFailed"} => mails[worker[w].run] = 0
    /\ \A x \in Runs : mails[x] <= 1
Quiet == OnlyMailFails => Unmailed

LEMMA QuietStep == IInv /\ Quiet /\ [Next]_vars => Quiet'
<1> SUFFICES ASSUME IInv, Quiet, [Next]_vars, OnlyMailFails' PROVE Unmailed'
  BY DEF Quiet
<1> USE DEF RunRow, JobRow, SchedulerRow, WorkerRow
<1>0. /\ Typed /\ WorkersHoldJobs
      /\ faults' = faults
  BY DEF IInv, vars, Next, NextDay, Schedule, BeginRun, CreateRun, Enqueue, SchedulerDies, Work, Register,
         Listen, Take, SendMail, SendMailFails, MarkSuccess, MarkSuccessFails, MarkFailed, Complete, WorkerDies
<1>1. Unmailed /\ "db" \notin faults /\ "worker" \notin faults
  BY <1>0 DEF Quiet, OnlyMailFails
<1>2. ASSUME UNCHANGED <<job, worker, mails>> PROVE Unmailed'
  BY <1>1, <1>2 DEF Unmailed
<1>3. CASE UNCHANGED vars
  BY <1>2, <1>3 DEF vars
<1>4. CASE NextDay
  BY <1>2, <1>4 DEF NextDay
<1>5. ASSUME NEW c \in Schedulers, BeginRun(c) \/ (\E x \in Runs : CreateRun(c, x)) \/ SchedulerDies(c)
      PROVE  Unmailed'
  BY <1>2, <1>5 DEF BeginRun, CreateRun, SchedulerDies
<1>6. ASSUME NEW c \in Schedulers, Enqueue(c) PROVE Unmailed'
  BY <1>0, <1>1, <1>6 DEF Enqueue, Unmailed, Typed
<1>7. ASSUME NEW w \in Workers, Register(w) \/ Listen(w) PROVE Unmailed'
  BY <1>0, <1>1, <1>7 DEF Register, Listen, Unmailed, Typed
<1>8. ASSUME NEW w \in Workers, NEW x \in Runs, Take(w, x) PROVE Unmailed'
  BY <1>0, <1>1, <1>8 DEF Take, Unmailed, Typed
<1>9. ASSUME NEW w \in Workers, SendMail(w) PROVE Unmailed'
  <2>1. /\ worker[w].run \in Runs /\ job[worker[w].run].state = "active" /\ mails[worker[w].run] = 0
        /\ \A v \in Workers \ {w} : worker[v].run # worker[w].run
    BY <1>0, <1>1, <1>9 DEF SendMail, Unmailed, Typed, WorkersHoldJobs
  <2>2. /\ job' = job
        /\ mails'[worker[w].run] = 1
        /\ \A y \in Runs \ {worker[w].run} : mails'[y] = mails[y]
        /\ \A v \in Workers \ {w} : worker'[v] = worker[v]
        /\ worker'[w].pc = "markSuccess"
    BY <1>0, <1>9, <2>1 DEF SendMail, Typed
  <2>3. \A v \in Workers : worker[v].pc \in {"send", "markFailed"} => worker[v].run \in Runs
    BY <1>0 DEF Typed, WorkersHoldJobs
  <2> QED
    BY <1>1, <2>1, <2>2, <2>3 DEF Unmailed
<1>10. ASSUME NEW w \in Workers, SendMailFails(w) \/ MarkSuccess(w) PROVE Unmailed'
  <2>1. /\ job' = job /\ mails' = mails
        /\ \A v \in Workers : worker'[v].run = worker[v].run
        /\ \A v \in Workers \ {w} : worker'[v] = worker[v]
    BY <1>0, <1>1, <1>10 DEF SendMailFails, MarkSuccess, Unmailed, Typed
  <2>2. mails[worker[w].run] = 0 \/ worker'[w].pc = "complete"
    BY <1>0, <1>1, <1>10 DEF SendMailFails, MarkSuccess, Unmailed, Typed
  <2> QED
    BY <1>1, <2>1, <2>2 DEF Unmailed
<1>11. ASSUME NEW w \in Workers, NEW stored \in BOOLEAN, MarkFailed(w, stored)
       PROVE  Unmailed'
  <2> DEFINE x == worker[w].run
  <2>1. x \in Runs /\ mails[x] = 0
    BY <1>0, <1>1, <1>11 DEF MarkFailed, Unmailed, Typed, WorkersHoldJobs
  <2>2. /\ mails' = mails
        /\ \A y \in Runs \ {x} : job'[y] = job[y]
        /\ \A v \in Workers \ {w} : worker'[v] = worker[v]
        /\ worker'[w].pc = "idle"
    BY <1>0, <1>11, <2>1 DEF MarkFailed, Typed
  <2> QED
    BY <1>1, <2>1, <2>2 DEF Unmailed
<1>12. ASSUME NEW w \in Workers, Complete(w) PROVE Unmailed'
  BY <1>0, <1>1, <1>12 DEF Complete, Unmailed, Typed
<1>13. ASSUME NEW w \in Workers, MarkSuccessFails(w) \/ WorkerDies(w) PROVE FALSE
  BY <1>1, <1>13 DEF MarkSuccessFails, WorkerDies
<1> QED
  BY <1>3, <1>4, <1>5, <1>6, <1>7, <1>8, <1>9, <1>10, <1>11, <1>12, <1>13 DEF Next, Schedule, Work

\* While only the mail server and the scheduler fail, no run is mailed twice,
\* however often its job is retried and whichever of two schedulers queued it.
THEOREM MailedOnceCorrect == Spec => []MailedOnce
<1>1. Init => Quiet
  BY DEF Init, Quiet, Unmailed, StoppedWorker
<1>2. Quiet => MailedOnce
  BY DEF Quiet, Unmailed, OnlyMailFails, MailedOnce
<1> QED
  BY <1>1, <1>2, QuietStep, Invariant, PTL DEF Spec
=============================================================================
