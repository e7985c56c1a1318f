-------------------------- MODULE PullQueueWakeProofs --------------------------
(***************************************************************************)
(* Theorems about PullQueue that relate the engine, which suspends a task  *)
(* at a queue node, to the handler of /queue/complete, which wakes it: the *)
(* cursor leaves by a report whatever faults there are, and without faults *)
(* the two never cross in a way that wakes a task too early or too late.   *)
(* Last, that all of it is one remote call per task and queue node.        *)
(***************************************************************************)
EXTENDS PullQueueProofs

\* A node's successor for what was reported for it.
ReportFor(t, n, m) ==
  \E i \in JobsOf(t, n) : \/ jobs[i].out = "ok" /\ m = OkNext[n]
                          \/ jobs[i].out = "error" /\ m = ErrNext[n]

\* What a scheduler is about to write for a task at a queue node keeps it there
\* or was reported.
ReportedAt(t) ==
  engine[t] \in {"status", "progress"} /\ tasks[t].curr \in QueueNode =>
    plan[t].next = tasks[t].curr \/ ReportFor(t, tasks[t].curr, plan[t].next)
Reported == \A t \in Task : ReportedAt(t)

\* A finished task is not executed.
Unended ==
  \A t \in Task : engine[t] \in {"run", "enqueue", "status"} =>
    tasks[t].status \notin {"completed", "failed"}

\* The task is at the node and waits there, or its scheduler is on the way to
\* write that it does.
WaitsAt(t, n) ==
  /\ tasks[t].curr = n
  /\ \/ engine[t] = "enqueue"
     \/ engine[t] = "status" /\ plan[t] = Suspension(n)
     \/ /\ engine[t] = "progress" /\ plan[t] = Suspension(n)
        /\ tasks[t].status = "waiting_queue"
     \/ engine[t] \in {"check", "free"} /\ tasks[t].status = "waiting_queue"

\* While the report of a job is not through, its task waits at the job's node.
Waits ==
  \A i \in DOMAIN jobs : handler[i] # "done" => WaitsAt(jobs[i].task, jobs[i].node)

\* A handler that is through has left a result.
Answered ==
  \A i \in DOMAIN jobs : handler[i] \in {"wake", "done"} => jobs[i].out # "none"

\* A woken task has its result, and the scheduler that still holds it has the
\* run to look at and leaves the cursor where it is.
WokenAt(t) ==
  tasks[t].status = "pending" =>
    /\ \A i \in JobsOf(t, tasks[t].curr) : jobs[i].out # "none"
    /\ engine[t] # "free" => JobsOf(t, tasks[t].curr) # {}
    /\ engine[t] = "progress" => plan[t].next = tasks[t].curr
Woken == \A t \in Task : WokenAt(t)

-----------------------------------------------------------------------------
(* Jobs stay, and so does what was reported for them. *)

JobsGrow ==
  /\ DOMAIN jobs \subseteq DOMAIN jobs'
  /\ \A j \in DOMAIN jobs :
       /\ jobs'[j].task = jobs[j].task /\ jobs'[j].node = jobs[j].node
       /\ jobs[j].out # "none" => jobs'[j].out = jobs[j].out

LEMMA SetRunningGrows ==
  ASSUME JobsInv, NEW i \in DOMAIN jobs, SetRunning(i)
  PROVE  /\ DOMAIN jobs' = DOMAIN jobs
         /\ \A j \in DOMAIN jobs :
              /\ jobs'[j].task = jobs[j].task /\ jobs'[j].node = jobs[j].node
              /\ jobs'[j].out = jobs[j].out
<1>1. jobs \in Seq(Job)
  BY DEF JobsInv, TypeOK
<1>2. jobs[i].out \in {"none", "ok", "error"}
  <2>1. jobs[i] \in Job
    BY <1>1, ElementOfSeq, LenProperties
  <2> QED BY <2>1 DEF Job
<1> QED BY <1>1, <1>2, RunEffect DEF SetRunning

\* A statement on the queue row of a job.
LEMMA QueueGrows ==
  ASSUME JobsInv, NEW i \in DOMAIN jobs, NEW q \in QueueState,
         jobs' = [jobs EXCEPT ![i].queue = q]
  PROVE  /\ DOMAIN jobs' = DOMAIN jobs
         /\ \A j \in DOMAIN jobs :
              /\ jobs'[j].task = jobs[j].task /\ jobs'[j].node = jobs[j].node
              /\ jobs'[j].out = jobs[j].out
  BY QueueEffect DEF JobsInv, TypeOK

LEMMA CreateRunGrows ==
  ASSUME JobsInv, NEW t \in Task, CreateRun(t)
  PROVE  \E k \in DOMAIN jobs' :
           /\ k \notin DOMAIN jobs /\ DOMAIN jobs' = DOMAIN jobs \cup {k}
           /\ jobs'[k].task = t /\ jobs'[k].node = tasks[t].curr
           /\ jobs'[k].out = "none" /\ handler'[k] = "none"
           /\ \A j \in DOMAIN jobs : jobs'[j] = jobs[j] /\ handler'[j] = handler[j]
<1> DEFINE n == tasks[t].curr
           e == [task |-> t, node |-> n, run |-> "queued", out |-> "none", queue |-> "absent"]
           k == Len(jobs) + 1
<1>1. /\ n \in Node /\ jobs' = Append(jobs, e) /\ handler' = Append(handler, "none")
  BY PullQueueAssumption DEF CreateRun
<1>2. e \in Job /\ e.task = t /\ e.node = n /\ e.out = "none"
  BY <1>1 DEF Job
<1> HIDE DEF e
<1>3. /\ k \in DOMAIN jobs' /\ k \notin DOMAIN jobs
      /\ DOMAIN jobs' = DOMAIN jobs \cup {k} /\ jobs'[k] = e
      /\ \A j \in DOMAIN jobs : jobs'[j] = jobs[j]
  BY <1>1, <1>2, AppendEffect DEF JobsInv, TypeOK
<1>4. handler'[k] = "none" /\ \A j \in DOMAIN jobs : handler'[j] = handler[j]
  <2>1. handler \in Seq(HandlerState) /\ DOMAIN handler = DOMAIN jobs
        /\ "none" \in HandlerState
    BY DEF JobsInv, TypeOK, HandlerState
  <2>2. Len(handler) = Len(jobs)
    BY <2>1, LenProperties DEF JobsInv, TypeOK
  <2> QED BY <1>1, <2>1, <2>2, AppendEffect
<1> QED BY <1>2, <1>3, <1>4

\* A handler writes a result where there was none.
LEMMA RecordResultGrows ==
  ASSUME JobsInv, NEW i \in DOMAIN jobs, RecordResult(i)
  PROVE  /\ DOMAIN jobs' = DOMAIN jobs /\ jobs[i].out = "none" /\ jobs'[i].out # "none"
         /\ \A j \in DOMAIN jobs :
              /\ jobs'[j].task = jobs[j].task /\ jobs'[j].node = jobs[j].node
              /\ j # i => jobs'[j].out = jobs[j].out
<1>1. /\ handler[i] \in {"ok", "error"}
      /\ jobs' = [jobs EXCEPT ![i].run = handler[i], ![i].out = handler[i]]
  BY DEF RecordResult
<1>2. jobs[i].out = "none"
  BY <1>1 DEF JobsInv, Results
<1>3. /\ DOMAIN jobs' = DOMAIN jobs /\ jobs'[i].out = handler[i]
      /\ \A j \in DOMAIN jobs :
           /\ jobs'[j].task = jobs[j].task /\ jobs'[j].node = jobs[j].node
           /\ j # i => jobs'[j].out = jobs[j].out
  BY <1>1, RunEffect DEF JobsInv, TypeOK
<1> QED BY <1>1, <1>2, <1>3

\* Where Enqueue finds its job.
LEMMA EnqueueIs ==
  ASSUME JobsInv, NEW t \in Task, Enqueue(t)
  PROVE  \E i \in DOMAIN jobs : jobs' = [jobs EXCEPT ![i].queue = "pending"]
<1>1. PICK i \in JobsOf(t, tasks[t].curr) : jobs[i].queue = "absent"
  BY DEF Enqueue, JobsInv, Enqueueing
<1>2. LastRun(t, tasks[t].curr) = i /\ i \in DOMAIN jobs
  BY LastRunIs DEF JobsInv, JobsOf
<1> QED BY <1>2 DEF Enqueue

LEMMA GrowStep == JobsInv /\ [Next]_vars => JobsGrow
<1> SUFFICES ASSUME JobsInv, [Next]_vars PROVE JobsGrow
  OBVIOUS
<1>1. ASSUME NEW t \in Task, EngineStep(t) \/ EngineCrash(t) PROVE JobsGrow
  <2>1. CASE CreateRun(t)
    BY <2>1, CreateRunGrows DEF JobsGrow
  <2>2. CASE Enqueue(t)
    <3>1. PICK i \in DOMAIN jobs : jobs' = [jobs EXCEPT ![i].queue = "pending"]
      BY <2>2, EnqueueIs
    <3> QED BY <3>1, QueueGrows DEF JobsGrow, QueueState
  <2>3. CASE UNCHANGED jobs
    BY <2>3 DEF JobsGrow
  <2> QED
    BY <1>1, <2>1, <2>2, <2>3 DEF EngineStep, Lease, RunNode, ReadRun, WriteStatus,
       WriteProgress, Check, EngineCrash
<1>2. ASSUME NEW w \in Worker, WorkerStep(w) \/ WorkerCrash(w) PROVE JobsGrow
  <2>1. CASE Poll(w)
    <3>1. PICK i \in DOMAIN jobs : jobs' = [jobs EXCEPT ![i].queue = "claimed"]
      BY <2>1 DEF Poll
    <3> QED BY <3>1, QueueGrows DEF JobsGrow, QueueState
  <2>2. CASE ReportRunning(w)
    <3>1. worker[w].job \in DOMAIN jobs
      BY <2>2 DEF ReportRunning, JobsInv, Hands, IdleWorker
    <3>2. SetRunning(worker[w].job) \/ UNCHANGED jobs
      BY <2>2 DEF ReportRunning
    <3>3. CASE SetRunning(worker[w].job)
      BY <3>1, <3>3, SetRunningGrows DEF JobsGrow
    <3>4. CASE UNCHANGED jobs
      BY <3>4 DEF JobsGrow
    <3> QED BY <3>2, <3>3, <3>4
  <2>3. CASE UNCHANGED jobs
    BY <2>3 DEF JobsGrow
  <2> QED BY <1>2, <2>1, <2>2, <2>3 DEF WorkerStep, ExecuteJob, WorkerCrash
<1>3. ASSUME NEW i \in DOMAIN jobs, HandlerStep(i) \/ LateRunning(i) \/ HandlerCrash(i)
      PROVE  JobsGrow
  <2>1. CASE CompleteJob(i)
    BY <2>1, QueueGrows DEF CompleteJob, JobsGrow, QueueState
  <2>2. CASE RecordResult(i)
    BY <2>2, RecordResultGrows DEF JobsGrow
  <2>3. CASE LateRunning(i)
    BY <2>3, SetRunningGrows DEF LateRunning, JobsGrow
  <2>4. CASE UNCHANGED jobs
    BY <2>4 DEF JobsGrow
  <2> QED BY <1>3, <2>1, <2>2, <2>3, <2>4 DEF HandlerStep, WakeTask, HandlerCrash
<1>4. ASSUME UNCHANGED vars PROVE JobsGrow
  BY <1>4 DEF vars, JobsGrow
<1> QED BY <1>1, <1>2, <1>3, <1>4 DEF Next

\* A report stays, whatever the task and its scheduler do.
LEMMA ReportStays ==
  ASSUME JobsGrow, NEW t \in Task, ReportFor(t, tasks[t].curr, plan[t].next),
         tasks'[t].curr = tasks[t].curr, plan'[t].next = plan[t].next
  PROVE  ReportFor(t, tasks[t].curr, plan[t].next)'
<1>1. PICK i \in DOMAIN jobs :
        /\ jobs[i].task = t /\ jobs[i].node = tasks[t].curr
        /\ \/ jobs[i].out = "ok" /\ plan[t].next = OkNext[tasks[t].curr]
           \/ jobs[i].out = "error" /\ plan[t].next = ErrNext[tasks[t].curr]
  BY DEF ReportFor, JobsOf
<1>2. /\ i \in DOMAIN jobs' /\ jobs'[i].task = t /\ jobs'[i].node = tasks[t].curr
      /\ jobs'[i].out = jobs[i].out
  BY <1>1 DEF JobsGrow
<1> QED BY <1>1, <1>2 DEF ReportFor, JobsOf

-----------------------------------------------------------------------------
(* What the engine may write. *)

\* Steps of the workers and the handlers leave the engine and the cursors, and
\* wake tasks at most.
LEMMA OthersStep ==
  ASSUME JobsInv,
         \/ \E w \in Worker : WorkerStep(w) \/ WorkerCrash(w)
         \/ \E i \in DOMAIN jobs : HandlerStep(i) \/ LateRunning(i) \/ HandlerCrash(i)
  PROVE  /\ UNCHANGED <<engine, plan>>
         /\ \A u \in Task : /\ tasks'[u].curr = tasks[u].curr
                            /\ \/ tasks'[u].status = tasks[u].status
                               \/ tasks'[u].status = "pending"
<1>1. CASE \E i \in DOMAIN jobs : WakeTask(i)
  <2>1. PICK i \in DOMAIN jobs : WakeTask(i)
    BY <1>1
  <2>2. tasks \in [Task -> [status : Status, curr : Cursor]]
    BY DEF JobsInv, TypeOK
  <2>3. /\ UNCHANGED <<engine, plan>>
        /\ tasks' = [tasks EXCEPT ![jobs[i].task].status = "pending"]
    BY <2>1 DEF WakeTask, SetStatus
  <2> QED BY <2>2, <2>3
<1>2. CASE UNCHANGED <<tasks, engine, plan>>
  BY <1>2
<1> QED
  BY <1>1, <1>2 DEF WorkerStep, WorkerCrash, HandlerStep, LateRunning, HandlerCrash,
     Poll, ReportRunning, ExecuteJob, CompleteJob, RecordResult

\* Each step of the engine is about one task.
LEMMA EngineIsOfOne ==
  ASSUME TypeOK, NEW t \in Task, EngineStep(t) \/ EngineCrash(t)
  PROVE  \A u \in Task : u # t =>
           tasks'[u] = tasks[u] /\ engine'[u] = engine[u] /\ plan'[u] = plan[u]
  BY DEF TypeOK, EngineStep, EngineCrash, Lease, RunNode, ReadRun, CreateRun, Enqueue,
     WriteStatus, WriteProgress, Check, WillWrite, SetStatus, Goto

LEMMA ReportedStep == JobsInv /\ Reported /\ [Next]_vars => Reported'
<1> SUFFICES ASSUME JobsInv, Reported, [Next]_vars PROVE Reported'
  OBVIOUS
<1>0. TypeOK /\ JobsGrow /\ OneJobPerNode
  BY GrowStep DEF JobsInv
<1>1. ASSUME NEW t \in Task, EngineStep(t) \/ EngineCrash(t) PROVE Reported'
  <2> DEFINE n == tasks[t].curr
  <2>1. ASSUME NEW u \in Task, u # t PROVE ReportedAt(u)'
    <3>1. tasks'[u] = tasks[u] /\ engine'[u] = engine[u] /\ plan'[u] = plan[u]
      BY <1>0, <1>1, <2>1, EngineIsOfOne
    <3> QED BY <1>0, <3>1, ReportStays DEF Reported, ReportedAt
  <2>2. ReportedAt(t)'
    <3>0. engine \in [Task -> {"free", "run", "enqueue", "status", "progress", "check"}]
          /\ plan \in [Task -> Plan] /\ tasks \in [Task -> [status : Status, curr : Cursor]]
      BY <1>0 DEF TypeOK
    <3>1. CASE Lease(t) \/ CreateRun(t) \/ WriteProgress(t) \/ Check(t) \/ EngineCrash(t)
      <4>1. engine'[t] \notin {"status", "progress"}
        BY <3>0, <3>1 DEF Lease, CreateRun, WriteProgress, Check, EngineCrash, Goto
      <4> QED BY <4>1 DEF ReportedAt
    <3>2. CASE RunNode(t)
      BY <3>2 DEF RunNode, ReportedAt
    <3>3. CASE ReadRun(t)
      <4>1. PICK i \in JobsOf(t, n) : LastRun(t, n) = i
        BY <1>0, <3>3, LastRunIs DEF ReadRun
      <4>2. n \in QueueNode /\ n # NoNode /\ UNCHANGED <<tasks, jobs>>
        BY <3>3, PullQueueAssumption DEF ReadRun
      <4>3. CASE jobs[i].run \in {"ok", "error"}
        <5>1. plan'[t] = Outcome(n, jobs[i].run)
          BY <3>0, <3>3, <4>1, <4>3 DEF ReadRun, WillWrite
        <5>2. jobs[i].out = jobs[i].run
          BY <4>1, <4>3 DEF JobsInv, Results, JobsOf
        <5> QED BY <4>1, <4>2, <4>3, <5>1, <5>2 DEF ReportedAt, ReportFor, JobsOf, Outcome
      <4>4. CASE jobs[i].run \notin {"ok", "error"}
        <5>1. plan'[t] = Suspension(n)
          BY <3>0, <3>3, <4>1, <4>4 DEF ReadRun, WillWrite
        <5> QED BY <4>2, <5>1 DEF Suspension, ReportedAt
      <4> QED BY <4>3, <4>4
    <3>4. CASE Enqueue(t)
      <4>1. plan'[t] = Suspension(n) /\ UNCHANGED tasks
        BY <3>0, <3>4 DEF Enqueue, WillWrite
      <4> QED BY <4>1 DEF Suspension, ReportedAt
    <3>5. CASE WriteStatus(t)
      <4>1. engine[t] = "status" /\ UNCHANGED plan /\ tasks'[t].curr = n
        BY <3>0, <3>5 DEF WriteStatus, SetStatus
      <4> QED BY <1>0, <4>1, ReportStays DEF Reported, ReportedAt
    <3> QED BY <1>1, <3>1, <3>2, <3>3, <3>4, <3>5 DEF EngineStep
  <2> QED BY <2>1, <2>2 DEF Reported
<1>2. ASSUME UNCHANGED <<engine, plan>>, \A u \in Task : tasks'[u].curr = tasks[u].curr
      PROVE  Reported'
  BY <1>0, <1>2, ReportStays DEF Reported, ReportedAt
<1>3. ASSUME UNCHANGED vars PROVE Reported'
  BY <1>2, <1>3 DEF vars
<1> QED BY <1>1, <1>2, <1>3, OthersStep DEF Next

LEMMA UnendedStep == JobsInv /\ Unended /\ [Next]_vars => Unended'
<1> SUFFICES ASSUME JobsInv, Unended, [Next]_vars PROVE Unended'
  OBVIOUS
<1>0. /\ TypeOK
      /\ engine \in [Task -> {"free", "run", "enqueue", "status", "progress", "check"}]
      /\ tasks \in [Task -> [status : Status, curr : Cursor]]
  BY DEF JobsInv, TypeOK
<1>1. ASSUME NEW t \in Task, EngineStep(t) \/ EngineCrash(t) PROVE Unended'
  <2>1. engine'[t] \in {"run", "enqueue", "status"} =>
          tasks'[t].status \notin {"completed", "failed"}
    <3>1. CASE Lease(t)
      BY <1>0, <3>1 DEF Lease, SetStatus
    <3>2. CASE RunNode(t) \/ ReadRun(t) \/ CreateRun(t) \/ Enqueue(t)
      <4>1. UNCHANGED tasks /\ engine[t] \in {"run", "enqueue"}
        BY <3>2 DEF RunNode, ReadRun, CreateRun, Enqueue
      <4> QED BY <4>1 DEF Unended
    <3>3. CASE WriteStatus(t) \/ WriteProgress(t) \/ EngineCrash(t)
      BY <1>0, <3>3 DEF WriteStatus, WriteProgress, EngineCrash, Goto
    <3>4. CASE Check(t)
      BY <1>0, <3>4 DEF Check, Goto, Released
    <3> QED BY <1>1, <3>1, <3>2, <3>3, <3>4 DEF EngineStep
  <2> QED BY <1>0, <1>1, <2>1, EngineIsOfOne DEF Unended
<1>2. ASSUME UNCHANGED engine,
             \A u \in Task : tasks'[u].status \in {tasks[u].status, "pending"}
      PROVE  Unended'
  BY <1>2 DEF Unended
<1>3. ASSUME UNCHANGED vars PROVE Unended'
  BY <1>3 DEF vars, Unended
<1> QED BY <1>1, <1>2, <1>3, OthersStep DEF Next

\* The progress write is the only one that moves a cursor.
LEMMA MovesAreWrites ==
  ASSUME JobsInv, [Next]_vars, NEW t \in Task, tasks'[t].curr # tasks[t].curr
  PROVE  engine[t] = "progress" /\ tasks'[t].curr = plan[t].next
<1>0. TypeOK /\ tasks \in [Task -> [status : Status, curr : Cursor]]
  BY DEF JobsInv, TypeOK
<1>1. ~(UNCHANGED vars)
  BY DEF vars
<1>2. PICK u \in Task : EngineStep(u) \/ EngineCrash(u)
  BY <1>1, OthersStep DEF Next
<1>3. u = t
  BY <1>0, <1>2, EngineIsOfOne
<1>4. EngineStep(t) \/ EngineCrash(t)
  BY <1>2, <1>3
<1>5. ~(Lease(t) \/ RunNode(t) \/ ReadRun(t) \/ CreateRun(t) \/ Enqueue(t)
        \/ WriteStatus(t) \/ Check(t) \/ EngineCrash(t))
  BY <1>0 DEF Lease, RunNode, ReadRun, CreateRun, Enqueue, WriteStatus, Check,
     EngineCrash, SetStatus
<1>6. WriteProgress(t)
  BY <1>4, <1>5 DEF EngineStep
<1> QED BY <1>0, <1>6 DEF WriteProgress

\* The cursor leaves a queue node only by what was reported for it, though
\* results and updates come late and schedulers, workers and handlers die.
THEOREM LeftByReport == Spec => LeavesByReport
<1> DEFINE Inv == JobsInv /\ Reported
           Move == \A t \in Task :
                     LET n == tasks[t].curr
                         m == tasks'[t].curr
                     IN n \in QueueNode /\ m # n
                        => \E i \in JobsOf(t, n) :
                             \/ jobs[i].out = "ok" /\ m = OkNext[n]
                             \/ jobs[i].out = "error" /\ m = ErrNext[n]
<1>1. Init => Inv
  BY JobsInit DEF Init, Reported, ReportedAt
<1>2. Inv /\ [Next]_vars => Inv'
  BY JobsStep, ReportedStep
<1>3. Inv /\ [Next]_vars => [Move]_vars
  <2> SUFFICES ASSUME JobsInv, Reported, [Next]_vars, NEW t \in Task,
                      tasks[t].curr \in QueueNode, tasks'[t].curr # tasks[t].curr
               PROVE  ReportFor(t, tasks[t].curr, tasks'[t].curr)
    BY DEF ReportFor
  <2> QED BY MovesAreWrites DEF Reported, ReportedAt
<1> QED
  <2>1. Spec => [][Move]_vars
    BY <1>1, <1>2, <1>3, PTL DEF Spec
  <2> QED BY <2>1 DEF LeavesByReport

-----------------------------------------------------------------------------
(* Without faults.                                                         *)

\* Every job is some task's.
LEMMA JobIs ==
  ASSUME TypeOK, NEW i \in DOMAIN jobs
  PROVE  jobs[i].task \in Task /\ jobs[i].node \in Node /\ handler[i] \in HandlerState
<1>1. jobs[i] \in Job /\ handler[i] \in HandlerState
  BY ElementOfSeq, LenProperties DEF TypeOK, HandlerState
<1> QED BY <1>1 DEF Job

\* Steps that leave the tasks and their schedulers alone, and end no handler.
LEMMA WakeKept ==
  ASSUME TypeOK, Waits, Answered, Woken,
         UNCHANGED <<tasks, engine, plan>>, DOMAIN jobs' = DOMAIN jobs,
         \A j \in DOMAIN jobs :
           /\ jobs'[j].task = jobs[j].task /\ jobs'[j].node = jobs[j].node
           /\ jobs[j].out # "none" => jobs'[j].out # "none"
           /\ handler'[j] = "done" <=> handler[j] = "done"
           /\ handler'[j] = "wake" => handler[j] = "wake" \/ jobs'[j].out # "none"
  PROVE  Waits' /\ Answered' /\ Woken'
<1>1. Waits'
  BY DEF Waits, WaitsAt
<1>2. Answered'
  BY DEF Answered
<1>3. Woken'
  BY DEF Woken, WokenAt, JobsOf
<1> QED BY <1>1, <1>2, <1>3

\* A step of one task's scheduler, or of the handler that wakes it.
LEMMA WakeOfOne ==
  ASSUME TypeOK, Waits, Woken, Answered', NEW t \in Task,
         DOMAIN jobs' = DOMAIN jobs,
         \A j \in DOMAIN jobs :
           /\ jobs'[j].task = jobs[j].task /\ jobs'[j].node = jobs[j].node
           /\ jobs'[j].out = jobs[j].out
           /\ jobs[j].task # t => handler'[j] = handler[j]
           /\ jobs[j].task = t /\ handler'[j] # "done" => WaitsAt(t, jobs[j].node)',
         \A u \in Task : u # t =>
           tasks'[u] = tasks[u] /\ engine'[u] = engine[u] /\ plan'[u] = plan[u],
         WokenAt(t)'
  PROVE  Waits' /\ Answered' /\ Woken'
<1>1. Waits'
  <2> SUFFICES ASSUME NEW j \in DOMAIN jobs, handler'[j] # "done"
               PROVE  WaitsAt(jobs[j].task, jobs[j].node)'
    BY DEF Waits
  <2>1. jobs[j].task \in Task
    BY JobIs
  <2>2. CASE jobs[j].task = t
    BY <2>2 DEF WaitsAt
  <2>3. CASE jobs[j].task # t
    <3>1. WaitsAt(jobs[j].task, jobs[j].node)
      BY <2>3 DEF Waits
    <3> QED BY <2>1, <2>3, <3>1 DEF WaitsAt
  <2> QED BY <2>2, <2>3
<1>2. Woken'
  <2> SUFFICES ASSUME NEW u \in Task, u # t PROVE WokenAt(u)'
    BY DEF Woken
  <2>1. WokenAt(u)
    BY DEF Woken
  <2>2. JobsOf(u, tasks[u].curr)' = JobsOf(u, tasks[u].curr)
    BY DEF JobsOf
  <2>3. \A i \in JobsOf(u, tasks[u].curr) : jobs'[i].out = jobs[i].out
    BY DEF JobsOf
  <2> QED BY <2>1, <2>2, <2>3 DEF WokenAt
<1> QED BY <1>1, <1>2

LEMMA EngineWakes ==
  ASSUME JobsInv, Unended, Waits, Answered, Woken, NEW t \in Task, EngineStep(t)
  PROVE  Waits' /\ Answered' /\ Woken'
<1> DEFINE n == tasks[t].curr
<1>0. /\ TypeOK /\ OneJobPerNode
      /\ engine \in [Task -> {"free", "run", "enqueue", "status", "progress", "check"}]
      /\ plan \in [Task -> Plan] /\ tasks \in [Task -> [status : Status, curr : Cursor]]
  BY DEF JobsInv, TypeOK
<1>1. \A u \in Task : u # t =>
        tasks'[u] = tasks[u] /\ engine'[u] = engine[u] /\ plan'[u] = plan[u]
  BY <1>0, EngineIsOfOne
<1>2. \A j \in DOMAIN jobs : jobs[j].task = t /\ handler[j] # "done" =>
        WaitsAt(t, jobs[j].node)
  BY DEF Waits
<1>3. /\ tasks[t].status = "pending" => \A i \in JobsOf(t, n) : jobs[i].out # "none"
      /\ tasks[t].status = "pending" /\ engine[t] # "free" => JobsOf(t, n) # {}
      /\ tasks[t].status = "pending" /\ engine[t] = "progress" => plan[t].next = n
  BY DEF Woken, WokenAt
\* All but CreateRun and Enqueue leave the jobs alone.
<1>4. ASSUME UNCHANGED <<jobs, handler>>, WokenAt(t)',
             \A j \in DOMAIN jobs : jobs[j].task = t /\ handler[j] # "done" =>
               WaitsAt(t, jobs[j].node)'
      PROVE  Waits' /\ Answered' /\ Woken'
  <2>1. Answered'
    BY <1>4 DEF Answered
  <2> QED BY <1>0, <1>1, <1>4, <2>1, WakeOfOne
<1>5. CASE Lease(t)
  <2>1. /\ engine[t] = "free" /\ tasks[t].status # "waiting_queue"
        /\ tasks'[t].status # "pending" /\ UNCHANGED <<jobs, handler>>
    BY <1>0, <1>5 DEF Lease, SetStatus
  <2>2. \A j \in DOMAIN jobs : jobs[j].task = t => handler[j] = "done"
    BY <1>2, <2>1 DEF WaitsAt
  <2>3. WokenAt(t)'
    BY <2>1 DEF WokenAt
  <2> QED BY <1>4, <2>1, <2>2, <2>3
<1>6. CASE RunNode(t) \/ ReadRun(t)
  <2>1. /\ engine[t] = "run" /\ engine'[t] = "status"
        /\ UNCHANGED <<tasks, jobs, handler>>
    BY <1>0, <1>6 DEF RunNode, ReadRun, WillWrite, Goto
  <2>2. \A j \in DOMAIN jobs : jobs[j].task = t => handler[j] = "done"
    BY <1>2, <2>1 DEF WaitsAt
  <2>3. WokenAt(t)'
    BY <1>3, <2>1 DEF WokenAt, JobsOf
  <2> QED BY <1>4, <2>1, <2>2, <2>3
<1>7. CASE CreateRun(t)
  <2>1. PICK k \in DOMAIN jobs' :
          /\ k \notin DOMAIN jobs /\ DOMAIN jobs' = DOMAIN jobs \cup {k}
          /\ jobs'[k].task = t /\ jobs'[k].node = n
          /\ jobs'[k].out = "none" /\ handler'[k] = "none"
          /\ \A j \in DOMAIN jobs : jobs'[j] = jobs[j] /\ handler'[j] = handler[j]
    BY <1>7, CreateRunGrows
  <2>2. /\ engine[t] = "run" /\ engine'[t] = "enqueue" /\ JobsOf(t, n) = {}
        /\ UNCHANGED <<tasks, plan>>
    BY <1>0, <1>7, LastRunIs DEF CreateRun, Goto
  <2>3. \A j \in DOMAIN jobs : jobs[j].task = t => handler[j] = "done"
    BY <1>2, <2>2 DEF WaitsAt
  <2>4. Waits'
    <3> SUFFICES ASSUME NEW j \in DOMAIN jobs', handler'[j] # "done"
                 PROVE  WaitsAt(jobs[j].task, jobs[j].node)'
      BY DEF Waits
    <3>1. CASE j = k
      BY <2>1, <2>2, <3>1 DEF WaitsAt
    <3>2. CASE j # k
      <4>1. j \in DOMAIN jobs /\ handler[j] # "done" /\ jobs[j].task # t
        BY <2>1, <2>3, <3>2
      <4>2. jobs[j].task \in Task /\ WaitsAt(jobs[j].task, jobs[j].node)
        BY <1>0, <4>1, JobIs DEF Waits
      <4> QED BY <1>1, <2>1, <4>1, <4>2 DEF WaitsAt
    <3> QED BY <3>1, <3>2
  <2>5. Answered'
    BY <2>1 DEF Answered
  <2>6. Woken'
    <3> SUFFICES ASSUME NEW u \in Task, tasks[u].status = "pending" PROVE WokenAt(u)'
      BY <2>2 DEF Woken, WokenAt
    <3>1. u # t
      BY <1>3, <2>2
    <3>2. JobsOf(u, tasks[u].curr)' = JobsOf(u, tasks[u].curr)
      BY <2>1, <2>2, <3>1 DEF JobsOf
    <3>3. \A i \in JobsOf(u, tasks[u].curr) : jobs'[i] = jobs[i]
      BY <2>1 DEF JobsOf
    <3> QED BY <1>1, <3>1, <3>2, <3>3 DEF Woken, WokenAt
  <2> QED BY <2>4, <2>5, <2>6
<1>8. CASE Enqueue(t)
  <2>1. PICK i \in DOMAIN jobs : jobs' = [jobs EXCEPT ![i].queue = "pending"]
    BY <1>8, EnqueueIs
  <2>2. /\ DOMAIN jobs' = DOMAIN jobs
        /\ \A j \in DOMAIN jobs :
             /\ jobs'[j].task = jobs[j].task /\ jobs'[j].node = jobs[j].node
             /\ jobs'[j].out = jobs[j].out
    BY <2>1, QueueGrows DEF QueueState
  <2>3. /\ engine[t] = "enqueue" /\ engine'[t] = "status" /\ plan'[t] = Suspension(n)
        /\ UNCHANGED <<tasks, handler>>
    BY <1>0, <1>8 DEF Enqueue, WillWrite, Goto
  <2>4. \A j \in DOMAIN jobs : jobs[j].task = t /\ handler'[j] # "done" =>
          WaitsAt(t, jobs[j].node)'
    BY <1>2, <2>2, <2>3 DEF WaitsAt
  <2>5. Answered'
    BY <2>2, <2>3 DEF Answered
  <2>6. WokenAt(t)'
    BY <1>3, <2>2, <2>3 DEF WokenAt, JobsOf
  <2> QED BY <1>0, <1>1, <2>2, <2>3, <2>4, <2>5, <2>6, WakeOfOne
<1>9. CASE WriteStatus(t)
  <2>1. /\ engine[t] = "status" /\ engine'[t] = "progress"
        /\ tasks'[t].status = plan[t].status /\ tasks'[t].curr = n
        /\ UNCHANGED <<plan, jobs, handler>>
    BY <1>0, <1>9 DEF WriteStatus, SetStatus, Goto
  <2>2. plan[t].status # "pending"
    BY <2>1 DEF JobsInv, Planned
  <2>3. \A j \in DOMAIN jobs : jobs[j].task = t /\ handler[j] # "done" =>
          WaitsAt(t, jobs[j].node)'
    BY <1>2, <2>1 DEF WaitsAt, Suspension
  <2>4. WokenAt(t)'
    BY <2>1, <2>2 DEF WokenAt
  <2> QED BY <1>4, <2>1, <2>3, <2>4
<1>10. CASE WriteProgress(t)
  <2>1. /\ engine[t] = "progress" /\ engine'[t] = "check"
        /\ tasks'[t].status = tasks[t].status /\ tasks'[t].curr = plan[t].next
        /\ UNCHANGED <<plan, jobs, handler>>
    BY <1>0, <1>10 DEF WriteProgress, Goto
  <2>2. \A j \in DOMAIN jobs : jobs[j].task = t /\ handler[j] # "done" =>
          WaitsAt(t, jobs[j].node)'
    <3>1. \A m : Suspension(m).next = m
      BY DEF Suspension
    <3> QED BY <1>2, <2>1, <3>1 DEF WaitsAt
  <2>3. WokenAt(t)'
    BY <1>3, <2>1 DEF WokenAt, JobsOf
  <2> QED BY <1>4, <2>1, <2>2, <2>3
<1>11. CASE Check(t)
  <2>1. /\ engine[t] = "check" /\ engine'[t] = IF Released(t) THEN "free" ELSE "run"
        /\ UNCHANGED <<tasks, jobs, handler>>
    BY <1>0, <1>11 DEF Check, Goto
  <2>2. \A j \in DOMAIN jobs : jobs[j].task = t /\ handler[j] # "done" =>
          WaitsAt(t, jobs[j].node)'
    BY <1>2, <2>1 DEF WaitsAt, Released
  <2>3. WokenAt(t)'
    BY <1>3, <2>1 DEF WokenAt, JobsOf
  <2> QED BY <1>4, <2>1, <2>2, <2>3
<1> QED BY <1>5, <1>6, <1>7, <1>8, <1>9, <1>10, <1>11 DEF EngineStep

LEMMA WorkerWakes ==
  ASSUME JobsInv, Waits, Answered, Woken, NEW w \in Worker, WorkerStep(w) \/ WorkerCrash(w)
  PROVE  Waits' /\ Answered' /\ Woken'
<1>0. TypeOK /\ DOMAIN handler = DOMAIN jobs
  BY DEF JobsInv, TypeOK
<1>1. UNCHANGED <<tasks, engine, plan>>
  BY DEF WorkerStep, WorkerCrash, Poll, ReportRunning, ExecuteJob
<1>2. CASE Poll(w)
  <2>1. PICK i \in DOMAIN jobs : jobs' = [jobs EXCEPT ![i].queue = "claimed"]
    BY <1>2 DEF Poll
  <2>2. /\ DOMAIN jobs' = DOMAIN jobs
        /\ \A j \in DOMAIN jobs :
             /\ jobs'[j].task = jobs[j].task /\ jobs'[j].node = jobs[j].node
             /\ jobs'[j].out = jobs[j].out
    BY <2>1, QueueGrows DEF QueueState
  <2>3. UNCHANGED handler
    BY <1>2 DEF Poll
  <2> QED BY <1>0, <1>1, <2>2, <2>3, WakeKept
<1>3. CASE ReportRunning(w)
  <2>1. worker[w].job \in DOMAIN jobs
    BY <1>3 DEF ReportRunning, JobsInv, Hands, IdleWorker
  <2>2. /\ DOMAIN jobs' = DOMAIN jobs
        /\ \A j \in DOMAIN jobs :
             /\ jobs'[j].task = jobs[j].task /\ jobs'[j].node = jobs[j].node
             /\ jobs'[j].out = jobs[j].out
    <3>1. CASE SetRunning(worker[w].job)
      BY <2>1, <3>1, SetRunningGrows
    <3>2. CASE UNCHANGED jobs
      BY <3>2
    <3> QED BY <1>3, <3>1, <3>2 DEF ReportRunning
  <2>3. UNCHANGED handler
    BY <1>3 DEF ReportRunning
  <2> QED BY <1>0, <1>1, <2>2, <2>3, WakeKept
<1>4. CASE ExecuteJob(w)
  <2> DEFINE i == worker[w].job
  <2>1. i \in DOMAIN jobs /\ handler[i] = "none"
    BY <1>4 DEF ExecuteJob, JobsInv, Hands, IdleWorker
  <2>2. /\ handler'[i] \in {"none", "ok", "error"}
        /\ \A j \in DOMAIN jobs : j # i => handler'[j] = handler[j]
    <3>1. handler \in Seq(HandlerState) /\ i \in DOMAIN handler
      BY <1>0, <2>1 DEF TypeOK, HandlerState
    <3>2. \/ \E out \in {"ok", "error"} : handler' = [handler EXCEPT ![i] = out]
          \/ UNCHANGED handler
      BY <1>4 DEF ExecuteJob, Post
    <3>3. CASE \E out \in {"ok", "error"} : handler' = [handler EXCEPT ![i] = out]
      <4>1. PICK out \in {"ok", "error"} : handler' = [handler EXCEPT ![i] = out]
        BY <3>3
      <4>2. out \in HandlerState
        BY DEF HandlerState
      <4> QED BY <1>0, <3>1, <4>1, <4>2, HandlerEffect
    <3>4. CASE UNCHANGED handler
      BY <2>1, <3>4
    <3> QED BY <3>2, <3>3, <3>4
  <2>3. UNCHANGED jobs
    BY <1>4 DEF ExecuteJob
  <2>4. \A j \in DOMAIN jobs :
          /\ handler'[j] = "done" <=> handler[j] = "done"
          /\ handler'[j] = "wake" => handler[j] = "wake"
    BY <2>1, <2>2
  <2> QED BY <1>0, <1>1, <2>3, <2>4, WakeKept
<1>5. CASE WorkerCrash(w)
  BY <1>0, <1>1, <1>5, WakeKept DEF WorkerCrash
<1> QED BY <1>2, <1>3, <1>4, <1>5 DEF WorkerStep

\* A handler's last write finds its task at the node, and no other report on
\* the task under way.
LEMMA WakeTaskIs ==
  ASSUME JobsInv, Waits, NEW i \in DOMAIN jobs, WakeTask(i)
  PROVE  /\ WaitsAt(jobs[i].task, jobs[i].node)
         /\ \A j \in DOMAIN jobs : jobs[j].task = jobs[i].task /\ handler[j] # "done" => j = i
         /\ \A j \in JobsOf(jobs[i].task, tasks[jobs[i].task].curr) : j = i
<1>1. handler[i] # "done"
  BY DEF WakeTask
<1>2. WaitsAt(jobs[i].task, jobs[i].node)
  BY <1>1 DEF Waits
<1>3. tasks[jobs[i].task].curr = jobs[i].node
  BY <1>2 DEF WaitsAt
<1>4. ASSUME NEW j \in DOMAIN jobs, jobs[j].task = jobs[i].task, handler[j] # "done"
      PROVE  j = i
  <2>1. tasks[jobs[i].task].curr = jobs[j].node
    BY <1>4 DEF Waits, WaitsAt
  <2> QED BY <1>3, <1>4, <2>1 DEF JobsInv, OneJobPerNode
<1> QED BY <1>2, <1>3, <1>4 DEF JobsInv, OneJobPerNode, JobsOf

LEMMA HandlerWakes ==
  ASSUME JobsInv, Waits, Answered, Woken, NEW i \in DOMAIN jobs,
         HandlerStep(i) \/ LateRunning(i)
  PROVE  Waits' /\ Answered' /\ Woken'
<1>0. TypeOK /\ DOMAIN handler = DOMAIN jobs /\ handler \in Seq(HandlerState)
  BY DEF JobsInv, TypeOK, HandlerState
<1>1. CASE CompleteJob(i) \/ LateRunning(i)
  <2>1. /\ DOMAIN jobs' = DOMAIN jobs
        /\ \A j \in DOMAIN jobs :
             /\ jobs'[j].task = jobs[j].task /\ jobs'[j].node = jobs[j].node
             /\ jobs'[j].out = jobs[j].out
    <3>1. CASE CompleteJob(i)
      BY <3>1, QueueGrows DEF CompleteJob, QueueState
    <3>2. CASE LateRunning(i)
      BY <3>2, SetRunningGrows DEF LateRunning
    <3> QED BY <1>1, <3>1, <3>2
  <2>2. UNCHANGED <<tasks, engine, plan, handler>>
    BY <1>1 DEF CompleteJob, LateRunning
  <2> QED BY <1>0, <2>1, <2>2, WakeKept
<1>2. CASE RecordResult(i)
  <2>1. /\ DOMAIN jobs' = DOMAIN jobs /\ jobs[i].out = "none" /\ jobs'[i].out # "none"
        /\ \A j \in DOMAIN jobs :
             /\ jobs'[j].task = jobs[j].task /\ jobs'[j].node = jobs[j].node
             /\ j # i => jobs'[j].out = jobs[j].out
    BY <1>2, RecordResultGrows
  <2>2. /\ handler[i] \in {"ok", "error"} /\ handler' = [handler EXCEPT ![i] = "wake"]
        /\ UNCHANGED <<tasks, engine, plan>>
    BY <1>2 DEF RecordResult
  <2>3. handler'[i] = "wake" /\ \A j \in DOMAIN jobs : j # i => handler'[j] = handler[j]
    BY <1>0, <2>2, HandlerEffect DEF HandlerState
  <2> QED BY <1>0, <2>1, <2>2, <2>3, WakeKept
<1>3. CASE WakeTask(i)
  <2>0. PICK t \in Task : t = jobs[i].task
    BY <1>0, JobIs
  <2>1. /\ WaitsAt(t, jobs[i].node)
        /\ \A j \in DOMAIN jobs : jobs[j].task = t /\ handler[j] # "done" => j = i
        /\ \A j \in JobsOf(t, tasks[t].curr) : j = i
    BY <1>3, <2>0, WakeTaskIs
  <2>2. handler[i] = "wake" /\ jobs[i].out # "none"
    BY <1>3 DEF WakeTask, Answered
  <2>3. /\ UNCHANGED <<engine, plan, jobs>>
        /\ tasks' = [tasks EXCEPT ![t].status = "pending"]
        /\ handler'[i] = "done" /\ \A j \in DOMAIN jobs : j # i => handler'[j] = handler[j]
    BY <1>0, <1>3, <2>0, HandlerEffect DEF WakeTask, SetStatus, HandlerState
  <2>4. /\ tasks'[t].curr = tasks[t].curr
        /\ \A u \in Task : u # t => tasks'[u] = tasks[u]
    <3>1. tasks \in [Task -> [status : Status, curr : Cursor]]
      BY <1>0 DEF TypeOK
    <3> QED BY <2>2, <2>3, <3>1
  <2>5. Answered'
    BY <2>2, <2>3 DEF Answered
  <2>6. WokenAt(t)'
    <3>1. JobsOf(t, tasks[t].curr) = {i}
      BY <2>0, <2>1 DEF WaitsAt, JobsOf
    <3>2. JobsOf(t, tasks[t].curr)' = {i}
      BY <2>3, <2>4, <3>1 DEF JobsOf
    <3>3. engine[t] = "progress" => plan[t].next = tasks[t].curr
      BY <2>1 DEF WaitsAt, Suspension
    <3> QED BY <2>2, <2>3, <2>4, <3>2, <3>3 DEF WokenAt
  <2>7. \A j \in DOMAIN jobs : jobs[j].task = t => handler'[j] = "done"
    BY <2>1, <2>3
  <2>8. \A j \in DOMAIN jobs : jobs[j].task # t => handler'[j] = handler[j]
    BY <2>0, <2>3
  <2> QED BY <1>0, <2>3, <2>4, <2>5, <2>6, <2>7, <2>8, WakeOfOne
<1> QED BY <1>1, <1>2, <1>3 DEF HandlerStep

\* Without faults the engine and the handler keep to their order.
Waking == faults = 0 => Waits /\ Answered /\ Woken

LEMMA WakingStep == JobsInv /\ Unended /\ Waking /\ [Next]_vars => Waking'
<1> SUFFICES ASSUME JobsInv, Unended, Waking, [Next]_vars, faults' = 0
             PROVE  Waits' /\ Answered' /\ Woken'
  BY DEF Waking
<1>1. faults \in Nat
  BY PullQueueAssumption DEF JobsInv, TypeOK
<1>2. ~Fault
  BY <1>1 DEF Fault
<1>3. faults = 0
  <2>1. CASE \E w \in Worker : WorkerStep(w)
    BY <1>1, <2>1 DEF WorkerStep, Poll, ReportRunning, ExecuteJob
  <2>2. CASE UNCHANGED faults
    BY <2>2
  <2> QED
    BY <1>2, <2>1, <2>2 DEF Next, EngineStep, Lease, RunNode, ReadRun, CreateRun, Enqueue,
       WriteStatus, WriteProgress, Check, EngineCrash, WorkerCrash, HandlerStep,
       CompleteJob, RecordResult, WakeTask, LateRunning, HandlerCrash, vars
<1>4. Waits /\ Answered /\ Woken
  BY <1>3 DEF Waking
<1>5. CASE \E t \in Task : EngineStep(t)
  BY <1>4, <1>5, EngineWakes
<1>6. CASE \E w \in Worker : WorkerStep(w) \/ WorkerCrash(w)
  BY <1>4, <1>6, WorkerWakes
<1>7. CASE \E i \in DOMAIN jobs : HandlerStep(i) \/ LateRunning(i)
  BY <1>4, <1>7, HandlerWakes
<1>8. CASE UNCHANGED vars
  BY <1>4, <1>8 DEF vars, Waits, WaitsAt, Answered, Woken, WokenAt, JobsOf
<1> QED BY <1>2, <1>5, <1>6, <1>7, <1>8 DEF Next, EngineCrash, HandlerCrash

WakeInv == JobsInv /\ Unended /\ Waking

LEMMA WakeAlways == Spec => []WakeInv
<1>1. Init => WakeInv
  <2> SUFFICES ASSUME Init PROVE WakeInv
    OBVIOUS
  <2>1. JobsInv /\ jobs = <<>> /\ engine = [t \in Task |-> "free"]
    BY JobsInit DEF Init
  <2>2. DOMAIN jobs = {}
    BY <2>1
  <2> QED
    BY <2>1, <2>2 DEF WakeInv, Unended, Waking, Waits, Answered, Woken, WokenAt, JobsOf
<1>2. WakeInv /\ [Next]_vars => WakeInv'
  BY JobsStep, UnendedStep, WakingStep DEF WakeInv
<1> QED BY <1>1, <1>2, PTL DEF Spec

\* Without faults, a task at a queue node is woken only with the result there.
THEOREM WokenByResult == Spec => []WokenWithResult
<1>1. WakeInv => WokenWithResult
  BY DEF WakeInv, Waking, Woken, WokenAt, WokenWithResult
<1> QED BY <1>1, WakeAlways, PTL

\* Without faults, no late wake-up takes a finished task up again: when the
\* handler writes "pending", the task still waits for that report.
THEOREM FinishedIsLeft == Spec => FinishedStays
<1> DEFINE Stay == \A t \in Task :
                     tasks[t].status \in {"completed", "failed"} /\ faults = 0
                       => tasks'[t].status = tasks[t].status
<1>1. WakeInv /\ [Next]_vars => [Stay]_vars
  <2> SUFFICES ASSUME WakeInv, [Next]_vars, faults = 0,
                      NEW t \in Task, tasks[t].status \in {"completed", "failed"}
               PROVE  tasks'[t].status = tasks[t].status
    OBVIOUS
  <2>0. /\ JobsInv /\ TypeOK /\ Unended /\ Waits
        /\ tasks \in [Task -> [status : Status, curr : Cursor]]
    BY DEF WakeInv, JobsInv, Waking, TypeOK
  <2>1. ASSUME NEW u \in Task, EngineStep(u) \/ EngineCrash(u)
        PROVE  tasks'[t].status = tasks[t].status
    <3>1. CASE u # t
      BY <2>0, <2>1, <3>1, EngineIsOfOne
    <3>2. CASE u = t
      <4>1. ~Lease(t) /\ ~WriteStatus(t)
        BY <2>0 DEF Lease, WriteStatus, Unended
      <4>2. CASE WriteProgress(t)
        BY <2>0, <4>2 DEF WriteProgress
      <4>3. CASE UNCHANGED tasks
        BY <4>3
      <4> QED
        BY <2>1, <3>2, <4>1, <4>2, <4>3 DEF EngineStep, RunNode, ReadRun, CreateRun,
           Enqueue, Check, EngineCrash
    <3> QED BY <3>1, <3>2
  <2>2. ASSUME NEW i \in DOMAIN jobs, WakeTask(i)
        PROVE  tasks'[t].status = tasks[t].status
    <3>1. WaitsAt(jobs[i].task, jobs[i].node)
      BY <2>0, <2>2, WakeTaskIs
    <3>2. jobs[i].task # t
      BY <2>0, <3>1 DEF WaitsAt, Unended
    <3> QED BY <2>0, <2>2, <3>2 DEF WakeTask, SetStatus
  <2>3. CASE UNCHANGED tasks
    BY <2>3
  <2> QED
    BY <2>1, <2>2, <2>3 DEF Next, WorkerStep, WorkerCrash, HandlerStep, LateRunning,
       HandlerCrash, Poll, ReportRunning, ExecuteJob, CompleteJob, RecordResult, vars
<1> QED
  <2>1. Spec => [][Stay]_vars
    BY <1>1, WakeAlways, PTL DEF Spec
  <2> QED BY <2>1 DEF FinishedStays

-----------------------------------------------------------------------------
(* The queue implements RemoteCall.                                        *)

\* What a scheduler is about to write for a task at another node is one of its
\* successors, and execQueue's two statements are for queue nodes.
LocalAt(t) ==
  LET n == tasks[t].curr
  IN /\ engine[t] = "enqueue" => n \in QueueNode
     /\ engine[t] \in {"status", "progress"} /\ n \notin QueueNode =>
          IF n = NoNode THEN plan[t].next = NoNode
          ELSE plan[t].next \in {OkNext[n], ErrNext[n]}
Local == \A t \in Task : LocalAt(t)

LEMMA LocalStep == JobsInv /\ Local /\ [Next]_vars => Local'
<1> SUFFICES ASSUME JobsInv, Local, [Next]_vars PROVE Local'
  OBVIOUS
<1>0. /\ TypeOK
      /\ engine \in [Task -> {"free", "run", "enqueue", "status", "progress", "check"}]
      /\ plan \in [Task -> Plan] /\ tasks \in [Task -> [status : Status, curr : Cursor]]
  BY DEF JobsInv, TypeOK
<1>1. ASSUME NEW t \in Task, EngineStep(t) \/ EngineCrash(t) PROVE Local'
  <2>1. LocalAt(t)'
    <3>1. CASE Lease(t) \/ WriteProgress(t) \/ Check(t) \/ EngineCrash(t)
      <4>1. engine'[t] \notin {"enqueue", "status", "progress"}
        BY <1>0, <3>1 DEF Lease, WriteProgress, Check, EngineCrash, Goto
      <4> QED BY <4>1 DEF LocalAt
    <3>2. CASE RunNode(t)
      <4>1. PICK out \in {"ok", "error"} : plan'[t] = Outcome(tasks[t].curr, out)
        BY <1>0, <3>2 DEF RunNode, WillWrite
      <4>2. engine'[t] = "status" /\ UNCHANGED tasks
        BY <1>0, <3>2 DEF RunNode, WillWrite, Goto
      <4> QED BY <4>1, <4>2 DEF LocalAt, Outcome
    <3>3. CASE ReadRun(t) \/ CreateRun(t)
      BY <3>3 DEF ReadRun, CreateRun, LocalAt
    <3>4. CASE Enqueue(t)
      <4>1. tasks[t].curr \in QueueNode
        BY <3>4 DEF Enqueue, Local, LocalAt
      <4> QED BY <3>4, <4>1 DEF Enqueue, LocalAt
    <3>5. CASE WriteStatus(t)
      <4>1. engine[t] = "status" /\ engine'[t] = "progress" 
            /\ UNCHANGED plan /\ tasks'[t].curr = tasks[t].curr
        BY <1>0, <3>5 DEF WriteStatus, SetStatus, Goto
      <4> QED BY <4>1 DEF Local, LocalAt
    <3> QED BY <1>1, <3>1, <3>2, <3>3, <3>4, <3>5 DEF EngineStep
  <2> QED BY <1>0, <1>1, <2>1, EngineIsOfOne DEF Local, LocalAt
<1>2. ASSUME UNCHANGED <<engine, plan>>, \A u \in Task : tasks'[u].curr = tasks[u].curr
      PROVE  Local'
  BY <1>2 DEF Local, LocalAt
<1>3. ASSUME UNCHANGED vars PROVE Local'
  BY <1>2, <1>3 DEF vars
<1> QED BY <1>1, <1>2, <1>3, OthersStep DEF Next

-----------------------------------------------------------------------------
(* The calls, as the rows of the two tables have them. *)

LEMMA StageIs ==
  ASSUME OneJobPerNode, NEW t, NEW n, NEW i \in JobsOf(t, n)
  PROVE  Stage(t, n) = JobStage(jobs[i])
<1>1. \A j \in JobsOf(t, n) : j = i
  BY DEF OneJobPerNode, JobsOf
<1>2. {JobStage(jobs[j]) : j \in JobsOf(t, n)} = {JobStage(jobs[i])}
  BY <1>1
<1> QED BY <1>2 DEF Stage

\* A step that changes the stage of one job, or adds it.
OnlyJob(k) ==
  /\ k \in DOMAIN jobs' /\ DOMAIN jobs' = DOMAIN jobs \cup {k}
  /\ \A j \in DOMAIN jobs :
       /\ jobs'[j].task = jobs[j].task /\ jobs'[j].node = jobs[j].node
       /\ j # k => JobStage(jobs'[j]) = JobStage(jobs[j])

LEMMA StageStep ==
  ASSUME OneJobPerNode', NEW k, OnlyJob(k), NEW t, NEW n
  PROVE  Stage(t, n)' = IF t = jobs'[k].task /\ n = jobs'[k].node THEN JobStage(jobs'[k])
                        ELSE Stage(t, n)
<1> DEFINE mine == {i \in DOMAIN jobs' : jobs'[i].task = t /\ jobs'[i].node = n}
           stages == {JobStage(jobs'[i]) : i \in mine}
<1>1. Stage(t, n)' = IF stages = {} THEN "none" ELSE CHOOSE s \in stages : TRUE
  BY DEF Stage, JobsOf
<1>2. CASE t = jobs'[k].task /\ n = jobs'[k].node
  <2>1. \A i \in mine : i = k
    BY <1>2 DEF OneJobPerNode, OnlyJob
  <2>2. k \in mine
    BY <1>2 DEF OnlyJob
  <2>3. stages = {JobStage(jobs'[k])}
    BY <2>1, <2>2
  <2> QED BY <1>1, <1>2, <2>3
<1>3. CASE ~(t = jobs'[k].task /\ n = jobs'[k].node)
  <2>1. mine = JobsOf(t, n) /\ k \notin mine
    BY <1>3 DEF JobsOf, OnlyJob
  <2>2. \A i \in mine : JobStage(jobs'[i]) = JobStage(jobs[i])
    BY <2>1 DEF JobsOf, OnlyJob
  <2>3. stages = {JobStage(jobs[i]) : i \in JobsOf(t, n)}
    BY <2>1, <2>2
  <2> QED BY <1>1, <1>3, <2>3 DEF Stage
<1> QED BY <1>2, <1>3

LEMMA StageKept ==
  ASSUME DOMAIN jobs' = DOMAIN jobs,
         \A j \in DOMAIN jobs :
           /\ jobs'[j].task = jobs[j].task /\ jobs'[j].node = jobs[j].node
           /\ JobStage(jobs'[j]) = JobStage(jobs[j]),
         NEW t, NEW n
  PROVE  Stage(t, n)' = Stage(t, n)
<1> DEFINE mine == {i \in DOMAIN jobs' : jobs'[i].task = t /\ jobs'[i].node = n}
           stages == {JobStage(jobs'[i]) : i \in mine}
<1>1. Stage(t, n)' = IF stages = {} THEN "none" ELSE CHOOSE s \in stages : TRUE
  BY DEF Stage, JobsOf
<1>2. mine = JobsOf(t, n)
  BY DEF JobsOf
<1>3. \A i \in mine : JobStage(jobs'[i]) = JobStage(jobs[i])
  OBVIOUS
<1>4. stages = {JobStage(jobs[i]) : i \in JobsOf(t, n)}
  BY <1>2, <1>3
<1> QED BY <1>1, <1>4 DEF Stage

LEMMA HeldKept ==
  ASSUME JobsInv, JobsGrow, NEW w \in Worker, worker'[w].job = worker[w].job,
         worker'[w] = IdleWorker <=> worker[w] = IdleWorker
  PROVE  Held(w)' = Held(w)
  BY DEF JobsInv, Hands, JobsGrow, Held

CursorsOf == [t \in Task |-> tasks[t].curr]
HandsOf == [w \in Worker |-> Held(w)]
CallsOf == [t \in Task |-> [n \in Node |-> Stage(t, n)]]

\* Its call is the only one that changes.
LEMMA CallAdvances ==
  ASSUME JobsInv', NEW k, OnlyJob(k)
  PROVE  CallsOf' = [CallsOf EXCEPT ![jobs'[k].task][jobs'[k].node] = JobStage(jobs'[k])]
<1> DEFINE t == jobs'[k].task
           n == jobs'[k].node
           s == JobStage(jobs'[k])
<1>1. \A u \in Task, m \in Node :
        Stage(u, m)' = IF u = t /\ m = n THEN s ELSE Stage(u, m)
  BY StageStep DEF JobsInv
<1> HIDE DEF t, n, s
<1>2. CallsOf' = [u \in Task |-> [m \in Node |-> IF u = t /\ m = n THEN s ELSE Stage(u, m)]]
  BY <1>1 DEF CallsOf
<1>3. [CallsOf EXCEPT ![t][n] = s]
        = [u \in Task |-> [m \in Node |-> IF u = t /\ m = n THEN s ELSE Stage(u, m)]]
  BY DEF CallsOf
<1>4. CallsOf' = [CallsOf EXCEPT ![t][n] = s]
  BY <1>2, <1>3
<1> QED BY <1>4 DEF t, n, s

LEMMA HandsKept ==
  ASSUME JobsInv, JobsGrow, UNCHANGED worker
  PROVE  HandsOf' = HandsOf
  BY HeldKept DEF HandsOf

LEMMA CreateRunCalls ==
  ASSUME JobsInv, JobsInv', JobsGrow, NEW t \in Task, CreateRun(t)
  PROVE  Calls!Record(t)
<1> DEFINE n == tasks[t].curr
<1>1. PICK k \in DOMAIN jobs' :
        /\ k \notin DOMAIN jobs /\ DOMAIN jobs' = DOMAIN jobs \cup {k}
        /\ jobs'[k].task = t /\ jobs'[k].node = n
        /\ jobs'[k].out = "none" /\ handler'[k] = "none"
        /\ \A j \in DOMAIN jobs : jobs'[j] = jobs[j] /\ handler'[j] = handler[j]
  BY CreateRunGrows
<1>2. n \in QueueNode /\ n \in Node /\ LastRun(t, n) = 0 /\ UNCHANGED <<tasks, worker>>
  BY PullQueueAssumption DEF CreateRun
<1>3. JobsOf(t, n) = {}
  BY <1>2, LastRunIs DEF JobsInv
<1>4. jobs'[k].queue = "absent"
  <2>1. engine'[t] = "enqueue" /\ tasks'[t].curr = n
    BY <1>2 DEF CreateRun, Goto, JobsInv, TypeOK
  <2>2. \E i \in DOMAIN jobs' :
          jobs'[i].task = t /\ jobs'[i].node = n /\ jobs'[i].queue = "absent"
    BY <2>1 DEF JobsInv, Enqueueing, JobsOf
  <2> QED BY <1>1, <2>2 DEF JobsInv, OneJobPerNode
<1>5. JobStage(jobs'[k]) = "recorded"
  BY <1>1, <1>4 DEF JobStage
<1>6. CallsOf' = [CallsOf EXCEPT ![t][n] = "recorded"]
  <2>1. OnlyJob(k)
    BY <1>1 DEF OnlyJob
  <2>2. jobs'[k].task = t /\ jobs'[k].node = n
    BY <1>1
  <2> QED BY <1>5, <2>1, <2>2, CallAdvances
<1>7. CallsOf[t][n] = "none"
  BY <1>2, <1>3 DEF CallsOf, Stage
<1>8. HandsOf' = HandsOf
  BY <1>2, HandsKept
<1> QED
  BY <1>2, <1>6, <1>7, <1>8
  DEF Calls!Record, Calls!Advance, CallsOf, HandsOf

LEMMA EnqueueCalls ==
  ASSUME JobsInv, JobsInv', JobsGrow, Local, NEW t \in Task, Enqueue(t)
  PROVE  Calls!Offer(t)
<1> DEFINE n == tasks[t].curr
<1>1. n \in QueueNode /\ n \in Node /\ UNCHANGED <<tasks, worker>>
  BY PullQueueAssumption DEF Enqueue, Local, LocalAt
<1>2. PICK i \in JobsOf(t, n) : jobs[i].queue = "absent"
  BY DEF Enqueue, JobsInv, Enqueueing
<1>3. /\ i \in DOMAIN jobs /\ jobs[i].task = t /\ jobs[i].node = n
      /\ jobs' = [jobs EXCEPT ![i].queue = "pending"] /\ jobs \in Seq(Job)
  BY <1>2, LastRunIs DEF Enqueue, JobsInv, JobsOf, TypeOK
<1>4. /\ DOMAIN jobs' = DOMAIN jobs /\ jobs'[i].queue = "pending"
      /\ \A j \in DOMAIN jobs :
           /\ j # i => jobs'[j].queue = jobs[j].queue
           /\ jobs'[j].task = jobs[j].task /\ jobs'[j].node = jobs[j].node
           /\ jobs'[j].out = jobs[j].out
  BY <1>3, QueueEffect DEF QueueState
<1>5. jobs[i].out = "none"
  BY <1>2, <1>3 DEF JobsInv, Claimed, Results
<1>6. JobStage(jobs[i]) = "recorded" /\ JobStage(jobs'[i]) = "offered"
  BY <1>2, <1>3, <1>4, <1>5 DEF JobStage
<1>7. \A j \in DOMAIN jobs : j # i => JobStage(jobs'[j]) = JobStage(jobs[j])
  BY <1>4 DEF JobStage
<1>8. CallsOf' = [CallsOf EXCEPT ![t][n] = "offered"]
  <2>1. OnlyJob(i)
    BY <1>3, <1>4, <1>7 DEF OnlyJob
  <2>2. jobs'[i].task = t /\ jobs'[i].node = n
    BY <1>3, <1>4
  <2> QED BY <1>6, <2>1, <2>2, CallAdvances
<1>9. CallsOf[t][n] = "recorded"
  BY <1>1, <1>2, <1>6, StageIs DEF CallsOf, JobsInv
<1>10. HandsOf' = HandsOf
  BY <1>1, HandsKept
<1> QED
  BY <1>1, <1>8, <1>9, <1>10 DEF Calls!Offer, Calls!Advance, CallsOf, HandsOf

LEMMA PollCalls ==
  ASSUME JobsInv, JobsInv', JobsGrow, NEW w \in Worker, Poll(w)
  PROVE  \E t \in Task, n \in Node : Calls!Take(w, t, n)
<1>1. PICK i \in DOMAIN jobs :
        /\ Pollable(i) /\ jobs' = [jobs EXCEPT ![i].queue = "claimed"]
        /\ worker' = [worker EXCEPT ![w] = [does |-> "start", job |-> i]]
  BY DEF Poll
<1> DEFINE t == jobs[i].task
           n == jobs[i].node
<1>2. /\ t \in Task /\ n \in Node /\ jobs \in Seq(Job) /\ i \in JobsOf(t, n)
      /\ worker[w] = IdleWorker /\ UNCHANGED tasks
  BY JobIs DEF JobsInv, TypeOK, JobsOf, Poll
<1>3. /\ DOMAIN jobs' = DOMAIN jobs /\ jobs'[i].queue = "claimed"
      /\ \A j \in DOMAIN jobs :
           /\ j # i => jobs'[j].queue = jobs[j].queue
           /\ jobs'[j].task = jobs[j].task /\ jobs'[j].node = jobs[j].node
           /\ jobs'[j].out = jobs[j].out
  BY <1>1, <1>2, QueueEffect DEF QueueState
<1>4. jobs[i].queue = "pending" /\ jobs[i].out = "none"
  BY <1>1 DEF Pollable, JobsInv, Claimed, Results
<1>5. JobStage(jobs[i]) = "offered" /\ JobStage(jobs'[i]) = "taken"
  BY <1>3, <1>4 DEF JobStage
<1>6. \A j \in DOMAIN jobs : j # i => JobStage(jobs'[j]) = JobStage(jobs[j])
  BY <1>3 DEF JobStage
<1>7. CallsOf' = [CallsOf EXCEPT ![t][n] = "taken"]
  <2>1. OnlyJob(i)
    BY <1>3, <1>6 DEF OnlyJob
  <2>2. jobs'[i].task = t /\ jobs'[i].node = n
    BY <1>3
  <2> QED BY <1>5, <2>1, <2>2, CallAdvances
<1>8. CallsOf[t][n] = "offered"
  BY <1>2, <1>5, StageIs DEF CallsOf, JobsInv
<1>9. HandsOf[w] = {} /\ HandsOf' = [HandsOf EXCEPT ![w] = {<<t, n>>}]
  <2>1. Held(w)' = {<<t, n>>}
    <3>1. worker'[w] = [does |-> "start", job |-> i]
      BY <1>1 DEF JobsInv, TypeOK
    <3>2. worker'[w] # IdleWorker /\ worker'[w].job = i
      BY <3>1 DEF IdleWorker
    <3> QED BY <1>3, <3>2 DEF Held
  <2>2. \A v \in Worker : v # w => Held(v)' = Held(v)
    <3>1. \A v \in Worker : v # w => worker'[v] = worker[v]
      BY <1>1 DEF JobsInv, TypeOK
    <3> QED BY <3>1, HeldKept
  <2> QED BY <1>2, <2>1, <2>2 DEF HandsOf, Held
<1>10. Calls!Take(w, t, n)
  <2> HIDE DEF t, n
  <2> QED BY <1>2, <1>7, <1>8, <1>9 DEF Calls!Take, Calls!Advance, CallsOf, HandsOf
<1> QED BY <1>2, <1>10

LEMMA RecordResultCalls ==
  ASSUME JobsInv, JobsInv', JobsGrow, NEW i \in DOMAIN jobs, RecordResult(i)
  PROVE  \E t \in Task, n \in Node : Calls!Answer(t, n)
<1> DEFINE t == jobs[i].task
           n == jobs[i].node
<1>1. /\ handler[i] \in {"ok", "error"} /\ UNCHANGED <<tasks, worker>>
      /\ jobs' = [jobs EXCEPT ![i].run = handler[i], ![i].out = handler[i]]
      /\ t \in Task /\ n \in Node /\ i \in JobsOf(t, n) /\ jobs \in Seq(Job)
  BY JobIs DEF RecordResult, JobsInv, TypeOK, JobsOf
<1>2. /\ DOMAIN jobs' = DOMAIN jobs /\ jobs'[i].out = handler[i]
      /\ \A j \in DOMAIN jobs :
           /\ j # i => jobs'[j].out = jobs[j].out
           /\ jobs'[j].task = jobs[j].task /\ jobs'[j].node = jobs[j].node
           /\ jobs'[j].queue = jobs[j].queue
  BY <1>1, RunEffect
<1>3. jobs[i].out = "none" /\ jobs[i].queue \in {"claimed", "completed"}
  BY <1>1 DEF JobsInv, Claimed, Results
<1>4. JobStage(jobs[i]) = "taken" /\ JobStage(jobs'[i]) = handler[i]
  BY <1>1, <1>2, <1>3 DEF JobStage
<1>5. \A j \in DOMAIN jobs : j # i => JobStage(jobs'[j]) = JobStage(jobs[j])
  BY <1>2 DEF JobStage
<1>6. CallsOf' = [CallsOf EXCEPT ![t][n] = handler[i]]
  <2>1. OnlyJob(i)
    BY <1>2, <1>5 DEF OnlyJob
  <2>2. jobs'[i].task = t /\ jobs'[i].node = n
    BY <1>2
  <2> QED BY <1>4, <2>1, <2>2, CallAdvances
<1>7. CallsOf[t][n] = "taken"
  BY <1>1, <1>4, StageIs DEF CallsOf, JobsInv
<1>8. \A w \in Worker : <<t, n>> \notin HandsOf[w]
  <2> SUFFICES ASSUME NEW w \in Worker, worker[w] # IdleWorker
               PROVE  <<t, n>> # <<jobs[worker[w].job].task, jobs[worker[w].job].node>>
    BY DEF HandsOf, Held
  <2>1. worker[w].job \in DOMAIN jobs /\ worker[w].job # i
    BY <1>1 DEF JobsInv, Hands
  <2>2. jobs[worker[w].job].task # t \/ jobs[worker[w].job].node # n
    BY <2>1 DEF JobsInv, OneJobPerNode
  <2> QED BY <2>2
<1>9. HandsOf' = HandsOf
  BY <1>1, HandsKept
<1>10. Calls!Answer(t, n)
  <2> HIDE DEF t, n
  <2> QED
    BY <1>1, <1>6, <1>7, <1>8, <1>9
    DEF Calls!Answer, Calls!Answers, Calls!Advance, CallsOf, HandsOf
<1> QED BY <1>1, <1>10

LEMMA LetGoCalls ==
  ASSUME JobsInv, JobsGrow, NEW w \in Worker, ExecuteJob(w) \/ WorkerCrash(w)
  PROVE  Calls!LetGo(w)
<1>1. worker' = [worker EXCEPT ![w] = IdleWorker] /\ UNCHANGED <<tasks, jobs>>
  BY DEF ExecuteJob, WorkerCrash
<1>2. worker'[w] = IdleWorker /\ \A v \in Worker : v # w => worker'[v] = worker[v]
  BY <1>1 DEF JobsInv, TypeOK
<1>3. Held(w)' = {} /\ \A v \in Worker : v # w => Held(v)' = Held(v)
  BY <1>2, HeldKept DEF Held
<1>4. HandsOf' = [HandsOf EXCEPT ![w] = {}]
  BY <1>3 DEF HandsOf
<1>5. CallsOf' = CallsOf
  BY <1>1 DEF CallsOf, Stage, JobsOf
<1> QED BY <1>1, <1>4, <1>5 DEF Calls!LetGo, CallsOf, HandsOf

LEMMA MoveCalls ==
  ASSUME JobsInv, JobsGrow, Reported, Local, NEW t \in Task, WriteProgress(t)
  PROVE  Calls!Move(t) \/ UNCHANGED Calls!vars
<1> DEFINE n == tasks[t].curr
           m == plan[t].next
<1>1. /\ engine[t] = "progress" /\ UNCHANGED <<jobs, worker>>
      /\ tasks' = [tasks EXCEPT ![t].curr = m] /\ n \in Cursor
  BY DEF WriteProgress, JobsInv, TypeOK
<1>2. HandsOf' = HandsOf /\ CallsOf' = CallsOf
  BY <1>1, HandsKept DEF CallsOf, Stage, JobsOf
<1>3. CursorsOf' = [CursorsOf EXCEPT ![t] = m]
  BY <1>1 DEF CursorsOf, JobsInv, TypeOK
<1>4. CASE m = n
  <2>1. CursorsOf' = CursorsOf
    BY <1>3, <1>4 DEF CursorsOf
  <2> QED BY <1>2, <2>1 DEF Calls!vars, CursorsOf, CallsOf, HandsOf
<1>5. CASE m # n
  <2>1. /\ n \in Node
        /\ \/ (n \notin QueueNode \/ CallsOf[t][n] = "ok") /\ m = OkNext[n]
           \/ (n \notin QueueNode \/ CallsOf[t][n] = "error") /\ m = ErrNext[n]
    <3>1. CASE n \notin QueueNode
      BY <1>1, <1>5, <3>1 DEF Local, LocalAt, Cursor
    <3>2. CASE n \in QueueNode
      <4>1. PICK i \in JobsOf(t, n) : \/ jobs[i].out = "ok" /\ m = OkNext[n]
                                      \/ jobs[i].out = "error" /\ m = ErrNext[n]
        BY <1>1, <1>5, <3>2 DEF Reported, ReportedAt, ReportFor
      <4>2. n \in Node /\ CallsOf[t][n] = JobStage(jobs[i])
        BY <3>2, StageIs, PullQueueAssumption DEF CallsOf, JobsInv
      <4>3. jobs[i].out # "none" => JobStage(jobs[i]) = jobs[i].out
        BY DEF JobStage
      <4> QED BY <4>1, <4>2, <4>3
    <3> QED BY <3>1, <3>2
  <2> QED BY <1>2, <1>3, <2>1 DEF Calls!Move, CursorsOf, CallsOf, HandsOf
<1> QED BY <1>4, <1>5

\* The other steps are none of RemoteCall's.
LEMMA StagesKept ==
  ASSUME JobsInv, JobsGrow, DOMAIN jobs' = DOMAIN jobs,
         \A j \in DOMAIN jobs : JobStage(jobs'[j]) = JobStage(jobs[j]),
         \A w \in Worker : /\ worker'[w].job = worker[w].job
                           /\ worker'[w] = IdleWorker <=> worker[w] = IdleWorker,
         \A t \in Task : tasks'[t].curr = tasks[t].curr
  PROVE  UNCHANGED Calls!vars
<1>1. \A t \in Task, n \in Node : Stage(t, n)' = Stage(t, n)
  BY StageKept DEF JobsGrow
<1>2. \A w \in Worker : Held(w)' = Held(w)
  BY HeldKept
<1> QED BY <1>1, <1>2 DEF Calls!vars

LEMMA IdleCalls ==
  ASSUME JobsInv, JobsGrow,
         \/ \E t \in Task : \/ Lease(t) \/ RunNode(t) \/ ReadRun(t) \/ WriteStatus(t)
                            \/ Check(t) \/ EngineCrash(t)
         \/ \E w \in Worker : ReportRunning(w)
         \/ \E i \in DOMAIN jobs : \/ LateRunning(i) \/ CompleteJob(i) \/ WakeTask(i)
                                   \/ HandlerCrash(i)
         \/ UNCHANGED vars
  PROVE  UNCHANGED Calls!vars
<1>0. /\ jobs \in Seq(Job) /\ tasks \in [Task -> [status : Status, curr : Cursor]]
      /\ worker \in [Worker -> [does : {"idle", "start", "execute"}, job : 0 .. Len(jobs)]]
  BY DEF JobsInv, TypeOK
<1>1. \A t \in Task : tasks'[t].curr = tasks[t].curr
  <2>1. ASSUME NEW u, NEW st, SetStatus(u, st)
        PROVE  \A t \in Task : tasks'[t].curr = tasks[t].curr
    BY <1>0, <2>1 DEF SetStatus
  <2>2. CASE UNCHANGED tasks
    BY <2>2
  <2> QED
    BY <2>1, <2>2 DEF Lease, RunNode, ReadRun, WriteStatus, Check, EngineCrash,
       ReportRunning, LateRunning, CompleteJob, WakeTask, HandlerCrash, vars
<1>2. \A w \in Worker : /\ worker'[w].job = worker[w].job
                        /\ worker'[w] = IdleWorker <=> worker[w] = IdleWorker
  <2>1. CASE \E w \in Worker : ReportRunning(w)
    <3>1. PICK w \in Worker : ReportRunning(w)
      BY <2>1
    <3>2. /\ worker[w].does = "start"
          /\ worker' = [worker EXCEPT ![w].does = "execute"]
      BY <3>1 DEF ReportRunning
    <3>3. /\ worker'[w].job = worker[w].job /\ worker'[w].does = "execute"
          /\ \A v \in Worker : v # w => worker'[v] = worker[v]
      BY <1>0, <3>2
    <3> QED BY <3>2, <3>3 DEF IdleWorker
  <2>2. CASE UNCHANGED worker
    BY <2>2
  <2> QED
    BY <2>1, <2>2 DEF Lease, RunNode, ReadRun, WriteStatus, Check, EngineCrash,
       LateRunning, CompleteJob, WakeTask, HandlerCrash, vars
<1>3. /\ DOMAIN jobs' = DOMAIN jobs
      /\ \A j \in DOMAIN jobs : JobStage(jobs'[j]) = JobStage(jobs[j])
  <2>1. CASE \E i \in DOMAIN jobs : SetRunning(i)
    <3>1. PICK i \in DOMAIN jobs : SetRunning(i)
      BY <2>1
    <3>2. jobs[i].out \in {"none", "ok", "error"}
      <4>1. jobs[i] \in Job
        BY <1>0, LenProperties, ElementOfSeq
      <4> QED BY <4>1 DEF Job
    <3>3. /\ DOMAIN jobs' = DOMAIN jobs
          /\ \A j \in DOMAIN jobs :
               jobs'[j].queue = jobs[j].queue /\ jobs'[j].out = jobs[j].out
      BY <1>0, <3>1, <3>2, RunEffect DEF SetRunning
    <3> QED BY <3>3 DEF JobStage
  <2>2. CASE \E i \in DOMAIN jobs : CompleteJob(i)
    <3>1. PICK i \in DOMAIN jobs : CompleteJob(i)
      BY <2>2
    <3>2. /\ jobs' = [jobs EXCEPT ![i].queue = "completed"]
          /\ jobs[i].queue \in {"claimed", "completed"}
      BY <3>1 DEF CompleteJob, JobsInv, Claimed
    <3>3. /\ DOMAIN jobs' = DOMAIN jobs /\ jobs'[i].queue = "completed"
          /\ \A j \in DOMAIN jobs :
               /\ j # i => jobs'[j].queue = jobs[j].queue
               /\ jobs'[j].out = jobs[j].out
      BY <1>0, <3>2, QueueEffect DEF QueueState
    <3> QED BY <3>2, <3>3 DEF JobStage
  <2>3. CASE UNCHANGED jobs
    BY <2>3
  <2>4. ASSUME NEW w \in Worker, ReportRunning(w)
        PROVE  UNCHANGED jobs \/ \E i \in DOMAIN jobs : SetRunning(i)
    <3>1. worker[w].job \in DOMAIN jobs
      BY <2>4 DEF ReportRunning, JobsInv, Hands, IdleWorker
    <3> QED BY <2>4, <3>1 DEF ReportRunning
  <2> QED
    BY <2>1, <2>2, <2>3, <2>4 DEF Lease, RunNode, ReadRun, WriteStatus, Check,
       EngineCrash, LateRunning, WakeTask, HandlerCrash, vars
<1> QED BY <1>1, <1>2, <1>3, StagesKept

LEMMA CallStep ==
  JobsInv /\ JobsInv' /\ Reported /\ Local /\ [Next]_vars => [Calls!Next]_(Calls!vars)
<1> SUFFICES ASSUME JobsInv, JobsInv', Reported, Local, [Next]_vars
             PROVE  [Calls!Next]_(Calls!vars)
  OBVIOUS
<1>0. JobsGrow
  BY GrowStep
<1>1. ASSUME NEW t \in Task, CreateRun(t) \/ Enqueue(t) \/ WriteProgress(t)
      PROVE  [Calls!Next]_(Calls!vars)
  <2>1. Calls!Record(t) \/ Calls!Offer(t) \/ Calls!Move(t) \/ UNCHANGED Calls!vars
    BY <1>0, <1>1, CreateRunCalls, EnqueueCalls, MoveCalls
  <2> QED BY <2>1 DEF Calls!Next
<1>2. ASSUME NEW w \in Worker, Poll(w) \/ ExecuteJob(w) \/ WorkerCrash(w)
      PROVE  [Calls!Next]_(Calls!vars)
  <2>1. Calls!LetGo(w) \/ \E t \in Task, n \in Node : Calls!Take(w, t, n)
    BY <1>0, <1>2, PollCalls, LetGoCalls
  <2> QED BY <2>1 DEF Calls!Next
<1>3. ASSUME NEW i \in DOMAIN jobs, RecordResult(i) PROVE [Calls!Next]_(Calls!vars)
  <2>1. \E t \in Task, n \in Node : Calls!Answer(t, n)
    BY <1>0, <1>3, RecordResultCalls
  <2> QED BY <2>1 DEF Calls!Next
<1> QED
  BY <1>0, <1>1, <1>2, <1>3, IdleCalls DEF Next, EngineStep, WorkerStep, HandlerStep

\* Through all faults, every step of the engine, the workers and the server is a step
\* of one remote call or changes nothing of it: called once, taken by one worker,
\* answered at most once and for good, and passed only by the answer.
THEOREM QueueIsRemoteCall == Spec => ImplementsRemoteCall
<1> DEFINE Inv == JobsInv /\ Reported /\ Local
<1>1. Init => Inv
  BY JobsInit DEF Init, Reported, ReportedAt, Local, LocalAt
<1>2. Inv /\ [Next]_vars => Inv'
  BY JobsStep, ReportedStep, LocalStep
<1>3. Init => Calls!Init
  <2> SUFFICES ASSUME Init PROVE Calls!Init
    OBVIOUS
  <2>1. JobsInv /\ jobs = <<>> /\ worker = [w \in Worker |-> IdleWorker]
    BY JobsInit DEF Init
  <2>2. \A t \in Task, n \in Node : Stage(t, n) = "none"
    BY <2>1 DEF Stage, JobsOf
  <2>3. \A w \in Worker : Held(w) = {}
    BY <2>1 DEF Held
  <2>4. [t \in Task |-> tasks[t].curr] = Start
    BY PullQueueAssumption DEF Init
  <2> QED BY <2>2, <2>3, <2>4 DEF Calls!Init
<1>4. Inv /\ Inv' /\ [Next]_vars => [Calls!Next]_(Calls!vars)
  BY CallStep
<1> QED BY <1>1, <1>2, <1>3, <1>4, PTL DEF Spec, Calls!Spec, ImplementsRemoteCall
=============================================================================
