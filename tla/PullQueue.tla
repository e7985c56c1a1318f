----------------------------- MODULE PullQueue -----------------------------
(***************************************************************************)
(* The pull mode: nodes whose exec_type is queue.  The engine suspends the *)
(* task and leaves a job (executor_queue.go), workers poll for jobs        *)
(* (cmd/worker-async), and the server's handlers for /queue/poll,          *)
(* /queue/update_run and /queue/complete (server.go) record what workers   *)
(* report and wake the task up.                                            *)
(*                                                                         *)
(* A job is one row of task_queue together with the row of node_runs that  *)
(* execQueue creates before it; `jobs` keeps them in the order of those    *)
(* rows, the one ListNodeRuns reads them in.                               *)
(*                                                                         *)
(* Leases are abstracted: engine[t] is the scheduler that holds t, one at  *)
(* a time and with none of its owned writes dropped, which is what         *)
(* SchedulerProofs shows of them (Exclusive, StepsAreKept) while steps are *)
(* shorter than the lease.  A task whose scheduler died is free again, as  *)
(* when its lease has run out.                                             *)
(***************************************************************************)
EXTENDS Naturals, Sequences, FiniteSets

CONSTANTS
  Task, Node, NoNode,
  QueueNode,  \* nodes with exec_type queue; the others execute in the engine
  Start,      \* [Task -> Node]
  OkNext,     \* [Node -> Node or NoNode]: the successor after a success
  ErrNext,    \* [Node -> Node or NoNode]: the default edge, taken on an error
  Worker,
  MaxJobs,    \* bound: jobs ever created
  MaxFaults   \* bound: crashes, lost and late requests in a behaviour

Cursor == Node \cup {NoNode}

ASSUME PullQueueAssumption ==
  /\ NoNode \notin Node /\ QueueNode \subseteq Node
  /\ Start \in [Task -> Node]
  /\ OkNext \in [Node -> Cursor] /\ ErrNext \in [Node -> Cursor]
  /\ MaxJobs \in Nat /\ MaxFaults \in Nat

VARIABLES
  tasks,    \* [Task -> its status and cursor]
  engine,   \* [Task -> where the scheduler that holds it stands, or free]
  plan,     \* [Task -> the status and cursor that scheduler is about to write]
  jobs,     \* sequence of jobs
  worker,   \* [Worker -> the job it has and what it does with it]
  handler,  \* [jobs -> where the /queue/complete request for it stands]
  late,     \* jobs whose "running" update has not arrived yet
  faults

vars == <<tasks, engine, plan, jobs, worker, handler, late, faults>>

Status == {"pending", "running", "waiting_queue", "completed", "failed"}
Plan == [status : Status \cup {"none"}, next : Cursor]
NoPlan == [status |-> "none", next |-> NoNode]

\* run and out are the node_runs row's status and what was reported into it;
\* queue is the task_queue row's status, "absent" before EnqueueTask.
Job == [task : Task, node : Node,
        run : {"queued", "running", "ok", "error"}, out : {"none", "ok", "error"},
        queue : {"absent", "pending", "claimed", "completed"}]

IdleWorker == [does |-> "idle", job |-> 0]

Init ==
  /\ tasks = [t \in Task |-> [status |-> "pending", curr |-> Start[t]]]
  /\ engine = [t \in Task |-> "free"]
  /\ plan = [t \in Task |-> NoPlan]
  /\ jobs = <<>>
  /\ worker = [w \in Worker |-> IdleWorker]
  /\ handler = <<>>
  /\ late = {}
  /\ faults = 0

-----------------------------------------------------------------------------
(* The engine. *)

SetStatus(t, st) == tasks' = [tasks EXCEPT ![t].status = st]
Goto(t, l) == engine' = [engine EXCEPT ![t] = l]

\* LeaseNextTask
Lease(t) ==
  /\ engine[t] = "free" /\ tasks[t].status \in {"pending", "running"}
  /\ SetStatus(t, "running")
  /\ Goto(t, "run")
  /\ UNCHANGED <<plan, jobs, worker, handler, late, faults>>

JobsOf(t, n) == {i \in DOMAIN jobs : jobs[i].task = t /\ jobs[i].node = n}

\* The latest run of the node, 0 when there is none.
LastRunNone(t, n) == 0  \* mutant: earlier runs are not looked at
LastRunAnyNode(t, n) ==  \* mutant: the run's node key is not compared
  IF \A i \in DOMAIN jobs : jobs[i].task # t THEN 0
  ELSE CHOOSE i \in DOMAIN jobs :
         jobs[i].task = t /\ \A j \in DOMAIN jobs : jobs[j].task = t => j <= i
LastRun(t, n) ==
  IF JobsOf(t, n) = {} THEN 0
  ELSE CHOOSE i \in JobsOf(t, n) : \A j \in JobsOf(t, n) : j <= i

\* finishNode's writes for a result, suspendTask's for a job not done.
Outcome(n, out) ==
  LET next == IF n = NoNode THEN NoNode
              ELSE IF out = "ok" THEN OkNext[n] ELSE ErrNext[n]
  IN [status |-> IF next # NoNode THEN "running"
                 ELSE IF out = "ok" THEN "completed" ELSE "failed",
      next |-> next]
Suspension(n) == [status |-> "waiting_queue", next |-> n]

WillWrite(t, p) == plan' = [plan EXCEPT ![t] = p] /\ Goto(t, "status")

\* A node that executes in the engine, or the empty one.
RunNode(t) ==
  /\ engine[t] = "run" /\ tasks[t].curr \notin QueueNode
  /\ \E out \in {"ok", "error"} : WillWrite(t, Outcome(tasks[t].curr, out))
  /\ UNCHANGED <<tasks, jobs, worker, handler, late, faults>>

\* execQueue with a run to look at: its result, or wait for it.
ReadRun(t) ==
  LET n == tasks[t].curr
      last == LastRun(t, n)
  IN /\ engine[t] = "run" /\ n \in QueueNode /\ last # 0
     /\ IF jobs[last].run \in {"ok", "error"}
        THEN WillWrite(t, Outcome(n, jobs[last].run))
        ELSE WillWrite(t, Suspension(n))
     /\ UNCHANGED <<tasks, jobs, worker, handler, late, faults>>

\* execQueue without one: CreateNodeRun, and the job is still to be enqueued.
CreateRun(t) ==
  LET n == tasks[t].curr
  IN /\ engine[t] = "run" /\ n \in QueueNode /\ LastRun(t, n) = 0
     /\ Len(jobs) < MaxJobs
     /\ jobs' = Append(jobs, [task |-> t, node |-> n, run |-> "queued",
                              out |-> "none", queue |-> "absent"])
     /\ handler' = Append(handler, "none")
     /\ Goto(t, "enqueue")
     /\ UNCHANGED <<tasks, plan, worker, late, faults>>

\* EnqueueTask, then ErrAsyncPending.
Enqueue(t) ==
  /\ engine[t] = "enqueue"
  /\ jobs' = [jobs EXCEPT ![LastRun(t, tasks[t].curr)].queue = "pending"]
  /\ WillWrite(t, Suspension(tasks[t].curr))
  /\ UNCHANGED <<tasks, worker, handler, late, faults>>

\* The status write and the progress write of finishNode and suspendTask.
WriteStatus(t) ==
  /\ engine[t] = "status"
  /\ SetStatus(t, plan[t].status)
  /\ Goto(t, "progress")
  /\ UNCHANGED <<plan, jobs, worker, handler, late, faults>>

WriteProgress(t) ==
  /\ engine[t] = "progress"
  /\ tasks' = [tasks EXCEPT ![t].curr = plan[t].next]
  /\ Goto(t, "check")
  /\ UNCHANGED <<plan, jobs, worker, handler, late, faults>>

\* The loop's exit test.
ReleasedEnded(t) ==  \* mutant: the loop keeps a task that waits
  tasks[t].status \in {"completed", "failed"} \/ tasks[t].curr = NoNode
Released(t) ==
  \/ tasks[t].status \in {"completed", "failed", "waiting_queue"}
  \/ tasks[t].curr = NoNode

Check(t) ==
  /\ engine[t] = "check"
  /\ Goto(t, IF Released(t) THEN "free" ELSE "run")
  /\ plan' = [plan EXCEPT ![t] = NoPlan]
  /\ UNCHANGED <<tasks, jobs, worker, handler, late, faults>>

-----------------------------------------------------------------------------
(* The workers. *)

\* PollQueue: a pending job, claimed in the same transaction.  The oldest goes
\* first, by created_at in whole seconds; which one that is is left open.
PollableClaimed(i) ==  \* mutant: a claimed job is offered again
  jobs[i].queue \in {"pending", "claimed"}
Pollable(i) == jobs[i].queue = "pending"

Poll(w) ==
  /\ worker[w] = IdleWorker
  /\ \E i \in DOMAIN jobs :
       /\ Pollable(i)
       /\ jobs' = [jobs EXCEPT ![i].queue = "claimed"]
       /\ worker' = [worker EXCEPT ![w] = [does |-> "start", job |-> i]]
  /\ UNCHANGED <<tasks, engine, plan, handler, late, faults>>

\* /queue/update_run with "running": the request arrives, whatever the run's
\* status is, or the worker gives up on it after its timeout.
SetRunningInQueue(i) ==  \* mutant: the status goes to the row of task_queue
  jobs' = [jobs EXCEPT ![i].queue = "running"]
SetRunningResets(i) ==  \* mutant: the row's result is written over, too
  jobs' = [jobs EXCEPT ![i].run = "running", ![i].out = "none"]
SetRunning(i) == jobs' = [jobs EXCEPT ![i].run = "running"]

ReportRunning(w) ==
  LET i == worker[w].job
  IN /\ worker[w].does = "start"
     /\ \/ SetRunning(i) /\ UNCHANGED <<late, faults>>
        \/ /\ faults < MaxFaults /\ faults' = faults + 1
           /\ late' \in {late, late \cup {i}}  \* lost, or still on its way
           /\ UNCHANGED jobs
     /\ worker' = [worker EXCEPT ![w].does = "execute"]
     /\ UNCHANGED <<tasks, engine, plan, handler>>

LateRunning(i) ==
  /\ i \in late /\ late' = late \ {i}
  /\ SetRunning(i)
  /\ UNCHANGED <<tasks, engine, plan, worker, handler, faults>>

\* The job is done and its result posted once to /queue/complete; the worker
\* goes on to the next one whether or not the server could be reached.
PostSuccess(i, out) ==  \* mutant: the worker goes on after an error
  handler' = [handler EXCEPT ![i] = IF out = "ok" THEN out ELSE @]
Post(i, out) == handler' = [handler EXCEPT ![i] = out]

ExecuteJob(w) ==
  LET i == worker[w].job
  IN /\ worker[w].does = "execute"
     /\ \/ /\ \E out \in {"ok", "error"} : Post(i, out)
           /\ UNCHANGED faults
        \/ /\ faults < MaxFaults /\ faults' = faults + 1
           /\ UNCHANGED handler
     /\ worker' = [worker EXCEPT ![w] = IdleWorker]
     /\ UNCHANGED <<tasks, engine, plan, jobs, late>>

-----------------------------------------------------------------------------
(* handleQueueComplete: three statements, in this order.                   *)

\* CompleteQueueTask, whatever the queue row's status is.
CompleteJob(i) ==
  /\ handler[i] \in {"ok", "error"} /\ jobs[i].queue # "completed"
  /\ jobs' = [jobs EXCEPT ![i].queue = "completed"]
  /\ UNCHANGED <<tasks, engine, plan, worker, handler, late, faults>>

\* UpdateNodeRun
RecordResult(i) ==
  /\ handler[i] \in {"ok", "error"} /\ jobs[i].queue = "completed"
  /\ jobs' = [jobs EXCEPT ![i].run = handler[i], ![i].out = handler[i]]
  /\ handler' = [handler EXCEPT ![i] = "wake"]
  /\ UNCHANGED <<tasks, engine, plan, worker, late, faults>>

\* UpdateTaskStatus(taskID, "pending"), whatever the task's status is.
WakeTaskEarly(i) ==  \* mutant: the task is woken before the run is written
  /\ handler[i] \in {"ok", "error", "wake"} /\ jobs[i].queue = "completed"
  /\ SetStatus(jobs[i].task, "pending")
  /\ handler' = [handler EXCEPT ![i] = "done"]
  /\ UNCHANGED <<engine, plan, jobs, worker, late, faults>>
WakeTask(i) ==
  /\ handler[i] = "wake"
  /\ SetStatus(jobs[i].task, "pending")
  /\ handler' = [handler EXCEPT ![i] = "done"]
  /\ UNCHANGED <<engine, plan, jobs, worker, late, faults>>

-----------------------------------------------------------------------------
(* Crashes. *)

Fault == faults < MaxFaults /\ faults' = faults + 1

EngineCrash(t) ==
  /\ engine[t] # "free" /\ Fault
  /\ Goto(t, "free")
  /\ plan' = [plan EXCEPT ![t] = NoPlan]
  /\ UNCHANGED <<tasks, jobs, worker, handler, late>>

WorkerCrash(w) ==
  /\ worker[w] # IdleWorker /\ Fault
  /\ worker' = [worker EXCEPT ![w] = IdleWorker]
  /\ UNCHANGED <<tasks, engine, plan, jobs, handler, late>>

HandlerCrash(i) ==
  /\ handler[i] \in {"ok", "error", "wake"} /\ Fault
  /\ handler' = [handler EXCEPT ![i] = "done"]
  /\ UNCHANGED <<tasks, engine, plan, jobs, worker, late>>

-----------------------------------------------------------------------------
EngineStep(t) ==
  \/ Lease(t) \/ RunNode(t) \/ ReadRun(t) \/ CreateRun(t) \/ Enqueue(t)
  \/ WriteStatus(t) \/ WriteProgress(t) \/ Check(t)

WorkerStep(w) == Poll(w) \/ ReportRunning(w) \/ ExecuteJob(w)

HandlerStep(i) == CompleteJob(i) \/ RecordResult(i) \/ WakeTask(i)

Next ==
  \/ \E t \in Task : EngineStep(t) \/ EngineCrash(t)
  \/ \E w \in Worker : WorkerStep(w) \/ WorkerCrash(w)
  \/ \E i \in DOMAIN jobs : HandlerStep(i) \/ LateRunning(i) \/ HandlerCrash(i)

Spec == Init /\ [][Next]_vars

\* Schedulers and workers keep looping, and the server answers what it gets.
FairSpec ==
  /\ Spec
  /\ \A t \in Task : WF_vars(EngineStep(t))
  /\ \A w \in Worker : WF_vars(WorkerStep(w))
  /\ \A i \in 1 .. MaxJobs : WF_vars(i \in DOMAIN jobs /\ HandlerStep(i))

-----------------------------------------------------------------------------
(* Properties. *)

\* Every variable stays in its type.
TypeOK ==
  /\ tasks \in [Task -> [status : Status, curr : Cursor]]
  /\ engine \in [Task -> {"free", "run", "enqueue", "status", "progress", "check"}]
  /\ plan \in [Task -> Plan]
  /\ jobs \in Seq(Job) /\ Len(jobs) <= MaxJobs
  /\ worker \in [Worker -> [does : {"idle", "start", "execute"}, job : 0 .. Len(jobs)]]
  /\ handler \in Seq({"none", "ok", "error", "wake", "done"})
  /\ DOMAIN handler = DOMAIN jobs
  /\ late \subseteq DOMAIN jobs
  /\ faults \in 0 .. MaxFaults

\* A queue node puts one job in the queue for a task, however often crashes and
\* early wake-ups make the engine come back to it: execQueue looks for a run
\* first, and finds the first visit's when a cycle leads to the node again.
OneJobPerNode ==
  \A i, j \in DOMAIN jobs :
    jobs[i].task = jobs[j].task /\ jobs[i].node = jobs[j].node => i = j

\* No two workers ever have the same job.
OneWorkerPerJob ==
  \A v, w \in Worker :
    worker[v] # IdleWorker /\ worker[v].job = worker[w].job => v = w

\* The cursor leaves a queue node only by what a worker reported for it: to the
\* successor of a success, or along the default edge of an error, though results
\* and "running" updates come late and schedulers die (README.md:91, resume with
\* the reported result).
LeavesByReport ==
  [][\A t \in Task :
       LET n == tasks[t].curr
           m == tasks'[t].curr
       IN n \in QueueNode /\ m # n
          => \E i \in JobsOf(t, n) :
               \/ jobs[i].out = "ok" /\ m = OkNext[n]
               \/ jobs[i].out = "error" /\ m = ErrNext[n]]_vars

\* Without faults, a task at a queue node is woken only with the result there:
\* the handler's last write comes after the one the engine will read.
WokenWithResult ==
  faults = 0 =>
    \A t \in Task :
      tasks[t].status = "pending" =>
        \A i \in JobsOf(t, tasks[t].curr) : jobs[i].out # "none"

\* Without faults, no late wake-up takes a finished task up again.
FinishedStays ==
  [][\A t \in Task :
       tasks[t].status \in {"completed", "failed"} /\ faults = 0
         => tasks'[t].status = tasks[t].status]_vars

Queued(i, st) == i \in DOMAIN jobs /\ jobs[i].queue = st

\* Without faults, every job that is enqueued is worked on and completed.
JobsAreWorked ==
  \A i \in 1 .. MaxJobs :
    Queued(i, "pending") ~> Queued(i, "completed") \/ faults > 0

\* Without faults, a task that is suspended before its worker reports, its
\* scheduler gone on to other work, is woken by that report.  What is left out
\* is the report that comes while the suspension is being written.
SuspendedFirstResumes ==
  \A t \in Task :
    /\ engine[t] = "free" /\ tasks[t].status = "waiting_queue"
    /\ \A i \in JobsOf(t, tasks[t].curr) : jobs[i].out = "none"
    ~> tasks[t].status # "waiting_queue" \/ faults > 0

\* What a run and its job are to RemoteCall.
JobStage(j) ==
  CASE j.out # "none" -> j.out
    [] j.out = "none" /\ j.queue = "absent" -> "recorded"
    [] j.out = "none" /\ j.queue = "pending" -> "offered"
    [] j.out = "none" /\ j.queue \in {"claimed", "completed"} -> "taken"
Stage(t, n) ==
  LET stages == {JobStage(jobs[i]) : i \in JobsOf(t, n)}
  IN IF stages = {} THEN "none" ELSE CHOOSE s \in stages : TRUE
Held(w) ==
  IF worker[w] = IdleWorker THEN {}
  ELSE {<<jobs[worker[w].job].task, jobs[worker[w].job].node>>}

Calls == INSTANCE RemoteCall WITH
  Remote <- QueueNode,
  cursor <- [t \in Task |-> tasks[t].curr],
  call   <- [t \in Task |-> [n \in Node |-> Stage(t, n)]],
  hand   <- [w \in Worker |-> Held(w)]

\* Through all faults, a queue node is one remote call of the task that comes to
\* it: offered once, taken by one worker, answered at most once and for good, and
\* the only way past the node.
ImplementsRemoteCall == Calls!Spec

\* A suspended task resumes (README.md:91, "The engine resumes the flow
\* execution with the reported result").
SuspendedResumes ==
  \A t \in Task :
    tasks[t].status = "waiting_queue" ~> tasks[t].status # "waiting_queue"
=============================================================================
