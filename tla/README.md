# PocketFlowGo in TLA+

PocketFlowGo runs *tasks*: walks through a flow, a graph of nodes, one node at a
time. Everything it knows is in one SQLite database. Several processes work on
that database at once, and what makes the system hard is what they do to each
other's rows.

## The system

| Component | State | Operations | Source |
|---|---|---|---|
| Task table | one row per task: status, cursor (`current_node_key`), lease (`lease_owner`, `lease_expiry`), shared state, `updated_at` | create, lease, extend, status and progress writes with and without the lease's fence | `pkg/store/sqlstore/sqlite.go` |
| Scheduling loop | the task it holds | lease, extend, run a step, test whether to go on, mark failed | `cmd/scheduler/main.go` |
| Engine core | a copy of the row for the duration of a step | `RunOnce`, retries, `finishNode`, `cancelTask`, `suspendTask` | `pkg/engine/core.go`, `executor.go` |
| Task API | none | create, cancel, signal, run_once, queries | `pkg/server/server.go` |
| Pull queue | `task_queue`, `node_runs` | enqueue, poll, update_run, complete | `executor_queue.go`, `server.go`, `sqlite.go` |
| Async worker | the job it has | poll, report running, execute, complete | `cmd/worker-async/main.go` |
| Waiting nodes | `_rt` in shared state: start time | timer, wait_event, approval | `pkg/engine/timer.go`, `wait_event.go`, `approval.go` |
| Parallel, foreach | `_rt`: branches done and failed | run the remaining branches, aggregate, fail fast | `pkg/engine/parallel.go`, `foreach.go` |
| Subflow | `_rt`: nested cursor, shared state, retry count | run one nested node per step | `pkg/engine/subflow.go` |
| Worker registry | `workers`: load, last heartbeat, status | register, heartbeat, refresh, list, allocate | `sqlite.go`, `server.go`, `pkg/flow/registry.go` |
| Executors | none | HTTP call, local function, local script | `executor_http.go`, `executor_local_*.go` |
| Expressions | none | `evalExpr`, `getByPath`, `findNext` | `expr.go`, `util.go` |
| Flows, UI, CLI | definitions | create, publish, list | `server.go`, `ui/`, `cmd/cli`, `cmd/loadexamples` |

They interact through the tables alone. A scheduler leases a row, reads it, lets
the engine execute the node with no transaction open, and writes status and cursor
back in two statements. API handlers write the same rows without any lease. For a
queue node the engine leaves a row in `task_queue` and one in `node_runs`, gives the
task the status `waiting_queue`, which no scheduler leases, and relies on the
handler of `/queue/complete` to write the run and set the task `pending`.

What is hard, and what each part must promise:

- **Leases.** No two schedulers on one task; no write of a step dropped; no write of
  a scheduler that was overtaken let through. The lease is 3 seconds and is extended
  only between steps.
- **Crashes.** A scheduler may die between any two statements. The task is to be
  taken up again, its step repeated rather than skipped.
- **Requests.** Cancel and signal come at any moment, between the read and the write
  of a step too.
- **Pull queue.** Report and suspension race; requests are lost or late; workers die.
  One job per node, one worker per job, and no step past the node without a report.
- **Waiting nodes.** A wait lasts its time through crashes; a signal decides, and is not
  lost between the read and the write of a look.
- **Fan-out and nested nodes.** Each branch once, its own result, no state left behind
  for the next visit, and an end.
- **Registry.** Dead workers are dropped, live ones are listed though beats are lost; a
  call over HTTP fails only when all workers do, and is executed again only when an
  answer was lost.

The hazards are listed, each at its line, in `PROJECT.json`.

## Modules

| Module | Models |
|---|---|
| `TaskTable` | the `tasks` table, one operator per SQL statement |
| `Scheduler` | the loop and `RunOnce` over `TaskTable`, with create, cancel, signal, crashes and the clock |
| `ExclusiveWork` | abstract: what leases promise, without leases, clock or statements |
| `SchedulerProofs`, `SchedulerRecordProofs`, `SchedulerWorkProofs` | theorems about `Scheduler`: leases; runs and cursors; finality and the refinement of `ExclusiveWork` |
| `PullQueue` | queue nodes, `task_queue`, the queue handlers and the async worker |
| `RemoteCall` | abstract: what the queue is for, without engine, rows or requests |
| `PullQueueProofs`, `PullQueueWakeProofs` | theorems about `PullQueue`: jobs; suspension, waking and the refinement of `RemoteCall` |
| `NodeTask` | one task's row, its runtime records, and the ways a step can end |
| `WaitNodes` | timer, wait_event, approval, choice, over `NodeTask` |
| `BranchNodes` | parallel, foreach, subflow and their queue branches, over `NodeTask` |
| `NodeRuntime` | composes both with the scheduler's loop, crashes, time, signals and workers' reports |
| `NodeRuntimeProofs`, `NodeBranchProofs` | theorems about `NodeRuntime`: waits and approvals; branches |
| `Registry` | workers, heartbeats, offline marking, listing, and the call over HTTP |
| `RegistryProofs` | theorems about `Registry` |
| `MCScheduler`, `MCPullQueue`, `MCNodeRuntime`, `MCRegistry` | flows, workers and values for model checking |

### TaskTable

`tasks[t]` is a row with its status, cursor and lease owner. The two Unix times are
kept relative to the clock: `left` is `lease_expiry - now`, -1 once it has passed and
for expiry 0, and `age` is `now - updated_at`, no longer counted above `AgeMax`. A
row with `left = 0` is the second in which the code neither leases it
(`lease_expiry < now`) nor lets its owner write (`lease_expiry > now`).

### Scheduler

Each scheduler has a program counter; each step is one statement on the store or one
reading of it, with the code up to the next:

| Action | Code |
|---|---|
| `LeaseNext`, `Extend` | main.go:116, 122 |
| `RunOnce` | core.go:184-244: one read decides between lease error, cancellation, flow error and execution |
| `Execute` | executor.go:17-60, one attempt and the run it records; the same for nodes of other kinds |
| `WriteStatus`, `WriteProgress` | the two writes of `finishNode`, `cancelTask` and of a node that waits |
| `RecordCancel` | core.go:95 |
| `Check`, `MarkFailed` | main.go:137-141, 133-135 |
| `Create`, `Cancel` | server.go:473, 555 |
| `SignalRead`, `SignalWrite` | server.go:585, 601 |
| `Crash`, `Restart`, `Tick` | the process dies, comes back; a second passes |

What a node does is left open: `Emits[n]` is the set of outcomes its execution may
have (ok, error, fatal, or not done yet, each with an action), and the flow is the
sequence `Edges`, searched like `findNext`. Each scheduler has a name of its own,
which is its lease owner; `SCHEDULER_OWNER`, or the host's name, is to be unique.

### ExclusiveWork

A task is open until it ends; one worker at a time takes it; only that worker moves
it. `Scheduler` implements it (`ImplementsExclusiveWork`) with the scheduler that
is busy with a task as its holder.

### PullQueue

`jobs` holds the rows of `task_queue` with their `node_runs` rows; `run` is the
status the engine looks at, `out` what was reported. The engine's side is the
scheduler's loop without leases: one scheduler at a time holds the task and none of
its writes is dropped, which `SchedulerProofs` proves of the leases while steps are
shorter than they last. `handler[i]` is the request to `/queue/complete` for job `i`,
which goes through its three statements (`CompleteJob`, `RecordResult`, `WakeTask`)
while everything else moves. A "running" update may be lost or come late; a result
may be lost; engine, worker and handler may die.

### RemoteCall

Where a task comes to a remote node, the node is called: the call is recorded, offered,
taken by one worker and answered at most once, and only the answer takes the task on.
`PullQueue` implements it (`ImplementsRemoteCall`): a call's stage is read off the row of
`task_queue` and the result in that of `node_runs` (`Stage`), a worker's hands off the job it
has (`Held`). The engine's plans and suspensions, "running" updates, wake-ups and the deaths of
engines and handlers are no steps of it.

### NodeTask, WaitNodes, BranchNodes, NodeRuntime

One task goes through a flow of any of the node kinds. `task` is its row: status,
cursor and shared state, of which the models keep the runtime record `_rt` of each node
and the signal written for each. A step reads the row into `my` (`Read`), runs the node
on that copy, and leaves in `plan` what `WriteStatus` and `WriteProgress` put back: the
whole shared state, with what the step did not touch. `SignalRead` and `SignalWrite`
do the same from the API's side.

| Action | Code |
|---|---|
| `Lease`, `Check`, `Crash` | main.go:115-142 |
| `Read` | core.go:182-236 |
| `RunTimer`, `RunWaitEvent`, `RunApproval`, `RunChoice` | the functions of those names |
| `Launch`, `ExecBranch`, `Receive`, `SuspendBatch`, `NextBatch` | runConcurrent and runSequential, of parallel.go and foreach.go, and runSubflow: the batch, each branch, its outcome, and the end |
| `ReadLastRun`, `EnqueueBranch` | execQueue, executor_queue.go:11-46 and 48-88 |
| `FailFast`, `FinishBranches`, `NoServices`, `EmptyList`, `EmptySubflow` | handleFailFast, finishParallelNode and finishForeachNode, handleNoServices, handleEmptyList, finishSubflow |
| `Delay`, `AdvanceSubflow`, `FinishSubflow`, `RetrySubflow`, `FailSubflow` | subflow.go:107, 75, 303, 255, 279 |
| `WorkerReport` | server.go:122-234 |

A concurrent batch's goroutines interleave freely with the loop that takes their
outcomes. A branch's result is told apart only by whose work it is, which is what
`BranchesByReport` asks about. The queue is coarser than in `PullQueue`: a run and its job
are made in one step, and a report is one step. Of a node's runs `last` keeps the
latest, the only one execQueue looks at.

Times are ages and countdowns, so that time has no end: `age` counts up from the start
a timer or wait_event recorded, `again` down to a subflow's next try. `here`, `posted`,
`reported`, `execs` and `races` are history: how long the cursor has been where it is,
which signals were written, what workers reported for each node's branches, how often each branch was executed
in this visit, and whether a signal request wrote over a row newer than the one it had
read. Properties that such a write can break any of are stated for behaviours
without one.

Left out: `post.action_key` and expressions (a choice takes any action), outputs and
their mapping, a subflow's own edges (its nodes come in order) and the parameters of
branches. Branches of a node have different names.

### Registry

A unit of time is the interval of the beats, 5 seconds; `Tick` waits for every worker
that is up to have sent its beat of the interval, lost or not. That is the loop of
cmd/worker up to the duration of the request itself; `TTL` is 15 seconds, three units.
`workers` is the table, keyed by id. A beat refreshes every row with the sender's URL
as well as its own (sqlite.go:75). An HTTP worker that is started again has a new id; an
async or the scheduler's local one may come back with the old one. `call` is one
execHTTP: the workers it listed, tried one by one, in any order. A request can fail
because nobody listens at the URL, or because it or its answer is lost, executed or not.
A call goes through its whole list, since execHTTP does not look at the node's
`max_attempts`.
Loads are left out: they only order the attempts, and choose among the listed
workers in `/workers/allocate`, which nothing in the repository calls.

## Runs

| Run | Shows |
|---|---|
| `sched_safety` | leases, exclusion, owned writes, finality and the refinement of `ExclusiveWork`, rounds shorter than the lease |
| `sched_overrun` | what holds with rounds twice the lease: the fence, a run for every move, no open task without a node |
| `sched_liveness` | every task finishes or waits, whoever dies |
| `sched_overlap` | violated: exclusion, with rounds longer than the lease |
| `sched_cancel` | violated: a cancel is honoured |
| `pull_queue` | one job per node, one worker per job, results only by report, and the refinement of `RemoteCall` |
| `pull_queue_liveness` | jobs are worked on; a task suspended in time is woken |
| `queue_resume` | violated: every suspended task resumes |
| `node_runtime` | waits last their time, signals decide, branches run once each, nodes end |
| `node_results` | violated: a queue branch's result is what its worker reported |
| `node_signal` | violated: a signal writes its key and nothing else, and no step undoes it |
| `registry` | who is listed, who goes offline, how a call over HTTP ends |

**Bounds.** Two tasks and two schedulers (three where some are kept by waiting tasks)
are enough for every conflict over a row, the choice of the oldest task and a
second task to be lost meanwhile. `LeaseTTL` is 2 with `RoundMax` 1, so that a lease is
renewed, runs down and ends; in `sched_overrun` it is 1 with `RoundMax` 2, so that one
step sees a whole step of another scheduler. One crash happens at every point of
every behaviour; a second one meets a system that has recovered from the first.
`AgeMax` bounds how long ago an update is told apart. For the queue, two tasks
with three queue steps between them, two workers and `MaxFaults` 2: a late update and a
crash in one behaviour. `MaxJobs` is the number of queue steps there are, so it cuts
nothing off; no flow there comes back to a queue node, though the theorems hold for flows that do. For the nodes, 24 flows: every
kind with each mode, strategy, limit and list that makes its code take another way,
followed by another node or by a choice that may go back to it, since what a node leaves
behind matters to the next visit. Three branches with at most two at a time make a
second batch; two of them with one in the queue are the least that can take each other's
run. Waits of 0 to 2 units tell apart not yet, just, and over. One crash at any point,
two signal requests: the second is the one that writes over the first. For the
registry, four sets of two workers: one URL after the other's, two URLs, the shared URL
of async workers, a local one; `TTL` 2, two lost messages, two stops and one call, enough
to lose every beat a worker may lose and one more, and to restart at a URL whose last
worker is still listed. Symmetry is used on schedulers and on workers, never in a run with a
liveness property.

**Fairness.** `WF` on a scheduler's step: the loop of main.go never ends, and each
statement returns. `WF` on the clock. None on `Restart`: nothing restarts a process.
None on clients. In `PullQueue`, `WF` on each scheduler, each worker's loop and on
each request the server has begun to handle. In `NodeRuntime`, `WF` on the steps of the
scheduler as a whole, on the write of a signal request that was read, and on time; none
on requests or on workers' reports, so nodes that need those are no part of `NodesEnd`. In
`Registry`, `WF` on time, the beats (lost or not) and the loop that marks workers offline;
none on starts, stops or calls. No strong fairness anywhere.

### What the code does otherwise

- **`sched_overlap`**: a step longer than 3 seconds (an HTTP call may take 10) loses the
  lease, and another scheduler executes the node too. `README.md:137` promises it
  cannot. The owned writes of the first are then dropped, and it marks the task
  failed without the fence (main.go:134) when it finds the lease gone.
- **`sched_cancel`**: `canceling` is not among the statuses `LeaseNextTask` selects, so a
  task cancelled while nobody holds it stays so.
- **`queue_resume`**: a worker that reports before `suspendTask` writes `waiting_queue`
  has its wake-up overwritten. `SuspendedFirstResumes` shows that this is the only way:
  a task whose suspension is complete when the report comes is woken.
- **`node_results`**: all branches of a node have the node's key, by which execQueue looks for
  a result; a queue branch takes the run of the branch recorded last. `LoneBranchByReport`
  shows that a queue branch alone in a concurrent node is safe, where the task does not come to
  the node again: a second visit finds the first one's run. A signal request that writes over a
  newer row can bring the cursor back too; execQueue then takes the run recorded for the node
  as a whole for the branch's, which one of the run's flows is there to show. In sequence even a lone
  one is not: its pending state is recorded as an error, which the engine finds when it
  comes back.
- **`node_signal`**: a signal's handler writes the whole row it read, and a waiting node's look
  does too. `SignalledLeaves` shows what is left: a signal that is in the row when no step
  and no other request has a copy of it takes the task off the node.
- **`max_attempts` and calls over HTTP** (`registry`): `docs/architecture.md:99` says "Call Worker
  (optionally sorted by load; failure switch controlled by `max_attempts/attempt_delay_ms`)",
  and lines 60 and 163 list both fields under retry and switching. Local functions and scripts
  look at them (executor_local_func.go:25-28, executor_local_script.go:131-134); execHTTP
  looks at neither. It counts `attempts` (executor_http.go:40, 44), compares the count with
  nothing, and goes through every listed worker without a pause, up to 10 seconds each.
  `FailsWhenAllFail` states what the code does. It holds only because the list is never cut
  short: put the documented limit into `NextWorker`, with `max_attempts` 1 (`FirstOnly`, the
  property's mutant), and TLC finds it violated, by a call that fails with a worker left that
  was up all the time.

Smaller things met on the way, listed as hazards or excepted in a property: a job whose
worker died stays claimed, since `timeout_at` is never read; fail_fast leaves the node's
runtime record behind; a parallel node without services looks again for ever; a
subflow with `max_retries` 0 retries for ever; a signal's value stays, and decides the
next visit too; the rows of dead workers stay listed while anyone beats with their URL;
docs/architecture.md:185 names strategies (`collect_errors`, `ignore_errors`) the code does not
know, which act as none.

Some properties leave out cases in which the code does otherwise. `FinishedStays` is about
behaviours without faults: when an engine dies, another finishes the task from the recorded
result, and a handler that has yet to write `pending` takes it up once more
(server.go:228); `ImplementsRemoteCall`, through all faults, shows that no call is then made
or answered again. `NodesEnd` leaves out nodes that wait for workers or approvals, a parallel
node without services and unlimited retries; `EveryBranchRuns` leaves out fail_fast, and
`BranchAtMostOnce` says nothing of a subflow with `max_retries` 0. `GoneGoesOffline` and
`DeadIsDropped` let a row stay fresh while somebody else beats with its URL. `LeavesByReport`
does not say that a job is worked on again: a lost result is lost for good.

## Proofs

The theorems hold for all values of the constants: any sets of tasks, schedulers, nodes,
branches and workers, any flows, and any bound on crashes, requests and lost messages. They
assume what the modules assume of their constants, and the hypotheses named below. Each rests
on an inductive invariant, which TLC checked on the runs' instances before it was proved; the
names of its parts are those in the modules.

### Scheduler

| Theorem | Says | Hypothesis |
|---|---|---|
| `TypeCorrect` | `TypeOK` | |
| `LeaseHeldAlways` | `LeaseHeld`: a busy scheduler owns its lease, `left = LeaseTTL - elapsed` | `RoundMax <= LeaseTTL` |
| `Exclusive` | `ExclusiveExecution`: no two schedulers on one task | `RoundMax <= LeaseTTL` |
| `StepsAreKept` | `NoLostWork`: the fence lets every write of a step through | `RoundMax < LeaseTTL` |
| `FailuresAreTheEngines` | `FailsOnlyOnEngineError`: the loop fails only tasks whose flow does not load | `RoundMax < LeaseTTL` |
| `CursorIsFenced` | `FencedCursor`: whom the row names as owner sees the cursor it read | |
| `MovesAreRecorded` | `MoveIsRecorded`: a cursor moves only over a recorded run of its node | |
| `EmptiedTasksEnd` | `EmptiedIsFinal`: no open task is left without a node | |
| `FinishedStaysFinished` | `FinalIsFinal`: an ended task stays ended | `RoundMax < LeaseTTL` |
| `WorkIsExclusive` | `ImplementsExclusiveWork` | `RoundMax <= LeaseTTL` |

Exclusion is not inductive by itself, since it says nothing of the lease a new scheduler looks
at. `LeaseHeld` is: it ties the lease of each busy scheduler to the seconds since its last
lease statement, so that while a round is no longer than the lease, `left` is at least 0 for a
held task and `Leasable` is false. Two busy schedulers on one task would both be its owner.
With a round strictly shorter, `left` is positive, which is the fence. `sched_overlap` shows
that the hypothesis is needed, and that the code does not guarantee it.

What holds with rounds of any length rests on the owner's name. To write the cursor one must
own the row; a scheduler that was overtaken is no longer its owner, and cannot become so again
before its step is over (`CursorIsFenced`). `Recorded` follows a plan back to the run that was
inserted before it, to a node that is not done, or to a cancel request; a write that the fence
lets through then moves the cursor the plan was made for. `Emptied` needs the two writes of a
step apart: a step that empties the cursor has a final status to write (`EmptiesToEnd`), its
owner has a node as long as it works (`HasNode`), and once the status is written it lasts until
the cursor is (`StatusLasts`).

Finality adds `WorkIsOpen`: whoever is still to execute or to write a status has a task that is
not over, which needs exclusion, since the only one that could have ended it is the scheduler
itself. A canceled task has a scheduler that is past its status write and empties the cursor
(`CanceledIsEmptied`). For the refinement, each step is a step of `ExclusiveWork` or a stutter:
a lease takes a task that nobody has, the end of a round and a crash release it, a write of
its step moves or ends it, and all else leaves holder, phase and cursor as they are. Requests
of clients are the abstract module's own; a signal in flight finds its row (`SignalsFindRows`)
because rows are never deleted.

### PullQueue

`TypeCorrect`, `EnqueuedOnce` (`OneJobPerNode`), `ClaimedOnce` (`OneWorkerPerJob`), with no
hypothesis. They are parts of one invariant, `JobsInv`: a worker at work has a job that is
claimed and not reported (`Hands`), only claimed jobs are reported (`Claimed`), execQueue is
between its two statements only while its run has no job (`Enqueueing`), a result has come by a
handler that is past writing it (`Results`). One job per node is what makes the latest run the
only one, so that `LastRun` is none exactly when the node was never enqueued.

`LeftByReport` (`LeavesByReport`) holds through all faults: what the engine is about to write for
a task at a queue node keeps it there or is the successor for a reported result. `WokenByResult`
(`WokenWithResult`) and `FinishedIsLeft` (`FinishedStays`) are about behaviours without faults, as
the properties are; their invariant `Waking` says that a task with an unanswered job waits at its
node, or its scheduler is about to write that it does.

`QueueIsRemoteCall` (`ImplementsRemoteCall`), again with no hypothesis and through all faults, puts
the queue's parts together. Each statement that changes a job's stage changes one call's, since
no two jobs are of one task and node (`CallAdvances`): creating the run records it, `EnqueueTask`
offers it, `PollQueue` takes it, `UpdateNodeRun` answers it. `Hands` and `Results` are why the
answer finds its worker gone and no other answer there, and `Reported` and `Local` (what is about
to be written for a node that executes in the engine is one of its successors) why each move of
a cursor is one the call, or the flow, allows.

### NodeRuntime

`TypeCorrect`, and:

- `ApprovedByPost` (`DecidedByPost`), with no hypothesis: every signal that the row, a step's copy,
  a plan or a request has was posted (`SignalsPosted`), so stale writes bring back old values but
  invent none, and a step decides by the value in its copy (`Decided`).
- `WaitsLast` (`WaitsItsTime`): without a request that writes over a newer row, a step is at the node
  the row is at (`SameNode`), and of all waits in a copy only the one at the cursor has a start,
  no older than the task's coming there (`StartedHere`). A crash loses a start or keeps it; it
  cannot make it older.
- `BranchesRun` (`EveryBranchRuns`): in every copy only the node at the cursor has outcomes, of
  branches executed in this visit (`RanHere`); the node is left when none remains.
- `BranchesOnce` (`BranchAtMostOnce`), for flows where no edge leads from a node to itself
  (`NoSelfLoop`, true of the run's flows: `execs` tells visits apart by the cursor's moves). `Counted` follows a branch
  through a step: launched without an outcome, executed, received, planned, written. At each point
  it was executed no more often than crashes lost it and failures were counted, and once more if
  it has an outcome. It needs that a batch that is not concurrent has one branch (`LoneBranch`),
  that every outcome counts as one (`FromKnown`, `RunsKnown`) and that a subflow's failures stay
  below `max_retries` (`TriesLeft`).
- `LoneBranchTold` (`LoneBranchByReport`), with no hypothesis but the property's own. A step moves
  the cursor along an edge or not at all (`Follows`). Until the node's own run is recorded, all
  outcomes of the branch, in the row, a copy, a plan or a message of the batch, are what was
  reported (`OutcomesTold`, `BatchTold`), its latest run too (`RunTold`), and at most one job is out
  for it, which nobody has an outcome of yet (`OneJob`, `Untold`), so that a report never changes
  one that was read. Once that run is recorded the task has the outcome, or is among the nodes
  no way leads back from (`Over`), and nothing of the node changes any more.

`races` in these properties is history, not a hypothesis: the code does not exclude such requests,
and `node_signal` shows one.

### Registry

`TypeCorrect`, `UpIsListed` (`ListedWhileBeating`), `GoneIsDropped` (`DeadIsDropped`), `AnsweredOnce`
(`ExecutedOnceAnswered`), `FailureIsOfAll` (`FailsWhenAllFail`), with no hypothesis. The age of a
live worker's row is at most the beats it lost in a row and the one that is due (`BeatsCounted`);
conversely a row is no fresher than somebody at its URL was up (`Heard`), which is all one can say
since a beat refreshes every row with its URL. A call has yet to try, or has seen fail for a
lost message, each worker that was up from the listing on (`SteadyTried`); a worker that died or came later
is no part of what `FailureIsOfAll` says.

### Only model-checked

- Liveness (`EveryTaskAdvances`, `JobsAreWorked`, `SuspendedFirstResumes`, `SignalledLeaves`, `NodesEnd`,
  `GoneGoesOffline`): fairness and ENABLED are out of the prover's reach.
- The disagreements under "What the code does otherwise", each by its counterexample.

## Not modelled

What nodes compute from shared state (expressions, inputs, outputs, parameters); database
errors (every statement succeeds; `EmptiedIsFinal` is broken by the failure of a status
write, and by nothing else); `run_once` under a scheduler's own name (under its default
name, "manual", it never holds a lease and changes nothing); loads and services in `Registry`; local functions and scripts, which are
outcomes; flow management, since a task's flow version is fixed when it is created; the
UI, the CLI and the example loader, which are clients of the API.

## Plan

1. *(done)* `TaskTable`, `Scheduler`, `ExclusiveWork`, `SchedulerProofs`.
2. *(done)* `PullQueue`.
3. *(done)* `NodeTask`, `WaitNodes`, `BranchNodes`, `NodeRuntime`.
4. *(done)* `Registry`.
5. *(done)* Proofs of `Scheduler`: leases, records, finality, and that it implements
   `ExclusiveWork`.
6. *(done)* Proofs of `PullQueue`, of `Registry` and of `NodeRuntime`.
7. *(done)* Proof of `LoneBranchByReport`; `RemoteCall`, and the proof that `PullQueue`
   implements it.
8. Extensions of `Scheduler`: database errors, `run_once` as one more engine.
