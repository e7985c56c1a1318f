----------------------------- MODULE Scheduler -----------------------------
(***************************************************************************)
(* The scheduling loop of cmd/scheduler/main.go driving the engine's       *)
(* RunOnce (pkg/engine/core.go), for several scheduler processes on one    *)
(* store, with the API requests that touch the same rows: create, cancel   *)
(* and signal (pkg/server/server.go).                                      *)
(*                                                                         *)
(* A scheduler holds one task at a time:                                   *)
(*                                                                         *)
(*   idle --LeaseNext--> extend --Extend--> run --RunOnce--> exec          *)
(*     exec --Execute--> status --WriteStatus--> progress                  *)
(*     progress --WriteProgress--> check --Check--> extend or idle         *)
(*                                                                         *)
(* RunOnce goes to mark_failed when it returns an error; a cancelled task  *)
(* skips exec and passes through record (cancelTask saves its run last).   *)
(* Each arrow is one statement on the store: between two of them other     *)
(* processes run, the clock ticks, or the process dies.                    *)
(*                                                                         *)
(* Nodes are executors (HTTP, local function, local script), choices and   *)
(* the nodes that poll (timer, wait_event, approval).  Queue executors,    *)
(* parallel, foreach and subflow nodes are not in this module.             *)
(***************************************************************************)
EXTENDS TaskTable, Sequences

CONSTANTS
  NoTask, NoSignal,
  Action,      \* transition actions, the empty one included
  EmptyAction, DefaultAction,
  Edges,       \* sequence of [from, action, to]: the edges of all the flows
  Start,       \* [Task -> Node]
  Emits,       \* [Cursor -> SUBSET Outcome]: how a node's execution may end
  MaxRetries,  \* [Cursor -> Nat]: max_retries of an executor, 0 for other nodes
  BadFlow,     \* tasks whose flow version does not load
  Cancelable,  \* tasks a client may cancel
  Signaled,    \* tasks a client may signal
  RoundMax,    \* bound: seconds from one lease statement of a loop to the next
  MaxCrashes   \* bound: crashes in a behaviour

\* ok, error, fatal (ErrFatal, not retried): the node is done; wait: it polls
\* and is not done yet.
Outcome == [result : {"ok", "error", "fatal", "wait"}, action : Action]

ASSUME SchedulerAssumption ==
  /\ NoTask \notin Task
  /\ NoSignal \notin Cursor
  /\ {EmptyAction, DefaultAction} \subseteq Action
  /\ Edges \in Seq([from : Node, action : Action, to : Node])
  /\ Start \in [Task -> Node]
  /\ Emits \in [Cursor -> SUBSET Outcome]
  /\ MaxRetries \in [Cursor -> Nat]
  /\ BadFlow \subseteq Task /\ Cancelable \subseteq Task /\ Signaled \subseteq Task
  /\ RoundMax \in Nat
  /\ MaxCrashes \in Nat

VARIABLES
  pc,       \* [Owner -> where the scheduler's loop stands]
  job,      \* [Owner -> the task it holds]
  seen,     \* [Owner -> current_node_key as RunOnce read it]
  attempt,  \* [Owner -> attempts already made in the retry loop]
  plan,     \* [Owner -> the status and cursor finishNode is about to write]
  elapsed,  \* [Owner -> seconds since its last lease statement]
  runs,     \* [Task -> the <<node, status>> of its node_runs rows]
  signal,   \* [Task -> the cursor a signal request in flight has read]
  crashes

local == <<job, seen, attempt, plan>>
vars == <<tasks, pc, local, elapsed, runs, signal, crashes>>

Plan == [status : TaskStatus, next : Cursor]
NoPlan == [status |-> "none", next |-> NoNode]
RunStatus == {"ok", "error", "canceled"}
Steps == {"extend", "run", "exec", "status", "progress", "record", "check",
          "mark_failed"}

Busy(s) == pc[s] \in Steps

Init ==
  /\ TaskTableInit
  /\ pc = [s \in Owner |-> "idle"]
  /\ job = [s \in Owner |-> NoTask]
  /\ seen = [s \in Owner |-> NoNode]
  /\ attempt = [s \in Owner |-> 0]
  /\ plan = [s \in Owner |-> NoPlan]
  /\ elapsed = [s \in Owner |-> 0]
  /\ runs = [t \in Task |-> {}]
  /\ signal = [t \in Task |-> NoSignal]
  /\ crashes = 0

-----------------------------------------------------------------------------
(* Where a node's result leads: findNext and finishNode. *)

\* The first edge that matches; none is the empty node key.
FindNext(from, action) ==
  LET a == IF action = EmptyAction THEN DefaultAction ELSE action
      M == {i \in DOMAIN Edges : Edges[i].from = from /\ Edges[i].action = a}
  IN IF M = {} THEN NoNode
     ELSE Edges[CHOOSE i \in M : \A j \in M : i <= j].to

\* The writes that end a step: finishNode's, or a waiting node's own.
Finish(n, out) ==
  LET next == FindNext(n, out.action)
  IN CASE out.result = "wait"  -> [status |-> "running", next |-> n]
       [] out.result # "wait" /\ next # NoNode -> [status |-> "running", next |-> next]
       [] out.result = "ok" /\ next = NoNode -> [status |-> "completed", next |-> NoNode]
       [] OTHER -> [status |-> "failed", next |-> NoNode]

-----------------------------------------------------------------------------
(* The scheduler's loop. *)

Goto(s, l) == pc' = [pc EXCEPT ![s] = l]

ForgetNothing(s) == UNCHANGED <<local, elapsed>>  \* mutant: state is kept
\* What a scheduler keeps of a step is gone when it lets go of the task.
Forget(s) ==
  /\ job' = [job EXCEPT ![s] = NoTask]
  /\ seen' = [seen EXCEPT ![s] = NoNode]
  /\ attempt' = [attempt EXCEPT ![s] = 0]
  /\ plan' = [plan EXCEPT ![s] = NoPlan]
  /\ elapsed' = [elapsed EXCEPT ![s] = 0]

LeaseNext(s) ==
  /\ pc[s] = "idle"
  /\ \E t \in Task : LeaseNextTask(t, s) /\ job' = [job EXCEPT ![s] = t]
  /\ Goto(s, "extend")
  /\ UNCHANGED <<seen, attempt, plan, elapsed, runs, signal, crashes>>

Extend(s) ==
  /\ pc[s] = "extend"
  /\ ExtendLease(job[s], s)
  /\ elapsed' = [elapsed EXCEPT ![s] = 0]
  /\ Goto(s, "run")
  /\ UNCHANGED <<local, runs, signal, crashes>>

\* RunOnce up to the dispatch: one read of the row decides where it goes.
RunOnce(s) ==
  LET t == job[s] IN
  /\ pc[s] = "run"
  /\ \/ /\ ~Fenced(t, s)                        \* lease_mismatch, lease_expired
        /\ Goto(s, "mark_failed")
        /\ UNCHANGED <<seen, plan>>
     \/ /\ Fenced(t, s) /\ tasks[t].status = "canceling"
        /\ seen' = [seen EXCEPT ![s] = tasks[t].curr]
        /\ plan' = [plan EXCEPT ![s] = [status |-> "canceled", next |-> NoNode]]
        /\ Goto(s, "status")
     \/ /\ Fenced(t, s) /\ tasks[t].status # "canceling" /\ t \in BadFlow
        /\ Goto(s, "mark_failed")
        /\ UNCHANGED <<seen, plan>>
     \/ /\ Fenced(t, s) /\ tasks[t].status # "canceling" /\ t \notin BadFlow
        /\ seen' = [seen EXCEPT ![s] = tasks[t].curr]
        /\ Goto(s, "exec")
        /\ UNCHANGED plan
  /\ UNCHANGED <<tasks, job, attempt, elapsed, runs, signal, crashes>>

\* SaveNodeRun through recordRun.
RecordNoRun(t, n, st) == UNCHANGED runs  \* mutant: the run is not saved
RecordRun(t, n, st) == runs' = [runs EXCEPT ![t] = @ \cup {<<n, st>>}]

\* The status a done node is recorded with.
RunOf(out) == IF out.result = "ok" THEN "ok" ELSE "error"

\* One attempt of the node and the run it records; a waiting node records none.
Execute(s) ==
  /\ pc[s] = "exec"
  /\ \E out \in Emits[seen[s]] :
       \/ /\ out.result = "error" /\ attempt[s] < MaxRetries[seen[s]]
          /\ RecordRun(job[s], seen[s], "error")
          /\ attempt' = [attempt EXCEPT ![s] = @ + 1]
          /\ UNCHANGED <<pc, plan>>
       \/ /\ out.result = "error" => attempt[s] >= MaxRetries[seen[s]]
          /\ IF out.result = "wait" THEN UNCHANGED runs
             ELSE RecordRun(job[s], seen[s], RunOf(out))
          /\ attempt' = [attempt EXCEPT ![s] = 0]
          /\ plan' = [plan EXCEPT ![s] = Finish(seen[s], out)]
          /\ Goto(s, "status")
  /\ UNCHANGED <<tasks, job, seen, elapsed, signal, crashes>>

WriteStatusFails(s) ==  \* mutant: the statement fails, and the step goes on
  /\ pc[s] = "status"
  /\ Goto(s, "progress")
  /\ UNCHANGED <<tasks, local, elapsed, runs, signal, crashes>>
WriteStatus(s) ==
  /\ pc[s] = "status"
  /\ UpdateTaskStatusOwned(job[s], s, plan[s].status)
  /\ Goto(s, "progress")
  /\ UNCHANGED <<local, elapsed, runs, signal, crashes>>

WriteProgress(s) ==
  /\ pc[s] = "progress"
  /\ UpdateTaskProgressOwned(job[s], s, plan[s].next)
  /\ Goto(s, IF plan[s].status = "canceled" THEN "record" ELSE "check")
  /\ UNCHANGED <<local, elapsed, runs, signal, crashes>>

\* cancelTask saves its run after both writes.
RecordCancel(s) ==
  /\ pc[s] = "record"
  /\ RecordRun(job[s], seen[s], "canceled")
  /\ Goto(s, "check")
  /\ UNCHANGED <<tasks, local, elapsed, signal, crashes>>

\* The loop's exit test, on a fresh read of the row.
Released(t) ==
  \/ tasks[t].status \in {"completed", "failed", "waiting_queue"}
  \/ tasks[t].curr = NoNode

Check(s) ==
  /\ pc[s] = "check"
  /\ IF Released(job[s])
     THEN Goto(s, "idle") /\ Forget(s)
     ELSE /\ Goto(s, "extend")
          /\ seen' = [seen EXCEPT ![s] = NoNode]
          /\ plan' = [plan EXCEPT ![s] = NoPlan]
          /\ UNCHANGED <<job, attempt, elapsed>>
  /\ UNCHANGED <<tasks, runs, signal, crashes>>

\* RunOnce returned an error: the status is written without the lease's fence.
MarkFailed(s) ==
  /\ pc[s] = "mark_failed"
  /\ UpdateTaskStatus(job[s], "failed")
  /\ Goto(s, "idle") /\ Forget(s)
  /\ UNCHANGED <<runs, signal, crashes>>

Crash(s) ==
  /\ pc[s] # "down" /\ crashes < MaxCrashes
  /\ crashes' = crashes + 1
  /\ Goto(s, "down") /\ Forget(s)
  /\ UNCHANGED <<tasks, runs, signal>>

Restart(s) ==
  /\ pc[s] = "down"
  /\ Goto(s, "idle")
  /\ UNCHANGED <<tasks, local, elapsed, runs, signal, crashes>>

-----------------------------------------------------------------------------
(* The requests of API clients, and the clock. *)

\* POST /tasks
Create(t) ==
  /\ CreateTask(t, Start[t])
  /\ UNCHANGED <<pc, local, elapsed, runs, signal, crashes>>

\* POST /tasks/cancel: whatever the status is.
Cancel(t) ==
  /\ t \in Cancelable /\ tasks[t].status # "none"
  /\ UpdateTaskStatus(t, "canceling")
  /\ UNCHANGED <<pc, local, elapsed, runs, signal, crashes>>

\* POST /tasks/signal reads the row, then writes shared state, cursor and all.
SignalRead(t) ==
  /\ t \in Signaled /\ tasks[t].status # "none" /\ signal[t] = NoSignal
  /\ signal' = [signal EXCEPT ![t] = tasks[t].curr]
  /\ UNCHANGED <<tasks, pc, local, elapsed, runs, crashes>>

SignalWrite(t) ==
  /\ signal[t] # NoSignal
  /\ UpdateTaskProgress(t, signal[t])
  /\ signal' = [signal EXCEPT ![t] = NoSignal]
  /\ UNCHANGED <<pc, local, elapsed, runs, crashes>>

\* One second; a loop never goes longer than RoundMax without a lease statement.
Tick ==
  /\ \A s \in Owner : Busy(s) => elapsed[s] < RoundMax
  /\ Elapse
  /\ elapsed' = [s \in Owner |-> IF Busy(s) THEN elapsed[s] + 1 ELSE elapsed[s]]
  /\ UNCHANGED <<pc, local, runs, signal, crashes>>

-----------------------------------------------------------------------------
LoopStep(s) ==
  \/ LeaseNext(s) \/ Extend(s) \/ RunOnce(s) \/ Execute(s) \/ WriteStatus(s)
  \/ WriteProgress(s) \/ RecordCancel(s) \/ Check(s) \/ MarkFailed(s)

Client(t) == Create(t) \/ Cancel(t) \/ SignalRead(t) \/ SignalWrite(t)

Next ==
  \/ \E s \in Owner : LoopStep(s) \/ Crash(s) \/ Restart(s)
  \/ \E t \in Task : Client(t)
  \/ Tick

Spec == Init /\ [][Next]_vars

\* A live process keeps looping and time passes; restarts are owed by nobody.
FairSpec == Spec /\ WF_vars(Tick) /\ \A s \in Owner : WF_vars(LoopStep(s))

-----------------------------------------------------------------------------
(* Properties. *)

\* Every variable stays in its type.
TypeOK ==
  /\ tasks \in [Task -> Row]
  /\ pc \in [Owner -> Steps \cup {"idle", "down"}]
  /\ job \in [Owner -> Task \cup {NoTask}]
  /\ seen \in [Owner -> Cursor]
  /\ attempt \in [Owner -> Nat]
  /\ plan \in [Owner -> Plan]
  /\ elapsed \in [Owner -> 0 .. RoundMax]
  /\ runs \in [Task -> SUBSET (Cursor \X RunStatus)]
  /\ signal \in [Task -> Cursor \cup {NoSignal}]
  /\ crashes \in 0 .. MaxCrashes
  /\ \A s \in Owner : Busy(s) <=> job[s] # NoTask

\* A scheduler that holds a task owns its lease, which lasts as long as its round
\* may: why leases exclude.  It needs RoundMax <= LeaseTTL.
LeaseHeld ==
  \A s \in Owner :
    IF Busy(s)
    THEN /\ tasks[job[s]].owner = s
         /\ tasks[job[s]].left = LeaseTTL - elapsed[s]
    ELSE elapsed[s] = 0

\* Two schedulers never work on one task at a time (README.md:137, leases
\* prevent double execution).  It needs RoundMax <= LeaseTTL.
ExclusiveExecution ==
  \A s1, s2 \in Owner :
    Busy(s1) /\ Busy(s2) /\ job[s1] = job[s2] => s1 = s2

\* A step's writes are never dropped: when finishNode or cancelTask issues one
\* the lease's fence lets it through.  It needs RoundMax < LeaseTTL.
NoLostWork ==
  \A s \in Owner : pc[s] \in {"status", "progress"} => Fenced(job[s], s)

\* The loop writes "failed" over a task only when its flow does not load, never
\* because of its lease.  It needs RoundMax < LeaseTTL.
FailsOnlyOnEngineError ==
  \A s \in Owner :
    pc[s] = "mark_failed" => job[s] \in BadFlow /\ tasks[job[s]].owner = s

\* However long a step took: while the row still names the scheduler as its
\* owner, the cursor is the one RunOnce read, so finishNode's owned writes
\* apply to the node that was executed.  Signals move the cursor themselves.
FencedCursor ==
  \A s \in Owner :
    /\ pc[s] \in {"exec", "status", "progress"}
    /\ job[s] \notin Signaled
    /\ tasks[job[s]].owner = s
    => tasks[job[s]].curr = seen[s]

\* However long steps take and whoever crashes: the cursor leaves a node only
\* once a run of that node is recorded; only a cancelled task is emptied first.
MoveIsRecorded ==
  [][\A t \in Task \ Signaled :
       /\ tasks[t].status # "none"
       /\ tasks'[t].curr # tasks[t].curr
       => \/ \E st \in RunStatus : <<tasks[t].curr, st>> \in runs[t]
          \/ t \in Cancelable /\ tasks'[t].curr = NoNode]_vars

\* A task whose cursor was emptied has a status that ends it or is to: the two
\* writes of finishNode come one after the other, and what comes in between
\* leaves no task that would be leased again to execute no node.  A signal can
\* empty the cursor itself.
EmptiedIsFinal ==
  \A t \in Task \ Signaled :
    tasks[t].status # "none" /\ tasks[t].curr = NoNode =>
      tasks[t].status \in {"completed", "failed", "canceled", "canceling"}

\* A finished task stays finished: completed and failed give way to nothing but
\* a later cancel request, and canceled to neither unless a signal puts a
\* cursor back.  It needs RoundMax < LeaseTTL.
FinalIsFinal ==
  [][\A t \in Task :
       LET old == tasks[t].status
           new == tasks'[t].status
       IN /\ old \in {"completed", "failed"} => new \in {old, "canceling"}
          /\ old = "canceled" /\ t \notin Signaled => new \in {old, "canceling"}]_vars

Polls(n) == \E out \in Emits[n] : out.result = "wait"

\* Every task that is created finishes, or comes to a node that waits for the
\* outside, though a scheduler may die at any point and never come back and
\* the tasks that wait keep theirs, if one is left (README.md:12, crash-safe).
\* It needs RoundMax < LeaseTTL.
EveryTaskAdvances ==
  \A t \in Task :
    tasks[t].status = "pending" ~>
      tasks[t].status \in {"completed", "failed"} \/ Polls(tasks[t].curr)

\* POST /tasks/cancel gets the task canceled (docs/architecture.md, "If task is
\* `canceling`, mark `canceled` and record a run").
CancelHonoured ==
  \A t \in Task :
    tasks[t].status = "canceling" ~> tasks[t].status = "canceled"

-----------------------------------------------------------------------------
(* The leases implement ExclusiveWork while no round outlasts them. *)

Holder(t) ==
  IF \E s \in Owner : Busy(s) /\ job[s] = t
  THEN CHOOSE s \in Owner : Busy(s) /\ job[s] = t
  ELSE NoOwner

Phase(t) ==
  CASE tasks[t].status = "none" -> "absent"
    [] tasks[t].status \in {"completed", "failed"} -> "ended"
    [] tasks[t].status \in {"canceling", "canceled"} -> "canceled"
    [] OTHER -> "open"

Work == INSTANCE ExclusiveWork WITH
  Worker <- Owner, Nobody <- NoOwner,
  holder <- [t \in Task |-> Holder(t)],
  phase  <- [t \in Task |-> Phase(t)],
  cursor <- [t \in Task |-> tasks[t].curr]

\* Every step of the schedulers is a step of ExclusiveWork or changes nothing
\* it sees.  It needs RoundMax <= LeaseTTL.
ImplementsExclusiveWork == Work!Spec
=============================================================================
