---------------------------- MODULE NodeRuntime ----------------------------
(***************************************************************************)
(* The node kinds at work: one task goes through a flow, a scheduler runs  *)
(* one step after the other (RunOnce: read the row, run the node, write    *)
(* the status, write the progress), dies now and then, and                 *)
(* /tasks/signal requests read and write the row in between.               *)
(*                                                                         *)
(* The lease is abstracted as in PullQueue: one scheduler holds the task   *)
(* at a time, and none of its writes is dropped (SchedulerProofs has       *)
(* both, for steps shorter than the lease).                                *)
(***************************************************************************)
EXTENDS WaitNodes, BranchNodes

CONSTANTS
  MaxFaults,  \* bound: crashes in a behaviour
  MaxSignals  \* bound: signal requests in a behaviour

ASSUME NodeRuntimeAssumption == MaxFaults \in Nat /\ MaxSignals \in Nat

VARIABLES
  request,  \* the signal request under way: its key, value and copy of the row
  signals,  \* requests made so far
  faults,
  races,    \* history: whether a signal request wrote over a newer row
  here,     \* history: how long the cursor has been where it is
  posted,   \* history: the signals written, as pairs of node and value
  reported  \* history: [Node -> [Branch -> what a worker reported for it last]]

taskVars == <<task, pc, my, plan>>
history == <<here, posted, reported>>
vars == <<flow, taskVars, branchVars, request, signals, faults, races, history>>

NoRequest == [key |-> NoNode, value |-> "none", curr |-> NoNode, shared |-> NoShared]
NoPlan == [status |-> "pending", next |-> NoNode, shared |-> NoShared]
Nothing == [curr |-> NoNode, shared |-> NoShared]

Init ==
  /\ flow \in Flow
  /\ task = [status |-> "pending", curr |-> flow.start, shared |-> NoShared]
  /\ pc = "free" /\ my = Nothing /\ plan = NoPlan
  /\ BranchInit
  /\ request = NoRequest /\ signals = 0 /\ faults = 0 /\ races = FALSE
  /\ here = 0 /\ posted = {} /\ reported = [n \in Node |-> [b \in Branch |-> "none"]]

-----------------------------------------------------------------------------
(* The loop of the scheduler. *)

\* LeaseNextTask
Lease ==
  /\ pc = "free" /\ task.status \in {"pending", "running"}
  /\ task' = [task EXCEPT !.status = "running"]
  /\ pc' = "read"
  /\ UNCHANGED <<flow, my, plan, branchVars, request, signals, faults, races, history>>

\* RunOnce: the row as it is now.
Read ==
  /\ pc = "read"
  /\ my' = [curr |-> task.curr, shared |-> task.shared]
  /\ pc' = "decide"
  /\ UNCHANGED <<flow, task, plan, branchVars, request, signals, faults, races, history>>

\* A task taken up again after its end has no node: it executes the zero value
\* of one, whatever that comes to.
RunNoNode ==
  /\ pc = "decide" /\ my.curr = NoNode
  /\ \E ok \in BOOLEAN : Finish("default", ok, my.shared)

Wait ==
  /\ RunWaiting \/ RunNoNode
  /\ UNCHANGED <<flow, task, my, branchVars, request, signals, faults, races, history>>

Work ==
  /\ RunBranches
  /\ UNCHANGED <<flow, task, request, signals, faults, races, history>>

WriteStatus ==
  /\ pc = "status"
  /\ task' = [task EXCEPT !.status = plan.status]
  /\ pc' = "progress"
  /\ UNCHANGED <<flow, my, plan, branchVars, request, signals, faults, races, history>>

\* The whole shared state goes back, with what the step did not touch as well.
WriteCursorOnly ==  \* mutant: the shared state is not written
  /\ pc = "progress"
  /\ task' = [task EXCEPT !.curr = plan.next]
  /\ pc' = "check"
  /\ here' = IF plan.next = task.curr THEN here ELSE 0
  /\ execs' = IF plan.next = task.curr THEN execs ELSE [b \in Branch |-> 0]
  /\ UNCHANGED <<flow, my, plan, go, batch, last, jobs, request, signals, faults,
                 races, posted, reported>>
WriteProgress ==
  /\ pc = "progress"
  /\ task' = [task EXCEPT !.curr = plan.next, !.shared = plan.shared]
  /\ pc' = "check"
  /\ here' = IF plan.next = task.curr THEN here ELSE 0
  /\ execs' = IF plan.next = task.curr THEN execs ELSE [b \in Branch |-> 0]
  /\ UNCHANGED <<flow, my, plan, go, batch, last, jobs, request, signals, faults,
                 races, posted, reported>>

Forget == my' = Nothing /\ plan' = NoPlan /\ go' = NothingGoing /\ batch' = EmptyBatch

\* The loop's exit test.
Check ==
  /\ pc = "check"
  /\ pc' = IF task.status \in {"completed", "failed", "waiting_queue"}
              \/ task.curr = NoNode
           THEN "free" ELSE "read"
  /\ Forget
  /\ UNCHANGED <<flow, task, last, jobs, execs, request, signals, faults, races, history>>

\* Whatever the step had in memory is gone; the task can be leased again once
\* the lease has run out.
Crash ==
  /\ pc # "free" /\ faults < MaxFaults
  /\ pc' = "free" /\ faults' = faults + 1
  /\ Forget
  /\ UNCHANGED <<flow, task, last, jobs, execs, request, signals, races, history>>

-----------------------------------------------------------------------------
(* What comes from outside. *)

\* handleTaskSignal reads the row ...
SignalRead ==
  /\ request = NoRequest /\ signals < MaxSignals /\ signals' = signals + 1
  /\ \E n \in Node, v \in Signal \ {"none"} :
       /\ Def(n).kind \in {"wait_event", "approval"}
       /\ request' = [key |-> n, value |-> v, curr |-> task.curr, shared |-> task.shared]
  /\ UNCHANGED <<flow, taskVars, branchVars, faults, races, history>>

\* ... and writes cursor and shared state back, owned by nobody.
SignalWrite ==
  /\ request # NoRequest /\ request' = NoRequest
  /\ task' = [task EXCEPT !.curr = request.curr,
                          !.shared = [request.shared EXCEPT !.sig[request.key] =
                                                              request.value]]
  /\ races' = (races \/ task.curr # request.curr \/ task.shared # request.shared)
  /\ posted' = posted \cup {<<request.key, request.value>>}
  /\ here' = IF request.curr = task.curr THEN here ELSE 0
  /\ UNCHANGED <<flow, pc, my, plan, branchVars, signals, faults, reported>>

WorkerReport ==
  /\ \E job \in jobs, out \in {"ok", "error"} :
       /\ Report(job, out)
       /\ reported' = [reported EXCEPT ![job.node][job.of] = out]
  /\ UNCHANGED <<flow, request, signals, faults, races, here, posted>>

\* A unit of time.
Tick ==
  /\ here' = Older(here)
  /\ task' = [task EXCEPT !.shared = Aged(@)]
  /\ my' = [my EXCEPT !.shared = Aged(@)]
  /\ plan' = [plan EXCEPT !.shared = Aged(@)]
  /\ request' = [request EXCEPT !.shared = Aged(@)]
  /\ UNCHANGED <<flow, pc, branchVars, signals, faults, races, posted, reported>>

-----------------------------------------------------------------------------
Step == Lease \/ Read \/ Wait \/ Work \/ WriteStatus \/ WriteProgress \/ Check

Next == Step \/ Crash \/ SignalRead \/ SignalWrite \/ WorkerReport \/ Tick

Spec == Init /\ [][Next]_vars

\* A scheduler that is up steps on, a request that was read is written, time
\* passes.  Nobody need ever post a signal, and no worker need report.
FairSpec == Spec /\ WF_vars(Step) /\ WF_vars(SignalWrite) /\ WF_vars(Tick)

-----------------------------------------------------------------------------
(* Properties. *)

Row == [status : Status, curr : Cursor, shared : Shared]

TypeOK ==
  /\ flow \in Flow /\ task \in Row
  /\ pc \in {"free", "read", "decide", "branches", "status", "progress", "check"}
  /\ my \in [curr : Cursor, shared : Shared]
  /\ plan \in [status : Status, next : Cursor, shared : Shared]
  /\ go \in [Branch -> Going] /\ batch \in [pending : BOOLEAN, failed : BOOLEAN]
  /\ last \in [Node -> Run] /\ jobs \subseteq [node : Node, of : Branch]
  /\ execs \in [Branch -> 0 .. ExecsMax]
  /\ request \in [key : Cursor, value : Signal, curr : Cursor, shared : Shared]
  /\ signals \in 0 .. MaxSignals /\ faults \in 0 .. MaxFaults /\ races \in BOOLEAN
  /\ here \in 0 .. TimeMax /\ posted \subseteq Node \X Signal
  /\ reported \in [Node -> [Branch -> {"none", "ok", "error"}]]

\* The step's last write takes the cursor away from n.
Leaves(n) ==
  /\ pc = "progress" /\ pc' = "check"
  /\ n = my.curr /\ plan.next # n

\* A timer, or a wait_event without its signal, is not left before its time has
\* passed since the task came to it, though its start is written a step later
\* and a crash may lose it; with strategy retry only a signal ends the wait.
WaitsItsTime ==
  [][\A n \in Node :
       Leaves(n) /\ ~races =>
         /\ Def(n).kind = "timer" => here >= Def(n).wait
         /\ Def(n).kind = "wait_event" /\ plan.shared.sig[n] # "true" =>
              Def(n).wait > 0 /\ here >= Def(n).wait /\ Def(n).strategy # "retry"]_vars

\* An approval is left by the edge of a value that was posted for it, whatever
\* requests, crashes and stale writes came in between.
DecidedByPost ==
  [][\A n \in Node :
       Leaves(n) /\ Def(n).kind = "approval" =>
         \E v \in {"true", "false"} :
           /\ <<n, v>> \in posted
           /\ plan.next = Def(n).next[IF v = "true" THEN "approved" ELSE "rejected"]]_vars

\* The task has left n, or ended there: a crash can come after the status write
\* and before the cursor's.
Gone(n) == task.curr # n \/ task.status \in {"completed", "failed"}

Decisive(n, sig) == CASE Def(n).kind = "wait_event" -> sig = "true"
                      [] Def(n).kind = "approval" -> sig # "none"
                      [] OTHER -> FALSE

\* A signal that is in the row when no step has a copy of the row, and that no
\* other request is to overwrite, takes the task off the node that waits for it.
SignalledLeaves ==
  \A n \in Node :
    /\ task.curr = n /\ task.status \in {"pending", "running"}
    /\ pc \in {"free", "read", "check"}
    /\ Decisive(n, task.shared.sig[n])
    /\ request = NoRequest /\ signals = MaxSignals
    ~> Gone(n)

\* A node that needs nobody from outside: a timer, a wait_event with a timeout
\* that it does not start again, branches that are not in the queue, and no
\* unlimited retries.
EndsByItself(n) ==
  CASE Def(n).kind = "wait_event" -> Def(n).wait > 0 /\ Def(n).strategy # "retry"
    [] Def(n).kind = "parallel" -> Def(n).queue = {} /\ Def(n).branches # <<>>
    [] Def(n).kind = "foreach" -> Def(n).queue = {}
    [] Def(n).kind = "subflow" ->
         Def(n).queue = {} /\ (Def(n).strategy = "retry" => Def(n).retries > 0)
    [] OTHER -> Def(n).kind # "approval"

\* Such a node is left: the runtime state it keeps from step to step survives
\* crashes, and brings it to its end.
NodesEnd ==
  \A n \in Node :
    task.curr = n /\ EndsByItself(n) ~> Gone(n) \/ races

Allowed(n) ==
  IF Def(n).kind = "subflow" /\ Def(n).strategy = "retry"
  THEN IF Def(n).retries = 0 THEN ExecsMax ELSE Def(n).retries
  ELSE 1

\* In one visit of a node no branch is executed more often than once, or than
\* max_retries says, but for a crash that loses its result.
BranchAtMostOnce ==
  ~races /\ Branching(task.curr) =>
    \A b \in Branch : execs[b] <= Allowed(task.curr) + faults

Branches(n) == {Def(n).branches[i] : i \in DOMAIN Def(n).branches}

\* A parallel or foreach node is not left before each branch was executed in
\* that visit: what the node kept from an earlier visit does not count.  Only
\* fail_fast leaves before, and keeps.
EveryBranchRuns ==
  [][\A n \in Node :
       /\ Leaves(n) /\ ~races /\ Def(n).kind \in {"parallel", "foreach"}
       /\ Def(n).queue = {} /\ ~(Concurrent(n) /\ Def(n).strategy = "fail_fast")
       => \A b \in Branches(n) : execs[b] > 0]_vars

\* A queue branch has the outcome its worker reported.
ByReport(n, b) ==
  LET r == task.shared.rt[n]
  IN /\ r.done[b] # NoBranch => r.done[b] = b /\ reported[n][b] = "ok"
     /\ b \in r.errs => reported[n][b] = "error"

\* What comes after n: S has n's successors, and theirs, and does not have n.
LeadsTo(n, S) ==
  n \notin S /\ \A m \in S \cup {n}, a \in Action : Def(m).next[a] \in S \cup {NoNode}

\* Its only branch, started in a batch that records no pending branch.
LoneBranchOf(n, b) ==
  Branching(n) /\ Concurrent(n) /\ Def(n).branches = <<b>> /\ b \in Def(n).queue

\* It has, when it is the only branch of a concurrent node, no way leads from the
\* node back to it, and no signal request takes the cursor back to it.
LoneBranchByReport ==
  ~races =>
    \A n \in Node, b \in Branch :
      LoneBranchOf(n, b) /\ (\E S \in SUBSET Node : LeadsTo(n, S)) => ByReport(n, b)

\* The engine resumes with the reported result (README.md:91).
BranchesByReport ==
  \A n \in Node : \A b \in Def(n).queue : ByReport(n, b)

\* A signal writes a key into the shared state (README.md:111): it moves no
\* cursor, and nothing but a signal changes the value under its key.
SignalIsOneUpdate ==
  [][/\ request # NoRequest /\ request' = NoRequest => task'.curr = task.curr
     /\ \A n \in Node :
          task'.shared.sig[n] # task.shared.sig[n] => request.key = n]_vars
=============================================================================
