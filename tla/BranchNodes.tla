---------------------------- MODULE BranchNodes ----------------------------
(***************************************************************************)
(* The nodes that run more than one thing: parallel, foreach and subflow   *)
(* (parallel.go, foreach.go, subflow.go).  A step launches a batch of      *)
(* branches, waits for each of them, and writes what it has at its end.    *)
(*                                                                         *)
(* A branch is done by the engine itself or by a worker over HTTP: one     *)
(* action, with any outcome.  A queue branch goes through execQueue, which *)
(* knows its node but not its branch.  Of the node's runs it only looks at *)
(* the latest, so `last` keeps that one.  Creating a run and its job is    *)
(* one action here, and a worker's report another: PullQueue has their     *)
(* steps, and what comes between them.                                     *)
(***************************************************************************)
EXTENDS NodeTask

VARIABLES
  go,    \* [Branch -> where the branch of this step stands]
  batch, \* whether a branch of this step was pending, and whether one failed
  last,  \* [Node -> the latest run recorded for the node]
  jobs,  \* node and branch of the runs in the queue
  execs  \* history: [Branch -> times it was executed for the current visit]

branchVars == <<go, batch, last, jobs, execs>>

Run == [of : Branch \cup {NoBranch, Whole},
        out : {"none", "queued", "ok", "error"}]
NoRun == [of |-> NoBranch, out |-> "none"]

\* from: the branch whose work the result is.
Going == [at : {"idle", "launched", "listed", "ok", "error", "pending"},
          from : Branch \cup {NoBranch, Whole}]
Idle == [at |-> "idle", from |-> NoBranch]
NothingGoing == [b \in Branch |-> Idle]

EmptyBatch == [pending |-> FALSE, failed |-> FALSE]

ExecsMax == 4  \* bound: more executions are not told apart

BranchInit ==
  /\ go = NothingGoing /\ batch = EmptyBatch
  /\ last = [n \in Node |-> NoRun]
  /\ jobs = {} /\ execs = [b \in Branch |-> 0]

Branching(n) == n # NoNode /\ Def(n).kind \in {"parallel", "foreach", "subflow"}

-----------------------------------------------------------------------------
(* The batch of a step. *)

\* getRemainingServices, getRemainingItems; a subflow's nodes from sf.curr on.
RemainingNotDone(n) ==  \* mutant: failed branches are launched again
  {i \in DOMAIN Def(n).branches :
     RuntimeOf(n).done[Def(n).branches[i]] = NoBranch}
Remaining(n) ==
  {i \in DOMAIN Def(n).branches :
     LET b == Def(n).branches[i]
     IN RuntimeOf(n).done[b] = NoBranch /\ b \notin RuntimeOf(n).errs}

\* One branch, or as many as max_parallel allows (all of them if it is not
\* positive), the first ones.
Concurrent(n) == Def(n).kind # "subflow" /\ Def(n).mode = "concurrent"
BatchSize(n) == IF ~Concurrent(n) THEN 1
                ELSE IF Def(n).max = 0 THEN Cardinality(Remaining(n))
                ELSE Def(n).max
ToRun(n) ==
  {Def(n).branches[i] : i \in {i \in Remaining(n) :
     Cardinality({j \in Remaining(n) : j <= i}) <= BatchSize(n)}}

\* handleSubflowRetryDelay
Delayed(n) == Def(n).kind = "subflow" /\ Def(n).strategy = "retry"
              /\ RuntimeOf(n).again > 0

Launch ==
  LET n == my.curr
  IN /\ pc = "decide" /\ Branching(n) /\ ~Delayed(n) /\ Remaining(n) # {}
     /\ go' = [b \in Branch |-> IF b \in ToRun(n) THEN [Idle EXCEPT !.at = "launched"]
                                                  ELSE Idle]
     /\ batch' = EmptyBatch
     /\ pc' = "branches"
     /\ UNCHANGED <<my, plan, last, jobs, execs>>

Delay ==
  /\ pc = "decide" /\ Branching(my.curr) /\ Delayed(my.curr)
  /\ Stay(Kept(my.curr, RuntimeOf(my.curr)))
  /\ UNCHANGED <<my, go, batch, last, jobs, execs>>

RecordNode(n, ok) ==
  last' = [last EXCEPT ![n] = [of |-> Whole, out |-> IF ok THEN "ok" ELSE "error"]]

\* A node without branches.  handleNoServices ends no step; handleEmptyList and
\* finishSubflow end the node.
Without(kind) ==
  /\ pc = "decide" /\ Branching(my.curr) /\ Def(my.curr).kind = kind
  /\ Def(my.curr).branches = <<>>

NoServices ==
  /\ Without("parallel")
  /\ Stay(my.shared) /\ RecordNode(my.curr, FALSE)
  /\ UNCHANGED <<my, go, batch, jobs, execs>>

EmptyList ==
  /\ Without("foreach")
  /\ Finish("default", TRUE, my.shared) /\ RecordNode(my.curr, TRUE)
  /\ UNCHANGED <<my, go, batch, jobs, execs>>

EmptySubflow ==
  /\ Without("subflow")
  /\ Finish("default", TRUE, my.shared) /\ RecordNode(my.curr, TRUE)
  /\ UNCHANGED <<my, go, batch, jobs, execs>>

\* finishParallelNode, finishForeachNode
FinishBranches ==
  LET n == my.curr
      ok == RuntimeOf(n).errs = {} \/ Def(n).strategy = "continue"
  IN /\ pc = "decide" /\ Branching(n) /\ Def(n).kind # "subflow"
     /\ Def(n).branches # <<>> /\ Remaining(n) = {}
     /\ Finish("default", ok, Cleared(n))
     /\ RecordNode(n, ok)
     /\ UNCHANGED <<my, go, batch, jobs, execs>>

-----------------------------------------------------------------------------
(* A branch: execExecutor. *)

Queued(b) == b \in Def(my.curr).queue
Reach(b, at, from) == go' = [go EXCEPT ![b] = [at |-> at, from |-> from]]

ExecBranch(b) ==
  /\ pc = "branches" /\ go[b].at = "launched" /\ ~Queued(b)
  /\ \/ Reach(b, "ok", b)
     \/ Reach(b, "error", b)
  /\ execs' = [execs EXCEPT ![b] = IF @ < ExecsMax THEN @ + 1 ELSE @]
  /\ UNCHANGED <<my, pc, plan, batch, last, jobs>>

\* execQueue: the latest run of the node, whichever branch it is of.
ReadUnfinishedRun(b) ==  \* mutant: a run is taken for a result whatever its status
  LET run == last[my.curr]
  IN /\ pc = "branches" /\ go[b].at = "launched" /\ Queued(b)
     /\ Reach(b, CASE run.out = "none" -> "listed"
                   [] run.out = "error" -> "error"
                   [] OTHER -> "ok",
              run.of)
     /\ UNCHANGED <<my, pc, plan, batch, last, jobs, execs>>
ReadLastRun(b) ==
  LET run == last[my.curr]
  IN /\ pc = "branches" /\ go[b].at = "launched" /\ Queued(b)
     /\ Reach(b, CASE run.out = "none" -> "listed"
                   [] run.out = "queued" -> "pending"
                   [] OTHER -> run.out,
              run.of)
     /\ UNCHANGED <<my, pc, plan, batch, last, jobs, execs>>

EnqueueBranch(b) ==
  /\ pc = "branches" /\ go[b].at = "listed"
  /\ last' = [last EXCEPT ![my.curr] = [of |-> b, out |-> "queued"]]
  /\ jobs' = jobs \cup {[node |-> my.curr, of |-> b]}
  /\ Reach(b, "pending", NoBranch)
  /\ UNCHANGED <<my, pc, plan, batch, execs>>

\* The step takes an outcome as it comes.  A pending branch leaves no trace in a
\* concurrent batch; otherwise it is recorded, as an error.
Receive(b) ==
  LET n == my.curr
      r == RuntimeOf(n)
      at == go[b].at
  IN /\ pc = "branches" /\ at \in {"ok", "error", "pending"}
     /\ go' = [go EXCEPT ![b] = Idle]
     /\ batch' = IF at = "pending" THEN [batch EXCEPT !.pending = TRUE]
                 ELSE IF at = "error" THEN [batch EXCEPT !.failed = TRUE] ELSE batch
     /\ last' = IF at = "pending" /\ Concurrent(n) THEN last
                ELSE [last EXCEPT ![n] = [of |-> b,
                                          out |-> IF at = "ok" THEN "ok" ELSE "error"]]
     /\ my' = CASE at = "ok" -> [my EXCEPT !.shared =
                                  Kept(n, [r EXCEPT !.done[b] = go[b].from])]
                [] at = "error" /\ Def(n).kind # "subflow" ->
                     [my EXCEPT !.shared = Kept(n, [r EXCEPT !.errs = @ \cup {b}])]
                [] OTHER -> my
     /\ UNCHANGED <<pc, plan, jobs, execs>>

-----------------------------------------------------------------------------
(* The end of a batch. *)

AllIn == pc = "branches" /\ go = NothingGoing

SuspendBatch ==
  /\ AllIn /\ batch.pending
  /\ Suspend(IF Concurrent(my.curr) THEN Kept(my.curr, RuntimeOf(my.curr))
             ELSE my.shared)
  /\ UNCHANGED <<my, branchVars>>

\* handleFailFast: the task goes on or fails, and the runtime record stays.
FailFast ==
  /\ AllIn /\ ~batch.pending /\ batch.failed
  /\ Concurrent(my.curr) /\ Def(my.curr).strategy = "fail_fast"
  /\ Finish("default", FALSE, my.shared)
  /\ UNCHANGED <<my, branchVars>>

NextBatch ==
  /\ AllIn /\ ~batch.pending /\ Def(my.curr).kind # "subflow"
  /\ ~(batch.failed /\ Concurrent(my.curr) /\ Def(my.curr).strategy = "fail_fast")
  /\ Stay(my.shared)
  /\ UNCHANGED <<my, branchVars>>

\* sf.curr moves on, or the subflow ends: nothing is recorded for the end.
BranchOk == AllIn /\ ~batch.pending /\ ~batch.failed /\ Def(my.curr).kind = "subflow"

AdvanceSubflow ==
  /\ BranchOk /\ Remaining(my.curr) # {}
  /\ Stay(my.shared)
  /\ UNCHANGED <<my, branchVars>>

FinishSubflow ==
  /\ BranchOk /\ Remaining(my.curr) = {}
  /\ Finish("default", TRUE, Cleared(my.curr))
  /\ UNCHANGED <<my, branchVars>>

\* handleSubflowRetry counts the failures of all the subflow's nodes together;
\* max_retries 0 sets no limit.
Exhausted(n, tries) == Def(n).retries > 0 /\ tries >= Def(n).retries

BranchFailed ==
  AllIn /\ ~batch.pending /\ batch.failed /\ Def(my.curr).kind = "subflow"
Tries(n) == IF RuntimeOf(n).tries < TriesMax THEN RuntimeOf(n).tries + 1 ELSE TriesMax
TriesAgain(n) == Def(n).strategy = "retry" /\ ~Exhausted(n, Tries(n))

RetrySubflow ==
  LET n == my.curr
  IN /\ BranchFailed /\ TriesAgain(n)
     /\ Stay(Kept(n, [RuntimeOf(n) EXCEPT !.tries = Tries(n), !.again = Def(n).wait]))
     /\ UNCHANGED <<my, branchVars>>

FailSubflow ==
  LET n == my.curr
  IN /\ BranchFailed /\ ~TriesAgain(n)
     /\ Finish("default", Def(n).strategy = "continue", Cleared(n))
     /\ UNCHANGED <<my, branchVars>>

RunBranches ==
  \/ Launch \/ Delay \/ NoServices \/ EmptyList \/ EmptySubflow \/ FinishBranches
  \/ \E b \in Branch : ExecBranch(b) \/ ReadLastRun(b) \/ EnqueueBranch(b) \/ Receive(b)
  \/ SuspendBatch \/ FailFast \/ NextBatch
  \/ AdvanceSubflow \/ FinishSubflow \/ RetrySubflow \/ FailSubflow

\* /queue/complete: the run of the job gets its result, which execQueue sees
\* while that run is the node's latest.
Report(job, out) ==
  /\ job \in jobs /\ jobs' = jobs \ {job}
  /\ last' = IF last[job.node] = [of |-> job.of, out |-> "queued"]
             THEN [last EXCEPT ![job.node].out = out] ELSE last
  /\ task' = [task EXCEPT !.status = "pending"]
  /\ UNCHANGED <<pc, my, plan, go, batch, execs>>
=============================================================================
