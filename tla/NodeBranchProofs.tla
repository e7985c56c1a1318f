---------------------------- MODULE NodeBranchProofs ----------------------------
(***************************************************************************)
(* Theorems about the branching nodes of NodeRuntime, for any flows,       *)
(* crashes and requests: a parallel or foreach node is not left before its *)
(* branches were executed, no branch is executed too often, and a lone     *)
(* queue branch has the outcome that its worker reported.                  *)
(***************************************************************************)
EXTENDS NodeRuntimeProofs, FiniteSetTheorems

\* A runtime record has an outcome for b, and a copy of the row has one.
HasOf(r, b) == r.done[b] # NoBranch \/ b \in r.errs
Has(sh, n, b) == sh.rt[n].on /\ HasOf(sh.rt[n], b)

\* The failures of n that a copy of the row counts.
Tried(sh, n) == IF sh.rt[n].on THEN sh.rt[n].tries ELSE 0

-----------------------------------------------------------------------------
(* What the steps of branching nodes do to the outcomes of their node. *)

\* A record that is made for a node has no outcome yet.
LEMMA RuntimeHas ==
  ASSUME my.shared \in Shared, NEW n \in Node
  PROVE  /\ \A b \in Branch : HasOf(RuntimeOf(n), b) <=> Has(my.shared, n, b)
         /\ RuntimeOf(n).on /\ RuntimeOf(n).tries = Tried(my.shared, n)
<1>1. CASE my.shared.rt[n].on
  BY <1>1 DEF RuntimeOf, Has, Tried
<1>2. CASE ~my.shared.rt[n].on
  <2>1. RuntimeOf(n) = [NoRuntime EXCEPT !.on = TRUE]
    BY <1>2 DEF RuntimeOf
  <2> QED BY <1>2, <2>1 DEF NoRuntime, HasOf, Has, Tried
<1> QED BY <1>1, <1>2

LEMMA BranchesType ==
  ASSUME flow \in Flow, NEW n \in Node
  PROVE  Branches(n) \subseteq Branch
  BY DefType DEF Branches

\* When none remains, each branch has its outcome.
LEMMA NoneRemains ==
  ASSUME TypeOK, NEW n \in Node, Remaining(n) = {}
  PROVE  \A b \in Branches(n) : Has(my.shared, n, b)
<1>1. my.shared \in Shared /\ Branches(n) \subseteq Branch
  BY BranchesType DEF TypeOK
<1>2. \A b \in Branches(n) : HasOf(RuntimeOf(n), b)
  BY DEF Remaining, Branches, HasOf
<1> QED BY <1>1, <1>2, RuntimeHas

\* The end of a step leaves the outcomes as they are, or clears them; only a
\* subflow's failure counts one more.
LEMMA EndEffect ==
  ASSUME TypeOK, Structure, RunBranches, pc' = "status"
  PROVE  LET n == my.curr
         IN \/ /\ plan'.shared.rt[n] \in {my.shared.rt[n], RuntimeOf(n)}
               /\ \/ plan'.next = n
                  \/ Def(n).branches = <<>>
                  \/ Concurrent(n) /\ Def(n).strategy = "fail_fast"
            \/ /\ plan'.shared.rt[n] = NoRuntime
               /\ FinishBranches \/ Def(n).kind = "subflow"
               /\ plan'.next = FindNext(n, "default")
            \/ RetrySubflow
<1> DEFINE n == my.curr
<1>0. n \in Node /\ my.shared \in Shared /\ pc # "status"
  BY WorkAt DEF TypeOK
<1>1. /\ Kept(n, RuntimeOf(n)).rt[n] = RuntimeOf(n)
      /\ Cleared(n).rt[n] = NoRuntime
  BY <1>0, KeptEffect, ClearedEffect
<1>2. CASE Delay \/ NoServices \/ AdvanceSubflow \/ NextBatch \/ SuspendBatch
  <2>1. CASE Delay \/ SuspendBatch
    BY <1>1, <2>1 DEF Delay, SuspendBatch, Stay, Suspend, Write
  <2>2. CASE NoServices \/ AdvanceSubflow \/ NextBatch
    <3>1. Stay(my.shared)
      BY <2>2 DEF NoServices, AdvanceSubflow, NextBatch
    <3>2. plan'.next = n /\ plan'.shared = my.shared
      BY <3>1 DEF Stay, Write
    <3> QED BY <3>2
  <2> QED BY <1>2, <2>1, <2>2
<1>3. CASE EmptyList \/ EmptySubflow
  <2>1. Def(n).branches = <<>> /\ \E action, ok : Finish(action, ok, my.shared)
    BY <1>3 DEF EmptyList, EmptySubflow, Without
  <2> QED BY <2>1 DEF Finish, Write
<1>4. CASE FailFast
  BY <1>4 DEF FailFast, Finish, Write
<1>5. CASE FinishBranches
  BY <1>1, <1>5 DEF FinishBranches, Finish, Write
<1>6. CASE FinishSubflow \/ FailSubflow
  BY <1>1, <1>6 DEF FinishSubflow, FailSubflow, BranchOk, BranchFailed, Finish, Write
<1>7. CASE Launch
  BY <1>7 DEF Launch
<1>8. CASE \E b \in Branch : ExecBranch(b) \/ ReadLastRun(b) \/ EnqueueBranch(b) \/ Receive(b)
  BY <1>0, <1>8 DEF ExecBranch, ReadLastRun, EnqueueBranch, Receive
<1> QED BY <1>2, <1>3, <1>4, <1>5, <1>6, <1>7, <1>8 DEF RunBranches

\* A wait is no branching node, and leaves every outcome where it is.
LEMMA WaitHas ==
  ASSUME TypeOK, Wait
  PROVE  /\ ~Branching(my.curr)
         /\ \A m \in Node : Branching(m) =>
              /\ Tried(plan'.shared, m) = Tried(my.shared, m)
              /\ \A b : Has(plan'.shared, m, b) <=> Has(my.shared, m, b)
<1>1. ~Branching(my.curr)
  BY NodeTaskAssumption DEF Wait, RunWaiting, RunTimer, RunWaitEvent, RunApproval, RunChoice,
                            RunNoNode, At, Branching
<1>2. \A m \in Node : Branching(m) => plan'.shared.rt[m] = my.shared.rt[m]
  BY <1>1, WaitFrame
<1> QED BY <1>1, <1>2 DEF Tried, Has

\* Time changes no outcome.
LEMMA AgedHas ==
  ASSUME NEW STATE sh, sh \in Shared, NEW n \in Node
  PROVE  /\ Tried(Aged(sh), n) = Tried(sh, n)
         /\ \A b : Has(Aged(sh), n, b) <=> Has(sh, n, b)
  BY AgedEffect DEF Tried, Has, HasOf

\* A step of a branching node leaves the outcomes of every other node.
LEMMA WorkHas ==
  ASSUME TypeOK, Structure, RunBranches
  PROVE  \A m \in Node \ {my.curr} :
           /\ Tried(my'.shared, m) = Tried(my.shared, m)
           /\ \A b : Has(my'.shared, m, b) <=> Has(my.shared, m, b)
           /\ pc' = "status" =>
                /\ Tried(plan'.shared, m) = Tried(my.shared, m)
                /\ \A b : Has(plan'.shared, m, b) <=> Has(my.shared, m, b)
  BY WorkFrame DEF Tried, Has

\* Executions are only forgotten when the progress is written.
LEMMA ExecsGrow ==
  ASSUME TypeOK, [Next]_vars, ~WriteProgress
  PROVE  \A b \in Branch : execs'[b] >= execs[b]
<1>1. execs \in [Branch -> 0 .. 4]
  BY DEF TypeOK, ExecsMax
<1>2. CASE Work
  <2>1. ASSUME NEW b \in Branch, ExecBranch(b)
        PROVE  \A c \in Branch : execs'[c] >= execs[c]
    BY <1>1, <2>1 DEF ExecBranch, ExecsMax
  <2>2. CASE UNCHANGED execs
    BY <1>1, <2>2
  <2> QED
    BY <1>2, <2>1, <2>2
    DEF Work, RunBranches, Launch, Delay, NoServices, EmptyList, EmptySubflow,
        FinishBranches, ReadLastRun, EnqueueBranch, Receive, SuspendBatch, FailFast,
        NextBatch, AdvanceSubflow, FinishSubflow, RetrySubflow, FailSubflow, branchVars
<1>3. CASE ~Work
  <2>1. UNCHANGED execs
    BY <1>3 DEF Next, Step, Lease, Read, Wait, WriteStatus, Check, Crash, SignalRead,
                SignalWrite, WorkerReport, Report, Tick, vars, branchVars
  <2> QED BY <1>1, <2>1
<1> QED BY <1>2, <1>3

-----------------------------------------------------------------------------
(* A parallel or foreach node is not left before its branches were executed. *)

\* A node whose branches are not in the queue and do not fail fast.
Plain(n) ==
  /\ Def(n).kind \in {"parallel", "foreach"} /\ Def(n).queue = {}
  /\ ~(Concurrent(n) /\ Def(n).strategy = "fail_fast")

\* Of such nodes only the one at the cursor has outcomes, and of branches that
\* were executed since the task came there.
RanHere(sh, c) ==
  \A m \in Node : Plain(m) =>
    \A b \in Branches(m) : Has(sh, m, b) => m = c /\ execs[b] > 0

Ran ==
  ~races =>
    /\ RanHere(task.shared, task.curr)
    /\ InStep => RanHere(my.shared, my.curr)
    /\ pc = "branches" /\ Plain(my.curr) =>
         \A b \in Branch : go[b].at \in {"ok", "error"} => execs[b] > 0
    /\ Writing => RanHere(plan.shared, my.curr) /\ RanHere(plan.shared, plan.next)
    /\ \A n \in Node : Writing /\ my.curr = n /\ plan.next # n /\ Plain(n) =>
         \A b \in Branches(n) : execs[b] > 0

\* An outcome of a branch that is not in the queue was executed.
LEMMA ReachedRan ==
  ASSUME TypeOK, Structure, RunBranches, pc' = "branches", Plain(my.curr),
         pc = "branches" =>
           \A b \in Branch : go[b].at \in {"ok", "error"} => execs[b] > 0
  PROVE  \A b \in Branch : go'[b].at \in {"ok", "error"} => execs'[b] > 0
<1>1. go \in [Branch -> Going] /\ execs \in [Branch -> 0 .. 4] /\ my.curr \in Node
  BY WorkAt DEF TypeOK, ExecsMax
<1>2. CASE Launch
  BY <1>2 DEF Launch, Idle
<1>3. ASSUME NEW b \in Branch, ExecBranch(b)
      PROVE  \A c \in Branch : go'[c].at \in {"ok", "error"} => execs'[c] > 0
  BY <1>1, <1>3 DEF ExecBranch, Reach, ExecsMax
<1>4. ASSUME NEW b \in Branch, ReadLastRun(b) PROVE FALSE
  BY <1>4 DEF ReadLastRun, Queued, Plain
<1>5. ASSUME NEW b \in Branch, EnqueueBranch(b)
      PROVE  \A c \in Branch : go'[c].at \in {"ok", "error"} => execs'[c] > 0
  BY <1>1, <1>5 DEF EnqueueBranch, Reach
<1>6. ASSUME NEW b \in Branch, Receive(b)
      PROVE  \A c \in Branch : go'[c].at \in {"ok", "error"} => execs'[c] > 0
  BY <1>1, <1>6 DEF Receive, Idle
<1>7. pc' # "status"
  OBVIOUS
<1> QED
  BY <1>2, <1>3, <1>4, <1>5, <1>6, <1>7
  DEF RunBranches, Delay, NoServices, EmptyList, EmptySubflow, FinishBranches,
      SuspendBatch, FailFast, NextBatch, AdvanceSubflow, FinishSubflow, RetrySubflow,
      FailSubflow, Stay, Suspend, Finish, Write

\* What a step of a plain node receives was executed.
LEMMA ReceivedRan ==
  ASSUME TypeOK, Structure, RunBranches, NEW b \in Branch, Plain(my.curr),
         Has(my'.shared, my.curr, b), ~Has(my.shared, my.curr, b)
  PROVE  pc = "branches" /\ go[b].at \in {"ok", "error"} /\ execs' = execs
<1> DEFINE n == my.curr
<1>1. n \in Node /\ my.shared \in Shared
  BY WorkAt DEF TypeOK
<1>2. my' # my
  OBVIOUS
<1>3. PICK c \in Branch : Receive(c)
  BY <1>2 DEF RunBranches, Launch, Delay, NoServices, EmptyList, EmptySubflow,
              FinishBranches, ExecBranch, ReadLastRun, EnqueueBranch, SuspendBatch,
              FailFast, NextBatch, AdvanceSubflow, FinishSubflow, RetrySubflow, FailSubflow
<1>4. /\ pc = "branches" /\ go[c].at \in {"ok", "error", "pending"}
      /\ execs' = execs
  BY <1>3 DEF Receive
<1>5. /\ go[c].at = "ok" => my'.shared.rt[n] = Succeeded(n, c)
      /\ go[c].at = "error" => my'.shared.rt[n] = Erred(n, c)
      /\ go[c].at = "pending" => my' = my
  BY <1>3, ReceiveEffect DEF Plain
<1>6. RuntimeOf(n) \in Runtime /\ ~HasOf(RuntimeOf(n), b)
  BY <1>1, RuntimeType, RuntimeHas
<1>7. b # c => ~HasOf(Succeeded(n, c), b) /\ ~HasOf(Erred(n, c), b)
  BY <1>6 DEF HasOf, Succeeded, Erred, Runtime
<1> QED BY <1>2, <1>4, <1>5, <1>7 DEF Has

LEMMA RanStep ==
  ASSUME TypeOK, Structure, SameNode, SameNode', Ran, [Next]_vars
  PROVE  Ran'
<1> SUFFICES ASSUME ~races'
             PROVE  /\ RanHere(task.shared, task.curr)'
                    /\ InStep' => RanHere(my.shared, my.curr)'
                    /\ pc' = "branches" /\ Plain(my.curr)' =>
                         \A b \in Branch : go'[b].at \in {"ok", "error"} => execs'[b] > 0
                    /\ Writing' => /\ RanHere(plan.shared, my.curr)'
                                   /\ RanHere(plan.shared, plan.next)'
                    /\ \A n \in Node :
                         Writing' /\ my'.curr = n /\ plan'.next # n /\ Plain(n)' =>
                           \A b \in Branches(n)' : execs'[b] > 0
  BY DEF Ran
<1>0. /\ ~races /\ flow' = flow
      /\ task \in Row /\ my \in [curr : Cursor, shared : Shared] /\ plan \in PlanType
      /\ execs \in [Branch -> 0 .. 4]
      /\ \A m \in Node : Branches(m) \subseteq Branch
  BY RacesLast, Constancy, BranchesType DEF TypeOK, PlanType, ExecsMax
<1>r. /\ RanHere(task.shared, task.curr)
      /\ InStep => my.curr = task.curr /\ RanHere(my.shared, my.curr)
      /\ pc = "branches" /\ Plain(my.curr) =>
           \A b \in Branch : go[b].at \in {"ok", "error"} => execs[b] > 0
      /\ Writing => RanHere(plan.shared, my.curr) /\ RanHere(plan.shared, plan.next)
      /\ \A n \in Node : Writing /\ my.curr = n /\ plan.next # n /\ Plain(n) =>
           \A b \in Branches(n) : execs[b] > 0
  BY <1>0 DEF Ran, SameNode
<1>d. \A n : Def(n)' = Def(n) /\ Plain(n)' = Plain(n) /\ Branches(n)' = Branches(n)
  BY <1>0 DEF Def, Plain, Branches, Concurrent
<1>p. \A n : Plain(n) => Def(n).kind \in {"parallel", "foreach"}
  BY DEF Plain
<1> DEFINE After(sh, c) == \A m \in Node : Plain(m) =>
                             \A b \in Branches(m) : Has(sh, m, b) => m = c /\ execs'[b] > 0
<1>e. /\ After(task'.shared, task'.curr) => RanHere(task.shared, task.curr)'
      /\ After(my'.shared, my'.curr) => RanHere(my.shared, my.curr)'
      /\ After(plan'.shared, my'.curr) => RanHere(plan.shared, my.curr)'
      /\ After(plan'.shared, plan'.next) => RanHere(plan.shared, plan.next)'
  BY <1>d DEF RanHere, Has
\* A step that takes no progress back leaves what was executed.
<1>g. ~WriteProgress => \A b \in Branch : execs[b] > 0 => execs'[b] > 0
  <2>1. ~WriteProgress => \A b \in Branch : execs'[b] >= execs[b]
    BY ExecsGrow
  <2>2. execs' \in [Branch -> 0 .. 4]
    BY TypeStep DEF TypeOK, ExecsMax
  <2> QED BY <1>0, <2>1, <2>2
<1>k. ASSUME NEW STATE sh, NEW c, RanHere(sh, c), ~WriteProgress PROVE After(sh, c)
  BY <1>0, <1>g, <1>k DEF RanHere
<1>t. ASSUME NEW STATE sh, NEW c, RanHere(sh, c), sh \in Shared, Tick
      PROVE  After(Aged(sh), c)
  <2>1. After(sh, c)
    BY <1>k, <1>t DEF Tick, WriteProgress
  <2> QED BY <1>t, <2>1, AgedHas
<1>1. RanHere(task.shared, task.curr)'
  <2>1. CASE WriteProgress
    <3>1. /\ task'.curr = plan.next /\ task'.shared = plan.shared /\ Writing
          /\ plan.next = task.curr => execs' = execs
          /\ my.curr = task.curr
      BY <1>0, <1>r, <2>1 DEF WriteProgress, Row, Writing, InStep
    <3>2. After(plan.shared, plan.next)
      BY <1>r, <3>1 DEF RanHere
    <3> QED BY <1>e, <3>1, <3>2
  <2>2. CASE SignalWrite
    <3>1. After(task.shared, task.curr) /\ ~WriteProgress
      BY <1>r, <1>k, <2>2 DEF SignalWrite, WriteProgress, taskVars
    <3>2. After(task'.shared, task'.curr)
      BY <2>2, <3>1, SignalIsQuiet DEF Has
    <3> QED BY <1>e, <3>2
  <2>3. CASE Tick
    <3>1. task'.curr = task.curr /\ task'.shared = Aged(task.shared) /\ task.shared \in Shared
      BY <1>0, <2>3 DEF Tick, Row
    <3>2. After(Aged(task.shared), task.curr)
      BY <1>r, <1>t, <2>3, <3>1
    <3> QED BY <1>e, <3>1, <3>2
  <2>4. CASE ~(WriteProgress \/ SignalWrite \/ Tick)
    <3>1. task'.curr = task.curr /\ task'.shared = task.shared
      BY <1>0, <2>4 DEF Next, Step, Lease, Read, Wait, Work, WriteStatus, Check, Crash,
                        SignalRead, WorkerReport, Report, vars, taskVars, Row
    <3>2. After(task.shared, task.curr)
      BY <1>r, <1>k, <2>4
    <3> QED BY <1>e, <3>1, <3>2
  <2> QED BY <2>1, <2>2, <2>3, <2>4
<1>2. ASSUME InStep' PROVE RanHere(my.shared, my.curr)'
  <2>1. CASE Read
    <3>1. After(task.shared, task.curr)
      BY <1>r, <1>k, <2>1 DEF Read, WriteProgress
    <3> QED BY <1>e, <2>1, <3>1 DEF Read
  <2>2. CASE Work
    <3>1. InStep /\ my'.curr = my.curr /\ RunBranches /\ ~WriteProgress
      BY <1>r, <2>2, WorkAt, WorkFrame DEF Work, InStep, WriteProgress
    <3>2. After(my.shared, my.curr)
      BY <1>r, <1>k, <3>1
    <3>3. ASSUME NEW b \in Branches(my.curr), my.curr \in Node, Plain(my.curr),
                 Has(my'.shared, my.curr, b)
          PROVE  execs'[b] > 0
      <4>1. CASE Has(my.shared, my.curr, b)
        BY <3>2, <3>3, <4>1
      <4>2. CASE ~Has(my.shared, my.curr, b)
        BY <1>0, <1>r, <3>1, <3>3, <4>2, ReceivedRan
      <4> QED BY <4>1, <4>2
    <3>4. After(my'.shared, my.curr)
      BY <3>1, <3>2, <3>3, WorkHas
    <3> QED BY <1>e, <3>1, <3>4
  <2>3. CASE Tick
    <3>1. /\ my'.curr = my.curr /\ my'.shared = Aged(my.shared) /\ my.shared \in Shared
          /\ InStep
      BY <1>0, <1>2, <2>3 DEF Tick, InStep
    <3>2. After(Aged(my.shared), my.curr)
      BY <1>r, <1>t, <2>3, <3>1
    <3> QED BY <1>e, <3>1, <3>2
  <2>4. ASSUME my' = my, InStep, ~WriteProgress PROVE RanHere(my.shared, my.curr)'
    BY <1>e, <1>k, <1>r, <2>4
  <2>5. CASE SignalWrite \/ SignalRead \/ WorkerReport \/ UNCHANGED vars
    BY <1>2, <2>4, <2>5 DEF SignalWrite, SignalRead, WorkerReport, Report, vars, taskVars,
                            InStep, WriteProgress
  <2>6. CASE Wait \/ WriteStatus
    BY <2>4, <2>6, WaitTypes DEF Wait, WriteStatus, InStep, WriteProgress
  <2>7. ~(Lease \/ WriteProgress \/ Check \/ Crash)
    BY <1>2 DEF Lease, WriteProgress, Check, Crash, InStep
  <2> QED BY <2>1, <2>2, <2>3, <2>5, <2>6, <2>7 DEF Next, Step
<1>3. ASSUME pc' = "branches", Plain(my.curr)'
      PROVE  \A b \in Branch : go'[b].at \in {"ok", "error"} => execs'[b] > 0
  <2>1. CASE Work
    <3>1. Plain(my.curr)
      BY <1>3, <1>d, <2>1, WorkFrame DEF Work, Plain, Concurrent
    <3> QED BY <1>3, <1>r, <2>1, <3>1, ReachedRan DEF Work
  <2>2. CASE pc = "branches" /\ my'.curr = my.curr /\ go' = go /\ execs' = execs
    <3>1. Plain(my.curr)
      BY <1>0, <1>3, <2>2 DEF Plain, Concurrent, Def
    <3> QED BY <1>r, <2>2, <3>1
  <2>3. CASE SignalRead \/ SignalWrite \/ UNCHANGED vars
    BY <1>3, <2>2, <2>3 DEF SignalRead, SignalWrite, vars, taskVars, branchVars
  <2>4. CASE WorkerReport \/ Tick
    BY <1>0, <1>3, <2>2, <2>4 DEF WorkerReport, Report, Tick, branchVars
  <2>5. ~(Lease \/ Read \/ Wait \/ WriteStatus \/ WriteProgress \/ Check \/ Crash)
    BY <1>3, WaitTypes DEF Lease, Read, WriteStatus, WriteProgress, Check, Crash
  <2> QED BY <2>1, <2>3, <2>4, <2>5 DEF Next, Step
<1> DEFINE Writes == /\ RanHere(plan.shared, my.curr)'
                     /\ RanHere(plan.shared, plan.next)'
                     /\ \A m \in Node : my'.curr = m /\ plan'.next # m /\ Plain(m) =>
                          \A b \in Branches(m) : execs'[b] > 0
<1>4. ASSUME Writing, my'.curr = my.curr, plan'.next = plan.next, ~WriteProgress,
             After(plan'.shared, my.curr), After(plan'.shared, plan.next)
      PROVE  Writes
  <2>1. \A m \in Node : my'.curr = m /\ plan'.next # m /\ Plain(m) =>
          \A b \in Branches(m) : execs'[b] > 0
    BY <1>0, <1>4, <1>r, <1>g
  <2> QED BY <1>e, <1>4, <2>1
<1>5. ASSUME Wait PROVE Writes
  <2>1. InStep /\ my' = my
    BY <1>5, WaitTypes DEF Wait, InStep
  <2>2. \A m \in Node : Plain(m) =>
          m # my.curr /\ \A b \in Branches(m) : ~Has(plan'.shared, m, b)
    BY <1>5, <1>p, <1>r, <2>1, WaitHas, NodeTaskAssumption DEF RanHere, Branching
  <2>3. After(plan'.shared, my'.curr) /\ After(plan'.shared, plan'.next)
    BY <2>2
  <2> QED BY <1>e, <2>1, <2>2, <2>3
<1>6. ASSUME Work, pc' = "status" PROVE Writes
  <2> DEFINE n == my.curr
  <2>1. /\ InStep /\ my' = my /\ RunBranches /\ n \in Node /\ ~WriteProgress
        /\ my.shared \in Shared
    BY <1>0, <1>6, WorkAt, WorkFrame DEF Work, InStep, WriteProgress
  <2>2. After(my.shared, n)
    BY <1>r, <1>k, <2>1
  <2>3. \A m \in Node \ {n} : Plain(m) => \A b \in Branches(m) : ~Has(plan'.shared, m, b)
    BY <1>6, <2>1, <2>2, WorkHas
  <2>4. CASE /\ plan'.shared.rt[n] \in {my.shared.rt[n], RuntimeOf(n)}
             /\ \/ plan'.next = n
                \/ Def(n).branches = <<>>
                \/ Concurrent(n) /\ Def(n).strategy = "fail_fast"
    <3>1. \A b \in Branch : Has(plan'.shared, n, b) => Has(my.shared, n, b)
      BY <2>1, <2>4, RuntimeHas DEF Has
    <3>2. Plain(n) => plan'.next = n \/ Branches(n) = {}
      BY <2>4 DEF Plain, Branches
    <3>3. \A m \in Node : Plain(m) =>
            \A b \in Branches(m) : Has(plan'.shared, m, b) =>
              m = n /\ plan'.next = n /\ execs'[b] > 0
      BY <1>0, <2>2, <2>3, <3>1, <3>2
    <3>4. After(plan'.shared, my'.curr) /\ After(plan'.shared, plan'.next)
      BY <2>1, <3>3
    <3> QED BY <1>e, <2>1, <3>2, <3>4
  <2>5. CASE plan'.shared.rt[n] = NoRuntime /\ (FinishBranches \/ Def(n).kind = "subflow")
    <3>1. \A b : ~Has(plan'.shared, n, b)
      BY <2>5 DEF Has, NoRuntime
    <3>2. After(plan'.shared, my'.curr) /\ After(plan'.shared, plan'.next)
      BY <2>3, <3>1
    <3>3. Plain(n) => Remaining(n) = {}
      BY <1>p, <2>5 DEF FinishBranches
    <3>4. Plain(n) => \A b \in Branches(n) : execs'[b] > 0
      BY <2>1, <2>2, <3>3, NoneRemains
    <3> QED BY <1>e, <2>1, <3>2, <3>4
  <2>6. CASE RetrySubflow
    <3>1. ~Plain(n)
      BY <1>p, <2>6 DEF RetrySubflow, BranchFailed
    <3>2. After(plan'.shared, my'.curr) /\ After(plan'.shared, plan'.next)
      BY <2>3, <3>1
    <3> QED BY <1>e, <2>1, <3>1, <3>2
  <2> QED BY <1>6, <2>1, <2>4, <2>5, <2>6, EndEffect
<1>7. ASSUME Writing' PROVE Writes
  <2>1. CASE Tick
    <3>1. /\ Writing /\ my'.curr = my.curr /\ plan'.next = plan.next
          /\ plan'.shared = Aged(plan.shared) /\ plan.shared \in Shared /\ ~WriteProgress
      BY <1>0, <1>7, <2>1 DEF Tick, Writing, PlanType, WriteProgress
    <3>2. After(Aged(plan.shared), my.curr) /\ After(Aged(plan.shared), plan.next)
      BY <1>r, <1>t, <2>1, <3>1
    <3> QED BY <1>4, <3>1, <3>2
  <2>2. ASSUME Writing, my'.curr = my.curr, plan' = plan, ~WriteProgress PROVE Writes
    BY <1>4, <1>k, <1>r, <2>2
  <2>3. CASE Wait \/ Work
    BY <1>5, <1>6, <1>7, <2>3, WorkFrame DEF Work, Writing
  <2>4. CASE SignalWrite \/ WriteStatus \/ SignalRead \/ WorkerReport \/ UNCHANGED vars
    BY <1>7, <2>2, <2>4
    DEF SignalWrite, WriteStatus, SignalRead, WorkerReport, Report, vars, taskVars,
        Writing, WriteProgress
  <2>5. ~(Lease \/ Read \/ WriteProgress \/ Check \/ Crash)
    BY <1>7 DEF Lease, Read, WriteProgress, Check, Crash, Writing
  <2> QED BY <2>1, <2>3, <2>4, <2>5 DEF Next, Step
<1> HIDE DEF After
<1> QED BY <1>1, <1>2, <1>3, <1>7, <1>d

\* A parallel or foreach node is left only when each branch was executed in that
\* visit, whatever crashes and requests come in between, as long as no signal
\* request writes over a newer row.
THEOREM BranchesRun == Spec => EveryBranchRuns
<1> DEFINE Left == \A n \in Node :
                     /\ Leaves(n) /\ ~races /\ Def(n).kind \in {"parallel", "foreach"}
                     /\ Def(n).queue = {} /\ ~(Concurrent(n) /\ Def(n).strategy = "fail_fast")
                     => \A b \in Branches(n) : execs[b] > 0
<1>1. Init => SameNode /\ Ran
  BY DEF Init, NoShared, NoRuntime, Nothing, NoPlan, SameNode, Ran, RanHere, Has,
         Writing, InStep
<1>2. /\ TypeOK /\ Structure /\ SameNode /\ Ran /\ [Next]_vars
      => SameNode' /\ Ran'
  BY SameNodeStep, RanStep
<1>3. Ran => Left
  BY DEF Ran, Plain, Leaves, Writing
<1>4. Spec => [][Left]_vars
  BY <1>1, <1>2, <1>3, TypesAlways, PTL DEF Spec
<1> QED BY <1>4 DEF EveryBranchRuns

-----------------------------------------------------------------------------
(* What a batch has in it. *)

\* A run that is recorded is of a branch or of the node, and so is the work that
\* an outcome stands for.
RunsKnown == \A n \in Node : last[n].out # "none" => last[n].of # NoBranch
FromKnown ==
  pc = "branches" =>
    \A b \in Branch : go[b].at \in {"ok", "error"} => go[b].from # NoBranch

\* A subflow has one branch in a batch, and the batch one outcome.
LoneBranch ==
  pc = "branches" /\ Def(my.curr).kind = "subflow" =>
    /\ \A b, c \in Branch : go[b] # Idle /\ go[c] # Idle => b = c
    /\ batch.pending \/ batch.failed => go = NothingGoing
    /\ ~(batch.pending /\ batch.failed)

Batches == RunsKnown /\ FromKnown /\ LoneBranch

\* What is launched has no outcome yet, and is one branch unless the node is
\* concurrent.
LEMMA LaunchedRemain ==
  ASSUME TypeOK, NEW n \in Node
  PROVE  /\ \A b \in ToRun(n) : b \in Branch /\ ~Has(my.shared, n, b)
         /\ ~Concurrent(n) => \A b, c \in ToRun(n) : b = c
<1>0. /\ Def(n).branches \in Seq(Branch) /\ my.shared \in Shared
      /\ Remaining(n) \subseteq DOMAIN Def(n).branches
  BY DefType DEF TypeOK, Remaining
<1>1. \A i \in Remaining(n) :
        /\ Def(n).branches[i] \in Branch
        /\ ~HasOf(RuntimeOf(n), Def(n).branches[i])
  BY <1>0 DEF Remaining, HasOf
<1>2. \A b \in ToRun(n) : b \in Branch /\ ~Has(my.shared, n, b)
  BY <1>0, <1>1, RuntimeHas DEF ToRun
<1>3. ASSUME ~Concurrent(n), NEW i \in Remaining(n), NEW j \in Remaining(n), i <= j,
             Cardinality({k \in Remaining(n) : k <= j}) <= BatchSize(n)
      PROVE  i = j
  <2> DEFINE upto == {k \in Remaining(n) : k <= j}
  <2>1. PICK l \in Nat : DOMAIN Def(n).branches = 1 .. l
    BY <1>0
  <2>2. IsFiniteSet(1 .. l)
    BY <2>1, FS_Interval
  <2>3. IsFiniteSet(upto)
    BY <1>0, <2>1, <2>2, FS_Subset
  <2>4. i \in upto /\ j \in upto
    BY <1>0, <1>3, <2>1
  <2>5. Cardinality(upto) <= 1
    BY <1>3 DEF BatchSize
  <2> HIDE DEF upto
  <2>6. Cardinality(upto) \in Nat /\ Cardinality(upto) # 0
    BY <2>3, <2>4, FS_CardinalityType, FS_EmptySet
  <2>7. Cardinality(upto) = 1
    BY <2>5, <2>6
  <2>8. PICK x : upto = {x}
    BY <2>3, <2>7, FS_Singleton
  <2> QED BY <2>4, <2>8
<1>4. ASSUME ~Concurrent(n), NEW b \in ToRun(n), NEW c \in ToRun(n) PROVE b = c
  <2>1. PICK i \in Remaining(n) :
          /\ b = Def(n).branches[i]
          /\ Cardinality({k \in Remaining(n) : k <= i}) <= BatchSize(n)
    BY <1>4 DEF ToRun
  <2>2. PICK j \in Remaining(n) :
          /\ c = Def(n).branches[j]
          /\ Cardinality({k \in Remaining(n) : k <= j}) <= BatchSize(n)
    BY <1>4 DEF ToRun
  <2>3. i \in Nat /\ j \in Nat
    BY <1>0
  <2>4. i <= j \/ j <= i
    BY <2>3
  <2>5. i = j
    BY <1>3, <1>4, <2>1, <2>2, <2>4
  <2> QED BY <2>1, <2>2, <2>5
<1> QED BY <1>2, <1>4

LEMMA RunsKnownStep ==
  ASSUME TypeOK, Structure, Batches, [Next]_vars
  PROVE  RunsKnown'
<1>0. /\ RunsKnown /\ last \in [Node -> Run] /\ Whole # NoBranch /\ NoBranch \notin Branch
      /\ jobs \subseteq [node : Node, of : Branch]
  BY NodeTaskAssumption DEF Batches, TypeOK
<1>1. CASE UNCHANGED last
  BY <1>0, <1>1 DEF RunsKnown
<1>2. ASSUME NEW n \in Node, NEW r, last' = [last EXCEPT ![n] = r], r.of # NoBranch
      PROVE  RunsKnown'
  BY <1>0, <1>2 DEF RunsKnown
<1>3. CASE WorkerReport
  <2>1. PICK job \in jobs, out \in {"ok", "error"} : Report(job, out)
    BY <1>3 DEF WorkerReport
  <2>2. job.node \in Node /\ job.of # NoBranch
    BY <1>0, <2>1
  <2>3. \/ UNCHANGED last
        \/ /\ last[job.node].of # NoBranch
           /\ last' = [last EXCEPT ![job.node].out = out]
    BY <1>0, <2>1, <2>2 DEF Report
  <2> QED BY <1>0, <1>1, <2>2, <2>3 DEF RunsKnown, Run
<1>4. CASE Work
  <2>1. my.curr \in Node
    BY <1>4, WorkAt DEF Work
  <2> DEFINE Latest(of, out) == [of |-> of, out |-> out]
  <2>l. ASSUME NEW of, NEW out, of # NoBranch,
               last' = [last EXCEPT ![my.curr] = Latest(of, out)]
        PROVE  RunsKnown'
    <3>1. Latest(of, out).of # NoBranch
      BY <2>l
    <3> HIDE DEF Latest
    <3> QED BY <1>2, <2>1, <2>l, <3>1
  <2>2. ASSUME NEW b \in Branch, EnqueueBranch(b) PROVE RunsKnown'
    BY <1>0, <2>l, <2>2 DEF EnqueueBranch
  <2>3. ASSUME NEW b \in Branch, Receive(b) PROVE RunsKnown'
    <3>1. UNCHANGED last \/ \E out : last' = [last EXCEPT ![my.curr] = Latest(b, out)]
      BY <2>3 DEF Receive
    <3> QED BY <1>0, <1>1, <2>l, <3>1
  <2>4. ASSUME NEW ok, RecordNode(my.curr, ok) PROVE RunsKnown'
    <3>1. \E out : last' = [last EXCEPT ![my.curr] = Latest(Whole, out)]
      BY <2>4 DEF RecordNode
    <3> QED BY <1>0, <2>l, <3>1
  <2> QED
    BY <1>1, <1>4, <2>2, <2>3, <2>4
    DEF Work, RunBranches, Launch, Delay, NoServices, EmptyList, EmptySubflow,
        FinishBranches, ExecBranch, ReadLastRun, SuspendBatch, FailFast,
        NextBatch, AdvanceSubflow, FinishSubflow, RetrySubflow, FailSubflow, branchVars
<1>5. CASE ~WorkerReport /\ ~Work
  BY <1>1, <1>5
  DEF Next, Step, Lease, Read, Wait, WriteStatus, WriteProgress, Check, Crash,
      SignalRead, SignalWrite, Tick, vars, branchVars
<1> QED BY <1>3, <1>4, <1>5

\* A step that is at its branches was there, or has just launched them.
LEMMA BatchFrame ==
  ASSUME TypeOK, Structure, [Next]_vars, pc' = "branches"
  PROVE  \/ RunBranches /\ Work
         \/ pc = "branches" /\ my'.curr = my.curr /\ UNCHANGED <<go, batch, flow, execs, faults>>
<1>0. my \in [curr : Cursor, shared : Shared]
  BY DEF TypeOK
<1>1. CASE Work
  BY <1>1 DEF Work
<1>2. CASE SignalRead \/ SignalWrite \/ UNCHANGED vars
  BY <1>2 DEF SignalRead, SignalWrite, vars, taskVars, branchVars
<1>3. CASE WorkerReport \/ Tick
  BY <1>0, <1>3 DEF WorkerReport, Report, Tick, branchVars
<1>4. ~(Lease \/ Read \/ Wait \/ WriteStatus \/ WriteProgress \/ Check \/ Crash)
  BY WaitTypes DEF Lease, Read, WriteStatus, WriteProgress, Check, Crash
<1> QED BY <1>1, <1>2, <1>3, <1>4 DEF Next, Step

\* The steps of a batch.
LEMMA BatchSteps ==
  ASSUME RunBranches, pc' = "branches"
  PROVE  \/ Launch
         \/ \E b \in Branch : ExecBranch(b) \/ ReadLastRun(b) \/ EnqueueBranch(b) \/ Receive(b)
  BY DEF RunBranches, Delay, NoServices, EmptyList, EmptySubflow, FinishBranches,
         SuspendBatch, FailFast, NextBatch, AdvanceSubflow, FinishSubflow, RetrySubflow,
         FailSubflow, Stay, Suspend, Finish, Write

LEMMA FromKnownStep ==
  ASSUME TypeOK, Structure, Batches, [Next]_vars
  PROVE  FromKnown'
<1> SUFFICES ASSUME pc' = "branches"
             PROVE  \A b \in Branch : go'[b].at \in {"ok", "error"} => go'[b].from # NoBranch
  BY DEF FromKnown
<1>0. /\ RunsKnown /\ FromKnown /\ go \in [Branch -> Going] /\ NoBranch \notin Branch
      /\ last \in [Node -> Run]
  BY NodeTaskAssumption DEF Batches, TypeOK
<1>1. CASE pc = "branches" /\ UNCHANGED go
  BY <1>0, <1>1 DEF FromKnown
<1>2. CASE RunBranches
  <2>0. my.curr \in Node
    BY <1>2, WorkAt
  <2>1. CASE Launch
    BY <2>1 DEF Launch, Idle
  <2>2. ASSUME NEW b \in Branch, ExecBranch(b)
        PROVE  \A c \in Branch : go'[c].at \in {"ok", "error"} => go'[c].from # NoBranch
    BY <1>0, <2>2 DEF ExecBranch, Reach, FromKnown
  <2>3. ASSUME NEW b \in Branch, ReadLastRun(b)
        PROVE  \A c \in Branch : go'[c].at \in {"ok", "error"} => go'[c].from # NoBranch
    <3> DEFINE run == last[my.curr]
               at == CASE run.out = "none" -> "listed"
                       [] run.out = "queued" -> "pending"
                       [] OTHER -> run.out
    <3>1. /\ pc = "branches" /\ go' = [go EXCEPT ![b] = [at |-> at, from |-> run.of]]
          /\ at \in {"ok", "error"} => run.of # NoBranch
      BY <1>0, <2>0, <2>3 DEF ReadLastRun, Reach, RunsKnown
    <3> HIDE DEF run, at
    <3> QED BY <1>0, <3>1 DEF FromKnown
  <2>4. ASSUME NEW b \in Branch, EnqueueBranch(b)
        PROVE  \A c \in Branch : go'[c].at \in {"ok", "error"} => go'[c].from # NoBranch
    BY <1>0, <2>4 DEF EnqueueBranch, Reach, FromKnown
  <2>5. ASSUME NEW b \in Branch, Receive(b)
        PROVE  \A c \in Branch : go'[c].at \in {"ok", "error"} => go'[c].from # NoBranch
    BY <1>0, <2>5 DEF Receive, Idle, FromKnown
  <2> QED BY <1>2, <2>1, <2>2, <2>3, <2>4, <2>5, BatchSteps
<1> QED BY <1>1, <1>2, BatchFrame

LEMMA LoneBranchStep ==
  ASSUME TypeOK, Structure, Batches, [Next]_vars
  PROVE  LoneBranch'
<1>0. LoneBranch /\ go \in [Branch -> Going] /\ batch \in [pending : BOOLEAN, failed : BOOLEAN]
  BY DEF Batches, TypeOK
<1>d. flow' = flow /\ \A n : Def(n)' = Def(n)
  BY Constancy DEF Def
<1> SUFFICES ASSUME pc' = "branches", Def(my'.curr).kind = "subflow"
             PROVE  /\ \A b, c \in Branch : go'[b] # Idle /\ go'[c] # Idle => b = c
                    /\ batch'.pending \/ batch'.failed => go' = NothingGoing
                    /\ ~(batch'.pending /\ batch'.failed)
  BY <1>d DEF LoneBranch, Def
<1>1. CASE pc = "branches" /\ my'.curr = my.curr /\ UNCHANGED <<go, batch>>
  BY <1>0, <1>1 DEF LoneBranch
<1>2. CASE RunBranches
  <2>0. my.curr \in Node /\ my'.curr = my.curr
    BY <1>2, WorkAt, WorkFrame
  <2>1. CASE Launch
    <3>1. \A b, c \in ToRun(my.curr) : b = c
      BY <2>0, LaunchedRemain DEF Concurrent
    <3>2. \A b \in Branch : go'[b] # Idle => b \in ToRun(my.curr)
      BY <2>1 DEF Launch
    <3>3. ~batch'.pending /\ ~batch'.failed
      BY <2>1 DEF Launch, EmptyBatch
    <3> QED BY <3>1, <3>2, <3>3
  <2>2. ASSUME NEW b \in Branch, ExecBranch(b) \/ ReadLastRun(b) \/ EnqueueBranch(b)
        PROVE  /\ \A c, d \in Branch : go'[c] # Idle /\ go'[d] # Idle => c = d
               /\ batch'.pending \/ batch'.failed => go' = NothingGoing
               /\ ~(batch'.pending /\ batch'.failed)
    <3>1. /\ pc = "branches" /\ go[b] # Idle /\ go # NothingGoing /\ batch' = batch
          /\ \A c \in Branch : go'[c] # Idle => go[c] # Idle
      BY <1>0, <2>2 DEF ExecBranch, ReadLastRun, EnqueueBranch, Reach, Idle, NothingGoing
    <3> QED BY <1>0, <2>0, <3>1 DEF LoneBranch
  <2>3. ASSUME NEW b \in Branch, Receive(b)
        PROVE  /\ \A c, d \in Branch : go'[c] # Idle /\ go'[d] # Idle => c = d
               /\ batch'.pending \/ batch'.failed => go' = NothingGoing
               /\ ~(batch'.pending /\ batch'.failed)
    <3>1. /\ pc = "branches" /\ go[b] # Idle /\ go # NothingGoing
          /\ go' = [go EXCEPT ![b] = Idle]
      BY <1>0, <2>3 DEF Receive, Idle, NothingGoing
    <3>2. /\ ~batch.pending /\ ~batch.failed
          /\ \A c \in Branch \ {b} : go[c] = Idle
      BY <1>0, <2>0, <3>1 DEF LoneBranch
    <3>3. go' = NothingGoing
      BY <1>0, <3>1, <3>2 DEF NothingGoing
    <3>4. ~(batch'.pending /\ batch'.failed)
      BY <1>0, <2>3, <3>2 DEF Receive
    <3>5. \A c \in Branch : go'[c] = Idle
      BY <3>3 DEF NothingGoing
    <3> QED BY <3>3, <3>4, <3>5
  <2> QED BY <1>2, <2>1, <2>2, <2>3, BatchSteps
<1> QED BY <1>1, <1>2, BatchFrame

-----------------------------------------------------------------------------
(* No branch is executed more often than its node allows. *)

\* Only a subflow with retries counts failures, and fewer than max_retries.
Retried(n) == Def(n).kind = "subflow" /\ Def(n).strategy = "retry"
TriesIn(sh) ==
  \A n \in Node : Branching(n) /\ Tried(sh, n) > 0 =>
    Retried(n) /\ (Def(n).retries > 0 => Tried(sh, n) < Def(n).retries)
TriesLeft ==
  TriesIn(task.shared) /\ TriesIn(my.shared) /\ TriesIn(plan.shared) /\ TriesIn(request.shared)

\* The branches of a step count no failure of their node ...
LEMMA OwnTried ==
  ASSUME TypeOK, Structure, RunBranches
  PROVE  Tried(my'.shared, my.curr) = Tried(my.shared, my.curr)
<1> DEFINE n == my.curr
<1>0. n \in Node /\ my.shared \in Shared /\ RuntimeOf(n) \in Runtime
  BY WorkAt, RuntimeType DEF TypeOK
<1>1. CASE my' = my
  BY <1>1
<1>2. ASSUME NEW b \in Branch, Receive(b), my' # my
      PROVE  Tried(my'.shared, n) = Tried(my.shared, n)
  <2>1. my'.shared.rt[n] = Succeeded(n, b) \/ my'.shared.rt[n] = Erred(n, b)
    BY <1>2, ReceiveEffect DEF Receive
  <2>2. /\ Succeeded(n, b).on /\ Succeeded(n, b).tries = RuntimeOf(n).tries
        /\ Erred(n, b).on /\ Erred(n, b).tries = RuntimeOf(n).tries
    BY <1>0, RuntimeHas DEF Succeeded, Erred, Runtime
  <2> QED BY <1>0, <2>1, <2>2, RuntimeHas DEF Tried
<1> QED
  BY <1>1, <1>2
  DEF RunBranches, Launch, Delay, NoServices, EmptyList, EmptySubflow,
      FinishBranches, ExecBranch, ReadLastRun, EnqueueBranch, SuspendBatch, FailFast,
      NextBatch, AdvanceSubflow, FinishSubflow, RetrySubflow, FailSubflow

\* ... but a subflow's failed step counts one, which is below max_retries.
LEMMA RetryEffect ==
  ASSUME TypeOK, Structure, TriesIn(my.shared), RetrySubflow
  PROVE  LET n == my.curr
         IN /\ plan'.next = n /\ Retried(n)
            /\ Def(n).retries > 0 => /\ Tried(plan'.shared, n) = Tried(my.shared, n) + 1
                                     /\ Tried(plan'.shared, n) < Def(n).retries
            /\ \A b \in Branch : Has(plan'.shared, n, b) <=> Has(my.shared, n, b)
<1> DEFINE n == my.curr
           r == [RuntimeOf(n) EXCEPT !.tries = Tries(n), !.again = Def(n).wait]
<1>0. /\ n \in Node /\ my.shared \in Shared /\ Branching(n) /\ RuntimeOf(n) \in Runtime
      /\ TriesMax \in Nat /\ Def(n).retries \in 0 .. TriesMax
  BY WorkAt, RuntimeType, DefType, NodeTaskAssumption DEF TypeOK, RunBranches
<1>1. plan'.next = n /\ plan'.shared = Kept(n, r) /\ TriesAgain(n) /\ Def(n).kind = "subflow"
  BY DEF RetrySubflow, BranchFailed, Stay, Write
<1>2. r.on /\ r.tries = Tries(n) /\ r.done = RuntimeOf(n).done /\ r.errs = RuntimeOf(n).errs
  BY <1>0, RuntimeHas DEF Runtime
<1> HIDE DEF r
<1>3. plan'.shared.rt[n] = r
  BY <1>0, <1>1, KeptEffect
<1>4. Tried(plan'.shared, n) = Tries(n)
  BY <1>2, <1>3 DEF Tried
<1>5. \A b \in Branch : Has(plan'.shared, n, b) <=> Has(my.shared, n, b)
  BY <1>0, <1>2, <1>3, RuntimeHas DEF Has, HasOf
<1>6. Tried(my.shared, n) \in 0 .. TriesMax /\ RuntimeOf(n).tries = Tried(my.shared, n)
  BY <1>0, RuntimeHas DEF Runtime
<1>7. Def(n).retries > 0 =>
        Tries(n) = Tried(my.shared, n) + 1 /\ Tries(n) < Def(n).retries
  <2>1. Def(n).retries > 0 => Tries(n) < Def(n).retries
    <3>1. Tries(n) \in Nat
      BY <1>0, <1>6 DEF Tries
    <3> QED BY <1>0, <1>1, <3>1 DEF TriesAgain, Exhausted
  <2>2. Tries(n) # TriesMax => Tries(n) = Tried(my.shared, n) + 1
    BY <1>6 DEF Tries
  <2>3. Def(n).retries > 0 => Tries(n) # TriesMax
    BY <1>0, <2>1
  <2> QED BY <2>1, <2>2, <2>3
<1> QED BY <1>1, <1>4, <1>5, <1>7 DEF TriesAgain, Retried

LEMMA TriesLeftStep ==
  ASSUME TypeOK, Structure, TriesLeft, [Next]_vars
  PROVE  TriesLeft'
<1>0. /\ task \in Row /\ my \in [curr : Cursor, shared : Shared] /\ plan \in PlanType
      /\ request \in [key : Cursor, value : Signal, curr : Cursor, shared : Shared]
  BY DEF TypeOK, PlanType
<1>d. \A n : Def(n)' = Def(n) /\ Branching(n)' = Branching(n) /\ Retried(n)' = Retried(n)
  BY Constancy DEF Def, Branching, Retried
<1>e. /\ TriesIn(task'.shared) => TriesIn(task.shared)'
      /\ TriesIn(my'.shared) => TriesIn(my.shared)'
      /\ TriesIn(plan'.shared) => TriesIn(plan.shared)'
      /\ TriesIn(request'.shared) => TriesIn(request.shared)'
  BY <1>d DEF TriesIn, Tried
<1>n. TriesIn(NoShared)
  BY DEF TriesIn, Tried, NoShared, NoRuntime
<1> DEFINE S == {task.shared, my.shared, plan.shared, request.shared, NoShared}
<1>s. task'.shared \in S /\ my'.shared \in S /\ plan'.shared \in S /\ request'.shared \in S
        => TriesLeft'
  BY <1>e, <1>n DEF TriesLeft
<1>1. CASE Lease \/ WriteStatus
  BY <1>0, <1>s, <1>1 DEF Lease, WriteStatus, Row
<1>2. CASE Read \/ SignalRead
  BY <1>0, <1>s, <1>2 DEF Read, SignalRead, taskVars
<1>3. CASE WriteProgress
  BY <1>0, <1>s, <1>3 DEF WriteProgress, Row
<1>4. CASE Check \/ Crash
  BY <1>s, <1>4 DEF Check, Crash, Forget, Nothing, NoPlan
<1>5. CASE WorkerReport
  BY <1>0, <1>s, <1>5 DEF WorkerReport, Report, Row
<1>6. CASE UNCHANGED vars
  BY <1>s, <1>6 DEF vars, taskVars
<1>7. CASE Wait
  <2>1. TriesIn(plan'.shared)
    BY <1>7, WaitHas DEF TriesLeft, TriesIn
  <2> QED BY <1>e, <1>7, <2>1 DEF Wait, TriesLeft
<1>8. CASE Work
  <2>0. my.curr \in Node /\ my.shared \in Shared /\ RunBranches /\ TriesIn(my.shared)
    BY <1>0, <1>8, WorkAt DEF Work, TriesLeft
  <2>1. TriesIn(my'.shared)
    BY <2>0, OwnTried, WorkHas DEF TriesIn
  <2>2. CASE UNCHANGED plan
    BY <1>e, <1>8, <2>1, <2>2 DEF Work, TriesLeft
  <2>3. CASE pc' = "status"
    <3>0. \A m \in Node \ {my.curr} : Tried(plan'.shared, m) = Tried(my.shared, m)
      BY <2>0, <2>3, WorkHas
    <3>1. ASSUME RetrySubflow PROVE TriesIn(plan'.shared)
      <4>1. /\ Retried(my.curr)
            /\ Def(my.curr).retries > 0 => Tried(plan'.shared, my.curr) < Def(my.curr).retries
        BY <2>0, <3>1, RetryEffect
      <4> QED BY <2>0, <3>0, <4>1 DEF TriesIn
    <3>2. ASSUME ~RetrySubflow PROVE TriesIn(plan'.shared)
      <4>1. Tried(plan'.shared, my.curr) \in {Tried(my.shared, my.curr), 0}
        <5>1. plan'.shared.rt[my.curr] \in
                {my.shared.rt[my.curr], RuntimeOf(my.curr), NoRuntime}
          BY <2>0, <2>3, <3>2, EndEffect
        <5>2. RuntimeOf(my.curr).on /\ RuntimeOf(my.curr).tries = Tried(my.shared, my.curr)
          BY <2>0, RuntimeHas
        <5>3. ~NoRuntime.on
          BY DEF NoRuntime
        <5> QED BY <5>1, <5>2, <5>3 DEF Tried
      <4>2. ASSUME NEW m \in Node, Tried(plan'.shared, m) > 0
            PROVE  Tried(plan'.shared, m) = Tried(my.shared, m)
        BY <3>0, <4>1, <4>2
      <4> QED BY <2>0, <4>2 DEF TriesIn
    <3>3. TriesIn(plan'.shared)
      BY <3>1, <3>2
    <3> QED BY <1>e, <1>8, <2>1, <3>3 DEF Work, TriesLeft
  <2> QED BY <2>0, <2>2, <2>3, WorkFrame
<1>9. CASE SignalWrite
  <2>1. task'.shared.rt = request.shared.rt
    BY <1>0, <1>9 DEF SignalWrite, Row, Shared
  <2>2. TriesIn(task'.shared)
    BY <2>1 DEF TriesLeft, TriesIn, Tried
  <2>3. my' = my /\ plan' = plan /\ request'.shared = NoShared
    BY <1>9 DEF SignalWrite, NoRequest
  <2> QED BY <1>e, <1>n, <2>2, <2>3 DEF TriesLeft
<1>10. CASE Tick
  <2>1. ASSUME NEW STATE sh, sh \in Shared, TriesIn(sh) PROVE TriesIn(Aged(sh))
    BY <2>1, AgedHas DEF TriesIn
  <2>2. /\ task'.shared = Aged(task.shared) /\ my'.shared = Aged(my.shared)
        /\ plan'.shared = Aged(plan.shared) /\ request'.shared = Aged(request.shared)
    BY <1>0, <1>10 DEF Tick, Row, PlanType
  <2>3. /\ TriesIn(Aged(task.shared)) /\ TriesIn(Aged(my.shared))
        /\ TriesIn(Aged(plan.shared)) /\ TriesIn(Aged(request.shared))
    BY <1>0, <2>1 DEF TriesLeft, Row, PlanType
  <2> QED BY <1>e, <2>2, <2>3 DEF TriesLeft
<1> QED
  BY <1>1, <1>2, <1>3, <1>4, <1>5, <1>6, <1>7, <1>8, <1>9, <1>10 DEF Next, Step

\* No edge of a node leads to the node itself: the visits of a node are told
\* apart by the cursor's moves.
NoSelfLoop == \A f \in Flow, n \in Node, a \in Action : f.def[n].next[a] # n

\* A node that limits how often its branches are executed.
Limited(n) == Branching(n) /\ (Retried(n) => Def(n).retries > 0)

\* b was executed once for each crash and each failure that was counted, and once
\* more if it has an outcome.
Few(b, tried, done) ==
  /\ execs[b] <= faults + tried + 1
  /\ ~done => execs[b] <= faults + tried

\* What has become of the outcome of b depends on how far the step is.
CountedAt(n, b) ==
  LET tried == Tried(task.shared, n)
  IN /\ Few(b, tried, Has(task.shared, n, b) \/ pc \in {"branches", "status", "progress"})
     /\ pc \in {"decide", "branches"} => Tried(my.shared, n) = tried
     /\ pc = "decide" => Few(b, tried, Has(my.shared, n, b))
     /\ pc = "branches" =>
          /\ Few(b, tried, \/ Has(my.shared, n, b) \/ go[b].at \in {"ok", "error"}
                           \/ Def(n).kind = "subflow" /\ batch.failed)
          /\ go[b].at \in {"launched", "listed", "pending"} => Few(b, tried, FALSE)
     /\ Writing /\ plan.next = n =>
          Few(b, Tried(plan.shared, n), Has(plan.shared, n, b))

Counted ==
  ~races =>
    \A n \in Node, b \in Branch : task.curr = n /\ Limited(n) => CountedAt(n, b)

LEMMA TriedType ==
  ASSUME NEW sh \in Shared, NEW n \in Node
  PROVE  Tried(sh, n) \in Nat
  BY NodeTaskAssumption DEF Tried, Shared, Runtime

\* A batch is at its end when no branch is under way; a subflow's failure is
\* counted then, or ends the node.
LEMMA EndOfBatch ==
  ASSUME TypeOK, Structure, Batches, RunBranches, pc = "branches", pc' = "status"
  PROVE  /\ \A b \in Branch : go[b].at = "idle"
         /\ \/ ~(Def(my.curr).kind = "subflow" /\ batch.failed)
            \/ RetrySubflow
            \/ plan'.next = FindNext(my.curr, "default")
<1>0. my.curr \in Node /\ LoneBranch
  BY WorkAt DEF Batches
<1>a. AllIn => \A b \in Branch : go[b].at = "idle"
  BY DEF AllIn, NothingGoing, Idle
<1>1. CASE SuspendBatch
  <2>1. AllIn /\ ~(Def(my.curr).kind = "subflow" /\ batch.failed)
    BY <1>0, <1>1 DEF SuspendBatch, LoneBranch
  <2> QED BY <1>a, <2>1
<1>2. CASE FailFast
  <2>1. AllIn /\ Def(my.curr).kind # "subflow"
    BY <1>2 DEF FailFast, Concurrent
  <2> QED BY <1>a, <2>1
<1>3. CASE NextBatch \/ AdvanceSubflow \/ FinishSubflow
  <2>1. AllIn /\ ~(Def(my.curr).kind = "subflow" /\ batch.failed)
    BY <1>3 DEF NextBatch, AdvanceSubflow, FinishSubflow, BranchOk
  <2> QED BY <1>a, <2>1
<1>4. CASE RetrySubflow
  <2>1. AllIn
    BY <1>4 DEF RetrySubflow, BranchFailed
  <2> QED BY <1>4, <1>a, <2>1
<1>5. CASE FailSubflow
  <2>1. AllIn /\ plan'.next = FindNext(my.curr, "default")
    BY <1>5 DEF FailSubflow, BranchFailed, Finish, Write
  <2> QED BY <1>a, <2>1
<1> QED
  BY <1>1, <1>2, <1>3, <1>4, <1>5
  DEF RunBranches, Launch, Delay, NoServices, EmptyList, EmptySubflow, FinishBranches,
      Without, ExecBranch, ReadLastRun, EnqueueBranch, Receive

\* The end of a step writes back as many outcomes and failures as it counted.
LEMMA CountedEnd ==
  ASSUME NoSelfLoop, TypeOK, Structure, Batches, TriesIn(my.shared), RunBranches,
         pc' = "status", NEW b \in Branch, Limited(my.curr), CountedAt(my.curr, b),
         plan'.next = my.curr
  PROVE  LET n == my.curr
         IN Few(b, Tried(plan'.shared, n), Has(plan'.shared, n, b))
<1> DEFINE n == my.curr
           t == Tried(task.shared, n)
<1>0. /\ n \in Node /\ my.shared \in Shared /\ task.shared \in Shared
      /\ pc \in {"decide", "branches"} /\ FindNext(n, "default") # n
  <2>1. flow \in Flow /\ n \in Node /\ n # NoNode /\ "default" \in Action
    BY WorkAt, NodeTaskAssumption DEF TypeOK, Action
  <2>2. FindNext(n, "default") # n
    BY <2>1 DEF FindNext, Def, NoSelfLoop
  <2> QED BY <2>1, <2>2, WorkAt DEF TypeOK, Row
<1>1. t \in Nat /\ execs[b] \in Nat /\ faults \in Nat /\ Tried(my.shared, n) = t
  BY <1>0, TriedType, NodeRuntimeAssumption DEF CountedAt, TypeOK, ExecsMax
<1>2. CASE RetrySubflow
  <2>1. Def(n).retries > 0 /\ Tried(plan'.shared, n) = t + 1
    BY <1>1, <1>2, RetryEffect DEF Limited
  <2>2. execs[b] <= faults + t + 1
    BY DEF CountedAt, Few
  <2> QED BY <1>1, <2>1, <2>2 DEF Few
<1>3. CASE ~RetrySubflow
  <2>1. plan'.shared.rt[n] \in {my.shared.rt[n], RuntimeOf(n)}
    BY <1>0, <1>3, EndEffect
  <2>2. Tried(plan'.shared, n) = t /\ (Has(plan'.shared, n, b) <=> Has(my.shared, n, b))
    BY <1>0, <1>1, <2>1, RuntimeHas DEF Tried, Has
  <2>3. Few(b, t, Has(my.shared, n, b))
    <3>1. CASE pc = "decide"
      BY <3>1 DEF CountedAt
    <3>2. CASE pc = "branches"
      <4>1. go[b].at = "idle" /\ ~(Def(n).kind = "subflow" /\ batch.failed)
        BY <1>0, <1>3, <3>2, EndOfBatch
      <4> QED BY <3>2, <4>1 DEF CountedAt, Few
    <3> QED BY <1>0, <3>1, <3>2
  <2> QED BY <2>2, <2>3 DEF Few
<1> QED BY <1>2, <1>3

\* A branch is launched when it has no outcome, and executed when it is launched.
LEMMA CountedBatch ==
  ASSUME TypeOK, Structure, Batches, RunBranches, pc' = "branches",
         NEW b \in Branch, CountedAt(my.curr, b), UNCHANGED <<faults, flow>>
  PROVE  LET n == my.curr
             t == Tried(task.shared, n)
         IN /\ Tried(my'.shared, n) = t
            /\ execs'[b] <= faults + t + 1
            /\ \/ Has(my'.shared, n, b) \/ go'[b].at \in {"ok", "error"}
               \/ Def(n).kind = "subflow" /\ batch'.failed
               \/ execs'[b] <= faults + t
            /\ go'[b].at \in {"launched", "listed", "pending"} => execs'[b] <= faults + t
<1> DEFINE n == my.curr
           t == Tried(task.shared, n)
           Out == /\ execs'[b] <= faults + t + 1
                  /\ \/ Has(my'.shared, n, b) \/ go'[b].at \in {"ok", "error"}
                     \/ Def(n).kind = "subflow" /\ batch'.failed
                     \/ execs'[b] <= faults + t
                  /\ go'[b].at \in {"launched", "listed", "pending"} =>
                       execs'[b] <= faults + t
<1>0. /\ n \in Node /\ my.shared \in Shared /\ task.shared \in Shared
      /\ go \in [Branch -> Going] /\ execs \in [Branch -> 0 .. 4] /\ FromKnown
      /\ batch \in [pending : BOOLEAN, failed : BOOLEAN]
  BY WorkAt DEF TypeOK, Row, ExecsMax, Batches
<1>1. t \in Nat /\ execs[b] \in Nat /\ faults \in Nat /\ Tried(my.shared, n) = t
  BY <1>0, TriedType, WorkAt, NodeRuntimeAssumption DEF CountedAt, TypeOK
<1>2. Tried(my'.shared, n) = t
  BY <1>1, OwnTried
<1>3. CASE Launch
  <2>1. pc = "decide" /\ my' = my /\ execs' = execs
    BY <1>3 DEF Launch
  <2>2. Few(b, t, Has(my.shared, n, b))
    BY <2>1 DEF CountedAt
  <2>3. go'[b].at = "idle" \/ ~Has(my.shared, n, b)
    BY <1>0, <1>3, LaunchedRemain DEF Launch, Idle
  <2>4. Out
    BY <2>1, <2>2, <2>3 DEF Few
  <2> QED BY <1>2, <2>4
<1>4. ASSUME pc = "branches" PROVE
        /\ execs[b] <= faults + t + 1
        /\ \/ Has(my.shared, n, b) \/ go[b].at \in {"ok", "error"}
           \/ Def(n).kind = "subflow" /\ batch.failed
           \/ execs[b] <= faults + t
        /\ go[b].at \in {"launched", "listed", "pending"} => execs[b] <= faults + t
  BY <1>4 DEF CountedAt, Few
<1>5. ASSUME NEW c \in Branch, ExecBranch(c) PROVE Out
  <2>1. /\ pc = "branches" /\ go[c].at = "launched" /\ my' = my /\ batch' = batch
        /\ go'[c].at \in {"ok", "error"} /\ \A d \in Branch \ {c} : go'[d] = go[d]
        /\ execs'[c] \in {execs[c], execs[c] + 1}
        /\ \A d \in Branch \ {c} : execs'[d] = execs[d]
    BY <1>0, <1>5 DEF ExecBranch, Reach
  <2>2. CASE b = c
    <3>1. execs[b] <= faults + t /\ go'[b].at \in {"ok", "error"}
          /\ execs'[b] \in {execs[b], execs[b] + 1}
      BY <1>4, <2>1, <2>2
    <3>2. execs'[b] <= faults + t + 1
      BY <1>1, <3>1
    <3> QED BY <3>1, <3>2
  <2>3. CASE b # c
    BY <1>4, <2>1, <2>3
  <2> QED BY <2>2, <2>3
<1>6. ASSUME NEW c \in Branch, ReadLastRun(c) \/ EnqueueBranch(c) PROVE Out
  <2>1. /\ pc = "branches" /\ go[c].at \in {"launched", "listed"}
        /\ my' = my /\ batch' = batch /\ execs' = execs
        /\ \A d \in Branch \ {c} : go'[d] = go[d]
    BY <1>0, <1>6 DEF ReadLastRun, EnqueueBranch, Reach
  <2>2. CASE b = c
    <3>1. execs'[b] <= faults + t
      BY <1>4, <2>1, <2>2
    <3>2. execs'[b] <= faults + t + 1
      BY <1>4, <2>1
    <3> QED BY <3>1, <3>2
  <2>3. CASE b # c
    BY <1>4, <2>1, <2>3
  <2> QED BY <2>2, <2>3
<1>7. ASSUME NEW c \in Branch, Receive(c) PROVE Out
  <2>1. /\ pc = "branches" /\ go[c].at \in {"ok", "error", "pending"} /\ execs' = execs
        /\ go'[c].at = "idle" /\ \A d \in Branch \ {c} : go'[d] = go[d]
    BY <1>0, <1>7 DEF Receive, Idle
  <2>2. batch.failed => batch'.failed
    BY <1>0, <1>7 DEF Receive
  <2>3. my' # my => my'.shared.rt[n] = Succeeded(n, c) \/ my'.shared.rt[n] = Erred(n, c)
    BY <1>7, <2>1, ReceiveEffect
  <2>4. RuntimeOf(n) \in Runtime
    BY <1>0, RuntimeType
  <2>5. CASE b # c
    <3>1. Has(my.shared, n, b) => Has(my'.shared, n, b)
      <4>1. Succeeded(n, c).on /\ Erred(n, c).on
        BY <1>0, <2>4, RuntimeHas DEF Succeeded, Erred, Runtime
      <4>2. HasOf(RuntimeOf(n), b) => HasOf(Succeeded(n, c), b) /\ HasOf(Erred(n, c), b)
        BY <2>4, <2>5 DEF Succeeded, Erred, Runtime, HasOf
      <4> QED BY <1>0, <2>3, <4>1, <4>2, RuntimeHas DEF Has
    <3> QED BY <1>4, <2>1, <2>2, <2>5, <3>1
  <2>6. CASE b = c /\ go[c].at = "pending"
    BY <1>4, <2>1, <2>6
  <2>7. CASE b = c /\ go[c].at = "ok"
    <3>1. my'.shared.rt[n] = Succeeded(n, b) /\ go[b].from # NoBranch
      BY <1>0, <1>7, <2>1, <2>7, ReceiveEffect DEF FromKnown
    <3>2. Succeeded(n, b).on /\ Succeeded(n, b).done[b] = go[b].from
      BY <1>0, <2>4, RuntimeHas DEF Succeeded, Runtime
    <3>3. Has(my'.shared, n, b)
      BY <3>1, <3>2 DEF Has, HasOf
    <3> QED BY <1>4, <2>1, <2>7, <3>3
  <2>8. CASE b = c /\ go[c].at = "error" /\ Def(n).kind # "subflow"
    <3>1. my'.shared.rt[n] = Erred(n, b)
      BY <1>7, <2>8, ReceiveEffect
    <3>2. Erred(n, b).on /\ b \in Erred(n, b).errs
      BY <1>0, <2>4, RuntimeHas DEF Erred, Runtime
    <3>3. Has(my'.shared, n, b)
      BY <3>1, <3>2 DEF Has, HasOf
    <3> QED BY <1>4, <2>1, <2>8, <3>3
  <2>9. CASE b = c /\ go[c].at = "error" /\ Def(n).kind = "subflow"
    <3>1. batch'.failed
      BY <1>0, <1>7, <2>9 DEF Receive
    <3> QED BY <1>4, <2>1, <2>9, <3>1
  <2> QED BY <2>1, <2>5, <2>6, <2>7, <2>8, <2>9
<1> HIDE DEF Out
<1>8. Launch \/ Out
  BY <1>5, <1>6, <1>7, BatchSteps
<1> QED BY <1>2, <1>3, <1>8 DEF Out

LEMMA CountedStep ==
  ASSUME NoSelfLoop, TypeOK, Structure, Batches, TriesLeft, SameNode, Counted, [Next]_vars
  PROVE  Counted'
<1>0. /\ task \in Row /\ my \in [curr : Cursor, shared : Shared] /\ plan \in PlanType
      /\ execs \in [Branch -> 0 .. 4] /\ faults \in Nat /\ TriesIn(my.shared)
  BY NodeRuntimeAssumption DEF TypeOK, PlanType, ExecsMax, TriesLeft
<1>d. flow' = flow /\ \A m : Def(m)' = Def(m) /\ Branching(m)' = Branching(m)
                             /\ Limited(m)' = Limited(m)
  BY Constancy DEF Def, Branching, Limited, Retried
<1> SUFFICES ASSUME ~races', NEW n \in Node, NEW b \in Branch, task'.curr = n, Limited(n)
             PROVE  CountedAt(n, b)'
  BY <1>d DEF Counted
<1> DEFINE FewThen(t, done) == /\ execs'[b] <= faults' + t + 1
                               /\ ~done => execs'[b] <= faults' + t
           t == Tried(task'.shared, n)
           Goal == /\ FewThen(t, \/ Has(task'.shared, n, b)
                                 \/ pc' \in {"branches", "status", "progress"})
                   /\ pc' \in {"decide", "branches"} => Tried(my'.shared, n) = t
                   /\ pc' = "decide" => FewThen(t, Has(my'.shared, n, b))
                   /\ pc' = "branches" =>
                        /\ FewThen(t, \/ Has(my'.shared, n, b) \/ go'[b].at \in {"ok", "error"}
                                      \/ Def(n).kind = "subflow" /\ batch'.failed)
                        /\ go'[b].at \in {"launched", "listed", "pending"} => FewThen(t, FALSE)
                   /\ Writing' /\ plan'.next = n =>
                        FewThen(Tried(plan'.shared, n), Has(plan'.shared, n, b))
<1>e. Goal => CountedAt(n, b)'
  BY <1>d DEF CountedAt, Few, Tried, Has, HasOf
<1>r. ~races /\ Branching(n)
  BY RacesLast DEF Limited
<1>c. task.curr = n => CountedAt(n, b)
  BY <1>r DEF Counted
\* Steps that leave the copies and the batch as they are.
<1> DEFINE Kin(sh, then) == /\ Tried(then, n) = Tried(sh, n)
                            /\ Has(then, n, b) <=> Has(sh, n, b)
           SameCount == /\ execs' = execs /\ faults' = faults /\ task.curr = n
                        /\ Kin(task.shared, task'.shared)
           SameBatch == /\ Kin(my.shared, my'.shared) /\ Kin(plan.shared, plan'.shared)
                        /\ plan'.next = plan.next /\ go' = go /\ batch' = batch
<1>1. ASSUME SameCount, SameBatch,
             \/ pc' = pc
             \/ pc = "free" /\ pc' = "read"
             \/ pc = "status" /\ pc' = "progress"
      PROVE  Goal
  BY <1>1, <1>c DEF CountedAt, Few, Writing
<1>2. CASE Lease \/ WriteStatus
  <2>1. /\ task'.shared = task.shared /\ task'.curr = task.curr
        /\ UNCHANGED <<my, plan, go, batch, execs, faults>>
        /\ \/ pc = "free" /\ pc' = "read"
           \/ pc = "status" /\ pc' = "progress"
    BY <1>0, <1>2 DEF Lease, WriteStatus, branchVars, Row
  <2> QED BY <1>1, <1>e, <2>1
<1>3. CASE SignalRead \/ WorkerReport \/ UNCHANGED vars
  <2>1. /\ task'.shared = task.shared /\ task'.curr = task.curr
        /\ UNCHANGED <<my, plan, go, batch, execs, faults, pc>>
    BY <1>0, <1>3 DEF SignalRead, WorkerReport, Report, vars, taskVars, branchVars, Row
  <2> QED BY <1>1, <1>e, <2>1
<1>4. CASE SignalWrite
  <2>1. /\ task'.shared.rt = task.shared.rt /\ task'.curr = task.curr
        /\ UNCHANGED <<my, plan, go, batch, execs, faults, pc>>
    BY <1>4, SignalIsQuiet DEF SignalWrite, branchVars
  <2>2. Kin(task.shared, task'.shared)
    BY <2>1 DEF Tried, Has
  <2> QED BY <1>1, <1>e, <2>1, <2>2
<1>5. CASE Tick
  <2>1. /\ task'.shared = Aged(task.shared) /\ my'.shared = Aged(my.shared)
        /\ plan'.shared = Aged(plan.shared) /\ task'.curr = task.curr
        /\ plan'.next = plan.next /\ UNCHANGED <<go, batch, execs, faults, pc>>
    BY <1>0, <1>5 DEF Tick, Row, PlanType, branchVars
  <2>2. /\ Kin(task.shared, Aged(task.shared)) /\ Kin(my.shared, Aged(my.shared))
        /\ Kin(plan.shared, Aged(plan.shared))
    BY <1>0, AgedHas DEF Row, PlanType
  <2> QED BY <1>1, <1>e, <2>1, <2>2
<1>6. CASE Read
  <2>1. /\ pc = "read" /\ pc' = "decide" /\ task' = task /\ my'.shared = task.shared
        /\ UNCHANGED <<execs, faults>>
    BY <1>6 DEF Read, branchVars
  <2>2. Goal
    BY <1>c, <2>1 DEF CountedAt, Few, Writing
  <2> QED BY <1>e, <2>2
<1>7. CASE Check
  <2>1. /\ pc = "check" /\ pc' \in {"free", "read"} /\ task' = task
        /\ UNCHANGED <<execs, faults>>
    BY <1>7 DEF Check
  <2>2. Goal
    BY <1>c, <2>1 DEF CountedAt, Few, Writing
  <2> QED BY <1>e, <2>2
<1>8. CASE Crash
  <2>1. /\ pc' = "free" /\ task' = task /\ execs' = execs /\ faults' = faults + 1
    BY <1>8 DEF Crash
  <2>2. execs[b] <= faults + t + 1
    BY <1>c, <2>1 DEF CountedAt, Few
  <2>3. t \in Nat
    BY <1>0, <2>1, TriedType DEF Row
  <2>4. execs'[b] <= faults' + t /\ execs'[b] <= faults' + t + 1
    BY <1>0, <2>1, <2>2, <2>3
  <2>5. Goal
    BY <2>1, <2>4 DEF Writing
  <2> QED BY <1>e, <2>5
<1>9. CASE WriteProgress
  <2>1. /\ pc = "progress" /\ pc' = "check" /\ task'.shared = plan.shared /\ plan.next = n
        /\ execs' = IF plan.next = task.curr THEN execs ELSE [c \in Branch |-> 0]
        /\ faults' = faults
    BY <1>0, <1>9 DEF WriteProgress, Row
  <2>2. CASE task.curr = n
    <3>1. Few(b, Tried(plan.shared, n), Has(plan.shared, n, b))
      BY <1>c, <2>1, <2>2 DEF CountedAt, Writing
    <3>2. Goal
      BY <2>1, <2>2, <3>1 DEF Few, Writing
    <3> QED BY <1>e, <3>2
  <2>3. CASE task.curr # n
    <3>1. execs'[b] = 0 /\ t \in Nat
      BY <1>0, <2>1, <2>3, TriedType DEF PlanType
    <3>2. execs'[b] <= faults' + t /\ execs'[b] <= faults' + t + 1
      BY <1>0, <2>1, <3>1
    <3>3. Goal
      BY <2>1, <3>2 DEF Writing
    <3> QED BY <1>e, <3>3
  <2> QED BY <2>2, <2>3
<1>10. CASE Wait
  <2>1. task.curr = n /\ my.curr = n
    BY <1>r, <1>10, WaitTypes DEF Wait, SameNode, InStep
  <2> QED BY <1>r, <1>10, <2>1, WaitHas
<1>11. CASE Work
  <2>1. /\ my.curr = n /\ task' = task /\ RunBranches /\ UNCHANGED <<faults, flow>>
        /\ CountedAt(n, b)
    <3>1. pc \in {"decide", "branches"} /\ task' = task /\ RunBranches /\ task.curr = n
      BY <1>11, WorkAt DEF Work
    <3> QED BY <1>c, <1>r, <1>11, <3>1 DEF Work, SameNode, InStep
  <2>2. CASE pc' = "branches"
    <3>1. Goal
      BY <2>1, <2>2, CountedBatch DEF Writing
    <3> QED BY <1>e, <3>1
  <2>3. CASE pc' = "status"
    <3>1. execs' = execs /\ t = Tried(task.shared, n)
      <4>1. execs' = execs
        BY <2>1, <2>3 DEF RunBranches, Launch, Delay, NoServices, EmptyList, EmptySubflow,
             FinishBranches, ExecBranch, ReadLastRun, EnqueueBranch, Receive, SuspendBatch,
             FailFast, NextBatch, AdvanceSubflow, FinishSubflow, RetrySubflow, FailSubflow,
             branchVars
      <4> QED BY <2>1, <4>1
    <3>2. execs[b] <= faults + t + 1
      BY <2>1, <3>1 DEF CountedAt, Few
    <3>3. plan'.next = n => Few(b, Tried(plan'.shared, n), Has(plan'.shared, n, b))
      BY <1>0, <2>1, <2>3, CountedEnd
    <3>4. Goal
      BY <2>1, <2>3, <3>1, <3>2, <3>3 DEF Few, Writing
    <3> QED BY <1>e, <3>4
  <2> QED BY <2>1, <2>2, <2>3, WorkFrame
<1> QED
  BY <1>2, <1>3, <1>4, <1>5, <1>6, <1>7, <1>8, <1>9, <1>10, <1>11 DEF Next, Step

\* In one visit of a node no branch is executed more often than once, or than
\* max_retries says, but for the crashes that lose a result, as long as no signal
\* request writes over a newer row.
THEOREM BranchesOnce ==
  ASSUME NoSelfLoop
  PROVE  Spec => []BranchAtMostOnce
<1>1. Init => SameNode /\ Batches /\ TriesLeft /\ Counted
  <2> SUFFICES ASSUME Init PROVE SameNode /\ Batches /\ TriesLeft /\ Counted
    OBVIOUS
  <2>1. SameNode /\ Batches
    BY DEF Init, BranchInit, NoRun, SameNode, InStep, Batches, RunsKnown, FromKnown, LoneBranch
  <2>2. TriesLeft
    BY DEF Init, Nothing, NoPlan, NoRequest, NoShared, NoRuntime, TriesLeft, TriesIn, Tried
  <2>3. \A n \in Node, b \in Branch : CountedAt(n, b)
    BY DEF Init, BranchInit, NoShared, NoRuntime, CountedAt, Few, Tried, Writing
  <2> QED BY <2>1, <2>2, <2>3 DEF Counted
<1>2. /\ TypeOK /\ Structure /\ SameNode /\ Batches /\ TriesLeft /\ Counted /\ [Next]_vars
      => SameNode' /\ Batches' /\ TriesLeft' /\ Counted'
  BY SameNodeStep, RunsKnownStep, FromKnownStep, LoneBranchStep, TriesLeftStep, CountedStep
  DEF Batches
<1>3. TypeOK /\ TriesLeft /\ Counted => BranchAtMostOnce
  <2> SUFFICES ASSUME TypeOK, TriesLeft, Counted, ~races, Branching(task.curr),
                      NEW b \in Branch
               PROVE  execs[b] <= Allowed(task.curr) + faults
    BY DEF BranchAtMostOnce
  <2> DEFINE n == task.curr
             t == Tried(task.shared, n)
  <2>1. /\ n \in Node /\ task.shared \in Shared /\ execs[b] \in 0 .. 4 /\ faults \in Nat
        /\ Def(n).retries \in Nat
    BY DefType, NodeTaskAssumption, NodeRuntimeAssumption
    DEF TypeOK, Row, Cursor, Branching, ExecsMax
  <2>2. t \in Nat /\ TriesIn(task.shared)
    BY <2>1, TriedType DEF TriesLeft
  <2>3. CASE Limited(n)
    <3>1. execs[b] <= faults + t + 1
      BY <2>1, <2>3 DEF Counted, CountedAt, Few
    <3>2. CASE Retried(n)
      <4>1. Def(n).retries > 0 /\ Allowed(n) = Def(n).retries
        BY <2>1, <2>3, <3>2 DEF Limited, Allowed, Retried
      <4>2. t < Def(n).retries
        BY <2>1, <2>2, <4>1 DEF TriesIn
      <4> QED BY <2>1, <2>2, <3>1, <4>1, <4>2
    <3>3. CASE ~Retried(n)
      <4>1. t = 0 /\ Allowed(n) = 1
        BY <2>1, <2>2, <3>3 DEF TriesIn, Allowed, Retried
      <4> QED BY <2>1, <3>1, <4>1
    <3> QED BY <3>2, <3>3
  <2>4. CASE ~Limited(n)
    <3>1. Allowed(n) = 4
      BY <2>1, <2>4 DEF Limited, Allowed, Retried, ExecsMax
    <3> QED BY <2>1, <3>1
  <2> QED BY <2>3, <2>4
<1> QED BY <1>1, <1>2, <1>3, TypesAlways, PTL DEF Spec

-----------------------------------------------------------------------------
(* A lone queue branch has the outcome its worker reported. *)

\* What a step is about to write keeps the cursor, moves it by an edge of the
\* node, or ends the task.
Follows ==
  Writing =>
    \/ plan.next \in {my.curr, NoNode}
    \/ my.curr \in Node /\ \E a \in Action : plan.next = Def(my.curr).next[a]

\* The outcomes in the record r of n are those that workers reported.
Told(r, n, b) ==
  /\ r.done[b] # NoBranch => r.done[b] = b /\ reported[n][b] = "ok"
  /\ b \in r.errs => reported[n][b] = "error"

OutcomesTold(n, b) ==
  /\ Told(task.shared.rt[n], n, b)
  /\ InStep => Told(my.shared.rt[n], n, b)
  /\ Writing => Told(plan.shared.rt[n], n, b)

RunTold(n, b) ==
  last[n].out \in {"ok", "error"} /\ last[n].of # Whole =>
    last[n].of = b /\ reported[n][b] = last[n].out

\* The node is enqueued once: its job is its latest run.
OneJob(n, b) ==
  \A job \in jobs : job.node = n => job.of = b /\ last[n] = [of |-> b, out |-> "queued"]

AtBatch(n) == pc = "branches" /\ my.curr = n

\* Before the report no copy of the row has an outcome, and no step has one.
Untold(n, b) ==
  last[n].out = "none" \/ (\E job \in jobs : job.node = n) =>
    /\ ~HasOf(task.shared.rt[n], b)
    /\ InStep => ~HasOf(my.shared.rt[n], b)
    /\ Writing => ~HasOf(plan.shared.rt[n], b)
    /\ AtBatch(n) => go[b].at \notin {"ok", "error"}

BatchTold(n, b) ==
  AtBatch(n) =>
    /\ \A c \in Branch \ {b} : go[c].at = "idle"
    /\ go[b].at = "launched" => last[n].of # Whole
    /\ go[b].at = "listed" => last[n].out = "none"
    /\ go[b].at = "ok" => go[b].from = b /\ reported[n][b] = "ok"
    /\ go[b].at = "error" => reported[n][b] = "error"

SameOutcome(n, b) ==
  pc = "decide" /\ my.curr = n => (Has(my.shared, n, b) <=> Has(task.shared, n, b))

\* When the node's own run is recorded, the task has gone on, or has what it takes
\* to go on.
Over(n, b, S) ==
  last[n].of = Whole =>
    \/ task.curr \in S \cup {NoNode}
    \/ /\ task.curr = n /\ Has(task.shared, n, b) /\ pc # "branches"
       /\ Writing => plan.next \in S \cup {NoNode}

LoneAt(n, b, S) ==
  /\ OutcomesTold(n, b) /\ RunTold(n, b) /\ OneJob(n, b) /\ Untold(n, b)
  /\ BatchTold(n, b) /\ SameOutcome(n, b) /\ Over(n, b, S)

Lone ==
  ~races => \A n \in Node, b \in Branch, S \in SUBSET Node :
              LoneBranchOf(n, b) /\ LeadsTo(n, S) => LoneAt(n, b, S)

LEMMA FollowsStep ==
  ASSUME TypeOK, Structure, Follows, [Next]_vars
  PROVE  Follows'
<1> SUFFICES ASSUME Writing'
             PROVE  \/ plan'.next \in {my'.curr, NoNode}
                    \/ my'.curr \in Node /\ \E a \in Action : plan'.next = Def(my'.curr).next[a]
  <2>1. \A n : Def(n)' = Def(n)
    BY Constancy DEF Def
  <2> QED BY <2>1 DEF Follows
<1> DEFINE n == my.curr
           Followed == \/ plan'.next \in {n, NoNode}
                       \/ n \in Node /\ \E a \in Action : plan'.next = Def(n).next[a]
<1>0. "default" \in Action /\ n \in Cursor
  BY DEF Action, TypeOK
<1>1. ASSUME NEW action \in Action, NEW ok, NEW sh, Finish(action, ok, sh) PROVE Followed
  <2>1. plan'.next = FindNext(n, action)
    BY <1>1 DEF Finish, Write
  <2>2. CASE n = NoNode
    BY <2>1, <2>2 DEF FindNext
  <2>3. CASE n \in Node
    BY <2>1, <2>3, NodeTaskAssumption DEF FindNext
  <2> QED BY <1>0, <2>2, <2>3 DEF Cursor
<1>2. ASSUME NEW sh, Stay(sh) \/ Suspend(sh) PROVE Followed
  BY <1>2 DEF Stay, Suspend, Write
<1>3. CASE Wait
  <2>1. \A sig : Decision(sig) \in Action
    BY DEF Decision, Action
  <2>2. my' = my
    BY <1>3 DEF Wait
  <2>3. Followed
    BY <1>0, <1>1, <1>2, <1>3, <2>1
    DEF Wait, RunWaiting, RunTimer, RunWaitEvent, RunApproval, RunChoice, RunNoNode
  <2> QED BY <2>2, <2>3
<1>4. CASE Work /\ pc' = "status"
  <2>1. RunBranches /\ my' = my
    BY <1>4, WorkFrame DEF Work
  <2>2. CASE Delay \/ NoServices \/ NextBatch \/ SuspendBatch \/ AdvanceSubflow \/ RetrySubflow
    BY <1>2, <2>2 DEF Delay, NoServices, NextBatch, SuspendBatch, AdvanceSubflow, RetrySubflow
  <2>3. CASE \/ EmptyList \/ EmptySubflow \/ FinishBranches \/ FailFast \/ FinishSubflow
             \/ FailSubflow
    BY <1>0, <1>1, <2>3 DEF EmptyList, EmptySubflow, FinishBranches, FailFast, FinishSubflow,
                            FailSubflow
  <2>4. CASE Launch
    BY <1>4, <2>4 DEF Launch
  <2>5. ASSUME NEW b \in Branch,
               ExecBranch(b) \/ ReadLastRun(b) \/ EnqueueBranch(b) \/ Receive(b)
        PROVE  FALSE
    BY <1>4, <2>5 DEF ExecBranch, ReadLastRun, EnqueueBranch, Receive
  <2>6. Followed
    BY <2>1, <2>2, <2>3, <2>4, <2>5 DEF RunBranches
  <2> QED BY <2>1, <2>6
<1>5. CASE Writing /\ my'.curr = my.curr /\ plan'.next = plan.next
  BY <1>5 DEF Follows
<1> QED BY <1>3, <1>4, <1>5, WritingFrame

\* Records that agree on b.
Kin(sh, then, n, b) ==
  /\ then.rt[n].on = sh.rt[n].on /\ then.rt[n].done[b] = sh.rt[n].done[b]
  /\ b \in then.rt[n].errs <=> b \in sh.rt[n].errs

LEMMA AgedKin ==
  ASSUME NEW STATE sh, sh \in Shared, NEW n \in Node, NEW b
  PROVE  Kin(sh, Aged(sh), n, b)
  BY AgedEffect DEF Kin

\* Steps that record nothing for n, and leave the copies of its record.
LEMMA LoneQuiet ==
  ASSUME NEW n \in Node, NEW b \in Branch, NEW S \in SUBSET Node, LoneAt(n, b, S),
         UNCHANGED reported, last'[n] = last[n],
         \A job \in jobs' : job.node = n => job \in jobs,
         Kin(task.shared, task'.shared, n, b), task'.curr = task.curr,
         InStep' => InStep /\ Kin(my.shared, my'.shared, n, b),
         pc' \in {"decide", "branches"} => pc' = pc /\ my'.curr = my.curr,
         pc' = "branches" => go' = go,
         Writing' => Writing /\ Kin(plan.shared, plan'.shared, n, b) /\ plan'.next = plan.next
  PROVE  LoneAt(n, b, S)'
<1>1. OutcomesTold(n, b)'
  BY DEF LoneAt, OutcomesTold, Told, Kin
<1>2. RunTold(n, b)' /\ OneJob(n, b)'
  BY DEF LoneAt, RunTold, OneJob
<1>3. Untold(n, b)'
  BY DEF LoneAt, Untold, HasOf, Kin, AtBatch
<1>4. BatchTold(n, b)'
  BY DEF LoneAt, BatchTold, AtBatch
<1>5. SameOutcome(n, b)'
  BY DEF LoneAt, SameOutcome, Has, HasOf, Kin, InStep
<1>6. Over(n, b, S)'
  BY DEF LoneAt, Over, Has, HasOf, Kin
<1> QED BY <1>1, <1>2, <1>3, <1>4, <1>5, <1>6 DEF LoneAt

\* The loop's steps around those of the nodes.
LEMMA LoneLoop ==
  ASSUME TypeOK, Structure, SameNode, Follows,
         NEW n \in Node, NEW b \in Branch, NEW S \in SUBSET Node,
         LoneAt(n, b, S), LeadsTo(n, S), [Next]_vars, ~races', ~(Wait \/ Work \/ WorkerReport)
  PROVE  LoneAt(n, b, S)'
<1>0. /\ ~races /\ task \in Row /\ my \in [curr : Cursor, shared : Shared]
      /\ plan \in PlanType
  BY RacesLast DEF TypeOK, PlanType
<1>1. CASE Read
  <2>1. /\ pc' = "decide" /\ task' = task /\ my'.curr = task.curr /\ my'.shared = task.shared
        /\ UNCHANGED <<last, jobs, reported>>
    BY <1>1 DEF Read, branchVars, history
  <2>2. OutcomesTold(n, b)' /\ RunTold(n, b)' /\ OneJob(n, b)'
    BY <2>1 DEF LoneAt, OutcomesTold, Told, RunTold, OneJob, Writing
  <2>3. Untold(n, b)' /\ BatchTold(n, b)'
    BY <2>1 DEF LoneAt, Untold, BatchTold, AtBatch, Writing
  <2>4. SameOutcome(n, b)' /\ Over(n, b, S)'
    BY <2>1 DEF LoneAt, SameOutcome, Has, HasOf, Over, Writing
  <2> QED BY <2>2, <2>3, <2>4 DEF LoneAt
<1>2. CASE WriteProgress
  <2>1. /\ pc = "progress" /\ pc' = "check" /\ task'.curr = plan.next
        /\ task'.shared = plan.shared /\ UNCHANGED <<last, jobs, reported>>
        /\ my.curr = task.curr
    BY <1>0, <1>2 DEF WriteProgress, Row, SameNode, InStep
  <2>2. OutcomesTold(n, b)' /\ RunTold(n, b)' /\ OneJob(n, b)'
    BY <2>1 DEF LoneAt, OutcomesTold, Told, RunTold, OneJob, Writing, InStep
  <2>3. Untold(n, b)' /\ BatchTold(n, b)' /\ SameOutcome(n, b)'
    BY <2>1 DEF LoneAt, Untold, BatchTold, SameOutcome, AtBatch, Writing, InStep
  <2>4. ASSUME task.curr \in S \cup {NoNode} PROVE plan.next \in S \cup {NoNode}
    BY <2>1, <2>4, NodeTaskAssumption DEF Follows, Writing, LeadsTo
  <2>5. Over(n, b, S)'
    BY <2>1, <2>4 DEF LoneAt, Over, Writing
  <2> QED BY <2>2, <2>3, <2>5 DEF LoneAt
<1>3. CASE Tick
  <2>1. /\ task'.shared = Aged(task.shared) /\ my'.shared = Aged(my.shared)
        /\ plan'.shared = Aged(plan.shared) /\ task'.curr = task.curr /\ my'.curr = my.curr
        /\ plan'.next = plan.next /\ UNCHANGED <<go, last, jobs, pc, reported>>
    BY <1>0, <1>3 DEF Tick, Row, PlanType, branchVars
  <2>2. /\ Kin(task.shared, Aged(task.shared), n, b) /\ Kin(my.shared, Aged(my.shared), n, b)
        /\ Kin(plan.shared, Aged(plan.shared), n, b)
    BY <1>0, AgedKin DEF Row, PlanType
  <2> QED BY <2>1, <2>2, LoneQuiet DEF InStep, Writing
<1>4. CASE SignalWrite
  <2>1. /\ task'.shared.rt = task.shared.rt /\ task'.curr = task.curr
        /\ UNCHANGED <<my, plan, go, last, jobs, pc, reported>>
    BY <1>4, SignalIsQuiet DEF SignalWrite, branchVars
  <2> QED BY <2>1, LoneQuiet DEF InStep, Writing, Kin
<1>5. CASE Lease \/ WriteStatus
  <2>1. /\ task'.shared = task.shared /\ task'.curr = task.curr
        /\ UNCHANGED <<my, plan, go, last, jobs, reported>>
        /\ \/ pc = "free" /\ pc' = "read"
           \/ pc = "status" /\ pc' = "progress"
    BY <1>0, <1>5 DEF Lease, WriteStatus, branchVars, history, Row
  <2> QED BY <2>1, LoneQuiet DEF InStep, Writing, Kin
<1>6. CASE Check \/ Crash
  <2>1. task' = task /\ pc' \in {"free", "read"} /\ UNCHANGED <<last, jobs, reported>>
    BY <1>6 DEF Check, Crash, history
  <2> QED BY <2>1, LoneQuiet DEF InStep, Writing, Kin
<1>7. CASE SignalRead \/ UNCHANGED vars
  <2>1. UNCHANGED <<task, my, plan, pc, go, last, jobs, reported>>
    BY <1>7 DEF SignalRead, vars, taskVars, branchVars, history
  <2> QED BY <2>1, LoneQuiet DEF InStep, Writing, Kin
<1> QED BY <1>1, <1>2, <1>3, <1>4, <1>5, <1>6, <1>7 DEF Next, Step

\* A report.
LEMMA LoneReport ==
  ASSUME TypeOK, Structure,
         NEW n \in Node, NEW b \in Branch, NEW S \in SUBSET Node,
         LoneAt(n, b, S), WorkerReport
  PROVE  LoneAt(n, b, S)'
<1>1. PICK job \in jobs, out \in {"ok", "error"} :
        Report(job, out) /\ reported' = [reported EXCEPT ![job.node][job.of] = out]
  BY DEF WorkerReport
<1>2. /\ task'.shared = task.shared /\ task'.curr = task.curr
      /\ UNCHANGED <<my, plan, go, pc>> /\ jobs' = jobs \ {job}
      /\ last' = IF last[job.node] = [of |-> job.of, out |-> "queued"]
                 THEN [last EXCEPT ![job.node].out = out] ELSE last
  BY <1>1 DEF Report, TypeOK, Row
<1>3. /\ job.node \in Node /\ job.of \in Branch /\ last \in [Node -> Run]
      /\ reported \in [Node -> [Branch -> {"none", "ok", "error"}]]
      /\ jobs \subseteq [node : Node, of : Branch]
  BY DEF TypeOK
<1>4. CASE job.node # n
  <2>1. last'[n] = last[n] /\ reported'[n] = reported[n]
    BY <1>1, <1>2, <1>3, <1>4
  <2>2. OutcomesTold(n, b)' /\ RunTold(n, b)' /\ OneJob(n, b)'
    BY <1>2, <2>1 DEF LoneAt, OutcomesTold, Told, RunTold, OneJob, InStep, Writing
  <2>3. Untold(n, b)' /\ BatchTold(n, b)'
    BY <1>2, <2>1 DEF LoneAt, Untold, BatchTold, AtBatch, InStep, Writing
  <2>4. SameOutcome(n, b)' /\ Over(n, b, S)'
    BY <1>2, <2>1 DEF LoneAt, SameOutcome, Has, HasOf, Over, Writing
  <2> QED BY <2>2, <2>3, <2>4 DEF LoneAt
<1>5. CASE job.node = n
  <2>1. job.of = b /\ last[n] = [of |-> b, out |-> "queued"]
    BY <1>5 DEF LoneAt, OneJob
  <2>2. /\ ~HasOf(task.shared.rt[n], b)
        /\ InStep => ~HasOf(my.shared.rt[n], b)
        /\ Writing => ~HasOf(plan.shared.rt[n], b)
        /\ AtBatch(n) => go[b].at \notin {"ok", "error"}
    BY <1>5 DEF LoneAt, Untold
  <2>3. last'[n].of = b /\ last'[n].out = out /\ reported'[n][b] = out
    BY <1>1, <1>2, <1>3, <1>5, <2>1
  <2>4. \A other \in jobs' : other.node # n
    BY <1>2, <1>3, <1>5, <2>1 DEF LoneAt, OneJob
  <2>5. OutcomesTold(n, b)' /\ RunTold(n, b)' /\ OneJob(n, b)'
    BY <1>2, <2>2, <2>3, <2>4 DEF OutcomesTold, Told, HasOf, RunTold, OneJob, InStep, Writing
  <2>6. Untold(n, b)' /\ BatchTold(n, b)'
    BY <1>2, <2>1, <2>2, <2>3, <2>4, NodeTaskAssumption
    DEF LoneAt, Untold, BatchTold, AtBatch
  <2>7. SameOutcome(n, b)' /\ Over(n, b, S)'
    BY <1>2, <2>3, NodeTaskAssumption DEF LoneAt, SameOutcome, Has, HasOf, Over
  <2> QED BY <2>5, <2>6, <2>7 DEF LoneAt
<1> QED BY <1>4, <1>5

\* A step of another node.
LEMMA LoneElsewhere ==
  ASSUME TypeOK, Structure, SameNode, ~races,
         NEW n \in Node, NEW b \in Branch, NEW S \in SUBSET Node,
         LoneAt(n, b, S), LoneBranchOf(n, b), Wait \/ (Work /\ my.curr # n)
  PROVE  LoneAt(n, b, S)'
<1>1. /\ my.curr # n /\ InStep /\ my'.curr = my.curr /\ task' = task
      /\ my'.shared.rt[n] = my.shared.rt[n] /\ reported' = reported
      /\ pc' \in {"branches", "status"}
      /\ pc' = "status" => plan'.shared.rt[n] = my.shared.rt[n]
  <2>1. CASE Wait
    <3>1. ~Branching(my.curr) /\ my' = my
      BY <2>1, WaitHas DEF Wait
    <3> QED BY <2>1, <3>1, WaitTypes, WaitFrame DEF Wait, LoneBranchOf, InStep, history
  <2>2. CASE Work /\ my.curr # n
    BY <2>2, WorkAt, WorkFrame DEF Work, InStep, history
  <2> QED BY <2>1, <2>2
<1>2. last'[n] = last[n] /\ \A job \in jobs' : job.node = n => job \in jobs
  <2>1. CASE Wait
    BY <2>1 DEF Wait, branchVars
  <2>2. CASE Work
    <3>1. last \in [Node -> Run] /\ my.curr \in Node
      BY <2>2, WorkAt DEF TypeOK, Work
    <3>2. ASSUME NEW r, last' = [last EXCEPT ![my.curr] = r] PROVE last'[n] = last[n]
      BY <1>1, <3>1, <3>2
    <3>3. last' = last \/ \E r : last' = [last EXCEPT ![my.curr] = r]
      BY <2>2 DEF Work, RunBranches, Launch, Delay, NoServices, EmptyList, EmptySubflow,
              FinishBranches, ExecBranch, ReadLastRun, EnqueueBranch, Receive, SuspendBatch,
              FailFast, NextBatch, AdvanceSubflow, FinishSubflow, RetrySubflow, FailSubflow,
              branchVars, RecordNode
    <3>4. jobs' = jobs \/ \E c : jobs' = jobs \cup {[node |-> my.curr, of |-> c]}
      BY <2>2 DEF Work, RunBranches, Launch, Delay, NoServices, EmptyList, EmptySubflow,
              FinishBranches, ExecBranch, ReadLastRun, EnqueueBranch, Receive, SuspendBatch,
              FailFast, NextBatch, AdvanceSubflow, FinishSubflow, RetrySubflow, FailSubflow,
              branchVars
    <3>5. \A job \in jobs' : job.node = n => job \in jobs
      BY <1>1, <3>4
    <3> QED BY <3>2, <3>3, <3>5
  <2> QED BY <1>1, <2>1, <2>2
<1>3. my.curr = task.curr /\ pc' # "decide"
  BY <1>1 DEF SameNode
<1>4. OutcomesTold(n, b)' /\ RunTold(n, b)' /\ OneJob(n, b)'
  BY <1>1, <1>2 DEF LoneAt, OutcomesTold, Told, RunTold, OneJob, InStep, Writing
<1>5. Untold(n, b)' /\ BatchTold(n, b)' /\ SameOutcome(n, b)'
  BY <1>1, <1>2 DEF LoneAt, Untold, BatchTold, SameOutcome, HasOf, AtBatch, InStep, Writing
<1>6. Over(n, b, S)'
  BY <1>1, <1>2, <1>3 DEF LoneAt, Over
<1> QED BY <1>4, <1>5, <1>6 DEF LoneAt

\* The one branch of n is what remains of it.
LEMMA LoneRemains ==
  ASSUME TypeOK, NEW n \in Node, NEW b \in Branch, LoneBranchOf(n, b)
  PROVE  /\ Remaining(n) # {} <=> ~Has(my.shared, n, b)
         /\ \A c \in ToRun(n) : c = b
         /\ HasOf(RuntimeOf(n), b) => HasOf(my.shared.rt[n], b)
<1>1. DOMAIN Def(n).branches = {1} /\ Def(n).branches[1] = b /\ my.shared \in Shared
  BY DEF LoneBranchOf, TypeOK
<1>2. \A c : c \in ToRun(n) => \E i \in DOMAIN Def(n).branches : c = Def(n).branches[i]
  BY DEF ToRun, Remaining
<1>3. Remaining(n) # {} <=> ~HasOf(RuntimeOf(n), b)
  BY <1>1 DEF Remaining, HasOf
<1> QED BY <1>1, <1>2, <1>3, RuntimeHas DEF Has

\* A step of n itself, in its batch.
LEMMA LoneBatch ==
  ASSUME TypeOK, Structure, SameNode, ~races,
         NEW n \in Node, NEW b \in Branch, NEW S \in SUBSET Node,
         LoneAt(n, b, S), LoneBranchOf(n, b), LeadsTo(n, S),
         Work, my.curr = n, pc' = "branches"
  PROVE  LoneAt(n, b, S)'
<1>0. /\ RunBranches /\ my'.curr = n /\ task' = task /\ reported' = reported /\ InStep
      /\ task.curr = n /\ n \notin S /\ n # NoNode /\ Whole # b
      /\ my.shared \in Shared /\ go \in [Branch -> Going] /\ last \in [Node -> Run]
      /\ pc' # "status" /\ pc' # "progress" /\ pc' # "decide"
  BY WorkAt, WorkFrame, NodeTaskAssumption
  DEF Work, InStep, SameNode, history, LeadsTo, TypeOK
<1>1. ~Writing' /\ AtBatch(n)' /\ SameOutcome(n, b)' /\ (pc = "branches" <=> AtBatch(n))
  BY <1>0 DEF Writing, AtBatch, SameOutcome
\* In a batch the node's own run is not its latest.
<1>2. last[n].of = Whole => pc = "decide" /\ Has(my.shared, n, b)
  BY <1>0, WorkAt DEF LoneAt, Over, SameOutcome
<1>3. CASE Launch
  <2>1. /\ last[n].of # Whole /\ UNCHANGED <<my, last, jobs>>
        /\ \A c \in Branch : go'[c].at = IF c \in ToRun(n) THEN "launched" ELSE "idle"
    BY <1>0, <1>2, <1>3, LoneRemains DEF Launch, Idle
  <2>2. OutcomesTold(n, b)' /\ RunTold(n, b)' /\ OneJob(n, b)' /\ Over(n, b, S)'
    BY <1>0, <1>1, <2>1 DEF LoneAt, OutcomesTold, Told, RunTold, OneJob, Over
  <2>3. Untold(n, b)'
    BY <1>0, <1>1, <2>1 DEF LoneAt, Untold
  <2>4. BatchTold(n, b)'
    BY <1>1, <2>1, LoneRemains DEF BatchTold
  <2> QED BY <1>1, <2>2, <2>3, <2>4 DEF LoneAt
<1>4. ASSUME NEW c \in Branch, ExecBranch(c) \/ ReadLastRun(c) \/ EnqueueBranch(c) \/ Receive(c)
      PROVE  c = b /\ AtBatch(n) /\ last[n].of # Whole
  <2>1. AtBatch(n) /\ go[c].at # "idle"
    BY <1>0, <1>4 DEF AtBatch, ExecBranch, ReadLastRun, EnqueueBranch, Receive
  <2> QED BY <1>1, <1>2, <2>1 DEF LoneAt, BatchTold
<1>5. ASSUME ExecBranch(b) PROVE FALSE
  BY <1>0, <1>5 DEF ExecBranch, Queued, LoneBranchOf
<1>6. CASE ReadLastRun(b)
  <2> DEFINE run == last[n]
             at == CASE run.out = "none" -> "listed"
                     [] run.out = "queued" -> "pending"
                     [] OTHER -> run.out
  <2>1. /\ UNCHANGED <<my, last, jobs>> /\ go' = [go EXCEPT ![b] = [at |-> at, from |-> run.of]]
    BY <1>0, <1>6 DEF ReadLastRun, Reach
  <2>2. /\ go'[b].at = at /\ go'[b].from = run.of
        /\ \A c \in Branch \ {b} : go'[c] = go[c]
    BY <1>0, <2>1
  <2>3. /\ run.out = "none" => at = "listed"
        /\ run.out = "queued" => at = "pending"
        /\ run.out \in {"ok", "error"} => at = run.out
        /\ run.out \in {"none", "queued", "ok", "error"}
    BY <1>0 DEF Run
  <2>4. AtBatch(n) /\ last[n].of # Whole
    BY <1>4, <1>6
  <2> HIDE DEF at
  <2>5. OutcomesTold(n, b)' /\ RunTold(n, b)' /\ OneJob(n, b)' /\ Over(n, b, S)'
    BY <1>0, <1>1, <2>1, <2>4 DEF LoneAt, OutcomesTold, Told, RunTold, OneJob, Over
  <2>6. Untold(n, b)'
    BY <1>0, <1>1, <2>1, <2>2, <2>3 DEF LoneAt, Untold, OneJob
  <2>7. BatchTold(n, b)'
    BY <1>0, <1>1, <2>1, <2>2, <2>3, <2>4 DEF LoneAt, BatchTold, RunTold
  <2> QED BY <1>1, <2>5, <2>6, <2>7 DEF LoneAt
<1>7. CASE EnqueueBranch(b)
  <2>1. /\ UNCHANGED my /\ last' = [last EXCEPT ![n] = [of |-> b, out |-> "queued"]]
        /\ jobs' = jobs \cup {[node |-> n, of |-> b]}
        /\ go' = [go EXCEPT ![b] = [at |-> "pending", from |-> NoBranch]]
        /\ go[b].at = "listed"
    BY <1>0, <1>7 DEF EnqueueBranch, Reach
  <2>2. AtBatch(n) /\ last[n].out = "none"
    BY <1>4, <1>7, <2>1 DEF LoneAt, BatchTold
  <2>3. \A job \in jobs : job.node # n
    BY <2>2 DEF LoneAt, OneJob
  <2>4. /\ last'[n] = [of |-> b, out |-> "queued"] /\ go'[b].at = "pending"
        /\ \A c \in Branch \ {b} : go'[c] = go[c]
    BY <1>0, <2>1
  <2>5. OutcomesTold(n, b)' /\ RunTold(n, b)' /\ OneJob(n, b)' /\ Over(n, b, S)'
    BY <1>0, <1>1, <2>1, <2>3, <2>4 DEF LoneAt, OutcomesTold, Told, RunTold, OneJob, Over
  <2>6. Untold(n, b)'
    BY <1>0, <1>1, <2>1, <2>2, <2>4 DEF LoneAt, Untold
  <2>7. BatchTold(n, b)'
    BY <1>1, <2>2, <2>4 DEF LoneAt, BatchTold
  <2> QED BY <1>1, <2>5, <2>6, <2>7 DEF LoneAt
<1>8. CASE Receive(b)
  <2>0. AtBatch(n) /\ last[n].of # Whole /\ Concurrent(n) /\ Def(n).kind # "subflow"
    BY <1>4, <1>8 DEF LoneBranchOf, Concurrent
  <2>1. /\ go[b].at \in {"ok", "error", "pending"} /\ UNCHANGED jobs
        /\ \A c \in Branch \ {b} : go'[c] = go[c]
        /\ go'[b].at = "idle"
    BY <1>0, <1>8 DEF Receive, Idle
  <2>2. CASE go[b].at = "pending"
    <3>1. UNCHANGED <<my, last>>
      BY <1>0, <1>8, <2>0, <2>2 DEF Receive
    <3>2. OutcomesTold(n, b)' /\ RunTold(n, b)' /\ OneJob(n, b)' /\ Over(n, b, S)'
      BY <1>0, <1>1, <2>0, <2>1, <3>1 DEF LoneAt, OutcomesTold, Told, RunTold, OneJob, Over
    <3>3. Untold(n, b)' /\ BatchTold(n, b)'
      BY <1>0, <1>1, <2>0, <2>1, <3>1 DEF LoneAt, Untold, BatchTold
    <3> QED BY <1>1, <3>2, <3>3 DEF LoneAt
  <2>3. CASE go[b].at \in {"ok", "error"}
    <3>1. /\ last[n].out # "none" /\ \A job \in jobs : job.node # n
          /\ go[b].at = "ok" => go[b].from = b
          /\ reported[n][b] = go[b].at
      BY <2>0, <2>3 DEF LoneAt, Untold, BatchTold
    <3>2. last'[n].of = b /\ last'[n].out = go[b].at
      BY <1>0, <1>8, <2>3 DEF Receive
    <3>3. Told(RuntimeOf(n), n, b)
      BY <1>0 DEF LoneAt, OutcomesTold, Told, RuntimeOf, NoRuntime
    <3>4. RuntimeOf(n) \in Runtime
      BY <1>0, RuntimeType
    <3>5. /\ go[b].at = "ok" => my'.shared.rt[n] = Succeeded(n, b)
          /\ go[b].at = "error" => my'.shared.rt[n] = Erred(n, b)
      BY <1>0, <1>8, <2>0, ReceiveEffect
    <3>6. /\ go[b].at = "ok" => Told(Succeeded(n, b), n, b)
          /\ go[b].at = "error" => Told(Erred(n, b), n, b)
      BY <3>1, <3>3, <3>4 DEF Told, Succeeded, Erred, Runtime
    <3>7. Told(my'.shared.rt[n], n, b)
      BY <2>3, <3>5, <3>6
    <3>8. OutcomesTold(n, b)'
      BY <1>0, <1>1, <3>7 DEF LoneAt, OutcomesTold, Told
    <3>9. RunTold(n, b)' /\ OneJob(n, b)' /\ Over(n, b, S)'
      BY <1>0, <2>1, <3>1, <3>2 DEF RunTold, OneJob, Over
    <3>10. Untold(n, b)' /\ BatchTold(n, b)'
      BY <2>0, <2>1, <2>3, <3>1, <3>2 DEF LoneAt, Untold, BatchTold
    <3> QED BY <1>1, <3>8, <3>9, <3>10 DEF LoneAt
  <2> QED BY <2>1, <2>2, <2>3
<1> QED BY <1>0, <1>3, <1>4, <1>5, <1>6, <1>7, <1>8, BatchSteps

\* A step of n itself, at the end of its batch.
LEMMA LoneEnd ==
  ASSUME TypeOK, Structure, SameNode, ~races,
         NEW n \in Node, NEW b \in Branch, NEW S \in SUBSET Node,
         LoneAt(n, b, S), LoneBranchOf(n, b), LeadsTo(n, S),
         Work, my.curr = n, pc' = "status"
  PROVE  LoneAt(n, b, S)'
<1>0. /\ RunBranches /\ my' = my /\ task' = task /\ reported' = reported /\ InStep
      /\ task.curr = n /\ n \notin S /\ n # NoNode /\ n \in S \cup {n} /\ "default" \in Action
      /\ my.shared \in Shared /\ last \in [Node -> Run]
      /\ Def(n).kind \in {"parallel", "foreach"} /\ Def(n).branches # <<>>
  BY WorkAt, WorkFrame, NodeTaskAssumption
  DEF Work, InStep, SameNode, history, LeadsTo, TypeOK, Action, LoneBranchOf, Concurrent,
      Branching
<1>1. InStep' /\ Writing' /\ ~AtBatch(n)' /\ SameOutcome(n, b)' /\ BatchTold(n, b)'
  BY <1>0 DEF InStep, Writing, AtBatch, SameOutcome, BatchTold
<1>2. CASE FinishBranches
  <2>1. /\ pc = "decide" /\ Remaining(n) = {} /\ UNCHANGED jobs
        /\ last'[n].of = Whole /\ last'[n].out # "none"
        /\ plan'.shared = Cleared(n) /\ plan'.next = Def(n).next["default"]
    BY <1>0, <1>2 DEF FinishBranches, RecordNode, Finish, Write, FindNext
  <2>2. Has(my.shared, n, b) /\ Has(task.shared, n, b)
    BY <1>0, <2>1, LoneRemains DEF LoneAt, SameOutcome
  <2>3. \A job \in jobs : job.node # n
    BY <1>0, <2>2 DEF LoneAt, Untold, Has
  <2>4. plan'.shared.rt[n] = NoRuntime
    BY <1>0, <2>1, ClearedEffect
  <2>5. Told(plan'.shared.rt[n], n, b)
    BY <2>4 DEF Told, NoRuntime
  <2>6. OutcomesTold(n, b)' /\ RunTold(n, b)' /\ OneJob(n, b)' /\ Untold(n, b)'
    BY <1>0, <1>1, <2>1, <2>3, <2>5 DEF LoneAt, OutcomesTold, Told, RunTold, OneJob, Untold
  <2>7. plan'.next \in S \cup {NoNode}
    BY <1>0, <2>1 DEF LeadsTo
  <2>8. Over(n, b, S)'
    BY <1>0, <2>2, <2>7 DEF Over, Has, HasOf
  <2> QED BY <1>1, <2>6, <2>8 DEF LoneAt
<1>3. CASE SuspendBatch \/ NextBatch \/ FailFast
  <2>1. /\ pc = "branches" /\ UNCHANGED <<last, jobs>>
        /\ \/ plan'.shared = my.shared
           \/ plan'.shared = Kept(n, RuntimeOf(n))
    BY <1>0, <1>3 DEF SuspendBatch, NextBatch, FailFast, AllIn, Suspend, Stay, Finish, Write,
                      branchVars
  <2>2. plan'.shared.rt[n] \in {my.shared.rt[n], RuntimeOf(n)}
    BY <1>0, <2>1, KeptEffect
  <2>3. Told(RuntimeOf(n), n, b) /\ Told(my.shared.rt[n], n, b)
    BY <1>0 DEF LoneAt, OutcomesTold, Told, RuntimeOf, NoRuntime
  <2>4. Told(plan'.shared.rt[n], n, b)
    BY <2>2, <2>3
  <2>5. HasOf(plan'.shared.rt[n], b) => HasOf(my.shared.rt[n], b)
    BY <2>2, LoneRemains
  <2>6. last[n].of # Whole
    BY <1>0, <2>1 DEF LoneAt, Over
  <2>7. OutcomesTold(n, b)' /\ RunTold(n, b)' /\ OneJob(n, b)' /\ Over(n, b, S)'
    BY <1>0, <1>1, <2>1, <2>4, <2>6 DEF LoneAt, OutcomesTold, Told, RunTold, OneJob, Over
  <2>8. Untold(n, b)'
    BY <1>0, <1>1, <2>1, <2>5 DEF LoneAt, Untold, HasOf
  <2> QED BY <1>1, <2>7, <2>8 DEF LoneAt
<1>4. ASSUME \/ Delay \/ NoServices \/ EmptyList \/ EmptySubflow
             \/ AdvanceSubflow \/ FinishSubflow \/ RetrySubflow \/ FailSubflow
      PROVE  FALSE
  BY <1>0, <1>4 DEF Delay, Delayed, NoServices, EmptyList, EmptySubflow, Without,
                    AdvanceSubflow, FinishSubflow, BranchOk, RetrySubflow, FailSubflow,
                    BranchFailed
<1>5. ASSUME \/ Launch
             \/ \E c \in Branch : ExecBranch(c) \/ ReadLastRun(c) \/ EnqueueBranch(c) \/ Receive(c)
      PROVE  FALSE
  BY <1>5 DEF Launch, ExecBranch, ReadLastRun, EnqueueBranch, Receive
<1> QED BY <1>0, <1>2, <1>3, <1>4, <1>5 DEF RunBranches

LEMMA LoneStep ==
  ASSUME TypeOK, Structure, SameNode, Follows, Lone, [Next]_vars
  PROVE  Lone'
<1> SUFFICES ASSUME ~races', NEW n \in Node, NEW b \in Branch, NEW S \in SUBSET Node,
                    LoneBranchOf(n, b)', LeadsTo(n, S)'
             PROVE  LoneAt(n, b, S)'
  BY DEF Lone
<1>1. LoneBranchOf(n, b) /\ LeadsTo(n, S) /\ ~races
  BY Constancy, RacesLast DEF LoneBranchOf, LeadsTo, Branching, Concurrent, Def
<1>2. LoneAt(n, b, S)
  BY <1>1 DEF Lone
<1>3. CASE ~(Wait \/ Work \/ WorkerReport)
  BY <1>1, <1>2, <1>3, LoneLoop
<1>4. CASE WorkerReport
  BY <1>2, <1>4, LoneReport
<1>5. CASE Wait
  BY <1>1, <1>2, <1>5, LoneElsewhere
<1>6. CASE Work
  <2>1. CASE my.curr # n
    BY <1>1, <1>2, <1>6, <2>1, LoneElsewhere
  <2>2. CASE my.curr = n
    BY <1>1, <1>2, <1>6, <2>2, LoneBatch, LoneEnd, WorkFrame DEF Work
  <2> QED BY <2>1, <2>2
<1> QED BY <1>3, <1>4, <1>5, <1>6

\* The only branch of a concurrent node has, as its outcome, what its worker
\* reported, and never the node's own run or an unfinished one, through any
\* crashes: as long as no way leads from the node back to it, and no signal request
\* takes the cursor back.
THEOREM LoneBranchTold == Spec => []LoneBranchByReport
<1>1. Init => SameNode /\ Follows /\ Lone
  <2> SUFFICES ASSUME Init, NEW n \in Node, NEW b \in Branch, NEW S \in SUBSET Node
               PROVE  SameNode /\ Follows /\ LoneAt(n, b, S)
    BY DEF Lone, SameNode, Follows, Init, InStep, Writing
  <2>1. /\ pc = "free" /\ last[n] = NoRun /\ jobs = {} /\ task.shared.rt[n] = NoRuntime
        /\ Whole # NoBranch
    BY NodeTaskAssumption DEF Init, BranchInit, NoShared
  <2>2. SameNode /\ Follows
    BY <2>1 DEF SameNode, Follows, InStep, Writing
  <2>3. NoRun.out = "none" /\ NoRun.of = NoBranch
    BY DEF NoRun
  <2>4. NoRuntime.done[b] = NoBranch /\ b \notin NoRuntime.errs
    BY DEF NoRuntime
  <2>5. OutcomesTold(n, b) /\ RunTold(n, b) /\ OneJob(n, b) /\ Untold(n, b)
    BY <2>1, <2>3, <2>4
    DEF OutcomesTold, Told, RunTold, OneJob, Untold, HasOf, AtBatch, InStep, Writing
  <2>6. BatchTold(n, b) /\ SameOutcome(n, b) /\ Over(n, b, S)
    BY <2>1, <2>3 DEF BatchTold, AtBatch, SameOutcome, Over
  <2> QED BY <2>2, <2>5, <2>6 DEF LoneAt
<1>2. /\ TypeOK /\ Structure /\ SameNode /\ Follows /\ Lone /\ [Next]_vars
      => SameNode' /\ Follows' /\ Lone'
  BY SameNodeStep, FollowsStep, LoneStep
<1>3. Lone => LoneBranchByReport
  BY DEF Lone, LoneAt, OutcomesTold, Told, LoneBranchByReport, ByReport
<1> QED BY <1>1, <1>2, <1>3, TypesAlways, PTL DEF Spec
=============================================================================
