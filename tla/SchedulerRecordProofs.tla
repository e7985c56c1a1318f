------------------------- MODULE SchedulerRecordProofs -------------------------
(***************************************************************************)
(* Theorems about what Scheduler leaves in the store, whatever the clock   *)
(* does and whoever crashes: a cursor moves only over a recorded run, and  *)
(* no open task is left without a node.                                    *)
(***************************************************************************)
EXTENDS SchedulerProofs

Ended == {"completed", "failed", "canceled", "canceling"}

\* A scheduler with a step to write, and one with a step to do or to write.
Writes(s) == pc[s] \in {"status", "progress"}
AtWork(s) == pc[s] \in {"extend", "run", "exec", "status", "progress"}

\* A step to write was decided by a run, by a node that is not done and keeps
\* its cursor, or by a cancel request; only these cancel.
PlanIsRecorded(s) ==
  /\ plan[s].status \in {"running", "completed", "failed", "canceled"}
  /\ \/ plan[s].next = seen[s]
     \/ \E st \in RunStatus : <<seen[s], st>> \in runs[job[s]]
     \/ job[s] \in Cancelable /\ plan[s].next = NoNode
Recorded ==
  /\ \A s \in Owner : Writes(s) => PlanIsRecorded(s)
  /\ \A t \in Task : tasks[t].status = "canceling" => t \in Cancelable

\* Who owns a task it works on has a node to execute; a step that empties the
\* cursor ends the task, and once its status is written that lasts until its
\* progress is, but for a cancel request and for "failed".
HasNode ==
  \A s \in Owner :
    AtWork(s) /\ job[s] \notin Signaled /\ tasks[job[s]].owner = s =>
      tasks[job[s]].curr # NoNode
EmptiesToEnd ==
  \A s \in Owner : Writes(s) /\ plan[s].next = NoNode =>
    plan[s].status \in Ended \/ seen[s] = NoNode
StatusLasts ==
  \A s \in Owner : pc[s] = "progress" /\ Fenced(job[s], s) =>
    tasks[job[s]].status \in {plan[s].status, "canceling", "failed"}

-----------------------------------------------------------------------------
(* Who may have changed what. *)

\* A scheduler's own variables are changed by its own steps.
LEMMA OthersKept ==
  ASSUME TypeOK, [Next]_vars, NEW s \in Owner
  PROVE  \/ LoopStep(s) \/ Crash(s) \/ Restart(s)
         \/ /\ pc'[s] = pc[s] /\ job'[s] = job[s]
            /\ seen'[s] = seen[s] /\ plan'[s] = plan[s]
<1>0. /\ pc \in [Owner -> Steps \cup {"idle", "down"}]
      /\ job \in [Owner -> Task \cup {NoTask}]
      /\ seen \in [Owner -> Cursor] /\ plan \in [Owner -> Plan]
  BY DEF TypeOK
<1> DEFINE Kept == /\ pc'[s] = pc[s] /\ job'[s] = job[s]
                   /\ seen'[s] = seen[s] /\ plan'[s] = plan[s]
<1>1. ASSUME NEW r \in Owner, r # s, LoopStep(r) PROVE Kept
  <2>1. CASE LeaseNext(r)
    BY <1>0, <1>1, <2>1 DEF LeaseNext, Goto
  <2>2. CASE Extend(r) \/ RunOnce(r) \/ Execute(r)
    BY <1>0, <1>1, <2>2 DEF Extend, RunOnce, Execute, Goto, local
  <2>3. CASE WriteStatus(r) \/ WriteProgress(r) \/ RecordCancel(r)
    BY <1>0, <1>1, <2>3 DEF WriteStatus, WriteProgress, RecordCancel, Goto, local
  <2>4. CASE Check(r) \/ MarkFailed(r)
    BY <1>0, <1>1, <2>4 DEF Check, MarkFailed, Goto, Forget
  <2> QED BY <1>1, <2>1, <2>2, <2>3, <2>4 DEF LoopStep
<1>2. ASSUME NEW r \in Owner, r # s, Crash(r) \/ Restart(r) PROVE Kept
  BY <1>0, <1>2 DEF Crash, Restart, Goto, Forget, local
<1>3. ASSUME NEW t \in Task, Client(t) PROVE Kept
  BY <1>3 DEF Client, Create, Cancel, SignalRead, SignalWrite, local
<1>4. ASSUME Tick \/ UNCHANGED vars PROVE Kept
  BY <1>4 DEF Tick, vars, local
<1> QED BY <1>1, <1>2, <1>3, <1>4 DEF Next

\* What a step of the loop does to the row of its own task and to others.
LEMMA LoopMoves ==
  ASSUME TypeOK, NEW s \in Owner, LoopStep(s)
  PROVE  \/ UNCHANGED tasks /\ ~LeaseNext(s) /\ ~MarkFailed(s)
         \/ \E t \in Task :
              /\ LeaseNext(s) /\ job'[s] = t
              /\ tasks[t].status \in {"pending", "running"} /\ tasks[t].left < 0
              /\ tasks'[t].status = "running" /\ tasks'[t].curr = tasks[t].curr
              /\ tasks'[t].owner = s
              /\ \A u \in Task : u # t => tasks'[u] = tasks[u]
         \/ /\ Extend(s)
            /\ \A u \in Task : /\ tasks'[u].status = tasks[u].status
                               /\ tasks'[u].curr = tasks[u].curr
                               /\ tasks'[u].owner = tasks[u].owner
                               /\ tasks[u].owner # s => tasks'[u].left = tasks[u].left
         \/ /\ \/ WriteStatus(s) /\ Fenced(job[s], s)
               \/ MarkFailed(s)
            /\ job[s] \in Task
            /\ \A u \in Task : /\ tasks'[u].owner = tasks[u].owner
                               /\ tasks'[u].left = tasks[u].left
                               /\ tasks'[u].curr = tasks[u].curr
                               /\ tasks'[u].status =
                                    IF u # job[s] THEN tasks[u].status
                                    ELSE IF MarkFailed(s) THEN "failed" ELSE plan[s].status
         \/ /\ WriteProgress(s) /\ Fenced(job[s], s) /\ job[s] \in Task
            /\ \A u \in Task : /\ tasks'[u].owner = tasks[u].owner
                               /\ tasks'[u].left = tasks[u].left
                               /\ tasks'[u].status = tasks[u].status
                               /\ tasks'[u].curr =
                                    IF u = job[s] THEN plan[s].next ELSE tasks[u].curr
<1>0. /\ tasks \in [Task -> Row] /\ pc \in [Owner -> Steps \cup {"idle", "down"}]
      /\ job \in [Owner -> Task \cup {NoTask}]
      /\ Busy(s) => job[s] \in Task
  BY DEF TypeOK
<1>1. CASE LeaseNext(s)
  <2>1. PICK t \in Task : LeaseNextTask(t, s) /\ job' = [job EXCEPT ![s] = t]
    BY <1>1 DEF LeaseNext
  <2> QED BY <1>0, <1>1, <2>1, LeaseEffect
<1>2. CASE Extend(s)
  <2>1. job[s] \in Task
    BY <1>0, <1>2 DEF Extend, Busy, Steps
  <2> QED BY <1>0, <1>2, <2>1, ExtendEffect DEF Extend
<1>3. CASE RunOnce(s) \/ Execute(s) \/ RecordCancel(s) \/ Check(s)
  BY <1>3 DEF RunOnce, Execute, RecordCancel, Check, LeaseNext, MarkFailed
<1>4. CASE WriteStatus(s)
  <2>1. job[s] \in Task /\ ~MarkFailed(s) /\ ~LeaseNext(s)
    BY <1>0, <1>4 DEF WriteStatus, MarkFailed, LeaseNext, Busy, Steps
  <2>2. CASE Fenced(job[s], s)
    <3>1. UpdateTaskStatus(job[s], plan[s].status)
      BY <1>4, <2>2 DEF WriteStatus, UpdateTaskStatusOwned
    <3>2. \A u \in Task :
            /\ tasks'[u].owner = tasks[u].owner
            /\ tasks'[u].left = tasks[u].left
            /\ tasks'[u].curr = tasks[u].curr
            /\ tasks'[u].status =
                 IF u # job[s] THEN tasks[u].status ELSE plan[s].status
      BY <1>0, <2>1, <3>1 DEF UpdateTaskStatus, Row
    <3> QED BY <1>4, <2>1, <2>2, <3>2
  <2>3. CASE ~Fenced(job[s], s)
    BY <1>4, <2>1, <2>3 DEF WriteStatus, UpdateTaskStatusOwned
  <2> QED BY <2>2, <2>3
<1>5. CASE MarkFailed(s)
  <2>1. job[s] \in Task
    BY <1>0, <1>5 DEF MarkFailed, Busy, Steps
  <2> QED BY <1>0, <1>5, <2>1 DEF MarkFailed, UpdateTaskStatus, Row
<1>6. CASE WriteProgress(s)
  <2>1. job[s] \in Task /\ ~MarkFailed(s) /\ ~LeaseNext(s)
    BY <1>0, <1>6 DEF WriteProgress, MarkFailed, LeaseNext, Busy, Steps
  <2>2. CASE Fenced(job[s], s)
    BY <1>0, <1>6, <2>1, <2>2, ProgressOwnedEffect DEF WriteProgress
  <2>3. CASE ~Fenced(job[s], s)
    BY <1>6, <2>1, <2>3 DEF WriteProgress, UpdateTaskProgressOwned
  <2> QED BY <2>2, <2>3
<1> QED BY <1>1, <1>2, <1>3, <1>4, <1>5, <1>6 DEF LoopStep

\* What clients, crashes and the clock do to the rows.
\* Taking a task.
LEMMA LeaseMoves ==
  ASSUME TypeOK, NEW s \in Owner, LeaseNext(s)
  PROVE  \E t \in Task :
           /\ job'[s] = t /\ tasks[t].status \in {"pending", "running"}
           /\ tasks[t].left < 0
           /\ tasks'[t].status = "running" /\ tasks'[t].curr = tasks[t].curr
           /\ \A u \in Task : u # t => tasks'[u] = tasks[u]
<1>1. PICK t \in Task : LeaseNextTask(t, s) /\ job' = [job EXCEPT ![s] = t]
  BY DEF LeaseNext
<1>2. tasks \in [Task -> Row] /\ job'[s] = t
  BY <1>1 DEF TypeOK
<1> QED BY <1>1, <1>2, LeaseEffect

LEMMA OutsideMoves ==
  ASSUME TypeOK, SignalsExpected, [Next]_vars, \A s \in Owner : ~LoopStep(s)
  PROVE  \/ UNCHANGED tasks
         \/ \E t \in Task :
              /\ tasks[t].status = "none" /\ tasks'[t].status = "pending"
              /\ tasks'[t].owner = NoOwner /\ tasks'[t].curr = Start[t]
              /\ \A u \in Task : u # t => tasks'[u] = tasks[u]
         \/ /\ \A u \in Task :
                 /\ tasks'[u].owner = tasks[u].owner
                 /\ Fenced(u, tasks[u].owner)' => Fenced(u, tasks[u].owner)
                 /\ \/ tasks'[u].status = tasks[u].status
                    \/ /\ u \in Cancelable /\ tasks[u].status # "none"
                       /\ tasks'[u].status = "canceling"
                 /\ u \notin Signaled => tasks'[u].curr = tasks[u].curr
<1>0. tasks \in [Task -> Row]
  BY DEF TypeOK
<1>1. CASE \E s \in Owner : Crash(s) \/ Restart(s)
  BY <1>1 DEF Crash, Restart
<1>2. CASE Tick
  <2>1. \A u \in Task : tasks[u].left \in Int
    BY <1>0, TaskTableAssumption DEF Row
  <2>2. \A u \in Task : /\ tasks'[u].owner = tasks[u].owner
                        /\ tasks'[u].status = tasks[u].status
                        /\ tasks'[u].curr = tasks[u].curr
                        /\ tasks'[u].left > 0 => tasks[u].left > 0
    BY <1>0, <1>2, <2>1, ElapseEffect DEF Tick
  <2> QED BY <2>2 DEF Fenced
<1>3. ASSUME NEW t \in Task, Client(t)
      PROVE  \/ UNCHANGED tasks
             \/ /\ tasks[t].status = "none" /\ tasks'[t].status = "pending"
                /\ tasks'[t].owner = NoOwner /\ tasks'[t].curr = Start[t]
                /\ \A u \in Task : u # t => tasks'[u] = tasks[u]
             \/ \A u \in Task :
                  /\ tasks'[u].owner = tasks[u].owner
                  /\ tasks'[u].left = tasks[u].left
                  /\ \/ tasks'[u].status = tasks[u].status
                     \/ /\ u \in Cancelable /\ tasks[u].status # "none"
                        /\ tasks'[u].status = "canceling"
                  /\ u \notin Signaled => tasks'[u].curr = tasks[u].curr
  <2>1. CASE Create(t)
    BY <1>0, <2>1, CreateEffect DEF Create
  <2>2. CASE Cancel(t)
    <3>1. t \in Cancelable /\ tasks[t].status # "none" /\ UpdateTaskStatus(t, "canceling")
      BY <2>2 DEF Cancel
    <3>2. \A u \in Task : /\ tasks'[u].owner = tasks[u].owner
                          /\ tasks'[u].left = tasks[u].left
                          /\ tasks'[u].curr = tasks[u].curr
                          /\ \/ tasks'[u].status = tasks[u].status
                             \/ u = t /\ tasks'[u].status = "canceling"
      BY <1>0, <3>1, StatusEffect
    <3> QED BY <3>1, <3>2
  <2>3. CASE SignalRead(t)
    BY <2>3 DEF SignalRead
  <2>4. CASE SignalWrite(t)
    <3>1. t \in Signaled /\ UpdateTaskProgress(t, signal[t])
      BY <2>4 DEF SignalWrite, SignalsExpected
    <3> QED BY <1>0, <3>1, ProgressEffect
  <2> QED BY <1>3, <2>1, <2>2, <2>3, <2>4 DEF Client
<1>4. CASE UNCHANGED vars
  BY <1>4 DEF vars
<1>5. CASE \E t \in Task : Client(t)
  <2>1. PICK t \in Task : Client(t)
    BY <1>5
  <2> QED BY <1>3, <2>1 DEF Fenced
<1> QED BY <1>1, <1>2, <1>4, <1>5 DEF Next

-----------------------------------------------------------------------------
(* A step is decided by what is recorded. *)

LEMMA RecordedStep ==
  ASSUME TypeOK, SignalsExpected, Recorded, [Next]_vars
  PROVE  Recorded'
<1>0. /\ pc \in [Owner -> Steps \cup {"idle", "down"}] /\ plan \in [Owner -> Plan]
      /\ seen \in [Owner -> Cursor] /\ runs \in [Task -> SUBSET (Cursor \X RunStatus)]
      /\ \A s \in Owner : Writes(s) => job[s] \in Task
  BY DEF TypeOK, Writes, Busy, Steps
\* Runs are never deleted.
<1>1. \A t \in Task : runs[t] \subseteq runs'[t]
  <2>1. UNCHANGED runs \/ \E s \in Owner : Execute(s) \/ RecordCancel(s)
    BY DEF Next, LoopStep, Client, LeaseNext, Extend, RunOnce, WriteStatus, WriteProgress,
           Check, MarkFailed, Crash, Restart, Create, Cancel, SignalRead, SignalWrite,
           Tick, vars
  <2> QED BY <1>0, <2>1 DEF Execute, RecordCancel, RecordRun
<1>2. ASSUME NEW s \in Owner, Writes(s)' PROVE PlanIsRecorded(s)'
  <2>1. CASE Writes(s) /\ job'[s] = job[s] /\ seen'[s] = seen[s] /\ plan'[s] = plan[s]
    <3>1. PlanIsRecorded(s)
      BY <2>1 DEF Recorded
    <3> QED BY <1>0, <1>1, <2>1, <3>1 DEF PlanIsRecorded
  <2>2. CASE RunOnce(s)
    <3>1. /\ tasks[job[s]].status = "canceling" /\ job'[s] = job[s]
          /\ plan'[s] = [status |-> "canceled", next |-> NoNode]
      BY <1>0, <1>2, <2>2 DEF RunOnce, Goto, Writes
    <3>2. job[s] \in Task
      BY <2>2 DEF RunOnce, TypeOK, Busy, Steps
    <3> QED BY <3>1, <3>2 DEF Recorded, PlanIsRecorded
  <2>3. CASE Execute(s)
    <3>1. job[s] \in Task /\ seen'[s] = seen[s] /\ job'[s] = job[s] /\ pc[s] = "exec"
      BY <2>3 DEF Execute, TypeOK, Busy, Steps
    <3>2. PICK out \in Emits[seen[s]] :
            /\ IF out.result = "wait" THEN UNCHANGED runs
               ELSE RecordRun(job[s], seen[s], RunOf(out))
            /\ plan' = [plan EXCEPT ![s] = Finish(seen[s], out)]
      BY <1>0, <1>2, <2>3 DEF Execute, Writes
    <3>3. plan'[s] = Finish(seen[s], out)
      BY <1>0, <3>2
    <3>4. plan'[s].status \in {"running", "completed", "failed", "canceled"}
      BY <3>3 DEF Finish
    <3>5. CASE out.result = "wait"
      BY <3>1, <3>3, <3>4, <3>5 DEF Finish, PlanIsRecorded
    <3>6. CASE out.result # "wait"
      <4>1. RunOf(out) \in RunStatus
        BY DEF RunOf, RunStatus
      <4>2. <<seen[s], RunOf(out)>> \in runs'[job[s]]
        BY <1>0, <3>1, <3>2, <3>6 DEF RecordRun
      <4> QED BY <3>1, <3>4, <4>1, <4>2 DEF PlanIsRecorded
    <3> QED BY <3>5, <3>6
  <2>4. CASE WriteStatus(s)
    <3>1. pc[s] = "status" /\ UNCHANGED <<job, seen, plan>>
      BY <2>4 DEF WriteStatus, local
    <3> QED BY <2>1, <3>1 DEF Writes
  <2>5. ~(LeaseNext(s) \/ Extend(s) \/ WriteProgress(s) \/ RecordCancel(s) \/ Check(s)
          \/ MarkFailed(s) \/ Crash(s) \/ Restart(s))
    BY <1>0, <1>2 DEF LeaseNext, Extend, WriteProgress, RecordCancel, Check, MarkFailed,
                      Crash, Restart, Goto, Writes
  <2>6. CASE /\ pc'[s] = pc[s] /\ job'[s] = job[s]
             /\ seen'[s] = seen[s] /\ plan'[s] = plan[s]
    BY <1>2, <2>1, <2>6 DEF Writes
  <2> QED BY <2>2, <2>3, <2>4, <2>5, <2>6, OthersKept DEF LoopStep
<1>3. ASSUME NEW t \in Task, tasks'[t].status = "canceling" PROVE t \in Cancelable
  <2>1. tasks[t].status = "canceling" => t \in Cancelable
    BY DEF Recorded
  <2>2. ASSUME NEW s \in Owner, LoopStep(s) PROVE t \in Cancelable
    <3>1. pc[s] = "status" => plan[s].status # "canceling"
      BY DEF Recorded, PlanIsRecorded, Writes
    <3>2. WriteStatus(s) => pc[s] = "status"
      BY DEF WriteStatus
    <3> QED BY <1>3, <2>1, <2>2, <3>1, <3>2, LoopMoves
  <2>3. CASE \A s \in Owner : ~LoopStep(s)
    BY <1>3, <2>1, <2>3, OutsideMoves
  <2> QED BY <2>2, <2>3
<1> QED BY <1>2, <1>3 DEF Recorded

\* The progress write is the only one that moves the cursor of a task that no
\* client signals.
LEMMA CursorMoves ==
  ASSUME TypeOK, SignalsExpected, [Next]_vars, NEW t \in Task \ Signaled,
         tasks'[t].curr # tasks[t].curr
  PROVE  \/ tasks[t].status = "none" /\ tasks'[t].curr = Start[t]
         \/ \E s \in Owner :
              /\ WriteProgress(s) /\ job[s] = t /\ Fenced(t, s)
              /\ tasks'[t].curr = plan[s].next /\ tasks'[t].status = tasks[t].status
<1>1. ASSUME NEW s \in Owner, LoopStep(s)
      PROVE  /\ WriteProgress(s) /\ job[s] = t /\ Fenced(t, s)
             /\ tasks'[t].curr = plan[s].next /\ tasks'[t].status = tasks[t].status
  BY <1>1, LoopMoves
<1>2. CASE \A s \in Owner : ~LoopStep(s)
  BY <1>2, OutsideMoves
<1> QED BY <1>1, <1>2

FenceInv == TypeOK /\ Inserted /\ SignalsExpected /\ FencedCursor

LEMMA FenceInit == Init => FenceInv
  BY TypeInit, InsertedInit DEF Init, FenceInv, SignalsExpected, FencedCursor

LEMMA FenceStep == FenceInv /\ [Next]_vars => FenceInv'
  BY TypeStep, InsertedStep, SignalsExpectedStep, FencedCursorStep DEF FenceInv

\* However long steps take and whoever crashes, a cursor leaves a node only once
\* a run of the node is recorded, or emptied by a cancel request.
THEOREM MovesAreRecorded == Spec => MoveIsRecorded
<1> DEFINE Move == \A t \in Task \ Signaled :
                     /\ tasks[t].status # "none"
                     /\ tasks'[t].curr # tasks[t].curr
                     => \/ \E st \in RunStatus : <<tasks[t].curr, st>> \in runs[t]
                        \/ t \in Cancelable /\ tasks'[t].curr = NoNode
<1>1. Init => FenceInv /\ Recorded
  <2>1. Init => Recorded
    BY DEF Init, TaskTableInit, NoRow, Recorded, Writes
  <2> QED BY <2>1, FenceInit
<1>2. FenceInv /\ Recorded /\ [Next]_vars => FenceInv' /\ Recorded'
  BY FenceStep, RecordedStep DEF FenceInv
<1>3. FenceInv /\ Recorded /\ [Next]_vars => [Move]_vars
  <2> SUFFICES ASSUME FenceInv, Recorded, [Next]_vars, NEW t \in Task \ Signaled,
                      tasks[t].status # "none", tasks'[t].curr # tasks[t].curr
               PROVE  \/ \E st \in RunStatus : <<tasks[t].curr, st>> \in runs[t]
                      \/ t \in Cancelable /\ tasks'[t].curr = NoNode
    OBVIOUS
  <2>1. PICK s \in Owner : /\ WriteProgress(s) /\ job[s] = t /\ Fenced(t, s)
                           /\ tasks'[t].curr = plan[s].next
    BY CursorMoves DEF FenceInv
  <2>2. pc[s] = "progress" /\ tasks[t].owner = s
    BY <2>1 DEF WriteProgress, Fenced
  <2>3. tasks[t].curr = seen[s]
    BY <2>1, <2>2 DEF FenceInv, FencedCursor
  <2>4. PlanIsRecorded(s)
    BY <2>2 DEF Recorded, Writes
  <2> QED BY <2>1, <2>3, <2>4 DEF PlanIsRecorded
<1> QED
  <2>1. Spec => [][Move]_vars
    BY <1>1, <1>2, <1>3, PTL DEF Spec
  <2> QED BY <2>1 DEF MoveIsRecorded

-----------------------------------------------------------------------------
(* No open task is left without a node. *)

Emptied == EmptiedIsFinal /\ HasNode /\ EmptiesToEnd /\ StatusLasts

LEMMA EmptiesToEndStep ==
  ASSUME TypeOK, EmptiesToEnd, [Next]_vars
  PROVE  EmptiesToEnd'
<1>0. /\ pc \in [Owner -> Steps \cup {"idle", "down"}] /\ plan \in [Owner -> Plan]
      /\ seen \in [Owner -> Cursor]
  BY DEF TypeOK
<1> SUFFICES ASSUME NEW s \in Owner, Writes(s)', plan'[s].next = NoNode
             PROVE  plan'[s].status \in Ended \/ seen'[s] = NoNode
  BY DEF EmptiesToEnd
<1>1. CASE Writes(s) /\ seen'[s] = seen[s] /\ plan'[s] = plan[s]
  BY <1>1 DEF EmptiesToEnd
<1>2. CASE RunOnce(s)
  BY <1>0, <1>2 DEF RunOnce, Goto, Writes, Ended
<1>3. CASE Execute(s)
  <2>1. PICK out \in Emits[seen[s]] : plan' = [plan EXCEPT ![s] = Finish(seen[s], out)]
    BY <1>0, <1>3 DEF Execute, Writes
  <2>2. plan'[s] = Finish(seen[s], out) /\ seen'[s] = seen[s]
    BY <1>0, <1>3, <2>1 DEF Execute
  <2> QED BY <2>2 DEF Finish, Ended
<1>4. CASE WriteStatus(s)
  BY <1>1, <1>4 DEF WriteStatus, Writes, local
<1>5. ~(LeaseNext(s) \/ Extend(s) \/ WriteProgress(s) \/ RecordCancel(s) \/ Check(s)
        \/ MarkFailed(s) \/ Crash(s) \/ Restart(s))
  BY <1>0 DEF LeaseNext, Extend, WriteProgress, RecordCancel, Check, MarkFailed,
              Crash, Restart, Goto, Writes
<1>6. CASE pc'[s] = pc[s] /\ seen'[s] = seen[s] /\ plan'[s] = plan[s]
  BY <1>1, <1>6 DEF Writes
<1> QED BY <1>2, <1>3, <1>4, <1>5, <1>6, OthersKept DEF LoopStep

LEMMA HasNodeStep ==
  ASSUME FenceInv, EmptiedIsFinal, HasNode, [Next]_vars
  PROVE  HasNode'
<1>0. /\ TypeOK /\ SignalsExpected /\ Inserted
      /\ pc \in [Owner -> Steps \cup {"idle", "down"}]
      /\ job \in [Owner -> Task \cup {NoTask}]
      /\ \A r \in Owner : AtWork(r) => job[r] \in Task
  BY DEF FenceInv, TypeOK, AtWork, Busy, Steps
<1> SUFFICES ASSUME NEW s \in Owner, AtWork(s)', job'[s] \notin Signaled,
                    tasks'[job'[s]].owner = s
             PROVE  tasks'[job'[s]].curr # NoNode
  BY DEF HasNode
\* The scheduler that took the task, or goes round with it.
<1>1. CASE LeaseNext(s)
  <2>1. PICK t \in Task :
          /\ job'[s] = t /\ tasks[t].status \in {"pending", "running"}
          /\ tasks'[t].curr = tasks[t].curr
    BY <1>0, <1>1, LoopMoves DEF LoopStep, LeaseNext, Extend, WriteStatus, WriteProgress,
       MarkFailed
  <2> QED BY <2>1 DEF EmptiedIsFinal
<1>2. CASE Check(s)
  <2>1. ~Released(job[s]) /\ job'[s] = job[s] /\ UNCHANGED tasks
    BY <1>0, <1>2 DEF Check, Goto, AtWork
  <2> QED BY <2>1 DEF Released
<1>3. ~(WriteProgress(s) \/ RecordCancel(s) \/ MarkFailed(s) \/ Crash(s) \/ Restart(s))
  BY <1>0 DEF WriteProgress, RecordCancel, MarkFailed, Crash, Restart, Goto, AtWork
\* Otherwise it held the task and still does; nobody else moves the cursor.
<1>4. ASSUME AtWork(s), job'[s] = job[s]
      PROVE  tasks'[job[s]].curr # NoNode
  <2> DEFINE t == job[s]
  <2>1. t \in Task \ Signaled
    BY <1>0, <1>4
  <2>2. tasks[t].owner = s
    <3>1. ASSUME NEW r \in Owner, LoopStep(r), tasks'[t].owner # tasks[t].owner
          PROVE  r = s /\ LeaseNext(s)
      BY <1>0, <1>4, <2>1, <3>1, LoopMoves
    <3>2. ~LeaseNext(s)
      BY <1>4 DEF LeaseNext, AtWork
    <3>3. CASE \A r \in Owner : ~LoopStep(r)
      BY <1>0, <1>4, <2>1, <3>3, OutsideMoves, TaskTableAssumption
    <3> QED BY <1>4, <3>1, <3>2, <3>3
  <2>3. tasks[t].curr # NoNode
    BY <1>4, <2>1, <2>2 DEF HasNode
  <2>4. CASE tasks'[t].curr = tasks[t].curr
    BY <2>3, <2>4
  <2>5. CASE tasks'[t].curr # tasks[t].curr
    <3>1. tasks[t].status # "none"
      BY <2>1, <2>2, <1>0, TaskTableAssumption DEF Inserted
    <3>2. PICK r \in Owner : WriteProgress(r) /\ Fenced(t, r)
      BY <1>0, <2>1, <2>5, <3>1, CursorMoves
    <3>3. r = s
      BY <2>2, <3>2 DEF Fenced
    <3> QED BY <1>3, <3>2, <3>3
  <2> QED BY <2>4, <2>5
<1>5. CASE Extend(s) \/ RunOnce(s) \/ Execute(s) \/ WriteStatus(s)
  <2>1. AtWork(s) /\ job'[s] = job[s]
    BY <1>5 DEF Extend, RunOnce, Execute, WriteStatus, AtWork, local
  <2> QED BY <1>4, <2>1
<1>6. CASE pc'[s] = pc[s] /\ job'[s] = job[s]
  BY <1>4, <1>6 DEF AtWork
<1> QED BY <1>0, <1>1, <1>2, <1>3, <1>5, <1>6, OthersKept DEF LoopStep

LEMMA StatusLastsStep ==
  ASSUME FenceInv, StatusLasts, [Next]_vars
  PROVE  StatusLasts'
<1>0. /\ TypeOK /\ SignalsExpected /\ Inserted
      /\ pc \in [Owner -> Steps \cup {"idle", "down"}]
      /\ \A r \in Owner : Writes(r) => job[r] \in Task
  BY DEF FenceInv, TypeOK, Writes, Busy, Steps
<1> SUFFICES ASSUME NEW s \in Owner, pc'[s] = "progress", Fenced(job[s], s)'
             PROVE  tasks'[job'[s]].status \in {plan'[s].status, "canceling", "failed"}
  BY DEF StatusLasts
<1>1. CASE WriteStatus(s)
  <2>1. UNCHANGED <<job, plan>> /\ job[s] \in Task /\ ~MarkFailed(s)
    BY <1>0, <1>1 DEF WriteStatus, MarkFailed, Writes, local
  <2>2. Fenced(job[s], s)
    BY <1>1, <2>1 DEF WriteStatus, UpdateTaskStatusOwned, Fenced
  <2>3. UpdateTaskStatus(job[s], plan[s].status)
    BY <1>1, <2>2 DEF WriteStatus, UpdateTaskStatusOwned
  <2>4. tasks'[job[s]].status = plan[s].status
    BY <1>0, <2>1, <2>3 DEF UpdateTaskStatus, TypeOK, Row
  <2> QED BY <2>1, <2>4
<1>2. ~(LeaseNext(s) \/ Extend(s) \/ RunOnce(s) \/ Execute(s) \/ WriteProgress(s)
        \/ RecordCancel(s) \/ Check(s) \/ MarkFailed(s) \/ Crash(s) \/ Restart(s))
  BY <1>0 DEF LeaseNext, Extend, RunOnce, Execute, WriteProgress, RecordCancel, Check,
              MarkFailed, Crash, Restart, Goto
<1>3. ASSUME ~WriteStatus(s), pc[s] = "progress", job'[s] = job[s], plan'[s] = plan[s]
      PROVE  tasks'[job[s]].status \in {plan[s].status, "canceling", "failed"}
  <2> DEFINE t == job[s]
  <2>1. t \in Task /\ tasks'[t].owner = s /\ tasks'[t].left > 0
    BY <1>0, <1>3 DEF Writes, Fenced
  <2>2. ASSUME NEW r \in Owner, LoopStep(r)
        PROVE  /\ Fenced(t, s)
               /\ tasks'[t].status \in {tasks[t].status, "failed"}
    <3>1. r # s
      BY <1>2, <1>3, <2>2 DEF LoopStep
    <3>2. CASE UNCHANGED tasks
      BY <2>1, <3>2 DEF Fenced
    <3>3. CASE LeaseNext(r)
      BY <1>0, <2>1, <2>2, <3>1, <3>3, LoopMoves
      DEF Fenced, LeaseNext, Extend, WriteStatus, WriteProgress, MarkFailed
    <3>4. CASE \A u \in Task :
                 /\ tasks'[u].owner = tasks[u].owner
                 /\ tasks[u].owner # r => tasks'[u].left = tasks[u].left
                 /\ tasks'[u].status \in {tasks[u].status, "failed"}
      BY <2>1, <3>1, <3>4 DEF Fenced
    <3>5. CASE WriteStatus(r) /\ Fenced(job[r], r)
      <4>1. \A u \in Task :
              /\ tasks'[u].owner = tasks[u].owner /\ tasks'[u].left = tasks[u].left
              /\ u # job[r] => tasks'[u].status = tasks[u].status
        BY <1>0, <2>2, <3>5, LoopMoves DEF LeaseNext, WriteStatus, Extend, WriteProgress
      <4>2. t # job[r]
        BY <2>1, <3>1, <3>5, <4>1 DEF Fenced
      <4> QED BY <2>1, <4>1, <4>2 DEF Fenced
    <3> QED BY <1>0, <2>2, <3>2, <3>3, <3>4, <3>5, LoopMoves
  <2>3. CASE \A r \in Owner : ~LoopStep(r)
    <3>1. /\ Fenced(t, s)
          /\ tasks'[t].status \in {tasks[t].status, "canceling"}
      BY <1>0, <2>1, <2>3, OutsideMoves, TaskTableAssumption DEF Fenced
    <3> QED BY <1>3, <3>1 DEF StatusLasts
  <2>4. CASE \E r \in Owner : LoopStep(r)
    BY <1>3, <2>2, <2>4 DEF StatusLasts
  <2> QED BY <2>3, <2>4
<1> QED BY <1>0, <1>1, <1>2, <1>3, OthersKept DEF LoopStep

LEMMA EmptiedIsFinalStep ==
  ASSUME FenceInv, Recorded, Emptied, [Next]_vars
  PROVE  EmptiedIsFinal'
<1>0. TypeOK /\ SignalsExpected /\ Inserted /\ FencedCursor
  BY DEF FenceInv
<1> SUFFICES ASSUME NEW t \in Task \ Signaled, tasks'[t].status # "none",
                    tasks'[t].curr = NoNode
             PROVE  tasks'[t].status \in Ended
  BY DEF EmptiedIsFinal, Ended
<1>1. Start[t] # NoNode
  BY SchedulerAssumption, TaskTableAssumption
<1>2. CASE tasks[t].curr # NoNode
  <2>1. PICK s \in Owner : /\ WriteProgress(s) /\ job[s] = t /\ Fenced(t, s)
                           /\ plan[s].next = NoNode
                           /\ tasks'[t].status = tasks[t].status
    BY <1>0, <1>1, <1>2, CursorMoves
  <2>2. pc[s] = "progress" /\ tasks[t].owner = s
    BY <2>1 DEF WriteProgress, Fenced
  <2>3. seen[s] # NoNode
    BY <1>0, <1>2, <2>1, <2>2 DEF FencedCursor
  <2>4. plan[s].status \in Ended
    BY <2>1, <2>2, <2>3 DEF Emptied, EmptiesToEnd, Writes
  <2>5. tasks[t].status \in {plan[s].status, "canceling", "failed"}
    BY <2>1, <2>2 DEF Emptied, StatusLasts
  <2> QED BY <2>1, <2>4, <2>5 DEF Ended
<1>3. CASE tasks[t].curr = NoNode
  <2>1. tasks[t].status # "none" => tasks[t].status \in Ended
    BY <1>3 DEF Emptied, EmptiedIsFinal, Ended
  <2>2. ASSUME NEW s \in Owner, LoopStep(s) PROVE tasks'[t].status \in Ended
    <3>1. CASE WriteStatus(s) /\ Fenced(job[s], s)
      <4>1. job[s] # t
        BY <1>3, <3>1 DEF Emptied, HasNode, AtWork, WriteStatus, Fenced
      <4>2. tasks'[t].status = tasks[t].status
        BY <1>0, <2>2, <3>1, <4>1, LoopMoves
        DEF LeaseNext, WriteStatus, Extend, WriteProgress, MarkFailed
      <4> QED BY <2>1, <4>2
    <3>2. CASE tasks'[t].status \in {tasks[t].status, "failed"}
      BY <2>1, <3>2 DEF Ended
    <3>3. CASE tasks[t].status \in {"pending", "running"}
      BY <2>1, <3>3 DEF Ended
    <3> QED BY <1>0, <2>2, <3>1, <3>2, <3>3, LoopMoves
  <2>3. CASE \A s \in Owner : ~LoopStep(s)
    BY <1>0, <1>1, <2>1, <2>3, OutsideMoves DEF Ended
  <2> QED BY <2>2, <2>3
<1> QED BY <1>2, <1>3

\* However long steps take and whoever crashes, a task without a node is over
\* or canceled, or is to be.
THEOREM EmptiedTasksEnd == Spec => []EmptiedIsFinal
<1> DEFINE Inv == FenceInv /\ Recorded /\ Emptied
<1>1. Init => Inv
  <2>1. Init => Recorded /\ Emptied
    BY DEF Init, TaskTableInit, NoRow, Recorded, Writes, Emptied, EmptiedIsFinal, HasNode,
           AtWork, EmptiesToEnd, StatusLasts
  <2> QED BY <2>1, FenceInit
<1>2. Inv /\ [Next]_vars => Inv'
  BY FenceStep, RecordedStep, EmptiesToEndStep, HasNodeStep, StatusLastsStep,
     EmptiedIsFinalStep DEF FenceInv, Emptied
<1>3. Inv => EmptiedIsFinal
  BY DEF Emptied
<1> QED BY <1>1, <1>2, <1>3, PTL DEF Spec
=============================================================================
