--------------------------- MODULE SchedulerProofs ---------------------------
(***************************************************************************)
(* Theorems about Scheduler, for every number of tasks, schedulers, nodes, *)
(* seconds and crashes.                                                    *)
(*                                                                         *)
(* TypeOK and FencedCursor hold whatever the clock does.  The leases       *)
(* exclude when a round (from one lease statement of a loop to the next)   *)
(* is no longer than the lease, and a step's writes are never dropped when *)
(* it is shorter; the two conditions are hypotheses of those theorems.     *)
(***************************************************************************)
EXTENDS Scheduler, TLAPS, SequenceTheorems, WellFoundedInduction

-----------------------------------------------------------------------------
(* The operators of the model. *)

\* The first of some positions exists.
LEMMA FirstExists ==
  ASSUME NEW M \in SUBSET Nat, M # {}
  PROVE  \E i \in M : \A j \in M : i <= j
<1> DEFINE Less == OpToRel(<, Nat)
<1>1. IsWellFoundedOn(Less, Nat)
  BY NatLessThanWellFounded
<1>2. \A j, k \in Nat : j < k => <<j, k>> \in Less
  BY DEF OpToRel
<1> HIDE DEF Less
<1>3. PICK i \in M : \A j \in M : ~(<<j, i>> \in Less)
  BY <1>1, WFMin
<1>4. ASSUME NEW j \in M PROVE i <= j
  <2>1. i \in Nat /\ j \in Nat
    OBVIOUS
  <2>2. ~(j < i)
    BY <1>2, <1>3, <2>1
  <2> QED BY <2>1, <2>2
<1> QED BY <1>4

\* findNext returns a node of the flow or the empty key.
LEMMA FindNextType ==
  ASSUME NEW from, NEW a
  PROVE  FindNext(from, a) \in Cursor
<1> DEFINE b == IF a = EmptyAction THEN DefaultAction ELSE a
           M == {i \in DOMAIN Edges : Edges[i].from = from /\ Edges[i].action = b}
<1>1. CASE M = {}
  BY <1>1 DEF FindNext, Cursor
<1>2. CASE M # {}
  <2>1. M \in SUBSET Nat
    BY SchedulerAssumption
  <2>2. \E i \in M : \A j \in M : i <= j
    BY <1>2, <2>1, FirstExists
  <2> DEFINE i == CHOOSE i \in M : \A j \in M : i <= j
  <2>3. i \in M
    BY <2>2
  <2>4. FindNext(from, a) = Edges[i].to
    BY <1>2 DEF FindNext
  <2> HIDE DEF i
  <2>5. i \in DOMAIN Edges
    BY <2>3
  <2> DEFINE Edge == [from : Node, action : Action, to : Node]
  <2>6. Edges \in Seq(Edge)
    BY SchedulerAssumption
  <2> HIDE DEF Edge
  <2>7. Edges[i] \in Edge
    BY <2>5, <2>6, ElementOfSeq, LenProperties
  <2> QED BY <2>4, <2>7 DEF Cursor, Edge
<1> QED BY <1>1, <1>2

LEMMA FinishType ==
  ASSUME NEW n \in Cursor, NEW out
  PROVE  Finish(n, out) \in Plan
<1> DEFINE next == FindNext(n, out.action)
<1>1. next \in Cursor
  BY FindNextType
<1> QED BY <1>1 DEF Finish, Plan, TaskStatus, Cursor

-----------------------------------------------------------------------------
(* Type correctness. *)

\* Every statement on the table leaves rows in it.
LEMMA StatementTypes ==
  ASSUME tasks \in [Task -> Row], NEW t \in Task
  PROVE  /\ \A o \in Owner : LeaseNextTask(t, o) => tasks' \in [Task -> Row]
         /\ \A o \in Owner : ExtendLease(t, o) => tasks' \in [Task -> Row]
         /\ \A st \in TaskStatus :
              /\ UpdateTaskStatus(t, st) => tasks' \in [Task -> Row]
              /\ \A o \in Owner :
                   UpdateTaskStatusOwned(t, o, st) => tasks' \in [Task -> Row]
         /\ \A n \in Cursor :
              /\ UpdateTaskProgress(t, n) => tasks' \in [Task -> Row]
              /\ \A o \in Owner :
                   UpdateTaskProgressOwned(t, o, n) => tasks' \in [Task -> Row]
              /\ CreateTask(t, n) => tasks' \in [Task -> Row]
<1>1. LeaseTTL \in Nat \ {0} /\ AgeMax \in Nat
  BY TaskTableAssumption
<1>2. ASSUME NEW o \in Owner, LeaseNextTask(t, o) PROVE tasks' \in [Task -> Row]
  <2>1. "running" \in TaskStatus /\ LeaseTTL \in -1 .. LeaseTTL
    BY <1>1 DEF TaskStatus
  <2> QED BY <1>2, <2>1 DEF LeaseNextTask, Row
<1>3. ASSUME NEW o \in Owner, ExtendLease(t, o) PROVE tasks' \in [Task -> Row]
  <2>1. LeaseTTL \in -1 .. LeaseTTL
    BY <1>1
  <2> QED BY <1>3, <2>1 DEF ExtendLease, Row
<1>4. 0 \in 0 .. AgeMax
  BY <1>1
<1>5. ASSUME NEW st \in TaskStatus, UpdateTaskStatus(t, st)
      PROVE  tasks' \in [Task -> Row]
  BY <1>4, <1>5 DEF UpdateTaskStatus, Row
<1>6. ASSUME NEW n \in Cursor, UpdateTaskProgress(t, n)
      PROVE  tasks' \in [Task -> Row]
  BY <1>4, <1>6 DEF UpdateTaskProgress, Row
<1>7. ASSUME NEW n \in Cursor, CreateTask(t, n) PROVE tasks' \in [Task -> Row]
  <2>1. /\ -1 \in -1 .. LeaseTTL
        /\ "none" \in TaskStatus /\ "pending" \in TaskStatus /\ NoNode \in Cursor
    BY <1>1 DEF TaskStatus, Cursor
  <2>2. NoRow \in Row
    BY <1>4, <2>1 DEF NoRow, Row
  <2>3. [NoRow EXCEPT !.status = "pending", !.curr = n] \in Row
    BY <2>1, <2>2 DEF Row
  <2> QED BY <1>7, <2>3 DEF CreateTask
<1> QED
  BY <1>2, <1>3, <1>5, <1>6, <1>7 DEF UpdateTaskStatusOwned, UpdateTaskProgressOwned

LEMMA ElapseType ==
  ASSUME tasks \in [Task -> Row], Elapse
  PROVE  tasks' \in [Task -> Row]
<1>1. LeaseTTL \in Nat \ {0} /\ AgeMax \in Nat
  BY TaskTableAssumption
<1>2. ASSUME NEW u \in Task PROVE tasks'[u] \in Row
  <2> DEFINE r == tasks[u]
             left == IF r.left > -1 THEN r.left - 1 ELSE -1
             age == IF r.age < AgeMax /\ r.status # "none" THEN r.age + 1 ELSE r.age
  <2>1. r \in Row
    OBVIOUS
  <2>2. left \in -1 .. LeaseTTL /\ age \in 0 .. AgeMax
    BY <1>1, <2>1 DEF Row
  <2>3. tasks'[u] = [r EXCEPT !.left = left, !.age = age]
    BY DEF Elapse
  <2> HIDE DEF r, left, age
  <2> QED BY <2>1, <2>2, <2>3 DEF Row
<1> QED BY <1>2 DEF Elapse

LEMMA TypeInit == Init => TypeOK
  BY TaskTableAssumption, SchedulerAssumption
  DEF Init, TaskTableInit, TypeOK, NoRow, Row, TaskStatus, Cursor, NoPlan, Plan,
      Steps, Busy

LEMMA TypeStep == TypeOK /\ [Next]_vars => TypeOK'
<1> SUFFICES ASSUME TypeOK, [Next]_vars PROVE TypeOK'
  OBVIOUS
<1> USE DEF TypeOK
<1>0. /\ \A s \in Owner : Busy(s) => job[s] \in Task
      /\ "failed" \in TaskStatus /\ "canceling" \in TaskStatus
      /\ NoNode \in Cursor /\ NoPlan \in Plan
  BY DEF TaskStatus, Cursor, NoPlan, Plan
<1>1. ASSUME NEW s \in Owner, LeaseNext(s) PROVE TypeOK'
  BY <1>1, StatementTypes, SchedulerAssumption DEF LeaseNext, Goto, Busy, Steps
<1>2. ASSUME NEW s \in Owner, Extend(s) PROVE TypeOK'
  <2>1. tasks' \in [Task -> Row]
    BY <1>0, <1>2, StatementTypes DEF Extend, Busy, Steps
  <2> QED
    BY <1>2, <2>1, SchedulerAssumption DEF Extend, Goto, Busy, Steps, local
<1>3. ASSUME NEW s \in Owner, RunOnce(s) PROVE TypeOK'
  <2>1. job[s] \in Task
    BY <1>0, <1>3 DEF RunOnce, Busy, Steps
  <2>2. tasks[job[s]].curr \in Cursor
    BY <2>1 DEF Row
  <2>3. [status |-> "canceled", next |-> NoNode] \in Plan
    BY DEF Plan, TaskStatus, Cursor
  <2> QED
    BY <1>3, <2>2, <2>3 DEF RunOnce, Goto, Busy, Steps
<1>4. ASSUME NEW s \in Owner, Execute(s) PROVE TypeOK'
  <2>1. job[s] \in Task /\ seen[s] \in Cursor /\ attempt[s] \in Nat
    BY <1>0, <1>4 DEF Execute, Busy, Steps
  <2>2. PICK out \in Emits[seen[s]] :
          \/ /\ RecordRun(job[s], seen[s], "error")
             /\ attempt' = [attempt EXCEPT ![s] = @ + 1]
             /\ UNCHANGED <<pc, plan>>
          \/ /\ IF out.result = "wait" THEN UNCHANGED runs
                ELSE RecordRun(job[s], seen[s], RunOf(out))
             /\ attempt' = [attempt EXCEPT ![s] = 0]
             /\ plan' = [plan EXCEPT ![s] = Finish(seen[s], out)]
             /\ Goto(s, "status")
    BY <1>4 DEF Execute
  <2>3. RunOf(out) \in RunStatus
    BY DEF RunOf, RunStatus
  <2>4. Finish(seen[s], out) \in Plan
    BY <2>1, FinishType
  <2>5. runs' \in [Task -> SUBSET (Cursor \X RunStatus)]
    BY <2>1, <2>2, <2>3 DEF RecordRun, RunStatus
  <2>6. attempt' \in [Owner -> Nat] /\ plan' \in [Owner -> Plan]
    BY <2>1, <2>2, <2>4
  <2>7. UNCHANGED <<tasks, job, seen, elapsed, signal, crashes>> /\ pc[s] = "exec"
    BY <1>4 DEF Execute
  <2>8. pc' \in [Owner -> Steps \cup {"idle", "down"}]
        /\ \A r \in Owner : Busy(r)' <=> Busy(r)
    BY <2>2, <2>7 DEF Goto, Busy, Steps
  <2> QED BY <2>5, <2>6, <2>7, <2>8
<1>5. ASSUME NEW s \in Owner, WriteStatus(s) PROVE TypeOK'
  <2>1. job[s] \in Task /\ plan[s].status \in TaskStatus
    BY <1>0, <1>5 DEF WriteStatus, Busy, Steps, Plan
  <2>2. tasks' \in [Task -> Row]
    BY <1>0, <1>5, <2>1, StatementTypes DEF WriteStatus
  <2> QED BY <1>5, <2>2 DEF WriteStatus, Goto, Busy, Steps, local
<1>6. ASSUME NEW s \in Owner, WriteProgress(s) PROVE TypeOK'
  <2>1. job[s] \in Task /\ plan[s].next \in Cursor
    BY <1>0, <1>6 DEF WriteProgress, Busy, Steps, Plan
  <2>2. tasks' \in [Task -> Row]
    BY <1>0, <1>6, <2>1, StatementTypes DEF WriteProgress
  <2> QED BY <1>6, <2>2 DEF WriteProgress, Goto, Busy, Steps, local
<1>7. ASSUME NEW s \in Owner, RecordCancel(s) PROVE TypeOK'
  <2>1. job[s] \in Task /\ seen[s] \in Cursor
    BY <1>0, <1>7 DEF RecordCancel, Busy, Steps
  <2>2. runs' \in [Task -> SUBSET (Cursor \X RunStatus)]
    BY <1>7, <2>1 DEF RecordCancel, RecordRun, RunStatus
  <2> QED BY <1>7, <2>2 DEF RecordCancel, Goto, Busy, Steps, local
<1>8. ASSUME NEW s \in Owner, Check(s) PROVE TypeOK'
  <2>1. CASE Released(job[s])
    <3>1. Forget(s) /\ Goto(s, "idle") /\ UNCHANGED <<tasks, runs, signal, crashes>>
      BY <1>8, <2>1 DEF Check
    <3> QED BY <1>0, <3>1, SchedulerAssumption DEF Forget, Goto, Busy, Steps
  <2>2. CASE ~Released(job[s])
    BY <1>0, <1>8, <2>2 DEF Check, Goto, Busy, Steps
  <2> QED BY <2>1, <2>2
<1>9. ASSUME NEW s \in Owner, MarkFailed(s) PROVE TypeOK'
  <2>1. tasks' \in [Task -> Row]
    BY <1>0, <1>9, StatementTypes DEF MarkFailed, Busy, Steps
  <2> QED
    BY <1>0, <1>9, <2>1, SchedulerAssumption DEF MarkFailed, Forget, Goto, Busy, Steps
<1>10. ASSUME NEW s \in Owner, Crash(s) PROVE TypeOK'
  BY <1>0, <1>10, SchedulerAssumption DEF Crash, Forget, Goto, Busy, Steps
<1>11. ASSUME NEW s \in Owner, Restart(s) PROVE TypeOK'
  BY <1>11 DEF Restart, Goto, Busy, Steps, local
<1>12. ASSUME NEW t \in Task, Client(t) PROVE TypeOK'
  <2>1. CASE Create(t)
    <3>1. Start[t] \in Cursor
      BY SchedulerAssumption DEF Cursor
    <3>2. tasks' \in [Task -> Row]
      BY <2>1, <3>1, StatementTypes DEF Create
    <3> QED BY <2>1, <3>2 DEF Create, Busy, local
  <2>2. CASE Cancel(t)
    <3>1. tasks' \in [Task -> Row]
      BY <1>0, <2>2, StatementTypes DEF Cancel
    <3> QED BY <2>2, <3>1 DEF Cancel, Busy, local
  <2>3. CASE SignalRead(t)
    BY <2>3 DEF SignalRead, Row, Busy, local
  <2>4. CASE SignalWrite(t)
    <3>1. signal[t] \in Cursor
      BY <2>4 DEF SignalWrite
    <3>2. tasks' \in [Task -> Row]
      BY <2>4, <3>1, StatementTypes DEF SignalWrite
    <3> QED BY <2>4, <3>2 DEF SignalWrite, Busy, local
  <2> QED BY <1>12, <2>1, <2>2, <2>3, <2>4 DEF Client
<1>13. ASSUME Tick PROVE TypeOK'
  <2>1. tasks' \in [Task -> Row]
    BY <1>13, ElapseType DEF Tick
  <2>2. elapsed' \in [Owner -> 0 .. RoundMax]
    BY <1>13, SchedulerAssumption DEF Tick
  <2> QED BY <1>13, <2>1, <2>2 DEF Tick, Busy, local
<1>14. ASSUME UNCHANGED vars PROVE TypeOK'
  BY <1>14 DEF vars, local, Busy
<1> QED
  BY <1>1, <1>2, <1>3, <1>4, <1>5, <1>6, <1>7, <1>8, <1>9, <1>10, <1>11, <1>12,
     <1>13, <1>14 DEF Next, LoopStep

\* Every variable keeps to its type, whatever the clock and the crashes do.
THEOREM TypeCorrect == Spec => []TypeOK
  BY TypeInit, TypeStep, PTL DEF Spec

-----------------------------------------------------------------------------
(* What each statement changes, and what it leaves alone. *)

LEMMA StatusEffect ==
  ASSUME tasks \in [Task -> Row], NEW t \in Task, NEW o, NEW st,
         UpdateTaskStatus(t, st) \/ UpdateTaskStatusOwned(t, o, st)
  PROVE  \A u \in Task : /\ tasks'[u].owner = tasks[u].owner
                         /\ tasks'[u].left = tasks[u].left
                         /\ tasks'[u].curr = tasks[u].curr
                         /\ \/ tasks'[u].status = tasks[u].status
                            \/ u = t /\ tasks'[u].status = st
<1>1. UpdateTaskStatus(t, st) \/ UNCHANGED tasks
  BY DEF UpdateTaskStatusOwned
<1>2. CASE UNCHANGED tasks
  BY <1>2
<1>3. CASE UpdateTaskStatus(t, st)
  BY <1>3 DEF UpdateTaskStatus, Row
<1> QED BY <1>1, <1>2, <1>3

LEMMA ProgressEffect ==
  ASSUME tasks \in [Task -> Row], NEW t \in Task, NEW n,
         UpdateTaskProgress(t, n)
  PROVE  \A u \in Task : /\ tasks'[u].owner = tasks[u].owner
                         /\ tasks'[u].left = tasks[u].left
                         /\ tasks'[u].status = tasks[u].status
                         /\ tasks'[u].curr = IF u = t THEN n ELSE tasks[u].curr
  BY DEF UpdateTaskProgress, Row

LEMMA ProgressOwnedEffect ==
  ASSUME tasks \in [Task -> Row], NEW t \in Task, NEW o, NEW n,
         UpdateTaskProgressOwned(t, o, n)
  PROVE  \A u \in Task : /\ tasks'[u].owner = tasks[u].owner
                         /\ tasks'[u].left = tasks[u].left
                         /\ tasks'[u].status = tasks[u].status
                         /\ tasks'[u].curr = IF u = t /\ Fenced(t, o)
                                             THEN n ELSE tasks[u].curr
  BY ProgressEffect DEF UpdateTaskProgressOwned

LEMMA LeaseEffect ==
  ASSUME tasks \in [Task -> Row], NEW t \in Task, NEW o, LeaseNextTask(t, o)
  PROVE  /\ tasks[t].status \in {"pending", "running"} /\ tasks[t].left < 0
         /\ tasks'[t].owner = o /\ tasks'[t].left = LeaseTTL
         /\ tasks'[t].status = "running" /\ tasks'[t].curr = tasks[t].curr
         /\ \A u \in Task : u # t => tasks'[u] = tasks[u]
  BY DEF LeaseNextTask, Leasable, Row

LEMMA ExtendEffect ==
  ASSUME tasks \in [Task -> Row], NEW t \in Task, NEW o, ExtendLease(t, o)
  PROVE  \A u \in Task : /\ tasks'[u].owner = tasks[u].owner
                         /\ tasks'[u].status = tasks[u].status
                         /\ tasks'[u].curr = tasks[u].curr
                         /\ tasks'[u].left = IF u = t /\ tasks[t].owner = o
                                             THEN LeaseTTL ELSE tasks[u].left
  BY DEF ExtendLease, Row

LEMMA CreateEffect ==
  ASSUME tasks \in [Task -> Row], NEW t \in Task, NEW n, CreateTask(t, n)
  PROVE  /\ tasks[t].status = "none"
         /\ tasks'[t].owner = NoOwner /\ tasks'[t].left = -1
         /\ tasks'[t].status = "pending" /\ tasks'[t].curr = n
         /\ \A u \in Task : u # t => tasks'[u] = tasks[u]
  BY DEF CreateTask, NoRow, Row

LEMMA ElapseEffect ==
  ASSUME tasks \in [Task -> Row], Elapse
  PROVE  \A u \in Task : /\ tasks'[u].owner = tasks[u].owner
                         /\ tasks'[u].status = tasks[u].status
                         /\ tasks'[u].curr = tasks[u].curr
                         /\ tasks'[u].left = IF tasks[u].left > -1
                                             THEN tasks[u].left - 1 ELSE -1
  BY DEF Elapse, Row

-----------------------------------------------------------------------------
(* Rows that exist and rows that do not. *)

\* A row that was never inserted has no lease, and no step undoes an insert.
Inserted ==
  /\ \A t \in Task : tasks[t].status = "none" => tasks[t].owner = NoOwner
  /\ \A s \in Owner : pc[s] = "status" => plan[s].status # "none"

LEMMA InsertedInit == Init => Inserted
  BY DEF Init, TaskTableInit, NoRow, Inserted

LEMMA InsertedStep == TypeOK /\ Inserted /\ [Next]_vars => Inserted'
<1> SUFFICES ASSUME TypeOK, Inserted, [Next]_vars PROVE Inserted'
  OBVIOUS
<1>0. /\ tasks \in [Task -> Row]
      /\ \A s \in Owner : Busy(s) => job[s] \in Task
      /\ pc \in [Owner -> Steps \cup {"idle", "down"}]
      /\ plan \in [Owner -> Plan]
  BY DEF TypeOK
<1>1. ASSUME NEW s \in Owner, LeaseNext(s) PROVE Inserted'
  <2>1. PICK t \in Task : LeaseNextTask(t, s)
    BY <1>1 DEF LeaseNext
  <2> QED BY <1>0, <1>1, <2>1, LeaseEffect DEF LeaseNext, Goto, Inserted
<1>2. ASSUME NEW s \in Owner, Extend(s) PROVE Inserted'
  <2>1. job[s] \in Task
    BY <1>0, <1>2 DEF Extend, Busy, Steps
  <2> QED BY <1>0, <1>2, <2>1, ExtendEffect DEF Extend, Goto, Inserted, local
<1>3. ASSUME NEW s \in Owner, RunOnce(s) PROVE Inserted'
  BY <1>0, <1>3 DEF RunOnce, Goto, Inserted
<1>4. ASSUME NEW s \in Owner, Execute(s) PROVE Inserted'
  <2>1. \A n, out : Finish(n, out).status # "none"
    BY DEF Finish
  <2> QED BY <1>0, <1>4, <2>1 DEF Execute, Goto, Inserted
<1>5. ASSUME NEW s \in Owner, WriteStatus(s) PROVE Inserted'
  <2>1. job[s] \in Task
    BY <1>0, <1>5 DEF WriteStatus, Busy, Steps
  <2>2. plan[s].status # "none"
    BY <1>5 DEF WriteStatus, Inserted
  <2>3. \A u \in Task : /\ tasks'[u].owner = tasks[u].owner
                        /\ tasks'[u].status = "none" => tasks[u].status = "none"
    BY <1>0, <1>5, <2>1, <2>2, StatusEffect DEF WriteStatus
  <2> QED BY <1>0, <1>5, <2>3 DEF WriteStatus, Goto, Inserted, local
<1>6. ASSUME NEW s \in Owner, WriteProgress(s) PROVE Inserted'
  <2>1. job[s] \in Task
    BY <1>0, <1>6 DEF WriteProgress, Busy, Steps
  <2> QED BY <1>0, <1>6, <2>1, ProgressOwnedEffect DEF WriteProgress, Goto, Inserted, local
<1>7. ASSUME NEW s \in Owner, RecordCancel(s) PROVE Inserted'
  BY <1>0, <1>7 DEF RecordCancel, Goto, Inserted, local
<1>8. ASSUME NEW s \in Owner, Check(s) PROVE Inserted'
  BY <1>0, <1>8 DEF Check, Forget, Goto, Inserted
<1>9. ASSUME NEW s \in Owner, MarkFailed(s) PROVE Inserted'
  <2>1. job[s] \in Task
    BY <1>0, <1>9 DEF MarkFailed, Busy, Steps
  <2>2. UpdateTaskStatus(job[s], "failed")
    BY <1>9 DEF MarkFailed
  <2>3. \A u \in Task : /\ tasks'[u].owner = tasks[u].owner
                        /\ tasks'[u].status = "none" => tasks[u].status = "none"
    BY <1>0, <2>1, <2>2, StatusEffect
  <2>4. \A r \in Owner : pc'[r] = "status" => pc[r] = "status" /\ plan'[r] = plan[r]
    BY <1>0, <1>9 DEF MarkFailed, Forget, Goto
  <2> QED BY <2>3, <2>4 DEF Inserted
<1>10. ASSUME NEW s \in Owner, Crash(s) \/ Restart(s) PROVE Inserted'
  BY <1>0, <1>10 DEF Crash, Restart, Forget, Goto, Inserted, local
<1>11. ASSUME NEW t \in Task, Client(t) PROVE Inserted'
  <2>1. CASE Create(t)
    BY <1>0, <2>1, CreateEffect DEF Create, Inserted, local
  <2>2. CASE Cancel(t)
    <3>1. UpdateTaskStatus(t, "canceling") /\ UNCHANGED <<pc, plan>>
      BY <2>2 DEF Cancel, local
    <3>2. \A u \in Task : /\ tasks'[u].owner = tasks[u].owner
                          /\ tasks'[u].status = "none" => tasks[u].status = "none"
      BY <1>0, <3>1, StatusEffect
    <3> QED BY <3>1, <3>2 DEF Inserted
  <2>3. CASE SignalRead(t)
    BY <2>3 DEF SignalRead, Inserted, local
  <2>4. CASE SignalWrite(t)
    BY <1>0, <2>4, ProgressEffect DEF SignalWrite, Inserted, local
  <2> QED BY <1>11, <2>1, <2>2, <2>3, <2>4 DEF Client
<1>12. ASSUME Tick PROVE Inserted'
  BY <1>0, <1>12, ElapseEffect DEF Tick, Inserted, local
<1>13. ASSUME UNCHANGED vars PROVE Inserted'
  BY <1>13 DEF vars, local, Inserted
<1> QED
  BY <1>1, <1>2, <1>3, <1>4, <1>5, <1>6, <1>7, <1>8, <1>9, <1>10, <1>11, <1>12,
     <1>13 DEF Next, LoopStep

-----------------------------------------------------------------------------
(* The leases exclude. *)

LEMMA LeaseHeldInit == Init => LeaseHeld
  BY DEF Init, LeaseHeld, Busy, Steps

LEMMA LeaseHeldStep ==
  ASSUME RoundMax <= LeaseTTL, TypeOK, Inserted, LeaseHeld, [Next]_vars
  PROVE  LeaseHeld'
<1>0. /\ tasks \in [Task -> Row]
      /\ \A s \in Owner : Busy(s) => job[s] \in Task
      /\ pc \in [Owner -> Steps \cup {"idle", "down"}]
      /\ job \in [Owner -> Task \cup {NoTask}]
      /\ elapsed \in [Owner -> 0 .. RoundMax]
      /\ RoundMax \in Nat /\ LeaseTTL \in Nat
  BY TaskTableAssumption, SchedulerAssumption DEF TypeOK
\* What a busy scheduler holds is not expired, and no other one holds it.
<1>h. \A s \in Owner : Busy(s) =>
        /\ tasks[job[s]].left >= 0
        /\ \A r \in Owner : Busy(r) /\ job[r] = job[s] => r = s
  BY <1>0 DEF LeaseHeld
\* Steps that leave owners, leases and the schedulers' hold as they are.
<1>u. ASSUME \A u \in Task : /\ tasks'[u].owner = tasks[u].owner
                             /\ tasks'[u].left = tasks[u].left,
             \A r \in Owner : /\ Busy(r)' => Busy(r) /\ job'[r] = job[r]
                                              /\ elapsed'[r] = elapsed[r]
                              /\ ~Busy(r)' => elapsed'[r] = 0
      PROVE  LeaseHeld'
  BY <1>0, <1>u DEF LeaseHeld
<1>1. ASSUME NEW s \in Owner, LeaseNext(s) PROVE LeaseHeld'
  <2>1. PICK t \in Task : LeaseNextTask(t, s) /\ job' = [job EXCEPT ![s] = t]
    BY <1>1 DEF LeaseNext
  <2>2. /\ tasks[t].left < 0 /\ tasks'[t].owner = s /\ tasks'[t].left = LeaseTTL
        /\ \A u \in Task : u # t => tasks'[u] = tasks[u]
    BY <1>0, <2>1, LeaseEffect
  <2>3. elapsed[s] = 0 /\ elapsed' = elapsed
    BY <1>1 DEF LeaseNext, LeaseHeld, Busy, Steps
  <2>4. \A r \in Owner : r # s => (Busy(r)' <=> Busy(r)) /\ job'[r] = job[r]
    BY <1>0, <1>1, <2>1 DEF LeaseNext, Goto, Busy
  <2>5. Busy(s)' /\ job'[s] = t
    BY <1>0, <1>1, <2>1 DEF LeaseNext, Goto, Busy, Steps
  <2>6. \A r \in Owner : r # s /\ Busy(r) => job[r] # t
    BY <1>0, <1>h, <2>2 DEF Row
  <2> QED BY <1>0, <2>2, <2>3, <2>4, <2>5, <2>6 DEF LeaseHeld
<1>2. ASSUME NEW s \in Owner, Extend(s) PROVE LeaseHeld'
  <2>1. job[s] \in Task /\ Busy(s)
    BY <1>0, <1>2 DEF Extend, Busy, Steps
  <2>2. tasks[job[s]].owner = s
    BY <2>1 DEF LeaseHeld
  <2>3. \A u \in Task :
          /\ tasks'[u].owner = tasks[u].owner
          /\ tasks'[u].left = IF u = job[s] THEN LeaseTTL ELSE tasks[u].left
    BY <1>0, <1>2, <2>1, <2>2, ExtendEffect DEF Extend
  <2>4. \A r \in Owner : (Busy(r)' <=> Busy(r)) /\ job'[r] = job[r]
    BY <1>0, <1>2 DEF Extend, Goto, Busy, Steps, local
  <2>5. \A r \in Owner : elapsed'[r] = IF r = s THEN 0 ELSE elapsed[r]
    BY <1>0, <1>2 DEF Extend
  <2> QED BY <1>0, <1>h, <2>1, <2>2, <2>3, <2>4, <2>5 DEF LeaseHeld
<1>3. ASSUME NEW s \in Owner, RunOnce(s) \/ Execute(s) \/ RecordCancel(s)
      PROVE  LeaseHeld'
  <2>1. UNCHANGED <<tasks, job, elapsed>>
    BY <1>3 DEF RunOnce, Execute, RecordCancel, local
  <2>2. \A r \in Owner : Busy(r)' <=> Busy(r)
    BY <1>0, <1>3 DEF RunOnce, Execute, RecordCancel, Goto, Busy, Steps
  <2> QED BY <2>1, <2>2 DEF LeaseHeld
<1>4. ASSUME NEW s \in Owner, WriteStatus(s) \/ WriteProgress(s) PROVE LeaseHeld'
  <2>1. job[s] \in Task
    BY <1>0, <1>4 DEF WriteStatus, WriteProgress, Busy, Steps
  <2>2. \A u \in Task : /\ tasks'[u].owner = tasks[u].owner
                        /\ tasks'[u].left = tasks[u].left
    BY <1>0, <1>4, <2>1, StatusEffect, ProgressOwnedEffect
    DEF WriteStatus, WriteProgress
  <2>3. UNCHANGED <<job, elapsed>> /\ \A r \in Owner : Busy(r)' <=> Busy(r)
    BY <1>0, <1>4 DEF WriteStatus, WriteProgress, Goto, Busy, Steps, local
  <2> QED BY <2>2, <2>3, <1>u DEF LeaseHeld
<1>5. ASSUME NEW s \in Owner, Check(s) \/ MarkFailed(s) \/ Crash(s) PROVE LeaseHeld'
  <2>1. \A u \in Task : /\ tasks'[u].owner = tasks[u].owner
                        /\ tasks'[u].left = tasks[u].left
    <3>1. CASE MarkFailed(s)
      <4>1. job[s] \in Task
        BY <1>0, <3>1 DEF MarkFailed, Busy, Steps
      <4> QED BY <1>0, <3>1, <4>1, StatusEffect DEF MarkFailed
    <3>2. CASE Check(s) \/ Crash(s)
      BY <3>2 DEF Check, Crash
    <3> QED BY <1>5, <3>1, <3>2
  <2>2. \A r \in Owner : r # s =>
          /\ Busy(r)' <=> Busy(r)
          /\ job'[r] = job[r] /\ elapsed'[r] = elapsed[r]
    BY <1>0, <1>5 DEF Check, MarkFailed, Crash, Forget, Goto, Busy
  <2>3. \/ Busy(s) /\ Busy(s)' /\ job'[s] = job[s] /\ elapsed'[s] = elapsed[s]
        \/ ~Busy(s)' /\ elapsed'[s] = 0
    BY <1>0, <1>5 DEF Check, MarkFailed, Crash, Forget, Goto, Busy, Steps
  <2> QED BY <1>u, <2>1, <2>2, <2>3 DEF LeaseHeld
<1>6. ASSUME NEW s \in Owner, Restart(s) PROVE LeaseHeld'
  BY <1>0, <1>6 DEF Restart, Goto, Busy, Steps, local, LeaseHeld
<1>7. ASSUME NEW t \in Task, Client(t) PROVE LeaseHeld'
  <2>1. UNCHANGED <<pc, job, elapsed>>
    BY <1>7 DEF Client, Create, Cancel, SignalRead, SignalWrite, local
  <2>2. \A r \in Owner : Busy(r)' <=> Busy(r)
    BY <2>1 DEF Busy
  <2>3. CASE Create(t)
    <3>1. /\ tasks[t].status = "none"
          /\ \A u \in Task : u # t => tasks'[u] = tasks[u]
      BY <1>0, <2>3, CreateEffect DEF Create
    <3>2. \A r \in Owner : Busy(r) => job[r] # t
      BY <1>0, <3>1, TaskTableAssumption DEF Inserted, LeaseHeld
    <3> QED BY <1>0, <2>1, <2>2, <3>1, <3>2 DEF LeaseHeld
  <2>4. CASE Cancel(t) \/ SignalRead(t) \/ SignalWrite(t)
    <3>1. \A u \in Task : /\ tasks'[u].owner = tasks[u].owner
                          /\ tasks'[u].left = tasks[u].left
      BY <1>0, <2>4, StatusEffect, ProgressEffect DEF Cancel, SignalRead, SignalWrite
    <3> QED BY <2>1, <2>2, <3>1, <1>u DEF LeaseHeld
  <2> QED BY <1>7, <2>3, <2>4 DEF Client
<1>8. ASSUME Tick PROVE LeaseHeld'
  <2>1. UNCHANGED <<pc, job>> /\ \A r \in Owner : Busy(r)' <=> Busy(r)
    BY <1>8 DEF Tick, local, Busy
  <2>2. \A r \in Owner : Busy(r) =>
          elapsed[r] < RoundMax /\ elapsed'[r] = elapsed[r] + 1
    BY <1>0, <1>8 DEF Tick
  <2>3. \A r \in Owner : ~Busy(r) => elapsed'[r] = 0
    BY <1>0, <1>8 DEF Tick, LeaseHeld
  <2>4. \A r \in Owner : Busy(r) =>
          /\ tasks[job[r]].left = LeaseTTL - elapsed[r]
          /\ tasks[job[r]].left > 0
    BY <1>0, <2>2 DEF LeaseHeld
  <2>5. \A u \in Task :
          /\ tasks'[u].owner = tasks[u].owner
          /\ tasks[u].left > 0 => tasks'[u].left = tasks[u].left - 1
    BY <1>0, <1>8, ElapseEffect DEF Tick, Row
  <2>6. ASSUME NEW r \in Owner, Busy(r)
        PROVE  /\ tasks'[job'[r]].owner = r
               /\ tasks'[job'[r]].left = LeaseTTL - elapsed'[r]
    <3>1. job[r] \in Task /\ job'[r] = job[r] /\ tasks[job[r]].owner = r
      BY <1>0, <2>1, <2>6 DEF LeaseHeld
    <3>2. tasks'[job[r]].left = LeaseTTL - elapsed[r] - 1
      BY <2>4, <2>5, <2>6, <3>1
    <3>3. elapsed[r] \in Nat /\ elapsed'[r] = elapsed[r] + 1
      BY <1>0, <2>2, <2>6
    <3>4. LeaseTTL - elapsed[r] - 1 = LeaseTTL - elapsed'[r]
      BY <1>0, <3>3
    <3>5. tasks'[job[r]].owner = r
      BY <2>5, <3>1
    <3> QED BY <3>1, <3>2, <3>4, <3>5
  <2> QED BY <2>1, <2>3, <2>6 DEF LeaseHeld
<1>9. ASSUME UNCHANGED vars PROVE LeaseHeld'
  BY <1>9 DEF vars, local, LeaseHeld, Busy
<1> QED
  BY <1>1, <1>2, <1>3, <1>4, <1>5, <1>6, <1>7, <1>8, <1>9 DEF Next, LoopStep

\* While no round outlasts the lease, whoever holds a task owns its lease.
THEOREM LeaseHeldAlways ==
  ASSUME RoundMax <= LeaseTTL
  PROVE  Spec => []LeaseHeld
<1>1. TypeOK /\ Inserted /\ LeaseHeld /\ [Next]_vars
        => TypeOK' /\ Inserted' /\ LeaseHeld'
  BY TypeStep, InsertedStep, LeaseHeldStep
<1>2. Init => TypeOK /\ Inserted /\ LeaseHeld
  BY TypeInit, InsertedInit, LeaseHeldInit
<1> QED BY <1>1, <1>2, PTL DEF Spec

\* While no round outlasts the lease, no two schedulers work on one task.
THEOREM Exclusive ==
  ASSUME RoundMax <= LeaseTTL
  PROVE  Spec => []ExclusiveExecution
<1>1. LeaseHeld => ExclusiveExecution
  BY DEF LeaseHeld, ExclusiveExecution
<1> QED BY <1>1, LeaseHeldAlways, PTL

\* While every round is shorter than the lease, no write of a step is dropped.
THEOREM StepsAreKept ==
  ASSUME RoundMax < LeaseTTL
  PROVE  Spec => []NoLostWork
<1>1. TypeOK /\ LeaseHeld => NoLostWork
  <2> SUFFICES ASSUME TypeOK, LeaseHeld, NEW s \in Owner,
                      pc[s] \in {"status", "progress"}
               PROVE  Fenced(job[s], s)
    BY DEF NoLostWork
  <2>1. Busy(s) /\ elapsed[s] \in 0 .. RoundMax
    BY DEF TypeOK, Busy, Steps
  <2>2. /\ tasks[job[s]].owner = s
        /\ tasks[job[s]].left = LeaseTTL - elapsed[s]
    BY <2>1 DEF LeaseHeld
  <2>3. RoundMax \in Nat /\ LeaseTTL \in Nat
    BY TaskTableAssumption, SchedulerAssumption
  <2> QED BY <2>1, <2>2, <2>3 DEF Fenced
<1>2. RoundMax <= LeaseTTL
  BY TaskTableAssumption, SchedulerAssumption
<1> QED BY <1>1, <1>2, LeaseHeldAlways, TypeCorrect, PTL

\* The reason a scheduler has to mark its task failed.
FlowIsBad == \A s \in Owner : pc[s] = "mark_failed" => job[s] \in BadFlow

LEMMA FlowIsBadStep ==
  ASSUME RoundMax < LeaseTTL, TypeOK, LeaseHeld, FlowIsBad, [Next]_vars
  PROVE  FlowIsBad'
<1>0. /\ pc \in [Owner -> Steps \cup {"idle", "down"}]
      /\ job \in [Owner -> Task \cup {NoTask}]
      /\ \A s \in Owner : elapsed[s] \in 0 .. RoundMax
      /\ RoundMax \in Nat /\ LeaseTTL \in Nat
  BY TaskTableAssumption, SchedulerAssumption DEF TypeOK
<1>1. ASSUME NEW s \in Owner, RunOnce(s) PROVE FlowIsBad'
  <2>1. Fenced(job[s], s)
    <3>1. Busy(s)
      BY <1>1 DEF RunOnce, Busy, Steps
    <3>2. /\ tasks[job[s]].owner = s
          /\ tasks[job[s]].left = LeaseTTL - elapsed[s]
      BY <3>1 DEF LeaseHeld
    <3> QED BY <1>0, <3>2 DEF Fenced
  <2> QED BY <1>0, <1>1, <2>1 DEF RunOnce, Goto, FlowIsBad
<1>2. ASSUME NEW s \in Owner,
             \/ LeaseNext(s) \/ Extend(s) \/ Execute(s) \/ WriteStatus(s)
             \/ WriteProgress(s) \/ RecordCancel(s)
      PROVE  FlowIsBad'
  BY <1>0, <1>2 DEF LeaseNext, Extend, Execute, WriteStatus, WriteProgress,
                    RecordCancel, Goto, FlowIsBad, local
<1>3. ASSUME NEW s \in Owner, Check(s) \/ MarkFailed(s) \/ Crash(s) \/ Restart(s)
      PROVE  FlowIsBad'
  BY <1>0, <1>3 DEF Check, MarkFailed, Crash, Restart, Forget, Goto, FlowIsBad, local
<1>4. ASSUME NEW t \in Task, Client(t) PROVE FlowIsBad'
  BY <1>4 DEF Client, Create, Cancel, SignalRead, SignalWrite, FlowIsBad, local
<1>5. ASSUME Tick \/ UNCHANGED vars PROVE FlowIsBad'
  BY <1>5 DEF Tick, vars, FlowIsBad, local
<1> QED BY <1>1, <1>2, <1>3, <1>4, <1>5 DEF Next, LoopStep

\* While every round is shorter than the lease, the loop fails a task only for
\* a flow that does not load, and while it owns the task.
THEOREM FailuresAreTheEngines ==
  ASSUME RoundMax < LeaseTTL
  PROVE  Spec => []FailsOnlyOnEngineError
<1>1. Init => FlowIsBad
  BY DEF Init, FlowIsBad
<1>2. TypeOK /\ LeaseHeld /\ FlowIsBad /\ [Next]_vars => FlowIsBad'
  BY FlowIsBadStep
<1>3. LeaseHeld /\ FlowIsBad => FailsOnlyOnEngineError
  BY DEF LeaseHeld, FlowIsBad, FailsOnlyOnEngineError, Busy, Steps
<1>4. RoundMax <= LeaseTTL
  BY TaskTableAssumption, SchedulerAssumption
<1> QED BY <1>1, <1>2, <1>3, <1>4, LeaseHeldAlways, TypeCorrect, PTL DEF Spec

-----------------------------------------------------------------------------
(* The fence on the cursor, whatever the clock does. *)

\* Only a task that clients signal has a signal in flight.
SignalsExpected == \A t \in Task : signal[t] # NoSignal => t \in Signaled

LEMMA SignalsExpectedStep ==
  TypeOK /\ SignalsExpected /\ [Next]_vars => SignalsExpected'
<1> SUFFICES ASSUME TypeOK, SignalsExpected, [Next]_vars PROVE SignalsExpected'
  OBVIOUS
<1>1. signal \in [Task -> Cursor \cup {NoSignal}]
  BY DEF TypeOK
<1>2. UNCHANGED signal \/ \E t \in Task : SignalRead(t) \/ SignalWrite(t)
  BY DEF Next, LoopStep, Client, LeaseNext, Extend, RunOnce, Execute, WriteStatus,
         WriteProgress, RecordCancel, Check, MarkFailed, Crash, Restart, Create,
         Cancel, Tick, vars
<1>3. CASE UNCHANGED signal
  BY <1>3 DEF SignalsExpected
<1>4. CASE \E t \in Task : SignalRead(t) \/ SignalWrite(t)
  BY <1>1, <1>4 DEF SignalRead, SignalWrite, SignalsExpected
<1> QED BY <1>2, <1>3, <1>4

LEMMA FencedCursorStep ==
  ASSUME TypeOK, Inserted, SignalsExpected, FencedCursor, [Next]_vars
  PROVE  FencedCursor'
<1> DEFINE Mid(s) == pc[s] \in {"exec", "status", "progress"}
<1>0. /\ tasks \in [Task -> Row]
      /\ \A s \in Owner : Busy(s) => job[s] \in Task
      /\ pc \in [Owner -> Steps \cup {"idle", "down"}]
      /\ job \in [Owner -> Task \cup {NoTask}]
      /\ seen \in [Owner -> Cursor]
  BY DEF TypeOK
<1>t. \A s \in Owner : Mid(s) => job[s] \in Task
  BY <1>0 DEF Busy, Steps
\* Steps after which whoever is in a step was in it before, on the same node,
\* and which move no owner and no cursor.
<1>u. ASSUME \A r \in Owner : Mid(r)' =>
               Mid(r) /\ job'[r] = job[r] /\ seen'[r] = seen[r],
             \A r \in Owner : Mid(r) /\ job[r] \notin Signaled
                              /\ tasks'[job[r]].owner = r =>
               /\ tasks[job[r]].owner = r
               /\ tasks'[job[r]].curr = tasks[job[r]].curr
      PROVE  FencedCursor'
  BY <1>0, <1>t, <1>u DEF FencedCursor
<1>1. ASSUME NEW s \in Owner, LeaseNext(s) PROVE FencedCursor'
  <2>1. PICK t \in Task : LeaseNextTask(t, s)
    BY <1>1 DEF LeaseNext
  <2>2. \A r \in Owner : Mid(r)' => r # s /\ Mid(r) /\ job'[r] = job[r] /\ seen'[r] = seen[r]
    BY <1>0, <1>1 DEF LeaseNext, Goto
  <2>3. \A r \in Owner : Mid(r) => r # s
    BY <1>1 DEF LeaseNext
  <2>4. /\ tasks'[t].owner = s
        /\ \A u \in Task : u # t => tasks'[u] = tasks[u]
    BY <1>0, <2>1, LeaseEffect
  <2> QED BY <1>t, <1>u, <2>2, <2>3, <2>4
<1>2. ASSUME NEW s \in Owner, Extend(s) PROVE FencedCursor'
  <2>1. job[s] \in Task
    BY <1>0, <1>2 DEF Extend, Busy, Steps
  <2>2. \A u \in Task : /\ tasks'[u].owner = tasks[u].owner
                        /\ tasks'[u].curr = tasks[u].curr
    BY <1>0, <1>2, <2>1, ExtendEffect DEF Extend
  <2>3. \A r \in Owner : Mid(r)' => Mid(r) /\ job'[r] = job[r] /\ seen'[r] = seen[r]
    BY <1>0, <1>2 DEF Extend, Goto, local
  <2> QED BY <1>t, <1>u, <2>2, <2>3
<1>3. ASSUME NEW s \in Owner, RunOnce(s) PROVE FencedCursor'
  BY <1>0, <1>3 DEF RunOnce, Goto, FencedCursor
<1>4. ASSUME NEW s \in Owner, Execute(s) \/ RecordCancel(s) \/ Check(s) \/ Crash(s) \/ Restart(s)
      PROVE  FencedCursor'
  <2>1. UNCHANGED tasks
    BY <1>4 DEF Execute, RecordCancel, Check, Crash, Restart
  <2>2. \A r \in Owner : Mid(r)' => Mid(r) /\ job'[r] = job[r] /\ seen'[r] = seen[r]
    BY <1>0, <1>4 DEF Execute, RecordCancel, Check, Crash, Restart, Forget, Goto, local
  <2> QED BY <1>u, <2>1, <2>2
<1>5. ASSUME NEW s \in Owner, WriteStatus(s) PROVE FencedCursor'
  <2>1. job[s] \in Task
    BY <1>t, <1>5 DEF WriteStatus
  <2>2. \A u \in Task : /\ tasks'[u].owner = tasks[u].owner
                        /\ tasks'[u].curr = tasks[u].curr
    BY <1>0, <1>5, <2>1, StatusEffect DEF WriteStatus
  <2>3. \A r \in Owner : Mid(r)' => Mid(r) /\ job'[r] = job[r] /\ seen'[r] = seen[r]
    BY <1>0, <1>5 DEF WriteStatus, Goto, local
  <2> QED BY <1>t, <1>u, <2>2, <2>3
<1>6. ASSUME NEW s \in Owner, WriteProgress(s) PROVE FencedCursor'
  <2>1. job[s] \in Task
    BY <1>t, <1>6 DEF WriteProgress
  <2>2. \A u \in Task :
          /\ tasks'[u].owner = tasks[u].owner
          /\ tasks'[u].curr # tasks[u].curr => tasks[u].owner = s
    BY <1>0, <1>6, <2>1, ProgressOwnedEffect DEF WriteProgress, Fenced
  <2>3. \A r \in Owner : Mid(r)' =>
          r # s /\ Mid(r) /\ job'[r] = job[r] /\ seen'[r] = seen[r]
    BY <1>0, <1>6 DEF WriteProgress, Goto, local
  <2> QED BY <1>0, <1>t, <2>2, <2>3 DEF FencedCursor
<1>7. ASSUME NEW s \in Owner, MarkFailed(s) PROVE FencedCursor'
  <2>1. job[s] \in Task
    BY <1>0, <1>7 DEF MarkFailed, Busy, Steps
  <2>2. \A u \in Task : /\ tasks'[u].owner = tasks[u].owner
                        /\ tasks'[u].curr = tasks[u].curr
    BY <1>0, <1>7, <2>1, StatusEffect DEF MarkFailed
  <2>3. \A r \in Owner : Mid(r)' => Mid(r) /\ job'[r] = job[r] /\ seen'[r] = seen[r]
    BY <1>0, <1>7 DEF MarkFailed, Forget, Goto
  <2> QED BY <1>t, <1>u, <2>2, <2>3
<1>8. ASSUME NEW t \in Task, Client(t) PROVE FencedCursor'
  <2>1. \A r \in Owner : Mid(r)' => Mid(r) /\ job'[r] = job[r] /\ seen'[r] = seen[r]
    BY <1>8 DEF Client, Create, Cancel, SignalRead, SignalWrite, local
  <2>2. CASE Create(t)
    <3>1. /\ tasks'[t].owner = NoOwner
          /\ \A u \in Task : u # t => tasks'[u] = tasks[u]
      BY <1>0, <2>2, CreateEffect DEF Create
    <3> QED BY <1>t, <1>u, <2>1, <3>1, TaskTableAssumption
  <2>3. CASE Cancel(t) \/ SignalRead(t)
    <3>1. \A u \in Task : /\ tasks'[u].owner = tasks[u].owner
                          /\ tasks'[u].curr = tasks[u].curr
      BY <1>0, <2>3, StatusEffect DEF Cancel, SignalRead
    <3> QED BY <1>t, <1>u, <2>1, <3>1
  <2>4. CASE SignalWrite(t)
    <3>1. t \in Signaled
      BY <2>4 DEF SignalWrite, SignalsExpected
    <3>2. \A u \in Task : /\ tasks'[u].owner = tasks[u].owner
                          /\ u # t => tasks'[u].curr = tasks[u].curr
      BY <1>0, <2>4, ProgressEffect DEF SignalWrite
    <3> QED BY <1>t, <1>u, <2>1, <3>1, <3>2
  <2> QED BY <1>8, <2>2, <2>3, <2>4 DEF Client
<1>9. ASSUME Tick PROVE FencedCursor'
  <2>1. \A u \in Task : /\ tasks'[u].owner = tasks[u].owner
                        /\ tasks'[u].curr = tasks[u].curr
    BY <1>0, <1>9, ElapseEffect DEF Tick
  <2> QED BY <1>t, <1>u, <1>9, <2>1 DEF Tick, local
<1>10. ASSUME UNCHANGED vars PROVE FencedCursor'
  BY <1>10 DEF vars, local, FencedCursor
<1> QED
  BY <1>1, <1>2, <1>3, <1>4, <1>5, <1>6, <1>7, <1>8, <1>9, <1>10 DEF Next, LoopStep

\* However long steps take and whoever crashes: a row that still names the
\* scheduler as its owner still has the cursor the scheduler read.
THEOREM CursorIsFenced == Spec => []FencedCursor
<1>1. Init => TypeOK /\ Inserted /\ SignalsExpected /\ FencedCursor
  <2>1. Init => SignalsExpected /\ FencedCursor
    BY DEF Init, SignalsExpected, FencedCursor
  <2> QED BY <2>1, TypeInit, InsertedInit
<1>2. TypeOK /\ Inserted /\ SignalsExpected /\ FencedCursor /\ [Next]_vars
        => TypeOK' /\ Inserted' /\ SignalsExpected' /\ FencedCursor'
  BY TypeStep, InsertedStep, SignalsExpectedStep, FencedCursorStep
<1> QED BY <1>1, <1>2, PTL DEF Spec
=============================================================================
