-------------------------- MODULE SchedulerWorkProofs --------------------------
(***************************************************************************)
(* Theorems about the work on one task, while rounds do not outlast the    *)
(* lease: a finished task stays finished, and Scheduler implements         *)
(* ExclusiveWork.                                                          *)
(***************************************************************************)
EXTENDS SchedulerRecordProofs

\* A task is not over while its scheduler has still to execute it.
WorkIsOpen ==
  \A s \in Owner :
    pc[s] \in {"extend", "run", "exec", "status", "mark_failed"} =>
      tasks[job[s]].status \notin {"completed", "failed"}

\* A canceled task of which the clients move no cursor: the scheduler that
\* canceled it is past its status write, and empties the cursor.
CanceledIsEmptied ==
  \A s \in Owner :
    /\ Writes(s) /\ plan[s].status = "canceled" => plan[s].next = NoNode
    /\ Busy(s) /\ job[s] \notin Signaled /\ tasks[job[s]].status = "canceled" =>
         \/ pc[s] = "progress" /\ plan[s].status = "canceled"
         \/ pc[s] \in {"record", "check"} /\ tasks[job[s]].curr = NoNode

-----------------------------------------------------------------------------
(* A finished task stays finished. *)

LEMMA OneHolder ==
  ASSUME LeaseHeld, NEW r \in Owner, NEW s \in Owner, Busy(r), Busy(s), job[r] = job[s]
  PROVE  r = s
  BY DEF LeaseHeld

LEMMA WorkIsOpenStep ==
  ASSUME TypeOK, SignalsExpected, LeaseHeld, WorkIsOpen, [Next]_vars
  PROVE  WorkIsOpen'
<1>0. /\ pc \in [Owner -> Steps \cup {"idle", "down"}]
      /\ job \in [Owner -> Task \cup {NoTask}]
      /\ \A r \in Owner : Busy(r) => job[r] \in Task
  BY DEF TypeOK
<1> SUFFICES ASSUME NEW s \in Owner,
                    pc'[s] \in {"extend", "run", "exec", "status", "mark_failed"}
             PROVE  tasks'[job'[s]].status \notin {"completed", "failed"}
  BY DEF WorkIsOpen
<1>1. CASE LeaseNext(s)
  <2>1. \E t \in Task : job'[s] = t /\ tasks'[t].status = "running"
    BY <1>1, LeaseMoves
  <2> QED BY <2>1
<1>2. CASE Check(s)
  <2>1. ~Released(job[s]) /\ job'[s] = job[s] /\ UNCHANGED tasks
    BY <1>0, <1>2 DEF Check, Goto
  <2> QED BY <2>1 DEF Released
<1>3. CASE Extend(s)
  <2>1. pc[s] = "extend" /\ job[s] \in Task /\ job'[s] = job[s]
    BY <1>0, <1>3 DEF Extend, Busy, Steps, local
  <2>2. tasks'[job[s]].status = tasks[job[s]].status
    BY <1>3, <2>1, ExtendEffect DEF Extend, TypeOK
  <2> QED BY <2>1, <2>2 DEF WorkIsOpen
<1>4. CASE RunOnce(s) \/ Execute(s)
  <2>1. pc[s] \in {"run", "exec"} /\ job'[s] = job[s] /\ UNCHANGED tasks
    BY <1>4 DEF RunOnce, Execute
  <2> QED BY <2>1 DEF WorkIsOpen
<1>5. ~(WriteStatus(s) \/ WriteProgress(s) \/ RecordCancel(s) \/ MarkFailed(s)
        \/ Crash(s) \/ Restart(s))
  BY <1>0 DEF WriteStatus, WriteProgress, RecordCancel, MarkFailed, Crash, Restart, Goto
<1>6. ASSUME pc'[s] = pc[s], job'[s] = job[s]
      PROVE  tasks'[job[s]].status \notin {"completed", "failed"}
  <2>1. /\ Busy(s) /\ job[s] \in Task
        /\ tasks[job[s]].status \notin {"completed", "failed"}
    BY <1>0, <1>6 DEF WorkIsOpen, Busy, Steps
  <2>2. ASSUME NEW r \in Owner, LoopStep(r)
        PROVE  tasks'[job[s]].status \in {tasks[job[s]].status, "running"}
    <3>1. WriteStatus(r) \/ MarkFailed(r) => Busy(r)
      BY DEF WriteStatus, MarkFailed, Busy, Steps
    <3>2. (WriteStatus(r) \/ MarkFailed(r)) /\ r # s => job[r] # job[s]
      BY <2>1, <3>1, OneHolder
    <3>3. r = s => ~WriteStatus(r) /\ ~MarkFailed(r)
      BY <1>5
    <3> QED BY <2>1, <2>2, <3>2, <3>3, LoopMoves
  <2>3. CASE \A r \in Owner : ~LoopStep(r)
    <3>1. tasks'[job[s]].status \in {tasks[job[s]].status, "pending", "canceling"}
      BY <2>1, <2>3, OutsideMoves
    <3> QED BY <2>1, <3>1
  <2>4. CASE \E r \in Owner : LoopStep(r)
    BY <2>1, <2>2, <2>4
  <2> QED BY <2>3, <2>4
<1> QED BY <1>1, <1>2, <1>3, <1>4, <1>5, <1>6, OthersKept DEF LoopStep

LEMMA CanceledIsEmptiedStep ==
  ASSUME TypeOK, SignalsExpected, LeaseHeld, NoLostWork, CanceledIsEmptied, [Next]_vars
  PROVE  CanceledIsEmptied'
<1>0. /\ pc \in [Owner -> Steps \cup {"idle", "down"}] /\ plan \in [Owner -> Plan]
      /\ job \in [Owner -> Task \cup {NoTask}] /\ tasks \in [Task -> Row]
      /\ \A r \in Owner : Busy(r) => job[r] \in Task
  BY DEF TypeOK
<1>1. ASSUME NEW s \in Owner, Writes(s)', plan'[s].status = "canceled"
      PROVE  plan'[s].next = NoNode
  <2>1. CASE Writes(s) /\ plan'[s] = plan[s]
    BY <1>1, <2>1 DEF CanceledIsEmptied
  <2>2. CASE RunOnce(s)
    BY <1>0, <1>1, <2>2 DEF RunOnce, Goto, Writes
  <2>3. CASE Execute(s)
    <3>1. PICK out \in Emits[seen[s]] : plan' = [plan EXCEPT ![s] = Finish(seen[s], out)]
      BY <1>0, <1>1, <2>3 DEF Execute, Writes
    <3>2. plan'[s] = Finish(seen[s], out)
      BY <1>0, <3>1
    <3> QED BY <1>1, <3>2 DEF Finish
  <2>4. CASE WriteStatus(s)
    BY <2>1, <2>4 DEF WriteStatus, Writes, local
  <2>5. ~(LeaseNext(s) \/ Extend(s) \/ WriteProgress(s) \/ RecordCancel(s) \/ Check(s)
          \/ MarkFailed(s) \/ Crash(s) \/ Restart(s))
    BY <1>0, <1>1 DEF LeaseNext, Extend, WriteProgress, RecordCancel, Check, MarkFailed,
                      Crash, Restart, Goto, Writes
  <2>6. CASE pc'[s] = pc[s] /\ plan'[s] = plan[s]
    BY <1>1, <2>1, <2>6 DEF Writes
  <2> QED BY <2>2, <2>3, <2>4, <2>5, <2>6, OthersKept DEF LoopStep
<1>2. ASSUME NEW s \in Owner, Busy(s)', job'[s] \notin Signaled,
             tasks'[job'[s]].status = "canceled"
      PROVE  \/ pc'[s] = "progress" /\ plan'[s].status = "canceled"
             \/ pc'[s] \in {"record", "check"} /\ tasks'[job'[s]].curr = NoNode
  <2>1. ~LeaseNext(s)
    <3>1. LeaseNext(s) => \E t \in Task : job'[s] = t /\ tasks'[t].status = "running"
      BY LeaseMoves
    <3> QED BY <1>2, <3>1
  <2>2. ~(MarkFailed(s) \/ Crash(s) \/ Restart(s))
    BY <1>0, <1>2 DEF MarkFailed, Crash, Restart, Goto, Busy, Steps
  <2>3. /\ Busy(s) /\ job'[s] = job[s]
        /\ job[s] \in Task \ Signaled
    <3>1. CASE LoopStep(s)
      <4>1. Busy(s)
        BY <2>1, <3>1 DEF LoopStep, Extend, RunOnce, Execute, WriteStatus, WriteProgress,
                          RecordCancel, Check, MarkFailed, Busy, Steps
      <4>2. job'[s] = job[s]
        BY <1>0, <1>2, <2>1, <2>2, <3>1
        DEF LoopStep, Extend, RunOnce, Execute, WriteStatus, WriteProgress,
            RecordCancel, Check, Goto, Busy, Steps, local
      <4> QED BY <1>0, <1>2, <4>1, <4>2
    <3>2. CASE pc'[s] = pc[s] /\ job'[s] = job[s]
      BY <1>0, <1>2, <3>2 DEF Busy
    <3> QED BY <2>2, <3>1, <3>2, OthersKept
  <2> DEFINE t == job[s]
             Was == \/ pc[s] = "progress" /\ plan[s].status = "canceled"
                    \/ pc[s] \in {"record", "check"} /\ tasks[t].curr = NoNode
  <2>4. tasks[t].status = "canceled" => Was
    BY <2>3 DEF CanceledIsEmptied
  <2>5. CASE WriteStatus(s)
    <3>1. /\ pc'[s] = "progress" /\ plan'[s] = plan[s] /\ Fenced(t, s)
          /\ ~MarkFailed(s) /\ ~LeaseNext(s)
      BY <1>0, <2>5 DEF WriteStatus, MarkFailed, LeaseNext, NoLostWork, Goto, local
    <3>2. UpdateTaskStatus(t, plan[s].status)
      BY <2>5, <3>1 DEF WriteStatus, UpdateTaskStatusOwned
    <3>3. tasks'[t].status = plan[s].status
      BY <1>0, <2>3, <3>2 DEF UpdateTaskStatus, Row
    <3> QED BY <1>2, <2>3, <3>1, <3>3
  <2>6. CASE WriteProgress(s)
    <3>1. /\ pc[s] = "progress" /\ Fenced(t, s)
          /\ pc'[s] = IF plan[s].status = "canceled" THEN "record" ELSE "check"
      BY <1>0, <2>6 DEF WriteProgress, NoLostWork, Goto
    <3>2. tasks'[t].status = tasks[t].status /\ tasks'[t].curr = plan[s].next
      BY <1>0, <2>3, <2>6, <3>1, ProgressOwnedEffect DEF WriteProgress
    <3>3. plan[s].status = "canceled"
      BY <1>2, <2>3, <2>4, <3>1, <3>2
    <3>4. plan[s].next = NoNode
      BY <3>1, <3>3 DEF CanceledIsEmptied, Writes
    <3> QED BY <2>3, <3>1, <3>2, <3>3, <3>4
  <2>7. CASE Extend(s)
    <3>1. pc[s] = "extend" /\ tasks'[t].status = tasks[t].status
      BY <1>0, <2>3, <2>7, ExtendEffect DEF Extend
    <3> QED BY <1>2, <2>3, <2>4, <3>1
  <2>8. CASE RunOnce(s) \/ Execute(s)
    <3>1. pc[s] \in {"run", "exec"} /\ UNCHANGED tasks
      BY <2>8 DEF RunOnce, Execute
    <3> QED BY <1>2, <2>3, <2>4, <3>1
  <2>9. CASE RecordCancel(s)
    <3>1. pc[s] = "record" /\ pc'[s] = "check" /\ UNCHANGED tasks
      BY <1>0, <2>9 DEF RecordCancel, Goto
    <3> QED BY <1>2, <2>3, <2>4, <3>1
  <2>10. ~Check(s)
    <3>1. Check(s) => pc[s] = "check" /\ UNCHANGED tasks /\ ~Released(t)
      BY <1>0, <1>2 DEF Check, Goto, Busy, Steps
    <3> QED BY <1>2, <2>3, <2>4, <3>1 DEF Released
\* Nobody else writes to the task but clients, who cancel it.
  <2>11. ASSUME ~LoopStep(s), pc'[s] = pc[s], plan'[s] = plan[s]
         PROVE  \/ pc'[s] = "progress" /\ plan'[s].status = "canceled"
                \/ pc'[s] \in {"record", "check"} /\ tasks'[job'[s]].curr = NoNode
    <3>1. ASSUME NEW r \in Owner, LoopStep(r)
          PROVE  tasks[t].status = "canceled" /\ tasks'[t].curr = tasks[t].curr
      <4>1. WriteStatus(r) \/ MarkFailed(r) \/ WriteProgress(r) => Busy(r)
        BY DEF WriteStatus, MarkFailed, WriteProgress, Busy, Steps
      <4>2. WriteStatus(r) \/ MarkFailed(r) \/ WriteProgress(r) => job[r] # t
        BY <2>3, <2>11, <3>1, <4>1, OneHolder
      <4> QED BY <1>2, <2>3, <3>1, <4>2, LoopMoves
    <3>2. CASE \A r \in Owner : ~LoopStep(r)
      <4>1. tasks[t].status = "canceled" /\ tasks'[t].curr = tasks[t].curr
        BY <1>2, <2>3, <3>2, OutsideMoves
      <4> QED BY <2>3, <2>4, <2>11, <4>1
    <3>3. CASE \E r \in Owner : LoopStep(r)
      BY <2>3, <2>4, <2>11, <3>1, <3>3
    <3> QED BY <3>2, <3>3
  <2> QED
    BY <2>1, <2>2, <2>5, <2>6, <2>7, <2>8, <2>9, <2>10, <2>11, OthersKept DEF LoopStep
<1> QED BY <1>1, <1>2 DEF CanceledIsEmptied

WorkInv == FenceInv /\ LeaseHeld /\ WorkIsOpen

LEMMA WorkAlways ==
  ASSUME RoundMax <= LeaseTTL
  PROVE  Spec => []WorkInv
<1>1. Init => WorkInv
  <2>1. Init => WorkIsOpen
    BY DEF Init, WorkIsOpen
  <2> QED BY <2>1, FenceInit, LeaseHeldInit DEF WorkInv
<1>2. WorkInv /\ [Next]_vars => WorkInv'
  BY FenceStep, LeaseHeldStep, WorkIsOpenStep DEF WorkInv, FenceInv
<1> QED BY <1>1, <1>2, PTL DEF Spec

\* While every round is shorter than the lease, a finished task stays finished,
\* and a canceled one canceled unless a signal puts a cursor back.
THEOREM FinishedStaysFinished ==
  ASSUME RoundMax < LeaseTTL
  PROVE  Spec => FinalIsFinal
<1> DEFINE Stay == \A t \in Task :
                     LET old == tasks[t].status
                         new == tasks'[t].status
                     IN /\ old \in {"completed", "failed"} => new \in {old, "canceling"}
                        /\ old = "canceled" /\ t \notin Signaled => new \in {old, "canceling"}
<1>1. RoundMax <= LeaseTTL
  BY TaskTableAssumption, SchedulerAssumption
<1>2. Init => CanceledIsEmptied
  BY DEF Init, CanceledIsEmptied, Writes, Busy, Steps
<1>3. WorkInv /\ NoLostWork /\ CanceledIsEmptied /\ [Next]_vars => CanceledIsEmptied'
  BY CanceledIsEmptiedStep DEF WorkInv, FenceInv
<1>4. WorkInv /\ CanceledIsEmptied /\ [Next]_vars => [Stay]_vars
  <2> SUFFICES ASSUME WorkInv, CanceledIsEmptied, [Next]_vars, NEW t \in Task,
                      \/ tasks[t].status \in {"completed", "failed"}
                      \/ tasks[t].status = "canceled" /\ t \notin Signaled
               PROVE  tasks'[t].status \in {tasks[t].status, "canceling"}
    OBVIOUS
  <2>0. TypeOK /\ SignalsExpected /\ WorkIsOpen
    BY DEF WorkInv, FenceInv
  <2>1. ASSUME NEW s \in Owner, LoopStep(s)
        PROVE  tasks'[t].status = tasks[t].status
    <3>1. ASSUME WriteStatus(s) \/ MarkFailed(s) PROVE job[s] # t
      <4>1. pc[s] \in {"status", "mark_failed"} /\ Busy(s)
        BY <3>1 DEF WriteStatus, MarkFailed, Busy, Steps
      <4> QED BY <2>0, <4>1 DEF WorkIsOpen, CanceledIsEmptied
    <3> QED BY <2>0, <2>1, <3>1, LoopMoves
  <2>2. CASE \A s \in Owner : ~LoopStep(s)
    BY <2>0, <2>2, OutsideMoves
  <2> QED BY <2>1, <2>2
<1> QED
  <2>1. Spec => [][Stay]_vars
    BY <1>1, <1>2, <1>3, <1>4, WorkAlways, StepsAreKept, PTL DEF Spec
  <2> QED BY <2>1 DEF FinalIsFinal

-----------------------------------------------------------------------------
(* Scheduler implements ExclusiveWork. *)

\* The scheduler that is busy with a task is its holder.
LEMMA HolderIs ==
  ASSUME LeaseHeld, NEW t \in Task
  PROVE  /\ \A s \in Owner : Busy(s) /\ job[s] = t => Holder(t) = s
         /\ (\A s \in Owner : ~(Busy(s) /\ job[s] = t)) => Holder(t) = NoOwner
<1>1. ASSUME NEW s \in Owner, Busy(s) /\ job[s] = t PROVE Holder(t) = s
  <2>1. \A r \in Owner : Busy(r) /\ job[r] = t => r = s
    BY <1>1, OneHolder
  <2>2. Holder(t) = CHOOSE r \in Owner : Busy(r) /\ job[r] = t
    BY <1>1 DEF Holder
  <2> QED BY <1>1, <2>1, <2>2
<1>2. (\A s \in Owner : ~(Busy(s) /\ job[s] = t)) => Holder(t) = NoOwner
  BY DEF Holder
<1> QED BY <1>1, <1>2

LEMMA HolderWillBe ==
  ASSUME LeaseHeld', NEW t \in Task
  PROVE  /\ \A s \in Owner : Busy(s)' /\ job'[s] = t => Holder(t)' = s
         /\ (\A s \in Owner : ~(Busy(s)' /\ job'[s] = t)) => Holder(t)' = NoOwner
<1>1. ASSUME NEW s \in Owner, Busy(s)' /\ job'[s] = t PROVE Holder(t)' = s
  <2>1. \A r \in Owner : Busy(r)' /\ job'[r] = t => r = s
    BY <1>1 DEF LeaseHeld
  <2>2. Holder(t)' = CHOOSE r \in Owner : Busy(r)' /\ job'[r] = t
    BY <1>1 DEF Holder
  <2> QED BY <1>1, <2>1, <2>2
<1>2. (\A s \in Owner : ~(Busy(s)' /\ job'[s] = t)) => Holder(t)' = NoOwner
  BY DEF Holder
<1> QED BY <1>1, <1>2

LEMMA HolderKept ==
  ASSUME LeaseHeld, LeaseHeld', NEW t \in Task,
         \A r \in Owner : Busy(r)' /\ job'[r] = t <=> Busy(r) /\ job[r] = t
  PROVE  Holder(t)' = Holder(t)
<1>1. CASE \E r \in Owner : Busy(r) /\ job[r] = t
  BY <1>1, HolderIs, HolderWillBe
<1>2. CASE \A r \in Owner : ~(Busy(r) /\ job[r] = t)
  BY <1>2, HolderIs, HolderWillBe
<1> QED BY <1>1, <1>2

\* A step of the scheduler that holds a task is work on it, if it ends nothing
\* that has ended and touches no other task.
LEMMA WorkIs ==
  ASSUME TypeOK', LeaseHeld, LeaseHeld', NEW s \in Owner, NEW t \in Task,
         Busy(s), job[s] = t, Busy(s)' => job'[s] = t,
         \A r \in Owner : r # s => (Busy(r)' <=> Busy(r)) /\ job'[r] = job[r],
         tasks'[t].status # "none",
         tasks[t].status \in {"completed", "failed"} =>
           tasks'[t].status \in {"completed", "failed"},
         \A u \in Task : u # t =>
           tasks'[u].status = tasks[u].status /\ tasks'[u].curr = tasks[u].curr
  PROVE  Work!Next
<1> DEFINE H == [u \in Task |-> Holder(u)]
           P == [u \in Task |-> Phase(u)]
           C == [u \in Task |-> tasks[u].curr]
<1>1. \A r \in Owner : Busy(r) /\ job[r] = t => r = s
  BY OneHolder
<1>2. Holder(t) = s /\ Holder(t)' \in {s, NoOwner}
  <2>1. Holder(t) = s
    BY HolderIs
  <2>2. CASE Busy(s)'
    BY <2>1, <2>2, HolderWillBe
  <2>3. CASE ~Busy(s)'
    BY <1>1, <2>1, <2>3, HolderWillBe
  <2> QED BY <2>1, <2>2, <2>3
<1>3. \A u \in Task : u # t => Holder(u)' = Holder(u)
  BY HolderKept
<1>4. H' \in {H, [H EXCEPT ![t] = NoOwner]}
  <2>1. CASE Holder(t)' = s
    <3>1. \A u \in Task : Holder(u)' = Holder(u)
      BY <1>2, <1>3, <2>1
    <3> QED BY <3>1
  <2>2. CASE Holder(t)' = NoOwner
    BY <1>3, <2>2
  <2> QED BY <1>2, <2>1, <2>2
<1>5. /\ \A u \in Task : u # t => Phase(u)' = Phase(u)
      /\ Phase(t)' \in {"open", "ended", "canceled"}
      /\ Phase(t) = "ended" => Phase(t)' = "ended"
  BY DEF Phase
<1>6. P' = [P EXCEPT ![t] = Phase(t)']
  BY <1>5
<1>7. tasks'[t].curr \in Cursor /\ C' = [C EXCEPT ![t] = tasks'[t].curr]
  BY DEF TypeOK, Row
<1>8. H[t] = s /\ P[t] = Phase(t)
  BY <1>2
<1> HIDE DEF H, P, C
<1>9. \E p \in {"absent", "open", "ended", "canceled"} \ {"absent"} :
        (P[t] = "ended" => p = "ended") /\ P' = [P EXCEPT ![t] = p]
  BY <1>5, <1>6, <1>8
<1>10. Work!Work(t, s)
  BY <1>4, <1>7, <1>8, <1>9 DEF Work!Work, Work!Phase, H, P, C
<1> QED BY <1>10 DEF Work!Next

\* A step that leaves who holds what, and changes no row but in its lease.
LEMMA HeldKept ==
  ASSUME LeaseHeld, LeaseHeld',
         \A r \in Owner : (Busy(r)' <=> Busy(r)) /\ (Busy(r) => job'[r] = job[r]),
         \A u \in Task :
           tasks'[u].status = tasks[u].status /\ tasks'[u].curr = tasks[u].curr
  PROVE  UNCHANGED Work!vars
<1>1. \A u \in Task : Holder(u)' = Holder(u) /\ Phase(u)' = Phase(u)
  BY HolderKept DEF Phase
<1> QED BY <1>1 DEF Work!vars

LEMMA LoopWorks ==
  ASSUME WorkInv, WorkInv', NEW s \in Owner, LoopStep(s)
  PROVE  Work!Next
<1>0. /\ TypeOK /\ TypeOK' /\ LeaseHeld /\ LeaseHeld' /\ Inserted /\ WorkIsOpen
      /\ pc \in [Owner -> Steps \cup {"idle", "down"}]
      /\ job \in [Owner -> Task \cup {NoTask}]
  BY DEF WorkInv, FenceInv, TypeOK
\* All steps of the loop but the one that takes a task.
<1>1. CASE ~LeaseNext(s)
  <2>1. Busy(s)
    BY <1>1 DEF LoopStep, Extend, RunOnce, Execute, WriteStatus, WriteProgress,
                RecordCancel, Check, MarkFailed, Busy, Steps
  <2>2. PICK t \in Task : t = job[s]
    BY <1>0, <2>1 DEF TypeOK
  <2>3. tasks[t].status # "none"
    BY <1>0, <2>1, <2>2, TaskTableAssumption DEF LeaseHeld, Inserted
  <2>4. /\ job[s] = t /\ (Busy(s)' => job'[s] = t)
        /\ \A r \in Owner : r # s => (Busy(r)' <=> Busy(r)) /\ job'[r] = job[r]
    <3>1. CASE Extend(s) \/ RunOnce(s) \/ Execute(s) \/ WriteStatus(s)
               \/ WriteProgress(s) \/ RecordCancel(s)
      BY <1>0, <2>2, <3>1 DEF Extend, RunOnce, Execute, WriteStatus, WriteProgress,
                              RecordCancel, Goto, Busy, local
    <3>2. CASE Check(s) \/ MarkFailed(s)
      BY <1>0, <2>2, <3>2 DEF Check, MarkFailed, Forget, Goto, Busy, Steps
    <3> QED BY <1>1, <3>1, <3>2 DEF LoopStep
  <2>5. WriteStatus(s) => plan[s].status # "none"
    BY <1>0 DEF WriteStatus, Inserted
  <2>6. WriteStatus(s) \/ MarkFailed(s) => tasks[t].status \notin {"completed", "failed"}
    BY <1>0, <2>2 DEF WriteStatus, MarkFailed, WorkIsOpen
  <2>7. /\ tasks'[t].status # "none"
        /\ tasks[t].status \in {"completed", "failed"} => tasks'[t].status = tasks[t].status
        /\ \A u \in Task : u # t =>
             tasks'[u].status = tasks[u].status /\ tasks'[u].curr = tasks[u].curr
    BY <1>0, <1>1, <2>2, <2>3, <2>5, <2>6, LoopMoves
  <2> QED BY <1>0, <2>1, <2>4, <2>7, WorkIs
<1>2. CASE LeaseNext(s)
  <2> DEFINE H == [u \in Task |-> Holder(u)]
             P == [u \in Task |-> Phase(u)]
             C == [u \in Task |-> tasks[u].curr]
  <2>1. PICK t \in Task :
          /\ job'[s] = t /\ tasks[t].status \in {"pending", "running"}
          /\ tasks[t].left < 0
          /\ tasks'[t].status = "running" /\ tasks'[t].curr = tasks[t].curr
          /\ \A u \in Task : u # t => tasks'[u] = tasks[u]
    BY <1>0, <1>2, LeaseMoves
  <2>2. /\ ~Busy(s) /\ Busy(s)'
        /\ \A r \in Owner : r # s => (Busy(r)' <=> Busy(r)) /\ job'[r] = job[r]
    BY <1>0, <1>2 DEF LeaseNext, Goto, Busy, Steps
  <2>3. \A r \in Owner : ~(Busy(r) /\ job[r] = t)
    <3> SUFFICES ASSUME NEW r \in Owner, Busy(r), job[r] = t PROVE FALSE
      OBVIOUS
    <3>1. tasks[t].left = LeaseTTL - elapsed[r]
      BY <1>0 DEF LeaseHeld
    <3>2. elapsed[r] \in 0 .. RoundMax /\ RoundMax \in Nat /\ LeaseTTL \in Nat
      BY <1>0, TaskTableAssumption, SchedulerAssumption DEF TypeOK
    <3>3. tasks'[t].left = LeaseTTL /\ tasks'[t].owner = s
      BY <1>0, <1>2, <2>1, <2>2 DEF LeaseHeld
    <3>4. r # s /\ Busy(r)' /\ job'[r] = t
      BY <2>2
    <3> QED BY <1>0, <2>1, <2>2, <3>4 DEF LeaseHeld
  <2>4. Holder(t) = NoOwner /\ Holder(t)' = s
    BY <1>0, <2>1, <2>2, <2>3, HolderIs, HolderWillBe
  <2>5. \A u \in Task : u # t => Holder(u)' = Holder(u)
    BY <1>0, <2>1, <2>2, HolderKept
  <2>6. Phase(t) = "open" /\ \A u \in Task : Phase(u)' = Phase(u)
    BY <2>1 DEF Phase
  <2>7. H' = [H EXCEPT ![t] = s] /\ H[t] = NoOwner /\ P[t] = "open"
    BY <2>4, <2>5, <2>6
  <2>8. P' = P /\ C' = C
    BY <2>1, <2>6
  <2> HIDE DEF H, P, C
  <2>9. Work!Take(t, s)
    BY <2>7, <2>8 DEF Work!Take, H, P, C
  <2> QED BY <2>9 DEF Work!Next
<1> QED BY <1>1, <1>2

\* A row is never deleted, so a signal request in flight still finds its own.
SignalsFindRows == \A t \in Task : signal[t] # NoSignal => tasks[t].status # "none"

LEMMA SignalsFindRowsStep ==
  ASSUME FenceInv, SignalsFindRows, [Next]_vars
  PROVE  SignalsFindRows'
<1>0. TypeOK /\ SignalsExpected /\ Inserted /\ signal \in [Task -> Cursor \cup {NoSignal}]
  BY DEF FenceInv, TypeOK
<1> SUFFICES ASSUME NEW t \in Task, signal'[t] # NoSignal
             PROVE  tasks'[t].status # "none"
  BY DEF SignalsFindRows
<1>1. tasks[t].status # "none"
  <2>1. UNCHANGED signal \/ \E u \in Task : SignalRead(u) \/ SignalWrite(u)
    BY DEF Next, LoopStep, Client, LeaseNext, Extend, RunOnce, Execute, WriteStatus,
           WriteProgress, RecordCancel, Check, MarkFailed, Crash, Restart, Create,
           Cancel, Tick, vars
  <2>2. CASE UNCHANGED signal
    BY <2>2 DEF SignalsFindRows
  <2>3. CASE \E u \in Task : SignalRead(u) \/ SignalWrite(u)
    <3>1. PICK u \in Task : SignalRead(u) \/ SignalWrite(u)
      BY <2>3
    <3>2. CASE u = t
      BY <1>0, <3>1, <3>2 DEF SignalRead, SignalWrite
    <3>3. CASE u # t
      BY <1>0, <3>1, <3>3 DEF SignalRead, SignalWrite, SignalsFindRows
    <3> QED BY <3>2, <3>3
  <2> QED BY <2>1, <2>2, <2>3
<1>2. ASSUME NEW s \in Owner, LoopStep(s) PROVE tasks'[t].status # "none"
  <2>1. WriteStatus(s) => plan[s].status # "none"
    BY <1>0 DEF WriteStatus, Inserted
  <2> QED BY <1>0, <1>1, <1>2, <2>1, LoopMoves
<1>3. CASE \A s \in Owner : ~LoopStep(s)
  BY <1>0, <1>1, <1>3, OutsideMoves
<1> QED BY <1>2, <1>3

LEMMA ClientWorks ==
  ASSUME WorkInv, WorkInv', SignalsFindRows, NEW t \in Task, Client(t)
  PROVE  [Work!Next]_(Work!vars)
<1> DEFINE H == [u \in Task |-> Holder(u)]
           P == [u \in Task |-> Phase(u)]
           C == [u \in Task |-> tasks[u].curr]
<1>0. /\ TypeOK /\ TypeOK' /\ LeaseHeld /\ LeaseHeld' /\ SignalsExpected
      /\ tasks \in [Task -> Row]
  BY DEF WorkInv, FenceInv, TypeOK
<1>1. UNCHANGED <<pc, job>>
  BY DEF Client, Create, Cancel, SignalRead, SignalWrite, local
<1>2. H' = H
  <2>1. \A u \in Task : Holder(u)' = Holder(u)
    BY <1>0, <1>1, HolderKept DEF Busy
  <2> QED BY <2>1
<1>3. tasks'[t].curr \in Cursor
  BY <1>0 DEF TypeOK, Row
<1>4. CASE Create(t)
  <2>1. /\ tasks[t].status = "none" /\ tasks'[t].status = "pending"
        /\ \A u \in Task : u # t => tasks'[u] = tasks[u]
    BY <1>0, <1>4, CreateEffect DEF Create
  <2>2. P[t] = "absent" /\ P' = [P EXCEPT ![t] = "open"]
    BY <2>1 DEF Phase
  <2>3. C' = [C EXCEPT ![t] = tasks'[t].curr]
    BY <2>1
  <2> HIDE DEF H, P, C
  <2>4. Work!Submit(t)
    BY <1>2, <1>3, <2>2, <2>3 DEF Work!Submit, H, P, C
  <2> QED BY <2>4 DEF Work!Next
<1>5. CASE Cancel(t)
  <2>1. t \in Cancelable /\ tasks[t].status # "none"
    BY <1>5 DEF Cancel
  <2>2. \A u \in Task : /\ tasks'[u].curr = tasks[u].curr
                        /\ u # t => tasks'[u].status = tasks[u].status
    BY <1>0, <1>5, StatusEffect DEF Cancel
  <2>3. tasks'[t].status = "canceling"
    BY <1>0, <1>5 DEF Cancel, UpdateTaskStatus, Row
  <2>4. P[t] # "absent" /\ P' = [P EXCEPT ![t] = "canceled"] /\ C' = C
    BY <2>1, <2>2, <2>3 DEF Phase
  <2> HIDE DEF H, P, C
  <2>5. Work!CancelTask(t)
    BY <1>2, <2>1, <2>4 DEF Work!CancelTask, H, P, C
  <2> QED BY <2>5 DEF Work!Next
<1>6. CASE SignalRead(t)
  <2>1. UNCHANGED tasks
    BY <1>6 DEF SignalRead
  <2> QED BY <1>0, <1>1, <2>1, HeldKept DEF Busy
<1>7. CASE SignalWrite(t)
  <2>1. t \in Signaled
    BY <1>0, <1>7 DEF SignalWrite, SignalsExpected
  <2>2. \A u \in Task : /\ tasks'[u].status = tasks[u].status
                        /\ u # t => tasks'[u].curr = tasks[u].curr
    BY <1>0, <1>7, ProgressEffect DEF SignalWrite
  <2>3. P' = P /\ C' = [C EXCEPT ![t] = tasks'[t].curr]
    BY <2>2 DEF Phase
  <2>4. P[t] # "absent"
    BY <1>7 DEF SignalWrite, SignalsFindRows, Phase
  <2> HIDE DEF H, P, C
  <2>5. Work!SignalTask(t)
    BY <1>2, <1>3, <2>1, <2>3, <2>4 DEF Work!SignalTask, H, P, C
  <2> QED BY <2>5 DEF Work!Next
<1> QED BY <1>4, <1>5, <1>6, <1>7 DEF Client

\* A crash is work that lets go of a task; restarts and the clock change nothing
\* that ExclusiveWork sees.
LEMMA OtherWorks ==
  ASSUME WorkInv, WorkInv',
         \/ \E s \in Owner : Crash(s) \/ Restart(s)
         \/ Tick
         \/ UNCHANGED vars
  PROVE  [Work!Next]_(Work!vars)
<1>0. /\ TypeOK /\ TypeOK' /\ LeaseHeld /\ LeaseHeld' /\ Inserted
      /\ tasks \in [Task -> Row] /\ \A s \in Owner : Busy(s) => job[s] \in Task
      /\ pc \in [Owner -> Steps \cup {"idle", "down"}]
      /\ job \in [Owner -> Task \cup {NoTask}]
  BY DEF WorkInv, FenceInv, TypeOK
<1>1. ASSUME NEW s \in Owner, Crash(s), Busy(s) PROVE Work!Next
  <2>1. PICK t \in Task : t = job[s]
    BY <1>0, <1>1
  <2>2. UNCHANGED tasks /\ tasks[t].status # "none"
    BY <1>0, <1>1, <2>1, TaskTableAssumption DEF Crash, LeaseHeld, Inserted
  <2>3. /\ ~Busy(s)'
        /\ \A r \in Owner : r # s => (Busy(r)' <=> Busy(r)) /\ job'[r] = job[r]
    BY <1>0, <1>1 DEF Crash, Goto, Forget, Busy, Steps
  <2> QED BY <1>0, <1>1, <2>1, <2>2, <2>3, WorkIs
<1>2. ASSUME NEW s \in Owner, (Crash(s) /\ ~Busy(s)) \/ Restart(s)
      PROVE  UNCHANGED Work!vars
  <2>1. \A r \in Owner : (Busy(r)' <=> Busy(r)) /\ (Busy(r) => job'[r] = job[r])
    <3>1. CASE Crash(s) /\ ~Busy(s)
      BY <1>0, <3>1 DEF Crash, Goto, Forget, Busy, Steps
    <3>2. CASE Restart(s)
      BY <1>0, <3>2 DEF Restart, Goto, Busy, Steps, local
    <3> QED BY <1>2, <3>1, <3>2
  <2>2. UNCHANGED tasks
    BY <1>2 DEF Crash, Restart
  <2> QED BY <1>0, <2>1, <2>2, HeldKept
<1>3. CASE Tick
  <2>1. UNCHANGED <<pc, job>>
    BY <1>3 DEF Tick, local
  <2>2. \A u \in Task :
          tasks'[u].status = tasks[u].status /\ tasks'[u].curr = tasks[u].curr
    BY <1>0, <1>3, ElapseEffect DEF Tick
  <2> QED BY <1>0, <2>1, <2>2, HeldKept DEF Busy
<1>4. CASE UNCHANGED vars
  <2>1. UNCHANGED <<tasks, pc, job>>
    BY <1>4 DEF vars, local
  <2> QED BY <1>0, <2>1, HeldKept DEF Busy
<1> QED BY <1>1, <1>2, <1>3, <1>4

\* While no round outlasts the lease, Scheduler implements ExclusiveWork: one
\* worker at a time takes an open task, and only it moves or ends the task.
THEOREM WorkIsExclusive ==
  ASSUME RoundMax <= LeaseTTL
  PROVE  Spec => ImplementsExclusiveWork
<1>1. Init => Work!Init
  <2> SUFFICES ASSUME Init PROVE Work!Init
    OBVIOUS
  <2>1. \A t \in Task : Holder(t) = NoOwner
    BY DEF Init, Holder, Busy, Steps
  <2>2. \A t \in Task : Phase(t) = "absent" /\ tasks[t].curr \in Cursor
    BY DEF Init, TaskTableInit, NoRow, Phase, Cursor
  <2> QED BY <2>1, <2>2 DEF Work!Init
<1>2. Init => FenceInv /\ SignalsFindRows
  BY FenceInit DEF Init, SignalsFindRows
<1>3. FenceInv /\ SignalsFindRows /\ [Next]_vars => FenceInv' /\ SignalsFindRows'
  BY FenceStep, SignalsFindRowsStep
<1>4. WorkInv /\ WorkInv' /\ SignalsFindRows /\ [Next]_vars => [Work!Next]_(Work!vars)
  BY LoopWorks, ClientWorks, OtherWorks DEF Next
<1> QED BY <1>1, <1>2, <1>3, <1>4, WorkAlways, PTL DEF Spec, Work!Spec, ImplementsExclusiveWork
=============================================================================
