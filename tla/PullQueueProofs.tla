---------------------------- MODULE PullQueueProofs ----------------------------
(***************************************************************************)
(* Theorems about PullQueue, for every flow over any tasks, nodes and      *)
(* workers, and every number of jobs and faults.                           *)
(***************************************************************************)
EXTENDS PullQueue, TLAPS, SequenceTheorems

-----------------------------------------------------------------------------
(* Sequences of jobs and of handlers. *)

HandlerState == {"none", "ok", "error", "wake", "done"}
QueueState == {"absent", "pending", "claimed", "completed"}

\* A new row of one kind or the other comes after the others.
LEMMA AppendEffect ==
  ASSUME NEW S, NEW seq \in Seq(S), NEW e \in S
  PROVE  /\ Append(seq, e) \in Seq(S)
         /\ Len(Append(seq, e)) = Len(seq) + 1
         /\ Len(seq) + 1 \in DOMAIN Append(seq, e)
         /\ Len(seq) + 1 \notin DOMAIN seq
         /\ DOMAIN Append(seq, e) = DOMAIN seq \cup {Len(seq) + 1}
         /\ Append(seq, e)[Len(seq) + 1] = e
         /\ \A j \in DOMAIN seq : Append(seq, e)[j] = seq[j]
<1>1. Len(seq) \in Nat /\ DOMAIN seq = 1 .. Len(seq)
  BY LenProperties
<1>2. /\ Append(seq, e) \in Seq(S) /\ Len(Append(seq, e)) = Len(seq) + 1
      /\ \A j \in 1 .. Len(seq) + 1 :
           Append(seq, e)[j] = IF j <= Len(seq) THEN seq[j] ELSE e
  BY AppendProperties
<1>3. DOMAIN Append(seq, e) = 1 .. Len(seq) + 1
  BY <1>2, LenProperties
<1> QED BY <1>1, <1>2, <1>3

\* Changing one row leaves the others.
LEMMA UpdateEffect ==
  ASSUME NEW S, NEW seq \in Seq(S), NEW i \in DOMAIN seq, NEW e \in S,
         NEW new, new = [seq EXCEPT ![i] = e]
  PROVE  /\ new \in Seq(S) /\ Len(new) = Len(seq) /\ DOMAIN new = DOMAIN seq
         /\ new[i] = e
         /\ \A j \in DOMAIN seq : j # i => new[j] = seq[j]
<1>1. DOMAIN seq = 1 .. Len(seq)
  BY LenProperties
<1>2. /\ new \in Seq(S) /\ Len(new) = Len(seq)
      /\ \A j \in 1 .. Len(seq) : new[j] = IF j = i THEN e ELSE seq[j]
  BY <1>1, ExceptSeq
<1>3. DOMAIN new = 1 .. Len(new)
  BY <1>2, LenProperties
<1> QED BY <1>1, <1>2, <1>3

\* What the statements on the two tables do to a job: its queue status changes,
\* or its run does, and nothing else of it or of another.
LEMMA QueueEffect ==
  ASSUME jobs \in Seq(Job), NEW i \in DOMAIN jobs, NEW q \in QueueState,
         jobs' = [jobs EXCEPT ![i].queue = q]
  PROVE  /\ jobs' \in Seq(Job) /\ Len(jobs') = Len(jobs) /\ DOMAIN jobs' = DOMAIN jobs
         /\ jobs'[i].queue = q
         /\ \A j \in DOMAIN jobs :
              /\ j # i => jobs'[j].queue = jobs[j].queue
              /\ jobs'[j].task = jobs[j].task /\ jobs'[j].node = jobs[j].node
              /\ jobs'[j].run = jobs[j].run /\ jobs'[j].out = jobs[j].out
<1> DEFINE e == [jobs[i] EXCEPT !.queue = q]
<1>1. jobs[i] \in Job
  BY LenProperties, ElementOfSeq
<1>2. /\ e \in Job /\ e.queue = q
      /\ e.task = jobs[i].task /\ e.node = jobs[i].node
      /\ e.run = jobs[i].run /\ e.out = jobs[i].out
  BY <1>1 DEF Job, QueueState
<1>3. jobs' = [jobs EXCEPT ![i] = e]
  OBVIOUS
<1> HIDE DEF e
<1> QED BY <1>2, <1>3, UpdateEffect

LEMMA RunEffect ==
  ASSUME jobs \in Seq(Job), NEW i \in DOMAIN jobs,
         NEW r \in {"queued", "running", "ok", "error"}, NEW o \in {"none", "ok", "error"},
         \/ jobs' = [jobs EXCEPT ![i].run = r, ![i].out = o]
         \/ jobs' = [jobs EXCEPT ![i].run = r] /\ o = jobs[i].out
  PROVE  /\ jobs' \in Seq(Job) /\ Len(jobs') = Len(jobs) /\ DOMAIN jobs' = DOMAIN jobs
         /\ jobs'[i].run = r /\ jobs'[i].out = o
         /\ \A j \in DOMAIN jobs :
              /\ j # i => jobs'[j].run = jobs[j].run /\ jobs'[j].out = jobs[j].out
              /\ jobs'[j].task = jobs[j].task /\ jobs'[j].node = jobs[j].node
              /\ jobs'[j].queue = jobs[j].queue
<1> DEFINE e == [jobs[i] EXCEPT !.run = r, !.out = o]
<1>1. jobs[i] \in Job
  BY LenProperties, ElementOfSeq
<1>2. /\ e \in Job /\ e.run = r /\ e.out = o
      /\ e.task = jobs[i].task /\ e.node = jobs[i].node /\ e.queue = jobs[i].queue
  BY <1>1 DEF Job
<1>3. jobs' = [jobs EXCEPT ![i] = e]
  <2>1. CASE jobs' = [jobs EXCEPT ![i].run = r, ![i].out = o]
    BY <1>1, <2>1 DEF Job
  <2>2. CASE jobs' = [jobs EXCEPT ![i].run = r] /\ o = jobs[i].out
    <3>1. e = [jobs[i] EXCEPT !.run = r]
      BY <1>1, <2>2 DEF Job
    <3> QED BY <2>2, <3>1
  <2> QED BY <2>1, <2>2
<1> HIDE DEF e
<1> QED BY <1>2, <1>3, UpdateEffect

LEMMA HandlerEffect ==
  ASSUME handler \in Seq(HandlerState), NEW i \in DOMAIN handler, NEW h \in HandlerState,
         handler' = [handler EXCEPT ![i] = h]
  PROVE  /\ handler' \in Seq(HandlerState) /\ DOMAIN handler' = DOMAIN handler
         /\ handler'[i] = h
         /\ \A j \in DOMAIN handler : j # i => handler'[j] = handler[j]
  BY UpdateEffect

-----------------------------------------------------------------------------
(* What is always so of the jobs.                                          *)

\* A worker at work has a job that was claimed for it and not reported yet.
Hands ==
  \A w \in Worker : worker[w] # IdleWorker =>
    /\ worker[w].job \in DOMAIN jobs
    /\ jobs[worker[w].job].queue = "claimed"
    /\ handler[worker[w].job] = "none"

\* Only a job that was claimed is reported.
Claimed ==
  \A i \in DOMAIN jobs : handler[i] # "none" => jobs[i].queue \in {"claimed", "completed"}

\* Between its two statements execQueue has a run whose job is not enqueued.
Enqueueing ==
  \A t \in Task : engine[t] = "enqueue" =>
    \E i \in JobsOf(t, tasks[t].curr) : jobs[i].queue = "absent"

\* A result comes by the handler, which is past writing it then, and a run that
\* is over has the status that was reported.
Results ==
  \A i \in DOMAIN jobs :
    /\ jobs[i].out # "none" => handler[i] \in {"wake", "done"}
    /\ jobs[i].run \in {"ok", "error"} => jobs[i].out = jobs[i].run
    /\ handler[i] = "wake" => jobs[i].out # "none"

\* A scheduler that writes has something to write, and never "pending".
Planned ==
  \A t \in Task : engine[t] \in {"status", "progress"} =>
    plan[t].status \in Status \ {"pending"}

JobsInv ==
  /\ TypeOK /\ OneJobPerNode /\ OneWorkerPerJob
  /\ Hands /\ Claimed /\ Enqueueing /\ Results /\ Planned

\* The latest run of a node is the only one.
LEMMA LastRunIs ==
  ASSUME TypeOK, OneJobPerNode, NEW t \in Task, NEW n
  PROVE  /\ \A i \in JobsOf(t, n) : LastRun(t, n) = i
         /\ LastRun(t, n) = 0 <=> JobsOf(t, n) = {}
<1>1. ASSUME NEW i \in JobsOf(t, n) PROVE LastRun(t, n) = i /\ i # 0
  <2>1. \A j \in JobsOf(t, n) : j = i
    BY DEF JobsOf, OneJobPerNode
  <2>2. i \in Nat /\ i # 0
    BY LenProperties DEF TypeOK, JobsOf
  <2>3. \A j \in JobsOf(t, n) : j <= i
    BY <2>1, <2>2
  <2> QED BY <2>1, <2>2, <2>3 DEF LastRun
<1>2. JobsOf(t, n) = {} => LastRun(t, n) = 0
  BY DEF LastRun
<1> QED BY <1>1, <1>2

LEMMA OutcomeType ==
  ASSUME NEW n \in Cursor, NEW out
  PROVE  Outcome(n, out) \in Plan /\ Outcome(n, out).status \in Status \ {"pending"}
<1> DEFINE next == IF n = NoNode THEN NoNode
                   ELSE IF out = "ok" THEN OkNext[n] ELSE ErrNext[n]
<1>1. next \in Cursor
  BY PullQueueAssumption DEF Cursor
<1>2. Outcome(n, out) = [status |-> IF next # NoNode THEN "running"
                                    ELSE IF out = "ok" THEN "completed" ELSE "failed",
                         next |-> next]
  BY DEF Outcome
<1> HIDE DEF next
<1> QED BY <1>1, <1>2 DEF Plan, Status

LEMMA SuspensionType ==
  ASSUME NEW n \in Cursor
  PROVE  Suspension(n) \in Plan /\ Suspension(n).status \in Status \ {"pending"}
  BY DEF Suspension, Plan, Status

LEMMA JobsInit == Init => JobsInv
<1> SUFFICES ASSUME Init PROVE JobsInv
  OBVIOUS
<1>1. jobs = <<>> /\ handler = <<>> /\ faults = 0 /\ late = {}
  BY DEF Init
<1>2. /\ jobs \in Seq(Job) /\ handler \in Seq({"none", "ok", "error", "wake", "done"})
      /\ Len(jobs) = 0 /\ DOMAIN jobs = {} /\ DOMAIN handler = {}
  BY <1>1, EmptySeq
<1>3. 0 \in 0 .. MaxFaults /\ 0 \in 0 .. Len(jobs) /\ Len(jobs) <= MaxJobs
  BY <1>2, PullQueueAssumption
<1>4. /\ \A t \in Task : [status |-> "pending", curr |-> Start[t]]
                            \in [status : Status, curr : Cursor]
      /\ NoPlan \in Plan
      /\ IdleWorker \in [does : {"idle", "start", "execute"}, job : 0 .. Len(jobs)]
  BY <1>3, PullQueueAssumption DEF Status, Cursor, NoPlan, Plan, IdleWorker
<1>5. TypeOK
  BY <1>1, <1>2, <1>3, <1>4 DEF Init, TypeOK
<1> QED
  BY <1>1, <1>2, <1>5 DEF Init, JobsInv, OneJobPerNode, OneWorkerPerJob, Hands,
     Claimed, Enqueueing, Results, Planned, IdleWorker

-----------------------------------------------------------------------------
(* The steps of the engine that touch nothing but its own hold of the task *)
(* and the task's row.                                                     *)

LEMMA EngineTypes ==
  ASSUME TypeOK, Planned, NEW t \in Task,
         Lease(t) \/ RunNode(t) \/ WriteStatus(t) \/ WriteProgress(t) \/ Check(t)
         \/ ReadRun(t) \/ EngineCrash(t)
  PROVE  TypeOK' /\ Planned' /\ UNCHANGED <<jobs, worker, handler, late>>
<1>0. /\ tasks[t].curr \in Cursor /\ MaxFaults \in Nat
      /\ plan[t] \in Plan /\ NoPlan \in Plan /\ Suspension(tasks[t].curr) \in Plan
  BY PullQueueAssumption, SuspensionType DEF TypeOK, Plan, NoPlan, Status, Cursor
<1>1. CASE Lease(t)
  BY <1>0, <1>1 DEF Lease, SetStatus, Goto, TypeOK, Planned, Status
<1>6. CASE WriteProgress(t)
  <2>1. plan[t].next \in Cursor
    BY <1>0 DEF Plan
  <2>2. TypeOK' /\ UNCHANGED <<jobs, worker, handler, late>>
    BY <1>0, <1>6, <2>1 DEF WriteProgress, Goto, TypeOK
  <2>3. Planned'
    BY <1>0, <1>6, <2>1 DEF WriteProgress, Goto, TypeOK, Planned
  <2> QED BY <2>2, <2>3
<1>2. CASE RunNode(t) \/ ReadRun(t)
  <2>1. \E p \in Plan : WillWrite(t, p) /\ p.status \in Status \ {"pending"}
    BY <1>0, <1>2, OutcomeType, SuspensionType DEF RunNode, ReadRun
  <2>2. UNCHANGED <<tasks, jobs, worker, handler, late, faults>>
    BY <1>2 DEF RunNode, ReadRun
  <2> QED BY <2>1, <2>2 DEF WillWrite, Goto, TypeOK, Planned
<1>3. CASE WriteStatus(t)
  <2>1. plan[t].status \in Status
    BY <1>3 DEF WriteStatus, Planned
  <2> QED BY <1>0, <1>3, <2>1 DEF WriteStatus, SetStatus, Goto, TypeOK, Planned, Plan
<1>4. CASE Check(t)
  BY <1>0, <1>4 DEF Check, Goto, TypeOK, Planned
<1>5. CASE EngineCrash(t)
  <2>1. faults' \in 0 .. MaxFaults
    BY <1>0, <1>5 DEF EngineCrash, Fault, TypeOK
  <2> QED BY <1>0, <1>5, <2>1 DEF EngineCrash, Goto, TypeOK, Planned
<1> QED BY <1>1, <1>2, <1>3, <1>4, <1>5, <1>6

LEMMA EngineJobs ==
  ASSUME JobsInv, NEW t \in Task,
         Lease(t) \/ RunNode(t) \/ WriteStatus(t) \/ WriteProgress(t) \/ Check(t)
         \/ ReadRun(t) \/ EngineCrash(t)
  PROVE  JobsInv'
<1>1. TypeOK' /\ Planned' /\ UNCHANGED <<jobs, worker, handler>>
  BY EngineTypes DEF JobsInv
<1>2. \A u \in Task : engine'[u] = "enqueue" =>
        engine[u] = "enqueue" /\ tasks'[u].curr = tasks[u].curr
  <2>1. engine \in [Task -> {"free", "run", "enqueue", "status", "progress", "check"}]
        /\ tasks \in [Task -> [status : Status, curr : Cursor]]
    BY DEF JobsInv, TypeOK
  <2> QED
    BY <2>1 DEF Lease, RunNode, WriteStatus, WriteProgress, Check, ReadRun,
       EngineCrash, WillWrite, SetStatus, Goto
<1> QED
  BY <1>1, <1>2 DEF JobsInv, OneJobPerNode, OneWorkerPerJob, Hands, Claimed,
     Enqueueing, Results, JobsOf

-----------------------------------------------------------------------------
(* The steps that create a run and enqueue its job.                        *)

LEMMA CreateRunJobs ==
  ASSUME JobsInv, NEW t \in Task, CreateRun(t)
  PROVE  JobsInv'
<1> DEFINE n == tasks[t].curr
           e == [task |-> t, node |-> n, run |-> "queued", out |-> "none", queue |-> "absent"]
           k == Len(jobs) + 1
<1>0. TypeOK /\ OneJobPerNode
  BY DEF JobsInv
<1>1. /\ n \in QueueNode /\ n \in Node /\ LastRun(t, n) = 0 /\ Len(jobs) < MaxJobs
      /\ jobs' = Append(jobs, e) /\ handler' = Append(handler, "none")
      /\ engine' = [engine EXCEPT ![t] = "enqueue"]
      /\ UNCHANGED <<tasks, plan, worker, late, faults>>
  BY PullQueueAssumption DEF CreateRun, Goto
<1>2. e \in Job /\ e.task = t /\ e.node = n /\ e.run = "queued" /\ e.out = "none"
      /\ e.queue = "absent"
  BY <1>1 DEF Job
<1>3. JobsOf(t, n) = {}
  BY <1>0, <1>1, LastRunIs
<1> HIDE DEF e
<1>4. /\ jobs' \in Seq(Job) /\ Len(jobs') = k /\ k \in DOMAIN jobs' /\ k \notin DOMAIN jobs
      /\ DOMAIN jobs' = DOMAIN jobs \cup {k} /\ jobs'[k] = e
      /\ \A j \in DOMAIN jobs : jobs'[j] = jobs[j]
  BY <1>0, <1>1, <1>2, AppendEffect DEF TypeOK
<1>5. /\ handler' \in Seq(HandlerState) /\ DOMAIN handler' = DOMAIN jobs'
      /\ handler'[k] = "none" /\ \A j \in DOMAIN jobs : handler'[j] = handler[j]
  <2>1. handler \in Seq(HandlerState) /\ DOMAIN handler = DOMAIN jobs
        /\ "none" \in HandlerState
    BY <1>0 DEF TypeOK, HandlerState
  <2>2. Len(handler) = Len(jobs)
    BY <1>0, <2>1, LenProperties DEF TypeOK
  <2> QED BY <1>1, <1>4, <2>1, <2>2, AppendEffect
<1>6. Len(jobs) \in Nat /\ MaxJobs \in Nat
  BY <1>0, PullQueueAssumption, LenProperties DEF TypeOK
<1>7. TypeOK'
  <2>1. Len(jobs') <= MaxJobs
    BY <1>1, <1>4, <1>6
  <2>2. worker' \in [Worker -> [does : {"idle", "start", "execute"}, job : 0 .. Len(jobs')]]
    <3>1. 0 .. Len(jobs) \subseteq 0 .. Len(jobs')
      BY <1>4, <1>6
    <3> QED BY <1>0, <1>1, <3>1 DEF TypeOK
  <2>3. engine' \in [Task -> {"free", "run", "enqueue", "status", "progress", "check"}]
    BY <1>0, <1>1 DEF TypeOK
  <2>4. late' \subseteq DOMAIN jobs'
    BY <1>0, <1>1, <1>4 DEF TypeOK
  <2> QED BY <1>0, <1>1, <1>4, <1>5, <2>1, <2>2, <2>3, <2>4 DEF TypeOK, HandlerState
<1>8. OneJobPerNode'
  BY <1>0, <1>2, <1>3, <1>4 DEF OneJobPerNode, JobsOf
<1>9. OneWorkerPerJob' /\ Hands' /\ Claimed' /\ Results'
  BY <1>1, <1>2, <1>4, <1>5
  DEF JobsInv, OneWorkerPerJob, Hands, Claimed, Results, IdleWorker
<1>10. Enqueueing'
  <2> SUFFICES ASSUME NEW u \in Task, engine'[u] = "enqueue"
               PROVE  \E i \in DOMAIN jobs' :
                        /\ jobs'[i].task = u /\ jobs'[i].node = tasks'[u].curr
                        /\ jobs'[i].queue = "absent"
    BY DEF Enqueueing, JobsOf
  <2>1. CASE u = t
    BY <1>1, <1>2, <1>4, <2>1
  <2>2. CASE u # t
    <3>1. engine[u] = "enqueue"
      BY <1>1, <2>2
    <3> QED BY <1>1, <1>4, <3>1 DEF JobsInv, Enqueueing, JobsOf
  <2> QED BY <2>1, <2>2
<1>11. Planned'
  BY <1>0, <1>1 DEF JobsInv, Planned, TypeOK
<1> QED BY <1>7, <1>8, <1>9, <1>10, <1>11 DEF JobsInv

LEMMA EnqueueJobs ==
  ASSUME JobsInv, NEW t \in Task, Enqueue(t)
  PROVE  JobsInv'
<1> DEFINE n == tasks[t].curr
<1>0. TypeOK /\ OneJobPerNode
  BY DEF JobsInv
<1>1. PICK i \in JobsOf(t, n) : jobs[i].queue = "absent"
  BY DEF Enqueue, JobsInv, Enqueueing
<1>2. i \in DOMAIN jobs /\ jobs[i].task = t /\ jobs[i].node = n /\ LastRun(t, n) = i
  BY <1>0, LastRunIs DEF JobsOf
<1>3. /\ jobs' = [jobs EXCEPT ![i].queue = "pending"]
      /\ plan' = [plan EXCEPT ![t] = Suspension(n)]
      /\ engine' = [engine EXCEPT ![t] = "status"]
      /\ UNCHANGED <<tasks, worker, handler, late, faults>>
  BY <1>2 DEF Enqueue, WillWrite, Goto
<1>4. /\ jobs' \in Seq(Job) /\ Len(jobs') = Len(jobs) /\ DOMAIN jobs' = DOMAIN jobs
      /\ jobs'[i].queue = "pending"
      /\ \A j \in DOMAIN jobs :
           /\ j # i => jobs'[j].queue = jobs[j].queue
           /\ jobs'[j].task = jobs[j].task /\ jobs'[j].node = jobs[j].node
           /\ jobs'[j].run = jobs[j].run /\ jobs'[j].out = jobs[j].out
  BY <1>0, <1>2, <1>3, QueueEffect DEF TypeOK, QueueState
<1>5. tasks[t].curr \in Cursor
  BY <1>0 DEF TypeOK
<1>6. TypeOK' /\ Planned'
  BY <1>0, <1>3, <1>4, <1>5, SuspensionType DEF TypeOK, JobsInv, Planned
<1>7. OneJobPerNode' /\ OneWorkerPerJob'
  BY <1>3, <1>4 DEF JobsInv, OneJobPerNode, OneWorkerPerJob
<1>8. Hands' /\ Claimed'
  BY <1>1, <1>2, <1>3, <1>4 DEF JobsInv, Hands, Claimed
<1>9. Enqueueing'
  <2> SUFFICES ASSUME NEW u \in Task, engine'[u] = "enqueue"
               PROVE  \E j \in DOMAIN jobs' :
                        /\ jobs'[j].task = u /\ jobs'[j].node = tasks'[u].curr
                        /\ jobs'[j].queue = "absent"
    BY DEF Enqueueing, JobsOf
  <2>1. u # t /\ engine[u] = "enqueue"
    BY <1>0, <1>3 DEF TypeOK
  <2>2. PICK j \in DOMAIN jobs : /\ jobs[j].task = u /\ jobs[j].node = tasks[u].curr
                                 /\ jobs[j].queue = "absent"
    BY <2>1 DEF JobsInv, Enqueueing, JobsOf
  <2> QED BY <1>2, <1>3, <1>4, <2>1, <2>2
<1>10. Results'
  BY <1>3, <1>4 DEF JobsInv, Results
<1> QED BY <1>6, <1>7, <1>8, <1>9, <1>10 DEF JobsInv

-----------------------------------------------------------------------------
(* The other steps leave the engine's part alone.                          *)

\* What the engine keeps is not disturbed by a step that leaves the tasks'
\* cursors and the engines, and the jobs that are not enqueued yet.
LEMMA EngineKept ==
  ASSUME JobsInv, UNCHANGED <<engine, plan>>,
         \A u \in Task : tasks'[u].curr = tasks[u].curr,
         DOMAIN jobs' = DOMAIN jobs,
         \A j \in DOMAIN jobs :
           /\ jobs'[j].task = jobs[j].task /\ jobs'[j].node = jobs[j].node
           /\ jobs[j].queue = "absent" => jobs'[j].queue = "absent"
  PROVE  Enqueueing' /\ Planned' /\ OneJobPerNode'
<1>1. Enqueueing'
  <2> SUFFICES ASSUME NEW u \in Task, engine'[u] = "enqueue"
               PROVE  \E j \in DOMAIN jobs' :
                        /\ jobs'[j].task = u /\ jobs'[j].node = tasks'[u].curr
                        /\ jobs'[j].queue = "absent"
    BY DEF Enqueueing, JobsOf
  <2>1. PICK j \in DOMAIN jobs : /\ jobs[j].task = u /\ jobs[j].node = tasks[u].curr
                                 /\ jobs[j].queue = "absent"
    BY DEF JobsInv, Enqueueing, JobsOf
  <2> QED BY <2>1
<1> QED BY <1>1 DEF JobsInv, Planned, OneJobPerNode

LEMMA PollJobs ==
  ASSUME JobsInv, NEW w \in Worker, Poll(w)
  PROVE  JobsInv'
<1>0. TypeOK
  BY DEF JobsInv
<1>1. PICK i \in DOMAIN jobs :
        /\ jobs[i].queue = "pending"
        /\ jobs' = [jobs EXCEPT ![i].queue = "claimed"]
        /\ worker' = [worker EXCEPT ![w] = [does |-> "start", job |-> i]]
  BY DEF Poll, Pollable
<1>2. worker[w] = IdleWorker /\ UNCHANGED <<tasks, engine, plan, handler, late, faults>>
  BY DEF Poll
<1>3. /\ jobs' \in Seq(Job) /\ Len(jobs') = Len(jobs) /\ DOMAIN jobs' = DOMAIN jobs
      /\ jobs'[i].queue = "claimed"
      /\ \A j \in DOMAIN jobs :
           /\ j # i => jobs'[j].queue = jobs[j].queue
           /\ jobs'[j].task = jobs[j].task /\ jobs'[j].node = jobs[j].node
           /\ jobs'[j].run = jobs[j].run /\ jobs'[j].out = jobs[j].out
  BY <1>0, <1>1, QueueEffect DEF TypeOK, QueueState
<1>4. i \in 1 .. Len(jobs) /\ Len(jobs) \in Nat
  BY <1>0, LenProperties DEF TypeOK
<1>5. TypeOK'
  <2>1. i \in 0 .. Len(jobs)
    BY <1>4
  <2>2. [does |-> "start", job |-> i] \in
          [does : {"idle", "start", "execute"}, job : 0 .. Len(jobs)]
    BY <2>1
  <2> QED BY <1>0, <1>1, <1>2, <1>3, <2>2 DEF TypeOK
<1>6. Enqueueing' /\ Planned' /\ OneJobPerNode'
  BY <1>1, <1>2, <1>3, EngineKept
<1>7. handler[i] = "none"
  BY <1>1 DEF JobsInv, Claimed
<1>8. \A v \in Worker : v # w => worker'[v] = worker[v] /\ worker[v].job # i
  <2>1. IdleWorker.job = 0 /\ i # 0
    BY <1>4 DEF IdleWorker
  <2>2. \A v \in Worker : worker[v].job # i
    BY <1>1, <2>1 DEF JobsInv, Hands
  <2> QED BY <1>0, <1>1, <2>2 DEF TypeOK
<1>9. worker'[w].job = i
  BY <1>0, <1>1 DEF TypeOK
<1>10. OneWorkerPerJob' /\ Hands'
  BY <1>1, <1>2, <1>3, <1>7, <1>8, <1>9 DEF JobsInv, OneWorkerPerJob, Hands
<1>11. Claimed' /\ Results'
  BY <1>1, <1>2, <1>3 DEF JobsInv, Claimed, Results
<1> QED BY <1>5, <1>6, <1>10, <1>11 DEF JobsInv

\* "running" goes to the run's status only.
LEMMA RunningKept ==
  ASSUME JobsInv, NEW i \in DOMAIN jobs, SetRunning(i), UNCHANGED <<tasks, engine, plan, handler>>
  PROVE  /\ jobs' \in Seq(Job) /\ Len(jobs') = Len(jobs) /\ DOMAIN jobs' = DOMAIN jobs
         /\ \A j \in DOMAIN jobs : jobs'[j].queue = jobs[j].queue
         /\ Enqueueing' /\ Planned' /\ OneJobPerNode' /\ Claimed' /\ Results'
<1>1. jobs \in Seq(Job)
  BY DEF JobsInv, TypeOK
<1>2. jobs[i].out \in {"none", "ok", "error"}
  <2>1. jobs[i] \in Job
    BY <1>1, ElementOfSeq, LenProperties
  <2> QED BY <2>1 DEF Job
<1>3. /\ jobs' \in Seq(Job) /\ Len(jobs') = Len(jobs) /\ DOMAIN jobs' = DOMAIN jobs
      /\ jobs'[i].run = "running" /\ jobs'[i].out = jobs[i].out
      /\ \A j \in DOMAIN jobs :
           /\ j # i => jobs'[j].run = jobs[j].run /\ jobs'[j].out = jobs[j].out
           /\ jobs'[j].task = jobs[j].task /\ jobs'[j].node = jobs[j].node
           /\ jobs'[j].queue = jobs[j].queue
  BY <1>1, <1>2, RunEffect DEF SetRunning
<1>4. Enqueueing' /\ Planned' /\ OneJobPerNode'
  BY <1>3, EngineKept
<1>5. Claimed' /\ Results'
  BY <1>3 DEF JobsInv, Claimed, Results
<1> QED BY <1>3, <1>4, <1>5

LEMMA ReportRunningJobs ==
  ASSUME JobsInv, NEW w \in Worker, ReportRunning(w)
  PROVE  JobsInv'
<1> DEFINE i == worker[w].job
<1>0. TypeOK
  BY DEF JobsInv
<1>1. /\ worker[w].does = "start" /\ UNCHANGED <<tasks, engine, plan, handler>>
      /\ worker' = [worker EXCEPT ![w].does = "execute"]
  BY DEF ReportRunning
<1>2. i \in DOMAIN jobs /\ worker[w] # IdleWorker
  BY <1>1 DEF JobsInv, Hands, IdleWorker
<1>3. /\ jobs' \in Seq(Job) /\ Len(jobs') = Len(jobs) /\ DOMAIN jobs' = DOMAIN jobs
      /\ \A j \in DOMAIN jobs : jobs'[j].queue = jobs[j].queue
      /\ Enqueueing' /\ Planned' /\ OneJobPerNode' /\ Claimed' /\ Results'
  <2>1. CASE SetRunning(i)
    BY <1>1, <1>2, <2>1, RunningKept
  <2>2. CASE UNCHANGED jobs
    <3>1. Enqueueing' /\ Planned' /\ OneJobPerNode'
      BY <1>1, <2>2, EngineKept
    <3> QED BY <1>0, <1>1, <2>2, <3>1 DEF JobsInv, TypeOK, Claimed, Results
  <2> QED BY <2>1, <2>2 DEF ReportRunning
<1>4. late' \subseteq DOMAIN jobs /\ faults' \in 0 .. MaxFaults
  <2>1. faults \in 0 .. MaxFaults /\ MaxFaults \in Nat /\ late \subseteq DOMAIN jobs
    BY <1>0, PullQueueAssumption DEF TypeOK
  <2> QED BY <1>2, <2>1 DEF ReportRunning
<1>5. /\ worker' \in [Worker -> [does : {"idle", "start", "execute"}, job : 0 .. Len(jobs)]]
      /\ worker'[w].does = "execute" /\ worker'[w].job = i
      /\ \A v \in Worker : v # w => worker'[v] = worker[v]
  BY <1>0, <1>1 DEF TypeOK
<1>6. TypeOK'
  BY <1>0, <1>1, <1>3, <1>4, <1>5 DEF TypeOK
<1>7. OneWorkerPerJob' /\ Hands'
  BY <1>1, <1>2, <1>3, <1>5 DEF JobsInv, OneWorkerPerJob, Hands, IdleWorker
<1> QED BY <1>3, <1>6, <1>7 DEF JobsInv

LEMMA LateRunningJobs ==
  ASSUME JobsInv, NEW i \in DOMAIN jobs, LateRunning(i)
  PROVE  JobsInv'
<1>1. SetRunning(i) /\ UNCHANGED <<tasks, engine, plan, worker, handler, faults>>
      /\ late' \subseteq late
  BY DEF LateRunning
<1>2. /\ jobs' \in Seq(Job) /\ Len(jobs') = Len(jobs) /\ DOMAIN jobs' = DOMAIN jobs
      /\ \A j \in DOMAIN jobs : jobs'[j].queue = jobs[j].queue
      /\ Enqueueing' /\ Planned' /\ OneJobPerNode' /\ Claimed' /\ Results'
  BY <1>1, RunningKept
<1>3. TypeOK'
  BY <1>1, <1>2 DEF JobsInv, TypeOK
<1>4. OneWorkerPerJob' /\ Hands'
  BY <1>1, <1>2 DEF JobsInv, OneWorkerPerJob, Hands
<1> QED BY <1>2, <1>3, <1>4 DEF JobsInv

\* A worker that lets go of its job takes it from no other.
LEMMA WorkerIdles ==
  ASSUME JobsInv, NEW w \in Worker, worker' = [worker EXCEPT ![w] = IdleWorker]
  PROVE  /\ worker' \in [Worker -> [does : {"idle", "start", "execute"}, job : 0 .. Len(jobs)]]
         /\ worker'[w] = IdleWorker
         /\ \A v \in Worker : v # w => worker'[v] = worker[v]
         /\ OneWorkerPerJob'
<1>1. TypeOK /\ OneWorkerPerJob /\ Hands
  BY DEF JobsInv
<1>2. Len(jobs) \in Nat /\ DOMAIN jobs = 1 .. Len(jobs)
  BY <1>1, LenProperties DEF TypeOK
<1>3. IdleWorker \in [does : {"idle", "start", "execute"}, job : 0 .. Len(jobs)]
      /\ IdleWorker.job = 0
  <2>1. 0 \in 0 .. Len(jobs)
    BY <1>2
  <2> QED BY <2>1 DEF IdleWorker
<1>4. /\ worker' \in [Worker -> [does : {"idle", "start", "execute"}, job : 0 .. Len(jobs)]]
      /\ worker'[w] = IdleWorker
      /\ \A v \in Worker : v # w => worker'[v] = worker[v]
  BY <1>1, <1>3 DEF TypeOK
<1>5. \A v \in Worker : worker[v] # IdleWorker => worker[v].job # 0
  BY <1>1, <1>2 DEF Hands
<1>6. OneWorkerPerJob'
  BY <1>1, <1>3, <1>4, <1>5 DEF OneWorkerPerJob
<1> QED BY <1>4, <1>6

LEMMA WorkerCrashJobs ==
  ASSUME JobsInv, NEW w \in Worker, WorkerCrash(w)
  PROVE  JobsInv'
<1>1. /\ worker' = [worker EXCEPT ![w] = IdleWorker]
      /\ UNCHANGED <<tasks, engine, plan, jobs, handler, late>> /\ Fault
  BY DEF WorkerCrash
<1>2. /\ worker' \in [Worker -> [does : {"idle", "start", "execute"}, job : 0 .. Len(jobs)]]
      /\ worker'[w] = IdleWorker
      /\ \A v \in Worker : v # w => worker'[v] = worker[v]
      /\ OneWorkerPerJob'
  BY <1>1, WorkerIdles
<1>3. faults' \in 0 .. MaxFaults
  <2>1. faults \in 0 .. MaxFaults /\ MaxFaults \in Nat
    BY PullQueueAssumption DEF JobsInv, TypeOK
  <2> QED BY <1>1, <2>1 DEF Fault
<1>4. TypeOK'
  BY <1>1, <1>2, <1>3 DEF JobsInv, TypeOK
<1>5. Hands'
  BY <1>1, <1>2 DEF JobsInv, Hands
<1>6. Enqueueing' /\ Planned' /\ OneJobPerNode'
  BY <1>1, EngineKept
<1>7. Claimed' /\ Results'
  BY <1>1 DEF JobsInv, Claimed, Results
<1> QED BY <1>2, <1>4, <1>5, <1>6, <1>7 DEF JobsInv

LEMMA ExecuteJobJobs ==
  ASSUME JobsInv, NEW w \in Worker, ExecuteJob(w)
  PROVE  JobsInv'
<1> DEFINE i == worker[w].job
<1>0. TypeOK
  BY DEF JobsInv
<1>1. /\ worker[w].does = "execute" /\ UNCHANGED <<tasks, engine, plan, jobs, late>>
      /\ worker' = [worker EXCEPT ![w] = IdleWorker]
  BY DEF ExecuteJob
<1>2. /\ i \in DOMAIN jobs /\ worker[w] # IdleWorker
      /\ jobs[i].queue = "claimed" /\ handler[i] = "none"
  BY <1>1 DEF JobsInv, Hands, IdleWorker
<1>3. /\ worker' \in [Worker -> [does : {"idle", "start", "execute"}, job : 0 .. Len(jobs)]]
      /\ worker'[w] = IdleWorker
      /\ \A v \in Worker : v # w => worker'[v] = worker[v]
      /\ OneWorkerPerJob'
  BY <1>1, WorkerIdles
<1>4. /\ handler' \in Seq(HandlerState) /\ DOMAIN handler' = DOMAIN handler
      /\ handler'[i] \in {"none", "ok", "error"}
      /\ \A j \in DOMAIN handler : j # i => handler'[j] = handler[j]
  <2>1. handler \in Seq(HandlerState) /\ i \in DOMAIN handler
    BY <1>0, <1>2 DEF TypeOK, HandlerState
  <2>2. \/ \E out \in {"ok", "error"} : handler' = [handler EXCEPT ![i] = out]
        \/ UNCHANGED handler
    BY DEF ExecuteJob, Post
  <2>3. CASE \E out \in {"ok", "error"} : handler' = [handler EXCEPT ![i] = out]
    <3>1. PICK out \in {"ok", "error"} : handler' = [handler EXCEPT ![i] = out]
      BY <2>3
    <3>2. out \in HandlerState
      BY DEF HandlerState
    <3> QED BY <2>1, <3>1, <3>2, HandlerEffect
  <2>4. CASE UNCHANGED handler
    BY <1>2, <2>1, <2>4
  <2> QED BY <2>2, <2>3, <2>4
<1>5. faults' \in 0 .. MaxFaults
  <2>1. faults \in 0 .. MaxFaults /\ MaxFaults \in Nat
    BY <1>0, PullQueueAssumption DEF TypeOK
  <2> QED BY <2>1 DEF ExecuteJob
<1>6. TypeOK'
  BY <1>0, <1>1, <1>3, <1>4, <1>5 DEF TypeOK, HandlerState
<1>7. Hands'
  <2> SUFFICES ASSUME NEW v \in Worker, worker'[v] # IdleWorker
               PROVE  /\ worker[v].job \in DOMAIN jobs
                      /\ jobs[worker[v].job].queue = "claimed"
                      /\ handler'[worker[v].job] = "none"
    BY <1>1, <1>3 DEF Hands
  <2>1. v # w /\ worker[v] # IdleWorker /\ worker[v].job # i
    BY <1>2, <1>3 DEF JobsInv, OneWorkerPerJob
  <2> QED BY <1>0, <1>4, <2>1 DEF JobsInv, Hands, TypeOK
<1>8. Enqueueing' /\ Planned' /\ OneJobPerNode'
  BY <1>1, EngineKept
<1>9. Claimed'
  BY <1>0, <1>1, <1>2, <1>4 DEF JobsInv, Claimed, TypeOK
<1>10. Results'
  BY <1>0, <1>1, <1>2, <1>4 DEF JobsInv, Results, TypeOK
<1> QED BY <1>3, <1>6, <1>7, <1>8, <1>9, <1>10 DEF JobsInv

LEMMA CompleteJobJobs ==
  ASSUME JobsInv, NEW i \in DOMAIN jobs, CompleteJob(i)
  PROVE  JobsInv'
<1>0. TypeOK
  BY DEF JobsInv
<1>1. /\ handler[i] \in {"ok", "error"}
      /\ jobs' = [jobs EXCEPT ![i].queue = "completed"]
      /\ UNCHANGED <<tasks, engine, plan, worker, handler, late, faults>>
  BY DEF CompleteJob
<1>2. /\ jobs' \in Seq(Job) /\ Len(jobs') = Len(jobs) /\ DOMAIN jobs' = DOMAIN jobs
      /\ jobs'[i].queue = "completed"
      /\ \A j \in DOMAIN jobs :
           /\ j # i => jobs'[j].queue = jobs[j].queue
           /\ jobs'[j].task = jobs[j].task /\ jobs'[j].node = jobs[j].node
           /\ jobs'[j].run = jobs[j].run /\ jobs'[j].out = jobs[j].out
  BY <1>0, <1>1, QueueEffect DEF TypeOK, QueueState
<1>3. TypeOK'
  BY <1>0, <1>1, <1>2 DEF TypeOK
<1>4. jobs[i].queue \in {"claimed", "completed"}
  BY <1>1 DEF JobsInv, Claimed
<1>5. Enqueueing' /\ Planned' /\ OneJobPerNode'
  BY <1>1, <1>2, <1>4, EngineKept
<1>6. OneWorkerPerJob' /\ Hands'
  BY <1>1, <1>2 DEF JobsInv, OneWorkerPerJob, Hands
<1>7. Claimed' /\ Results'
  BY <1>1, <1>2 DEF JobsInv, Claimed, Results
<1> QED BY <1>3, <1>5, <1>6, <1>7 DEF JobsInv

LEMMA RecordResultJobs ==
  ASSUME JobsInv, NEW i \in DOMAIN jobs, RecordResult(i)
  PROVE  JobsInv'
<1>0. TypeOK
  BY DEF JobsInv
<1>1. /\ handler[i] \in {"ok", "error"}
      /\ jobs' = [jobs EXCEPT ![i].run = handler[i], ![i].out = handler[i]]
      /\ handler' = [handler EXCEPT ![i] = "wake"]
      /\ UNCHANGED <<tasks, engine, plan, worker, late, faults>>
  BY DEF RecordResult
<1>2. /\ jobs' \in Seq(Job) /\ Len(jobs') = Len(jobs) /\ DOMAIN jobs' = DOMAIN jobs
      /\ jobs'[i].run = handler[i] /\ jobs'[i].out = handler[i]
      /\ \A j \in DOMAIN jobs :
           /\ j # i => jobs'[j].run = jobs[j].run /\ jobs'[j].out = jobs[j].out
           /\ jobs'[j].task = jobs[j].task /\ jobs'[j].node = jobs[j].node
           /\ jobs'[j].queue = jobs[j].queue
  BY <1>0, <1>1, RunEffect DEF TypeOK
<1>3. /\ handler' \in Seq(HandlerState) /\ DOMAIN handler' = DOMAIN handler
      /\ handler'[i] = "wake"
      /\ \A j \in DOMAIN handler : j # i => handler'[j] = handler[j]
  BY <1>0, <1>1, HandlerEffect DEF TypeOK, HandlerState
<1>4. TypeOK'
  BY <1>0, <1>1, <1>2, <1>3 DEF TypeOK, HandlerState
<1>5. Enqueueing' /\ Planned' /\ OneJobPerNode'
  BY <1>1, <1>2, EngineKept
<1>6. OneWorkerPerJob'
  BY <1>1 DEF JobsInv, OneWorkerPerJob
<1>7. Hands'
  BY <1>0, <1>1, <1>2, <1>3 DEF JobsInv, Hands, TypeOK
<1>8. Claimed' /\ Results'
  BY <1>0, <1>1, <1>2, <1>3 DEF JobsInv, Claimed, Results, TypeOK
<1> QED BY <1>4, <1>5, <1>6, <1>7, <1>8 DEF JobsInv

\* The handler's last write, or its death.
LEMMA HandlerEndJobs ==
  ASSUME JobsInv, NEW i \in DOMAIN jobs, WakeTask(i) \/ HandlerCrash(i)
  PROVE  JobsInv'
<1>0. TypeOK
  BY DEF JobsInv
<1>1. /\ handler[i] # "none" /\ handler' = [handler EXCEPT ![i] = "done"]
      /\ UNCHANGED <<engine, plan, jobs, worker, late>>
      /\ tasks' = [tasks EXCEPT ![jobs[i].task].status = "pending"] \/ UNCHANGED tasks
      /\ UNCHANGED faults \/ Fault
  BY DEF WakeTask, HandlerCrash, SetStatus
<1>2. /\ handler' \in Seq(HandlerState) /\ DOMAIN handler' = DOMAIN handler
      /\ handler'[i] = "done"
      /\ \A j \in DOMAIN handler : j # i => handler'[j] = handler[j]
  BY <1>0, <1>1, HandlerEffect DEF TypeOK, HandlerState
<1>3. faults' \in 0 .. MaxFaults
  <2>1. faults \in 0 .. MaxFaults /\ MaxFaults \in Nat
    BY <1>0, PullQueueAssumption DEF TypeOK
  <2> QED BY <1>1, <2>1 DEF Fault
<1>4. /\ tasks' \in [Task -> [status : Status, curr : Cursor]]
      /\ \A u \in Task : tasks'[u].curr = tasks[u].curr
  <2>1. tasks \in [Task -> [status : Status, curr : Cursor]] /\ "pending" \in Status
    BY <1>0 DEF TypeOK, Status
  <2>2. CASE UNCHANGED tasks
    BY <2>1, <2>2
  <2>3. CASE tasks' = [tasks EXCEPT ![jobs[i].task].status = "pending"]
    BY <2>1, <2>3
  <2> QED BY <1>1, <2>2, <2>3
<1>5. TypeOK'
  BY <1>0, <1>1, <1>2, <1>3, <1>4 DEF TypeOK, HandlerState
<1>6. Enqueueing' /\ Planned' /\ OneJobPerNode'
  BY <1>1, <1>4, EngineKept
<1>7. OneWorkerPerJob'
  BY <1>1 DEF JobsInv, OneWorkerPerJob
<1>8. Hands'
  BY <1>0, <1>1, <1>2 DEF JobsInv, Hands, TypeOK
<1>9. Claimed' /\ Results'
  BY <1>0, <1>1, <1>2 DEF JobsInv, Claimed, Results, TypeOK
<1> QED BY <1>5, <1>6, <1>7, <1>8, <1>9 DEF JobsInv

LEMMA JobsStep == JobsInv /\ [Next]_vars => JobsInv'
<1> SUFFICES ASSUME JobsInv, [Next]_vars PROVE JobsInv'
  OBVIOUS
<1>1. ASSUME NEW t \in Task, EngineStep(t) \/ EngineCrash(t) PROVE JobsInv'
  BY <1>1, EngineJobs, CreateRunJobs, EnqueueJobs DEF EngineStep
<1>2. ASSUME NEW w \in Worker, WorkerStep(w) \/ WorkerCrash(w) PROVE JobsInv'
  BY <1>2, PollJobs, ReportRunningJobs, ExecuteJobJobs, WorkerCrashJobs DEF WorkerStep
<1>3. ASSUME NEW i \in DOMAIN jobs, HandlerStep(i) \/ LateRunning(i) \/ HandlerCrash(i)
      PROVE  JobsInv'
  BY <1>3, CompleteJobJobs, RecordResultJobs, HandlerEndJobs, LateRunningJobs
  DEF HandlerStep
<1>4. ASSUME UNCHANGED vars PROVE JobsInv'
  BY <1>4 DEF vars, JobsInv, TypeOK, OneJobPerNode, OneWorkerPerJob, Hands, Claimed,
     Enqueueing, Results, Planned, JobsOf
<1> QED BY <1>1, <1>2, <1>3, <1>4 DEF Next

LEMMA JobsAlways == Spec => []JobsInv
  BY JobsInit, JobsStep, PTL DEF Spec

\* Every variable keeps to its type, whatever is lost, comes late or dies.
THEOREM TypeCorrect == Spec => []TypeOK
<1>1. JobsInv => TypeOK
  BY DEF JobsInv
<1> QED BY <1>1, JobsAlways, PTL

\* A queue node puts one job in the queue for a task, however often the engine
\* comes back to it.
THEOREM EnqueuedOnce == Spec => []OneJobPerNode
<1>1. JobsInv => OneJobPerNode
  BY DEF JobsInv
<1> QED BY <1>1, JobsAlways, PTL

\* No two workers ever have the same job: PollQueue claims the row it selects.
THEOREM ClaimedOnce == Spec => []OneWorkerPerJob
<1>1. JobsInv => OneWorkerPerJob
  BY DEF JobsInv
<1> QED BY <1>1, JobsAlways, PTL
=============================================================================
