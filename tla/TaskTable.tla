----------------------------- MODULE TaskTable -----------------------------
(***************************************************************************)
(* The `tasks` table of the SQLite store and the statements the server,    *)
(* the scheduler and the engine issue on it (pkg/store/sqlstore/sqlite.go).*)
(* Every statement is one autocommitted UPDATE or one transaction, so each *)
(* is one assignment to `tasks`.                                           *)
(*                                                                         *)
(* A row keeps the columns that decide who may run the task and where it   *)
(* stands: status, current_node_key (curr), lease_owner (owner).  The two  *)
(* Unix times are kept relative to the clock, so that time has no end:     *)
(*   left = lease_expiry - now,  -1 once it has passed (and for expiry 0), *)
(*   age  = now - updated_at,    AgeMax standing for "AgeMax or more".     *)
(* All times are whole seconds, as in the code (nowUnix).                  *)
(***************************************************************************)
EXTENDS Integers

CONSTANTS
  Task,      \* task ids
  Owner,     \* lease owners: one per scheduler process (SCHEDULER_OWNER)
  Node,      \* node keys of the flow definitions
  NoOwner,   \* the empty lease_owner
  NoNode,    \* the empty current_node_key
  LeaseTTL,  \* seconds a lease lasts
  AgeMax     \* bound: row ages above it are not told apart

ASSUME TaskTableAssumption ==
  /\ LeaseTTL \in Nat \ {0}
  /\ AgeMax \in Nat
  /\ NoOwner \notin Owner
  /\ NoNode \notin Node

VARIABLE tasks

Cursor == Node \cup {NoNode}

\* "none": the row has not been inserted yet.
TaskStatus == {"none", "pending", "running", "waiting_queue", "canceling",
               "canceled", "completed", "failed"}

Row == [status : TaskStatus, curr : Cursor, owner : Owner \cup {NoOwner},
        left : -1 .. LeaseTTL, age : 0 .. AgeMax]

NoRow == [status |-> "none", curr |-> NoNode, owner |-> NoOwner,
          left |-> -1, age |-> 0]

TaskTableInit == tasks = [t \in Task |-> NoRow]

-----------------------------------------------------------------------------
\* INSERT of CreateTask: pending, at the flow's start node, with no lease.
CreateTask(t, start) ==
  /\ tasks[t].status = "none"
  /\ tasks' = [tasks EXCEPT ![t] = [NoRow EXCEPT !.status = "pending",
                                                 !.curr = start]]

\* WHERE status IN ('pending','running') AND (lease_expiry=0 OR lease_expiry<now)
LeasableAlways(t) ==  \* mutant: the lease is not looked at
  tasks[t].status \in {"pending", "running"}
LeasableAnyStatus(t) ==  \* mutant: no filter on the status
  tasks[t].status # "none" /\ tasks[t].left < 0
LeasableNew(t) ==  \* mutant: expired leases are not reclaimed
  tasks[t].status \in {"pending", "running"} /\ tasks[t].owner = NoOwner
Leasable(t) ==
  /\ tasks[t].status \in {"pending", "running"}
  /\ tasks[t].left < 0

\* LeaseNextTask: ORDER BY updated_at ASC LIMIT 1, ties in any order.
LeaseNextTask(t, o) ==
  /\ Leasable(t)
  /\ \A u \in Task : Leasable(u) => tasks[u].age <= tasks[t].age
  /\ tasks' = [tasks EXCEPT ![t] = [@ EXCEPT !.owner = o, !.left = LeaseTTL,
                                             !.status = "running"]]

\* ExtendLease: WHERE id=? AND lease_owner=?, whether or not it has expired.
ExtendLeaseNever(t, o) == UNCHANGED tasks  \* mutant: nothing is renewed
ExtendLease(t, o) ==
  tasks' = IF tasks[t].owner = o
           THEN [tasks EXCEPT ![t] = [@ EXCEPT !.left = LeaseTTL]]
           ELSE tasks

\* The condition of the *Owned statements: lease_owner=? AND lease_expiry>now.
FencedByNobody(t, o) == TRUE  \* mutant: the un-owned statement instead
Fenced(t, o) == tasks[t].owner = o /\ tasks[t].left > 0

UpdateTaskStatus(t, st) ==
  tasks' = [tasks EXCEPT ![t] = [@ EXCEPT !.status = st, !.age = 0]]

UpdateTaskStatusOwned(t, o, st) ==
  IF Fenced(t, o) THEN UpdateTaskStatus(t, st) ELSE UNCHANGED tasks

UpdateTaskProgress(t, n) ==
  tasks' = [tasks EXCEPT ![t] = [@ EXCEPT !.curr = n, !.age = 0]]

UpdateTaskProgressOwned(t, o, n) ==
  IF Fenced(t, o) THEN UpdateTaskProgress(t, n) ELSE UNCHANGED tasks

\* One second passes for every row.
Elapse ==
  tasks' = [t \in Task |->
              [tasks[t] EXCEPT
                 !.left = IF @ > -1 THEN @ - 1 ELSE -1,
                 !.age  = IF @ < AgeMax /\ tasks[t].status # "none"
                          THEN @ + 1 ELSE @]]
=============================================================================
