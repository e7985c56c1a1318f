------------------------------ MODULE NodeTask ------------------------------
(***************************************************************************)
(* One task and the engine that steps it, as the node kinds see them: the  *)
(* row's cursor and shared state, the copy of them a step works on, and    *)
(* the ways a step can end (core.go).  WaitNodes and BranchNodes add the   *)
(* steps of each kind, NodeRuntime composes them.                          *)
(*                                                                         *)
(* Shared state is what the kinds keep in it: the runtime record `_rt` of  *)
(* each node and the signal written for each node.  Times are kept as ages *)
(* and countdowns, TimeMax standing for "TimeMax or more", so that the     *)
(* clock has no end.                                                       *)
(***************************************************************************)
EXTENDS Naturals, Sequences, FiniteSets

CONSTANTS
  Node, NoNode,
  Branch,     \* services of a parallel, items of a foreach, nodes of a subflow
  NoBranch,
  Whole,      \* stands for the node itself where a branch is expected
  Flow,       \* the flow definitions a task may be created for
  TimeMax,    \* bound: longer times are not told apart
  TriesMax    \* bound: a higher number of retries is not told apart

Cursor == Node \cup {NoNode}
Action == {"default", "approved", "rejected"}

\* wait: delay_ms, timeout_ms or wait_ms.  branches: all different, in the order
\* of the definition.  queue: those of them with exec_type queue.
NodeDef ==
  [kind : {"timer", "wait_event", "approval", "choice",
           "parallel", "foreach", "subflow"},
   next : [Action -> Cursor],
   strategy : {"none", "retry", "continue", "fail_fast"},
   wait : 0 .. TimeMax,
   branches : Seq(Branch), queue : SUBSET Branch,
   mode : {"sequential", "concurrent"}, max : Nat,
   retries : 0 .. TriesMax]

ASSUME NodeTaskAssumption ==
  /\ NoNode \notin Node /\ NoBranch \notin Branch
  /\ Whole \notin Branch \cup {NoBranch}
  /\ TimeMax \in Nat /\ TriesMax \in Nat
  /\ \A f \in Flow :
       /\ f.start \in Node
       /\ DOMAIN f.def = Node
       /\ \A n \in Node : f.def[n] \in NodeDef

VARIABLES
  flow,  \* the task's flow definition
  task,  \* its row
  pc,    \* where the scheduler that holds the task stands, or "free"
  my,    \* cursor and shared state as the step has them in memory
  plan   \* what the step is about to write

\* The runtime record of a node; each kind uses its own fields.
\*   age            time since `start` (timer, wait_event)
\*   done, errs     which branch's work each finished branch has as its result,
\*                  and which branches failed
\*   tries, again   a subflow's failures, and the time until it tries again
Runtime ==
  [on : BOOLEAN, age : 0 .. TimeMax,
   done : [Branch -> Branch \cup {NoBranch, Whole}], errs : SUBSET Branch,
   tries : 0 .. TriesMax, again : 0 .. TimeMax]
NoRuntime ==
  [on |-> FALSE, age |-> 0, done |-> [b \in Branch |-> NoBranch], errs |-> {},
   tries |-> 0, again |-> 0]

\* A boolean posted to /tasks/signal, or nothing yet.
Signal == {"none", "true", "false"}

Shared == [rt : [Node -> Runtime], sig : [Node -> Signal]]
NoShared == [rt |-> [n \in Node |-> NoRuntime], sig |-> [n \in Node |-> "none"]]

Status == {"pending", "running", "waiting_queue", "completed", "failed"}

Def(n) == flow.def[n]
RuntimeOf(n) ==
  IF my.shared.rt[n].on THEN my.shared.rt[n] ELSE [NoRuntime EXCEPT !.on = TRUE]

Kept(n, r) == [my.shared EXCEPT !.rt[n] = r]
NotCleared(n) == my.shared  \* mutant: the runtime record is left behind
Cleared(n) == [my.shared EXCEPT !.rt[n] = NoRuntime]

-----------------------------------------------------------------------------
(* The ends of a step: the status and the progress it will write. *)

FindNext(n, action) == IF n = NoNode THEN NoNode ELSE Def(n).next[action]

Write(status, next, shared) ==
  /\ plan' = [status |-> status, next |-> next, shared |-> shared]
  /\ pc' = "status"

\* finishNode
Finish(action, ok, shared) ==
  LET next == FindNext(my.curr, action)
  IN Write(IF next # NoNode THEN "running" ELSE IF ok THEN "completed" ELSE "failed",
           next, shared)

\* updateTaskRunning: the node stays, to be looked at again.
Stay(shared) == Write("running", my.curr, shared)

\* suspendTask
SuspendAs(shared) == Write("suspended", my.curr, shared)  \* mutant: no status it is
Suspend(shared) == Write("waiting_queue", my.curr, shared)

-----------------------------------------------------------------------------
(* Time. *)

Older(i) == IF i < TimeMax THEN i + 1 ELSE i
Sooner(i) == IF i > 0 THEN i - 1 ELSE i

Timed(n) == Def(n).kind \in {"timer", "wait_event"}
AgedRuntime(n, r) ==
  [r EXCEPT !.age = IF r.on /\ Timed(n) THEN Older(r.age) ELSE r.age,
            !.again = Sooner(r.again)]
Aged(shared) ==
  [shared EXCEPT !.rt = [n \in Node |-> AgedRuntime(n, shared.rt[n])]]
=============================================================================
