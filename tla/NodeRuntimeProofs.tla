--------------------------- MODULE NodeRuntimeProofs ---------------------------
(***************************************************************************)
(* Theorems about NodeRuntime, for any flows, crashes and requests: type   *)
(* correctness, an approval is decided by what was posted, and a wait      *)
(* lasts its time.                                                         *)
(***************************************************************************)
EXTENDS NodeRuntime, TLAPS

\* A step is at a branch of a branching node; a request names a node.
Structure ==
  /\ pc = "branches" => Branching(my.curr)
  /\ request # NoRequest => request.key \in Node

InStep == pc \in {"decide", "branches", "status", "progress"}
Writing == pc \in {"status", "progress"}

-----------------------------------------------------------------------------
(* What the operators of NodeTask return. *)

LEMMA DefType ==
  ASSUME flow \in Flow, NEW n \in Node
  PROVE  /\ Def(n).next \in [Action -> Cursor]
         /\ Def(n).wait \in 0 .. TimeMax /\ Def(n).retries \in 0 .. TriesMax
         /\ Def(n).max \in Nat /\ Def(n).queue \subseteq Branch
         /\ Def(n).branches \in Seq(Branch)
  BY NodeTaskAssumption DEF Def, NodeDef

LEMMA RuntimeType ==
  ASSUME my.shared \in Shared, NEW n \in Node
  PROVE  /\ NoRuntime \in Runtime /\ NoShared \in Shared
         /\ RuntimeOf(n) \in Runtime
<1>1. NoRuntime \in Runtime
  BY NodeTaskAssumption DEF NoRuntime, Runtime
<1>2. NoShared \in Shared
  BY <1>1 DEF NoShared, Shared, Signal
<1>3. [NoRuntime EXCEPT !.on = TRUE] \in Runtime
  BY <1>1 DEF NoRuntime, Runtime
<1>4. my.shared.rt[n] \in Runtime
  BY DEF Shared
<1> QED BY <1>1, <1>2, <1>3, <1>4 DEF RuntimeOf

\* A record that a step keeps or clears replaces the node's own and no other.
LEMMA KeptEffect ==
  ASSUME my.shared \in Shared, NEW n \in Node, NEW STATE r
  PROVE  /\ Kept(n, r).sig = my.shared.sig /\ Kept(n, r).rt[n] = r
         /\ r \in Runtime => Kept(n, r) \in Shared
         /\ \A m \in Node \ {n} : Kept(n, r).rt[m] = my.shared.rt[m]
  BY DEF Shared, Kept

LEMMA ClearedEffect ==
  ASSUME my.shared \in Shared, NEW n \in Node
  PROVE  /\ Cleared(n).sig = my.shared.sig /\ Cleared(n).rt[n] = NoRuntime
         /\ Cleared(n) \in Shared
         /\ \A m \in Node \ {n} : Cleared(n).rt[m] = my.shared.rt[m]
  BY RuntimeType DEF Shared, Cleared

LEMMA OlderType ==
  ASSUME NEW i \in 0 .. TimeMax
  PROVE  Older(i) \in 0 .. TimeMax /\ Sooner(i) \in 0 .. TimeMax /\ Older(i) >= i
  BY NodeTaskAssumption DEF Older, Sooner

\* Time makes the starts of waits older, and changes no signal.
LEMMA AgedEffect ==
  ASSUME NEW STATE sh, sh \in Shared
  PROVE  /\ Aged(sh) \in Shared /\ Aged(sh).sig = sh.sig
         /\ \A m \in Node :
              /\ Aged(sh).rt[m].on = sh.rt[m].on
              /\ Aged(sh).rt[m].done = sh.rt[m].done
              /\ Aged(sh).rt[m].errs = sh.rt[m].errs
              /\ Aged(sh).rt[m].tries = sh.rt[m].tries
              /\ Aged(sh).rt[m].age = IF sh.rt[m].on /\ Timed(m)
                                      THEN Older(sh.rt[m].age) ELSE sh.rt[m].age
<1> DEFINE Now(m) == AgedRuntime(m, sh.rt[m])
<1>1. Aged(sh) = [sh EXCEPT !.rt = [m \in Node |-> Now(m)]]
  BY DEF Aged
<1>2. ASSUME NEW m \in Node
      PROVE  /\ Now(m) \in Runtime
             /\ Now(m).on = sh.rt[m].on /\ Now(m).done = sh.rt[m].done
             /\ Now(m).errs = sh.rt[m].errs /\ Now(m).tries = sh.rt[m].tries
             /\ Now(m).age = IF sh.rt[m].on /\ Timed(m)
                             THEN Older(sh.rt[m].age) ELSE sh.rt[m].age
  <2>1. sh.rt[m] \in Runtime
    BY DEF Shared
  <2>2. /\ Older(sh.rt[m].age) \in 0 .. TimeMax
        /\ Sooner(sh.rt[m].again) \in 0 .. TimeMax
    BY <2>1, OlderType DEF Runtime
  <2> QED BY <2>1, <2>2 DEF AgedRuntime, Runtime
<1> HIDE DEF Now
<1>3. /\ Aged(sh).sig = sh.sig /\ \A m \in Node : Aged(sh).rt[m] = Now(m)
      /\ Aged(sh) \in Shared
  BY <1>1, <1>2 DEF Shared
<1> QED BY <1>2, <1>3

LEMMA NothingAges == Aged(NoShared) = NoShared
<1>1. ASSUME NEW m \in Node PROVE AgedRuntime(m, NoRuntime) = NoRuntime
  <2>1. /\ NoRuntime.on = FALSE /\ NoRuntime.again = 0
        /\ NoRuntime = [NoRuntime EXCEPT !.age = NoRuntime.age, !.again = NoRuntime.again]
    BY DEF NoRuntime
  <2>2. Sooner(0) = 0
    BY DEF Sooner
  <2> QED BY <2>1, <2>2 DEF AgedRuntime
<1>2. [m \in Node |-> AgedRuntime(m, NoRuntime)] = [m \in Node |-> NoRuntime]
  BY <1>1
<1> QED BY <1>2 DEF Aged, NoShared

-----------------------------------------------------------------------------
(* Type correctness. *)

PlanType == [status : Status, next : Cursor, shared : Shared]

\* The ends of a step leave a plan.
LEMMA FindNextType ==
  ASSUME flow \in Flow, NEW n \in Cursor, NEW action \in Action
  PROVE  FindNext(n, action) \in Cursor
  BY DefType DEF FindNext, Cursor

LEMMA EndTypes ==
  ASSUME flow \in Flow, my.curr \in Cursor, NEW STATE sh, sh \in Shared
  PROVE  /\ \A action \in Action, ok \in BOOLEAN :
              Finish(action, ok, sh) => pc' = "status" /\ plan' \in PlanType
         /\ Stay(sh) => pc' = "status" /\ plan' \in PlanType
         /\ Suspend(sh) => pc' = "status" /\ plan' \in PlanType
<1>1. ASSUME NEW action \in Action, NEW ok \in BOOLEAN, Finish(action, ok, sh)
      PROVE  pc' = "status" /\ plan' \in PlanType
  <2>1. FindNext(my.curr, action) \in Cursor
    BY FindNextType
  <2> QED BY <1>1, <2>1 DEF Finish, Write, PlanType, Status
<1> QED BY <1>1 DEF Stay, Suspend, Write, PlanType, Status

\* What a step of a waiting node, or of no node, leaves in the plan.
LEMMA WaitTypes ==
  ASSUME TypeOK, Wait
  PROVE  pc = "decide" /\ pc' = "status" /\ plan' \in PlanType
<1>0. /\ flow \in Flow /\ my.curr \in Cursor /\ my.shared \in Shared
      /\ "default" \in Action /\ {TRUE, FALSE} = BOOLEAN
  BY DEF TypeOK, Action
<1>1. CASE RunNoNode
  BY <1>0, <1>1, EndTypes DEF RunNoNode
<1>2. CASE RunChoice
  BY <1>0, <1>2, EndTypes DEF RunChoice, At
<1> DEFINE n == my.curr
<1>3. ASSUME n \in Node
      PROVE  /\ Cleared(n) \in Shared /\ Kept(n, RuntimeOf(n)) \in Shared
             /\ Kept(n, [RuntimeOf(n) EXCEPT !.age = 0]) \in Shared
  <2>1. RuntimeOf(n) \in Runtime
    BY <1>0, <1>3, RuntimeType
  <2>2. [RuntimeOf(n) EXCEPT !.age = 0] \in Runtime
    BY <2>1, NodeTaskAssumption DEF Runtime
  <2> QED BY <1>0, <1>3, <2>1, <2>2, KeptEffect, ClearedEffect
<1>4. CASE RunTimer
  <2>1. n \in Node /\ pc = "decide"
    BY <1>0, <1>4 DEF RunTimer, At, Cursor
  <2> QED BY <1>0, <1>3, <1>4, <2>1, EndTypes DEF RunTimer
<1>5. CASE RunWaitEvent
  <2>1. n \in Node /\ pc = "decide" /\ (Def(n).strategy = "continue") \in BOOLEAN
    BY <1>0, <1>5 DEF RunWaitEvent, At, Cursor
  <2> QED BY <1>0, <1>3, <1>5, <2>1, EndTypes DEF RunWaitEvent
<1>6. CASE RunApproval
  <2>1. n \in Node /\ pc = "decide" /\ Decision(my.shared.sig[n]) \in Action
    BY <1>0, <1>6 DEF RunApproval, At, Cursor, Decision, Action
  <2> QED BY <1>0, <1>3, <1>6, <2>1, EndTypes DEF RunApproval
<1> QED BY <1>1, <1>2, <1>4, <1>5, <1>6 DEF Wait, RunWaiting

\* It changes no record but the node's own, and no signal.
LEMMA WaitFrame ==
  ASSUME TypeOK, Wait
  PROVE  /\ plan'.shared.sig = my.shared.sig
         /\ \A m \in Node \ {my.curr} : plan'.shared.rt[m] = my.shared.rt[m]
<1> DEFINE n == my.curr
<1>0. my.shared \in Shared /\ n \in Cursor
  BY DEF TypeOK
<1>1. ASSUME NEW STATE sh,
             sh.sig = my.shared.sig, \A m \in Node \ {n} : sh.rt[m] = my.shared.rt[m],
             \/ \E action, ok : Finish(action, ok, sh)
             \/ Stay(sh)
      PROVE  /\ plan'.shared.sig = my.shared.sig
             /\ \A m \in Node \ {n} : plan'.shared.rt[m] = my.shared.rt[m]
  BY <1>1 DEF Finish, Stay, Write
<1>2. CASE RunNoNode \/ RunChoice
  BY <1>1, <1>2 DEF RunNoNode, RunChoice
<1>3. CASE ~RunNoNode /\ ~RunChoice
  <2>1. n \in Node
    BY <1>0, <1>3 DEF Wait, RunWaiting, RunTimer, RunWaitEvent, RunApproval, At, Cursor
  <2>2. /\ Cleared(n).sig = my.shared.sig
        /\ \A m \in Node \ {n} : Cleared(n).rt[m] = my.shared.rt[m]
    BY <1>0, <2>1, ClearedEffect
  <2>3. \A r : /\ Kept(n, r).sig = my.shared.sig
               /\ \A m \in Node \ {n} : Kept(n, r).rt[m] = my.shared.rt[m]
    BY <1>0, <2>1 DEF Kept, Shared
  <2>4. CASE RunTimer
    BY <1>1, <2>2, <2>3, <2>4 DEF RunTimer
  <2>5. CASE RunWaitEvent
    BY <1>1, <2>2, <2>3, <2>5 DEF RunWaitEvent
  <2>6. CASE RunApproval
    BY <1>1, <2>2, <2>3, <2>6 DEF RunApproval
  <2> QED BY <1>3, <2>4, <2>5, <2>6 DEF Wait, RunWaiting
<1> QED BY <1>2, <1>3

\* A step of a branching node is at that node.
LEMMA WorkAt ==
  ASSUME TypeOK, Structure, RunBranches
  PROVE  my.curr \in Node /\ Branching(my.curr) /\ pc \in {"decide", "branches"}
<1>1. pc \in {"decide", "branches"} /\ Branching(my.curr)
  BY DEF RunBranches, Structure, Launch, Delay, Without, NoServices, EmptyList,
         EmptySubflow, FinishBranches, ExecBranch, ReadLastRun, EnqueueBranch, Receive,
         AllIn, SuspendBatch, FailFast, NextBatch, BranchOk, AdvanceSubflow,
         FinishSubflow, BranchFailed, RetrySubflow, FailSubflow
<1> QED BY <1>1 DEF Branching, TypeOK, Cursor

\* Receiving an outcome: what it makes of the node's record.
Succeeded(n, b) == [RuntimeOf(n) EXCEPT !.done[b] = go[b].from]
Erred(n, b) == [RuntimeOf(n) EXCEPT !.errs = @ \cup {b}]

LEMMA ReceiveEffect ==
  ASSUME TypeOK, Structure, NEW b \in Branch, Receive(b)
  PROVE  /\ my' \in [curr : Cursor, shared : Shared]
         /\ my'.curr = my.curr /\ my'.shared.sig = my.shared.sig
         /\ \A m \in Node \ {my.curr} : my'.shared.rt[m] = my.shared.rt[m]
         /\ go[b].at = "ok" => my'.shared.rt[my.curr] = Succeeded(my.curr, b)
         /\ go[b].at = "error" /\ Def(my.curr).kind # "subflow" =>
              my'.shared.rt[my.curr] = Erred(my.curr, b)
         /\ go[b].at = "pending" \/ (go[b].at = "error" /\ Def(my.curr).kind = "subflow") =>
              my' = my
<1> DEFINE n == my.curr
           ok == Succeeded(n, b)
           bad == Erred(n, b)
<1>0. n \in Node /\ my \in [curr : Cursor, shared : Shared] /\ go[b] \in Going
  BY WorkAt DEF TypeOK, RunBranches
<1>1. RuntimeOf(n) \in Runtime
  BY <1>0, RuntimeType
<1>2. ok \in Runtime /\ bad \in Runtime
  BY <1>0, <1>1 DEF Runtime, Going, Succeeded, Erred
<1>3. my' = CASE go[b].at = "ok" -> [my EXCEPT !.shared = Kept(n, ok)]
              [] go[b].at = "error" /\ Def(n).kind # "subflow" ->
                   [my EXCEPT !.shared = Kept(n, bad)]
              [] OTHER -> my
  BY DEF Receive, Succeeded, Erred
<1>4. go[b].at \in {"ok", "error", "pending"}
  BY DEF Receive
<1> HIDE DEF n, ok, bad
<1>5. CASE go[b].at = "ok"
  BY <1>0, <1>2, <1>3, <1>5, KeptEffect DEF n, ok
<1>6. CASE go[b].at = "error" /\ Def(my.curr).kind # "subflow"
  BY <1>0, <1>2, <1>3, <1>6, KeptEffect DEF n, bad
<1>7. CASE go[b].at = "pending" \/ (go[b].at = "error" /\ Def(my.curr).kind = "subflow")
  <2>1. my' = my
    BY <1>3, <1>7 DEF n
  <2> QED BY <1>0, <1>7, <2>1 DEF n
<1> QED BY <1>4, <1>5, <1>6, <1>7

\* A step of a branching node changes no record but the node's own, and no signal.
LEMMA WorkFrame ==
  ASSUME TypeOK, Structure, RunBranches
  PROVE  /\ my'.curr = my.curr /\ my'.shared.sig = my.shared.sig
         /\ \A m \in Node \ {my.curr} : my'.shared.rt[m] = my.shared.rt[m]
         /\ \/ pc' = "branches" /\ UNCHANGED plan
            \/ /\ pc' = "status" /\ UNCHANGED my
               /\ plan'.shared.sig = my.shared.sig
               /\ \A m \in Node \ {my.curr} : plan'.shared.rt[m] = my.shared.rt[m]
<1> DEFINE n == my.curr
           Ends == /\ pc' = "status" /\ UNCHANGED my
                   /\ plan'.shared.sig = my.shared.sig
                   /\ \A m \in Node \ {n} : plan'.shared.rt[m] = my.shared.rt[m]
<1>0. n \in Node /\ my.shared \in Shared
  BY WorkAt DEF TypeOK
<1>1. ASSUME NEW b \in Branch, ExecBranch(b) \/ ReadLastRun(b) \/ EnqueueBranch(b)
      PROVE  pc' = "branches" /\ UNCHANGED <<my, plan>>
  BY <1>1 DEF ExecBranch, ReadLastRun, EnqueueBranch, Structure, RunBranches
<1>2. ASSUME NEW b \in Branch, Receive(b)
      PROVE  /\ pc' = "branches" /\ UNCHANGED plan
             /\ my'.curr = n /\ my'.shared.sig = my.shared.sig
             /\ \A m \in Node \ {n} : my'.shared.rt[m] = my.shared.rt[m]
  <2>1. pc' = "branches" /\ UNCHANGED plan
    BY <1>2 DEF Receive
  <2> QED BY <1>2, <2>1, ReceiveEffect
<1>3. CASE Launch
  BY <1>3 DEF Launch
\* The ends of a step write the shared state they have, or it with a record of
\* the node kept or cleared.
<1>4. ASSUME NEW STATE sh,
             sh.sig = my.shared.sig, \A m \in Node \ {n} : sh.rt[m] = my.shared.rt[m],
             UNCHANGED my,
             \/ \E action \in Action, ok \in BOOLEAN : Finish(action, ok, sh)
             \/ Stay(sh) \/ Suspend(sh)
      PROVE  Ends
  BY <1>4 DEF Finish, Stay, Suspend, Write
<1>5. /\ Cleared(n).sig = my.shared.sig
      /\ \A m \in Node \ {n} : Cleared(n).rt[m] = my.shared.rt[m]
  BY <1>0, ClearedEffect
<1>6. \A r : /\ Kept(n, r).sig = my.shared.sig
             /\ \A m \in Node \ {n} : Kept(n, r).rt[m] = my.shared.rt[m]
  BY <1>0 DEF Kept, Shared
<1>7. "default" \in Action /\ \A p : (p = TRUE \/ p = FALSE) => p \in BOOLEAN
  BY DEF Action
<1>8. CASE Delay \/ RetrySubflow
  BY <1>4, <1>6, <1>8 DEF Delay, RetrySubflow
<1>9. CASE NoServices \/ AdvanceSubflow \/ NextBatch
  BY <1>4, <1>9 DEF NoServices, AdvanceSubflow, NextBatch, branchVars
<1>10. CASE EmptyList \/ EmptySubflow \/ FailFast
  BY <1>4, <1>7, <1>10 DEF EmptyList, EmptySubflow, FailFast, branchVars
<1>11. CASE FinishBranches \/ FinishSubflow \/ FailSubflow
  BY <1>4, <1>5, <1>7, <1>11 DEF FinishBranches, FinishSubflow, FailSubflow, branchVars
<1>12. CASE SuspendBatch
  BY <1>4, <1>6, <1>12 DEF SuspendBatch, branchVars
<1> QED
  BY <1>1, <1>2, <1>3, <1>8, <1>9, <1>10, <1>11, <1>12 DEF RunBranches

LEMMA WorkTypes ==
  ASSUME TypeOK, Structure, RunBranches
  PROVE  /\ my' \in [curr : Cursor, shared : Shared]
         /\ plan' \in PlanType
         /\ go' \in [Branch -> Going] /\ batch' \in [pending : BOOLEAN, failed : BOOLEAN]
         /\ last' \in [Node -> Run] /\ jobs' \subseteq [node : Node, of : Branch]
         /\ execs' \in [Branch -> 0 .. ExecsMax]
<1> DEFINE n == my.curr
<1>0. /\ n \in Node /\ flow \in Flow /\ my.shared \in Shared /\ my.curr \in Cursor
      /\ my \in [curr : Cursor, shared : Shared] /\ plan \in PlanType
      /\ go \in [Branch -> Going] /\ batch \in [pending : BOOLEAN, failed : BOOLEAN]
      /\ last \in [Node -> Run] /\ jobs \subseteq [node : Node, of : Branch]
      /\ execs \in [Branch -> 0 .. ExecsMax]
      /\ "default" \in Action /\ \A p : (p = TRUE \/ p = FALSE) => p \in BOOLEAN
  BY WorkAt DEF TypeOK, PlanType, Action
<1>1. RuntimeOf(n) \in Runtime /\ Cleared(n) \in Shared /\ Kept(n, RuntimeOf(n)) \in Shared
  BY <1>0, RuntimeType, ClearedEffect, KeptEffect
<1>2. ASSUME NEW b \in Branch, ExecBranch(b)
      PROVE  /\ UNCHANGED <<my, plan, batch, last, jobs>>
             /\ go' \in [Branch -> Going] /\ execs' \in [Branch -> 0 .. ExecsMax]
  BY <1>0, <1>2 DEF ExecBranch, Reach, Going, ExecsMax
<1>3. ASSUME NEW b \in Branch, ReadLastRun(b)
      PROVE  UNCHANGED <<my, plan, batch, last, jobs, execs>> /\ go' \in [Branch -> Going]
  <2>1. last[n] \in Run
    BY <1>0
  <2>2. PICK at \in {"listed", "pending", "ok", "error"} : Reach(b, at, last[n].of)
    BY <1>3, <2>1 DEF ReadLastRun, Run
  <2> QED BY <1>0, <1>3, <2>1, <2>2 DEF ReadLastRun, Reach, Going, Run
<1>4. ASSUME NEW b \in Branch, EnqueueBranch(b)
      PROVE  /\ UNCHANGED <<my, plan, batch, execs>>
             /\ go' \in [Branch -> Going]
             /\ last' \in [Node -> Run] /\ jobs' \subseteq [node : Node, of : Branch]
  <2>1. [of |-> b, out |-> "queued"] \in Run /\ [at |-> "pending", from |-> NoBranch] \in Going
    BY DEF Run, Going
  <2> QED BY <1>0, <1>4, <2>1 DEF EnqueueBranch, Reach
<1>5. ASSUME NEW b \in Branch, Receive(b)
      PROVE  /\ UNCHANGED <<plan, jobs, execs>> /\ go' \in [Branch -> Going]
             /\ batch' \in [pending : BOOLEAN, failed : BOOLEAN] /\ last' \in [Node -> Run]
  <2>1. Idle \in Going
    BY DEF Idle, Going
  <2>2. [of |-> b, out |-> IF go[b].at = "ok" THEN "ok" ELSE "error"] \in Run
    BY DEF Run
  <2>3. UNCHANGED <<plan, jobs, execs>> /\ go' = [go EXCEPT ![b] = Idle]
    BY <1>5 DEF Receive
  <2>4. last' = last \/ last' = [last EXCEPT ![n] =
                                   [of |-> b, out |-> IF go[b].at = "ok" THEN "ok" ELSE "error"]]
    BY <1>5 DEF Receive
  <2>5. batch' \in {batch, [batch EXCEPT !.pending = TRUE], [batch EXCEPT !.failed = TRUE]}
    BY <1>5 DEF Receive
  <2> QED BY <1>0, <2>1, <2>2, <2>3, <2>4, <2>5
<1>6. ASSUME NEW b \in Branch, Receive(b) PROVE my' \in [curr : Cursor, shared : Shared]
  BY <1>6, ReceiveEffect
<1>7. CASE Launch
  <2>1. Idle \in Going /\ [Idle EXCEPT !.at = "launched"] \in Going
    BY DEF Idle, Going
  <2> QED BY <1>0, <1>7, <2>1 DEF Launch, EmptyBatch
<1>8. CASE Delay
  BY <1>0, <1>1, <1>8, EndTypes DEF Delay
<1>9. ASSUME NEW ok \in BOOLEAN, RecordNode(n, ok) PROVE last' \in [Node -> Run]
  BY <1>0, <1>9 DEF RecordNode, Run
<1>10. CASE NoServices
  BY <1>0, <1>9, <1>10, EndTypes DEF NoServices
<1>11. CASE EmptyList
  BY <1>0, <1>9, <1>11, EndTypes DEF EmptyList
<1>12. CASE EmptySubflow
  BY <1>0, <1>9, <1>12, EndTypes DEF EmptySubflow
<1>13. CASE FinishBranches
  <2>1. PICK ok \in BOOLEAN :
          /\ Finish("default", ok, Cleared(n)) /\ RecordNode(n, ok)
          /\ UNCHANGED <<my, go, batch, jobs, execs>>
    BY <1>0, <1>13 DEF FinishBranches
  <2> QED BY <1>0, <1>1, <1>9, <2>1, EndTypes
<1>14. ASSUME UNCHANGED <<my, branchVars>>, plan' \in PlanType
       PROVE  /\ my' \in [curr : Cursor, shared : Shared]
              /\ plan' \in PlanType
              /\ go' \in [Branch -> Going] /\ batch' \in [pending : BOOLEAN, failed : BOOLEAN]
              /\ last' \in [Node -> Run] /\ jobs' \subseteq [node : Node, of : Branch]
              /\ execs' \in [Branch -> 0 .. ExecsMax]
  BY <1>0, <1>14 DEF branchVars
<1>15. CASE SuspendBatch
  <2>1. plan' \in PlanType
    BY <1>0, <1>1, <1>15, EndTypes DEF SuspendBatch
  <2> QED BY <1>14, <1>15, <2>1 DEF SuspendBatch
<1>16. CASE FailFast
  <2>1. plan' \in PlanType
    BY <1>0, <1>16, EndTypes DEF FailFast
  <2> QED BY <1>14, <1>16, <2>1 DEF FailFast
<1>17. CASE NextBatch \/ AdvanceSubflow
  <2>1. plan' \in PlanType
    BY <1>0, <1>17, EndTypes DEF NextBatch, AdvanceSubflow
  <2> QED BY <1>14, <1>17, <2>1 DEF NextBatch, AdvanceSubflow
<1>18. CASE FinishSubflow \/ FailSubflow
  <2>1. plan' \in PlanType
    BY <1>0, <1>1, <1>18, EndTypes DEF FinishSubflow, FailSubflow
  <2> QED BY <1>14, <1>18, <2>1 DEF FinishSubflow, FailSubflow
<1>19. CASE RetrySubflow
  <2>1. Tries(n) \in 0 .. TriesMax
    BY <1>1, NodeTaskAssumption DEF Tries, Runtime
  <2>2. [RuntimeOf(n) EXCEPT !.tries = Tries(n), !.again = Def(n).wait] \in Runtime
    BY <1>0, <1>1, <2>1, DefType DEF Runtime
  <2>3. Kept(n, [RuntimeOf(n) EXCEPT !.tries = Tries(n), !.again = Def(n).wait]) \in Shared
    BY <1>0, <2>2, KeptEffect
  <2>4. plan' \in PlanType
    BY <1>0, <1>19, <2>3, EndTypes DEF RetrySubflow
  <2> QED BY <1>14, <1>19, <2>4 DEF RetrySubflow
<1> QED
  BY <1>0, <1>2, <1>3, <1>4, <1>5, <1>6, <1>7, <1>8, <1>10, <1>11, <1>12, <1>13, <1>15,
     <1>16, <1>17, <1>18, <1>19 DEF RunBranches

LEMMA TypeInit == Init => TypeOK /\ Structure
<1> SUFFICES ASSUME Init PROVE TypeOK /\ Structure
  OBVIOUS
<1>1. NoRuntime \in Runtime
  BY NodeTaskAssumption DEF NoRuntime, Runtime
<1>2. NoShared \in Shared
  BY <1>1 DEF NoShared, Shared, Signal
<1>3. flow.start \in Node
  BY NodeTaskAssumption DEF Init
<1>4. /\ task \in Row
      /\ my \in [curr : Cursor, shared : Shared]
      /\ plan \in [status : Status, next : Cursor, shared : Shared]
      /\ request \in [key : Cursor, value : Signal, curr : Cursor, shared : Shared]
  BY <1>2, <1>3
  DEF Init, Row, Status, Cursor, Nothing, NoPlan, NoRequest, Signal
<1>5. /\ go \in [Branch -> Going] /\ batch \in [pending : BOOLEAN, failed : BOOLEAN]
      /\ last \in [Node -> Run] /\ jobs \subseteq [node : Node, of : Branch]
      /\ execs \in [Branch -> 0 .. ExecsMax]
  BY DEF Init, BranchInit, NothingGoing, Idle, Going, EmptyBatch, NoRun, Run, ExecsMax
<1>6. /\ signals \in 0 .. MaxSignals /\ faults \in 0 .. MaxFaults
      /\ here \in 0 .. TimeMax /\ posted \subseteq Node \X Signal
      /\ reported \in [Node -> [Branch -> {"none", "ok", "error"}]]
  BY NodeRuntimeAssumption, NodeTaskAssumption DEF Init
<1>8. races \in BOOLEAN
  BY DEF Init
<1>7. Structure /\ flow \in Flow /\ pc = "free"
  BY DEF Init, Structure
<1> QED BY <1>4, <1>5, <1>6, <1>7, <1>8 DEF TypeOK

LEMMA TypeStep ==
  ASSUME TypeOK, Structure, [Next]_vars
  PROVE  TypeOK' /\ Structure'
<1>0. /\ flow \in Flow /\ task \in Row /\ my.curr \in Cursor /\ my.shared \in Shared
      /\ plan \in PlanType /\ NoShared \in Shared
      /\ request.curr \in Cursor /\ request.shared \in Shared /\ request.value \in Signal
      /\ NoRequest \in [key : Cursor, value : Signal, curr : Cursor, shared : Shared]
      /\ Nothing \in [curr : Cursor, shared : Shared] /\ NoPlan \in PlanType
  <2>1. NoRuntime \in Runtime
    BY NodeTaskAssumption DEF NoRuntime, Runtime
  <2>2. NoShared \in Shared
    BY <2>1 DEF NoShared, Shared, Signal
  <2> QED BY <2>2 DEF TypeOK, NoRequest, Nothing, NoPlan, PlanType, Signal, Status, Cursor
<1>1. CASE Lease
  BY <1>0, <1>1 DEF Lease, TypeOK, Structure, Row, Status, branchVars, history
<1>2. CASE Read
  BY <1>0, <1>2 DEF Read, TypeOK, Structure, Row, branchVars, history
<1>3. CASE Wait
  BY <1>0, <1>3, WaitTypes DEF Wait, TypeOK, Structure, PlanType, branchVars, history
<1>4. CASE Work
  <2>1. RunBranches /\ UNCHANGED <<flow, task, request, signals, faults, races, history>>
    BY <1>4 DEF Work
  <2>2. Branching(my.curr) /\ my'.curr = my.curr /\ pc' \in {"branches", "status"}
    BY <2>1, WorkAt, WorkFrame
  <2>3. Branching(my.curr)'
    BY <2>1, <2>2 DEF Branching, Def
  <2> QED BY <2>1, <2>2, <2>3, WorkTypes DEF TypeOK, Structure, PlanType, history
<1>5. CASE WriteStatus
  BY <1>0, <1>5 DEF WriteStatus, TypeOK, Structure, Row, PlanType, branchVars, history
<1>6. CASE WriteProgress
  <2>1. task' \in Row
    BY <1>0, <1>6 DEF WriteProgress, Row, PlanType
  <2>2. here' \in 0 .. TimeMax /\ execs' \in [Branch -> 0 .. ExecsMax]
    BY <1>6, NodeTaskAssumption DEF WriteProgress, TypeOK, ExecsMax
  <2> QED BY <1>0, <1>6, <2>1, <2>2 DEF WriteProgress, TypeOK, Structure
<1>f. Forget => /\ my' \in [curr : Cursor, shared : Shared] /\ plan' \in PlanType
                /\ go' \in [Branch -> Going] /\ batch' \in [pending : BOOLEAN, failed : BOOLEAN]
  BY <1>0 DEF Forget, NothingGoing, Idle, Going, EmptyBatch
<1>7. CASE Check
  BY <1>0, <1>7, <1>f DEF Check, TypeOK, Structure, PlanType, history
<1>8. CASE Crash
  <2>1. faults' \in 0 .. MaxFaults
    BY <1>8, NodeRuntimeAssumption DEF Crash, TypeOK
  <2> QED BY <1>0, <1>8, <1>f, <2>1 DEF Crash, TypeOK, Structure, PlanType, history
<1>9. CASE SignalRead
  <2>1. /\ request' \in [key : Node, value : Signal, curr : Cursor, shared : Shared]
        /\ signals' \in 0 .. MaxSignals
    BY <1>0, <1>9, NodeRuntimeAssumption DEF SignalRead, TypeOK, Row
  <2>2. request' \in [key : Cursor, value : Signal, curr : Cursor, shared : Shared]
        /\ request'.key \in Node
    BY <2>1 DEF Cursor
  <2> QED BY <1>0, <1>9, <2>1, <2>2
          DEF SignalRead, TypeOK, Structure, taskVars, branchVars, history, Branching, Def
<1>10. CASE SignalWrite
  <2>1. request.key \in Node /\ request' = NoRequest
    BY <1>10 DEF SignalWrite, Structure
  <2>2. [request.shared EXCEPT !.sig[request.key] = request.value] \in Shared
    BY <1>0, <2>1 DEF Shared
  <2>3. task' \in Row
    BY <1>0, <1>10, <2>2 DEF SignalWrite, Row
  <2>4. posted' \subseteq Node \X Signal
    BY <1>0, <1>10, <2>1 DEF SignalWrite, TypeOK
  <2>5. here' \in 0 .. TimeMax
    BY <1>10, NodeTaskAssumption DEF SignalWrite, TypeOK
  <2>6. races' \in BOOLEAN
    BY <1>10 DEF SignalWrite, TypeOK
  <2> QED BY <1>0, <1>10, <2>1, <2>3, <2>4, <2>5, <2>6
          DEF SignalWrite, TypeOK, Structure, branchVars, Branching, Def
<1>11. CASE WorkerReport
  <2>1. PICK job \in jobs, out \in {"ok", "error"} :
          Report(job, out) /\ reported' = [reported EXCEPT ![job.node][job.of] = out]
    BY <1>11 DEF WorkerReport
  <2>2. job \in [node : Node, of : Branch]
    BY DEF TypeOK
  <2>3. last' \in [Node -> Run]
    BY <2>1, <2>2 DEF Report, TypeOK, Run
  <2>4. task' \in Row /\ jobs' \subseteq [node : Node, of : Branch]
    BY <1>0, <2>1 DEF Report, TypeOK, Row, Status
  <2>5. reported' \in [Node -> [Branch -> {"none", "ok", "error"}]]
    BY <2>1, <2>2 DEF TypeOK
  <2> QED BY <1>0, <1>11, <2>1, <2>3, <2>4, <2>5
          DEF WorkerReport, Report, TypeOK, Structure, Branching, Def
<1>12. CASE Tick
  <2>1. \A sh \in Shared : Aged(sh) \in Shared
    BY AgedEffect
  <2>2. here' \in 0 .. TimeMax
    BY <1>12, OlderType DEF Tick, TypeOK
  <2>3. task' \in Row /\ my' \in [curr : Cursor, shared : Shared] /\ plan' \in PlanType
    BY <1>0, <1>12, <2>1 DEF Tick, TypeOK, Row, PlanType
  <2>4. /\ request' \in [key : Cursor, value : Signal, curr : Cursor, shared : Shared]
        /\ request'.key = request.key /\ my'.curr = my.curr
    BY <1>0, <1>12, <2>1 DEF Tick, TypeOK
  <2>5. request' # NoRequest => request.key \in Node
    <3>1. CASE request = NoRequest
      BY <1>12, <3>1, NothingAges DEF Tick, NoRequest
    <3> QED BY <3>1 DEF Structure
  <2> QED BY <1>0, <1>12, <2>2, <2>3, <2>4, <2>5
          DEF Tick, TypeOK, Structure, PlanType, branchVars, Branching, Def
<1>13. CASE UNCHANGED vars
  BY <1>13 DEF vars, taskVars, branchVars, history, TypeOK, Structure, Branching, Def
<1> QED
  BY <1>1, <1>2, <1>3, <1>4, <1>5, <1>6, <1>7, <1>8, <1>9, <1>10, <1>11, <1>12, <1>13
  DEF Next, Step

\* Row, copies and history stay in their types, for any flows and bounds.
THEOREM TypeCorrect == Spec => []TypeOK
<1>1. TypeOK /\ Structure /\ [Next]_vars => TypeOK' /\ Structure'
  BY TypeStep
<1> QED BY <1>1, TypeInit, PTL DEF Spec

LEMMA TypesAlways == Spec => [](TypeOK /\ Structure)
<1>1. TypeOK /\ Structure /\ [Next]_vars => TypeOK' /\ Structure'
  BY TypeStep
<1> QED BY <1>1, TypeInit, PTL DEF Spec

-----------------------------------------------------------------------------
(* An approval is decided by what was posted. *)

\* The flow is fixed, and no post is forgotten.
LEMMA Constancy ==
  ASSUME [Next]_vars
  PROVE  flow' = flow /\ posted \subseteq posted'
  BY DEF Next, Step, Lease, Read, Wait, Work, WriteStatus, WriteProgress, Check, Crash,
         SignalRead, SignalWrite, WorkerReport, Tick, vars, history

\* What a step is about to write was left there by a step of its node, or was
\* there before and has aged.
LEMMA WritingFrame ==
  ASSUME TypeOK, Structure, [Next]_vars, Writing'
  PROVE  \/ Wait
         \/ Work /\ pc' = "status"
         \/ /\ Writing /\ my'.curr = my.curr
            /\ plan'.next = plan.next /\ plan'.status = plan.status
            /\ plan'.shared \in {plan.shared, Aged(plan.shared)}
<1>0. plan \in PlanType /\ my \in [curr : Cursor, shared : Shared]
  BY DEF TypeOK, PlanType
<1>1. CASE UNCHANGED <<pc, my, plan>>
  BY <1>1 DEF Writing
<1>2. CASE WriteStatus
  BY <1>2 DEF WriteStatus, Writing
<1>3. CASE Tick
  BY <1>0, <1>3 DEF Tick, Writing, PlanType
<1>4. CASE Work
  BY <1>4, WorkFrame DEF Work, Writing
<1>5. CASE SignalRead \/ SignalWrite \/ WorkerReport \/ UNCHANGED vars
  BY <1>1, <1>5 DEF SignalRead, SignalWrite, WorkerReport, Report, vars, taskVars
<1>6. ~(Lease \/ Read \/ WriteProgress \/ Check \/ Crash)
  BY DEF Lease, Read, WriteProgress, Check, Crash, Writing
<1> QED BY <1>2, <1>3, <1>4, <1>5, <1>6 DEF Next, Step

\* A value that the row or a copy has under a key was posted for it.
Posted(sh) == \A n \in Node : sh.sig[n] # "none" => <<n, sh.sig[n]>> \in posted
SignalsPosted ==
  Posted(task.shared) /\ Posted(my.shared) /\ Posted(plan.shared) /\ Posted(request.shared)

\* A step that takes an approval elsewhere has such a value.
DecidedFor(n) ==
  Def(n).kind = "approval" =>
    \E v \in {"true", "false"} :
      /\ <<n, v>> \in posted
      /\ plan.next = Def(n).next[IF v = "true" THEN "approved" ELSE "rejected"]
Decided == \A n \in Node : Writing /\ my.curr = n /\ plan.next # n => DecidedFor(n)

LEMMA SignalsPostedStep ==
  ASSUME TypeOK, Structure, SignalsPosted, [Next]_vars
  PROVE  SignalsPosted'
<1>0. /\ task \in Row /\ my \in [curr : Cursor, shared : Shared] /\ plan \in PlanType
      /\ request \in [key : Cursor, value : Signal, curr : Cursor, shared : Shared]
      /\ posted \subseteq posted'
  BY Constancy DEF TypeOK, PlanType
<1> DEFINE S == {task.shared.sig, my.shared.sig, plan.shared.sig, request.shared.sig,
                 NoShared.sig}
           OfS == /\ task'.shared.sig \in S /\ my'.shared.sig \in S
                  /\ plan'.shared.sig \in S /\ request'.shared.sig \in S
<1>1. \A n \in Node : NoShared.sig[n] = "none"
  BY DEF NoShared
<1>2. OfS => SignalsPosted'
  BY <1>0, <1>1 DEF SignalsPosted, Posted
<1>3. CASE Lease \/ Read \/ WriteStatus \/ WriteProgress
  <2>1. CASE Lease \/ WriteStatus
    BY <1>0, <1>2, <2>1 DEF Lease, WriteStatus, Row
  <2>2. CASE Read
    BY <1>0, <1>2, <2>2 DEF Read
  <2>3. CASE WriteProgress
    BY <1>0, <1>2, <2>3 DEF WriteProgress, Row
  <2> QED BY <1>3, <2>1, <2>2, <2>3
<1>4. CASE Wait
  <2>1. plan'.shared.sig = my.shared.sig
    BY <1>4, WaitFrame
  <2> QED BY <1>2, <1>4, <2>1 DEF Wait
<1>5. CASE Work
  BY <1>2, <1>5, WorkFrame DEF Work
<1>6. CASE Check \/ Crash
  BY <1>2, <1>6 DEF Check, Crash, Forget, Nothing, NoPlan
<1>7. CASE SignalRead
  BY <1>2, <1>7 DEF SignalRead, taskVars
<1>8. CASE SignalWrite
  <2> DEFINE sh == [request.shared EXCEPT !.sig[request.key] = request.value]
  <2>1. request.key \in Node /\ request' = NoRequest /\ request.shared \in Shared
    BY <1>0, <1>8 DEF SignalWrite, Structure
  <2>2. \A n \in Node : sh.sig[n] = IF n = request.key THEN request.value
                                    ELSE request.shared.sig[n]
    BY <2>1 DEF Shared
  <2>3. task'.shared = sh /\ posted' = posted \cup {<<request.key, request.value>>}
    BY <1>0, <1>8 DEF SignalWrite, Row
  <2> HIDE DEF sh
  <2>4. Posted(task.shared)'
    BY <2>2, <2>3 DEF SignalsPosted, Posted
  <2>5. my' = my /\ plan' = plan /\ request'.shared = NoShared
    BY <1>8, <2>1 DEF SignalWrite, NoRequest
  <2> QED BY <1>0, <1>1, <2>4, <2>5 DEF SignalsPosted, Posted
<1>9. CASE WorkerReport
  BY <1>0, <1>2, <1>9 DEF WorkerReport, Report, Row
<1>10. CASE Tick
  <2>1. /\ Aged(task.shared).sig = task.shared.sig /\ Aged(my.shared).sig = my.shared.sig
        /\ Aged(plan.shared).sig = plan.shared.sig
        /\ Aged(request.shared).sig = request.shared.sig
    BY <1>0, AgedEffect DEF Row, PlanType
  <2> QED BY <1>0, <1>2, <1>10, <2>1 DEF Tick, Row, PlanType
<1>11. CASE UNCHANGED vars
  BY <1>2, <1>11 DEF vars, taskVars
<1> QED
  BY <1>3, <1>4, <1>5, <1>6, <1>7, <1>8, <1>9, <1>10, <1>11 DEF Next, Step

LEMMA DecidedStep ==
  ASSUME TypeOK, Structure, SignalsPosted, Decided, [Next]_vars
  PROVE  Decided'
<1>0. flow' = flow /\ posted \subseteq posted'
  BY Constancy
<1> SUFFICES ASSUME NEW n \in Node, Writing', my'.curr = n, plan'.next # n,
                    Def(n).kind = "approval"
             PROVE  \E v \in {"true", "false"} :
                      /\ <<n, v>> \in posted'
                      /\ plan'.next = Def(n).next[IF v = "true" THEN "approved"
                                                 ELSE "rejected"]
  BY <1>0 DEF Decided, DecidedFor, Def
<1>1. CASE Writing /\ my'.curr = my.curr /\ plan'.next = plan.next
  BY <1>0, <1>1 DEF Decided, DecidedFor
<1>2. ~(Work /\ pc' = "status")
  <2>1. Work => my'.curr = my.curr /\ Branching(my.curr)
    BY WorkAt, WorkFrame DEF Work
  <2> QED BY <2>1 DEF Branching
<1>3. CASE Wait
  <2>1. my.curr = n
    BY <1>3 DEF Wait
  <2>2. RunApproval
    BY <1>3, <2>1, NodeTaskAssumption
    DEF Wait, RunWaiting, RunTimer, RunWaitEvent, RunChoice, RunNoNode, At
  <2> DEFINE sig == my.shared.sig[n]
  <2>3. sig # "none" /\ plan'.next = FindNext(n, Decision(sig))
    BY <2>1, <2>2 DEF RunApproval, Finish, Stay, Write
  <2>4. plan'.next = Def(n).next[Decision(sig)]
    BY <2>3, NodeTaskAssumption DEF FindNext
  <2>5. sig \in {"true", "false"} /\ <<n, sig>> \in posted
    BY <2>3 DEF SignalsPosted, Posted, TypeOK, Shared, Signal
  <2> HIDE DEF sig
  <2> QED BY <1>0, <2>4, <2>5 DEF Decision
<1> QED BY <1>1, <1>2, <1>3, WritingFrame

\* An approval is left by the edge of a value that was posted for it, whatever
\* requests, crashes and stale writes come in between.
THEOREM ApprovedByPost == Spec => DecidedByPost
<1> DEFINE Left == \A n \in Node :
                     Leaves(n) /\ Def(n).kind = "approval" =>
                       \E v \in {"true", "false"} :
                         /\ <<n, v>> \in posted
                         /\ plan.next = Def(n).next[IF v = "true" THEN "approved"
                                                    ELSE "rejected"]
<1>1. Init => SignalsPosted /\ Decided
  BY DEF Init, NoShared, Nothing, NoPlan, NoRequest, SignalsPosted, Posted, Decided, Writing
<1>2. TypeOK /\ Structure /\ SignalsPosted /\ Decided /\ [Next]_vars
        => SignalsPosted' /\ Decided'
  BY SignalsPostedStep, DecidedStep
<1>3. Decided => Left
  BY DEF Decided, DecidedFor, Leaves, Writing
<1>4. Spec => [][Left]_vars
  BY <1>1, <1>2, <1>3, TypesAlways, PTL DEF Spec
<1> QED BY <1>4 DEF DecidedByPost

-----------------------------------------------------------------------------
(* Behaviours in which no signal request writes over a newer row. *)

\* Such a request changes the signal it posts, and nothing else.
LEMMA SignalIsQuiet ==
  ASSUME TypeOK, Structure, SignalWrite, ~races'
  PROVE  /\ task'.curr = task.curr /\ task'.shared.rt = task.shared.rt
         /\ here' = here
<1>1. /\ task.curr = request.curr /\ task.shared = request.shared
      /\ here' = IF request.curr = task.curr THEN here ELSE 0
      /\ task' = [task EXCEPT !.curr = request.curr,
                              !.shared = [request.shared EXCEPT !.sig[request.key] =
                                                                  request.value]]
  BY DEF SignalWrite
<1> QED BY <1>1 DEF TypeOK, Row, Shared

LEMMA RacesLast ==
  ASSUME TypeOK, [Next]_vars, ~races'
  PROVE  ~races
  BY DEF Next, Step, Lease, Read, Wait, Work, WriteStatus, WriteProgress, Check, Crash,
         SignalRead, SignalWrite, WorkerReport, Tick, vars

\* A step is at the node the row is at.
SameNode == ~races /\ InStep => my.curr = task.curr

LEMMA SameNodeStep ==
  ASSUME TypeOK, Structure, SameNode, [Next]_vars
  PROVE  SameNode'
<1> SUFFICES ASSUME ~races', InStep' PROVE my'.curr = task'.curr
  BY DEF SameNode
<1>0. /\ ~races /\ task \in Row
      /\ my \in [curr : Cursor, shared : Shared]
  BY RacesLast DEF TypeOK
<1>1. CASE Read
  BY <1>1 DEF Read
<1>2. CASE Wait
  BY <1>0, <1>2, WaitTypes DEF Wait, InStep, SameNode
<1>3. CASE Work
  BY <1>0, <1>3, WorkFrame, WorkAt DEF Work, InStep, SameNode
<1>4. CASE WriteStatus
  BY <1>0, <1>4 DEF WriteStatus, InStep, SameNode, Row
<1>5. CASE SignalWrite
  BY <1>0, <1>5, SignalIsQuiet DEF SignalWrite, InStep, SameNode
<1>6. CASE SignalRead \/ UNCHANGED vars
  BY <1>0, <1>6 DEF SignalRead, vars, taskVars, InStep, SameNode
<1>7. CASE WorkerReport
  BY <1>0, <1>7 DEF WorkerReport, Report, InStep, SameNode, Row
<1>8. CASE Tick
  BY <1>0, <1>8 DEF Tick, InStep, SameNode, Row
<1>9. ~(Lease \/ WriteProgress \/ Check \/ Crash)
  BY DEF Lease, WriteProgress, Check, Crash, InStep
<1> QED BY <1>1, <1>2, <1>3, <1>4, <1>5, <1>6, <1>7, <1>8, <1>9 DEF Next, Step

-----------------------------------------------------------------------------
(* A wait lasts its time. *)

\* Of the waits only the one at the cursor has a start, which is no earlier than
\* the task's coming there.
StartedHere(sh, c) ==
  \A m \in Node : Timed(m) /\ sh.rt[m].on => m = c /\ sh.rt[m].age <= here

WaitedFor(n) ==
  /\ Def(n).kind = "timer" => here >= Def(n).wait
  /\ Def(n).kind = "wait_event" /\ plan.shared.sig[n] # "true" =>
       Def(n).wait > 0 /\ here >= Def(n).wait /\ Def(n).strategy # "retry"

Waited ==
  ~races =>
    /\ StartedHere(task.shared, task.curr)
    /\ InStep => StartedHere(my.shared, my.curr)
    /\ Writing => StartedHere(plan.shared, my.curr) /\ StartedHere(plan.shared, plan.next)
    /\ \A n \in Node : Writing /\ my.curr = n /\ plan.next # n => WaitedFor(n)

\* A look at a waiting node lets it stay, its start kept or now, or ends it.
LEMMA LookEffect ==
  ASSUME TypeOK, Wait, my.curr \in Node, Timed(my.curr)
  PROVE  LET n == my.curr
         IN \/ /\ plan'.next = n
               /\ plan'.shared.rt[n].age \in {RuntimeOf(n).age, 0}
            \/ /\ plan'.shared.rt[n].on = FALSE
               /\ Def(n).kind = "timer" => RuntimeOf(n).age >= Def(n).wait
               /\ Def(n).kind = "wait_event" /\ plan'.shared.sig[n] # "true" =>
                    /\ Def(n).wait > 0 /\ RuntimeOf(n).age >= Def(n).wait
                    /\ Def(n).strategy # "retry"
<1> DEFINE n == my.curr
<1>0. n \in Node /\ my.shared \in Shared /\ RuntimeOf(n) \in Runtime
  BY RuntimeType DEF TypeOK
<1>1. CASE RunTimer
  <2>1. CASE Stay(Kept(n, RuntimeOf(n)))
    BY <1>0, <2>1, KeptEffect DEF Stay, Write
  <2>2. CASE my.shared.rt[n].on /\ my.shared.rt[n].age >= Def(n).wait
             /\ Finish("default", TRUE, Cleared(n))
    <3>1. plan'.shared.rt[n] = NoRuntime /\ Def(n).kind = "timer"
      BY <1>0, <1>1, <2>2, ClearedEffect DEF Finish, Write, RunTimer, At
    <3> QED BY <2>2, <3>1 DEF NoRuntime, RuntimeOf
  <2>3. CASE my.shared.rt[n].on /\ Stay(my.shared)
    BY <2>3 DEF Stay, Write, RuntimeOf
  <2> QED BY <1>1, <2>1, <2>2, <2>3 DEF RunTimer
<1>2. CASE RunWaitEvent
  <2>1. CASE Stay(Kept(n, RuntimeOf(n)))
    BY <1>0, <2>1, KeptEffect DEF Stay, Write
  <2>2. CASE Stay(Kept(n, [RuntimeOf(n) EXCEPT !.age = 0]))
    <3>1. plan'.next = n /\ plan'.shared.rt[n] = [RuntimeOf(n) EXCEPT !.age = 0]
      BY <1>0, <2>2, KeptEffect DEF Stay, Write
    <3> QED BY <1>0, <3>1 DEF Runtime
  <2>3. CASE /\ \E ok : Finish("default", ok, Cleared(n))
             /\ Signalled(n) \/ (TimedOut(n) /\ Def(n).strategy # "retry")
    <3>1. plan'.shared.rt[n] = NoRuntime /\ plan'.shared.sig = my.shared.sig
      BY <1>0, <2>3, ClearedEffect DEF Finish, Write
    <3>2. Def(n).kind = "wait_event"
      BY <1>2 DEF RunWaitEvent, At
    <3> QED BY <2>3, <3>1, <3>2 DEF NoRuntime, Signalled, TimedOut
  <2> QED BY <1>2, <2>1, <2>2, <2>3 DEF RunWaitEvent
<1>3. CASE ~RunTimer /\ ~RunWaitEvent
  BY <1>3, NodeTaskAssumption
  DEF Wait, RunWaiting, RunApproval, RunChoice, RunNoNode, At, Timed
<1> QED BY <1>1, <1>2, <1>3

LEMMA WaitedStep ==
  ASSUME TypeOK, Structure, SameNode, SameNode', Waited, [Next]_vars
  PROVE  Waited'
<1> SUFFICES ASSUME ~races'
             PROVE  /\ StartedHere(task.shared, task.curr)'
                    /\ InStep' => StartedHere(my.shared, my.curr)'
                    /\ Writing' => /\ StartedHere(plan.shared, my.curr)'
                                   /\ StartedHere(plan.shared, plan.next)'
                    /\ \A n \in Node : Writing' /\ my'.curr = n /\ plan'.next # n =>
                         WaitedFor(n)'
  BY DEF Waited
<1>0. /\ ~races /\ flow' = flow /\ here \in 0 .. TimeMax /\ TimeMax \in Nat
      /\ task \in Row /\ my \in [curr : Cursor, shared : Shared] /\ plan \in PlanType
  BY RacesLast, Constancy, NodeTaskAssumption DEF TypeOK, PlanType
<1>w. /\ StartedHere(task.shared, task.curr)
      /\ InStep => my.curr = task.curr /\ StartedHere(my.shared, my.curr)
      /\ Writing => StartedHere(plan.shared, my.curr) /\ StartedHere(plan.shared, plan.next)
      /\ \A n \in Node : Writing /\ my.curr = n /\ plan.next # n => WaitedFor(n)
  BY <1>0 DEF Waited, SameNode
<1>d. \A n : Def(n)' = Def(n) /\ Timed(n)' = Timed(n)
  BY <1>0 DEF Def, Timed
\* Time.
<1>a. ASSUME Tick, NEW STATE sh, sh \in Shared, NEW STATE c, StartedHere(sh, c)
      PROVE  \A m \in Node : Timed(m) /\ Aged(sh).rt[m].on => m = c /\ Aged(sh).rt[m].age <= here'
  <2> SUFFICES ASSUME NEW m \in Node, Timed(m), Aged(sh).rt[m].on
               PROVE  m = c /\ Aged(sh).rt[m].age <= here'
    OBVIOUS
  <2>1. /\ sh.rt[m].on /\ Aged(sh).rt[m].age = Older(sh.rt[m].age)
        /\ here' = Older(here)
    BY <1>a, AgedEffect DEF Tick
  <2>2. m = c /\ sh.rt[m].age <= here /\ sh.rt[m].age \in 0 .. TimeMax
    BY <1>a, <2>1 DEF StartedHere, Shared, Runtime
  <2> QED BY <1>0, <2>1, <2>2 DEF Older
<1>1. StartedHere(task.shared, task.curr)'
  <2>1. CASE WriteProgress
    <3>1. /\ task'.curr = plan.next /\ task'.shared = plan.shared
          /\ here' = IF plan.next = task.curr THEN here ELSE 0
          /\ Writing /\ InStep
      BY <1>0, <2>1 DEF WriteProgress, Row, Writing, InStep
    <3> QED BY <1>w, <1>d, <3>1 DEF StartedHere
  <2>2. CASE SignalWrite
    BY <1>w, <1>d, <2>2, SignalIsQuiet DEF StartedHere
  <2>3. CASE Tick
    <3>1. task'.curr = task.curr /\ task'.shared = Aged(task.shared) /\ task.shared \in Shared
      BY <1>0, <2>3 DEF Tick, Row
    <3> QED BY <1>w, <1>d, <1>a, <2>3, <3>1 DEF StartedHere
  <2>4. CASE task'.curr = task.curr /\ task'.shared = task.shared /\ here' = here
    BY <1>w, <1>d, <2>4 DEF StartedHere
  <2>5. CASE ~(WriteProgress \/ SignalWrite \/ Tick)
    BY <1>0, <2>4, <2>5 DEF Next, Step, Lease, Read, Wait, Work, WriteStatus, Check, Crash,
                       SignalRead, WorkerReport, Report, vars, taskVars, history, Row
  <2> QED BY <2>1, <2>2, <2>3, <2>5
<1>2. ASSUME InStep' PROVE StartedHere(my.shared, my.curr)'
  <2>1. CASE Read
    BY <1>w, <1>d, <2>1 DEF Read, history, StartedHere
  <2>2. CASE Work
    <3>1. /\ InStep /\ Branching(my.curr) /\ my'.curr = my.curr /\ here' = here
          /\ \A m \in Node \ {my.curr} : my'.shared.rt[m] = my.shared.rt[m]
      BY <2>2, WorkAt, WorkFrame DEF Work, history, InStep
    <3> QED BY <1>w, <1>d, <3>1 DEF StartedHere, Branching, Timed
  <2>3. CASE Tick
    <3>1. /\ my'.curr = my.curr /\ my'.shared = Aged(my.shared) /\ my.shared \in Shared
          /\ InStep
      BY <1>0, <1>2, <2>3 DEF Tick, InStep
    <3> QED BY <1>w, <1>d, <1>a, <2>3, <3>1 DEF StartedHere
  <2>4. CASE my' = my /\ here' = here /\ InStep
    BY <1>w, <1>d, <2>4 DEF StartedHere
  <2>5. CASE SignalWrite
    BY <1>2, <2>4, <2>5, SignalIsQuiet DEF SignalWrite, InStep
  <2>6. CASE Wait \/ WriteStatus
    BY <2>4, <2>6, WaitTypes DEF Wait, WriteStatus, history, InStep
  <2>7. CASE SignalRead \/ WorkerReport \/ UNCHANGED vars
    BY <1>2, <2>4, <2>7 DEF SignalRead, WorkerReport, Report, vars, taskVars, history, InStep
  <2>8. ~(Lease \/ WriteProgress \/ Check \/ Crash)
    BY <1>2 DEF Lease, WriteProgress, Check, Crash, InStep
  <2> QED BY <2>1, <2>2, <2>3, <2>5, <2>6, <2>7, <2>8 DEF Next, Step
<1> DEFINE Writes == /\ StartedHere(plan.shared, my.curr)'
                     /\ StartedHere(plan.shared, plan.next)'
                     /\ \A n \in Node : my'.curr = n /\ plan'.next # n => WaitedFor(n)'
\* What the step was about to write stays, or has aged.
<1>3. ASSUME Writing, Writing', plan' = plan, my'.curr = my.curr, here' = here
      PROVE  Writes
  BY <1>3, <1>w, <1>d DEF StartedHere, WaitedFor
<1>4. ASSUME Tick, Writing' PROVE Writes
  <2>1. /\ Writing /\ my'.curr = my.curr /\ plan'.next = plan.next
        /\ plan'.shared = Aged(plan.shared) /\ plan.shared \in Shared
        /\ here' = Older(here)
    BY <1>0, <1>4 DEF Tick, Writing, PlanType
  <2>2. here' >= here /\ here' \in 0 .. TimeMax /\ Aged(plan.shared).sig = plan.shared.sig
    BY <1>0, <2>1, OlderType, AgedEffect
  <2>3. StartedHere(plan.shared, my.curr)' /\ StartedHere(plan.shared, plan.next)'
    <3>1. \A m \in Node : Timed(m) /\ Aged(plan.shared).rt[m].on =>
                            m = my.curr /\ Aged(plan.shared).rt[m].age <= here'
      BY <1>w, <1>a, <1>4, <2>1
    <3>2. \A m \in Node : Timed(m) /\ Aged(plan.shared).rt[m].on =>
                            m = plan.next /\ Aged(plan.shared).rt[m].age <= here'
      BY <1>w, <1>a, <1>4, <2>1
    <3> QED BY <1>d, <2>1, <3>1, <3>2 DEF StartedHere
  <2>4. ASSUME NEW n \in Node, my'.curr = n, plan'.next # n PROVE WaitedFor(n)'
    <3>1. WaitedFor(n) /\ Def(n).wait \in 0 .. TimeMax
      BY <1>w, <2>1, <2>4, DefType DEF TypeOK
    <3> QED BY <1>0, <1>d, <2>1, <2>2, <3>1 DEF WaitedFor
  <2> QED BY <2>3, <2>4
\* A waiting node was looked at.
<1>5. ASSUME Wait PROVE Writes
  <2> DEFINE n == my.curr
  <2>1. /\ InStep /\ my' = my /\ here' = here /\ StartedHere(my.shared, n)
        /\ \A m \in Node \ {n} : plan'.shared.rt[m] = my.shared.rt[m]
    BY <1>5, <1>w, WaitTypes, WaitFrame DEF Wait, history, InStep
  <2>2. CASE n \in Node /\ Timed(n)
    <3>1. RuntimeOf(n).age <= here /\ RuntimeOf(n).age \in 0 .. TimeMax
      <4>1. /\ my.shared.rt[n] \in Runtime
            /\ my.shared.rt[n].on => my.shared.rt[n].age <= here
        BY <1>0, <2>1, <2>2 DEF StartedHere, Shared
      <4>2. ~my.shared.rt[n].on => RuntimeOf(n).age = 0
        BY DEF RuntimeOf, NoRuntime
      <4>3. CASE my.shared.rt[n].on
        <5>1. RuntimeOf(n) = my.shared.rt[n]
          BY <4>3 DEF RuntimeOf
        <5> QED BY <4>1, <4>3, <5>1 DEF Runtime
      <4> QED BY <1>0, <4>2, <4>3
    <3>2. CASE plan'.next = n /\ plan'.shared.rt[n].age \in {RuntimeOf(n).age, 0}
      <4>1. plan'.shared.rt[n].age <= here'
        BY <1>0, <2>1, <3>1, <3>2
      <4> QED BY <1>d, <2>1, <3>2, <4>1 DEF StartedHere
    <3>3. CASE /\ plan'.shared.rt[n].on = FALSE
               /\ Def(n).kind = "timer" => RuntimeOf(n).age >= Def(n).wait
               /\ Def(n).kind = "wait_event" /\ plan'.shared.sig[n] # "true" =>
                    /\ Def(n).wait > 0 /\ RuntimeOf(n).age >= Def(n).wait
                    /\ Def(n).strategy # "retry"
      <4>1. StartedHere(plan.shared, my.curr)' /\ StartedHere(plan.shared, plan.next)'
        BY <1>d, <2>1, <3>3 DEF StartedHere
      <4>2. RuntimeOf(n).age >= Def(n).wait => here' >= Def(n).wait
        <5>1. Def(n).wait \in 0 .. TimeMax
          BY <2>2, DefType DEF TypeOK
        <5> QED BY <1>0, <2>1, <3>1, <5>1
      <4>3. \A m \in Node : m = n => WaitedFor(m)'
        BY <1>d, <3>3, <4>2 DEF WaitedFor
      <4> QED BY <2>1, <4>1, <4>3
    <3> QED BY <1>5, <2>2, <3>2, <3>3, LookEffect
  <2>3. CASE ~(n \in Node /\ Timed(n))
    <3>1. \A m \in Node : Timed(m) => ~plan'.shared.rt[m].on
      BY <2>1, <2>3 DEF StartedHere
    <3>2. \A m \in Node : my'.curr = m => WaitedFor(m)'
      BY <1>d, <2>1, <2>3 DEF WaitedFor, Timed
    <3> QED BY <1>d, <3>1, <3>2 DEF StartedHere
  <2> QED BY <2>2, <2>3
\* A branching node is not waited at.
<1>6. ASSUME Work, pc' = "status" PROVE Writes
  <2>1. /\ InStep /\ my' = my /\ here' = here /\ Branching(my.curr)
        /\ \A m \in Node \ {my.curr} : plan'.shared.rt[m] = my.shared.rt[m]
    BY <1>6, WorkAt, WorkFrame DEF Work, history, InStep
  <2>2. \A m \in Node : Timed(m) => ~plan'.shared.rt[m].on
    BY <1>w, <2>1 DEF StartedHere, Timed, Branching
  <2>3. \A m \in Node : my'.curr = m => WaitedFor(m)'
    BY <1>d, <2>1 DEF WaitedFor, Branching
  <2> QED BY <1>d, <2>2, <2>3 DEF StartedHere
<1>7. ASSUME Writing' PROVE Writes
  <2>1. CASE Tick
    BY <1>4, <1>7, <2>1
  <2>2. CASE Wait \/ Work
    BY <1>3, <1>5, <1>6, <1>7, <2>2, WorkFrame DEF Work, history, Writing
  <2>3. CASE SignalWrite
    BY <1>3, <1>7, <2>3, SignalIsQuiet DEF SignalWrite, Writing
  <2>4. CASE WriteStatus \/ SignalRead \/ WorkerReport \/ UNCHANGED vars
    BY <1>3, <1>7, <2>4
    DEF WriteStatus, SignalRead, WorkerReport, Report, vars, taskVars, history, Writing
  <2>5. ~(Lease \/ Read \/ WriteProgress \/ Check \/ Crash)
    BY <1>7 DEF Lease, Read, WriteProgress, Check, Crash, Writing
  <2> QED BY <2>1, <2>2, <2>3, <2>4, <2>5 DEF Next, Step
<1> QED BY <1>1, <1>2, <1>7

\* A timer, or a wait_event without its signal, is not left before its time has
\* passed since the task came to it, whatever crashes and restarts come in
\* between, as long as no signal request writes over a newer row.
THEOREM WaitsLast == Spec => WaitsItsTime
<1> DEFINE Left == \A n \in Node :
                     Leaves(n) /\ ~races =>
                       /\ Def(n).kind = "timer" => here >= Def(n).wait
                       /\ Def(n).kind = "wait_event" /\ plan.shared.sig[n] # "true" =>
                            Def(n).wait > 0 /\ here >= Def(n).wait
                              /\ Def(n).strategy # "retry"
<1>1. Init => SameNode /\ Waited
  BY DEF Init, NoShared, NoRuntime, Nothing, NoPlan, SameNode, Waited, StartedHere,
         Writing, InStep
<1>2. TypeOK /\ Structure /\ SameNode /\ Waited /\ [Next]_vars => SameNode' /\ Waited'
  BY SameNodeStep, WaitedStep
<1>3. Waited => Left
  BY DEF Waited, WaitedFor, Leaves, Writing
<1>4. Spec => [][Left]_vars
  BY <1>1, <1>2, <1>3, TypesAlways, PTL DEF Spec
<1> QED BY <1>4 DEF WaitsItsTime
=============================================================================
