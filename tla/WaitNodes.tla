----------------------------- MODULE WaitNodes -----------------------------
(***************************************************************************)
(* The nodes that wait: timer, wait_event, approval (timer.go,             *)
(* wait_event.go, approval.go) and choice (choice.go), which only decides. *)
(* A step looks at the copy it read, and at the clock when it gets there;  *)
(* a node that is not decided stays, and is looked at again.               *)
(*                                                                         *)
(* Signals are resolved from $shared under a key of the node's own, and    *)
(* post.action_static is empty, so that actions other than an approval's   *)
(* are "default".                                                          *)
(***************************************************************************)
EXTENDS NodeTask

At(kind) == pc = "decide" /\ my.curr # NoNode /\ Def(my.curr).kind = kind

\* The first look starts the timer, even one of no delay.
RunTimerAtOnce ==  \* mutant: the delay is not compared
  /\ At("timer")
  /\ IF my.shared.rt[my.curr].on THEN Finish("default", TRUE, Cleared(my.curr))
                                 ELSE Stay(Kept(my.curr, RuntimeOf(my.curr)))
RunTimer ==
  LET n == my.curr
  IN /\ At("timer")
     /\ \/ /\ ~my.shared.rt[n].on
           /\ Stay(Kept(n, RuntimeOf(n)))
        \/ /\ my.shared.rt[n].on /\ my.shared.rt[n].age >= Def(n).wait
           /\ Finish("default", TRUE, Cleared(n))
        \/ /\ my.shared.rt[n].on /\ my.shared.rt[n].age < Def(n).wait
           /\ Stay(my.shared)

TimedOut(n) == Def(n).wait > 0 /\ RuntimeOf(n).age >= Def(n).wait

\* The signal is looked at before the timeout.  FALSE is no signal.
SignalledApproval(n) ==  \* mutant: a signal is looked for as an approval does
  my.shared.sig[n] = "false"
Signalled(n) == my.shared.sig[n] = "true"

RunWaitEvent ==
  LET n == my.curr
  IN /\ At("wait_event")
     /\ \/ /\ Signalled(n)
           /\ Finish("default", TRUE, Cleared(n))
        \/ /\ ~Signalled(n) /\ TimedOut(n)
           /\ IF Def(n).strategy = "retry"
              THEN Stay(Kept(n, [RuntimeOf(n) EXCEPT !.age = 0]))
              ELSE Finish("default", Def(n).strategy = "continue", Cleared(n))
        \/ /\ ~Signalled(n) /\ ~TimedOut(n)
           /\ Stay(Kept(n, RuntimeOf(n)))

\* Any value decides.
Decision(sig) == IF sig = "true" THEN "approved" ELSE "rejected"

RunApprovalAtOnce ==  \* mutant: no signal is a value too
  /\ At("approval")
  /\ Finish(Decision(my.shared.sig[my.curr]), TRUE, Cleared(my.curr))
RunApproval ==
  LET n == my.curr
  IN /\ At("approval")
     /\ IF my.shared.sig[n] # "none"
        THEN Finish(Decision(my.shared.sig[n]), TRUE, Cleared(n))
        ELSE Stay(Kept(n, RuntimeOf(n)))

\* Which case matches is a matter of the data.
RunChoice ==
  /\ At("choice")
  /\ \E action \in Action : Finish(action, TRUE, my.shared)

RunWaiting == RunTimer \/ RunWaitEvent \/ RunApproval \/ RunChoice
=============================================================================
