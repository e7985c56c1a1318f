--------------------------- MODULE MCNodeRuntime ---------------------------
(***************************************************************************)
(* Flows of one or two nodes for NodeRuntime's model checking, with each   *)
(* kind in the configurations that make its code take another way.         *)
(***************************************************************************)
EXTENDS NodeRuntime

CONSTANTS n1, n2, b1, b2, b3

Edge(to) == [a \in Action |-> to]
Base == [kind |-> "choice", next |-> Edge(NoNode), strategy |-> "none", wait |-> 0,
         branches |-> <<>>, queue |-> {}, mode |-> "sequential", max |-> 0,
         retries |-> 0]

Of(first, second) == [start |-> n1, def |-> [n \in Node |-> IF n = n1 THEN first ELSE second]]
Single(node) == Of(node, Base)
Then(node, second) == Of([node EXCEPT !.next = Edge(n2)], second)
\* The second node decides whether to go back to the first.
Again(node) ==
  Then(node, [Base EXCEPT !.next = [Edge(NoNode) EXCEPT !["approved"] = n1]])

Timer == [Base EXCEPT !.kind = "timer", !.wait = 2]
Event(strategy, wait) ==
  [Base EXCEPT !.kind = "wait_event", !.strategy = strategy, !.wait = wait]
Approval(approved, rejected) ==
  [Base EXCEPT !.kind = "approval",
               !.next = [Edge(NoNode) EXCEPT !["approved"] = approved,
                                             !["rejected"] = rejected]]
Branches3 == <<b1, b2, b3>>
Parallel(mode, strategy, max) ==
  [Base EXCEPT !.kind = "parallel", !.mode = mode, !.strategy = strategy,
               !.max = max, !.branches = Branches3]
Foreach(mode, strategy, max) == [Parallel(mode, strategy, max) EXCEPT !.kind = "foreach"]
Subflow(strategy, retries, wait) ==
  [Base EXCEPT !.kind = "subflow", !.strategy = strategy, !.retries = retries,
               !.wait = wait, !.branches = <<b1, b2>>]

WaitFlows ==
  {Single(Event("none", 2)), Single(Event("none", 0)), Single(Event("continue", 1)),
   Then(Event("retry", 1), Timer),
   \* rejected: a pause, and the approval again
   Of(Approval(NoNode, n2), [Timer EXCEPT !.wait = 1, !.next = Edge(n1)])}
BranchFlows ==
  {Again(Parallel("concurrent", "fail_fast", 2)), Again(Parallel("sequential", "none", 0)),
   Single(Parallel("concurrent", "continue", 2)),
   Again(Foreach("concurrent", "none", 0)), Single(Foreach("concurrent", "fail_fast", 0)),
   Single(Foreach("sequential", "fail_fast", 0)),
   Single([Base EXCEPT !.kind = "parallel"]), Single([Base EXCEPT !.kind = "foreach"]),
   Then(Subflow("retry", 2, 1), Timer), Again(Subflow("continue", 0, 0)),
   Single(Subflow("retry", 0, 1)), Single([Base EXCEPT !.kind = "subflow"])}
QueueFlows ==
  {Single([node EXCEPT !.queue = {b1}, !.branches = branches]) :
     node \in {Parallel("concurrent", "none", 0), Parallel("sequential", "none", 0),
               Subflow("none", 0, 0)},
     branches \in {<<b1>>, <<b2, b1>>}}
  \* a signal for the second node can take the cursor back to the first
  \cup {Then([Parallel("concurrent", "fail_fast", 0) EXCEPT !.branches = <<b1>>,
                                                           !.queue = {b1}],
            Approval(NoNode, NoNode))}

MCFlow == WaitFlows \cup BranchFlows \cup QueueFlows
=============================================================================
