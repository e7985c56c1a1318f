---------------------------- MODULE MCPullQueue ----------------------------
(***************************************************************************)
(* Two tasks for PullQueue's model checking.  t1 goes from a queue node    *)
(* through a node that executes in the engine to another queue node, t2    *)
(* only through the last; an error of any node ends the flow.              *)
(***************************************************************************)
EXTENDS PullQueue, TLC

CONSTANTS t1, t2, fetch, check, store

MCStart == [t \in Task |-> IF t = t1 THEN fetch ELSE store]
MCOkNext == [n \in Node |-> CASE n = fetch -> check [] n = check -> store [] n = store -> NoNode]
MCErrNext == [n \in Node |-> NoNode]

MCSymmetry == Permutations(Worker)
=============================================================================
