---------------------------- MODULE MCScheduler ----------------------------
(***************************************************************************)
(* The flow and the values of Scheduler's constants for model checking.    *)
(***************************************************************************)
EXTENDS Scheduler, TLC

CONSTANTS call, wait, alt, t1, t2

MCEmpty == ""
MCDefault == "default"
MCAction == {MCEmpty, MCDefault, alt}

\* `call` is an executor: its default edge, taken on failure too, leads to
\* `wait`; its action alt has no edge and ends the flow.  `wait` polls, and
\* ends the flow when the signal comes or the timeout strikes.
MCEdges == << [from |-> call, action |-> MCDefault, to |-> wait] >>

Ok(a) == [result |-> "ok", action |-> a]
Error == [result |-> "error", action |-> MCEmpty]
Fatal == [result |-> "fatal", action |-> MCEmpty]
Wait == [result |-> "wait", action |-> MCEmpty]

MCEmits ==
  [n \in Node \cup {NoNode} |->
     CASE n = call -> {Ok(MCEmpty), Ok(alt), Error, Fatal}
       [] n = wait -> {Ok(MCEmpty), Error, Wait}
       [] OTHER    -> {Ok(MCEmpty), Error}]

\* Fewer outcomes where the runs recorded are not looked at.
MCEmitsFew ==
  [MCEmits EXCEPT ![call] = {Ok(MCEmpty)}, ![wait] = {Ok(MCEmpty), Wait}]

\* The event that `wait` waits for never happens.
MCEmitsNever == [MCEmits EXCEPT ![call] = {Ok(MCEmpty), Ok(alt)}, ![wait] = {Wait}]

\* `call` retries once.
MCRetries == [n \in Node \cup {NoNode} |-> IF n = call THEN 1 ELSE 0]
MCNoRetries == [n \in Node \cup {NoNode} |-> 0]

MCStartCall == [t \in Task |-> call]
MCStart == [t \in Task |-> IF t = t1 THEN call ELSE wait]

MCSymmetry == Permutations(Owner)
=============================================================================
