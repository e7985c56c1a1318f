----------------------------- MODULE RemoteCall -----------------------------
(***************************************************************************)
(* What the queue is for, without engine, rows or requests: where a task   *)
(* comes to a remote node the node is called, once; one worker takes the   *)
(* call; it is answered at most once; and the task goes on by the answer.  *)
(***************************************************************************)
CONSTANTS Task, Node, NoNode, Remote, Start, OkNext, ErrNext, Worker

VARIABLES
  cursor,  \* [Task -> the node it is at, or NoNode]
  call,    \* [Task -> [Node -> how far the call of that node for it has come]]
  hand     \* [Worker -> the call it works on, or none: a set]

vars == <<cursor, call, hand>>

Answers == {"ok", "error"}

Init ==
  /\ cursor = Start
  /\ call = [t \in Task |-> [n \in Node |-> "none"]]
  /\ hand = [w \in Worker |-> {}]

Advance(t, n, from, to) ==
  call[t][n] = from /\ call' = [call EXCEPT ![t][n] = to]

\* A call is recorded, and then offered to the workers, while the task is at the
\* node; never offered, if its engine fails in between.
Record(t) ==
  /\ cursor[t] \in Remote /\ Advance(t, cursor[t], "none", "recorded")
  /\ UNCHANGED <<cursor, hand>>
Offer(t) ==
  /\ cursor[t] \in Remote /\ Advance(t, cursor[t], "recorded", "offered")
  /\ UNCHANGED <<cursor, hand>>

Take(w, t, n) ==
  /\ hand[w] = {}
  /\ Advance(t, n, "offered", "taken")
  /\ hand' = [hand EXCEPT ![w] = {<<t, n>>}]
  /\ UNCHANGED cursor

\* The worker is done with it, or dead.
LetGo(w) ==
  /\ hand' = [hand EXCEPT ![w] = {}]
  /\ UNCHANGED <<cursor, call>>

\* An answer arrives when its worker has let go of the call, if at all, and stays.
Answer(t, n) ==
  /\ \E a \in Answers : Advance(t, n, "taken", a)
  /\ \A w \in Worker : <<t, n>> \notin hand[w]
  /\ UNCHANGED <<cursor, hand>>

\* A remote node is left by its answer, another one by either edge.
Move(t) ==
  LET n == cursor[t]
  IN /\ n \in Node
     /\ \/ /\ n \notin Remote \/ call[t][n] = "ok"
           /\ cursor' = [cursor EXCEPT ![t] = OkNext[n]]
        \/ /\ n \notin Remote \/ call[t][n] = "error"
           /\ cursor' = [cursor EXCEPT ![t] = ErrNext[n]]
     /\ UNCHANGED <<call, hand>>

Next ==
  \/ \E w \in Worker : LetGo(w) \/ \E t \in Task, n \in Node : Take(w, t, n)
  \/ \E t \in Task : \/ Record(t) \/ Offer(t) \/ Move(t)
                    \/ \E n \in Node : Answer(t, n)

Spec == Init /\ [][Next]_vars
=============================================================================
