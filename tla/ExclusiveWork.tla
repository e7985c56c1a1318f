--------------------------- MODULE ExclusiveWork ---------------------------
(***************************************************************************)
(* What the leases promise, with no lease, clock or statement in sight: a  *)
(* task is open until it ends, one worker at a time holds it, and only the *)
(* holder moves it.  Clients may cancel a task at any time and, where they *)
(* signal it, put its cursor somewhere else.                               *)
(***************************************************************************)
CONSTANTS Task, Worker, Nobody, Cursor, Cancelable, Signaled

VARIABLES
  holder,  \* [Task -> the worker that works on it, or Nobody]
  phase,   \* [Task -> absent, open, ended or canceled]
  cursor   \* [Task -> Cursor]

vars == <<holder, phase, cursor>>

Phase == {"absent", "open", "ended", "canceled"}

Init ==
  /\ holder = [t \in Task |-> Nobody]
  /\ phase = [t \in Task |-> "absent"]
  /\ cursor \in [Task -> Cursor]

Submit(t) ==
  /\ phase[t] = "absent"
  /\ phase' = [phase EXCEPT ![t] = "open"]
  /\ \E c \in Cursor : cursor' = [cursor EXCEPT ![t] = c]
  /\ UNCHANGED holder

\* Only an open task that nobody holds is taken.
Take(t, w) ==
  /\ phase[t] = "open" /\ holder[t] = Nobody
  /\ holder' = [holder EXCEPT ![t] = w]
  /\ UNCHANGED <<phase, cursor>>

\* The holder advances the task, ends it or acknowledges its cancelation; it
\* may let go of it in the same step.  What has ended stays so.
Work(t, w) ==
  /\ holder[t] = w
  /\ holder' \in {holder, [holder EXCEPT ![t] = Nobody]}
  /\ \E p \in Phase \ {"absent"} :
       /\ phase[t] = "ended" => p = "ended"
       /\ phase' = [phase EXCEPT ![t] = p]
  /\ \E c \in Cursor : cursor' = [cursor EXCEPT ![t] = c]

CancelTask(t) ==
  /\ t \in Cancelable /\ phase[t] # "absent"
  /\ phase' = [phase EXCEPT ![t] = "canceled"]
  /\ UNCHANGED <<holder, cursor>>

SignalTask(t) ==
  /\ t \in Signaled /\ phase[t] # "absent"
  /\ \E c \in Cursor : cursor' = [cursor EXCEPT ![t] = c]
  /\ UNCHANGED <<holder, phase>>

Next ==
  \E t \in Task :
    \/ Submit(t) \/ CancelTask(t) \/ SignalTask(t)
    \/ \E w \in Worker : Take(t, w) \/ Work(t, w)

Spec == Init /\ [][Next]_vars
=============================================================================
