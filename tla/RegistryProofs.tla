---------------------------- MODULE RegistryProofs ----------------------------
(***************************************************************************)
(* Theorems about Registry, for every set of workers, whatever their types *)
(* and URLs, every TTL and every number of lost messages, stops and calls. *)
(***************************************************************************)
EXTENDS Registry, TLAPS

-----------------------------------------------------------------------------
(* The table. *)

\* Ages grow up to TTL + 1, and growing keeps their order.
LEMMA OlderAges ==
  /\ 0 \in Age /\ TTL + 1 \in Age
  /\ \A i \in Age : Older(i) \in Age
  /\ \A i, j \in Age : i <= j => Older(i) <= Older(j)
  BY RegistryAssumption DEF Age, Older

\* No row of the table is mistaken for the lack of one.
LEMMA RowsAreRows ==
  /\ Fresh \in Row /\ Fresh # NoRow
  /\ \A r \in Row : r # NoRow
<1>1. Fresh \in Row
  BY OlderAges DEF Fresh, Row
<1>2. ASSUME NEW r \in Row PROVE r # NoRow
  <2>1. r.status # NoRow.status
    BY DEF Row, NoRow
  <2> QED BY <2>1
<1> QED BY <1>1, <1>2

Table == [Worker -> Row \cup {NoRow}]

\* A registration makes one row fresh.
LEMMA RegisterEffect ==
  ASSUME workers \in Table, NEW w \in Worker, RegisterWorker(w)
  PROVE  /\ workers' \in Table
         /\ workers'[w] = Fresh
         /\ \A v \in Worker : v # w => workers'[v] = workers[v]
  BY RowsAreRows DEF RegisterWorker, Table

\* A beat makes the sender's row fresh, and leaves the others or makes them
\* fresh too, if they have the same URL; it inserts none.
LEMMA HeartbeatEffect ==
  ASSUME workers \in Table, NEW w \in Worker, workers[w] # NoRow, HeartbeatWorker(w)
  PROVE  /\ workers' \in Table
         /\ workers'[w] = Fresh
         /\ \A v \in Worker :
              \/ workers'[v] = workers[v]
              \/ workers[v] # NoRow /\ workers'[v] = Fresh /\ (v = w \/ URL[v] = URL[w])
  BY RowsAreRows DEF HeartbeatWorker, Table

\* Marking workers offline inserts and drops no row and changes no age.
LEMMA RefreshEffect ==
  ASSUME workers \in Table, NEW ttl, RefreshWorkersStatus(ttl)
  PROVE  /\ workers' \in Table
         /\ \A v \in Worker : /\ workers'[v] = NoRow <=> workers[v] = NoRow
                              /\ workers'[v].age = workers[v].age
<1> SUFFICES ASSUME NEW v \in Worker
             PROVE  /\ workers'[v] \in Row \cup {NoRow}
                    /\ workers'[v] = NoRow <=> workers[v] = NoRow
                    /\ workers'[v].age = workers[v].age
  BY DEF RefreshWorkersStatus, Table
<1>1. CASE workers'[v] = workers[v]
  BY <1>1 DEF Table
<1>2. CASE workers[v] # NoRow /\ workers'[v] = [workers[v] EXCEPT !.status = "offline"]
  <2>1. workers[v] \in Row
    BY <1>2 DEF Table
  <2>2. workers'[v] \in Row /\ workers'[v].age = workers[v].age
    BY <1>2, <2>1 DEF Row
  <2> QED BY <1>2, <2>2, RowsAreRows
<1> QED BY <1>1, <1>2 DEF RefreshWorkersStatus

-----------------------------------------------------------------------------
(* Calls, and type correctness. *)


\* What a call counts keeps pace with the messages that were lost.
CallOK ==
  /\ call \in Call /\ calls \in 0 .. MaxCalls /\ lost \in 0 .. MaxLost
  /\ call.unanswered <= lost
  /\ ExecutedOnceAnswered

\* A step of a call is about nothing but the call and what it loses.
LEMMA CallStepFrame ==
  CallStep => UNCHANGED <<workers, proc, due, stops, missed, silent>>
  BY DEF CallStep, Discover, Return, NobodyThere, Answer, NoAnswer, faults

LEMMA CallStepOK ==
  ASSUME CallOK, CallStep
  PROVE  CallOK' /\ lost <= lost'
<1>a. MaxLost \in Nat /\ MaxCalls \in Nat
  BY RegistryAssumption
<1>b. call \in Call
  BY DEF CallOK
<1>c. call.execs \in 0 .. MaxLost + 1 /\ call.unanswered \in 0 .. MaxLost
  BY <1>b DEF Call
<1>0. /\ MaxLost \in Nat /\ MaxCalls \in Nat
      /\ call.execs \in Nat /\ call.unanswered \in Nat
      /\ call \in Call
  BY <1>a, <1>b, <1>c
<1>n. NoCall \in Call /\ NoCall.at = "idle" /\ NoCall.execs = 0 /\ NoCall.unanswered = 0
  <2>1. 0 \in 0 .. MaxLost + 1 /\ 0 \in 0 .. MaxLost
    BY <1>0
  <2> QED BY <2>1 DEF NoCall, Call
<1>w. ASSUME NEW w \in Worker
      PROVE  /\ NextWorker(call, w) \in Call
             /\ NextWorker(call, w).at \in {"trying", "all failed"}
             /\ NextWorker(call, w).execs = call.execs
             /\ NextWorker(call, w).unanswered = call.unanswered
             /\ NextWorker(call, w).failed = call.failed
  BY <1>0 DEF NextWorker, Call
<1>1. CASE Discover
  <2> DEFINE found == {w \in Listed(TTL) : Type[w] = "http"}
  <2>1. found \subseteq Worker /\ {w \in found : Up(w)} \subseteq Worker
    BY DEF Listed
  <2>2. /\ call' = [NoCall EXCEPT !.at = IF found = {} THEN "no worker" ELSE "trying",
                                  !.left = found,
                                  !.steady = {w \in found : Up(w)}]
        /\ calls < MaxCalls /\ calls' = calls + 1 /\ lost' = lost
    BY <1>1 DEF Discover
  <2> HIDE DEF found
  <2>3. /\ call' \in Call /\ call'.at \in {"no worker", "trying"}
        /\ call'.execs = 0 /\ call'.unanswered = 0
    BY <1>n, <2>1, <2>2 DEF Call, NoCall
  <2> QED BY <1>0, <2>2, <2>3 DEF CallOK, ExecutedOnceAnswered
<1>2. CASE Return
  BY <1>0, <1>n, <1>2 DEF Return, faults, CallOK, ExecutedOnceAnswered
<1>3. ASSUME NEW w \in Worker, NobodyThere(w) PROVE CallOK' /\ lost <= lost'
  <2>1. /\ call.at = "trying" /\ call' = NextWorker(call, w)
        /\ UNCHANGED <<calls, lost>>
    BY <1>3 DEF NobodyThere, faults
  <2>2. /\ call' \in Call /\ call'.at \in {"trying", "all failed"}
        /\ call'.execs = call.execs /\ call'.unanswered = call.unanswered
    BY <1>w, <2>1
  <2>3. call.at \notin {"ok", "error"} /\ call'.at \notin {"ok", "error"}
    BY <2>1, <2>2
  <2>4. call.execs = call.unanswered
    BY <1>0, <2>3 DEF CallOK, ExecutedOnceAnswered
  <2>5. call'.execs \in Nat /\ call'.unanswered \in Nat
    BY <1>0, <2>2
  <2>6. call'.execs = call'.unanswered
    BY <2>2, <2>4
  <2>7. ExecutedOnceAnswered'
    BY <2>3, <2>5, <2>6 DEF ExecutedOnceAnswered
  <2>8. lost' \in 0 .. MaxLost /\ lost <= lost' /\ calls' \in 0 .. MaxCalls
    BY <1>0, <2>1 DEF CallOK
  <2>9. call'.unanswered <= lost'
    BY <2>1, <2>2 DEF CallOK
  <2> QED BY <2>2, <2>7, <2>8, <2>9 DEF CallOK
<1>4. ASSUME NEW w \in Worker, Answer(w) PROVE CallOK' /\ lost <= lost'
  <2>1. PICK out \in {"ok", "error"} : call' = [call EXCEPT !.at = out, !.execs = @ + 1]
    BY <1>4 DEF Answer
  <2>2. call.at = "trying" /\ UNCHANGED <<calls, lost>>
    BY <1>4 DEF Answer, faults
  <2>3. call.execs = call.unanswered /\ call.unanswered <= MaxLost
    BY <1>0, <2>2 DEF CallOK, ExecutedOnceAnswered
  <2>c. call.execs + 1 \in 0 .. MaxLost + 1
    BY <1>0, <2>3
  <2>4. /\ call' \in Call /\ call'.at \in {"ok", "error"}
        /\ call'.execs = call.execs + 1 /\ call'.unanswered = call.unanswered
    BY <1>0, <2>1, <2>c DEF Call
  <2> QED BY <1>0, <2>2, <2>3, <2>4 DEF CallOK, ExecutedOnceAnswered
<1>5. ASSUME NEW w \in Worker, NoAnswer(w) PROVE CallOK' /\ lost <= lost'
  <2>1. PICK executed \in {0, 1} :
          call' = [NextWorker(call, w) EXCEPT !.execs = @ + executed,
                                              !.unanswered = @ + executed,
                                              !.failed = @ \cup {w}]
    BY <1>5 DEF NoAnswer
  <2>2. call.at = "trying" /\ lost < MaxLost /\ lost' = lost + 1 /\ UNCHANGED calls
    BY <1>5 DEF NoAnswer
  <2>3. call.execs = call.unanswered /\ call.unanswered <= lost
    BY <1>0, <2>2 DEF CallOK, ExecutedOnceAnswered
  <2>4. /\ call.unanswered + executed \in 0 .. MaxLost
        /\ call.execs + executed \in 0 .. MaxLost + 1
        /\ call.unanswered + executed <= lost'
    BY <1>0, <2>1, <2>2, <2>3 DEF CallOK
  <2> DEFINE c == NextWorker(call, w)
  <2>5. c \in Call /\ c.execs = call.execs /\ c.unanswered = call.unanswered
        /\ c.at \in {"trying", "all failed"}
    BY <1>w
  <2>6. call' = [c EXCEPT !.execs = @ + executed, !.unanswered = @ + executed,
                          !.failed = @ \cup {w}]
    BY <2>1
  <2> HIDE DEF c
  <2>7. /\ call' \in Call /\ call'.at \in {"trying", "all failed"}
        /\ call'.execs = call.execs + executed
        /\ call'.unanswered = call.unanswered + executed
    BY <1>0, <2>3, <2>4, <2>5, <2>6 DEF Call
  <2>8. /\ call'.at \notin {"ok", "error"}
        /\ call'.execs \in Nat /\ call'.unanswered \in Nat
    <3>1. call'.at \notin {"ok", "error"}
      BY <2>7
    <3>2. call.execs + executed \in Nat /\ call.unanswered + executed \in Nat
      BY <1>0
    <3> QED BY <2>7, <3>1, <3>2
  <2>9. call'.execs = call'.unanswered
    BY <1>0, <2>3, <2>7
  <2>10. ExecutedOnceAnswered'
    BY <2>8, <2>9 DEF ExecutedOnceAnswered
  <2>11. lost' \in 0 .. MaxLost /\ lost <= lost' /\ calls' \in 0 .. MaxCalls
    BY <1>0, <2>2 DEF CallOK
  <2>12. call'.unanswered <= lost'
    BY <2>4, <2>7
  <2> QED BY <2>7, <2>10, <2>11, <2>12 DEF CallOK
<1> QED BY <1>1, <1>2, <1>3, <1>4, <1>5 DEF CallStep

LEMMA CallUnderneath ==
  ASSUME CallOK, Next, ~CallStep
  PROVE  CallOK' /\ lost <= lost'
<1>0. lost \in 0 .. MaxLost /\ MaxLost \in Nat
  BY RegistryAssumption DEF CallOK
<1>1. ASSUME UNCHANGED <<call, calls, lost>> PROVE CallOK' /\ lost <= lost'
  BY <1>0, <1>1 DEF CallOK, ExecutedOnceAnswered
<1>2. ASSUME UNCHANGED <<call, calls>>, lost < MaxLost, lost' = lost + 1
      PROVE  CallOK' /\ lost <= lost'
  <2>1. lost' \in 0 .. MaxLost /\ lost <= lost'
    BY <1>0, <1>2
  <2>2. call.unanswered \in 0 .. MaxLost /\ call.unanswered <= lost
    BY DEF CallOK, Call
  <2>3. call'.unanswered <= lost'
    BY <1>0, <1>2, <2>1, <2>2
  <2>4. ExecutedOnceAnswered' /\ call' \in Call /\ calls' \in 0 .. MaxCalls
    BY <1>2 DEF CallOK, ExecutedOnceAnswered
  <2> QED BY <2>1, <2>3, <2>4 DEF CallOK
<1>3. ASSUME NEW w \in Worker, Stop(w) PROVE CallOK' /\ lost <= lost'
  <2>1. call' = [call EXCEPT !.steady = @ \ {w}] /\ UNCHANGED <<calls, lost>>
    BY <1>3 DEF Stop
  <2>2. /\ call' \in Call /\ call'.at = call.at
        /\ call'.execs = call.execs /\ call'.unanswered = call.unanswered
    BY <2>1 DEF CallOK, Call
  <2>3. ExecutedOnceAnswered'
    BY <2>2 DEF CallOK, ExecutedOnceAnswered
  <2>4. lost' \in 0 .. MaxLost /\ lost <= lost' /\ calls' \in 0 .. MaxCalls
    BY <1>0, <2>1 DEF CallOK
  <2>5. call'.unanswered <= lost'
    BY <2>1, <2>2 DEF CallOK
  <2> QED BY <2>2, <2>3, <2>4, <2>5 DEF CallOK
<1>4. ASSUME NEW w \in Worker, WorkerStep(w) PROVE CallOK' /\ lost <= lost'
  <2>1. CASE Start(w) \/ Register(w) \/ Beat(w)
    BY <1>1, <2>1 DEF Start, Register, Beat, faults
  <2>2. CASE RegisterUnanswered(w) \/ BeatLost(w)
    BY <1>2, <2>2 DEF RegisterUnanswered, BeatLost
  <2>3. CASE Stop(w)
    BY <1>3, <2>3
  <2> QED BY <1>4, <2>1, <2>2, <2>3 DEF WorkerStep
<1>5. CASE Refresh \/ ListRequest \/ Tick
  BY <1>1, <1>5 DEF Refresh, ListRequest, Tick, faults
<1> QED BY <1>4, <1>5 DEF Next

\* The table, the processes, and what is remembered of them.
ProcessOK ==
  /\ workers \in Table
  /\ proc \in [Worker -> {"none", "new", "starting", "up", "down"}]
  /\ \A w \in Worker : Up(w) => workers[w] # NoRow
  /\ due \subseteq {w \in Worker : Up(w)}
  /\ stops \in 0 .. MaxStops
  /\ missed \in [Worker -> Nat]
  /\ \A w \in Worker : missed[w] <= lost
  /\ silent \in [Worker -> Age]

LEMMA ProcessStep ==
  ASSUME CallOK, ProcessOK, [Next]_vars
  PROVE  ProcessOK'
<1>0. /\ lost \in Nat /\ MaxStops \in Nat
      /\ \A w \in Worker : missed[w] \in Nat /\ missed[w] <= lost
      /\ workers \in Table
  BY RegistryAssumption DEF CallOK, ProcessOK
\* A step that only renews rows, marks them or lets time go by.
<1>a. ASSUME workers' \in Table,
             \A w \in Worker : workers[w] # NoRow => workers'[w] # NoRow,
             UNCHANGED <<proc, stops>>,
             due' \subseteq {w \in Worker : Up(w)},
             missed' = missed \/ \E w \in Worker : missed' = [missed EXCEPT ![w] = 0],
             lost <= lost', lost' \in Nat,
             silent' \in [Worker -> Age]
      PROVE  ProcessOK'
  <2>1. \A w \in Worker : Up(w)' <=> Up(w)
    BY <1>a DEF Up
  <2>2. missed' \in [Worker -> Nat] /\ \A w \in Worker : missed'[w] <= lost'
    BY <1>0, <1>a DEF ProcessOK
  <2> QED BY <1>a, <2>1, <2>2 DEF ProcessOK
<1>1. ASSUME NEW w \in Worker, Start(w) PROVE ProcessOK'
  <2>1. ~Up(w)
    BY <1>1 DEF Start, Up
  <2>2. \A v \in Worker : Up(v)' <=> Up(v)
    BY <1>1, <2>1 DEF Start, Up, ProcessOK
  <2> QED BY <1>1, <2>2 DEF Start, ProcessOK, faults
<1>2. ASSUME NEW w \in Worker, Register(w) PROVE ProcessOK'
  <2>1. /\ workers' \in Table /\ workers'[w] = Fresh
        /\ \A v \in Worker : v # w => workers'[v] = workers[v]
    BY <1>0, <1>2, RegisterEffect DEF Register
  <2>2. \A v \in Worker : Up(v)' <=> v = w \/ Up(v)
    BY <1>2 DEF Register, Up, ProcessOK
  <2>3. missed' \in [Worker -> Nat] /\ \A v \in Worker : missed'[v] <= lost'
    BY <1>0, <1>2 DEF Register, faults, ProcessOK
  <2> QED BY <1>2, <2>1, <2>2, <2>3, RowsAreRows, OlderAges DEF Register, ProcessOK, faults
<1>3. ASSUME NEW w \in Worker, RegisterUnanswered(w) PROVE ProcessOK'
  <2>1. /\ workers' \in Table /\ workers'[w] = Fresh
        /\ \A v \in Worker : v # w => workers'[v] = workers[v]
    BY <1>0, <1>3, RegisterEffect DEF RegisterUnanswered
  <2>2. \A v \in Worker : workers[v] # NoRow => workers'[v] # NoRow
    BY <2>1, RowsAreRows
  <2>3. lost' = lost + 1 /\ lost <= lost' /\ lost' \in Nat
    BY <1>0, <1>3 DEF RegisterUnanswered
  <2>4. silent' \in [Worker -> Age]
    BY <1>3, OlderAges DEF RegisterUnanswered, ProcessOK
  <2> QED BY <1>a, <1>3, <2>1, <2>2, <2>3, <2>4 DEF RegisterUnanswered, ProcessOK
<1>4. ASSUME NEW w \in Worker, Beat(w) PROVE ProcessOK'
  <2>1. workers[w] # NoRow
    BY <1>4 DEF Beat, ProcessOK
  <2>2. /\ workers' \in Table
        /\ \A v \in Worker : workers[v] # NoRow => workers'[v] # NoRow
    BY <1>0, <1>4, <2>1, RegisterEffect, HeartbeatEffect, RowsAreRows DEF Beat
  <2>3. /\ due' \subseteq {v \in Worker : Up(v)}
        /\ missed' = [missed EXCEPT ![w] = 0]
        /\ UNCHANGED <<proc, lost, stops, silent>>
    BY <1>4 DEF Beat, faults, ProcessOK
  <2>4. silent' \in [Worker -> Age] /\ lost' \in Nat /\ lost <= lost'
    BY <1>0, <2>3 DEF ProcessOK
  <2> QED BY <1>a, <2>2, <2>3, <2>4
<1>5. ASSUME NEW w \in Worker, BeatLost(w) PROVE ProcessOK'
  <2>1. \A v \in Worker : Up(v)' <=> Up(v)
    BY <1>5 DEF BeatLost, Up
  <2>2. lost' = lost + 1 /\ missed' = [missed EXCEPT ![w] = @ + 1]
    BY <1>5 DEF BeatLost
  <2>3. missed' \in [Worker -> Nat] /\ \A v \in Worker : missed'[v] <= lost'
    BY <1>0, <2>2 DEF ProcessOK
  <2> QED BY <1>5, <2>1, <2>3 DEF BeatLost, ProcessOK
<1>6. ASSUME NEW w \in Worker, Stop(w) PROVE ProcessOK'
  <2>1. \A v \in Worker : Up(v)' <=> v # w /\ Up(v)
    BY <1>6 DEF Stop, Up, ProcessOK
  <2>2. stops' \in 0 .. MaxStops
    BY <1>0, <1>6 DEF Stop, ProcessOK
  <2> QED BY <1>6, <2>1, <2>2 DEF Stop, ProcessOK
<1>7. CASE Refresh \/ ListRequest
  <2>1. \E ttl : RefreshWorkersStatus(ttl)
    BY <1>7 DEF Refresh, ListRequest
  <2>2. /\ workers' \in Table
        /\ \A v \in Worker : workers[v] # NoRow => workers'[v] # NoRow
    BY <1>0, <2>1, RefreshEffect
  <2> QED BY <1>0, <1>a, <1>7, <2>2 DEF Refresh, ListRequest, faults, ProcessOK
<1>8. CASE Tick
  <2>1. ASSUME NEW v \in Worker, workers[v] # NoRow
        PROVE  workers'[v] \in Row /\ workers'[v] # NoRow
    <3>1. workers[v] \in Row /\ workers'[v] = [workers[v] EXCEPT !.age = Older(@)]
      BY <1>0, <1>8, <2>1 DEF Tick, Table
    <3>2. Older(workers[v].age) \in Age
      BY <3>1, OlderAges DEF Row
    <3>3. workers'[v] \in Row
      BY <3>1, <3>2 DEF Row
    <3> QED BY <3>3, RowsAreRows
  <2>2. \A v \in Worker : workers[v] = NoRow => workers'[v] = NoRow
    BY <1>8 DEF Tick
  <2>3. workers' \in Table
    BY <1>8, <2>1, <2>2 DEF Tick, Table
  <2>4. silent' \in [Worker -> Age]
    BY <1>8, OlderAges DEF Tick, ProcessOK
  <2> QED BY <1>0, <1>a, <1>8, <2>1, <2>3, <2>4 DEF Tick, faults, ProcessOK
<1>9. CASE CallStep
  <2>1. lost <= lost' /\ lost' \in Nat
    BY <1>9, CallStepOK DEF CallOK
  <2> QED BY <1>0, <1>a, <1>9, <2>1, CallStepFrame DEF ProcessOK
<1>10. CASE UNCHANGED vars
  BY <1>0, <1>a, <1>10 DEF vars, faults, ProcessOK
<1> QED
  BY <1>1, <1>2, <1>3, <1>4, <1>5, <1>6, <1>7, <1>8, <1>9, <1>10 DEF Next, WorkerStep

LEMMA TableInvariant == Spec => [](CallOK /\ ProcessOK)
<1>1. Init => CallOK /\ ProcessOK
  <2> SUFFICES ASSUME Init PROVE CallOK /\ ProcessOK
    OBVIOUS
  <2>0. /\ MaxCalls \in Nat /\ MaxLost \in Nat /\ MaxStops \in Nat
        /\ 0 \in 0 .. MaxLost + 1 /\ 0 \in 0 .. MaxLost
    BY RegistryAssumption
  <2>1. CallOK
    <3>1. NoCall \in Call
      BY <2>0 DEF NoCall, Call
    <3>2. NoCall.unanswered = 0 /\ NoCall.execs = 0 /\ NoCall.at \notin {"ok", "error"}
      BY DEF NoCall
    <3> QED BY <2>0, <3>1, <3>2 DEF Init, CallOK, ExecutedOnceAnswered
  <2>2. ProcessOK
    <3>1. proc \in [Worker -> {"none", "new", "starting", "up", "down"}]
          /\ \A w \in Worker : ~Up(w)
      BY DEF Init, Up
    <3> QED BY <2>0, <3>1, OlderAges DEF Init, ProcessOK, Table
  <2> QED BY <2>1, <2>2
<1>2. CallOK /\ ProcessOK /\ [Next]_vars => CallOK' /\ ProcessOK'
  <2> SUFFICES ASSUME CallOK, ProcessOK, [Next]_vars PROVE CallOK'
    BY ProcessStep
  <2>1. CASE UNCHANGED vars
    BY <2>1 DEF vars, faults, CallOK, ExecutedOnceAnswered
  <2> QED BY <2>1, CallStepOK, CallUnderneath
<1> QED BY <1>1, <1>2, PTL DEF Spec

\* Every variable keeps to its type, whatever is lost and whoever stops.
THEOREM TypeCorrect == Spec => []TypeOK
<1>1. CallOK /\ ProcessOK => TypeOK
  <2> SUFFICES ASSUME CallOK, ProcessOK PROVE TypeOK
    OBVIOUS
  <2>1. missed \in [Worker -> 0 .. MaxLost]
    BY RegistryAssumption DEF CallOK, ProcessOK
  <2> QED BY <2>1 DEF CallOK, ProcessOK, Table, TypeOK
<1> QED BY <1>1, TableInvariant, PTL

\* A request is executed once, and once more for each worker whose answer was
\* lost: failover repeats nothing that was answered.
THEOREM AnsweredOnce == Spec => []ExecutedOnceAnswered
<1>1. CallOK => ExecutedOnceAnswered
  BY DEF CallOK
<1> QED BY <1>1, TableInvariant, PTL

-----------------------------------------------------------------------------
(* The listing is right about who is up, and about who is gone.            *)

\* The row of a worker that is up is as old as the beats it lost in a row, and
\* one more while this interval's beat is to come.
BeatsCounted ==
  \A w \in Worker :
    Up(w) => /\ silent[w] = 0
             /\ workers[w].age <= missed[w] + (IF w \in due THEN 1 ELSE 0)

\* A row is no fresher than somebody at its URL was up lately.
Heard ==
  \A w \in Worker : workers[w] # NoRow =>
    \E v \in Worker : (v = w \/ URL[v] = URL[w]) /\ silent[v] <= workers[w].age

LEMMA BeatsCountedStep ==
  ASSUME ProcessOK, BeatsCounted, [Next]_vars
  PROVE  BeatsCounted'
<1>0. /\ workers \in Table
      /\ \A w \in Worker : missed[w] \in Nat
      /\ missed \in [Worker -> Nat] /\ silent \in [Worker -> Age]
      /\ \A w \in Worker : Up(w) => workers[w] \in Row /\ workers[w].age \in Nat
      /\ Fresh.age = 0
      /\ \A w \in Worker : w \in due => Up(w)
  BY DEF ProcessOK, Table, Row, Age, Fresh
\* Steps after which whoever is up was up, with a row that is no older.
<1>a. ASSUME \A w \in Worker : Up(w)' =>
               /\ Up(w)
               /\ silent'[w] = silent[w] /\ missed'[w] = missed[w]
               /\ w \in due => w \in due'
               /\ workers'[w].age = workers[w].age
      PROVE  BeatsCounted'
  BY <1>0, <1>a DEF BeatsCounted
<1>1. ASSUME NEW w \in Worker, Start(w) \/ Stop(w) PROVE BeatsCounted'
  <2>1. \A v \in Worker : Up(v)' => Up(v) /\ (v \in due => v \in due')
    BY <1>1 DEF Start, Stop, Up, ProcessOK
  <2>2. UNCHANGED <<workers, missed, silent>>
    BY <1>1 DEF Start, Stop
  <2> QED BY <1>a, <2>1, <2>2
<1>2. ASSUME NEW w \in Worker, Register(w) \/ RegisterUnanswered(w) PROVE BeatsCounted'
  <2>1. /\ workers'[w] = Fresh
        /\ \A v \in Worker : v # w => workers'[v] = workers[v]
    BY <1>0, <1>2, RegisterEffect DEF Register, RegisterUnanswered
  <2>2. \A v \in Worker : v # w => /\ Up(v)' <=> Up(v)
                                   /\ silent'[v] = silent[v]
                                   /\ missed'[v] = missed[v]
    BY <1>0, <1>2 DEF Register, RegisterUnanswered, Up, ProcessOK
  <2>3. silent'[w] = 0 /\ missed'[w] = 0 /\ due' = due
    BY <1>0, <1>2 DEF Register, RegisterUnanswered
  <2> QED BY <1>0, <2>1, <2>2, <2>3 DEF BeatsCounted
<1>3. ASSUME NEW w \in Worker, Beat(w) PROVE BeatsCounted'
  <2>1. workers[w] # NoRow
    BY <1>3 DEF Beat, ProcessOK
  <2>2. /\ workers'[w] = Fresh
        /\ \A v \in Worker : workers'[v] = workers[v] \/ workers'[v] = Fresh
    BY <1>0, <1>3, <2>1, RegisterEffect, HeartbeatEffect DEF Beat
  <2>3. /\ UNCHANGED <<proc, silent>> /\ due' = due \ {w}
        /\ missed' = [missed EXCEPT ![w] = 0]
    BY <1>3 DEF Beat
  <2>4. \A v \in Worker : Up(v)' <=> Up(v)
    BY <2>3 DEF Up
  <2> QED BY <1>0, <2>2, <2>3, <2>4 DEF BeatsCounted
<1>4. ASSUME NEW w \in Worker, BeatLost(w) PROVE BeatsCounted'
  <2>1. /\ UNCHANGED <<workers, proc, silent>> /\ due' = due \ {w} /\ w \in due
        /\ missed' = [missed EXCEPT ![w] = @ + 1]
    BY <1>4 DEF BeatLost
  <2>2. \A v \in Worker : Up(v)' <=> Up(v)
    BY <2>1 DEF Up
  <2> QED BY <1>0, <2>1, <2>2 DEF BeatsCounted
<1>5. CASE Refresh \/ ListRequest
  <2>1. \E ttl : RefreshWorkersStatus(ttl)
    BY <1>5 DEF Refresh, ListRequest
  <2>2. \A v \in Worker : workers'[v].age = workers[v].age
    BY <1>0, <2>1, RefreshEffect
  <2>3. UNCHANGED <<proc, due, missed, silent>>
    BY <1>5 DEF Refresh, ListRequest
  <2> QED BY <1>a, <2>2, <2>3 DEF Up
<1>6. CASE Tick
  <2>1. /\ due = {} /\ due' = {w \in Worker : Up(w)} /\ UNCHANGED <<proc, missed>>
        /\ silent' = [w \in Worker |-> IF Up(w) THEN 0 ELSE Older(silent[w])]
    BY <1>6 DEF Tick
  <2>2. \A v \in Worker : Up(v)' <=> Up(v)
    BY <2>1 DEF Up
  <2>3. ASSUME NEW v \in Worker, Up(v)
        PROVE  workers'[v].age <= missed[v] + 1
    <3>1. workers'[v] = [workers[v] EXCEPT !.age = Older(@)]
      BY <1>6, <2>3 DEF Tick, ProcessOK
    <3>2. workers'[v].age = Older(workers[v].age)
      BY <1>0, <2>3, <3>1 DEF Row
    <3>3. workers[v].age <= missed[v]
      BY <1>0, <2>1, <2>3 DEF BeatsCounted
    <3>4. Older(workers[v].age) <= workers[v].age + 1
      BY <1>0, <2>3 DEF Older
    <3> QED BY <1>0, <2>3, <3>2, <3>3, <3>4, RegistryAssumption DEF Older
  <2> QED BY <2>1, <2>2, <2>3 DEF BeatsCounted
<1>7. CASE CallStep
  BY <1>a, <1>7, CallStepFrame DEF Up
<1>8. CASE UNCHANGED vars
  BY <1>a, <1>8 DEF vars, Up
<1> QED BY <1>1, <1>2, <1>3, <1>4, <1>5, <1>6, <1>7, <1>8 DEF Next, WorkerStep

LEMMA HeardStep ==
  ASSUME ProcessOK, BeatsCounted, Heard, [Next]_vars
  PROVE  Heard'
<1>0. /\ workers \in Table /\ silent \in [Worker -> Age]
      /\ Fresh.age = 0 /\ 0 <= 0
      /\ \A w \in Worker : workers[w] # NoRow => workers[w].age \in Age
      /\ \A i \in Age : i \in Nat
  BY RegistryAssumption DEF ProcessOK, Table, Row, Age, Fresh
\* Steps in which nobody falls silent, and each row keeps its age or is made
\* fresh by someone at its URL who is up.
<1>a. ASSUME \A v \in Worker : silent'[v] = silent[v] \/ silent'[v] = 0,
             \A w \in Worker : workers'[w] # NoRow =>
               \/ workers[w] # NoRow /\ workers'[w].age = workers[w].age
               \/ \E v \in Worker : /\ v = w \/ URL[v] = URL[w]
                                    /\ silent'[v] = 0 /\ workers'[w] = Fresh
      PROVE  Heard'
  <2> SUFFICES ASSUME NEW w \in Worker, workers'[w] # NoRow
               PROVE  \E v \in Worker : /\ v = w \/ URL[v] = URL[w]
                                        /\ silent'[v] <= workers'[w].age
    BY DEF Heard
  <2>1. CASE workers[w] # NoRow /\ workers'[w].age = workers[w].age
    <3>1. PICK v \in Worker : /\ v = w \/ URL[v] = URL[w]
                              /\ silent[v] <= workers[w].age
      BY <2>1 DEF Heard
    <3>2. silent'[v] <= workers[w].age
      BY <1>0, <1>a, <2>1, <3>1
    <3> QED BY <2>1, <3>1, <3>2
  <2>2. CASE \E v \in Worker : /\ v = w \/ URL[v] = URL[w]
                               /\ silent'[v] = 0 /\ workers'[w] = Fresh
    BY <1>0, <2>2
  <2> QED BY <1>a, <2>1, <2>2
<1>1. ASSUME NEW w \in Worker, Register(w) \/ RegisterUnanswered(w) PROVE Heard'
  <2>1. /\ workers'[w] = Fresh
        /\ \A v \in Worker : v # w => workers'[v] = workers[v]
    BY <1>0, <1>1, RegisterEffect DEF Register, RegisterUnanswered
  <2>2. silent' = [silent EXCEPT ![w] = 0]
    BY <1>1 DEF Register, RegisterUnanswered
  <2> QED BY <1>0, <1>a, <2>1, <2>2
<1>2. ASSUME NEW w \in Worker, Beat(w) PROVE Heard'
  <2>1. workers[w] # NoRow /\ silent[w] = 0
    BY <1>2 DEF Beat, ProcessOK, BeatsCounted
  <2>2. \A v \in Worker :
          \/ workers'[v] = workers[v]
          \/ workers'[v] = Fresh /\ (v = w \/ URL[v] = URL[w])
    BY <1>0, <1>2, <2>1, RegisterEffect, HeartbeatEffect DEF Beat
  <2>3. UNCHANGED silent
    BY <1>2 DEF Beat
  <2> QED BY <1>a, <2>1, <2>2, <2>3
<1>3. CASE Refresh \/ ListRequest
  <2>1. \E ttl : RefreshWorkersStatus(ttl)
    BY <1>3 DEF Refresh, ListRequest
  <2>2. \A v \in Worker : /\ workers'[v] = NoRow <=> workers[v] = NoRow
                          /\ workers'[v].age = workers[v].age
    BY <1>0, <2>1, RefreshEffect
  <2>3. UNCHANGED silent
    BY <1>3 DEF Refresh, ListRequest
  <2> QED BY <1>a, <2>2, <2>3
<1>4. CASE Tick
  <2> SUFFICES ASSUME NEW w \in Worker, workers'[w] # NoRow
               PROVE  \E v \in Worker : /\ v = w \/ URL[v] = URL[w]
                                        /\ silent'[v] <= workers'[w].age
    BY DEF Heard
  <2>1. workers[w] # NoRow /\ workers'[w] = [workers[w] EXCEPT !.age = Older(@)]
    BY <1>4 DEF Tick
  <2>2. workers[w] \in Row /\ workers'[w].age = Older(workers[w].age)
    BY <1>0, <2>1 DEF Table, Row
  <2>3. PICK v \in Worker : /\ v = w \/ URL[v] = URL[w]
                            /\ silent[v] <= workers[w].age
    BY <2>1 DEF Heard
  <2>4. silent'[v] = 0 \/ silent'[v] = Older(silent[v])
    BY <1>4 DEF Tick
  <2>5. /\ silent[v] \in Age /\ workers[w].age \in Age
        /\ Older(workers[w].age) \in Age
    BY <1>0, <2>1, OlderAges
  <2>6. silent'[v] <= Older(workers[w].age)
    <3>1. 0 <= Older(workers[w].age)
      BY <1>0, <2>5
    <3>2. Older(silent[v]) <= Older(workers[w].age)
      BY <2>3, <2>5, OlderAges
    <3> QED BY <2>4, <3>1, <3>2
  <2> QED BY <2>2, <2>3, <2>6
<1>5. ASSUME UNCHANGED <<workers, silent>> PROVE Heard'
  BY <1>5 DEF Heard
<1>6. ASSUME NEW w \in Worker, Start(w) \/ BeatLost(w) \/ Stop(w) PROVE Heard'
  BY <1>5, <1>6 DEF Start, BeatLost, Stop
<1>7. CASE CallStep \/ UNCHANGED vars
  BY <1>5, <1>7, CallStepFrame DEF vars
<1> QED BY <1>1, <1>2, <1>3, <1>4, <1>6, <1>7 DEF Next, WorkerStep

LEMMA ListingInvariant == Spec => [](BeatsCounted /\ Heard)
<1>1. Init => BeatsCounted /\ Heard
  BY DEF Init, Up, BeatsCounted, Heard
<1>2. ProcessOK /\ BeatsCounted /\ Heard /\ [Next]_vars => BeatsCounted' /\ Heard'
  BY BeatsCountedStep, HeardStep
<1> QED BY <1>1, <1>2, TableInvariant, PTL DEF Spec

\* A worker that is up is listed, if one of its beats in every TTL comes through.
THEOREM UpIsListed == Spec => []ListedWhileBeating
<1>1. ProcessOK /\ BeatsCounted => ListedWhileBeating
  <2> SUFFICES ASSUME ProcessOK, BeatsCounted, NEW w \in Worker, Up(w), missed[w] < TTL
               PROVE  w \in Listed(TTL)
    BY DEF ListedWhileBeating
  <2>1. workers[w] # NoRow /\ workers[w].age \in Nat /\ missed[w] \in Nat
    BY DEF ProcessOK, Table, Row, Age
  <2>2. workers[w].age <= missed[w] + 1
    BY <2>1 DEF BeatsCounted
  <2> QED BY <2>1, <2>2, RegistryAssumption DEF Listed
<1> QED BY <1>1, TableInvariant, ListingInvariant, PTL

\* A worker is listed no longer than TTL after it was last up, but for another
\* one at its URL.
THEOREM GoneIsDropped == Spec => []DeadIsDropped
<1>1. ProcessOK /\ Heard => DeadIsDropped
  <2> SUFFICES ASSUME ProcessOK, Heard, NEW w \in Listed(TTL)
               PROVE  \E v \in Worker : (v = w \/ URL[v] = URL[w]) /\ silent[v] <= TTL
    BY DEF DeadIsDropped
  <2>1. w \in Worker /\ workers[w] # NoRow /\ workers[w].age <= TTL
    BY DEF Listed
  <2>2. PICK v \in Worker : (v = w \/ URL[v] = URL[w]) /\ silent[v] <= workers[w].age
    BY <2>1 DEF Heard
  <2>3. silent[v] \in Nat /\ workers[w].age \in Nat
    BY <2>1 DEF ProcessOK, Table, Row, Age
  <2> QED BY <2>1, <2>2, <2>3, RegistryAssumption
<1> QED BY <1>1, TableInvariant, ListingInvariant, PTL

-----------------------------------------------------------------------------
(* Failover leaves nobody out. *)

\* Of the workers that were up from the listing on, each is yet to be tried or
\* has failed for a lost message.
SteadyTried ==
  /\ call.steady \subseteq {w \in Worker : Up(w)}
  /\ call.at = "trying" => call.steady \subseteq call.left \cup call.failed
  /\ FailsWhenAllFail

LEMMA SteadyTriedStep ==
  ASSUME CallOK, ProcessOK, SteadyTried, [Next]_vars
  PROVE  SteadyTried'
<1>0. call \in Call /\ proc \in [Worker -> {"none", "new", "starting", "up", "down"}]
  BY DEF CallOK, ProcessOK
<1>a. ASSUME UNCHANGED call, \A w \in Worker : Up(w) => Up(w)' PROVE SteadyTried'
  BY <1>a DEF SteadyTried, FailsWhenAllFail
\* The steps of a call change no process.
<1>b. ASSUME CallStep PROVE \A w \in Worker : Up(w)' <=> Up(w)
  BY <1>b, CallStepFrame DEF Up
<1>w. ASSUME NEW w \in Worker
      PROVE  /\ NextWorker(call, w) \in Call
             /\ NextWorker(call, w).left = call.left \ {w}
             /\ NextWorker(call, w).steady = call.steady
             /\ NextWorker(call, w).failed = call.failed
             /\ NextWorker(call, w).at = "all failed" => call.left = {w}
  BY <1>0 DEF NextWorker, Call
<1>1. ASSUME NEW w \in Worker, Stop(w) PROVE SteadyTried'
  <2>1. call' = [call EXCEPT !.steady = @ \ {w}]
    BY <1>1 DEF Stop
  <2>2. /\ call'.steady = call.steady \ {w} /\ call'.at = call.at
        /\ call'.left = call.left /\ call'.failed = call.failed
    BY <1>0, <2>1 DEF Call
  <2>3. \A v \in Worker : v # w => (Up(v)' <=> Up(v))
    BY <1>0, <1>1 DEF Stop, Up
  <2> QED BY <2>2, <2>3 DEF SteadyTried, FailsWhenAllFail
<1>2. ASSUME NEW w \in Worker,
             \/ Start(w) \/ Register(w) \/ RegisterUnanswered(w) \/ Beat(w) \/ BeatLost(w)
      PROVE  SteadyTried'
  <2>1. UNCHANGED call
    BY <1>2 DEF Start, Register, RegisterUnanswered, Beat, BeatLost
  <2>2. \A v \in Worker : Up(v) => Up(v)'
    BY <1>0, <1>2 DEF Start, Register, RegisterUnanswered, Beat, BeatLost, Up
  <2> QED BY <1>a, <2>1, <2>2
<1>3. CASE Refresh \/ ListRequest \/ Tick \/ UNCHANGED vars
  BY <1>a, <1>3 DEF Refresh, ListRequest, Tick, vars, Up
<1>4. CASE Discover
  <2> DEFINE found == {w \in Listed(TTL) : Type[w] = "http"}
  <2>1. call' = [NoCall EXCEPT !.at = IF found = {} THEN "no worker" ELSE "trying",
                               !.left = found,
                               !.steady = {w \in found : Up(w)}]
    BY <1>4 DEF Discover
  <2>2. found \subseteq Worker
    BY DEF Listed
  <2>3. /\ call'.left = found /\ call'.steady = {w \in found : Up(w)}
        /\ call'.at # "all failed"
    BY <2>1 DEF NoCall
  <2>4. CallStep
    BY <1>4 DEF CallStep
  <2> HIDE DEF found
  <2> QED BY <1>b, <2>2, <2>3, <2>4 DEF SteadyTried, FailsWhenAllFail
<1>5. CASE Return
  BY <1>5 DEF Return, NoCall, SteadyTried, FailsWhenAllFail
<1>6. ASSUME NEW w \in Worker, NobodyThere(w) PROVE SteadyTried'
  <2>1. call.at = "trying" /\ ~Up(w) /\ call' = NextWorker(call, w)
    BY <1>6 DEF NobodyThere, Serves
  <2>2. CallStep /\ w \notin call.steady
    BY <1>6, <2>1 DEF CallStep, SteadyTried
  <2>3. /\ call'.left = call.left \ {w} /\ call'.steady = call.steady
        /\ call'.failed = call.failed /\ (call'.at = "all failed" => call.left = {w})
    BY <1>w, <2>1
  <2>4. \A v \in Worker : Up(v)' <=> Up(v)
    BY <1>b, <2>2
  <2> QED BY <2>1, <2>2, <2>3, <2>4 DEF SteadyTried, FailsWhenAllFail
<1>7. ASSUME NEW w \in Worker, Answer(w) PROVE SteadyTried'
  <2>1. PICK out \in {"ok", "error"} : call' = [call EXCEPT !.at = out, !.execs = @ + 1]
    BY <1>7 DEF Answer
  <2>2. call'.at \in {"ok", "error"} /\ call'.steady = call.steady
    BY <1>0, <2>1 DEF Call
  <2>3. call'.at # "trying" /\ call'.at # "all failed" /\ CallStep
    BY <1>7, <2>2 DEF CallStep
  <2> QED BY <1>b, <2>2, <2>3 DEF SteadyTried, FailsWhenAllFail
<1>8. ASSUME NEW w \in Worker, NoAnswer(w) PROVE SteadyTried'
  <2> DEFINE c == NextWorker(call, w)
  <2>1. PICK executed \in {0, 1} :
          call' = [c EXCEPT !.execs = @ + executed, !.unanswered = @ + executed,
                            !.failed = @ \cup {w}]
    BY <1>8 DEF NoAnswer
  <2>2. call.at = "trying" /\ CallStep
    BY <1>8 DEF NoAnswer, CallStep
  <2>3. /\ c \in Call /\ c.left = call.left \ {w} /\ c.steady = call.steady
        /\ c.failed = call.failed /\ (c.at = "all failed" => call.left = {w})
    BY <1>w
  <2> HIDE DEF c
  <2>4. /\ call'.left = c.left /\ call'.steady = c.steady /\ call'.at = c.at
        /\ call'.failed = c.failed \cup {w}
    BY <2>1, <2>3 DEF Call
  <2> QED BY <1>b, <2>2, <2>3, <2>4 DEF SteadyTried, FailsWhenAllFail
<1> QED
  BY <1>1, <1>2, <1>3, <1>4, <1>5, <1>6, <1>7, <1>8 DEF Next, WorkerStep, CallStep

\* A node fails with "all workers failed" only if every worker that was up from
\* the listing on lost a message of that call. It holds because execHTTP tries
\* the whole list, whatever the node's max_attempts says.
THEOREM FailureIsOfAll == Spec => []FailsWhenAllFail
<1>1. Init => SteadyTried
  BY DEF Init, NoCall, SteadyTried, FailsWhenAllFail
<1>2. CallOK /\ ProcessOK /\ SteadyTried /\ [Next]_vars => SteadyTried'
  BY SteadyTriedStep
<1>3. SteadyTried => FailsWhenAllFail
  BY DEF SteadyTried
<1> QED BY <1>1, <1>2, <1>3, TableInvariant, PTL DEF Spec
=============================================================================
