------------------------------ MODULE Registry ------------------------------
(***************************************************************************)
(* The worker registry: workers register and beat (cmd/worker,             *)
(* cmd/worker-async, pkg/flow/registry.go; the scheduler's local worker in *)
(* cmd/scheduler), the server lists those it heard of lately and marks the *)
(* others offline (sqlite.go, server.go), and a node executed over HTTP is *)
(* offered to the listed workers one after the other (executor_http.go).   *)
(*                                                                         *)
(* One unit of time is the interval of the beats, 5 seconds.  All workers  *)
(* offer the one service that is asked for.  Loads are left out: a call    *)
(* may try the workers in any order, as it does without weighted_by_load.  *)
(***************************************************************************)
EXTENDS Naturals, FiniteSets

CONSTANTS
  Worker,    \* worker processes, by their id
  Type,      \* [Worker -> "http", "async" or "local"]
  URL,       \* [Worker -> where it can be reached]
  Fleets,    \* the sets of workers that may ever be started together
  TTL,       \* time a worker is listed for after a beat
  MaxCalls,  \* bound: calls of nodes
  MaxLost,   \* bound: requests and answers lost
  MaxStops   \* bound: worker processes that stop

ASSUME RegistryAssumption ==
  /\ Type \in [Worker -> {"http", "async", "local"}]
  /\ DOMAIN URL = Worker
  /\ Fleets \subseteq SUBSET Worker
  /\ TTL \in Nat \ {0}
  /\ MaxCalls \in Nat /\ MaxLost \in Nat /\ MaxStops \in Nat

VARIABLES
  workers,  \* the table: [Worker -> its row, or NoRow]
  proc,     \* [Worker -> state of the process]
  due,      \* processes whose beat of this interval is to come
  call,     \* the call of a node that is under way
  calls, lost, stops,
  missed,   \* history: [Worker -> beats of it lost since the last one that came]
  silent    \* history: [Worker -> time since it was up]

faults == <<calls, lost, stops>>
vars == <<workers, proc, due, call, faults, missed, silent>>

\* Longer than TTL is all the same.
Age == 0 .. TTL + 1
Older(i) == IF i <= TTL THEN i + 1 ELSE i

Row == [age : Age, status : {"online", "offline"}]
NoRow == [age |-> 0, status |-> "none"]
Fresh == [age |-> 0, status |-> "online"]

\* left: workers listed and not tried yet.  execs, unanswered: how often the
\* request was executed, and how often no answer came of that.  steady: workers
\* that were up when they were listed, and still are.  failed: workers from which
\* no answer came because a message was lost.
Call == [at : {"idle", "trying", "ok", "error", "no worker", "all failed"},
         left : SUBSET Worker, execs : 0 .. MaxLost + 1, unanswered : 0 .. MaxLost,
         steady : SUBSET Worker, failed : SUBSET Worker]
NoCall == [at |-> "idle", left |-> {}, execs |-> 0, unanswered |-> 0,
           steady |-> {}, failed |-> {}]

Init ==
  /\ workers = [w \in Worker |-> NoRow]
  /\ \E fleet \in Fleets : proc = [w \in Worker |-> IF w \in fleet THEN "new" ELSE "none"]
  /\ due = {} /\ call = NoCall
  /\ calls = 0 /\ lost = 0 /\ stops = 0
  /\ missed = [w \in Worker |-> 0]
  /\ silent = [w \in Worker |-> TTL + 1]

-----------------------------------------------------------------------------
(* The table. *)

RegisterAsGiven(w) ==  \* mutant: the status is the request's, which has none
  workers' = [workers EXCEPT ![w] = NoRow]
RegisterWorker(w) == workers' = [workers EXCEPT ![w] = Fresh]

\* WHERE id=? OR url=?: the rows of whoever has, or had, the same URL as well.
HeartbeatWorker(w) ==
  workers' = [v \in Worker |->
                IF workers[v] # NoRow /\ (v = w \/ URL[v] = URL[w])
                THEN Fresh ELSE workers[v]]

RefreshPositive(ttl) ==  \* mutant: the test of ttl the wrong way round
  UNCHANGED workers
RefreshWorkersStatus(ttl) ==
  workers' = [w \in Worker |->
                IF workers[w] # NoRow /\ workers[w].age > ttl
                THEN [workers[w] EXCEPT !.status = "offline"] ELSE workers[w]]

\* ListWorkers, whatever the status says.
ListedIfOnline(ttl) ==  \* mutant: the status is looked at instead
  {w \in Worker : workers[w].status = "online"}
ListedInside(ttl) ==  \* mutant: the last unit does not count
  {w \in Worker : workers[w] # NoRow /\ workers[w].age < ttl}
Listed(ttl) ==
  {w \in Worker : workers[w] # NoRow /\ workers[w].age <= ttl}

-----------------------------------------------------------------------------
(* The workers. *)

Up(w) == proc[w] = "up"
Running(w) == proc[w] \in {"starting", "up"}

\* A worker over HTTP takes a new id with every start, and needs its URL for
\* itself; an async or local one may come back with the same id.
Start(w) ==
  /\ IF Type[w] = "http"
     THEN proc[w] = "new" /\ \A v \in Worker : URL[v] = URL[w] => ~Running(v)
     ELSE proc[w] \in {"new", "down"}
  /\ proc' = [proc EXCEPT ![w] = "starting"]
  /\ UNCHANGED <<workers, due, call, faults, missed, silent>>

\* Registration is repeated until it is answered.
Register(w) ==
  /\ proc[w] = "starting"
  /\ RegisterWorker(w)
  /\ proc' = [proc EXCEPT ![w] = "up"]
  /\ missed' = [missed EXCEPT ![w] = 0] /\ silent' = [silent EXCEPT ![w] = 0]
  /\ UNCHANGED <<due, call, faults>>

RegisterUnanswered(w) ==
  /\ proc[w] = "starting" /\ Type[w] # "local" /\ lost < MaxLost
  /\ RegisterWorker(w)
  /\ lost' = lost + 1
  /\ missed' = [missed EXCEPT ![w] = 0] /\ silent' = [silent EXCEPT ![w] = 0]
  /\ UNCHANGED <<proc, due, call, calls, stops>>

\* The local worker registers again where the others beat.
Beat(w) ==
  /\ w \in due /\ due' = due \ {w}
  /\ IF Type[w] = "local" THEN RegisterWorker(w) ELSE HeartbeatWorker(w)
  /\ missed' = [missed EXCEPT ![w] = 0]
  /\ UNCHANGED <<proc, call, faults, silent>>

BeatLost(w) ==
  /\ w \in due /\ due' = due \ {w}
  /\ Type[w] # "local" /\ lost < MaxLost
  /\ lost' = lost + 1 /\ missed' = [missed EXCEPT ![w] = @ + 1]
  /\ UNCHANGED <<workers, proc, call, calls, stops, silent>>

Stop(w) ==
  /\ Running(w) /\ stops < MaxStops
  /\ proc' = [proc EXCEPT ![w] = "down"] /\ stops' = stops + 1
  /\ due' = due \ {w}
  /\ call' = [call EXCEPT !.steady = @ \ {w}]
  /\ UNCHANGED <<workers, calls, lost, missed, silent>>

-----------------------------------------------------------------------------
(* The scheduler's loop that marks workers offline, and the requests that do *)
(* so before they list: /workers/list with a ttl of its own, and            *)
(* /workers/allocate.                                                       *)

Refresh ==
  /\ RefreshWorkersStatus(TTL)
  /\ UNCHANGED <<proc, due, call, faults, missed, silent>>

ListRequest ==
  /\ \E ttl \in 1 .. TTL : RefreshWorkersStatus(ttl)
  /\ UNCHANGED <<proc, due, call, faults, missed, silent>>

-----------------------------------------------------------------------------
(* execHTTP. *)

Discover ==
  LET found == {w \in Listed(TTL) : Type[w] = "http"}
  IN /\ call.at = "idle" /\ calls < MaxCalls /\ calls' = calls + 1
     /\ call' = [NoCall EXCEPT !.at = IF found = {} THEN "no worker" ELSE "trying",
                               !.left = found,
                               !.steady = {w \in found : Up(w)}]
     /\ UNCHANGED <<workers, proc, due, lost, stops, missed, silent>>

\* Without an answer, or with one that is none, it is the next one's turn, until
\* the list is at its end: `attempts` is counted and compared with nothing,
\* whatever the node's max_attempts and attempt_delay_ms say.
FirstOnly(c, w) ==  \* mutant: max_attempts 1 limits the call, as documented
  [c EXCEPT !.left = {}, !.at = "all failed"]
NextWorker(c, w) ==
  [c EXCEPT !.left = @ \ {w},
            !.at = IF c.left = {w} THEN "all failed" ELSE "trying"]

Serves(w) == \E v \in Worker : Up(v) /\ URL[v] = URL[w]

NobodyThere(w) ==
  /\ call.at = "trying" /\ w \in call.left /\ ~Serves(w)
  /\ call' = NextWorker(call, w)
  /\ UNCHANGED <<workers, proc, due, faults, missed, silent>>

ErrorIsNone(w) ==  \* mutant: an error of the service sends it to the next one
  /\ call.at = "trying" /\ w \in call.left /\ Serves(w)
  /\ \/ call' = [call EXCEPT !.at = "ok", !.execs = @ + 1]
     \/ call' = [NextWorker(call, w) EXCEPT !.execs = @ + 1]
  /\ UNCHANGED <<workers, proc, due, faults, missed, silent>>
Answer(w) ==
  /\ call.at = "trying" /\ w \in call.left /\ Serves(w)
  /\ \E out \in {"ok", "error"} :
       call' = [call EXCEPT !.at = out, !.execs = @ + 1]
  /\ UNCHANGED <<workers, proc, due, faults, missed, silent>>

\* The request is lost, or its answer: for the engine it is the same.
NoAnswer(w) ==
  /\ call.at = "trying" /\ w \in call.left /\ Serves(w)
  /\ lost < MaxLost /\ lost' = lost + 1
  /\ \E executed \in {0, 1} :
       call' = [NextWorker(call, w) EXCEPT !.execs = @ + executed,
                                           !.unanswered = @ + executed,
                                           !.failed = @ \cup {w}]
  /\ UNCHANGED <<workers, proc, due, calls, stops, missed, silent>>

Return ==
  /\ call.at \notin {"idle", "trying"}
  /\ call' = NoCall
  /\ UNCHANGED <<workers, proc, due, faults, missed, silent>>

-----------------------------------------------------------------------------
\* An interval ends when everyone who is up has sent its beat.
Tick ==
  /\ due = {}
  /\ due' = {w \in Worker : Up(w)}
  /\ workers' = [w \in Worker |-> IF workers[w] = NoRow THEN NoRow
                                  ELSE [workers[w] EXCEPT !.age = Older(@)]]
  /\ silent' = [w \in Worker |-> IF Up(w) THEN 0 ELSE Older(silent[w])]
  /\ UNCHANGED <<proc, call, faults, missed>>

WorkerStep(w) ==
  \/ Start(w) \/ Register(w) \/ RegisterUnanswered(w)
  \/ Beat(w) \/ BeatLost(w) \/ Stop(w)
CallStep == \/ Discover \/ Return
            \/ \E w \in Worker : NobodyThere(w) \/ Answer(w) \/ NoAnswer(w)

Next == (\E w \in Worker : WorkerStep(w)) \/ Refresh \/ ListRequest \/ CallStep \/ Tick

Spec == Init /\ [][Next]_vars

\* Time passes, and the loops that live by it go on.
FairSpec == /\ Spec /\ WF_vars(Tick) /\ WF_vars(Refresh)
            /\ \A w \in Worker : WF_vars(Beat(w) \/ BeatLost(w))

-----------------------------------------------------------------------------
(* Properties. *)

TypeOK ==
  /\ workers \in [Worker -> Row \cup {NoRow}]
  /\ proc \in [Worker -> {"none", "new", "starting", "up", "down"}]
  /\ \A w \in Worker : Up(w) => workers[w] # NoRow
  /\ due \subseteq {w \in Worker : Up(w)} /\ call \in Call
  /\ calls \in 0 .. MaxCalls /\ lost \in 0 .. MaxLost /\ stops \in 0 .. MaxStops
  /\ missed \in [Worker -> 0 .. MaxLost] /\ silent \in [Worker -> Age]

\* A worker that is up is listed though up to TTL - 1 of its beats in a row are
\* lost: it needs one in every TTL to get through.
ListedWhileBeating ==
  \A w \in Worker : Up(w) /\ missed[w] < TTL => w \in Listed(TTL)

\* A worker is not listed for longer than TTL after it died, but while another
\* one has its URL: the next one started there, or any async worker.
DeadIsDropped ==
  \A w \in Listed(TTL) : \E v \in Worker :
    (v = w \/ URL[v] = URL[w]) /\ silent[v] <= TTL

\* A request is executed once, and once more for each worker that executed it
\* and whose answer was lost.
ExecutedOnceAnswered ==
  call.execs = call.unanswered + (IF call.at \in {"ok", "error"} THEN 1 ELSE 0)

\* A call comes to "all workers failed" only when it lost a message to or from
\* each worker that was up all the time.  That is what executor_http.go:43-70
\* does, and not what is documented: docs/architecture.md:99 has the "failure
\* switch controlled by `max_attempts/attempt_delay_ms`", neither of which
\* execHTTP looks at.  With the documented limit the property fails (FirstOnly).
FailsWhenAllFail == call.at = "all failed" => call.steady \subseteq call.failed

Alone(w) == \A v \in Worker : v = w \/ URL[v] = URL[w] => ~Running(v)

\* A worker that is gone, with nobody else at its URL, is marked offline.
GoneGoesOffline ==
  \A w \in Worker :
    Alone(w) /\ workers[w] # NoRow ~> workers[w].status = "offline" \/ ~Alone(w)
=============================================================================
