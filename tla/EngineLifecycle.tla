-------------------------- MODULE EngineLifecycle --------------------------
(***************************************************************************)
(* 09_MultiReactorEngine/MultiReactorServer.cpp (10_HTTP has the same): an *)
(* engine's life as its user sees it.  main constructs it, calls start,    *)
(* which returns when every worker has ended, and destroys it; stop may be *)
(* called by another thread, the controller, at any time.  What a worker   *)
(* does in between is in MultiReactorServer; here it sets up, serves, and  *)
(* leaves after the first test of running_ that fails.                     *)
(***************************************************************************)
EXTENDS Integers, Sequences

CONSTANTS
  Asked,         \* thread_count as the caller gives it, 0 by default
  Cores,         \* what hardware_concurrency returns, 0 when it does not know
  WorkerFaults   \* the workers that may fail to bind, listen or create epoll

ASSUME LifecycleAssumption == Asked \in Int /\ Cores \in Nat

\* thread_count_ after the constructor.
ThreadCount == IF Asked > 0 THEN Asked ELSE IF Cores = 0 THEN 1 ELSE Cores

Worker == 1 .. ThreadCount

VARIABLES
  running,     \* running_
  workers,     \* workers_, each thread named by its thread_id, here from 1
  wst,         \* "none", "setup", "serving" or "exited"
  joined,      \* the threads that are no longer joinable
  spc, sjoin,  \* where main is in start and in the destructor, and the threads
               \* that the loop it is in has still to look at
  tpc, tjoin,  \* the same of the controller in stop
  server       \* the process: "alive", "undefined", "aborted", "killed" or "ended"

lvars == <<running, workers, wst, joined, spc, sjoin, tpc, tjoin, server>>

LifecycleTypeOK ==
  /\ running \in BOOLEAN /\ workers \in Seq(Worker)
  /\ wst \in [Worker -> {"none", "setup", "serving", "exited"}] /\ joined \subseteq Worker
  /\ spc \in {"start", "create", "join", "stop", "end"} /\ sjoin \in Seq(Worker)
  /\ tpc \in {"idle", "join", "done"} /\ tjoin \in Seq(Worker)
  /\ server \in {"alive", "undefined", "aborted", "killed", "ended"}

Up == server \in {"alive", "undefined"}

\* running_.store(true)
Start ==
  /\ Up /\ spc = "start"
  /\ running' = TRUE /\ spc' = "create"
  /\ UNCHANGED <<workers, wst, joined, sjoin, tpc, tjoin, server>>

\* workers_.emplace_back, for one thread_id after the other; then the loop over
\* what workers_ now holds.
CreateWorker ==
  /\ Up /\ spc = "create"
  /\ \/ \E i \in Worker :
          /\ wst[i] = "none" /\ \A j \in 1 .. i - 1 : wst[j] # "none"
          /\ workers' = Append(workers, i) /\ wst' = [wst EXCEPT ![i] = "setup"]
          /\ UNCHANGED <<spc, sjoin>>
     \/ /\ \A i \in Worker : wst[i] # "none"
        /\ spc' = "join" /\ sjoin' = workers
        /\ UNCHANGED <<workers, wst>>
  /\ UNCHANGED <<running, joined, tpc, tjoin, server>>

\* if(t.joinable()) t.join(); of thread i, by one of two.  Two that are in the
\* join of one thread, or one that is while the vector changes, race: what
\* follows is undefined, and may end in std::system_error.
Joins(i) == i \in joined \/ wst[i] = "exited"

\* The loop of start, which then returns.
JoinInStart ==
  /\ Up /\ spc = "join"
  /\ \/ /\ sjoin # <<>> /\ Joins(Head(sjoin))
        /\ joined' = joined \cup {Head(sjoin)} /\ sjoin' = Tail(sjoin) /\ UNCHANGED spc
     \/ sjoin = <<>> /\ spc' = "stop" /\ UNCHANGED <<joined, sjoin>>
  /\ UNCHANGED <<running, workers, wst, tpc, tjoin, server>>

Racing == spc = "create" \/ (spc = "join" /\ sjoin # <<>>)

\* Mutation: running_.load() instead of running_.exchange(false).
Leaves == UNCHANGED running

\* running_.exchange(false)
Clears == running' = FALSE

\* stop, by the controller: the exchange, and the loop over what workers_ holds.
Stop ==
  /\ Up /\ tpc = "idle" /\ spc # "end"
  /\ Clears
  /\ IF running THEN tpc' = "join" /\ tjoin' = workers ELSE tpc' = "done" /\ UNCHANGED tjoin
  /\ server' = IF running /\ Racing THEN "undefined" ELSE server
  /\ UNCHANGED <<workers, wst, joined, spc, sjoin>>

AllJoined == \A k \in DOMAIN workers : workers[k] \in joined

\* Mutation: detach() instead of join(), so that stop does not wait.
DetachInStop ==
  /\ Up /\ tpc = "join"
  /\ \/ /\ tjoin # <<>>
        /\ joined' = joined \cup {Head(tjoin)} /\ tjoin' = Tail(tjoin)
        /\ UNCHANGED <<workers, tpc>>
     \/ /\ tjoin = <<>> /\ AllJoined
        /\ workers' = <<>> /\ tpc' = "done" /\ UNCHANGED <<joined, tjoin>>
  /\ UNCHANGED <<running, wst, spc, sjoin, server>>

\* Its loop, and workers_.clear().
JoinInStop ==
  /\ Up /\ tpc = "join"
  /\ \/ /\ tjoin # <<>> /\ Joins(Head(tjoin))
        /\ joined' = joined \cup {Head(tjoin)} /\ tjoin' = Tail(tjoin)
        /\ UNCHANGED <<workers, tpc>>
     \/ /\ tjoin = <<>> /\ AllJoined
        /\ workers' = <<>> /\ tpc' = "done" /\ UNCHANGED <<joined, tjoin>>
  /\ UNCHANGED <<running, wst, spc, sjoin, server>>

\* std::system_error, uncaught, or std::terminate.
Abort ==
  /\ server = "undefined" /\ server' = "aborted"
  /\ UNCHANGED <<running, workers, wst, joined, spc, sjoin, tpc, tjoin>>

\* workers_.clear() destroys a thread that start has created meanwhile and
\* nobody has joined: std::terminate.
Terminates == tpc = "join" /\ tjoin = <<>> /\ ~AllJoined /\ Abort

\* ~MultiReactorServer: stop, which finds nothing to join, and the end.
Destroy ==
  /\ Up /\ spc = "stop"
  /\ running' = FALSE /\ spc' = "end" /\ server' = "ended"
  /\ UNCHANGED <<workers, wst, joined, sjoin, tpc, tjoin>>

\* Worker i has its listening socket and its epoll instance, or returns.
SetsUp(i) ==
  /\ Up /\ wst[i] = "setup"
  /\ \/ wst' = [wst EXCEPT ![i] = "serving"]
     \/ i \in WorkerFaults /\ wst' = [wst EXCEPT ![i] = "exited"]
  /\ UNCHANGED <<running, workers, joined, spc, sjoin, tpc, tjoin, server>>

\* Worker i leaves workerLoop.
Exits(i) ==
  /\ Up /\ wst[i] = "serving" /\ ~running
  /\ wst' = [wst EXCEPT ![i] = "exited"]
  /\ UNCHANGED <<running, workers, joined, spc, sjoin, tpc, tjoin, server>>

LifecycleInit ==
  /\ running = FALSE /\ workers = <<>>
  /\ wst = [i \in Worker |-> "none"] /\ joined = {}
  /\ spc = "start" /\ sjoin = <<>>
  /\ tpc = "idle" /\ tjoin = <<>>
  /\ server = "alive"
=============================================================================
