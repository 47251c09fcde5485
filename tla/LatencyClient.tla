--------------------------- MODULE LatencyClient ---------------------------
(***************************************************************************)
(* 08_MultiReactor/LatencyClient.cpp (07 has the same file, 05 one that    *)
(* differs in a line): a process of threads that each exchange PINGs with  *)
(* the echo server until the run time is over, and then merge what they    *)
(* measured under mtx.  A thread is named by its connection; a PING is one *)
(* unit.                                                                   *)
(***************************************************************************)
EXTENDS EchoClients

CONSTANTS
  Latencies,   \* what a round trip may take
  Rounds,      \* most round trips of a thread
  Nobody

ASSUME LatencyAssumption ==
  Latencies \subseteq Nat \ {0} /\ Rounds \in Nat \ {0} /\ Nobody \notin Conns

VARIABLES
  total_t, max_t, cnt,     \* of each thread
  g_tot_t, g_max_t, g_cnt, \* globals
  mtx,                     \* the thread that holds it, or Nobody
  seen_g,                  \* what the merging thread has read of them
  measured                 \* history: the latencies of each thread

lvars == <<total_t, max_t, cnt, g_tot_t, g_max_t, g_cnt, mtx, seen_g, measured>>

Totals == <<g_tot_t, g_max_t, g_cnt>>

LatencyTypeOK ==
  /\ \A c \in Conns : total_t[c] \in Nat /\ max_t[c] \in Nat /\ cnt[c] \in 0 .. Rounds
  /\ g_tot_t \in Nat /\ g_max_t \in Nat /\ g_cnt \in Nat
  /\ mtx \in Conns \cup {Nobody}
  /\ measured \in [Conns -> Seq(Latencies)]

Measuring == {"05_Latency", "08_MultiReactor"}

Measures(c, from) == Program(c, Measuring, from)

\* Connect; the thread returns when it fails.
StartClient(c) == Measures(c, "start") /\ Connect(c, "ping") /\ UNCHANGED <<typed, lvars>>

\* The process is killed, by SIGPIPE or by its user: its connections are closed.
ProcessKilled ==
  /\ cpc' = [c \in Conns |-> "killed"]
  /\ peer' = [c \in Conns |-> IF ~Arrived(c) \/ peer[c] # "open" THEN peer[c]
                              ELSE IF InTransit(c) > 0 THEN "reset" ELSE "closed"]
  /\ UNCHANGED <<process, backlog, accepted, sent, taken, echoed, got>>

\* Mutation: > runtime instead of >= runtime.
TimeLeftOffByOne(c) == cnt[c] <= Rounds

\* The run time may be over at any check; after Rounds round trips it is.
TimeLeft(c) == cnt[c] < Rounds

\* The run time is over, or Send, which fails when the server has gone.
Ping(c) ==
  /\ Measures(c, "ping")
  /\ \/ Proceed(c, "lock") /\ UNCHANGED kvars
     \/ TimeLeft(c) /\ ~ServerEnded(c) /\ ClientSends(c, 1) /\ Proceed(c, "pong")
     \/ TimeLeft(c) /\ ServerEnded(c) /\ Proceed(c, "pong") /\ UNCHANGED kvars
     \/ TimeLeft(c) /\ ServerEnded(c) /\ ProcessKilled
  /\ UNCHANGED <<typed, lvars>>

\* total_t += latency, but total_t = latency in stage 05.
Accumulated(t, l) == IF stage = "05_Latency" THEN l ELSE t + l

\* Recv, and the bookkeeping of the round trip.
Pong(c) ==
  /\ Measures(c, "pong")
  /\ \/ /\ \E n \in 1 .. TxMax : ClientReads(c, n)
        /\ \E latency \in Latencies :
             LET t == Accumulated(total_t[c], latency)
             IN  /\ total_t' = [total_t EXCEPT ![c] = t]
                 /\ max_t' = [max_t EXCEPT ![c] = IF @ < t THEN t ELSE @]
                 /\ cnt' = [cnt EXCEPT ![c] = @ + 1]
                 /\ measured' = [measured EXCEPT ![c] = Append(@, latency)]
        /\ Proceed(c, "ping")
     \/ /\ ServerEnded(c) /\ InTransit(c) = 0 /\ Proceed(c, "lock")
        /\ UNCHANGED <<kvars, total_t, max_t, cnt, measured>>
  /\ UNCHANGED <<typed, g_tot_t, g_max_t, g_cnt, mtx, seen_g>>

\* Mutation: without the lock.
NoLock(c) == UNCHANGED mtx

\* std::lock_guard<std::mutex> lock(mtx);
TakesLock(c) == mtx = Nobody /\ mtx' = c

\* The critical section reads the globals ...
Lock(c) ==
  /\ Measures(c, "lock")
  /\ TakesLock(c)
  /\ seen_g' = [seen_g EXCEPT ![c] = Totals]
  /\ Proceed(c, "merge")
  /\ UNCHANGED <<kvars, typed, total_t, max_t, cnt, g_tot_t, g_max_t, g_cnt, measured>>

\* ... and writes them; then the lock, and with the scope the socket, is gone.
Merge(c) ==
  /\ Measures(c, "merge")
  /\ g_tot_t' = seen_g[c][1] + total_t[c]
  /\ g_max_t' = IF max_t[c] > seen_g[c][2] THEN max_t[c] ELSE seen_g[c][2]
  /\ g_cnt' = seen_g[c][3] + cnt[c]
  /\ seen_g' = [seen_g EXCEPT ![c] = <<0, 0, 0>>]
  /\ mtx' = Nobody
  /\ Proceed(c, "done")
  /\ ClientCloses(c)
  /\ UNCHANGED <<typed, total_t, max_t, cnt, measured>>

RunClient(c) == StartClient(c) \/ Ping(c) \/ Pong(c) \/ Lock(c) \/ Merge(c)

LatencyInit ==
  /\ total_t = [c \in Conns |-> 0] /\ max_t = total_t /\ cnt = total_t
  /\ g_tot_t = 0 /\ g_max_t = 0 /\ g_cnt = 0
  /\ mtx = Nobody
  /\ seen_g = [c \in Conns |-> <<0, 0, 0>>]
  /\ measured = [c \in Conns |-> <<>>]
=============================================================================
