---------------------------- MODULE ServerManager ----------------------------
(***************************************************************************)
(* The life of the process: main (serverexec/main.cpp) and ServerManager   *)
(* (server/server_manager.hpp).  main builds a manager, moves it into a    *)
(* global and waits.  The signal handler calls the destructor of the       *)
(* global on whichever thread took the signal; a failed join or a thread   *)
(* that is destroyed unjoined calls std::terminate, whose SIGABRT starts   *)
(* the handler once more on top.                                           *)
(*                                                                         *)
(* A server is its accept thread and one thread of its pool.               *)
(***************************************************************************)
EXTENDS Integers, Sequences, TLC

CONSTANTS
  Configs,     \* the types of the servers main asks for
  MaxSignals,  \* bound on the signals from outside
  MaxDepth     \* bound on handlers nested on one stack

ASSUME ManagerAssumption ==
  Configs \in Seq({"HTTP", "HTTPS"}) \ {<<>>} /\ MaxSignals \in Nat /\ MaxDepth \in Nat \ {0}

VARIABLES
  mpc,       \* where main is
  done,      \* how many servers the current loop of main has dealt with
  owner,     \* which manager has the servers: "none", "temporary" or "global"
  pool,      \* pool[i]: its threads: "none", "joinable" or "joined"
  thread,    \* thread[i]: the jthread of server i
  stop,      \* stop[i]: stop has been requested of it
  silent,    \* silent[i]: its accept loop is reading from a silent client
  installed, \* the signal handlers are installed
  stack,     \* stack[t]: the runs of ~ServerManager on thread t, innermost first
  stops,     \* stops[i]: how often Stop of server i has run
  signals,   \* signals received from outside
  process    \* "running", "dead" or "exited" by way of quick_exit or return

vars == <<mpc, done, owner, pool, thread, stop, silent, installed, stack, stops, signals, process>>

Servers == 1 .. Len(Configs)
Main == <<"main", 0>>
Accept(i) == <<"accept", i>>
Worker(i) == <<"worker", i>>
Threads == {Main} \cup {Accept(i) : i \in Servers} \cup {Worker(i) : i \in Servers}
Exists(t) == \/ t = Main
             \/ \E i \in Servers : t = Accept(i) /\ thread[i] = "running"
             \/ \E i \in Servers : t = Worker(i) /\ pool[i] = "joinable"

Init ==
  /\ mpc = "configure" /\ done = 0
  /\ owner = "none"
  /\ pool = [i \in Servers |-> "none"]
  /\ thread = [i \in Servers |-> "none"]
  /\ stop = [i \in Servers |-> FALSE]
  /\ silent = [i \in Servers |-> FALSE]
  /\ installed = FALSE
  /\ stack = [t \in Threads |-> <<>>]
  /\ stops = [i \in Servers |-> 0]
  /\ signals = 0
  /\ process = "running"

-----------------------------------------------------------------------------
(* main.  Each of the three loops of the constructor takes the servers in  *)
(* order: configure_server, Start (which may quick_exit), Open.            *)

Loop(here, next) ==
  /\ mpc = here
  /\ done' = IF done + 1 = Len(Configs) THEN 0 ELSE done + 1
  /\ mpc' = IF done' = 0 THEN next ELSE here

\* The constructor of a server starts the threads of its pool.
configure_server ==
  /\ Loop("configure", "start") /\ owner' = "temporary"
  /\ pool' = [pool EXCEPT ![done + 1] = "joinable"]
  /\ UNCHANGED <<thread, stop, silent, installed, stack, stops, signals, process>>

Start ==
  /\ mpc = "start"
  /\ \/ Loop("start", "open") /\ UNCHANGED process
     \/ process' = "exited" /\ UNCHANGED <<mpc, done>>
  /\ UNCHANGED <<owner, pool, thread, stop, silent, installed, stack, stops, signals>>

Open ==
  /\ Loop("open", "move")
  /\ thread' = [thread EXCEPT ![done + 1] = "running"]
  /\ UNCHANGED <<owner, pool, stop, silent, installed, stack, stops, signals, process>>

\* The vectors change hands with all they hold; the threads go on running.
Move ==
  /\ mpc = "move" /\ mpc' = "discard"
  /\ owner' = "global"
  /\ UNCHANGED <<done, pool, thread, stop, silent, installed, stack, stops, signals, process>>

\* ~ServerManager of the temporary, whose vectors are empty now.
Discard ==
  /\ mpc = "discard" /\ mpc' = "install"
  /\ stop' = [i \in Servers |-> stop[i] \/ owner = "temporary"]
  /\ UNCHANGED <<done, owner, pool, thread, silent, installed, stack, stops, signals, process>>

Install ==
  /\ mpc = "install" /\ mpc' = "wait"
  /\ installed' = TRUE
  /\ UNCHANGED <<done, owner, pool, thread, stop, silent, stack, stops, signals, process>>

Frame(phase, i) == [phase |-> phase, at |-> i]
Enter(t) == stack' = [stack EXCEPT ![t] = <<Frame("request", 0)>> \o @]

\* The wait has no condition: a spurious wakeup ends main and with it the global.
Wake ==
  /\ mpc = "wait" /\ stack[Main] = <<>>
  /\ mpc' = "return"
  /\ Enter(Main)
  /\ UNCHANGED <<done, owner, pool, thread, stop, silent, installed, stops, signals, process>>

MainStep == configure_server \/ Start \/ Open \/ Move \/ Discard \/ Install \/ Wake

-----------------------------------------------------------------------------
(* Signals.                                                                *)

\* A signal: its default action, or the handler on any thread.
Signal(t) ==
  /\ signals < MaxSignals /\ Exists(t)
  /\ signals' = signals + 1
  /\ IF installed
     THEN Len(stack[t]) < MaxDepth /\ Enter(t) /\ UNCHANGED process
     ELSE process' = "dead" /\ UNCHANGED stack
  /\ UNCHANGED <<mpc, done, owner, pool, thread, stop, silent, installed, stops>>

(***************************************************************************)
(* std::terminate and abort: SIGABRT runs the handler on this thread, on   *)
(* top of what it was doing; where it is not installed, or abort resets it *)
(* when nested, or the stack has no more room, the process dies.           *)
(***************************************************************************)
Terminate(t) ==
  \/ process' = "dead" /\ UNCHANGED stack
  \/ installed /\ Len(stack[t]) < MaxDepth /\ Enter(t) /\ UNCHANGED process

\* A worker's handler throws.
WorkerThrows(i) ==
  /\ Exists(Worker(i)) /\ stack[Worker(i)] = <<>> /\ thread[i] # "none"
  /\ Terminate(Worker(i))
  /\ UNCHANGED <<mpc, done, owner, pool, thread, stop, silent, installed, stops, signals>>

-----------------------------------------------------------------------------
(* ~ServerManager.                                                         *)

At(t, phase) == stack[t] # <<>> /\ Head(stack[t]).phase = phase
Server(t) == Head(stack[t]).at
Goto(t, phase, i) == stack' = [stack EXCEPT ![t] = <<Frame(phase, i)>> \o Tail(@)]
\* The next server of a loop of the destructor, or the first of the next loop.
Advance(t, here, next) ==
  IF Server(t) < Len(Configs) THEN Goto(t, here, Server(t) + 1) ELSE Goto(t, next, 1)

RequestStops(t) ==
  /\ At(t, "request")
  /\ stop' = [i \in Servers |-> TRUE]
  /\ Goto(t, "join", 1)
  /\ UNCHANGED <<mpc, done, owner, pool, thread, silent, installed, stops, signals, process>>

\* Somebody is in join for server i already: another thread, or this one below.
Joining(i) ==
  \E t \in Threads : \E k \in DOMAIN stack[t] : stack[t][k] = Frame("joining", i)

\* Faulty: a thread that is joined or being joined is passed over.
JoinBegin_Joinable(t) ==
  /\ At(t, "join")
  /\ IF thread[Server(t)] = "joined" \/ Joining(Server(t)) \/ Accept(Server(t)) = t
     THEN Advance(t, "join", "stop")
     ELSE Goto(t, "joining", Server(t))
  /\ UNCHANGED <<mpc, done, owner, pool, thread, stop, silent, installed, stops, signals, process>>

\* Faulty: a thread passes over itself instead of failing to join itself.
JoinBegin_SkipsSelf(t) ==
  /\ At(t, "join")
  /\ LET i == Server(t) IN
     CASE Accept(i) = t -> Advance(t, "join", "stop") /\ UNCHANGED process
       [] Accept(i) # t /\ (thread[i] = "joined" \/ Joining(i)) -> Terminate(t)
       [] OTHER -> Goto(t, "joining", i) /\ UNCHANGED process
  /\ UNCHANGED <<mpc, done, owner, pool, thread, stop, silent, installed, stops, signals>>

(***************************************************************************)
(* join throws when the thread is this one, joined or being joined; the    *)
(* destructor is noexcept.                                                 *)
(***************************************************************************)
JoinBegin(t) ==
  /\ At(t, "join")
  /\ LET i == Server(t) IN
     IF thread[i] = "joined" \/ Joining(i) \/ Accept(i) = t
     THEN Terminate(t)
     ELSE Goto(t, "joining", i) /\ UNCHANGED process
  /\ UNCHANGED <<mpc, done, owner, pool, thread, stop, silent, installed, stops, signals>>

JoinEnd(t) ==
  /\ At(t, "joining") /\ thread[Server(t)] = "exited"
  /\ thread' = [thread EXCEPT ![Server(t)] = "joined"]
  /\ Advance(t, "join", "stop")
  /\ UNCHANGED <<mpc, done, owner, pool, stop, silent, installed, stops, signals, process>>

Stop(t) ==
  /\ At(t, "stop")
  /\ stops' = [stops EXCEPT ![Server(t)] = @ + 1]
  /\ Advance(t, "stop", "members")
  /\ UNCHANGED <<mpc, done, owner, pool, thread, stop, silent, installed, signals, process>>

(***************************************************************************)
(* The vector of servers: each is stopped again and destroyed with its     *)
(* pool, whose threads must not be joinable any more.  After the last the  *)
(* handler gets to notify_one and quick_exit, or main returns.             *)
(***************************************************************************)
DestroyServers(t) ==
  /\ At(t, "members")
  /\ stops' = [stops EXCEPT ![Server(t)] = @ + 1]
  /\ IF pool[Server(t)] = "joinable" THEN Terminate(t)
     ELSE IF Server(t) < Len(Configs) THEN Goto(t, "members", Server(t) + 1) /\ UNCHANGED process
     ELSE process' = "exited" /\ UNCHANGED stack
  /\ UNCHANGED <<mpc, done, owner, pool, thread, stop, silent, installed, signals>>

Destructor(t) == RequestStops(t) \/ JoinBegin(t) \/ JoinEnd(t) \/ Stop(t) \/ DestroyServers(t)

-----------------------------------------------------------------------------
(* The accept loops, as far as the manager sees them.                      *)

\* The loop starts, or ends, to wait for one client's bytes.
Silence(i) ==
  /\ thread[i] = "running" /\ stack[Accept(i)] = <<>> /\ (silent[i] \/ ~stop[i])
  /\ silent' = [silent EXCEPT ![i] = ~@]
  /\ UNCHANGED <<mpc, done, owner, pool, thread, stop, installed, stack, stops, signals, process>>

\* Faulty: the loop returns only when it is told to while reading.
AcceptReturns_Reading(i) ==
  /\ thread[i] = "running" /\ stack[Accept(i)] = <<>> /\ silent[i]
  /\ thread' = [thread EXCEPT ![i] = "exited"]
  /\ UNCHANGED <<mpc, done, owner, pool, stop, silent, installed, stack, stops, signals, process>>

\* The loop sees the stop token; or it returned before, after an error.
AcceptReturns(i) ==
  /\ thread[i] = "running" /\ stack[Accept(i)] = <<>> /\ ~silent[i]
  /\ thread' = [thread EXCEPT ![i] = "exited"]
  /\ UNCHANGED <<mpc, done, owner, pool, stop, silent, installed, stack, stops, signals, process>>

Next ==
  /\ process = "running"
  /\ \/ stack[Main] = <<>> /\ MainStep
     \/ \E t \in Threads : Signal(t) \/ Destructor(t)
     \/ \E i \in Servers : WorkerThrows(i) \/ Silence(i) \/ AcceptReturns(i)

Spec == Init /\ [][Next]_vars

\* Threads are scheduled; signals, clients and spurious wakeups owe nothing.
Fairness ==
  /\ \A t \in Threads : WF_vars(process = "running" /\ Destructor(t))
  /\ \A i \in Servers : WF_vars(process = "running" /\ stop[i] /\ AcceptReturns(i))

FairSpec == Spec /\ Fairness

-----------------------------------------------------------------------------
(* Properties.                                                             *)

(***************************************************************************)
(* However many handlers run on however many threads, at most one gets     *)
(* past the joins, and only when every accept loop has returned: no server *)
(* is stopped under its accept loop, and none more than twice.             *)
(***************************************************************************)
OneStopper ==
  /\ \A t, u \in Threads : \A j \in DOMAIN stack[t], k \in DOMAIN stack[u] :
       /\ stack[t][j].phase \in {"stop", "members"} /\ stack[u][k].phase \in {"stop", "members"}
       => t = u /\ j = k
  /\ \A i \in Servers :
       /\ stops[i] > 0 => thread[i] = "joined"
       /\ stops[i] <= 2

(***************************************************************************)
(* The handler may run on several accept threads at once, each of which    *)
(* joins the others.  They never come to wait for each other in a circle,  *)
(* nor for themselves: there is no set of servers each of whose accept     *)
(* threads is in join for one of the set.                                  *)
(***************************************************************************)
Waits(i, j) == At(Accept(i), "joining") /\ Server(Accept(i)) = j
NoJoinCycle == \A S \in SUBSET Servers : S # {} => \E i \in S : \A j \in S : ~Waits(i, j)

(***************************************************************************)
(* A shutdown that has begun ends the process, also when the handler runs  *)
(* on a thread it has to join, unless an accept loop keeps waiting for a   *)
(* silent client.                                                          *)
(***************************************************************************)
ShutdownEnds ==
  (\E t \in Threads : stack[t] # <<>>) ~>
    (process # "running" \/ [](\E i \in Servers : thread[i] = "running" /\ silent[i]))
=============================================================================
