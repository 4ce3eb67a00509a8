------------------------------ MODULE TCPServer ------------------------------
(***************************************************************************)
(* One HTTP server of the process: the accept loop (server/tcp_server.hpp),*)
(* the thread pool it feeds and the workers' handling of a connection      *)
(* (request_processing/), on top of the descriptors, backlog and sockets   *)
(* of the kernel.  A client stands for one connection.  The shutdown is    *)
(* the part of ~ServerManager that concerns this server.                   *)
(*                                                                         *)
(* The queue is a FIFO of fewer connections than the ring has slots, which *)
(* LockFreeQueue implements: it laps nothing then (NoLapBelowCapacity) and *)
(* hands out in order (HandOff).                                           *)
(***************************************************************************)
EXTENDS Integers, Sequences, FiniteSets, SequencesExt, FiniteSetsExt

CONSTANTS
  Clients,   \* the connections clients make
  Workers,   \* the threads of the pool (num_threads = 4 in the code)
  NumFds,    \* the descriptors the process may have open, the listener's too
  Capacity,  \* slots of the queue (100 in the code)
  Free, Listener   \* what a descriptor refers to when it is no connection

ASSUME ServerAssumption ==
  /\ NumFds \in Nat \ {0} /\ Capacity \in Nat
  /\ IsFiniteSet(Clients) /\ Cardinality(Clients) < Capacity
  /\ Free \notin Clients /\ Listener \notin Clients /\ Free # Listener

VARIABLES
  table,      \* table[f]: what descriptor f refers to (kernel)
  backlog,    \* connections the kernel completed and nobody accepted yet
  client,     \* client[c]: "new", "connected", "closed" (FIN) or "reset" (RST)
  inbox,      \* inbox[c]: the bytes of c that wait in the kernel
  sockfd, client_fd,
  errno,      \* errno of the accept thread
  apc,        \* where the accept thread is
  queue,      \* the tasks in _queue, oldest first
  worker,     \* worker[w]: where worker w is and the task it took
  shutdown,   \* how far the shutdown of the process is
  answers,    \* history: answers[c]: whose responses went out to c
  abandoned   \* history: accepted connections that were given to no worker

kernel == <<backlog, client, inbox>>
loop == <<sockfd, client_fd, errno, apc>>
history == <<answers, abandoned>>
vars == <<table, kernel, loop, queue, worker, shutdown, history>>

Fds == 1 .. NumFds
NoFd == -1

(***************************************************************************)
(* What the bytes read by one recv amount to: a whole request, a whole     *)
(* message that is no request, the beginning of a request, or nothing.     *)
(***************************************************************************)
Messages == {"request", "malformed", "cut"}
Tasks == [fd : Fds, client : Clients, request : Messages \cup {"empty"}]

alive == shutdown # "dead"
Idle == [pc |-> "idle"]
Busy == {w \in Workers : worker[w] # Idle}
Connections == {c \in Clients : \E f \in Fds : table[f] = c}

\* Nothing has happened yet; the descriptors of the server are left open.
Fresh ==
  /\ table = [f \in Fds |-> Free]
  /\ backlog = <<>>
  /\ client = [c \in Clients |-> "new"]
  /\ inbox = [c \in Clients |-> "nothing"]
  /\ errno = "none"
  /\ apc = "off"
  /\ queue = <<>>
  /\ worker = [w \in Workers |-> Idle]
  /\ shutdown = "no"
  /\ answers = [c \in Clients |-> {}]
  /\ abandoned = {}

Init == Fresh /\ sockfd = NoFd /\ client_fd = NoFd

-----------------------------------------------------------------------------
(* The kernel.                                                             *)

FreeFds == {f \in Fds : table[f] = Free}
Close(t, f) == IF f \in Fds THEN [t EXCEPT ![f] = Free] ELSE t

Connect(c) ==
  /\ client[c] = "new" /\ sockfd \in Fds /\ table[sockfd] = Listener
  /\ client' = [client EXCEPT ![c] = "connected"]
  /\ backlog' = Append(backlog, c)
  /\ UNCHANGED <<table, inbox, loop, queue, worker, shutdown, history>>

\* The one recv of a connection is still to come; later bytes are never read.
Unread(c) == c \in Range(backlog) \/ (apc = "recv" /\ table[client_fd] = c)

\* The first bytes of a client arrive, or the rest of what was cut off.
Arrive(c, m) ==
  /\ client[c] = "connected" /\ Unread(c)
  /\ inbox[c] = "nothing" \/ (inbox[c] = "cut" /\ m # "cut")
  /\ inbox' = [inbox EXCEPT ![c] = m]
  /\ UNCHANGED <<table, backlog, client, loop, queue, worker, shutdown, history>>

Hangup(c) ==
  /\ client[c] = "connected" /\ Unread(c)
  /\ client' = [client EXCEPT ![c] = "closed"]
  /\ UNCHANGED <<table, backlog, inbox, loop, queue, worker, shutdown, history>>

Reset(c) ==
  /\ client[c] \in {"connected", "closed"} /\ (Unread(c) \/ c \in Connections \ abandoned)
  /\ client' = [client EXCEPT ![c] = "reset"]
  /\ UNCHANGED <<table, backlog, inbox, loop, queue, worker, shutdown, history>>

Environment ==
  \E c \in Clients :
    \/ Connect(c)
    \/ \E m \in Messages : Arrive(c, m)
    \/ Hangup(c) \/ Reset(c)

-----------------------------------------------------------------------------
(* Start: the listening socket; quick_exit when it cannot be had.          *)

Start ==
  /\ apc = "off"
  /\ sockfd' = Min(FreeFds)
  /\ table' = [table EXCEPT ![sockfd'] = Listener]
  /\ apc' = "accept"
  /\ UNCHANGED <<kernel, client_fd, errno, queue, worker, shutdown, history>>

StartFails ==
  /\ apc = "off"
  /\ shutdown' = "dead"
  /\ UNCHANGED <<table, kernel, loop, queue, worker, history>>

-----------------------------------------------------------------------------
(* AcceptIncoming.                                                         *)

\* Faulty: the stop token is never looked at.
AcceptStop_Ignored == FALSE /\ UNCHANGED vars

AcceptStop ==
  /\ apc = "accept" /\ shutdown = "stopping"
  /\ apc' = "exited"
  /\ UNCHANGED <<table, kernel, sockfd, client_fd, errno, queue, worker, shutdown, history>>

AcceptBegin == apc = "accept" /\ shutdown = "no"

\* accept4 has no connection to return.
AcceptEmpty ==
  /\ AcceptBegin /\ backlog = <<>>
  /\ client_fd' = NoFd /\ errno' = "EAGAIN"
  /\ UNCHANGED <<table, kernel, sockfd, apc, queue, worker, shutdown, history>>

\* accept4 has no descriptor for the connection, which stays in the backlog.
AcceptFull ==
  /\ AcceptBegin /\ backlog # <<>> /\ FreeFds = {}
  /\ client_fd' = NoFd /\ errno' = "EMFILE"
  /\ UNCHANGED <<table, kernel, sockfd, apc, queue, worker, shutdown, history>>

\* accept4 reports that the connection is gone (ECONNABORTED).
AcceptAborted ==
  /\ AcceptBegin /\ backlog # <<>> /\ FreeFds # {}
  /\ client[Head(backlog)] = "reset"
  /\ client_fd' = NoFd /\ errno' = "other"
  /\ backlog' = Tail(backlog)
  /\ UNCHANGED <<table, client, inbox, sockfd, apc, queue, worker, shutdown, history>>

(***************************************************************************)
(* accept4 succeeds and leaves errno as it was.  With EAGAIN in errno from *)
(* an earlier call the loop goes round again and forgets the descriptor.   *)
(***************************************************************************)
AcceptOk ==
  /\ AcceptBegin /\ backlog # <<>> /\ FreeFds # {}
  /\ client_fd' = Min(FreeFds)
  /\ table' = [table EXCEPT ![client_fd'] = Head(backlog)]
  /\ backlog' = Tail(backlog)
  /\ apc' = IF errno # "EAGAIN" THEN "recv" ELSE "accept"
  /\ abandoned' = abandoned \cup {c \in {Head(backlog)} : errno = "EAGAIN"}
  /\ UNCHANGED <<client, inbox, sockfd, errno, queue, worker, shutdown, answers>>

Peer == table[client_fd]
Silent == inbox[Peer] = "nothing"

\* recv has nothing to return; the inner loop calls it again.
RecvAgain ==
  /\ apc = "recv" /\ Silent /\ client[Peer] = "connected"
  /\ errno' = "EAGAIN"
  /\ UNCHANGED <<table, kernel, sockfd, client_fd, apc, queue, worker, shutdown, history>>

Received == IF Silent THEN "empty" ELSE inbox[Peer]

\* Faulty: client_fd is reset before the task is made.
RecvDone_Reset ==
  /\ apc = "recv" /\ (Silent => client[Peer] = "closed")
  /\ inbox' = [inbox EXCEPT ![Peer] = "nothing"]
  /\ queue' = Append(queue, [fd |-> NoFd, client |-> Peer, request |-> Received])
  /\ client_fd' = NoFd
  /\ apc' = "accept"
  /\ UNCHANGED <<table, backlog, client, sockfd, errno, worker, shutdown, history>>

\* Faulty: the accept loop closes the connection it has just handed over.
RecvDone_Closes ==
  /\ apc = "recv" /\ (Silent => client[Peer] = "closed")
  /\ inbox' = [inbox EXCEPT ![Peer] = "nothing"]
  /\ queue' = Append(queue, [fd |-> client_fd, client |-> Peer, request |-> Received])
  /\ table' = Close(table, client_fd)
  /\ apc' = "accept"
  /\ UNCHANGED <<backlog, client, sockfd, client_fd, errno, worker, shutdown, history>>

(***************************************************************************)
(* recv returns what has arrived, or 0 when the client closed without      *)
(* sending; in both cases the connection becomes a task.                   *)
(***************************************************************************)
RecvDone ==
  /\ apc = "recv" /\ (Silent => client[Peer] = "closed")
  /\ inbox' = [inbox EXCEPT ![Peer] = "nothing"]
  /\ queue' = Append(queue, [fd |-> client_fd, client |-> Peer, request |-> Received])
  /\ apc' = "accept"
  /\ UNCHANGED <<table, backlog, client, sockfd, client_fd, errno, worker, shutdown, history>>

\* recv fails: the accept loop returns and leaves the descriptor open.
RecvFails ==
  /\ apc = "recv" /\ Silent /\ client[Peer] = "reset"
  /\ errno' = "other"
  /\ apc' = "exited"
  /\ abandoned' = abandoned \cup {Peer}
  /\ UNCHANGED <<table, kernel, sockfd, client_fd, queue, worker, shutdown, answers>>

AcceptIncoming ==
  \/ AcceptStop \/ AcceptEmpty \/ AcceptFull \/ AcceptAborted \/ AcceptOk
  \/ RecvAgain \/ RecvDone \/ RecvFails

-----------------------------------------------------------------------------
(* The workers: pop a task, handle the request, send, close.               *)

At(w, pc) == worker[w].pc = pc
Goto(w, pc) == worker' = [worker EXCEPT ![w].pc = pc]

Take(w) ==
  /\ At(w, "idle") /\ queue # <<>>
  /\ worker' = [worker EXCEPT ![w] = [pc |-> "handling", task |-> Head(queue)]]
  /\ queue' = Tail(queue)
  /\ UNCHANGED <<table, kernel, loop, shutdown, history>>

\* What HTTPHandler::handle may do with a request, cut ones depending on where.
Outcomes(request) ==
  CASE request = "request"   -> {"response"}
    [] request = "malformed" -> {"nullopt"}
    [] request = "empty"     -> {"exception"}
    [] request = "cut"       -> {"response", "nullopt", "exception"}

\* Faulty: the connection is closed before the response is sent.
Respond_Late(w) ==
  /\ At(w, "handling") /\ "response" \in Outcomes(worker[w].task.request)
  /\ Goto(w, "sending")
  /\ table' = Close(table, worker[w].task.fd)
  /\ UNCHANGED <<kernel, loop, queue, shutdown, history>>

\* Faulty: the response is made and never sent.
Respond_Unsent(w) ==
  /\ At(w, "handling") /\ "response" \in Outcomes(worker[w].task.request)
  /\ Goto(w, "closing")
  /\ UNCHANGED <<table, kernel, loop, queue, shutdown, history>>

Respond(w) ==
  /\ At(w, "handling") /\ "response" \in Outcomes(worker[w].task.request)
  /\ Goto(w, "sending")
  /\ UNCHANGED <<table, kernel, loop, queue, shutdown, history>>

\* Faulty: without a response the worker returns early.
Refuse_Return(w) ==
  /\ At(w, "handling") /\ "nullopt" \in Outcomes(worker[w].task.request)
  /\ worker' = [worker EXCEPT ![w] = Idle]
  /\ UNCHANGED <<table, kernel, loop, queue, shutdown, history>>

\* The request did not parse: there is nothing to send.
Refuse(w) ==
  /\ At(w, "handling") /\ "nullopt" \in Outcomes(worker[w].task.request)
  /\ Goto(w, "closing")
  /\ UNCHANGED <<table, kernel, loop, queue, shutdown, history>>

(***************************************************************************)
(* Nobody catches the exception: std::terminate raises SIGABRT, for which  *)
(* main installed signal_handler, and this thread starts the shutdown.     *)
(* When one is under way already, ~ServerManager runs twice and the second *)
(* join may end the process.                                               *)
(***************************************************************************)
Crash(w) ==
  /\ At(w, "handling") /\ "exception" \in Outcomes(worker[w].task.request)
  /\ Goto(w, "crashed")
  /\ \/ shutdown' = IF shutdown = "no" THEN "stopping" ELSE shutdown
     \/ shutdown # "no" /\ shutdown' = "dead"
  /\ UNCHANGED <<table, kernel, loop, queue, history>>

\* send, its result ignored, goes to whatever the descriptor refers to now.
SendMsg(w) ==
  /\ At(w, "sending")
  /\ Goto(w, "closing")
  /\ LET task == worker[w].task
         target == table[task.fd]
     IN answers' = IF target \in Clients /\ client[target] # "reset"
                   THEN [answers EXCEPT ![target] = @ \cup {task.client}]
                   ELSE answers
  /\ UNCHANGED <<table, kernel, loop, queue, shutdown, abandoned>>

\* send without MSG_NOSIGNAL on a broken connection: SIGPIPE ends the process.
SendBroken(w) ==
  /\ At(w, "sending")
  /\ table[worker[w].task.fd] \in Clients /\ client[table[worker[w].task.fd]] = "reset"
  /\ shutdown' = "dead"
  /\ UNCHANGED <<table, kernel, loop, queue, worker, history>>

CloseConnection(w) ==
  /\ At(w, "closing")
  /\ table' = Close(table, worker[w].task.fd)
  /\ worker' = [worker EXCEPT ![w] = Idle]
  /\ UNCHANGED <<kernel, loop, queue, shutdown, history>>

Work(w) ==
  \/ Take(w) \/ Respond(w) \/ Refuse(w) \/ Crash(w)
  \/ SendMsg(w) \/ SendBroken(w) \/ CloseConnection(w)

-----------------------------------------------------------------------------
(* ~ServerManager: request_stop, join, Stop, then the server is destroyed. *)

RequestStop ==
  /\ shutdown = "no" /\ apc # "off"
  /\ shutdown' = "stopping"
  /\ UNCHANGED <<table, kernel, loop, queue, worker, history>>

\* Stop closes the last value of client_fd, whoever uses that descriptor now.
Stop ==
  /\ shutdown = "stopping" /\ apc = "exited"
  /\ table' = Close(Close(table, client_fd), sockfd)
  /\ shutdown' = "stopped"
  /\ UNCHANGED <<kernel, loop, queue, worker, history>>

\* ~TCPServer stops once more ...
Destroy ==
  /\ shutdown = "stopped"
  /\ table' = Close(Close(table, client_fd), sockfd)
  /\ shutdown' = "destroyed"
  /\ UNCHANGED <<kernel, loop, queue, worker, history>>

\* ... and then the pool's threads, never joined, make ~thread end the process.
Terminate ==
  /\ shutdown = "destroyed"
  /\ shutdown' = "dead"
  /\ UNCHANGED <<table, kernel, loop, queue, worker, history>>

Manage == RequestStop \/ Stop \/ Destroy \/ Terminate

Next ==
  /\ alive
  /\ \/ Environment
     \/ Start \/ StartFails
     \/ AcceptIncoming
     \/ \E w \in Workers : Work(w)
     \/ Manage

Spec == Init /\ [][Next]_vars

(***************************************************************************)
(* Every thread is scheduled again and again.  Clients and signals owe     *)
(* nothing.                                                                *)
(***************************************************************************)
Fairness ==
  /\ WF_vars(alive /\ AcceptIncoming)
  /\ \A w \in Workers : WF_vars(alive /\ Work(w))
  /\ WF_vars(alive /\ (Stop \/ Destroy \/ Terminate))

FairSpec == Spec /\ Fairness

-----------------------------------------------------------------------------
(* Properties.                                                             *)

\* What worker[w] may be when a worker goes through the given steps with a task.
WorkerStates(steps) == {Idle} \cup [pc : steps, task : Tasks]

\* Types of all but the workers, which have one step more in TLSServer.
ServerTypes ==
  /\ table \in [Fds -> Clients \cup {Free, Listener}]
  /\ backlog \in Seq(Clients)
  /\ client \in [Clients -> {"new", "connected", "closed", "reset"}]
  /\ inbox \in [Clients -> Messages \cup {"nothing"}]
  /\ sockfd \in Fds \cup {NoFd} /\ client_fd \in Fds \cup {NoFd}
  /\ errno \in {"none", "EAGAIN", "EMFILE", "other"}
  /\ apc \in {"off", "accept", "recv", "exited"}
  /\ queue \in Seq(Tasks)
  /\ shutdown \in {"no", "stopping", "stopped", "destroyed", "dead"}
  /\ answers \in [Clients -> SUBSET Clients]
  /\ abandoned \subseteq Clients

\* Kernel, accept loop, queue and workers keep their types.
TypeOK ==
  /\ ServerTypes
  /\ worker \in [Workers -> WorkerStates({"handling", "sending", "closing", "crashed"})]

(***************************************************************************)
(* A descriptor in a task belongs to that task: it refers to the task's    *)
(* connection until the worker closes it, no other task has it, and the    *)
(* accept loop is not reading from it.  The exception is Stop, which       *)
(* closes the descriptor accepted last although a worker may own it.       *)
(***************************************************************************)
Owns(t) == table[t.fd] = t.client \/ (shutdown \in {"stopped", "destroyed", "dead"} /\ t.fd = client_fd)
FdOwnership ==
  /\ \A i \in DOMAIN queue : Owns(queue[i])
  /\ \A w \in Busy : Owns(worker[w].task)
  /\ \A i, j \in DOMAIN queue : i # j => queue[i].fd # queue[j].fd
  /\ \A v, w \in Busy : v # w => worker[v].task.fd # worker[w].task.fd
  /\ \A i \in DOMAIN queue, w \in Busy : queue[i].fd # worker[w].task.fd
  /\ apc = "recv" =>
       /\ table[client_fd] \in Clients
       /\ \A i \in DOMAIN queue : queue[i].fd # client_fd
       /\ \A w \in Busy : worker[w].task.fd # client_fd

(***************************************************************************)
(* A client receives the response to its own request and no other, however *)
(* descriptors are reused.                                                 *)
(***************************************************************************)
RightRecipient == \A c \in Clients : answers[c] \subseteq {c}

(***************************************************************************)
(* A connection that is open without being read, queued or handled is one  *)
(* that AcceptIncoming gave up: after its errno test or after a failed     *)
(* recv.  Nothing else leaks a descriptor.                                 *)
(***************************************************************************)
InHands(c) ==
  \/ apc = "recv" /\ Peer = c
  \/ \E i \in DOMAIN queue : queue[i].client = c
  \/ \E w \in Busy : worker[w].task.client = c
LeaksKnown == \A c \in Connections : c \in abandoned \/ InHands(c)

\* A connection that reaches the queue is closed in the end, answered or not.
TaskFinished ==
  \A c \in Clients :
    (\E i \in DOMAIN queue : queue[i].client = c) ~> (c \notin Connections \/ shutdown # "no")

(***************************************************************************)
(* A whole request that reaches the queue is answered in the end, unless   *)
(* its client resets the connection, the server is stopped, or another     *)
(* client's reset ended the process: send raises SIGPIPE.                  *)
(***************************************************************************)
Ended == shutdown = "dead" /\ \E d \in Clients : client[d] = "reset" /\ d \in Connections
TaskAnswered ==
  \A c \in Clients :
    (shutdown = "no" /\ \E i \in DOMAIN queue : queue[i].client = c /\ queue[i].request = "request") ~>
      (c \in answers[c] \/ client[c] = "reset" \/ shutdown \in {"stopping", "stopped", "destroyed"} \/ Ended)

(***************************************************************************)
(* Once a stop is requested the process ends, unless the accept loop is    *)
(* for ever reading from a client that stays silent: the inner loop around *)
(* recv does not look at the stop token.                                   *)
(***************************************************************************)
ShutdownCompletes == (shutdown = "stopping") ~> (shutdown = "dead" \/ [](apc = "recv"))

(***************************************************************************)
(* README.md: "the server will fetch and serve files".  A client that is   *)
(* connected and whose request has arrived is answered in the end, unless  *)
(* it goes away or the server is stopped.                                  *)
(***************************************************************************)
RequestServed ==
  \A c \in Clients :
    (client[c] = "connected" /\ inbox[c] = "request") ~>
      (c \in answers[c] \/ client[c] # "connected" \/ shutdown # "no")
=============================================================================
