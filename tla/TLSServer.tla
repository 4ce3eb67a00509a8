------------------------------ MODULE TLSServer ------------------------------
(***************************************************************************)
(* The HTTPS server (server/tls_server.hpp) and its connections            *)
(* (request_processing/tls_connection.hpp).  Kernel, thread pool and       *)
(* handler are those of TCPServer: the code shares them as templates.      *)
(* What differs is modelled here: the wolfSSL context and objects, the     *)
(* handshake inside the accept loop, the retry of reads and writes, and    *)
(* the order of close, shutdown and free.                                  *)
(*                                                                         *)
(* A WOLFSSL object is named by the connection it was made for.            *)
(***************************************************************************)
EXTENDS TCPServer

VARIABLES
  handshake,  \* handshake[c]: "none", "done", or "bad" (c does not speak TLS)
  ret,        \* ret of AcceptIncoming: "none", "again" (<= 0) or "ok" (> 0)
  objects,    \* the WOLFSSL objects that are allocated
  ctx,        \* references to the WOLFSSL_CTX; an object holds one
  stalled,    \* connections whose send buffer is full
  strayed     \* history: <<c, d>>: the close notification of c went to d

tls == <<handshake, ret, objects, ctx, stalled, strayed>>
tlsVars == <<vars, tls>>

\* sockfd and client_fd have no initialiser: they are what the memory held.
TLSInit ==
  /\ Fresh
  /\ sockfd \in Fds \cup {NoFd} /\ client_fd \in Fds \cup {NoFd}
  /\ handshake = [c \in Clients |-> "none"]
  /\ ret = "none"
  /\ objects = {} /\ ctx = 0
  /\ stalled = {} /\ strayed = {}

-----------------------------------------------------------------------------
(* Clients.  The handshake needs the server's side of it: it ends while    *)
(* the accept loop has the connection.  Application data comes after it.   *)

Negotiate(c) ==
  /\ client[c] = "connected" /\ handshake[c] = "none"
  /\ apc = "recv" /\ Peer = c
  /\ \E outcome \in {"done", "bad"} : handshake' = [handshake EXCEPT ![c] = outcome]
  /\ UNCHANGED <<vars, ret, objects, ctx, stalled, strayed>>

\* The client stops reading what it is sent, or starts again.
Stall(c) ==
  /\ c \in Connections /\ client[c] # "reset"
  /\ \E w \in Busy : worker[w].task.client = c /\ At(w, "sending")
  /\ stalled' = IF c \in stalled THEN stalled \ {c} ELSE stalled \cup {c}
  /\ UNCHANGED <<vars, handshake, ret, objects, ctx, strayed>>

TLSEnvironment ==
  \/ \E c \in Clients :
       \/ Connect(c) \/ Hangup(c) \/ Reset(c)
       \/ handshake[c] = "done" /\ \E m \in Messages : Arrive(c, m)
     /\ UNCHANGED tls
  \/ \E c \in Clients : Negotiate(c) \/ Stall(c)

-----------------------------------------------------------------------------
(* Start also makes the context; without context, certificate or key it    *)
(* is quick_exit, as without a socket.                                     *)

TLSStart ==
  \/ Start /\ ctx' = 1 /\ UNCHANGED <<handshake, ret, objects, stalled, strayed>>
  \/ StartFails /\ UNCHANGED tls

(***************************************************************************)
(* AcceptIncoming up to the WOLFSSL object.  The errno test is the one of  *)
(* TCPServer, so a connection may be dropped before it has an object.      *)
(***************************************************************************)
TLSAccept ==
  \/ (AcceptStop \/ AcceptEmpty \/ AcceptFull \/ AcceptAborted) /\ UNCHANGED tls
  \/ /\ AcceptOk
     /\ IF apc' = "recv"
        THEN /\ ret' = "none"
             /\ objects' = objects \cup {Head(backlog)} /\ ctx' = ctx + 1
        ELSE UNCHANGED <<ret, objects, ctx>>
     /\ UNCHANGED <<handshake, stalled, strayed>>

\* The loop returns with the connection open and its object allocated.
GiveUp ==
  /\ apc = "recv"
  /\ apc' = "exited"
  /\ abandoned' = abandoned \cup {Peer}
  /\ UNCHANGED <<table, kernel, sockfd, client_fd, queue, worker, shutdown, answers>>

\* wolfSSL_new fails: every later call refuses the null object, read with < 0.
NewFails ==
  /\ GiveUp /\ ret = "none"
  /\ objects' = objects \ {Peer} /\ ctx' = ctx - 1
  /\ UNCHANGED <<errno, handshake, ret, stalled, strayed>>

(***************************************************************************)
(* wolfSSL_accept on the non-blocking descriptor: > 0 when the client has  *)
(* been fast enough, else it wants to read more or has failed.             *)
(***************************************************************************)
Handshake ==
  /\ apc = "recv" /\ ret = "none"
  /\ ret' = IF handshake[Peer] = "done" THEN "ok" ELSE "again"
  /\ errno' = IF ret' = "ok" THEN errno ELSE "EAGAIN"
  /\ UNCHANGED <<table, kernel, sockfd, client_fd, apc, queue, worker, shutdown, history>>
  /\ UNCHANGED <<handshake, objects, ctx, stalled, strayed>>

WantRead == apc = "recv" /\ handshake[Peer] # "bad" /\ Silent /\ client[Peer] = "connected"

(***************************************************************************)
(* wolfSSL_read, which also goes on with the handshake, has nothing yet.   *)
(* get_error is asked with the ret of wolfSSL_accept: after a successful   *)
(* accept it says "no error" and the loop ends although numbytes is -1.    *)
(***************************************************************************)
ReadAgain == ret = "again" /\ WantRead /\ RecvAgain /\ UNCHANGED tls

\* Data, or 0 bytes after a close: the connection becomes a task.
ReadDone == apc = "recv" /\ ret # "none" /\ handshake[Peer] = "done" /\ RecvDone /\ UNCHANGED tls

\* Faulty: every error of wolfSSL_read is retried.
ReadFails_Retried == FALSE /\ UNCHANGED tlsVars

\* numbytes is negative and the error, if one is seen, is not WANT_READ.
ReadFails ==
  /\ GiveUp /\ ret # "none"
  /\ \/ handshake[Peer] = "bad"
     \/ handshake[Peer] = "none" /\ client[Peer] # "connected"
     \/ Silent /\ client[Peer] = "reset"
     \/ ret = "ok" /\ WantRead
  /\ UNCHANGED <<errno, tls>>

TLSAcceptIncoming == TLSAccept \/ NewFails \/ Handshake \/ ReadAgain \/ ReadDone \/ ReadFails

-----------------------------------------------------------------------------
(* The workers with TLSSender and TLSCloser.                               *)

WantWrite(c) == c \in stalled /\ client[c] # "reset"

\* Faulty: the retry does not look at the error of the last write.
TLSSendMsg_Forever(w) == FALSE /\ UNCHANGED tlsVars

\* Faulty: what does not fit into the send buffer is not written again.
TLSSendMsg_Once(w) ==
  /\ At(w, "sending")
  /\ IF WantWrite(worker[w].task.client)
     THEN Goto(w, "closing") /\ UNCHANGED <<table, kernel, loop, queue, shutdown, history>>
     ELSE SendMsg(w) \/ SendBroken(w)
  /\ UNCHANGED tls

\* wolfSSL_write is repeated while the send buffer is full.
TLSSendMsg(w) ==
  /\ At(w, "sending") /\ ~WantWrite(worker[w].task.client)
  /\ SendMsg(w) \/ SendBroken(w)
  /\ UNCHANGED tls

\* Faulty: the object is freed together with the descriptor.
CloseFd_Frees(w) ==
  /\ At(w, "closing")
  /\ table' = Close(table, worker[w].task.fd)
  /\ objects' = objects \ {worker[w].task.client} /\ ctx' = ctx - 1
  /\ Goto(w, "notifying")
  /\ UNCHANGED <<kernel, loop, queue, shutdown, history, handshake, ret, stalled, strayed>>

\* CloseConnection: close(client_fd) ...
CloseFd(w) ==
  /\ At(w, "closing")
  /\ table' = Close(table, worker[w].task.fd)
  /\ Goto(w, "notifying")
  /\ UNCHANGED <<kernel, loop, queue, shutdown, history, tls>>

\* Faulty: the descriptor is closed once more, now that the notification is out.
ShutdownAndFree_Closes(w) ==
  /\ At(w, "notifying")
  /\ table' = Close(table, worker[w].task.fd)
  /\ objects' = objects \ {worker[w].task.client} /\ ctx' = ctx - 1
  /\ worker' = [worker EXCEPT ![w] = Idle]
  /\ UNCHANGED <<kernel, loop, queue, shutdown, history, handshake, ret, stalled, strayed>>

(***************************************************************************)
(* ... then wolfSSL_shutdown writes the close notification to that number, *)
(* whatever it refers to by now, and the object is freed.                  *)
(***************************************************************************)
ShutdownAndFree(w) ==
  /\ At(w, "notifying")
  /\ LET task == worker[w].task
         target == table[task.fd]
     IN /\ strayed' = strayed \cup {<<task.client, d>> : d \in {target} \cap Clients}
        /\ objects' = objects \ {task.client} /\ ctx' = ctx - 1
        /\ \/ UNCHANGED shutdown
           \/ target \in Clients /\ client[target] = "reset" /\ shutdown' = "dead"   \* SIGPIPE
  /\ worker' = [worker EXCEPT ![w] = Idle]
  /\ UNCHANGED <<table, kernel, loop, queue, history, handshake, ret, stalled>>

TLSWork(w) ==
  \/ (Take(w) \/ Respond(w) \/ Refuse(w) \/ Crash(w)) /\ UNCHANGED tls
  \/ TLSSendMsg(w) \/ CloseFd(w) \/ ShutdownAndFree(w)

-----------------------------------------------------------------------------
(* Stop frees the context, once from ~ServerManager, once from ~TLSServer. *)

\* Faulty: the manager does not join the accept loop before it stops it.
TLSStop_Unjoined ==
  \/ RequestStop /\ UNCHANGED tls
  \/ /\ shutdown = "stopping"
     /\ table' = Close(Close(table, client_fd), sockfd)
     /\ shutdown' = "stopped"
     /\ ctx' = ctx - 1
     /\ UNCHANGED <<kernel, loop, queue, worker, history, handshake, ret, objects, stalled, strayed>>

TLSStop ==
  \/ RequestStop /\ UNCHANGED tls
  \/ /\ Stop \/ Destroy
     /\ ctx' = ctx - 1
     /\ UNCHANGED <<handshake, ret, objects, stalled, strayed>>
  \/ Terminate /\ UNCHANGED tls

TLSNext ==
  /\ alive
  /\ \/ TLSEnvironment
     \/ TLSStart
     \/ TLSAcceptIncoming
     \/ \E w \in Workers : TLSWork(w)
     \/ TLSStop

TLSSpec == TLSInit /\ [][TLSNext]_tlsVars

\* Every thread is scheduled again and again; clients and signals owe nothing.
TLSFairness ==
  /\ WF_tlsVars(alive /\ TLSAcceptIncoming)
  /\ \A w \in Workers : WF_tlsVars(alive /\ TLSWork(w))
TLSFairSpec == TLSSpec /\ TLSFairness

-----------------------------------------------------------------------------
(* Properties.                                                             *)

\* Types of what TLSServer adds, and the extra step of a worker.
TLSTypeOK ==
  /\ handshake \in [Clients -> {"none", "done", "bad"}]
  /\ ret \in {"none", "again", "ok"}
  /\ objects \subseteq Clients /\ ctx \in Int
  /\ stalled \subseteq Clients
  /\ strayed \subseteq Clients \X Clients
  /\ ServerTypes
  /\ worker \in [Workers -> WorkerStates({"handling", "sending", "closing", "notifying", "crashed"})]

(***************************************************************************)
(* A WOLFSSL object is freed once, by the worker that has it, after its    *)
(* last use: whatever is queued or handled has its object, and an object   *)
(* that nobody has is one whose connection AcceptIncoming gave up.         *)
(***************************************************************************)
ObjectsOwned ==
  /\ \A i \in DOMAIN queue : queue[i].client \in objects
  /\ \A w \in Busy : worker[w].task.client \in objects
  /\ \A c \in objects : c \in abandoned \/ InHands(c)

(***************************************************************************)
(* The context is there for wolfSSL_new as long as the accept loop runs,   *)
(* and for the objects until ~TLSServer: Stop comes after the join and     *)
(* drops the reference that Start made.  The Stop inside ~TLSServer drops  *)
(* one more, which is an object's or nobody's; nothing is said after it.   *)
(***************************************************************************)
CtxHeld ==
  /\ apc \in {"accept", "recv"} => ctx > Cardinality(objects)
  /\ shutdown \in {"no", "stopping", "stopped"} => ctx >= Cardinality(objects)

(***************************************************************************)
(* TLSCloser uses a descriptor number after close, so a worker that is     *)
(* about to notify has none of its own.  Everybody else has: a queued task *)
(* or a worker that has not closed yet owns its descriptor (FdOwnership    *)
(* says how far) and shares it neither with another one nor with the       *)
(* connection the accept loop is reading.                                  *)
(***************************************************************************)
Holding == {w \in Busy : ~At(w, "notifying")}
TLSFdOwnership ==
  /\ \A i \in DOMAIN queue : Owns(queue[i])
  /\ \A w \in Holding : Owns(worker[w].task)
  /\ \A i, j \in DOMAIN queue : i # j => queue[i].fd # queue[j].fd
  /\ \A v, w \in Holding : v # w => worker[v].task.fd # worker[w].task.fd
  /\ \A i \in DOMAIN queue, w \in Holding : queue[i].fd # worker[w].task.fd
  /\ apc = "recv" =>
       /\ Peer \in Clients
       /\ \A i \in DOMAIN queue : queue[i].fd # client_fd
       /\ \A w \in Holding : worker[w].task.fd # client_fd

(***************************************************************************)
(* AcceptIncoming leaves its read loop, with a task or for good, unless    *)
(* the client stays connected and silent for ever.                         *)
(***************************************************************************)
ReadEnds == (apc = "recv") ~> (apc # "recv" \/ ~alive \/ []WantRead)

(***************************************************************************)
(* A worker leaves the write loop of TLSSender unless its client keeps     *)
(* from reading: one such client takes a worker away.                      *)
(***************************************************************************)
Stuck(w) == At(w, "sending") /\ WantWrite(worker[w].task.client)
WriteEnds ==
  \A w \in Workers : At(w, "sending") ~> (~At(w, "sending") \/ ~alive \/ []<>Stuck(w))

(***************************************************************************)
(* A whole request that reaches the queue is answered in the end, unless   *)
(* its client resets the connection or keeps from reading, such clients    *)
(* have taken all workers away, the server is stopped, or a write to a     *)
(* connection that was reset ended the process by SIGPIPE: a response, or  *)
(* a close notification that went to a number in use again.                *)
(***************************************************************************)
TLSTaskAnswered ==
  \A c \in Clients :
    (shutdown = "no" /\ \E i \in DOMAIN queue : queue[i].client = c /\ queue[i].request = "request") ~>
      \/ c \in answers[c] \/ client[c] = "reset"
      \/ []<>\E w \in Workers : Stuck(w) /\ worker[w].task.client = c
      \/ \A w \in Workers : []<>Stuck(w)
      \/ shutdown \in {"stopping", "stopped", "destroyed"} \/ Ended
=============================================================================
