--------------------------- MODULE TLSServerProofs ---------------------------
(***************************************************************************)
(* Proofs about TLSServer for any number of clients, workers and           *)
(* descriptors, on top of the ownership of descriptors that                *)
(* TCPServerProofs establishes for the actions the two servers share.      *)
(***************************************************************************)
EXTENDS TLSServer, TCPServerProofs, FiniteSetTheorems

(***************************************************************************)
(* The invariant.  A WOLFSSL object is there exactly for the connections   *)
(* in somebody's hands, and for some that were given up; none of them can  *)
(* come out of the backlog again, so no object is made twice.              *)
(***************************************************************************)
Held ==
  /\ \A c \in Clients : InHands(c) => c \in objects
  /\ \A c \in objects : c \in abandoned \/ InHands(c)
  /\ \A c \in objects \cup abandoned : Settled(c)

\* One reference for each object and one for the server, until Stop drops it.
Refs ==
  /\ apc = "off" => objects = {} /\ ctx = 0
  /\ apc \in {"accept", "recv"} => ctx = Cardinality(objects) + 1
  /\ apc = "exited" /\ shutdown \in {"no", "stopping"} => ctx = Cardinality(objects) + 1
  /\ apc = "exited" /\ shutdown = "stopped" => ctx = Cardinality(objects)

TLSInvariant == TLSTypeOK /\ Ownership /\ RightRecipient /\ Held /\ Refs


-----------------------------------------------------------------------------
(* Types, ownership of descriptors and recipients.                         *)

\* The types of TCPServer, with the step its workers have more.
LEMMA TLSTyped ==
  ASSUME TLSTypeOK
  PROVE  Typed
BY DEF TLSTypeOK, Typed, Steps

\* A worker that has closed its descriptor drops its task.
LEMMA OwnedDrop ==
  ASSUME Typed, Ownership, NEW w \in Workers, At(w, "notifying"),
         UNCHANGED <<table, backlog, client, sockfd, client_fd, apc, queue>>,
         worker' = [worker EXCEPT ![w] = Idle],
         shutdown' \in {shutdown, "dead"}
  PROVE  Ownership'
<1>1. Has(w)
  BY DEF Has, At, Idle
<1>2. /\ ~Has(w)'
      /\ \A v \in Workers \ {w} : worker'[v] = worker[v] /\ (Has(v)' <=> Has(v)) /\ (Closed(v)' <=> Closed(v))
  BY DEF Has, Closed, Typed
<1>3. Quiet' /\ Listening' /\ Backlogged' /\ Opened' /\ Reading'
  BY <1>1 DEF Ownership, Quiet, Listening, Backlogged, Opened, Reading, Has
<1>4. \A t \in Tasks : (TaskOpen(t) => TaskOpen(t)') /\ (Settled(t.client) => Settled(t.client)')
  BY DEF TaskOpen, Owns, Settled
<1>5. Queued'
  BY <1>4, Elements DEF Ownership, Queued
<1>6. ASSUME NEW v \in Workers, Has(v)', NEW t, t = worker'[v].task
      PROVE  /\ Settled(t.client)'
             /\ ~Closed(v)' => TaskOpen(t)'
             /\ Closed(v)' => \A f \in Fds : table'[f] # t.client
  <2>1. v # w /\ Has(v) /\ (Closed(v)' <=> Closed(v)) /\ t = worker[v].task
    BY <1>2, <1>6
  <2>2. t \in Tasks
    BY <2>1, Elements
  <2>3. QED
    BY <1>4, <2>1, <2>2 DEF Ownership, Working
<1>7. Working'
  BY <1>2, <1>6 DEF Ownership, Working
<1>8. QED
  BY <1>3, <1>5, <1>7 DEF Ownership

\* The actions that TLSServer shares with TCPServer, and the ones of its own.
LEMMA TLSActions ==
  ASSUME [TLSNext]_tlsVars
  PROVE  \/ (Environment \/ (alive /\ StartFails) \/ RequestStop \/ Terminate \/ UNCHANGED vars)
            /\ UNCHANGED <<objects, ctx, ret>>
         \/ alive /\ Start /\ ctx' = 1 /\ UNCHANGED <<objects, ret>>
         \/ (AcceptStop \/ AcceptEmpty \/ AcceptFull \/ AcceptAborted) /\ UNCHANGED <<objects, ctx, ret>>
         \/ AcceptOk /\ IF apc' = "recv"
                        THEN /\ ret' = "none"
                             /\ objects' = objects \cup {Head(backlog)} /\ ctx' = ctx + 1
                        ELSE UNCHANGED <<ret, objects, ctx>>
         \/ alive /\ NewFails
         \/ alive /\ Handshake
         \/ alive /\ (ReadAgain \/ ReadDone)
         \/ alive /\ ReadFails
         \/ \E w \in Workers : /\ Take(w) \/ Respond(w) \/ Refuse(w) \/ Crash(w)
                               /\ UNCHANGED <<objects, ctx, ret>>
         \/ \E w \in Workers : alive /\ (SendMsg(w) \/ SendBroken(w)) /\ UNCHANGED <<objects, ctx, ret>>
         \/ \E w \in Workers : CloseFd(w)
         \/ \E w \in Workers : ShutdownAndFree(w)
         \/ (Stop \/ Destroy) /\ ctx' = ctx - 1 /\ UNCHANGED <<objects, ret>>
<1>1. CASE UNCHANGED tlsVars
  BY <1>1 DEF tlsVars, tls
<1>2. CASE TLSNext
  <2>1. CASE TLSEnvironment
    BY <2>1 DEF TLSEnvironment, Environment, Negotiate, Stall, tls
  <2>2. CASE TLSStart /\ alive
    BY <2>2 DEF TLSStart, tls
  <2>3. CASE TLSAcceptIncoming /\ alive
    BY <2>3 DEF TLSAcceptIncoming, TLSAccept, tls
  <2>4. CASE \E w \in Workers : TLSWork(w) /\ alive
    BY <2>4 DEF TLSWork, TLSSendMsg, tls
  <2>5. CASE TLSStop
    BY <2>5 DEF TLSStop, tls
  <2>6. QED
    BY <1>2, <2>1, <2>2, <2>3, <2>4, <2>5 DEF TLSNext
<1>3. QED
  BY <1>1, <1>2


\* The state that TLSServer adds keeps its types.
LEMMA TLSOnlyTypes ==
  ASSUME TLSTypeOK, Ownership, TLSNext
  PROVE  /\ handshake' \in [Clients -> {"none", "done", "bad"}]
         /\ ret' \in {"none", "again", "ok"}
         /\ objects' \subseteq Clients /\ ctx' \in Int
         /\ stalled' \subseteq Clients
         /\ strayed' \subseteq Clients \X Clients
<1> DEFINE P == /\ handshake' \in [Clients -> {"none", "done", "bad"}]
                /\ ret' \in {"none", "again", "ok"}
                /\ objects' \subseteq Clients /\ ctx' \in Int
                /\ stalled' \subseteq Clients
                /\ strayed' \subseteq Clients \X Clients
<1>1. CASE UNCHANGED tls
  BY <1>1 DEF tls, TLSTypeOK
<1>2. ASSUME NEW c \in Clients, Negotiate(c) \/ Stall(c)
      PROVE  P
  BY <1>2 DEF Negotiate, Stall, TLSTypeOK
<1>3. CASE TLSStart
  BY <1>1, <1>3 DEF TLSStart, TLSTypeOK
<1>4. CASE AcceptOk /\ TLSAccept
  <2>1. Head(backlog) \in Clients
    BY <1>4, Shifted DEF AcceptOk, TLSTypeOK, ServerTypes
  <2>2. QED
    BY <1>1, <1>4, <2>1 DEF TLSAccept, TLSTypeOK
<1>5. CASE TLSAccept /\ ~AcceptOk
  BY <1>1, <1>5 DEF TLSAccept
<1>6. CASE NewFails \/ Handshake \/ ReadAgain \/ ReadDone \/ ReadFails
  BY <1>1, <1>6 DEF NewFails, Handshake, ReadAgain, ReadDone, ReadFails, tls, TLSTypeOK
<1>7. ASSUME NEW w \in Workers, TLSWork(w)
      PROVE  P
  <2>1. CASE ShutdownAndFree(w)
    <3>1. Has(w)
      BY <2>1 DEF ShutdownAndFree, At, Has, Idle
    <3>2. worker[w].task.client \in Clients
      BY <3>1, TLSTyped, Elements
    <3>3. QED
      BY <2>1, <3>2 DEF ShutdownAndFree, TLSTypeOK
  <2>2. CASE ~ShutdownAndFree(w)
    BY <1>1, <1>7, <2>2 DEF TLSWork, TLSSendMsg, CloseFd
  <2>3. QED
    BY <2>1, <2>2
<1>8. CASE TLSStop
  BY <1>1, <1>8 DEF TLSStop, TLSTypeOK
<1>9. QED
  BY <1>1, <1>2, <1>3, <1>4, <1>5, <1>6, <1>7, <1>8 DEF TLSNext, TLSEnvironment, TLSAcceptIncoming

\* The worker closes the descriptor of its task and keeps the task.
LEMMA CloseFdStep ==
  ASSUME Typed, Ownership, NEW w \in Workers, CloseFd(w)
  PROVE  /\ ServerTypes' /\ Ownership' /\ worker' \in [Workers -> WorkerStates(Steps)]
         /\ UNCHANGED <<answers, abandoned, queue, apc, client_fd, client, backlog, shutdown, objects, ctx, ret>>
         /\ \A v \in Workers : (Has(v)' <=> Has(v)) /\ worker'[v].task = worker[v].task
         /\ \A f \in Fds : table'[f] \in {table[f], Free}
<1>1. /\ worker[w].pc = "closing" /\ worker' = [worker EXCEPT ![w].pc = "notifying"]
      /\ table' = Close(table, worker[w].task.fd)
      /\ UNCHANGED <<kernel, loop, queue, shutdown, history, tls>>
  BY DEF CloseFd, At, Goto
<1>2. /\ table' \in [Fds -> Clients \cup {Free, Listener}]
      /\ \A f \in Fds : table'[f] \in {table[f], Free}
  BY <1>1 DEF Close, Typed, ServerTypes
<1>3. ServerTypes'
  BY <1>1, <1>2 DEF kernel, loop, history, Typed, ServerTypes
<1>4. worker[w] \in [pc : Steps, task : Tasks]
  BY <1>1 DEF Typed, WorkerStates, Idle
<1>5. /\ worker' \in [Workers -> WorkerStates(Steps)]
      /\ worker'[w].pc = "notifying" /\ worker'[w].task = worker[w].task
      /\ \A v \in Workers \ {w} : worker'[v] = worker[v]
  BY <1>1, <1>4 DEF Typed, WorkerStates, Steps
<1>6. Ownership'
  BY <1>1, <1>5, OwnedClose DEF kernel, loop, At
<1>7. \A v \in Workers : (Has(v)' <=> Has(v)) /\ worker'[v].task = worker[v].task
  BY <1>1, <1>5 DEF Has, Idle
<1>8. QED
  BY <1>1, <1>2, <1>3, <1>5, <1>6, <1>7 DEF kernel, loop, history, tls

\* Every step of the server keeps types, ownership and answers in order.
LEMMA TLSServerStep ==
  ASSUME TLSTypeOK, Ownership, RightRecipient, [TLSNext]_tlsVars
  PROVE  TLSTypeOK' /\ Ownership' /\ RightRecipient'
<1>1. Typed /\ worker \in [Workers -> WorkerStates(Steps)] /\ queue \in Seq(Tasks)
  BY TLSTyped DEF Typed, ServerTypes
<1>2. CASE UNCHANGED tlsVars
  <2>1. UNCHANGED <<table, backlog, client, inbox, sockfd, client_fd, errno, apc,
                    queue, worker, shutdown, answers, abandoned, tls>>
    BY <1>2 DEF tlsVars, vars, kernel, loop, history
  <2>2. TLSTypeOK' /\ RightRecipient'
    BY <2>1 DEF tls, TLSTypeOK, ServerTypes, RightRecipient
  <2>3. Ownership'
    BY <1>1, <2>1, OwnedFrame DEF Has, Closed
  <2>4. QED
    BY <2>2, <2>3
<1>3. CASE TLSNext
  <2>1. SUFFICES /\ ServerTypes' /\ Ownership' /\ RightRecipient'
                 /\ worker' \in [Workers -> WorkerStates(Steps)]
    BY <1>3, TLSOnlyTypes DEF TLSTypeOK, Steps
  <2>2. CASE UNCHANGED vars
    BY <1>1, <2>2, OwnedFrame
       DEF vars, kernel, loop, history, Has, Closed, RightRecipient, Typed, ServerTypes
  <2>3. CASE Environment
    BY <1>1, <2>3, EnvironmentStep DEF RightRecipient
  <2>4. CASE (Start \/ StartFails) /\ alive
    BY <1>1, <2>4, StartStep DEF RightRecipient
  <2>5. CASE AcceptStop \/ AcceptEmpty \/ AcceptFull \/ AcceptAborted \/ AcceptOk
    BY <1>1, <2>5, AcceptStep DEF RightRecipient
  <2>6. CASE alive /\ (NewFails \/ ReadFails)
    <3>1. /\ UNCHANGED <<table, kernel, sockfd, client_fd, errno, queue, worker, shutdown, answers>>
          /\ apc = "recv" /\ apc' = "exited" /\ abandoned' = abandoned \cup {Peer}
      BY <2>6 DEF NewFails, ReadFails, GiveUp
    <3>2. Peer \in Clients /\ shutdown \in {"no", "stopping"}
      BY <1>1, <2>6, <3>1 DEF Ownership, Reading, Listening, Peer, alive, Typed, ServerTypes
    <3>3. ServerTypes' /\ RightRecipient'
      BY <1>1, <3>1, <3>2 DEF kernel, Typed, ServerTypes, RightRecipient
    <3>4. Ownership'
      BY <1>1, <3>1, <3>2, OwnedLoop DEF kernel
    <3>5. QED
      BY <1>1, <3>1, <3>3, <3>4
  <2>7. CASE Handshake
    <3>1. /\ UNCHANGED <<table, kernel, sockfd, client_fd, apc, queue, worker, shutdown, history>>
          /\ errno' \in {errno, "EAGAIN"}
      BY <2>7 DEF Handshake
    <3>2. ServerTypes' /\ RightRecipient'
      BY <1>1, <3>1 DEF kernel, history, Typed, ServerTypes, RightRecipient
    <3>3. Ownership'
      BY <1>1, <3>1, OwnedFrame DEF kernel, Has, Closed
    <3>4. QED
      BY <1>1, <3>1, <3>2, <3>3
  <2>8. CASE alive /\ (ReadAgain \/ ReadDone)
    BY <1>1, <2>8, RecvStep DEF ReadAgain, ReadDone, RightRecipient
  <2>9. ASSUME NEW w \in Workers, Take(w) \/ Respond(w) \/ Refuse(w) \/ Crash(w)
        PROVE  ServerTypes' /\ Ownership' /\ RightRecipient' /\ worker' \in [Workers -> WorkerStates(Steps)]
    <3>1. worker' \in [Workers -> WorkerStates(Steps)]
      BY <1>1, <2>9, WorkerTypes DEF Steps, Work
    <3>2. QED
      BY <1>1, <2>9, <3>1, HandleStep DEF RightRecipient
  <2>10. ASSUME NEW w \in Workers, alive, SendMsg(w) \/ SendBroken(w)
         PROVE  ServerTypes' /\ Ownership' /\ RightRecipient' /\ worker' \in [Workers -> WorkerStates(Steps)]
    <3>1. worker' \in [Workers -> WorkerStates(Steps)]
      BY <1>1, <2>10, WorkerTypes DEF Steps, Work
    <3>2. QED
      BY <1>1, <2>10, <3>1, SendStep
  <2>11. ASSUME NEW w \in Workers, CloseFd(w)
         PROVE  ServerTypes' /\ Ownership' /\ RightRecipient' /\ worker' \in [Workers -> WorkerStates(Steps)]
    BY <1>1, <2>11, CloseFdStep DEF RightRecipient
  <2>12. ASSUME NEW w \in Workers, ShutdownAndFree(w)
         PROVE  ServerTypes' /\ Ownership' /\ RightRecipient' /\ worker' \in [Workers -> WorkerStates(Steps)]
    <3>1. /\ At(w, "notifying") /\ worker' = [worker EXCEPT ![w] = Idle]
          /\ UNCHANGED <<table, kernel, loop, queue, history>> /\ shutdown' \in {shutdown, "dead"}
      BY <2>12 DEF ShutdownAndFree
    <3>2. ServerTypes' /\ RightRecipient' /\ worker' \in [Workers -> WorkerStates(Steps)]
      BY <1>1, <3>1 DEF kernel, loop, history, Typed, ServerTypes, RightRecipient, WorkerStates
    <3>3. QED
      BY <1>1, <3>1, <3>2, OwnedDrop DEF kernel, loop
  <2>13. CASE RequestStop \/ Stop \/ Destroy \/ Terminate
    BY <1>1, <2>13, ManageStep DEF Manage, RightRecipient
  <2>14. QED
    BY <1>3, <2>2, <2>3, <2>4, <2>5, <2>6, <2>7, <2>8, <2>9, <2>10, <2>11, <2>12, <2>13, TLSActions
<1>4. QED
  BY <1>2, <1>3


-----------------------------------------------------------------------------
(* The WOLFSSL objects.                                                    *)

\* A connection that left the backlog does not come back to it.
LEMMA SettledStays ==
  ASSUME Typed,
         \/ \E d \in Clients : Connect(d)
         \/ /\ backlog' = backlog \/ (backlog # <<>> /\ backlog' = Tail(backlog))
            /\ \A c \in Clients : client'[c] = "new" => client[c] = "new",
         NEW c \in Clients, Settled(c)
  PROVE  Settled(c)'
<1>1. CASE \E d \in Clients : Connect(d)
  <2>1. PICK d \in Clients : Connect(d)
    BY <1>1
  <2>2. /\ client[d] = "new" /\ client' = [client EXCEPT ![d] = "connected"]
        /\ DOMAIN backlog' = DOMAIN backlog \cup {Len(backlog) + 1}
        /\ \A i \in DOMAIN backlog : backlog'[i] = backlog[i]
        /\ backlog'[Len(backlog) + 1] = d
    BY <2>1, Appended DEF Connect, Typed, ServerTypes
  <2>3. QED
    BY <2>2 DEF Settled, Typed, ServerTypes
<1>2. CASE /\ backlog' = backlog \/ (backlog # <<>> /\ backlog' = Tail(backlog))
           /\ \A d \in Clients : client'[d] = "new" => client[d] = "new"
  <2>1. \A i \in DOMAIN backlog' : \E j \in DOMAIN backlog : backlog'[i] = backlog[j]
    <3>1. CASE backlog' = backlog
      BY <3>1
    <3>2. CASE backlog # <<>> /\ backlog' = Tail(backlog)
      BY <3>2, Shifted DEF Typed, ServerTypes
    <3>3. QED
      BY <1>2, <3>1, <3>2
  <2>2. QED
    BY <1>2, <2>1 DEF Settled
<1>3. QED
  BY <1>1, <1>2

\* The same for every step of the server.
LEMMA SettledNext ==
  ASSUME Typed, [TLSNext]_tlsVars, NEW c \in Clients, Settled(c)
  PROVE  Settled(c)'
<1>1. CASE Environment
  <2>1. (\E d \in Clients : Connect(d)) \/
        (backlog' = backlog /\ \A d \in Clients : client'[d] = "new" => client[d] = "new")
    BY <1>1 DEF Environment, Arrive, Hangup, Reset, Typed, ServerTypes
  <2>2. QED
    BY <2>1, SettledStays
<1>2. CASE AcceptAborted \/ AcceptOk
  BY <1>2, SettledStays DEF AcceptAborted, AcceptOk
<1>3. CASE UNCHANGED <<backlog, client>>
  BY <1>3 DEF Settled
<1>4. \/ Environment
      \/ AcceptAborted \/ AcceptOk
      \/ UNCHANGED <<backlog, client>>
  BY TLSActions
     DEF vars, kernel, Start, StartFails, RequestStop, AcceptStop, AcceptEmpty, AcceptFull, NewFails, GiveUp,
         Handshake, ReadAgain, ReadDone, ReadFails, RecvAgain, RecvDone, Take, Respond, Refuse, Crash,
         SendMsg, SendBroken, CloseFd, ShutdownAndFree, Stop, Destroy, Terminate
<1>5. QED
  BY <1>1, <1>2, <1>3, <1>4

\* Everybody keeps what he has.
LEMMA HandsSame ==
  ASSUME UNCHANGED queue, apc' = "recv" <=> apc = "recv",
         apc = "recv" => table'[client_fd'] = table[client_fd],
         \A w \in Workers : /\ Has(w)' <=> Has(w)
                            /\ Has(w) => worker'[w].task = worker[w].task
  PROVE  \A c \in Clients : InHands(c)' <=> InHands(c)
BY Hands, HandsNext

\* Objects and hands stay as they are, whatever else is given up.
LEMMA HeldFrame ==
  ASSUME TLSTypeOK, Held, [TLSNext]_tlsVars, UNCHANGED <<objects, abandoned>>,
         \A c \in Clients : InHands(c)' <=> InHands(c)
  PROVE  Held'
<1>1. objects \cup abandoned \subseteq Clients
  BY DEF TLSTypeOK, ServerTypes
<1>2. \A c \in objects \cup abandoned : Settled(c)'
  BY <1>1, TLSTyped, SettledNext DEF Held
<1>3. QED
  BY <1>1, <1>2 DEF Held

\* An accepted connection has an object when the loop goes on to read from it.
LEMMA HeldAccept ==
  ASSUME TLSTypeOK, Ownership, Held, [TLSNext]_tlsVars, AcceptOk,
         IF apc' = "recv" THEN objects' = objects \cup {Head(backlog)} ELSE objects' = objects
  PROVE  Held' /\ Head(backlog) \notin objects
<1> PICK d : d = Head(backlog)
  OBVIOUS
<1>1. /\ UNCHANGED <<queue, worker>> /\ apc = "accept"
      /\ apc' = IF errno # "EAGAIN" THEN "recv" ELSE "accept"
      /\ abandoned' = abandoned \cup {c \in {d} : errno = "EAGAIN"}
      /\ backlog # <<>> /\ backlog' = Tail(backlog) /\ UNCHANGED client
  BY DEF AcceptOk, AcceptBegin
<1>2. /\ client_fd' \in Fds /\ table'[client_fd'] = d
      /\ d \in Clients /\ \A f \in Fds : table[f] # d
  BY TLSTyped, OwnedAccept DEF Typed, ServerTypes
<1>3. d \notin objects
  <2>1. 1 \in DOMAIN backlog /\ backlog[1] = d
    BY <1>1, Shifted DEF TLSTypeOK, ServerTypes
  <2>2. QED
    BY <2>1 DEF Held, Settled
<1>4. \A c \in Clients : InHands(c)' <=> InHands(c) \/ (apc' = "recv" /\ c = d)
  BY <1>1, <1>2, Hands, HandsNext DEF Has
<1>5. Settled(d)'
  <2>1. Ownership'
    BY TLSTyped, OwnedAccept
  <2>2. QED
    BY <1>2, <2>1 DEF Ownership, Opened, Backlogged, Settled
<1>6. objects \cup abandoned \subseteq Clients
  BY DEF TLSTypeOK, ServerTypes
<1>7. \A c \in objects \cup abandoned : Settled(c)'
  BY <1>6, TLSTyped, SettledNext DEF Held
<1>8. QED
  BY <1>1, <1>2, <1>3, <1>4, <1>5, <1>6, <1>7 DEF Held

\* What the loop gives up nobody else has, and it may keep its object.
LEMMA HeldGiveUp ==
  ASSUME TLSTypeOK, Ownership, Held, [TLSNext]_tlsVars, GiveUp,
         objects' \in {objects, objects \ {Peer}}
  PROVE  Held' /\ Peer \in objects
<1> PICK d : d = Peer
  OBVIOUS
<1>1. /\ UNCHANGED <<table, client_fd, queue, worker>>
      /\ apc = "recv" /\ apc' = "exited" /\ abandoned' = abandoned \cup {d}
      /\ table[client_fd] = d
  BY DEF GiveUp, Peer
<1>2. client_fd \in Fds /\ d \in Clients
  BY <1>1 DEF Ownership, Reading
<1>3. InHands(d) /\ d \in objects
  BY <1>1, <1>2, Hands DEF Held
<1>4. /\ \A i \in DOMAIN queue : queue[i].client # d
      /\ \A w \in Workers : Has(w) => worker[w].task.client # d
  BY <1>1, <1>2 DEF Ownership, Queued, Working, TaskOpen
<1>5. \A c \in Clients : InHands(c)' <=> InHands(c) /\ c # d
  BY <1>1, <1>4, Hands, HandsNext DEF Has
<1>6. objects \cup abandoned \subseteq Clients
  BY DEF TLSTypeOK, ServerTypes
<1>7. \A c \in objects \cup abandoned : Settled(c)'
  BY <1>6, TLSTyped, SettledNext DEF Held
<1>8. QED
  BY <1>1, <1>3, <1>5, <1>6, <1>7 DEF Held

\* The object is freed by the worker that has it, and nobody has it then.
LEMMA HeldFree ==
  ASSUME TLSTypeOK, Ownership, Held, [TLSNext]_tlsVars, NEW w \in Workers, ShutdownAndFree(w)
  PROVE  Held' /\ worker[w].task.client \in objects
<1> PICK d : d = worker[w].task.client
  OBVIOUS
<1>1. /\ UNCHANGED <<table, client_fd, apc, queue, abandoned>>
      /\ worker[w].pc = "notifying" /\ worker' = [worker EXCEPT ![w] = Idle]
      /\ objects' = objects \ {d}
  BY DEF ShutdownAndFree, loop, history, At
<1>2. Has(w) /\ Closed(w)
  BY <1>1 DEF Has, Closed, Idle
<1>3. d \in Clients /\ InHands(d) /\ d \in objects
  BY <1>2, TLSTyped, Elements, Hands DEF Held
<1>4. /\ \A i \in DOMAIN queue : queue[i].client # d
      /\ \A v \in Workers \ {w} : Has(v) => worker[v].task.client # d
      /\ apc = "recv" => table[client_fd] # d
  BY <1>2 DEF Ownership, Working, Reading
<1>5. ~Has(w)' /\ \A v \in Workers \ {w} : worker'[v] = worker[v] /\ (Has(v)' <=> Has(v))
  BY <1>1, TLSTyped DEF Has, Typed
<1>6. \A c \in Clients : InHands(c)' <=> InHands(c) /\ c # d
  BY <1>1, <1>4, <1>5, Hands, HandsNext
<1>7. objects \cup abandoned \subseteq Clients
  BY DEF TLSTypeOK, ServerTypes
<1>8. \A c \in objects \cup abandoned : Settled(c)'
  BY <1>7, TLSTyped, SettledNext DEF Held
<1>9. QED
  BY <1>1, <1>3, <1>6, <1>7, <1>8 DEF Held

\* Every step keeps the objects in hands.
LEMMA HeldStep ==
  ASSUME TLSTypeOK, Ownership, Held, [TLSNext]_tlsVars
  PROVE  Held'
<1>1. Typed
  BY TLSTyped
<1>2. CASE (Environment \/ (alive /\ StartFails) \/ RequestStop \/ Terminate \/ UNCHANGED vars) /\ UNCHANGED objects
  <2>1. UNCHANGED <<table, client_fd, apc, queue, worker, abandoned>>
    BY <1>1, <1>2, EnvironmentStep DEF StartFails, RequestStop, Terminate, vars, loop, history
  <2>2. QED
    BY <1>2, <2>1, HandsSame, HeldFrame DEF Has
<1>3. CASE Start /\ UNCHANGED objects
  BY <1>3, HandsSame, HeldFrame DEF Start, history, Has
<1>4. CASE (AcceptStop \/ AcceptEmpty \/ AcceptFull \/ AcceptAborted) /\ UNCHANGED objects
  BY <1>4, HandsSame, HeldFrame
     DEF AcceptStop, AcceptEmpty, AcceptFull, AcceptAborted, AcceptBegin, kernel, history, Has
<1>5. CASE Handshake \/ ReadAgain
  BY <1>5, HandsSame, HeldFrame DEF Handshake, ReadAgain, RecvAgain, history, Has, tls
<1>6. CASE NewFails \/ ReadFails
  BY <1>6, HeldGiveUp DEF NewFails, ReadFails, tls
<1>7. CASE ReadDone /\ alive
  <2>1. /\ UNCHANGED <<table, worker, abandoned, objects>> /\ Peer = table[client_fd]
        /\ apc = "recv" /\ apc' = "accept"
        /\ queue' = Append(queue, [fd |-> client_fd, client |-> Peer, request |-> Received])
    BY <1>7 DEF ReadDone, RecvDone, history, Peer, tls
  <2>2. /\ DOMAIN queue' = DOMAIN queue \cup {Len(queue) + 1}
        /\ \A i \in DOMAIN queue : queue'[i] = queue[i]
        /\ queue'[Len(queue) + 1].client = table[client_fd]
    BY <1>1, <1>7, <2>1, OwnedReceive, Appended DEF Typed, ServerTypes, ReadDone
  <2>3. \A c \in Clients : InHands(c)' <=> InHands(c)
    BY <2>1, <2>2, Hands, HandsNext DEF Has
  <2>4. QED
    BY <2>1, <2>3, HeldFrame
<1>8. ASSUME NEW w \in Workers, Take(w), UNCHANGED objects
      PROVE  Held'
  <2>1. /\ UNCHANGED <<table, client_fd, apc, abandoned>>
        /\ worker[w].pc = "idle" /\ queue # <<>> /\ queue' = Tail(queue)
        /\ worker' = [worker EXCEPT ![w] = [pc |-> "handling", task |-> Head(queue)]]
    BY <1>8 DEF Take, At, loop, history
  <2>2. /\ \A i \in DOMAIN queue : i # 1 => i - 1 \in DOMAIN queue' /\ queue'[i - 1] = queue[i]
        /\ \A i \in DOMAIN queue' : i + 1 \in DOMAIN queue /\ queue'[i] = queue[i + 1]
        /\ 1 \in DOMAIN queue /\ queue[1] = Head(queue)
    BY <1>1, <2>1, Shifted DEF Typed, ServerTypes
  <2>3. ~Has(w) /\ Has(w)' /\ worker'[w].task = Head(queue)
    BY <1>1, <2>1, Elements DEF Has, Idle, Steps, Typed
  <2>4. \A v \in Workers \ {w} : worker'[v] = worker[v] /\ (Has(v)' <=> Has(v))
    BY <1>1, <2>1 DEF Typed, Has
  <2>5. ASSUME NEW c \in Clients
        PROVE  (\E i \in DOMAIN queue : queue[i].client = c) <=>
                 (\E i \in DOMAIN queue' : queue'[i].client = c) \/ Head(queue).client = c
    BY <2>2
  <2>6. ASSUME NEW c \in Clients
        PROVE  (\E v \in Workers : Has(v)' /\ worker'[v].task.client = c) <=>
                 (\E v \in Workers : Has(v) /\ worker[v].task.client = c) \/ Head(queue).client = c
    BY <2>3, <2>4
  <2>7. \A c \in Clients : InHands(c)' <=> InHands(c)
    BY <2>1, <2>5, <2>6, Hands, HandsNext
  <2>8. QED
    BY <1>8, <2>1, <2>7, HeldFrame
<1>9. ASSUME NEW w \in Workers, UNCHANGED objects,
             Respond(w) \/ Refuse(w) \/ Crash(w) \/ SendMsg(w) \/ SendBroken(w)
      PROVE  Held'
  <2>1. /\ UNCHANGED <<table, client_fd, apc, queue, abandoned>>
        /\ \/ UNCHANGED worker
           \/ /\ worker[w].pc \in {"handling", "sending"}
              /\ \E pc \in Steps \ {"notifying"} : worker' = [worker EXCEPT ![w].pc = pc]
    BY <1>9 DEF Respond, Refuse, Crash, SendMsg, SendBroken, At, Goto, Steps, loop, history
  <2>2. \A v \in Workers : (Has(v)' <=> Has(v)) /\ (Has(v) => worker'[v].task = worker[v].task)
    <3>1. CASE UNCHANGED worker
      BY <3>1 DEF Has
    <3>2. CASE ~UNCHANGED worker
      BY <1>1, <2>1, <3>2, SameTask DEF Steps
    <3>3. QED
      BY <3>1, <3>2
  <2>3. QED
    BY <1>9, <2>1, <2>2, HandsSame, HeldFrame
<1>10. ASSUME NEW w \in Workers, CloseFd(w)
       PROVE  Held'
  <2>1. Ownership'
    BY <1>1, <1>10, CloseFdStep
  <2>2. apc = "recv" => table'[client_fd'] = table[client_fd]
    BY <1>1, <1>10, <2>1, CloseFdStep, ServerAssumption DEF Ownership, Reading
  <2>3. QED
    BY <1>1, <1>10, <2>2, CloseFdStep, HandsSame, HeldFrame
<1>11. CASE (Stop \/ Destroy) /\ UNCHANGED objects
  <2>1. UNCHANGED <<queue, worker, abandoned, apc>> /\ apc # "recv"
    BY <1>11 DEF Stop, Destroy, loop, history, Ownership, Listening
  <2>2. QED
    BY <1>11, <2>1, HandsSame, HeldFrame DEF Has
<1>12. QED
  BY <1>2, <1>3, <1>4, <1>5, <1>6, <1>7, <1>8, <1>9, <1>10, <1>11, HeldAccept, HeldFree, TLSActions


-----------------------------------------------------------------------------
(* The references to the context.                                          *)

\* An object more or less changes the number of objects by one.
LEMMA OneObject ==
  ASSUME TLSTypeOK, NEW c \in Clients
  PROVE  /\ IsFiniteSet(objects) /\ Cardinality(objects) \in Nat
         /\ c \notin objects => Cardinality(objects \cup {c}) = Cardinality(objects) + 1
         /\ c \in objects => Cardinality(objects \ {c}) = Cardinality(objects) - 1
<1>1. IsFiniteSet(objects)
  BY ServerAssumption, FS_Subset DEF TLSTypeOK
<1>2. QED
  BY <1>1, FS_CardinalityType, FS_AddElement, FS_RemoveElement

\* Neither the loop nor the shutdown comes to a place with another count.
LEMMA RefsFrame ==
  ASSUME Refs, UNCHANGED <<objects, ctx>>,
         \/ apc' = apc /\ (shutdown' \in {shutdown, "dead"} \/ (shutdown = "no" /\ shutdown' = "stopping"))
         \/ /\ apc \in {"accept", "recv"} /\ apc' \in {"accept", "recv", "exited"}
            /\ shutdown' = shutdown /\ shutdown \in {"no", "stopping"}
  PROVE  Refs'
BY DEF Refs

\* Every step keeps count of the references.
LEMMA RefsStep ==
  ASSUME TLSTypeOK, Ownership, Held, Refs, [TLSNext]_tlsVars
  PROVE  Refs'
<1>1. Typed
  BY TLSTyped
<1>2. apc = "recv" /\ alive => shutdown \in {"no", "stopping"}
  BY <1>1 DEF Ownership, Listening, alive, Typed, ServerTypes
<1>3. CASE (Environment \/ (alive /\ StartFails) \/ RequestStop \/ Terminate \/ UNCHANGED vars) /\ UNCHANGED <<objects, ctx>>
  <2>1. apc' = apc /\ (shutdown' \in {shutdown, "dead"} \/ (shutdown = "no" /\ shutdown' = "stopping"))
    BY <1>3 DEF Environment, Connect, Arrive, Hangup, Reset, StartFails, RequestStop, Terminate, vars, loop
  <2>2. QED
    BY <1>3, <2>1, RefsFrame
<1>4. CASE alive /\ Start /\ ctx' = 1 /\ UNCHANGED objects
  BY <1>4, FS_EmptySet DEF Start, Refs
<1>5. CASE (AcceptStop \/ AcceptEmpty \/ AcceptFull \/ AcceptAborted) /\ UNCHANGED <<objects, ctx>>
  BY <1>5, RefsFrame DEF AcceptStop, AcceptEmpty, AcceptFull, AcceptAborted, AcceptBegin, kernel, history
<1>6. CASE AcceptOk /\ IF apc' = "recv" THEN objects' = objects \cup {Head(backlog)} /\ ctx' = ctx + 1
                                        ELSE UNCHANGED <<objects, ctx>>
  <2>1. apc = "accept" /\ apc' \in {"accept", "recv"} /\ UNCHANGED shutdown /\ shutdown = "no"
    BY <1>6 DEF AcceptOk, AcceptBegin
  <2>2. CASE apc' = "recv"
    <3>1. Head(backlog) \notin objects /\ Head(backlog) \in Clients
      BY <1>1, <1>6, HeldAccept, OwnedAccept
    <3>2. Cardinality(objects') = Cardinality(objects) + 1 /\ ctx' = ctx + 1 /\ Cardinality(objects) \in Nat
      BY <1>6, <2>2, <3>1, OneObject
    <3>3. QED
      BY <2>1, <2>2, <3>2 DEF Refs
  <2>3. CASE apc' # "recv"
    BY <1>6, <2>1, <2>3, RefsFrame
  <2>4. QED
    BY <2>2, <2>3
<1>7. CASE alive /\ NewFails
  <2>1. /\ apc = "recv" /\ apc' = "exited" /\ shutdown' = shutdown
        /\ objects' = objects \ {Peer} /\ ctx' = ctx - 1
    BY <1>7 DEF NewFails, GiveUp
  <2>2. Peer \in objects /\ Peer \in Clients
    BY <1>7, HeldGiveUp DEF NewFails, TLSTypeOK
  <2>3. Cardinality(objects') = Cardinality(objects) - 1 /\ Cardinality(objects) \in Nat
    BY <2>1, <2>2, OneObject
  <2>4. QED
    BY <1>2, <1>7, <2>1, <2>3 DEF Refs
<1>8. CASE alive /\ (Handshake \/ ReadAgain)
  BY <1>8, RefsFrame DEF Handshake, ReadAgain, RecvAgain, tls
<1>9. CASE alive /\ (ReadDone \/ ReadFails)
  BY <1>2, <1>9, RefsFrame DEF ReadDone, RecvDone, ReadFails, GiveUp, tls
<1>10. ASSUME NEW w \in Workers, UNCHANGED <<objects, ctx>>,
              Take(w) \/ Respond(w) \/ Refuse(w) \/ Crash(w) \/ SendMsg(w) \/ SendBroken(w)
       PROVE  Refs'
  <2>1. apc' = apc /\ (shutdown' \in {shutdown, "dead"} \/ (shutdown = "no" /\ shutdown' = "stopping"))
    BY <1>10 DEF Take, Respond, Refuse, Crash, SendMsg, SendBroken, loop
  <2>2. QED
    BY <1>10, <2>1, RefsFrame
<1>11. ASSUME NEW w \in Workers, CloseFd(w)
       PROVE  Refs'
  BY <1>11, RefsFrame DEF CloseFd, loop, tls
<1>12. ASSUME NEW w \in Workers, ShutdownAndFree(w)
       PROVE  Refs'
  <2>1. /\ objects' = objects \ {worker[w].task.client} /\ ctx' = ctx - 1
        /\ apc' = apc /\ shutdown' \in {shutdown, "dead"}
    BY <1>12 DEF ShutdownAndFree, loop
  <2>2. worker[w].task.client \in objects /\ worker[w].task.client \in Clients
    BY <1>12, HeldFree DEF TLSTypeOK
  <2>3. Cardinality(objects') = Cardinality(objects) - 1 /\ Cardinality(objects) \in Nat
    BY <2>1, <2>2, OneObject
  <2>4. apc # "off"
    BY <2>2 DEF Refs
  <2>5. QED
    BY <2>1, <2>3, <2>4 DEF Refs
<1>13. CASE (Stop \/ Destroy) /\ ctx' = ctx - 1 /\ UNCHANGED objects
  <2>1. CASE Stop
    <3>1. apc = "exited" /\ apc' = apc /\ shutdown = "stopping" /\ shutdown' = "stopped"
      BY <2>1 DEF Stop, loop
    <3>2. Cardinality(objects) \in Nat
      BY ServerAssumption, FS_Subset, FS_CardinalityType DEF TLSTypeOK
    <3>3. QED
      BY <1>13, <3>1, <3>2 DEF Refs
  <2>2. CASE Destroy
    BY <1>13, <2>2 DEF Destroy, loop, Refs, Ownership, Listening
  <2>3. QED
    BY <1>13, <2>1, <2>2
<1>14. QED
  BY <1>3, <1>4, <1>5, <1>6, <1>7, <1>8, <1>9, <1>10, <1>11, <1>12, <1>13, TLSActions

-----------------------------------------------------------------------------
(* The server.                                                             *)

\* The invariant of the server, from which the theorems below follow.
LEMMA TLSInvariantHolds == TLSSpec => []TLSInvariant
<1>1. TLSInit => TLSInvariant
  <2> SUFFICES ASSUME TLSInit PROVE TLSInvariant
    OBVIOUS
  <2>1. TypeOK /\ Ownership /\ RightRecipient
    BY FreshOwned DEF TLSInit
  <2>2. TLSTypeOK
    BY <2>1 DEF TLSInit, TLSTypeOK, TypeOK, WorkerStates
  <2>3. Held
    <3>1. \A w \in Workers : ~Has(w)
      BY DEF TLSInit, Fresh, Has
    <3>2. \A c \in Clients : ~InHands(c)
      BY <3>1, Hands DEF TLSInit, Fresh
    <3>3. QED
      BY <3>2 DEF TLSInit, Fresh, Held
  <2>4. Refs
    BY DEF TLSInit, Fresh, Refs
  <2>5. QED
    BY <2>1, <2>2, <2>3, <2>4 DEF TLSInvariant
<1>2. TLSInvariant /\ [TLSNext]_tlsVars => TLSInvariant'
  BY TLSServerStep, HeldStep, RefsStep DEF TLSInvariant
<1>3. QED
  BY <1>1, <1>2, PTL DEF TLSSpec

(***************************************************************************)
(* TLSSender sends a response to the client that asked for it, although    *)
(* TLSCloser uses a descriptor number after it has been closed.            *)
(***************************************************************************)
THEOREM TLSRecipientsRight == TLSSpec => []RightRecipient
<1>1. TLSInvariant => RightRecipient
  BY DEF TLSInvariant
<1>2. QED
  BY <1>1, TLSInvariantHolds, PTL

(***************************************************************************)
(* A WOLFSSL object is freed once and after its last use; what is left     *)
(* over belongs to connections that AcceptIncoming gave up.                *)
(***************************************************************************)
THEOREM ObjectsAreOwned == TLSSpec => []ObjectsOwned
<1>1. TLSInvariant => ObjectsOwned
  <2> SUFFICES ASSUME TLSInvariant PROVE ObjectsOwned
    OBVIOUS
  <2>1. Typed /\ Held
    BY TLSTyped DEF TLSInvariant
  <2>2. \A i \in DOMAIN queue : queue[i].client \in Clients /\ InHands(queue[i].client)
    BY <2>1, Elements, Hands
  <2>3. \A w \in Busy : worker[w].task.client \in Clients /\ InHands(worker[w].task.client)
    BY <2>1, Elements, Hands DEF Busy, Has
  <2>4. QED
    BY <2>1, <2>2, <2>3 DEF ObjectsOwned, Held
<1>2. QED
  BY <1>1, TLSInvariantHolds, PTL

(***************************************************************************)
(* wolfSSL_new finds the context, and the objects keep it until the second *)
(* Stop: the first one drops the server's reference after the join only.   *)
(***************************************************************************)
THEOREM ContextHeld == TLSSpec => []CtxHeld
<1>1. TLSInvariant => CtxHeld
  <2> SUFFICES ASSUME TLSInvariant PROVE CtxHeld
    OBVIOUS
  <2>1. Typed /\ Refs /\ Ownership /\ TLSTypeOK
    BY TLSTyped DEF TLSInvariant
  <2>2. Cardinality(objects) \in Nat
    BY <2>1, ServerAssumption, FS_Subset, FS_CardinalityType DEF TLSTypeOK
  <2>3. apc = "off" => Cardinality(objects) = 0 /\ ctx = 0
    BY <2>1, FS_EmptySet DEF Refs
  <2>4. apc = "exited" /\ shutdown \in {"no", "stopping", "stopped"} => ctx >= Cardinality(objects)
    BY <2>1, <2>2 DEF Refs
  <2>5. apc \in {"off", "accept", "recv", "exited"}
    BY <2>1 DEF Typed, ServerTypes
  <2>6. QED
    BY <2>1, <2>2, <2>3, <2>4, <2>5 DEF CtxHeld, Refs
<1>2. QED
  BY <1>1, TLSInvariantHolds, PTL

(***************************************************************************)
(* A task of the HTTPS server owns its descriptor until TLSCloser closes   *)
(* it, and shares it with nobody, although a worker goes on using the      *)
(* number it has closed.                                                   *)
(***************************************************************************)
THEOREM TLSDescriptorsOwned == TLSSpec => []TLSFdOwnership
<1>1. TLSInvariant => TLSFdOwnership
  <2> SUFFICES ASSUME TLSInvariant PROVE TLSFdOwnership
    OBVIOUS
  <2>1. Reading /\ Queued /\ Working
    BY DEF TLSInvariant, Ownership
  <2>2. \A w \in Holding : w \in Workers /\ Has(w) /\ ~Closed(w)
    BY DEF Holding, Busy, Has, Closed, At
  <2>3. QED
    BY <2>1, <2>2 DEF TLSFdOwnership, Reading, Queued, Working, TaskOpen, Peer
<1>2. QED
  BY <1>1, TLSInvariantHolds, PTL
=============================================================================
