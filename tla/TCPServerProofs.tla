--------------------------- MODULE TCPServerProofs ---------------------------
(***************************************************************************)
(* Proofs about TCPServer for any number of clients, workers and           *)
(* descriptors.  The invariant and the lemmas about single actions also    *)
(* serve TLSServer, whose workers hold on to a task for one step after     *)
(* they have closed its descriptor ("notifying").                          *)
(***************************************************************************)
EXTENDS TCPServer, SequenceTheorems, WellFoundedInduction, TLAPS

-----------------------------------------------------------------------------
(* Sequences and descriptors.                                              *)

\* Append adds one element behind the others.
LEMMA Appended ==
  ASSUME NEW S, NEW s \in Seq(S), NEW e \in S
  PROVE  /\ Append(s, e) \in Seq(S)
         /\ DOMAIN Append(s, e) = DOMAIN s \cup {Len(s) + 1}
         /\ Len(s) + 1 \notin DOMAIN s
         /\ \A i \in DOMAIN s : Append(s, e)[i] = s[i]
         /\ Append(s, e)[Len(s) + 1] = e
<1>1. Len(s) \in Nat /\ DOMAIN s = 1 .. Len(s)
  BY LenProperties
<1>2. QED
  BY <1>1, AppendProperties, LenProperties

\* Taking the head shifts the others by one place.
LEMMA Shifted ==
  ASSUME NEW S, NEW s \in Seq(S), s # <<>>
  PROVE  /\ Tail(s) \in Seq(S) /\ Head(s) \in S
         /\ 1 \in DOMAIN s /\ s[1] = Head(s)
         /\ \A i \in DOMAIN Tail(s) : i + 1 \in DOMAIN s /\ i + 1 # 1 /\ Tail(s)[i] = s[i + 1]
         /\ \A i \in DOMAIN s : i # 1 => i - 1 \in DOMAIN Tail(s) /\ Tail(s)[i - 1] = s[i]
         /\ \A i, j \in DOMAIN Tail(s) : i # j => i + 1 # j + 1
<1>1. Len(s) \in Nat /\ DOMAIN s = 1 .. Len(s) /\ Len(s) # 0
  BY LenProperties, EmptySeq
<1>2. /\ Head(s) \in S /\ Tail(s) \in Seq(S)
      /\ Len(Tail(s)) = Len(s) - 1
      /\ \A i \in 1 .. Len(Tail(s)) : Tail(s)[i] = s[i + 1]
  BY HeadTailProperties
<1>3. DOMAIN Tail(s) = 1 .. Len(s) - 1
  BY <1>1, <1>2, LenProperties
<1>4. s[1] = Head(s)
  BY <1>1
<1>5. QED
  BY <1>1, <1>2, <1>3, <1>4

\* The kernel gives out a descriptor that is free, if there is one.
LEMMA LowestFree ==
  ASSUME FreeFds # {}
  PROVE  Min(FreeFds) \in FreeFds /\ Min(FreeFds) \in Fds
<1>1. FreeFds \subseteq Nat /\ FreeFds \subseteq Fds
  BY ServerAssumption DEF FreeFds, Fds
<1> DEFINE less == {ss \in Nat \X Nat : ss[1] < ss[2]}
<1>2. IsWellFoundedOn(less, Nat)
  BY NatLessThanWellFounded, Zenon DEF OpToRel
<1>3. \A i, j \in Nat : <<i, j>> \in less <=> i < j
  OBVIOUS
<1> HIDE DEF less
<1>4. PICK x \in FreeFds : \A y \in FreeFds : ~(<<y, x>> \in less)
  BY <1>1, <1>2, WFMin
<1>5. ASSUME NEW y \in FreeFds
      PROVE  x <= y
  <2>1. x \in Nat /\ y \in Nat
    BY <1>1
  <2>2. ~(y < x)
    BY <1>3, <1>4, <2>1
  <2>3. QED
    BY <2>1, <2>2
<1>6. QED
  BY <1>1, <1>5 DEF Min

-----------------------------------------------------------------------------
(***************************************************************************)
(* The invariant.  Settled says that a connection has left the backlog for *)
(* good; together with the parts about the backlog and the table it makes  *)
(* every connection have one descriptor at most, and be in one place only. *)
(***************************************************************************)
Steps == {"handling", "sending", "closing", "notifying", "crashed"}
Typed == ServerTypes /\ worker \in [Workers -> WorkerStates(Steps)]

\* Before Start there is nothing.
Quiet ==
  apc = "off" =>
    /\ table = [f \in Fds |-> Free] /\ backlog = <<>> /\ queue = <<>>
    /\ \A w \in Workers : worker[w] = Idle
    /\ shutdown \in {"no", "dead"}

\* The listening socket is open until Stop, and Stop comes after the accept loop.
Listening ==
  /\ apc # "off" => sockfd \in Fds
  /\ apc # "off" /\ shutdown \in {"no", "stopping"} => table[sockfd] = Listener
  /\ shutdown \in {"stopped", "destroyed"} =>
       apc = "exited" /\ (client_fd \in Fds => table[client_fd] = Free)

\* A connection waits in the backlog once, and has no descriptor as long as it does.
Backlogged ==
  \A i \in DOMAIN backlog :
    /\ client[backlog[i]] # "new"
    /\ \A f \in Fds : table[f] # backlog[i]
    /\ \A j \in DOMAIN backlog : i # j => backlog[i] # backlog[j]

\* No connection has two descriptors.
Opened ==
  \A f \in Fds : table[f] \in Clients =>
    /\ client[table[f]] # "new"
    /\ \A g \in Fds : table[g] = table[f] => g = f

Reading == apc = "recv" => client_fd \in Fds /\ table[client_fd] \in Clients

Settled(c) == client[c] # "new" /\ \A i \in DOMAIN backlog : backlog[i] # c

\* The descriptor of t is t's, and t's connection has no other.
TaskOpen(t) ==
  /\ Owns(t)
  /\ t.fd # sockfd
  /\ apc = "recv" => t.fd # client_fd
  /\ \A f \in Fds : table[f] = t.client => f = t.fd

Queued ==
  \A i \in DOMAIN queue :
    /\ Settled(queue[i].client) /\ TaskOpen(queue[i])
    /\ \A j \in DOMAIN queue : i # j => queue[i].fd # queue[j].fd /\ queue[i].client # queue[j].client

Has(w) == worker[w] # Idle
Closed(w) == worker[w].pc = "notifying"

Working ==
  \A w \in Workers : Has(w) =>
    /\ Settled(worker[w].task.client)
    /\ ~Closed(w) => TaskOpen(worker[w].task)
    /\ Closed(w) => \A f \in Fds : table[f] # worker[w].task.client
    /\ \A i \in DOMAIN queue :
         /\ queue[i].client # worker[w].task.client
         /\ ~Closed(w) => queue[i].fd # worker[w].task.fd
    /\ \A v \in Workers \ {w} : Has(v) =>
         /\ worker[v].task.client # worker[w].task.client
         /\ ~Closed(v) /\ ~Closed(w) => worker[v].task.fd # worker[w].task.fd

Ownership == Quiet /\ Listening /\ Backlogged /\ Opened /\ Reading /\ Queued /\ Working

-----------------------------------------------------------------------------
(* Steps that leave descriptors, backlog and queue alone.                  *)

\* The workers keep their tasks and nobody opens or closes a descriptor.
LEMMA OwnedFrame ==
  ASSUME Ownership,
         UNCHANGED <<table, backlog, sockfd, client_fd, apc, queue>>,
         \A c \in Clients : client'[c] = "new" => client[c] = "new",
         \A w \in Workers : /\ Has(w)' <=> Has(w)
                            /\ Has(w) => worker'[w].task = worker[w].task /\ (Closed(w)' <=> Closed(w)),
         \/ shutdown' \in {shutdown, "dead"}
         \/ shutdown = "no" /\ shutdown' = "stopping" /\ apc # "off",
         Typed
  PROVE  Ownership'
<1>1. Quiet' /\ Listening' /\ Reading'
  BY DEF Ownership, Quiet, Listening, Reading, Has
<1>2. \A i \in DOMAIN backlog : backlog[i] \in Clients
  BY ElementOfSeq DEF Typed, ServerTypes
<1>3. Backlogged' /\ Opened'
  BY <1>2 DEF Ownership, Backlogged, Opened
<1>4. ASSUME NEW t \in Tasks
      PROVE  /\ TaskOpen(t) => TaskOpen(t)'
             /\ Settled(t.client) => Settled(t.client)'
  BY DEF TaskOpen, Owns, Settled, Tasks
<1>5. \A i \in DOMAIN queue : queue[i] \in Tasks
  BY ElementOfSeq DEF Typed, ServerTypes
<1>6. Queued'
  BY <1>4, <1>5 DEF Ownership, Queued
<1>7. \A w \in Workers : Has(w) => worker[w].task \in Tasks
  BY DEF Typed, WorkerStates, Has, Steps
<1>8. Working'
  BY <1>4, <1>7 DEF Ownership, Working
<1>9. QED
  BY <1>1, <1>3, <1>6, <1>8 DEF Ownership

\* What is queued or held by a worker is a task, and what waits is a connection.
LEMMA Elements ==
  ASSUME Typed
  PROVE  /\ \A i \in DOMAIN backlog : backlog[i] \in Clients
         /\ \A i \in DOMAIN queue : queue[i] \in Tasks
         /\ \A w \in Workers : Has(w) => worker[w].task \in Tasks /\ worker[w].pc \in Steps
         /\ \A t \in Tasks : t.fd \in Fds /\ t.client \in Clients
<1>1. /\ \A i \in DOMAIN backlog : backlog[i] \in Clients
      /\ \A i \in DOMAIN queue : queue[i] \in Tasks
  BY ElementOfSeq DEF Typed, ServerTypes
<1>2. \A w \in Workers : Has(w) => worker[w].task \in Tasks /\ worker[w].pc \in Steps
  BY DEF Typed, WorkerStates, Has, Steps
<1>3. QED
  BY <1>1, <1>2 DEF Tasks

(***************************************************************************)
(* The accept loop forgets the descriptor it worked on, with or without a  *)
(* connection leaving the backlog.                                         *)
(***************************************************************************)
LEMMA OwnedLoop ==
  ASSUME Typed, Ownership,
         UNCHANGED <<table, client, sockfd, queue, worker, shutdown>>,
         backlog' = backlog \/ (backlog # <<>> /\ backlog' = Tail(backlog)),
         apc \in {"accept", "recv"}, apc' \in {"accept", "exited"},
         shutdown \in {"no", "stopping"}
  PROVE  Ownership'
<1>1. \A i \in DOMAIN backlog' : \E j \in DOMAIN backlog : backlog'[i] = backlog[j]
  BY Shifted DEF Typed, ServerTypes
<1>2. Quiet' /\ Listening' /\ Reading' /\ Opened'
  BY DEF Ownership, Quiet, Listening, Reading, Opened
<1>3. Backlogged'
  <2>1. CASE backlog' = backlog
    BY <2>1 DEF Ownership, Backlogged
  <2>2. CASE backlog # <<>> /\ backlog' = Tail(backlog)
    BY <2>2, Shifted DEF Ownership, Backlogged, Typed, ServerTypes
  <2>3. QED
    BY <2>1, <2>2
<1>4. ASSUME NEW t \in Tasks
      PROVE  /\ TaskOpen(t) => TaskOpen(t)'
             /\ Settled(t.client) => Settled(t.client)'
  BY <1>1 DEF TaskOpen, Owns, Settled
<1>5. Queued' /\ Working'
  BY <1>4, Elements DEF Ownership, Queued, Working, Has, Closed
<1>6. QED
  BY <1>2, <1>3, <1>5 DEF Ownership

-----------------------------------------------------------------------------
(* A connection's way through the server.                                  *)

\* A new connection enters the backlog.
LEMMA OwnedConnect ==
  ASSUME Typed, Ownership, NEW c \in Clients, Connect(c)
  PROVE  Ownership'
<1>1. /\ UNCHANGED <<table, sockfd, client_fd, apc, queue, worker, shutdown>>
      /\ client[c] = "new" /\ client' = [client EXCEPT ![c] = "connected"]
      /\ backlog' = Append(backlog, c)
      /\ sockfd \in Fds /\ table[sockfd] = Listener
  BY DEF Connect, loop, history
<1>2. /\ DOMAIN backlog' = DOMAIN backlog \cup {Len(backlog) + 1}
      /\ Len(backlog) + 1 \notin DOMAIN backlog
      /\ \A i \in DOMAIN backlog : backlog'[i] = backlog[i]
      /\ backlog'[Len(backlog) + 1] = c
  BY <1>1, Appended DEF Typed, ServerTypes
<1>3. \A d \in Clients : client'[d] = "new" <=> client[d] = "new" /\ d # c
  BY <1>1 DEF Typed, ServerTypes
<1>4. \A f \in Fds : table[f] # c
  BY <1>1 DEF Ownership, Opened
<1>5. apc # "off"
  BY <1>1, ServerAssumption DEF Ownership, Quiet
<1>6. Quiet' /\ Listening' /\ Reading'
  BY <1>1, <1>5 DEF Ownership, Quiet, Listening, Reading
<1>7. Backlogged' /\ Opened'
  BY <1>1, <1>2, <1>3, <1>4, Elements DEF Ownership, Backlogged, Opened
<1>8. ASSUME NEW t \in Tasks
      PROVE  /\ TaskOpen(t) => TaskOpen(t)'
             /\ Settled(t.client) => Settled(t.client)'
  <2>1. t.client \in Clients
    BY DEF Tasks
  <2>2. QED
    BY <1>1, <1>2, <1>3, <2>1 DEF TaskOpen, Owns, Settled
<1>9. Queued' /\ Working'
  BY <1>1, <1>8, Elements DEF Ownership, Queued, Working, Has, Closed
<1>10. QED
  BY <1>6, <1>7, <1>9 DEF Ownership

\* Start opens the first descriptor of all.
LEMMA OwnedStart ==
  ASSUME Typed, Ownership, Start, alive
  PROVE  Ownership' /\ sockfd' \in Fds
<1>1. /\ UNCHANGED <<backlog, client, client_fd, queue, worker, shutdown>>
      /\ apc = "off" /\ apc' = "accept"
      /\ sockfd' = Min(FreeFds) /\ table' = [table EXCEPT ![sockfd'] = Listener]
  BY DEF Start, kernel, history
<1>2. /\ table = [f \in Fds |-> Free] /\ backlog = <<>> /\ queue = <<>>
      /\ \A w \in Workers : ~Has(w)
      /\ shutdown = "no"
  BY <1>1 DEF Ownership, Quiet, Has, alive
<1>3. sockfd' \in Fds
  <2>1. 1 \in FreeFds
    BY <1>2, ServerAssumption DEF FreeFds, Fds
  <2>2. QED
    BY <1>1, <2>1, LowestFree
<1>4. table' = [f \in Fds |-> IF f = sockfd' THEN Listener ELSE Free]
  BY <1>1, <1>2, <1>3
<1>5. DOMAIN queue' = {} /\ DOMAIN backlog' = {}
  BY <1>1, <1>2
<1>6. \A w \in Workers : ~Has(w)'
  BY <1>1, <1>2 DEF Has
<1>7. QED
  BY <1>1, <1>2, <1>3, <1>4, <1>5, <1>6, ServerAssumption
     DEF Ownership, Quiet, Listening, Backlogged, Opened, Reading, Queued, Working

\* The accepted connection gets a descriptor that is nobody's.
LEMMA OwnedAccept ==
  ASSUME Typed, Ownership, AcceptOk
  PROVE  /\ Ownership'
         /\ client_fd' \in FreeFds /\ client_fd' \in Fds
         /\ table' = [table EXCEPT ![client_fd'] = Head(backlog)]
         /\ Head(backlog) \in Clients
         /\ \A f \in Fds : table[f] # Head(backlog)
<1> DEFINE c == Head(backlog)
<1>1. /\ UNCHANGED <<client, sockfd, queue, worker, shutdown>>
      /\ apc = "accept" /\ apc' \in {"recv", "accept"} /\ shutdown = "no"
      /\ backlog # <<>> /\ backlog' = Tail(backlog)
      /\ FreeFds # {} /\ client_fd' = Min(FreeFds)
      /\ table' = [table EXCEPT ![client_fd'] = c]
  BY DEF AcceptOk, AcceptBegin, history
<1>2. client_fd' \in Fds /\ client_fd' \in FreeFds /\ table[client_fd'] = Free
  BY <1>1, LowestFree DEF FreeFds
<1>3. /\ c \in Clients /\ 1 \in DOMAIN backlog /\ backlog[1] = c
      /\ \A i \in DOMAIN backlog' : i + 1 \in DOMAIN backlog /\ i + 1 # 1 /\ backlog'[i] = backlog[i + 1]
      /\ \A i, j \in DOMAIN backlog' : i # j => i + 1 # j + 1
  BY <1>1, Shifted DEF Typed, ServerTypes
<1>4. /\ client[c] # "new" /\ \A f \in Fds : table[f] # c
      /\ \A i \in DOMAIN backlog' : backlog'[i] # c
  BY <1>3 DEF Ownership, Backlogged
<1>5. \A f \in Fds : table'[f] = IF f = client_fd' THEN c ELSE table[f]
  BY <1>1, <1>2 DEF Typed, ServerTypes
<1>6. sockfd \in Fds /\ table[sockfd] = Listener /\ sockfd # client_fd'
  BY <1>1, <1>2, ServerAssumption DEF Ownership, Listening
<1>7. Quiet' /\ Listening' /\ Reading'
  BY <1>1, <1>2, <1>3, <1>5, <1>6 DEF Quiet, Listening, Reading
<1>8. Backlogged'
  BY <1>1, <1>3, <1>4, <1>5 DEF Ownership, Backlogged
<1>9. Opened'
  BY <1>1, <1>2, <1>3, <1>4, <1>5 DEF Ownership, Opened
<1>10. ASSUME NEW t \in Tasks, Settled(t.client)
       PROVE  t.client # c /\ Settled(t.client)' /\ (TaskOpen(t) => TaskOpen(t)')
  <2>1. t.client # c /\ Settled(t.client)'
    BY <1>1, <1>3, <1>10 DEF Settled
  <2>2. t.fd \in Fds /\ t.client \in Clients
    BY DEF Tasks
  <2>3. TaskOpen(t) => t.fd # client_fd'
    BY <1>1, <1>2, <2>2, ServerAssumption DEF TaskOpen, Owns
  <2>4. QED
    BY <1>1, <1>5, <2>1, <2>2, <2>3 DEF TaskOpen, Owns
<1>11. Queued'
  BY <1>1, <1>10, Elements DEF Ownership, Queued
<1>12. Working'
  BY <1>1, <1>5, <1>10, Elements DEF Ownership, Working, Has, Closed
<1>13. QED
  BY <1>1, <1>2, <1>3, <1>4, <1>7, <1>8, <1>9, <1>11, <1>12 DEF Ownership

\* The connection that was read from becomes a task, and is no other task's.
LEMMA OwnedReceive ==
  ASSUME Typed, Ownership, RecvDone, alive
  PROVE  /\ Ownership'
         /\ [fd |-> client_fd, client |-> Peer, request |-> Received] \in Tasks
         /\ Peer \in Clients
<1> PICK t : t = [fd |-> client_fd, client |-> Peer, request |-> Received]
  OBVIOUS
<1>1. /\ UNCHANGED <<table, backlog, client, sockfd, client_fd, worker, shutdown>>
      /\ apc = "recv" /\ apc' = "accept"
      /\ queue' = Append(queue, t)
  BY DEF RecvDone, history
<1>2. client_fd \in Fds /\ Peer \in Clients
  BY <1>1 DEF Ownership, Reading, Peer
<1>3. t \in Tasks
  <2>1. Received \in Messages \cup {"empty"}
    BY <1>2 DEF Received, Silent, Typed, ServerTypes
  <2>2. QED
    BY <1>2, <2>1 DEF Tasks
<1>4. /\ DOMAIN queue' = DOMAIN queue \cup {Len(queue) + 1}
      /\ Len(queue) + 1 \notin DOMAIN queue
      /\ \A i \in DOMAIN queue : queue'[i] = queue[i]
      /\ queue'[Len(queue) + 1] = t
  BY <1>1, <1>3, Appended DEF Typed, ServerTypes
<1>5. shutdown \in {"no", "stopping"}
  BY <1>1 DEF Ownership, Listening, alive, Typed, ServerTypes
<1>6. Quiet' /\ Listening' /\ Backlogged' /\ Opened' /\ Reading'
  BY <1>1 DEF Ownership, Quiet, Listening, Backlogged, Opened, Reading
<1>7. TaskOpen(t)' /\ Settled(t.client)'
  <2>1. t.fd = client_fd /\ t.client = Peer /\ table[client_fd] = Peer
    BY DEF Peer
  <2>2. client_fd # sockfd
    BY <1>1, <1>2, <1>5, <2>1, ServerAssumption DEF Ownership, Listening
  <2>3. \A f \in Fds : table[f] = Peer => f = client_fd
    BY <1>2, <2>1 DEF Ownership, Opened
  <2>4. TaskOpen(t)'
    BY <1>1, <2>1, <2>2, <2>3 DEF TaskOpen, Owns
  <2>5. client[Peer] # "new" /\ \A i \in DOMAIN backlog : backlog[i] # Peer
    BY <1>2, <2>1 DEF Ownership, Opened, Backlogged
  <2>6. QED
    BY <1>1, <2>1, <2>4, <2>5 DEF Settled
<1>8. ASSUME NEW u \in Tasks
      PROVE  /\ TaskOpen(u) => TaskOpen(u)' /\ u.fd # t.fd /\ u.client # t.client
             /\ Settled(u.client) => Settled(u.client)'
  <2>1. t.fd = client_fd /\ t.client = Peer /\ table[client_fd] = Peer
    BY DEF Peer
  <2>2. TaskOpen(u) => u.fd # t.fd /\ u.client # t.client
    BY <1>1, <1>2, <2>1 DEF TaskOpen
  <2>3. TaskOpen(u) => TaskOpen(u)'
    BY <1>1 DEF TaskOpen, Owns
  <2>4. QED
    BY <1>1, <2>2, <2>3 DEF Settled
<1>9. \A w \in Workers : Has(w) /\ Closed(w) => worker[w].task.client # t.client
  BY <1>2 DEF Ownership, Working, Peer
<1>10. Queued'
  BY <1>4, <1>7, <1>8, Elements DEF Ownership, Queued
<1>11. Working'
  <2>1. \A w \in Workers : (Has(w)' <=> Has(w)) /\ (Closed(w)' <=> Closed(w))
    BY <1>1 DEF Has, Closed
  <2>2. ASSUME NEW w \in Workers, Has(w), NEW i \in DOMAIN queue'
        PROVE  /\ queue'[i].client # worker[w].task.client
               /\ ~Closed(w) => queue'[i].fd # worker[w].task.fd
    <3>1. CASE i \in DOMAIN queue
      BY <1>4, <2>2, <3>1 DEF Ownership, Working
    <3>2. CASE i = Len(queue) + 1
      BY <1>4, <1>8, <1>9, <2>2, <3>2, Elements DEF Ownership, Working
    <3>3. QED
      BY <1>4, <3>1, <3>2
  <2>3. QED
    BY <1>1, <1>8, <2>1, <2>2, Elements DEF Ownership, Working
<1>12. QED
  BY <1>2, <1>3, <1>6, <1>10, <1>11 DEF Ownership

\* A worker takes the oldest task, and it is in the queue no longer.
LEMMA OwnedTake ==
  ASSUME Typed, Ownership, NEW w \in Workers, Take(w)
  PROVE  Ownership' /\ Head(queue) \in Tasks
<1>1. /\ UNCHANGED <<table, backlog, client, sockfd, client_fd, apc, shutdown>>
      /\ worker[w].pc = "idle" /\ queue # <<>> /\ queue' = Tail(queue)
      /\ worker' = [worker EXCEPT ![w] = [pc |-> "handling", task |-> Head(queue)]]
  BY DEF Take, At, kernel, loop, history
<1>2. /\ Head(queue) \in Tasks /\ 1 \in DOMAIN queue /\ queue[1] = Head(queue)
      /\ \A i \in DOMAIN queue' : i + 1 \in DOMAIN queue /\ i + 1 # 1 /\ queue'[i] = queue[i + 1]
      /\ \A i, j \in DOMAIN queue' : i # j => i + 1 # j + 1
  BY <1>1, Shifted DEF Typed, ServerTypes
<1>3. ~Has(w)
  BY <1>1, Elements DEF Has, Steps
<1>4. /\ Has(w)' /\ ~Closed(w)' /\ worker'[w].task = Head(queue)
      /\ \A v \in Workers \ {w} : worker'[v] = worker[v]
  BY <1>1 DEF Has, Closed, Idle, Typed
<1>5. apc # "off"
  BY <1>1 DEF Ownership, Quiet
<1>6. Quiet' /\ Listening' /\ Backlogged' /\ Opened' /\ Reading'
  BY <1>1, <1>5 DEF Ownership, Quiet, Listening, Backlogged, Opened, Reading
<1>7. \A t \in Tasks : (TaskOpen(t)' <=> TaskOpen(t)) /\ (Settled(t.client)' <=> Settled(t.client))
  BY <1>1 DEF TaskOpen, Owns, Settled
<1>8. Queued'
  BY <1>2, <1>7, Elements DEF Ownership, Queued
<1>9. ASSUME NEW v \in Workers, Has(v)', NEW t, t = worker'[v].task
      PROVE  /\ Settled(t.client)'
             /\ ~Closed(v)' => TaskOpen(t)'
             /\ Closed(v)' => \A f \in Fds : table'[f] # t.client
             /\ \A i \in DOMAIN queue' :
                  /\ queue'[i].client # t.client
                  /\ ~Closed(v)' => queue'[i].fd # t.fd
  <2>1. CASE v = w
    BY <1>2, <1>4, <1>7, <1>9, <2>1 DEF Ownership, Queued
  <2>2. CASE v # w
    <3>1. Has(v) /\ (Closed(v)' <=> Closed(v)) /\ worker'[v] = worker[v]
      BY <1>4, <1>9, <2>2 DEF Has, Closed
    <3>2. t = worker[v].task /\ t \in Tasks
      BY <1>9, <3>1, Elements
    <3>3. QED
      BY <1>1, <1>2, <1>7, <3>1, <3>2 DEF Ownership, Working
  <2>3. QED
    BY <2>1, <2>2
<1>10. ASSUME NEW v \in Workers, NEW u \in Workers \ {v}, Has(v)', Has(u)'
       PROVE  /\ worker'[u].task.client # worker'[v].task.client
              /\ ~Closed(u)' /\ ~Closed(v)' => worker'[u].task.fd # worker'[v].task.fd
  <2>1. \A x \in Workers \ {w} : (Has(x)' <=> Has(x)) /\ (Closed(x)' <=> Closed(x))
    BY <1>4 DEF Has, Closed
  <2>2. CASE v = w
    BY <1>2, <1>4, <1>10, <2>1, <2>2 DEF Ownership, Working
  <2>3. CASE u = w
    BY <1>2, <1>4, <1>10, <2>1, <2>3 DEF Ownership, Working
  <2>4. CASE u # w /\ v # w
    BY <1>4, <1>10, <2>1, <2>4 DEF Ownership, Working
  <2>5. QED
    BY <2>2, <2>3, <2>4
<1>11. Working'
  BY <1>9, <1>10 DEF Working
<1>12. QED
  BY <1>2, <1>6, <1>8, <1>11 DEF Ownership

(***************************************************************************)
(* Closing a task's own descriptor takes it from nobody else, whether the  *)
(* worker then drops the task or keeps it until it has notified the peer.  *)
(***************************************************************************)
LEMMA OwnedClose ==
  ASSUME Typed, Ownership, NEW w \in Workers, At(w, "closing"),
         UNCHANGED <<backlog, client, sockfd, client_fd, apc, queue, shutdown>>,
         table' = Close(table, worker[w].task.fd),
         worker' \in [Workers -> WorkerStates(Steps)],
         \A v \in Workers \ {w} : worker'[v] = worker[v],
         \/ worker'[w] = Idle
         \/ worker'[w].task = worker[w].task /\ worker'[w].pc = "notifying"
  PROVE  Ownership' /\ \A f \in Fds : table'[f] # worker[w].task.client
<1> PICK t : t = worker[w].task
  OBVIOUS
<1>1. Has(w) /\ ~Closed(w)
  BY DEF Has, Closed, At, Idle
<1>2. t \in Tasks /\ t.fd \in Fds /\ t.client \in Clients /\ TaskOpen(t) /\ Settled(t.client)
  BY <1>1, Elements DEF Ownership, Working
<1>3. \A f \in Fds : table'[f] = IF f = t.fd THEN Free ELSE table[f]
  BY <1>2 DEF Close, Typed, ServerTypes
<1>4. \A f \in Fds : table'[f] # t.client
  BY <1>2, <1>3, ServerAssumption DEF TaskOpen
<1>5. apc # "off" /\ t.fd # sockfd /\ (apc = "recv" => t.fd # client_fd)
  BY <1>1, <1>2 DEF Ownership, Quiet, Has, TaskOpen
<1>6. Quiet' /\ Listening' /\ Reading'
  BY <1>2, <1>3, <1>5 DEF Ownership, Quiet, Listening, Reading
<1>7. Backlogged'
  BY <1>3, Elements, ServerAssumption DEF Ownership, Backlogged
<1>8. Opened'
  BY <1>3, ServerAssumption DEF Ownership, Opened
<1>9. ASSUME NEW u \in Tasks
      PROVE  /\ TaskOpen(u) /\ u.fd # t.fd => TaskOpen(u)'
             /\ Settled(u.client) => Settled(u.client)'
  <2>1. u.fd \in Fds /\ u.client \in Clients
    BY DEF Tasks
  <2>2. QED
    BY <1>3, <2>1, ServerAssumption DEF TaskOpen, Owns, Settled
<1>10. Queued'
  BY <1>1, <1>9, Elements DEF Ownership, Queued, Working
<1>11. ASSUME NEW v \in Workers, Has(v)'
       PROVE  Has(v) /\ worker'[v].task = worker[v].task /\ (v # w => (Closed(v)' <=> Closed(v)))
  <2>1. CASE v = w
    BY <1>1, <1>11, <2>1 DEF Has
  <2>2. CASE v # w
    BY <1>11, <2>2 DEF Has, Closed
  <2>3. QED
    BY <2>1, <2>2
<1>12. ASSUME NEW v \in Workers, Has(v)', NEW u, u = worker'[v].task
       PROVE  /\ Settled(u.client)'
              /\ ~Closed(v)' => TaskOpen(u)'
              /\ Closed(v)' => \A f \in Fds : table'[f] # u.client
  <2>1. Has(v) /\ u = worker[v].task /\ u \in Tasks
    BY <1>11, <1>12, Elements
  <2>2. CASE v = w
    <3>1. Closed(w)'
      BY <1>12, <2>2 DEF Has, Closed
    <3>2. QED
      BY <1>2, <1>4, <1>9, <2>1, <2>2, <3>1
  <2>3. CASE v # w
    <3>1. Closed(v)' <=> Closed(v)
      BY <1>11, <1>12, <2>3
    <3>2. ~Closed(v) => u.fd # t.fd
      BY <1>1, <2>1, <2>3 DEF Ownership, Working
    <3>3. u.client \in Clients
      BY <2>1, Elements
    <3>4. QED
      BY <1>3, <1>9, <2>1, <3>1, <3>2, <3>3, ServerAssumption DEF Ownership, Working
  <2>4. QED
    BY <2>2, <2>3
<1>13. \A v \in Workers : Has(v)' /\ ~Closed(v)' => ~Closed(v)
  BY <1>1, <1>11
<1>14. Working'
  BY <1>11, <1>12, <1>13 DEF Ownership, Working
<1>15. QED
  BY <1>4, <1>6, <1>7, <1>8, <1>10, <1>14 DEF Ownership

\* Stop and Destroy close the listener, and the last descriptor whoever has it.
LEMMA OwnedStop ==
  ASSUME Typed, Ownership, Stop \/ Destroy
  PROVE  Ownership'
<1>1. /\ UNCHANGED <<backlog, client, sockfd, client_fd, apc, queue, worker>>
      /\ table' = Close(Close(table, client_fd), sockfd)
      /\ shutdown' \in {"stopped", "destroyed"}
      /\ apc = "exited"
  BY DEF Stop, Destroy, kernel, loop, history, Ownership, Listening
<1>2. \A f \in Fds : table'[f] = IF f \in {client_fd, sockfd} THEN Free ELSE table[f]
  BY <1>1 DEF Close, Typed, ServerTypes
<1>3. Quiet' /\ Listening' /\ Reading'
  BY <1>1, <1>2 DEF Ownership, Quiet, Listening, Reading
<1>4. Backlogged'
  BY <1>1, <1>2, Elements, ServerAssumption DEF Ownership, Backlogged
<1>5. Opened'
  BY <1>1, <1>2, ServerAssumption DEF Ownership, Opened
<1>6. ASSUME NEW t \in Tasks
      PROVE  /\ TaskOpen(t) => TaskOpen(t)'
             /\ Settled(t.client) => Settled(t.client)'
             /\ (\A f \in Fds : table[f] # t.client) => \A f \in Fds : table'[f] # t.client
  <2>1. t.fd \in Fds /\ t.client \in Clients
    BY DEF Tasks
  <2>2. QED
    BY <1>1, <1>2, <2>1, ServerAssumption DEF TaskOpen, Owns, Settled
<1>7. Queued'
  BY <1>1, <1>6, Elements DEF Ownership, Queued
<1>8. Working'
  BY <1>1, <1>6, Elements DEF Ownership, Working, Has, Closed
<1>9. QED
  BY <1>3, <1>4, <1>5, <1>7, <1>8 DEF Ownership

-----------------------------------------------------------------------------
(* The single actions.                                                     *)

\* Clients keep the types and the ownership.
LEMMA EnvironmentStep ==
  ASSUME Typed, Ownership, Environment
  PROVE  ServerTypes' /\ Ownership' /\ worker' = worker /\ UNCHANGED <<answers, abandoned, queue, table, apc, client_fd>>
<1>1. ASSUME NEW c \in Clients, Connect(c)
      PROVE  ServerTypes'
  <2>1. backlog' \in Seq(Clients)
    BY <1>1, Appended DEF Connect, Typed, ServerTypes
  <2>2. QED
    BY <1>1, <2>1 DEF Connect, loop, history, Typed, ServerTypes
<1>2. ASSUME NEW c \in Clients, NEW m \in Messages, Arrive(c, m)
      PROVE  ServerTypes' /\ Ownership'
  <2>1. ServerTypes'
    BY <1>2 DEF Arrive, loop, history, Typed, ServerTypes
  <2>2. Ownership'
    BY <1>2, OwnedFrame DEF Arrive, loop, history, Has, Closed
  <2>3. QED
    BY <2>1, <2>2
<1>3. ASSUME NEW c \in Clients, Hangup(c) \/ Reset(c)
      PROVE  ServerTypes' /\ Ownership'
  <2>1. ServerTypes'
    BY <1>3 DEF Hangup, Reset, loop, history, Typed, ServerTypes
  <2>2. \A d \in Clients : client'[d] = "new" => client[d] = "new"
    BY <1>3 DEF Hangup, Reset, Typed, ServerTypes
  <2>3. UNCHANGED <<table, backlog, sockfd, client_fd, apc, queue, worker, shutdown>>
    BY <1>3 DEF Hangup, Reset, loop, history
  <2>4. Ownership'
    BY <2>2, <2>3, OwnedFrame DEF Has, Closed
  <2>5. QED
    BY <2>1, <2>4
<1>4. QED
  BY <1>1, <1>2, <1>3, OwnedConnect DEF Environment, Connect, Arrive, Hangup, Reset, history, loop

\* So does Start, whether it gets its socket or not.
LEMMA StartStep ==
  ASSUME Typed, Ownership, Start \/ StartFails, alive
  PROVE  ServerTypes' /\ Ownership' /\ UNCHANGED <<worker, answers, abandoned, queue>>
<1>1. CASE Start
  <2>1. sockfd' \in Fds
    BY <1>1, OwnedStart
  <2>2. QED
    BY <1>1, <2>1, OwnedStart DEF Start, kernel, history, Typed, ServerTypes
<1>2. CASE StartFails
  BY <1>2, OwnedFrame DEF StartFails, kernel, loop, history, Typed, ServerTypes, Has, Closed
<1>3. QED
  BY <1>1, <1>2

\* The accept loop up to the first recv of a connection.
LEMMA AcceptStep ==
  ASSUME Typed, Ownership,
         AcceptStop \/ AcceptEmpty \/ AcceptFull \/ AcceptAborted \/ AcceptOk
  PROVE  ServerTypes' /\ Ownership' /\ UNCHANGED <<worker, answers, queue>>
<1>1. CASE AcceptStop \/ AcceptEmpty \/ AcceptFull
  <2>1. ServerTypes' /\ UNCHANGED <<worker, answers, queue>>
    BY <1>1 DEF AcceptStop, AcceptEmpty, AcceptFull, kernel, history, Typed, ServerTypes
  <2>2. Ownership'
    BY <1>1, OwnedLoop DEF AcceptStop, AcceptEmpty, AcceptFull, AcceptBegin, kernel, history
  <2>3. QED
    BY <2>1, <2>2
<1>2. CASE AcceptAborted
  <2>1. backlog # <<>> /\ backlog' = Tail(backlog) /\ backlog' \in Seq(Clients)
    BY <1>2, Shifted DEF AcceptAborted, Typed, ServerTypes
  <2>2. ServerTypes' /\ UNCHANGED <<worker, answers, queue>>
    BY <1>2, <2>1 DEF AcceptAborted, history, Typed, ServerTypes
  <2>3. Ownership'
    BY <1>2, <2>1, OwnedLoop DEF AcceptAborted, AcceptBegin, history
  <2>4. QED
    BY <2>2, <2>3
<1>3. CASE AcceptOk
  <2>1. backlog' \in Seq(Clients) /\ Head(backlog) \in Clients
    BY <1>3, Shifted DEF AcceptOk, Typed, ServerTypes
  <2>2. client_fd' \in Fds /\ table' \in [Fds -> Clients \cup {Free, Listener}]
    BY <1>3, <2>1, OwnedAccept DEF Typed, ServerTypes
  <2>3. ServerTypes' /\ UNCHANGED <<worker, answers, queue>>
    BY <1>3, <2>1, <2>2 DEF AcceptOk, history, Typed, ServerTypes
  <2>4. QED
    BY <1>3, <2>3, OwnedAccept
<1>4. QED
  BY <1>1, <1>2, <1>3

\* The accept loop while it reads from a connection.
LEMMA RecvStep ==
  ASSUME Typed, Ownership, RecvAgain \/ RecvDone \/ RecvFails, alive
  PROVE  ServerTypes' /\ Ownership' /\ UNCHANGED <<worker, answers>>
<1>1. CASE RecvAgain
  BY <1>1, OwnedFrame DEF RecvAgain, kernel, history, Typed, ServerTypes, Has, Closed
<1>2. CASE RecvDone
  <2>1. queue' \in Seq(Tasks)
    BY <1>2, OwnedReceive, Appended DEF RecvDone, Typed, ServerTypes
  <2>2. ServerTypes' /\ UNCHANGED <<worker, answers>>
    BY <1>2, <2>1 DEF RecvDone, history, Typed, ServerTypes
  <2>3. QED
    BY <1>2, <2>2, OwnedReceive
<1>3. CASE RecvFails
  <2>1. Peer \in Clients
    BY <1>3 DEF RecvFails, Ownership, Reading, Peer
  <2>2. ServerTypes' /\ UNCHANGED <<worker, answers>>
    BY <1>3, <2>1 DEF RecvFails, kernel, Typed, ServerTypes
  <2>3. shutdown \in {"no", "stopping"}
    BY <1>3 DEF RecvFails, Ownership, Listening, alive, Typed, ServerTypes
  <2>4. Ownership'
    BY <1>3, <2>3, OwnedLoop DEF RecvFails, kernel
  <2>5. QED
    BY <2>2, <2>4
<1>4. QED
  BY <1>1, <1>2, <1>3

\* A worker goes through the steps there are with a task from the queue.
LEMMA WorkerTypes ==
  ASSUME NEW S, {"handling", "sending", "closing", "crashed"} \subseteq S,
         worker \in [Workers -> WorkerStates(S)], queue \in Seq(Tasks),
         NEW w \in Workers, Work(w)
  PROVE  worker' \in [Workers -> WorkerStates(S)]
<1>1. CASE Take(w)
  <2>1. Head(queue) \in Tasks
    BY <1>1, Shifted DEF Take
  <2>2. QED
    BY <1>1, <2>1 DEF Take, WorkerStates
<1>2. CASE Respond(w) \/ Refuse(w) \/ Crash(w) \/ SendMsg(w)
  <2>1. worker[w] \in [pc : S, task : Tasks]
    BY <1>2 DEF Respond, Refuse, Crash, SendMsg, At, WorkerStates, Idle
  <2>2. PICK pc \in S : worker' = [worker EXCEPT ![w].pc = pc]
    BY <1>2 DEF Respond, Refuse, Crash, SendMsg, Goto
  <2>3. QED
    BY <2>1, <2>2 DEF WorkerStates
<1>3. CASE SendBroken(w) \/ CloseConnection(w)
  BY <1>3 DEF SendBroken, CloseConnection, WorkerStates
<1>4. QED
  BY <1>1, <1>2, <1>3 DEF Work

\* A step from one place of a worker's way to another keeps its task.
LEMMA SameTask ==
  ASSUME Typed, NEW w \in Workers, NEW pc \in Steps \ {"notifying"}, worker[w].pc \in Steps \ {"notifying"},
         worker' = [worker EXCEPT ![w].pc = pc]
  PROVE  \A v \in Workers :
           /\ Has(v)' <=> Has(v)
           /\ Has(v) => worker'[v].task = worker[v].task /\ (Closed(v)' <=> Closed(v))
<1>1. worker[w] \in [pc : Steps, task : Tasks]
  BY DEF Typed, WorkerStates, Idle, Steps
<1>2. worker'[w] = [worker[w] EXCEPT !.pc = pc] /\ \A v \in Workers \ {w} : worker'[v] = worker[v]
  BY DEF Typed
<1>3. Has(w) /\ Has(w)' /\ ~Closed(w) /\ ~Closed(w)' /\ worker'[w].task = worker[w].task
  BY <1>1, <1>2 DEF Has, Closed, Idle, Steps
<1>4. QED
  BY <1>2, <1>3 DEF Has, Closed

\* A worker takes a task and handles it.
LEMMA HandleStep ==
  ASSUME Typed, Ownership, NEW w \in Workers, Take(w) \/ Respond(w) \/ Refuse(w) \/ Crash(w)
  PROVE  ServerTypes' /\ Ownership' /\ UNCHANGED <<answers, abandoned>>
<1>1. CASE Take(w)
  <2>1. queue' \in Seq(Tasks)
    BY <1>1, Shifted DEF Take, Typed, ServerTypes
  <2>2. ServerTypes' /\ UNCHANGED <<answers, abandoned>>
    BY <1>1, <2>1 DEF Take, kernel, loop, history, Typed, ServerTypes
  <2>3. QED
    BY <1>1, <2>2, OwnedTake
<1>2. CASE Respond(w) \/ Refuse(w) \/ Crash(w)
  <2>1. /\ UNCHANGED <<table, kernel, loop, queue, history>>
        /\ worker[w].pc = "handling"
        /\ \E pc \in Steps \ {"notifying"} : worker' = [worker EXCEPT ![w].pc = pc]
        /\ \/ shutdown' \in {shutdown, "dead"}
           \/ shutdown = "no" /\ shutdown' = "stopping"
    BY <1>2 DEF Respond, Refuse, Crash, At, Goto, Steps
  <2>2. apc # "off"
    BY <2>1 DEF Ownership, Quiet, Idle
  <2>3. ServerTypes' /\ UNCHANGED <<answers, abandoned>>
    BY <2>1 DEF kernel, loop, history, Typed, ServerTypes
  <2>4. \A v \in Workers :
           /\ Has(v)' <=> Has(v)
           /\ Has(v) => worker'[v].task = worker[v].task /\ (Closed(v)' <=> Closed(v))
    BY <2>1, SameTask DEF Steps
  <2>5. Ownership'
    BY <2>1, <2>2, <2>4, OwnedFrame DEF kernel, loop
  <2>6. QED
    BY <2>3, <2>5
<1>3. QED
  BY <1>1, <1>2

(***************************************************************************)
(* A response goes to the client that asked: the descriptor refers to it,  *)
(* or to nothing after Stop.                                               *)
(***************************************************************************)
LEMMA SendStep ==
  ASSUME Typed, Ownership, NEW w \in Workers, SendMsg(w) \/ SendBroken(w), alive
  PROVE  ServerTypes' /\ Ownership' /\ (RightRecipient => RightRecipient') /\ UNCHANGED abandoned
<1>1. CASE SendMsg(w)
  <2>1. /\ UNCHANGED <<table, kernel, loop, queue, shutdown, abandoned>>
        /\ worker[w].pc = "sending"
        /\ worker' = [worker EXCEPT ![w].pc = "closing"]
    BY <1>1 DEF SendMsg, At, Goto
  <2> PICK t, target : t = worker[w].task /\ target = table[t.fd]
    OBVIOUS
  <2>2. answers' = IF target \in Clients /\ client[target] # "reset"
                   THEN [answers EXCEPT ![target] = @ \cup {t.client}] ELSE answers
    BY <1>1 DEF SendMsg
  <2>3. Has(w) /\ ~Closed(w)
    BY <2>1 DEF Has, Closed, Idle
  <2>4. t \in Tasks /\ t.client \in Clients /\ t.fd \in Fds /\ TaskOpen(t)
    BY <2>3, Elements DEF Ownership, Working
  <2>5. target \in Clients => target = t.client
    <3>1. CASE table[t.fd] = t.client
      BY <3>1
    <3>2. CASE shutdown \in {"stopped", "destroyed"} /\ t.fd = client_fd
      BY <2>4, <3>2, ServerAssumption DEF Ownership, Listening
    <3>3. QED
      BY <2>4, <3>1, <3>2 DEF TaskOpen, Owns, alive
  <2>6. answers' \in [Clients -> SUBSET Clients] /\ (RightRecipient => RightRecipient')
    BY <2>2, <2>4, <2>5 DEF RightRecipient, Typed, ServerTypes
  <2>7. ServerTypes'
    BY <2>1, <2>6 DEF kernel, loop, Typed, ServerTypes
  <2>8. \A v \in Workers :
           /\ Has(v)' <=> Has(v)
           /\ Has(v) => worker'[v].task = worker[v].task /\ (Closed(v)' <=> Closed(v))
    BY <2>1, SameTask DEF Steps
  <2>9. Ownership'
    BY <2>1, <2>8, OwnedFrame DEF kernel, loop
  <2>10. QED
    BY <2>1, <2>6, <2>7, <2>9
<1>2. CASE SendBroken(w)
  BY <1>2, OwnedFrame
     DEF SendBroken, kernel, loop, history, Typed, ServerTypes, Has, Closed, RightRecipient
<1>3. QED
  BY <1>1, <1>2

\* The shutdown of the server.
LEMMA ManageStep ==
  ASSUME Typed, Ownership, Manage
  PROVE  ServerTypes' /\ Ownership' /\ UNCHANGED <<worker, answers, abandoned, queue>>
<1>1. CASE RequestStop \/ Terminate
  BY <1>1, OwnedFrame DEF RequestStop, Terminate, kernel, loop, history, Typed, ServerTypes, Has, Closed
<1>2. CASE Stop \/ Destroy
  <2>1. table' \in [Fds -> Clients \cup {Free, Listener}]
    BY <1>2 DEF Stop, Destroy, Close, Typed, ServerTypes
  <2>2. ServerTypes' /\ UNCHANGED <<worker, answers, abandoned, queue>>
    BY <1>2, <2>1 DEF Stop, Destroy, kernel, loop, history, Typed, ServerTypes
  <2>3. QED
    BY <1>2, <2>2, OwnedStop
<1>3. QED
  BY <1>1, <1>2 DEF Manage


\* The worker closes its task's descriptor, and with it the task's connection.
LEMMA CloseStep ==
  ASSUME Typed, Ownership, NEW w \in Workers, CloseConnection(w)
  PROVE  /\ ServerTypes' /\ Ownership' /\ UNCHANGED <<answers, abandoned>>
         /\ \A f \in Fds : table'[f] # worker[w].task.client
<1>1. /\ worker[w].pc = "closing" /\ worker' = [worker EXCEPT ![w] = Idle]
      /\ table' = Close(table, worker[w].task.fd)
      /\ UNCHANGED <<kernel, loop, queue, shutdown, history>>
  BY DEF CloseConnection, At
<1>2. table' \in [Fds -> Clients \cup {Free, Listener}]
  BY <1>1 DEF Close, Typed, ServerTypes
<1>3. ServerTypes' /\ UNCHANGED <<answers, abandoned>>
  BY <1>1, <1>2 DEF kernel, loop, history, Typed, ServerTypes
<1>4. /\ worker' \in [Workers -> WorkerStates(Steps)]
      /\ worker'[w] = Idle /\ \A v \in Workers \ {w} : worker'[v] = worker[v]
  BY <1>1 DEF Typed, WorkerStates
<1>5. QED
  BY <1>1, <1>3, <1>4, OwnedClose DEF kernel, loop, At

-----------------------------------------------------------------------------
(* The server.                                                             *)

TCPSteps == {"handling", "sending", "closing", "crashed"}
ServerInvariant == TypeOK /\ Ownership /\ RightRecipient

\* Every step of the server keeps the types, the ownership and the answers in order.
LEMMA ServerStep ==
  ASSUME ServerInvariant, [Next]_vars
  PROVE  ServerInvariant'
<1>1. /\ worker \in [Workers -> WorkerStates(TCPSteps)] /\ Ownership /\ RightRecipient
      /\ ServerTypes /\ queue \in Seq(Tasks)
  BY DEF ServerInvariant, TypeOK, ServerTypes, TCPSteps
<1>2. Typed
  BY <1>1 DEF Typed, WorkerStates, TCPSteps, Steps
<1>3. SUFFICES /\ ServerTypes' /\ worker' \in [Workers -> WorkerStates(TCPSteps)]
               /\ Ownership' /\ RightRecipient'
  BY DEF ServerInvariant, TypeOK, TCPSteps
<1>4. CASE Environment
  BY <1>1, <1>2, <1>4, EnvironmentStep DEF RightRecipient
<1>5. CASE (Start \/ StartFails) /\ alive
  BY <1>1, <1>2, <1>5, StartStep DEF RightRecipient
<1>6. CASE AcceptIncoming /\ alive
  <2>1. ServerTypes' /\ Ownership' /\ UNCHANGED <<worker, answers>>
    BY <1>1, <1>2, <1>6, AcceptStep, RecvStep DEF AcceptIncoming
  <2>2. QED
    BY <1>1, <2>1 DEF RightRecipient
<1>7. ASSUME NEW w \in Workers, Work(w), alive
      PROVE  /\ ServerTypes' /\ worker' \in [Workers -> WorkerStates(TCPSteps)]
             /\ Ownership' /\ RightRecipient'
  <2>1. worker' \in [Workers -> WorkerStates(TCPSteps)]
    BY <1>1, <1>7, WorkerTypes DEF TCPSteps
  <2>2. CASE Take(w) \/ Respond(w) \/ Refuse(w) \/ Crash(w)
    BY <1>1, <1>2, <2>1, <2>2, HandleStep DEF RightRecipient
  <2>3. CASE SendMsg(w) \/ SendBroken(w)
    BY <1>1, <1>2, <1>7, <2>1, <2>3, SendStep
  <2>4. CASE CloseConnection(w)
    BY <1>1, <1>2, <2>1, <2>4, CloseStep DEF RightRecipient
  <2>5. QED
    BY <1>7, <2>2, <2>3, <2>4 DEF Work
<1>8. CASE Manage
  BY <1>1, <1>2, <1>8, ManageStep DEF RightRecipient
<1>9. CASE UNCHANGED vars
  <2>1. UNCHANGED <<table, backlog, client, inbox, sockfd, client_fd, errno, apc,
                    queue, worker, shutdown, answers, abandoned>>
    BY <1>9 DEF vars, kernel, loop, history
  <2>2. ServerTypes' /\ RightRecipient'
    BY <1>1, <2>1 DEF ServerTypes, RightRecipient
  <2>3. Ownership'
    BY <1>1, <1>2, <2>1, OwnedFrame DEF Has, Closed
  <2>4. QED
    BY <1>1, <2>1, <2>2, <2>3
<1>10. QED
  BY <1>4, <1>5, <1>6, <1>7, <1>8, <1>9 DEF Next

\* Nothing is open and nobody has anything when the process starts.
LEMMA FreshOwned ==
  ASSUME Fresh, sockfd \in Fds \cup {NoFd}, client_fd \in Fds \cup {NoFd}
  PROVE  TypeOK /\ Ownership /\ RightRecipient
<1>1. ServerTypes
  BY EmptySeq DEF Fresh, ServerTypes, Messages
<1>2. worker \in [Workers -> WorkerStates(TCPSteps)]
  BY DEF Fresh, WorkerStates
<1>3. RightRecipient
  BY DEF Fresh, RightRecipient
<1>4. /\ DOMAIN backlog = {} /\ DOMAIN queue = {} /\ \A w \in Workers : ~Has(w)
      /\ \A f \in Fds : table[f] \notin Clients
  BY ServerAssumption DEF Fresh, Has
<1>5. Ownership
  BY <1>4 DEF Fresh, Ownership, Quiet, Listening, Backlogged, Opened, Reading, Queued, Working
<1>6. QED
  BY <1>1, <1>2, <1>3, <1>5 DEF TypeOK, TCPSteps

\* The invariant of the server, from which the theorems below follow.
LEMMA ServerInvariantHolds == Spec => []ServerInvariant
<1>1. Init => ServerInvariant
  BY FreshOwned DEF Init, ServerInvariant
<1>2. ServerInvariant /\ [Next]_vars => ServerInvariant'
  BY ServerStep
<1>3. QED
  BY <1>1, <1>2, PTL DEF Spec

(***************************************************************************)
(* The variables of the accept loop, the pool and the kernel keep their    *)
(* types; a worker's task is always a descriptor with a connection.        *)
(***************************************************************************)
THEOREM ServerTypeCorrect == Spec => []TypeOK
<1>1. ServerInvariant => TypeOK
  BY DEF ServerInvariant
<1>2. QED
  BY <1>1, ServerInvariantHolds, PTL

(***************************************************************************)
(* However descriptors are reused, a task owns its descriptor until its    *)
(* worker closes it (close_connection), no two tasks share one, and the    *)
(* accept loop reads from none of them.                                    *)
(***************************************************************************)
THEOREM DescriptorsOwned == Spec => []FdOwnership
<1>1. ServerInvariant => FdOwnership
  <2> SUFFICES ASSUME ServerInvariant PROVE FdOwnership
    OBVIOUS
  <2>1. Quiet /\ Reading /\ Queued /\ Working
    BY DEF ServerInvariant, Ownership
  <2>2. \A w \in Workers : Has(w) => ~Closed(w)
    BY DEF ServerInvariant, TypeOK, WorkerStates, Has, Closed
  <2>3. \A w \in Workers : w \in Busy <=> Has(w)
    BY DEF Busy, Has
  <2>4. Busy \subseteq Workers
    BY DEF Busy
  <2>5. QED
    BY <2>1, <2>2, <2>3, <2>4 DEF FdOwnership, Reading, Queued, Working, TaskOpen
<1>2. QED
  BY <1>1, ServerInvariantHolds, PTL

(***************************************************************************)
(* A client gets the response to its own request and no other: send goes   *)
(* to whatever the descriptor refers to, which is the task's connection.   *)
(***************************************************************************)
THEOREM RecipientsRight == Spec => []RightRecipient
<1>1. ServerInvariant => RightRecipient
  BY DEF ServerInvariant
<1>2. QED
  BY <1>1, ServerInvariantHolds, PTL


-----------------------------------------------------------------------------
(* Leaks.                                                                  *)

\* Who has a connection, without the set of busy workers.
LEMMA Hands ==
  ASSUME NEW c
  PROVE  InHands(c) <=> \/ apc = "recv" /\ table[client_fd] = c
                        \/ \E i \in DOMAIN queue : queue[i].client = c
                        \/ \E w \in Workers : Has(w) /\ worker[w].task.client = c
BY DEF InHands, Busy, Has, Peer

\* The same after a step.
LEMMA HandsNext ==
  ASSUME NEW c
  PROVE  InHands(c)' <=> \/ apc' = "recv" /\ table'[client_fd'] = c
                         \/ \E i \in DOMAIN queue' : queue'[i].client = c
                         \/ \E w \in Workers : Has(w)' /\ worker'[w].task.client = c
BY DEF InHands, Busy, Has, Peer

\* Nobody lets go of a connection when the loop, the queue and the tasks stay.
LEMMA HandsFrame ==
  ASSUME UNCHANGED queue, apc = "recv" => UNCHANGED <<table, client_fd, apc>>,
         \A w \in Workers : Has(w) => Has(w)' /\ worker'[w].task = worker[w].task
  PROVE  \A c \in Clients : InHands(c) => InHands(c)'
BY Hands, HandsNext

\* A connection whose descriptor is closed by its worker was that worker's alone.
LEMMA LeaksClose ==
  ASSUME Typed, Ownership, LeaksKnown, NEW w \in Workers, CloseConnection(w)
  PROVE  LeaksKnown'
<1>1. /\ worker' = [worker EXCEPT ![w] = Idle] /\ worker[w].pc = "closing"
      /\ table' = Close(table, worker[w].task.fd)
      /\ UNCHANGED <<apc, client_fd, queue, abandoned>>
  BY DEF CloseConnection, loop, history, At
<1>2. /\ \A f \in Fds : table'[f] # worker[w].task.client
      /\ \A f \in Fds : table'[f] \in {table[f], Free}
      /\ Reading /\ Reading'
  BY <1>1, CloseStep DEF Close, Typed, ServerTypes, Ownership
<1>3. SUFFICES ASSUME NEW c \in Clients, NEW f \in Fds, table'[f] = c, c \notin abandoned
               PROVE  InHands(c)'
  BY <1>1 DEF LeaksKnown, Connections
<1>4. c # worker[w].task.client /\ table[f] = c
  BY <1>2, <1>3, ServerAssumption
<1>5. InHands(c)
  BY <1>3, <1>4 DEF LeaksKnown, Connections
<1>6. apc = "recv" => table'[client_fd] = table[client_fd]
  BY <1>1, <1>2, ServerAssumption DEF Reading
<1>7. \A v \in Workers \ {w} : worker'[v] = worker[v] /\ (Has(v)' <=> Has(v))
  BY <1>1 DEF Typed, Has
<1>8. QED
  BY <1>1, <1>4, <1>5, <1>6, <1>7, Hands, HandsNext

\* No step loses a connection except by giving it up in the accept loop.
LEMMA LeaksStep ==
  ASSUME Typed, Ownership, LeaksKnown, [Next]_vars
  PROVE  LeaksKnown'
<1>1. ASSUME \A f \in Fds : table'[f] \in Clients => table'[f] = table[f],
             abandoned \subseteq abandoned',
             \A c \in Clients : InHands(c) => InHands(c)' \/ c \in abandoned'
      PROVE  LeaksKnown'
  BY <1>1 DEF LeaksKnown, Connections
<1>2. CASE Environment
  BY <1>1, <1>2, EnvironmentStep, HandsFrame DEF Has
<1>3. CASE Start \/ StartFails
  <2>1. /\ UNCHANGED <<queue, worker, abandoned>> /\ apc # "recv"
        /\ \A f \in Fds : table'[f] \in Clients => table'[f] = table[f]
    <3>1. CASE Start
      BY <3>1, ServerAssumption DEF Start, history, Typed, ServerTypes
    <3>2. CASE StartFails
      BY <3>2 DEF StartFails, history, loop, Ownership, Quiet
    <3>3. QED
      BY <1>3, <3>1, <3>2
  <2>2. QED
    BY <1>1, <2>1, HandsFrame DEF Has
<1>4. CASE AcceptStop \/ AcceptEmpty \/ AcceptFull \/ AcceptAborted
  BY <1>1, <1>4, HandsFrame
     DEF AcceptStop, AcceptEmpty, AcceptFull, AcceptAborted, AcceptBegin, kernel, history, Has
<1>5. CASE AcceptOk
  <2> PICK d : d = Head(backlog)
    OBVIOUS
  <2>1. /\ UNCHANGED <<queue, worker>> /\ apc = "accept"
        /\ apc' = IF errno # "EAGAIN" THEN "recv" ELSE "accept"
        /\ abandoned' = abandoned \cup {c \in {d} : errno = "EAGAIN"}
    BY <1>5 DEF AcceptOk, AcceptBegin
  <2>2. client_fd' \in Fds /\ \A f \in Fds : table'[f] = IF f = client_fd' THEN d ELSE table[f]
    BY <1>5, OwnedAccept DEF Typed, ServerTypes
  <2>3. \A c \in Clients : InHands(c) => InHands(c)'
    BY <2>1, HandsFrame DEF Has
  <2>4. d \in abandoned' \/ InHands(d)'
    BY <2>1, <2>2, HandsNext
  <2>5. QED
    BY <2>1, <2>2, <2>3, <2>4 DEF LeaksKnown, Connections
<1>6. CASE RecvAgain
  BY <1>1, <1>6, HandsFrame DEF RecvAgain, kernel, history, Has
<1>7. CASE RecvDone /\ alive
  <2>1. /\ UNCHANGED <<table, worker, abandoned>> /\ Peer = table[client_fd]
        /\ queue' = Append(queue, [fd |-> client_fd, client |-> Peer, request |-> Received])
    BY <1>7 DEF RecvDone, history, Peer
  <2>2. /\ DOMAIN queue' = DOMAIN queue \cup {Len(queue) + 1}
        /\ \A i \in DOMAIN queue : queue'[i] = queue[i]
        /\ queue'[Len(queue) + 1].client = table[client_fd]
    BY <1>7, <2>1, OwnedReceive, Appended DEF Typed, ServerTypes
  <2>3. \A c \in Clients : InHands(c) => InHands(c)'
    BY <2>1, <2>2, Hands, HandsNext DEF Has
  <2>4. QED
    BY <1>1, <2>1, <2>3
<1>8. CASE RecvFails
  <2>1. UNCHANGED <<table, queue, worker>> /\ abandoned' = abandoned \cup {table[client_fd]}
    BY <1>8 DEF RecvFails, Peer
  <2>2. QED
    BY <1>1, <2>1, Hands, HandsNext DEF Has
<1>9. ASSUME NEW w \in Workers, Take(w)
      PROVE  LeaksKnown'
  <2>1. /\ UNCHANGED <<table, client_fd, apc, abandoned>>
        /\ worker[w].pc = "idle" /\ queue # <<>> /\ queue' = Tail(queue)
        /\ worker' = [worker EXCEPT ![w] = [pc |-> "handling", task |-> Head(queue)]]
    BY <1>9 DEF Take, At, loop, history
  <2>2. /\ \A i \in DOMAIN queue : i # 1 => i - 1 \in DOMAIN queue' /\ queue'[i - 1] = queue[i]
        /\ queue[1] = Head(queue)
    BY <2>1, Shifted DEF Typed, ServerTypes
  <2>3. ~Has(w) /\ Has(w)' /\ worker'[w].task = Head(queue)
    BY <2>1, Elements DEF Has, Idle, Steps, Typed
  <2>4. \A v \in Workers \ {w} : worker'[v] = worker[v] /\ (Has(v)' <=> Has(v))
    BY <2>1 DEF Typed, Has
  <2>5. \A c \in Clients : InHands(c) => InHands(c)'
    BY <2>1, <2>2, <2>3, <2>4, Hands, HandsNext
  <2>6. QED
    BY <1>1, <2>1, <2>5
<1>10. ASSUME NEW w \in Workers, Respond(w) \/ Refuse(w) \/ Crash(w) \/ SendMsg(w) \/ SendBroken(w)
       PROVE  LeaksKnown'
  <2>1. /\ UNCHANGED <<table, client_fd, apc, queue, abandoned>>
        /\ \/ UNCHANGED worker
           \/ /\ worker[w].pc \in {"handling", "sending"}
              /\ \E pc \in Steps \ {"notifying"} : worker' = [worker EXCEPT ![w].pc = pc]
    BY <1>10 DEF Respond, Refuse, Crash, SendMsg, SendBroken, At, Goto, Steps, loop, history
  <2>2. \A v \in Workers : Has(v) => Has(v)' /\ worker'[v].task = worker[v].task
    <3>1. CASE UNCHANGED worker
      BY <3>1 DEF Has
    <3>2. CASE ~UNCHANGED worker
      BY <2>1, <3>2, SameTask DEF Steps
    <3>3. QED
      BY <3>1, <3>2
  <2>3. QED
    BY <1>1, <2>1, <2>2, HandsFrame
<1>11. CASE Manage
  <2>1. /\ UNCHANGED <<queue, worker, abandoned>>
        /\ \A f \in Fds : table'[f] \in {table[f], Free}
        /\ apc = "recv" => UNCHANGED <<table, client_fd, apc>>
    BY <1>11 DEF Manage, RequestStop, Stop, Destroy, Terminate, Close, loop, history, Ownership, Listening, Typed, ServerTypes
  <2>2. QED
    BY <1>1, <2>1, HandsFrame, ServerAssumption DEF Has
<1>12. CASE UNCHANGED vars
  BY <1>1, <1>12, HandsFrame DEF vars, loop, history, Has
<1>13. QED
  BY <1>2, <1>3, <1>4, <1>5, <1>6, <1>7, <1>8, <1>9, <1>10, <1>11, <1>12, LeaksClose
     DEF Next, AcceptIncoming, Work

(***************************************************************************)
(* An open connection is being read, queued or handled, or AcceptIncoming  *)
(* gave it up: no worker and no shutdown leaks a descriptor.               *)
(***************************************************************************)
THEOREM LeaksAreKnown == Spec => []LeaksKnown
<1>1. Init => LeaksKnown
  BY ServerAssumption DEF Init, Fresh, LeaksKnown, Connections
<1>2. ServerInvariant => Typed /\ Ownership
  BY DEF ServerInvariant, TypeOK, Typed, WorkerStates, Steps
<1>3. ServerInvariant /\ LeaksKnown /\ [Next]_vars => LeaksKnown'
  BY <1>2, LeaksStep
<1>4. QED
  BY <1>1, <1>3, ServerInvariantHolds, PTL DEF Spec
=============================================================================
