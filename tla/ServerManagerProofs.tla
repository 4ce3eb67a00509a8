------------------------- MODULE ServerManagerProofs -------------------------
(***************************************************************************)
(* Proofs about ServerManager for any number of servers, signals and       *)
(* nested handlers.                                                        *)
(***************************************************************************)
EXTENDS ServerManager, SequenceTheorems, WellFoundedInduction, TLAPS

USE ManagerAssumption

-----------------------------------------------------------------------------
(* The invariant.                                                          *)

Frames == [phase : {"request", "join", "joining", "stop", "members"}, at : 0 .. Len(Configs)]

Typed ==
  /\ mpc \in {"configure", "start", "open", "move", "discard", "install", "wait", "return"}
  /\ done \in 0 .. Len(Configs) - 1
  /\ owner \in {"none", "temporary", "global"}
  /\ pool \in [Servers -> {"none", "joinable", "joined"}]
  /\ thread \in [Servers -> {"none", "running", "exited", "joined"}]
  /\ stop \in [Servers -> BOOLEAN]
  /\ stack \in [Threads -> Seq(Frames)]
  /\ stops \in [Servers -> Nat]
  /\ process \in {"running", "dead", "exited"}

\* A run of the destructor that has left request is at some server.
AtServer ==
  \A t \in Threads : \A k \in DOMAIN stack[t] : stack[t][k].phase # "request" => stack[t][k].at \in Servers

\* How far main is: pools first, one owner after the move, handlers at the end.
Order ==
  /\ \A i \in Servers : mpc # "configure" \/ i <= done => pool[i] = "joinable"
  /\ mpc \in {"discard", "install", "wait", "return"} => owner = "global"
  /\ installed <=> mpc \in {"wait", "return"}
  /\ ~installed => \A t \in Threads : stack[t] = <<>>

Past(f) == f.phase \in {"stop", "members"}
Joined(f, i) == Past(f) \/ (f.phase \in {"join", "joining"} /\ f.at > i)
Claims(f, i) == Joined(f, i) \/ f = Frame("joining", i)

(***************************************************************************)
(* A server's accept thread is joined by one run of the destructor, on     *)
(* whatever thread and however deep: the join of any other one throws.     *)
(***************************************************************************)
OneJoiner ==
  /\ \A t, u \in Threads : \A j \in DOMAIN stack[t], k \in DOMAIN stack[u] : \A i \in Servers :
       Claims(stack[t][j], i) /\ Claims(stack[u][k], i) => t = u /\ j = k
  /\ \A t \in Threads : \A k \in DOMAIN stack[t] : \A i \in Servers :
       /\ Joined(stack[t][k], i) => thread[i] = "joined"
       /\ stack[t][k] = Frame("joining", i) => thread[i] # "joined"

\* How often servers were stopped; a run that is not on top never goes on.
Counted ==
  /\ (\A t \in Threads : \A k \in DOMAIN stack[t] : ~Past(stack[t][k])) => \A i \in Servers : stops[i] = 0
  /\ \A t \in Threads : \A k \in DOMAIN stack[t] : \A i \in Servers :
       LET f == stack[t][k]
           next == process = "running" /\ k = 1 /\ f.at <= i
       IN /\ f.phase = "stop" => stops[i] <= 1 /\ (next => stops[i] = 0)
          /\ f.phase = "members" => stops[i] <= 2 /\ (next => stops[i] <= 1)

(***************************************************************************)
(* An accept thread with a handler on it joins the servers in order and    *)
(* fails at its own: it waits for servers below its own only.              *)
(***************************************************************************)
Below(f, i) ==
  /\ f.phase \in {"request", "join", "joining"}
  /\ f.phase = "join" => f.at <= i
  /\ f.phase = "joining" => f.at < i
Downward == \A i \in Servers : \A k \in DOMAIN stack[Accept(i)] : Below(stack[Accept(i)][k], i)

ManagerInvariant == Typed /\ AtServer /\ Order /\ OneJoiner /\ Counted /\ Downward


-----------------------------------------------------------------------------
(* What a step does to a stack.                                            *)

\* There is at least one server.
LEMMA SomeServer == Len(Configs) \in Nat /\ Len(Configs) >= 1 /\ 1 \in Servers
  <1>1. Len(Configs) \in Nat /\ Configs # <<>>
    BY LenProperties
  <1> QED BY <1>1, EmptySeq DEF Servers

\* The elements of a sequence with one more in front.
LEMMA Prepend ==
  ASSUME NEW S, NEW s \in Seq(S), NEW f \in S
  PROVE  /\ <<f>> \o s \in Seq(S)
         /\ Len(<<f>> \o s) = Len(s) + 1
         /\ (<<f>> \o s)[1] = f
         /\ \A k \in 2 .. Len(s) + 1 : (<<f>> \o s)[k] = s[k - 1]
  <1>1. <<f>> \in Seq(S) /\ Len(<<f>>) = 1 /\ <<f>>[1] = f
    OBVIOUS
  <1> QED BY <1>1, ConcatProperties

(***************************************************************************)
(* A signal or std::terminate puts a new run of the destructor on top of   *)
(* one stack: the runs below sink by one and are otherwise left alone.     *)
(***************************************************************************)
LEMMA EnterStack ==
  ASSUME Typed, NEW t \in Threads, Enter(t)
  PROVE  /\ stack' \in [Threads -> Seq(Frames)]
         /\ \A u \in Threads : stack[u] # <<>> => stack'[u] # <<>>
         /\ stack'[t] # <<>>
         /\ \A u \in Threads : \A k \in DOMAIN stack'[u] :
              \/ u = t /\ k = 1 /\ stack'[u][k] = Frame("request", 0)
              \/ u = t /\ k - 1 \in DOMAIN stack[u] /\ k # 1 /\ stack'[u][k] = stack[u][k - 1]
              \/ u # t /\ k \in DOMAIN stack[u] /\ stack'[u][k] = stack[u][k]
         /\ \A u \in Threads : \A k \in DOMAIN stack[u] :
              \E l \in DOMAIN stack'[u] : stack'[u][l] = stack[u][k]
  <1> DEFINE s == stack[t]
             r == <<Frame("request", 0)>> \o s
  <1>0. Frame("request", 0) \in Frames
    BY SomeServer DEF Frames, Frame
  <1>1. Frame("request", 0) \in Frames /\ s \in Seq(Frames) /\ stack \in [Threads -> Seq(Frames)]
    BY <1>0 DEF Typed
  <1>2. /\ r \in Seq(Frames) /\ Len(r) = Len(s) + 1 /\ r[1] = Frame("request", 0)
        /\ \A k \in 2 .. Len(s) + 1 : r[k] = s[k - 1]
    BY <1>1, Prepend
  <1>3. stack' = [stack EXCEPT ![t] = r]
    BY DEF Enter
  <1>4. stack'[t] = r /\ \A u \in Threads : u # t => stack'[u] = stack[u]
    BY <1>1, <1>3
  <1>5. /\ Len(s) \in Nat /\ DOMAIN s = 1 .. Len(s) /\ DOMAIN r = 1 .. Len(s) + 1
    BY <1>1, <1>2, LenProperties
  <1> HIDE DEF r, s
  <1>6. r # <<>>
    BY <1>2, <1>5
  <1>7. stack' \in [Threads -> Seq(Frames)]
    BY <1>1, <1>2, <1>3
  <1>8. ASSUME NEW u \in Threads, NEW k \in DOMAIN stack'[u]
        PROVE  \/ u = t /\ k = 1 /\ stack'[u][k] = Frame("request", 0)
               \/ u = t /\ k - 1 \in DOMAIN stack[u] /\ k # 1 /\ stack'[u][k] = stack[u][k - 1]
               \/ u # t /\ k \in DOMAIN stack[u] /\ stack'[u][k] = stack[u][k]
    <2>1. CASE u # t
      BY <2>1, <1>4
    <2>2. CASE u = t
      <3>1. k \in 1 .. Len(s) + 1 /\ stack'[u][k] = r[k]
        BY <2>2, <1>4, <1>5
      <3>2. k = 1 \/ (k \in 2 .. Len(s) + 1 /\ k - 1 \in 1 .. Len(s))
        BY <3>1, <1>5
      <3> QED BY <2>2, <3>1, <3>2, <1>2, <1>5 DEF s
    <2> QED BY <2>1, <2>2
  <1>9. ASSUME NEW u \in Threads, NEW k \in DOMAIN stack[u]
        PROVE  \E l \in DOMAIN stack'[u] : stack'[u][l] = stack[u][k]
    <2>1. CASE u # t
      BY <2>1, <1>4
    <2>2. CASE u = t
      <3>1. k \in 1 .. Len(s) /\ stack[u][k] = s[k]
        BY <2>2, <1>5 DEF s
      <3>2. k + 1 \in 2 .. Len(s) + 1 /\ k + 1 \in DOMAIN r /\ (k + 1) - 1 = k
        BY <3>1, <1>5
      <3>3. stack'[u][k + 1] = s[k]
        BY <2>2, <3>2, <1>2, <1>4
      <3> QED BY <2>2, <3>1, <3>2, <3>3, <1>4
    <2> QED BY <2>1, <2>2
  <1> QED BY <1>4, <1>6, <1>7, <1>8, <1>9

\* A step of the destructor changes the run on top and no other.
LEMMA GotoStack ==
  ASSUME Typed, NEW t \in Threads, stack[t] # <<>>, NEW phase, NEW i, Frame(phase, i) \in Frames,
         Goto(t, phase, i)
  PROVE  /\ stack' \in [Threads -> Seq(Frames)]
         /\ \A u \in Threads : DOMAIN stack'[u] = DOMAIN stack[u]
         /\ 1 \in DOMAIN stack[t] /\ Head(stack[t]) = stack[t][1]
         /\ stack'[t][1] = Frame(phase, i)
         /\ \A u \in Threads : \A k \in DOMAIN stack[u] : u # t \/ k # 1 => stack'[u][k] = stack[u][k]
         /\ \A u \in Threads : stack[u] # <<>> => stack'[u] # <<>>
  <1> DEFINE s == stack[t]
             r == <<Frame(phase, i)>> \o Tail(s)
  <1>1. s \in Seq(Frames) /\ s # <<>> /\ stack \in [Threads -> Seq(Frames)]
    BY DEF Typed
  <1>2. /\ Len(s) \in Nat /\ Len(s) >= 1 /\ DOMAIN s = 1 .. Len(s)
        /\ Tail(s) \in Seq(Frames) /\ Len(Tail(s)) = Len(s) - 1
        /\ \A k \in 1 .. Len(s) - 1 : Tail(s)[k] = s[k + 1]
        /\ Head(s) = s[1]
    BY <1>1, LenProperties, HeadTailProperties, EmptySeq
  <1>3. /\ r \in Seq(Frames) /\ Len(r) = Len(Tail(s)) + 1 /\ r[1] = Frame(phase, i)
        /\ \A k \in 2 .. Len(Tail(s)) + 1 : r[k] = Tail(s)[k - 1]
    BY <1>2, Prepend
  <1>4. stack' = [stack EXCEPT ![t] = r]
    BY DEF Goto
  <1>5. stack'[t] = r /\ \A u \in Threads : u # t => stack'[u] = stack[u]
    BY <1>1, <1>4
  <1>6. DOMAIN r = DOMAIN s
    BY <1>2, <1>3, LenProperties
  <1> HIDE DEF r
  <1>7. ASSUME NEW k \in DOMAIN s, k # 1
        PROVE  r[k] = s[k]
    <2>1. k \in 2 .. Len(s) /\ k - 1 \in 1 .. Len(s) - 1 /\ (k - 1) + 1 = k
      BY <1>2, <1>7
    <2>2. r[k] = Tail(s)[k - 1] /\ Tail(s)[k - 1] = s[(k - 1) + 1]
      BY <2>1, <1>2, <1>3
    <2> QED BY <2>1, <2>2
  <1>8. stack' \in [Threads -> Seq(Frames)]
    BY <1>1, <1>3, <1>4
  <1>9. r # <<>>
    BY <1>2, <1>6
  <1>10. \A u \in Threads : DOMAIN stack'[u] = DOMAIN stack[u]
    BY <1>5, <1>6
  <1>11. \A u \in Threads : \A k \in DOMAIN stack[u] : u # t \/ k # 1 => stack'[u][k] = stack[u][k]
    BY <1>5, <1>7
  <1>12. \A u \in Threads : stack[u] # <<>> => stack'[u] # <<>>
    BY <1>5, <1>9
  <1>13. 1 \in DOMAIN stack[t] /\ Head(stack[t]) = stack[t][1] /\ stack'[t][1] = Frame(phase, i)
    BY <1>2, <1>3, <1>5
  <1> QED BY <1>8, <1>10, <1>11, <1>12, <1>13

\* The step to the next server of a loop of the destructor, or to the next loop.
LEMMA AdvanceGoes ==
  ASSUME NEW t, NEW here, NEW next, Server(t) \in Servers, Advance(t, here, next)
  PROVE  \/ Server(t) < Len(Configs) /\ Server(t) + 1 \in Servers /\ Goto(t, here, Server(t) + 1)
         \/ Server(t) = Len(Configs) /\ Goto(t, next, 1)
  BY SomeServer DEF Advance, Servers

LEMMA FrameTyped ==
  ASSUME NEW phase \in {"request", "join", "joining", "stop", "members"}, NEW i \in Servers
  PROVE  /\ Frame(phase, i) \in Frames
         /\ Frame(phase, i).phase = phase /\ Frame(phase, i).at = i
  BY SomeServer DEF Frames, Frame, Servers

\* The run that takes a step is the first of its stack.
LEMMA TopFrame ==
  ASSUME Typed, AtServer, NEW t \in Threads, NEW phase, At(t, phase)
  PROVE  /\ stack[t] # <<>> /\ 1 \in DOMAIN stack[t] /\ stack[t][1] \in Frames
         /\ stack[t][1].phase = phase /\ stack[t][1].at = Server(t)
         /\ phase # "request" => Server(t) \in Servers /\ stack[t][1] = Frame(phase, Server(t))
  <1>1. stack[t] \in Seq(Frames) /\ stack[t] # <<>>
    BY DEF Typed, At
  <1>2. Head(stack[t]) = stack[t][1] /\ 1 \in DOMAIN stack[t] /\ stack[t][1] \in Frames
    BY <1>1, EmptySeq, LenProperties, HeadTailProperties, ElementOfSeq
  <1>3. stack[t][1].phase = phase /\ stack[t][1].at = Server(t)
    BY <1>2 DEF At, Server
  <1>4. phase # "request" => Server(t) \in Servers
    BY <1>2, <1>3 DEF AtServer
  <1>5. stack[t][1] = Frame(phase, Server(t))
    BY <1>2, <1>3 DEF Frames, Frame
  <1> QED BY <1>1, <1>2, <1>3, <1>4, <1>5

-----------------------------------------------------------------------------
(* Types.                                                                  *)

LEMMA LoopTyped ==
  ASSUME Typed, NEW here, NEW next, here # next, Loop(here, next)
  PROVE  /\ done' \in 0 .. Len(Configs) - 1 /\ done + 1 \in Servers
         /\ mpc = here /\ mpc' \in {here, next}
         /\ mpc' = here => done' = done + 1
         /\ mpc' # here => done + 1 = Len(Configs)
  <1>1. done \in 0 .. Len(Configs) - 1
    BY DEF Typed
  <1> QED BY <1>1, SomeServer DEF Loop, Servers

LEMMA AdvanceTyped ==
  ASSUME Typed, AtServer, NEW t \in Threads,
         NEW here \in {"join", "stop"}, NEW next \in {"stop", "members"},
         stack[t] # <<>>, Server(t) \in Servers, Advance(t, here, next)
  PROVE  stack' \in [Threads -> Seq(Frames)] /\ \A u \in Threads : stack[u] # <<>> => stack'[u] # <<>>
  <1>1. CASE Server(t) + 1 \in Servers /\ Goto(t, here, Server(t) + 1)
    BY <1>1, FrameTyped, GotoStack
  <1>2. CASE Goto(t, next, 1)
    BY <1>2, SomeServer, FrameTyped, GotoStack
  <1> QED BY <1>1, <1>2, AdvanceGoes

\* What may happen to the stacks: they keep their type, and none gets empty.
Grows ==
  /\ stack' \in [Threads -> Seq(Frames)]
  /\ \A u \in Threads : stack[u] # <<>> => stack'[u] # <<>>

LEMMA StackGrows ==
  ASSUME Typed, AtServer, Next
  PROVE  Grows
  <1>1. UNCHANGED stack => Grows
    BY DEF Typed, Grows
  <1>2. ASSUME NEW t \in Threads, Enter(t) PROVE Grows
    BY <1>2, EnterStack DEF Grows
  <1>3. ASSUME NEW t \in Threads, Terminate(t) PROVE Grows
    BY <1>1, <1>2, <1>3 DEF Terminate
  <1>4. CASE MainStep
    <2>1. CASE Wake
      BY <2>1, <1>2 DEF Wake, Threads
    <2>2. CASE configure_server \/ Start \/ Open \/ Move \/ Discard \/ Install
      BY <2>2, <1>1 DEF configure_server, Start, Open, Move, Discard, Install
    <2> QED BY <1>4, <2>1, <2>2 DEF MainStep
  <1>5. ASSUME NEW t \in Threads, Signal(t) PROVE Grows
    BY <1>1, <1>2, <1>5 DEF Signal
  <1>6. ASSUME NEW t \in Threads, RequestStops(t) PROVE Grows
    BY <1>6, SomeServer, FrameTyped, GotoStack DEF RequestStops, At, Grows
  <1>7. ASSUME NEW t \in Threads, JoinBegin(t) PROVE Grows
    <2>1. stack[t] # <<>> /\ Server(t) \in Servers
      BY <1>7, TopFrame DEF JoinBegin
    <2>2. CASE Goto(t, "joining", Server(t))
      BY <2>1, <2>2, FrameTyped, GotoStack DEF Grows
    <2> QED BY <1>3, <1>7, <2>2 DEF JoinBegin
  <1>8. ASSUME NEW t \in Threads, JoinEnd(t) PROVE Grows
    BY <1>8, TopFrame, AdvanceTyped DEF JoinEnd, Grows
  <1>9. ASSUME NEW t \in Threads, Stop(t) PROVE Grows
    BY <1>9, TopFrame, AdvanceTyped DEF Stop, Grows
  <1>10. ASSUME NEW t \in Threads, DestroyServers(t) PROVE Grows
    <2>1. stack[t] # <<>> /\ Server(t) \in Servers
      BY <1>10, TopFrame DEF DestroyServers
    <2>2. CASE Server(t) < Len(Configs) /\ Goto(t, "members", Server(t) + 1)
      <3>1. Server(t) + 1 \in Servers
        BY <2>1, <2>2, SomeServer DEF Servers
      <3> QED BY <2>1, <2>2, <3>1, FrameTyped, GotoStack DEF Grows
    <2> QED BY <1>1, <1>3, <1>10, <2>2 DEF DestroyServers
  <1>11. ASSUME NEW i \in Servers, WorkerThrows(i) PROVE Grows
    BY <1>3, <1>11 DEF WorkerThrows, Threads
  <1>12. ASSUME NEW i \in Servers, Silence(i) \/ AcceptReturns(i) PROVE Grows
    BY <1>1, <1>12 DEF Silence, AcceptReturns
  <1> QED BY <1>4, <1>5, <1>6, <1>7, <1>8, <1>9, <1>10, <1>11, <1>12 DEF Next, Destructor

LEMMA TypedStep == Typed /\ AtServer /\ Next => Typed'
  <1> SUFFICES ASSUME Typed, AtServer, Next PROVE Typed'
    OBVIOUS
  <1>1. stack' \in [Threads -> Seq(Frames)]
    BY StackGrows DEF Grows
  <1>2. CASE configure_server
    BY <1>1, <1>2, LoopTyped DEF configure_server, Typed
  <1>3. CASE Start
    BY <1>1, <1>3, LoopTyped DEF Start, Typed
  <1>4. CASE Open
    BY <1>1, <1>4, LoopTyped DEF Open, Typed
  <1>5. CASE Move \/ Discard \/ Install \/ Wake
    BY <1>1, <1>5 DEF Move, Discard, Install, Wake, Typed
  <1>6. ASSUME NEW t \in Threads, Signal(t) PROVE Typed'
    BY <1>1, <1>6 DEF Signal, Typed
  <1>7. ASSUME NEW t \in Threads, RequestStops(t) \/ JoinBegin(t) PROVE Typed'
    BY <1>1, <1>7 DEF RequestStops, JoinBegin, Terminate, Typed
  <1>8. ASSUME NEW t \in Threads, JoinEnd(t) PROVE Typed'
    BY <1>1, <1>8 DEF JoinEnd, Typed
  <1>9. ASSUME NEW t \in Threads, Stop(t) PROVE Typed'
    <2>1. Server(t) \in Servers
      BY <1>9, TopFrame DEF Stop
    <2>2. stops' \in [Servers -> Nat]
      BY <1>9, <2>1 DEF Stop, Typed
    <2> QED BY <1>1, <1>9, <2>2 DEF Stop, Typed
  <1>10. ASSUME NEW t \in Threads, DestroyServers(t) PROVE Typed'
    <2>1. Server(t) \in Servers
      BY <1>10, TopFrame DEF DestroyServers
    <2>2. stops' \in [Servers -> Nat]
      BY <1>10, <2>1 DEF DestroyServers, Typed
    <2> QED BY <1>1, <1>10, <2>2 DEF DestroyServers, Terminate, Typed
  <1>11. ASSUME NEW i \in Servers, WorkerThrows(i) \/ Silence(i) \/ AcceptReturns(i) PROVE Typed'
    BY <1>1, <1>11 DEF WorkerThrows, Silence, AcceptReturns, Terminate, Typed
  <1> QED
    BY <1>2, <1>3, <1>4, <1>5, <1>6, <1>7, <1>8, <1>9, <1>10, <1>11 DEF Next, MainStep, Destructor

-----------------------------------------------------------------------------
(* The order of main, and what follows from it: no destructor before the   *)
(* handlers are installed, and no pool without threads after that.         *)

LEMMA MainKeepsOrder ==
  ASSUME Typed, Order, MainStep
  PROVE  Order'
  <1>1. CASE configure_server
    <2>1. \A i \in Servers : mpc' # "configure" \/ i <= done' => pool'[i] = "joinable"
      <3> SUFFICES ASSUME NEW i \in Servers, mpc' # "configure" \/ i <= done' PROVE pool'[i] = "joinable"
        OBVIOUS
      <3>1. /\ done + 1 \in Servers /\ mpc = "configure" /\ done \in Int
            /\ mpc' = "configure" => done' = done + 1
            /\ mpc' # "configure" => done + 1 = Len(Configs)
        BY <1>1, LoopTyped DEF configure_server, Typed
      <3>2. i <= done + 1
        BY <3>1, SomeServer DEF Servers
      <3>3. i = done + 1 \/ i <= done
        BY <3>1, <3>2 DEF Servers
      <3>4. pool' = [pool EXCEPT ![done + 1] = "joinable"] /\ pool \in [Servers -> {"none", "joinable", "joined"}]
        BY <1>1 DEF configure_server, Typed
      <3> QED BY <3>1, <3>3, <3>4 DEF Order
    <2>2. mpc = "configure" /\ mpc' \in {"configure", "start"}
      BY <1>1, LoopTyped DEF configure_server
    <2> QED BY <1>1, <2>1, <2>2 DEF configure_server, Order
  <1>2. CASE Start
    <2>1. mpc = "start" /\ mpc' \in {"start", "open"}
      BY <1>2, LoopTyped DEF Start
    <2> QED BY <1>2, <2>1 DEF Start, Order
  <1>3. CASE Open
    <2>1. mpc = "open" /\ mpc' \in {"open", "move"}
      BY <1>3, LoopTyped DEF Open
    <2> QED BY <1>3, <2>1 DEF Open, Order
  <1>4. CASE Move
    BY <1>4 DEF Move, Order
  <1>5. CASE Discard
    BY <1>5 DEF Discard, Order
  <1>6. CASE Install
    BY <1>6 DEF Install, Order
  <1>7. CASE Wake
    BY <1>7 DEF Wake, Order
  <1> QED BY <1>1, <1>2, <1>3, <1>4, <1>5, <1>6, <1>7 DEF MainStep

\* Everybody else leaves main's variables alone and needs the handlers for a stack.
LEMMA OthersKeepOrder ==
  ASSUME Order, UNCHANGED <<mpc, done, owner, pool, installed>>, UNCHANGED stack \/ installed
  PROVE  Order'
  BY DEF Order

\* A thread has a run of the destructor only where a handler put it.
LEMMA StackInstalled ==
  ASSUME Order, NEW t \in Threads, stack[t] # <<>>
  PROVE  installed /\ \A i \in Servers : pool[i] = "joinable"
  BY DEF Order

LEMMA DestructorInstalled ==
  ASSUME Order, NEW t \in Threads, Destructor(t)
  PROVE  installed /\ \A i \in Servers : pool[i] = "joinable"
  <1>1. stack[t] # <<>>
    BY DEF Destructor, RequestStops, JoinBegin, JoinEnd, Stop, DestroyServers, At
  <1> QED BY <1>1, StackInstalled

LEMMA OrderStep ==
  ASSUME Typed, AtServer, Order, Next
  PROVE  Order'
  <1>1. CASE MainStep
    BY <1>1, MainKeepsOrder
  <1>2. ASSUME NEW t \in Threads, Signal(t) PROVE Order'
    BY <1>2, OthersKeepOrder DEF Signal
  <1>3. ASSUME NEW t \in Threads, Destructor(t) PROVE Order'
    <2>1. UNCHANGED <<mpc, done, owner, pool, installed>>
      BY <1>3 DEF Destructor, RequestStops, JoinBegin, JoinEnd, Stop, DestroyServers
    <2> QED BY <1>3, <2>1, DestructorInstalled, OthersKeepOrder
  <1>4. ASSUME NEW i \in Servers, WorkerThrows(i) \/ Silence(i) \/ AcceptReturns(i) PROVE Order'
    BY <1>4, OthersKeepOrder DEF WorkerThrows, Silence, AcceptReturns, Terminate
  <1> QED BY <1>1, <1>2, <1>3, <1>4 DEF Next

-----------------------------------------------------------------------------
(* One joiner per server.                                                  *)

\* A run that has just begun has no claim on any server.
LEMMA RequestClaimsNothing ==
  ASSUME NEW i \in Servers
  PROVE  ~Claims(Frame("request", 0), i) /\ ~Past(Frame("request", 0))
  BY DEF Claims, Joined, Past, Frame

LEMMA EnterKeepsJoiner ==
  ASSUME Typed, AtServer, OneJoiner, NEW t \in Threads, Enter(t), UNCHANGED thread
  PROVE  AtServer' /\ OneJoiner'
  <1> DEFINE Same(u, k, l) == l \in DOMAIN stack[u] /\ stack'[u][k] = stack[u][l]
                               /\ l = IF u = t THEN k - 1 ELSE k
  <1>1. ASSUME NEW u \in Threads, NEW k \in DOMAIN stack'[u], stack'[u][k] # Frame("request", 0)
        PROVE  \E l : Same(u, k, l)
    <2>1. \/ u = t /\ k - 1 \in DOMAIN stack[u] /\ stack'[u][k] = stack[u][k - 1]
          \/ u # t /\ k \in DOMAIN stack[u] /\ stack'[u][k] = stack[u][k]
      BY <1>1, EnterStack
    <2> QED BY <2>1
  <1>2. \A u \in Threads : \A k \in DOMAIN stack'[u] : k \in Nat
    <2>1. \A u \in Threads : stack'[u] \in Seq(Frames)
      BY EnterStack
    <2> QED BY <2>1, LenProperties
  <1>3. AtServer'
    <2> SUFFICES ASSUME NEW u \in Threads, NEW k \in DOMAIN stack'[u], stack'[u][k].phase # "request"
                 PROVE  stack'[u][k].at \in Servers
      BY DEF AtServer
    <2>1. PICK l : Same(u, k, l)
      BY <1>1 DEF Frame
    <2> QED BY <2>1 DEF AtServer
  <1>4. ASSUME NEW u \in Threads, NEW v \in Threads, NEW j \in DOMAIN stack'[u], NEW k \in DOMAIN stack'[v],
               NEW i \in Servers, Claims(stack'[u][j], i), Claims(stack'[v][k], i)
        PROVE  u = v /\ j = k
    <2>1. stack'[u][j] # Frame("request", 0) /\ stack'[v][k] # Frame("request", 0)
      BY <1>4, RequestClaimsNothing
    <2>2. PICK l : Same(u, j, l)
      BY <1>1, <2>1
    <2>3. PICK m : Same(v, k, m)
      BY <1>1, <2>1
    <2>4. u = v /\ l = m
      BY <1>4, <2>2, <2>3 DEF OneJoiner
    <2> QED BY <1>2, <2>2, <2>3, <2>4
  <1>5. ASSUME NEW u \in Threads, NEW k \in DOMAIN stack'[u], NEW i \in Servers
        PROVE  /\ Joined(stack'[u][k], i) => thread'[i] = "joined"
               /\ stack'[u][k] = Frame("joining", i) => thread'[i] # "joined"
    <2>1. CASE stack'[u][k] = Frame("request", 0)
      BY <2>1, RequestClaimsNothing DEF Claims
    <2>2. CASE stack'[u][k] # Frame("request", 0)
      <3>1. PICK l : Same(u, k, l)
        BY <1>1, <2>2
      <3> QED BY <3>1 DEF OneJoiner
    <2> QED BY <2>1, <2>2
  <1> QED BY <1>3, <1>4, <1>5 DEF OneJoiner

(***************************************************************************)
(* The top run of thread t goes on.  What it claims in addition nobody     *)
(* else claims, and what it has joined is joined.                          *)
(***************************************************************************)
LEMMA GotoKeepsJoiner ==
  ASSUME Typed, AtServer, OneJoiner, NEW t \in Threads, stack[t] # <<>>,
         NEW phase \in {"request", "join", "joining", "stop", "members"}, NEW n \in Servers,
         Goto(t, phase, n),
         \A i \in Servers : Claims(Frame(phase, n), i) =>
           \/ Claims(stack[t][1], i)
           \/ \A u \in Threads : \A k \in DOMAIN stack[u] : ~Claims(stack[u][k], i),
         \A i \in Servers : Joined(Frame(phase, n), i) => thread'[i] = "joined",
         \A i \in Servers : Frame(phase, n) = Frame("joining", i) => thread'[i] # "joined",
         \A i \in Servers : thread'[i] = thread[i] \/ (Claims(stack[t][1], i) /\ thread'[i] = "joined")
  PROVE  AtServer' /\ OneJoiner'
  <1>0. Frame(phase, n) \in Frames /\ Frame(phase, n).at = n
    BY FrameTyped
  <1>1. /\ \A u \in Threads : DOMAIN stack'[u] = DOMAIN stack[u]
        /\ 1 \in DOMAIN stack[t]
        /\ stack'[t][1] = Frame(phase, n)
        /\ \A u \in Threads : \A k \in DOMAIN stack[u] : u # t \/ k # 1 => stack'[u][k] = stack[u][k]
    BY <1>0, GotoStack
  <1>2. AtServer'
    BY <1>0, <1>1 DEF AtServer
  <1>3. ASSUME NEW u \in Threads, NEW k \in DOMAIN stack[u], NEW i \in Servers, u # t \/ k # 1,
               Claims(stack[u][k], i)
        PROVE  ~Claims(stack'[t][1], i) /\ ~Claims(stack[t][1], i)
    BY <1>1, <1>3 DEF OneJoiner
  <1>4. ASSUME NEW u \in Threads, NEW v \in Threads, NEW j \in DOMAIN stack'[u], NEW k \in DOMAIN stack'[v],
               NEW i \in Servers, Claims(stack'[u][j], i), Claims(stack'[v][k], i)
        PROVE  u = v /\ j = k
    <2>0. j \in DOMAIN stack[u] /\ k \in DOMAIN stack[v]
      BY <1>1
    <2>1. CASE u = t /\ j = 1
      <3>1. CASE v = t /\ k = 1
        BY <2>1, <3>1
      <3>2. CASE ~(v = t /\ k = 1)
        <4>1. stack'[v][k] = stack[v][k]
          BY <1>1, <2>0, <3>2
        <4> QED BY <1>3, <1>4, <2>0, <2>1, <3>2, <4>1
      <3> QED BY <3>1, <3>2
    <2>2. CASE ~(u = t /\ j = 1)
      <3>0. stack'[u][j] = stack[u][j]
        BY <1>1, <2>0, <2>2
      <3>1. CASE v = t /\ k = 1
        BY <1>3, <1>4, <2>0, <2>2, <3>0, <3>1
      <3>2. CASE ~(v = t /\ k = 1)
        <4>1. stack'[v][k] = stack[v][k]
          BY <1>1, <2>0, <3>2
        <4> QED BY <1>4, <2>0, <3>0, <4>1 DEF OneJoiner
      <3> QED BY <3>1, <3>2
    <2> QED BY <2>1, <2>2
  <1>5. ASSUME NEW u \in Threads, NEW k \in DOMAIN stack'[u], NEW i \in Servers
        PROVE  /\ Joined(stack'[u][k], i) => thread'[i] = "joined"
               /\ stack'[u][k] = Frame("joining", i) => thread'[i] # "joined"
    <2>1. CASE u = t /\ k = 1
      BY <1>1, <2>1
    <2>2. CASE ~(u = t /\ k = 1)
      <3>1. k \in DOMAIN stack[u] /\ stack'[u][k] = stack[u][k]
        BY <1>1, <2>2
      <3>2. Joined(stack[u][k], i) => thread[i] = "joined"
        BY <3>1 DEF OneJoiner
      <3>3. stack[u][k] = Frame("joining", i) => thread[i] # "joined" /\ ~Claims(stack[t][1], i)
        BY <1>3, <2>2, <3>1 DEF OneJoiner, Claims
      <3> QED BY <3>1, <3>2, <3>3
    <2> QED BY <2>1, <2>2
  <1> QED BY <1>2, <1>4, <1>5 DEF OneJoiner

\* The claims of a run by its phase.
LEMMA ClaimsOf ==
  ASSUME NEW n \in Servers, NEW i \in Servers
  PROVE  /\ Claims(Frame("join", n), i) <=> i < n
         /\ Claims(Frame("joining", n), i) <=> i <= n
         /\ Joined(Frame("join", n), i) <=> i < n
         /\ Joined(Frame("joining", n), i) <=> i < n
         /\ Joined(Frame("stop", n), i) /\ Joined(Frame("members", n), i)
         /\ Claims(Frame("stop", n), i) /\ Claims(Frame("members", n), i)
         /\ Frame("join", n) # Frame("joining", i)
         /\ Frame("stop", n) # Frame("joining", i)
         /\ Frame("members", n) # Frame("joining", i)
         /\ Frame("joining", n) = Frame("joining", i) <=> n = i
  BY SomeServer DEF Claims, Joined, Past, Frame, Servers

LEMMA TerminateKeepsJoiner ==
  ASSUME Typed, AtServer, OneJoiner, NEW t \in Threads, Terminate(t), UNCHANGED thread
  PROVE  AtServer' /\ OneJoiner'
  <1>1. CASE UNCHANGED stack
    BY <1>1 DEF AtServer, OneJoiner
  <1> QED BY <1>1, EnterKeepsJoiner DEF Terminate

LEMMA JoinBeginKeepsJoiner ==
  ASSUME Typed, AtServer, OneJoiner, NEW t \in Threads, JoinBegin(t)
  PROVE  AtServer' /\ OneJoiner'
  <1> DEFINE n == Server(t)
  <1>1. n \in Servers /\ stack[t] # <<>> /\ stack[t][1] = Frame("join", n) /\ 1 \in DOMAIN stack[t]
    BY TopFrame DEF JoinBegin
  <1>2. CASE Terminate(t)
    BY <1>2, TerminateKeepsJoiner DEF JoinBegin
  <1>3. CASE ~(thread[n] = "joined" \/ Joining(n) \/ Accept(n) = t) /\ Goto(t, "joining", n)
    <2> HIDE DEF n
    <2>1. UNCHANGED thread
      BY DEF JoinBegin
    <2>2. \A u \in Threads : \A k \in DOMAIN stack[u] : ~Claims(stack[u][k], n)
      BY <1>1, <1>3 DEF OneJoiner, Claims, Joining
    <2>3. \A i \in Servers : Claims(Frame("joining", n), i) => Claims(stack[t][1], i) \/ i = n
      <3> SUFFICES ASSUME NEW i \in Servers, i <= n PROVE i < n \/ i = n
        BY <1>1, ClaimsOf
      <3> QED BY <1>1, SomeServer DEF Servers
    <2>4. \A i \in Servers : Joined(Frame("joining", n), i) => thread'[i] = "joined"
      <3> SUFFICES ASSUME NEW i \in Servers, Joined(Frame("joining", n), i) PROVE thread[i] = "joined"
        BY <2>1
      <3>1. Joined(stack[t][1], i)
        BY <1>1, ClaimsOf
      <3> QED BY <1>1, <3>1 DEF OneJoiner
    <2>5. \A i \in Servers : Frame("joining", n) = Frame("joining", i) => thread'[i] # "joined"
      BY <1>1, <1>3, <2>1, ClaimsOf
    <2>6. \A i \in Servers : Claims(Frame("joining", n), i) =>
            \/ Claims(stack[t][1], i)
            \/ \A u \in Threads : \A k \in DOMAIN stack[u] : ~Claims(stack[u][k], i)
      BY <2>2, <2>3
    <2>7. Goto(t, "joining", n)
      BY <1>3
    <2> QED BY <1>1, <2>1, <2>4, <2>5, <2>6, <2>7, GotoKeepsJoiner
  <1> QED BY <1>2, <1>3 DEF JoinBegin

LEMMA JoinEndKeepsJoiner ==
  ASSUME Typed, AtServer, OneJoiner, NEW t \in Threads, JoinEnd(t)
  PROVE  AtServer' /\ OneJoiner'
  <1> DEFINE n == Server(t)
  <1>1. n \in Servers /\ stack[t] # <<>> /\ stack[t][1] = Frame("joining", n) /\ 1 \in DOMAIN stack[t]
    BY TopFrame DEF JoinEnd
  <1>2. /\ thread'[n] = "joined"
        /\ \A i \in Servers : i # n => thread'[i] = thread[i]
    BY <1>1 DEF JoinEnd, Typed
  <1>3. \/ n < Len(Configs) /\ n + 1 \in Servers /\ Goto(t, "join", n + 1)
        \/ n = Len(Configs) /\ Goto(t, "stop", 1)
    BY <1>1, AdvanceGoes DEF JoinEnd
  <1> HIDE DEF n
  <1>4. \A i \in Servers : i <= n => Claims(stack[t][1], i) /\ thread'[i] = "joined"
    <2> SUFFICES ASSUME NEW i \in Servers, i <= n PROVE Claims(stack[t][1], i) /\ thread'[i] = "joined"
      OBVIOUS
    <2>1. Claims(stack[t][1], i)
      BY <1>1, ClaimsOf
    <2>2. CASE i < n
      <3>1. Joined(stack[t][1], i) /\ i # n
        BY <1>1, <2>2, ClaimsOf DEF Servers
      <3> QED BY <1>1, <1>2, <2>1, <3>1 DEF OneJoiner
    <2> QED BY <1>1, <1>2, <2>1, <2>2, SomeServer DEF Servers
  <1>5. \A i \in Servers : thread'[i] = thread[i] \/ (Claims(stack[t][1], i) /\ thread'[i] = "joined")
    <2>1. n <= n
      BY <1>1 DEF Servers
    <2> QED BY <1>1, <1>2, <1>4, <2>1
  <1>6. CASE n + 1 \in Servers /\ Goto(t, "join", n + 1)
    <2>1. \A i \in Servers : i < n + 1 => i <= n
      BY <1>1 DEF Servers
    <2>2. \A i \in Servers : Claims(Frame("join", n + 1), i) => Claims(stack[t][1], i)
      BY <1>4, <1>6, <2>1, ClaimsOf
    <2>3. \A i \in Servers : Joined(Frame("join", n + 1), i) => thread'[i] = "joined"
      BY <1>4, <1>6, <2>1, ClaimsOf
    <2>4. \A i \in Servers : Frame("join", n + 1) # Frame("joining", i)
      BY <1>6, ClaimsOf
    <2> QED BY <1>1, <1>5, <1>6, <2>2, <2>3, <2>4, GotoKeepsJoiner
  <1>7. CASE n = Len(Configs) /\ Goto(t, "stop", 1)
    <2>1. \A i \in Servers : i <= n
      BY <1>7, SomeServer DEF Servers
    <2>2. \A i \in Servers : Frame("stop", 1) # Frame("joining", i)
      BY SomeServer, ClaimsOf
    <2> QED BY <1>1, <1>4, <1>5, <1>7, <2>1, <2>2, SomeServer, GotoKeepsJoiner
  <1> QED BY <1>3, <1>6, <1>7

LEMMA StopKeepsJoiner ==
  ASSUME Typed, AtServer, OneJoiner, NEW t \in Threads, Stop(t)
  PROVE  AtServer' /\ OneJoiner'
  <1> DEFINE n == Server(t)
  <1>1. n \in Servers /\ stack[t] # <<>> /\ stack[t][1] = Frame("stop", n) /\ 1 \in DOMAIN stack[t]
    BY TopFrame DEF Stop
  <1>2. UNCHANGED thread
    BY DEF Stop
  <1>3. \/ n + 1 \in Servers /\ Goto(t, "stop", n + 1)
        \/ Goto(t, "members", 1)
    BY <1>1, AdvanceGoes DEF Stop
  <1> HIDE DEF n
  <1>4. \A i \in Servers : Claims(stack[t][1], i) /\ thread'[i] = "joined"
    <2>1. \A i \in Servers : Claims(stack[t][1], i) /\ Joined(stack[t][1], i)
      BY <1>1, ClaimsOf
    <2> QED BY <1>1, <1>2, <2>1 DEF OneJoiner
  <1>5. ASSUME NEW phase \in {"stop", "members"}, NEW m \in Servers, Goto(t, phase, m)
        PROVE  AtServer' /\ OneJoiner'
    <2>1. \A i \in Servers : Frame(phase, m) # Frame("joining", i)
      BY ClaimsOf
    <2> QED BY <1>1, <1>2, <1>4, <1>5, <2>1, GotoKeepsJoiner
  <1> QED BY <1>3, <1>5, SomeServer

LEMMA JoinerStep ==
  ASSUME Typed, AtServer, Order, OneJoiner, Next
  PROVE  AtServer' /\ OneJoiner'
  <1> DEFINE Goal == AtServer' /\ OneJoiner'
  <1>1. UNCHANGED <<stack, thread>> => Goal
    BY DEF AtServer, OneJoiner
  <1>2. CASE configure_server \/ Start \/ Move \/ Discard \/ Install
    BY <1>1, <1>2 DEF configure_server, Start, Move, Discard, Install
  <1>3. CASE Open
    <2>0. mpc = "open" /\ UNCHANGED stack
      BY <1>3 DEF Open, Loop
    <2>1. \A u \in Threads : stack'[u] = <<>>
      BY <2>0 DEF Order
    <2>2. \A u \in Threads : DOMAIN stack'[u] = {}
      BY <2>1
    <2> QED BY <2>2 DEF AtServer, OneJoiner
  <1>4. CASE Wake
    BY <1>4, EnterKeepsJoiner DEF Wake, Threads
  <1>5. ASSUME NEW t \in Threads, Signal(t) PROVE Goal
    BY <1>1, <1>5, EnterKeepsJoiner DEF Signal
  <1>6. ASSUME NEW t \in Threads, RequestStops(t) PROVE Goal
    <2>1. stack[t] # <<>> /\ Goto(t, "join", 1) /\ UNCHANGED thread
      BY <1>6 DEF RequestStops, At
    <2>2. \A i \in Servers : ~(i < 1)
      BY SomeServer DEF Servers
    <2>3. \A i \in Servers : /\ ~Claims(Frame("join", 1), i) /\ ~Joined(Frame("join", 1), i)
                             /\ Frame("join", 1) # Frame("joining", i)
      BY <2>2, SomeServer, ClaimsOf
    <2> QED BY <2>1, <2>3, SomeServer, GotoKeepsJoiner
  <1>7. ASSUME NEW t \in Threads, JoinBegin(t) \/ JoinEnd(t) \/ Stop(t) PROVE Goal
    BY <1>7, JoinBeginKeepsJoiner, JoinEndKeepsJoiner, StopKeepsJoiner
  <1>8. ASSUME NEW t \in Threads, DestroyServers(t) PROVE Goal
    <2>1. Server(t) \in Servers
      BY <1>8, TopFrame DEF DestroyServers
    <2>2. pool[Server(t)] = "joinable"
      BY <1>8, <2>1, DestructorInstalled DEF Destructor
    <2> QED BY <1>8, <2>2, TerminateKeepsJoiner DEF DestroyServers
  <1>9. ASSUME NEW i \in Servers, WorkerThrows(i) PROVE Goal
    BY <1>9, TerminateKeepsJoiner DEF WorkerThrows, Threads
  <1>10. ASSUME NEW i \in Servers, Silence(i) PROVE Goal
    BY <1>1, <1>10 DEF Silence
  <1>11. ASSUME NEW i \in Servers, AcceptReturns(i) PROVE Goal
    <2>1. \A m \in Servers : thread'[m] = "joined" <=> thread[m] = "joined"
      BY <1>11 DEF AcceptReturns, Typed
    <2>2. UNCHANGED stack
      BY <1>11 DEF AcceptReturns
    <2> QED BY <2>1, <2>2 DEF AtServer, OneJoiner
  <1> QED
    BY <1>2, <1>3, <1>4, <1>5, <1>6, <1>7, <1>8, <1>9, <1>10, <1>11 DEF Next, MainStep, Destructor

-----------------------------------------------------------------------------
(* How often a server is stopped.                                          *)

\* No two runs are past the joins: each has joined the first server.
LEMMA OnePast ==
  ASSUME OneJoiner, NEW t \in Threads, NEW u \in Threads,
         NEW j \in DOMAIN stack[t], NEW k \in DOMAIN stack[u], Past(stack[t][j]), Past(stack[u][k])
  PROVE  t = u /\ j = k
  <1>1. Claims(stack[t][j], 1) /\ Claims(stack[u][k], 1)
    BY DEF Claims, Joined
  <1> QED BY <1>1, SomeServer DEF OneJoiner

\* A handler that starts stops nobody, and the runs below it will not go on.
LEMMA EnterKeepsCount ==
  ASSUME Typed, Counted, NEW t \in Threads, Enter(t), UNCHANGED <<stops, process>>
  PROVE  Counted'
  <1>1. (\A u \in Threads : \A k \in DOMAIN stack'[u] : ~Past(stack'[u][k]))
          => \A u \in Threads : \A k \in DOMAIN stack[u] : ~Past(stack[u][k])
    <2> SUFFICES ASSUME NEW u \in Threads, NEW k \in DOMAIN stack[u], Past(stack[u][k])
                 PROVE  \E v \in Threads : \E l \in DOMAIN stack'[v] : Past(stack'[v][l])
      OBVIOUS
    <2>1. \E l \in DOMAIN stack'[u] : stack'[u][l] = stack[u][k]
      BY EnterStack
    <2> QED BY <2>1
  <1>2. ASSUME NEW u \in Threads, NEW k \in DOMAIN stack'[u], NEW i \in Servers
        PROVE  LET f == stack'[u][k]
                   next == process' = "running" /\ k = 1 /\ f.at <= i
               IN /\ f.phase = "stop" => stops'[i] <= 1 /\ (next => stops'[i] = 0)
                  /\ f.phase = "members" => stops'[i] <= 2 /\ (next => stops'[i] <= 1)
    <2>1. CASE k = 1 /\ stack'[u][k] = Frame("request", 0)
      BY <2>1 DEF Frame
    <2>2. CASE k - 1 \in DOMAIN stack[u] /\ k # 1 /\ stack'[u][k] = stack[u][k - 1]
      BY <2>2 DEF Counted
    <2>3. CASE k \in DOMAIN stack[u] /\ stack'[u][k] = stack[u][k]
      BY <2>3 DEF Counted
    <2> QED BY <2>1, <2>2, <2>3, EnterStack
  <1> QED BY <1>1, <1>2 DEF Counted

\* Where the process dies, no run goes on.
LEMMA TerminateKeepsCount ==
  ASSUME Typed, Counted, NEW t \in Threads, Terminate(t), UNCHANGED stops
  PROVE  Counted'
  <1>1. CASE process' = "dead" /\ UNCHANGED stack
    BY <1>1 DEF Counted
  <1> QED BY <1>1, EnterKeepsCount DEF Terminate

\* A run that is not past the joins yet goes on and still is not.
LEMMA GotoKeepsCount ==
  ASSUME Typed, Counted, NEW t \in Threads, stack[t] # <<>>, ~Past(stack[t][1]),
         NEW phase \in {"join", "joining"}, NEW n \in Servers, Goto(t, phase, n),
         UNCHANGED <<stops, process>>
  PROVE  Counted'
  <1>0. Frame(phase, n) \in Frames /\ Frame(phase, n).phase = phase
    BY FrameTyped
  <1>1. /\ \A u \in Threads : DOMAIN stack'[u] = DOMAIN stack[u]
        /\ 1 \in DOMAIN stack[t]
        /\ stack'[t][1] = Frame(phase, n)
        /\ \A u \in Threads : \A k \in DOMAIN stack[u] : u # t \/ k # 1 => stack'[u][k] = stack[u][k]
    BY <1>0, GotoStack
  <1>2. ASSUME NEW u \in Threads, NEW k \in DOMAIN stack[u]
        PROVE  stack'[u][k] = stack[u][k] \/ (~Past(stack'[u][k]) /\ ~Past(stack[u][k]))
    BY <1>0, <1>1 DEF Past
  <1> QED BY <1>1, <1>2 DEF Counted, Past

\* The last join: nobody has stopped a server yet.
LEMMA JoinEndKeepsCount ==
  ASSUME Typed, AtServer, OneJoiner, Counted, NEW t \in Threads, JoinEnd(t)
  PROVE  Counted'
  <1> DEFINE n == Server(t)
  <1>1. n \in Servers /\ stack[t] # <<>> /\ stack[t][1] = Frame("joining", n) /\ 1 \in DOMAIN stack[t]
    BY TopFrame DEF JoinEnd
  <1>2. UNCHANGED <<stops, process>>
    BY DEF JoinEnd
  <1>3. \/ n < Len(Configs) /\ n + 1 \in Servers /\ Goto(t, "join", n + 1)
        \/ n = Len(Configs) /\ Goto(t, "stop", 1)
    BY <1>1, AdvanceGoes DEF JoinEnd
  <1> HIDE DEF n
  <1>4. ~Past(stack[t][1]) /\ Claims(stack[t][1], n)
    BY <1>1 DEF Past, Frame, Claims
  <1>5. CASE n + 1 \in Servers /\ Goto(t, "join", n + 1)
    BY <1>1, <1>2, <1>4, <1>5, GotoKeepsCount
  <1>6. CASE Goto(t, "stop", 1)
    <2>1. ASSUME NEW u \in Threads, NEW k \in DOMAIN stack[u] PROVE ~Past(stack[u][k])
      <3> SUFFICES ASSUME Past(stack[u][k]) PROVE FALSE
        OBVIOUS
      <3>1. Claims(stack[u][k], n)
        BY DEF Claims, Joined
      <3> QED BY <1>1, <1>4, <3>1 DEF OneJoiner
    <2>2. \A i \in Servers : stops'[i] = 0
      BY <1>2, <2>1 DEF Counted
    <2> QED BY <2>2 DEF Counted
  <1> QED BY <1>3, <1>5, <1>6

\* Stop of one server: its first, by the run that is past the joins.
LEMMA StopKeepsCount ==
  ASSUME Typed, AtServer, OneJoiner, Counted, process = "running", NEW t \in Threads, Stop(t)
  PROVE  Counted'
  <1> DEFINE n == Server(t)
  <1>1. n \in Servers /\ stack[t] # <<>> /\ stack[t][1] = Frame("stop", n) /\ 1 \in DOMAIN stack[t]
    BY TopFrame DEF Stop
  <1>2. UNCHANGED process /\ \A i \in Servers : stops'[i] = IF i = n THEN stops[i] + 1 ELSE stops[i]
    BY <1>1 DEF Stop, Typed
  <1>3. \/ n < Len(Configs) /\ n + 1 \in Servers /\ Goto(t, "stop", n + 1)
        \/ n = Len(Configs) /\ Goto(t, "members", 1)
    BY <1>1, AdvanceGoes DEF Stop
  <1> HIDE DEF n
  <1>4. stack[t][1].phase = "stop" /\ stack[t][1].at = n /\ Past(stack[t][1])
    BY <1>1 DEF Frame, Past
  <1>5. \A i \in Servers : stops[i] \in Nat /\ stops[i] <= 1 /\ (n <= i => stops[i] = 0)
    BY <1>1, <1>4 DEF Counted, Typed
  <1>6. \A i \in Servers : stops'[i] <= 1 /\ (n + 1 <= i => stops'[i] = 0)
    <2> SUFFICES ASSUME NEW i \in Servers PROVE stops'[i] <= 1 /\ (n + 1 <= i => stops'[i] = 0)
      OBVIOUS
    <2>1. CASE i = n
      BY <1>1, <1>2, <1>5, <2>1 DEF Servers
    <2>2. CASE i # n
      BY <1>1, <1>2, <1>5, <2>2 DEF Servers
    <2> QED BY <2>1, <2>2
  <1>7. ASSUME NEW phase \in {"stop", "members"}, NEW m \in Servers, Goto(t, phase, m),
               phase = "stop" => m = n + 1
        PROVE  Counted'
    <2>0. Frame(phase, m) \in Frames /\ Frame(phase, m).phase = phase /\ Frame(phase, m).at = m
      BY FrameTyped
    <2>1. /\ \A u \in Threads : DOMAIN stack'[u] = DOMAIN stack[u]
          /\ stack'[t][1] = Frame(phase, m)
          /\ \A u \in Threads : \A k \in DOMAIN stack[u] : u # t \/ k # 1 => stack'[u][k] = stack[u][k]
      BY <1>1, <1>7, <2>0, GotoStack
    <2>2. Past(stack'[t][1]) /\ 1 \in DOMAIN stack'[t]
      BY <1>1, <2>0, <2>1 DEF Past
    <2>3. ASSUME NEW u \in Threads, NEW k \in DOMAIN stack'[u], u # t \/ k # 1
          PROVE  ~Past(stack'[u][k])
      BY <1>1, <1>4, <2>1, <2>3, OnePast
    <2>4. ASSUME NEW u \in Threads, NEW k \in DOMAIN stack'[u], NEW i \in Servers
          PROVE  LET f == stack'[u][k]
                     next == process' = "running" /\ k = 1 /\ f.at <= i
                 IN /\ f.phase = "stop" => stops'[i] <= 1 /\ (next => stops'[i] = 0)
                    /\ f.phase = "members" => stops'[i] <= 2 /\ (next => stops'[i] <= 1)
      <3>1. CASE u # t \/ k # 1
        BY <2>3, <3>1 DEF Past
      <3>2. CASE u = t /\ k = 1
        <4>1. stack'[u][k].phase = phase /\ stack'[u][k].at = m
          BY <2>0, <2>1, <3>2
        <4>2. stops'[i] <= 2
          BY <1>2, <1>5, <1>6
        <4> QED BY <1>6, <1>7, <4>1, <4>2
      <3> QED BY <3>1, <3>2
    <2> QED BY <2>2, <2>4 DEF Counted
  <1> QED BY <1>3, <1>7, SomeServer

\* The second Stop, of the destructor of the server, is the last thing a run does.
LEMMA DestroyKeepsCount ==
  ASSUME Typed, AtServer, Order, OneJoiner, Counted, process = "running",
         NEW t \in Threads, DestroyServers(t)
  PROVE  Counted'
  <1> DEFINE n == Server(t)
  <1>1. n \in Servers /\ stack[t] # <<>> /\ stack[t][1] = Frame("members", n) /\ 1 \in DOMAIN stack[t]
    BY TopFrame DEF DestroyServers
  <1>2. \A i \in Servers : stops'[i] = IF i = n THEN stops[i] + 1 ELSE stops[i]
    BY <1>1 DEF DestroyServers, Typed
  <1>3. pool[n] = "joinable"
    BY <1>1, DestructorInstalled DEF Destructor
  <1>4. Terminate(t)
    BY <1>3 DEF DestroyServers
  <1> HIDE DEF n
  <1>5. stack[t][1].phase = "members" /\ stack[t][1].at = n /\ Past(stack[t][1])
    BY <1>1 DEF Frame, Past
  <1>6. \A i \in Servers : stops'[i] <= 2
    <2>1. \A i \in Servers : stops[i] \in Nat /\ stops[i] <= 2 /\ (n <= i => stops[i] <= 1)
      BY <1>1, <1>5 DEF Counted, Typed
    <2>2. n <= n
      BY <1>1 DEF Servers
    <2> QED BY <1>1, <1>2, <2>1, <2>2
  <1>7. CASE process' = "dead" /\ UNCHANGED stack
    <2>1. ASSUME NEW u \in Threads, NEW k \in DOMAIN stack[u] PROVE stack[u][k].phase # "stop"
      BY <1>1, <1>5, OnePast DEF Past
    <2> QED BY <1>1, <1>5, <1>6, <1>7, <2>1 DEF Counted
  <1>8. CASE Enter(t)
    <2>1. \E l \in DOMAIN stack'[t] : Past(stack'[t][l])
      <3>1. \E l \in DOMAIN stack'[t] : stack'[t][l] = stack[t][1]
        BY <1>1, <1>8, EnterStack
      <3> QED BY <1>5, <3>1
    <2>2. ASSUME NEW u \in Threads, NEW k \in DOMAIN stack'[u], Past(stack'[u][k])
          PROVE  k # 1 /\ stack'[u][k].phase = "members"
      <3>1. CASE u = t /\ k = 1 /\ stack'[u][k] = Frame("request", 0)
        BY <2>2, <3>1 DEF Past, Frame
      <3>2. CASE u = t /\ k - 1 \in DOMAIN stack[u] /\ k # 1 /\ stack'[u][k] = stack[u][k - 1]
        <4>1. u = t /\ k - 1 = 1
          BY <1>1, <1>5, <2>2, <3>2, OnePast
        <4> QED BY <1>5, <3>2, <4>1
      <3>3. CASE u # t /\ k \in DOMAIN stack[u] /\ stack'[u][k] = stack[u][k]
        BY <1>1, <1>5, <2>2, <3>3, OnePast
      <3> QED BY <1>8, <3>1, <3>2, <3>3, EnterStack
    <2> QED BY <1>6, <2>1, <2>2 DEF Counted, Past
  <1> QED BY <1>4, <1>7, <1>8 DEF Terminate

LEMMA CountedStep ==
  ASSUME Typed, AtServer, Order, OneJoiner, Counted, Next
  PROVE  Counted'
  <1>0. process = "running"
    BY DEF Next
  <1>1. UNCHANGED <<stack, stops>> /\ (process' = "running" => process = "running") => Counted'
    BY DEF Counted
  <1>2. CASE configure_server \/ Start \/ Open \/ Move \/ Discard \/ Install
    BY <1>0, <1>1, <1>2 DEF configure_server, Start, Open, Move, Discard, Install
  <1>3. CASE Wake
    BY <1>3, EnterKeepsCount DEF Wake, Threads
  <1>4. ASSUME NEW t \in Threads, Signal(t) PROVE Counted'
    BY <1>0, <1>1, <1>4, EnterKeepsCount DEF Signal
  <1>5. ASSUME NEW t \in Threads, RequestStops(t) PROVE Counted'
    <2>1. stack[t] # <<>> /\ stack[t][1].phase = "request"
      BY <1>5, TopFrame DEF RequestStops
    <2> QED BY <1>5, <2>1, SomeServer, GotoKeepsCount DEF RequestStops, Past
  <1>6. ASSUME NEW t \in Threads, JoinBegin(t) PROVE Counted'
    <2>1. stack[t] # <<>> /\ stack[t][1].phase = "join" /\ Server(t) \in Servers
      BY <1>6, TopFrame DEF JoinBegin
    <2>2. CASE Terminate(t)
      BY <1>6, <2>2, TerminateKeepsCount DEF JoinBegin
    <2>3. CASE Goto(t, "joining", Server(t)) /\ UNCHANGED process
      BY <1>6, <2>1, <2>3, GotoKeepsCount DEF JoinBegin, Past
    <2> QED BY <1>6, <2>2, <2>3 DEF JoinBegin
  <1>7. ASSUME NEW t \in Threads, JoinEnd(t) \/ Stop(t) \/ DestroyServers(t) PROVE Counted'
    BY <1>0, <1>7, JoinEndKeepsCount, StopKeepsCount, DestroyKeepsCount
  <1>8. ASSUME NEW i \in Servers, WorkerThrows(i) PROVE Counted'
    BY <1>8, TerminateKeepsCount DEF WorkerThrows, Threads
  <1>9. ASSUME NEW i \in Servers, Silence(i) \/ AcceptReturns(i) PROVE Counted'
    BY <1>0, <1>1, <1>9 DEF Silence, AcceptReturns
  <1> QED
    BY <1>2, <1>3, <1>4, <1>5, <1>6, <1>7, <1>8, <1>9 DEF Next, MainStep, Destructor

-----------------------------------------------------------------------------
(* Whom accept threads wait for.                                           *)

\* The accept threads are different threads, and none is main or a worker.
LEMMA OwnThread ==
  ASSUME NEW i \in Servers
  PROVE  /\ Accept(i) \in Threads /\ Accept(i) # Main
         /\ \A j \in Servers : Accept(i) # Worker(j) /\ (Accept(i) = Accept(j) => i = j)
  BY DEF Threads, Accept, Worker, Main

LEMMA EnterKeepsDownward ==
  ASSUME Typed, Downward, NEW t \in Threads, Enter(t)
  PROVE  Downward'
  <1> SUFFICES ASSUME NEW i \in Servers, NEW k \in DOMAIN stack'[Accept(i)]
               PROVE  Below(stack'[Accept(i)][k], i)
    BY DEF Downward
  <1>1. \/ stack'[Accept(i)][k] = Frame("request", 0)
        \/ \E l \in DOMAIN stack[Accept(i)] : stack'[Accept(i)][k] = stack[Accept(i)][l]
    BY OwnThread, EnterStack
  <1>2. Below(Frame("request", 0), i)
    BY DEF Below, Frame
  <1> QED BY <1>1, <1>2 DEF Downward

LEMMA TerminateKeepsDownward ==
  ASSUME Typed, Downward, NEW t \in Threads, Terminate(t)
  PROVE  Downward'
  <1>1. CASE UNCHANGED stack
    BY <1>1 DEF Downward
  <1> QED BY <1>1, EnterKeepsDownward DEF Terminate

LEMMA GotoKeepsDownward ==
  ASSUME Typed, Downward, NEW t \in Threads, stack[t] # <<>>,
         NEW phase \in {"request", "join", "joining", "stop", "members"}, NEW n \in Servers, Goto(t, phase, n),
         \A i \in Servers : t = Accept(i) => Below(Frame(phase, n), i)
  PROVE  Downward'
  <1> SUFFICES ASSUME NEW i \in Servers, NEW k \in DOMAIN stack'[Accept(i)]
               PROVE  Below(stack'[Accept(i)][k], i)
    BY DEF Downward
  <1>1. /\ k \in DOMAIN stack[Accept(i)]
        /\ stack'[t][1] = Frame(phase, n)
        /\ Accept(i) # t \/ k # 1 => stack'[Accept(i)][k] = stack[Accept(i)][k]
    BY OwnThread, FrameTyped, GotoStack
  <1> QED BY <1>1 DEF Downward

LEMMA JoinsKeepDownward ==
  ASSUME Typed, AtServer, Downward, NEW t \in Threads, RequestStops(t) \/ JoinBegin(t) \/ JoinEnd(t)
  PROVE  Downward'
  <1>1. CASE RequestStops(t)
    <2>1. \A i \in Servers : Below(Frame("join", 1), i)
      BY SomeServer DEF Below, Frame, Servers
    <2> QED BY <1>1, <2>1, SomeServer, GotoKeepsDownward DEF RequestStops, At
  <1>2. ASSUME NEW n, n = Server(t), JoinBegin(t) \/ JoinEnd(t)
        PROVE  /\ n \in Servers /\ stack[t] # <<>>
               /\ \A i \in Servers : t = Accept(i) =>
                    (JoinBegin(t) => n <= i) /\ (JoinEnd(t) => n < i)
    <2>1. /\ n \in Servers /\ stack[t] # <<>> /\ 1 \in DOMAIN stack[t] /\ stack[t][1].at = n
          /\ JoinBegin(t) => stack[t][1].phase = "join"
          /\ JoinEnd(t) => stack[t][1].phase = "joining"
      BY <1>2, TopFrame DEF JoinBegin, JoinEnd
    <2> QED BY <2>1 DEF Downward, Below
  <1>3. CASE JoinBegin(t)
    <2>1. PICK n : n = Server(t)
      OBVIOUS
    <2>2. CASE Terminate(t)
      BY <2>2, TerminateKeepsDownward
    <2>3. CASE Accept(n) # t /\ Goto(t, "joining", n)
      <3>1. \A i \in Servers : t = Accept(i) => Below(Frame("joining", n), i)
        BY <1>2, <1>3, <2>1, <2>3 DEF Below, Frame, Servers
      <3> QED BY <1>2, <1>3, <2>1, <2>3, <3>1, GotoKeepsDownward
    <2> QED BY <1>3, <2>1, <2>2, <2>3 DEF JoinBegin
  <1>4. CASE JoinEnd(t)
    <2>1. PICK n : n = Server(t)
      OBVIOUS
    <2>2. n \in Servers /\ stack[t] # <<>> /\ \A i \in Servers : t = Accept(i) => n < i
      BY <1>2, <1>4, <2>1
    <2>3. \/ n + 1 \in Servers /\ Goto(t, "join", n + 1)
          \/ n = Len(Configs) /\ Goto(t, "stop", 1)
      BY <1>4, <2>1, <2>2, AdvanceGoes DEF JoinEnd
    <2>4. CASE n + 1 \in Servers /\ Goto(t, "join", n + 1)
      <3>1. \A i \in Servers : t = Accept(i) => Below(Frame("join", n + 1), i)
        BY <2>2, SomeServer DEF Below, Frame, Servers
      <3> QED BY <2>2, <2>4, <3>1, GotoKeepsDownward
    <2>5. CASE n = Len(Configs) /\ Goto(t, "stop", 1)
      <3>1. \A i \in Servers : t # Accept(i)
        BY <2>2, <2>5, SomeServer DEF Servers
      <3> QED BY <2>2, <2>5, <3>1, SomeServer, GotoKeepsDownward
    <2> QED BY <2>3, <2>4, <2>5
  <1> QED BY <1>1, <1>3, <1>4

\* Past the joins there is no accept thread.
LEMMA StopsKeepDownward ==
  ASSUME Typed, AtServer, Downward, NEW t \in Threads, Stop(t) \/ DestroyServers(t)
  PROVE  Downward'
  <1>1. /\ Server(t) \in Servers /\ stack[t] # <<>> /\ 1 \in DOMAIN stack[t]
        /\ stack[t][1].phase \in {"stop", "members"}
    BY TopFrame DEF Stop, DestroyServers
  <1>2. \A i \in Servers : t # Accept(i)
    BY <1>1 DEF Downward, Below
  <1>3. CASE Stop(t)
    BY <1>1, <1>2, <1>3, AdvanceGoes, SomeServer, GotoKeepsDownward DEF Stop
  <1>4. CASE DestroyServers(t)
    <2>1. Server(t) < Len(Configs) => Server(t) + 1 \in Servers
      BY <1>1, SomeServer DEF Servers
    <2>2. CASE UNCHANGED stack
      BY <2>2 DEF Downward
    <2> QED BY <1>1, <1>2, <1>4, <2>1, <2>2, TerminateKeepsDownward, GotoKeepsDownward DEF DestroyServers
  <1> QED BY <1>3, <1>4

LEMMA DownwardStep ==
  ASSUME Typed, AtServer, Downward, Next
  PROVE  Downward'
  <1>1. UNCHANGED stack => Downward'
    BY DEF Downward
  <1>2. CASE MainStep
    <2>1. CASE Wake
      BY <2>1, EnterKeepsDownward DEF Wake, Threads
    <2>2. CASE configure_server \/ Start \/ Open \/ Move \/ Discard \/ Install
      BY <2>2, <1>1 DEF configure_server, Start, Open, Move, Discard, Install
    <2> QED BY <1>2, <2>1, <2>2 DEF MainStep
  <1>3. ASSUME NEW t \in Threads, Signal(t) PROVE Downward'
    BY <1>1, <1>3, EnterKeepsDownward DEF Signal
  <1>4. ASSUME NEW t \in Threads, Destructor(t) PROVE Downward'
    BY <1>4, JoinsKeepDownward, StopsKeepDownward DEF Destructor
  <1>5. ASSUME NEW i \in Servers, WorkerThrows(i) PROVE Downward'
    BY <1>5, TerminateKeepsDownward DEF WorkerThrows, Threads
  <1>6. ASSUME NEW i \in Servers, Silence(i) \/ AcceptReturns(i) PROVE Downward'
    BY <1>1, <1>6 DEF Silence, AcceptReturns
  <1> QED BY <1>2, <1>3, <1>4, <1>5, <1>6 DEF Next

\* A set of servers that is not empty has a lowest one.
LEMMA Lowest ==
  ASSUME NEW S \in SUBSET Servers, S # {}
  PROVE  \E i \in S : \A j \in S : i <= j
  <1>1. S \subseteq Nat
    BY SomeServer DEF Servers
  <1> DEFINE less == {ss \in Nat \X Nat : ss[1] < ss[2]}
  <1>2. IsWellFoundedOn(less, Nat)
    BY NatLessThanWellFounded, Zenon DEF OpToRel
  <1>3. \A i, j \in Nat : <<i, j>> \in less <=> i < j
    OBVIOUS
  <1> HIDE DEF less
  <1>4. PICK i \in S : \A j \in S : ~(<<j, i>> \in less)
    BY <1>1, <1>2, WFMin
  <1>5. ASSUME NEW j \in S PROVE i <= j
    <2>1. i \in Nat /\ j \in Nat
      BY <1>1
    <2>2. ~(j < i)
      BY <1>3, <1>4, <2>1
    <2> QED BY <2>1, <2>2
  <1> QED BY <1>5

-----------------------------------------------------------------------------
(* The theorems.                                                           *)

LEMMA ManagerInit == Init => ManagerInvariant
  <1> SUFFICES ASSUME Init PROVE ManagerInvariant
    OBVIOUS
  <1>1. \A t \in Threads : stack[t] = <<>> /\ DOMAIN stack[t] = {}
    BY DEF Init
  <1>2. stack \in [Threads -> Seq(Frames)]
    BY DEF Init
  <1>3. Typed
    BY <1>2, SomeServer DEF Init, Typed
  <1>4. Order
    BY <1>1, SomeServer DEF Init, Order, Servers
  <1>5. AtServer /\ OneJoiner /\ Counted
    BY <1>1 DEF Init, AtServer, OneJoiner, Counted
  <1>6. Downward
    BY <1>1 DEF Downward, Threads
  <1> QED BY <1>3, <1>4, <1>5, <1>6 DEF ManagerInvariant

LEMMA ManagerStep == ManagerInvariant /\ [Next]_vars => ManagerInvariant'
  <1>1. CASE ManagerInvariant /\ Next
    BY <1>1, TypedStep, OrderStep, JoinerStep, CountedStep, DownwardStep DEF ManagerInvariant
  <1>2. CASE ManagerInvariant /\ UNCHANGED vars
    BY <1>2 DEF vars, ManagerInvariant, Typed, AtServer, Order, OneJoiner, Counted, Downward
  <1> QED BY <1>1, <1>2

LEMMA ManagerCorrect == Spec => []ManagerInvariant
  BY ManagerInit, ManagerStep, PTL DEF Spec

LEMMA InvariantOneStopper == ManagerInvariant => OneStopper
  <1> SUFFICES ASSUME ManagerInvariant PROVE OneStopper
    OBVIOUS
  <1> USE DEF ManagerInvariant
  <1>1. \A t, u \in Threads : \A j \in DOMAIN stack[t], k \in DOMAIN stack[u] :
          Past(stack[t][j]) /\ Past(stack[u][k]) => t = u /\ j = k
    BY OnePast
  <1>2. ASSUME NEW i \in Servers, NEW t \in Threads, NEW k \in DOMAIN stack[t], Past(stack[t][k])
        PROVE  thread[i] = "joined" /\ stops[i] <= 2
    <2>1. Joined(stack[t][k], i)
      BY <1>2 DEF Joined
    <2>2. stops[i] <= 1 \/ stops[i] <= 2
      BY <1>2 DEF Counted, Past
    <2>3. stops[i] \in Nat
      BY DEF Typed
    <2> QED BY <2>1, <2>2, <2>3 DEF OneJoiner
  <1>3. ASSUME NEW i \in Servers, \A t \in Threads : \A k \in DOMAIN stack[t] : ~Past(stack[t][k])
        PROVE  stops[i] = 0
    BY <1>3 DEF Counted
  <1>4. \A i \in Servers : (stops[i] > 0 => thread[i] = "joined") /\ stops[i] <= 2
    BY <1>2, <1>3
  <1> QED BY <1>1, <1>4 DEF OneStopper, Past

(***************************************************************************)
(* However many signals arrive on however many threads, and however deep   *)
(* the handlers nest, one run of ~ServerManager at most gets past the      *)
(* joins; a server is stopped only when its accept loop has been joined,   *)
(* and at most twice.                                                      *)
(***************************************************************************)
THEOREM OneStops == Spec => []OneStopper
  BY ManagerCorrect, InvariantOneStopper, PTL

(***************************************************************************)
(* The accept threads on which handlers run never wait for each other in a *)
(* circle: the lowest server of any set waits for none of the set.         *)
(***************************************************************************)
THEOREM NoCycle == Spec => []NoJoinCycle
  <1>1. ManagerInvariant => NoJoinCycle
    <2> SUFFICES ASSUME ManagerInvariant, NEW S \in SUBSET Servers, S # {}
                 PROVE  \E i \in S : \A j \in S : ~Waits(i, j)
      BY DEF NoJoinCycle
    <2>1. PICK i \in S : \A j \in S : i <= j
      BY Lowest
    <2>2. ASSUME NEW j \in S, Waits(i, j) PROVE FALSE
      <3>1. Accept(i) \in Threads /\ i \in Servers
        BY DEF Threads
      <3>2. 1 \in DOMAIN stack[Accept(i)] /\ stack[Accept(i)][1].phase = "joining" /\ stack[Accept(i)][1].at = j
        BY <2>2, <3>1, TopFrame DEF ManagerInvariant, Waits
      <3>3. j < i
        BY <3>1, <3>2 DEF ManagerInvariant, Downward, Below
      <3> QED BY <2>1, <3>3 DEF Servers
    <2> QED BY <2>2
  <1> QED BY <1>1, ManagerCorrect, PTL
=============================================================================
