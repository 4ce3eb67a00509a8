---------------------------- MODULE LockFreeQueue ----------------------------
(***************************************************************************)
(* The ring buffer between a server's accept loop and its worker threads   *)
(* (include/simpleserv/utility/lock_free_queue.hpp), one step per atomic   *)
(* operation or slot access.  The accept loop is the only thread that      *)
(* pushes; the workers pop concurrently.  push looks at neither head_ nor  *)
(* full(), so nothing in the class keeps the producer from running into    *)
(* slots that are still in use.  The history variable laps records the     *)
(* moments at which it does; every property says which of those moments,   *)
(* if any, it has to exclude.                                              *)
(*                                                                         *)
(* The steps are sequentially consistent.                                  *)
(***************************************************************************)
EXTENDS Integers, Sequences, FiniteSets

CONSTANTS
  Capacity,     \* template parameter capacity
  SMALL_INTEGER_OPTIMISATION_LIMIT,
  SizeModulus,  \* number of values of the uint32_t size_ (2^32 in the code)
  Consumers,    \* the threads that pop
  MaxPushes     \* bound: how many elements the producer pushes

ASSUME CapacityAssumption == Capacity \in Nat \ {0}
ASSUME LimitAssumption == SMALL_INTEGER_OPTIMISATION_LIMIT \in Nat
ASSUME ModulusAssumption == SizeModulus \in Nat \ {0}
ASSUME ConsumersAssumption == IsFiniteSet(Consumers)
ASSUME MaxPushesAssumption == MaxPushes \in Nat

VARIABLES
  arr_, head_, tail_, size_,
  ppc,        \* how far the producer is in push
  pc,         \* pc[c]: how far consumer c is in pop
  hd,         \* hd[c]: the local variable head of pop
  got,        \* got[c]: the local variable result of pop
  published,  \* history: how many elements tail_ has been moved past
  returned,   \* history: the elements that were moved out of the ring
  laps,       \* history: how the producer ran into slots in use
  forced      \* history: a push began although full() was TRUE

vars == <<arr_, head_, tail_, size_, ppc, pc, hd, got, published, returned, laps, forced>>

Slots == 0 .. Capacity - 1

(***************************************************************************)
(* Elements are numbered in the order they are pushed.  NoTask is the      *)
(* default-constructed connection object (client_fd = -1); Torn stands for *)
(* whatever is read from a slot while it is being assigned.  whole is lost *)
(* when the element is moved from: the request string is gone then and the *)
(* file descriptor is not.                                                 *)
(***************************************************************************)
NoTask == -1
Torn == -2
Element(n) == [task |-> n, whole |-> TRUE]
Vacant == [task |-> NoTask, whole |-> FALSE]
MovedFrom(e) == [task |-> e.task, whole |-> FALSE]
Elements == [task : Int, whole : BOOLEAN]

LapKinds == {"full", "stale", "inuse"}

\* The table is there, and filled in by the constructor, for small capacities.
next_arr ==
  [i \in {j \in Slots : Capacity <= SMALL_INTEGER_OPTIMISATION_LIMIT} |-> IF i = Capacity - 1 THEN 0 ELSE i + 1]

\* Faulty: the index is not wrapped.
next_Unwrapped(i) == i + 1

\* Faulty: the last slot is never used.
next_Short(i) == IF i + 2 < Capacity THEN i + 1 ELSE 0

next(i) ==
  IF Capacity < SMALL_INTEGER_OPTIMISATION_LIMIT
  THEN next_arr[i]
  ELSE (i + 1) % Capacity

full == next(tail_) = head_

Init ==
  /\ arr_ = [i \in Slots |-> Vacant]
  /\ head_ = 0 /\ tail_ = 0 /\ size_ = 0
  /\ ppc = "idle"
  /\ pc = [c \in Consumers |-> "idle"]
  /\ hd = [c \in Consumers |-> 0]
  /\ got = [c \in Consumers |-> Vacant]
  /\ published = 0
  /\ returned = {}
  /\ laps = {} /\ forced = FALSE

-----------------------------------------------------------------------------
(* push.  Only the producer changes tail_, so its load needs no step.      *)

Occupied == \E c \in Consumers : pc[c] = "claimed" /\ hd[c] = tail_
Overtaken == \E c \in Consumers : pc[c] = "checked" /\ hd[c] = next(tail_)

\* The assignment arr_[tail] = elem begins.
PushBegin ==
  /\ ppc = "idle" /\ published < MaxPushes
  /\ ppc' = "writing"
  /\ arr_' = [arr_ EXCEPT ![tail_] = [task |-> Torn, whole |-> FALSE]]
  /\ laps' = laps \cup {k \in {"inuse"} : Occupied}
  /\ forced' = (forced \/ full)
  /\ UNCHANGED <<head_, tail_, size_, pc, hd, got, published, returned>>

\* ... and ends.
PushWrite ==
  /\ ppc = "writing"
  /\ ppc' = "written"
  /\ arr_' = [arr_ EXCEPT ![tail_] = Element(published)]
  /\ UNCHANGED <<head_, tail_, size_, pc, hd, got, published, returned, laps, forced>>

PushStore ==
  /\ ppc = "written"
  /\ ppc' = "stored"
  /\ tail_' = next(tail_)
  /\ published' = published + 1
  /\ laps' = laps \cup {k \in {"full"} : full} \cup {k \in {"stale"} : Overtaken}
  /\ UNCHANGED <<arr_, head_, size_, pc, hd, got, returned, forced>>

PushCount ==
  /\ ppc = "stored"
  /\ ppc' = "idle"
  /\ size_' = (size_ + 1) % SizeModulus
  /\ UNCHANGED <<arr_, head_, tail_, pc, hd, got, published, returned, laps, forced>>

-----------------------------------------------------------------------------
(* pop.                                                                    *)

PopLoad(c) ==
  /\ pc[c] = "idle"
  /\ pc' = [pc EXCEPT ![c] = "loaded"]
  /\ hd' = [hd EXCEPT ![c] = head_]
  /\ UNCHANGED <<arr_, head_, tail_, size_, ppc, got, published, returned, laps, forced>>

\* Faulty: no boundary check.
PopCheck_Skipped(c) ==
  /\ pc[c] = "loaded"
  /\ pc' = [pc EXCEPT ![c] = "checked"]
  /\ UNCHANGED <<arr_, head_, tail_, size_, ppc, hd, got, published, returned, laps, forced>>

\* Faulty: a ring with one element left counts as empty.
PopCheck_OffByOne(c) ==
  /\ pc[c] = "loaded"
  /\ pc' = [pc EXCEPT ![c] = IF tail_ \in {hd[c], next(hd[c])} THEN "idle" ELSE "checked"]
  /\ UNCHANGED <<arr_, head_, tail_, size_, ppc, hd, got, published, returned, laps, forced>>

\* The boundary check: nullopt when the loaded head is the tail.
PopCheck(c) ==
  /\ pc[c] = "loaded"
  /\ pc' = [pc EXCEPT ![c] = IF hd[c] = tail_ THEN "idle" ELSE "checked"]
  /\ UNCHANGED <<arr_, head_, tail_, size_, ppc, hd, got, published, returned, laps, forced>>

\* Faulty: a load and a store where the code has a compare-and-exchange.
PopClaim_NoCompare(c) ==
  /\ pc[c] = "checked"
  /\ pc' = [pc EXCEPT ![c] = "claimed"]
  /\ head_' = next(hd[c])
  /\ UNCHANGED <<arr_, tail_, size_, ppc, hd, got, published, returned, laps, forced>>

\* compare_exchange_weak succeeds.
PopClaim(c) ==
  /\ pc[c] = "checked" /\ head_ = hd[c]
  /\ pc' = [pc EXCEPT ![c] = "claimed"]
  /\ head_' = next(hd[c])
  /\ UNCHANGED <<arr_, tail_, size_, ppc, hd, got, published, returned, laps, forced>>

\* compare_exchange_weak fails, possibly spuriously: nullopt.
PopLose(c) ==
  /\ pc[c] = "checked"
  /\ pc' = [pc EXCEPT ![c] = "idle"]
  /\ UNCHANGED <<arr_, head_, tail_, size_, ppc, hd, got, published, returned, laps, forced>>

\* Faulty: head_, already advanced, is used in place of the local head.
PopMove_Next(c) ==
  /\ pc[c] = "claimed"
  /\ pc' = [pc EXCEPT ![c] = "moved"]
  /\ got' = [got EXCEPT ![c] = arr_[head_]]
  /\ arr_' = [arr_ EXCEPT ![head_] = MovedFrom(@)]
  /\ returned' = returned \cup {arr_[head_].task}
  /\ UNCHANGED <<head_, tail_, size_, ppc, hd, published, laps, forced>>

\* The claimed element is moved out of its slot.
PopMove(c) ==
  /\ pc[c] = "claimed"
  /\ pc' = [pc EXCEPT ![c] = "moved"]
  /\ got' = [got EXCEPT ![c] = arr_[hd[c]]]
  /\ arr_' = [arr_ EXCEPT ![hd[c]] = MovedFrom(@)]
  /\ returned' = returned \cup {arr_[hd[c]].task}
  /\ UNCHANGED <<head_, tail_, size_, ppc, hd, published, laps, forced>>

\* Faulty: the counter is left alone.
PopCount_Missing(c) ==
  /\ pc[c] = "moved"
  /\ pc' = [pc EXCEPT ![c] = "idle"]
  /\ got' = [got EXCEPT ![c] = Vacant]
  /\ UNCHANGED <<arr_, head_, tail_, size_, ppc, hd, published, returned, laps, forced>>

\* size_ is decremented and the element handed to the worker.
PopCount(c) ==
  /\ pc[c] = "moved"
  /\ pc' = [pc EXCEPT ![c] = "idle"]
  /\ got' = [got EXCEPT ![c] = Vacant]
  /\ size_' = (size_ - 1) % SizeModulus
  /\ UNCHANGED <<arr_, head_, tail_, ppc, hd, published, returned, laps, forced>>

Pop(c) ==
  PopLoad(c) \/ PopCheck(c) \/ PopClaim(c) \/ PopLose(c) \/ PopMove(c) \/ PopCount(c)

Push == PushBegin \/ PushWrite \/ PushStore \/ PushCount

Next == Push \/ \E c \in Consumers : Pop(c)

Spec == Init /\ [][Next]_vars

(***************************************************************************)
(* A worker runs its loop for ever; the scheduler gives every thread a     *)
(* turn, and a compare-and-exchange that could succeed again and again is  *)
(* not failed spuriously for ever.                                         *)
(***************************************************************************)
Fairness ==
  \A c \in Consumers :
    /\ WF_vars(PopLoad(c)) /\ WF_vars(PopCheck(c)) /\ SF_vars(PopClaim(c))
    /\ WF_vars(PopMove(c)) /\ WF_vars(PopCount(c))

FairSpec == Spec /\ Fairness

-----------------------------------------------------------------------------
(* Properties.                                                             *)

\* Slots, cursors and the local variables of push and pop have their types.
TypeOK ==
  /\ arr_ \in [Slots -> Elements]
  /\ head_ \in Slots /\ tail_ \in Slots
  /\ size_ \in 0 .. SizeModulus - 1
  /\ ppc \in {"idle", "writing", "written", "stored"}
  /\ pc \in [Consumers -> {"idle", "loaded", "checked", "claimed", "moved"}]
  /\ hd \in [Consumers -> Slots]
  /\ got \in [Consumers -> Elements]
  /\ published \in Nat
  /\ returned \subseteq Int
  /\ laps \subseteq LapKinds /\ forced \in BOOLEAN

\* How many steps of next lead from slot i to slot j.
Dist(i, j) == IF i <= j THEN j - i ELSE j - i + Capacity

\* The slots from head_ up to, not including, tail_.
Live(i) == Dist(head_, i) < Dist(head_, tail_)
LiveTasks == {arr_[i].task : i \in {j \in Slots : Live(j)}}
HeldBy(C) == {arr_[hd[c]].task : c \in {d \in C : pc[d] = "claimed"}}

(***************************************************************************)
(* As long as the producer has lapped no slot in use, every element that   *)
(* push announced is still in the ring, claimed by a consumer that is      *)
(* about to move it out, or already moved out: no connection disappears    *)
(* between the accept loop and the workers.                                *)
(***************************************************************************)
NoTaskLost ==
  laps = {} => 0 .. published - 1 \subseteq LiveTasks \cup HeldBy(Consumers) \cup returned

(***************************************************************************)
(* As long as the producer has lapped no slot in use, an element goes to   *)
(* one consumer only, with its request intact: what a consumer has claimed *)
(* was published, is not claimed by another one, is not in the ring any    *)
(* more and was not moved out before.                                      *)
(***************************************************************************)
HandedOutOnce ==
  laps = {} =>
    \A c \in Consumers : pc[c] = "claimed" =>
      /\ arr_[hd[c]].whole
      /\ arr_[hd[c]].task \in 0 .. published - 1
      /\ arr_[hd[c]].task \notin LiveTasks \cup returned \cup HeldBy(Consumers \ {c})

(***************************************************************************)
(* size_ counts the queued elements, except for the operations under way,  *)
(* although it is updated after tail_ and head_ and may wrap below zero in *)
(* between.                                                                *)
(***************************************************************************)
SizeCounts ==
  laps = {} =>
    size_ = (Dist(head_, tail_)
               + Cardinality({c \in Consumers : pc[c] \in {"claimed", "moved"}})
               - (IF ppc = "stored" THEN 1 ELSE 0)) % SizeModulus

(***************************************************************************)
(* A queue that is given fewer elements than it has slots is never lapped. *)
(***************************************************************************)
NoLapBelowCapacity == published < Capacity => laps = {}

(***************************************************************************)
(* The inductive strengthening of the three invariants above.              *)
(***************************************************************************)

\* How many pushes ago slot i was last published.
Age(i) == IF i = tail_ THEN Capacity ELSE Dist(i, tail_)
Writing == ppc \in {"writing", "written"}
Claimed(c) == pc[c] = "claimed"

\* Every slot holds the element that was last pushed into it.
SlotContents ==
  /\ \A i \in Slots :
       i # tail_ \/ ~Writing =>
         arr_[i].task = IF Age(i) <= published THEN published - Age(i) ELSE NoTask
  /\ ppc = "written" => arr_[tail_].task = published

\* The number of the oldest element in the ring.
Oldest == published - Dist(head_, tail_)

\* No consumer that passed the boundary check can claim an empty ring.
CheckedInv == \A c \in Consumers : pc[c] = "checked" => hd[c] # tail_

\* A claimed slot is out of the ring, out of the producer's way and not shared.
ClaimedInv ==
  /\ \A c \in Consumers : Claimed(c) =>
       /\ ~Live(hd[c])
       /\ arr_[hd[c]].whole
       /\ Age(hd[c]) <= published
       /\ published - Age(hd[c]) \notin returned
       /\ Writing => hd[c] # tail_
  /\ \A c, d \in Consumers : Claimed(c) /\ Claimed(d) /\ c # d => hd[c] # hd[d]

\* The ring holds intact elements, and exactly the older ones have left it.
RingInv ==
  /\ 0 <= Oldest
  /\ \A i \in Slots : Live(i) => arr_[i].whole
  /\ ppc = "written" => arr_[tail_].whole
  /\ returned \subseteq 0 .. Oldest - 1
  /\ \A n \in 0 .. Oldest - 1 :
       n \in returned \/ \E c \in Consumers : Claimed(c) /\ arr_[hd[c]].task = n

(***************************************************************************)
(* What push and pop maintain together while no slot in use was lapped.    *)
(***************************************************************************)
QueueInv ==
  /\ SlotContents
  /\ laps = {} => CheckedInv /\ ClaimedInv /\ RingInv

(***************************************************************************)
(* Every published element reaches a worker in the end, unless the         *)
(* producer laps a slot in use.                                            *)
(***************************************************************************)
EveryTaskTaken == \A n \in 0 .. MaxPushes - 1 : published > n ~> (n \in returned \/ laps # {})

(***************************************************************************)
(* Line 85 of the header: "Attempt to access exclusive access to the       *)
(* current head".  Between the compare-and-exchange and the move nobody    *)
(* else writes the slot, as long as no push began while full() was TRUE.   *)
(***************************************************************************)
ExclusiveAccess ==
  ~forced => \A c \in Consumers : pc[c] = "claimed" => ~(ppc = "writing" /\ hd[c] = tail_)

(***************************************************************************)
(* The queue implements the hand-off of TaskQueue: a push takes effect     *)
(* when tail_ is stored, a pop when its compare-and-exchange succeeds.     *)
(* This goes on until the producer laps a slot in use, which the class     *)
(* does not prevent and its users have to.                                 *)
(***************************************************************************)
SlotAt(i) == IF head_ + i < Capacity THEN head_ + i ELSE head_ + i - Capacity
Abstract == INSTANCE TaskQueue WITH
  Workers <- Consumers,
  added <- published,
  waiting <- [i \in 1 .. Dist(head_, tail_) |-> arr_[SlotAt(i - 1)].task],
  hold <- [c \in Consumers |->
             IF pc[c] # "claimed" THEN NoTask
             ELSE IF arr_[hd[c]].whole THEN arr_[hd[c]].task ELSE Torn],
  delivered <- returned
HandOff == Abstract!Init /\ [][laps' = {} => [Abstract!Next]_Abstract!vars]_vars
=============================================================================
