------------------------- MODULE LockFreeQueueProofs -------------------------
(***************************************************************************)
(* Proofs about LockFreeQueue for every capacity, every set of consumers   *)
(* and every number of pushes.                                             *)
(***************************************************************************)
EXTENDS LockFreeQueue, SequenceTheorems, FiniteSetTheorems, TLAPS

USE CapacityAssumption, LimitAssumption, ModulusAssumption, MaxPushesAssumption

\* Both branches of next (the table and the remainder) step to the next slot.
LEMMA NextValue ==
  ASSUME NEW i \in Slots
  PROVE  next(i) \in Slots /\ next(i) = IF i = Capacity - 1 THEN 0 ELSE i + 1
<1>1. CASE Capacity < SMALL_INTEGER_OPTIMISATION_LIMIT
  BY <1>1 DEF next, next_arr, Slots
<1>2. CASE ~(Capacity < SMALL_INTEGER_OPTIMISATION_LIMIT)
  <2>1. CASE i = Capacity - 1
    BY <1>2, <2>1 DEF next, Slots
  <2>2. CASE i # Capacity - 1
    BY <1>2, <2>2 DEF next, Slots
  <2>3. QED
    BY <2>1, <2>2
<1>3. QED
  BY <1>1, <1>2

-----------------------------------------------------------------------------
(* Type correctness.                                                       *)

\* Every step of push and pop keeps the state well typed.
LEMMA TypeStep == TypeOK /\ [Next]_vars => TypeOK'
<1> SUFFICES ASSUME TypeOK, [Next]_vars
             PROVE  TypeOK'
  OBVIOUS
<1> USE DEF TypeOK, Elements, Slots
<1>1. ASSUME PushBegin
      PROVE  TypeOK'
  <2>1. laps' \subseteq LapKinds
    BY <1>1 DEF PushBegin, LapKinds
  <2>2. arr_' \in [Slots -> Elements]
    BY <1>1 DEF PushBegin, Torn
  <2>3. QED
    BY <1>1, <2>1, <2>2 DEF PushBegin
<1>2. CASE PushWrite
  BY <1>2 DEF PushWrite, Element
<1>3. ASSUME PushStore
      PROVE  TypeOK'
  <2>1. next(tail_) \in Slots
    BY NextValue DEF Slots
  <2>2. laps' \subseteq LapKinds
    BY <1>3 DEF PushStore, LapKinds
  <2>3. QED
    BY <1>3, <2>1, <2>2 DEF PushStore
<1>4. CASE PushCount
  BY <1>4 DEF PushCount
<1>5. ASSUME NEW c \in Consumers, Pop(c)
      PROVE  TypeOK'
  <2>1. CASE PopLoad(c)
    BY <2>1 DEF PopLoad
  <2>2. CASE PopCheck(c)
    BY <2>2 DEF PopCheck
  <2>3. CASE PopClaim(c)
    BY <2>3, NextValue DEF PopClaim
  <2>4. CASE PopLose(c)
    BY <2>4 DEF PopLose
  <2>5. CASE PopMove(c)
    BY <2>5 DEF PopMove, MovedFrom
  <2>6. CASE PopCount(c)
    BY <2>6 DEF PopCount, Vacant, NoTask
  <2>7. QED
    BY <1>5, <2>1, <2>2, <2>3, <2>4, <2>5, <2>6 DEF Pop
<1>6. CASE UNCHANGED vars
  BY <1>6 DEF vars
<1>7. QED
  BY <1>1, <1>2, <1>3, <1>4, <1>5, <1>6 DEF Next, Push

\* The slots, cursors and histories keep their types in every behaviour.
THEOREM TypeCorrect == Spec => []TypeOK
<1>1. ASSUME Init
      PROVE  TypeOK
  <2>1. /\ arr_ \in [Slots -> Elements] /\ got \in [Consumers -> Elements]
        /\ head_ \in Slots /\ tail_ \in Slots /\ hd \in [Consumers -> Slots]
    BY <1>1 DEF Init, Elements, Vacant, NoTask, Slots
  <2>2. laps \subseteq LapKinds /\ returned \subseteq Int /\ forced \in BOOLEAN
    BY <1>1 DEF Init
  <2>3. published \in Nat /\ size_ \in 0 .. SizeModulus - 1
    BY <1>1 DEF Init
  <2>4. pc \in [Consumers -> {"idle", "loaded", "checked", "claimed", "moved"}]
    BY <1>1 DEF Init
  <2>5. QED
    BY <1>1, <2>1, <2>2, <2>3, <2>4 DEF Init, TypeOK
<1>2. QED
  BY <1>1, TypeStep, PTL DEF Spec

-----------------------------------------------------------------------------
(* Arithmetic of the ring.                                                 *)

\* The distance between two slots of the ring is a proper remainder.
LEMMA DistType ==
  ASSUME NEW i \in Slots, NEW j \in Slots
  PROVE  Dist(i, j) \in 0 .. Capacity - 1 /\ (Dist(i, j) = 0 <=> i = j)
BY DEF Dist, Slots

\* Moving the far end of a distance by one.
LEMMA DistNextRight ==
  ASSUME NEW i \in Slots, NEW j \in Slots, next(j) # i
  PROVE  Dist(i, next(j)) = Dist(i, j) + 1
BY NextValue DEF Dist, Slots

\* Moving the near end of a distance by one.
LEMMA DistNextLeft ==
  ASSUME NEW i \in Slots, NEW j \in Slots, i # j
  PROVE  Dist(next(i), j) = Dist(i, j) - 1
BY NextValue DEF Dist, Slots

\* Ages range over the capacity, identify slots, and tell the ring's slots.
LEMMA AgeFacts ==
  ASSUME TypeOK, NEW i \in Slots
  PROVE  /\ Age(i) \in 1 .. Capacity
         /\ Live(i) <=> Age(i) <= Dist(head_, tail_)
         /\ \A j \in Slots : Age(i) = Age(j) => i = j
BY DEF TypeOK, Age, Live, Dist, Slots

\* A push makes every slot one push older, except the one it filled.
LEMMA AgeStep ==
  ASSUME TypeOK, tail_' = next(tail_), NEW i \in Slots
  PROVE  Age(i)' = IF i = tail_ THEN 1 ELSE Age(i) + 1
<1>1. tail_' \in Slots /\ tail_' = IF tail_ = Capacity - 1 THEN 0 ELSE tail_ + 1
  BY NextValue DEF TypeOK
<1>2. tail_ \in Slots
  BY DEF TypeOK
<1>3. QED
  BY <1>1, <1>2 DEF Age, Dist, Slots

-----------------------------------------------------------------------------
(* The contents of the slots.                                              *)

\* pop leaves the producer's state alone and moves no element to a new slot.
LEMMA PopFrame ==
  ASSUME TypeOK, NEW c \in Consumers, Pop(c)
  PROVE  /\ UNCHANGED <<tail_, ppc, published, laps>>
         /\ \A i \in Slots : arr_'[i].task = arr_[i].task
<1>1. CASE PopMove(c)
  BY <1>1 DEF PopMove, MovedFrom, TypeOK, Elements
<1>2. CASE ~PopMove(c)
  BY <1>2 DEF Pop, PopLoad, PopCheck, PopClaim, PopLose, PopCount
<1>3. QED
  BY <1>1, <1>2

\* Every slot keeps the element that was last pushed into it.
LEMMA ContentsStep == TypeOK /\ SlotContents /\ [Next]_vars => SlotContents'
<1> SUFFICES ASSUME TypeOK, SlotContents, [Next]_vars
             PROVE  SlotContents'
  OBVIOUS
<1>1. CASE PushBegin
  BY <1>1 DEF PushBegin, SlotContents, Writing, Age, TypeOK, Elements
<1>2. CASE PushWrite
  BY <1>2 DEF PushWrite, SlotContents, Writing, Age, TypeOK, Elements, Element
<1>3. ASSUME PushStore
      PROVE  SlotContents'
  <2>1. ASSUME NEW i \in Slots
        PROVE  arr_'[i].task = IF Age(i)' <= published' THEN published' - Age(i)' ELSE NoTask
    <3>1. Age(i)' = IF i = tail_ THEN 1 ELSE Age(i) + 1
      BY <1>3, AgeStep DEF PushStore
    <3>2. Age(i) \in 1 .. Capacity /\ published \in Nat
      BY AgeFacts DEF TypeOK
    <3>3. CASE i = tail_
      BY <1>3, <3>1, <3>2, <3>3 DEF PushStore, SlotContents
    <3>4. CASE i # tail_
      <4>1. arr_[i].task = IF Age(i) <= published THEN published - Age(i) ELSE NoTask
        BY <3>4 DEF SlotContents
      <4>2. QED
        BY <1>3, <3>1, <3>2, <3>4, <4>1 DEF PushStore
    <3>5. QED
      BY <3>3, <3>4
  <2>2. ppc' # "written"
    BY <1>3 DEF PushStore
  <2>3. QED
    BY <2>1, <2>2 DEF SlotContents
<1>4. CASE PushCount
  BY <1>4 DEF PushCount, SlotContents, Writing, Age
<1>5. ASSUME NEW c \in Consumers, Pop(c)
      PROVE  SlotContents'
  <2>1. /\ UNCHANGED <<tail_, ppc, published, laps>>
        /\ \A i \in Slots : arr_'[i].task = arr_[i].task
    BY <1>5, PopFrame
  <2>2. tail_ \in Slots
    BY DEF TypeOK
  <2>3. QED
    BY <2>1, <2>2 DEF SlotContents, Writing, Age
<1>6. CASE UNCHANGED vars
  BY <1>6 DEF vars, SlotContents, Writing, Age
<1>7. QED
  BY <1>1, <1>2, <1>3, <1>4, <1>5, <1>6 DEF Next, Push

-----------------------------------------------------------------------------
(* Ownership of the slots while no slot in use was lapped.                 *)

\* Everything the ownership argument says about one state.
Owned == CheckedInv /\ ClaimedInv /\ RingInv

\* A claimed slot holds an element that is older than all in the ring.
LEMMA ClaimedTask ==
  ASSUME TypeOK, SlotContents, Owned, NEW c \in Consumers, Claimed(c)
  PROVE  /\ hd[c] \in Slots
         /\ arr_[hd[c]].task = published - Age(hd[c])
         /\ published - Age(hd[c]) \in 0 .. Oldest - 1
<1>1. hd[c] \in Slots /\ published \in Nat /\ head_ \in Slots /\ tail_ \in Slots
  BY DEF TypeOK
<1>2. hd[c] # tail_ \/ ~Writing
  BY DEF Owned, ClaimedInv
<1>3. Age(hd[c]) <= published /\ ~Live(hd[c])
  BY DEF Owned, ClaimedInv
<1>4. arr_[hd[c]].task = published - Age(hd[c])
  BY <1>1, <1>2, <1>3 DEF SlotContents
<1>5. Age(hd[c]) \in 1 .. Capacity /\ Age(hd[c]) > Dist(head_, tail_)
  BY <1>1, <1>3, AgeFacts, DistType
<1>6. QED
  BY <1>1, <1>3, <1>4, <1>5, DistType DEF Oldest

\* The steps that write to the slot at the tail disturb nobody.
LEMMA OwnedPushSlot ==
  ASSUME TypeOK, SlotContents, Owned, laps' = {}, PushBegin \/ PushWrite
  PROVE  Owned'
<1>1. /\ UNCHANGED <<head_, tail_, pc, hd, published, returned>>
      /\ \A i \in Slots : i # tail_ => arr_'[i] = arr_[i]
      /\ ppc' = "written" => arr_'[tail_].whole
  BY DEF PushBegin, PushWrite, TypeOK, Element
<1>2. ASSUME NEW c \in Consumers, Claimed(c)
      PROVE  hd[c] \in Slots /\ hd[c] # tail_
  <2>1. CASE PushBegin
    BY <1>2, <2>1 DEF PushBegin, Occupied, Claimed, TypeOK
  <2>2. CASE PushWrite
    BY <1>2, <2>2 DEF PushWrite, Writing, Owned, ClaimedInv, TypeOK
  <2>3. QED
    BY <2>1, <2>2
<1>3. CheckedInv'
  BY <1>1 DEF Owned, CheckedInv
<1>4. ClaimedInv'
  BY <1>1, <1>2 DEF Owned, ClaimedInv, Claimed, Live, Age
<1>5. RingInv'
  <2>1. ASSUME NEW i \in Slots, Live(i)
        PROVE  i # tail_
    BY <2>1, DistType DEF Live, TypeOK
  <2>2. \A i \in Slots : Live(i)' => arr_'[i].whole
    BY <1>1, <2>1 DEF Owned, RingInv, Live
  <2>3. \A c \in Consumers : Claimed(c) => Claimed(c)' /\ arr_'[hd'[c]] = arr_[hd[c]]
    BY <1>1, <1>2 DEF Claimed
  <2>4. Oldest' = Oldest
    BY <1>1 DEF Oldest
  <2>5. QED
    BY <1>1, <2>2, <2>3, <2>4 DEF Owned, RingInv
<1>6. QED
  BY <1>3, <1>4, <1>5 DEF Owned

\* Announcing the new element makes it the youngest of the ring.
LEMMA OwnedPushStore ==
  ASSUME TypeOK, SlotContents, Owned, laps' = {}, PushStore
  PROVE  Owned'
<1>1. /\ UNCHANGED <<arr_, head_, pc, hd, returned>>
      /\ tail_' = next(tail_) /\ published' = published + 1
      /\ ppc = "written" /\ ppc' = "stored"
      /\ ~full /\ ~Overtaken
  BY DEF PushStore
<1>2. /\ head_ \in Slots /\ tail_ \in Slots /\ published \in Nat
      /\ \A c \in Consumers : hd[c] \in Slots
  BY DEF TypeOK
<1>3. /\ Dist(head_, tail_)' = Dist(head_, tail_) + 1
      /\ Dist(head_, tail_) \in 0 .. Capacity - 1
  BY <1>1, <1>2, DistNextRight, DistType DEF full
<1>4. Oldest' = Oldest
  BY <1>1, <1>2, <1>3 DEF Oldest
<1>5. ASSUME NEW i \in Slots
      PROVE  Live(i)' <=> Live(i) \/ i = tail_
  <2>1. tail_' \in Slots
    BY <1>1, <1>2, NextValue
  <2>2. Live(i)' <=> Dist(head_, i) < Dist(head_, tail_) + 1
    BY <1>1, <1>3 DEF Live
  <2>3. Dist(head_, i) = Dist(head_, tail_) <=> i = tail_
    BY <1>2 DEF Dist, Slots
  <2>4. QED
    BY <1>2, <1>3, <2>2, <2>3, DistType DEF Live
<1>6. CheckedInv'
  BY <1>1 DEF CheckedInv, Overtaken
<1>7. ClaimedInv'
  <2>1. ASSUME NEW c \in Consumers, Claimed(c)
        PROVE  /\ ~Live(hd[c])'
               /\ Age(hd[c])' = Age(hd[c]) + 1
    <3>1. hd[c] # tail_ /\ ~Live(hd[c])
      BY <1>1, <2>1 DEF Owned, ClaimedInv, Writing
    <3>2. Age(hd[c])' = Age(hd[c]) + 1
      BY <1>1, <1>2, <3>1, AgeStep
    <3>3. QED
      BY <1>1, <1>2, <1>5, <3>1, <3>2
  <2>2. ASSUME NEW c \in Consumers, Claimed(c)
        PROVE  Age(hd[c])' <= published' /\ published' - Age(hd[c])' = published - Age(hd[c])
    <3>1. Age(hd[c]) <= published /\ Age(hd[c]) \in 1 .. Capacity
      BY <1>2, <2>2, AgeFacts DEF Owned, ClaimedInv
    <3>2. QED
      BY <1>1, <1>2, <2>1, <2>2, <3>1
  <2>3. \A c \in Consumers : Claimed(c)' <=> Claimed(c)
    BY <1>1 DEF Claimed
  <2>4. ~Writing'
    BY <1>1 DEF Writing
  <2>5. QED
    BY <1>1, <2>1, <2>2, <2>3, <2>4 DEF Owned, ClaimedInv
<1>8. RingInv'
  BY <1>1, <1>2, <1>4, <1>5 DEF Owned, RingInv, Claimed
<1>9. QED
  BY <1>6, <1>7, <1>8 DEF Owned

\* The compare-and-exchange passes the oldest element on to its consumer.
LEMMA OwnedPopClaim ==
  ASSUME TypeOK, SlotContents, Owned, NEW c \in Consumers, PopClaim(c)
  PROVE  Owned'
<1>1. /\ UNCHANGED <<arr_, tail_, ppc, hd, published, returned>>
      /\ pc' = [pc EXCEPT ![c] = "claimed"]
      /\ head_' = next(head_) /\ head_ = hd[c] /\ pc[c] = "checked"
  BY DEF PopClaim
<1>2. /\ head_ \in Slots /\ tail_ \in Slots /\ published \in Nat
      /\ \A d \in Consumers : hd[d] \in Slots
  BY DEF TypeOK
<1>3. head_ # tail_
  BY <1>1 DEF Owned, CheckedInv
<1>4. /\ Dist(head_, tail_)' = Dist(head_, tail_) - 1
      /\ Dist(head_, tail_) \in 1 .. Capacity - 1
  BY <1>1, <1>2, <1>3, DistNextLeft, DistType
<1>5. Oldest' = Oldest + 1
  BY <1>1, <1>2, <1>4 DEF Oldest
<1>6. ASSUME NEW i \in Slots
      PROVE  Live(i)' <=> Live(i) /\ i # head_
  <2>1. CASE i = head_
    <3>1. Dist(next(head_), head_) = Capacity - 1
      BY <1>2, <1>3, NextValue DEF Dist, Slots
    <3>2. QED
      BY <1>1, <1>2, <1>4, <2>1, <3>1 DEF Live
  <2>2. CASE i # head_
    <3>1. Dist(next(head_), i) = Dist(head_, i) - 1 /\ Dist(head_, i) \in Nat
      BY <1>2, <2>2, DistNextLeft, DistType
    <3>2. QED
      BY <1>1, <1>2, <1>4, <2>2, <3>1 DEF Live
  <2>3. QED
    BY <2>1, <2>2
<1>7. Live(head_) /\ Age(head_) = Dist(head_, tail_)
  BY <1>2, <1>3, <1>4 DEF Live, Age, Dist, Slots
<1>8. \A d \in Consumers : Claimed(d)' <=> Claimed(d) \/ d = c
  BY <1>1 DEF Claimed, TypeOK
<1>9. arr_[head_].task = Oldest /\ arr_[head_].whole /\ Oldest \notin returned
  <2>1. Oldest \in Nat /\ Age(head_) <= published /\ published - Age(head_) = Oldest
    BY <1>2, <1>4, <1>7 DEF Owned, RingInv, Oldest
  <2>2. arr_[head_].task = Oldest
    BY <1>2, <1>3, <2>1 DEF SlotContents
  <2>3. QED
    BY <1>2, <1>7, <2>1, <2>2 DEF Owned, RingInv
<1>10. CheckedInv'
  BY <1>1 DEF Owned, CheckedInv, TypeOK
<1>11. ClaimedInv'
  <2>1. ASSUME NEW d \in Consumers, Claimed(d)'
        PROVE  /\ ~Live(hd[d])' /\ arr_[hd[d]].whole
               /\ Age(hd[d]) <= published
               /\ published - Age(hd[d]) \notin returned
               /\ Writing => hd[d] # tail_
    <3>1. CASE d = c
      <4>1. Age(head_) <= published /\ published - Age(head_) = Oldest
        BY <1>2, <1>4, <1>7 DEF Owned, RingInv, Oldest
      <4>2. hd[d] = head_
        BY <1>1, <3>1
      <4>3. ~Live(hd[d])'
        BY <1>1, <1>2, <1>6, <4>2 DEF Live
      <4>4. QED
        BY <1>3, <1>9, <4>1, <4>2, <4>3
    <3>2. CASE d # c
      <4>1. Claimed(d)
        BY <1>8, <2>1, <3>2
      <4>2. ~Live(hd[d])
        BY <4>1 DEF Owned, ClaimedInv
      <4>3. ~Live(hd[d])'
        BY <1>1, <1>2, <1>6, <4>2 DEF Live
      <4>4. QED
        BY <4>1, <4>3 DEF Owned, ClaimedInv
    <3>3. QED
      BY <3>1, <3>2
  <2>2. ASSUME NEW d \in Consumers, NEW e \in Consumers, Claimed(d)', Claimed(e)', d # e
        PROVE  hd[d] # hd[e]
    BY <1>1, <1>2, <1>7, <1>8, <2>2 DEF Owned, ClaimedInv
  <2>3. QED
    BY <1>1, <2>1, <2>2 DEF ClaimedInv, Age, Writing
<1>12. RingInv'
  <2>1. 0 <= Oldest' /\ returned' \subseteq 0 .. Oldest' - 1
    BY <1>1, <1>2, <1>4, <1>5 DEF Owned, RingInv, Oldest
  <2>2. ASSUME NEW n \in 0 .. Oldest' - 1
        PROVE  n \in returned \/ \E d \in Consumers : Claimed(d)' /\ arr_[hd[d]].task = n
    <3>1. CASE n = Oldest
      BY <1>1, <1>8, <1>9, <3>1
    <3>2. CASE n # Oldest
      <4>1. n \in 0 .. Oldest - 1
        BY <1>2, <1>4, <1>5, <3>2 DEF Oldest
      <4>2. QED
        BY <1>8, <4>1 DEF Owned, RingInv
    <3>3. QED
      BY <3>1, <3>2
  <2>3. QED
    BY <1>1, <1>6, <2>1, <2>2 DEF Owned, RingInv
<1>13. QED
  BY <1>10, <1>11, <1>12 DEF Owned

\* Moving an element out of its slot takes it from nobody else.
LEMMA OwnedPopMove ==
  ASSUME TypeOK, SlotContents, Owned, NEW c \in Consumers, PopMove(c)
  PROVE  Owned'
<1>1. /\ UNCHANGED <<head_, tail_, ppc, hd, published>>
      /\ pc' = [pc EXCEPT ![c] = "moved"]
      /\ returned' = returned \cup {arr_[hd[c]].task}
      /\ Claimed(c)
  BY DEF PopMove, Claimed
<1>2. /\ head_ \in Slots /\ tail_ \in Slots /\ published \in Nat
      /\ \A d \in Consumers : hd[d] \in Slots
  BY DEF TypeOK
<1>3. \A i \in Slots : i # hd[c] => arr_'[i] = arr_[i]
  BY <1>2 DEF PopMove, TypeOK
<1>4. \A i \in Slots : arr_'[i].task = arr_[i].task
  BY PopFrame DEF Pop
<1>5. \A d \in Consumers : Claimed(d)' <=> Claimed(d) /\ d # c
  BY <1>1 DEF Claimed, TypeOK
<1>6. /\ arr_[hd[c]].task = published - Age(hd[c])
      /\ published - Age(hd[c]) \in 0 .. Oldest - 1
  BY <1>1, ClaimedTask
<1>7. CheckedInv'
  BY <1>1 DEF Owned, CheckedInv, TypeOK
<1>8. ClaimedInv'
  <2>1. ASSUME NEW d \in Consumers, Claimed(d)'
        PROVE  /\ ~Live(hd[d]) /\ arr_'[hd[d]].whole
               /\ Age(hd[d]) <= published
               /\ published - Age(hd[d]) \notin returned'
               /\ Writing => hd[d] # tail_
    <3>1. Claimed(d) /\ hd[d] # hd[c]
      BY <1>1, <1>5, <2>1 DEF Owned, ClaimedInv
    <3>2. published - Age(hd[d]) # published - Age(hd[c])
      <4>1. Age(hd[d]) # Age(hd[c])
        BY <1>2, <3>1, AgeFacts
      <4>2. Age(hd[d]) \in Int /\ Age(hd[c]) \in Int
        BY <1>2, AgeFacts
      <4>3. QED
        BY <1>2, <4>1, <4>2
    <3>3. QED
      BY <1>1, <1>2, <1>3, <1>6, <3>1, <3>2 DEF Owned, ClaimedInv
  <2>2. \A d, e \in Consumers : Claimed(d)' /\ Claimed(e)' /\ d # e => hd[d] # hd[e]
    BY <1>5 DEF Owned, ClaimedInv
  <2>3. QED
    BY <1>1, <2>1, <2>2 DEF ClaimedInv, Age, Live, Writing
<1>9. RingInv'
  <2>1. Oldest' = Oldest
    BY <1>1 DEF Oldest
  <2>2. \A i \in Slots : Live(i)' => arr_'[i].whole
    BY <1>1, <1>2, <1>3 DEF Owned, RingInv, ClaimedInv, Live
  <2>3. returned' \subseteq 0 .. Oldest - 1
    BY <1>1, <1>6 DEF Owned, RingInv
  <2>4. ASSUME NEW n \in 0 .. Oldest - 1
        PROVE  n \in returned' \/ \E d \in Consumers : Claimed(d)' /\ arr_'[hd[d]].task = n
    BY <1>1, <1>2, <1>4, <1>5 DEF Owned, RingInv
  <2>5. ppc' = "written" => arr_'[tail_].whole
    BY <1>1, <1>2, <1>3 DEF Owned, RingInv, ClaimedInv, Writing
  <2>6. QED
    BY <1>1, <2>1, <2>2, <2>3, <2>4, <2>5 DEF Owned, RingInv
<1>10. QED
  BY <1>7, <1>8, <1>9 DEF Owned

\* The steps that touch neither the ring nor a claimed slot change nothing.
LEMMA OwnedLocal ==
  ASSUME TypeOK, SlotContents, Owned, NEW c \in Consumers,
         PopLoad(c) \/ PopCheck(c) \/ PopLose(c) \/ PopCount(c)
  PROVE  Owned'
<1>1. /\ UNCHANGED <<arr_, head_, tail_, ppc, published, returned>>
      /\ \A d \in Consumers : Claimed(d)' <=> Claimed(d)
      /\ \A d \in Consumers : Claimed(d) => hd'[d] = hd[d]
  BY DEF PopLoad, PopCheck, PopLose, PopCount, Claimed, TypeOK
<1>2. CheckedInv'
  BY DEF PopLoad, PopCheck, PopLose, PopCount, Owned, CheckedInv, TypeOK
<1>3. ClaimedInv'
  BY <1>1 DEF Owned, ClaimedInv, Age, Live, Writing
<1>4. RingInv'
  BY <1>1 DEF Owned, RingInv, Oldest, Live
<1>5. QED
  BY <1>2, <1>3, <1>4 DEF Owned

\* A lap is never taken back.
LEMMA LapsStay ==
  ASSUME TypeOK, [Next]_vars, laps' = {}
  PROVE  laps = {}
<1>1. CASE PushBegin
  BY <1>1 DEF PushBegin
<1>2. CASE PushStore
  BY <1>2 DEF PushStore
<1>3. CASE PushWrite \/ PushCount \/ UNCHANGED vars
  BY <1>3 DEF PushWrite, PushCount, vars
<1>4. CASE \E c \in Consumers : Pop(c)
  BY <1>4, PopFrame
<1>5. QED
  BY <1>1, <1>2, <1>3, <1>4 DEF Next, Push

\* One step of push or pop preserves the invariant of the queue.
LEMMA QueueStep == TypeOK /\ QueueInv /\ [Next]_vars => QueueInv'
<1> SUFFICES ASSUME TypeOK, QueueInv, [Next]_vars
             PROVE  QueueInv'
  OBVIOUS
<1>1. SlotContents /\ SlotContents'
  BY ContentsStep DEF QueueInv
<1>2. SUFFICES ASSUME laps' = {}
               PROVE  Owned'
  BY <1>1 DEF QueueInv, Owned
<1>3. laps = {}
  BY <1>2, LapsStay
<1>4. Owned
  BY <1>3 DEF QueueInv, Owned
<1>5. CASE PushBegin \/ PushWrite
  BY <1>1, <1>2, <1>4, <1>5, OwnedPushSlot
<1>6. CASE PushStore
  BY <1>1, <1>2, <1>4, <1>6, OwnedPushStore
<1>7. CASE PushCount \/ UNCHANGED vars
  <2>1. /\ UNCHANGED <<arr_, head_, tail_, pc, hd, published, returned>>
        /\ Writing' <=> Writing
        /\ ppc' = "written" => ppc = "written"
    BY <1>7 DEF PushCount, vars, Writing
  <2>2. CheckedInv' /\ ClaimedInv'
    BY <1>4, <2>1 DEF Owned, CheckedInv, ClaimedInv, Claimed, Live, Age
  <2>3. RingInv'
    BY <1>4, <2>1 DEF Owned, RingInv, Claimed, Live, Oldest
  <2>4. QED
    BY <2>2, <2>3 DEF Owned
<1>8. ASSUME NEW c \in Consumers, Pop(c)
      PROVE  Owned'
  BY <1>1, <1>4, <1>8, OwnedPopClaim, OwnedPopMove, OwnedLocal DEF Pop
<1>9. QED
  BY <1>5, <1>6, <1>7, <1>8 DEF Next, Push

(***************************************************************************)
(* The queue's invariant holds for every capacity and any number of        *)
(* consumers.                                                              *)
(***************************************************************************)
THEOREM QueueCorrect == Spec => []QueueInv
<1>1. Init => QueueInv
  <2> SUFFICES ASSUME Init
               PROVE  QueueInv
    OBVIOUS
  <2>1. SlotContents
    BY DEF Init, SlotContents, Age, Dist, Slots, Vacant, NoTask
  <2>2. CheckedInv /\ ClaimedInv
    BY DEF Init, CheckedInv, ClaimedInv, Claimed
  <2>3. RingInv
    BY DEF Init, RingInv, Oldest, Dist, Live, Slots
  <2>4. QED
    BY <2>1, <2>2, <2>3 DEF QueueInv
<1>2. QED
  BY <1>1, QueueStep, TypeCorrect, PTL DEF Spec

\* No element that push announced disappears before the producer laps a slot.
THEOREM NothingLost == Spec => []NoTaskLost
<1>1. TypeOK /\ QueueInv => NoTaskLost
  <2> SUFFICES ASSUME TypeOK, QueueInv, laps = {}, NEW n \in 0 .. published - 1
               PROVE  n \in LiveTasks \cup HeldBy(Consumers) \cup returned
    BY DEF NoTaskLost
  <2>1. head_ \in Slots /\ tail_ \in Slots /\ published \in Nat
    BY DEF TypeOK
  <2>2. CASE n \in 0 .. Oldest - 1
    <3>1. n \in returned \/ \E c \in Consumers : Claimed(c) /\ arr_[hd[c]].task = n
      BY <2>2 DEF QueueInv, RingInv
    <3>2. QED
      BY <3>1 DEF HeldBy, Claimed
  <2>3. CASE n \notin 0 .. Oldest - 1
    <3> DEFINE a == published - n
               i == IF a <= tail_ THEN tail_ - a ELSE tail_ - a + Capacity
    <3>1. a \in 1 .. Dist(head_, tail_) /\ Dist(head_, tail_) \in 0 .. Capacity - 1
      BY <2>1, <2>3, DistType DEF Oldest
    <3>2. i \in Slots /\ i # tail_ /\ Age(i) = a
      BY <2>1, <3>1 DEF Age, Dist, Slots
    <3>3. Live(i)
      BY <3>1, <3>2, AgeFacts
    <3>4. arr_[i].task = n
      BY <2>1, <3>1, <3>2 DEF QueueInv, SlotContents
    <3>5. QED
      BY <3>2, <3>3, <3>4 DEF LiveTasks
  <2>4. QED
    BY <2>2, <2>3
<1>2. QED
  BY <1>1, TypeCorrect, QueueCorrect, PTL

\* No element is handed out twice or damaged before the producer laps a slot.
THEOREM NothingDoubled == Spec => []HandedOutOnce
<1>1. TypeOK /\ QueueInv => HandedOutOnce
  <2> SUFFICES ASSUME TypeOK, QueueInv, laps = {}, NEW c \in Consumers, Claimed(c)
               PROVE  /\ arr_[hd[c]].whole
                      /\ arr_[hd[c]].task \in 0 .. published - 1
                      /\ arr_[hd[c]].task \notin LiveTasks \cup returned \cup HeldBy(Consumers \ {c})
    BY DEF HandedOutOnce, Claimed
  <2>1. head_ \in Slots /\ tail_ \in Slots /\ published \in Nat
    BY DEF TypeOK
  <2>2. SlotContents /\ Owned
    BY DEF QueueInv, Owned
  <2>3. /\ hd[c] \in Slots
        /\ arr_[hd[c]].task = published - Age(hd[c])
        /\ published - Age(hd[c]) \in 0 .. Oldest - 1
    BY <2>2, ClaimedTask
  <2>4. arr_[hd[c]].whole /\ arr_[hd[c]].task \notin returned
    BY <2>2, <2>3 DEF Owned, ClaimedInv
  <2>5. arr_[hd[c]].task \in 0 .. published - 1
    BY <2>1, <2>3, DistType DEF Oldest
  <2>6. ASSUME NEW i \in Slots, Live(i)
        PROVE  arr_[i].task # arr_[hd[c]].task
    <3>1. /\ Age(i) \in 1 .. Capacity /\ Age(i) <= Dist(head_, tail_)
          /\ Dist(head_, tail_) \in 0 .. Capacity - 1
          /\ i # tail_
      BY <2>1, <2>6, AgeFacts, DistType DEF Live
    <3>2. 0 <= Oldest
      BY <2>2 DEF Owned, RingInv
    <3>3. arr_[i].task = published - Age(i)
      BY <2>1, <2>2, <3>1, <3>2 DEF SlotContents, Oldest
    <3>4. QED
      BY <2>1, <2>3, <3>1, <3>3 DEF Oldest
  <2>7. ASSUME NEW d \in Consumers, d # c, Claimed(d)
        PROVE  arr_[hd[d]].task # arr_[hd[c]].task
    <3>1. hd[d] \in Slots /\ arr_[hd[d]].task = published - Age(hd[d])
      BY <2>2, <2>7, ClaimedTask
    <3>2. hd[d] # hd[c]
      BY <2>2, <2>7 DEF Owned, ClaimedInv
    <3>3. Age(hd[d]) # Age(hd[c]) /\ Age(hd[d]) \in Int /\ Age(hd[c]) \in Int
      BY <2>3, <3>1, <3>2, AgeFacts
    <3>4. QED
      BY <2>1, <2>3, <3>1, <3>3
  <2>8. QED
    BY <2>4, <2>5, <2>6, <2>7 DEF LiveTasks, HeldBy, Claimed
<1>2. QED
  BY <1>1, TypeCorrect, QueueCorrect, PTL

-----------------------------------------------------------------------------
(* A queue that is used for fewer pushes than it has slots.                *)

\* Before the first wrap-around the cursors are ordered as plain numbers.
FewPushes ==
  published < Capacity =>
    /\ laps = {}
    /\ tail_ = published
    /\ head_ <= tail_
    /\ \A c \in Consumers :
         /\ hd[c] <= head_
         /\ Claimed(c) => hd[c] < head_
         /\ pc[c] = "checked" => hd[c] < tail_

\* One step of push or pop preserves the order of the cursors.
LEMMA FewPushesStep == TypeOK /\ FewPushes /\ [Next]_vars => FewPushes'
<1> SUFFICES ASSUME TypeOK, FewPushes, [Next]_vars, published' < Capacity
             PROVE  FewPushes'
  BY DEF FewPushes
<1>1. published \in Nat /\ head_ \in Slots /\ tail_ \in Slots /\ hd \in [Consumers -> Slots]
  BY DEF TypeOK
<1>2. CASE PushBegin
  BY <1>1, <1>2 DEF PushBegin, Occupied, FewPushes, Claimed, Slots
<1>3. ASSUME PushStore
      PROVE  FewPushes'
  <2>1. next(tail_) = tail_ + 1
    BY <1>1, <1>3, NextValue DEF PushStore, FewPushes, Slots
  <2>2. ~full /\ ~Overtaken
    BY <1>1, <1>3, <2>1 DEF PushStore, FewPushes, full, Overtaken, Slots
  <2>3. QED
    BY <1>1, <1>3, <2>1, <2>2 DEF PushStore, FewPushes, Claimed, Slots
<1>4. CASE PushWrite \/ PushCount \/ UNCHANGED vars
  BY <1>4 DEF PushWrite, PushCount, vars, FewPushes, Claimed
<1>5. ASSUME NEW c \in Consumers, Pop(c)
      PROVE  FewPushes'
  <2> USE <1>1 DEF FewPushes, Claimed, Slots, TypeOK
  <2>1. CASE PopLoad(c)
    BY <2>1 DEF PopLoad
  <2>2. CASE PopCheck(c)
    BY <2>2 DEF PopCheck
  <2>3. ASSUME PopClaim(c)
        PROVE  FewPushes'
    <3>1. published < Capacity /\ head_ < tail_ /\ head_ = hd[c]
      BY <2>3 DEF PopClaim
    <3>2. next(head_) = head_ + 1
      BY <3>1, NextValue
    <3>3. QED
      BY <2>3, <3>1, <3>2 DEF PopClaim
  <2>4. CASE PopLose(c)
    BY <2>4 DEF PopLose
  <2>5. CASE PopMove(c)
    BY <2>5 DEF PopMove
  <2>6. CASE PopCount(c)
    BY <2>6 DEF PopCount
  <2>7. QED
    BY <1>5, <2>1, <2>2, <2>3, <2>4, <2>5, <2>6 DEF Pop
<1>6. QED
  BY <1>2, <1>3, <1>4, <1>5 DEF Next, Push

\* The producer laps nobody before it has pushed as many elements as fit.
THEOREM NoEarlyLap == Spec => []NoLapBelowCapacity
<1>1. Init => FewPushes
  BY DEF Init, FewPushes, Claimed
<1>2. FewPushes => NoLapBelowCapacity
  BY DEF FewPushes, NoLapBelowCapacity
<1>3. QED
  BY <1>1, <1>2, FewPushesStep, TypeCorrect, PTL DEF Spec


-----------------------------------------------------------------------------
(* The counter size_.                                                      *)

\* What the quotient leaves over is determined by its range.
LEMMA ModUnique ==
  ASSUME NEW x \in Int, NEW m \in Nat \ {0}, NEW q \in Int, NEW r \in 0 .. m - 1, x = m * q + r
  PROVE  x % m = r
BY Z3

\* Counting up by one commutes with taking the remainder.
LEMMA ModUp ==
  ASSUME NEW x \in Int, NEW m \in Nat \ {0}, NEW q \in Int, NEW r \in 0 .. m - 1, x = m * q + r
  PROVE  (r + 1) % m = (x + 1) % m
<1>1. CASE r + 1 < m
  <2>1. x + 1 = m * q + (r + 1) /\ r + 1 \in 0 .. m - 1
    BY <1>1
  <2>2. (x + 1) % m = r + 1 /\ (r + 1) % m = r + 1
    BY <2>1, ModUnique
  <2>3. QED
    BY <2>2
<1>2. CASE r + 1 = m
  <2>1. x + 1 = m * (q + 1) + 0
    BY <1>2
  <2>2. (x + 1) % m = 0
    BY <2>1, ModUnique
  <2>3. (r + 1) % m = 0
    BY <1>2
  <2>4. QED
    BY <2>2, <2>3
<1>3. QED
  BY <1>1, <1>2

\* So does counting down by one.
LEMMA ModDown ==
  ASSUME NEW x \in Int, NEW m \in Nat \ {0}, NEW q \in Int, NEW r \in 0 .. m - 1, x = m * q + r
  PROVE  (r - 1) % m = (x - 1) % m
<1>1. CASE r > 0
  <2>1. x - 1 = m * q + (r - 1) /\ r - 1 \in 0 .. m - 1
    BY <1>1
  <2>2. (x - 1) % m = r - 1
    BY <2>1, ModUnique
  <2>3. (r - 1) % m = r - 1
    BY <2>1
  <2>4. QED
    BY <2>2, <2>3
<1>2. CASE r = 0
  <2>1. x - 1 = m * (q - 1) + (m - 1) /\ -1 = m * (-1) + (m - 1)
    BY <1>2
  <2>2. (x - 1) % m = m - 1
    BY <2>1, ModUnique
  <2>3. (-1) % m = m - 1
    BY <2>1, ModUnique
  <2>4. QED
    BY <1>2, <2>2, <2>3
<1>3. QED
  BY <1>1, <1>2

\* Counting a remainder up or down gives the remainder of the count.
LEMMA ModStep ==
  ASSUME NEW x \in Int, NEW m \in Nat \ {0}
  PROVE  ((x % m) + 1) % m = (x + 1) % m /\ ((x % m) - 1) % m = (x - 1) % m
<1>1. x \div m \in Int /\ x % m \in 0 .. m - 1 /\ x = m * (x \div m) + (x % m)
  BY Z3
<1>2. \A q \in Int, r \in 0 .. m - 1 : x = m * q + r => (r + 1) % m = (x + 1) % m /\ (r - 1) % m = (x - 1) % m
  BY ModUp, ModDown
<1>3. QED
  BY <1>1, <1>2, Zenon

\* The consumers that have advanced head_ and not yet counted.
Popping == {c \in Consumers : pc[c] \in {"claimed", "moved"}}

\* What size_ stands for.
Uncounted == IF ppc = "stored" THEN 1 ELSE 0
Queued == Dist(head_, tail_) + Cardinality(Popping) - Uncounted

\* One consumer more or less in the middle of pop.
LEMMA PoppingOne ==
  /\ IsFiniteSet(Popping) /\ Cardinality(Popping) \in Nat
  /\ \A c \in Consumers \ Popping : Cardinality(Popping \cup {c}) = Cardinality(Popping) + 1
  /\ \A c \in Popping : Cardinality(Popping \ {c}) = Cardinality(Popping) - 1
<1>1. IsFiniteSet(Popping)
  BY ConsumersAssumption, FS_Subset DEF Popping
<1>2. QED
  BY <1>1, FS_CardinalityType, FS_AddElement, FS_RemoveElement

\* Every step keeps size_ in line with the cursors.
LEMMA SizeStep ==
  ASSUME TypeOK, QueueInv, SizeCounts, [Next]_vars
  PROVE  SizeCounts'
<1>1. SUFFICES ASSUME laps' = {}
               PROVE  size_' = Queued' % SizeModulus
  BY DEF SizeCounts, Queued, Uncounted, Popping
<1>2. laps = {}
  BY <1>1, LapsStay
<1>3. size_ = Queued % SizeModulus /\ Owned
  BY <1>2 DEF SizeCounts, Queued, Uncounted, Popping, QueueInv, Owned
<1>4. /\ head_ \in Slots /\ tail_ \in Slots /\ Dist(head_, tail_) \in Nat
      /\ Queued \in Int /\ Uncounted \in {0, 1}
  BY DistType, PoppingOne DEF TypeOK, Queued, Uncounted
<1>5. CASE PushBegin \/ PushWrite \/ UNCHANGED vars
  <2>1. UNCHANGED <<size_, head_, tail_, pc>> /\ (ppc = "stored" <=> ppc' = "stored")
    BY <1>5 DEF PushBegin, PushWrite, vars
  <2>2. QED
    BY <1>3, <2>1 DEF Queued, Uncounted, Popping
<1>6. CASE PushStore
  <2>1. /\ UNCHANGED <<size_, head_, pc>> /\ tail_' = next(tail_) /\ next(tail_) # head_
        /\ ppc = "written" /\ ppc' = "stored"
    BY <1>1, <1>6 DEF PushStore, full
  <2>2. Dist(head_, tail_)' = Dist(head_, tail_) + 1
    BY <1>4, <2>1, DistNextRight
  <2>3. Popping' = Popping
    BY <2>1 DEF Popping
  <2>4. Queued' = Queued
    BY <1>4, <2>1, <2>2, <2>3, PoppingOne DEF Queued, Uncounted
  <2>5. QED
    BY <1>3, <2>1, <2>4
<1>7. CASE PushCount
  <2>1. /\ UNCHANGED <<head_, tail_, pc>> /\ size_' = (size_ + 1) % SizeModulus
        /\ ppc = "stored" /\ ppc' = "idle"
    BY <1>7 DEF PushCount
  <2>2. Queued' = Queued + 1
    BY <1>4, <2>1, PoppingOne DEF Queued, Uncounted, Popping
  <2>3. QED
    BY <1>3, <1>4, <2>1, <2>2, ModStep
<1>8. ASSUME NEW c \in Consumers, PopLoad(c) \/ PopCheck(c) \/ PopLose(c) \/ PopMove(c)
      PROVE  size_' = Queued' % SizeModulus
  <2>1. UNCHANGED <<size_, head_, tail_, ppc>> /\ Popping' = Popping
    BY <1>8 DEF PopLoad, PopCheck, PopLose, PopMove, Popping, TypeOK
  <2>2. QED
    BY <1>3, <2>1 DEF Queued, Uncounted
<1>9. ASSUME NEW c \in Consumers, PopClaim(c)
      PROVE  size_' = Queued' % SizeModulus
  <2>1. /\ UNCHANGED <<size_, tail_, ppc>> /\ head_' = next(head_) /\ head_ # tail_
        /\ c \notin Popping /\ Popping' = Popping \cup {c}
    BY <1>3, <1>9 DEF PopClaim, Owned, CheckedInv, Popping, TypeOK
  <2>2. Dist(head_, tail_)' = Dist(head_, tail_) - 1
    BY <1>4, <2>1, DistNextLeft
  <2>3. Cardinality(Popping') = Cardinality(Popping) + 1 /\ Cardinality(Popping) \in Nat
    BY <2>1, PoppingOne
  <2>4. Uncounted' = Uncounted
    BY <2>1 DEF Uncounted
  <2>5. Queued' = Queued
    BY <1>4, <2>2, <2>3, <2>4 DEF Queued
  <2>6. QED
    BY <1>3, <2>1, <2>5
<1>10. ASSUME NEW c \in Consumers, PopCount(c)
       PROVE  size_' = Queued' % SizeModulus
  <2>1. /\ UNCHANGED <<head_, tail_, ppc>> /\ size_' = (size_ - 1) % SizeModulus
        /\ c \in Popping /\ Popping' = Popping \ {c}
    BY <1>10 DEF PopCount, Popping, TypeOK
  <2>2. Cardinality(Popping') = Cardinality(Popping) - 1 /\ Cardinality(Popping) \in Nat
    BY <2>1, PoppingOne
  <2>3. Uncounted' = Uncounted /\ Dist(head_, tail_)' = Dist(head_, tail_)
    BY <2>1 DEF Uncounted
  <2>4. Queued' = Queued - 1
    BY <1>4, <2>2, <2>3 DEF Queued
  <2>5. QED
    BY <1>3, <1>4, <2>1, <2>4, ModStep
<1>11. QED
  BY <1>5, <1>6, <1>7, <1>8, <1>9, <1>10 DEF Next, Push, Pop

(***************************************************************************)
(* size_ is the number of queued elements modulo its width, but for the    *)
(* operations under way, whatever the order in which they count.           *)
(***************************************************************************)
THEOREM SizeCorrect == Spec => []SizeCounts
<1>1. Init => SizeCounts
  <2> SUFFICES ASSUME Init PROVE size_ = Queued % SizeModulus
    BY DEF SizeCounts, Queued, Uncounted, Popping
  <2>1. Popping = {} /\ Dist(head_, tail_) = 0 /\ Uncounted = 0 /\ size_ = 0
    BY DEF Init, Popping, Dist, Uncounted
  <2>2. Queued = 0
    BY <2>1, FS_EmptySet DEF Queued
  <2>3. 0 % SizeModulus = 0
    BY ModUnique
  <2>4. QED
    BY <2>1, <2>2, <2>3
<1>2. QED
  BY <1>1, SizeStep, TypeCorrect, QueueCorrect, PTL DEF Spec


-----------------------------------------------------------------------------
(* The queue implements TaskQueue.                                         *)

\* The refinement mapping: the tasks in the ring, and what each consumer holds.
Waiting == [i \in 1 .. Dist(head_, tail_) |-> arr_[SlotAt(i - 1)].task]
Hold == [c \in Consumers |->
           IF pc[c] # "claimed" THEN NoTask
           ELSE IF arr_[hd[c]].whole THEN arr_[hd[c]].task ELSE Torn]

\* The ring's slots are reached from head_, the tail after all of them.
LEMMA SlotAtFacts ==
  ASSUME TypeOK
  PROVE  /\ \A i \in Slots : SlotAt(i) \in Slots /\ Dist(head_, SlotAt(i)) = i
         /\ SlotAt(0) = head_ /\ SlotAt(Dist(head_, tail_)) = tail_
BY DEF TypeOK, SlotAt, Dist, Slots

\* The tasks in the ring, as a sequence.
WaitingOK ==
  /\ Waiting \in Seq(Int) /\ Len(Waiting) = Dist(head_, tail_)
  /\ Len(Waiting) \in 0 .. Capacity - 1
  /\ \A i \in 1 .. Len(Waiting) : Waiting[i] = arr_[SlotAt(i - 1)].task

\* The mapping yields that sequence in every state.
LEMMA WaitingSeq == TypeOK => WaitingOK
<1> SUFFICES ASSUME TypeOK PROVE WaitingOK
  OBVIOUS
<1>1. Dist(head_, tail_) \in 0 .. Capacity - 1
  BY DistType DEF TypeOK
<1>2. \A i \in 1 .. Dist(head_, tail_) : i - 1 \in Slots /\ SlotAt(i - 1) \in Slots
  BY <1>1, SlotAtFacts DEF Slots
<1>3. \A i \in 1 .. Dist(head_, tail_) : arr_[SlotAt(i - 1)].task \in Int
  BY <1>2 DEF TypeOK, Elements
<1>4. Waiting \in [1 .. Dist(head_, tail_) -> Int]
  BY <1>3 DEF Waiting
<1>5. Waiting \in Seq(Int)
  BY <1>1, <1>4, SeqDef
<1>6. Len(Waiting) = Dist(head_, tail_)
  BY <1>1, <1>4, <1>5, LenProperties
<1>7. QED
  BY <1>1, <1>4, <1>5, <1>6 DEF Waiting, WaitingOK

\* And in the next one.
LEMMA WaitingSeqNext == TypeOK' => WaitingOK'
BY WaitingSeq, PTL

\* Steps that leave cursors and tasks in the ring alone leave the sequence alone.
LEMMA WaitingFrame ==
  ASSUME TypeOK, UNCHANGED <<head_, tail_>>,
         \A i \in Slots : i # tail_ => arr_'[i].task = arr_[i].task
  PROVE  Waiting' = Waiting
<1>1. \A i \in 1 .. Dist(head_, tail_) : SlotAt(i - 1) \in Slots /\ SlotAt(i - 1) # tail_
  <2>1. ASSUME NEW i \in 1 .. Dist(head_, tail_)
        PROVE  SlotAt(i - 1) \in Slots /\ SlotAt(i - 1) # tail_
    <3>1. Dist(head_, tail_) \in 0 .. Capacity - 1
      BY DistType DEF TypeOK
    <3>2. i - 1 \in Slots /\ i - 1 # Dist(head_, tail_)
      BY <3>1 DEF Slots
    <3>3. QED
      BY <3>2, SlotAtFacts
  <2>2. QED
    BY <2>1
<1>2. \A i \in 1 .. Dist(head_, tail_) : SlotAt(i - 1)' = SlotAt(i - 1)
  BY DEF SlotAt
<1>3. Dist(head_, tail_)' = Dist(head_, tail_)
  OBVIOUS
<1>4. QED
  BY <1>1, <1>2, <1>3 DEF Waiting

\* A step of the ring that the abstract queue does not see.
LEMMA Unseen ==
  ASSUME TypeOK, UNCHANGED <<published, returned>>, Waiting' = Waiting, Hold' = Hold
  PROVE  UNCHANGED Abstract!vars
BY DEF Abstract!vars, Waiting, Hold


\* A consumer that has claimed nothing, or not the slot that changes, holds the same.
LEMMA HoldFrame ==
  ASSUME TypeOK, \A c \in Consumers : Claimed(c)' <=> Claimed(c),
         \A c \in Consumers : Claimed(c) => hd'[c] = hd[c] /\ arr_'[hd[c]] = arr_[hd[c]]
  PROVE  Hold' = Hold
<1>1. \A c \in Consumers : Hold'[c] = Hold[c]
  BY DEF Hold, Claimed
<1>2. QED
  BY <1>1 DEF Hold

\* Storing the new tail adds the element to the abstract queue.
LEMMA StoreAdds ==
  ASSUME TypeOK, SlotContents, Owned, TypeOK', laps' = {}, PushStore
  PROVE  Abstract!Add
<1>1. /\ UNCHANGED <<arr_, head_, pc, hd, returned>> /\ ppc = "written" /\ ~full
      /\ tail_' = next(tail_) /\ published' = published + 1
  BY DEF PushStore
<1>2. Dist(head_, tail_)' = Dist(head_, tail_) + 1
  BY <1>1, DistNextRight DEF TypeOK, full
<1>3. /\ Waiting \in Seq(Int) /\ Len(Waiting) \in Nat /\ Len(Waiting) = Dist(head_, tail_)
      /\ \A i \in 1 .. Len(Waiting) : Waiting[i] = arr_[SlotAt(i - 1)].task
  BY WaitingSeq DEF WaitingOK
<1>4. /\ Waiting' \in Seq(Int) /\ Len(Waiting') = Len(Waiting) + 1
      /\ \A i \in 1 .. Len(Waiting) + 1 : Waiting'[i] = arr_[SlotAt(i - 1)].task
  <2>1. /\ Waiting' \in Seq(Int) /\ Len(Waiting') = Dist(head_, tail_)'
        /\ \A i \in 1 .. Len(Waiting') : Waiting'[i] = arr_'[SlotAt(i - 1)'].task
    BY WaitingSeqNext DEF WaitingOK
  <2>2. \A i \in Int : SlotAt(i)' = SlotAt(i)
    BY <1>1 DEF SlotAt
  <2>3. Len(Waiting') = Len(Waiting) + 1
    BY <1>2, <1>3, <2>1
  <2>4. ASSUME NEW i \in 1 .. Len(Waiting) + 1
        PROVE  Waiting'[i] = arr_[SlotAt(i - 1)].task
    <3>1. i \in 1 .. Len(Waiting') /\ i - 1 \in Int
      BY <1>3, <2>3
    <3>2. QED
      BY <1>1, <2>1, <2>2, <3>1
  <2>5. QED
    BY <2>1, <2>3, <2>4
<1>5. arr_[SlotAt(Len(Waiting))].task = published /\ published \in Int
  BY <1>1, <1>3, SlotAtFacts DEF SlotContents, TypeOK
<1>6. Waiting' = Append(Waiting, published)
  <2>1. /\ Append(Waiting, published) \in Seq(Int)
        /\ Len(Append(Waiting, published)) = Len(Waiting) + 1
        /\ \A i \in 1 .. Len(Waiting) : Append(Waiting, published)[i] = Waiting[i]
        /\ Append(Waiting, published)[Len(Waiting) + 1] = published
    BY <1>3, <1>5, AppendProperties
  <2>2. \A i \in 1 .. Len(Waiting') : Waiting'[i] = Append(Waiting, published)[i]
    <3>1. ASSUME NEW i \in 1 .. Len(Waiting')
          PROVE  Waiting'[i] = Append(Waiting, published)[i]
      <4>1. CASE i \in 1 .. Len(Waiting)
        BY <1>3, <1>4, <2>1, <4>1
      <4>2. CASE i = Len(Waiting) + 1
        BY <1>3, <1>4, <1>5, <2>1, <4>2
      <4>3. QED
        BY <1>3, <1>4, <3>1, <4>1, <4>2
    <3>2. QED
      BY <3>1
  <2>3. QED
    BY <1>4, <2>1, <2>2, SeqEqual
<1>7. Hold' = Hold
  BY <1>1, HoldFrame DEF Claimed
<1>8. QED
  BY <1>1, <1>6, <1>7 DEF Abstract!Add, Waiting, Hold

\* Winning the compare-and-exchange takes the oldest element.
LEMMA ClaimTakes ==
  ASSUME TypeOK, SlotContents, Owned, TypeOK', NEW c \in Consumers, PopClaim(c)
  PROVE  Abstract!Take(c)
<1>1. /\ UNCHANGED <<arr_, tail_, hd, published, returned>>
      /\ pc[c] = "checked" /\ pc' = [pc EXCEPT ![c] = "claimed"]
      /\ head_ = hd[c] /\ head_' = next(head_) /\ head_ # tail_
  BY DEF PopClaim, Owned, CheckedInv
<1>2. head_ \in Slots /\ tail_ \in Slots /\ Dist(head_, tail_)' = Dist(head_, tail_) - 1
  BY <1>1, DistNextLeft DEF TypeOK
<1>3. /\ Waiting \in Seq(Int) /\ Len(Waiting) \in 1 .. Capacity - 1 /\ Len(Waiting) = Dist(head_, tail_)
      /\ Waiting # <<>>
      /\ \A i \in 1 .. Len(Waiting) : Waiting[i] = arr_[SlotAt(i - 1)].task
  BY <1>1, <1>2, WaitingSeq, DistType, EmptySeq DEF WaitingOK
<1>4. /\ Waiting' \in Seq(Int) /\ Len(Waiting') = Len(Waiting) - 1
      /\ \A i \in 1 .. Len(Waiting') : Waiting'[i] = arr_[SlotAt(i - 1)'].task
  <2>1. /\ Waiting' \in Seq(Int) /\ Len(Waiting') = Dist(head_, tail_)'
        /\ \A i \in 1 .. Len(Waiting') : Waiting'[i] = arr_'[SlotAt(i - 1)'].task
    BY WaitingSeqNext DEF WaitingOK
  <2>2. QED
    BY <1>1, <1>2, <1>3, <2>1
<1>5. \A i \in 1 .. Len(Waiting) - 1 : SlotAt(i - 1)' = SlotAt(i)
  <2>1. head_' = IF head_ = Capacity - 1 THEN 0 ELSE head_ + 1
    BY <1>1, <1>2, NextValue
  <2>2. QED
    BY <1>2, <1>3, <2>1 DEF SlotAt, Slots
<1>6. Waiting' = Tail(Waiting) /\ Head(Waiting) = arr_[head_].task
  <2>1. /\ Tail(Waiting) \in Seq(Int) /\ Len(Tail(Waiting)) = Len(Waiting) - 1
        /\ \A i \in 1 .. Len(Tail(Waiting)) : Tail(Waiting)[i] = Waiting[i + 1]
    BY <1>3, HeadTailProperties
  <2>2. \A i \in 1 .. Len(Waiting') : Waiting'[i] = Tail(Waiting)[i]
    <3>1. ASSUME NEW i \in 1 .. Len(Waiting')
          PROVE  Waiting'[i] = Tail(Waiting)[i]
      <4>1. i \in 1 .. Len(Waiting) - 1 /\ i + 1 \in 1 .. Len(Waiting) /\ (i + 1) - 1 = i
        BY <1>3, <1>4
      <4>2. Waiting'[i] = arr_[SlotAt(i)].task /\ Waiting[i + 1] = arr_[SlotAt(i)].task
        BY <1>3, <1>4, <1>5, <4>1
      <4>3. QED
        BY <1>4, <2>1, <4>2
    <3>2. QED
      BY <3>1
  <2>3. Waiting' = Tail(Waiting)
    BY <1>4, <2>1, <2>2, SeqEqual
  <2>4. Head(Waiting) = Waiting[1]
    BY <1>3
  <2>5. Waiting[1] = arr_[SlotAt(0)].task
    BY <1>3
  <2>6. QED
    BY <2>3, <2>4, <2>5, SlotAtFacts
<1>7. arr_[head_].whole
  BY <1>2, <1>3, DistType DEF Owned, RingInv, Live
<1>8. Hold[c] = NoTask /\ Hold' = [Hold EXCEPT ![c] = arr_[head_].task]
  <2>1. \A d \in Consumers : Hold'[d] = IF d = c THEN arr_[head_].task ELSE Hold[d]
    BY <1>1, <1>7 DEF Hold, TypeOK
  <2>2. QED
    BY <1>1, <2>1 DEF Hold
<1>9. QED
  BY <1>1, <1>3, <1>6, <1>8 DEF Abstract!Take, Waiting, Hold

\* Moving the element out delivers it.
LEMMA MoveDelivers ==
  ASSUME TypeOK, SlotContents, Owned, NEW c \in Consumers, PopMove(c)
  PROVE  Abstract!Deliver(c)
<1>1. /\ UNCHANGED <<head_, tail_, hd, published>>
      /\ Claimed(c) /\ pc[c] = "claimed" /\ pc' = [pc EXCEPT ![c] = "moved"]
      /\ returned' = returned \cup {arr_[hd[c]].task}
      /\ arr_' = [arr_ EXCEPT ![hd[c]] = MovedFrom(@)]
  BY DEF PopMove, Claimed
<1>2. /\ hd[c] \in Slots /\ arr_[hd[c]].whole
      /\ arr_[hd[c]].task \in Nat /\ arr_[hd[c]].task \notin returned
  <2>1. arr_[hd[c]].task = published - Age(hd[c]) /\ published - Age(hd[c]) \in 0 .. Oldest - 1 /\ Oldest \in Int
    BY <1>1, ClaimedTask, DistType DEF TypeOK, Oldest
  <2>2. QED
    BY <1>1, <2>1 DEF Owned, ClaimedInv, TypeOK
<1>3. Waiting' = Waiting
  BY <1>1, PopFrame, WaitingFrame DEF Pop
<1>4. Hold[c] = arr_[hd[c]].task /\ Hold[c] # NoTask
  BY <1>1, <1>2 DEF Hold, NoTask
<1>5. Hold' = [Hold EXCEPT ![c] = NoTask]
  <2>1. \A d \in Consumers \ {c} : Claimed(d) => hd[d] \in Slots /\ hd[d] # hd[c]
    BY <1>1 DEF Owned, ClaimedInv, TypeOK
  <2>2. \A i \in Slots : i # hd[c] => arr_'[i] = arr_[i]
    BY <1>1 DEF TypeOK
  <2>3. \A d \in Consumers : Hold'[d] = IF d = c THEN NoTask ELSE Hold[d]
    BY <1>1, <2>1, <2>2 DEF Hold, Claimed, TypeOK
  <2>4. QED
    BY <2>3 DEF Hold
<1>6. QED
  BY <1>1, <1>2, <1>3, <1>4, <1>5 DEF Abstract!Deliver, Waiting, Hold


\* Until a slot in use is lapped, a step of the queue is one of the abstract queue, or none.
LEMMA HandOffStep ==
  ASSUME TypeOK, QueueInv, TypeOK', [Next]_vars, laps' = {}
  PROVE  [Abstract!Next]_Abstract!vars
<1>1. SlotContents /\ Owned
  BY LapsStay DEF QueueInv, Owned
<1>2. CASE PushBegin \/ PushWrite
  <2>1. /\ UNCHANGED <<head_, tail_, pc, hd, published, returned>>
        /\ \A i \in Slots : i # tail_ => arr_'[i] = arr_[i]
    BY <1>2 DEF PushBegin, PushWrite, TypeOK
  <2>2. \A c \in Consumers : Claimed(c) => hd[c] \in Slots /\ hd[c] # tail_
    BY <1>1, <1>2 DEF PushBegin, PushWrite, Occupied, Claimed, Writing, Owned, ClaimedInv, TypeOK
  <2>3. Hold' = Hold
    BY <2>1, <2>2, HoldFrame DEF Claimed
  <2>4. Waiting' = Waiting
    BY <2>1, WaitingFrame
  <2>5. QED
    BY <2>1, <2>3, <2>4, Unseen
<1>3. CASE PushStore
  BY <1>1, <1>3, StoreAdds DEF Abstract!Next
<1>4. CASE PushCount \/ UNCHANGED vars
  <2>1. UNCHANGED <<arr_, head_, tail_, pc, hd, published, returned>>
    BY <1>4 DEF PushCount, vars
  <2>2. Hold' = Hold /\ Waiting' = Waiting
    BY <2>1, HoldFrame, WaitingFrame DEF Claimed
  <2>3. QED
    BY <2>1, <2>2, Unseen
<1>5. ASSUME NEW c \in Consumers, PopLoad(c) \/ PopCheck(c) \/ PopLose(c) \/ PopCount(c)
      PROVE  UNCHANGED Abstract!vars
  <2>1. /\ UNCHANGED <<arr_, head_, tail_, published, returned>>
        /\ \A d \in Consumers : Claimed(d)' <=> Claimed(d)
        /\ \A d \in Consumers : Claimed(d) => hd'[d] = hd[d]
    BY <1>5 DEF PopLoad, PopCheck, PopLose, PopCount, Claimed, TypeOK
  <2>2. Hold' = Hold /\ Waiting' = Waiting
    BY <2>1, HoldFrame, WaitingFrame
  <2>3. QED
    BY <2>1, <2>2, Unseen
<1>6. ASSUME NEW c \in Consumers, PopClaim(c) \/ PopMove(c)
      PROVE  Abstract!Next
  BY <1>1, <1>6, ClaimTakes, MoveDelivers DEF Abstract!Next
<1>7. QED
  BY <1>2, <1>3, <1>4, <1>5, <1>6 DEF Next, Push, Pop

(***************************************************************************)
(* Whatever the capacity and however many threads pop, the ring hands out  *)
(* its elements as TaskQueue says, oldest first and each to one consumer:  *)
(* push takes effect with the store of tail_, pop with its successful      *)
(* compare-and-exchange, until the producer laps a slot in use.            *)
(***************************************************************************)
THEOREM HandsOffInOrder == Spec => HandOff
<1>1. Init => Abstract!Init
  <2> SUFFICES ASSUME Init PROVE Abstract!Init
    OBVIOUS
  <2>1. Dist(head_, tail_) = 0
    BY DEF Init, Dist
  <2>2. Waiting = <<>>
    BY <2>1 DEF Waiting
  <2>3. Hold = [c \in Consumers |-> NoTask]
    BY DEF Init, Hold
  <2>4. QED
    BY <2>2, <2>3 DEF Init, Abstract!Init, Waiting, Hold
<1>2. TypeOK /\ TypeOK' /\ QueueInv /\ [Next]_vars => (laps' = {} => [Abstract!Next]_Abstract!vars)
  BY HandOffStep
<1>3. QED
  BY <1>1, <1>2, TypeCorrect, QueueCorrect, PTL DEF Spec, HandOff
=============================================================================
