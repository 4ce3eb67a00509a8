--------------------------- MODULE ExpectedProofs ---------------------------
(***************************************************************************)
(* Proofs about Expected for any number of objects, any values and errors, *)
(* and any T and E.                                                        *)
(***************************************************************************)
EXTENDS Expected, TLAPS

USE ExpectedAssumption

-----------------------------------------------------------------------------
(* The invariant.                                                          *)

Objects ==
  [live : {"val", "err", "none", "undef"}, held : Val \cup Err \cup {Moved}, has : BOOLEAN,
   leak : {"none", "base", "other"}]

\* An object in order: what is alive is what m_has_val says.
Whole(r) ==
  /\ r \in Objects /\ r.leak # "other"
  /\ \/ r.has = TRUE /\ r.live = "val" /\ r.held \in Val \cup {Moved}
     \/ r.has = FALSE /\ r.live = "err" /\ r.held \in Err \cup {Moved}

\* The types for which a catch clause may assign to what it destroyed.
Excused == (type.targs /\ ~type.etriv) \/ (type.emove /\ ~type.ttriv) \/ (type.tmove /\ ~type.etriv)

\* An object, storage without one, or what a catch clause made of one.
Accounted(r) == Whole(r) \/ r = Raw \/ (r \in Objects /\ r.leak # "other" /\ r.live = "undef" /\ Excused)

\* An object that lost its value to an emplace; only its destructor is called again.
Lost(r) == r \in Objects /\ r.leak # "other" /\ r.live \in {"none", "undef"}

(***************************************************************************)
(* LifetimesKept does not say what became of the storage an emplace that   *)
(* threw has left; its destructor still runs, and has to be accounted for. *)
(***************************************************************************)
ExpectedInvariant ==
  /\ type \in Types /\ hurt \subseteq Obj
  /\ obj \in [Obj -> Objects]
  /\ \A o \in Obj : IF o \in hurt THEN Lost(obj[o]) ELSE Accounted(obj[o])

-----------------------------------------------------------------------------
(* The operations on storage.                                              *)

LEMMA RawTyped == Raw \in Objects /\ Raw.live = "none" /\ Raw.leak = "none"
  BY DEF Raw, Objects

\* Construction in storage that is free.
LEMMA ConstructWhole ==
  ASSUME NEW r \in Objects, r.live = "none", r.leak # "other"
  PROVE  /\ \A c \in Val \cup {Moved} :
              Whole(construct(r, c)) /\ construct(r, c).has = TRUE /\ construct(r, c).held = c
         /\ \A c \in Err \cup {Moved} :
              Whole(construct_error(r, c)) /\ construct_error(r, c).has = FALSE /\ construct_error(r, c).held = c
  BY DEF Whole, Objects, construct, construct_error, New, Flag

\* Destruction of what is alive.
LEMMA KillFrees ==
  ASSUME NEW r, Whole(r), NEW kind, r.live = kind
  PROVE  /\ Kill(r, kind) \in Objects /\ Kill(r, kind).live = "none" /\ Kill(r, kind).leak # "other"
         /\ Kill(r, kind).held = r.held /\ Kill(r, kind).has = r.has
  BY DEF Whole, Objects, Kill

\* Assignment to what is alive.
LEMMA AssignWhole ==
  ASSUME NEW r, Whole(r), NEW kind, r.live = kind,
         NEW c \in (IF kind = "val" THEN Val ELSE Err) \cup {Moved}
  PROVE  Whole(Assign(r, kind, c)) /\ Assign(r, kind, c).has = r.has /\ Assign(r, kind, c).held = c
  BY DEF Whole, Objects, Assign

\* A move or copy, finished or not, leaves an object in order.
LEMMA RestWhole ==
  ASSUME NEW r, Whole(r), NEW how
  PROVE  Whole(Rest(how, r)) /\ \A s \in Spoil(r) : Whole(s)
  BY DEF Whole, Objects, Rest, Spoil

\* Putting back what was destroyed.
LEMMA RestoreAccounted ==
  ASSUME NEW r, Whole(r), NEW kind, r.live = kind,
         NEW s \in Restore(Kill(r, kind), kind, r.held),
         (IF kind = "val" THEN ~type.ttriv ELSE ~type.etriv) => Excused
  PROVE  Accounted(s) /\ ((IF kind = "val" THEN type.ttriv ELSE type.etriv) => s = r)
  <1> DEFINE free == Kill(r, kind)
             back == [free EXCEPT !.live = kind, !.held = r.held]
  <1>1. free \in Objects /\ free = [r EXCEPT !.live = "none"] /\ free.leak # "other"
    BY KillFrees DEF Kill
  <1>2. back = r
    BY <1>1 DEF Whole, Objects
  <1>3. Undef(free) \in Objects /\ Undef(free).live = "undef" /\ Undef(free).leak # "other"
    BY <1>1 DEF Undef, Objects
  <1>4. CASE IF kind = "val" THEN type.ttriv ELSE type.etriv
    BY <1>2, <1>4 DEF Restore, Accounted
  <1>5. CASE ~(IF kind = "val" THEN type.ttriv ELSE type.etriv)
    BY <1>2, <1>3, <1>5 DEF Restore, Accounted
  <1> QED BY <1>4, <1>5

\* When the error that is put back is lost on the way.
LEMMA SpoiltAccounted ==
  ASSUME NEW r, Whole(r), r.live = "err", NEW s \in Restore(Kill(r, "err"), "err", Moved), ~type.etriv => Excused
  PROVE  Accounted(s)
  <1> DEFINE free == Kill(r, "err")
             back == [free EXCEPT !.live = "err", !.held = Moved]
  <1>1. free \in Objects /\ free = [r EXCEPT !.live = "none"] /\ free.leak # "other"
    BY KillFrees DEF Kill
  <1>2. Whole(back)
    BY <1>1 DEF Whole, Objects
  <1>3. Undef(free) \in Objects /\ Undef(free).live = "undef" /\ Undef(free).leak # "other"
    BY <1>1 DEF Undef, Objects
  <1>4. CASE type.etriv
    BY <1>2, <1>4 DEF Restore, Accounted
  <1>5. CASE ~type.etriv
    BY <1>2, <1>3, <1>5 DEF Restore, Accounted
  <1> QED BY <1>4, <1>5

-----------------------------------------------------------------------------
(* The three ways an operation ends.                                       *)

LEMMA UsableWhole ==
  ASSUME ExpectedInvariant, NEW x \in Obj, Usable(x)
  PROVE  Whole(obj[x]) /\ x \notin hurt
  <1>1. x \notin hurt /\ obj[x].live \in {"val", "err"}
    BY DEF Usable, Exists
  <1>2. Accounted(obj[x])
    BY <1>1 DEF ExpectedInvariant
  <1> QED BY <1>1, <1>2, RawTyped DEF Accounted

\* m_has_val of an object in order, and what it contains.
LEMMA WholeKind ==
  ASSUME NEW r, Whole(r)
  PROVE  /\ r \in Objects /\ r.has \in BOOLEAN
         /\ r.has => r.has = TRUE /\ r.live = "val" /\ r.held \in Val \cup {Moved}
         /\ ~r.has => r.has = FALSE /\ r.live = "err" /\ r.held \in Err \cup {Moved}
  BY DEF Whole

\* The object gets new contents, of the same kind or of the other.
LEMMA ChangeContents ==
  ASSUME NEW r, Whole(r)
  PROVE  /\ r.has => \A c \in Val \cup {Moved} :
              Whole(Assign(r, "val", c)) /\ Assign(r, "val", c).has = TRUE /\ Assign(r, "val", c).held = c
         /\ ~r.has => \A c \in Err \cup {Moved} :
              Whole(Assign(r, "err", c)) /\ Assign(r, "err", c).has = FALSE /\ Assign(r, "err", c).held = c
         /\ r.has => \A c \in Err \cup {Moved} :
              LET n == construct_error(Kill(r, "val"), c) IN Whole(n) /\ n.has = FALSE /\ n.held = c
         /\ ~r.has => \A c \in Val \cup {Moved} :
              LET n == construct(Kill(r, "err"), c) IN Whole(n) /\ n.has = TRUE /\ n.held = c
  <1>1. CASE r.has
    <2>1. r.live = "val" /\ r.has = TRUE
      BY <1>1, WholeKind
    <2>2. \A c \in Val \cup {Moved} :
            Whole(Assign(r, "val", c)) /\ Assign(r, "val", c).has = TRUE /\ Assign(r, "val", c).held = c
      BY <2>1, AssignWhole
    <2>3. Kill(r, "val") \in Objects /\ Kill(r, "val").live = "none" /\ Kill(r, "val").leak # "other"
      BY <2>1, KillFrees
    <2> QED BY <1>1, <2>2, <2>3, ConstructWhole
  <1>2. CASE ~r.has
    <2>1. r.live = "err" /\ r.has = FALSE
      BY <1>2, WholeKind
    <2>2. \A c \in Err \cup {Moved} :
            Whole(Assign(r, "err", c)) /\ Assign(r, "err", c).has = FALSE /\ Assign(r, "err", c).held = c
      BY <2>1, AssignWhole
    <2>3. Kill(r, "err") \in Objects /\ Kill(r, "err").live = "none" /\ Kill(r, "err").leak # "other"
      BY <2>1, KillFrees
    <2> QED BY <1>2, <2>2, <2>3, ConstructWhole
  <1> QED BY <1>1, <1>2

LEMMA ChangeKeeps ==
  ASSUME ExpectedInvariant, NEW x \in Obj, NEW y \in Obj, NEW nx, NEW ny, x \notin hurt, y \notin hurt,
         Accounted(nx), y # x => Accounted(ny), UNCHANGED <<type, hurt>>,
         obj' = [o \in Obj |-> IF o = x THEN nx ELSE IF o = y THEN ny ELSE obj[o]]
  PROVE  ExpectedInvariant'
  <1>1. \A r : Accounted(r) => r \in Objects
    BY RawTyped DEF Accounted, Whole
  <1>2. Excused' = Excused
    BY DEF Excused
  <1>3. \A o \in Obj : obj'[o] = IF o = x THEN nx ELSE IF o = y THEN ny ELSE obj[o]
    OBVIOUS
  <1>4. obj' \in [Obj -> Objects]
    BY <1>1 DEF ExpectedInvariant
  <1>5. ASSUME NEW o \in Obj PROVE IF o \in hurt THEN Lost(obj'[o]) ELSE Accounted(obj'[o])
    BY <1>3 DEF ExpectedInvariant
  <1>6. ASSUME NEW o \in Obj, Accounted(obj'[o]) PROVE Accounted(obj[o])'
    BY <1>2, <1>6 DEF Accounted, Whole, Objects, Raw
  <1>7. ASSUME NEW o \in Obj, Lost(obj'[o]) PROVE Lost(obj[o])'
    BY <1>7 DEF Lost, Objects
  <1> QED BY <1>4, <1>5, <1>6, <1>7 DEF ExpectedInvariant, Types

LEMMA OkKeeps ==
  ASSUME ExpectedInvariant, UNCHANGED type, NEW x \in Obj, NEW y \in Obj, x \notin hurt, y \notin hurt,
         NEW op, NEW how, NEW nx, NEW ny, Ok(op, x, y, how, nx, ny),
         Accounted(nx), y # x => Accounted(ny),
         op \in {"assign", "swap"} => Meaning(nx) = Meaning(obj[y]),
         op = "swap" => x # y /\ Meaning(ny) = Meaning(obj[x])
  PROVE  ExpectedInvariant' /\ DoesAsItSays
  <1>1. /\ obj' = [o \in Obj |-> IF o = x THEN nx ELSE IF o = y THEN ny ELSE obj[o]]
        /\ UNCHANGED hurt
        /\ done' = [op |-> op, x |-> x, y |-> y, how |-> how, end |-> "ok"]
    BY DEF Ok, Did
  <1>2. ExpectedInvariant'
    BY <1>1, ChangeKeeps
  <1>3. obj'[x] = nx /\ (y # x => obj'[y] = ny)
    BY <1>1
  <1>4. done'.op = op /\ done'.x = x /\ done'.y = y /\ done'.end = "ok"
    BY <1>1
  <1> QED BY <1>2, <1>3, <1>4 DEF DoesAsItSays

LEMMA ThrowsKeeps ==
  ASSUME ExpectedInvariant, UNCHANGED type, NEW x \in Obj, NEW y \in Obj, x \notin hurt, y \notin hurt,
         NEW op, NEW nx, NEW ny, Throws(op, x, nx, y, ny),
         Accounted(nx), y # x => Accounted(ny),
         type.etriv /\ ~type.emove /\ (op = "assign" => obj[y].has) =>
           (~obj[x].has => nx = obj[x]) /\ (y # x /\ ~obj[y].has => ny = obj[y])
  PROVE  ExpectedInvariant' /\ DoesAsItSays
  <1>1. /\ obj' = [o \in Obj |-> IF o = x THEN nx ELSE IF o = y THEN ny ELSE obj[o]]
        /\ UNCHANGED hurt
        /\ done' = [op |-> op, x |-> x, y |-> y, how |-> "any", end |-> "throws"]
    BY DEF Throws, Did
  <1>2. ExpectedInvariant'
    BY <1>1, ChangeKeeps
  <1>3. obj'[x] = nx /\ (y # x => obj'[y] = ny)
    BY <1>1
  <1>4. done'.op = op /\ done'.x = x /\ done'.y = y /\ done'.end = "throws"
    BY <1>1
  <1> QED BY <1>2, <1>3, <1>4 DEF DoesAsItSays

LEMMA UnchangedKeeps ==
  ASSUME ExpectedInvariant, UNCHANGED <<type, obj, hurt>>
  PROVE  ExpectedInvariant'
  BY DEF ExpectedInvariant, Types, Accounted, Whole, Lost, Objects, Excused, Raw

LEMMA TerminatesKeeps ==
  ASSUME ExpectedInvariant, UNCHANGED type, NEW op, NEW x, NEW y, Terminates(op, x, y)
  PROVE  ExpectedInvariant' /\ DoesAsItSays
  <1>1. UNCHANGED <<obj, hurt>> /\ done' = [op |-> op, x |-> x, y |-> y, how |-> "any", end |-> "terminate"]
    BY DEF Terminates, Did
  <1>2. ExpectedInvariant'
    BY <1>1, UnchangedKeeps
  <1>3. done'.end = "terminate"
    BY <1>1
  <1> QED BY <1>2, <1>3 DEF DoesAsItSays

-----------------------------------------------------------------------------
(* The operations.                                                         *)

\* What the conversion makes of a base that has some value already.
LEMMA ConvertWhole ==
  ASSUME NEW c
  PROVE  LET base == construct(Raw, c)
         IN /\ \A v \in Val : Whole([construct(base, v) EXCEPT !.leak = "base"])
            /\ \A e \in Err : Whole([construct_error(base, e) EXCEPT !.leak = "base"])
  <1> DEFINE base == construct(Raw, c)
             Any == [live : {"val", "err", "none", "undef"}, held : {c} \cup Val \cup Err \cup {Moved},
                     has : BOOLEAN, leak : {"none", "base", "other"}]
  <1>1. base \in Any
    <2>1. Raw \in Any
      BY DEF Raw
    <2> HIDE DEF Any
    <2>2. New(Raw, "val", c) \in Any
      BY <2>1, RawTyped DEF New, Any
    <2> QED BY <2>2 DEF construct, Flag, Any
  <1> HIDE DEF base
  <1>2. ASSUME NEW v \in Val PROVE Whole([construct(base, v) EXCEPT !.leak = "base"])
    BY <1>1 DEF construct, New, Flag, Whole, Objects
  <1>3. ASSUME NEW e \in Err PROVE Whole([construct_error(base, e) EXCEPT !.leak = "base"])
    BY <1>1 DEF construct_error, New, Flag, Whole, Objects
  <1> QED BY <1>2, <1>3 DEF base

LEMMA CreateStep ==
  ASSUME ExpectedInvariant, NEW x \in Obj, expected(x) \/ expected_convert(x)
  PROVE  ExpectedInvariant' /\ DoesAsItSays
  <1>1. x \notin hurt /\ UNCHANGED type
    BY DEF expected, expected_convert, Exists, Runs
  <1>2. CASE expected(x)
    <2>1. ASSUME NEW v \in Val, Ok("create", x, x, "move", construct(Raw, v), Raw)
          PROVE  ExpectedInvariant' /\ DoesAsItSays
      <3>1. Whole(construct(Raw, v))
        BY RawTyped, ConstructWhole
      <3> QED BY <1>1, <2>1, <3>1, OkKeeps DEF Accounted
    <2>2. ASSUME NEW e \in Err, Ok("create", x, x, "move", construct_error(Raw, e), Raw)
          PROVE  ExpectedInvariant' /\ DoesAsItSays
      <3>1. Whole(construct_error(Raw, e))
        BY RawTyped, ConstructWhole
      <3> QED BY <1>1, <2>2, <3>1, OkKeeps DEF Accounted
    <2> QED BY <1>2, <2>1, <2>2 DEF expected
  <1>3. CASE expected_convert(x)
    <2> DEFINE base == construct(Raw, CHOOSE v \in Val : TRUE)
               lost(o) == [o EXCEPT !.leak = "base"]
    <2>1. /\ \A v \in Val : Whole(lost(construct(base, v)))
          /\ \A e \in Err : Whole(lost(construct_error(base, e)))
      BY ConvertWhole
    <2> HIDE DEF base
    <2>4. \/ \E v \in Val : Ok("convert", x, x, "any", lost(construct(base, v)), Raw)
          \/ \E e \in Err : Ok("convert", x, x, "any", lost(construct_error(base, e)), Raw)
          \/ Terminates("convert", x, x)
      BY <1>3 DEF expected_convert, base
    <2> HIDE DEF lost
    <2>5. CASE \E v \in Val : Ok("convert", x, x, "any", lost(construct(base, v)), Raw)
      <3>1. PICK v \in Val : Ok("convert", x, x, "any", lost(construct(base, v)), Raw)
        BY <2>5
      <3> QED BY <1>1, <2>1, <3>1, OkKeeps DEF Accounted
    <2>6. CASE \E e \in Err : Ok("convert", x, x, "any", lost(construct_error(base, e)), Raw)
      <3>1. PICK e \in Err : Ok("convert", x, x, "any", lost(construct_error(base, e)), Raw)
        BY <2>6
      <3> QED BY <1>1, <2>1, <3>1, OkKeeps DEF Accounted
    <2> QED BY <1>1, <2>4, <2>5, <2>6, TerminatesKeeps
  <1> QED BY <1>2, <1>3

LEMMA CopyStep ==
  ASSUME ExpectedInvariant, NEW x \in Obj, NEW y \in Obj, NEW how, expected_copy_base(how, x, y)
  PROVE  ExpectedInvariant' /\ DoesAsItSays
  <1>1. x \notin hurt /\ UNCHANGED type /\ Whole(obj[y]) /\ y \notin hurt
    BY UsableWhole DEF expected_copy_base, Exists, Runs
  <1> DEFINE nx == IF obj[y].has THEN construct(Raw, obj[y].held) ELSE construct_error(Raw, obj[y].held)
  <1>2. Whole(nx) /\ nx.has = obj[y].has /\ nx.held = obj[y].held
    <2>1. CASE obj[y].has
      <3>1. obj[y].has = TRUE /\ obj[y].held \in Val \cup {Moved}
        BY <1>1, <2>1, WholeKind
      <3> QED BY <2>1, <3>1, RawTyped, ConstructWhole
    <2>2. CASE ~obj[y].has
      <3>1. obj[y].has = FALSE /\ obj[y].held \in Err \cup {Moved}
        BY <1>1, <2>2, WholeKind
      <3> QED BY <2>2, <3>1, RawTyped, ConstructWhole
    <2> QED BY <2>1, <2>2
  <1>3. Whole(Rest(how, obj[y]))
    BY <1>1, RestWhole
  <1> HIDE DEF nx
  <1>4. CASE Ok("assign", x, y, how, nx, Rest(how, obj[y]))
    BY <1>1, <1>2, <1>3, <1>4, OkKeeps DEF Accounted, Meaning
  <1> QED BY <1>1, <1>4, TerminatesKeeps DEF expected_copy_base, nx

LEMMA DestroyStep ==
  ASSUME ExpectedInvariant, NEW x \in Obj, destructor(x)
  PROVE  ExpectedInvariant' /\ DoesAsItSays
  <1> DEFINE o == Kill(obj[x], IF obj[x].has THEN "val" ELSE "err")
             nx == IF o.live = "none" THEN Raw ELSE o
  <1>1. /\ obj' = [obj EXCEPT ![x] = nx] /\ UNCHANGED <<type, hurt>>
        /\ done' = [op |-> "destroy", x |-> x, y |-> x, how |-> "any", end |-> "ok"]
    BY DEF destructor, Runs, Did
  <1>2. DoesAsItSays
    <2>1. done'.op = "destroy" /\ done'.end = "ok"
      BY <1>1
    <2> QED BY <2>1 DEF DoesAsItSays
  <1>3. CASE x \notin hurt
    <2>1. Whole(obj[x])
      BY <1>3, UsableWhole DEF destructor, Usable
    <2>2. o.live = "none"
      BY <2>1, WholeKind, KillFrees
    <2>3. Accounted(nx)
      BY <2>2 DEF Accounted
    <2>4. obj' = [p \in Obj |-> IF p = x THEN nx ELSE IF p = x THEN nx ELSE obj[p]]
      BY <1>1 DEF ExpectedInvariant
    <2> HIDE DEF nx
    <2> QED BY <1>1, <1>2, <1>3, <2>3, <2>4, ChangeKeeps
  <1>4. CASE x \in hurt
    <2>1. Lost(obj[x])
      BY <1>4 DEF ExpectedInvariant
    <2>2. Lost(nx)
      BY <2>1, RawTyped DEF Lost, Kill, Undef, Objects
    <2> HIDE DEF nx
    <2>3. obj' \in [Obj -> Objects]
      BY <1>1, <2>2 DEF ExpectedInvariant, Lost
    <2>4. ASSUME NEW p \in Obj PROVE IF p \in hurt THEN Lost(obj'[p]) ELSE Accounted(obj'[p])
      <3>1. CASE p = x
        BY <1>1, <1>4, <2>2, <3>1 DEF ExpectedInvariant
      <3>2. CASE p # x
        <4>1. obj'[p] = obj[p]
          BY <1>1, <3>2 DEF ExpectedInvariant
        <4> QED BY <4>1 DEF ExpectedInvariant
      <3> QED BY <3>1, <3>2
    <2>5. ASSUME NEW p \in Obj, Accounted(obj'[p]) PROVE Accounted(obj[p])'
      BY <1>1, <2>5 DEF Accounted, Whole, Objects, Raw, Excused
    <2>6. ASSUME NEW p \in Obj, Lost(obj'[p]) PROVE Lost(obj[p])'
      BY <2>6 DEF Lost, Objects
    <2> QED BY <1>1, <1>2, <2>3, <2>4, <2>5, <2>6 DEF ExpectedInvariant, Types
  <1> QED BY <1>3, <1>4

LEMMA AssignStep ==
  ASSUME ExpectedInvariant, NEW x \in Obj, NEW y \in Obj, NEW how, assign(how, x, y) \/ assign_common(how, x, y)
  PROVE  ExpectedInvariant' /\ DoesAsItSays
  <1>1. /\ UNCHANGED type /\ x # y
        /\ Whole(obj[x]) /\ x \notin hurt /\ Whole(obj[y]) /\ y \notin hurt
    BY UsableWhole DEF assign, assign_common, Runs
  <1>2. /\ Whole(Rest(how, obj[y])) /\ \A o \in Spoil(obj[x]) : Whole(o)
    BY <1>1, RestWhole
  <1>3. ASSUME NEW nx, Whole(nx), nx.has = obj[y].has, nx.held = obj[y].held,
               Ok("assign", x, y, how, nx, Rest(how, obj[y]))
        PROVE  ExpectedInvariant' /\ DoesAsItSays
    BY <1>1, <1>2, <1>3, OkKeeps DEF Accounted, Meaning
  <1>4. ASSUME NEW o \in Spoil(obj[x]), Throws("assign", x, o, y, obj[y]),
               obj[y].has => obj[x].has \/ type.emove
        PROVE  ExpectedInvariant' /\ DoesAsItSays
    BY <1>1, <1>2, <1>4, ThrowsKeeps DEF Accounted
  <1>5. CASE assign(how, x, y)
    <2>1. ~obj[x].has /\ obj[y].has
      BY <1>5 DEF assign
    <2>2. obj[x].live = "err" /\ obj[y].has = TRUE /\ obj[y].held \in Val \cup {Moved}
      BY <1>1, <2>1, WholeKind
    <2> DEFINE nx == construct(Kill(obj[x], "err"), obj[y].held)
    <2>3. Whole(nx) /\ nx.has = obj[y].has /\ nx.held = obj[y].held
      BY <1>1, <2>1, <2>2, ChangeContents
    <2>4. \/ Ok("assign", x, y, how, nx, Rest(how, obj[y]))
          \/ Terminates("assign", x, y)
          \/ type.emove /\ \E o \in Spoil(obj[x]) : Throws("assign", x, o, y, obj[y])
      BY <1>5 DEF assign
    <2> HIDE DEF nx
    <2> QED BY <1>1, <1>3, <1>4, <2>3, <2>4, TerminatesKeeps
  <1>6. CASE assign_common(how, x, y)
    <2> DEFINE nx == IF obj[y].has THEN Assign(obj[x], "val", obj[y].held)
                     ELSE IF obj[x].has THEN construct_error(Kill(obj[x], "val"), obj[y].held)
                     ELSE Assign(obj[x], "err", obj[y].held)
    <2>1. Whole(nx) /\ nx.has = obj[y].has /\ nx.held = obj[y].held
      <3>1. CASE obj[y].has
        <4>1. obj[x].has
          BY <1>6, <3>1 DEF assign_common
        <4>2. obj[x].live = "val" /\ obj[x].has = TRUE /\ obj[y].has = TRUE /\ obj[y].held \in Val \cup {Moved}
          BY <1>1, <3>1, <4>1, WholeKind
        <4>3. nx = Assign(obj[x], "val", obj[y].held)
          BY <3>1
        <4>4. \A c \in Val \cup {Moved} :
                LET n == Assign(obj[x], "val", c) IN Whole(n) /\ n.has = TRUE /\ n.held = c
          BY <1>1, <4>1, ChangeContents
        <4> HIDE DEF nx
        <4> QED BY <4>2, <4>3, <4>4
      <3>2. CASE ~obj[y].has /\ obj[x].has
        <4>1. obj[x].live = "val" /\ obj[y].has = FALSE /\ obj[y].held \in Err \cup {Moved}
          BY <1>1, <3>2, WholeKind
        <4>2. nx = construct_error(Kill(obj[x], "val"), obj[y].held)
          BY <3>2
        <4>3. \A c \in Err \cup {Moved} :
                LET n == construct_error(Kill(obj[x], "val"), c) IN Whole(n) /\ n.has = FALSE /\ n.held = c
          BY <1>1, <3>2, ChangeContents
        <4> HIDE DEF nx
        <4> QED BY <4>1, <4>2, <4>3
      <3>3. CASE ~obj[y].has /\ ~obj[x].has
        <4>1. obj[x].live = "err" /\ obj[x].has = FALSE /\ obj[y].has = FALSE /\ obj[y].held \in Err \cup {Moved}
          BY <1>1, <3>3, WholeKind
        <4>2. nx = Assign(obj[x], "err", obj[y].held)
          BY <3>3
        <4>3. \A c \in Err \cup {Moved} :
                LET n == Assign(obj[x], "err", c) IN Whole(n) /\ n.has = FALSE /\ n.held = c
          BY <1>1, <3>3, ChangeContents
        <4> HIDE DEF nx
        <4> QED BY <4>1, <4>2, <4>3
      <3> QED BY <3>1, <3>2, <3>3
    <2>2. \/ Ok("assign", x, y, how, nx, Rest(how, obj[y]))
          \/ Terminates("assign_common", x, y)
          \/ obj[x].has = obj[y].has /\ \E o \in Spoil(obj[x]) : Throws("assign", x, o, y, obj[y])
      BY <1>6 DEF assign_common
    <2> HIDE DEF nx
    <2> QED BY <1>1, <1>3, <1>4, <2>1, <2>2, TerminatesKeeps
  <1> QED BY <1>5, <1>6

\* The new value takes the place of the error, or the error is put back.
LEMMA FromErrorStep ==
  ASSUME ExpectedInvariant, UNCHANGED type, NEW x \in Obj, Whole(obj[x]), x \notin hurt, ~obj[x].has,
         NEW v \in Val, FromError("switch", x, v)
  PROVE  ExpectedInvariant' /\ DoesAsItSays
  <1>1. obj[x].live = "err"
    BY WholeKind
  <1>2. Whole(construct(Kill(obj[x], "err"), v))
    <2>1. \A c \in Val \cup {Moved} : Whole(construct(Kill(obj[x], "err"), c))
      BY ChangeContents
    <2> QED BY <2>1
  <1>3. CASE Ok("switch", x, x, "move", construct(Kill(obj[x], "err"), v), obj[x])
    BY <1>2, <1>3, OkKeeps DEF Accounted
  <1>4. ASSUME type.targs, NEW o \in Restore(Kill(obj[x], "err"), "err", obj[x].held), Throws("switch", x, o, x, o)
        PROVE  ExpectedInvariant' /\ DoesAsItSays
    <2>1. ~type.etriv => Excused
      BY <1>4 DEF Excused
    <2>2. Accounted(o) /\ (type.etriv => o = obj[x])
      BY <1>1, <2>1, RestoreAccounted
    <2> QED BY <1>4, <2>2, ThrowsKeeps
  <1>5. ASSUME type.targs, type.emove, NEW o \in Restore(Kill(obj[x], "err"), "err", Moved), Throws("switch", x, o, x, o)
        PROVE  ExpectedInvariant' /\ DoesAsItSays
    <2>1. ~type.etriv => Excused
      BY <1>5 DEF Excused
    <2>2. Accounted(o)
      BY <1>1, <2>1, SpoiltAccounted
    <2> QED BY <1>5, <2>2, ThrowsKeeps
  <1> QED BY <1>3, <1>4, <1>5 DEF FromError

LEMMA ValueStep ==
  ASSUME ExpectedInvariant, NEW x \in Obj, NEW v \in Val,
         assign_value(x, v) \/ emplace(x, v) \/ emplace_list(x, v)
  PROVE  ExpectedInvariant' /\ DoesAsItSays
  <1>1. UNCHANGED type /\ Whole(obj[x]) /\ x \notin hurt
    BY UsableWhole DEF assign_value, emplace, emplace_list, Runs
  <1>2. \A o \in Spoil(obj[x]) : Whole(o)
    BY <1>1, RestWhole
  <1>3. ASSUME NEW nx, Whole(nx), Ok("set", x, x, "move", nx, obj[x])
        PROVE  ExpectedInvariant' /\ DoesAsItSays
    BY <1>1, <1>3, OkKeeps DEF Accounted
  <1>4. ASSUME NEW op \in {"set", "emplace"}, NEW o, Whole(o), Throws(op, x, o, x, o), obj[x].has \/ type.emove
        PROVE  ExpectedInvariant' /\ DoesAsItSays
    BY <1>1, <1>4, ThrowsKeeps DEF Accounted
  <1>5. CASE obj[x].has /\ Ok("set", x, x, "move", Assign(obj[x], "val", v), obj[x])
    <2>1. \A c \in Val \cup {Moved} : Whole(Assign(obj[x], "val", c))
      BY <1>1, <1>5, ChangeContents
    <2> QED BY <1>3, <1>5, <2>1
  <1>6. CASE obj[x].has /\ Ok("set", x, x, "move", New(Kill(obj[x], "val"), "val", v), obj[x])
    <2>1. obj[x].live = "val" /\ obj[x].has = TRUE
      BY <1>1, <1>6, WholeKind
    <2>2. /\ Kill(obj[x], "val") \in Objects /\ Kill(obj[x], "val").live = "none"
          /\ Kill(obj[x], "val").leak # "other" /\ Kill(obj[x], "val").has = TRUE
      BY <1>1, <2>1, KillFrees
    <2>3. Whole(New(Kill(obj[x], "val"), "val", v))
      BY <2>2 DEF Whole, Objects, New
    <2> QED BY <1>3, <1>6, <2>3
  <1>7. CASE ~obj[x].has /\ FromError("switch", x, v)
    BY <1>1, <1>7, FromErrorStep
  <1>8. CASE /\ obj[x].has \/ type.emove
             /\ \E op \in {"set", "emplace"} : \E o \in Spoil(obj[x]) : Throws(op, x, o, x, o)
    BY <1>2, <1>4, <1>8
  <1>9. CASE obj[x].has /\ Throws("emplace", x, obj[x], x, obj[x])
    BY <1>1, <1>4, <1>9
  <1>10. CASE /\ obj[x].has
              /\ obj' = [obj EXCEPT ![x] = Kill(@, "val")] /\ hurt' = hurt \cup {x}
              /\ Did("emplace", x, x, "any", "throws")
    <2>1. obj[x].live = "val"
      BY <1>1, <1>10, WholeKind
    <2> DEFINE nx == Kill(obj[x], "val")
    <2>2. nx \in Objects /\ Lost(nx)
      BY <1>1, <2>1, KillFrees DEF Lost
    <2>3. obj' = [obj EXCEPT ![x] = nx]
      BY <1>10
    <2> HIDE DEF nx
    <2>4. obj' \in [Obj -> Objects]
      BY <2>2, <2>3 DEF ExpectedInvariant
    <2>5. ASSUME NEW o \in Obj PROVE IF o \in hurt' THEN Lost(obj'[o]) ELSE Accounted(obj'[o])
      <3>1. CASE o = x
        BY <1>10, <2>2, <2>3, <3>1 DEF ExpectedInvariant
      <3>2. CASE o # x
        <4>1. obj'[o] = obj[o] /\ (o \in hurt' <=> o \in hurt)
          BY <1>10, <2>3, <3>2 DEF ExpectedInvariant
        <4> QED BY <4>1 DEF ExpectedInvariant
      <3> QED BY <3>1, <3>2
    <2>6. ASSUME NEW o \in Obj, Accounted(obj'[o]) PROVE Accounted(obj[o])'
      BY <1>1, <2>6 DEF Accounted, Whole, Objects, Raw, Excused
    <2>7. ASSUME NEW o \in Obj, Lost(obj'[o]) PROVE Lost(obj[o])'
      BY <2>7 DEF Lost, Objects
    <2>8. hurt' \subseteq Obj /\ type' \in Types'
      BY <1>1, <1>10 DEF ExpectedInvariant, Types
    <2>9. ExpectedInvariant'
      BY <2>4, <2>5, <2>6, <2>7, <2>8 DEF ExpectedInvariant
    <2>10. done'.op = "emplace" /\ done'.x = x /\ done'.y = x /\ done'.end = "throws"
      BY <1>10 DEF Did
    <2> QED BY <1>10, <2>9, <2>10 DEF DoesAsItSays
  <1>11. CASE assign_value(x, v)
    BY <1>5, <1>7, <1>8, <1>11 DEF assign_value
  <1>12. CASE emplace(x, v)
    BY <1>6, <1>7, <1>8, <1>10, <1>12 DEF emplace
  <1>13. CASE emplace_list(x, v)
    BY <1>5, <1>7, <1>8, <1>9, <1>13 DEF emplace_list
  <1> QED BY <1>11, <1>12, <1>13

LEMMA UnexpectedStep ==
  ASSUME ExpectedInvariant, NEW x \in Obj, NEW how, NEW e \in Err, assign_unexpected(how, x, e)
  PROVE  ExpectedInvariant' /\ DoesAsItSays
  <1>1. UNCHANGED type /\ Whole(obj[x]) /\ x \notin hurt
    BY UsableWhole DEF assign_unexpected, Runs
  <1> DEFINE nx == IF obj[x].has THEN construct_error(Kill(obj[x], "val"), e) ELSE Assign(obj[x], "err", e)
  <1>2. Ok("set", x, x, "move", nx, obj[x])
    BY DEF assign_unexpected
  <1>3. Whole(nx)
    <2>1. CASE obj[x].has
      BY <1>1, <2>1, ChangeContents
    <2>2. CASE ~obj[x].has
      BY <1>1, <2>2, ChangeContents
    <2> QED BY <2>1, <2>2
  <1> HIDE DEF nx
  <1> QED BY <1>1, <1>2, <1>3, OkKeeps DEF Accounted

\* Two objects that both have a value, or both an error, exchange it.
LEMMA SwapBothStep ==
  ASSUME ExpectedInvariant, UNCHANGED type, NEW x \in Obj, NEW y \in Obj, x # y,
         Whole(obj[x]), x \notin hurt, Whole(obj[y]), y \notin hurt, swap_where_both(x, y)
  PROVE  ExpectedInvariant' /\ DoesAsItSays
  <1> DEFINE nx == Assign(obj[x], obj[x].live, obj[y].held)
             ny == Assign(obj[y], obj[y].live, obj[x].held)
  <1>1. obj[x].has = obj[y].has
    BY DEF swap_where_both
  <1>2. /\ obj[x].live = obj[y].live
        /\ obj[x].held \in (IF obj[x].live = "val" THEN Val ELSE Err) \cup {Moved}
        /\ obj[y].held \in (IF obj[x].live = "val" THEN Val ELSE Err) \cup {Moved}
    BY <1>1 DEF Whole
  <1>3. Whole(nx) /\ nx.has = obj[x].has /\ nx.held = obj[y].held
    BY <1>2, AssignWhole
  <1>4. Whole(ny) /\ ny.has = obj[y].has /\ ny.held = obj[x].held
    BY <1>2, AssignWhole
  <1>5. /\ \A o \in Spoil(obj[x]) : Whole(o)
        /\ \A o \in Spoil(obj[y]) : Whole(o)
    BY RestWhole
  <1>6. \/ Ok("swap", x, y, "move", nx, ny)
        \/ /\ IF obj[x].has THEN type.tmove ELSE type.emove
           /\ \E ox \in Spoil(obj[x]), oy \in Spoil(obj[y]) : Throws("swap", x, ox, y, oy)
    BY DEF swap_where_both
  <1> HIDE DEF nx, ny
  <1>7. CASE Ok("swap", x, y, "move", nx, ny)
    BY <1>1, <1>3, <1>4, <1>7, OkKeeps DEF Accounted, Meaning
  <1>8. ASSUME NEW ox \in Spoil(obj[x]), NEW oy \in Spoil(obj[y]), Throws("swap", x, ox, y, oy),
               IF obj[x].has THEN type.tmove ELSE type.emove
        PROVE  ExpectedInvariant' /\ DoesAsItSays
    BY <1>1, <1>5, <1>8, ThrowsKeeps DEF Accounted
  <1> QED BY <1>6, <1>7, <1>8

\* A value and an error change places, or the one in the temporary is put back.
LEMMA SwapOneStep ==
  ASSUME ExpectedInvariant, UNCHANGED type, NEW x \in Obj, NEW y \in Obj, x # y,
         Whole(obj[x]), x \notin hurt, Whole(obj[y]), y \notin hurt, swap_where_only_one_has_value(x, y)
  PROVE  ExpectedInvariant' /\ DoesAsItSays
  <1> DEFINE nx == construct_error(Kill(obj[x], "val"), obj[y].held)
             ny == construct(Kill(obj[y], "err"), obj[x].held)
  <1>1. obj[x].has /\ ~obj[y].has
    BY DEF swap_where_only_one_has_value
  <1>2. /\ obj[x].has = TRUE /\ obj[x].live = "val" /\ obj[x].held \in Val \cup {Moved}
        /\ obj[y].has = FALSE /\ obj[y].live = "err" /\ obj[y].held \in Err \cup {Moved}
    BY <1>1, WholeKind
  <1>3. Whole(nx) /\ nx.has = FALSE /\ nx.held = obj[y].held
    <2>1. \A c \in Err \cup {Moved} :
            LET n == construct_error(Kill(obj[x], "val"), c) IN Whole(n) /\ n.has = FALSE /\ n.held = c
      BY <1>1, ChangeContents
    <2> QED BY <1>2, <2>1
  <1>4. Whole(ny) /\ ny.has = TRUE /\ ny.held = obj[x].held
    <2>1. \A c \in Val \cup {Moved} :
            LET n == construct(Kill(obj[y], "err"), c) IN Whole(n) /\ n.has = TRUE /\ n.held = c
      BY <1>1, ChangeContents
    <2> QED BY <1>2, <2>1
  <1>5. /\ \A o \in Spoil(obj[x]) : Whole(o)
        /\ \A o \in Spoil(obj[y]) : Whole(o)
    BY RestWhole
  <1>6. CASE Ok("swap", x, y, "move", nx, ny)
    <2> HIDE DEF nx, ny
    <2> QED BY <1>2, <1>3, <1>4, <1>6, OkKeeps DEF Accounted, Meaning
  <1>7. ASSUME type.emove, NEW ox \in Restore(Kill(obj[x], "val"), "val", obj[x].held),
               NEW oy \in Spoil(obj[y]), Throws("swap", x, ox, y, oy)
        PROVE  ExpectedInvariant' /\ DoesAsItSays
    <2>1. ~type.ttriv => Excused
      BY <1>7 DEF Excused
    <2>2. Accounted(ox)
      BY <1>2, <2>1, RestoreAccounted
    <2>3. Accounted(oy)
      BY <1>5 DEF Accounted
    <2> QED BY <1>7, <2>2, <2>3, ThrowsKeeps
  <1>8. ASSUME type.tmove, NEW ox \in Spoil(obj[x]),
               NEW oy \in Restore(Kill(obj[y], "err"), "err", obj[y].held), Throws("swap", x, ox, y, oy)
        PROVE  ExpectedInvariant' /\ DoesAsItSays
    <2>1. ~type.etriv => Excused
      BY <1>8 DEF Excused
    <2>2. Accounted(oy) /\ (type.etriv => oy = obj[y])
      BY <1>2, <2>1, RestoreAccounted
    <2>3. Accounted(ox)
      BY <1>5 DEF Accounted
    <2> QED BY <1>1, <1>8, <2>2, <2>3, ThrowsKeeps
  <1> QED BY <1>6, <1>7, <1>8 DEF swap_where_only_one_has_value

LEMMA SwapStep ==
  ASSUME ExpectedInvariant, NEW x \in Obj, NEW y \in Obj, swap(x, y)
  PROVE  ExpectedInvariant' /\ DoesAsItSays
  <1>1. /\ UNCHANGED type /\ x # y
        /\ Whole(obj[x]) /\ x \notin hurt /\ Whole(obj[y]) /\ y \notin hurt
    BY UsableWhole DEF swap, Runs
  <1> QED BY <1>1, SwapBothStep, SwapOneStep DEF swap

-----------------------------------------------------------------------------
(* The theorems.                                                           *)

LEMMA ExpectedInit == Init => ExpectedInvariant
  BY RawTyped DEF Init, ExpectedInvariant, Accounted

LEMMA ExpectedStep ==
  ASSUME ExpectedInvariant, Next
  PROVE  ExpectedInvariant' /\ DoesAsItSays
  <1>1. PICK x \in Obj, y \in Obj :
          \/ expected(x) \/ expected_convert(x) \/ destructor(x) \/ swap(x, y)
          \/ \E how \in {"copy", "move"} :
               expected_copy_base(how, x, y) \/ assign(how, x, y) \/ assign_common(how, x, y)
               \/ \E e \in Err : assign_unexpected(how, x, e)
          \/ \E v \in Val : assign_value(x, v) \/ emplace(x, v) \/ emplace_list(x, v)
    BY DEF Next
  <1> QED
    BY <1>1, CreateStep, DestroyStep, SwapStep, CopyStep, AssignStep, UnexpectedStep, ValueStep

LEMMA ExpectedCorrect == Spec => []ExpectedInvariant
  <1>1. ExpectedInvariant /\ [Next]_vars => ExpectedInvariant'
    BY ExpectedStep, UnchangedKeeps DEF vars
  <1> QED BY <1>1, ExpectedInit, PTL DEF Spec

\* A value of T is never where an error of E is expected to be, nor the other way round.
THEOREM ContentsTyped == Spec => []TypeOK
  <1>1. ExpectedInvariant => TypeOK
    <2> SUFFICES ASSUME ExpectedInvariant, NEW o \in Obj
                 PROVE  /\ obj[o].live \in {"val", "err", "none", "undef"}
                        /\ obj[o].live = "val" => obj[o].held \in Val \cup {Moved}
                        /\ obj[o].live = "err" => obj[o].held \in Err \cup {Moved}
      BY DEF ExpectedInvariant, TypeOK
    <2>1. CASE o \in hurt
      BY <2>1 DEF ExpectedInvariant, Lost
    <2>2. CASE o \notin hurt
      BY <2>2, RawTyped DEF ExpectedInvariant, Accounted, Whole
    <2> QED BY <2>1, <2>2
  <1> QED BY <1>1, ExpectedCorrect, PTL

(***************************************************************************)
(* Whatever T and E may throw, a life that begins ends once and m_has_val  *)
(* tells which one it is, but for an emplace that throws over a value, for *)
(* catch clauses that assign to what they destroyed, and for the converted *)
(* base.                                                                   *)
(***************************************************************************)
THEOREM LivesKept == Spec => []LifetimesKept
  <1>1. ExpectedInvariant => LifetimesKept
    <2> SUFFICES ASSUME ExpectedInvariant, NEW o \in Obj
                 PROVE  /\ obj[o].leak # "other"
                        /\ Usable(o) => obj[o].live = (IF obj[o].has THEN "val" ELSE "err")
                        /\ obj[o].live = "undef" => o \in hurt \/ Excused
                        /\ obj[o].live = "none" => obj[o] = Raw \/ o \in hurt
      BY DEF LifetimesKept, Excused
    <2>1. Usable(o) => obj[o].live = (IF obj[o].has THEN "val" ELSE "err")
      BY UsableWhole, WholeKind
    <2>2. CASE o \in hurt
      BY <2>1, <2>2 DEF ExpectedInvariant, Lost
    <2>3. CASE o \notin hurt
      BY <2>1, <2>3, RawTyped DEF ExpectedInvariant, Accounted, Whole
    <2> QED BY <2>2, <2>3
  <1> QED BY <1>1, ExpectedCorrect, PTL

(***************************************************************************)
(* An assignment or a swap that returns has done all of it, whichever      *)
(* overload ran, and any operation that throws while it would turn an      *)
(* error into a value has left the error, if E is trivially destroyed and  *)
(* moves without throwing.                                                 *)
(***************************************************************************)
THEOREM AllOrNothingHolds == Spec => AllOrNothing
  <1>1. ExpectedInvariant /\ [Next]_vars => [DoesAsItSays]_vars
    BY ExpectedStep
  <1> QED BY <1>1, ExpectedCorrect, PTL DEF Spec, AllOrNothing
=============================================================================
