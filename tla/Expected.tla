------------------------------ MODULE Expected ------------------------------
(***************************************************************************)
(* utility/expected.hpp: the lifetime of what an expected<T, E> contains.  *)
(* The value and the error share one storage, and m_has_val says which of  *)
(* them is alive; constructors, assignments, emplace, swap and destructor  *)
(* end one life and begin another by hand, and the constructors of T and E *)
(* they call may throw in between.                                         *)
(***************************************************************************)
EXTENDS Naturals, FiniteSets

CONSTANTS
  Obj,      \* the expected objects
  Val, Err, \* what they may contain
  Moved,    \* what is left of something that was moved away or half assigned
  Args      \* whether T's constructors from other types may throw

ASSUME ExpectedAssumption == Args \subseteq BOOLEAN /\ Val \cap Err = {} /\ Moved \notin Val \cup Err

VARIABLES
  type,    \* what may throw, and what is trivially destroyed, of T and E
  obj,     \* the objects
  hurt,    \* objects whose value was destroyed by an emplace that then threw
  done     \* the last operation, its objects and how it ended

vars == <<type, obj, hurt, done>>

Types ==
  {t \in [tcopy : BOOLEAN, tmove : BOOLEAN, ecopy : BOOLEAN, emove : BOOLEAN, targs : Args, ttriv : BOOLEAN, etriv : BOOLEAN] :
     (t.tmove => t.tcopy) /\ (t.emove => t.ecopy)}

\* Storage without an object, as no_init leaves it.
Raw == [live |-> "none", held |-> Moved, has |-> FALSE, leak |-> "none"]
Exists(o) == obj[o].live \in {"val", "err"} \/ o \in hurt

Init ==
  /\ type \in Types
  /\ obj = [o \in Obj |-> Raw] /\ hurt = {}
  /\ done = [op |-> "none", x |-> "none", y |-> "none", how |-> "none", end |-> "ok"]

-----------------------------------------------------------------------------
(* Placement new, destructor call, assignment and move of the contained    *)
(* object.  Storage in use is used again without an end to the first life. *)

Undef(o) == [o EXCEPT !.live = "undef"]
New(o, kind, c) == [o EXCEPT !.live = kind, !.held = c, !.leak = IF o.live = "none" THEN @ ELSE "other"]
Kill(o, kind) == IF o.live = kind THEN [o EXCEPT !.live = "none"] ELSE Undef(o)
Assign(o, kind, c) == IF o.live = kind THEN [o EXCEPT !.held = c] ELSE Undef(o)
Flag(o, b) == [o EXCEPT !.has = b]
Spoil(o) == {o, [o EXCEPT !.held = Moved]}   \* what a copy or move that threw may leave

construct(o, c) == Flag(New(o, "val", c), TRUE)
construct_error(o, c) == Flag(New(o, "err", c), FALSE)

\* Assignment to an object that was destroyed: it works if the destructor does nothing.
Restore(o, kind, c) ==
  LET back == [o EXCEPT !.live = kind, !.held = c]
  IN IF (IF kind = "val" THEN type.ttriv ELSE type.etriv) THEN {back} ELSE {back, Undef(o)}

TThrows(how) == IF how = "copy" THEN type.tcopy ELSE type.tmove
EThrows(how) == IF how = "copy" THEN type.ecopy ELSE type.emove
Rest(how, o) == IF how = "copy" THEN o ELSE [o EXCEPT !.held = Moved]

Runs == done.end # "terminate" /\ UNCHANGED type
Did(op, x, y, how, end) == done' = [op |-> op, x |-> x, y |-> y, how |-> how, end |-> end]
Ok(op, x, y, how, nx, ny) ==
  Did(op, x, y, how, "ok") /\ UNCHANGED hurt /\ obj' = [o \in Obj |-> IF o = x THEN nx ELSE IF o = y THEN ny ELSE obj[o]]
Throws(op, x, nx, y, ny) ==
  Did(op, x, y, "any", "throws") /\ UNCHANGED hurt /\ obj' = [o \in Obj |-> IF o = x THEN nx ELSE IF o = y THEN ny ELSE obj[o]]
Terminates(op, x, y) == Did(op, x, y, "any", "terminate") /\ UNCHANGED <<obj, hurt>>
Usable(x) == Exists(x) /\ x \notin hurt

-----------------------------------------------------------------------------
(* Construction and destruction.                                           *)

\* From a value, or in place, or from an unexpected; one that throws leaves no object.
expected(x) ==
  /\ Runs /\ ~Exists(x) /\ obj[x].live = "none"
  /\ \/ \E v \in Val : Ok("create", x, x, "move", construct(Raw, v), Raw)
     \/ \E e \in Err : Ok("create", x, x, "move", construct_error(Raw, e), Raw)

\* The copy and move constructors.  construct_with and construct_error are noexcept.
expected_copy_base(how, x, y) ==
  /\ Runs /\ ~Exists(x) /\ obj[x].live = "none" /\ Usable(y)
  /\ \/ Ok("assign", x, y, how,
           IF obj[y].has THEN construct(Raw, obj[y].held) ELSE construct_error(Raw, obj[y].held), Rest(how, obj[y]))
     \/ (IF obj[y].has THEN TThrows(how) ELSE EThrows(how)) /\ Terminates("construct", x, y)

\* From an expected of other types.  The base is default constructed and has a value already.
expected_convert(x) ==
  /\ Runs /\ ~Exists(x) /\ obj[x].live = "none"
  /\ LET base == construct(Raw, CHOOSE v \in Val : TRUE)
         lost(o) == [o EXCEPT !.leak = "base"]   \* what the base had is not destroyed
     IN \/ \E v \in Val : Ok("convert", x, x, "any", lost(construct(base, v)), Raw)
        \/ \E e \in Err : Ok("convert", x, x, "any", lost(construct_error(base, e)), Raw)
        \/ type.targs /\ Terminates("convert", x, x)

destructor(x) ==
  /\ Runs /\ Exists(x)
  /\ LET o == Kill(obj[x], IF obj[x].has THEN "val" ELSE "err")
     IN obj' = [obj EXCEPT ![x] = IF o.live = "none" THEN Raw ELSE o]
  /\ UNCHANGED hurt
  /\ Did("destroy", x, x, "any", "ok")

-----------------------------------------------------------------------------
(***************************************************************************)
(* Assignment of another expected.  Which overload is chosen depends on    *)
(* what may throw; those for a T that moves without throwing are noexcept, *)
(* and so is the construct that the others call in their try block.        *)
(***************************************************************************)
assign(how, x, y) ==
  /\ Runs /\ Usable(x) /\ Usable(y) /\ x # y /\ ~obj[x].has /\ obj[y].has
  /\ \/ Ok("assign", x, y, how, construct(Kill(obj[x], "err"), obj[y].held), Rest(how, obj[y]))
     \/ TThrows(how) /\ Terminates("assign", x, y)
     \/ type.tmove /\ type.emove /\ \E o \in Spoil(obj[x]) : Throws("assign", x, o, y, obj[y])

\* Faulty: only m_has_val of the left side is looked at.
assign_common_Left(how, x, y) ==
  /\ Runs /\ Usable(x) /\ Usable(y) /\ x # y /\ (obj[x].has \/ ~obj[y].has)
  /\ Ok("assign", x, y, how, Assign(obj[x], obj[x].live, obj[y].held), Rest(how, obj[y]))

\* Faulty: the value is not destroyed before the error is constructed.
assign_common_Leaks(how, x, y) ==
  /\ Runs /\ Usable(x) /\ Usable(y) /\ x # y /\ (obj[x].has \/ ~obj[y].has)
  /\ Ok("assign", x, y, how,
        IF obj[x].has = obj[y].has THEN Assign(obj[x], obj[x].live, obj[y].held)
        ELSE construct_error(obj[x], obj[y].held), Rest(how, obj[y]))

assign_common(how, x, y) ==
  /\ Runs /\ Usable(x) /\ Usable(y) /\ x # y /\ (obj[x].has \/ ~obj[y].has)
  /\ \/ Ok("assign", x, y, how,
           IF obj[y].has THEN Assign(obj[x], "val", obj[y].held)
           ELSE IF obj[x].has THEN construct_error(Kill(obj[x], "val"), obj[y].held)
           ELSE Assign(obj[x], "err", obj[y].held), Rest(how, obj[y]))
     \/ /\ IF obj[y].has THEN TThrows(how) ELSE EThrows(how)
        /\ (obj[x].has # obj[y].has \/ ~type.tmove) /\ Terminates("assign_common", x, y)
     \/ /\ IF obj[y].has THEN TThrows(how) ELSE EThrows(how)
        /\ obj[x].has = obj[y].has /\ type.tmove
        /\ \E o \in Spoil(obj[x]) : Throws("assign", x, o, y, obj[y])

\* Faulty: the error is not put back.
FromError_Drops(op, x, v) ==
  \/ Ok(op, x, x, "move", construct(Kill(obj[x], "err"), v), obj[x])
  \/ type.targs /\ Throws(op, x, Assign(obj[x], "err", Moved), x, obj[x])

(***************************************************************************)
(* The second half of emplace and of the assignment of a value to an       *)
(* object that has an error: what may throw is tried with the error kept   *)
(* in a temporary, and the error put back when it throws, by an assignment *)
(* that may throw itself.                                                  *)
(***************************************************************************)
FromError(op, x, v) ==
  \/ Ok(op, x, x, "move", construct(Kill(obj[x], "err"), v), obj[x])
  \/ type.targs /\ \E o \in Restore(Kill(obj[x], "err"), "err", obj[x].held) : Throws(op, x, o, x, o)
  \/ type.targs /\ type.emove /\ \E o \in Restore(Kill(obj[x], "err"), "err", Moved) : Throws(op, x, o, x, o)

\* operator= for a value; E moves without throwing.
assign_value(x, v) ==
  /\ Runs /\ Usable(x) /\ ~type.emove
  /\ \/ obj[x].has /\ Ok("set", x, x, "move", Assign(obj[x], "val", v), obj[x])
     \/ obj[x].has /\ type.targs /\ \E o \in Spoil(obj[x]) : Throws("set", x, o, x, o)
     \/ ~obj[x].has /\ FromError("switch", x, v)

\* operator= for an unexpected, which is copied or moved without throwing.
assign_unexpected(how, x, e) ==
  /\ Runs /\ Usable(x) /\ ~EThrows(how)
  /\ Ok("set", x, x, "move",
        IF obj[x].has THEN construct_error(Kill(obj[x], "val"), e) ELSE Assign(obj[x], "err", e), obj[x])

\* emplace destroys a value before it constructs the new one in its place.
emplace(x, v) ==
  /\ Runs /\ Usable(x)
  /\ \/ obj[x].has /\ Ok("set", x, x, "move", New(Kill(obj[x], "val"), "val", v), obj[x])
     \/ /\ obj[x].has /\ type.targs
        /\ obj' = [obj EXCEPT ![x] = Kill(@, "val")] /\ hurt' = hurt \cup {x}
        /\ Did("emplace", x, x, "any", "throws")
     \/ ~obj[x].has /\ FromError("switch", x, v)
     \/ ~obj[x].has /\ type.targs /\ type.emove /\ \E o \in Spoil(obj[x]) : Throws("emplace", x, o, x, o)

\* The overload for initializer lists constructs first and then moves.
emplace_list(x, v) ==
  /\ Runs /\ Usable(x)
  /\ \/ obj[x].has /\ Ok("set", x, x, "move", Assign(obj[x], "val", v), obj[x])
     \/ obj[x].has /\ type.targs /\ Throws("emplace", x, obj[x], x, obj[x])
     \/ obj[x].has /\ type.tmove /\ \E o \in Spoil(obj[x]) : Throws("emplace", x, o, x, o)
     \/ ~obj[x].has /\ FromError("switch", x, v)
     \/ ~obj[x].has /\ type.targs /\ type.emove /\ \E o \in Spoil(obj[x]) : Throws("emplace", x, o, x, o)

-----------------------------------------------------------------------------
(* swap, which needs one of T and E to move without throwing.              *)

swap_where_both(x, y) ==
  /\ obj[x].has = obj[y].has
  /\ \/ Ok("swap", x, y, "move", Assign(obj[x], obj[x].live, obj[y].held), Assign(obj[y], obj[y].live, obj[x].held))
     \/ /\ IF obj[x].has THEN type.tmove ELSE type.emove
        /\ \E ox \in Spoil(obj[x]), oy \in Spoil(obj[y]) : Throws("swap", x, ox, y, oy)

(***************************************************************************)
(* The value or, if T may throw, the error goes to a temporary; the first  *)
(* construction in the other object is the one that may throw, and then    *)
(* the temporary is assigned to where it came from.                        *)
(***************************************************************************)
swap_where_only_one_has_value(x, y) ==
  /\ obj[x].has /\ ~obj[y].has
  /\ \/ Ok("swap", x, y, "move", construct_error(Kill(obj[x], "val"), obj[y].held), construct(Kill(obj[y], "err"), obj[x].held))
     \/ /\ ~type.tmove /\ type.emove
        /\ \E ox \in Restore(Kill(obj[x], "val"), "val", obj[x].held), oy \in Spoil(obj[y]) : Throws("swap", x, ox, y, oy)
     \/ /\ type.tmove
        /\ \E ox \in Spoil(obj[x]), oy \in Restore(Kill(obj[y], "err"), "err", obj[y].held) : Throws("swap", x, ox, y, oy)

swap(x, y) ==
  /\ Runs /\ Usable(x) /\ Usable(y) /\ x # y /\ ~(type.tmove /\ type.emove)
  /\ \/ swap_where_both(x, y)
     \/ swap_where_only_one_has_value(x, y)
     \/ swap_where_only_one_has_value(y, x)

Next ==
  \E x, y \in Obj :
    \/ expected(x) \/ expected_convert(x) \/ destructor(x) \/ swap(x, y)
    \/ \E how \in {"copy", "move"} :
         expected_copy_base(how, x, y) \/ assign(how, x, y) \/ assign_common(how, x, y)
         \/ \E e \in Err : assign_unexpected(how, x, e)
    \/ \E v \in Val : assign_value(x, v) \/ emplace(x, v) \/ emplace_list(x, v)

Spec == Init /\ [][Next]_vars

-----------------------------------------------------------------------------
(* Properties.                                                             *)

\* What is alive is a value of T or an error of E, never one in the place of the other.
TypeOK ==
  /\ type \in Types /\ hurt \subseteq Obj
  /\ \A o \in Obj :
       /\ obj[o].live \in {"val", "err", "none", "undef"}
       /\ obj[o].live = "val" => obj[o].held \in Val \cup {Moved}
       /\ obj[o].live = "err" => obj[o].held \in Err \cup {Moved}

(***************************************************************************)
(* Apart from an emplace that throws over a value, from catch clauses that *)
(* assign to what is not trivially destroyed, and from the conversion of   *)
(* another expected, every life that begins ends once, none begins in      *)
(* storage that is in use, and m_has_val tells the destructor the truth.   *)
(***************************************************************************)
LifetimesKept ==
  \A o \in Obj :
    /\ obj[o].leak # "other"
    /\ Usable(o) => obj[o].live = (IF obj[o].has THEN "val" ELSE "err")
    /\ obj[o].live = "undef" => o \in hurt \/ (type.targs /\ ~type.etriv) \/ (type.emove /\ ~type.ttriv) \/ (type.tmove /\ ~type.etriv)
    /\ obj[o].live = "none" => obj[o] = Raw \/ o \in hurt

\* Contents as a caller sees them.
Meaning(o) == <<o.has, o.held>>

\* What an operation that has just ended did to the objects it is about.
DoesAsItSays ==
  LET x == done'.x
      y == done'.y
  IN /\ done'.op = "assign" /\ done'.end = "ok" => Meaning(obj'[x]) = Meaning(obj[y])
     /\ done'.op = "swap" /\ done'.end = "ok" =>
          Meaning(obj'[x]) = Meaning(obj[y]) /\ Meaning(obj'[y]) = Meaning(obj[x])
     /\ done'.end = "throws" /\ type.etriv /\ ~type.emove /\ (done'.op = "assign" => obj[y].has) =>
          \A o \in {x, y} : Usable(o) /\ ~obj[o].has => obj'[o] = obj[o]

(***************************************************************************)
(* An assignment or swap that returns has done what it says, whichever of  *)
(* the overloads ran.  An operation of any kind, assignment, emplace or    *)
(* swap, that throws while it would change an error into a value leaves    *)
(* the error as it was, if E is trivially destroyed and moves without      *)
(* throwing; for any other E the code does nothing of the kind.  Where the *)
(* copy of a value runs in construct, which is noexcept, the comment on    *)
(* the assign overloads promises as much and the program ends instead: no  *)
(* caller is left to find the error changed.                               *)
(***************************************************************************)
AllOrNothing == [][DoesAsItSays]_vars
=============================================================================
