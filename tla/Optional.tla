------------------------------ MODULE Optional ------------------------------
(***************************************************************************)
(* ktl/optional: the lifetime of the value that an optional contains,      *)
(* through any sequence of calls on two optionals that are constructed and *)
(* destroyed, too.  The value is an object: it must not be constructed     *)
(* where there is one, nor destroyed or read where there is none.          *)
(*                                                                         *)
(* resetStaysEngaged is a faulty variant of the definition that follows it, *)
(* used only to see that a property notices the fault.                     *)
(***************************************************************************)
EXTENDS Integers

CONSTANT Values   \* the values an object may have, none of them in Names

Names == {"a", "b"}
Raw == "raw"      \* no object
Moved == "moved"  \* an object that was moved from
None == "none"

VARIABLES
  here,   \* the optionals that have been constructed
  mem,    \* m_engaged and m_data of each, and whether an object was misused
  holds,  \* history: what each should contain
  own     \* history: emplace() was called with the optional's own value

vars == <<here, mem, holds, own>>

-----------------------------------------------------------------------------
(* What is done to objects. *)

construct(m, o, v) ==
  [m EXCEPT !.data[o] = v, !.misused = @ \/ m.data[o] # Raw \/ v = Raw]
destroy(m, o) ==
  [m EXCEPT !.data[o] = Raw, !.misused = @ \/ m.data[o] = Raw]
assign(m, o, v) ==
  [m EXCEPT !.data[o] = v, !.misused = @ \/ m.data[o] = Raw \/ v = Raw]
moveOut(m, o) == [m EXCEPT !.data[o] = Moved]
engage(m, o, e) == [m EXCEPT !.engaged[o] = e]

-----------------------------------------------------------------------------
(* The functions of optional. *)

resetStaysEngaged(m, o) == IF m.engaged[o] THEN destroy(m, o) ELSE m
reset(m, o) == IF m.engaged[o] THEN engage(destroy(m, o), o, FALSE) ELSE m

(* The argument is a value, or a reference to what an optional contains,  *)
(* which is read after reset().                                           *)
Read(m, arg) == IF arg \in Names THEN m.data[arg] ELSE arg
emplace(m, o, arg) ==
  LET r == reset(m, o) IN engage(construct(r, o, Read(r, arg)), o, TRUE)

Copy(m, o, other) ==
  LET e == m.engaged[other]
  IN  IF e THEN engage(construct(m, o, m.data[other]), o, e) ELSE engage(m, o, e)

Move(m, o, other) ==
  IF m.engaged[other] THEN moveOut(Copy(m, o, other), other) ELSE Copy(m, o, other)

AssignCopy(m, o, other) ==
  IF o = other THEN m
  ELSE CASE m.engaged[o] /\ m.engaged[other]  -> assign(m, o, m.data[other])
         [] m.engaged[o] /\ ~m.engaged[other] -> reset(m, o)
         [] ~m.engaged[o] /\ m.engaged[other] -> emplace(m, o, other)
         [] OTHER                             -> m

AssignMove(m, o, other) ==
  IF o # other /\ m.engaged[other] THEN moveOut(AssignCopy(m, o, other), other)
                                   ELSE AssignCopy(m, o, other)

AssignValue(m, o, v) ==
  IF m.engaged[o] THEN assign(m, o, v) ELSE emplace(m, o, v)

swap(m, o, other) ==
  CASE m.engaged[o] /\ m.engaged[other] ->
         assign(assign(m, o, m.data[other]), other, m.data[o])
    [] m.engaged[o] /\ ~m.engaged[other] ->
         reset(moveOut(emplace(m, other, o), o), o)
    [] ~m.engaged[o] /\ m.engaged[other] ->
         reset(moveOut(emplace(m, o, other), other), other)
    [] OTHER -> m

-----------------------------------------------------------------------------
Init ==
  /\ here = {}
  /\ mem = [engaged |-> [o \in Names |-> FALSE], data |-> [o \in Names |-> Raw], misused |-> FALSE]
  /\ holds = [o \in Names |-> None] /\ own = FALSE

(* The caller does m to memory, after which o should contain v. *)
Do(m, o, v) ==
  /\ mem' = m /\ holds' = [holds EXCEPT ![o] = v]
  /\ UNCHANGED <<here, own>>

(* What is moved out of an optional leaves an object behind. *)
DoMove(m, o, other) ==
  /\ mem' = m
  /\ holds' = [holds EXCEPT ![o] = holds[other],
                            ![other] = IF holds[other] = None \/ o = other THEN @ ELSE Moved]

Construct(o) ==
  /\ o \notin here /\ here' = here \cup {o} /\ UNCHANGED own
  /\ \/ mem' = engage(mem, o, FALSE) /\ UNCHANGED holds
     \/ \E v \in Values : mem' = engage(construct(mem, o, v), o, TRUE) /\ holds' = [holds EXCEPT ![o] = v]
     \/ \E p \in here : mem' = Copy(mem, o, p) /\ holds' = [holds EXCEPT ![o] = holds[p]]
     \/ \E p \in here : DoMove(Move(mem, o, p), o, p)

Destruct(o) ==
  /\ o \in here /\ here' = here \ {o}
  /\ mem' = reset(mem, o) /\ holds' = [holds EXCEPT ![o] = None]
  /\ UNCHANGED own

Assign(o) ==
  /\ o \in here
  /\ \/ Do(reset(mem, o), o, None)
     \/ \E v \in Values : Do(AssignValue(mem, o, v), o, v)
     \/ \E p \in here : Do(AssignCopy(mem, o, p), o, holds[p])
     \/ \E p \in here : DoMove(AssignMove(mem, o, p), o, p) /\ UNCHANGED <<here, own>>

Emplace(o) ==
  /\ o \in here
  /\ \/ \E v \in Values : Do(emplace(mem, o, v), o, v)
     \/ \E p \in here \ {o} : mem.engaged[p] /\ Do(emplace(mem, o, p), o, holds[p])

EmplaceOwn(o) ==
  /\ o \in here /\ mem.engaged[o]
  /\ mem' = emplace(mem, o, o)
  /\ own' = TRUE /\ UNCHANGED <<here, holds>>

Swap(o, p) ==
  /\ o \in here /\ p \in here
  /\ mem' = swap(mem, o, p)
  /\ holds' = [holds EXCEPT ![o] = holds[p], ![p] = holds[o]]
  /\ UNCHANGED <<here, own>>

(* Nothing is known after a misuse. *)
Stop == mem.misused /\ UNCHANGED vars

Call ==
  \/ \E o \in Names : Construct(o) \/ Destruct(o) \/ Assign(o) \/ Emplace(o) \/ EmplaceOwn(o)
  \/ \E o, p \in Names : Swap(o, p)

Next == (~mem.misused /\ Call) \/ Stop

Spec == Init /\ [][Next]_vars

-----------------------------------------------------------------------------
(* Whatever is called, every object is constructed once and destroyed once, *)
(* nobody reads one that is gone, and each optional contains what was put   *)
(* there last; except that emplace() destroys its own value before it reads *)
(* it.                                                                     *)
LifetimesMatch ==
  IF mem.misused THEN own
  ELSE \A o \in Names :
         /\ mem.engaged[o] => o \in here
         /\ mem.engaged[o] <=> mem.data[o] # Raw
         /\ holds[o] = IF mem.engaged[o] THEN mem.data[o] ELSE None
=============================================================================
