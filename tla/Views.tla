-------------------------------- MODULE Views --------------------------------
(***************************************************************************)
(* ktl/slice and ktl/string_view: a view of an array, from which others    *)
(* are derived, one after the other.  Pointers and sizes are words: they   *)
(* wrap around.                                                            *)
(*                                                                         *)
(* removePrefixWhole is a faulty variant of the definition that follows    *)
(* it, used only to see that a property notices the fault.                 *)
(***************************************************************************)
EXTENDS Integers, Sequences

CONSTANTS
  Words,  \* how many words there are: 2^64
  Array,  \* the elements of the array
  Start   \* its address

VARIABLES
  class,  \* what the view is at present: "slice" or "string_view"
  view,   \* its m_data and m_size
  part    \* history: the elements that should be in it

vars == <<class, view, part>>

Word == 0 .. Words - 1
dynamic_extent == Words - 1
Least(a, b) == IF a < b THEN a ELSE b
View(data, size) == [data |-> data % Words, size |-> size % Words]

-----------------------------------------------------------------------------
(* slice *)

subslice(v, offset, count) ==
  LET avail == IF v.size > offset THEN v.size - offset ELSE 0
  IN  View(v.data + offset, IF count = dynamic_extent \/ count > avail THEN avail ELSE count)

first(v, n) == subslice(v, 0, n)
last(v, n) == subslice(v, (v.size - n) % Words, n)

removePrefixWhole(v, n) == View(v.data + n, v.size - n)
remove_prefix(v, n) == View(v.data + Least(n, v.size), v.size - Least(n, v.size))
remove_suffix(v, n) == View(v.data, v.size - Least(n, v.size))

(* string_view, whose functions of these names do not look at the size.     *)
substr(v, pos, count) ==
  LET p == Least(pos, v.size) IN View(v.data + p, Least(count, v.size - p))
sv_remove_prefix(v, n) == View(v.data + n, v.size - n)
sv_remove_suffix(v, n) == View(v.data, v.size - n)

Element(v, i) == Array[((v.data + i) % Words) - Start + 1]

compare(v, w) ==
  LET n == Least(v.size, w.size)
      D == {i \in 0 .. n - 1 : Element(v, i) # Element(w, i) /\
                               \A j \in 0 .. i - 1 : Element(v, j) = Element(w, j)}
      Sign(d) == IF d < 0 THEN -1 ELSE IF d > 0 THEN 1 ELSE 0
  IN  IF D = {} THEN Sign(v.size - w.size)
      ELSE LET i == CHOOSE i \in D : TRUE IN Sign(Element(v, i) - Element(w, i))

-----------------------------------------------------------------------------
Whole == View(Start, Len(Array))

Init == class = "slice" /\ view = Whole /\ part = Array

(* What is left without n elements at an end, and what n elements there are. *)
Without(s, n) == SubSeq(s, n + 1, Len(s))
Upto(s, n) == SubSeq(s, 1, Least(n, Len(s)))

Becomes(v, s) == view' = v /\ part' = s /\ UNCHANGED class

SliceStep(n) ==
  /\ class = "slice"
  /\ \/ \E c \in Word : Becomes(subslice(view, n, c), Upto(Without(part, n), c))
     \/ Becomes(first(view, n), Upto(part, n))
     \/ Becomes(last(view, n), IF n <= Len(part) THEN Without(part, Len(part) - n) ELSE <<>>)
     \/ Becomes(remove_prefix(view, n), Without(part, n))
     \/ Becomes(remove_suffix(view, n), SubSeq(part, 1, Len(part) - n))

(* A caller of the last two sees to it that there are as many.              *)
StringStep(n) ==
  /\ class = "string_view"
  /\ \/ \E c \in Word : Becomes(substr(view, n, c), Upto(Without(part, n), c))
     \/ n <= view.size /\ Becomes(sv_remove_prefix(view, n), Without(part, n))
     \/ n <= view.size /\ Becomes(sv_remove_suffix(view, n), SubSeq(part, 1, Len(part) - n))

(* Each converts to the other. *)
Convert ==
  /\ class' = IF class = "slice" THEN "string_view" ELSE "slice"
  /\ UNCHANGED <<view, part>>

Next == Convert \/ \E n \in Word : SliceStep(n) \/ StringStep(n)

Spec == Init /\ [][Next]_vars

-----------------------------------------------------------------------------
(* A reference for compare(): the first place where two sequences differ.   *)
Before(s, t) ==
  \E i \in 1 .. Len(t) :
    /\ i <= Len(s) => s[i] < t[i]
    /\ i <= Len(s) + 1
    /\ \A j \in 1 .. i - 1 : s[j] = t[j]

(* Through whatever chain of operations a view was derived, with whatever   *)
(* numbers, its elements are the ones asked for that there were, and none   *)
(* of them is outside the array.  That holds though last() with a number    *)
(* that is too large leaves a wild pointer, from which the chain goes on:   *)
(* the view is empty, and stays so.  compare() orders it rightly.           *)
ViewsArePart ==
  /\ view.size = Len(part)
  /\ \A i \in 0 .. view.size - 1 :
       /\ (view.data + i) % Words \in Start .. Start + Len(Array) - 1
       /\ Element(view, i) = part[i + 1]
  /\ compare(view, Whole) =
       IF Before(part, Array) THEN -1 ELSE IF Before(Array, part) THEN 1 ELSE 0
=============================================================================
