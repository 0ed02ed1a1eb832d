---------------------------------- MODULE Ktl ----------------------------------
(***************************************************************************)
(* The headers of ktl that are called by whoever likes, on data of their    *)
(* own: views of an array, and optionals.  They share nothing.              *)
(***************************************************************************)
EXTENDS Integers, Sequences

CONSTANTS
  Words,    \* of Views: how many words there are
  Array,    \* the array of which there are views
  Address,  \* where it begins
  Values    \* of Optional: the values an object may have

VARIABLES class, view, part, here, mem, holds, own

View == INSTANCE Views WITH Start <- Address
Opt == INSTANCE Optional

(* An array of integers lies among the words, and not at address 0.         *)
ArrayIsPlaced ==
  /\ Words \in Nat /\ Address \in Nat /\ Address > 0
  /\ Array \in Seq(Int) /\ Address + Len(Array) <= Words /\ Address < Words

(* A value can be told from no object.                                      *)
ValuesAreObjects ==
  /\ Opt!Raw \notin Values /\ Opt!Moved \notin Values /\ Opt!None \notin Values
  /\ Values \cap Opt!Names = {}

ASSUME KtlAssumption == ArrayIsPlaced /\ ValuesAreObjects

-----------------------------------------------------------------------------
(* A chain of derived slices and string_views never reaches an element      *)
(* outside the array, and holds those that were asked for.                  *)
ViewsArePart == View!ViewsArePart

(* Each value in an optional is constructed once and destroyed once.        *)
LifetimesMatch == Opt!LifetimesMatch
=============================================================================
