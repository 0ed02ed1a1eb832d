------------------------------ MODULE FramePool ------------------------------
(***************************************************************************)
(* What the physical memory manager promises, with no linked list in it: a *)
(* pool of page frames kept in one order, from which a client takes frames *)
(* and to which it gives them back.  A frame is in the pool, or held by    *)
(* the client, or withheld from both for good, and never two of these.     *)
(* The discipline of the pool (queue or stack) is the one choice           *)
(* kPmmUseFifo makes in pmm.hh.                                            *)
(***************************************************************************)
EXTENDS Sequences, SequencesExt

CONSTANTS
  Frame,   \* the frames that may ever be offered
  Fifo     \* TRUE: freed frames queue up; FALSE: the last one freed is reused first

VARIABLES
  pool,      \* the free frames, in the order in which they will be handed out
  owned,     \* the frames the client holds
  withheld   \* the frames taken out of circulation

vars == <<pool, owned, withheld>>

InPool == Range(pool)

(* Where a frame enters the pool. *)
Put(f) == pool' = IF Fifo THEN Append(pool, f) ELSE <<f>> \o pool

Init == pool = <<>> /\ owned = {} /\ withheld = {}

(* A frame nobody knows of is offered. *)
Provide(f) ==
  /\ f \notin InPool \cup owned \cup withheld
  /\ Put(f)
  /\ UNCHANGED <<owned, withheld>>

(* The frame whose turn it is goes to the client. *)
Take ==
  /\ pool # <<>>
  /\ owned' = owned \cup {Head(pool)}
  /\ pool' = Tail(pool)
  /\ UNCHANGED withheld

(* The client returns a frame it holds; any other return changes nothing. *)
GiveBack(f) ==
  /\ f \in owned
  /\ owned' = owned \ {f}
  /\ Put(f)
  /\ UNCHANGED withheld

(* The k-th free frame is taken out of circulation. *)
Withhold(k) ==
  /\ k \in DOMAIN pool
  /\ pool' = RemoveAt(pool, k)
  /\ withheld' = withheld \cup {pool[k]}
  /\ UNCHANGED owned

Next ==
  \/ Take
  \/ \E f \in Frame : Provide(f) \/ GiveBack(f)
  \/ \E k \in DOMAIN pool : Withhold(k)

Spec == Init /\ [][Next]_vars
=============================================================================
