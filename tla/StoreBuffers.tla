----------------------------- MODULE StoreBuffers -----------------------------
(***************************************************************************)
(* What the code in ktl/ relies on of an x86-64 multiprocessor: the memory *)
(* of several processors, each with a store buffer (total store order),    *)
(* and interrupt handlers that run on the processor of what they           *)
(* interrupt.  An inline asm("" ::: "memory") keeps the compiler from      *)
(* reordering accesses; the buffers are what the processor adds.           *)
(***************************************************************************)
EXTENDS Integers, Sequences

CONSTANTS
  Cpus,      \* the processors
  Contexts,  \* what runs on them: programs and interrupt handlers
  Handlers,  \* the contexts that are interrupt handlers
  CpuOf,     \* the processor of each context
  Locations, \* the words of memory
  MaxCalls   \* how many calls there are

ASSUME ContextsAssumption ==
  Handlers \subseteq Contexts /\ CpuOf \in [Contexts -> Cpus]

VARIABLES
  memory,  \* the word at each location
  buffer,  \* the stores of each processor that are not yet in memory
  pc,      \* where each context is
  calls    \* how many calls were made

Entry == [loc : Locations, val : Nat]
Stored(l, v) == [loc |-> l, val |-> v]

(* A processor sees its own latest store to a location, or else memory.     *)
StoresTo(c, l) == {i \in DOMAIN buffer[c] : buffer[c][i].loc = l}
Visible(c, l) ==
  IF StoresTo(c, l) = {}
    THEN memory[l]
    ELSE buffer[c][CHOOSE i \in StoresTo(c, l) :
                     \A j \in StoresTo(c, l) : j <= i].val

(* A plain mov to memory. *)
Store(c, l, v) ==
  /\ buffer' = [buffer EXCEPT ![c] = Append(@, Stored(l, v))]
  /\ UNCHANGED memory

(* An instruction with a lock prefix waits for the buffer to be empty, then *)
(* reads and writes memory in one step.                                    *)
Locked(c, l, v) ==
  /\ buffer[c] = <<>>
  /\ memory' = [memory EXCEPT ![l] = v]
  /\ UNCHANGED buffer

(* The oldest store in a buffer reaches memory. *)
Drain(c) ==
  /\ buffer[c] # <<>>
  /\ memory' = [memory EXCEPT ![Head(buffer[c]).loc] = Head(buffer[c]).val]
  /\ buffer' = [buffer EXCEPT ![c] = Tail(@)]

(* A context executes unless a handler has interrupted it; handlers do not  *)
(* interrupt each other.                                                    *)
Active == {t \in Contexts : pc[t] # "idle"}
MayRun(t) == ~ \E h \in (Handlers \cap Active) \ {t} : CpuOf[h] = CpuOf[t]

Goto(t, label) == pc' = [pc EXCEPT ![t] = label]
=============================================================================
