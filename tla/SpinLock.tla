------------------------------- MODULE SpinLock -------------------------------
(***************************************************************************)
(* ktl::SpinLock and ktl::AutoLock (ktl/atomic) on a multiprocessor with   *)
(* store buffers.  Every section that the lock protects adds 1 to a        *)
(* counter with a plain load and a plain store, so that an update is lost  *)
(* when two sections overlap, or when the lock is seen free before what    *)
(* was written under it is seen.                                           *)
(*                                                                         *)
(* TryLockPlain, UnlockBypassesBuffer and the like are faulty variants of  *)
(* the definitions that follow them, used only to see that a property      *)
(* notices the fault.                                                      *)
(***************************************************************************)
EXTENDS StoreBuffers

ASSUME SpinLockAssumption == {"flag", "counter"} \subseteq Locations

VARIABLES
  tmp,  \* what the context has read from the counter
  done  \* history: how many sections have ended

lockVars == <<memory, buffer, pc, tmp, calls, done>>

InSection(t) == pc[t] \in {"critical", "update", "unlock"}

LockInit ==
  /\ memory = [l \in Locations |-> 0]
  /\ buffer = [c \in Cpus |-> <<>>]
  /\ pc = [t \in Contexts |-> "idle"]
  /\ tmp = [t \in Contexts |-> 0]
  /\ calls = 0 /\ done = 0

-----------------------------------------------------------------------------
(* lock(), try_lock() and unlock().  AutoLock's constructor is a call of    *)
(* lock() and its destructor one of unlock().                              *)

LockCall(t) ==
  /\ pc[t] = "idle" /\ MayRun(t) /\ calls < MaxCalls
  /\ Goto(t, "lock")
  /\ calls' = calls + 1
  /\ UNCHANGED <<memory, buffer, tmp, done>>

(* One iteration of the loop in lock(). *)
LockXchg(t) ==
  /\ pc[t] = "lock" /\ MayRun(t)
  /\ Locked(CpuOf[t], "flag", 1)
  /\ Goto(t, IF memory["flag"] = 0 THEN "critical" ELSE "lock")
  /\ UNCHANGED <<tmp, calls, done>>

TryLockPlain(t) ==
  /\ pc[t] = "idle" /\ MayRun(t) /\ calls < MaxCalls
  /\ Store(CpuOf[t], "flag", 1)
  /\ Goto(t, IF Visible(CpuOf[t], "flag") = 0 THEN "critical" ELSE "idle")
  /\ calls' = calls + 1
  /\ UNCHANGED <<tmp, done>>

TryLock(t) ==
  /\ pc[t] = "idle" /\ MayRun(t) /\ calls < MaxCalls
  /\ Locked(CpuOf[t], "flag", 1)
  /\ Goto(t, IF memory["flag"] = 0 THEN "critical" ELSE "idle")
  /\ calls' = calls + 1
  /\ UNCHANGED <<tmp, done>>

UnlockBypassesBuffer(t) ==
  /\ pc[t] = "unlock" /\ MayRun(t)
  /\ memory' = [memory EXCEPT !["flag"] = 0]
  /\ Goto(t, "idle")
  /\ done' = done + 1
  /\ UNCHANGED <<buffer, tmp, calls>>

UnlockForgets(t) ==
  /\ pc[t] = "unlock" /\ MayRun(t)
  /\ Goto(t, "idle")
  /\ done' = done + 1
  /\ UNCHANGED <<memory, buffer, tmp, calls>>

Unlock(t) ==
  /\ pc[t] = "unlock" /\ MayRun(t)
  /\ Store(CpuOf[t], "flag", 0)
  /\ Goto(t, "idle")
  /\ done' = done + 1
  /\ UNCHANGED <<tmp, calls>>

-----------------------------------------------------------------------------
(* The section: the counter is incremented. *)

ReadCounter(t) ==
  /\ pc[t] = "critical" /\ MayRun(t)
  /\ tmp' = [tmp EXCEPT ![t] = Visible(CpuOf[t], "counter")]
  /\ Goto(t, "update")
  /\ UNCHANGED <<memory, buffer, calls, done>>

WriteCounter(t) ==
  /\ pc[t] = "update" /\ MayRun(t)
  /\ Store(CpuOf[t], "counter", tmp[t] + 1)
  /\ Goto(t, "unlock")
  /\ UNCHANGED <<tmp, calls, done>>

LockDrain(c) == Drain(c) /\ UNCHANGED <<pc, tmp, calls, done>>

Section(t) == ReadCounter(t) \/ WriteCounter(t) \/ Unlock(t)

(* Everybody has returned, and nobody calls again. *)
LockQuiet ==
  /\ Active = {} /\ \A c \in Cpus : buffer[c] = <<>>
  /\ UNCHANGED lockVars

LockNext ==
  \/ \E t \in Contexts : LockCall(t) \/ LockXchg(t) \/ TryLock(t) \/ Section(t)
  \/ \E c \in Cpus : LockDrain(c)
  \/ LockQuiet

LockSpec == LockInit /\ [][LockNext]_lockVars

(* Processors keep executing the calls and sections that are in progress,   *)
(* and stores reach memory; nobody has to make a call.                      *)
LockFairSpec ==
  /\ LockSpec
  /\ \A t \in Contexts : WF_lockVars(LockXchg(t)) /\ WF_lockVars(Section(t))
  /\ \A c \in Cpus : WF_lockVars(LockDrain(c))

-----------------------------------------------------------------------------
(* The flag is a byte that is 0 or 1, the counter counts, and a buffer      *)
(* holds stores to them.                                                   *)
LockTypeOK ==
  /\ memory \in [Locations -> Nat] /\ memory["flag"] \in {0, 1}
  /\ buffer \in [Cpus -> Seq(Entry)]
  /\ pc \in [Contexts -> {"idle", "lock", "critical", "update", "unlock"}]
  /\ tmp \in [Contexts -> Nat]
  /\ calls \in Nat /\ done \in Nat

(* lock() returns, or try_lock() returns true, to one context at a time,    *)
(* on other processors and in handlers that interrupt the section too.      *)
MutualExclusion ==
  \A t, u \in Contexts : InSection(t) /\ InSection(u) => t = u

(* unlock() is a plain store, which other processors see late: whoever gets *)
(* the lock still sees everything that was written in the sections before.  *)
NoLostUpdate ==
  \A t \in Contexts :
    /\ pc[t] = "critical" => Visible(CpuOf[t], "counter") = done
    /\ pc[t] = "update" => tmp[t] = done
    /\ pc[t] = "unlock" => Visible(CpuOf[t], "counter") = done + 1

(* A handler spins for a lock that the program it interrupts holds.         *)
SpinsOnItself ==
  \E h \in Handlers, t \in Contexts :
    pc[h] = "lock" /\ InSection(t) /\ CpuOf[h] = CpuOf[t]

(* The only way for lock() never to return, when calls cease: a handler     *)
(* that calls it has interrupted the holder.  (MaxCalls makes them cease;   *)
(* under endless contention the lock promises nothing to the one who waits.) *)
LockReturnsUnlessHolderInterrupted ==
  \A t \in Contexts : pc[t] = "lock" ~> pc[t] # "lock" \/ SpinsOnItself
=============================================================================
