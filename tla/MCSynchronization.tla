-------------------------- MODULE MCSynchronization --------------------------
(***************************************************************************)
(* The lock and call_once() on two processors, with a program on each and  *)
(* a handler on the first.  A behaviour is one of one of the two; the      *)
(* variables of the other keep their first value.                          *)
(***************************************************************************)
EXTENDS SpinLock, CallOnce, TLC

CONSTANTS c1, c2, p1, p2, h1

MCCpuOf == p1 :> c1 @@ p2 :> c2 @@ h1 :> c1

VARIABLE topic   \* the module whose behaviour this is

synchronizationVars == <<topic, memory, buffer, pc, calls, tmp, done, runs>>

SynchronizationInit == topic \in {"lock", "once"} /\ LockInit /\ OnceInit

(* A step of one of them, A, as a step of both. *)
OfLock(A) == topic = "lock" /\ A /\ UNCHANGED <<topic, runs>>
OfOnce(A) == topic = "once" /\ A /\ UNCHANGED <<topic, tmp, done>>

SynchronizationNext == OfLock(LockNext) \/ OfOnce(OnceNext)

(* The fairness of LockFairSpec and of OnceFairSpec. *)
SynchronizationSpec ==
  /\ SynchronizationInit /\ [][SynchronizationNext]_synchronizationVars
  /\ \A t \in Contexts :
       /\ WF_synchronizationVars(OfLock(LockXchg(t)))
       /\ WF_synchronizationVars(OfLock(Section(t)))
       /\ WF_synchronizationVars(OfOnce(Step(t)))
  /\ \A c \in Cpus :
       /\ WF_synchronizationVars(OfLock(LockDrain(c)))
       /\ WF_synchronizationVars(OfOnce(OnceDrain(c)))
=============================================================================
