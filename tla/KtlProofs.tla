------------------------------- MODULE KtlProofs -------------------------------
(***************************************************************************)
(* Proofs about ktl: the spin lock and call_once(), for any number of      *)
(* processors, programs and interrupt handlers and any number of calls;    *)
(* the lifetimes of what an optional contains; and the elements of views.  *)
(***************************************************************************)
EXTENDS SpinLock, CallOnce, Ktl, SequenceTheorems, NaturalsInduction,
        WellFoundedInduction, TLAPS

-----------------------------------------------------------------------------
(* What a processor sees of memory, depending on what its store buffer     *)
(* holds.                                                                  *)

(* A store goes to the end of a buffer that holds one. *)
LEMMA AppendToOne ==
  ASSUME NEW a, NEW b
  PROVE  Append(<<a>>, b) = <<a, b>>
<1>1. <<a>> \in Seq({a, b}) /\ <<a, b>> \in Seq({a, b})
  OBVIOUS
<1>2. /\ Append(<<a>>, b) \in Seq({a, b})
      /\ Len(Append(<<a>>, b)) = 2
      /\ Append(<<a>>, b)[1] = a /\ Append(<<a>>, b)[2] = b
  BY <1>1, AppendProperties
<1>3. \A i \in 1 .. 2 : Append(<<a>>, b)[i] = <<a, b>>[i]
  BY <1>2
<1> QED
  BY <1>1, <1>2, <1>3, SeqEqual

(* With no store to a location in the buffer, a load reads memory. *)
LEMMA VisibleInMemory ==
  ASSUME NEW c, NEW l, StoresTo(c, l) = {}
  PROVE  Visible(c, l) = memory[l]
BY DEF Visible

(* In particular with an empty buffer. *)
LEMMA VisibleWhenDrained ==
  ASSUME NEW c, NEW l, buffer[c] = <<>>
  PROVE  Visible(c, l) = memory[l]
BY DEF Visible, StoresTo

(* With one store to a location in the buffer, a load reads what it stores. *)
LEMMA VisibleInBuffer ==
  ASSUME NEW c, NEW l, NEW i \in Int, StoresTo(c, l) = {i}
  PROVE  Visible(c, l) = buffer[c][i].val
<1>1. \A k \in StoresTo(c, l) : (\A j \in StoresTo(c, l) : j <= k) => k = i
  OBVIOUS
<1>2. (CHOOSE k \in StoresTo(c, l) : \A j \in StoresTo(c, l) : j <= k) = i
  BY <1>1
<1> QED
  BY <1>2 DEF Visible

(* A buffer with one store. *)
LEMMA VisibleOfOne ==
  ASSUME NEW c, NEW l, NEW m, NEW v, buffer[c] = <<Stored(m, v)>>
  PROVE  Visible(c, l) = IF l = m THEN v ELSE memory[l]
<1>1. CASE l = m
  <2>1. StoresTo(c, l) = {1}
    BY <1>1 DEF StoresTo, Stored
  <2>2. buffer[c][1].val = v
    BY DEF Stored
  <2> QED
    BY <1>1, <2>1, <2>2, VisibleInBuffer
<1>2. CASE l # m
  <2>1. StoresTo(c, l) = {}
    BY <1>2 DEF StoresTo, Stored
  <2> QED
    BY <1>2, <2>1, VisibleInMemory
<1> QED
  BY <1>1, <1>2

(* A buffer with two stores to different locations. *)
LEMMA VisibleOfTwo ==
  ASSUME NEW c, NEW l, NEW m, NEW n, NEW v, NEW w, m # n,
         buffer[c] = <<Stored(m, v), Stored(n, w)>>
  PROVE  Visible(c, l) = IF l = m THEN v ELSE IF l = n THEN w ELSE memory[l]
<1>0. DOMAIN buffer[c] = {1, 2} /\ buffer[c][1].loc = m /\ buffer[c][2].loc = n
  BY DEF Stored
<1>1. CASE l = m
  <2>1. StoresTo(c, l) = {1}
    BY <1>0, <1>1 DEF StoresTo
  <2>2. buffer[c][1].val = v
    BY DEF Stored
  <2> QED
    BY <1>1, <2>1, <2>2, VisibleInBuffer
<1>2. CASE l = n
  <2>1. StoresTo(c, l) = {2}
    BY <1>0, <1>2 DEF StoresTo
  <2>2. buffer[c][2].val = w
    BY DEF Stored
  <2>3. Visible(c, l) = buffer[c][2].val
    BY <2>1, VisibleInBuffer
  <2> QED
    BY <1>2, <2>2, <2>3
<1>3. CASE l # m /\ l # n
  <2>1. StoresTo(c, l) = {}
    BY <1>0, <1>3 DEF StoresTo
  <2> QED
    BY <1>3, <2>1, VisibleInMemory
<1> QED
  BY <1>1, <1>2, <1>3

(* A store leaves memory and buffers well typed. *)
LEMMA StoreTyped ==
  ASSUME memory \in [Locations -> Nat], buffer \in [Cpus -> Seq(Entry)],
         NEW c \in Cpus, NEW l \in Locations, NEW v \in Nat, Store(c, l, v)
  PROVE  memory' = memory /\ buffer' \in [Cpus -> Seq(Entry)]
<1>1. Stored(l, v) \in Entry
  BY DEF Stored, Entry
<1>2. Append(buffer[c], Stored(l, v)) \in Seq(Entry)
  BY <1>1
<1> QED
  BY <1>2 DEF Store

(* Only one processor may have stores that are not in memory. *)
AllDrainedBut(c) == \A d \in Cpus : d # c => buffer[d] = <<>>

-----------------------------------------------------------------------------
(* The inductive invariant of the spin lock.  The lock is free, with every  *)
(* store in memory; or one context holds it; or it was released, and the    *)
(* store that says so is still the last one in the releasing processor's    *)
(* buffer.                                                                  *)

NobodyInside == \A t \in Contexts : ~InSection(t)

Free ==
  /\ memory["flag"] = 0 /\ memory["counter"] = done
  /\ NobodyInside
  /\ \A c \in Cpus : buffer[c] = <<>>

Held(t) ==
  /\ memory["flag"] = 1
  /\ \A u \in Contexts : InSection(u) <=> u = t
  /\ AllDrainedBut(CpuOf[t])
  /\ \/ pc[t] = "critical" /\ buffer[CpuOf[t]] = <<>> /\ memory["counter"] = done
     \/ pc[t] = "update" /\ buffer[CpuOf[t]] = <<>> /\ memory["counter"] = done
          /\ tmp[t] = done
     \/ pc[t] = "unlock" /\ buffer[CpuOf[t]] = <<Stored("counter", done + 1)>>
     \/ pc[t] = "unlock" /\ buffer[CpuOf[t]] = <<>> /\ memory["counter"] = done + 1

Releasing(c) ==
  /\ memory["flag"] = 1
  /\ NobodyInside
  /\ AllDrainedBut(c)
  /\ \/ buffer[c] = <<Stored("counter", done), Stored("flag", 0)>>
     \/ buffer[c] = <<Stored("flag", 0)>> /\ memory["counter"] = done

LockState == Free \/ (\E t \in Contexts : Held(t)) \/ (\E c \in Cpus : Releasing(c))

LockInv == LockTypeOK /\ LockState

-----------------------------------------------------------------------------
(* Each step keeps the type invariant. *)

(* A drain may write to the flag: it is 0 that it writes. *)
LEMMA LockDrainTyped ==
  ASSUME LockInv, NEW c \in Cpus, Drain(c)
  PROVE  /\ memory' \in [Locations -> Nat] /\ memory'["flag"] \in {0, 1}
         /\ buffer' \in [Cpus -> Seq(Entry)]
<1>1. \/ buffer[c] = <<Stored("counter", done + 1)>>
      \/ buffer[c] = <<Stored("counter", done), Stored("flag", 0)>>
      \/ buffer[c] = <<Stored("flag", 0)>>
  BY SpinLockAssumption
     DEF LockInv, LockState, Free, Held, Releasing, AllDrainedBut, Drain
<1>2. Head(buffer[c]) \in [loc : {"flag", "counter"}, val : Nat]
  BY <1>1 DEF Stored, LockInv, LockTypeOK
<1>3. Head(buffer[c]).loc = "flag" => Head(buffer[c]).val = 0
  BY <1>1 DEF Stored
<1>4. Tail(buffer[c]) \in Seq(Entry)
  BY DEF Drain, LockInv, LockTypeOK
<1> QED
  BY <1>2, <1>3, <1>4, SpinLockAssumption DEF Drain, LockInv, LockTypeOK

(* Every step leaves a well typed state. *)
LEMMA LockTypeStep == LockInv /\ [LockNext]_lockVars => LockTypeOK'
<1> SUFFICES ASSUME LockInv, [LockNext]_lockVars PROVE LockTypeOK'
  OBVIOUS
<1>0. LockTypeOK
  BY DEF LockInv
<1>1. ASSUME NEW t \in Contexts, LockCall(t) PROVE LockTypeOK'
  <2>1. pc' \in [Contexts -> {"idle", "lock", "critical", "update", "unlock"}]
    BY <1>0, <1>1 DEF LockTypeOK, LockCall, Goto
  <2>2. /\ calls' = calls + 1
        /\ UNCHANGED <<memory, buffer, tmp, done>>
    BY <1>1 DEF LockCall
  <2> QED
    BY <1>0, <2>1, <2>2 DEF LockTypeOK
<1>2. ASSUME NEW t \in Contexts, LockXchg(t) PROVE LockTypeOK'
  BY <1>0, <1>2, SpinLockAssumption DEF LockTypeOK, LockXchg, Locked, Goto
<1>3. ASSUME NEW t \in Contexts, TryLock(t) PROVE LockTypeOK'
  BY <1>0, <1>3, SpinLockAssumption DEF LockTypeOK, TryLock, Locked, Goto
<1>4. ASSUME NEW t \in Contexts, ReadCounter(t) PROVE LockTypeOK'
  <2>1. buffer[CpuOf[t]] = <<>> /\ CpuOf[t] \in Cpus
    BY <1>4, ContextsAssumption
       DEF LockInv, LockState, Free, Held, Releasing, NobodyInside, InSection, ReadCounter
  <2>2. Visible(CpuOf[t], "counter") = memory["counter"]
    BY <2>1, VisibleWhenDrained
  <2> QED
    BY <1>0, <1>4, <2>2, SpinLockAssumption DEF LockTypeOK, ReadCounter, Goto
<1>5. ASSUME NEW t \in Contexts, WriteCounter(t) PROVE LockTypeOK'
  <2>1. CpuOf[t] \in Cpus /\ tmp[t] + 1 \in Nat
    BY <1>0, ContextsAssumption DEF LockTypeOK
  <2>2. /\ memory' \in [Locations -> Nat] /\ memory'["flag"] \in {0, 1}
        /\ buffer' \in [Cpus -> Seq(Entry)]
    BY <1>0, <1>5, <2>1, StoreTyped, SpinLockAssumption DEF LockTypeOK, WriteCounter
  <2> QED
    BY <1>0, <1>5, <2>2 DEF LockTypeOK, WriteCounter, Goto
<1>6. ASSUME NEW t \in Contexts, Unlock(t) PROVE LockTypeOK'
  <2>1. CpuOf[t] \in Cpus
    BY ContextsAssumption
  <2>2. /\ memory' \in [Locations -> Nat] /\ memory'["flag"] \in {0, 1}
        /\ buffer' \in [Cpus -> Seq(Entry)]
    BY <1>0, <1>6, <2>1, StoreTyped, SpinLockAssumption DEF LockTypeOK, Unlock
  <2> QED
    BY <1>0, <1>6, <2>2 DEF LockTypeOK, Unlock, Goto
<1>7. ASSUME NEW c \in Cpus, LockDrain(c) PROVE LockTypeOK'
  BY <1>0, <1>7, LockDrainTyped DEF LockDrain, LockTypeOK
<1>8. ASSUME UNCHANGED lockVars PROVE LockTypeOK'
  BY <1>0, <1>8 DEF LockTypeOK, lockVars
<1> QED
  BY <1>1, <1>2, <1>3, <1>4, <1>5, <1>6, <1>7, <1>8 DEF LockNext, Section, LockQuiet

-----------------------------------------------------------------------------
(* Each step takes the lock from one of its three states to another.       *)

(* The initial state is well typed and the lock is free. *)
LEMMA LockInitInv == LockInit => LockInv
<1> SUFFICES ASSUME LockInit PROVE LockInv
  OBVIOUS
<1>1. LockTypeOK
  BY SpinLockAssumption DEF LockInit, LockTypeOK
<1>2. Free
  BY SpinLockAssumption DEF LockInit, Free, NobodyInside, InSection
<1> QED
  BY <1>1, <1>2 DEF LockInv, LockState

(* A step that moves no context into or out of a section, and leaves        *)
(* memory, buffers and history alone, leaves the lock as it is.             *)
LEMMA OutsideLockStep ==
  ASSUME LockInv, UNCHANGED <<memory, buffer, tmp, done>>,
         \A u \in Contexts : InSection(u) \/ InSection(u)' => pc'[u] = pc[u]
  PROVE  LockState'
<1>1. \A u \in Contexts : InSection(u)' <=> InSection(u)
  BY DEF InSection
<1>2. CASE Free
  BY <1>1, <1>2 DEF Free, NobodyInside, LockState
<1>3. CASE \E t \in Contexts : Held(t)
  <2> PICK t \in Contexts : Held(t)
    BY <1>3
  <2>1. InSection(t) /\ pc'[t] = pc[t]
    BY DEF Held
  <2> QED
    BY <1>1, <2>1 DEF Held, AllDrainedBut, LockState
<1>4. CASE \E c \in Cpus : Releasing(c)
  BY <1>1, <1>4 DEF Releasing, AllDrainedBut, NobodyInside, LockState
<1> QED
  BY <1>2, <1>3, <1>4 DEF LockInv, LockState

(* An exchange takes the lock if it is free, and nothing otherwise. *)
LEMMA XchgStep ==
  ASSUME LockInv, NEW t \in Contexts, NEW label \in {"lock", "idle"},
         pc[t] \in {"lock", "idle"},
         Locked(CpuOf[t], "flag", 1),
         Goto(t, IF memory["flag"] = 0 THEN "critical" ELSE label),
         UNCHANGED <<tmp, done>>
  PROVE  LockState'
<1>0. CpuOf[t] \in Cpus /\ ~InSection(t)
  BY ContextsAssumption DEF InSection
<1>1. CASE memory["flag"] = 0
  <2>1. Free
    BY <1>1 DEF LockInv, LockState, Held, Releasing
  <2>2. \A u \in Contexts : InSection(u)' <=> u = t
    BY <1>1, <2>1 DEF Free, NobodyInside, InSection, Goto, LockInv, LockTypeOK
  <2>3. Held(t)'
    BY <1>0, <1>1, <2>1, <2>2, SpinLockAssumption
       DEF Held, Free, AllDrainedBut, Locked, Goto, LockInv, LockTypeOK
  <2> QED
    BY <2>3 DEF LockState
<1>2. CASE memory["flag"] = 1
  <2>1. UNCHANGED <<memory, buffer, tmp, done>>
    BY <1>2, SpinLockAssumption DEF Locked, LockInv, LockTypeOK
  <2>2. \A u \in Contexts : InSection(u) \/ InSection(u)' => pc'[u] = pc[u]
    BY <1>0, <1>2 DEF InSection, Goto, LockInv, LockTypeOK
  <2> QED
    BY <2>1, <2>2, OutsideLockStep
<1> QED
  BY <1>1, <1>2 DEF LockInv, LockTypeOK

(* Inside the section the holder goes on holding the lock. *)
LEMMA HolderStep ==
  ASSUME LockInv, NEW t \in Contexts, ReadCounter(t) \/ WriteCounter(t)
  PROVE  LockState'
<1>0. Held(t) /\ CpuOf[t] \in Cpus
  BY ContextsAssumption
     DEF LockInv, LockState, Free, Held, Releasing, NobodyInside, InSection,
         ReadCounter, WriteCounter
<1>1. buffer[CpuOf[t]] = <<>> /\ memory["counter"] = done
  BY <1>0 DEF Held, ReadCounter, WriteCounter
<1>2. \A u \in Contexts : InSection(u)' <=> u = t
  BY <1>0 DEF Held, InSection, ReadCounter, WriteCounter, Goto, LockInv, LockTypeOK
<1>3. CASE ReadCounter(t)
  <2>1. tmp'[t] = done
    BY <1>0, <1>1, <1>3, VisibleWhenDrained DEF ReadCounter, LockInv, LockTypeOK
  <2>2. Held(t)'
    BY <1>0, <1>1, <1>2, <1>3, <2>1
       DEF Held, AllDrainedBut, ReadCounter, Goto, LockInv, LockTypeOK
  <2> QED
    BY <2>2 DEF LockState
<1>4. CASE WriteCounter(t)
  <2>1. tmp[t] = done
    BY <1>0, <1>4 DEF Held, WriteCounter
  <2>2. buffer'[CpuOf[t]] = <<Stored("counter", done + 1)>>
    BY <1>0, <1>1, <1>4, <2>1 DEF WriteCounter, Store, LockInv, LockTypeOK
  <2>3. \A d \in Cpus : d # CpuOf[t] => buffer'[d] = <<>>
    BY <1>0, <1>4 DEF Held, AllDrainedBut, WriteCounter, Store, LockInv, LockTypeOK
  <2>4. pc'[t] = "unlock" /\ memory' = memory /\ done' = done
    BY <1>4 DEF WriteCounter, Store, Goto, LockInv, LockTypeOK
  <2>5. Held(t)'
    BY <1>0, <1>2, <2>2, <2>3, <2>4 DEF Held, AllDrainedBut
  <2> QED
    BY <2>5 DEF LockState
<1> QED
  BY <1>3, <1>4

(* unlock() leaves the release in the buffer. *)
LEMMA UnlockStep ==
  ASSUME LockInv, NEW t \in Contexts, Unlock(t)
  PROVE  LockState'
<1>0. Held(t) /\ CpuOf[t] \in Cpus
  BY ContextsAssumption
     DEF LockInv, LockState, Free, Held, Releasing, NobodyInside, InSection, Unlock
<1>1. NobodyInside'
  BY <1>0 DEF Held, NobodyInside, InSection, Unlock, Goto, LockInv, LockTypeOK
<1>2. \A d \in Cpus : d # CpuOf[t] => buffer'[d] = <<>>
  BY <1>0 DEF Held, AllDrainedBut, Unlock, Store, LockInv, LockTypeOK
<1>3. done' = done + 1 /\ memory' = memory
  BY DEF Unlock, Store
<1>4. buffer'[CpuOf[t]] = Append(buffer[CpuOf[t]], Stored("flag", 0))
  BY <1>0 DEF Unlock, Store, LockInv, LockTypeOK
<1>5. \/ buffer[CpuOf[t]] = <<Stored("counter", done + 1)>>
      \/ buffer[CpuOf[t]] = <<>> /\ memory["counter"] = done + 1
  BY <1>0 DEF Held, Unlock
<1>6. \/ buffer'[CpuOf[t]] = <<Stored("counter", done'), Stored("flag", 0)>>
      \/ buffer'[CpuOf[t]] = <<Stored("flag", 0)>> /\ memory'["counter"] = done'
  <2>1. CASE buffer[CpuOf[t]] = <<Stored("counter", done + 1)>>
    <3>1. buffer'[CpuOf[t]] = <<Stored("counter", done + 1), Stored("flag", 0)>>
      BY <1>4, <2>1, AppendToOne
    <3> QED
      BY <1>3, <3>1
  <2>2. CASE buffer[CpuOf[t]] = <<>> /\ memory["counter"] = done + 1
    <3>1. buffer'[CpuOf[t]] = <<Stored("flag", 0)>>
      BY <1>4, <2>2
    <3> QED
      BY <1>3, <2>2, <3>1
  <2> QED
    BY <1>5, <2>1, <2>2
<1>7. Releasing(CpuOf[t])'
  BY <1>0, <1>1, <1>2, <1>3, <1>6 DEF Releasing, AllDrainedBut, Held
<1> QED
  BY <1>0, <1>7 DEF LockState

(* A drain brings the holder's update, or its release, to memory. *)
LEMMA DrainKeepsLockState ==
  ASSUME LockInv, NEW c \in Cpus, LockDrain(c)
  PROVE  LockState'
<1>0. buffer[c] # <<>> /\ UNCHANGED <<pc, tmp, done>>
  BY DEF LockDrain, Drain
<1>1. \A d \in Cpus : d # c => buffer'[d] = buffer[d]
  BY DEF LockDrain, Drain, LockInv, LockTypeOK
<1>2. CASE \E t \in Contexts : Held(t)
  <2> PICK t \in Contexts : Held(t)
    BY <1>2
  <2>1. c = CpuOf[t]
    BY <1>0 DEF Held, AllDrainedBut
  <2>2. pc[t] = "unlock" /\ buffer[c] = <<Stored("counter", done + 1)>>
    BY <1>0, <2>1 DEF Held
  <2>3. Head(buffer[c]) = Stored("counter", done + 1) /\ Tail(buffer[c]) = <<>>
    BY <2>2
  <2>4. buffer'[c] = <<>> /\ memory'["counter"] = done + 1 /\ memory'["flag"] = 1
    BY <2>3, SpinLockAssumption DEF LockDrain, Drain, Stored, LockInv, LockTypeOK, Held
  <2>5. Held(t)'
    BY <1>0, <1>1, <2>1, <2>2, <2>4 DEF Held, AllDrainedBut, InSection
  <2> QED
    BY <2>5 DEF LockState
<1>3. CASE \E d \in Cpus : Releasing(d)
  <2>1. Releasing(c)
    BY <1>0, <1>3 DEF Releasing, AllDrainedBut
  <2>2. NobodyInside'
    BY <1>0, <2>1 DEF Releasing, NobodyInside, InSection
  <2>3. CASE buffer[c] = <<Stored("counter", done), Stored("flag", 0)>>
    <3>1. Head(buffer[c]) = Stored("counter", done) /\ Tail(buffer[c]) = <<Stored("flag", 0)>>
      BY <2>3
    <3>2. /\ buffer'[c] = <<Stored("flag", 0)>>
          /\ memory'["counter"] = done /\ memory'["flag"] = 1
      BY <2>1, <3>1, SpinLockAssumption DEF LockDrain, Drain, Stored, LockInv, LockTypeOK, Releasing
    <3>3. Releasing(c)'
      BY <1>0, <1>1, <2>1, <2>2, <3>2 DEF Releasing, AllDrainedBut
    <3> QED
      BY <3>3 DEF LockState
  <2>4. CASE buffer[c] = <<Stored("flag", 0)>> /\ memory["counter"] = done
    <3>1. Head(buffer[c]) = Stored("flag", 0) /\ Tail(buffer[c]) = <<>>
      BY <2>4
    <3>2. buffer'[c] = <<>> /\ memory'["counter"] = done /\ memory'["flag"] = 0
      BY <2>4, <3>1, SpinLockAssumption DEF LockDrain, Drain, Stored, LockInv, LockTypeOK
    <3>3. Free'
      BY <1>0, <1>1, <2>1, <2>2, <3>2 DEF Free, Releasing, AllDrainedBut
    <3> QED
      BY <3>3 DEF LockState
  <2> QED
    BY <2>1, <2>3, <2>4 DEF Releasing
<1>4. ~Free
  BY <1>0 DEF Free
<1> QED
  BY <1>2, <1>3, <1>4 DEF LockInv, LockState

(* The invariant is inductive. *)
LEMMA LockStepInv == LockInv /\ [LockNext]_lockVars => LockInv'
<1> SUFFICES ASSUME LockInv, [LockNext]_lockVars PROVE LockState'
  BY LockTypeStep DEF LockInv
<1>1. ASSUME NEW t \in Contexts, LockCall(t) PROVE LockState'
  <2>1. UNCHANGED <<memory, buffer, tmp, done>>
    BY <1>1 DEF LockCall
  <2>2. \A u \in Contexts : InSection(u) \/ InSection(u)' => pc'[u] = pc[u]
    BY <1>1 DEF LockCall, Goto, InSection, LockInv, LockTypeOK
  <2> QED
    BY <2>1, <2>2, OutsideLockStep
<1>2. ASSUME NEW t \in Contexts, LockXchg(t) PROVE LockState'
  BY <1>2, XchgStep DEF LockXchg
<1>3. ASSUME NEW t \in Contexts, TryLock(t) PROVE LockState'
  BY <1>3, XchgStep DEF TryLock
<1>4. ASSUME NEW t \in Contexts, Section(t) PROVE LockState'
  BY <1>4, HolderStep, UnlockStep DEF Section
<1>5. ASSUME NEW c \in Cpus, LockDrain(c) PROVE LockState'
  BY <1>5, DrainKeepsLockState
<1>6. ASSUME UNCHANGED lockVars PROVE LockState'
  <2>1. UNCHANGED <<memory, buffer, pc, tmp, done>>
    BY <1>6 DEF lockVars
  <2> QED
    BY <2>1, OutsideLockStep
<1> QED
  BY <1>1, <1>2, <1>3, <1>4, <1>5, <1>6 DEF LockNext, LockQuiet

-----------------------------------------------------------------------------
(* The lock is always free, held by one context, or being released by one   *)
(* processor, and the state is well typed.                                  *)
THEOREM LockInductive == LockSpec => []LockInv
BY LockInitInv, LockStepInv, PTL DEF LockSpec

(* The flag stays 0 or 1 and everything else keeps its type.                *)
THEOREM LockTypeCorrect == LockSpec => []LockTypeOK
<1>1. LockInv => LockTypeOK
  BY DEF LockInv
<1> QED
  BY <1>1, LockInductive, PTL

(* lock() and try_lock() let one context in at a time: no assumption on who *)
(* interrupts whom is needed for it.                                        *)
THEOREM SectionsExclude == LockSpec => []MutualExclusion
<1>1. LockInv => MutualExclusion
  BY DEF LockInv, LockState, Free, Held, Releasing, NobodyInside, MutualExclusion
<1> QED
  BY <1>1, LockInductive, PTL

(* Whoever gets the lock sees every update made under it before, although   *)
(* unlock() is a plain store that waits in a buffer.                        *)
THEOREM UpdatesAreSeen == LockSpec => []NoLostUpdate
<1>1. LockInv => NoLostUpdate
  <2> SUFFICES ASSUME LockInv, NEW t \in Contexts, InSection(t)
               PROVE  /\ pc[t] = "critical" => Visible(CpuOf[t], "counter") = done
                      /\ pc[t] = "update" => tmp[t] = done
                      /\ pc[t] = "unlock" => Visible(CpuOf[t], "counter") = done + 1
    BY DEF NoLostUpdate, InSection
  <2>1. Held(t) /\ CpuOf[t] \in Cpus
    BY ContextsAssumption DEF LockInv, LockState, Free, Held, Releasing, NobodyInside
  <2> QED
    BY <2>1, VisibleWhenDrained, VisibleOfOne DEF Held
<1> QED
  BY <1>1, LockInductive, PTL

-----------------------------------------------------------------------------
(* The inductive invariant of call_once: the flag goes through four phases. *)

Running(t) == pc[t] \in {"run", "publish"}
NobodyRuns == \A t \in Contexts : ~Running(t)

(* Nobody has exchanged the state yet. *)
Fresh ==
  /\ memory["state"] = Untouched /\ memory["data"] = 0 /\ runs = 0
  /\ \A t \in Contexts : pc[t] \in {"idle", "check", "exchange"}
  /\ \A c \in Cpus : buffer[c] = <<>>

(* t is about to call the function, or has called it. *)
RunBy(t) ==
  /\ memory["state"] = Started
  /\ \A u \in Contexts : (Running(u) <=> u = t) /\ pc[u] # "returned"
  /\ AllDrainedBut(CpuOf[t])
  /\ \/ /\ pc[t] = "run" /\ runs = 0
        /\ buffer[CpuOf[t]] = <<>> /\ memory["data"] = 0
     \/ /\ pc[t] = "publish" /\ runs = 1
        /\ \/ buffer[CpuOf[t]] = <<Stored("data", 1)>>
           \/ buffer[CpuOf[t]] = <<>> /\ memory["data"] = 1

(* The new state is in c's buffer, and known to contexts on c only.         *)
PublishedBy(c) ==
  /\ memory["state"] = Started /\ runs = 1
  /\ NobodyRuns
  /\ AllDrainedBut(c)
  /\ \A u \in Contexts : pc[u] = "returned" => CpuOf[u] = c
  /\ \/ buffer[c] = <<Stored("data", 1), Stored("state", Complete)>>
     \/ buffer[c] = <<Stored("state", Complete)>> /\ memory["data"] = 1

(* Everybody may know. *)
Known ==
  /\ memory["state"] = Complete /\ memory["data"] = 1 /\ runs = 1
  /\ NobodyRuns
  /\ \A c \in Cpus : buffer[c] = <<>>

Phase ==
  \/ Fresh
  \/ \E t \in Contexts : RunBy(t)
  \/ \E c \in Cpus : PublishedBy(c)
  \/ Known

OnceInv == OnceTypeOK /\ Phase

-----------------------------------------------------------------------------
(* What contexts see in each phase. *)

(* The state is seen to be Complete on c only when the data is seen there.  *)
LEMMA SeenComplete ==
  ASSUME OnceInv, NEW c \in Cpus, Visible(c, "state") = Complete
  PROVE  /\ Visible(c, "data") = 1
         /\ PublishedBy(c) \/ Known
<1>1. CASE Fresh
  BY <1>1, VisibleWhenDrained DEF Fresh, Untouched, Complete
<1>2. CASE \E t \in Contexts : RunBy(t)
  <2> PICK t \in Contexts : RunBy(t)
    BY <1>2
  <2>1. buffer[c] = <<>> \/ buffer[c] = <<Stored("data", 1)>>
    BY DEF RunBy, AllDrainedBut
  <2>2. Visible(c, "state") = memory["state"]
    BY <2>1, VisibleWhenDrained, VisibleOfOne
  <2> QED
    BY <2>2 DEF RunBy, Started, Complete
<1>3. CASE \E d \in Cpus : PublishedBy(d)
  <2> PICK d \in Cpus : PublishedBy(d)
    BY <1>3
  <2>1. c = d
    <3>1. SUFFICES ASSUME c # d PROVE FALSE
      OBVIOUS
    <3>2. buffer[c] = <<>>
      BY <3>1 DEF PublishedBy, AllDrainedBut
    <3> QED
      BY <3>2, VisibleWhenDrained DEF PublishedBy, Started, Complete
  <2>2. CASE buffer[c] = <<Stored("data", 1), Stored("state", Complete)>>
    BY <2>1, <2>2, VisibleOfTwo
  <2>3. CASE buffer[c] = <<Stored("state", Complete)>> /\ memory["data"] = 1
    BY <2>1, <2>3, VisibleOfOne
  <2> QED
    BY <2>1, <2>2, <2>3 DEF PublishedBy
<1>4. CASE Known
  BY <1>4, VisibleWhenDrained DEF Known
<1> QED
  BY <1>1, <1>2, <1>3, <1>4 DEF OnceInv, Phase

-----------------------------------------------------------------------------
(* The initial state is fresh. *)
LEMMA OnceInitInv == OnceInit => OnceInv
<1> SUFFICES ASSUME OnceInit PROVE OnceInv
  OBVIOUS
<1>1. OnceTypeOK
  BY CallOnceAssumption DEF OnceInit, OnceTypeOK, Untouched
<1>2. Fresh
  BY CallOnceAssumption DEF OnceInit, Fresh, Untouched
<1> QED
  BY <1>1, <1>2 DEF OnceInv, Phase

(* A step that moves t between places outside of the function, and leaves   *)
(* memory and buffers alone, leaves the phase as it is; t returns only when *)
(* it sees that the function has run.                                       *)
LEMMA OutsideOnceStep ==
  ASSUME OnceInv, UNCHANGED <<memory, buffer, runs>>, NEW t \in Contexts,
         NEW label \in {"idle", "check", "exchange", "wait", "returned"},
         ~Running(t), Goto(t, label),
         label = "wait" => ~Fresh,
         label = "returned" => Visible(CpuOf[t], "state") = Complete
  PROVE  Phase'
<1>0. CpuOf[t] \in Cpus
  BY ContextsAssumption
<1>1. \A u \in Contexts : pc'[u] = IF u = t THEN label ELSE pc[u]
  BY DEF Goto, OnceInv, OnceTypeOK
<1>2. \A u \in Contexts : Running(u)' <=> Running(u)
  BY <1>1 DEF Running
<1>3. label = "returned" => PublishedBy(CpuOf[t]) \/ Known
  BY <1>0, SeenComplete
<1>4. CASE Fresh
  <2>1. label # "returned"
    BY <1>3, <1>4 DEF Fresh, PublishedBy, Known, Untouched, Started, Complete
  <2>2. Fresh'
    BY <1>1, <1>4, <2>1 DEF Fresh
  <2> QED
    BY <2>2 DEF Phase
<1>5. CASE \E u \in Contexts : RunBy(u)
  <2> PICK u \in Contexts : RunBy(u)
    BY <1>5
  <2>1. label # "returned"
    BY <1>3 DEF RunBy, PublishedBy, Known, NobodyRuns, Started, Complete
  <2>2. u # t /\ pc'[u] = pc[u]
    BY <1>1 DEF RunBy
  <2>3. RunBy(u)'
    BY <1>1, <1>2, <2>1, <2>2 DEF RunBy, AllDrainedBut
  <2> QED
    BY <2>3 DEF Phase
<1>6. CASE \E c \in Cpus : PublishedBy(c)
  <2> PICK c \in Cpus : PublishedBy(c)
    BY <1>6
  <2>0. ASSUME NEW d \in Cpus, PublishedBy(d) PROVE buffer[d] # <<>>
    <3>1. \/ buffer[d] = <<Stored("data", 1), Stored("state", Complete)>>
          \/ buffer[d] = <<Stored("state", Complete)>>
      BY <2>0 DEF PublishedBy
    <3>2. \A a, b : <<a, b>> # <<>> /\ <<a>> # <<>>
      OBVIOUS
    <3> QED
      BY <3>1, <3>2
  <2>1. label = "returned" => CpuOf[t] = c
    BY <1>0, <1>3, <2>0 DEF PublishedBy, AllDrainedBut, Known, Started, Complete
  <2>2. PublishedBy(c)'
    BY <1>1, <1>2, <2>1 DEF PublishedBy, AllDrainedBut, NobodyRuns
  <2> QED
    BY <2>2 DEF Phase
<1>7. CASE Known
  BY <1>2, <1>7 DEF Known, NobodyRuns, Phase
<1> QED
  BY <1>4, <1>5, <1>6, <1>7 DEF OnceInv, Phase

(* The exchange starts the function in the fresh phase, and in no other.    *)
LEMMA ExchangeStep ==
  ASSUME OnceInv, NEW t \in Contexts, CompareExchange(t)
  PROVE  Phase'
<1>0. CpuOf[t] \in Cpus /\ pc[t] = "exchange" /\ ~Running(t)
  BY ContextsAssumption DEF CompareExchange, At, Running
<1>1. CASE memory["state"] = Untouched
  <2>1. Fresh
    BY <1>1 DEF OnceInv, Phase, RunBy, PublishedBy, Known, Untouched, Started, Complete
  <2>2. \A u \in Contexts : pc'[u] = IF u = t THEN "run" ELSE pc[u]
    BY <1>1 DEF CompareExchange, Goto, OnceInv, OnceTypeOK
  <2>3. \A u \in Contexts : (Running(u)' <=> u = t) /\ pc'[u] # "returned"
    BY <2>1, <2>2 DEF Running, Fresh
  <2>4. memory'["state"] = Started /\ memory'["data"] = 0
    BY <1>1, <2>1, CallOnceAssumption
       DEF CompareExchange, Locked, Fresh, OnceInv, OnceTypeOK
  <2>5. runs' = 0 /\ buffer' = buffer
    BY <2>1 DEF CompareExchange, Locked, Fresh
  <2>6. RunBy(t)'
    BY <1>0, <2>1, <2>2, <2>3, <2>4, <2>5 DEF RunBy, Fresh, AllDrainedBut
  <2> QED
    BY <2>6 DEF Phase
<1>2. CASE memory["state"] # Untouched
  <2>1. UNCHANGED <<memory, buffer, runs>> /\ Goto(t, "wait")
    BY <1>2 DEF CompareExchange, Locked, OnceInv, OnceTypeOK
  <2>2. ~Fresh
    BY <1>2 DEF Fresh
  <2> QED
    BY <1>0, <2>1, <2>2, OutsideOnceStep
<1> QED
  BY <1>1, <1>2

(* The function runs while only t is in it. *)
LEMMA RunStep ==
  ASSUME OnceInv, NEW t \in Contexts, RunFunction(t)
  PROVE  Phase'
<1>0. RunBy(t) /\ CpuOf[t] \in Cpus
  BY ContextsAssumption
     DEF OnceInv, Phase, Fresh, RunBy, PublishedBy, Known, NobodyRuns, Running,
         RunFunction, At
<1>1. runs = 0 /\ buffer[CpuOf[t]] = <<>> /\ memory["data"] = 0
  BY <1>0 DEF RunBy, RunFunction, At
<1>2. \A u \in Contexts : pc'[u] = IF u = t THEN "publish" ELSE pc[u]
  BY DEF RunFunction, Goto, OnceInv, OnceTypeOK
<1>3. \A u \in Contexts : (Running(u)' <=> u = t) /\ pc'[u] # "returned"
  BY <1>0, <1>2 DEF Running, RunBy
<1>4. Visible(CpuOf[t], "data") = 0
  BY <1>1, VisibleWhenDrained
<1>5. buffer'[CpuOf[t]] = <<Stored("data", 1)>>
  BY <1>0, <1>1, <1>4 DEF RunFunction, Store, OnceInv, OnceTypeOK
<1>6. \A d \in Cpus : d # CpuOf[t] => buffer'[d] = <<>>
  BY <1>0 DEF RunBy, AllDrainedBut, RunFunction, Store, OnceInv, OnceTypeOK
<1>7. memory' = memory /\ runs' = 1
  BY <1>1 DEF RunFunction, Store
<1>8. RunBy(t)'
  BY <1>0, <1>2, <1>3, <1>5, <1>6, <1>7 DEF RunBy, AllDrainedBut
<1> QED
  BY <1>8 DEF Phase

(* The release store goes into the buffer behind what the function stored.  *)
LEMMA PublishStep ==
  ASSUME OnceInv, NEW t \in Contexts, Publish(t)
  PROVE  Phase'
<1>0. RunBy(t) /\ CpuOf[t] \in Cpus
  BY ContextsAssumption
     DEF OnceInv, Phase, Fresh, RunBy, PublishedBy, Known, NobodyRuns, Running, Publish, At
<1>1. /\ runs = 1
      /\ \/ buffer[CpuOf[t]] = <<Stored("data", 1)>>
         \/ buffer[CpuOf[t]] = <<>> /\ memory["data"] = 1
  BY <1>0 DEF RunBy, Publish, At
<1>2. \A u \in Contexts : pc'[u] = IF u = t THEN "returned" ELSE pc[u]
  BY DEF Publish, Goto, OnceInv, OnceTypeOK
<1>3. NobodyRuns' /\ \A u \in Contexts : pc'[u] = "returned" => u = t
  BY <1>0, <1>2 DEF Running, RunBy, NobodyRuns
<1>4. buffer'[CpuOf[t]] = Append(buffer[CpuOf[t]], Stored("state", Complete))
  BY <1>0 DEF Publish, Store, OnceInv, OnceTypeOK
<1>5. \A d \in Cpus : d # CpuOf[t] => buffer'[d] = <<>>
  BY <1>0 DEF RunBy, AllDrainedBut, Publish, Store, OnceInv, OnceTypeOK
<1>6. memory' = memory /\ runs' = 1
  BY <1>1 DEF Publish, Store
<1>7. \/ buffer'[CpuOf[t]] = <<Stored("data", 1), Stored("state", Complete)>>
      \/ buffer'[CpuOf[t]] = <<Stored("state", Complete)>> /\ memory'["data"] = 1
  <2>1. CASE buffer[CpuOf[t]] = <<Stored("data", 1)>>
    BY <1>4, <2>1, AppendToOne
  <2>2. CASE buffer[CpuOf[t]] = <<>> /\ memory["data"] = 1
    <3>1. buffer'[CpuOf[t]] = <<Stored("state", Complete)>>
      BY <1>4, <2>2
    <3> QED
      BY <1>6, <2>2, <3>1
  <2> QED
    BY <1>1, <2>1, <2>2
<1>8. PublishedBy(CpuOf[t])'
  BY <1>0, <1>3, <1>5, <1>6, <1>7 DEF PublishedBy, AllDrainedBut, RunBy
<1> QED
  BY <1>0, <1>8 DEF Phase

(* A drain brings the data to memory, or the state after it. *)
LEMMA DrainKeepsPhase ==
  ASSUME OnceInv, NEW c \in Cpus, OnceDrain(c)
  PROVE  Phase'
<1>0. buffer[c] # <<>> /\ UNCHANGED <<pc, runs>>
  BY DEF OnceDrain, Drain
<1>1. \A d \in Cpus : d # c => buffer'[d] = buffer[d]
  BY DEF OnceDrain, Drain, OnceInv, OnceTypeOK
<1>2. ~Fresh /\ ~Known
  BY <1>0 DEF Fresh, Known
<1>3. CASE \E t \in Contexts : RunBy(t)
  <2> PICK t \in Contexts : RunBy(t)
    BY <1>3
  <2>1. c = CpuOf[t]
    BY <1>0 DEF RunBy, AllDrainedBut
  <2>2. pc[t] = "publish" /\ runs = 1 /\ buffer[c] = <<Stored("data", 1)>>
    BY <1>0, <2>1 DEF RunBy
  <2>3. Head(buffer[c]) = Stored("data", 1) /\ Tail(buffer[c]) = <<>>
    BY <2>2
  <2>4. buffer'[c] = <<>> /\ memory'["data"] = 1 /\ memory'["state"] = Started
    BY <2>3, CallOnceAssumption DEF OnceDrain, Drain, Stored, OnceInv, OnceTypeOK, RunBy
  <2>5. RunBy(t)'
    BY <1>0, <1>1, <2>1, <2>2, <2>4 DEF RunBy, AllDrainedBut, Running
  <2> QED
    BY <2>5 DEF Phase
<1>4. CASE \E d \in Cpus : PublishedBy(d)
  <2>1. PublishedBy(c)
    BY <1>0, <1>4 DEF PublishedBy, AllDrainedBut
  <2>2. NobodyRuns'
    BY <1>0, <2>1 DEF PublishedBy, NobodyRuns, Running
  <2>3. CASE buffer[c] = <<Stored("data", 1), Stored("state", Complete)>>
    <3>1. /\ Head(buffer[c]) = Stored("data", 1)
          /\ Tail(buffer[c]) = <<Stored("state", Complete)>>
      BY <2>3
    <3>2. /\ buffer'[c] = <<Stored("state", Complete)>>
          /\ memory'["data"] = 1 /\ memory'["state"] = Started
      BY <2>1, <3>1, CallOnceAssumption
         DEF OnceDrain, Drain, Stored, OnceInv, OnceTypeOK, PublishedBy
    <3>3. PublishedBy(c)'
      BY <1>0, <1>1, <2>1, <2>2, <3>2 DEF PublishedBy, AllDrainedBut
    <3> QED
      BY <3>3 DEF Phase
  <2>4. CASE buffer[c] = <<Stored("state", Complete)>> /\ memory["data"] = 1
    <3>1. Head(buffer[c]) = Stored("state", Complete) /\ Tail(buffer[c]) = <<>>
      BY <2>4
    <3>2. buffer'[c] = <<>> /\ memory'["data"] = 1 /\ memory'["state"] = Complete
      BY <2>4, <3>1, CallOnceAssumption DEF OnceDrain, Drain, Stored, OnceInv, OnceTypeOK
    <3>3. Known'
      BY <1>0, <1>1, <2>1, <2>2, <3>2 DEF Known, PublishedBy, AllDrainedBut
    <3> QED
      BY <3>3 DEF Phase
  <2> QED
    BY <2>1, <2>3, <2>4 DEF PublishedBy
<1> QED
  BY <1>2, <1>3, <1>4 DEF OnceInv, Phase

-----------------------------------------------------------------------------
(* Every step leaves a well typed state. *)
LEMMA OnceTypeStep ==
  ASSUME OnceInv, Phase', [OnceNext]_onceVars
  PROVE  OnceTypeOK'
<1>0. OnceTypeOK
  BY DEF OnceInv
<1>1. ASSUME NEW t \in Contexts, Call(t) \/ CheckState(t) \/ Wait(t) \/ Finish(t)
      PROVE  OnceTypeOK'
  <2>1. UNCHANGED <<memory, buffer, runs>> /\ calls' \in Nat
    BY <1>0, <1>1 DEF OnceTypeOK, Call, CheckState, Wait, Finish
  <2>2. pc' \in [Contexts ->
          {"idle", "check", "exchange", "run", "publish", "wait", "returned"}]
    BY <1>0, <1>1 DEF OnceTypeOK, Call, CheckState, Wait, Finish, Goto
  <2> QED
    BY <1>0, <2>1, <2>2 DEF OnceTypeOK
<1>2. ASSUME NEW t \in Contexts, CompareExchange(t) PROVE OnceTypeOK'
  BY <1>0, <1>2, CallOnceAssumption
     DEF OnceTypeOK, CompareExchange, Locked, Goto, Untouched, Started, Complete
<1>3. ASSUME NEW t \in Contexts, RunFunction(t) PROVE OnceTypeOK'
  <2>0. CpuOf[t] \in Cpus /\ buffer[CpuOf[t]] = <<>> /\ memory["data"] \in Nat
    BY <1>3, ContextsAssumption
       DEF OnceInv, Phase, Fresh, RunBy, PublishedBy, Known, NobodyRuns, Running,
           RunFunction, At
  <2>1. Visible(CpuOf[t], "data") + 1 \in Nat
    BY <2>0, VisibleWhenDrained
  <2>2. memory' = memory /\ buffer' \in [Cpus -> Seq(Entry)]
    BY <1>0, <1>3, <2>0, <2>1, StoreTyped, CallOnceAssumption DEF OnceTypeOK, RunFunction
  <2> QED
    BY <1>0, <1>3, <2>2 DEF OnceTypeOK, RunFunction, Goto
<1>4. ASSUME NEW t \in Contexts, Publish(t) PROVE OnceTypeOK'
  <2>0. CpuOf[t] \in Cpus
    BY ContextsAssumption
  <2>1. memory' = memory /\ buffer' \in [Cpus -> Seq(Entry)]
    BY <1>0, <1>4, <2>0, StoreTyped, CallOnceAssumption DEF OnceTypeOK, Publish, Complete
  <2> QED
    BY <1>0, <1>4, <2>1 DEF OnceTypeOK, Publish, Goto
<1>5. ASSUME NEW c \in Cpus, OnceDrain(c) PROVE OnceTypeOK'
  <2>1. memory'["state"] \in {Untouched, Started, Complete}
    BY DEF Phase, Fresh, RunBy, PublishedBy, Known
  <2>2. buffer[c] \in Seq(Entry) /\ buffer[c] # <<>>
    BY <1>0, <1>5 DEF OnceTypeOK, OnceDrain, Drain
  <2>3. Head(buffer[c]) \in Entry /\ Tail(buffer[c]) \in Seq(Entry)
    BY <2>2
  <2>4. memory' \in [Locations -> Nat] /\ buffer' \in [Cpus -> Seq(Entry)]
    BY <1>0, <1>5, <2>3 DEF OnceTypeOK, OnceDrain, Drain, Entry
  <2> QED
    BY <1>0, <1>5, <2>1, <2>4 DEF OnceTypeOK, OnceDrain
<1>6. ASSUME UNCHANGED onceVars PROVE OnceTypeOK'
  BY <1>0, <1>6 DEF OnceTypeOK, onceVars
<1> QED
  BY <1>1, <1>2, <1>3, <1>4, <1>5, <1>6 DEF OnceNext, Step, OnceQuiet

(* Every step leaves the flag in one of its phases. *)
LEMMA PhaseStep ==
  ASSUME OnceInv, [OnceNext]_onceVars
  PROVE  Phase'
<1>1. ASSUME NEW t \in Contexts, Call(t) PROVE Phase'
  BY <1>1, OutsideOnceStep DEF Call, At, Running
<1>2. ASSUME NEW t \in Contexts, CheckState(t) PROVE Phase'
  <2>1. CASE Visible(CpuOf[t], "state") = Complete
    BY <1>2, <2>1, OutsideOnceStep DEF CheckState, At, Running
  <2>2. CASE Visible(CpuOf[t], "state") # Complete
    BY <1>2, <2>2, OutsideOnceStep DEF CheckState, At, Running
  <2> QED
    BY <2>1, <2>2
<1>3. ASSUME NEW t \in Contexts, Wait(t) PROVE Phase'
  <2>0. ~Fresh
    BY <1>3 DEF Wait, At, Fresh
  <2>1. CASE Visible(CpuOf[t], "state") = Complete
    BY <1>3, <2>1, OutsideOnceStep DEF Wait, At, Running
  <2>2. CASE Visible(CpuOf[t], "state") # Complete
    BY <1>3, <2>0, <2>2, OutsideOnceStep DEF Wait, At, Running
  <2> QED
    BY <2>1, <2>2
<1>4. ASSUME NEW t \in Contexts, Finish(t) PROVE Phase'
  BY <1>4, OutsideOnceStep DEF Finish, At, Running
<1>5. ASSUME NEW t \in Contexts, CompareExchange(t) \/ RunFunction(t) \/ Publish(t)
      PROVE  Phase'
  BY <1>5, ExchangeStep, RunStep, PublishStep
<1>6. ASSUME NEW c \in Cpus, OnceDrain(c) PROVE Phase'
  BY <1>6, DrainKeepsPhase
<1>7. ASSUME UNCHANGED onceVars PROVE Phase'
  BY <1>7 DEF onceVars, OnceInv, Phase, Fresh, RunBy, PublishedBy, Known, NobodyRuns,
              Running, AllDrainedBut
<1> QED
  BY <1>1, <1>2, <1>3, <1>4, <1>5, <1>6, <1>7 DEF OnceNext, Step, OnceQuiet

-----------------------------------------------------------------------------
(* The flag is always in one of its phases, and the state is well typed.    *)
THEOREM OnceInductive == OnceSpec => []OnceInv
<1>1. OnceInv /\ [OnceNext]_onceVars => OnceInv'
  BY PhaseStep, OnceTypeStep DEF OnceInv
<1> QED
  BY <1>1, OnceInitInv, PTL DEF OnceSpec

(* The flag is in one of three states, and everything keeps its type.       *)
THEOREM OnceTypeCorrect == OnceSpec => []OnceTypeOK
<1>1. OnceInv => OnceTypeOK
  BY DEF OnceInv
<1> QED
  BY <1>1, OnceInductive, PTL

(* call_once() calls the function at most once, however many contexts on    *)
(* however many processors call it, and whatever interrupts what.           *)
THEOREM FunctionRunsOnce == OnceSpec => []RunsOnce
<1>1. OnceInv => RunsOnce
  BY DEF OnceInv, Phase, Fresh, RunBy, PublishedBy, Known, NobodyRuns, Running, RunsOnce
<1> QED
  BY <1>1, OnceInductive, PTL

(* After call_once() a context sees what the function stored, wherever the  *)
(* function ran and whether or not its stores have reached memory.          *)
THEOREM DataSeenOnReturn == OnceSpec => []InitialisedOnReturn
<1>1. OnceInv => InitialisedOnReturn
  <2> SUFFICES ASSUME OnceInv, NEW t \in Contexts, pc[t] = "returned"
               PROVE  Visible(CpuOf[t], "data") = 1
    BY DEF InitialisedOnReturn
  <2>0. CpuOf[t] \in Cpus
    BY ContextsAssumption
  <2>1. ~Fresh /\ \A u \in Contexts : ~RunBy(u)
    BY DEF Fresh, RunBy
  <2>2. CASE PublishedBy(CpuOf[t])
    BY <2>2, VisibleOfOne, VisibleOfTwo DEF PublishedBy
  <2>3. CASE Known
    BY <2>0, <2>3, VisibleWhenDrained DEF Known
  <2> QED
    BY <2>1, <2>2, <2>3 DEF OnceInv, Phase, PublishedBy
<1> QED
  BY <1>1, OnceInductive, PTL

-----------------------------------------------------------------------------
(* What m_data may be.                                                     *)

Objects == Values \cup {Opt!Moved}
Memory ==
  [engaged : [Opt!Names -> BOOLEAN], data : [Opt!Names -> Objects \cup {Opt!Raw}],
   misused : BOOLEAN]

(* Nothing has been misused, and m_engaged says where the objects are.     *)
Sound(m) ==
  /\ m \in Memory /\ ~m.misused
  /\ \A o \in Opt!Names : m.engaged[o] <=> m.data[o] # Opt!Raw

(* x is m but that v, an object or none, is in o. *)
Changed(x, m, o, v) ==
  Sound(x) /\ \A p \in Opt!Names : x.data[p] = IF p = o THEN v ELSE m.data[p]

(* What an optional shows of its memory. *)
Shown(v) == IF v = Opt!Raw THEN Opt!None ELSE v

OptionalInv ==
  IF mem.misused THEN own
  ELSE /\ here \subseteq Opt!Names /\ Sound(mem)
       /\ \A o \in Opt!Names : mem.engaged[o] => o \in here
       /\ holds = [o \in Opt!Names |-> Shown(mem.data[o])]

LEMMA ResetChanges ==
  ASSUME ValuesAreObjects, NEW m, Sound(m), NEW o \in Opt!Names
  PROVE  Changed(Opt!reset(m, o), m, o, Opt!Raw)
BY DEF Changed, Sound, Memory, Opt!reset, Opt!destroy, Opt!engage

(* An object is constructed where there is none. *)
LEMMA ConstructChanges ==
  ASSUME ValuesAreObjects, NEW m, Sound(m), NEW o \in Opt!Names, m.data[o] = Opt!Raw,
         NEW v \in Objects
  PROVE  Changed(Opt!engage(Opt!construct(m, o, v), o, TRUE), m, o, v)
<1>1. v # Opt!Raw
  BY DEF ValuesAreObjects, Objects, Opt!Raw, Opt!Moved
<1>2. PICK y : y = Opt!construct(m, o, v)
  OBVIOUS
<1>3. /\ y \in Memory /\ ~y.misused /\ y.engaged = m.engaged
      /\ \A p \in Opt!Names : y.data[p] = IF p = o THEN v ELSE m.data[p]
  BY <1>1, <1>2 DEF Sound, Memory, Opt!construct
<1>4. PICK x : x = Opt!engage(y, o, TRUE)
  OBVIOUS
<1>5. /\ x \in Memory /\ ~x.misused /\ x.data = y.data
      /\ \A p \in Opt!Names : x.engaged[p] <=> (p = o \/ m.engaged[p])
  BY <1>3, <1>4 DEF Sound, Memory, Opt!engage
<1> QED
  BY <1>1, <1>2, <1>3, <1>4, <1>5 DEF Changed, Sound

(* A value, or what another optional contains. *)
LEMMA EmplaceChanges ==
  ASSUME ValuesAreObjects, NEW m, Sound(m), NEW o \in Opt!Names, NEW arg,
         arg \in Values \/ (arg \in Opt!Names \ {o} /\ m.engaged[arg])
  PROVE  Changed(Opt!emplace(m, o, arg), m, o, Opt!Read(m, arg))
<1>1. PICK r : r = Opt!reset(m, o)
  OBVIOUS
<1>2. Changed(r, m, o, Opt!Raw)
  BY <1>1, ResetChanges
<1>3. PICK v : v = Opt!Read(r, arg)
  OBVIOUS
<1>4. v = Opt!Read(m, arg) /\ v \in Objects
  BY <1>2, <1>3 DEF Opt!Read, Changed, Sound, Memory, ValuesAreObjects, Objects
<1>5. Opt!emplace(m, o, arg) = Opt!engage(Opt!construct(r, o, v), o, TRUE)
  BY <1>1, <1>3 DEF Opt!emplace
<1>6. Changed(Opt!engage(Opt!construct(r, o, v), o, TRUE), r, o, v)
  <2>1. Sound(r) /\ r.data[o] = Opt!Raw
    BY <1>2 DEF Changed
  <2> QED
    BY <1>4, <2>1, ConstructChanges
<1> QED
  BY <1>2, <1>4, <1>5, <1>6 DEF Changed

LEMMA MoveOutChanges ==
  ASSUME ValuesAreObjects, NEW m, Sound(m), NEW o \in Opt!Names, m.engaged[o]
  PROVE  Changed(Opt!moveOut(m, o), m, o, Opt!Moved)
BY DEF Changed, Sound, Memory, Objects, Opt!moveOut, Opt!Moved, Opt!Raw

LEMMA AssignChanges ==
  ASSUME ValuesAreObjects, NEW m, Sound(m), NEW o \in Opt!Names, m.engaged[o],
         NEW v \in Objects
  PROVE  Changed(Opt!assign(m, o, v), m, o, v)
<1>1. v # Opt!Raw
  BY DEF ValuesAreObjects, Objects, Opt!Raw, Opt!Moved
<1> QED
  BY <1>1 DEF Changed, Sound, Memory, Opt!assign

(* What is engaged contains an object, and nothing else does. *)
LEMMA Contents ==
  ASSUME NEW m, Sound(m), NEW o \in Opt!Names
  PROVE  /\ m.engaged[o] \in BOOLEAN
         /\ m.engaged[o] => m.data[o] \in Objects
         /\ ~m.engaged[o] => m.data[o] = Opt!Raw
BY DEF Sound, Memory

(* An optional that does not exist yet becomes a copy of another. *)
LEMMA CopyChanges ==
  ASSUME ValuesAreObjects, NEW m, Sound(m), NEW o \in Opt!Names,
         NEW other \in Opt!Names, ~m.engaged[o]
  PROVE  Changed(Opt!Copy(m, o, other), m, o, m.data[other])
<1>1. CASE m.engaged[other]
  <2>1. Opt!Copy(m, o, other) = Opt!engage(Opt!construct(m, o, m.data[other]), o, TRUE)
    <3>1. m.engaged[other] = TRUE
      BY <1>1, Contents
    <3> QED
      BY <3>1 DEF Opt!Copy
  <2> QED
    <3>1. m.data[o] = Opt!Raw /\ m.data[other] \in Objects
      BY <1>1, Contents
    <3> QED
      BY <2>1, <3>1, ConstructChanges
<1>2. CASE ~m.engaged[other]
  <2>1. PICK x : x = Opt!engage(m, o, FALSE)
    OBVIOUS
  <2>2. Opt!Copy(m, o, other) = x
    <3>1. m.engaged[other] = FALSE
      BY <1>2, Contents
    <3> QED
      BY <2>1, <3>1 DEF Opt!Copy
  <2>3. /\ x \in Memory /\ ~x.misused /\ x.data = m.data
        /\ \A p \in Opt!Names : x.engaged[p] <=> m.engaged[p]
    BY <2>1 DEF Sound, Memory, Opt!engage
  <2> QED
    BY <1>2, <2>2, <2>3, Contents DEF Changed, Sound
<1> QED
  BY <1>1, <1>2

LEMMA AssignCopyChanges ==
  ASSUME ValuesAreObjects, NEW m, Sound(m), NEW o \in Opt!Names, NEW other \in Opt!Names
  PROVE  Changed(Opt!AssignCopy(m, o, other), m, o, m.data[other])
<1>1. CASE o = other
  BY <1>1 DEF Opt!AssignCopy, Changed
<1>2. CASE o # other /\ m.engaged[o] /\ m.engaged[other]
  BY <1>2, Contents, AssignChanges DEF Opt!AssignCopy
<1>3. CASE o # other /\ m.engaged[o] /\ ~m.engaged[other]
  BY <1>3, Contents, ResetChanges DEF Opt!AssignCopy
<1>4. CASE o # other /\ ~m.engaged[o] /\ m.engaged[other]
  <2>1. Changed(Opt!emplace(m, o, other), m, o, Opt!Read(m, other))
    BY <1>4, EmplaceChanges
  <2> QED
    BY <1>4, <2>1 DEF Opt!AssignCopy, Opt!Read
<1>5. CASE o # other /\ ~m.engaged[o] /\ ~m.engaged[other]
  <2>1. Opt!AssignCopy(m, o, other) = m
    BY <1>5 DEF Opt!AssignCopy
  <2> QED
    BY <1>5, <2>1, Contents DEF Changed
<1> QED
  BY <1>1, <1>2, <1>3, <1>4, <1>5

LEMMA AssignValueChanges ==
  ASSUME ValuesAreObjects, NEW m, Sound(m), NEW o \in Opt!Names, NEW v \in Values
  PROVE  Changed(Opt!AssignValue(m, o, v), m, o, v)
<1>1. CASE m.engaged[o]
  BY <1>1, AssignChanges DEF Opt!AssignValue, Objects
<1>2. CASE ~m.engaged[o]
  <2>1. Opt!Read(m, v) = v
    BY DEF ValuesAreObjects, Opt!Read
  <2> QED
    BY <1>2, <2>1, EmplaceChanges DEF Opt!AssignValue
<1> QED
  BY <1>1, <1>2

(* x is m but that o has what other had, and what was moved from is left   *)
(* behind.                                                                 *)
Moves(x, m, o, other) ==
  /\ Sound(x)
  /\ \A p \in Opt!Names :
       x.data[p] = CASE p = other /\ o # other /\ m.engaged[other] -> Opt!Moved
                     [] p = o /\ ~(o = other) -> m.data[other]
                     [] OTHER -> m.data[p]

LEMMA MoveMoves ==
  ASSUME ValuesAreObjects, NEW m, Sound(m), NEW o \in Opt!Names,
         NEW other \in Opt!Names, o # other, ~m.engaged[o]
  PROVE  Moves(Opt!Move(m, o, other), m, o, other)
<1>1. PICK x : x = Opt!Copy(m, o, other)
  OBVIOUS
<1>2. Changed(x, m, o, m.data[other])
  BY <1>1, CopyChanges
<1>3. CASE m.engaged[other]
  <2>1. Sound(x) /\ x.engaged[other]
    BY <1>2, <1>3 DEF Changed, Sound
  <2>2. Changed(Opt!moveOut(x, other), x, other, Opt!Moved)
    BY <2>1, MoveOutChanges
  <2>3. Opt!Move(m, o, other) = Opt!moveOut(x, other)
    BY <1>1, <1>3 DEF Opt!Move
  <2> QED
    BY <1>2, <1>3, <2>2, <2>3 DEF Changed, Moves
<1>4. CASE ~m.engaged[other]
  BY <1>1, <1>2, <1>4 DEF Opt!Move, Changed, Moves
<1> QED
  BY <1>3, <1>4

LEMMA AssignMoveMoves ==
  ASSUME ValuesAreObjects, NEW m, Sound(m), NEW o \in Opt!Names, NEW other \in Opt!Names
  PROVE  Moves(Opt!AssignMove(m, o, other), m, o, other)
<1>1. PICK x : x = Opt!AssignCopy(m, o, other)
  OBVIOUS
<1>2. Changed(x, m, o, m.data[other])
  BY <1>1, AssignCopyChanges
<1>3. CASE o # other /\ m.engaged[other]
  <2>1. Sound(x) /\ x.engaged[other]
    BY <1>2, <1>3 DEF Changed, Sound
  <2>2. Changed(Opt!moveOut(x, other), x, other, Opt!Moved)
    BY <2>1, MoveOutChanges
  <2>3. Opt!AssignMove(m, o, other) = Opt!moveOut(x, other)
    BY <1>1, <1>3 DEF Opt!AssignMove
  <2> QED
    BY <1>2, <1>3, <2>2, <2>3 DEF Changed, Moves
<1>4. CASE ~(o # other /\ m.engaged[other])
  BY <1>1, <1>2, <1>4 DEF Opt!AssignMove, Changed, Moves
<1> QED
  BY <1>3, <1>4

(* x is m but that o and p have each other's. *)
Exchanged(x, m, o, p) ==
  /\ Sound(x)
  /\ \A q \in Opt!Names :
       x.data[q] = IF q = o THEN m.data[p] ELSE IF q = p THEN m.data[o] ELSE m.data[q]

(* The branch of swap() where only the first has an object. *)
LEMMA HandOver ==
  ASSUME ValuesAreObjects, NEW m, Sound(m), NEW o \in Opt!Names, NEW p \in Opt!Names,
         m.engaged[o], ~m.engaged[p]
  PROVE  Exchanged(Opt!reset(Opt!moveOut(Opt!emplace(m, p, o), o), o), m, o, p)
<1>1. o # p
  OBVIOUS
<1>2. PICK x : x = Opt!emplace(m, p, o)
  OBVIOUS
<1>3. Changed(x, m, p, m.data[o])
  BY <1>1, <1>2, EmplaceChanges DEF Opt!Read
<1>4. Sound(x) /\ x.engaged[o]
  BY <1>1, <1>3 DEF Changed, Sound
<1>5. PICK y : y = Opt!moveOut(x, o)
  OBVIOUS
<1>6. Changed(y, x, o, Opt!Moved)
  BY <1>4, <1>5, MoveOutChanges
<1>7. Changed(Opt!reset(y, o), y, o, Opt!Raw)
  BY <1>6, ResetChanges DEF Changed
<1>8. m.data[p] = Opt!Raw
  BY Contents
<1> QED
  BY <1>1, <1>2, <1>3, <1>5, <1>6, <1>7, <1>8 DEF Changed, Exchanged

LEMMA SwapExchanges ==
  ASSUME ValuesAreObjects, NEW m, Sound(m), NEW o \in Opt!Names, NEW p \in Opt!Names
  PROVE  Exchanged(Opt!swap(m, o, p), m, o, p)
<1>1. CASE m.engaged[o] /\ m.engaged[p]
  <2>1. PICK x : x = Opt!assign(m, o, m.data[p])
    OBVIOUS
  <2>2. Changed(x, m, o, m.data[p])
    BY <1>1, <2>1, Contents, AssignChanges
  <2>3. Sound(x) /\ x.engaged[p]
    BY <1>1, <2>2, Contents DEF Changed, Sound, ValuesAreObjects, Objects, Opt!Moved, Opt!Raw
  <2>4. Changed(Opt!assign(x, p, m.data[o]), x, p, m.data[o])
    BY <1>1, <2>3, Contents, AssignChanges
  <2>5. Opt!swap(m, o, p) = Opt!assign(x, p, m.data[o])
    BY <1>1, <2>1 DEF Opt!swap
  <2> QED
    BY <2>2, <2>4, <2>5 DEF Changed, Exchanged
<1>2. CASE m.engaged[o] /\ ~m.engaged[p]
  BY <1>2, HandOver DEF Opt!swap
<1>3. CASE ~m.engaged[o] /\ m.engaged[p]
  <2>1. Exchanged(Opt!swap(m, o, p), m, p, o)
    BY <1>3, HandOver DEF Opt!swap
  <2> QED
    BY <1>3, <2>1 DEF Exchanged
<1>4. CASE ~m.engaged[o] /\ ~m.engaged[p]
  <2>1. Opt!swap(m, o, p) = m
    BY <1>4 DEF Opt!swap
  <2> QED
    BY <1>4, <2>1, Contents DEF Exchanged
<1> QED
  BY <1>1, <1>2, <1>3, <1>4

-----------------------------------------------------------------------------
(* The calls: what each leaves is what it should.                          *)

Follows(m, h) == Sound(m) /\ h = [o \in Opt!Names |-> Shown(m.data[o])]

LEMMA ChangedFollows ==
  ASSUME ValuesAreObjects, NEW m, Sound(m), NEW o \in Opt!Names, NEW h, Follows(m, h),
         NEW x, NEW v, Changed(x, m, o, v)
  PROVE  Follows(x, [h EXCEPT ![o] = Shown(v)])
BY DEF Changed, Follows

LEMMA MovesFollows ==
  ASSUME ValuesAreObjects, NEW m, Sound(m), NEW h, Follows(m, h),
         NEW o \in Opt!Names, NEW p \in Opt!Names, NEW x, Moves(x, m, o, p)
  PROVE  Follows(x, [h EXCEPT ![o] = h[p],
                              ![p] = IF h[p] = Opt!None \/ o = p THEN @ ELSE Opt!Moved])
<1>1. h[p] = Opt!None <=> ~m.engaged[p]
  BY Contents DEF Follows, Shown, ValuesAreObjects, Objects, Opt!Raw, Opt!None, Opt!Moved
<1>2. Shown(Opt!Moved) = Opt!Moved
  BY DEF Shown, Opt!Moved, Opt!Raw
<1> QED
  BY <1>1, <1>2 DEF Moves, Follows

LEMMA ExchangedFollows ==
  ASSUME ValuesAreObjects, NEW m, Sound(m), NEW h, Follows(m, h),
         NEW o \in Opt!Names, NEW p \in Opt!Names, NEW x, Exchanged(x, m, o, p)
  PROVE  Follows(x, [h EXCEPT ![o] = h[p], ![p] = h[o]])
BY DEF Exchanged, Follows

(* An emplace() with the optional's own value constructs from no object.   *)
LEMMA OwnIsMisuse ==
  ASSUME ValuesAreObjects, NEW m, Sound(m), NEW o \in Opt!Names
  PROVE  Opt!emplace(m, o, o).misused
<1>1. PICK r : r = Opt!reset(m, o)
  OBVIOUS
<1>2. Sound(r) /\ r.data[o] = Opt!Raw
  BY <1>1, ResetChanges DEF Changed
<1>3. Opt!Read(r, o) = Opt!Raw
  BY <1>2 DEF Opt!Read
<1>4. PICK y : y = Opt!construct(r, o, Opt!Raw)
  OBVIOUS
<1>5. y.misused /\ y \in [engaged : [Opt!Names -> BOOLEAN],
                           data : [Opt!Names -> Objects \cup {Opt!Raw}], misused : BOOLEAN]
  BY <1>2, <1>4 DEF Sound, Memory, Opt!construct
<1>6. Opt!engage(y, o, TRUE).misused
  BY <1>5 DEF Opt!engage
<1> QED
  BY <1>1, <1>3, <1>4, <1>6 DEF Opt!emplace

LEMMA ConstructKeeps ==
  ASSUME ValuesAreObjects, OptionalInv, ~mem.misused, NEW o \in Opt!Names, Opt!Construct(o)
  PROVE  OptionalInv'
<1>1. /\ Sound(mem) /\ Follows(mem, holds) /\ ~mem.engaged[o] /\ mem.data[o] = Opt!Raw
      /\ here \subseteq Opt!Names
      /\ \A p \in Opt!Names : mem.engaged[p] => p \in here
  BY Contents DEF OptionalInv, Follows, Opt!Construct
<1>2. here' = here \cup {o} /\ own' = own
  BY DEF Opt!Construct
<1> SUFFICES Follows(mem', holds') /\ \A p \in Opt!Names \ {o} : mem'.engaged[p] => mem.engaged[p]
  BY <1>1, <1>2 DEF OptionalInv, Follows, Sound
<1>3. CASE mem' = Opt!engage(mem, o, FALSE) /\ UNCHANGED holds
  <2>1. /\ mem' \in Memory /\ ~mem'.misused /\ mem'.data = mem.data
        /\ \A p \in Opt!Names : mem'.engaged[p] <=> mem.engaged[p]
    BY <1>1, <1>3 DEF Sound, Memory, Opt!engage
  <2> QED
    BY <1>1, <1>3, <2>1 DEF Follows, Sound
<1>4. ASSUME NEW v \in Values, mem' = Opt!engage(Opt!construct(mem, o, v), o, TRUE),
             holds' = [holds EXCEPT ![o] = v]
      PROVE  Follows(mem', holds') /\ \A p \in Opt!Names \ {o} : mem'.engaged[p] => mem.engaged[p]
  <2>1. Changed(mem', mem, o, v)
    BY <1>1, <1>4, ConstructChanges DEF Objects
  <2>2. Shown(v) = v
    BY DEF Shown, ValuesAreObjects
  <2> QED
    <3>1. Follows(mem', holds')
      BY <1>1, <1>4, <2>1, <2>2, ChangedFollows
    <3> QED
      BY <1>1, <2>1, <3>1 DEF Changed, Sound
<1>5. ASSUME NEW p \in here, mem' = Opt!Copy(mem, o, p), holds' = [holds EXCEPT ![o] = holds[p]]
      PROVE  Follows(mem', holds') /\ \A q \in Opt!Names \ {o} : mem'.engaged[q] => mem.engaged[q]
  <2>1. Changed(mem', mem, o, mem.data[p])
    BY <1>1, <1>5, CopyChanges
  <2>2. holds[p] = Shown(mem.data[p])
    BY <1>1 DEF Follows
  <2> QED
    <3>1. Follows(mem', holds')
      BY <1>1, <1>5, <2>1, <2>2, ChangedFollows
    <3> QED
      BY <1>1, <2>1, <3>1 DEF Changed, Sound
<1>6. ASSUME NEW p \in here, Opt!DoMove(Opt!Move(mem, o, p), o, p)
      PROVE  Follows(mem', holds') /\ \A q \in Opt!Names \ {o} : mem'.engaged[q] => mem.engaged[q]
  <2>0. p \in Opt!Names /\ p # o
    BY <1>1 DEF Opt!Construct
  <2>1. Moves(mem', mem, o, p)
    BY <1>1, <1>6, <2>0, MoveMoves DEF Opt!DoMove
  <2>2. Follows(mem', holds')
    BY <1>1, <1>6, <2>0, <2>1, MovesFollows DEF Opt!DoMove
  <2> QED
    BY <1>1, <2>1, <2>2 DEF Moves, Sound
<1> QED
  BY <1>3, <1>4, <1>5, <1>6 DEF Opt!Construct

(* The calls on optionals that exist. *)
LEMMA CallKeeps ==
  ASSUME ValuesAreObjects, OptionalInv, ~mem.misused, NEW o \in Opt!Names,
         NEW p \in Opt!Names, Opt!Assign(o) \/ Opt!Emplace(o) \/ Opt!Swap(o, p)
  PROVE  OptionalInv'
<1>1. /\ Sound(mem) /\ Follows(mem, holds) /\ o \in here /\ here \subseteq Opt!Names
      /\ \A q \in Opt!Names : mem.engaged[q] => q \in here
      /\ here' = here
      /\ \A q \in Opt!Names : holds[q] = Shown(mem.data[q])
  BY DEF OptionalInv, Follows, Opt!Assign, Opt!Emplace, Opt!Swap, Opt!Do
<1> SUFFICES Follows(mem', holds') /\ \A q \in Opt!Names \ here : ~mem'.engaged[q]
  BY <1>1 DEF OptionalInv, Follows, Sound
<1>2. ASSUME NEW x, NEW v, Opt!Do(x, o, Shown(v)), Changed(x, mem, o, v)
      PROVE  Follows(mem', holds') /\ \A q \in Opt!Names \ here : ~mem'.engaged[q]
  <2>1. Follows(mem', holds')
    BY <1>1, <1>2, ChangedFollows DEF Opt!Do
  <2> QED
    BY <1>1, <1>2, <2>1 DEF Opt!Do, Changed, Sound
<1>3. \A v \in Values : Shown(v) = v
  BY DEF Shown, ValuesAreObjects
<1>4. CASE Opt!Do(Opt!reset(mem, o), o, Opt!None)
  <2>1. Shown(Opt!Raw) = Opt!None
    BY DEF Shown
  <2> QED
    BY <1>1, <1>2, <1>4, <2>1, ResetChanges
<1>5. ASSUME NEW v \in Values, Opt!Do(Opt!AssignValue(mem, o, v), o, v)
      PROVE  Follows(mem', holds') /\ \A q \in Opt!Names \ here : ~mem'.engaged[q]
  BY <1>1, <1>2, <1>3, <1>5, AssignValueChanges
<1>6. ASSUME NEW q \in here, Opt!Do(Opt!AssignCopy(mem, o, q), o, holds[q])
      PROVE  Follows(mem', holds') /\ \A r \in Opt!Names \ here : ~mem'.engaged[r]
  BY <1>1, <1>2, <1>6, AssignCopyChanges
<1>7. ASSUME NEW q \in here, Opt!DoMove(Opt!AssignMove(mem, o, q), o, q)
      PROVE  Follows(mem', holds') /\ \A r \in Opt!Names \ here : ~mem'.engaged[r]
  <2>1. Moves(mem', mem, o, q)
    BY <1>1, <1>7, AssignMoveMoves DEF Opt!DoMove
  <2>2. Follows(mem', holds')
    BY <1>1, <1>7, <2>1, MovesFollows DEF Opt!DoMove
  <2> QED
    BY <1>1, <2>1, <2>2 DEF Moves, Sound
<1>8. ASSUME NEW v \in Values, Opt!Do(Opt!emplace(mem, o, v), o, v)
      PROVE  Follows(mem', holds') /\ \A q \in Opt!Names \ here : ~mem'.engaged[q]
  <2>1. Opt!Read(mem, v) = v
    BY DEF Opt!Read, ValuesAreObjects
  <2> QED
    BY <1>1, <1>2, <1>3, <1>8, <2>1, EmplaceChanges
<1>9. ASSUME NEW q \in here \ {o}, mem.engaged[q], Opt!Do(Opt!emplace(mem, o, q), o, holds[q])
      PROVE  Follows(mem', holds') /\ \A r \in Opt!Names \ here : ~mem'.engaged[r]
  <2>1. q \in Opt!Names /\ Opt!Read(mem, q) = mem.data[q]
    BY <1>1 DEF Opt!Read
  <2>2. Changed(Opt!emplace(mem, o, q), mem, o, mem.data[q])
    BY <1>1, <1>9, <2>1, EmplaceChanges
  <2> QED
    BY <1>1, <1>2, <1>9, <2>1, <2>2
<1>10. CASE Opt!Swap(o, p)
  <2>1. p \in here
    BY <1>10 DEF Opt!Swap
  <2>2. Exchanged(mem', mem, o, p)
    BY <1>1, <1>10, SwapExchanges DEF Opt!Swap
  <2>3. Follows(mem', holds')
    BY <1>1, <1>10, <2>2, ExchangedFollows DEF Opt!Swap
  <2> QED
    BY <1>1, <2>1, <2>2, <2>3 DEF Exchanged, Sound
<1>11. CASE Opt!Assign(o)
  BY <1>4, <1>5, <1>6, <1>7, <1>11 DEF Opt!Assign
<1>12. CASE Opt!Emplace(o)
  BY <1>8, <1>9, <1>12 DEF Opt!Emplace
<1> QED
  BY <1>10, <1>11, <1>12

LEMMA DestructKeeps ==
  ASSUME ValuesAreObjects, OptionalInv, ~mem.misused, NEW o \in Opt!Names, Opt!Destruct(o)
  PROVE  OptionalInv'
<1>1. Sound(mem) /\ Follows(mem, holds)
  BY DEF OptionalInv, Follows
<1>2. Changed(mem', mem, o, Opt!Raw)
  BY <1>1, ResetChanges DEF Opt!Destruct
<1>3. Shown(Opt!Raw) = Opt!None
  BY DEF Shown
<1>4. Follows(mem', holds')
  BY <1>1, <1>2, <1>3, ChangedFollows DEF Opt!Destruct
<1>5. \A q \in Opt!Names : mem'.engaged[q] => mem.engaged[q] /\ q # o
  BY <1>1, <1>2 DEF Changed, Sound
<1> QED
  BY <1>4, <1>5 DEF OptionalInv, Follows, Sound, Opt!Destruct

LEMMA EmplaceOwnKeeps ==
  ASSUME ValuesAreObjects, OptionalInv, ~mem.misused, NEW o \in Opt!Names, Opt!EmplaceOwn(o)
  PROVE  OptionalInv'
BY OwnIsMisuse DEF OptionalInv, Opt!EmplaceOwn

(* Every object an optional makes is constructed and destroyed once, and    *)
(* read only in between: through any calls of optional's functions on two   *)
(* optionals, m_engaged says where there is an object and each contains     *)
(* what was put there last, unless emplace() was given its own value.       *)
THEOREM LifetimesAreSound == Opt!Spec => []LifetimesMatch
<1> ValuesAreObjects
  BY KtlAssumption
<1>1. Opt!Init => OptionalInv
  BY DEF Opt!Init, OptionalInv, Sound, Memory, Shown
<1>2. OptionalInv /\ [Opt!Next]_Opt!vars => OptionalInv'
  <2> SUFFICES ASSUME OptionalInv, [Opt!Next]_Opt!vars
               PROVE  OptionalInv'
    OBVIOUS
  <2>1. CASE UNCHANGED Opt!vars
    BY <2>1 DEF OptionalInv, Opt!vars, Sound
  <2>2. CASE Opt!Stop
    BY <2>2 DEF OptionalInv, Opt!vars, Opt!Stop, Sound
  <2>3. CASE ~mem.misused /\ Opt!Call
    BY <2>3, ConstructKeeps, DestructKeeps, CallKeeps, EmplaceOwnKeeps DEF Opt!Call
  <2> QED
    BY <2>1, <2>2, <2>3 DEF Opt!Next
<1>3. OptionalInv => LifetimesMatch
  BY DEF OptionalInv, LifetimesMatch, Opt!LifetimesMatch, Sound, Shown
<1> QED
  BY <1>1, <1>2, <1>3, PTL DEF Opt!Spec

-----------------------------------------------------------------------------
(* v shows s: an empty view may point anywhere, any other into the array.   *)
Shows(v, s) ==
  /\ v.size = Len(s) /\ v.data \in Int /\ s \in Seq(Int) /\ Len(s) < Words
  /\ Len(s) > 0 => Address <= v.data /\ v.data + Len(s) <= Address + Len(Array)
  /\ \A i \in 1 .. Len(s) : s[i] = Array[v.data + i - Address]

ViewInv == Shows(view, part)

LEMMA Wrap ==
  ASSUME ArrayIsPlaced, NEW x \in Int
  PROVE  /\ x % Words \in View!Word
         /\ x \in 0 .. Words - 1 => x % Words = x
         /\ x \in -Words .. -1 => x % Words = x + Words
BY DEF ArrayIsPlaced, View!Word

LEMMA ShowsIntro ==
  ASSUME NEW d \in Int, NEW t \in Seq(Int), Len(t) < Words,
         Len(t) > 0 => Address <= d /\ d + Len(t) <= Address + Len(Array),
         \A i \in 1 .. Len(t) : t[i] = Array[d + i - Address]
  PROVE  Shows([data |-> d, size |-> Len(t)], t)
BY DEF Shows

(* t is k elements of s, from the one after the a-th.                       *)
Taken(t, s, a, k) ==
  /\ t \in Seq(Int) /\ Len(t) = k
  /\ k > 0 => a + k <= Len(s)
  /\ \A i \in 1 .. k : t[i] = s[a + i]

(* What a derivation must do. *)
LEMMA Derived ==
  ASSUME ArrayIsPlaced, NEW v, NEW s, Shows(v, s), NEW a \in Nat, NEW k \in Nat,
         NEW t, Taken(t, s, a, k)
  PROVE  Shows(View!View(v.data + a, k), t)
<1> /\ t \in Seq(Int) /\ Len(t) = k
    /\ k > 0 => a + k <= Len(s)
    /\ \A i \in 1 .. k : t[i] = s[a + i]
  BY DEF Taken
<1> /\ Words \in Nat /\ Address \in Nat /\ Address > 0
    /\ Len(s) \in Nat /\ Len(Array) \in Nat /\ v.data \in Int
  BY DEF Shows, ArrayIsPlaced
<1>1. PICK b \in Int : b = v.data
  OBVIOUS
<1>2. PICK n \in Nat : n = Len(s)
  OBVIOUS
<1>3. PICK e \in Int : e = Address + Len(Array)
  OBVIOUS
<1>0. /\ n < Words /\ e <= Words /\ (n > 0 => Address <= b /\ b + n <= e)
      /\ \A i \in 1 .. n : s[i] = Array[b + i - Address]
  BY <1>1, <1>2, <1>3 DEF Shows, ArrayIsPlaced
<1>4. k \in 0 .. Words - 1
  <2>1. n < Words
    BY <1>0
  <2>2. k > 0 => a + k <= n
    BY <1>2
  <2> QED
    BY <2>1, <2>2
<1>5. k % Words = k
  BY <1>4, Wrap
<1> DEFINE x == b + a
           d == x % Words
<1>6. x \in Int /\ v.data + a = x
  BY <1>1
<1> HIDE DEF x
<1>7. d \in View!Word /\ (x \in 0 .. Words - 1 => d = x)
  BY <1>6, Wrap
<1> HIDE DEF d
<1>8. d \in Int
  BY <1>7 DEF View!Word
<1>9. View!View(v.data + a, k) = [data |-> d, size |-> k]
  BY <1>5, <1>6 DEF View!View, d
<1>10. CASE k = 0
  <2>1. Len(t) = 0 /\ 0 < Words /\ ~(0 > 0)
    BY <1>4, <1>10
  <2>2. \A i \in 1 .. Len(t) : t[i] = Array[d + i - Address]
    BY <1>10
  <2> QED
    BY <1>8, <1>9, <1>10, <2>1, <2>2, ShowsIntro
<1>11. CASE k > 0
  <2>1. a + k <= n /\ Address <= b /\ b + n <= e /\ e <= Words
    BY <1>0, <1>2, <1>11
  <2>2. b + a \in 0 .. Words - 1
    BY <1>11, <2>1
  <2>3. d = b + a
    BY <1>7, <2>2 DEF x
  <2>4. \A i \in 1 .. k : t[i] = Array[d + i - Address]
    <3> SUFFICES ASSUME NEW i \in 1 .. k PROVE t[i] = Array[d + i - Address]
      OBVIOUS
    <3>1. a + i \in 1 .. n
      BY <2>1
    <3>2. s[a + i] = Array[b + (a + i) - Address]
      BY <1>0, <3>1
    <3>3. b + (a + i) - Address = d + i - Address
      BY <2>3
    <3> QED
      BY <3>2, <3>3
  <2>5. Address <= d /\ d + Len(t) <= Address + Len(Array) /\ Len(t) < Words
    BY <1>3, <1>4, <2>1, <2>3
  <2> QED
    BY <1>8, <1>9, <2>4, <2>5, ShowsIntro
<1> QED
  BY <1>10, <1>11

(* Elements m + 1 to n of a sequence.                                       *)
LEMMA Part ==
  ASSUME NEW s \in Seq(Int), NEW m \in Nat, NEW n \in Int, n <= Len(s)
  PROVE  LET t == SubSeq(s, m + 1, n)
             k == IF m <= n THEN n - m ELSE 0
         IN  t \in Seq(Int) /\ Len(t) = k /\ \A i \in 1 .. k : t[i] = s[m + i]
<1>1. CASE m < n
  <2>1. /\ SubSeq(s, m + 1, n) \in Seq(Int)
        /\ Len(SubSeq(s, m + 1, n)) = n - m
        /\ \A i \in 1 .. n - m : SubSeq(s, m + 1, n)[i] = s[m + i]
    <3>1. \A i \in m + 1 .. n : s[i] \in Int
      BY <1>1
    <3>2. /\ SubSeq(s, m + 1, n) \in Seq(Int)
          /\ Len(SubSeq(s, m + 1, n)) = IF m + 1 <= n THEN n - (m + 1) + 1 ELSE 0
          /\ \A i \in 1 .. n - (m + 1) + 1 : SubSeq(s, m + 1, n)[i] = s[m + 1 + i - 1]
      BY <3>1, SubSeqProperties
    <3>3. n - (m + 1) + 1 = n - m /\ \A i \in 1 .. n - m : m + 1 + i - 1 = m + i
      BY <1>1
    <3> QED
      BY <1>1, <3>2, <3>3
  <2> QED
    BY <1>1, <2>1
<1>2. CASE m >= n
  <2>1. SubSeq(s, m + 1, n) = <<>>
    BY <1>2, SubSeqEmpty
  <2> QED
    BY <1>2, <2>1
<1> QED
  BY <1>1, <1>2

LEMMA WithoutIs ==
  ASSUME NEW s \in Seq(Int), NEW n \in Nat
  PROVE  /\ View!Without(s, n) \in Seq(Int)
         /\ Len(View!Without(s, n)) = IF n <= Len(s) THEN Len(s) - n ELSE 0
         /\ \A i \in 1 .. Len(View!Without(s, n)) : View!Without(s, n)[i] = s[n + i]
<1>1. Len(s) \in Int /\ Len(s) <= Len(s)
  OBVIOUS
<1> QED
  BY <1>1, Part DEF View!Without

LEMMA PrefixIs ==
  ASSUME NEW s \in Seq(Int), NEW n \in Int, n <= Len(s)
  PROVE  /\ SubSeq(s, 1, n) \in Seq(Int)
         /\ Len(SubSeq(s, 1, n)) = IF 0 <= n THEN n ELSE 0
         /\ \A i \in 1 .. Len(SubSeq(s, 1, n)) : SubSeq(s, 1, n)[i] = s[i]
<1> DEFINE t == SubSeq(s, 0 + 1, n)
           k == IF 0 <= n THEN n - 0 ELSE 0
<1>1. t \in Seq(Int) /\ Len(t) = k /\ \A i \in 1 .. k : t[i] = s[0 + i]
  BY Part
<1>2. t = SubSeq(s, 1, n) /\ k = IF 0 <= n THEN n ELSE 0
  OBVIOUS
<1>3. k \in Nat /\ \A i \in 1 .. k : 0 + i = i
  OBVIOUS
<1> HIDE DEF t, k
<1>4. \A i \in 1 .. Len(t) : t[i] = s[i]
  BY <1>1, <1>3
<1> QED
  BY <1>1, <1>2, <1>4

LEMMA UptoIs ==
  ASSUME NEW s \in Seq(Int), NEW n \in Nat
  PROVE  /\ View!Upto(s, n) \in Seq(Int)
         /\ Len(View!Upto(s, n)) = View!Least(n, Len(s))
         /\ \A i \in 1 .. Len(View!Upto(s, n)) : View!Upto(s, n)[i] = s[i]
<1> DEFINE k == View!Least(n, Len(s))
<1>1. k \in Nat /\ k <= Len(s)
  BY DEF View!Least
<1> HIDE DEF k
<1>2. /\ SubSeq(s, 1, k) \in Seq(Int)
      /\ Len(SubSeq(s, 1, k)) = k
      /\ \A i \in 1 .. Len(SubSeq(s, 1, k)) : SubSeq(s, 1, k)[i] = s[i]
  BY <1>1, PrefixIs
<1> QED
  BY <1>2 DEF View!Upto, k

LEMMA UptoWithoutIs ==
  ASSUME NEW s \in Seq(Int), NEW n \in Nat, NEW c \in Nat
  PROVE  LET t == View!Upto(View!Without(s, n), c)
         IN  /\ t \in Seq(Int)
             /\ Len(t) = View!Least(c, IF n <= Len(s) THEN Len(s) - n ELSE 0)
             /\ \A i \in 1 .. Len(t) : t[i] = s[n + i]
<1>1. PICK u : u = View!Without(s, n)
  OBVIOUS
<1>2. /\ u \in Seq(Int) /\ Len(u) = IF n <= Len(s) THEN Len(s) - n ELSE 0
      /\ \A i \in 1 .. Len(u) : u[i] = s[n + i]
  BY <1>1, WithoutIs
<1>3. PICK t : t = View!Upto(u, c)
  OBVIOUS
<1>4. /\ t \in Seq(Int) /\ Len(t) = View!Least(c, Len(u))
      /\ \A i \in 1 .. Len(t) : t[i] = u[i]
  BY <1>2, <1>3, UptoIs
<1>5. \A i \in 1 .. Len(t) : i \in 1 .. Len(u)
  BY <1>2, <1>4 DEF View!Least
<1> QED
  BY <1>1, <1>2, <1>3, <1>4, <1>5

(* subslice() gives what is there of count elements after the first offset. *)
LEMMA SubsliceShows ==
  ASSUME ArrayIsPlaced, NEW v, NEW s, Shows(v, s), NEW offset \in Nat, NEW count \in View!Word,
         NEW t \in Seq(Int),
         Len(t) = View!Least(count, IF Len(s) > offset THEN Len(s) - offset ELSE 0),
         \A i \in 1 .. Len(t) : t[i] = s[offset + i]
  PROVE  Shows(View!subslice(v, offset, count), t)
<1> /\ v.size = Len(s) /\ Len(s) \in Nat /\ Len(s) < Words /\ Words \in Nat /\ Len(t) \in Nat
  BY DEF Shows, ArrayIsPlaced
<1>1. count \in Nat /\ count < Words
  BY DEF View!Word
<1> DEFINE avail == IF Len(s) > offset THEN Len(s) - offset ELSE 0
<1>2. Len(t) = IF count = View!dynamic_extent \/ count > avail THEN avail ELSE count
  BY <1>1 DEF View!dynamic_extent, View!Least
<1>3. View!subslice(v, offset, count) = View!View(v.data + offset, Len(t))
  BY <1>2 DEF View!subslice
<1>4. Len(t) > 0 => offset + Len(t) <= Len(s)
  BY <1>1 DEF View!Least
<1> HIDE DEF avail
<1>5. PICK k \in Nat : k = Len(t)
  OBVIOUS
<1>6. Shows(View!View(v.data + offset, k), t)
  <2>1. Taken(t, s, offset, k)
    BY <1>4, <1>5 DEF Taken
  <2> QED
    BY <2>1, Derived
<1> QED
  BY <1>3, <1>5, <1>6

LEMMA SliceStepKeeps ==
  ASSUME ArrayIsPlaced, ViewInv, NEW n \in View!Word, View!SliceStep(n)
  PROVE  ViewInv'
<1>0. Shows(view, part) /\ Words \in Nat
  BY DEF ViewInv, ArrayIsPlaced
<1>p. part \in Seq(Int) /\ view.data \in Int /\ view.size = Len(part) /\ Len(part) < Words
  BY <1>0 DEF Shows
<1>s. PICK size \in Nat : size = Len(part)
  BY <1>p
<1>1. /\ Shows(view, part) /\ part \in Seq(Int) /\ view.data \in Int /\ view.size = size
      /\ Len(part) = size /\ size < Words /\ Words \in Nat
  BY <1>0, <1>p, <1>s
<1>2. n \in Nat /\ n < Words
  BY <1>1 DEF View!Word
<1> SUFFICES Shows(view', part')
  BY DEF ViewInv
<1>3. ASSUME NEW c \in View!Word,
             View!Becomes(View!subslice(view, n, c), View!Upto(View!Without(part, n), c))
      PROVE  Shows(view', part')
  <2>1. PICK t : t = View!Upto(View!Without(part, n), c)
    OBVIOUS
  <2>2. c \in Nat
    BY DEF View!Word
  <2>3. /\ t \in Seq(Int)
        /\ Len(t) = View!Least(c, IF n <= Len(part) THEN Len(part) - n ELSE 0)
        /\ \A i \in 1 .. Len(t) : t[i] = part[n + i]
    BY <1>1, <1>2, <2>1, <2>2, UptoWithoutIs
  <2>4. Len(t) = View!Least(c, IF Len(part) > n THEN Len(part) - n ELSE 0)
    <3>1. (IF n <= Len(part) THEN Len(part) - n ELSE 0)
          = (IF Len(part) > n THEN Len(part) - n ELSE 0)
      BY <1>1, <1>2
    <3> QED
      BY <2>3, <3>1, Zenon
  <2> QED
    BY <1>1, <1>2, <1>3, <2>1, <2>3, <2>4, SubsliceShows, Zenon DEF View!Becomes
<1>4. CASE View!Becomes(View!first(view, n), View!Upto(part, n))
  <2>1. PICK t : t = View!Upto(part, n)
    OBVIOUS
  <2>2. /\ t \in Seq(Int) /\ Len(t) = View!Least(n, Len(part))
        /\ \A i \in 1 .. Len(t) : t[i] = part[i]
    BY <1>1, <1>2, <2>1, UptoIs
  <2>3. /\ Len(t) = View!Least(n, IF Len(part) > 0 THEN Len(part) - 0 ELSE 0)
        /\ \A i \in 1 .. Len(t) : t[i] = part[0 + i]
    BY <1>1, <2>2
  <2>4. Shows(View!subslice(view, 0, n), t)
    BY <1>1, <2>2, <2>3, SubsliceShows, Zenon
  <2> QED
    BY <1>4, <2>1, <2>4 DEF View!Becomes, View!first
<1>5. CASE View!Becomes(View!last(view, n),
                     IF n <= Len(part) THEN View!Without(part, Len(part) - n) ELSE <<>>)
  <2>0. size - n \in Int
    BY <1>1, <1>2
  <2>x. PICK x \in Int : x = size - n
    BY <2>0
  <2>1. PICK o : o = x % Words
    OBVIOUS
  <2>2. (x \in 0 .. Words - 1 => o = x) /\ (x \in -Words .. -1 => o = x + Words)
    BY <2>1, Wrap
  <2>3. CASE n <= size
    <3>1. o = size - n /\ o \in Nat
      BY <1>1, <1>2, <2>x, <2>2, <2>3
    <3>2. PICK t : t = View!Without(part, o)
      OBVIOUS
    <3>3. t \in Seq(Int) /\ Len(t) = n /\ \A i \in 1 .. Len(t) : t[i] = part[o + i]
      <4>1. /\ t \in Seq(Int) /\ Len(t) = IF o <= Len(part) THEN Len(part) - o ELSE 0
            /\ \A i \in 1 .. Len(t) : t[i] = part[o + i]
        BY <1>1, <3>1, <3>2, WithoutIs, Zenon
      <4>2. (IF o <= Len(part) THEN Len(part) - o ELSE 0) = n
        BY <1>1, <1>2, <2>x, <2>3, <3>1
      <4> QED
        BY <4>1, <4>2
    <3>4. Len(t) = View!Least(n, IF Len(part) > o THEN Len(part) - o ELSE 0)
      BY <1>1, <1>2, <2>3, <3>1, <3>3 DEF View!Least
    <3>5. Shows(View!subslice(view, o, n), t)
      BY <1>1, <3>1, <3>3, <3>4, SubsliceShows, Zenon
    <3> QED
      BY <1>1, <1>5, <2>x, <2>1, <2>3, <3>1, <3>2, <3>5 DEF View!Becomes, View!last
  <2>4. CASE n > size
    <3>1. o = size - n + Words /\ o \in Nat /\ ~(size > o)
      BY <1>1, <1>2, <2>x, <2>2, <2>4
    <3>2. PICK t \in Seq(Int) : t = <<>>
      <4>1. <<>> \in Seq(Int)
        OBVIOUS
      <4> QED
        BY <4>1, Zenon
    <3>3. t \in Seq(Int) /\ Len(t) = 0 /\ \A i \in 1 .. Len(t) : t[i] = part[o + i]
      BY <3>2
    <3>4. Len(t) = View!Least(n, IF Len(part) > o THEN Len(part) - o ELSE 0)
      BY <1>1, <1>2, <3>1, <3>3 DEF View!Least
    <3>5. Shows(View!subslice(view, o, n), t)
      <4>1. t \in Seq(Int) /\ o \in Nat /\ \A i \in 1 .. Len(t) : t[i] = part[o + i]
        BY <3>1, <3>3
      <4> QED
        BY <1>1, <3>4, <4>1, SubsliceShows, Zenon
    <3>6. ~(n <= Len(part))
      BY <1>1, <1>2, <2>4
    <3> QED
      BY <1>1, <1>5, <2>x, <2>1, <3>2, <3>5, <3>6 DEF View!Becomes, View!last
  <2> QED
    BY <1>1, <1>2, <2>3, <2>4
<1>6. CASE View!Becomes(View!remove_prefix(view, n), View!Without(part, n))
  <2>1. PICK t : t = View!Without(part, n)
    OBVIOUS
  <2>2. /\ t \in Seq(Int) /\ Len(t) = IF n <= Len(part) THEN Len(part) - n ELSE 0
        /\ \A i \in 1 .. Len(t) : t[i] = part[n + i]
    BY <1>1, <1>2, <2>1, WithoutIs
  <2>3. PICK a \in Nat : a = View!Least(n, size)
    BY <1>1, <1>2 DEF View!Least
  <2>4. PICK k \in Nat : k = size - a
    <3>1. size - a \in Nat
      BY <1>2, <2>3 DEF View!Least
    <3> QED
      BY <3>1, Zenon
  <2>5. (k > 0 => a + k <= Len(part)) /\ Len(t) = k /\ \A i \in 1 .. k : t[i] = part[a + i]
    BY <1>1, <1>2, <2>2, <2>3, <2>4 DEF View!Least
  <2>6. Shows(View!View(view.data + a, k), t)
    <3>1. Taken(t, part, a, k)
      BY <2>2, <2>5 DEF Taken
    <3> QED
      BY <1>1, <3>1, Derived
  <2> QED
    BY <1>1, <1>6, <2>1, <2>3, <2>4, <2>6 DEF View!Becomes, View!remove_prefix
<1>7. CASE View!Becomes(View!remove_suffix(view, n), SubSeq(part, 1, Len(part) - n))
  <2>1. PICK t : t = SubSeq(part, 1, Len(part) - n)
    OBVIOUS
  <2>2. Len(part) - n \in Int /\ Len(part) - n <= Len(part)
    BY <1>1, <1>2
  <2>3. /\ t \in Seq(Int) /\ Len(t) = (IF 0 <= Len(part) - n THEN Len(part) - n ELSE 0)
        /\ \A i \in 1 .. Len(t) : t[i] = part[i]
    BY <1>1, <2>1, <2>2, PrefixIs
  <2>4. PICK k \in Nat : k = size - View!Least(n, size)
    <3>1. size - View!Least(n, size) \in Nat
      BY <1>2 DEF View!Least
    <3> QED
      BY <3>1, Zenon
  <2>5. (k > 0 => 0 + k <= Len(part)) /\ Len(t) = k /\ \A i \in 1 .. k : t[i] = part[0 + i]
    BY <1>1, <1>2, <2>3, <2>4 DEF View!Least
  <2>6. Shows(View!View(view.data + 0, k), t)
    <3>1. Taken(t, part, 0, k)
      BY <2>3, <2>5 DEF Taken
    <3> QED
      BY <1>1, <3>1, Derived
  <2>7. view.data + 0 = view.data
    BY <1>1
  <2> QED
    BY <1>1, <1>7, <2>1, <2>4, <2>6, <2>7 DEF View!Becomes, View!remove_suffix
<1> QED
  BY <1>3, <1>4, <1>5, <1>6, <1>7 DEF View!SliceStep

LEMMA StringStepKeeps ==
  ASSUME ArrayIsPlaced, ViewInv, NEW n \in View!Word, View!StringStep(n)
  PROVE  ViewInv'
<1>0. Shows(view, part) /\ Words \in Nat
  BY DEF ViewInv, ArrayIsPlaced
<1>p. part \in Seq(Int) /\ view.data \in Int /\ view.size = Len(part) /\ Len(part) < Words
  BY <1>0 DEF Shows
<1>s. PICK size \in Nat : size = Len(part)
  BY <1>p
<1>1. /\ Shows(view, part) /\ part \in Seq(Int) /\ view.data \in Int /\ view.size = size
      /\ Len(part) = size /\ size < Words /\ Words \in Nat
  BY <1>0, <1>p, <1>s
<1>2. n \in Nat /\ n < Words
  BY <1>1 DEF View!Word
<1> SUFFICES Shows(view', part')
  BY DEF ViewInv
<1>3. ASSUME NEW c \in View!Word,
             View!Becomes(View!substr(view, n, c), View!Upto(View!Without(part, n), c))
      PROVE  Shows(view', part')
  <2>1. PICK t : t = View!Upto(View!Without(part, n), c)
    OBVIOUS
  <2>2. c \in Nat
    BY DEF View!Word
  <2>3. /\ t \in Seq(Int)
        /\ Len(t) = View!Least(c, IF n <= Len(part) THEN Len(part) - n ELSE 0)
        /\ \A i \in 1 .. Len(t) : t[i] = part[n + i]
    BY <1>1, <1>2, <2>1, <2>2, UptoWithoutIs
  <2>4. PICK a \in Nat : a = View!Least(n, size)
    BY <1>1, <1>2 DEF View!Least
  <2>5. PICK k \in Nat : k = View!Least(c, size - a)
    <3>1. View!Least(c, size - a) \in Nat
      BY <1>2, <2>2, <2>4 DEF View!Least
    <3> QED
      BY <3>1, Zenon
  <2>6. Len(t) = k /\ (k > 0 => n = a) /\ (k > 0 => a + k <= Len(part))
    BY <1>1, <1>2, <2>2, <2>3, <2>4, <2>5 DEF View!Least
  <2>7. \A i \in 1 .. k : t[i] = part[a + i]
    BY <2>3, <2>6
  <2>8. Shows(View!View(view.data + a, k), t)
    <3>1. Taken(t, part, a, k)
      BY <2>3, <2>6, <2>7 DEF Taken
    <3> QED
      BY <1>1, <3>1, Derived
  <2> QED
    BY <1>1, <1>3, <2>1, <2>4, <2>5, <2>8 DEF View!Becomes, View!substr
<1>4. CASE n <= view.size /\ View!Becomes(View!sv_remove_prefix(view, n), View!Without(part, n))
  <2>1. PICK t : t = View!Without(part, n)
    OBVIOUS
  <2>2. /\ t \in Seq(Int) /\ Len(t) = IF n <= Len(part) THEN Len(part) - n ELSE 0
        /\ \A i \in 1 .. Len(t) : t[i] = part[n + i]
    BY <1>1, <1>2, <2>1, WithoutIs
  <2>3. PICK k \in Nat : k = size - n
    BY <1>1, <1>2, <1>4
  <2>4. (k > 0 => n + k <= Len(part)) /\ Len(t) = k /\ \A i \in 1 .. k : t[i] = part[n + i]
    BY <1>1, <1>2, <1>4, <2>2, <2>3
  <2>5. Shows(View!View(view.data + n, k), t)
    <3>1. Taken(t, part, n, k)
      BY <2>2, <2>4 DEF Taken
    <3> QED
      BY <1>1, <1>2, <3>1, Derived
  <2> QED
    BY <1>1, <1>4, <2>1, <2>3, <2>5 DEF View!Becomes, View!sv_remove_prefix
<1>5. CASE n <= view.size /\ View!Becomes(View!sv_remove_suffix(view, n), SubSeq(part, 1, Len(part) - n))
  <2>1. PICK t : t = SubSeq(part, 1, Len(part) - n)
    OBVIOUS
  <2>2. Len(part) - n \in Int /\ Len(part) - n <= Len(part)
    BY <1>1, <1>2
  <2>3. /\ t \in Seq(Int) /\ Len(t) = (IF 0 <= Len(part) - n THEN Len(part) - n ELSE 0)
        /\ \A i \in 1 .. Len(t) : t[i] = part[i]
    BY <1>1, <2>1, <2>2, PrefixIs
  <2>4. PICK k \in Nat : k = size - n
    BY <1>1, <1>2, <1>5
  <2>5. (k > 0 => 0 + k <= Len(part)) /\ Len(t) = k /\ \A i \in 1 .. k : t[i] = part[0 + i]
    BY <1>1, <1>2, <1>5, <2>3, <2>4
  <2>6. Shows(View!View(view.data + 0, k), t)
    <3>1. Taken(t, part, 0, k)
      BY <2>3, <2>5 DEF Taken
    <3> QED
      BY <1>1, <3>1, Derived
  <2>7. view.data + 0 = view.data
    BY <1>1
  <2> QED
    BY <1>1, <1>5, <2>1, <2>4, <2>6, <2>7 DEF View!Becomes, View!sv_remove_suffix
<1> QED
  BY <1>3, <1>4, <1>5 DEF View!StringStep

-----------------------------------------------------------------------------
(* A set of numbers that is not empty has a least one. *)
LEMMA LeastOf ==
  ASSUME NEW T \in SUBSET Nat, T # {}
  PROVE  \E m \in T : \A k \in T : m <= k
<1>1. PICK m \in T : \A k \in T : ~(<<k, m>> \in OpToRel(<, Nat))
  BY NatLessThanWellFounded, WFMin
<1>2. ASSUME NEW k \in T PROVE m <= k
  <2>1. ~(<<k, m>> \in {ss \in Nat \X Nat : ss[1] < ss[2]})
    BY <1>1 DEF OpToRel
  <2>2. ~(k < m)
    BY <2>1
  <2> QED
    BY <2>2
<1> QED
  BY <1>2

-----------------------------------------------------------------------------
(* compare() *)

LEMMA ElementIs ==
  ASSUME ArrayIsPlaced, NEW v, NEW s, Shows(v, s), NEW i \in 0 .. Len(s) - 1
  PROVE  /\ (v.data + i) % Words \in Address .. Address + Len(Array) - 1
         /\ View!Element(v, i) = s[i + 1]
<1>1. /\ v.data \in Int /\ s \in Seq(Int) /\ Words \in Nat /\ Address \in Nat
      /\ Len(Array) \in Nat /\ Address + Len(Array) <= Words
  BY DEF Shows, ArrayIsPlaced
<1>2. PICK n \in Nat : n = Len(s)
  BY <1>1
<1>3. i \in Nat /\ i < n
  BY <1>2
<1>4. Address <= v.data /\ v.data + n <= Address + Len(Array)
  BY <1>2, <1>3 DEF Shows
<1>5. s[i + 1] = Array[v.data + (i + 1) - Address]
  BY <1>2, <1>3 DEF Shows
<1>b. PICK b \in Int : b = v.data
  BY <1>1
<1>e. PICK e \in Int : e = Address + Len(Array)
  BY <1>1
<1>6. PICK x \in Int : x = b + i
  BY <1>3
<1>7. x \in 0 .. Words - 1 /\ x \in Address .. e - 1
  <2>1. Address <= b /\ b + n <= e /\ e <= Words /\ Address \in Nat /\ Words \in Nat
    BY <1>1, <1>4, <1>b, <1>e
  <2> QED
    BY <1>3, <1>6, <2>1
<1>8. x % Words = x
  BY <1>7, Wrap
<1>9. b + (i + 1) - Address = x - Address + 1
  BY <1>1, <1>3, <1>6
<1>10. (v.data + i) % Words = x
  BY <1>b, <1>6, <1>8
<1>11. s[i + 1] = Array[x - Address + 1]
  BY <1>5, <1>9, <1>b
<1>12. View!Element(v, i) = Array[x - Address + 1]
  BY <1>10 DEF View!Element
<1>13. x \in Address .. Address + Len(Array) - 1
  BY <1>1, <1>7, <1>e
<1> QED
  BY <1>10, <1>11, <1>12, <1>13, Zenon

(* Where s and t differ and did not before. *)
Differs(s, t, i) == s[i + 1] # t[i + 1] /\ \A j \in 0 .. i - 1 : s[j + 1] = t[j + 1]

(* The order of two sequences is that of the first elements that differ.   *)
LEMMA BeforeByElement ==
  ASSUME NEW s \in Seq(Int), NEW t \in Seq(Int), NEW i \in Nat, i < Len(s), i < Len(t),
         Differs(s, t, i)
  PROVE  View!Before(s, t) <=> s[i + 1] < t[i + 1]
<1>0. i + 1 \in 1 .. Len(s) /\ i + 1 \in 1 .. Len(t) /\ s[i + 1] \in Int /\ t[i + 1] \in Int
  OBVIOUS
<1>1. \A j \in 1 .. (i + 1) - 1 : s[j] = t[j]
  <2> SUFFICES ASSUME NEW j \in 1 .. (i + 1) - 1 PROVE s[j] = t[j]
    OBVIOUS
  <2>1. j - 1 \in 0 .. i - 1 /\ (j - 1) + 1 = j
    OBVIOUS
  <2> QED
    BY <2>1 DEF Differs
<1>2. ASSUME s[i + 1] < t[i + 1] PROVE View!Before(s, t)
  <2>1. PICK k \in 1 .. Len(t) : k = i + 1
    BY <1>0
  <2>2. s[k] < t[k] /\ k <= Len(s) + 1 /\ \A j \in 1 .. k - 1 : s[j] = t[j]
    BY <1>1, <1>2, <2>1
  <2> QED
    BY <2>2 DEF View!Before
<1>3. ASSUME View!Before(s, t) PROVE s[i + 1] < t[i + 1]
  <2>1. PICK k \in 1 .. Len(t) :
          /\ k <= Len(s) => s[k] < t[k]
          /\ k <= Len(s) + 1
          /\ \A j \in 1 .. k - 1 : s[j] = t[j]
    BY <1>3 DEF View!Before
  <2>2. CASE k = i + 1
    BY <1>0, <2>1, <2>2
  <2>3. CASE k < i + 1
    <3>1. k \in 1 .. (i + 1) - 1 /\ k <= Len(s)
      BY <2>3
    <3>2. s[k] = t[k] /\ s[k] \in Int /\ s[k] < t[k]
      BY <1>1, <2>1, <3>1
    <3> QED
      BY <3>2
  <2>4. CASE k > i + 1
    <3>1. i + 1 \in 1 .. k - 1
      BY <2>4
    <3> QED
      BY <2>1, <3>1 DEF Differs
  <2> QED
    BY <2>2, <2>3, <2>4
<1> QED
  BY <1>2, <1>3

(* If there are none, the shorter one comes first.                         *)
LEMMA BeforeByLength ==
  ASSUME NEW s \in Seq(Int), NEW t \in Seq(Int),
         \A i \in Nat : i < Len(s) /\ i < Len(t) => s[i + 1] = t[i + 1]
  PROVE  View!Before(s, t) <=> Len(s) < Len(t)
<1>0. \A j \in 1 .. Len(s) : j <= Len(t) => s[j] = t[j]
  <2> SUFFICES ASSUME NEW j \in 1 .. Len(s), j <= Len(t) PROVE s[j] = t[j]
    OBVIOUS
  <2>1. j - 1 \in Nat /\ (j - 1) + 1 = j /\ j - 1 < Len(s) /\ j - 1 < Len(t)
    OBVIOUS
  <2> QED
    BY <2>1
<1>1. ASSUME Len(s) < Len(t) PROVE View!Before(s, t)
  <2>1. PICK k \in 1 .. Len(t) : k = Len(s) + 1
    BY <1>1
  <2>2. k - 1 = Len(s) /\ ~(k <= Len(s)) /\ k <= Len(s) + 1
    BY <2>1
  <2>3. \A j \in 1 .. k - 1 : s[j] = t[j]
    <3> SUFFICES ASSUME NEW j \in 1 .. k - 1 PROVE s[j] = t[j]
      OBVIOUS
    <3>1. j \in 1 .. Len(s) /\ j <= Len(t)
      BY <1>1, <2>2
    <3> QED
      BY <1>0, <3>1
  <2> QED
    BY <2>1, <2>2, <2>3 DEF View!Before
<1>2. ASSUME View!Before(s, t) PROVE Len(s) < Len(t)
  <2>1. PICK k \in 1 .. Len(t) : (k <= Len(s) => s[k] < t[k]) /\ k <= Len(s) + 1
    BY <1>2 DEF View!Before
  <2>2. ~(k <= Len(s))
    <3> SUFFICES ASSUME k <= Len(s) PROVE FALSE
      OBVIOUS
    <3>1. s[k] = t[k] /\ s[k] \in Int /\ s[k] < t[k]
      BY <1>0, <2>1
    <3> QED
      BY <3>1
  <2> QED
    BY <2>1, <2>2
<1> QED
  BY <1>1, <1>2

(* If two sequences differ, they do at a first place.                      *)
LEMMA FirstDifference ==
  ASSUME NEW s, NEW t, NEW n \in Nat
  PROVE  \/ \A i \in 0 .. n - 1 : s[i + 1] = t[i + 1]
         \/ \E i \in 0 .. n - 1 : Differs(s, t, i)
<1> SUFFICES ASSUME NEW k \in 0 .. n - 1, s[k + 1] # t[k + 1]
             PROVE  \E i \in 0 .. n - 1 : Differs(s, t, i)
  OBVIOUS
<1> DEFINE T == {i \in 0 .. n - 1 : s[i + 1] # t[i + 1]}
<1>1. T \in SUBSET Nat /\ k \in T
  OBVIOUS
<1> HIDE DEF T
<1>2. PICK m \in T : \A i \in T : m <= i
  BY <1>1, LeastOf
<1>3. m \in 0 .. n - 1 /\ s[m + 1] # t[m + 1]
  BY DEF T
<1>4. ASSUME NEW j \in 0 .. m - 1 PROVE s[j + 1] = t[j + 1]
  <2>1. j \in 0 .. n - 1 /\ ~(m <= j)
    BY <1>3
  <2> QED
    BY <1>2, <2>1 DEF T
<1> QED
  BY <1>3, <1>4 DEF Differs

LEMMA CompareIsRight ==
  ASSUME ArrayIsPlaced, NEW v, NEW s, Shows(v, s), NEW w, NEW t, Shows(w, t)
  PROVE  View!compare(v, w) = IF View!Before(s, t) THEN -1 ELSE IF View!Before(t, s) THEN 1 ELSE 0
<1>1. /\ s \in Seq(Int) /\ t \in Seq(Int) /\ v.size = Len(s) /\ w.size = Len(t)
  BY DEF Shows
<1>2. PICK n \in Nat : n = View!Least(v.size, w.size)
  <2>1. View!Least(Len(s), Len(t)) \in Nat
    BY <1>1 DEF View!Least
  <2> QED
    BY <1>1, <2>1, Zenon
<1>3. \A i \in 0 .. n - 1 : i \in Nat /\ i < Len(s) /\ i < Len(t)
  BY <1>1, <1>2 DEF View!Least
<1>4. \A i \in 0 .. n - 1 : View!Element(v, i) = s[i + 1] /\ View!Element(w, i) = t[i + 1]
  <2> SUFFICES ASSUME NEW i \in 0 .. n - 1
               PROVE  View!Element(v, i) = s[i + 1] /\ View!Element(w, i) = t[i + 1]
    OBVIOUS
  <2>1. i \in 0 .. Len(s) - 1 /\ i \in 0 .. Len(t) - 1
    BY <1>1, <1>3
  <2> QED
    BY <2>1, ElementIs
<1> DEFINE D == {i \in 0 .. n - 1 : View!Element(v, i) # View!Element(w, i) /\
                                   \A j \in 0 .. i - 1 : View!Element(v, j) = View!Element(w, j)}
           Sign(d) == IF d < 0 THEN -1 ELSE IF d > 0 THEN 1 ELSE 0
<1>5. View!compare(v, w) =
        IF D = {} THEN Sign(Len(s) - Len(t))
        ELSE LET i == CHOOSE i \in D : TRUE IN Sign(View!Element(v, i) - View!Element(w, i))
  BY <1>1, <1>2 DEF View!compare
<1>6. \A i \in 0 .. n - 1 : i \in D <=> Differs(s, t, i)
  <2> SUFFICES ASSUME NEW i \in 0 .. n - 1 PROVE i \in D <=> Differs(s, t, i)
    OBVIOUS
  <2>1. \A j \in 0 .. i - 1 : j \in 0 .. n - 1
    OBVIOUS
  <2> QED
    BY <1>4, <2>1 DEF Differs
<1>7. D \subseteq 0 .. n - 1
  OBVIOUS
<1> HIDE DEF D
<1>8. CASE D = {}
  <2>1. \A i \in 0 .. n - 1 : s[i + 1] = t[i + 1]
    BY <1>6, <1>8, FirstDifference
  <2>2. \A i \in Nat : i < Len(s) /\ i < Len(t) => i \in 0 .. n - 1
    BY <1>1, <1>2 DEF View!Least
  <2>3. (View!Before(s, t) <=> Len(s) < Len(t)) /\ (View!Before(t, s) <=> Len(t) < Len(s))
    BY <1>1, <2>1, <2>2, BeforeByLength
  <2> QED
    BY <1>1, <1>5, <1>8, <2>3
<1>9. CASE D # {}
  <2>1. PICK i : i = CHOOSE k \in D : TRUE
    OBVIOUS
  <2>2. i \in D /\ i \in 0 .. n - 1 /\ Differs(s, t, i)
    BY <1>6, <1>7, <1>9, <2>1
  <2>3. i \in Nat /\ i < Len(s) /\ i < Len(t) /\ Differs(t, s, i)
    BY <1>3, <2>2 DEF Differs
  <2>4. /\ View!Before(s, t) <=> s[i + 1] < t[i + 1]
        /\ View!Before(t, s) <=> t[i + 1] < s[i + 1]
    BY <1>1, <2>2, <2>3, BeforeByElement
  <2>5. s[i + 1] \in Int /\ t[i + 1] \in Int
    BY <1>1, <2>3
  <2>6. View!compare(v, w) = Sign(s[i + 1] - t[i + 1])
    BY <1>4, <1>5, <1>9, <2>1, <2>2
  <2> QED
    BY <2>4, <2>5, <2>6
<1> QED
  BY <1>8, <1>9

(* What a chain of slices and string_views comes to shows the elements that *)
(* were asked for, all of them in the array, and compare() orders it as     *)
(* sequences are ordered: for every array, every word size and every number *)
(* a caller gives.                                                         *)
THEOREM ViewsShowParts == View!Spec => []ViewsArePart
<1> ArrayIsPlaced
  BY KtlAssumption
<1>1. Shows(View!Whole, Array)
  <2>1. Array \in Seq(Int) /\ Len(Array) \in Nat /\ Address \in Int
        /\ Address \in 0 .. Words - 1 /\ Len(Array) \in 0 .. Words - 1 /\ Len(Array) < Words
    BY DEF ArrayIsPlaced
  <2>2. Address % Words = Address /\ Len(Array) % Words = Len(Array)
    BY <2>1, Wrap
  <2>3. View!Whole = [data |-> Address, size |-> Len(Array)]
    BY <2>2 DEF View!Whole, View!View
  <2>4. \A i \in 1 .. Len(Array) : Address + i - Address = i
    BY <2>1
  <2>5. \A i \in 1 .. Len(Array) : Array[i] = Array[Address + i - Address]
    BY <2>4
  <2> QED
    BY <2>1, <2>3, <2>5, ShowsIntro
<1>2. View!Init => ViewInv
  BY <1>1 DEF View!Init, ViewInv
<1>3. ViewInv /\ [View!Next]_View!vars => ViewInv'
  <2>1. ASSUME ViewInv, UNCHANGED <<view, part>> PROVE ViewInv'
    BY <2>1 DEF ViewInv
  <2> QED
    BY <2>1, SliceStepKeeps, StringStepKeeps DEF View!Next, View!Convert, View!vars
<1>4. ViewInv => ViewsArePart
  <2> SUFFICES ASSUME ViewInv PROVE ViewsArePart
    OBVIOUS
  <2>1. Shows(view, part) /\ view.size = Len(part)
    BY DEF ViewInv, Shows
  <2>2. \A i \in 0 .. view.size - 1 :
          /\ (view.data + i) % Words \in Address .. Address + Len(Array) - 1
          /\ View!Element(view, i) = part[i + 1]
    BY <2>1, ElementIs
  <2>3. View!compare(view, View!Whole) =
          IF View!Before(part, Array) THEN -1 ELSE IF View!Before(Array, part) THEN 1 ELSE 0
    BY <1>1, <2>1, CompareIsRight
  <2> QED
    BY <2>1, <2>2, <2>3 DEF ViewsArePart, View!ViewsArePart
<1> QED
  BY <1>2, <1>3, <1>4, PTL DEF View!Spec
=============================================================================
