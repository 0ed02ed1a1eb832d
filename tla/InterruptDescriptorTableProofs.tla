-------------------- MODULE InterruptDescriptorTableProofs --------------------
(***************************************************************************)
(* Proofs about the interrupt descriptor table, for any number of vectors, *)
(* of registrations and of nested interrupts, and any build configuration. *)
(***************************************************************************)
EXTENDS InterruptDescriptorTable, SequenceTheorems, TLAPS

-----------------------------------------------------------------------------
(* The inductive invariant. *)

IsDevice(a) == a.vector # NoVector /\ ~IsException(a.vector)

(* The table is filled as the gates are, and lidt comes after that.         *)
TableFilled ==
  /\ \A v \in Vectors : gate[v] = "absent" <=> table[v] = Null
  /\ \A v \in Vectors : ~IsException(v) => gate[v] # "trap"
  /\ loaded => \A v \in Vectors : gate[v] # "absent"

(* Only the boot code runs before that.                                     *)
BootFirst ==
  /\ active[1].vector = NoVector
  /\ Len(active) > 1 => loaded
  /\ \A i \in 1 .. Len(active) : active[i].pc = "dispatch" => loaded
  /\ \A i \in 1 .. Len(active) : active[i].pc \in {"boot", "init"} => ~loaded

(* With a device interrupt being handled, interrupts are disabled, in every *)
(* activation above it and in what each of those will return to.            *)
Masked ==
  /\ rflagsIF => \A i \in 1 .. Len(active) : ~IsDevice(active[i])
  /\ \A i, j \in 1 .. Len(active) :
       i < j /\ IsDevice(active[i]) => ~active[j].savedIF /\ ~IsDevice(active[j])

(* A registration past its test finds a built-in handler in the table, or   *)
(* else was interrupted by another one for its vector.                      *)
Setting(a, v) == a.pc = "set" /\ a.arg = v
RegistrationsKnown ==
  /\ \A i \in 1 .. Len(active) : active[i].pc \in {"check", "set"} =>
       active[i].arg \in Vectors /\ active[i].h \in Custom
  /\ \A i \in 1 .. Len(active), v \in Vectors : Setting(active[i], v) =>
       /\ table[v] # Null
       /\ table[v] \in Custom => v \in contested
       /\ \A j \in 1 .. Len(active) : i < j /\ Setting(active[j], v) => v \in contested

IInv == TypeOK /\ TableFilled /\ BootFirst /\ Masked /\ RegistrationsKnown

-----------------------------------------------------------------------------
(* How a step changes the stack of activations. *)

(* An activation is the top one or is below it. *)
LEMMA BelowTop ==
  ASSUME NEW n \in Nat, NEW i \in 1 .. n, i # n
  PROVE  i \in 1 .. n - 1 /\ n > 1
OBVIOUS

(* The top activation is one of them. *)
LEMMA TopIsActive ==
  ASSUME TypeOK
  PROVE  /\ Len(active) \in Nat /\ Len(active) >= 1
         /\ Len(active) \in 1 .. Len(active)
         /\ Top \in Activations
         /\ \A i \in 1 .. Len(active) : active[i] \in Activations
BY DEF TypeOK, Top

(* The top activation is replaced by another one. *)
LEMMA ReplaceTop ==
  ASSUME TypeOK, NEW a \in Activations,
         active' = [active EXCEPT ![Len(active)] = a]
  PROVE  /\ active' \in Seq(Activations) /\ active' # <<>>
         /\ Len(active') = Len(active)
         /\ active'[Len(active)] = a
         /\ \A i \in 1 .. Len(active) - 1 : active'[i] = active[i]
<1>1. Len(active) \in 1 .. Len(active)
  BY TopIsActive
<1>2. active' \in Seq(Activations) /\ Len(active') = Len(active)
  BY <1>1, ExceptSeq DEF TypeOK
<1>3. active' # <<>>
  BY <1>1, <1>2
<1>4. active \in [1 .. Len(active) -> Activations]
  BY DEF TypeOK
<1>5. active'[Len(active)] = a
  BY <1>1, <1>4
<1>6. \A i \in 1 .. Len(active) - 1 : active'[i] = active[i]
  <2> SUFFICES ASSUME NEW i \in 1 .. Len(active) - 1 PROVE active'[i] = active[i]
    OBVIOUS
  <2>1. i \in 1 .. Len(active) /\ i # Len(active)
    BY <1>1
  <2> QED
    BY <1>4, <2>1
<1> QED
  BY <1>2, <1>3, <1>5, <1>6

(* An activation comes on top of the others. *)
LEMMA PushTop ==
  ASSUME TypeOK, NEW a \in Activations, active' = Append(active, a)
  PROVE  /\ active' \in Seq(Activations) /\ active' # <<>>
         /\ Len(active') = Len(active) + 1
         /\ active'[Len(active) + 1] = a
         /\ \A i \in 1 .. Len(active) : active'[i] = active[i]
BY AppendProperties DEF TypeOK

(* The top activation ends, and it was not the only one. *)
LEMMA PopTop ==
  ASSUME TypeOK, Len(active) > 1, active' = Below
  PROVE  /\ active' \in Seq(Activations) /\ active' # <<>>
         /\ Len(active') = Len(active) - 1
         /\ \A i \in 1 .. Len(active) - 1 : active'[i] = active[i]
<1>1. /\ Below \in Seq(Activations) /\ Len(Below) = Len(active) - 1
      /\ \A i \in 1 .. Len(active) - 1 : Below[i] = active[i]
  BY SubSeqProperties DEF TypeOK, Below
<1>2. Below # <<>>
  BY <1>1, TopIsActive
<1> QED
  BY <1>1, <1>2

(* Goto() and ReturnToBody() replace the top activation. *)
LEMMA GotoTop ==
  ASSUME TypeOK, NEW p \in {"run", "boot", "init", "set", "announce", "panic", "log", "halt"},
         Goto(p)
  PROVE  /\ [Top EXCEPT !.pc = p] \in Activations
         /\ active' = [active EXCEPT ![Len(active)] = [Top EXCEPT !.pc = p]]
BY TopIsActive DEF Goto, Top, Activations

LEMMA BodyTop ==
  ASSUME TypeOK, ReturnToBody
  PROVE  LET a == [Top EXCEPT !.pc = Body, !.arg = NoVector, !.h = Null]
         IN  /\ a \in Activations
             /\ active' = [active EXCEPT ![Len(active)] = a]
BY TopIsActive DEF ReturnToBody, Body, Top, Activations

-----------------------------------------------------------------------------
(* Each conjunct of the invariant, when the top activation moves on. *)

(* Interrupts stay masked when an activation moves and no flag is set.      *)
LEMMA MaskedKept ==
  ASSUME IInv, NEW a \in Activations,
         active' = [active EXCEPT ![Len(active)] = a],
         a.vector = Top.vector, a.savedIF = Top.savedIF,
         rflagsIF' => rflagsIF
  PROVE  Masked'
<1>0. TypeOK
  BY DEF IInv
<1>1. Len(active') = Len(active)
  BY <1>0, ReplaceTop
<1>2. \A i \in 1 .. Len(active) :
        active'[i].vector = active[i].vector /\ active'[i].savedIF = active[i].savedIF
  <2> SUFFICES ASSUME NEW i \in 1 .. Len(active)
               PROVE  /\ active'[i].vector = active[i].vector
                      /\ active'[i].savedIF = active[i].savedIF
    OBVIOUS
  <2>1. CASE i = Len(active)
    BY <1>0, <2>1, ReplaceTop DEF Top
  <2>2. CASE i # Len(active)
    <3>1. i \in 1 .. Len(active) - 1
      BY <1>0, <2>2, TopIsActive
    <3> QED
      BY <1>0, <3>1, ReplaceTop
  <2> QED
    BY <2>1, <2>2
<1>3. \A i \in 1 .. Len(active) : IsDevice(active'[i]) <=> IsDevice(active[i])
  BY <1>2 DEF IsDevice
<1> QED
  BY <1>1, <1>2, <1>3 DEF IInv, Masked, IsDevice, IsException

(* Registrations stay as they are when an activation moves to a place       *)
(* outside of them and no handler but a contested one is replaced.          *)
LEMMA RegistrationsKept ==
  ASSUME IInv, NEW a \in Activations,
         active' = [active EXCEPT ![Len(active)] = a],
         a.pc \notin {"check", "set"},
         contested \subseteq contested',
         \A v \in Vectors : table[v] # Null => table'[v] # Null,
         \A v \in Vectors, i \in 1 .. Len(active) - 1 :
           Setting(active[i], v) /\ table'[v] \in Custom => v \in contested'
  PROVE  RegistrationsKnown'
<1>0. TypeOK
  BY DEF IInv
<1>1. Len(active') = Len(active) /\ active'[Len(active)] = a /\ Len(active) \in Nat
  BY <1>0, ReplaceTop, TopIsActive
<1>2. \A i \in 1 .. Len(active) - 1 : active'[i] = active[i]
  BY <1>0, ReplaceTop
<1>3. \A i \in 1 .. Len(active) : active'[i].pc \in {"check", "set"} =>
        i \in 1 .. Len(active) - 1 /\ active'[i] = active[i]
  <2> SUFFICES ASSUME NEW i \in 1 .. Len(active), active'[i].pc \in {"check", "set"}
               PROVE  i \in 1 .. Len(active) - 1
    BY <1>2
  <2>1. i # Len(active)
    BY <1>1
  <2> QED
    BY <1>1, <2>1, BelowTop
<1>4. \A i \in 1 .. Len(active), v \in Vectors : Setting(active'[i], v) =>
        i \in 1 .. Len(active) - 1 /\ Setting(active[i], v)
  BY <1>3 DEF Setting
<1>5. \A i \in 1 .. Len(active) : active'[i].pc \in {"check", "set"} =>
        active'[i].arg \in Vectors /\ active'[i].h \in Custom
  BY <1>1, <1>3 DEF IInv, RegistrationsKnown
<1>6. \A i \in 1 .. Len(active), v \in Vectors : Setting(active'[i], v) =>
        /\ table'[v] # Null
        /\ table'[v] \in Custom => v \in contested'
        /\ \A j \in 1 .. Len(active) : i < j /\ Setting(active'[j], v) => v \in contested'
  <2> SUFFICES ASSUME NEW i \in 1 .. Len(active), NEW v \in Vectors,
                      Setting(active'[i], v)
               PROVE  /\ table'[v] # Null
                      /\ table'[v] \in Custom => v \in contested'
                      /\ \A j \in 1 .. Len(active) :
                           i < j /\ Setting(active'[j], v) => v \in contested'
    OBVIOUS
  <2>1. i \in 1 .. Len(active) - 1 /\ Setting(active[i], v)
    BY <1>4
  <2>2. table[v] # Null /\ \A j \in 1 .. Len(active) :
          i < j /\ Setting(active[j], v) => v \in contested
    BY <2>1 DEF IInv, RegistrationsKnown
  <2> QED
    BY <1>1, <1>4, <2>1, <2>2
<1> QED
  BY <1>1, <1>5, <1>6 DEF RegistrationsKnown, Setting

(* The same for the type of the stack and for who runs before lidt. *)
LEMMA BootKept ==
  ASSUME IInv, NEW a \in Activations,
         active' = [active EXCEPT ![Len(active)] = a],
         a.vector = Top.vector, a.pc # "dispatch",
         a.pc \in {"boot", "init"} => ~loaded',
         loaded => loaded',
         loaded' => loaded \/ Len(active) = 1
  PROVE  BootFirst'
<1>0. TypeOK
  BY DEF IInv
<1>1. Len(active') = Len(active) /\ active'[Len(active)] = a /\ Len(active) \in Nat
  BY <1>0, ReplaceTop, TopIsActive
<1>2. \A i \in 1 .. Len(active) - 1 : active'[i] = active[i]
  BY <1>0, ReplaceTop
<1>3. active'[1].vector = NoVector
  <2>1. CASE Len(active) = 1
    BY <1>1, <2>1 DEF IInv, BootFirst, Top
  <2>2. CASE Len(active) # 1
    <3>1. 1 \in 1 .. Len(active) - 1
      <4>1. 1 \in 1 .. Len(active)
        BY <1>0, TopIsActive
      <4> QED
        BY <1>1, <2>2, <4>1, BelowTop
    <3> QED
      BY <1>2, <3>1 DEF IInv, BootFirst
  <2> QED
    BY <2>1, <2>2
<1>4. \A i \in 1 .. Len(active) : active'[i].pc = "dispatch" => loaded'
  <2> SUFFICES ASSUME NEW i \in 1 .. Len(active), active'[i].pc = "dispatch"
               PROVE  loaded'
    OBVIOUS
  <2>1. i # Len(active)
    BY <1>1
  <2>2. i \in 1 .. Len(active) - 1
    BY <1>1, <2>1, BelowTop
  <2> QED
    BY <1>2, <2>2 DEF IInv, BootFirst
<1>5. \A i \in 1 .. Len(active) : active'[i].pc \in {"boot", "init"} => ~loaded'
  <2> SUFFICES ASSUME NEW i \in 1 .. Len(active), active'[i].pc \in {"boot", "init"}
               PROVE  ~loaded'
    OBVIOUS
  <2>1. CASE i = Len(active)
    BY <1>1, <2>1
  <2>2. CASE i # Len(active)
    <3>1. i \in 1 .. Len(active) - 1 /\ Len(active) > 1
      BY <1>1, <2>2, BelowTop
    <3>2. active[i].pc \in {"boot", "init"}
      BY <1>2, <3>1
    <3> QED
      BY <3>1, <3>2 DEF IInv, BootFirst
  <2> QED
    BY <2>1, <2>2
<1> QED
  BY <1>1, <1>3, <1>4, <1>5 DEF IInv, BootFirst

-----------------------------------------------------------------------------
(* Each action preserves the invariant. *)

Bounds == registrations \in 0 .. MaxRegistrations /\ interrupts \in 0 .. MaxInterrupts

(* A handler in the table is one that an unfinished registration knows of.  *)
LEMMA SettersKnown ==
  ASSUME IInv
  PROVE  \A v \in Vectors, i \in 1 .. Len(active) - 1 :
           Setting(active[i], v) /\ table[v] \in Custom => v \in contested
<1>1. \A i \in 1 .. Len(active) - 1 : i \in 1 .. Len(active)
  BY TopIsActive DEF IInv
<1> QED
  BY <1>1 DEF IInv, RegistrationsKnown

(* init() has only the boot code to run in. *)
LEMMA BootAlone ==
  ASSUME IInv, Top.pc \in {"boot", "init"}
  PROVE  ~loaded /\ Len(active) = 1
<1>1. Len(active) \in Nat /\ Len(active) >= 1 /\ Len(active) \in 1 .. Len(active)
  BY TopIsActive DEF IInv
<1>2. ~loaded
  BY <1>1 DEF IInv, BootFirst, Top
<1>3. ~(Len(active) > 1)
  BY <1>2 DEF IInv, BootFirst
<1>4. 1 \in 1 .. Len(active)
  BY <1>1
<1>5. ~(1 # Len(active))
  BY <1>1, <1>3, <1>4, BelowTop
<1> QED
  BY <1>2, <1>5

(* The activation on top moves on, outside of a registration's test and     *)
(* assignment; no table changes, and no interrupt is enabled.               *)
LEMMA MoveStep ==
  ASSUME IInv, NEW a \in Activations,
         active' = [active EXCEPT ![Len(active)] = a],
         a.vector = Top.vector, a.savedIF = Top.savedIF,
         a.pc \notin {"dispatch", "check", "set"},
         a.pc \in {"boot", "init"} => ~loaded,
         UNCHANGED <<gate, table, loaded, registrations, interrupts, contested>>,
         rflagsIF' \in BOOLEAN, rflagsIF' => rflagsIF, stopped' \in BOOLEAN
  PROVE  IInv'
<1>0. TypeOK
  BY DEF IInv
<1>1. TypeOK'
  BY <1>0, ReplaceTop DEF TypeOK
<1>2. TableFilled'
  BY DEF IInv, TableFilled
<1>3. BootFirst'
  BY BootKept
<1>4. Masked'
  BY MaskedKept
<1>5. RegistrationsKnown'
  BY RegistrationsKept, SettersKnown
<1> QED
  BY <1>1, <1>2, <1>3, <1>4, <1>5 DEF IInv

(* A plain Goto(). *)
LEMMA GotoStep ==
  ASSUME IInv, NEW p \in {"run", "init", "announce", "panic", "log", "halt"}, Goto(p),
         p = "init" => ~loaded,
         UNCHANGED <<gate, table, loaded, rflagsIF, stopped,
                     registrations, interrupts, contested>>
  PROVE  IInv'
<1> DEFINE a == [Top EXCEPT !.pc = p]
<1>0. TypeOK /\ rflagsIF \in BOOLEAN /\ stopped \in BOOLEAN
  BY DEF IInv, TypeOK
<1>1. a \in Activations /\ active' = [active EXCEPT ![Len(active)] = a]
  BY <1>0, GotoTop
<1>2. a.vector = Top.vector /\ a.savedIF = Top.savedIF /\ a.pc = p
  BY <1>0, TopIsActive DEF Activations
<1> HIDE DEF a
<1> QED
  BY <1>0, <1>1, <1>2, MoveStep

(* registerHandler() returns. *)
LEMMA ReturnStep ==
  ASSUME IInv, ReturnToBody,
         UNCHANGED <<gate, table, loaded, rflagsIF, stopped,
                     registrations, interrupts, contested>>
  PROVE  IInv'
<1> DEFINE a == [Top EXCEPT !.pc = Body, !.arg = NoVector, !.h = Null]
<1>0. TypeOK /\ rflagsIF \in BOOLEAN /\ stopped \in BOOLEAN
  BY DEF IInv, TypeOK
<1>1. a \in Activations /\ active' = [active EXCEPT ![Len(active)] = a]
  BY <1>0, BodyTop
<1>2. a.vector = Top.vector /\ a.savedIF = Top.savedIF /\ a.pc = Body
  BY <1>0, TopIsActive DEF Activations
<1>3. a.pc \in {"boot", "init"} => ~loaded
  BY <1>2 DEF Body
<1>4. a.pc \notin {"dispatch", "check", "set"}
  BY <1>2 DEF Body
<1> HIDE DEF a
<1> QED
  BY <1>0, <1>1, <1>2, <1>3, <1>4, MoveStep

(* The stub calls a handler: there is one. *)
LEMMA DispatchStep ==
  ASSUME IInv, NEW i \in Vectors, Dispatch(i)
  PROVE  IInv'
<1>1. loaded
  BY TopIsActive DEF IInv, BootFirst, Dispatch, At, Top
<1>2. table[i] # Null
  BY <1>1 DEF IInv, TableFilled
<1>3. \E p \in {"panic", "halt", "run"} : Goto(p)
  BY <1>2 DEF Dispatch
<1> QED
  BY <1>3, GotoStep DEF Dispatch

(* cli, and hlt. *)
LEMMA HaltStep == ASSUME IInv, Halt PROVE IInv'
<1>0. TypeOK
  BY DEF IInv
<1>1. active' = [active EXCEPT ![Len(active)] = Top]
  BY <1>0, TopIsActive DEF Halt, TypeOK, Top
<1>2. Top.pc = "halt" /\ Top \in Activations
  BY <1>0, TopIsActive DEF Halt, At
<1> QED
  BY <1>1, <1>2, MoveStep DEF Halt

(* init() fills an entry that was empty, with a built-in handler. *)
LEMMA InitGateStep == ASSUME IInv, NEW v \in Vectors, InitGate(v) PROVE IInv'
<1>0. TypeOK /\ UNCHANGED <<loaded, rflagsIF, active, stopped, registrations,
                           interrupts, contested>>
  BY DEF IInv, InitGate
<1>1. ~loaded /\ Len(active) = 1 /\ Top.pc = "init"
  BY BootAlone DEF InitGate, At
<1>2. /\ gate' \in [Vectors -> {"absent", "trap", "interrupt"}]
      /\ table' \in [Vectors -> {Null} \cup Builtin \cup Custom]
      /\ \A w \in Vectors : w # v => gate'[w] = gate[w] /\ table'[w] = table[w]
      /\ gate'[v] # "absent" /\ (~IsException(v) => gate'[v] # "trap")
      /\ table'[v] \in Builtin
  BY <1>0 DEF TypeOK, InitGate, Builtin
<1>3. Null \notin Builtin
  BY DEF Null, Builtin, Default, HaltCatchFire
<1>4. TypeOK'
  BY <1>0, <1>2 DEF TypeOK
<1>5. TableFilled'
  BY <1>0, <1>1, <1>2, <1>3 DEF IInv, TableFilled, IsException
<1>6. BootFirst' /\ Masked'
  BY <1>0 DEF IInv, BootFirst, Masked, IsDevice, IsException
<1>7. RegistrationsKnown'
  <2>1. \A i \in 1 .. Len(active) : active[i].pc \notin {"check", "set"}
    BY <1>0, <1>1, TopIsActive DEF Top
  <2> QED
    BY <1>0, <2>1 DEF RegistrationsKnown, Setting
<1> QED
  BY <1>4, <1>5, <1>6, <1>7 DEF IInv

(* lidt comes when every entry is filled. *)
LEMMA LoadStep == ASSUME IInv, Load PROVE IInv'
<1> DEFINE a == [Top EXCEPT !.pc = "run"]
<1>0. TypeOK
  BY DEF IInv
<1>1. a \in Activations /\ active' = [active EXCEPT ![Len(active)] = a]
  BY <1>0, GotoTop DEF Load
<1>2. a.vector = Top.vector /\ a.savedIF = Top.savedIF /\ a.pc = "run"
  BY <1>0, TopIsActive DEF Activations
<1> HIDE DEF a
<1>3. loaded' = TRUE
  BY DEF Load
<1>4. UNCHANGED <<gate, table, rflagsIF, stopped, registrations, interrupts, contested>>
  BY DEF Load
<1>5. Len(active) = 1
  BY BootAlone DEF Load, At
<1>6. TypeOK'
  BY <1>0, <1>1, <1>3, <1>4, ReplaceTop DEF TypeOK
<1>7. TableFilled'
  BY <1>4 DEF IInv, TableFilled, Load
<1>8. BootFirst'
  BY <1>1, <1>2, <1>3, <1>5, BootKept
<1>9. Masked'
  BY <1>1, <1>2, <1>4, MaskedKept
<1>10. RegistrationsKnown'
  BY <1>1, <1>2, <1>4, RegistrationsKept, SettersKnown
<1> QED
  BY <1>6, <1>7, <1>8, <1>9, <1>10 DEF IInv

(* sti, while only the boot code runs. *)
LEMMA StiStep == ASSUME IInv, Sti PROVE IInv'
<1>0. TypeOK /\ UNCHANGED <<gate, table, loaded, active, stopped, registrations,
                           interrupts, contested>>
  BY DEF IInv, Sti
<1>1. \A i \in 1 .. Len(active) : i = 1
  BY DEF Sti
<1>2. ~IsDevice(active[1])
  BY DEF IInv, BootFirst, IsDevice
<1>3. Masked'
  BY <1>0, <1>1, <1>2 DEF IInv, Masked, IsDevice, IsException
<1>4. TypeOK'
  BY <1>0 DEF TypeOK, Sti
<1>5. TableFilled' /\ BootFirst' /\ RegistrationsKnown'
  BY <1>0 DEF IInv, TableFilled, BootFirst, RegistrationsKnown, Setting, IsException
<1> QED
  BY <1>3, <1>4, <1>5 DEF IInv

(* registerHandler() is called. *)
LEMMA RegisterCallStep ==
  ASSUME IInv, NEW v \in Vectors, NEW h \in Custom, RegisterCall(v, h)
  PROVE  IInv'
<1> DEFINE a == [Top EXCEPT !.pc = "check", !.arg = v, !.h = h]
<1>0. /\ TypeOK
      /\ UNCHANGED <<gate, table, loaded, rflagsIF, stopped, interrupts, contested>>
  BY DEF IInv, RegisterCall
<1>1. a \in Activations /\ active' = [active EXCEPT ![Len(active)] = a]
  BY <1>0, TopIsActive DEF RegisterCall, Top, Activations
<1>2. /\ a.vector = Top.vector /\ a.savedIF = Top.savedIF
      /\ a.pc = "check" /\ a.arg = v /\ a.h = h
  BY <1>0, TopIsActive DEF Activations
<1> HIDE DEF a
<1>3. registrations' \in 0 .. MaxRegistrations
  BY <1>0, VectorsAssumption DEF TypeOK, RegisterCall
<1>4. TypeOK'
  BY <1>0, <1>1, <1>3, ReplaceTop DEF TypeOK
<1>5. TableFilled'
  BY <1>0 DEF IInv, TableFilled
<1>6. BootFirst'
  BY <1>0, <1>1, <1>2, BootKept
<1>7. Masked'
  BY <1>0, <1>1, <1>2, MaskedKept
<1>8. RegistrationsKnown'
  <2>1. Len(active') = Len(active) /\ active'[Len(active)] = a /\ Len(active) \in Nat
    BY <1>0, <1>1, ReplaceTop, TopIsActive
  <2>2. \A i \in 1 .. Len(active) : i # Len(active) => active'[i] = active[i]
    BY <1>0, <1>1, <2>1, ReplaceTop, BelowTop
  <2>3. \A i \in 1 .. Len(active) : active'[i].pc \in {"check", "set"} =>
          active'[i].arg \in Vectors /\ active'[i].h \in Custom
    BY <1>2, <2>1, <2>2 DEF IInv, RegistrationsKnown
  <2>4. \A i \in 1 .. Len(active), w \in Vectors :
          Setting(active'[i], w) => i # Len(active) /\ Setting(active[i], w)
    BY <1>2, <2>1, <2>2 DEF Setting
  <2>5. \A i \in 1 .. Len(active), w \in Vectors : Setting(active'[i], w) =>
          /\ table[w] # Null
          /\ table[w] \in Custom => w \in contested
          /\ \A j \in 1 .. Len(active) : i < j /\ Setting(active'[j], w) => w \in contested
    BY <2>4 DEF IInv, RegistrationsKnown
  <2> QED
    BY <1>0, <2>1, <2>3, <2>5 DEF RegistrationsKnown, Setting
<1> QED
  BY <1>4, <1>5, <1>6, <1>7, <1>8 DEF IInv

(* The test succeeds: a built-in handler is there to be replaced.           *)
LEMMA RegisterCheckStep ==
  ASSUME IInv, RegisterCheck, table[Top.arg] \in Builtin
  PROVE  IInv'
<1> DEFINE a == [Top EXCEPT !.pc = "set"]
<1> DEFINE v == Top.arg
<1>0. /\ TypeOK
      /\ UNCHANGED <<gate, table, loaded, rflagsIF, stopped, registrations, interrupts>>
      /\ Top.pc = "check"
  BY DEF IInv, RegisterCheck, At
<1>1. a \in Activations /\ active' = [active EXCEPT ![Len(active)] = a]
  BY <1>0, GotoTop DEF RegisterCheck
<1>2. /\ a.vector = Top.vector /\ a.savedIF = Top.savedIF
      /\ a.pc = "set" /\ a.arg = v /\ a.h = Top.h
  BY <1>0, TopIsActive DEF Activations
<1>3. v \in Vectors /\ Top.h \in Custom
  BY <1>0, TopIsActive DEF IInv, RegistrationsKnown, Top
<1>4. contested' = IF Interrupts(v) THEN contested \cup {v} ELSE contested
  BY DEF RegisterCheck
<1>5. table[v] \in Builtin /\ table[v] # Null /\ table[v] \notin Custom
  BY CustomAssumption DEF Builtin, Null, Default, HaltCatchFire
<1> HIDE DEF a, v
<1>6. TypeOK'
  BY <1>0, <1>1, <1>3, <1>4, ReplaceTop DEF TypeOK
<1>7. TableFilled'
  BY <1>0 DEF IInv, TableFilled
<1>8. BootFirst'
  BY <1>0, <1>1, <1>2, BootKept
<1>9. Masked'
  BY <1>0, <1>1, <1>2, MaskedKept
<1>10. RegistrationsKnown'
  <2>1. Len(active') = Len(active) /\ active'[Len(active)] = a /\ Len(active) \in Nat
    BY <1>0, <1>1, ReplaceTop, TopIsActive
  <2>2. \A i \in 1 .. Len(active) : i # Len(active) =>
          active'[i] = active[i] /\ i \in 1 .. Len(active) - 1
    BY <1>0, <1>1, <2>1, ReplaceTop, BelowTop
  <2>3. \A i \in 1 .. Len(active) : active'[i].pc \in {"check", "set"} =>
          active'[i].arg \in Vectors /\ active'[i].h \in Custom
    BY <1>2, <1>3, <2>1, <2>2 DEF IInv, RegistrationsKnown
  <2>4. ASSUME NEW i \in 1 .. Len(active), NEW w \in Vectors, Setting(active'[i], w)
        PROVE  /\ table[w] # Null
               /\ table[w] \in Custom => w \in contested'
               /\ \A j \in 1 .. Len(active) :
                    i < j /\ Setting(active'[j], w) => w \in contested'
    <3>1. CASE i = Len(active)
      <4>1. w = v
        BY <1>2, <2>1, <2>4, <3>1 DEF Setting
      <4>2. \A j \in 1 .. Len(active) : ~(i < j)
        BY <2>1, <3>1
      <4> QED
        BY <1>5, <4>1, <4>2
    <3>2. CASE i # Len(active)
      <4>1. Setting(active[i], w) /\ i \in 1 .. Len(active) - 1
        BY <2>2, <2>4, <3>2
      <4>2. ASSUME NEW j \in 1 .. Len(active), i < j, Setting(active'[j], w)
            PROVE  w \in contested'
        <5>1. CASE j = Len(active)
          <6>1. w = v
            BY <1>2, <2>1, <4>2, <5>1 DEF Setting
          <6>2. Interrupts(v)
            BY <4>1, <6>1 DEF Interrupts, Setting
          <6> QED
            BY <1>4, <6>1, <6>2
        <5>2. CASE j # Len(active)
          BY <1>4, <2>2, <4>1, <4>2, <5>2 DEF IInv, RegistrationsKnown
        <5> QED
          BY <5>1, <5>2
      <4>3. table[w] # Null /\ (table[w] \in Custom => w \in contested)
        BY <4>1 DEF IInv, RegistrationsKnown
      <4> QED
        BY <1>4, <4>2, <4>3
    <3> QED
      BY <3>1, <3>2
  <2> QED
    BY <1>0, <2>1, <2>3, <2>4 DEF RegistrationsKnown, Setting
<1> QED
  BY <1>6, <1>7, <1>8, <1>9, <1>10 DEF IInv

(* The assignment: registrations it interrupted are contested already.      *)
LEMMA RegisterSetStep == ASSUME IInv, RegisterSet PROVE IInv'
<1> DEFINE a == [Top EXCEPT !.pc = "announce"]
<1> DEFINE v == Top.arg
<1>0. /\ TypeOK
      /\ UNCHANGED <<gate, loaded, rflagsIF, stopped, registrations, interrupts, contested>>
      /\ Top.pc = "set"
  BY DEF IInv, RegisterSet, At
<1>1. a \in Activations /\ active' = [active EXCEPT ![Len(active)] = a]
  BY <1>0, GotoTop DEF RegisterSet
<1>2. a.vector = Top.vector /\ a.savedIF = Top.savedIF /\ a.pc = "announce"
  BY <1>0, TopIsActive DEF Activations
<1>3. v \in Vectors /\ Top.h \in Custom /\ Len(active) \in 1 .. Len(active)
  BY <1>0, TopIsActive DEF IInv, RegistrationsKnown, Top
<1>4. Setting(active[Len(active)], v) /\ table[v] # Null
  BY <1>0, <1>3 DEF IInv, RegistrationsKnown, Setting, Top
<1>5. /\ table' \in [Vectors -> {Null} \cup Builtin \cup Custom]
      /\ table'[v] = Top.h
      /\ \A w \in Vectors : w # v => table'[w] = table[w]
  BY <1>0, <1>3 DEF TypeOK, RegisterSet
<1>6. Top.h # Null
  BY <1>3, CustomAssumption
<1>7. \A i \in 1 .. Len(active) - 1 : i \in 1 .. Len(active) /\ i < Len(active)
  BY <1>0, TopIsActive
<1> HIDE DEF a, v
<1>8. TypeOK'
  BY <1>0, <1>1, <1>5, ReplaceTop DEF TypeOK
<1>9. TableFilled'
  BY <1>0, <1>4, <1>5, <1>6 DEF IInv, TableFilled, IsException
<1>10. BootFirst'
  BY <1>0, <1>1, <1>2, BootKept
<1>11. Masked'
  BY <1>0, <1>1, <1>2, MaskedKept
<1>12. \A w \in Vectors : table[w] # Null => table'[w] # Null
  BY <1>5, <1>6
<1>13. \A w \in Vectors, i \in 1 .. Len(active) - 1 :
         Setting(active[i], w) /\ table'[w] \in Custom => w \in contested'
  <2> SUFFICES ASSUME NEW w \in Vectors, NEW i \in 1 .. Len(active) - 1,
                      Setting(active[i], w), table'[w] \in Custom
               PROVE  w \in contested
    BY <1>0
  <2>1. CASE w = v
    BY <1>3, <1>4, <1>7, <2>1 DEF IInv, RegistrationsKnown
  <2>2. CASE w # v
    BY <1>5, <1>7, <2>2 DEF IInv, RegistrationsKnown
  <2> QED
    BY <2>1, <2>2
<1>14. RegistrationsKnown'
  BY <1>0, <1>1, <1>2, <1>12, <1>13, RegistrationsKept
<1> QED
  BY <1>8, <1>9, <1>10, <1>11, <1>14 DEF IInv

(* An interrupt or an exception comes. *)
LEMMA InterruptStep == ASSUME IInv, NEW v \in Vectors, Interrupt(v) PROVE IInv'
<1> DEFINE a == Activation("dispatch", v, rflagsIF)
<1>0. /\ TypeOK /\ loaded /\ Len(active) \in Nat /\ Len(active) >= 1
      /\ UNCHANGED <<gate, table, loaded, stopped, registrations, contested>>
      /\ rflagsIF \in BOOLEAN
  BY TopIsActive DEF IInv, Interrupt, TypeOK
<1>1. a \in Activations /\ active' = Append(active, a)
  BY <1>0 DEF Interrupt, Activation, Activations
<1>2. a.vector = v /\ a.savedIF = rflagsIF /\ a.pc = "dispatch"
  BY DEF Activation
<1> HIDE DEF a
<1>3. /\ active' \in Seq(Activations) /\ active' # <<>>
      /\ Len(active') = Len(active) + 1
      /\ active'[Len(active) + 1] = a
      /\ \A i \in 1 .. Len(active) : active'[i] = active[i]
  BY <1>0, <1>1, PushTop
<1>4. \A i \in 1 .. Len(active) + 1 :
        i # Len(active) + 1 => i \in 1 .. Len(active) /\ active'[i] = active[i]
  BY <1>0, <1>3
<1>5. interrupts' \in 0 .. MaxInterrupts
  BY <1>0, VectorsAssumption DEF TypeOK, Interrupt
<1>6. rflagsIF' = (rflagsIF /\ gate[v] = "trap")
  BY DEF Interrupt
<1>7. rflagsIF' \in BOOLEAN
  BY <1>6
<1>8. TypeOK'
  BY <1>0, <1>3, <1>5, <1>7 DEF TypeOK
<1>9. TableFilled'
  BY <1>0 DEF IInv, TableFilled
<1>10. BootFirst'
  <2>1. active'[1] = active[1]
    BY <1>0, <1>3
  <2>2. \A i \in 1 .. Len(active) + 1 : active'[i].pc \notin {"boot", "init"}
    BY <1>0, <1>2, <1>3, <1>4 DEF IInv, BootFirst
  <2> QED
    BY <1>0, <1>3, <2>1, <2>2 DEF IInv, BootFirst
<1>11. Masked'
  <2>1. rflagsIF' => rflagsIF /\ ~IsDevice(a)
    BY <1>2, <1>6 DEF IInv, TableFilled, IsDevice
  <2>2. rflagsIF' => \A i \in 1 .. Len(active) + 1 : ~IsDevice(active'[i])
    BY <1>3, <1>4, <2>1 DEF IInv, Masked
  <2>3. IsDevice(a) => rflagsIF
    BY <1>2 DEF IsDevice, Interrupt
  <2>4. ASSUME NEW i \in 1 .. Len(active) + 1, NEW j \in 1 .. Len(active) + 1,
               i < j, IsDevice(active'[i])
        PROVE  ~active'[j].savedIF /\ ~IsDevice(active'[j])
    <3>1. i \in 1 .. Len(active) /\ active'[i] = active[i]
      BY <1>0, <1>4, <2>4
    <3>2. CASE j = Len(active) + 1
      BY <1>2, <1>3, <2>3, <2>4, <3>1, <3>2 DEF IInv, Masked
    <3>3. CASE j # Len(active) + 1
      BY <1>4, <2>4, <3>1, <3>3 DEF IInv, Masked
    <3> QED
      BY <3>2, <3>3
  <2> QED
    BY <1>3, <2>2, <2>4 DEF Masked, IsDevice, IsException
<1>12. RegistrationsKnown'
  <2>1. \A i \in 1 .. Len(active) + 1 : active'[i].pc \in {"check", "set"} =>
          i \in 1 .. Len(active) /\ active'[i] = active[i]
    BY <1>2, <1>3, <1>4
  <2>2. \A i \in 1 .. Len(active) + 1, w \in Vectors : Setting(active'[i], w) =>
          i \in 1 .. Len(active) /\ Setting(active[i], w)
    BY <2>1 DEF Setting
  <2>3. \A i \in 1 .. Len(active) + 1 : active'[i].pc \in {"check", "set"} =>
          active'[i].arg \in Vectors /\ active'[i].h \in Custom
    BY <2>1 DEF IInv, RegistrationsKnown
  <2>4. \A i \in 1 .. Len(active) + 1, w \in Vectors : Setting(active'[i], w) =>
          /\ table[w] # Null
          /\ table[w] \in Custom => w \in contested
          /\ \A j \in 1 .. Len(active) + 1 :
               i < j /\ Setting(active'[j], w) => w \in contested
    BY <2>2 DEF IInv, RegistrationsKnown
  <2> QED
    BY <1>0, <1>3, <2>3, <2>4 DEF RegistrationsKnown, Setting
<1> QED
  BY <1>8, <1>9, <1>10, <1>11, <1>12 DEF IInv

(* A handler returns to what it interrupted. *)
LEMMA HandlerReturnStep == ASSUME IInv, HandlerReturn PROVE IInv'
<1>0. /\ TypeOK /\ Len(active) > 1 /\ Len(active) \in Nat
      /\ Len(active) \in 1 .. Len(active) /\ Top \in Activations
      /\ UNCHANGED <<gate, table, loaded, stopped, registrations, interrupts, contested>>
  BY TopIsActive DEF IInv, HandlerReturn
<1>1. /\ active' \in Seq(Activations) /\ active' # <<>>
      /\ Len(active') = Len(active) - 1
      /\ \A i \in 1 .. Len(active) - 1 : active'[i] = active[i]
  BY <1>0, PopTop DEF HandlerReturn
<1>2. \A i \in 1 .. Len(active) - 1 : i \in 1 .. Len(active) /\ i < Len(active)
  BY <1>0
<1>3. rflagsIF' = Top.savedIF /\ rflagsIF' \in BOOLEAN
  BY <1>0 DEF HandlerReturn, Activations
<1>4. TypeOK'
  BY <1>0, <1>1, <1>3 DEF TypeOK
<1>5. TableFilled'
  BY <1>0 DEF IInv, TableFilled
<1>6. BootFirst'
  <2>1. 1 \in 1 .. Len(active) - 1
    BY <1>0
  <2>2. active'[1] = active[1] /\ loaded
    BY <1>0, <1>1, <2>1 DEF IInv, BootFirst
  <2>3. \A i \in 1 .. Len(active) - 1 : active'[i].pc \notin {"boot", "init"}
    BY <1>1, <1>2, <2>2 DEF IInv, BootFirst
  <2> QED
    BY <1>0, <1>1, <2>2, <2>3 DEF IInv, BootFirst
<1>7. Masked'
  <2>1. rflagsIF' => \A i \in 1 .. Len(active) - 1 : ~IsDevice(active'[i])
    BY <1>0, <1>1, <1>2, <1>3 DEF IInv, Masked, Top
  <2>2. \A i, j \in 1 .. Len(active) - 1 :
          i < j /\ IsDevice(active'[i]) => ~active'[j].savedIF /\ ~IsDevice(active'[j])
    BY <1>1, <1>2 DEF IInv, Masked
  <2> QED
    BY <1>1, <2>1, <2>2 DEF Masked, IsDevice, IsException
<1>8. RegistrationsKnown'
  <2>1. \A i \in 1 .. Len(active) - 1 : active'[i].pc \in {"check", "set"} =>
          active'[i].arg \in Vectors /\ active'[i].h \in Custom
    BY <1>1, <1>2 DEF IInv, RegistrationsKnown
  <2>2. \A i \in 1 .. Len(active) - 1, w \in Vectors : Setting(active'[i], w) =>
          /\ table[w] # Null
          /\ table[w] \in Custom => w \in contested
          /\ \A j \in 1 .. Len(active) - 1 :
               i < j /\ Setting(active'[j], w) => w \in contested
    BY <1>1, <1>2 DEF IInv, RegistrationsKnown
  <2> QED
    BY <1>0, <1>1, <2>1, <2>2 DEF RegistrationsKnown, Setting
<1> QED
  BY <1>4, <1>5, <1>6, <1>7, <1>8 DEF IInv

(* The invariant holds at first. *)
LEMMA InitInv == Init => IInv
<1> SUFFICES ASSUME Init PROVE IInv
  OBVIOUS
<1> DEFINE a == Activation("boot", NoVector, FALSE)
<1>1. a \in Activations
  BY DEF Activation, Activations
<1>2. a.pc = "boot" /\ a.vector = NoVector
  BY DEF Activation
<1> HIDE DEF a
<1>3. active = <<a>>
  BY DEF Init, a
<1>4. active \in Seq(Activations) /\ active # <<>> /\ Len(active) = 1 /\ active[1] = a
  BY <1>1, <1>3
<1>5. \A i \in 1 .. Len(active) : i = 1
  BY <1>4
<1>6. TypeOK
  <2>1. /\ gate \in [Vectors -> {"absent", "trap", "interrupt"}]
        /\ table \in [Vectors -> {Null} \cup Builtin \cup Custom]
    BY DEF Init
  <2>2. {loaded, rflagsIF, stopped} \subseteq BOOLEAN
    BY DEF Init
  <2>3. registrations \in 0 .. MaxRegistrations /\ interrupts \in 0 .. MaxInterrupts
    BY VectorsAssumption DEF Init
  <2>4. contested \subseteq Vectors
    BY DEF Init
  <2> QED
    BY <1>4, <2>1, <2>2, <2>3, <2>4 DEF TypeOK
<1>7. TableFilled
  BY DEF Init, TableFilled
<1>8. BootFirst
  <2>1. loaded = FALSE
    BY DEF Init
  <2>2. \A i \in 1 .. Len(active) : active[i].pc = "boot"
    BY <1>2, <1>4, <1>5
  <2>3. ~(Len(active) > 1)
    BY <1>4
  <2> QED
    BY <1>2, <1>4, <2>1, <2>2, <2>3 DEF BootFirst
<1>9. Masked
  BY <1>2, <1>4, <1>5 DEF Init, Masked, IsDevice
<1>10. RegistrationsKnown
  BY <1>2, <1>4, <1>5 DEF RegistrationsKnown, Setting
<1> QED
  BY <1>6, <1>7, <1>8, <1>9, <1>10 DEF IInv

(* The invariant is inductive. *)
LEMMA StepInv == IInv /\ [Next]_vars => IInv'
<1> SUFFICES ASSUME IInv, [Next]_vars PROVE IInv'
  OBVIOUS
<1>1. CASE InitCall
  <2>1. ~loaded
    BY <1>1, BootAlone DEF InitCall, At
  <2> QED
    BY <1>1, <2>1, GotoStep DEF InitCall
<1>2. CASE \E v \in Vectors : InitGate(v)
  BY <1>2, InitGateStep
<1>3. CASE Load
  BY <1>3, LoadStep
<1>4. CASE RegisterCheck
  <2>1. CASE table[Top.arg] \in Builtin
    BY <1>4, <2>1, RegisterCheckStep
  <2>2. CASE table[Top.arg] \notin Builtin
    BY <1>4, <2>2, ReturnStep DEF RegisterCheck
  <2> QED
    BY <2>1, <2>2
<1>5. CASE RegisterSet
  BY <1>5, RegisterSetStep
<1>6. CASE RegisterReturn
  BY <1>6, ReturnStep DEF RegisterReturn
<1>7. CASE \E i \in Vectors : Dispatch(i)
  BY <1>7, DispatchStep
<1>8. CASE HandlerReturn
  BY <1>8, HandlerReturnStep
<1>9. CASE PanicPrint \/ PanicLog
  BY <1>9, GotoStep DEF PanicPrint, PanicLog
<1>10. CASE Halt
  BY <1>10, HaltStep
<1>11. CASE Sti
  BY <1>11, StiStep
<1>12. CASE \E v \in Vectors : Interrupt(v)
  BY <1>12, InterruptStep
<1>13. CASE \E v \in Vectors, h \in Custom : RegisterCall(v, h)
  BY <1>13, RegisterCallStep
<1>14. CASE UNCHANGED vars
  BY <1>14 DEF vars, IInv, TypeOK, TableFilled, BootFirst, Masked, RegistrationsKnown,
               Setting, IsDevice, IsException
<1> QED
  BY <1>1, <1>2, <1>3, <1>4, <1>5, <1>6, <1>7, <1>8, <1>9, <1>10, <1>11, <1>12,
     <1>13, <1>14 DEF Next, Step, Rest

-----------------------------------------------------------------------------
(* When handlers do not call registerHandler(), only the boot code is ever  *)
(* in one, and no registration interrupts another.                          *)
OnlyBootRegisters ==
  /\ \A i \in 1 .. Len(active) : active[i].pc = "check" => i = 1
  /\ contested = {}

(* A move of the top activation to a place other than "check".              *)
LEMMA OnlyBootKept ==
  ASSUME TypeOK, OnlyBootRegisters, NEW a \in Activations, a.pc # "check",
         active' = [active EXCEPT ![Len(active)] = a], contested' = contested
  PROVE  OnlyBootRegisters'
<1>1. Len(active') = Len(active) /\ active'[Len(active)] = a /\ Len(active) \in Nat
  BY ReplaceTop, TopIsActive
<1>2. \A i \in 1 .. Len(active) : i # Len(active) => active'[i] = active[i]
  BY <1>1, ReplaceTop, BelowTop
<1> QED
  BY <1>1, <1>2 DEF OnlyBootRegisters

(* Handlers leave registrations to the boot code. *)
LEMMA OnlyBootStep ==
  ASSUME ~HandlersRegister, IInv, OnlyBootRegisters, [Next]_vars
  PROVE  OnlyBootRegisters'
<1>0. TypeOK
  BY DEF IInv
<1>1. ASSUME NEW p \in {"run", "boot", "init", "set", "announce", "panic", "log", "halt"},
             Goto(p), contested' = contested
      PROVE  OnlyBootRegisters'
  <2> DEFINE a == [Top EXCEPT !.pc = p]
  <2>1. a \in Activations /\ active' = [active EXCEPT ![Len(active)] = a]
    BY <1>0, <1>1, GotoTop
  <2>2. a.pc = p
    BY <1>0, TopIsActive DEF Activations
  <2> HIDE DEF a
  <2> QED
    BY <1>0, <1>1, <2>1, <2>2, OnlyBootKept
<1>2. ASSUME ReturnToBody, contested' = contested
      PROVE  OnlyBootRegisters'
  <2> DEFINE a == [Top EXCEPT !.pc = Body, !.arg = NoVector, !.h = Null]
  <2>1. a \in Activations /\ active' = [active EXCEPT ![Len(active)] = a]
    BY <1>0, <1>2, BodyTop
  <2>2. a.pc # "check"
    BY <1>0, TopIsActive DEF Activations, Body
  <2> HIDE DEF a
  <2> QED
    BY <1>0, <1>2, <2>1, <2>2, OnlyBootKept
<1>3. CASE RegisterCheck
  <2>1. Len(active) \in Nat /\ Len(active) \in 1 .. Len(active)
    BY <1>0, TopIsActive
  <2>2. Len(active) = 1
    BY <1>3, <2>1 DEF OnlyBootRegisters, RegisterCheck, At, Top
  <2>3. ~Interrupts(Top.arg)
    BY <2>2 DEF Interrupts
  <2>4. contested' = contested
    BY <1>3, <2>3 DEF RegisterCheck
  <2> QED
    BY <1>1, <1>2, <1>3, <2>4 DEF RegisterCheck
<1>4. CASE RegisterSet \/ InitCall \/ Load \/ PanicPrint \/ PanicLog
  BY <1>1, <1>4 DEF RegisterSet, InitCall, Load, PanicPrint, PanicLog
<1>5. CASE RegisterReturn
  BY <1>2, <1>5 DEF RegisterReturn
<1>6. ASSUME NEW i \in Vectors, Dispatch(i) PROVE OnlyBootRegisters'
  <2>1. loaded
    BY <1>0, <1>6, TopIsActive DEF IInv, BootFirst, Dispatch, At, Top
  <2>2. \E p \in {"panic", "halt", "run"} : Goto(p)
    BY <1>6, <2>1 DEF Dispatch, IInv, TableFilled
  <2>3. contested' = contested
    BY <1>6 DEF Dispatch
  <2> QED
    BY <1>1, <2>2, <2>3
<1>7. CASE HandlerReturn
  <2>1. /\ Len(active) \in Nat /\ Len(active') = Len(active) - 1
        /\ \A i \in 1 .. Len(active) - 1 : active'[i] = active[i]
    BY <1>0, <1>7, TopIsActive, PopTop DEF HandlerReturn
  <2>2. \A i \in 1 .. Len(active) - 1 : i \in 1 .. Len(active)
    BY <2>1
  <2> QED
    BY <1>7, <2>1, <2>2 DEF OnlyBootRegisters, HandlerReturn
<1>8. ASSUME NEW v \in Vectors, Interrupt(v) PROVE OnlyBootRegisters'
  <2> DEFINE a == Activation("dispatch", v, rflagsIF)
  <2>1. a \in Activations /\ active' = Append(active, a)
    BY <1>0, <1>8 DEF Interrupt, Activation, Activations, TypeOK
  <2>2. a.pc # "check"
    BY DEF Activation
  <2> HIDE DEF a
  <2>3. /\ Len(active') = Len(active) + 1 /\ active'[Len(active) + 1] = a
        /\ \A i \in 1 .. Len(active) : active'[i] = active[i]
    BY <1>0, <2>1, PushTop
  <2>4. \A i \in 1 .. Len(active) + 1 : i # Len(active) + 1 => i \in 1 .. Len(active)
    BY <1>0, TopIsActive
  <2> QED
    BY <1>8, <2>2, <2>3, <2>4 DEF OnlyBootRegisters, Interrupt
<1>9. ASSUME NEW v \in Vectors, NEW h \in Custom, RegisterCall(v, h)
      PROVE  OnlyBootRegisters'
  <2>1. ~(Len(active) > 1) /\ Len(active) \in Nat /\ 1 \in 1 .. Len(active)
    BY <1>0, <1>9, TopIsActive DEF RegisterCall
  <2>2. 1 = Len(active)
    BY <2>1, BelowTop
  <2>3. DOMAIN active' = DOMAIN active /\ DOMAIN active = 1 .. Len(active)
    BY <1>0, <1>9 DEF RegisterCall, TypeOK
  <2>4. Len(active') = Len(active)
    <3> DEFINE a == [Top EXCEPT !.pc = "check", !.arg = v, !.h = h]
    <3>1. a \in Activations /\ active' = [active EXCEPT ![Len(active)] = a]
      BY <1>0, <1>9, TopIsActive DEF RegisterCall, Top, Activations
    <3> HIDE DEF a
    <3> QED
      BY <1>0, <3>1, ReplaceTop
  <2> QED
    BY <1>9, <2>2, <2>4 DEF OnlyBootRegisters, RegisterCall
<1>10. CASE \/ \E v \in Vectors : InitGate(v)
            \/ Halt \/ Sti \/ UNCHANGED vars
  BY <1>10 DEF InitGate, Halt, Sti, vars, OnlyBootRegisters
<1> QED
  BY <1>3, <1>4, <1>5, <1>6, <1>7, <1>8, <1>9, <1>10 DEF Next, Step, Rest

-----------------------------------------------------------------------------
(* The table is filled before it is used, interrupts are masked while one   *)
(* is handled, and contested registrations are known.                       *)
THEOREM InductiveInvariant == Spec => []IInv
BY InitInv, StepInv, PTL DEF Spec

(* Everything keeps its type; in particular the stub never calls through an *)
(* entry that init() has not filled.                                        *)
THEOREM TypeCorrect == Spec => []TypeOK
<1>1. IInv => TypeOK
  BY DEF IInv
<1> QED
  BY <1>1, InductiveInvariant, PTL

(* However exceptions and interrupts nest, a device interrupt does not come *)
(* while another one is handled.                                            *)
THEOREM DeviceInterruptsDoNotNest == Spec => []InterruptsDoNotNest
<1>1. IInv => InterruptsDoNotNest
  <2> SUFFICES ASSUME IInv, NEW i \in DOMAIN active, NEW j \in DOMAIN active,
                      i < j, IsDevice(active[i])
               PROVE  IsException(active[j].vector)
    BY DEF InterruptsDoNotNest, IsDevice
  <2>1. DOMAIN active = 1 .. Len(active)
    BY DEF IInv, TypeOK
  <2>2. ~IsDevice(active[j])
    BY <2>1 DEF IInv, Masked
  <2>3. IsException(NoVector)
    BY VectorsAssumption DEF IsException, NoVector
  <2> QED
    BY <2>2, <2>3 DEF IsDevice
<1> QED
  BY <1>1, InductiveInvariant, PTL

(* A step that replaces a registered handler is the end of a registration   *)
(* that another one, for the same vector, has interrupted.                  *)
LEMMA ReplacedByContested ==
  ASSUME IInv, [Next]_vars, NEW v \in Vectors, table[v] \in Custom, table'[v] # table[v]
  PROVE  v \in contested
<1>1. CASE RegisterSet
  <2>1. Top.arg = v
    BY <1>1 DEF RegisterSet, IInv, TypeOK
  <2>2. Setting(active[Len(active)], v) /\ Len(active) \in 1 .. Len(active)
    BY <1>1, <2>1, TopIsActive DEF RegisterSet, At, Top, Setting, IInv
  <2> QED
    BY <2>2 DEF IInv, RegistrationsKnown
<1>2. ASSUME NEW w \in Vectors, InitGate(w) PROVE FALSE
  <2>1. w = v
    BY <1>2 DEF InitGate, IInv, TypeOK
  <2>2. table[v] = Null
    BY <1>2, <2>1 DEF InitGate, IInv, TableFilled
  <2> QED
    BY <2>2, CustomAssumption
<1>3. CASE table' = table
  BY <1>3
<1> QED
  BY <1>1, <1>2, <1>3
     DEF Next, Step, Rest, InitCall, Load, RegisterCheck, RegisterReturn, Dispatch,
         HandlerReturn, PanicPrint, PanicLog, Halt, Sti, Interrupt, RegisterCall, vars

(* registerHandler() replaces a registered handler only when a registration *)
(* for the same vector interrupted it between its test and its assignment.  *)
THEOREM RegisteredHandlersStay == Spec => RegisteredForGood
<1>1. IInv /\ [Next]_vars =>
        [\A v \in Vectors : table[v] \in Custom /\ table'[v] # table[v] => v \in contested]_vars
  BY ReplacedByContested
<1> QED
  BY <1>1, InductiveInvariant, PTL DEF Spec, RegisteredForGood

(* When handlers do not call registerHandler(), a registered handler is     *)
(* never replaced.                                                          *)
THEOREM HandlersStayForGood ==
  ASSUME ~HandlersRegister
  PROVE  Spec => NeverReplaced
<1>1. Init => OnlyBootRegisters
  <2> SUFFICES ASSUME Init PROVE OnlyBootRegisters
    OBVIOUS
  <2>1. contested = {}
    BY DEF Init
  <2>2. Len(active) = 1
    BY DEF Init
  <2> QED
    BY <2>1, <2>2 DEF OnlyBootRegisters
<1>2. IInv /\ OnlyBootRegisters /\ [Next]_vars => OnlyBootRegisters'
  BY OnlyBootStep
<1>3. IInv /\ OnlyBootRegisters /\ [Next]_vars =>
        [\A v \in Vectors : table[v] \in Custom => table'[v] = table[v]]_vars
  BY ReplacedByContested DEF OnlyBootRegisters
<1> QED
  BY <1>1, <1>2, <1>3, InductiveInvariant, PTL DEF Spec, NeverReplaced
=============================================================================
