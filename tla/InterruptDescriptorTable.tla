----------------------- MODULE InterruptDescriptorTable -----------------------
(***************************************************************************)
(* arch/idt.hh on one processor: init(), registerHandler(), the handlers   *)
(* and kpanic(), with interrupts and exceptions between any two steps of   *)
(* any of them.  What runs is a stack of activations: the boot code, and   *)
(* above it one for each interrupt that is being handled.                  *)
(*                                                                         *)
(* The stub between the gate and the handler is arch/idt.S, which module   *)
(* InterruptStub executes.  It takes the index into real_handler_table     *)
(* from the wrong word of the stack, so that any handler may be called.    *)
(*                                                                         *)
(* LoadEarly, RegisterUnchecked and the like are faulty variants of the    *)
(* definitions that follow them, used only to see that a property notices  *)
(* the fault.                                                              *)
(***************************************************************************)
EXTENDS Integers, Sequences

CONSTANTS
  NumVectors,        \* 256
  NumExceptions,     \* 32
  TrapGates,         \* kIdtUseTrapGateForExceptions
  PanicOnException,  \* kIdtPanicOnException
  Custom,            \* the handlers that are registered; they return
  HandlersRegister,  \* whether they call registerHandler() themselves
  MaxRegistrations,  \* how many times it is called
  MaxInterrupts      \* how many interrupts and exceptions come

ASSUME VectorsAssumption ==
  /\ NumExceptions \in Nat /\ NumVectors \in Nat /\ NumExceptions < NumVectors
  /\ MaxRegistrations \in Nat /\ MaxInterrupts \in Nat

Vectors == 0 .. NumVectors - 1
IsException(v) == v < NumExceptions

(* What an entry of real_handler_table may point to. *)
Null == "null"
Default == "defaultInterruptHandler"
HaltCatchFire == "haltCatchFire"
Builtin == {Default, HaltCatchFire}

ASSUME CustomAssumption == Custom \cap ({Null} \cup Builtin) = {}

VARIABLES
  gate,           \* idt_table: the attribute of each entry
  table,          \* real_handler_table
  loaded,         \* whether lidt was executed
  rflagsIF,       \* whether interrupts are enabled
  active,         \* the activations, the one that executes last
  stopped,        \* in the for (;;) hlt of haltCatchFire()
  registrations, interrupts,  \* how many there were
  contested       \* history: vectors registered over an unfinished registration

vars == <<gate, table, loaded, rflagsIF, active, stopped,
          registrations, interrupts, contested>>

(* An activation: where it is, the vector it handles, the interrupt flag to *)
(* return to, and the arguments of the registerHandler() it is in.          *)
NoVector == -1
Activation(pc, v, if) ==
  [pc |-> pc, vector |-> v, savedIF |-> if, arg |-> NoVector, h |-> Null]

Top == active[Len(active)]
Below == SubSeq(active, 1, Len(active) - 1)
At(pc) == ~stopped /\ Top.pc = pc
Goto(pc) == active' = [active EXCEPT ![Len(active)].pc = pc]

Init ==
  /\ gate = [v \in Vectors |-> "absent"]
  /\ table = [v \in Vectors |-> Null]
  /\ loaded = FALSE /\ rflagsIF = FALSE /\ stopped = FALSE
  /\ active = << Activation("boot", NoVector, FALSE) >>
  /\ registrations = 0 /\ interrupts = 0 /\ contested = {}

-----------------------------------------------------------------------------
(* init().  Before it, registerHandler() may be called already. *)

InitCall ==
  /\ At("boot")
  /\ Goto("init")
  /\ UNCHANGED <<gate, table, loaded, rflagsIF, stopped, registrations, interrupts, contested>>

InitGateAllTraps(v) ==
  /\ At("init") /\ gate[v] = "absent"
  /\ \A w \in Vectors : w < v => gate[w] # "absent"
  /\ gate' = [gate EXCEPT ![v] = IF TrapGates THEN "trap" ELSE "interrupt"]
  /\ table' = [table EXCEPT ![v] = Default]
  /\ UNCHANGED <<loaded, rflagsIF, active, stopped, registrations, interrupts, contested>>

(* One iteration of either loop. *)
InitGate(v) ==
  /\ At("init") /\ gate[v] = "absent"
  /\ \A w \in Vectors : w < v => gate[w] # "absent"
  /\ gate' = [gate EXCEPT ![v] =
                IF IsException(v) /\ TrapGates THEN "trap" ELSE "interrupt"]
  /\ table' = [table EXCEPT ![v] =
                IF IsException(v) /\ ~PanicOnException THEN HaltCatchFire ELSE Default]
  /\ UNCHANGED <<loaded, rflagsIF, active, stopped, registrations, interrupts, contested>>

LoadEarly ==
  /\ At("init") /\ gate[NumVectors - 2] # "absent"
  /\ loaded' = TRUE
  /\ Goto("run")
  /\ UNCHANGED <<gate, table, rflagsIF, stopped, registrations, interrupts, contested>>

Load ==
  /\ At("init") /\ \A v \in Vectors : gate[v] # "absent"
  /\ loaded' = TRUE
  /\ Goto("run")
  /\ UNCHANGED <<gate, table, rflagsIF, stopped, registrations, interrupts, contested>>

(* The boot code enables interrupts. *)
Sti ==
  /\ At("run") /\ Len(active) = 1 /\ ~rflagsIF
  /\ rflagsIF' = TRUE
  /\ UNCHANGED <<gate, table, loaded, active, stopped, registrations, interrupts, contested>>

-----------------------------------------------------------------------------
(* registerHandler(), called by the boot code or by a handler: the test,    *)
(* the assignment and the message are steps of their own.  Where it returns *)
(* to depends on whether init() has been called.                           *)

Body == IF loaded THEN "run" ELSE "boot"
ReturnToBody ==
  active' = [active EXCEPT ![Len(active)].pc = Body,
                           ![Len(active)].arg = NoVector, ![Len(active)].h = Null]

RegisterCall(v, h) ==
  /\ At("boot") \/ At("run")
  /\ Len(active) > 1 => HandlersRegister
  /\ registrations < MaxRegistrations
  /\ registrations' = registrations + 1
  /\ active' = [active EXCEPT ![Len(active)].pc = "check",
                              ![Len(active)].arg = v, ![Len(active)].h = h]
  /\ UNCHANGED <<gate, table, loaded, rflagsIF, stopped, interrupts, contested>>

RegisterUnchecked ==
  /\ At("check")
  /\ Goto("set")
  /\ UNCHANGED <<gate, table, loaded, rflagsIF, stopped, registrations, interrupts, contested>>

(* An activation below is between its test and its assignment for v.        *)
Interrupts(v) ==
  \E i \in 1 .. Len(active) - 1 : active[i].pc = "set" /\ active[i].arg = v

RegisterCheck ==
  /\ At("check")
  /\ IF table[Top.arg] \in Builtin THEN Goto("set") ELSE ReturnToBody
  /\ contested' = IF table[Top.arg] \in Builtin /\ Interrupts(Top.arg)
                    THEN contested \cup {Top.arg} ELSE contested
  /\ UNCHANGED <<gate, table, loaded, rflagsIF, stopped, registrations, interrupts>>

RegisterSet ==
  /\ At("set")
  /\ table' = [table EXCEPT ![Top.arg] = Top.h]
  /\ Goto("announce")
  /\ UNCHANGED <<gate, loaded, rflagsIF, stopped, registrations, interrupts, contested>>

RegisterReturn ==
  /\ At("announce")
  /\ ReturnToBody
  /\ UNCHANGED <<gate, table, loaded, rflagsIF, stopped, registrations, interrupts, contested>>

-----------------------------------------------------------------------------
(* Interrupts and their handlers. *)

(* An exception comes of what executes (the stub itself raises none); an    *)
(* interrupt, whenever interrupts are enabled.                             *)
Interrupt(v) ==
  /\ loaded /\ ~stopped /\ interrupts < MaxInterrupts
  /\ IF IsException(v) THEN Top.pc # "dispatch" ELSE rflagsIF
  /\ active' = Append(active, Activation("dispatch", v, rflagsIF))
  /\ rflagsIF' = (rflagsIF /\ gate[v] = "trap")
  /\ interrupts' = interrupts + 1
  /\ UNCHANGED <<gate, table, loaded, stopped, registrations, contested>>

(* The stub calls one of the handlers.  (What it calls when it finds an     *)
(* index beyond the table is for InterruptStub.)                           *)
Dispatch(i) ==
  /\ At("dispatch")
  /\ Goto(CASE table[i] = Null          -> "wild"
            [] table[i] = Default       -> "panic"
            [] table[i] = HaltCatchFire -> "halt"
            [] OTHER                    -> "run")
  /\ UNCHANGED <<gate, table, loaded, rflagsIF, stopped, registrations, interrupts, contested>>

(* A registered handler returns, and iretq restores the interrupt flag. *)
HandlerReturn ==
  /\ At("run") /\ Len(active) > 1
  /\ active' = Below
  /\ rflagsIF' = Top.savedIF
  /\ UNCHANGED <<gate, table, loaded, stopped, registrations, interrupts, contested>>

(* kpanic() prints its message and "System halted." ... *)
PanicPrint ==
  /\ At("panic")
  /\ Goto("log")
  /\ UNCHANGED <<gate, table, loaded, rflagsIF, stopped, registrations, interrupts, contested>>

PanicLogReturns ==
  /\ At("log") /\ Len(active) > 1
  /\ active' = Below
  /\ rflagsIF' = Top.savedIF
  /\ UNCHANGED <<gate, table, loaded, stopped, registrations, interrupts, contested>>

(* ... and then, at some length, the log and the register dump. *)
PanicLog ==
  /\ At("log")
  /\ Goto("halt")
  /\ UNCHANGED <<gate, table, loaded, rflagsIF, stopped, registrations, interrupts, contested>>

(* haltCatchFire(): cli, and hlt for ever. *)
Halt ==
  /\ At("halt")
  /\ rflagsIF' = FALSE /\ stopped' = TRUE
  /\ UNCHANGED <<gate, table, loaded, active, registrations, interrupts, contested>>

(* The boot code has nothing left to do, or the processor is halted. *)
Rest == (stopped \/ (At("run") /\ Len(active) = 1)) /\ UNCHANGED vars

Step ==
  \/ InitCall \/ (\E v \in Vectors : InitGate(v)) \/ Load
  \/ RegisterCheck \/ RegisterSet \/ RegisterReturn
  \/ (\E i \in Vectors : Dispatch(i)) \/ HandlerReturn
  \/ PanicPrint \/ PanicLog \/ Halt

Next ==
  \/ Step \/ Sti \/ Rest
  \/ \E v \in Vectors : Interrupt(v)
  \/ \E v \in Vectors, h \in Custom : RegisterCall(v, h)

Spec == Init /\ [][Next]_vars

(* The processor keeps executing, and registered handlers return. *)
FairSpec == Spec /\ WF_vars(Step)

-----------------------------------------------------------------------------
Activations ==
  [pc : {"boot", "init", "run", "check", "set", "announce",
         "dispatch", "panic", "log", "halt"},
   vector : Vectors \cup {NoVector}, savedIF : BOOLEAN,
   arg : Vectors \cup {NoVector}, h : {Null} \cup Custom]

(* Everything has the type its declaration gives it, and no stub finds a    *)
(* null pointer in the table: it is complete before the first interrupt.    *)
TypeOK ==
  /\ gate \in [Vectors -> {"absent", "trap", "interrupt"}]
  /\ table \in [Vectors -> {Null} \cup Builtin \cup Custom]
  /\ {loaded, rflagsIF, stopped} \subseteq BOOLEAN
  /\ active \in Seq(Activations) /\ active # <<>>
  /\ registrations \in 0 .. MaxRegistrations /\ interrupts \in 0 .. MaxInterrupts
  /\ contested \subseteq Vectors

(* Through exceptions, trap gates and iretq, at most one device interrupt   *)
(* is being handled: its gate masks the others until its handler returns.   *)
InterruptsDoNotNest ==
  \A i, j \in DOMAIN active :
    i < j /\ ~IsException(active[i].vector) /\ active[i].vector # NoVector =>
      IsException(active[j].vector)

(* A handler that was registered stays: registerHandler() replaces it only  *)
(* when the registration interrupted another one for the same vector, after *)
(* its test and before its assignment.                                     *)
RegisteredForGood ==
  [][\A v \in Vectors : table[v] \in Custom /\ table'[v] # table[v] => v \in contested]_vars

(* When handlers do not register handlers, a registered handler stays for   *)
(* ever, whatever interrupts the registrations.                             *)
NeverReplaced ==
  [][\A v \in Vectors : table[v] \in Custom => table'[v] = table[v]]_vars

(* A panic ends with the processor halted for good, whatever interrupts it. *)
PanicHalts ==
  (\E i \in DOMAIN active : active[i].pc \in {"panic", "log", "halt"}) ~> stopped
=============================================================================
