---------------------------- MODULE InterruptStub ----------------------------
(***************************************************************************)
(* The way into an interrupt handler and back: arch/idt.S, executed one    *)
(* instruction at a time on a processor that may be interrupted again      *)
(* between any two of them.  (Exceptions enter through trap gates, which   *)
(* leave interrupts enabled, so this happens in the middle of the stub.)   *)
(*                                                                         *)
(* Words, addresses and register contents are numbers.  The stack is a     *)
(* sequence of 8-byte words, its top last; rsp is its length.              *)
(*                                                                         *)
(* LeaveShort, PopsInSaveOrder, ErrorStubsWithout14 and the like are faulty *)
(* variants of the definitions that follow them, used only to see that a   *)
(* property notices the fault.                                             *)
(***************************************************************************)
EXTENDS Integers, Sequences, SequencesExt

CONSTANTS
  Vectors,       \* the vectors that are raised
  Custom,        \* the vectors whose handler returns; any other handler panics
  R10Values,     \* what r10 may hold when an interrupt comes
  MaxInterrupts  \* how many interrupts are raised

ASSUME StubAssumption ==
  Vectors \subseteq 0 .. 255 /\ R10Values \subseteq Nat /\ MaxInterrupts \in Nat

VARIABLES
  regs,     \* the contents of the registers
  rip,      \* the address of the next instruction
  rflagsIF, \* whether interrupts are enabled
  stack,
  mode,     \* "run", "halted" (kpanic), or what went wrong: "wild", "fault"
  raised,   \* how many interrupts were raised
  frames    \* history: what was interrupted, innermost last

vars == <<regs, rip, rflagsIF, stack, mode, raised, frames>>

-----------------------------------------------------------------------------
(* The processor. *)

CallerSaved == {"rax", "rcx", "rdx", "rsi", "rdi", "r8", "r9", "r10", "r11"}
CalleeSaved == {"rbx", "rbp", "r12", "r13", "r14", "r15"}
General == CallerSaved \cup CalleeSaved
Special == {"ds", "es", "cr0", "cr2", "cr3", "cr4", "cs", "ss"}

(* The vectors for which the processor pushes an error code. *)
PushesErrorCode == {8, 10, 11, 12, 13, 14, 17, 21, 29, 30}
ErrorCode == 77

rflags == IF rflagsIF THEN 1 ELSE 0

Junk == 0
Top(n) == stack[Len(stack) - n]        \* the word at 8n(%rsp)
Drop(n) == SubSeq(stack, 1, Len(stack) - n)

-----------------------------------------------------------------------------
(* The code.  An instruction is a tuple of a mnemonic and its operand.     *)

SaveOrder == <<"r15", "r14", "r13", "r12", "r11", "r10", "r9", "r8",
               "rax", "rbx", "rcx", "rdx", "rsi", "rdi", "rbp">>
SystemOrder == <<"ds", "es", "cr0", "cr2", "cr3", "cr4">>

Pushes(order) == [i \in DOMAIN order |-> <<"push", order[i]>>]
PopsInSaveOrder(order) == [i \in DOMAIN order |-> <<"pop", order[i]>>]
Pops(order) == [i \in DOMAIN order |-> <<"pop", order[Len(order) + 1 - i]>>]

(* System registers go through rax. *)
PushesViaRax(order) ==
  [i \in 1 .. 2 * Len(order) |->
     IF i % 2 = 1 THEN <<"movrax", order[(i + 1) \div 2]>> ELSE <<"push", "rax">>]

Dispatch == << <<"leardi", 0>>, <<"loadrax", 15>>, <<"call", 0>> >>

LeaveShort == << <<"addrsp", 4>>, <<"addrsp", 1>> >>
Leave == << <<"addrsp", 4>>, <<"addrsp", 2>> >>

Finish == << <<"addrsp", 2>>, <<"iretq", 0>> >>

common_stub ==
  Pushes(SaveOrder) \o PushesViaRax(SystemOrder) \o Dispatch
    \o Leave \o Pops(SaveOrder) \o Finish

ErrorStubsWithout14 == {8, 10, 11, 12, 13, 17}
ErrorStubs == {8, 10, 11, 12, 13, 14, 17}

(* The vector goes below the error code, or below a 0 in its place.         *)
STUB(v) ==
  IF v \in ErrorStubs
    THEN << <<"pushi", v>>, <<"jmp", 1>> >>
    ELSE << <<"pushi", 0>>, <<"pushi", v>>, <<"jmp", 1>> >>

(* Where the code is: common_stub at 1, the stubs and the handlers at       *)
(* multiples of 10 and of 2 above it, the interrupted program at 0.         *)
StubBase(v) == 1000 + 10 * v
HandlerAddress(v) == 10000 + 2 * v
Program == 0

InHandler == rip >= HandlerAddress(0)
HandlerVector == (rip - HandlerAddress(0)) \div 2

Instruction ==
  IF rip < StubBase(0)
    THEN common_stub[rip]
    ELSE STUB((rip - StubBase(0)) \div 10)[((rip - StubBase(0)) % 10) + 1]

Running(op) ==
  mode = "run" /\ rip # Program /\ ~InHandler /\ Instruction[1] = op
Operand == Instruction[2]

(* The instruction changes these registers and this stack, and is followed  *)
(* by the next one.                                                        *)
Retire(newRegs, newStack) ==
  /\ regs' = newRegs /\ stack' = newStack /\ rip' = rip + 1
  /\ UNCHANGED <<rflagsIF, mode, raised, frames>>

-----------------------------------------------------------------------------
Init ==
  /\ \E r10 \in R10Values :
       regs = [r \in General \cup Special |->
                 CASE r = "r10" -> r10
                   [] r = "cs"  -> 8
                   [] OTHER     -> 500 + CHOOSE i \in 1 .. 22 :
                        r = (SaveOrder \o SystemOrder \o <<"ss">>)[i]]
  /\ rip = Program /\ rflagsIF = TRUE
  /\ stack \in {<<>>, <<Junk>>}
  /\ mode = "run" /\ raised = 0 /\ frames = <<>>

(* A fault is raised by an instruction of the program or of a handler; an   *)
(* interrupt comes between any two instructions, when they are enabled.    *)
MayRaise(v) == IF v < 32 THEN rip = Program \/ InHandler ELSE rflagsIF

(* With a nonzero ist, setGate() would have every entry start on the same   *)
(* stack.                                                                  *)
InterruptOnOwnStack(v) ==
  /\ mode = "run" /\ raised < MaxInterrupts /\ MayRaise(v)
  /\ LET error == IF v \in PushesErrorCode THEN <<ErrorCode>> ELSE <<>>
     IN  stack' = <<regs["ss"], Len(stack), rflags, regs["cs"], rip>> \o error
  /\ rip' = StubBase(v)
  /\ rflagsIF' = (v < 32 /\ rflagsIF)
  /\ raised' = raised + 1
  /\ frames' = Append(frames, [vector |-> v, regs |-> regs, rip |-> rip,
                               rflagsIF |-> rflagsIF, stack |-> stack])
  /\ UNCHANGED <<regs, mode>>

(* The processor aligns the stack, pushes the interrupted state and enters  *)
(* the stub: through a trap gate, which leaves IF alone, or an interrupt    *)
(* gate.                                                                   *)
Interrupt(v) ==
  /\ mode = "run" /\ raised < MaxInterrupts /\ MayRaise(v)
  /\ LET pad   == IF Len(stack) % 2 = 1 THEN <<Junk>> ELSE <<>>
         error == IF v \in PushesErrorCode THEN <<ErrorCode>> ELSE <<>>
     IN  stack' = stack \o pad \o <<regs["ss"], Len(stack), rflags, regs["cs"], rip>> \o error
  /\ rip' = StubBase(v)
  /\ rflagsIF' = (v < 32 /\ rflagsIF)
  /\ raised' = raised + 1
  /\ frames' = Append(frames, [vector |-> v, regs |-> regs, rip |-> rip,
                               rflagsIF |-> rflagsIF, stack |-> stack])
  /\ UNCHANGED <<regs, mode>>

PushRegister == Running("push")   /\ Retire(regs, Append(stack, regs[Operand]))
PushImmediate == Running("pushi")  /\ Retire(regs, Append(stack, Operand))
MoveSystem == Running("movrax") /\ Retire([regs EXCEPT !["rax"] = regs[Operand]], stack)
PassContext == Running("leardi") /\ Retire([regs EXCEPT !["rdi"] = Len(stack)], stack)
LoadVector == Running("loadrax") /\ Retire([regs EXCEPT !["rax"] = Top(Operand)], stack)
AddRsp == Running("addrsp") /\ Retire(regs, Drop(Operand))
PopRegister == Running("pop")    /\ Retire([regs EXCEPT ![Operand] = Top(0)], Drop(1))

Jump ==
  /\ Running("jmp") /\ rip' = Operand
  /\ UNCHANGED <<regs, rflagsIF, stack, mode, raised, frames>>

(* real_handler_table has 256 entries; what lies after it is not a handler. *)
CallHandler ==
  /\ Running("call")
  /\ IF regs["rax"] \in 0 .. 255
       THEN /\ rip' = HandlerAddress(regs["rax"])
            /\ stack' = Append(stack, rip + 1)
            /\ UNCHANGED mode
       ELSE mode' = "wild" /\ UNCHANGED <<rip, stack>>
  /\ UNCHANGED <<regs, rflagsIF, raised, frames>>

(* A handler may overwrite the registers its caller saves, then returns.    *)
HandlerBody(r10) ==
  /\ mode = "run" /\ InHandler /\ HandlerVector \in Custom
  /\ rip = HandlerAddress(HandlerVector)
  /\ regs' = [r \in DOMAIN regs |->
                IF r = "r10" THEN r10 ELSE IF r \in CallerSaved THEN Junk ELSE regs[r]]
  /\ rip' = rip + 1
  /\ UNCHANGED <<rflagsIF, stack, mode, raised, frames>>

HandlerReturn ==
  /\ mode = "run" /\ InHandler /\ rip # HandlerAddress(HandlerVector)
  /\ rip' = Top(0) /\ stack' = Drop(1)
  /\ UNCHANGED <<regs, rflagsIF, mode, raised, frames>>

(* defaultInterruptHandler(): kpanic() does not return. *)
HandlerPanics ==
  /\ mode = "run" /\ InHandler /\ HandlerVector \notin Custom
  /\ mode' = "halted"
  /\ UNCHANGED <<regs, rip, rflagsIF, stack, raised, frames>>

(* iretq takes rip, cs, rflags, rsp and ss off the stack; a cs that is not  *)
(* the code segment is a general protection fault.                         *)
ReturnFromInterrupt ==
  /\ Running("iretq") /\ Top(1) = regs["cs"]
  /\ rip' = Top(0) /\ rflagsIF' = (Top(2) = 1)
  /\ stack' = SubSeq(stack, 1, Top(3))
  /\ regs' = [regs EXCEPT !["ss"] = Top(4)]
  /\ frames' = Front(frames)
  /\ UNCHANGED <<mode, raised>>

ReturnFaults ==
  /\ Running("iretq") /\ Top(1) # regs["cs"]
  /\ mode' = "fault"
  /\ UNCHANGED <<regs, rip, rflagsIF, stack, raised, frames>>

(* The program goes on, with the registers it had; or nothing does.         *)
Undisturbed ==
  /\ mode # "run" \/ rip = Program
  /\ UNCHANGED vars

Step ==
  \/ PushRegister \/ PushImmediate \/ MoveSystem \/ PassContext \/ LoadVector
  \/ AddRsp \/ PopRegister \/ Jump \/ CallHandler
  \/ \E r10 \in R10Values : HandlerBody(r10)
  \/ HandlerReturn \/ HandlerPanics \/ ReturnFromInterrupt \/ ReturnFaults

Next == Step \/ (\E v \in Vectors : Interrupt(v)) \/ Undisturbed

Spec == Init /\ [][Next]_vars

(* The processor does not stop executing.                                  *)
FairSpec == Spec /\ WF_vars(Step)

-----------------------------------------------------------------------------
(* The innermost interrupt. *)
Interrupted == Last(frames)

(* The vectors whose stub pushes a 0 although the processor has pushed an   *)
(* error code: their frames have a word too many.                           *)
Misframed == {21, 29, 30}
MisframedFault == mode = "fault" /\ Interrupted.vector \in Misframed

(* struct registers_ctx, and a field of the one rdi points to.              *)
ContextFields ==
  <<"es", "ds", "cr4", "cr3", "cr2", "cr0",
    "r15", "r14", "r13", "r12", "r11", "r10", "r9", "r8",
    "rax", "rbx", "rcx", "rdx", "rsi", "rdi", "rbp",
    "interrupt_vector", "error_code", "rip", "cs", "rflags", "rsp", "ss">>
FieldIndex(f) == CHOOSE i \in DOMAIN ContextFields : ContextFields[i] = f
ContextField(f) == stack[regs["rdi"] + 1 - FieldIndex(f)]

(* A handler has just been entered, for the innermost interrupt. *)
HandlerEntered ==
  mode = "run" /\ InHandler /\ rip = HandlerAddress(HandlerVector)
FramedHandlerEntered == HandlerEntered /\ Interrupted.vector \notin Misframed

(* However interrupts nest, and at whatever instruction of the stub they    *)
(* come, iretq resumes what was interrupted where it was, with the          *)
(* registers, the interrupt flag and the whole stack it had.                *)
ReturnRestores ==
  [][frames' = Front(frames) /\ frames # <<>> =>
       /\ \A r \in General \cup Special : regs'[r] = Interrupted.regs[r]
       /\ rip' = Interrupted.rip /\ rflagsIF' = Interrupted.rflagsIF
       /\ stack' = Interrupted.stack]_vars

(* Nothing above the interrupted program's stack pointer is written to      *)
(* while handlers run: each frame lies beneath the one it interrupts.       *)
InterruptedStackUntouched ==
  \A i \in DOMAIN frames :
    IsPrefix(frames[i].stack, stack)

(* A handler is called with rsp on a 16-byte boundary, as the ABI and the   *)
(* static_assert on registers_ctx want it, whatever it interrupts, and what *)
(* the processor pushed is where registers_ctx has it: the state that was   *)
(* interrupted, the error code or 0, and the vector.                        *)
ContextShowsInterrupt ==
  FramedHandlerEntered =>
    /\ (Len(stack) - 1) % 2 = 0
    /\ ContextField("interrupt_vector") = Interrupted.vector
    /\ ContextField("error_code") =
         IF Interrupted.vector \in PushesErrorCode THEN ErrorCode ELSE 0
    /\ ContextField("rip") = Interrupted.rip
    /\ ContextField("cs") = Interrupted.regs["cs"]
    /\ ContextField("rflags") = IF Interrupted.rflagsIF THEN 1 ELSE 0
    /\ ContextField("rsp") = Len(Interrupted.stack)
    /\ ContextField("ss") = Interrupted.regs["ss"]

(* An interrupt whose handler returns is over at some time; the processor   *)
(* stops only in a panic, because the stub called what is no handler, or at *)
(* the iretq of a misframed vector.                                         *)
HandlersReturn ==
  frames # <<>> ~> frames = <<>> \/ mode \in {"halted", "wild"} \/ MisframedFault

(* A handler that was registered for a vector is called for that vector.    *)
DispatchByVector == HandlerEntered => HandlerVector = Interrupted.vector
=============================================================================
