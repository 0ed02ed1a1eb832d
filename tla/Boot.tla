-------------------------------- MODULE Boot --------------------------------
(***************************************************************************)
(* core/_start.cc: the boot code sets up a serial port, prints, installs   *)
(* the segment and interrupt tables and goes on printing and reading; from *)
(* the moment the interrupt table is loaded, an exception or an interrupt  *)
(* may come at any step, and its handler prints or reads, too.  Composes   *)
(* Serial and GlobalDescriptorTable; of the interrupt table it has what    *)
(* they meet: whether it is loaded, and the selector of its gates.         *)
(*                                                                         *)
(* The calls that install the tables are commented out in _start() at      *)
(* present: the boot code may halt instead of making them.                 *)
(*                                                                         *)
(* PollTxUnchecked, PollTxBackwards and PollRxUnchecked are faulty         *)
(* variants of the definitions that follow them, used only to see that a   *)
(* property notices the fault.                                             *)
(***************************************************************************)
EXTENDS Serial, GlobalDescriptorTable

CONSTANTS
  MaxNesting,     \* how many handlers there may be on top of each other
  MaxInterrupts,  \* bounds the number of interrupts
  MaxCalls,       \* bounds the calls the boot code makes after booting
  MaxReceived     \* bounds the bytes that arrive

ASSUME BootAssumption ==
  /\ MaxNesting \in Nat /\ MaxNesting < FifoSize
  /\ MaxInterrupts \in Nat /\ MaxCalls \in Nat /\ MaxReceived \in Nat

VARIABLES
  active,      \* the activations: the boot code, and a handler on each other
  idt,         \* the interrupt table is loaded
  fault,       \* a segment register was loaded with what it must not hold
  interrupts, calls, received,   \* what the bounds are about
  disturbed,   \* history: the data register was accessed under DLAB
  raced        \* history: a get() has taken the byte another one had seen

vars == <<serialVars, gdtVars, active, idt, fault, interrupts, calls, received, disturbed, raced>>

-----------------------------------------------------------------------------
(* An activation: where it is, where it goes on after the call it is in,    *)
(* its step of a sequence, and the selectors an interrupt has saved for it. *)
Top == active[Len(active)]
At(label) == ~fault /\ Top.at = label
Moved(label, step) == [active EXCEPT ![Len(active)].at = label, ![Len(active)].step = step]
Goto(label) == active' = Moved(label, 1)

control == <<idt, fault, interrupts, calls, received, disturbed, raced>>

Init ==
  /\ SerialInit /\ GdtInit
  /\ active = <<[at |-> "init", step |-> 1, then |-> "print", cs |-> 0, ss |-> 0]>>
  /\ idt = FALSE /\ fault = FALSE /\ disturbed = FALSE /\ raced = FALSE
  /\ interrupts = 0 /\ calls = 0 /\ received = 0

(* Serial::init(), a write at a time. *)
InitPort ==
  /\ At("init")
  /\ init(Top.step)
  /\ IF Top.step = Len(InitWrites) THEN Goto(Top.then)
                                   ELSE active' = Moved("init", Top.step + 1)
  /\ UNCHANGED <<gdtVars, control>>

(* print(): of the text, one character. *)
Banner ==
  /\ At("print")
  /\ active' = [active EXCEPT ![1].at = "put", ![1].then = "booted"]
  /\ UNCHANGED <<serialVars, gdtVars, control>>

PollTxUnchecked ==
  /\ At("put") /\ Goto("put out")
  /\ UNCHANGED <<serialVars, gdtVars, control>>

PollTxBackwards ==
  /\ At("put") /\ (port = "absent" \/ uart.tx # <<>>) /\ Goto("put out")
  /\ UNCHANGED <<serialVars, gdtVars, control>>

(* put(): the test that ends its loop, and the write. *)
PollTx ==
  /\ At("put") /\ tx_ready /\ Goto("put out")
  /\ UNCHANGED <<serialVars, gdtVars, control>>

Put ==
  /\ At("put out")
  /\ put(Len(active))
  /\ Goto(Top.then)
  /\ disturbed' = (disturbed \/ DLAB)
  /\ UNCHANGED <<gdtVars, idt, fault, interrupts, calls, received, raced>>

Flush ==
  /\ At("flush") /\ tx_ready /\ Goto(Top.then)
  /\ UNCHANGED <<serialVars, gdtVars, control>>

PollRxUnchecked ==
  /\ At("get") /\ Goto("get in")
  /\ UNCHANGED <<serialVars, gdtVars, control>>

(* get(): the test that ends its loop, and the read. *)
PollRx ==
  /\ At("get") /\ rx_ready /\ Goto("get in")
  /\ UNCHANGED <<serialVars, gdtVars, control>>

Get ==
  /\ At("get in")
  /\ get
  /\ Goto(Top.then)
  /\ disturbed' = (disturbed \/ DLAB)
  /\ raced' = (raced \/ \E i \in 1 .. Len(active) - 1 : active[i].at = "get in")
  /\ UNCHANGED <<gdtVars, idt, fault, interrupts, calls, received>>

(* GlobalDescriptorTable::load().  A selector that cannot be loaded is a    *)
(* fault.                                                                  *)
LoadGdt ==
  /\ At("booted") /\ lgdt /\ Goto("load")
  /\ UNCHANGED <<serialVars, control>>

LoadSegment ==
  /\ At("load")
  /\ IF Loadable(LoadSteps[Top.step][1], LoadSteps[Top.step][2])
       THEN /\ load(Top.step)
            /\ IF Top.step = Len(LoadSteps) THEN Goto("idt") ELSE active' = Moved("load", Top.step + 1)
            /\ UNCHANGED fault
       ELSE fault' = TRUE /\ UNCHANGED <<gdtVars, active>>
  /\ UNCHANGED <<serialVars, idt, interrupts, calls, received, disturbed, raced>>

(* InterruptDescriptorTable::init() ends in lidt. *)
LoadIdt ==
  /\ At("idt") /\ Goto("run")
  /\ idt' = TRUE
  /\ UNCHANGED <<serialVars, gdtVars, fault, interrupts, calls, received, disturbed, raced>>

(* The boot code calls the driver. *)
Call(f) ==
  /\ At("run") /\ calls < MaxCalls
  /\ calls' = calls + 1
  /\ active' = [active EXCEPT ![1].at = f, ![1].then = "run", ![1].step = 1]
  /\ UNCHANGED <<serialVars, gdtVars, idt, fault, interrupts, received, disturbed, raced>>

(* cli, and hlt for ever. *)
Halt ==
  /\ At("booted") \/ At("run")
  /\ Goto("halt")
  /\ UNCHANGED <<serialVars, gdtVars, control>>

-----------------------------------------------------------------------------
(* The processor pushes cs and ss and loads cs from the gate. *)
GateSelector == 8

Interrupt ==
  /\ idt /\ ~fault /\ Top.at # "halt"
  /\ interrupts < MaxInterrupts /\ Len(active) <= MaxNesting
  /\ interrupts' = interrupts + 1
  /\ IF CodeSelector(GateSelector)
       THEN /\ active' = Append(active, [at |-> "handler", step |-> 1, then |-> "iretq",
                                         cs |-> seg.cs, ss |-> seg.ss])
            /\ seg' = [seg EXCEPT !.cs = GateSelector]
            /\ UNCHANGED fault
       ELSE fault' = TRUE /\ UNCHANGED <<active, seg>>
  /\ UNCHANGED <<serialVars, gdtr, busy, idt, calls, received, disturbed, raced>>

(* A handler prints, reads, or does neither. *)
Handle(f) ==
  /\ At("handler") /\ Goto(f)
  /\ UNCHANGED <<serialVars, gdtVars, control>>

(* iretq loads both selectors, the stack's in 64-bit mode too. *)
Return ==
  /\ At("iretq")
  /\ IF CodeSelector(Top.cs) /\ DataSelector(Top.ss)
       THEN /\ seg' = [seg EXCEPT !.cs = Top.cs, !.ss = Top.ss]
            /\ active' = SubSeq(active, 1, Len(active) - 1)
            /\ UNCHANGED fault
       ELSE fault' = TRUE /\ UNCHANGED <<active, seg>>
  /\ UNCHANGED <<serialVars, gdtr, busy, idt, interrupts, calls, received, disturbed, raced>>

Sends == Transmit /\ UNCHANGED <<gdtVars, active, control>>

Arrives ==
  /\ received < MaxReceived
  /\ received' = received + 1
  /\ Receive(received + 1)
  /\ UNCHANGED <<gdtVars, active, idt, fault, interrupts, calls, disturbed, raced>>

Step ==
  \/ InitPort \/ Banner \/ PollTx \/ Put \/ Flush \/ PollRx \/ Get
  \/ LoadGdt \/ LoadSegment \/ LoadIdt \/ Return

Next ==
  \/ Step \/ Halt \/ Interrupt \/ Sends \/ Arrives
  \/ \E f \in {"put", "get", "flush", "init"} : Call(f)
  \/ \E f \in {"put", "get", "iretq"} : Handle(f)

Spec == Init /\ [][Next]_vars

(* A processor keeps executing, handlers act, and a port that is not stuck  *)
(* keeps transmitting.                                                     *)
FairSpec ==
  /\ Spec /\ WF_vars(Step) /\ WF_vars(Sends)
  /\ WF_vars(\E f \in {"put", "get", "iretq"} : Handle(f))

-----------------------------------------------------------------------------
(* Once nobody is within init(), the line has the speed and the format that *)
(* were asked for, unless a handler that came within init() used the data   *)
(* register while it was the divisor's; and that cannot happen when the     *)
(* port is set up before the interrupt table is loaded.                    *)
LineSpeedKept ==
  /\ port # "absent" /\ ~disturbed /\ active[1].at # "init" => SetUp
  /\ disturbed => calls > 0

(* No byte that put() has written is lost or overtaken, though the          *)
(* transmitter may not be empty any more when put() writes: handlers that   *)
(* print between the test and the write fill it, and it has room for as     *)
(* many as can be nested.                                                  *)
OutputInOrder == port # "absent" /\ ~disturbed => line \o uart.tx = sent

(* Every byte that arrives is returned by one get() and once, in order,     *)
(* unless a handler's get() came between another one's test and its read.   *)
ReceivedOnce == port # "absent" /\ ~disturbed /\ ~raced => got \o uart.rx = arrived

(* With both tables loaded, interrupts find code behind the gate's          *)
(* selector, what is running runs on the kernel's selectors, and the task   *)
(* register leads to the whole TSS and nothing else.  What load() leaves    *)
(* out is ss: the first handler to return faults when what the bootloader   *)
(* left there means something else in the kernel's table.  Nothing else     *)
(* ever faults.                                                            *)
SegmentsUsable ==
  IF fault THEN idt /\ Top.at = "iretq" /\ ~DataSelector(seg.ss)
  ELSE idt =>
         /\ CodeSelector(GateSelector) /\ CodeSelector(seg.cs) /\ TssReached
         /\ \A r \in {"ds", "es", "fs", "gs"} : KindOf(seg[r]) = "data"

(* A put() or a flush() comes to an end when the port transmits or is       *)
(* absent, whoever prints on top of it; only a handler that waits for input *)
(* can keep what it has interrupted from going on.                         *)
Waiting(i) == Len(active) >= i /\ active[i].at \in {"put", "flush"} /\ ~fault /\ port # "stuck"
PutReturns ==
  \A i \in 1 .. MaxNesting + 1 :
    Waiting(i) ~> ~Waiting(i) \/ (Len(active) > i /\ Top.at = "get")
=============================================================================
